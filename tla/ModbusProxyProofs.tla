------------------------- MODULE ModbusProxyProofs --------------------------
(***************************************************************************)
(* Proofs about ModbusProxy, for any buffer size, any way of cutting the   *)
(* reads, any requests, overrides, damage and timing.                      *)
(***************************************************************************)
EXTENDS ModbusProxy, ModbusFramesProofs, FiniteSetTheorems

\* A chunk is as long as it may be.
LEMMA Chunk ==
    ASSUME NEW c \in Chunks, NEW n \in Nat
    PROVE  Least(c, n) \in 0 .. n /\ Least(c, n) <= STREAM
  BY BufferAssumption DEF Least

\* The bytes of n registers.
LEMMA RegisterCells ==
    ASSUME NEW r \in Requests
    PROVE  RegisterBytes(r.count) \in Seq(Byte)
<1>1. r \in Request
  BY ByteAssumption
<1>2. 2 * r.count \in Nat
  BY <1>1, RequestParts
<1>3. \A i \in 1 .. 2 * r.count : Held[1 + ((i - 1) % 2)] \in Byte
  <2> SUFFICES ASSUME NEW i \in 1 .. 2 * r.count
               PROVE  Held[1 + ((i - 1) % 2)] \in Byte
    OBVIOUS
  <2>1. 1 + ((i - 1) % 2) \in {1, 2}
    OBVIOUS
  <2>2. Held[1] \in Byte /\ Held[2] \in Byte
    BY ByteAssumption
  <2> QED
    BY <2>1, <2>2
<1> QED
  BY <1>2, <1>3 DEF RegisterBytes

-----------------------------------------------------------------------------
(* Types. *)

LEMMA NoRequestIsNoValue == NoRequest \notin SlotValue
  BY DEF NoRequest, SlotValue

\* The request at the head of the controller's bytes.
LEMMA HeadRequestType ==
    ASSUME NEW b \in Seq(Cell), IsReadRequest(b)
    PROVE  HeadRequest(b) \in SlotValue /\ 8 \in 0 .. Len(b)
<1>1. Len(b) \in Nat /\ Len(b) >= 8
  BY LenProperties DEF IsReadRequest
<1>2. \A i \in 1 .. 8 : b[i] \in Cell
  BY <1>1, ElementOfSeq
<1>3. \A i \in 1 .. 8 : b[i].v \in Byte
  BY <1>2 DEF Cell
<1>4. 256 * b[3].v + b[4].v \in Word
  BY <1>3, TwoBytesTogether
<1>5. b[1].v \in 1 .. 247 /\ b[2].v \in {3, 4} /\ 256 * b[5].v + b[6].v \in 1 .. 125
  BY DEF IsReadRequest, HeadRequest, ValidDevice
<1>6. HeadRequest(b) \in SlotValue
  BY <1>4, <1>5 DEF HeadRequest, SlotValue
<1> QED
  BY <1>1, <1>6

\* The length of a frame, when one can start here.
LEMMA ResponseLenType ==
    ASSUME slot \in SlotValue \cup {NoRequest}, NEW b
    PROVE  ResponseLen(b) \in {0} \cup 5 .. 255
<1>1. ASSUME Wanted(b) PROVE 2 * slot.count + 5 \in 5 .. 255
  <2>1. slot.count \in 1 .. 125
    BY <1>1 DEF Wanted, SlotValue
  <2> QED
    BY <2>1
<1> QED
  BY <1>1 DEF ResponseLen

\* Overriding registers keeps a frame a frame of the same length.
LEMMA OverriddenType ==
    ASSUME NEW f \in Seq(Cell), Len(f) >= 2, NEW r,
           ovr \in [DOMAIN ovr -> Byte \X Byte]
    PROVE  Overridden(f, r) \in Seq(Cell) /\ Len(Overridden(f, r)) = Len(f)
<1> DEFINE n == Len(f) - 2
           Register(i) == <<r.dev, r.fn, (r.start + ((i - 4) \div 2)) % 65536>>
           Value(i) == IF i \in 4 .. 2 * r.count + 3 /\ Register(i) \in DOMAIN ovr
                       THEN ovr[Register(i)][1 + (i % 2)] ELSE f[i].v
           values == [i \in 1 .. n |-> Value(i)]
<1>1. n \in Nat /\ Len(f) \in Nat /\ \A i \in 1 .. n : f[i] \in Cell
  BY ElementOfSeq, LenProperties
<1>2. ASSUME NEW i \in 1 .. n PROVE Value(i) \in Byte
  <2>1. f[i].v \in Byte
    BY <1>1 DEF Cell
  <2>2. 1 + (i % 2) \in {1, 2}
    BY <1>1
  <2>3. ASSUME Register(i) \in DOMAIN ovr
        PROVE  ovr[Register(i)][1] \in Byte /\ ovr[Register(i)][2] \in Byte
    <3> HIDE DEF Register
    <3> QED
      BY <2>3
  <2> HIDE DEF Register
  <2> QED
    BY <2>1, <2>2, <2>3
<1>4. Overridden(f, r) = IF values = ValuesOf(SubSeq(f, 1, n)) THEN f ELSE Frame(values)
  BY DEF Overridden
<1> HIDE DEF Value
<1>5. values \in Seq(Byte) /\ Len(values) = n
  BY <1>1, <1>2
<1> HIDE DEF values
<1>6. Frame(values) \in Seq(Cell) /\ Len(Frame(values)) = Len(values) + 2
  BY <1>5, FrameCells
<1> QED
  BY <1>1, <1>4, <1>5, <1>6

\* With no override the frame goes through as it is.
LEMMA OverriddenNothing ==
    ASSUME NEW f \in Seq(Cell), Len(f) >= 2, NEW r, DOMAIN ovr = {}
    PROVE  Overridden(f, r) = f
<1> DEFINE n == Len(f) - 2
<1>1. n \in Nat /\ Len(f) \in Nat /\ n <= Len(f)
  BY LenProperties
<1>2. Len(SubSeq(f, 1, n)) = n /\ \A i \in 1 .. n : SubSeq(f, 1, n)[i] = f[i]
  <2>1. 1 \in Int /\ n \in Int /\ \A i \in 1 .. n : f[i] \in Cell
    BY <1>1, ElementOfSeq
  <2>2. /\ Len(SubSeq(f, 1, n)) = IF 1 <= n THEN n - 1 + 1 ELSE 0
        /\ \A i \in 1 .. n - 1 + 1 : SubSeq(f, 1, n)[i] = f[1 + i - 1]
    BY <2>1, SubSeqProperties
  <2>3. Len(SubSeq(f, 1, n)) = n
    <3> HIDE DEF n
    <3> QED
      BY <1>1, <2>2
  <2>4. ASSUME NEW i \in 1 .. n PROVE SubSeq(f, 1, n)[i] = f[i]
    <3>1. i \in 1 .. n - 1 + 1 /\ 1 + i - 1 = i
      BY <1>1
    <3> QED
      BY <2>2, <3>1
  <2> QED
    BY <2>3, <2>4
<1>3. ValuesOf(SubSeq(f, 1, n)) = [i \in 1 .. n |-> f[i].v]
  BY <1>2 DEF ValuesOf
<1> QED
  BY <1>3 DEF Overridden

\* What goes to the controller next is as long as what leaves the buffer, and
\* the same bytes if there is no override.
LEMMA OutgoingType ==
    ASSUME TypeOK, ~NeedMore(buf)
    PROVE  /\ Outgoing(buf) \in Seq(Cell)
           /\ Len(Outgoing(buf)) \in 1 .. Len(buf)
           /\ DOMAIN ovr = {} => Outgoing(buf) = SubSeq(buf, 1, Len(Outgoing(buf)))
<1>1. buf \in Seq(Cell) /\ Len(buf) \in Nat /\ Len(buf) >= 4
  BY LenProperties DEF TypeOK, NeedMore
<1>2. CASE FrameHere(buf)
  <2> DEFINE n == ResponseLen(buf)
             f == SubSeq(buf, 1, n)
  <2>1. n \in Int /\ 5 <= n /\ n <= Len(buf)
    <3>1. n \in {0} \cup 5 .. 255
      BY ResponseLenType DEF TypeOK
    <3>2. n > 0 /\ n <= Len(buf)
      BY <1>2 DEF FrameHere, HasValidCrc
    <3> HIDE DEF n
    <3> QED
      BY <3>1, <3>2
  <2> HIDE DEF n
  <2>2. f \in Seq(Cell) /\ Len(f) = n
    <3>1. n \in 0 .. Len(buf)
      BY <1>1, <2>1
    <3> QED
      BY <1>1, <3>1, Cut
  <2>3. Outgoing(buf) = IF IsRead(buf) THEN Overridden(f, slot) ELSE f
    BY <1>2 DEF Outgoing, n
  <2> HIDE DEF f
  <2>4. Overridden(f, slot) \in Seq(Cell) /\ Len(Overridden(f, slot)) = Len(f)
    <3>1. Len(f) >= 2
      BY <2>1, <2>2
    <3>2. ovr \in [DOMAIN ovr -> Byte \X Byte]
      BY DEF TypeOK
    <3> QED
      BY <2>2, <3>1, <3>2, OverriddenType
  <2>5. DOMAIN ovr = {} => Overridden(f, slot) = f
    BY <2>1, <2>2, OverriddenNothing
  <2>6. Outgoing(buf) \in Seq(Cell) /\ Len(Outgoing(buf)) = n
    BY <2>2, <2>3, <2>4
  <2>7. DOMAIN ovr = {} => Outgoing(buf) = SubSeq(buf, 1, n)
    BY <2>3, <2>5 DEF f
  <2> QED
    BY <1>1, <2>1, <2>6, <2>7
<1>3. CASE ~FrameHere(buf)
  <2>1. Outgoing(buf) = SubSeq(buf, 1, 1)
    BY <1>3 DEF Outgoing
  <2>2. SubSeq(buf, 1, 1) \in Seq(Cell) /\ Len(SubSeq(buf, 1, 1)) = 1
    BY <1>1, Cut
  <2> QED
    BY <1>1, <2>1, <2>2
<1> QED
  BY <1>2, <1>3

LEMMA TypeInit == Init => TypeOK
<1> SUFFICES ASSUME Init PROVE TypeOK
  OBVIOUS
<1>1. bus \in Seq(Cell) /\ sent \in Seq(Cell)
  BY BufferAssumption DEF Init
<1>2. <<>> \in Seq(Cell) /\ Len(<<>>) = 0
  BY EmptySeq
<1>3. /\ ovr = [k \in {} |-> <<0, 0>>] /\ DOMAIN ovr = {}
      /\ ovr \in [DOMAIN ovr -> Byte \X Byte]
  BY DEF Init
<1>4. IsFiniteSet(DOMAIN ovr) /\ Cardinality(DOMAIN ovr) = 0
  BY <1>3, FS_EmptySet
<1>5. STREAM \in Nat /\ MaxOverrides \in Nat
  BY BufferAssumption
<1>6. Len(up) <= STREAM /\ Len(buf) <= STREAM
  BY <1>2, <1>5 DEF Init
<1>7. Cardinality(DOMAIN ovr) <= MaxOverrides
  BY <1>4, <1>5
<1>8. DOMAIN ovr \subseteq Key
  BY <1>3
<1> QED
  BY <1>1, <1>2, <1>3, <1>4, <1>6, <1>7, <1>8 DEF Init, TypeOK

LEMMA ControllerAsksType == ASSUME TypeOK, ControllerAsks PROVE TypeOK'
<1>1. ctl' \in Seq(Cell)
  <2>1. PICK r \in Requests, how \in Damage : ctl' = Damaged(RequestFrame(r), how)
    BY DEF ControllerAsks
  <2>2. r \in Request /\ how \in Damages
    BY ByteAssumption
  <2>3. RequestFrame(r) \in Seq(Cell) /\ Len(RequestFrame(r)) = 8
    BY <2>2, RequestCells
  <2>4. Len(RequestFrame(r)) >= 2
    BY <2>3
  <2> QED
    BY <2>1, <2>2, <2>3, <2>4, DamagedCells
<1> QED
  BY <1>1 DEF ControllerAsks, TypeOK

LEMMA SendsType ==
    ASSUME TypeOK, NEW r \in Requests, NEW how \in Damage, NEW d,
           NEW f \in Seq(Cell), Len(f) >= 2, Sends(r, f, how, d)
    PROVE  /\ Damaged(f, how) \in Seq(Cell)
           /\ bus' = bus \o Damaged(f, how) /\ bus' \in Seq(Cell)
           /\ sent' = sent \o Damaged(f, how) /\ sent' \in Seq(Cell)
<1>0. how \in Damages
  BY ByteAssumption
<1>1. Damaged(f, how) \in Seq(Cell)
  BY <1>0, DamagedCells
<1>2. bus \in Seq(Cell) /\ sent \in Seq(Cell)
  BY DEF TypeOK
<1>3. bus \o Damaged(f, how) \in Seq(Cell) /\ sent \o Damaged(f, how) \in Seq(Cell)
  BY <1>1, <1>2, ConcatProperties
<1> QED
  BY <1>1, <1>3 DEF Sends

\* A device that answers adds a sequence of cells to the bus, or none.
LEMMA AnswerCells ==
    ASSUME TypeOK, DeviceAnswers
    PROVE  \E g \in Seq(Cell) : /\ bus' = bus \o g /\ bus' \in Seq(Cell)
                                /\ sent' = sent \o g /\ sent' \in Seq(Cell)
<1>0. bus \in Seq(Cell) /\ sent \in Seq(Cell) /\ <<>> \in Seq(Cell)
  BY EmptySeq DEF TypeOK
<1>1. ASSUME NEW r \in Requests, NEW how \in Damage, Sends(r, ReplyFrame(r, RegisterBytes(r.count)), how, r.fn # 6)
      PROVE  \E g \in Seq(Cell) : /\ bus' = bus \o g /\ bus' \in Seq(Cell)
                                  /\ sent' = sent \o g /\ sent' \in Seq(Cell)
  <2> DEFINE f == ReplyFrame(r, RegisterBytes(r.count))
  <2>1. f \in Seq(Cell) /\ Len(f) >= 2
    <3>1. r \in Request
      BY ByteAssumption
    <3> QED
      BY <3>1, RegisterCells, ReplyCells
  <2> QED
    BY <1>1, <2>1, SendsType
<1>2. ASSUME NEW r \in Requests, NEW how \in Damage, Sends(r, ExceptionFrame(r), how, FALSE)
      PROVE  \E g \in Seq(Cell) : /\ bus' = bus \o g /\ bus' \in Seq(Cell)
                                  /\ sent' = sent \o g /\ sent' \in Seq(Cell)
  <2>1. ExceptionFrame(r) \in Seq(Cell) /\ Len(ExceptionFrame(r)) >= 2
    <3>1. r \in Request
      BY ByteAssumption
    <3> QED
      BY <3>1, ExceptionCells
  <2> QED
    BY <1>2, <2>1, SendsType
<1>3. ASSUME bus' = bus, sent' = sent
      PROVE  \E g \in Seq(Cell) : /\ bus' = bus \o g /\ bus' \in Seq(Cell)
                                  /\ sent' = sent \o g /\ sent' \in Seq(Cell)
  <2>1. bus \o <<>> = bus /\ sent \o <<>> = sent
    BY <1>0, ConcatEmptySeq
  <2> QED
    BY <1>0, <1>3, <2>1
<1> QED
  BY <1>1, <1>2, <1>3 DEF DeviceAnswers

LEMMA DeviceAnswersType == ASSUME TypeOK, DeviceAnswers PROVE TypeOK'
<1>1. bus' \in Seq(Cell) /\ sent' \in Seq(Cell)
  BY AnswerCells
<1>2. atDev' \in Seq(Cell)
  BY EmptySeq DEF DeviceAnswers
<1> QED
  BY <1>1, <1>2 DEF DeviceAnswers, TypeOK

\* What one read takes from a port.
LEMMA ReadTypes ==
    ASSUME NEW c \in Chunks, NEW s \in Seq(Cell)
    PROVE  /\ Least(c, Len(s)) \in 0 .. Len(s) /\ Least(c, Len(s)) <= STREAM
           /\ SubSeq(s, 1, Least(c, Len(s))) \in Seq(Cell)
           /\ Len(SubSeq(s, 1, Least(c, Len(s)))) = Least(c, Len(s))
           /\ Drop(s, Least(c, Len(s))) \in Seq(Cell)
           /\ Len(Drop(s, Least(c, Len(s)))) = Len(s) - Least(c, Len(s))
           /\ SubSeq(s, 1, Least(c, Len(s))) \o Drop(s, Least(c, Len(s))) = s
<1>1. Len(s) \in Nat
  BY LenProperties
<1>2. Least(c, Len(s)) \in 0 .. Len(s) /\ Least(c, Len(s)) <= STREAM
  BY <1>1, Chunk
<1> QED
  BY <1>2, Cut

LEMMA DetectReadType ==
    ASSUME TypeOK, NEW c \in Chunks, NEW d \in Chunks, DetectRead(c, d) PROVE TypeOK'
<1> DEFINE k == Least(c, Len(ctl))
           n == Least(d, Len(bus))
<1>0. ctl \in Seq(Cell) /\ bus \in Seq(Cell) /\ up \in Seq(Cell) /\ buf \in Seq(Cell)
  BY DEF TypeOK
<1>1. /\ SubSeq(ctl, 1, k) \in Seq(Cell) /\ Len(SubSeq(ctl, 1, k)) = k /\ Drop(ctl, k) \in Seq(Cell)
      /\ SubSeq(bus, 1, n) \in Seq(Cell) /\ Len(SubSeq(bus, 1, n)) = n /\ Drop(bus, n) \in Seq(Cell)
  BY <1>0, ReadTypes
<1>2. /\ up \o SubSeq(ctl, 1, k) \in Seq(Cell) /\ Len(up \o SubSeq(ctl, 1, k)) = Len(up) + k
      /\ buf \o SubSeq(bus, 1, n) \in Seq(Cell) /\ Len(buf \o SubSeq(bus, 1, n)) = Len(buf) + n
  BY <1>0, <1>1, ConcatProperties
<1>3. /\ ctl' = Drop(ctl, k) /\ bus' = Drop(bus, n)
      /\ up' = IF Len(up) + k <= STREAM THEN up \o SubSeq(ctl, 1, k) ELSE up
      /\ buf' = IF Len(buf) + n <= STREAM THEN buf \o SubSeq(bus, 1, n) ELSE buf
      /\ ph' \in {"up", ph} /\ ready' \in {ready, {"scan"}}
      /\ UNCHANGED <<slot, ovr, atDev, env, fwd, typed>>
  BY DEF DetectRead
<1> HIDE DEF k, n
<1>4. up' \in Seq(Cell) /\ Len(up') <= STREAM
  BY <1>2, <1>3 DEF TypeOK
<1>5. buf' \in Seq(Cell) /\ Len(buf') <= STREAM
  BY <1>2, <1>3 DEF TypeOK
<1>6. ctl' \in Seq(Cell) /\ bus' \in Seq(Cell)
  BY <1>1, <1>3
<1> QED
  BY <1>3, <1>4, <1>5, <1>6 DEF TypeOK, env

LEMMA ReadControllerType ==
    ASSUME TypeOK, NEW c \in Chunks, ReadController(c) PROVE TypeOK'
<1> DEFINE k == Least(c, Len(ctl))
           g == SubSeq(ctl, 1, k)
           over == Len(up) + k - STREAM
           kept == IF over > 0 THEN Drop(up, over) ELSE up
<1>0. /\ ctl \in Seq(Cell) /\ atDev \in Seq(Cell) /\ up \in Seq(Cell)
      /\ Len(up) \in Nat /\ Len(up) <= STREAM /\ Len(ctl) \in Nat
  BY LenProperties DEF TypeOK
<1>1. /\ k \in 0 .. Len(ctl) /\ k <= STREAM
      /\ g \in Seq(Cell) /\ Len(g) = k /\ Drop(ctl, k) \in Seq(Cell)
  BY <1>0, ReadTypes
<1>2. /\ ctl' = Drop(ctl, k) /\ atDev' = atDev \o g /\ up' = kept \o g
      /\ ph' = "up" /\ ready' = ready \ {"ctl"}
      /\ UNCHANGED <<bus, buf, slot, ovr, env, fwd, typed>>
  BY DEF ReadController
<1> HIDE DEF k, g
<1>3. STREAM \in Nat /\ over \in Int
  BY <1>0, <1>1, BufferAssumption
<1>4. kept \in Seq(Cell) /\ Len(kept) + k <= STREAM
  <2>1. CASE over > 0
    <3>1. over \in 0 .. Len(up)
      BY <1>0, <1>1, <1>3, <2>1
    <3>2. Drop(up, over) \in Seq(Cell) /\ Len(Drop(up, over)) = Len(up) - over
      BY <1>0, <3>1, Cut
    <3> QED
      BY <1>0, <1>1, <1>3, <2>1, <3>2
  <2>2. CASE ~(over > 0)
    <3>1. kept = up
      BY <2>2
    <3>2. Len(up) + k <= STREAM
      BY <1>0, <1>1, <1>3, <2>2
    <3> QED
      BY <1>0, <3>1, <3>2
  <2> QED
    BY <2>1, <2>2
<1> HIDE DEF kept
<1>5. /\ up' \in Seq(Cell) /\ Len(up') = Len(kept) + k
      /\ atDev' \in Seq(Cell)
  BY <1>0, <1>1, <1>2, <1>4, ConcatProperties
<1>6. ctl' \in Seq(Cell)
  BY <1>1, <1>2
<1> QED
  BY <1>2, <1>4, <1>5, <1>6 DEF TypeOK, env

\* What a read from the bus leaves in the buffer and sends on to make room.
LEMMA ReadBusParts ==
    ASSUME TypeOK, NEW c \in Chunks, ReadBus(c)
    PROVE  \E n \in 0 .. Len(buf), g \in Seq(Cell) :
              /\ fwd' = fwd \o SubSeq(buf, 1, n)
              /\ buf' = Drop(buf, n) \o g
              /\ bus' \in Seq(Cell) /\ g \o bus' = bus
              /\ Len(buf) - n + Len(g) <= STREAM
<1> DEFINE k == Least(c, Len(bus))
           g == SubSeq(bus, 1, k)
           over == Len(buf) + k - STREAM
           n == IF over > 0 THEN over ELSE 0
<1>0. /\ bus \in Seq(Cell) /\ Len(bus) \in Nat
      /\ Len(buf) \in Nat /\ Len(buf) <= STREAM
  BY LenProperties DEF TypeOK
<1>1. /\ k \in 0 .. Len(bus) /\ k <= STREAM
      /\ g \in Seq(Cell) /\ Len(g) = k /\ Drop(bus, k) \in Seq(Cell)
      /\ g \o Drop(bus, k) = bus
  BY <1>0, ReadTypes
<1>2. fwd' = fwd \o SubSeq(buf, 1, n) /\ buf' = Drop(buf, n) \o g /\ bus' = Drop(bus, k)
  BY DEF ReadBus
<1> HIDE DEF k, g
<1>3. STREAM \in Nat
  BY BufferAssumption
<1>4. n \in 0 .. Len(buf)
  BY <1>0, <1>1, <1>3
<1>5. Len(buf) - n + k <= STREAM
  BY <1>0, <1>1, <1>3
<1> HIDE DEF n
<1>6. bus' \in Seq(Cell) /\ g \o bus' = bus /\ Len(buf) - n + Len(g) <= STREAM
  BY <1>1, <1>2, <1>5
<1> QED
  BY <1>1, <1>2, <1>4, <1>6

\* What a write that fails while room is made has sent on.
LEMMA MakingRoomParts ==
    ASSUME TypeOK, NEW c \in Chunks, MakingRoomFails(c)
    PROVE  /\ \E n \in 0 .. Len(buf) : fwd' = fwd \o SubSeq(buf, 1, n)
           /\ bus' \in Seq(Cell)
<1> DEFINE k == Least(c, Len(bus))
           over == Len(buf) + k - STREAM
<1>0. /\ bus \in Seq(Cell) /\ Len(bus) \in Nat
      /\ Len(buf) \in Nat /\ Len(buf) <= STREAM /\ STREAM \in Nat
  BY LenProperties, BufferAssumption DEF TypeOK
<1>1. k \in 0 .. Len(bus) /\ k <= STREAM /\ Drop(bus, k) \in Seq(Cell)
  BY <1>0, ReadTypes
<1>2. bus' = Drop(bus, k) /\ over > 0
  BY DEF MakingRoomFails
<1>3. PICK n \in 0 .. over - 1 : fwd' = fwd \o SubSeq(buf, 1, n)
  BY DEF MakingRoomFails
<1> HIDE DEF k
<1>4. n \in 0 .. Len(buf)
  BY <1>0, <1>1, <1>2
<1> QED
  BY <1>1, <1>2, <1>3, <1>4

LEMMA MakingRoomType ==
    ASSUME TypeOK, NEW c \in Chunks, MakingRoomFails(c) PROVE TypeOK'
<1>0. buf \in Seq(Cell) /\ fwd \in Seq(Cell)
  BY DEF TypeOK
<1>1. PICK n \in 0 .. Len(buf) : fwd' = fwd \o SubSeq(buf, 1, n)
  BY MakingRoomParts
<1>2. SubSeq(buf, 1, n) \in Seq(Cell)
  BY <1>0, Cut
<1>3. fwd' \in Seq(Cell) /\ bus' \in Seq(Cell)
  BY <1>0, <1>1, <1>2, ConcatProperties, MakingRoomParts
<1> QED
  BY <1>3 DEF MakingRoomFails, TypeOK, env

LEMMA ReadBusType ==
    ASSUME TypeOK, NEW c \in Chunks, ReadBus(c) PROVE TypeOK'
<1>0. buf \in Seq(Cell) /\ fwd \in Seq(Cell)
  BY DEF TypeOK
<1>1. PICK n \in 0 .. Len(buf), g \in Seq(Cell) :
              /\ fwd' = fwd \o SubSeq(buf, 1, n)
              /\ buf' = Drop(buf, n) \o g
              /\ bus' \in Seq(Cell) /\ g \o bus' = bus
              /\ Len(buf) - n + Len(g) <= STREAM
  BY ReadBusParts
<1>2. /\ SubSeq(buf, 1, n) \in Seq(Cell)
      /\ Drop(buf, n) \in Seq(Cell) /\ Len(Drop(buf, n)) = Len(buf) - n
  BY <1>0, Cut
<1>3. /\ fwd' \in Seq(Cell)
      /\ buf' \in Seq(Cell) /\ Len(buf') = Len(Drop(buf, n)) + Len(g)
  BY <1>0, <1>1, <1>2, ConcatProperties
<1>4. Len(buf') <= STREAM
  BY <1>1, <1>2, <1>3
<1> QED
  BY <1>1, <1>3, <1>4 DEF ReadBus, TypeOK, env

LEMMA ScanType == ASSUME TypeOK, ScanRequest \/ ScanSkip \/ ScanEnd PROVE TypeOK'
<1>0. up \in Seq(Cell) /\ Len(up) \in Nat /\ Len(up) <= STREAM /\ STREAM \in Nat
  BY LenProperties, BufferAssumption DEF TypeOK
<1>1. CASE ScanRequest
  <2>1. HeadRequest(up) \in SlotValue /\ 8 \in 0 .. Len(up)
    BY <1>0, <1>1, HeadRequestType DEF ScanRequest
  <2>2. Drop(up, 8) \in Seq(Cell) /\ Len(Drop(up, 8)) = Len(up) - 8
    BY <1>0, <2>1, Cut
  <2>3. Len(Drop(up, 8)) <= STREAM
    BY <1>0, <2>2
  <2> QED
    BY <1>1, <2>1, <2>2, <2>3 DEF ScanRequest, TypeOK, env
<1>2. CASE ScanSkip
  <2>1. 1 \in 0 .. Len(up)
    BY <1>0, <1>2 DEF ScanSkip
  <2>2. Drop(up, 1) \in Seq(Cell) /\ Len(Drop(up, 1)) = Len(up) - 1
    BY <1>0, <2>1, Cut
  <2>3. Len(Drop(up, 1)) <= STREAM
    BY <1>0, <2>2
  <2> QED
    BY <1>2, <2>2, <2>3 DEF ScanSkip, TypeOK, env
<1>3. CASE ScanEnd
  BY <1>3 DEF ScanEnd, TypeOK, env
<1> QED
  BY <1>1, <1>2, <1>3

LEMMA ForwardType == ASSUME TypeOK, Forward PROVE TypeOK'
<1> DEFINE n == Len(Outgoing(buf))
<1>0. /\ buf \in Seq(Cell) /\ fwd \in Seq(Cell)
      /\ Len(buf) \in Nat /\ Len(buf) <= STREAM /\ STREAM \in Nat
  BY LenProperties, BufferAssumption DEF TypeOK
<1>1. Outgoing(buf) \in Seq(Cell) /\ n \in 1 .. Len(buf)
  BY OutgoingType DEF Forward
<1>2. fwd' = fwd \o Outgoing(buf) /\ buf' = Drop(buf, n)
  BY DEF Forward
<1>3. slot' \in SlotValue \cup {NoRequest}
  BY DEF Forward, TypeOK
<1> HIDE DEF n
<1>4. fwd' \in Seq(Cell)
  BY <1>0, <1>1, <1>2, ConcatProperties
<1>5. n \in 0 .. Len(buf)
  BY <1>0, <1>1
<1>6. buf' \in Seq(Cell) /\ Len(buf') = Len(buf) - n
  BY <1>0, <1>2, <1>5, Cut
<1>7. Len(buf') <= STREAM
  BY <1>0, <1>5, <1>6
<1> QED
  BY <1>3, <1>4, <1>6, <1>7 DEF Forward, TypeOK, env

LEMMA ForwardFailsType == ASSUME TypeOK, ForwardFails PROVE TypeOK'
<1>1. Outgoing(buf) \in Seq(Cell) /\ Len(Outgoing(buf)) \in Nat
  BY OutgoingType, LenProperties DEF ForwardFails
<1>2. PICK n \in 0 .. Len(Outgoing(buf)) - 1 : fwd' = fwd \o SubSeq(Outgoing(buf), 1, n)
  BY DEF ForwardFails
<1>3. n \in 0 .. Len(Outgoing(buf))
  BY <1>1
<1>4. SubSeq(Outgoing(buf), 1, n) \in Seq(Cell) /\ fwd \in Seq(Cell)
  BY <1>1, <1>3, Cut DEF TypeOK
<1>5. fwd' \in Seq(Cell)
  BY <1>2, <1>4, ConcatProperties
<1> QED
  BY <1>5 DEF ForwardFails, TypeOK, env

LEMMA SetOverrideType == ASSUME TypeOK, NEW o \in Typed, SetOverride(o) PROVE TypeOK'
<1> DEFINE key == <<ParsedDevice(o.dev), o.fn, o.reg>>
<1>1. /\ ValidDevice(ParsedDevice(o.dev))
      /\ key \in DOMAIN ovr \/ Cardinality(DOMAIN ovr) < MaxOverrides
      /\ ovr' = [k \in DOMAIN ovr \cup {key} |-> IF k = key THEN o.value ELSE ovr[k]]
      /\ typed' = typed \cup {o}
      /\ UNCHANGED <<ph, ready, ctl, bus, up, buf, slot, atDev, env, fwd>>
  BY DEF SetOverride
<1>2. o \in Command
  BY ByteAssumption
<1>3. key \in Key
  <2>1. ParsedDevice(o.dev) \in Byte
    BY <1>1 DEF ValidDevice, Byte
  <2>2. o.fn \in {3, 4} /\ o.reg \in Word
    BY <1>2 DEF Command
  <2> QED
    BY <2>1, <2>2 DEF Key
<1>4. o.value \in Byte \X Byte
  BY <1>2 DEF Command
<1> HIDE DEF key
<1>5. DOMAIN ovr' = DOMAIN ovr \cup {key}
  BY <1>1
<1>6. ovr' \in [DOMAIN ovr' -> Byte \X Byte]
  BY <1>1, <1>4, <1>5 DEF TypeOK
<1>7. IsFiniteSet(DOMAIN ovr) /\ Cardinality(DOMAIN ovr) \in Nat
      /\ Cardinality(DOMAIN ovr) <= MaxOverrides
  BY FS_CardinalityType DEF TypeOK
<1>8. /\ IsFiniteSet(DOMAIN ovr \cup {key})
      /\ Cardinality(DOMAIN ovr \cup {key}) =
            IF key \in DOMAIN ovr THEN Cardinality(DOMAIN ovr) ELSE Cardinality(DOMAIN ovr) + 1
  BY <1>7, FS_AddElement
<1>9. Cardinality(DOMAIN ovr') <= MaxOverrides
  BY <1>1, <1>5, <1>7, <1>8, BufferAssumption
<1>10. DOMAIN ovr' \subseteq Key /\ IsFiniteSet(DOMAIN ovr') /\ typed' \subseteq Command
  BY <1>1, <1>2, <1>3, <1>5, <1>8 DEF TypeOK
<1> QED
  BY <1>1, <1>6, <1>9, <1>10 DEF TypeOK, env

LEMMA ClearOverrideType ==
    ASSUME TypeOK, NEW key \in DOMAIN ovr, ClearOverride(key) PROVE TypeOK'
<1>1. /\ ovr' = [k \in DOMAIN ovr \ {key} |-> ovr[k]]
      /\ UNCHANGED <<ph, ready, ctl, bus, up, buf, slot, atDev, env, fwd, typed>>
  BY DEF ClearOverride
<1>2. DOMAIN ovr' = DOMAIN ovr \ {key}
  BY <1>1
<1>3. ovr' \in [DOMAIN ovr' -> Byte \X Byte]
  BY <1>1, <1>2 DEF TypeOK
<1>4. IsFiniteSet(DOMAIN ovr) /\ Cardinality(DOMAIN ovr) \in Nat
      /\ Cardinality(DOMAIN ovr) <= MaxOverrides
  BY FS_CardinalityType DEF TypeOK
<1>5. /\ IsFiniteSet(DOMAIN ovr \ {key})
      /\ Cardinality(DOMAIN ovr \ {key}) = Cardinality(DOMAIN ovr) - 1
  BY <1>4, FS_RemoveElement
<1>6. Cardinality(DOMAIN ovr') <= MaxOverrides
  BY <1>2, <1>4, <1>5, BufferAssumption
<1>7. DOMAIN ovr' \subseteq Key /\ IsFiniteSet(DOMAIN ovr')
  BY <1>2, <1>5 DEF TypeOK
<1> QED
  BY <1>1, <1>3, <1>6, <1>7 DEF TypeOK, env

\* Every step keeps every variable in its type and both buffers and the table
\* of overrides within their arrays.
LEMMA TypeStep == ASSUME TypeOK, [Next]_vars PROVE TypeOK'
<1>1. CASE ControllerAsks
  BY <1>1, ControllerAsksType
<1>2. CASE DeviceAnswers
  BY <1>2, DeviceAnswersType
<1>3. ASSUME NEW c \in Chunks, NEW d \in Chunks, DetectRead(c, d) PROVE TypeOK'
  BY <1>3, DetectReadType
<1>4. CASE Poll
  BY <1>4 DEF Poll, TypeOK, env
<1>5. ASSUME NEW c \in Chunks, ReadController(c) PROVE TypeOK'
  BY <1>5, ReadControllerType
<1>6. ASSUME NEW c \in Chunks, ReadBus(c) PROVE TypeOK'
  BY <1>6, ReadBusType
<1>15. ASSUME NEW c \in Chunks, MakingRoomFails(c) PROVE TypeOK'
  BY <1>15, MakingRoomType
<1>7. CASE ScanRequest \/ ScanSkip \/ ScanEnd
  BY <1>7, ScanType
<1>8. CASE Forward
  BY <1>8, ForwardType
<1>9. CASE ForwardEnd
  BY <1>9 DEF ForwardEnd, TypeOK, env
<1>10. CASE ForwardFails
  BY <1>10, ForwardFailsType
<1>11. ASSUME NEW o \in Typed, SetOverride(o) PROVE TypeOK'
  BY <1>11, SetOverrideType
<1>12. ASSUME NEW key \in DOMAIN ovr, ClearOverride(key) PROVE TypeOK'
  BY <1>12, ClearOverrideType
<1>13. CASE Stop
  BY <1>13 DEF Stop, TypeOK, env
<1>14. CASE UNCHANGED vars
  BY <1>14 DEF vars, TypeOK
<1> QED
  BY <1>1, <1>2, <1>3, <1>4, <1>5, <1>6, <1>7, <1>8, <1>9, <1>10, <1>11, <1>12, <1>13, <1>14, <1>15
  DEF Next, Proxy

\* Every variable of the proxy has its type, and neither parse buffer nor the
\* table of overrides of main ever holds more than its array.
THEOREM TypeCorrect == Spec => []TypeOK
  BY TypeInit, TypeStep, PTL DEF Spec

-----------------------------------------------------------------------------
(* The controller's side of the proxy. *)

Whole ==
    /\ Len(fwd) + Len(buf) + Len(bus) = Len(sent)
    /\ \E taken \in Seq(Cell) : /\ Len(taken) = Len(fwd) /\ taken \o (buf \o bus) = sent
                                /\ typed = {} => taken = fwd

\* What was written, what is held and what is not read yet are what was sent.
\* While the ports are being told apart nothing is forwarded, no request reaches
\* the device, and so what it sent before the start fits in the buffer; and
\* without a set command there is no override.
OrderInv ==
    /\ ph = "detect" => atDev = <<>> /\ fwd = <<>> /\ Len(sent) <= STREAM
    /\ typed = {} => DOMAIN ovr = {}
    /\ ph # "stopped" => Whole
    /\ InOrder

\* When nothing is missing the order is right, here before and after a step.
LEMMA WholeInOrder == ASSUME TypeOK, Whole PROVE InOrder
<1>1. /\ fwd \in Seq(Cell) /\ buf \in Seq(Cell) /\ bus \in Seq(Cell)
      /\ Len(fwd) \in Nat /\ Len(buf) \in Nat /\ Len(bus) \in Nat
  BY LenProperties DEF TypeOK
<1>2. Len(fwd) + Len(buf) + Len(bus) = Len(sent)
  BY DEF Whole
<1>3. Len(fwd) <= Len(sent)
  BY <1>1, <1>2
<1>4. ASSUME typed = {} PROVE fwd = SubSeq(sent, 1, Len(fwd)) /\ fwd \o buf \o bus = sent
  <2>1. fwd \o (buf \o bus) = sent
    <3>1. PICK taken : taken \o (buf \o bus) = sent /\ taken = fwd
      BY <1>4 DEF Whole
    <3> QED
      BY <3>1
  <2>2. /\ fwd = SubSeq(fwd \o (buf \o bus), 1, Len(fwd))
        /\ fwd \o buf \o bus = fwd \o (buf \o bus)
    BY <1>1, WholeStart
  <2> QED
    BY <2>1, <2>2
<1> QED
  BY <1>2, <1>3, <1>4 DEF InOrder

LEMMA WholeInOrderNext == ASSUME TypeOK', Whole' PROVE InOrder'
<1>1. /\ fwd' \in Seq(Cell) /\ buf' \in Seq(Cell) /\ bus' \in Seq(Cell)
      /\ Len(fwd') \in Nat /\ Len(buf') \in Nat /\ Len(bus') \in Nat
  BY LenProperties DEF TypeOK
<1>2. Len(fwd') + Len(buf') + Len(bus') = Len(sent')
  BY DEF Whole
<1>3. Len(fwd') <= Len(sent')
  BY <1>1, <1>2
<1>4. ASSUME typed' = {} PROVE fwd' = SubSeq(sent', 1, Len(fwd')) /\ fwd' \o buf' \o bus' = sent'
  <2>1. fwd' \o (buf' \o bus') = sent'
    <3>1. PICK taken : taken \o (buf' \o bus') = sent' /\ taken = fwd'
      BY <1>4 DEF Whole
    <3> QED
      BY <3>1
  <2>2. /\ fwd' = SubSeq(fwd' \o (buf' \o bus'), 1, Len(fwd'))
        /\ fwd' \o buf' \o bus' = fwd' \o (buf' \o bus')
    BY <1>1, WholeStart
  <2> QED
    BY <2>1, <2>2
<1> QED
  BY <1>2, <1>3, <1>4 DEF InOrder

LEMMA OrderInit == Init => OrderInv
<1> SUFFICES ASSUME Init PROVE OrderInv
  OBVIOUS
<1>0. TypeOK
  BY TypeInit
<1>1. bus \in Seq(Cell) /\ Len(bus) \in Nat /\ Len(bus) <= STREAM /\ sent = bus
  BY BufferAssumption, LenProperties DEF Init
<1>2. fwd = <<>> /\ buf = <<>> /\ atDev = <<>> /\ typed = {} /\ DOMAIN ovr = {} /\ ph = "detect"
  BY DEF Init
<1>3. Whole
  <2>1. fwd \o (buf \o bus) = bus
    BY <1>1, <1>2, ConcatEmptySeq
  <2>2. Len(fwd) = 0 /\ Len(buf) = 0 /\ fwd \in Seq(Cell)
    BY <1>2, EmptySeq
  <2>3. Len(fwd) + Len(buf) + Len(bus) = Len(sent)
    BY <1>1, <2>2
  <2>4. fwd \in Seq(Cell) /\ Len(fwd) = Len(fwd) /\ fwd \o (buf \o bus) = sent
    BY <1>1, <2>1, <2>2
  <2> QED
    BY <2>3, <2>4, Zenon DEF Whole
<1> QED
  BY <1>0, <1>1, <1>2, <1>3, WholeInOrder DEF OrderInv

\* A step that leaves what the device sent, what is held and what went out.
LEMMA OrderUnchanged ==
    ASSUME TypeOK', OrderInv, ph # "stopped",
           UNCHANGED <<fwd, buf, bus, sent, typed>>,
           DOMAIN ovr' \subseteq DOMAIN ovr,
           ph' = "detect" => ph = "detect" /\ UNCHANGED atDev
    PROVE  OrderInv'
<1>1. Whole'
  BY DEF OrderInv, Whole
<1>2. InOrder'
  BY <1>1, WholeInOrderNext
<1> QED
  BY <1>1, <1>2 DEF OrderInv

LEMMA OrderDeviceAnswers == ASSUME TypeOK, TypeOK', OrderInv, DeviceAnswers PROVE OrderInv'
<1>0. /\ fwd \in Seq(Cell) /\ buf \in Seq(Cell) /\ bus \in Seq(Cell) /\ sent \in Seq(Cell)
      /\ Len(fwd) \in Nat /\ Len(buf) \in Nat /\ Len(bus) \in Nat /\ Len(sent) \in Nat
  BY LenProperties DEF TypeOK
<1>1. ph # "stopped" /\ ph # "detect" /\ UNCHANGED <<ph, buf, ovr, fwd, typed>>
  BY DEF DeviceAnswers, OrderInv
<1>2. PICK g \in Seq(Cell) : /\ bus' = bus \o g /\ bus' \in Seq(Cell)
                             /\ sent' = sent \o g /\ sent' \in Seq(Cell)
  BY AnswerCells
<1>3. Whole /\ Len(fwd) + Len(buf) + Len(bus) = Len(sent)
  BY <1>1 DEF OrderInv, Whole
<1>4. Len(g) \in Nat /\ Len(bus') = Len(bus) + Len(g) /\ Len(sent') = Len(sent) + Len(g)
  BY <1>0, <1>2, ConcatProperties, LenProperties
<1>5. Len(fwd') + Len(buf') + Len(bus') = Len(sent')
  <2>1. Len(fwd') = Len(fwd) /\ Len(buf') = Len(buf)
    BY <1>1
  <2>2. Len(fwd) + Len(buf) + (Len(bus) + Len(g)) = Len(sent) + Len(g)
    <3>1. /\ Len(fwd) \in Nat /\ Len(buf) \in Nat /\ Len(bus) \in Nat /\ Len(g) \in Nat
          /\ Len(fwd) + Len(buf) + Len(bus) = Len(sent)
      BY <1>0, <1>3, <1>4
    <3> QED
      BY <3>1
  <2> QED
    BY <1>4, <2>1, <2>2
<1>6. ASSUME NEW taken \in Seq(Cell), taken \o (buf \o bus) = sent
      PROVE  taken \o (buf' \o bus') = sent'
  <2>2. buf \o bus \in Seq(Cell)
    BY <1>0, ConcatProperties
  <2>3. (buf \o bus) \o g = buf \o (bus \o g)
    <3>1. buf \in Seq(Cell) /\ bus \in Seq(Cell) /\ g \in Seq(Cell)
      BY <1>0
    <3> QED
      BY <3>1, Regroup, ZenonT(30)
  <2>4. (taken \o (buf \o bus)) \o g = taken \o ((buf \o bus) \o g)
    <3>1. taken \in Seq(Cell) /\ buf \o bus \in Seq(Cell) /\ g \in Seq(Cell)
      BY <1>0, <2>2
    <3> QED
      BY <3>1, Regroup, ZenonT(30)
  <2> QED
    BY <1>1, <1>2, <1>6, <2>3, <2>4
<1>7. Whole'
  <2>1. PICK taken \in Seq(Cell) : /\ Len(taken) = Len(fwd) /\ taken \o (buf \o bus) = sent
                                   /\ typed = {} => taken = fwd
    BY <1>3 DEF Whole
  <2>2. taken \o (buf' \o bus') = sent'
    BY <1>6, <2>1
  <2> QED
    BY <1>1, <1>5, <2>1, <2>2 DEF Whole
<1> QED
  BY <1>1, <1>7, WholeInOrderNext DEF OrderInv

LEMMA OrderDetectRead ==
    ASSUME TypeOK, TypeOK', OrderInv, NEW c \in Chunks, NEW d \in Chunks, DetectRead(c, d)
    PROVE  OrderInv'
<1> DEFINE n == Least(d, Len(bus))
           g == SubSeq(bus, 1, n)
<1>0. /\ buf \in Seq(Cell) /\ bus \in Seq(Cell)
      /\ Len(buf) \in Nat /\ Len(bus) \in Nat /\ STREAM \in Nat
  BY LenProperties, BufferAssumption DEF TypeOK
<1>1. /\ n \in 0 .. Len(bus) /\ g \in Seq(Cell) /\ Len(g) = n
      /\ Drop(bus, n) \in Seq(Cell) /\ Len(Drop(bus, n)) = Len(bus) - n /\ g \o Drop(bus, n) = bus
  BY <1>0, ReadTypes
<1>2. /\ bus' = Drop(bus, n)
      /\ buf' = IF Len(buf) + n <= STREAM THEN buf \o g ELSE buf
      /\ ph = "detect" /\ ph' \in {"detect", "up"}
      /\ UNCHANGED <<ovr, atDev, sent, fwd, typed>>
  BY DEF DetectRead, env
<1> HIDE DEF n, g
<1>3. fwd = <<>> /\ Len(fwd) = 0 /\ atDev = <<>> /\ Len(sent) <= STREAM /\ Whole
      /\ Len(buf) + Len(bus) = Len(sent)
  <2>1. fwd = <<>> /\ atDev = <<>> /\ Len(sent) <= STREAM /\ Whole
    BY <1>2 DEF OrderInv
  <2>2. Len(fwd) = 0
    BY <2>1, EmptySeq
  <2>3. Len(fwd) + Len(buf) + Len(bus) = Len(sent)
    BY <2>1 DEF Whole
  <2> QED
    BY <1>0, <2>1, <2>2, <2>3
<1>4. buf' = buf \o g
  <2>1. Len(buf) + Len(bus) <= STREAM
    BY <1>0, <1>3
  <2>2. Len(buf) + n <= STREAM
    BY <1>0, <1>1, <2>1
  <2> QED
    BY <1>2, <2>2
<1>5. Len(buf') = Len(buf) + n
  BY <1>0, <1>1, <1>4, ConcatProperties
<1>6. Len(fwd') + Len(buf') + Len(bus') = Len(sent')
  <2>1. Len(fwd') = 0 /\ Len(sent') = Len(sent) /\ Len(bus') = Len(bus) - n
    BY <1>1, <1>2, <1>3
  <2>2. 0 + (Len(buf) + n) + (Len(bus) - n) = Len(sent)
    <3>1. /\ Len(buf) \in Nat /\ Len(bus) \in Nat /\ n \in Int
          /\ Len(buf) + Len(bus) = Len(sent)
      BY <1>0, <1>1, <1>3
    <3> QED
      BY <3>1
  <2> QED
    BY <1>5, <2>1, <2>2
<1>7. buf' \o bus' = buf \o bus
  <2>1. (buf \o g) \o Drop(bus, n) = buf \o (g \o Drop(bus, n))
    BY <1>0, <1>1, Regroup, ZenonT(30)
  <2> QED
    BY <1>1, <1>2, <1>4, <2>1
<1>8. Whole'
  BY <1>2, <1>3, <1>6, <1>7 DEF Whole
<1> QED
  BY <1>2, <1>3, <1>8, WholeInOrderNext DEF OrderInv

LEMMA OrderReadBus ==
    ASSUME TypeOK, TypeOK', OrderInv, NEW c \in Chunks, ReadBus(c) PROVE OrderInv'
<1>0. /\ fwd \in Seq(Cell) /\ buf \in Seq(Cell)
      /\ Len(fwd) \in Nat /\ Len(buf) \in Nat
  BY LenProperties DEF TypeOK
<1>1. PICK n \in 0 .. Len(buf), g \in Seq(Cell) :
              /\ fwd' = fwd \o SubSeq(buf, 1, n)
              /\ buf' = Drop(buf, n) \o g
              /\ bus' \in Seq(Cell) /\ g \o bus' = bus
              /\ Len(buf) - n + Len(g) <= STREAM
  BY ReadBusParts
<1>2. ph = "loop" /\ ph' = "down" /\ UNCHANGED <<ovr, sent, typed>>
  BY DEF ReadBus, env
<1>3. Whole /\ Len(fwd) + Len(buf) + Len(bus) = Len(sent)
  BY <1>2 DEF OrderInv, Whole
<1> DEFINE h == SubSeq(buf, 1, n)
           t == Drop(buf, n)
<1>4. h \in Seq(Cell) /\ Len(h) = n /\ t \in Seq(Cell) /\ Len(t) = Len(buf) - n /\ h \o t = buf
  BY <1>0, Cut
<1>5. fwd' = fwd \o h /\ buf' = t \o g
  BY <1>1
<1> HIDE DEF h, t
<1>6. /\ Len(fwd') = Len(fwd) + n /\ Len(buf') = Len(buf) - n + Len(g)
      /\ Len(bus) = Len(g) + Len(bus') /\ Len(g) \in Nat /\ Len(bus') \in Nat
  <2>1. Len(fwd \o h) = Len(fwd) + Len(h) /\ Len(t \o g) = Len(t) + Len(g)
    BY <1>0, <1>4, ConcatProperties
  <2>2. Len(g \o bus') = Len(g) + Len(bus') /\ Len(g) \in Nat /\ Len(bus') \in Nat
    BY <1>1, ConcatProperties, LenProperties
  <2>3. Len(fwd') = Len(fwd) + n /\ Len(buf') = Len(buf) - n + Len(g)
    BY <1>4, <1>5, <2>1
  <2>4. Len(bus) = Len(g) + Len(bus')
    BY <1>1, <2>2
  <2> QED
    BY <2>2, <2>3, <2>4
<1>7. Len(fwd') + Len(buf') + Len(bus') = Len(sent')
  <2>1. Len(sent') = Len(sent)
    BY <1>2
  <2>2. (Len(fwd) + n) + (Len(buf) - n + Len(g)) + Len(bus') = Len(sent)
    <3>1. /\ Len(fwd) \in Nat /\ Len(buf) \in Nat /\ n \in Int /\ Len(g) \in Nat
          /\ Len(bus') \in Nat /\ Len(bus) = Len(g) + Len(bus')
          /\ Len(fwd) + Len(buf) + Len(bus) = Len(sent)
      BY <1>0, <1>3, <1>6
    <3> QED
      BY <3>1
  <2> QED
    BY <1>6, <2>1, <2>2
<1>8. ASSUME NEW taken \in Seq(Cell)
      PROVE  (taken \o h) \o (buf' \o bus') = taken \o (buf \o bus)
  <2>1. (t \o g) \o bus' = t \o bus
    BY <1>1, <1>4, Regroup, ZenonT(30)
  <2>2. bus \in Seq(Cell)
    BY DEF TypeOK
  <2>3. t \o bus \in Seq(Cell)
    BY <1>4, <2>2, ConcatProperties
  <2>4. (taken \o h) \o (t \o bus) = taken \o (h \o (t \o bus))
    <3>1. taken \in Seq(Cell) /\ h \in Seq(Cell) /\ t \o bus \in Seq(Cell)
      BY <1>4, <2>3
    <3> QED
      BY <3>1, Regroup, ZenonT(30)
  <2>5. h \o (t \o bus) = buf \o bus
    BY <1>4, <2>2, Regroup, ZenonT(30)
  <2> QED
    BY <1>5, <2>1, <2>4, <2>5
<1>9. Whole'
  <2>1. PICK taken \in Seq(Cell) : /\ Len(taken) = Len(fwd) /\ taken \o (buf \o bus) = sent
                                   /\ typed = {} => taken = fwd
    BY <1>3 DEF Whole
  <2>2. taken \o h \in Seq(Cell) /\ Len(taken \o h) = Len(taken) + Len(h)
    BY <1>4, ConcatProperties
  <2>3. Len(taken \o h) = Len(fwd')
    BY <1>4, <1>6, <2>1, <2>2
  <2>4. (taken \o h) \o (buf' \o bus') = sent'
    BY <1>2, <1>8, <2>1
  <2>5. typed' = {} => taken \o h = fwd'
    BY <1>2, <1>5, <2>1
  <2> QED
    BY <1>7, <2>2, <2>3, <2>4, <2>5 DEF Whole
<1> QED
  BY <1>2, <1>9, WholeInOrderNext DEF OrderInv

LEMMA OrderForward == ASSUME TypeOK, TypeOK', OrderInv, Forward PROVE OrderInv'
<1> DEFINE g == Outgoing(buf)
           t == Drop(buf, Len(g))
<1>0. /\ fwd \in Seq(Cell) /\ buf \in Seq(Cell) /\ bus \in Seq(Cell)
      /\ Len(fwd) \in Nat /\ Len(buf) \in Nat /\ Len(bus) \in Nat
  BY LenProperties DEF TypeOK
<1>1. /\ g \in Seq(Cell) /\ Len(g) \in 1 .. Len(buf)
      /\ DOMAIN ovr = {} => g = SubSeq(buf, 1, Len(g))
  BY OutgoingType DEF Forward
<1>2. /\ ph = "down" /\ ph' = "down" /\ UNCHANGED <<ovr, sent, typed, bus>>
      /\ fwd' = fwd \o g /\ buf' = t
  BY DEF Forward, env
<1>3. Whole /\ Len(fwd) + Len(buf) + Len(bus) = Len(sent)
  BY <1>2 DEF OrderInv, Whole
<1> HIDE DEF g
<1>4. Len(g) \in 0 .. Len(buf) /\ Len(g) \in Nat
  BY <1>0, <1>1
<1>5. t \in Seq(Cell) /\ Len(t) = Len(buf) - Len(g) /\ SubSeq(buf, 1, Len(g)) \o t = buf
  BY <1>0, <1>4, Cut
<1> HIDE DEF t
<1>6. Len(fwd') = Len(fwd) + Len(g)
  BY <1>0, <1>1, <1>2, ConcatProperties
<1>7. Len(fwd') + Len(buf') + Len(bus') = Len(sent')
  <2>1. Len(sent') = Len(sent) /\ Len(bus') = Len(bus) /\ Len(buf') = Len(buf) - Len(g)
    BY <1>2, <1>5
  <2> QED
    BY <1>0, <1>3, <1>4, <1>6, <2>1, SMTT(30)
<1> DEFINE h == SubSeq(buf, 1, Len(g))
<1>10. h \in Seq(Cell) /\ Len(h) = Len(g) /\ h \o t = buf
  BY <1>0, <1>4, <1>5, Cut
<1>11. typed = {} => h = g
  BY <1>1, <1>2 DEF OrderInv
<1> HIDE DEF h
<1>8. ASSUME NEW taken \in Seq(Cell) PROVE (taken \o h) \o (buf' \o bus') = taken \o (buf \o bus)
  <2>2. t \o bus \in Seq(Cell)
    BY <1>0, <1>5, ConcatProperties
  <2>3. (taken \o h) \o (t \o bus) = taken \o (h \o (t \o bus))
    BY <1>10, <2>2, Regroup, ZenonT(30)
  <2>4. h \o (t \o bus) = (h \o t) \o bus
    BY <1>0, <1>5, <1>10, Regroup, ZenonT(30)
  <2> QED
    BY <1>2, <1>10, <2>3, <2>4
<1>9. Whole'
  <2>1. PICK taken \in Seq(Cell) : /\ Len(taken) = Len(fwd) /\ taken \o (buf \o bus) = sent
                                   /\ typed = {} => taken = fwd
    BY <1>3 DEF Whole
  <2>2. taken \o h \in Seq(Cell) /\ Len(taken \o h) = Len(taken) + Len(h)
    BY <1>10, ConcatProperties
  <2>3. Len(taken \o h) = Len(fwd')
    BY <1>6, <1>10, <2>1, <2>2
  <2>4. (taken \o h) \o (buf' \o bus') = sent'
    BY <1>2, <1>8, <2>1
  <2>5. typed' = {} => taken \o h = fwd'
    BY <1>2, <1>11, <2>1
  <2> QED
    BY <1>7, <2>2, <2>3, <2>4, <2>5 DEF Whole
<1> QED
  BY <1>2, <1>9, WholeInOrderNext DEF OrderInv

\* A write that fails leaves a start of what should have gone out.
LEMMA OrderForwardFails == ASSUME TypeOK, TypeOK', OrderInv, ForwardFails PROVE OrderInv'
<1>0. /\ fwd \in Seq(Cell) /\ buf \in Seq(Cell) /\ bus \in Seq(Cell)
      /\ Len(fwd) \in Nat /\ Len(buf) \in Nat /\ Len(bus) \in Nat
  BY LenProperties DEF TypeOK
<1>1. /\ Outgoing(buf) \in Seq(Cell) /\ Len(Outgoing(buf)) \in 1 .. Len(buf)
      /\ DOMAIN ovr = {} => Outgoing(buf) = SubSeq(buf, 1, Len(Outgoing(buf)))
  BY OutgoingType DEF ForwardFails
<1> DEFINE m == Len(Outgoing(buf))
<1>2. PICK n \in 0 .. m - 1 : fwd' = fwd \o SubSeq(Outgoing(buf), 1, n)
  BY DEF ForwardFails
<1>3. ph = "down" /\ ph' = "stopped" /\ UNCHANGED <<ovr, sent, typed, bus, buf>>
  BY DEF ForwardFails, env
<1>4. Whole
  BY <1>3 DEF OrderInv
<1> HIDE DEF m
<1>5. m \in Nat /\ n \in 0 .. m /\ n \in 0 .. Len(buf) /\ m \in 1 .. Len(buf)
  BY <1>0, <1>1 DEF m
<1> DEFINE h == SubSeq(Outgoing(buf), 1, n)
           t == Drop(buf, n)
<1>6. h \in Seq(Cell) /\ Len(h) = n
  BY <1>1, <1>5, Cut DEF m
<1>7. DOMAIN ovr = {} => h = SubSeq(buf, 1, n)
  <2>1. SubSeq(SubSeq(buf, 1, m), 1, n) = SubSeq(buf, 1, n)
    <3>1. 1 \in Int /\ m \in Int /\ n \in Int /\ buf \in Seq(Cell)
      BY <1>0, <1>5
    <3>2. \A i \in 1 .. m : buf[i] \in Cell
      BY <1>0, <1>5, ElementOfSeq
    <3>3. SubSeq(buf, 1, m) \in Seq(Cell) /\ Len(SubSeq(buf, 1, m)) = m
      BY <1>0, <1>5, Cut
    <3> QED
      BY <1>5, <3>1, <3>2, <3>3, SubSeqOfSubSeq
  <2> QED
    BY <1>1, <2>1 DEF m
<1>8. t \in Seq(Cell) /\ Len(t) = Len(buf) - n /\ SubSeq(buf, 1, n) \o t = buf
  BY <1>0, <1>5, Cut
<1>9. fwd' = fwd \o h
  BY <1>2
<1> HIDE DEF h, t
<1>10. Len(fwd') = Len(fwd) + n /\ fwd' \in Seq(Cell)
  BY <1>0, <1>6, <1>9, ConcatProperties
<1>11. Len(fwd') <= Len(sent')
  BY <1>0, <1>3, <1>4, <1>5, <1>10 DEF Whole
<1>12. ASSUME typed' = {} PROVE fwd' = SubSeq(sent', 1, Len(fwd'))
  <2>1. fwd \o (buf \o bus) = sent /\ h \o t = buf
    <3>1. PICK taken : taken \o (buf \o bus) = sent /\ taken = fwd
      BY <1>3, <1>4, <1>12 DEF Whole
    <3> QED
      BY <1>3, <1>7, <1>8, <1>12, <3>1 DEF OrderInv
  <2>2. t \o bus \in Seq(Cell)
    BY <1>0, <1>8, ConcatProperties
  <2>3. fwd' \o (t \o bus) = fwd \o (h \o (t \o bus))
    BY <1>0, <1>6, <1>9, <2>2, Regroup, ZenonT(30)
  <2>4. h \o (t \o bus) = (h \o t) \o bus
    BY <1>0, <1>6, <1>8, Regroup, ZenonT(30)
  <2>5. SubSeq(fwd' \o (t \o bus), 1, Len(fwd')) = fwd'
    BY <1>10, <2>2, Start
  <2> QED
    BY <1>3, <2>1, <2>3, <2>4, <2>5
<1> QED
  BY <1>3, <1>4, <1>11, <1>12 DEF OrderInv, InOrder

\* A write that fails while room is made has sent on a start of the buffer.
LEMMA OrderMakingRoom ==
    ASSUME TypeOK, TypeOK', OrderInv, NEW c \in Chunks, MakingRoomFails(c) PROVE OrderInv'
<1>0. /\ fwd \in Seq(Cell) /\ buf \in Seq(Cell) /\ bus \in Seq(Cell)
      /\ Len(fwd) \in Nat /\ Len(buf) \in Nat /\ Len(bus) \in Nat
  BY LenProperties DEF TypeOK
<1>1. PICK n \in 0 .. Len(buf) : fwd' = fwd \o SubSeq(buf, 1, n)
  BY MakingRoomParts
<1>2. ph = "loop" /\ ph' = "stopped" /\ UNCHANGED <<ovr, sent, typed>>
  BY DEF MakingRoomFails, env
<1>3. Whole
  BY <1>2 DEF OrderInv
<1> DEFINE h == SubSeq(buf, 1, n)
           t == Drop(buf, n)
<1>4. h \in Seq(Cell) /\ Len(h) = n /\ t \in Seq(Cell) /\ Len(t) = Len(buf) - n /\ h \o t = buf
  BY <1>0, Cut
<1>5. fwd' = fwd \o h
  BY <1>1
<1> HIDE DEF h, t
<1>6. Len(fwd') = Len(fwd) + n /\ fwd' \in Seq(Cell)
  BY <1>0, <1>4, <1>5, ConcatProperties
<1>7. Len(fwd') <= Len(sent')
  BY <1>0, <1>2, <1>3, <1>6 DEF Whole
<1>8. ASSUME typed' = {} PROVE fwd' = SubSeq(sent', 1, Len(fwd'))
  <2>1. fwd \o (buf \o bus) = sent
    BY <1>2, <1>3, <1>8 DEF Whole
  <2>2. t \o bus \in Seq(Cell)
    BY <1>0, <1>4, ConcatProperties
  <2>3. fwd' \o (t \o bus) = fwd \o (h \o (t \o bus))
    BY <1>0, <1>4, <1>5, <2>2, Regroup, ZenonT(30)
  <2>4. h \o (t \o bus) = (h \o t) \o bus
    BY <1>0, <1>4, Regroup, ZenonT(30)
  <2>5. SubSeq(fwd' \o (t \o bus), 1, Len(fwd')) = fwd'
    BY <1>6, <2>2, Start
  <2> QED
    BY <1>2, <1>4, <2>1, <2>3, <2>4, <2>5
<1> QED
  BY <1>2, <1>7, <1>8 DEF OrderInv, InOrder

\* Every step keeps the order of the bytes on their way to the controller.
LEMMA OrderStep == ASSUME TypeOK, OrderInv, [Next]_vars PROVE OrderInv'
<1>0. TypeOK'
  BY TypeStep
<1>1. CASE ControllerAsks
  BY <1>0, <1>1, OrderUnchanged DEF ControllerAsks
<1>2. CASE DeviceAnswers
  BY <1>0, <1>2, OrderDeviceAnswers
<1>3. ASSUME NEW c \in Chunks, NEW d \in Chunks, DetectRead(c, d) PROVE OrderInv'
  BY <1>0, <1>3, OrderDetectRead
<1>4. CASE Poll
  BY <1>0, <1>4, OrderUnchanged DEF Poll, env
<1>5. ASSUME NEW c \in Chunks, ReadController(c) PROVE OrderInv'
  BY <1>0, <1>5, OrderUnchanged DEF ReadController, env
<1>6. ASSUME NEW c \in Chunks, ReadBus(c) PROVE OrderInv'
  BY <1>0, <1>6, OrderReadBus
<1>17. ASSUME NEW c \in Chunks, MakingRoomFails(c) PROVE OrderInv'
  BY <1>0, <1>17, OrderMakingRoom
<1>7. CASE ScanRequest
  BY <1>0, <1>7, OrderUnchanged DEF ScanRequest, env
<1>8. CASE ScanSkip
  BY <1>0, <1>8, OrderUnchanged DEF ScanSkip, env
<1>9. CASE ScanEnd
  BY <1>0, <1>9, OrderUnchanged DEF ScanEnd, env
<1>10. CASE Forward
  BY <1>0, <1>10, OrderForward
<1>11. CASE ForwardEnd
  BY <1>0, <1>11, OrderUnchanged DEF ForwardEnd, env
<1>12. CASE ForwardFails
  BY <1>0, <1>12, OrderForwardFails
<1>13. ASSUME NEW o \in Typed, SetOverride(o) PROVE OrderInv'
  <2>1. /\ ph = "loop" /\ typed' # {}
        /\ UNCHANGED <<ph, fwd, buf, bus, sent>>
    BY <1>13 DEF SetOverride, AtConsole, env
  <2>2. Whole
    BY <2>1 DEF OrderInv
  <2>3. Whole'
    BY <2>1, <2>2 DEF Whole
  <2> QED
    BY <1>0, <2>1, <2>3, WholeInOrderNext DEF OrderInv
<1>14. ASSUME NEW key \in DOMAIN ovr, ClearOverride(key) PROVE OrderInv'
  <2>1. DOMAIN ovr' \subseteq DOMAIN ovr
    BY <1>14 DEF ClearOverride
  <2> QED
    BY <1>0, <1>14, <2>1, OrderUnchanged DEF ClearOverride, AtConsole, env
<1>15. CASE Stop
  BY <1>0, <1>15, OrderUnchanged DEF Stop, env
<1>16. CASE UNCHANGED vars
  BY <1>16 DEF vars, OrderInv, InOrder, Whole
<1> QED
  BY <1>1, <1>2, <1>3, <1>4, <1>5, <1>6, <1>7, <1>8, <1>9, <1>10, <1>11, <1>12, <1>13, <1>14,
     <1>15, <1>16, <1>17
  DEF Next, Proxy

\* However the bytes are damaged, held back and cut into reads, each byte of the
\* device goes to the controller once and in its place; until a set command it
\* goes as it came.
THEOREM BytesInOrder == Spec => []InOrder
<1>1. Init => TypeOK /\ OrderInv
  BY TypeInit, OrderInit
<1>2. (TypeOK /\ OrderInv) /\ [Next]_vars => (TypeOK /\ OrderInv)'
  BY TypeStep, OrderStep
<1>3. OrderInv => InOrder
  BY DEF OrderInv
<1> QED
  BY <1>1, <1>2, <1>3, PTL DEF Spec

-----------------------------------------------------------------------------
(* What the CRC tells the controller. *)

ReplyRecord == [at : Nat, len : Nat, req : Request, intact : BOOLEAN, data : BOOLEAN]

\* Each reply is a part of what was sent, and its CRC matches if it is intact.
InSent ==
    \A i \in DOMAIN replies :
        LET k == replies[i]
        IN  /\ k.len >= 4 /\ k.at + k.len <= Len(sent)
            /\ k.intact <=> HasValidCrc(Slice(sent, k), k.len)

Apart ==
    \A i \in DOMAIN replies, j \in DOMAIN replies :
        \/ i = j
        \/ replies[i].at + replies[i].len <= replies[j].at
        \/ replies[j].at + replies[j].len <= replies[i].at

\* The two bytes of a CRC stand nowhere but at the end of a reply that has the
\* length they were computed for, or in what was on the line before any reply.
CrcEnds ==
    \A p \in 2 .. Len(sent), w \in Seq(Byte) :
        LoOf(sent[p - 1], w) /\ HiOf(sent[p], w) =>
           \/ \A i \in DOMAIN replies : p <= replies[i].at
           \/ \E i \in DOMAIN replies : /\ replies[i].at + replies[i].len = p
                                        /\ replies[i].len = Len(w) + 2

Framed == replies \in Seq(ReplyRecord) /\ InSent /\ Apart /\ CrcEnds

\* What has gone out of a reply is what was sent; or the whole reply, intact, went
\* out with other registers and a CRC of its own; or the proxy ended in its middle.
Agrees(k) == \A p \in 1 .. k.len : k.at + p <= Len(fwd) => fwd[k.at + p] = sent[k.at + p]
Renewed(k) == k.at + k.len <= Len(fwd) /\ k.intact /\ HasValidCrc(Slice(fwd, k), k.len)
CutOff(k) == ph = "stopped" /\ k.at + k.len > Len(fwd)

Told == \A i \in DOMAIN replies :
            Agrees(replies[i]) \/ Renewed(replies[i]) \/ CutOff(replies[i])

CrcInv == Framed /\ Told

LEMMA ReplyAt ==
    ASSUME Framed, NEW i \in DOMAIN replies
    PROVE  /\ replies[i] \in ReplyRecord /\ replies[i].at \in Nat /\ replies[i].len \in Nat
           /\ replies[i].len >= 4 /\ replies[i].at + replies[i].len <= Len(sent)
<1>1. replies[i] \in ReplyRecord
  <2>1. \A s \in Seq(ReplyRecord) : \A j \in DOMAIN s : s[j] \in ReplyRecord
    OBVIOUS
  <2> QED
    BY <2>1 DEF Framed
<1> QED
  BY <1>1 DEF Framed, InSent, ReplyRecord

\* The CRC tells the truth when every reply went out as it came, or renewed.
LEMMA ToldIsVisible ==
    ASSUME TypeOK, InOrder, CrcInv PROVE DamageStaysVisible
<1> SUFFICES ASSUME NEW i \in DOMAIN replies, replies[i].at + replies[i].len <= Len(fwd)
             PROVE  replies[i].intact <=> HasValidCrc(Slice(fwd, replies[i]), replies[i].len)
  BY DEF DamageStaysVisible
<1> DEFINE k == replies[i]
<1>1. k.at \in Nat /\ k.len \in Nat /\ k.at + k.len <= Len(sent) /\ k.at + k.len <= Len(fwd)
  BY ReplyAt DEF CrcInv
<1>2. k.intact <=> HasValidCrc(Slice(sent, k), k.len)
  BY DEF CrcInv, Framed, InSent
<1>3. Agrees(k) \/ Renewed(k) \/ CutOff(k)
  BY DEF CrcInv, Told
<1>4. Len(fwd) \in Nat
  BY LenProperties DEF TypeOK
<1> HIDE DEF k
<1>5. CASE Agrees(k)
  <2>1. \A p \in 1 .. k.len : fwd[k.at + p] = sent[k.at + p]
    BY <1>1, <1>4, <1>5 DEF Agrees
  <2>2. fwd \in Seq(Cell) /\ sent \in Seq(Cell)
    BY DEF TypeOK
  <2> DEFINE a == k.at
             m == k.len
  <2>3. /\ a \in Nat /\ m \in Nat /\ a + m <= Len(fwd) /\ a + m <= Len(sent)
        /\ \A p \in 1 .. m : fwd[a + p] = sent[a + p]
    BY <1>1, <2>1
  <2> HIDE DEF a, m
  <2>4. SubSeq(fwd, a + 1, a + m) = SubSeq(sent, a + 1, a + m)
    BY <2>2, <2>3, PartAlike
  <2> QED
    BY <1>2, <2>4 DEF Slice, k, a, m
<1>6. CASE Renewed(k)
  BY <1>6 DEF Renewed, k
<1>7. CASE CutOff(k)
  BY <1>1, <1>4, <1>7 DEF CutOff
<1> QED
  BY <1>3, <1>5, <1>6, <1>7

\* What is held follows in what was sent upon what has gone out.
LEMMA HeldIsNext ==
    ASSUME TypeOK, OrderInv, ph # "stopped"
    PROVE  /\ Len(fwd) \in Nat /\ Len(buf) \in Nat /\ Len(sent) \in Nat
           /\ Len(fwd) + Len(buf) <= Len(sent)
           /\ \A p \in 1 .. Len(buf) : sent[Len(fwd) + p] = buf[p]
<1>0. /\ Len(fwd) \in Nat /\ Len(buf) \in Nat /\ Len(sent) \in Nat /\ Len(bus) \in Nat
      /\ buf \in Seq(Cell) /\ bus \in Seq(Cell)
  BY LenProperties DEF TypeOK
<1>1. PICK taken \in Seq(Cell) : Len(taken) = Len(fwd) /\ taken \o (buf \o bus) = sent
  BY DEF OrderInv, Whole
<1> DEFINE u == buf \o bus
<1>2. u \in Seq(Cell) /\ Len(u) = Len(buf) + Len(bus) /\ \A p \in 1 .. Len(buf) : u[p] = buf[p]
  BY <1>0, Joined
<1>3. sent = taken \o u
  BY <1>1
<1> HIDE DEF u
<1>4. Len(sent) = Len(fwd) + Len(u) /\ \A p \in 1 .. Len(u) : sent[Len(fwd) + p] = u[p]
  BY <1>1, <1>2, <1>3, Joined
<1>5. Len(fwd) + Len(buf) <= Len(sent)
  BY <1>0, <1>2, <1>4
<1>6. \A p \in 1 .. Len(buf) : sent[Len(fwd) + p] = buf[p]
  BY <1>0, <1>2, <1>4
<1> QED
  BY <1>0, <1>5, <1>6

\* A frame at the head has the length of one and a CRC that matches.
LEMMA HeadLength ==
    ASSUME TypeOK, FrameHere(buf)
    PROVE  /\ ResponseLen(buf) \in 5 .. 255 /\ ResponseLen(buf) <= Len(buf)
           /\ HasValidCrc(buf, ResponseLen(buf))
<1> DEFINE n == ResponseLen(buf)
<1>1. n \in {0} \cup 5 .. 255
  BY ResponseLenType DEF TypeOK
<1>2. n > 0 /\ n <= Len(buf) /\ HasValidCrc(buf, n)
  BY DEF FrameHere, HasValidCrc
<1> HIDE DEF n
<1>3. n \in 5 .. 255
  BY <1>1, <1>2
<1> QED
  BY <1>2, <1>3 DEF n

\* A frame that the proxy takes is a whole reply, and an intact one; or it lies in
\* what was on the line before the first reply.
LEMMA HeadFrame ==
    ASSUME TypeOK, OrderInv, Framed, ph # "stopped",
           NEW n \in 5 .. 255, n <= Len(buf), HasValidCrc(buf, n)
    PROVE  \/ \A i \in DOMAIN replies : Len(fwd) + n <= replies[i].at
           \/ \E i \in DOMAIN replies : /\ replies[i].at = Len(fwd) /\ replies[i].len = n
                                        /\ replies[i].intact
<1>0. /\ Len(fwd) \in Nat /\ Len(buf) \in Nat /\ Len(sent) \in Nat
      /\ Len(fwd) + Len(buf) <= Len(sent)
      /\ \A p \in 1 .. Len(buf) : sent[Len(fwd) + p] = buf[p]
      /\ buf \in Seq(Cell) /\ sent \in Seq(Cell)
  BY HeldIsNext DEF TypeOK
<1>1. n \in Nat /\ 5 <= n /\ n <= Len(buf) /\ HasValidCrc(buf, n)
  OBVIOUS
<1> DEFINE values == [p \in 1 .. n - 2 |-> buf[p].v]
           q == Len(fwd) + n
<1>2. values \in Seq(Byte) /\ Len(values) = n - 2
  <2>1. n - 2 \in Nat /\ n - 2 <= Len(buf)
    BY <1>0, <1>1
  <2>2. \A p \in 1 .. n - 2 : buf[p] \in Cell
    BY <1>0, <2>1, ElementOfSeq
  <2>3. \A p \in 1 .. n - 2 : buf[p].v \in Byte
    BY <2>2 DEF Cell
  <2> QED
    BY <2>1, <2>3
<1>3. buf[n - 1] = LoCell(values) /\ buf[n] = HiCell(values)
  <2>1. n \in Nat /\ 2 <= n
    BY <1>1
  <2>2. HasValidCrc(buf, n) <=> buf[n - 1] = LoCell(values) /\ buf[n] = HiCell(values)
    BY <1>0, <1>1, <2>1, ValidCrc
  <2> QED
    BY <1>1, <2>2
<1> HIDE DEF values
<1>4. q \in 2 .. Len(sent) /\ sent[q - 1] = buf[n - 1] /\ sent[q] = buf[n]
  <2>1. n - 1 \in 1 .. Len(buf) /\ n \in 1 .. Len(buf) /\ Len(fwd) + (n - 1) = q - 1
    BY <1>0, <1>1
  <2>2. q \in 2 .. Len(sent)
    BY <1>0, <1>1
  <2> QED
    BY <1>0, <2>1, <2>2
<1>5. LoOf(sent[q - 1], values) /\ HiOf(sent[q], values)
  BY <1>3, <1>4, CrcOf
<1>6. \/ \A i \in DOMAIN replies : q <= replies[i].at
      \/ \E i \in DOMAIN replies : /\ replies[i].at + replies[i].len = q
                                   /\ replies[i].len = Len(values) + 2
  BY <1>2, <1>4, <1>5 DEF Framed, CrcEnds
<1>7. ASSUME NEW i \in DOMAIN replies, replies[i].at + replies[i].len = q,
             replies[i].len = Len(values) + 2
      PROVE  replies[i].at = Len(fwd) /\ replies[i].len = n /\ replies[i].intact
  <2>1. replies[i].at \in Nat /\ replies[i].len \in Nat
    BY ReplyAt
  <2>2. replies[i].len = n /\ replies[i].at = Len(fwd)
    BY <1>0, <1>1, <1>2, <1>7, <2>1
  <2> DEFINE f == SubSeq(sent, Len(fwd) + 1, Len(fwd) + n)
  <2>3. n \in Nat /\ 2 <= n /\ Len(fwd) + n <= Len(sent)
    BY <1>0, <1>1
  <2>4. f \in Seq(Cell) /\ Len(f) = n /\ \A p \in 1 .. n : f[p] = sent[Len(fwd) + p]
    BY <1>0, <2>3, Part, SMTT(30)
  <2>5. \A p \in 1 .. n : buf[p] = f[p]
    BY <1>0, <1>1, <2>4
  <2>6. Slice(sent, replies[i]) = f
    BY <2>2 DEF Slice
  <2> HIDE DEF f
  <2>7. HasValidCrc(buf, n) <=> HasValidCrc(f, n)
    <3>1. /\ buf \in Seq(Cell) /\ f \in Seq(Cell) /\ n \in Nat /\ 2 <= n
          /\ n <= Len(buf) /\ n <= Len(f) /\ \A p \in 1 .. n : buf[p] = f[p]
      BY <1>0, <1>1, <2>3, <2>4, <2>5
    <3> QED
      BY <3>1, CrcAlike
  <2> QED
    BY <1>1, <2>2, <2>6, <2>7 DEF Framed, InSent
<1> QED
  BY <1>6, <1>7

\* Bytes that go out as they were held leave the CRC true.
LEMMA ToldOnward ==
    ASSUME TypeOK, OrderInv, CrcInv, ph # "stopped", UNCHANGED <<sent, replies>>,
           NEW h \in Seq(Cell), Len(h) <= Len(buf), \A p \in 1 .. Len(h) : h[p] = buf[p],
           fwd' = fwd \o h
    PROVE  CrcInv'
<1>0. /\ Len(fwd) \in Nat /\ Len(buf) \in Nat /\ Len(h) \in Nat
      /\ fwd \in Seq(Cell) /\ fwd' \in Seq(Cell) /\ Len(fwd') = Len(fwd) + Len(h)
      /\ \A p \in 1 .. Len(fwd) : fwd'[p] = fwd[p]
      /\ \A p \in 1 .. Len(h) : fwd'[Len(fwd) + p] = h[p]
  <2>1. fwd \in Seq(Cell) /\ buf \in Seq(Cell)
    BY DEF TypeOK
  <2>2. Len(buf) \in Nat
    BY <2>1, LenProperties
  <2> QED
    BY <2>1, <2>2, Joined
<1>1. \A p \in 1 .. Len(h) : sent[Len(fwd) + p] = fwd'[Len(fwd) + p]
  <2>1. \A p \in 1 .. Len(buf) : sent[Len(fwd) + p] = buf[p]
    BY HeldIsNext
  <2> QED
    BY <1>0, <2>1
<1>2. Framed'
  BY DEF CrcInv, Framed, InSent, Apart, CrcEnds, Slice
<1>3. ASSUME NEW i \in DOMAIN replies
      PROVE  (Agrees(replies[i]) \/ Renewed(replies[i]) \/ CutOff(replies[i]))'
  <2> DEFINE k == replies[i]
  <2>1. k.at \in Nat /\ k.len \in Nat
    BY ReplyAt DEF CrcInv
  <2>2. Agrees(k) \/ Renewed(k)
    BY DEF CrcInv, Told, CutOff
  <2> HIDE DEF k
  <2>3. ASSUME Agrees(k), NEW p \in 1 .. k.len, k.at + p <= Len(fwd')
        PROVE  fwd'[k.at + p] = sent[k.at + p]
    <3>1. CASE k.at + p <= Len(fwd)
      <4>1. k.at + p \in 1 .. Len(fwd)
        BY <1>0, <2>1, <3>1
      <4> QED
        BY <1>0, <2>3, <3>1, <4>1 DEF Agrees
    <3>2. CASE ~ (k.at + p <= Len(fwd))
      <4> DEFINE d == k.at + p - Len(fwd)
      <4>1. d \in 1 .. Len(h) /\ Len(fwd) + d = k.at + p
        BY <1>0, <2>1, <2>3, <3>2
      <4> HIDE DEF d
      <4> QED
        BY <1>1, <4>1
    <3> QED
      BY <3>1, <3>2
  <2>4. CASE Agrees(k)
    <3>1. sent' = sent /\ k' = k
      BY DEF k
    <3> QED
      BY <2>3, <2>4, <3>1 DEF Agrees, k
  <2>5. CASE Renewed(k)
    <3> DEFINE a == k.at
               m == k.len
    <3>1. /\ a \in Nat /\ m \in Nat /\ a + m <= Len(fwd) /\ a + m <= Len(fwd')
          /\ \A p \in 1 .. m : fwd[a + p] = fwd'[a + p]
      <4>1. a + m <= Len(fwd)
        BY <2>5 DEF Renewed
      <4>2. \A p \in 1 .. m : a + p \in 1 .. Len(fwd)
        BY <1>0, <2>1, <4>1
      <4> QED
        BY <1>0, <2>1, <4>1, <4>2
    <3> HIDE DEF a, m
    <3>2. SubSeq(fwd, a + 1, a + m) = SubSeq(fwd', a + 1, a + m)
      BY <1>0, <3>1, PartAlike
    <3>3. k' = k
      BY DEF k
    <3> QED
      BY <2>5, <3>1, <3>2, <3>3 DEF Renewed, Slice, a, m, k
  <2> QED
    BY <2>2, <2>4, <2>5
<1> QED
  BY <1>2, <1>3 DEF CrcInv, Told

\* A frame with a CRC of its own in the place of one that matched, or its start if
\* the proxy ends there, leaves the CRC true.
LEMMA ToldRenewed ==
    ASSUME TypeOK, OrderInv, CrcInv, ph # "stopped", UNCHANGED <<sent, replies>>,
           NEW n \in 5 .. 255, n <= Len(buf), HasValidCrc(buf, n),
           NEW h \in Seq(Cell), fwd' = fwd \o h,
           \/ Len(h) = n /\ HasValidCrc(h, n)
           \/ Len(h) < n /\ ph' = "stopped"
    PROVE  CrcInv'
<1>0. /\ Len(fwd) \in Nat /\ Len(h) \in Nat /\ n \in Nat /\ Len(h) <= n
      /\ fwd \in Seq(Cell) /\ fwd' \in Seq(Cell) /\ Len(fwd') = Len(fwd) + Len(h)
      /\ \A p \in 1 .. Len(fwd) : fwd'[p] = fwd[p]
      /\ \A p \in 1 .. Len(h) : fwd'[Len(fwd) + p] = h[p]
  <2>1. fwd \in Seq(Cell)
    BY DEF TypeOK
  <2>2. Len(h) \in Nat /\ n \in Nat
    BY LenProperties
  <2>3. Len(h) <= n
    BY <2>2
  <2>4. /\ fwd' \in Seq(Cell) /\ Len(fwd') = Len(fwd) + Len(h) /\ Len(fwd) \in Nat
        /\ \A p \in 1 .. Len(fwd) : fwd'[p] = fwd[p]
        /\ \A p \in 1 .. Len(h) : fwd'[Len(fwd) + p] = h[p]
    BY <2>1, Joined
  <2> QED
    BY <2>1, <2>2, <2>3, <2>4
<1>1. Framed'
  BY DEF CrcInv, Framed, InSent, Apart, CrcEnds, Slice
<1>2. ASSUME NEW i \in DOMAIN replies
      PROVE  (Agrees(replies[i]) \/ Renewed(replies[i]) \/ CutOff(replies[i]))'
  <2> DEFINE k == replies[i]
  <2>0. replies' = replies /\ sent' = sent /\ k' = k
    OBVIOUS
  <2>1. k.at \in Nat /\ k.len \in Nat
    BY ReplyAt DEF CrcInv
  <2>2. Agrees(k) \/ Renewed(k)
    BY DEF CrcInv, Told, CutOff
  <2>3. \/ Len(fwd) + n <= k.at
        \/ k.at + k.len <= Len(fwd)
        \/ k.at = Len(fwd) /\ k.len = n /\ k.intact
    <3>1. \/ \A j \in DOMAIN replies : Len(fwd) + n <= replies[j].at
          \/ \E j \in DOMAIN replies : /\ replies[j].at = Len(fwd) /\ replies[j].len = n
                                       /\ replies[j].intact
      BY HeadFrame DEF CrcInv
    <3>2. ASSUME NEW j \in DOMAIN replies, replies[j].at = Len(fwd), replies[j].len = n,
                 replies[j].intact
          PROVE  \/ Len(fwd) + n <= k.at
                 \/ k.at + k.len <= Len(fwd)
                 \/ k.at = Len(fwd) /\ k.len = n /\ k.intact
      <4>1. \/ i = j
            \/ replies[i].at + replies[i].len <= replies[j].at
            \/ replies[j].at + replies[j].len <= replies[i].at
        BY DEF CrcInv, Framed, Apart
      <4> QED
        BY <3>2, <4>1
    <3> QED
      BY <3>1, <3>2
  <2> HIDE DEF k
  <2>4. CASE Len(fwd) + n <= k.at
    <3>1. \A p \in 1 .. k.len : ~ (k.at + p <= Len(fwd'))
      BY <1>0, <2>1, <2>4
    <3> QED
      BY <2>0, <3>1 DEF Agrees, k
  <2>5. CASE k.at + k.len <= Len(fwd)
    <3> DEFINE a == k.at
               m == k.len
    <3>1. /\ a \in Nat /\ m \in Nat /\ a + m <= Len(fwd) /\ a + m <= Len(fwd')
          /\ \A p \in 1 .. m : fwd[a + p] = fwd'[a + p]
          /\ \A p \in 1 .. m : a + p <= Len(fwd)
      <4>1. a \in Nat /\ m \in Nat /\ a + m <= Len(fwd)
        BY <2>1, <2>5
      <4> HIDE DEF a, m
      <4>2. \A p \in 1 .. m : a + p \in 1 .. Len(fwd) /\ a + p <= Len(fwd)
        BY <1>0, <4>1
      <4>3. a + m <= Len(fwd')
        BY <1>0, <4>1
      <4>4. \A p \in 1 .. m : fwd[a + p] = fwd'[a + p]
        BY <1>0, <4>2
      <4> QED
        BY <4>1, <4>2, <4>3, <4>4
    <3>2. CASE Agrees(k)
      <4>1. \A p \in 1 .. k.len : fwd'[k.at + p] = sent[k.at + p]
        BY <3>1, <3>2 DEF Agrees
      <4> QED
        BY <2>0, <4>1 DEF Agrees, k
    <3>3. CASE Renewed(k)
      <4> HIDE DEF a, m
      <4>2. SubSeq(fwd, a + 1, a + m) = SubSeq(fwd', a + 1, a + m)
        BY <1>0, <3>1, PartAlike
      <4> QED
        BY <2>0, <3>3, <3>1, <4>2 DEF Renewed, Slice, a, m, k
    <3> QED
      BY <2>2, <3>2, <3>3
  <2>6. CASE k.at = Len(fwd) /\ k.len = n /\ k.intact
    <3>1. CASE Len(h) = n /\ HasValidCrc(h, n)
      <4> DEFINE f == SubSeq(fwd', Len(fwd) + 1, Len(fwd) + n)
      <4>1. Len(fwd) + n <= Len(fwd')
        BY <1>0, <3>1
      <4>2. f \in Seq(Cell) /\ Len(f) = n /\ \A p \in 1 .. n : f[p] = fwd'[Len(fwd) + p]
        BY <1>0, <4>1, Part
      <4>3. Slice(fwd', k) = f
        BY <2>6 DEF Slice
      <4> HIDE DEF f
      <4>4. /\ h \in Seq(Cell) /\ f \in Seq(Cell) /\ n \in Nat /\ 2 <= n
            /\ n <= Len(h) /\ n <= Len(f) /\ \A p \in 1 .. n : h[p] = f[p]
        <5>1. n \in Nat /\ 2 <= n
          OBVIOUS
        <5>2. n <= Len(h) /\ n <= Len(f)
          BY <3>1, <4>2, <5>1
        <5>3. \A p \in 1 .. n : h[p] = f[p]
          BY <1>0, <3>1, <4>2
        <5> QED
          BY <4>2, <5>1, <5>2, <5>3
      <4>5. HasValidCrc(f, n)
        BY <3>1, <4>4, CrcAlike
      <4>6. k.at + k.len <= Len(fwd')
        BY <2>6, <4>1
      <4>7. k.intact /\ HasValidCrc(Slice(fwd', k), k.len)
        BY <2>6, <4>3, <4>5
      <4> QED
        BY <2>0, <4>6, <4>7 DEF Renewed, k
    <3>2. CASE Len(h) < n /\ ph' = "stopped"
      <4>1. k.at + k.len > Len(fwd')
        BY <1>0, <2>6, <3>2
      <4> QED
        BY <2>0, <3>2, <4>1 DEF CutOff, k
    <3> QED
      BY <3>1, <3>2
  <2> QED
    BY <2>3, <2>4, <2>5, <2>6
<1> QED
  BY <1>1, <1>2 DEF CrcInv, Told

\* Overriding registers gives a frame with a CRC that matches.
LEMMA OverriddenValid ==
    ASSUME NEW f \in Seq(Cell), Len(f) >= 2, HasValidCrc(f, Len(f)), NEW r,
           ovr \in [DOMAIN ovr -> Byte \X Byte]
    PROVE  HasValidCrc(Overridden(f, r), Len(f))
<1> DEFINE n == Len(f) - 2
           Register(i) == <<r.dev, r.fn, (r.start + ((i - 4) \div 2)) % 65536>>
           Value(i) == IF i \in 4 .. 2 * r.count + 3 /\ Register(i) \in DOMAIN ovr
                       THEN ovr[Register(i)][1 + (i % 2)] ELSE f[i].v
           values == [i \in 1 .. n |-> Value(i)]
<1>1. n \in Nat /\ Len(f) \in Nat /\ \A i \in 1 .. n : f[i] \in Cell
  BY ElementOfSeq, LenProperties
<1>2. ASSUME NEW i \in 1 .. n PROVE Value(i) \in Byte
  <2>1. f[i].v \in Byte
    BY <1>1 DEF Cell
  <2>2. 1 + (i % 2) \in {1, 2}
    BY <1>1
  <2>3. ASSUME Register(i) \in DOMAIN ovr
        PROVE  ovr[Register(i)][1] \in Byte /\ ovr[Register(i)][2] \in Byte
    <3> HIDE DEF Register
    <3> QED
      BY <2>3
  <2> HIDE DEF Register
  <2> QED
    BY <2>1, <2>2, <2>3
<1>4. Overridden(f, r) = IF values = ValuesOf(SubSeq(f, 1, n)) THEN f ELSE Frame(values)
  BY DEF Overridden
<1> HIDE DEF Value
<1>5. values \in Seq(Byte) /\ Len(values) = n
  BY <1>1, <1>2
<1> HIDE DEF values
<1>6. HasValidCrc(Frame(values), Len(values) + 2)
  BY <1>5, FrameIsValid
<1>7. Len(values) + 2 = Len(f)
  BY <1>1, <1>5
<1> QED
  BY <1>4, <1>6, <1>7

\* What goes out next is what is held, or a frame with a CRC of its own.
LEMMA OutgoingTold ==
    ASSUME TypeOK, ~NeedMore(buf)
    PROVE  \/ Outgoing(buf) = SubSeq(buf, 1, Len(Outgoing(buf)))
           \/ /\ Len(Outgoing(buf)) \in 5 .. 255 /\ HasValidCrc(buf, Len(Outgoing(buf)))
              /\ HasValidCrc(Outgoing(buf), Len(Outgoing(buf)))
<1>1. buf \in Seq(Cell) /\ Len(buf) \in Nat /\ Len(buf) >= 4
  BY LenProperties DEF TypeOK, NeedMore
<1>2. CASE FrameHere(buf)
  <2> DEFINE n == ResponseLen(buf)
             f == SubSeq(buf, 1, n)
  <2>1. n \in 5 .. 255 /\ n <= Len(buf) /\ HasValidCrc(buf, n)
    BY <1>2, HeadLength
  <2>2. Outgoing(buf) = IF IsRead(buf) THEN Overridden(f, slot) ELSE f
    BY <1>2 DEF Outgoing, n
  <2> HIDE DEF n
  <2>3. n \in 0 .. Len(buf) /\ n \in Nat /\ 2 <= n
    BY <1>1, <2>1
  <2>4. f \in Seq(Cell) /\ Len(f) = n /\ \A p \in 1 .. n : f[p] = buf[p]
    <3>1. n <= Len(buf)
      BY <2>1
    <3> QED
      BY <1>1, <2>3, <3>1, StartPart
  <2> HIDE DEF f
  <2>5. HasValidCrc(f, n)
    <3>1. /\ buf \in Seq(Cell) /\ f \in Seq(Cell) /\ n \in Nat /\ 2 <= n
          /\ n <= Len(buf) /\ n <= Len(f) /\ \A p \in 1 .. n : buf[p] = f[p]
      BY <1>1, <2>1, <2>3, <2>4
    <3> QED
      BY <2>1, <3>1, CrcAlike
  <2>6. Overridden(f, slot) \in Seq(Cell) /\ Len(Overridden(f, slot)) = Len(f)
    BY <2>3, <2>4, OverriddenType DEF TypeOK
  <2>7. HasValidCrc(Overridden(f, slot), Len(f))
    BY <2>3, <2>4, <2>5, OverriddenValid DEF TypeOK
  <2>8. CASE IsRead(buf)
    BY <2>1, <2>2, <2>4, <2>6, <2>7, <2>8
  <2>9. CASE ~IsRead(buf)
    BY <2>2, <2>4, <2>9 DEF f
  <2> QED
    BY <2>8, <2>9
<1>3. CASE ~FrameHere(buf)
  <2>1. Outgoing(buf) = SubSeq(buf, 1, 1)
    BY <1>3 DEF Outgoing
  <2>2. Len(SubSeq(buf, 1, 1)) = 1
    BY <1>1, Cut
  <2> QED
    BY <2>1, <2>2
<1> QED
  BY <1>2, <1>3

\* A frame as the device side sends it: its last byte alone may be the second of a
\* CRC, for its own length, and that CRC matches if the frame is intact.
SentFrame(g, intact) ==
    /\ Len(g) >= 4 /\ (intact <=> HasValidCrc(g, Len(g)))
    /\ \A p \in 1 .. Len(g), w \in Seq(Byte) : HiOf(g[p], w) => p = Len(g) /\ Len(g) = Len(w) + 2

LEMMA AnswerIsSent ==
    ASSUME NEW f, Answer(f), NEW how \in Damage
    PROVE  Damaged(f, how) \in Seq(Cell) /\ SentFrame(Damaged(f, how), how = "none")
<1>1. PICK v \in Seq(Byte) : Len(v) >= 3 /\ v[1] # 0 /\ f = Frame(v)
  BY DEF Answer
<1> DEFINE g == Damaged(Frame(v), how)
<1>2. how \in Damages
  BY ByteAssumption
<1>3. /\ g \in Seq(Cell) /\ Len(g) >= 4
      /\ \A w : \A p \in 1 .. Len(g) : HiOf(g[p], w) => p = Len(g) /\ w = v /\ Len(g) = Len(v) + 2
      /\ how = "none" <=> HasValidCrc(g, Len(g))
  BY <1>1, <1>2, DamagedFrame
<1>4. Damaged(f, how) = g
  BY <1>1
<1> HIDE DEF g
<1>5. \A p \in 1 .. Len(g), w \in Seq(Byte) : HiOf(g[p], w) => p = Len(g) /\ Len(g) = Len(w) + 2
  BY <1>3
<1>6. (how = "none") <=> HasValidCrc(g, Len(g))
  BY <1>3
<1> QED
  BY <1>3, <1>4, <1>5, <1>6 DEF SentFrame

\* The device sends nothing, or a frame.
LEMMA Answered ==
    ASSUME TypeOK, DeviceAnswers
    PROVE  \/ UNCHANGED <<sent, replies>>
           \/ \E g \in Seq(Cell), k \in ReplyRecord :
                 /\ SentFrame(g, k.intact)
                 /\ k.at = Len(sent) /\ k.len = Len(g)
                 /\ sent' = sent \o g /\ replies' = Append(replies, k)
<1>0. Len(sent) \in Nat
  BY LenProperties DEF TypeOK
<1>1. ASSUME NEW r \in Requests, NEW how \in Damage, NEW f, Answer(f), NEW data \in BOOLEAN,
             Sends(r, f, how, data)
      PROVE  \E g \in Seq(Cell), k \in ReplyRecord :
                 /\ SentFrame(g, k.intact)
                 /\ k.at = Len(sent) /\ k.len = Len(g)
                 /\ sent' = sent \o g /\ replies' = Append(replies, k)
  <2> DEFINE g == Damaged(f, how)
             k == [at |-> Len(sent), len |-> Len(g), req |-> r, intact |-> how = "none", data |-> data]
  <2>1. g \in Seq(Cell) /\ SentFrame(g, how = "none")
    BY <1>1, AnswerIsSent
  <2>2. sent' = sent \o g /\ replies' = Append(replies, k)
    BY <1>1 DEF Sends
  <2> HIDE DEF g
  <2>3. r \in Request /\ Len(g) \in Nat
    BY <2>1, ByteAssumption, LenProperties
  <2>4. k \in ReplyRecord
    BY <1>0, <2>3 DEF ReplyRecord
  <2>5. k.at = Len(sent) /\ k.len = Len(g) /\ k.intact = (how = "none")
    OBVIOUS
  <2> HIDE DEF k
  <2>6. SentFrame(g, k.intact)
    BY <2>1, <2>5, Zenon
  <2> QED
    BY <2>1, <2>2, <2>4, <2>5, <2>6
<1>2. ASSUME NEW r \in Requests
      PROVE  /\ Answer(ReplyFrame(r, RegisterBytes(r.count))) /\ Answer(ExceptionFrame(r))
             /\ (r.fn # 6) \in BOOLEAN
  <2>1. r \in Request /\ RegisterBytes(r.count) \in Seq(Byte)
    BY ByteAssumption, RegisterCells
  <2> QED
    BY <2>1, ReplyIsAnswer
<1>3. \/ \E r \in Requests, how \in Damage :
             \/ Sends(r, ReplyFrame(r, RegisterBytes(r.count)), how, r.fn # 6)
             \/ Sends(r, ExceptionFrame(r), how, FALSE)
      \/ UNCHANGED <<sent, replies>>
  BY DEF DeviceAnswers
<1>4. ASSUME NEW r \in Requests, NEW how \in Damage,
             Sends(r, ReplyFrame(r, RegisterBytes(r.count)), how, r.fn # 6)
      PROVE  \E g \in Seq(Cell), k \in ReplyRecord :
                 /\ SentFrame(g, k.intact)
                 /\ k.at = Len(sent) /\ k.len = Len(g)
                 /\ sent' = sent \o g /\ replies' = Append(replies, k)
  BY <1>1, <1>2, <1>4
<1>5. ASSUME NEW r \in Requests, NEW how \in Damage, Sends(r, ExceptionFrame(r), how, FALSE)
      PROVE  \E g \in Seq(Cell), k \in ReplyRecord :
                 /\ SentFrame(g, k.intact)
                 /\ k.at = Len(sent) /\ k.len = Len(g)
                 /\ sent' = sent \o g /\ replies' = Append(replies, k)
  BY <1>1, <1>2, <1>5
<1> QED
  BY <1>3, <1>4, <1>5

\* A new frame on the line: the replies before it stay what they were.
LEMMA CrcGrows ==
    ASSUME TypeOK, InOrder, CrcInv, ph # "stopped", UNCHANGED <<ph, fwd>>,
           NEW g \in Seq(Cell), NEW k \in ReplyRecord, SentFrame(g, k.intact),
           k.at = Len(sent), k.len = Len(g), sent' = sent \o g, replies' = Append(replies, k)
    PROVE  CrcInv'
<1> DEFINE m == Len(replies)
           end == Len(sent)
<1>0. /\ sent \in Seq(Cell) /\ sent' \in Seq(Cell) /\ end \in Nat /\ Len(g) \in Nat
      /\ Len(sent') = end + Len(g)
      /\ \A p \in 1 .. end : sent'[p] = sent[p]
      /\ \A p \in 1 .. Len(g) : sent'[end + p] = g[p]
  <2>1. sent \in Seq(Cell)
    BY DEF TypeOK
  <2> QED
    BY <2>1, Joined
<1>1. /\ replies' \in Seq(ReplyRecord) /\ m \in Nat /\ DOMAIN replies = 1 .. m
      /\ DOMAIN replies' = 1 .. m + 1
      /\ \A i \in 1 .. m : replies'[i] = replies[i]
      /\ replies'[m + 1] = k
  <2>1. replies \in Seq(ReplyRecord)
    BY DEF CrcInv, Framed
  <2>2. m \in Nat /\ DOMAIN replies = 1 .. m
    BY <2>1, LenProperties
  <2>3. /\ replies' \in Seq(ReplyRecord) /\ Len(replies') = m + 1
        /\ \A i \in 1 .. m : replies'[i] = replies[i]
        /\ replies'[m + 1] = k
    BY <2>1, AppendProperties
  <2>4. DOMAIN replies' = 1 .. m + 1
    BY <2>3, LenProperties
  <2> QED
    BY <2>2, <2>3, <2>4
<1>2. ASSUME NEW i \in 1 .. m
      PROVE  /\ replies[i].at \in Nat /\ replies[i].len \in Nat
             /\ replies[i].len >= 4 /\ replies[i].at + replies[i].len <= end
  BY <1>1, ReplyAt DEF CrcInv
<1>3. k.at = end /\ k.len = Len(g) /\ k.len >= 4 /\ k.len \in Nat
  BY <1>0 DEF SentFrame
<1> HIDE DEF m, end
<1>4. \A i \in 1 .. m + 1 : i \in 1 .. m \/ i = m + 1
  BY <1>1
<1>5. InSent'
  <2>1. ASSUME NEW i \in 1 .. m
        PROVE  LET j == replies[i]
               IN  j.len >= 4 /\ j.at + j.len <= Len(sent') /\ (j.intact <=> HasValidCrc(Slice(sent', j), j.len))
    <3> DEFINE j == replies[i]
               a == j.at
               n == j.len
    <3>1. /\ a \in Nat /\ n \in Nat /\ n >= 4 /\ a + n <= end
      BY <1>2
    <3>2. j.intact <=> HasValidCrc(Slice(sent, j), j.len)
      BY <1>1 DEF CrcInv, Framed, InSent
    <3> HIDE DEF a, n
    <3>3. a + n <= Len(sent') /\ a + n <= Len(sent)
      BY <1>0, <3>1 DEF end
    <3>4. \A p \in 1 .. n : sent[a + p] = sent'[a + p]
      <4>1. \A p \in 1 .. n : a + p \in 1 .. end
        BY <1>0, <3>1
      <4> QED
        BY <1>0, <4>1
    <3>5. SubSeq(sent, a + 1, a + n) = SubSeq(sent', a + 1, a + n)
      BY <1>0, <3>1, <3>3, <3>4, PartAlike
    <3>6. Slice(sent', j) = Slice(sent, j)
      BY <3>5 DEF Slice, a, n
    <3>7. j.len >= 4 /\ j.at + j.len <= Len(sent')
      BY <3>1, <3>3 DEF a, n
    <3> QED
      BY <3>2, <3>6, <3>7
  <2>2. k.len >= 4 /\ k.at + k.len <= Len(sent') /\ (k.intact <=> HasValidCrc(Slice(sent', k), k.len))
    <3> DEFINE n == Len(g)
               f == SubSeq(sent', end + 1, end + n)
    <3>1. end \in Nat /\ n \in Nat /\ end + n <= Len(sent') /\ n >= 4 /\ 2 <= n
      BY <1>0, <1>3
    <3>2. f \in Seq(Cell) /\ Len(f) = n /\ \A p \in 1 .. n : f[p] = sent'[end + p]
      <4> DEFINE t == sent'
      <4>1. t \in Seq(Cell) /\ end \in Nat /\ n \in Nat /\ end + n <= Len(t)
        BY <1>0, <3>1
      <4> HIDE DEF t, n, f
      <4>2. /\ SubSeq(t, end + 1, end + n) \in Seq(Cell) /\ Len(SubSeq(t, end + 1, end + n)) = n
            /\ \A p \in 1 .. n : SubSeq(t, end + 1, end + n)[p] = t[end + p]
        BY <4>1, Part
      <4> QED
        BY <4>2 DEF t, f
    <3>3. Slice(sent', k) = f
      BY <1>3 DEF Slice
    <3>4. k.intact <=> HasValidCrc(g, n)
      BY DEF SentFrame
    <3>5. \A p \in 1 .. n : f[p] = g[p]
      BY <1>0, <3>2
    <3> HIDE DEF f
    <3>6. HasValidCrc(f, n) <=> HasValidCrc(g, n)
      <4>1. n <= Len(f) /\ n <= Len(g)
        BY <3>1, <3>2
      <4> HIDE DEF n
      <4> QED
        BY <3>1, <3>2, <3>5, <4>1, CrcAlike
    <3> QED
      BY <1>3, <3>1, <3>3, <3>4, <3>6
  <2> QED
    BY <1>1, <1>4, <2>1, <2>2 DEF InSent
<1>6. Apart'
  <2>1. ASSUME NEW i \in 1 .. m, NEW j \in 1 .. m
        PROVE  \/ i = j
               \/ replies'[i].at + replies'[i].len <= replies'[j].at
               \/ replies'[j].at + replies'[j].len <= replies'[i].at
    BY <1>1 DEF CrcInv, Framed, Apart
  <2>2. ASSUME NEW i \in 1 .. m PROVE replies'[i].at + replies'[i].len <= k.at
    BY <1>1, <1>2, <1>3
  <2> SUFFICES ASSUME NEW i \in DOMAIN replies', NEW j \in DOMAIN replies'
               PROVE  \/ i = j
                      \/ replies'[i].at + replies'[i].len <= replies'[j].at
                      \/ replies'[j].at + replies'[j].len <= replies'[i].at
    BY DEF Apart
  <2>3. (i \in 1 .. m \/ i = m + 1) /\ (j \in 1 .. m \/ j = m + 1)
    BY <1>1, <1>4
  <2> QED
    BY <1>1, <2>1, <2>2, <2>3
<1>7. CrcEnds'
  <2> SUFFICES ASSUME NEW p \in 2 .. Len(sent'), NEW w \in Seq(Byte),
                      LoOf(sent'[p - 1], w), HiOf(sent'[p], w)
               PROVE  \/ \A i \in DOMAIN replies' : p <= replies'[i].at
                      \/ \E i \in DOMAIN replies' : /\ replies'[i].at + replies'[i].len = p
                                                    /\ replies'[i].len = Len(w) + 2
    BY DEF CrcEnds
  <2>1. CASE p <= end
    <3>1. p \in 2 .. Len(sent) /\ sent'[p - 1] = sent[p - 1] /\ sent'[p] = sent[p]
      <4>1. p - 1 \in 1 .. end /\ p \in 1 .. end /\ p \in 2 .. end
        BY <1>0, <2>1
      <4> QED
        BY <1>0, <4>1 DEF end
    <3>2. \/ \A i \in 1 .. m : p <= replies[i].at
          \/ \E i \in 1 .. m : /\ replies[i].at + replies[i].len = p
                               /\ replies[i].len = Len(w) + 2
      <4>1. LoOf(sent[p - 1], w) /\ HiOf(sent[p], w)
        <5> DEFINE o == p - 1
        <5>1. sent'[o] = sent[o] /\ LoOf(sent'[o], w)
          BY <3>1
        <5>2. LoOf(sent[o], w)
          BY <5>1
        <5> QED
          BY <3>1, <5>2
      <4>2. CrcEnds
        BY DEF CrcInv, Framed
      <4>3. \/ \A i \in DOMAIN replies : p <= replies[i].at
            \/ \E i \in DOMAIN replies : /\ replies[i].at + replies[i].len = p
                                         /\ replies[i].len = Len(w) + 2
        BY <3>1, <4>1, <4>2 DEF CrcEnds
      <4> QED
        BY <1>1, <4>3
    <3>3. 1 .. m \subseteq 1 .. m + 1
      BY <1>1
    <3> QED
      BY <1>1, <1>3, <1>4, <2>1, <3>2, <3>3
  <2>2. CASE ~ (p <= end)
    <3> DEFINE q == p - end
    <3>1. q \in 1 .. Len(g) /\ end + q = p
      BY <1>0, <2>2
    <3> HIDE DEF q
    <3>2. HiOf(g[q], w)
      BY <1>0, <3>1
    <3>3. q = Len(g) /\ Len(g) = Len(w) + 2
      BY <3>1, <3>2 DEF SentFrame
    <3>4. m + 1 \in 1 .. m + 1
      BY <1>1, SMTT(30)
    <3>5. k.at + k.len = p /\ k.len = Len(w) + 2
      BY <1>3, <3>1, <3>3
    <3> QED
      BY <1>1, <3>4, <3>5
  <2> QED
    BY <2>1, <2>2
<1>8. Told'
  <2>0. Len(fwd) \in Nat /\ Len(fwd) <= end
    BY LenProperties DEF TypeOK, InOrder, end
  <2>1. ASSUME NEW i \in 1 .. m
        PROVE  (Agrees(replies[i]) \/ Renewed(replies[i]) \/ CutOff(replies[i]))'
    <3> DEFINE j == replies[i]
    <3>1. Agrees(j) \/ Renewed(j)
      BY <1>1 DEF CrcInv, Told, CutOff
    <3>2. j' = j
      BY <1>1
    <3>3. j.at \in Nat /\ j.len \in Nat /\ j.at + j.len <= end
      BY <1>2
    <3> HIDE DEF j
    <3>4. CASE Agrees(j)
      <4>1. \A p \in 1 .. j.len : j.at + p \in 1 .. end
        BY <1>0, <3>3, SMTT(30)
      <4>2. \A p \in 1 .. j.len : sent'[j.at + p] = sent[j.at + p]
        BY <1>0, <4>1
      <4> QED
        BY <3>2, <3>4, <4>2 DEF Agrees, j
    <3>5. CASE Renewed(j)
      BY <3>2, <3>5 DEF Renewed, Slice, j
    <3> QED
      BY <3>1, <3>4, <3>5
  <2>2. \A p \in 1 .. k.len : ~ (k.at + p <= Len(fwd'))
    BY <1>0, <1>3, <2>0
  <2>3. Agrees(k)'
    BY <2>2 DEF Agrees
  <2> QED
    BY <1>1, <1>4, <2>1, <2>3 DEF Told
<1> QED
  BY <1>1, <1>5, <1>6, <1>7, <1>8 DEF CrcInv, Framed

LEMMA CrcInit == ASSUME Init PROVE CrcInv
<1>1. replies = <<>> /\ replies \in Seq(ReplyRecord) /\ DOMAIN replies = {}
  BY EmptySeq DEF Init
<1> QED
  BY <1>1 DEF CrcInv, Framed, InSent, Apart, CrcEnds, Told

\* A step of the running proxy or its surroundings that adds no byte on either side.
LEMMA CrcUnchanged ==
    ASSUME CrcInv, ph # "stopped", UNCHANGED <<fwd, sent, replies>> PROVE CrcInv'
  BY DEF CrcInv, Framed, InSent, Apart, CrcEnds, Told, Agrees, Renewed, CutOff, Slice

LEMMA CrcReadBus ==
    ASSUME TypeOK, OrderInv, CrcInv, NEW c \in Chunks, ReadBus(c) PROVE CrcInv'
<1>0. ph # "stopped" /\ UNCHANGED <<sent, replies>> /\ buf \in Seq(Cell) /\ Len(buf) \in Nat
  BY LenProperties DEF ReadBus, env, TypeOK
<1>1. PICK n \in 0 .. Len(buf) : fwd' = fwd \o SubSeq(buf, 1, n)
  BY ReadBusParts
<1> DEFINE h == SubSeq(buf, 1, n)
<1>2. n \in Nat /\ n <= Len(buf)
  BY <1>0
<1>3. h \in Seq(Cell) /\ Len(h) = n /\ \A p \in 1 .. n : h[p] = buf[p]
  BY <1>0, <1>2, StartPart
<1>4. fwd' = fwd \o h
  BY <1>1
<1> HIDE DEF h
<1>5. Len(h) <= Len(buf) /\ \A p \in 1 .. Len(h) : h[p] = buf[p]
  BY <1>2, <1>3
<1> QED
  BY <1>0, <1>3, <1>4, <1>5, ToldOnward

\* Nor does a write that fails while room is made.
LEMMA CrcMakingRoom ==
    ASSUME TypeOK, OrderInv, CrcInv, NEW c \in Chunks, MakingRoomFails(c) PROVE CrcInv'
<1>0. ph # "stopped" /\ UNCHANGED <<sent, replies>> /\ buf \in Seq(Cell) /\ Len(buf) \in Nat
  BY LenProperties DEF MakingRoomFails, env, TypeOK
<1>1. PICK n \in 0 .. Len(buf) : fwd' = fwd \o SubSeq(buf, 1, n)
  BY MakingRoomParts
<1> DEFINE h == SubSeq(buf, 1, n)
<1>2. n \in Nat /\ n <= Len(buf)
  BY <1>0
<1>3. h \in Seq(Cell) /\ Len(h) = n /\ \A p \in 1 .. n : h[p] = buf[p]
  BY <1>0, <1>2, StartPart
<1>4. fwd' = fwd \o h
  BY <1>1
<1> HIDE DEF h
<1>5. Len(h) <= Len(buf) /\ \A p \in 1 .. Len(h) : h[p] = buf[p]
  BY <1>2, <1>3
<1> QED
  BY <1>0, <1>3, <1>4, <1>5, ToldOnward

\* The part of what goes out next that is written, all of it or a start before the
\* proxy ends.
LEMMA CrcWritten ==
    ASSUME TypeOK, OrderInv, CrcInv, ph = "down", ~NeedMore(buf), UNCHANGED <<sent, replies>>,
           NEW n \in 0 .. Len(Outgoing(buf)), fwd' = fwd \o SubSeq(Outgoing(buf), 1, n),
           n < Len(Outgoing(buf)) => ph' = "stopped"
    PROVE  CrcInv'
<1> DEFINE o == Outgoing(buf)
           h == SubSeq(o, 1, n)
<1>0. buf \in Seq(Cell) /\ Len(buf) \in Nat
  BY LenProperties DEF TypeOK
<1>1. o \in Seq(Cell) /\ Len(o) \in 1 .. Len(buf)
  BY OutgoingType
<1>2. n \in Nat /\ n <= Len(o) /\ Len(o) \in Nat /\ Len(o) <= Len(buf)
  BY <1>0, <1>1
<1>3. fwd' = fwd \o h /\ (n < Len(o) => ph' = "stopped")
  OBVIOUS
<1>4. \/ o = SubSeq(buf, 1, Len(o))
      \/ Len(o) \in 5 .. 255 /\ HasValidCrc(buf, Len(o)) /\ HasValidCrc(o, Len(o))
  BY OutgoingTold
<1> HIDE DEF o
<1>5. h \in Seq(Cell) /\ Len(h) = n /\ \A p \in 1 .. n : h[p] = o[p]
  BY <1>1, <1>2, StartPart
<1> HIDE DEF h
<1>6. CASE o = SubSeq(buf, 1, Len(o))
  <2>1. \A p \in 1 .. Len(o) : o[p] = buf[p]
    <3> DEFINE m == Len(o)
    <3>1. m \in Nat /\ m <= Len(buf) /\ o = SubSeq(buf, 1, m)
      BY <1>2, <1>6
    <3> HIDE DEF m
    <3>2. \A p \in 1 .. m : SubSeq(buf, 1, m)[p] = buf[p]
      BY <1>0, <3>1, StartPart
    <3> QED
      BY <3>1, <3>2 DEF m
  <2>2. Len(h) <= Len(buf) /\ \A p \in 1 .. Len(h) : h[p] = buf[p]
    BY <1>0, <1>2, <1>5, <2>1
  <2> QED
    BY <1>3, <1>5, <2>2, ToldOnward
<1>7. CASE Len(o) \in 5 .. 255 /\ HasValidCrc(buf, Len(o)) /\ HasValidCrc(o, Len(o))
  <2> DEFINE m == Len(o)
  <2>0. m \in 5 .. 255 /\ m <= Len(buf) /\ HasValidCrc(buf, m) /\ m \in Nat /\ n <= m
    BY <1>2, <1>7
  <2>1. \/ Len(h) = m /\ HasValidCrc(h, m)
        \/ Len(h) < m /\ ph' = "stopped"
    <3>1. CASE n = m
      <4>0. m \in Nat /\ 2 <= m /\ m <= Len(o) /\ m <= Len(h)
        <5>1. Len(o) = m /\ Len(h) = m /\ m \in 5 .. 255
          BY <1>5, <2>0, <3>1
        <5> HIDE DEF m
        <5> QED
          BY <5>1
      <4>1. /\ o \in Seq(Cell) /\ h \in Seq(Cell) /\ m \in Nat /\ 2 <= m
            /\ m <= Len(o) /\ m <= Len(h) /\ \A p \in 1 .. m : o[p] = h[p]
        BY <1>1, <1>5, <3>1, <4>0
      <4>2. HasValidCrc(o, m) <=> HasValidCrc(h, m)
        <5> HIDE DEF m
        <5> QED
          BY <4>1, CrcAlike
      <4> QED
        BY <1>5, <1>7, <3>1, <4>2
    <3>2. CASE n # m
      <4>0. n \in Nat
        BY <1>2
      <4>1. n < m
        <5> HIDE DEF m
        <5> QED
          BY <2>0, <3>2, <4>0
      <4> QED
        BY <1>3, <1>5, <4>1
    <3> QED
      BY <3>1, <3>2
  <2> HIDE DEF m
  <2>2. ph # "stopped" /\ UNCHANGED <<sent, replies>> /\ fwd' = fwd \o h /\ h \in Seq(Cell)
    BY <1>3, <1>5
  <2> QED
    BY <2>0, <2>1, <2>2, ToldRenewed
<1> QED
  BY <1>4, <1>6, <1>7

LEMMA CrcForward == ASSUME TypeOK, OrderInv, CrcInv, Forward PROVE CrcInv'
<1> DEFINE o == Outgoing(buf)
<1>1. ph = "down" /\ ~NeedMore(buf) /\ UNCHANGED <<sent, replies>> /\ fwd' = fwd \o o
  BY DEF Forward, env
<1>2. o \in Seq(Cell) /\ Len(o) \in Nat
  BY <1>1, OutgoingType, LenProperties
<1>3. SubSeq(o, 1, Len(o)) = o
  BY <1>2, SubSeqFull
<1>4. Len(o) \in 0 .. Len(o) /\ ~ (Len(o) < Len(o))
  BY <1>2
<1> QED
  BY <1>1, <1>3, <1>4, CrcWritten

LEMMA CrcForwardFails == ASSUME TypeOK, OrderInv, CrcInv, ForwardFails PROVE CrcInv'
<1>1. ph = "down" /\ ~NeedMore(buf) /\ UNCHANGED <<sent, replies>> /\ ph' = "stopped"
  BY DEF ForwardFails, env
<1>2. Len(Outgoing(buf)) \in Nat
  BY <1>1, OutgoingType, LenProperties
<1>3. PICK n \in 0 .. Len(Outgoing(buf)) - 1 : fwd' = fwd \o SubSeq(Outgoing(buf), 1, n)
  BY DEF ForwardFails
<1>4. n \in 0 .. Len(Outgoing(buf))
  BY <1>2
<1> QED
  BY <1>1, <1>3, <1>4, CrcWritten

\* Every step keeps the CRC of what went out true.
LEMMA CrcStep == ASSUME TypeOK, OrderInv, CrcInv, [Next]_vars PROVE CrcInv'
<1>1. CASE ControllerAsks
  BY <1>1, CrcUnchanged DEF ControllerAsks
<1>2. CASE DeviceAnswers
  <2>1. ph # "stopped" /\ UNCHANGED <<ph, fwd>> /\ InOrder
    BY <1>2 DEF DeviceAnswers, OrderInv
  <2>2. CASE UNCHANGED <<sent, replies>>
    BY <2>1, <2>2, CrcUnchanged
  <2>3. ASSUME NEW g \in Seq(Cell), NEW k \in ReplyRecord, SentFrame(g, k.intact),
               k.at = Len(sent), k.len = Len(g), sent' = sent \o g, replies' = Append(replies, k)
        PROVE  CrcInv'
    BY <2>1, <2>3, CrcGrows
  <2> QED
    BY <1>2, <2>2, <2>3, Answered
<1>3. ASSUME NEW c \in Chunks, NEW d \in Chunks, DetectRead(c, d) PROVE CrcInv'
  BY <1>3, CrcUnchanged DEF DetectRead, env
<1>4. CASE Poll
  BY <1>4, CrcUnchanged DEF Poll, env
<1>5. ASSUME NEW c \in Chunks, ReadController(c) PROVE CrcInv'
  BY <1>5, CrcUnchanged DEF ReadController, env
<1>6. ASSUME NEW c \in Chunks, ReadBus(c) PROVE CrcInv'
  BY <1>6, CrcReadBus
<1>15. ASSUME NEW c \in Chunks, MakingRoomFails(c) PROVE CrcInv'
  BY <1>15, CrcMakingRoom
<1>7. CASE ScanRequest \/ ScanSkip \/ ScanEnd
  BY <1>7, CrcUnchanged DEF ScanRequest, ScanSkip, ScanEnd, env
<1>8. CASE Forward
  BY <1>8, CrcForward
<1>9. CASE ForwardEnd
  BY <1>9, CrcUnchanged DEF ForwardEnd, env
<1>10. CASE ForwardFails
  BY <1>10, CrcForwardFails
<1>11. ASSUME NEW o \in Typed, SetOverride(o) PROVE CrcInv'
  BY <1>11, CrcUnchanged DEF SetOverride, AtConsole, env
<1>12. ASSUME NEW key \in DOMAIN ovr, ClearOverride(key) PROVE CrcInv'
  BY <1>12, CrcUnchanged DEF ClearOverride, AtConsole, env
<1>13. CASE Stop
  BY <1>13, CrcUnchanged DEF Stop, env
<1>14. CASE UNCHANGED vars
  BY <1>14 DEF vars, CrcInv, Framed, InSent, Apart, CrcEnds, Told, Agrees, Renewed, CutOff, Slice
<1> QED
  BY <1>1, <1>2, <1>3, <1>4, <1>5, <1>6, <1>7, <1>8, <1>9, <1>10, <1>11, <1>12, <1>13, <1>14, <1>15
  DEF Next, Proxy

\* Whatever the line does, however the reads are cut and whatever is overridden: a
\* reply that is damaged never reaches the controller with a CRC that matches, and
\* one that is not always does.
THEOREM DamageShows == Spec => []DamageStaysVisible
<1>1. Init => TypeOK /\ OrderInv /\ CrcInv
  BY TypeInit, OrderInit, CrcInit
<1>2. (TypeOK /\ OrderInv /\ CrcInv) /\ [Next]_vars => (TypeOK /\ OrderInv /\ CrcInv)'
  BY TypeStep, OrderStep, CrcStep
<1>3. TypeOK /\ OrderInv /\ CrcInv => DamageStaysVisible
  BY ToldIsVisible DEF OrderInv
<1> QED
  BY <1>1, <1>2, <1>3, PTL DEF Spec

-----------------------------------------------------------------------------
(* Where the requests are in what the controller sent. *)

Asking == [req : Request, intact : BOOLEAN, quiet : BOOLEAN]
RequestValues(r) ==
    <<r.dev, r.fn, r.start \div 256, r.start % 256, r.count \div 256, r.count % 256>>

LastAsked == asked[Len(asked)]
AllIntact == \A i \in DOMAIN asked : asked[i].intact
ReadAsked == asked # <<>> /\ LastAsked.intact /\ LastAsked.req.fn # 6

\* The latest request is an intact read that is not all received yet.
Coming == ctl # <<>> /\ ReadAsked

\* The second byte of a CRC is the last that the controller has sent, and belongs
\* to the request it has sent last.
ReadEnds ==
    /\ Len(ctl) <= 8
    /\ \A p \in 1 .. Len(ctl), w \in Seq(Byte) : HiOf(ctl[p], w) =>
          p = Len(ctl) /\ asked # <<>> /\ LastAsked.intact /\ w = RequestValues(LastAsked.req)

\* While the ports are told apart there is no request among the bytes received.
NotYet == ph = "detect" => slot = NoRequest /\ ~HasRequest(up)

\* Between two reads less is left than a request has.
Scanned == ph \in {"loop", "down"} => Len(up) < 8

\* While they are parsed there may be one, at the end, and it is the latest.
OneRequest ==
    ph = "up" => \A i \in 0 .. Len(up) - 8 :
        IsReadRequest(Drop(up, i)) => i = Len(up) - 8 /\ (HeadRequest(Drop(up, i)) = Latest \/ Coming)

\* What has come of the latest request is kept whole.
InPart ==
    LET f == RequestFrame(LastAsked.req)
        c == Len(ctl)
    IN  /\ 8 - c <= Len(up)
        /\ \A p \in 1 .. c : ctl[p] = f[8 - c + p]
        /\ \A p \in 1 .. 8 - c : up[Len(up) - (8 - c) + p] = f[p]

KeptWhole == ph \notin {"detect", "stopped"} /\ Coming => InPart

\* The latest request ends what is being parsed.
AtEnd == /\ Len(up) >= 8 /\ Latest # NoRequest
         /\ \A p \in 1 .. 8 : up[Len(up) - 8 + p] = RequestFrame(Latest)[p]

Waiting == slot \in {NoRequest, Latest} \/ Coming \/ (ph = "up" /\ AtEnd)

PlaceInv ==
    /\ asked \in Seq(Asking) /\ ReadEnds
    /\ NotYet /\ Scanned /\ OneRequest /\ KeptWhole /\ Waiting

LEMMA RequestFrameOf ==
    ASSUME NEW r \in Request
    PROVE  /\ RequestValues(r) \in Seq(Byte) /\ Len(RequestValues(r)) = 6
           /\ RequestValues(r)[1] # 0 /\ RequestFrame(r) = Frame(RequestValues(r))
<1>1. /\ r.dev \in Byte /\ r.dev # 0 /\ r.fn \in Byte
      /\ r.start \div 256 \in Byte /\ r.start % 256 \in Byte
      /\ r.count \div 256 \in Byte /\ r.count % 256 \in Byte
  BY RequestParts, TwoBytes
<1> QED
  BY <1>1 DEF RequestValues, RequestFrame

\* A request that the proxy finds ends in the CRC of its six values.
LEMMA FoundEnds ==
    ASSUME NEW b \in Seq(Cell), IsReadRequest(b)
    PROVE  \E w \in Seq(Byte) : Len(w) = 6 /\ HiOf(b[8], w) /\ \A p \in 1 .. 6 : b[p].v = w[p]
<1> DEFINE w == [p \in 1 .. 6 |-> b[p].v]
<1>1. Len(b) >= 8 /\ HasValidCrc(b, 8) /\ Len(b) \in Nat
  BY LenProperties DEF IsReadRequest
<1>2. \A p \in 1 .. 6 : b[p].v \in Byte
  <2>1. \A p \in 1 .. 6 : b[p] \in Cell
    BY <1>1, ElementOfSeq
  <2> QED
    BY <2>1 DEF Cell
<1>3. w \in Seq(Byte) /\ Len(w) = 6 /\ \A p \in 1 .. 6 : w[p] = b[p].v
  BY <1>2
<1>4. b[8] = HiCell(w)
  <2> DEFINE n == 8
             x == [p \in 1 .. n - 2 |-> b[p].v]
  <2>1. n \in Nat /\ 2 <= n /\ n <= Len(b) /\ HasValidCrc(b, n)
    BY <1>1
  <2>2. x = w
    OBVIOUS
  <2> HIDE DEF n
  <2>3. HasValidCrc(b, n) <=> b[n - 1] = LoCell(x) /\ b[n] = HiCell(x)
    BY <2>1, ValidCrc
  <2>4. b[n] = HiCell(w)
    BY <2>1, <2>2, <2>3
  <2> QED
    BY <2>4 DEF n
<1> HIDE DEF w
<1> QED
  BY <1>3, <1>4, CrcOf

\* The request with these values is the one that is found.
LEMMA FoundIs ==
    ASSUME NEW b \in Seq(Cell), IsReadRequest(b), NEW r \in Request,
           \A p \in 1 .. 6 : b[p].v = RequestValues(r)[p]
    PROVE  HeadRequest(b) = r /\ r.fn # 6
<1>1. /\ b[1].v = r.dev /\ b[2].v = r.fn /\ b[3].v = r.start \div 256 /\ b[4].v = r.start % 256
      /\ b[5].v = r.count \div 256 /\ b[6].v = r.count % 256
  BY DEF RequestValues
<1>2. r.start \in Nat /\ r.count \in Nat
  BY RequestParts DEF Word
<1>3. \A n \in Nat : 256 * (n \div 256) + (n % 256) = n
  OBVIOUS
<1>4. 256 * b[3].v + b[4].v = r.start /\ 256 * b[5].v + b[6].v = r.count
  <2>1. 256 * (r.start \div 256) + (r.start % 256) = r.start
    BY <1>2, <1>3, ZenonT(30)
  <2>2. 256 * (r.count \div 256) + (r.count % 256) = r.count
    BY <1>2, <1>3, ZenonT(30)
  <2> QED
    BY <1>1, <2>1, <2>2
<1>5. r = [dev |-> r.dev, fn |-> r.fn, start |-> r.start, count |-> r.count]
  BY DEF Request
<1>6. b[2].v \in {3, 4}
  BY DEF IsReadRequest
<1> QED
  BY <1>1, <1>4, <1>5, <1>6 DEF HeadRequest

\* Whether there is a request depends on eight bytes.
LEMMA FoundAlike ==
    ASSUME NEW s \in Seq(Cell), NEW t \in Seq(Cell), Len(s) >= 8, Len(t) >= 8,
           \A p \in 1 .. 8 : s[p] = t[p]
    PROVE  (IsReadRequest(s) <=> IsReadRequest(t)) /\ HeadRequest(s) = HeadRequest(t)
<1>1. s[1] = t[1] /\ s[2] = t[2] /\ s[3] = t[3] /\ s[4] = t[4] /\ s[5] = t[5] /\ s[6] = t[6]
  OBVIOUS
<1>2. HeadRequest(s) = HeadRequest(t)
  BY <1>1 DEF HeadRequest
<1>3. HasValidCrc(s, 8) <=> HasValidCrc(t, 8)
  <2>1. 8 \in Nat /\ 2 <= 8 /\ 8 <= Len(s) /\ 8 <= Len(t)
    BY LenProperties
  <2> QED
    BY <2>1, CrcAlike, SMTT(30)
<1> QED
  BY <1>1, <1>2, <1>3 DEF IsReadRequest

\* A request that has come whole is found.
LEMMA WholeIsFound ==
    ASSUME NEW r \in Request, r.fn # 6, NEW b \in Seq(Cell), Len(b) >= 8,
           \A p \in 1 .. 8 : b[p] = RequestFrame(r)[p]
    PROVE  IsReadRequest(b)
<1> DEFINE f == RequestFrame(r)
           v == RequestValues(r)
<1>1. /\ v \in Seq(Byte) /\ Len(v) = 6 /\ f = Frame(v)
      /\ f \in Seq(Cell) /\ Len(f) = 8
  BY RequestFrameOf, RequestCells
<1>2. /\ v[1] = r.dev /\ v[2] = r.fn
      /\ v[5] = r.count \div 256 /\ v[6] = r.count % 256
  BY DEF RequestValues
<1>3. f[1].v = r.dev /\ f[2].v = r.fn /\ f[5].v = r.count \div 256 /\ f[6].v = r.count % 256
  <2> HIDE DEF f, v
  <2>1. \A p \in 1 .. 6 : f[p] = DataCell(v[p])
    BY <1>1, FrameParts
  <2>2. \A p \in 1 .. 6 : f[p].v = v[p]
    BY <2>1, DataCells
  <2> QED
    BY <1>2, <2>2
<1>4. HasValidCrc(f, 8)
  <2> HIDE DEF f, v
  <2>1. HasValidCrc(Frame(v), Len(v) + 2)
    BY <1>1, FrameIsValid
  <2>2. Len(v) + 2 = 8
    BY <1>1
  <2> QED
    BY <1>1, <2>1, <2>2
<1>5. r.dev \in 1 .. 247 /\ r.fn \in {3, 4} /\ 256 * (r.count \div 256) + (r.count % 256) = r.count
      /\ r.count \in 1 .. 125
  <2>1. \A n \in 1 .. 125 : 256 * (n \div 256) + (n % 256) = n
    OBVIOUS
  <2>2. r.dev \in 1 .. 247 /\ r.fn \in {3, 4} /\ r.count \in 1 .. 125
    BY DEF Request
  <2>3. ASSUME NEW n \in 1 .. 125, n = r.count
        PROVE  256 * (r.count \div 256) + (r.count % 256) = r.count
    BY <2>1, <2>3
  <2> QED
    BY <2>2, <2>3
<1>6. IsReadRequest(f)
  <2> HIDE DEF f
  <2>1. ValidDevice(f[1].v) /\ f[2].v \in {3, 4} /\ Len(f) >= 8
    BY <1>1, <1>3, <1>5 DEF ValidDevice
  <2>2. HeadRequest(f).count \in 1 .. 125
    <3>1. HeadRequest(f).count = 256 * f[5].v + f[6].v
      BY DEF HeadRequest
    <3>2. HeadRequest(f).count = r.count
      BY <1>3, <1>5, <3>1
    <3> QED
      BY <1>5, <3>2
  <2> QED
    BY <1>4, <2>1, <2>2 DEF IsReadRequest
<1> HIDE DEF f
<1>7. Len(f) >= 8 /\ \A p \in 1 .. 8 : b[p] = f[p]
  BY <1>1 DEF f
<1> QED
  BY <1>1, <1>6, <1>7, FoundAlike

-----------------------------------------------------------------------------
(* The latest request. *)

LEMMA LatestSame == ASSUME UNCHANGED asked PROVE Latest' = Latest
  BY DEF Latest

\* Of some numbers that are bounded one is the highest.
LEMMA Highest ==
    ASSUME NEW m \in Nat, NEW S \in SUBSET (1 .. m), S # {}
    PROVE  \E i \in S : \A j \in S : j <= i
<1> DEFINE Above(i) == {n \in 1 .. m : n > i}
           T == {Above(i) : i \in S}
           B == 1 .. m
<1>1. IsFiniteSet(B)
  BY FS_Interval
<1>2. IsWellFoundedOn(StrictSubsetOrdering(B), FiniteSubsetsOf(B)) /\ FiniteSubsetsOf(B) = SUBSET B
  BY <1>1, FS_StrictSubsetOrderingWellFounded, FS_FiniteSubsetsOfFinite
<1>3. T \subseteq SUBSET B /\ T # {}
  OBVIOUS
<1> HIDE DEF T
<1>4. PICK L \in T : \A K \in T : ~ (<<K, L>> \in StrictSubsetOrdering(B))
  BY <1>2, <1>3, WFMin, ZenonT(30)
<1>5. PICK i \in S : L = Above(i)
  BY <1>4 DEF T
<1>6. ASSUME NEW j \in S PROVE j <= i
  <2>1. i \in 1 .. m /\ j \in 1 .. m
    OBVIOUS
  <2>2. SUFFICES ASSUME j > i PROVE FALSE
    BY <2>1
  <2>3. Above(j) \subseteq Above(i) /\ j \in Above(i) /\ j \notin Above(j)
    BY <2>1, <2>2
  <2>4. <<Above(j), Above(i)>> \in StrictSubsetOrdering(B)
    BY <2>3 DEF StrictSubsetOrdering
  <2> QED
    BY <1>4, <1>5, <2>4 DEF T
<1> QED
  BY <1>6

\* The latest request is a read that was asked, if there is one.
LEMMA LatestType ==
    ASSUME asked \in Seq(Asking), Latest # NoRequest
    PROVE  Latest \in Request /\ Latest.fn # 6
<1> DEFINE m == Len(asked)
           reads == {i \in DOMAIN asked : asked[i].intact /\ asked[i].req.fn # 6}
           top == CHOOSE i \in reads : \A j \in reads : j <= i
<1>1. m \in Nat /\ DOMAIN asked = 1 .. m
  BY LenProperties
<1>2. reads # {} /\ Latest = asked[top].req
  BY DEF Latest
<1>3. reads \in SUBSET (1 .. m)
  BY <1>1
<1>4. top \in reads
  <2> HIDE DEF reads, m
  <2>1. \E i \in reads : \A j \in reads : j <= i
    BY <1>1, <1>2, <1>3, Highest
  <2> QED
    BY <2>1
<1> HIDE DEF top
<1>5. asked[top] \in Asking /\ asked[top].req.fn # 6
  BY <1>1, <1>4, ElementOfSeq
<1> QED
  BY <1>2, <1>5 DEF Asking

LEMMA LatestIsLast ==
    ASSUME asked \in Seq(Asking), ReadAsked
    PROVE  /\ Latest = LastAsked.req /\ LastAsked.req \in Request /\ Latest # NoRequest
           /\ LastAsked \in Asking
<1> DEFINE m == Len(asked)
           reads == {i \in DOMAIN asked : asked[i].intact /\ asked[i].req.fn # 6}
<1>1. m \in Nat /\ DOMAIN asked = 1 .. m /\ m # 0
  <2>1. m \in Nat /\ DOMAIN asked = 1 .. m
    BY LenProperties
  <2>2. m # 0
    BY EmptySeq DEF ReadAsked
  <2> QED
    BY <2>1, <2>2
<1>2. m \in 1 .. m
  BY <1>1
<1>3. LastAsked \in Asking
  BY <1>2, ElementOfSeq DEF LastAsked
<1> DEFINE top == CHOOSE i \in reads : \A j \in reads : j <= i
<1>4. m \in reads /\ \A j \in reads : j <= m
  BY <1>1, <1>2 DEF ReadAsked, LastAsked
<1>5. Latest = asked[top].req
  BY <1>4 DEF Latest
<1>6. top \in reads /\ \A j \in reads : j <= top
  <2> HIDE DEF reads
  <2> QED
    BY <1>4
<1>7. top = m
  <2>1. top \in 1 .. m
    BY <1>1, <1>6
  <2> HIDE DEF reads, top
  <2>2. m <= top /\ top <= m /\ m \in Int /\ top \in Int
    BY <1>1, <1>4, <1>6, <2>1
  <2> HIDE DEF m
  <2> QED
    BY <2>2
<1> HIDE DEF top
<1>8. LastAsked.req \in Request
  BY <1>3 DEF Asking
<1>9. LastAsked.req # NoRequest
  BY <1>8, RequestParts DEF NoRequest
<1> QED
  BY <1>3, <1>5, <1>7, <1>8, <1>9 DEF LastAsked

\* A request that was not there before a read ends the read, and is the latest.
LEMMA NewRequest ==
    ASSUME TypeOK, asked \in Seq(Asking), ReadEnds, NEW k \in 0 .. Len(ctl),
           NEW u \in Seq(Cell), u = up \o SubSeq(ctl, 1, k),
           NEW i \in 0 .. Len(u) - 8, IsReadRequest(Drop(u, i)),
           ~ (i \in 0 .. Len(up) - 8 /\ IsReadRequest(Drop(up, i)))
    PROVE  /\ k = Len(ctl) /\ i = Len(u) - 8
           /\ ReadAsked /\ HeadRequest(Drop(u, i)) = LastAsked.req
<1> DEFINE g == SubSeq(ctl, 1, k)
           b == Drop(u, i)
<1>0. /\ ctl \in Seq(Cell) /\ up \in Seq(Cell) /\ Len(ctl) \in Nat /\ Len(up) \in Nat
      /\ k \in Nat /\ k <= Len(ctl)
  BY LenProperties DEF TypeOK
<1>1. g \in Seq(Cell) /\ Len(g) = k /\ \A p \in 1 .. k : g[p] = ctl[p]
  BY <1>0, StartPart
<1>2. u = up \o g
  OBVIOUS
<1> HIDE DEF g
<1>3. /\ Len(u) = Len(up) + k
      /\ \A p \in 1 .. Len(up) : u[p] = up[p]
      /\ \A p \in 1 .. k : u[Len(up) + p] = ctl[p]
  <2>1. /\ up \o g \in Seq(Cell) /\ Len(up \o g) = Len(up) + Len(g)
        /\ \A p \in 1 .. Len(up) : (up \o g)[p] = up[p]
        /\ \A p \in 1 .. Len(g) : (up \o g)[Len(up) + p] = g[p]
    BY <1>0, <1>1, Joined
  <2> QED
    BY <1>1, <1>2, <2>1
<1>4. i \in Nat /\ i + 8 <= Len(u) /\ i \in 0 .. Len(u)
  BY <1>0, <1>3
<1>5. /\ b \in Seq(Cell) /\ Len(b) = Len(u) - i /\ Len(b) >= 8
      /\ \A p \in 1 .. 8 : b[p] = u[i + p]
  <2>1. Drop(u, i) \in Seq(Cell) /\ Len(Drop(u, i)) = Len(u) - i
        /\ \A p \in 1 .. Len(u) - i : Drop(u, i)[p] = u[i + p]
    BY <1>4, RestPart
  <2> HIDE DEF b
  <2>2. Len(u) - i >= 8 /\ \A p \in 1 .. 8 : p \in 1 .. Len(u) - i
    BY <1>0, <1>3, <1>4, SMTT(30)
  <2> QED
    BY <2>1, <2>2 DEF b
<1>6. IsReadRequest(b)
  OBVIOUS
<1> HIDE DEF b
<1>7. ~ (i + 8 <= Len(up))
  <2> SUFFICES ASSUME i + 8 <= Len(up) PROVE FALSE
    OBVIOUS
  <2> DEFINE a == Drop(up, i)
  <2>1. i \in 0 .. Len(up) /\ i \in 0 .. Len(up) - 8
    BY <1>0, <1>4
  <2>2. /\ a \in Seq(Cell) /\ Len(a) = Len(up) - i
        /\ \A p \in 1 .. Len(up) - i : a[p] = up[i + p]
    BY <1>0, <2>1, RestPart
  <2> HIDE DEF a
  <2>3. Len(a) >= 8 /\ \A p \in 1 .. 8 : p \in 1 .. Len(up) - i /\ i + p \in 1 .. Len(up)
    BY <1>0, <1>4, <2>2
  <2>4. \A p \in 1 .. 8 : a[p] = b[p]
    BY <1>3, <1>5, <2>2, <2>3
  <2>5. IsReadRequest(a)
    BY <1>5, <1>6, <2>2, <2>3, <2>4, FoundAlike
  <2> QED
    BY <2>1, <2>5 DEF a
<1>8. PICK w \in Seq(Byte) : Len(w) = 6 /\ HiOf(b[8], w) /\ \A p \in 1 .. 6 : b[p].v = w[p]
  BY <1>5, <1>6, FoundEnds
<1> DEFINE q == i + 8 - Len(up)
<1>9. q \in 1 .. k /\ q \in 1 .. Len(ctl) /\ Len(up) + q = i + 8 /\ 8 \in 1 .. 8
  BY <1>0, <1>3, <1>4, <1>7
<1> HIDE DEF q
<1>10. b[8] = ctl[q]
  <2>1. b[8] = u[i + 8]
    BY <1>5, <1>9
  <2>2. u[Len(up) + q] = ctl[q]
    BY <1>3, <1>9
  <2> QED
    BY <1>9, <2>1, <2>2
<1>11. q = Len(ctl) /\ asked # <<>> /\ LastAsked.intact /\ w = RequestValues(LastAsked.req)
  BY <1>8, <1>9, <1>10 DEF ReadEnds
<1>12. k = Len(ctl) /\ i = Len(u) - 8
  BY <1>0, <1>3, <1>4, <1>9, <1>11
<1>13. LastAsked.req \in Request
  <2>1. Len(asked) \in Nat /\ Len(asked) # 0
    BY <1>11, LenProperties, EmptySeq
  <2>2. Len(asked) \in 1 .. Len(asked)
    BY <2>1
  <2>3. LastAsked \in Asking
    BY <2>2, ElementOfSeq DEF LastAsked
  <2> QED
    BY <2>3 DEF Asking
<1>14. HeadRequest(b) = LastAsked.req /\ LastAsked.req.fn # 6
  <2> DEFINE r == LastAsked.req
  <2>1. r \in Request /\ \A p \in 1 .. 6 : b[p].v = RequestValues(r)[p]
    BY <1>8, <1>11, <1>13
  <2> HIDE DEF r
  <2>2. HeadRequest(b) = r /\ r.fn # 6
    BY <1>5, <1>6, <2>1, FoundIs
  <2> QED
    BY <2>2 DEF r
<1> QED
  BY <1>11, <1>12, <1>14 DEF ReadAsked, b

LEMMA PlaceInit == ASSUME Init PROVE PlaceInv
<1>1. /\ ph = "detect" /\ ctl = <<>> /\ up = <<>> /\ slot = NoRequest /\ asked = <<>>
  BY DEF Init
<1>2. Len(ctl) = 0 /\ Len(up) = 0 /\ asked \in Seq(Asking)
  BY <1>1, EmptySeq
<1>3. ~HasRequest(up)
  BY <1>2 DEF HasRequest
<1> QED
  BY <1>1, <1>2, <1>3
  DEF PlaceInv, ReadEnds, NotYet, Scanned, OneRequest, KeptWhole, Waiting

\* A step that reads and parses nothing from the controller.
LEMMA PlaceUnchanged ==
    ASSUME PlaceInv, UNCHANGED <<ctl, up, asked>>,
           slot' \in {slot, NoRequest},
           \/ ph' = ph
           \/ ph \in {"loop", "down"} /\ ph' \in {"loop", "down"}
           \/ ph' = "stopped" /\ ph # "up"
    PROVE  PlaceInv'
<1>1. Latest' = Latest
  BY LatestSame
<1>2. /\ asked' \in Seq(Asking) /\ ReadEnds' /\ Scanned'
  BY DEF PlaceInv, ReadEnds, Scanned, LastAsked
<1>3. NotYet'
  BY DEF PlaceInv, NotYet, HasRequest
<1>4. OneRequest'
  <2>1. (ph' = "up") => ph = "up"
    OBVIOUS
  <2> QED
    BY <1>1, <2>1 DEF PlaceInv, OneRequest, Coming, ReadAsked, LastAsked
<1>5. KeptWhole'
  BY DEF PlaceInv, KeptWhole, Coming, ReadAsked, LastAsked, InPart
<1>6. Waiting'
  <2>1. (ph = "up") => ph' = "up"
    OBVIOUS
  <2> QED
    BY <1>1, <2>1 DEF PlaceInv, Waiting, Coming, ReadAsked, LastAsked, AtEnd
<1> QED
  BY <1>2, <1>3, <1>4, <1>5, <1>6 DEF PlaceInv

LEMMA PlaceAsks ==
    ASSUME TypeOK, PlaceInv, ControllerAsks, "id" \notin Damage \/ LastAsked'.intact
    PROVE  PlaceInv'
<1>0. ctl = <<>> /\ ph # "stopped" /\ UNCHANGED <<ph, up, slot>> /\ asked \in Seq(Asking)
  BY DEF ControllerAsks, PlaceInv
<1>1. PICK r \in Requests, how \in Damage :
          /\ ctl' = Damaged(RequestFrame(r), how)
          /\ asked' = Append(asked, [req |-> r, intact |-> how = "none", quiet |-> Quiet])
  BY DEF ControllerAsks
<1> DEFINE a == [req |-> r, intact |-> how = "none", quiet |-> Quiet]
           m == Len(asked)
           v == RequestValues(r)
<1>2. r \in Request /\ how \in Damages
  BY ByteAssumption
<1>3. a \in Asking
  <2>1. Quiet \in BOOLEAN
    BY DEF Quiet
  <2> QED
    BY <1>2, <2>1 DEF Asking
<1>4. a.req = r /\ (a.intact <=> how = "none")
  OBVIOUS
<1>5. asked' = Append(asked, a)
  BY <1>1
<1> HIDE DEF a
<1>6. /\ m \in Nat /\ asked' \in Seq(Asking) /\ Len(asked') = m + 1 /\ asked' # <<>>
      /\ DOMAIN asked = 1 .. m /\ DOMAIN asked' = 1 .. m + 1
      /\ \A i \in 1 .. m : asked'[i] = asked[i]
      /\ asked'[m + 1] = a
  BY <1>0, <1>3, <1>5, AppendProperties, LenProperties
<1>7. LastAsked' = a
  BY <1>6 DEF LastAsked
<1>d. how # "id"
  BY <1>4, <1>7
<1>8. /\ v \in Seq(Byte) /\ Len(v) = 6 /\ v[1] # 0 /\ RequestFrame(r) = Frame(v)
      /\ RequestFrame(r) \in Seq(Cell) /\ Len(RequestFrame(r)) = 8
  BY <1>2, RequestFrameOf, RequestCells
<1> HIDE DEF v
<1>9. /\ ctl' \in Seq(Cell) /\ Len(ctl') \in Nat /\ Len(ctl') >= 4
      /\ \A w : \A p \in 1 .. Len(ctl') : HiOf(ctl'[p], w) => p = Len(ctl') /\ w = v /\ Len(ctl') = Len(v) + 2
      /\ how = "none" <=> HasValidCrc(ctl', Len(ctl'))
  <2> DEFINE g == Damaged(Frame(v), how)
  <2>1. /\ g \in Seq(Cell) /\ Len(g) \in Nat /\ Len(g) >= 4
        /\ \A w : \A p \in 1 .. Len(g) : HiOf(g[p], w) => p = Len(g) /\ w = v /\ Len(g) = Len(v) + 2
        /\ how = "none" <=> HasValidCrc(g, Len(g))
    <3>1. Len(v) >= 3
      BY <1>8
    <3> QED
      BY <1>2, <1>8, <3>1, DamagedFrame
  <2>2. ctl' = g
    BY <1>1, <1>8
  <2> HIDE DEF g
  <2> QED
    BY <2>1, <2>2
<1>10. (how = "none") => ctl' = RequestFrame(r)
  BY <1>1 DEF Damaged
<1>11. Len(ctl') <= 8 /\ (Len(ctl') = 8 => how \in {"none", "crc"})
       /\ (how = "crc" => \A w : ~HiOf(ctl'[Len(ctl')], w))
  <2> DEFINE f == RequestFrame(r)
  <2>1. f \in Seq(Cell) /\ Len(f) = 8
    BY <1>8
  <2>2. ctl' = Damaged(f, how)
    BY <1>1
  <2> HIDE DEF f
  <2>3. CASE how = "none"
    <3>1. ctl' = f
      BY <2>2, <2>3 DEF Damaged
    <3>2. Len(ctl') = 8 /\ how # "crc"
      BY <2>1, <2>3, <3>1
    <3> QED
      BY <2>3, <3>2
  <2>4. CASE how = "crc"
    <3>1. ctl' = [f EXCEPT ![Len(f)].crc = <<>>]
      BY <2>2, <2>4 DEF Damaged
    <3>2. DOMAIN f = 1 .. 8 /\ DOMAIN ctl' = DOMAIN f
      BY <2>1, <3>1, LenProperties
    <3>3. Len(ctl') = 8
      BY <1>9, <3>2, LenProperties
    <3>4. NoCrc(ctl'[8])
      <4>0. 8 \in DOMAIN f /\ 8 \in 1 .. Len(f)
        BY <2>1, <3>2
      <4>1. 8 \in DOMAIN f /\ f[8] \in Cell
        BY <2>1, <4>0, ElementOfSeq
      <4>2. ctl'[8] = [f[8] EXCEPT !.crc = <<>>]
        BY <2>1, <3>1, <4>1
      <4>3. DOMAIN f[8] = {"v", "crc"}
        BY <4>1 DEF Cell
      <4> QED
        BY <4>2, <4>3 DEF NoCrc
    <3> QED
      BY <2>4, <3>3, <3>4, NoCrcNeither
  <2>5. CASE how = "cut"
    <3>1. ctl' = SubSeq(f, 1, Len(f) - 1)
      BY <2>2, <2>5 DEF Damaged
    <3>2. Len(ctl') = 7
      <4>1. 7 \in Nat /\ 7 <= Len(f) /\ Len(f) - 1 = 7
        BY <2>1
      <4> QED
        BY <2>1, <3>1, <4>1, StartPart
    <3> QED
      BY <2>5, <3>2
  <2> QED
    BY <1>2, <1>d, <2>3, <2>4, <2>5 DEF Damages
<1>12. ReadEnds'
  <2> SUFFICES ASSUME NEW p \in 1 .. Len(ctl'), NEW w \in Seq(Byte), HiOf(ctl'[p], w)
               PROVE  p = Len(ctl') /\ asked' # <<>> /\ a.intact /\ w = RequestValues(a.req)
    BY <1>7, <1>11 DEF ReadEnds
  <2>1. p = Len(ctl') /\ w = v /\ Len(ctl') = Len(v) + 2
    BY <1>9
  <2>2. Len(ctl') = 8 /\ how # "crc"
    BY <1>8, <1>11, <2>1
  <2>3. how = "none"
    BY <1>11, <2>2
  <2> QED
    BY <1>4, <1>6, <2>1, <2>3 DEF v
<1>13. ReadAsked' \/ Latest' = Latest
  <2>1. CASE a.intact /\ a.req.fn # 6
    BY <1>6, <1>7, <2>1 DEF ReadAsked
  <2>2. CASE ~ (a.intact /\ a.req.fn # 6)
    <3> DEFINE reads == {i \in DOMAIN asked : asked[i].intact /\ asked[i].req.fn # 6}
               later == {i \in DOMAIN asked' : asked'[i].intact /\ asked'[i].req.fn # 6}
               top == CHOOSE i \in reads : \A j \in reads : j <= i
    <3>1. later = reads
      <4>1. \A i \in 1 .. m + 1 : i \in 1 .. m \/ i = m + 1
        BY <1>6
      <4>2. 1 .. m \subseteq 1 .. m + 1 /\ m + 1 \notin 1 .. m
        BY <1>6
      <4> QED
        BY <1>6, <2>2, <4>1, <4>2
    <3>2. reads \subseteq 1 .. m
      BY <1>6
    <3>3. Latest = IF reads = {} THEN NoRequest ELSE asked[top].req
      BY DEF Latest
    <3>4. Latest' = IF later = {} THEN NoRequest
                    ELSE asked'[CHOOSE i \in later : \A j \in later : j <= i].req
      BY DEF Latest
    <3>5. Latest' = IF reads = {} THEN NoRequest ELSE asked'[top].req
      <4> HIDE DEF reads, later
      <4> QED
        BY <3>1, <3>4
    <3>6. ASSUME reads # {} PROVE top \in 1 .. m
      <4>1. \E i \in reads : \A j \in reads : j <= i
        <5> HIDE DEF reads
        <5> QED
          BY <1>6, <3>2, <3>6, Highest
      <4> HIDE DEF reads
      <4>2. top \in reads
        BY <4>1
      <4> QED
        BY <3>2, <4>2
    <3> HIDE DEF reads, top
    <3> QED
      BY <1>6, <3>3, <3>5, <3>6
  <2> QED
    BY <2>1, <2>2
<1>14. ctl' # <<>>
  BY <1>9, EmptySeq
<1>15. Coming' \/ Latest' = Latest
  BY <1>13, <1>14 DEF Coming
<1>16. ~Coming
  BY <1>0 DEF Coming
<1>17. NotYet' /\ Scanned'
  BY <1>0 DEF PlaceInv, NotYet, Scanned, HasRequest
<1>18. OneRequest'
  BY <1>0, <1>15, <1>16 DEF PlaceInv, OneRequest
<1>19. KeptWhole'
  <2> SUFFICES ASSUME Coming' PROVE InPart'
    BY DEF KeptWhole
  <2>1. how = "none"
    BY <1>4, <1>7 DEF Coming, ReadAsked
  <2>2. ctl' = RequestFrame(r) /\ Len(ctl') = 8
    BY <1>8, <1>10, <2>1
  <2>3. LastAsked'.req = r
    BY <1>4, <1>7
  <2>4. Len(up') \in Nat
    BY <1>0, LenProperties DEF TypeOK
  <2>5. \A p \in 1 .. 8 : 8 - 8 + p = p
    OBVIOUS
  <2> QED
    BY <2>2, <2>3, <2>4, <2>5 DEF InPart
<1>20. Waiting'
  <2>1. CASE Coming'
    BY <2>1 DEF Waiting
  <2>2. CASE ~Coming' /\ Latest' = Latest
    <3>1. slot \in {NoRequest, Latest} \/ (ph = "up" /\ AtEnd)
      BY <1>16 DEF PlaceInv, Waiting
    <3>2. AtEnd => AtEnd'
      BY <1>0, <2>2 DEF AtEnd
    <3> QED
      BY <1>0, <2>2, <3>1, <3>2 DEF Waiting
  <2> QED
    BY <1>15, <2>1, <2>2
<1> QED
  BY <1>6, <1>12, <1>17, <1>18, <1>19, <1>20 DEF PlaceInv

\* What is left to read of the controller's bytes ends as it did.
LEMMA EndsRest ==
    ASSUME TypeOK, ReadEnds, NEW k \in 0 .. Len(ctl), ctl' = Drop(ctl, k), UNCHANGED asked
    PROVE  ReadEnds' /\ Len(ctl') = Len(ctl) - k /\ Len(ctl) \in Nat
<1>0. ctl \in Seq(Cell) /\ Len(ctl) \in Nat
  BY LenProperties DEF TypeOK
<1>1. Len(ctl') = Len(ctl) - k /\ \A p \in 1 .. Len(ctl) - k : ctl'[p] = ctl[k + p]
  BY <1>0, RestPart
<1>2. Len(ctl') <= 8
  BY <1>0, <1>1 DEF ReadEnds
<1>3. ASSUME NEW p \in 1 .. Len(ctl'), NEW w \in Seq(Byte), HiOf(ctl'[p], w)
      PROVE  p = Len(ctl') /\ asked # <<>> /\ LastAsked.intact /\ w = RequestValues(LastAsked.req)
  <2> DEFINE q == k + p
  <2>1. q \in 1 .. Len(ctl) /\ ctl'[p] = ctl[q] /\ p = q - k
    BY <1>0, <1>1
  <2> HIDE DEF q
  <2>2. q = Len(ctl) /\ asked # <<>> /\ LastAsked.intact /\ w = RequestValues(LastAsked.req)
    BY <1>3, <2>1 DEF ReadEnds
  <2> QED
    BY <1>0, <1>1, <2>1, <2>2
<1> QED
  BY <1>0, <1>1, <1>2, <1>3 DEF ReadEnds, LastAsked

LEMMA PlaceDetectRead ==
    ASSUME TypeOK, TypeOK', PlaceInv, NEW c \in Chunks, NEW d \in Chunks, DetectRead(c, d)
    PROVE  PlaceInv'
<1> DEFINE k == Least(c, Len(ctl))
           u == up \o SubSeq(ctl, 1, k)
<1>0. /\ ctl \in Seq(Cell) /\ up \in Seq(Cell) /\ up' \in Seq(Cell)
      /\ Len(ctl) \in Nat /\ Len(up) \in Nat /\ Len(up') \in Nat
  BY LenProperties DEF TypeOK
<1>1. k \in 0 .. Len(ctl)
  BY <1>0, ReadTypes
<1>2. /\ ph = "detect" /\ ctl' = Drop(ctl, k) /\ up' = IF Len(up) + k <= STREAM THEN u ELSE up
      /\ IF HasRequest(up') THEN ph' = "up" ELSE ph' = ph
      /\ UNCHANGED <<slot, asked>>
  BY DEF DetectRead, env
<1> HIDE DEF k
<1>3. /\ asked \in Seq(Asking) /\ ReadEnds /\ slot = NoRequest /\ ~HasRequest(up)
  BY <1>2 DEF PlaceInv, NotYet
<1>4. ReadEnds' /\ Len(ctl') = Len(ctl) - k
  BY <1>1, <1>2, <1>3, EndsRest
<1>5. Latest' = Latest /\ LastAsked' = LastAsked
  BY <1>2, LatestSame DEF LastAsked
<1>6. CASE ~HasRequest(up')
  <2>1. ph' = "detect" /\ slot' = NoRequest
    BY <1>2, <1>3, <1>6
  <2> QED
    BY <1>2, <1>3, <1>4, <1>6, <2>1
    DEF PlaceInv, NotYet, Scanned, OneRequest, KeptWhole, Waiting, HasRequest
<1>7. CASE HasRequest(up')
  <2>1. ph' = "up" /\ up' = u
    BY <1>2, <1>3, <1>7
  <2>2. ASSUME NEW i \in 0 .. Len(up') - 8, IsReadRequest(Drop(up', i))
        PROVE  /\ k = Len(ctl) /\ i = Len(up') - 8
               /\ ReadAsked /\ HeadRequest(Drop(up', i)) = LastAsked.req
    <3>1. ~ (i \in 0 .. Len(up) - 8 /\ IsReadRequest(Drop(up, i)))
      BY <1>3 DEF HasRequest
    <3>2. up' = up \o SubSeq(ctl, 1, k)
      BY <2>1
    <3> QED
      BY <1>0, <1>1, <1>3, <2>2, <3>1, <3>2, NewRequest
  <2>3. \E i \in 0 .. Len(up') - 8 : IsReadRequest(Drop(up', i))
    BY <1>7 DEF HasRequest
  <2>4. k = Len(ctl) /\ ReadAsked /\ Latest = LastAsked.req
    BY <1>3, <2>2, <2>3, LatestIsLast
  <2>5. ctl' = <<>>
    <3>1. Len(ctl') = 0 /\ ctl' \in Seq(Cell)
      BY <1>0, <1>4, <2>4 DEF TypeOK
    <3> QED
      BY <3>1, EmptySeq
  <2>6. ~Coming'
    BY <2>5 DEF Coming
  <2>7. OneRequest'
    BY <1>5, <2>2, <2>4 DEF OneRequest
  <2>8. NotYet' /\ Scanned' /\ KeptWhole' /\ Waiting'
    BY <1>2, <1>3, <2>1, <2>6 DEF NotYet, Scanned, KeptWhole, Waiting
  <2> QED
    BY <1>2, <1>3, <1>4, <2>7, <2>8 DEF PlaceInv
<1> QED
  BY <1>6, <1>7

LEMMA PlaceReadController ==
    ASSUME TypeOK, TypeOK', PlaceInv, STREAM >= 15, NEW c \in Chunks, ReadController(c)
    PROVE  PlaceInv' /\ (Coming /\ ctl' = <<>> => AtEnd')
<1> DEFINE k == Least(c, Len(ctl))
           g == SubSeq(ctl, 1, k)
           over == Len(up) + k - STREAM
<1>0. /\ ctl \in Seq(Cell) /\ up \in Seq(Cell) /\ up' \in Seq(Cell)
      /\ Len(ctl) \in Nat /\ Len(up) \in Nat /\ STREAM \in Nat
  BY LenProperties, BufferAssumption DEF TypeOK
<1>1. k \in 0 .. Len(ctl)
  BY <1>0, ReadTypes
<1>2. /\ ph = "loop" /\ ph' = "up" /\ ctl' = Drop(ctl, k)
      /\ up' = (IF over > 0 THEN Drop(up, over) ELSE up) \o g
      /\ UNCHANGED <<slot, asked>>
  BY DEF ReadController, env
<1> HIDE DEF k, g
<1>3. asked \in Seq(Asking) /\ ReadEnds /\ Len(up) < 8
  BY <1>2 DEF PlaceInv, Scanned
<1>4. ~ (over > 0)
  <2>1. k <= 8 /\ k \in Int /\ Len(up) <= 7
    BY <1>0, <1>1, <1>3 DEF ReadEnds
  <2> QED
    BY <1>0, <2>1
<1>5. up' = up \o g
  BY <1>2, <1>4
<1>6. ReadEnds' /\ Len(ctl') = Len(ctl) - k
  BY <1>1, <1>2, <1>3, EndsRest
<1>7. Latest' = Latest /\ LastAsked' = LastAsked /\ (ReadAsked' <=> ReadAsked)
  BY <1>2, LatestSame DEF LastAsked, ReadAsked
<1>8. k \in Nat /\ k <= Len(ctl) /\ g \in Seq(Cell) /\ Len(g) = k /\ \A p \in 1 .. k : g[p] = ctl[p]
  <2>1. k \in Nat /\ k <= Len(ctl)
    BY <1>0, <1>1
  <2> QED
    BY <1>0, <2>1, StartPart DEF g
<1>9. /\ Len(up') = Len(up) + k
      /\ \A p \in 1 .. Len(up) : up'[p] = up[p]
      /\ \A p \in 1 .. k : up'[Len(up) + p] = ctl[p]
  <2>1. /\ up \o g \in Seq(Cell) /\ Len(up \o g) = Len(up) + Len(g)
        /\ \A p \in 1 .. Len(up) : (up \o g)[p] = up[p]
        /\ \A p \in 1 .. Len(g) : (up \o g)[Len(up) + p] = g[p]
    BY <1>0, <1>8, Joined
  <2> QED
    BY <1>5, <1>8, <2>1
<1>10. OneRequest'
  <2>1. ASSUME NEW i \in 0 .. Len(up') - 8, IsReadRequest(Drop(up', i))
        PROVE  i = Len(up') - 8 /\ HeadRequest(Drop(up', i)) = Latest
    <3>1. ~ (i \in 0 .. Len(up) - 8 /\ IsReadRequest(Drop(up, i)))
      BY <1>0, <1>3
    <3>2. up' = up \o SubSeq(ctl, 1, k)
      BY <1>5 DEF g
    <3>3. i = Len(up') - 8 /\ ReadAsked /\ HeadRequest(Drop(up', i)) = LastAsked.req
      BY <1>0, <1>1, <1>3, <2>1, <3>1, <3>2, NewRequest
    <3> QED
      BY <1>3, <3>3, LatestIsLast
  <2> QED
    BY <1>7, <2>1 DEF OneRequest
<1> DEFINE f == RequestFrame(LastAsked.req)
           n == Len(ctl)
\* Where the latest request is before and after this read.
<1>11. ASSUME Coming
       PROVE  /\ Len(up') >= 8 - (n - k)
              /\ \A p \in 1 .. n - k : ctl'[p] = f[8 - (n - k) + p]
              /\ \A p \in 1 .. 8 - (n - k) : up'[Len(up') - (8 - (n - k)) + p] = f[p]
  <2>1. InPart
    BY <1>2, <1>11 DEF PlaceInv, KeptWhole
  <2>2. /\ 8 - n <= Len(up)
        /\ \A p \in 1 .. n : ctl[p] = f[8 - n + p]
        /\ \A p \in 1 .. 8 - n : up[Len(up) - (8 - n) + p] = f[p]
    BY <2>1 DEF InPart
  <2>3. n \in Nat /\ n <= 8 /\ k \in Nat /\ k <= n
    BY <1>0, <1>3, <1>8 DEF ReadEnds
  <2>4. \A p \in 1 .. n - k : ctl'[p] = ctl[k + p]
    BY <1>0, <1>1, <1>2, RestPart
  <2> HIDE DEF n, f
  <2>5. Len(up') >= 8 - (n - k)
    BY <1>0, <1>9, <2>2, <2>3
  <2>6. ASSUME NEW p \in 1 .. n - k PROVE ctl'[p] = f[8 - (n - k) + p]
    <3> DEFINE q == k + p
    <3>1. q \in 1 .. n /\ 8 - n + q = 8 - (n - k) + p
      BY <2>3
    <3>2. ctl'[p] = ctl[q]
      BY <2>4
    <3> HIDE DEF q
    <3>3. ctl[q] = f[8 - n + q]
      BY <2>2, <3>1
    <3> QED
      BY <3>1, <3>2, <3>3
  <2>7. ASSUME NEW p \in 1 .. 8 - (n - k) PROVE up'[Len(up') - (8 - (n - k)) + p] = f[p]
    <3> DEFINE x == Len(up') - (8 - (n - k)) + p
    <3>1. x = Len(up) - (8 - n) + p
      BY <1>0, <1>9, <2>3
    <3> HIDE DEF x
    <3>2. CASE p <= 8 - n
      <4>1. p \in 1 .. 8 - n /\ x \in 1 .. Len(up)
        BY <1>0, <2>2, <2>3, <3>1, <3>2
      <4>2. up'[x] = up[x]
        BY <1>9, <4>1
      <4>3. up[Len(up) - (8 - n) + p] = f[p]
        BY <2>2, <4>1
      <4> QED
        BY <3>1, <4>2, <4>3 DEF x
    <3>3. CASE ~ (p <= 8 - n)
      <4> DEFINE q == p - (8 - n)
      <4>1. q \in 1 .. k /\ q \in 1 .. n /\ Len(up) + q = x /\ 8 - n + q = p
        BY <1>0, <2>3, <3>1, <3>3
      <4> HIDE DEF q
      <4>2. up'[Len(up) + q] = ctl[q] /\ ctl[q] = f[8 - n + q]
        BY <1>9, <2>2, <4>1
      <4> QED
        BY <4>1, <4>2 DEF x
    <3> QED
      BY <3>2, <3>3
  <2> QED
    BY <2>5, <2>6, <2>7 DEF n, f
<1>12. n \in Nat /\ n - k \in Nat /\ Len(ctl') = n - k
  BY <1>0, <1>6, <1>8
<1>13. KeptWhole'
  <2> SUFFICES ASSUME Coming' PROVE InPart'
    BY DEF KeptWhole
  <2>1. ctl # <<>> /\ ReadAsked
    <3>1. ctl' # <<>> /\ ReadAsked
      BY <1>7 DEF Coming
    <3>2. Len(ctl') # 0
      BY <3>1, EmptySeq DEF TypeOK
    <3>3. Len(ctl) # 0
      BY <1>0, <1>8, <1>12, <3>2
    <3> QED
      BY <3>1, <3>3, EmptySeq
  <2>2. Coming
    BY <2>1 DEF Coming
  <2>3. RequestFrame(LastAsked'.req) = f
    BY <1>7
  <2> HIDE DEF f, n
  <2>4. /\ Len(up') >= 8 - (n - k)
        /\ \A p \in 1 .. n - k : ctl'[p] = f[8 - (n - k) + p]
        /\ \A p \in 1 .. 8 - (n - k) : up'[Len(up') - (8 - (n - k)) + p] = f[p]
    BY <1>11, <2>2
  <2>5. 8 - (n - k) <= Len(up')
    BY <1>0, <1>9, <1>8, <1>12, <2>4
  <2> QED
    BY <1>12, <2>3, <2>4, <2>5 DEF InPart
<1>14. ASSUME Coming, ctl' = <<>> PROVE AtEnd'
  <2>1. ReadAsked /\ Latest = LastAsked.req /\ Latest # NoRequest
    BY <1>3, <1>14, LatestIsLast DEF Coming
  <2>2. n - k = 0
    BY <1>12, <1>14, EmptySeq
  <2>3. /\ Len(up') >= 8 - (n - k)
        /\ \A p \in 1 .. 8 - (n - k) : up'[Len(up') - (8 - (n - k)) + p] = f[p]
    BY <1>11, <1>14
  <2>4. 8 - (n - k) = 8
    BY <2>2
  <2>5. Len(up') >= 8 /\ \A p \in 1 .. 8 : up'[Len(up') - 8 + p] = f[p]
    BY <2>3, <2>4
  <2>6. f = RequestFrame(Latest')
    BY <1>7, <2>1
  <2> QED
    BY <1>7, <2>1, <2>5, <2>6 DEF AtEnd
<1>e. Waiting'
  <2>1. CASE ~Coming
    <3>1. slot \in {NoRequest, Latest}
      BY <1>2, <2>1 DEF PlaceInv, Waiting
    <3> QED
      BY <1>2, <1>7, <3>1 DEF Waiting
  <2>2. CASE Coming
    BY <1>2, <1>7, <1>14, <2>2 DEF Coming, Waiting
  <2> QED
    BY <2>1, <2>2
<1>15. NotYet' /\ Scanned'
  BY <1>2 DEF NotYet, Scanned
<1> QED
  BY <1>2, <1>3, <1>6, <1>10, <1>13, <1>14, <1>e, <1>15 DEF PlaceInv

\* What is kept of the latest request is not dropped with the bytes before it.
LEMMA KeptRest ==
    ASSUME TypeOK, PlaceInv, ph = "up", ph' = "up", UNCHANGED <<ctl, asked>>,
           NEW n \in 0 .. Len(up), up' = Drop(up, n), Coming => n <= Len(up) - (8 - Len(ctl))
    PROVE  KeptWhole'
<1> DEFINE f == RequestFrame(LastAsked.req)
           c == Len(ctl)
<1>0. up \in Seq(Cell) /\ Len(up) \in Nat /\ c \in Nat
  BY LenProperties DEF TypeOK
<1>1. Len(up') = Len(up) - n /\ \A p \in 1 .. Len(up) - n : up'[p] = up[n + p]
  BY <1>0, RestPart
<1> SUFFICES ASSUME Coming' PROVE InPart'
  BY DEF KeptWhole
<1>2. Coming /\ LastAsked' = LastAsked /\ ctl' = ctl
  BY DEF Coming, ReadAsked, LastAsked
<1>3. InPart
  BY <1>2 DEF PlaceInv, KeptWhole
<1>4. /\ 8 - c <= Len(up)
      /\ \A p \in 1 .. c : ctl[p] = f[8 - c + p]
      /\ \A p \in 1 .. 8 - c : up[Len(up) - (8 - c) + p] = f[p]
  BY <1>3 DEF InPart
<1>5. n <= Len(up) - (8 - c) /\ c <= 8
  BY <1>2 DEF PlaceInv, ReadEnds
<1> HIDE DEF c, f
<1>6. 8 - c <= Len(up')
  BY <1>0, <1>1, <1>5
<1>7. ASSUME NEW p \in 1 .. 8 - c PROVE up'[Len(up') - (8 - c) + p] = f[p]
  <2> DEFINE q == Len(up') - (8 - c) + p
  <2>1. q \in 1 .. Len(up) - n /\ n + q = Len(up) - (8 - c) + p
    BY <1>0, <1>1, <1>5
  <2>2. up'[q] = up[n + q]
    BY <1>1, <2>1
  <2> QED
    BY <1>4, <2>1, <2>2
<1>8. Len(ctl') = c /\ RequestFrame(LastAsked'.req) = f
  BY <1>2 DEF c, f
<1>9. \A p \in 1 .. c : ctl'[p] = f[8 - c + p]
  BY <1>2, <1>4
<1> QED
  BY <1>6, <1>7, <1>8, <1>9 DEF InPart

\* Of the request that is still coming the last byte is not among those received.
LEMMA PartHasNoEnd ==
    ASSUME TypeOK, PlaceInv, ph = "up", Coming, NEW w \in Seq(Byte),
           Len(up) >= 1, HiOf(up[Len(up)], w)
    PROVE  Len(ctl) = 8
<1> DEFINE r == LastAsked.req
           f == RequestFrame(r)
           v == RequestValues(r)
           c == Len(ctl)
<1>0. up \in Seq(Cell) /\ Len(up) \in Nat /\ c \in Nat /\ c <= 8
  BY LenProperties DEF TypeOK, PlaceInv, ReadEnds
<1>1. r \in Request
  BY LatestIsLast DEF PlaceInv, Coming
<1>2. InPart
  BY DEF PlaceInv, KeptWhole
<1>3. 8 - c <= Len(up) /\ \A p \in 1 .. 8 - c : up[Len(up) - (8 - c) + p] = f[p]
  BY <1>2 DEF InPart
<1>4. c # 0
  BY EmptySeq DEF Coming, TypeOK
<1>5. v \in Seq(Byte) /\ Len(v) = 6 /\ f = Frame(v)
  BY <1>1, RequestFrameOf
<1> HIDE DEF c, f, v
<1>6. /\ \A p \in 1 .. 6 : f[p] = DataCell(v[p])
      /\ f[7] = LoCell(v)
  <2>1. /\ \A p \in 1 .. Len(v) : Frame(v)[p] = DataCell(v[p])
        /\ Frame(v)[Len(v) + 1] = LoCell(v)
    BY <1>5, FrameParts
  <2>2. Len(v) + 1 = 7
    BY <1>5
  <2> QED
    BY <1>5, <2>1, <2>2
<1>7. \A p \in 1 .. 7 : ~HiOf(f[p], w)
  <2>1. \A p \in 1 .. 6 : ~HiOf(f[p], w)
    BY <1>6, DataCells, NoCrcNeither
  <2>2. ~HiOf(f[7], w)
    BY <1>6, CrcOf, LoNotHi
  <2>3. \A p \in 1 .. 7 : p \in 1 .. 6 \/ p = 7
    OBVIOUS
  <2> QED
    BY <2>1, <2>2, <2>3
<1>8. ASSUME c # 8 PROVE FALSE
  <2> DEFINE p == 8 - c
  <2>1. p \in 1 .. 8 - c /\ p \in 1 .. 7 /\ Len(up) - (8 - c) + p = Len(up)
    BY <1>0, <1>4, <1>8
  <2> HIDE DEF p
  <2>2. up[Len(up)] = f[p]
    BY <1>3, <2>1
  <2> QED
    BY <1>7, <2>1, <2>2
<1> QED
  BY <1>8 DEF c

LEMMA PlaceScanRequest == ASSUME TypeOK, TypeOK', PlaceInv, ScanRequest PROVE PlaceInv'
<1>0. /\ up \in Seq(Cell) /\ Len(up) \in Nat /\ asked \in Seq(Asking)
      /\ ph = "up" /\ ph' = "up" /\ IsReadRequest(up)
      /\ slot' = HeadRequest(up) /\ up' = Drop(up, 8) /\ UNCHANGED <<ctl, asked>>
  BY LenProperties DEF TypeOK, PlaceInv, ScanRequest, env
<1>1. Len(up) >= 8 /\ Drop(up, 0) = up
  BY <1>0, SubSeqFull DEF IsReadRequest, Drop
<1>2. 0 \in 0 .. Len(up) - 8 /\ IsReadRequest(Drop(up, 0))
  BY <1>0, <1>1
<1>3. 0 = Len(up) - 8 /\ (HeadRequest(up) = Latest \/ Coming)
  BY <1>0, <1>1, <1>2 DEF PlaceInv, OneRequest
<1>4. Len(up) = 8
  BY <1>0, <1>3
<1>5. Len(up') = 0
  <2> DEFINE n == 8
             z == Len(up)
  <2>1. n \in 0 .. Len(up) /\ n \in Nat /\ z = n /\ up \in Seq(Cell) /\ up' = Drop(up, n)
    BY <1>0, <1>4
  <2> HIDE DEF n
  <2>2. Len(Drop(up, n)) = Len(up) - n
    BY <2>1, RestPart
  <2>3. Len(up') = z - n
    BY <2>1, <2>2
  <2> HIDE DEF z
  <2> QED
    BY <2>1, <2>3
<1>6. Latest' = Latest /\ LastAsked' = LastAsked /\ (Coming' <=> Coming)
  BY <1>0, LatestSame DEF LastAsked, ReadAsked, Coming
<1>7. KeptWhole'
  <2>1. PICK w \in Seq(Byte) : HiOf(up[8], w)
    BY <1>0, FoundEnds
  <2>2. Coming => Len(ctl) = 8
    BY <1>0, <1>4, <2>1, PartHasNoEnd
  <2>3. 8 \in 0 .. Len(up) /\ (Coming => 8 <= Len(up) - (8 - Len(ctl)))
    <3> DEFINE z == Len(up)
               c == Len(ctl)
    <3>1. z = 8 /\ (Coming => c = 8)
      BY <1>4, <2>2
    <3> HIDE DEF z, c
    <3>2. 8 \in 0 .. z /\ (Coming => 8 <= z - (8 - c))
      BY <3>1
    <3> QED
      BY <3>2 DEF z, c
  <2> QED
    BY <1>0, <2>3, KeptRest
<1>8. OneRequest' /\ NotYet' /\ Scanned'
  BY <1>0, <1>5 DEF OneRequest, NotYet, Scanned
<1>9. Waiting'
  BY <1>0, <1>3, <1>6 DEF Waiting
<1>10. ReadEnds'
  BY <1>0, <1>6 DEF PlaceInv, ReadEnds
<1> QED
  BY <1>0, <1>7, <1>8, <1>9, <1>10 DEF PlaceInv

LEMMA PlaceScanSkip ==
    ASSUME TypeOK, TypeOK', PlaceInv, ScanSkip PROVE PlaceInv' /\ (AtEnd => AtEnd')
<1>0. /\ up \in Seq(Cell) /\ Len(up) \in Nat /\ Len(up) >= 8 /\ asked \in Seq(Asking)
      /\ ph = "up" /\ ph' = "up" /\ ~IsReadRequest(up)
      /\ up' = Drop(up, 1) /\ up' \in Seq(Cell) /\ UNCHANGED <<ctl, asked, slot>>
  BY LenProperties DEF TypeOK, PlaceInv, ScanSkip, env
<1>1. 1 \in 0 .. Len(up)
  BY <1>0
<1>2. Len(up') = Len(up) - 1 /\ \A p \in 1 .. Len(up) - 1 : up'[p] = up[1 + p]
  BY <1>0, <1>1, RestPart
<1>3. Latest' = Latest /\ LastAsked' = LastAsked /\ (Coming' <=> Coming)
  BY <1>0, LatestSame DEF LastAsked, ReadAsked, Coming
<1>4. KeptWhole'
  <2>1. Coming => 1 <= Len(up) - (8 - Len(ctl))
    <3>1. ASSUME Coming PROVE Len(ctl) \in Nat /\ Len(ctl) # 0
      BY <3>1, EmptySeq, LenProperties DEF Coming, TypeOK
    <3> QED
      BY <1>0, <3>1
  <2> QED
    BY <1>0, <1>1, <2>1, KeptRest
<1>5. ASSUME NEW i \in 0 .. Len(up') - 8, IsReadRequest(Drop(up', i))
      PROVE  i = Len(up') - 8 /\ (HeadRequest(Drop(up', i)) = Latest \/ Coming)
  <2> DEFINE a == Drop(up', i)
             b == Drop(up, i + 1)
  <2>1. i \in 0 .. Len(up') /\ i + 1 \in 0 .. Len(up) /\ i + 1 \in 0 .. Len(up) - 8
    BY <1>0, <1>2
  <2>2. /\ a \in Seq(Cell) /\ Len(a) = Len(up') - i
        /\ \A p \in 1 .. Len(up') - i : a[p] = up'[i + p]
    BY <1>0, <2>1, RestPart
  <2>3. /\ b \in Seq(Cell) /\ Len(b) = Len(up) - (i + 1)
        /\ \A p \in 1 .. Len(up) - (i + 1) : b[p] = up[(i + 1) + p]
    BY <1>0, <2>1, RestPart
  <2>4. IsReadRequest(a)
    BY <1>5
  <2> HIDE DEF a, b
  <2>5. Len(a) >= 8 /\ Len(b) >= 8
    BY <1>0, <1>2, <2>1, <2>2, <2>3, SMTT(30)
  <2>6. \A p \in 1 .. 8 : a[p] = b[p]
    <3> SUFFICES ASSUME NEW p \in 1 .. 8 PROVE a[p] = b[p]
      OBVIOUS
    <3> DEFINE q == i + p
    <3>1. /\ p \in 1 .. Len(up') - i /\ p \in 1 .. Len(up) - (i + 1) /\ (i + 1) + p = 1 + q
          /\ q \in 1 .. Len(up) - 1
      BY <1>0, <1>2, <2>1
    <3>2. a[p] = up'[q]
      BY <2>2, <3>1
    <3>3. b[p] = up[1 + q]
      BY <2>3, <3>1
    <3> HIDE DEF q
    <3> QED
      BY <1>2, <3>1, <3>2, <3>3
  <2>7. IsReadRequest(b) /\ HeadRequest(a) = HeadRequest(b)
    BY <2>2, <2>3, <2>4, <2>5, <2>6, FoundAlike
  <2>8. i + 1 = Len(up) - 8 /\ (HeadRequest(b) = Latest \/ Coming)
    BY <1>0, <2>1, <2>7 DEF PlaceInv, OneRequest, b
  <2>9. i = Len(up') - 8
    BY <1>0, <1>2, <2>1, <2>8, SMTT(30)
  <2> QED
    BY <2>7, <2>8, <2>9 DEF a
<1>6. OneRequest'
  BY <1>3, <1>5 DEF OneRequest
<1>7. AtEnd => AtEnd'
  <2> SUFFICES ASSUME AtEnd PROVE AtEnd'
    OBVIOUS
  <2> DEFINE f == RequestFrame(Latest)
  <2>1. Latest # NoRequest /\ \A p \in 1 .. 8 : up[Len(up) - 8 + p] = f[p]
    BY DEF AtEnd
  <2>2. Len(up) # 8
    <3> SUFFICES ASSUME Len(up) = 8 PROVE FALSE
      OBVIOUS
    <3>1. \A p \in 1 .. 8 : Len(up) - 8 + p = p
      OBVIOUS
    <3>2. \A p \in 1 .. 8 : up[p] = f[p]
      BY <2>1, <3>1
    <3>3. Latest \in Request /\ Latest.fn # 6
      BY <1>0, <2>1, LatestType
    <3> QED
      BY <1>0, <3>2, <3>3, WholeIsFound
  <2> HIDE DEF f
  <2>3. Len(up') >= 8
    BY <1>0, <1>2, <2>2
  <2>4. ASSUME NEW p \in 1 .. 8 PROVE up'[Len(up') - 8 + p] = f[p]
    <3> DEFINE q == Len(up') - 8 + p
    <3>1. q \in 1 .. Len(up) - 1 /\ 1 + q = Len(up) - 8 + p
      BY <1>0, <1>2, <2>3
    <3>2. up'[q] = up[1 + q]
      BY <1>2, <3>1
    <3> QED
      BY <2>1, <3>1, <3>2
  <2>5. RequestFrame(Latest') = f
    BY <1>3 DEF f
  <2> QED
    BY <1>3, <2>1, <2>3, <2>4, <2>5 DEF AtEnd
<1>8. Waiting'
  BY <1>0, <1>3, <1>7 DEF PlaceInv, Waiting
<1>9. NotYet' /\ Scanned' /\ ReadEnds'
  BY <1>0, <1>3 DEF PlaceInv, NotYet, Scanned, ReadEnds
<1> QED
  BY <1>0, <1>4, <1>6, <1>7, <1>8, <1>9 DEF PlaceInv

LEMMA PlaceScanEnd == ASSUME TypeOK, PlaceInv, ScanEnd PROVE PlaceInv'
<1>0. /\ Len(up) \in Nat /\ Len(up) < 8 /\ ph = "up" /\ ph' \in {"loop", "down"}
      /\ UNCHANGED <<ctl, up, asked, slot>>
  BY LenProperties DEF TypeOK, ScanEnd, env
<1>1. Latest' = Latest /\ LastAsked' = LastAsked /\ (Coming' <=> Coming)
  BY <1>0, LatestSame DEF LastAsked, ReadAsked, Coming
<1>2. ~AtEnd
  BY <1>0 DEF AtEnd
<1>3. Waiting' /\ NotYet' /\ Scanned' /\ OneRequest' /\ ReadEnds'
  BY <1>0, <1>1, <1>2 DEF PlaceInv, Waiting, NotYet, Scanned, OneRequest, ReadEnds
<1>4. KeptWhole'
  BY <1>0, <1>1 DEF PlaceInv, KeptWhole, InPart
<1> QED
  BY <1>0, <1>3, <1>4 DEF PlaceInv

\* Every step keeps the proxy waiting for the latest request, if for any.
LEMMA PlaceStep ==
    ASSUME TypeOK, PlaceInv, [Next]_vars, "id" \notin Damage \/ AllIntact', STREAM >= 15
    PROVE  PlaceInv'
<1>0. TypeOK'
  BY TypeStep
<1>1. CASE ControllerAsks
  <2>1. asked' # <<>> /\ Len(asked') \in DOMAIN asked'
    <3>1. PICK e : asked' = Append(asked, e)
      BY <1>1 DEF ControllerAsks
    <3> DEFINE T == Asking \cup {e}
    <3>2. asked \in Seq(T) /\ e \in T
      BY SeqMonotonic DEF PlaceInv
    <3> HIDE DEF T
    <3>3. /\ asked' \in Seq(T) /\ Len(asked') = Len(asked) + 1 /\ Len(asked) \in Nat
          /\ DOMAIN asked' = 1 .. Len(asked')
      BY <3>1, <3>2, AppendProperties, LenProperties
    <3> QED
      BY <3>3, EmptySeq
  <2>2. "id" \notin Damage \/ LastAsked'.intact
    BY <2>1 DEF AllIntact, LastAsked
  <2> QED
    BY <1>1, <2>2, PlaceAsks
<1>2. CASE DeviceAnswers
  BY <1>2, PlaceUnchanged DEF DeviceAnswers
<1>3. ASSUME NEW c \in Chunks, NEW d \in Chunks, DetectRead(c, d) PROVE PlaceInv'
  BY <1>0, <1>3, PlaceDetectRead
<1>4. CASE Poll
  BY <1>4, PlaceUnchanged DEF Poll, env
<1>5. ASSUME NEW c \in Chunks, ReadController(c) PROVE PlaceInv'
  BY <1>0, <1>5, PlaceReadController
<1>6. ASSUME NEW c \in Chunks, ReadBus(c) PROVE PlaceInv'
  BY <1>6, PlaceUnchanged DEF ReadBus, env
<1>17. ASSUME NEW c \in Chunks, MakingRoomFails(c) PROVE PlaceInv'
  BY <1>17, PlaceUnchanged DEF MakingRoomFails, env
<1>7. CASE ScanRequest
  BY <1>0, <1>7, PlaceScanRequest
<1>8. CASE ScanSkip
  BY <1>0, <1>8, PlaceScanSkip
<1>9. CASE ScanEnd
  BY <1>9, PlaceScanEnd
<1>10. CASE Forward
  BY <1>10, PlaceUnchanged DEF Forward, env
<1>11. CASE ForwardEnd
  BY <1>11, PlaceUnchanged DEF ForwardEnd, env
<1>12. CASE ForwardFails
  BY <1>12, PlaceUnchanged DEF ForwardFails, env
<1>13. ASSUME NEW o \in Typed, SetOverride(o) PROVE PlaceInv'
  BY <1>13, PlaceUnchanged DEF SetOverride, AtConsole, env
<1>14. ASSUME NEW key \in DOMAIN ovr, ClearOverride(key) PROVE PlaceInv'
  BY <1>14, PlaceUnchanged DEF ClearOverride, AtConsole, env
<1>15. CASE Stop
  BY <1>15, PlaceUnchanged DEF Stop, env
<1>16. CASE UNCHANGED vars
  BY <1>16, PlaceUnchanged DEF vars, env
<1> QED
  BY <1>1, <1>2, <1>3, <1>4, <1>5, <1>6, <1>7, <1>8, <1>9, <1>10, <1>11, <1>12, <1>13, <1>14,
     <1>15, <1>16, <1>17
  DEF Next, Proxy

\* Whatever requests are damaged or cut short, and however the reads are cut, a
\* parsed line leaves the proxy waiting for the latest request that came whole, or
\* for none, as long as no address is damaged and the buffer holds the rest of a
\* request and one more.
THEOREM SlotIsRight ==
    ASSUME "id" \notin Damage, STREAM >= 15
    PROVE  Spec => []SlotIsLatest
<1>1. Init => TypeOK /\ PlaceInv
  BY TypeInit, PlaceInit
<1>2. (TypeOK /\ PlaceInv) /\ [Next]_vars => (TypeOK /\ PlaceInv)'
  BY TypeStep, PlaceStep
<1>3. PlaceInv => SlotIsLatest
  BY DEF PlaceInv, Waiting, Coming, SlotIsLatest
<1> QED
  BY <1>1, <1>2, <1>3, PTL DEF Spec

-----------------------------------------------------------------------------
(* Question and answer on an undamaged line. *)

LastReply == replies[Len(replies)]

\* What the device sent and the proxy has not sent on.
Unread == buf \o bus

\* The longest reply fits in the buffer, and the rest of a request and one more.
Roomy == STREAM >= 15 /\ \A r \in Requests : 2 * r.count + 5 <= STREAM

\* Bytes that are the whole answer that is remembered as k: the registers asked
\* for, the echo of a write, or an exception.
Shaped(g, k) ==
    /\ g \in Seq(Cell) /\ HasValidCrc(g, Len(g)) /\ g[1].v = k.req.dev
    /\ \/ /\ k.data /\ k.req.fn = 3 /\ g[2].v = 3 /\ Len(g) = 2 * k.req.count + 5
          /\ \A p \in 4 .. 2 * k.req.count + 3 : g[p].v = Held[1 + (p % 2)]
       \/ ~k.data /\ g[2].v = 6 /\ Len(g) = 8
       \/ ~k.data /\ g[2].v \in 128 .. 255 /\ Len(g) = 5

\* One request at most is on its way to the device.
Going ==
    /\ Len(atDev) + Len(ctl) <= 8
    /\ Len(atDev) + Len(ctl) = 8 =>
          asked # <<>> /\ atDev \o ctl = RequestFrame(LastAsked.req)

\* Nothing comes back meanwhile.
OneWay == atDev # <<>> \/ ctl # <<>> => buf = <<>> /\ bus = <<>>

\* What comes back is the answer to it, and nothing of that has gone out yet.
Back ==
    Unread # <<>> =>
       /\ replies # <<>> /\ asked # <<>> /\ LastReply.req = LastAsked.req
       /\ LastReply.req \in Requests
       /\ LastReply.at = Len(fwd) /\ LastReply.len = Len(Unread)
       /\ Shaped(Unread, LastReply)

\* The proxy waits for the answer by then, or is about to find the request.
Expected ==
    asked # <<>> /\ LastAsked.req.fn = 3 /\ (Len(atDev) = 8 \/ Unread # <<>>) =>
       slot = LastAsked.req \/ (ph = "up" /\ AtEnd)

\* An answer that was read to its end is being sent on.
Through ==
    /\ buf # <<>> /\ bus = <<>> => ph = "down"
    /\ ph = "detect" => replies = <<>>

Lock == ph # "stopped" => Going /\ OneWay /\ Back /\ Expected /\ Through

AnswerInv == asked \in Seq(Asking) /\ (Undamaged => PlaceInv /\ Lock)

\* The frame that is made of some values.
LEMMA FrameShape ==
    ASSUME NEW v \in Seq(Byte), Len(v) >= 3
    PROVE  /\ Frame(v) \in Seq(Cell) /\ Len(Frame(v)) = Len(v) + 2
           /\ HasValidCrc(Frame(v), Len(Frame(v)))
           /\ \A p \in 1 .. Len(v) : Frame(v)[p].v = v[p]
<1>1. Frame(v) \in Seq(Cell) /\ Len(Frame(v)) = Len(v) + 2
  BY FrameParts
<1>2. HasValidCrc(Frame(v), Len(v) + 2)
  BY FrameIsValid
<1>3. \A p \in 1 .. Len(v) : Frame(v)[p] = DataCell(v[p])
  BY FrameParts
<1> QED
  BY <1>1, <1>2, <1>3, DataCells

\* What the device may answer has the shape of an answer.
LEMMA AnswerShape ==
    ASSUME NEW r \in Requests, NEW k, k.req = r
    PROVE  /\ r.fn = 3 /\ k.data => Shaped(ReplyFrame(r, RegisterBytes(r.count)), k)
           /\ r.fn = 6 /\ ~k.data => Shaped(ReplyFrame(r, RegisterBytes(r.count)), k)
           /\ ~k.data => Shaped(ExceptionFrame(r), k)
<1>0. r \in Request
  BY ByteAssumption
<1>1. /\ r.dev \in Byte /\ r.fn \in {3, 4, 6} /\ r.fn \in Byte /\ 128 + r.fn \in Byte
      /\ r.start \div 256 \in Byte /\ r.start % 256 \in Byte
      /\ r.count \div 256 \in Byte /\ r.count % 256 \in Byte
      /\ r.count \in 1 .. 125
  BY <1>0, RequestParts, TwoBytes
<1>2. 2 \in Byte /\ 3 \in Byte /\ 2 * r.count \in Byte
  <2>1. \A n \in 1 .. 125 : 2 * n \in Byte
    BY DEF Byte
  <2>2. 2 \in Byte /\ 3 \in Byte
    BY DEF Byte
  <2> QED
    BY <1>1, <2>1, <2>2
<1>3. ASSUME r.fn = 3, k.data PROVE Shaped(ReplyFrame(r, RegisterBytes(r.count)), k)
  <2> DEFINE data == RegisterBytes(r.count)
             h == <<r.dev, 3, 2 * r.count>>
             v == h \o data
             f == Frame(v)
             n == 2 * r.count
  <2>1. n \in 2 .. 250 /\ n \in Nat
    BY <1>1
  <2>2. data \in Seq(Byte) /\ Len(data) = n
    <3>1. DOMAIN data = 1 .. n
      BY DEF RegisterBytes
    <3>2. data \in Seq(Byte)
      BY RegisterCells
    <3> QED
      BY <2>1, <3>1, <3>2, LenProperties
  <2>3. \A p \in 1 .. n : data[p] = Held[1 + ((p - 1) % 2)]
    BY DEF RegisterBytes
  <2>4. h \in Seq(Byte) /\ Len(h) = 3 /\ h[1] = r.dev /\ h[2] = 3
    BY <1>1, <1>2
  <2>5. ReplyFrame(r, data) = f
    BY <1>3 DEF ReplyFrame
  <2> HIDE DEF data, h, n
  <2>6. /\ v \in Seq(Byte) /\ Len(v) = 3 + n
        /\ \A p \in 1 .. 3 : v[p] = h[p]
        /\ \A p \in 1 .. n : v[3 + p] = data[p]
    <3>1. v \in Seq(Byte) /\ Len(v) = Len(h) + Len(data)
      BY <2>2, <2>4, ConcatProperties
    <3>2. \A p \in 1 .. Len(h) + Len(data) : v[p] = IF p <= Len(h) THEN h[p] ELSE data[p - Len(h)]
      BY <2>2, <2>4, ConcatProperties
    <3> HIDE DEF v
    <3>3. \A p \in 1 .. 3 + n : v[p] = IF p <= 3 THEN h[p] ELSE data[p - 3]
      BY <2>2, <2>4, <3>2
    <3>4. ASSUME NEW p \in 1 .. n PROVE v[3 + p] = data[p]
      <4> DEFINE q == 3 + p
      <4>1. q \in 1 .. 3 + n /\ ~ (q <= 3) /\ q - 3 = p
        BY <2>1
      <4> HIDE DEF q
      <4>2. v[q] = data[q - 3]
        BY <3>3, <4>1
      <4> QED
        BY <4>1, <4>2 DEF q
    <3>5. \A p \in 1 .. 3 : p \in 1 .. 3 + n /\ p <= 3
      BY <2>1
    <3> QED
      BY <2>2, <2>4, <3>1, <3>3, <3>4, <3>5
  <2> HIDE DEF v
  <2>7. /\ f \in Seq(Cell) /\ Len(f) = Len(v) + 2 /\ HasValidCrc(f, Len(f))
        /\ \A p \in 1 .. Len(v) : f[p].v = v[p]
    <3>1. Len(v) >= 3
      BY <2>1, <2>6
    <3> QED
      BY <2>6, <3>1, FrameShape
  <2> HIDE DEF f
  <2>8. Len(f) = n + 5 /\ Len(v) = n + 3
    BY <2>1, <2>6, <2>7
  <2>9. f[1].v = r.dev /\ f[2].v = 3
    <3>1. 1 \in 1 .. Len(v) /\ 2 \in 1 .. Len(v) /\ 1 \in 1 .. 3 /\ 2 \in 1 .. 3
      BY <2>1, <2>8
    <3> QED
      BY <2>4, <2>6, <2>7, <3>1
  <2>10. ASSUME NEW p \in 4 .. n + 3 PROVE f[p].v = Held[1 + (p % 2)]
    <3> DEFINE q == p - 3
    <3>1. p \in 1 .. Len(v) /\ q \in 1 .. n /\ 3 + q = p /\ (q - 1) % 2 = p % 2
      BY <2>1, <2>8
    <3> HIDE DEF q
    <3>2. f[p].v = v[p] /\ v[3 + q] = data[q] /\ data[q] = Held[1 + ((q - 1) % 2)]
      BY <2>3, <2>6, <2>7, <3>1
    <3> QED
      BY <3>1, <3>2
  <2> QED
    BY <1>3, <2>5, <2>7, <2>8, <2>9, <2>10 DEF Shaped, n, data
<1>4. ASSUME r.fn = 6, ~k.data PROVE Shaped(ReplyFrame(r, RegisterBytes(r.count)), k)
  <2> DEFINE v == RequestValues(r)
             f == Frame(v)
  <2>1. v \in Seq(Byte) /\ Len(v) = 6 /\ RequestFrame(r) = f
    BY <1>0, RequestFrameOf
  <2>2. v[1] = r.dev /\ v[2] = 6
    BY <1>4 DEF RequestValues
  <2>3. ReplyFrame(r, RegisterBytes(r.count)) = f
    BY <1>4, <2>1 DEF ReplyFrame
  <2> HIDE DEF v
  <2>4. /\ f \in Seq(Cell) /\ Len(f) = Len(v) + 2 /\ HasValidCrc(f, Len(f))
        /\ \A p \in 1 .. Len(v) : f[p].v = v[p]
    <3>1. Len(v) >= 3
      BY <2>1
    <3> QED
      BY <2>1, <3>1, FrameShape
  <2> HIDE DEF f
  <2>5. Len(f) = 8 /\ f[1].v = r.dev /\ f[2].v = 6
    <3>1. 1 \in 1 .. Len(v) /\ 2 \in 1 .. Len(v)
      BY <2>1
    <3> QED
      BY <2>1, <2>2, <2>4, <3>1
  <2> QED
    BY <1>4, <2>3, <2>4, <2>5 DEF Shaped
<1>5. ASSUME ~k.data PROVE Shaped(ExceptionFrame(r), k)
  <2> DEFINE v == <<r.dev, 128 + r.fn, 2>>
             f == Frame(v)
  <2>1. v \in Seq(Byte) /\ Len(v) = 3 /\ ExceptionFrame(r) = f
    BY <1>1, <1>2 DEF ExceptionFrame
  <2>2. v[1] = r.dev /\ v[2] = 128 + r.fn
    OBVIOUS
  <2> HIDE DEF v
  <2>3. /\ f \in Seq(Cell) /\ Len(f) = Len(v) + 2 /\ HasValidCrc(f, Len(f))
        /\ \A p \in 1 .. Len(v) : f[p].v = v[p]
    <3>1. Len(v) >= 3
      BY <2>1
    <3> QED
      BY <2>1, <3>1, FrameShape
  <2> HIDE DEF f
  <2>4. Len(f) = 5 /\ f[1].v = r.dev /\ f[2].v = 128 + r.fn
    <3>1. 1 \in 1 .. Len(v) /\ 2 \in 1 .. Len(v)
      BY <2>1
    <3> QED
      BY <2>1, <2>2, <2>3, <3>1
  <2>5. 128 + r.fn \in 128 .. 255
    BY <1>1
  <2> QED
    BY <1>5, <2>1, <2>3, <2>4, <2>5 DEF Shaped
<1> QED
  BY <1>3, <1>4, <1>5

\* The proxy sees how long the answer is when four bytes are there, waits for
\* the rest, and takes it when it is whole.
LEMMA HeadOfAnswer ==
    ASSUME NEW k, k.req \in Request, NEW g, Shaped(g, k), k.data => slot = k.req,
           NEW b \in Seq(Cell), Len(b) >= 4, Len(b) <= Len(g),
           \A p \in 1 .. Len(b) : b[p] = g[p]
    PROVE  /\ ResponseLen(b) = Len(g) /\ (IsRead(b) <=> k.data)
           /\ FrameHere(b) <=> Len(b) = Len(g)
           /\ NeedMore(b) <=> Len(b) < Len(g)
<1>0. /\ g \in Seq(Cell) /\ Len(g) \in Nat /\ Len(b) \in Nat /\ HasValidCrc(g, Len(g))
      /\ k.req.dev \in 1 .. 247 /\ k.req.count \in 1 .. 125 /\ k.req # NoRequest
  <2>1. k.req.dev \in 1 .. 247 /\ k.req.count \in 1 .. 125
    BY DEF Request
  <2>2. k.req # NoRequest
    BY RequestParts DEF NoRequest
  <2> QED
    BY <2>1, <2>2, LenProperties DEF Shaped
<1>1. b[1].v = k.req.dev /\ b[2].v = g[2].v
  <2>1. 1 \in 1 .. Len(b) /\ 2 \in 1 .. Len(b)
    BY <1>0
  <2> QED
    BY <2>1 DEF Shaped
<1>2. ValidDevice(b[1].v)
  BY <1>0, <1>1 DEF ValidDevice
<1>3. ResponseLen(b) = Len(g) /\ (IsRead(b) <=> k.data)
  <2>1. CASE /\ k.data /\ k.req.fn = 3 /\ g[2].v = 3 /\ Len(g) = 2 * k.req.count + 5
    <3>1. IsRead(b) /\ Wanted(b) /\ slot.count = k.req.count
      BY <1>0, <1>1, <2>1 DEF IsRead, Wanted
    <3> QED
      BY <1>2, <2>1, <3>1, SMTT(30) DEF ResponseLen
  <2>2. CASE ~k.data /\ g[2].v = 6 /\ Len(g) = 8
    <3>1. ~IsRead(b) /\ b[2].v = 6
      BY <1>1, <2>2 DEF IsRead
    <3> QED
      BY <1>2, <2>2, <3>1 DEF ResponseLen
  <2>3. CASE ~k.data /\ g[2].v \in 128 .. 255 /\ Len(g) = 5
    <3>0. b[2].v \in 128 .. 255
      BY <1>1, <2>3
    <3>1. ~IsRead(b) /\ b[2].v # 6 /\ b[2].v >= 128
      <4>1. \A n \in 128 .. 255 : n \notin {3, 4} /\ n # 6 /\ n >= 128
        OBVIOUS
      <4> QED
        BY <3>0, <4>1 DEF IsRead
    <3> QED
      BY <1>2, <2>3, <3>1 DEF ResponseLen
  <2> QED
    BY <2>1, <2>2, <2>3 DEF Shaped
<1>4. Len(g) >= 5
  <2> DEFINE c == k.req.count
             m == Len(g)
  <2>1. c \in 1 .. 125 /\ (m = 2 * c + 5 \/ m = 8 \/ m = 5)
    BY <1>0 DEF Shaped
  <2> HIDE DEF c, m
  <2>2. m >= 5
    BY <2>1
  <2> QED
    BY <2>2 DEF m
<1>5. FrameHere(b) <=> Len(b) = Len(g)
  <2>1. FrameHere(b) <=> HasValidCrc(b, Len(g))
    BY <1>0, <1>3, <1>4 DEF FrameHere
  <2>2. HasValidCrc(b, Len(g)) => Len(g) <= Len(b)
    BY DEF HasValidCrc
  <2>3. ASSUME Len(b) = Len(g) PROVE HasValidCrc(b, Len(g))
    <3> DEFINE n == Len(g)
    <3>1. /\ n \in Nat /\ 2 <= n /\ n <= Len(b) /\ n <= Len(g) /\ \A p \in 1 .. n : b[p] = g[p]
      BY <1>0, <1>4, <2>3
    <3> HIDE DEF n
    <3>2. HasValidCrc(b, n) <=> HasValidCrc(g, n)
      BY <1>0, <3>1, CrcAlike
    <3> QED
      BY <1>0, <3>2 DEF n
  <2> QED
    BY <1>0, <2>1, <2>2, <2>3
<1>6. NeedMore(b) <=> Len(b) < Len(g)
  BY <1>0, <1>3, <1>4, <1>5 DEF NeedMore
<1> QED
  BY <1>3, <1>5, <1>6

LEMMA JoinedEmpty ==
    ASSUME NEW s \in Seq(Cell), NEW t \in Seq(Cell)
    PROVE  /\ s \o t \in Seq(Cell) /\ Len(s \o t) = Len(s) + Len(t)
           /\ Len(s) \in Nat /\ Len(t) \in Nat
           /\ s \o t = <<>> <=> s = <<>> /\ t = <<>>
<1>1. /\ s \o t \in Seq(Cell) /\ Len(s \o t) = Len(s) + Len(t) /\ Len(s) \in Nat /\ Len(t) \in Nat
  BY Joined
<1>2. /\ s \o t = <<>> <=> Len(s \o t) = 0
      /\ s = <<>> <=> Len(s) = 0
      /\ t = <<>> <=> Len(t) = 0
  BY <1>1, EmptySeq
<1>3. Len(s) + Len(t) = 0 <=> Len(s) = 0 /\ Len(t) = 0
  BY <1>1
<1> QED
  BY <1>1, <1>2, <1>3

\* Two requests with the same bytes are one.
LEMMA RequestAlike ==
    ASSUME NEW r \in Request, NEW q \in Request, RequestFrame(r) = RequestFrame(q)
    PROVE  r = q
<1> DEFINE v == RequestValues(r)
           w == RequestValues(q)
<1>1. /\ v \in Seq(Byte) /\ Len(v) = 6 /\ RequestFrame(r) = Frame(v)
      /\ w \in Seq(Byte) /\ Len(w) = 6 /\ RequestFrame(q) = Frame(w)
  BY RequestFrameOf
<1> HIDE DEF v, w
<1>2. HiCell(v) = HiCell(w)
  <2>1. Frame(v)[Len(v) + 2] = HiCell(v) /\ Frame(w)[Len(w) + 2] = HiCell(w)
    BY <1>1, FrameParts
  <2> QED
    BY <1>1, <2>1
<1>3. v = w
  BY <1>2, CrcOf
<1>4. /\ v[1] = r.dev /\ v[2] = r.fn /\ v[3] = r.start \div 256 /\ v[4] = r.start % 256
      /\ v[5] = r.count \div 256 /\ v[6] = r.count % 256
  BY DEF v, RequestValues
<1>5. /\ w[1] = q.dev /\ w[2] = q.fn /\ w[3] = q.start \div 256 /\ w[4] = q.start % 256
      /\ w[5] = q.count \div 256 /\ w[6] = q.count % 256
  BY DEF w, RequestValues
<1>6. ASSUME NEW m \in Nat, NEW n \in Nat, m \div 256 = n \div 256, m % 256 = n % 256
      PROVE  m = n
  BY <1>6
<1>7. r.start \in Nat /\ r.count \in Nat /\ q.start \in Nat /\ q.count \in Nat
  BY RequestParts DEF Word
<1>8. r.dev = q.dev /\ r.fn = q.fn /\ r.start = q.start /\ r.count = q.count
  BY <1>3, <1>4, <1>5, <1>6, <1>7
<1>9. /\ r = [dev |-> r.dev, fn |-> r.fn, start |-> r.start, count |-> r.count]
      /\ q = [dev |-> q.dev, fn |-> q.fn, start |-> q.start, count |-> q.count]
  BY DEF Request
<1> QED
  BY <1>8, <1>9

\* On an undamaged line the last request is whole, and the latest if it is a read.
LEMMA LastIs ==
    ASSUME asked \in Seq(Asking), Undamaged, asked # <<>>
    PROVE  /\ LastAsked \in Asking /\ LastAsked.req \in Request /\ LastAsked.req.fn \in {3, 6}
           /\ LastAsked.intact
           /\ LastAsked.req.fn = 3 => ReadAsked /\ Latest = LastAsked.req
<1> DEFINE m == Len(asked)
<1>1. m \in 1 .. m /\ DOMAIN asked = 1 .. m
  BY EmptySeq, LenProperties
<1>2. asked[m] \in Asking /\ asked[m].intact /\ asked[m].req.fn # 4
  BY <1>1, ElementOfSeq DEF Undamaged
<1> HIDE DEF m
<1>3. LastAsked = asked[m]
  BY DEF m, LastAsked
<1>4. LastAsked.req \in Request /\ LastAsked.req.fn \in {3, 6}
  BY <1>2, <1>3 DEF Asking, Request
<1>5. ASSUME LastAsked.req.fn = 3 PROVE ReadAsked /\ Latest = LastAsked.req
  <2>1. ReadAsked
    BY <1>2, <1>3, <1>5 DEF ReadAsked
  <2> QED
    BY <2>1, LatestIsLast
<1> QED
  BY <1>2, <1>3, <1>4, <1>5

\* A sequence with one more at its end.
LEMMA OneMore ==
    ASSUME NEW T, NEW s \in Seq(T), NEW e, NEW t, t = Append(s, e)
    PROVE  /\ Len(s) \in Nat /\ Len(t) = Len(s) + 1 /\ t # <<>>
           /\ DOMAIN s = 1 .. Len(s) /\ DOMAIN t = 1 .. Len(t)
           /\ t[Len(t)] = e /\ \A i \in DOMAIN s : i \in DOMAIN t /\ t[i] = s[i]
           /\ e \in T => t \in Seq(T)
<1> DEFINE U == T \cup {e}
<1>1. s \in Seq(U) /\ e \in U
  BY SeqMonotonic
<1> HIDE DEF U
<1>2. /\ t \in Seq(U) /\ Len(t) = Len(s) + 1 /\ Len(s) \in Nat
      /\ DOMAIN s = 1 .. Len(s) /\ DOMAIN t = 1 .. Len(t)
      /\ t[Len(s) + 1] = e /\ \A i \in 1 .. Len(s) : t[i] = s[i]
  BY <1>1, AppendProperties, LenProperties
<1>3. t # <<>>
  BY <1>2, EmptySeq
<1>4. \A i \in 1 .. Len(s) : i \in 1 .. Len(t)
  BY <1>2
<1>5. e \in T => t \in Seq(T)
  BY AppendProperties
<1> QED
  BY <1>2, <1>3, <1>4, <1>5

\* What the controller asks next.
LEMMA NextAsked ==
    ASSUME asked \in Seq(Asking), ControllerAsks
    PROVE  \E r \in Requests, how \in Damage :
              /\ ctl' = Damaged(RequestFrame(r), how)
              /\ LastAsked' = [req |-> r, intact |-> how = "none", quiet |-> Quiet]
              /\ asked' \in Seq(Asking) /\ asked' # <<>> /\ Len(asked') \in DOMAIN asked'
              /\ \A i \in DOMAIN asked : i \in DOMAIN asked' /\ asked'[i] = asked[i]
<1>1. PICK r \in Requests, how \in Damage :
          /\ ctl' = Damaged(RequestFrame(r), how)
          /\ asked' = Append(asked, [req |-> r, intact |-> how = "none", quiet |-> Quiet])
  BY DEF ControllerAsks
<1> DEFINE a == [req |-> r, intact |-> how = "none", quiet |-> Quiet]
           t == asked'
<1>2. a \in Asking
  <2>1. Quiet \in BOOLEAN
    BY DEF Quiet
  <2> QED
    BY <2>1, ByteAssumption DEF Asking
<1>3. t = Append(asked, a)
  BY <1>1
<1> HIDE DEF a, t
<1>4. /\ Len(asked) \in Nat /\ Len(t) = Len(asked) + 1 /\ t # <<>> /\ DOMAIN t = 1 .. Len(t)
      /\ t[Len(t)] = a /\ \A i \in DOMAIN asked : i \in DOMAIN t /\ t[i] = asked[i]
      /\ t \in Seq(Asking)
  BY <1>2, <1>3, OneMore
<1>5. Len(t) \in DOMAIN t
  BY <1>4
<1>6. LastAsked' = a
  BY <1>4 DEF LastAsked, t
<1> QED
  BY <1>1, <1>4, <1>5, <1>6 DEF a, t

\* What the line has never damaged it had not damaged before.
LEMMA UndamagedBefore ==
    ASSUME TypeOK, asked \in Seq(Asking), replies \in Seq(ReplyRecord), [Next]_vars, Undamaged'
    PROVE  Undamaged /\ asked' \in Seq(Asking)
<1>1. /\ asked' \in Seq(Asking)
      /\ \A i \in DOMAIN asked : i \in DOMAIN asked' /\ asked'[i] = asked[i]
  <2>1. CASE ControllerAsks
    BY <2>1, NextAsked
  <2>2. CASE UNCHANGED asked
    BY <2>2
  <2> QED
    BY <2>1, <2>2
    DEF Next, Proxy, DeviceAnswers, DetectRead, Poll, ReadController, ReadBus, MakingRoomFails, ScanRequest,
        ScanSkip, ScanEnd, Forward, ForwardEnd, ForwardFails, SetOverride, ClearOverride, Stop, vars, env
<1>2. \/ UNCHANGED <<sent, replies>>
      \/ \E k \in ReplyRecord : k.at = Len(sent) /\ replies' = Append(replies, k)
  <2>1. CASE DeviceAnswers
    BY <2>1, Answered
  <2>2. CASE UNCHANGED <<sent, replies>>
    BY <2>2
  <2> QED
    BY <2>1, <2>2
    DEF Next, Proxy, ControllerAsks, DetectRead, Poll, ReadController, ReadBus, MakingRoomFails, ScanRequest,
        ScanSkip, ScanEnd, Forward, ForwardEnd, ForwardFails, SetOverride, ClearOverride, Stop, vars, env
<1>3. \A i \in DOMAIN asked : asked[i].intact /\ asked[i].quiet /\ asked[i].req.fn # 4
  BY <1>1 DEF Undamaged
<1>4. CASE UNCHANGED <<sent, replies>>
  BY <1>3, <1>1, <1>4 DEF Undamaged
<1>5. ASSUME NEW k \in ReplyRecord, k.at = Len(sent), replies' = Append(replies, k) PROVE Undamaged
  <2> DEFINE t == replies'
  <2>1. t = Append(replies, k)
    BY <1>5
  <2> HIDE DEF t
  <2>2. /\ Len(replies) \in Nat /\ Len(t) = Len(replies) + 1 /\ t # <<>> /\ t[Len(t)] = k
        /\ DOMAIN replies = 1 .. Len(replies)
        /\ \A i \in DOMAIN replies : i \in DOMAIN t /\ t[i] = replies[i]
    BY <2>1, OneMore
  <2>3. /\ \A i \in DOMAIN t : t[i].intact
        /\ t[1].at = 0
    BY <2>2 DEF Undamaged, t
  <2>4. CASE replies = <<>>
    <3>1. Len(replies) = 0
      BY <2>4, EmptySeq
    <3>2. Len(t) = 1
      BY <2>2, <3>1
    <3>3. Len(sent) = 0
      BY <1>5, <2>2, <2>3, <3>2
    <3>4. sent = <<>>
      BY <3>3, EmptySeq DEF TypeOK
    <3> QED
      BY <1>3, <2>2, <2>3, <2>4, <3>4 DEF Undamaged
  <2>5. CASE replies # <<>>
    <3>1. 1 \in DOMAIN replies
      BY <2>2, <2>5, EmptySeq
    <3> QED
      BY <1>3, <2>2, <2>3, <2>5, <3>1 DEF Undamaged
  <2> QED
    BY <2>4, <2>5
<1> QED
  BY <1>1, <1>2, <1>4, <1>5

\* What is unread is in the buffer or at the port.
LEMMA UnreadType ==
    ASSUME TypeOK
    PROVE  /\ buf \in Seq(Cell) /\ bus \in Seq(Cell) /\ Len(buf) \in Nat /\ Len(bus) \in Nat
           /\ Unread \in Seq(Cell) /\ Len(Unread) = Len(buf) + Len(bus)
           /\ Unread = <<>> <=> buf = <<>> /\ bus = <<>>
<1>1. buf \in Seq(Cell) /\ bus \in Seq(Cell)
  BY DEF TypeOK
<1> QED
  BY <1>1, JoinedEmpty DEF Unread

LEMMA LockInit == ASSUME Init PROVE asked \in Seq(Asking) /\ (Undamaged => Lock)
<1>1. /\ ph = "detect" /\ ctl = <<>> /\ atDev = <<>> /\ buf = <<>> /\ asked = <<>>
      /\ replies = <<>> /\ sent = bus
  BY DEF Init
<1>2. Len(ctl) = 0 /\ Len(atDev) = 0 /\ asked \in Seq(Asking)
  BY <1>1, EmptySeq
<1>3. ASSUME Undamaged PROVE Lock
  <2>1. bus = <<>>
    BY <1>1, <1>3 DEF Undamaged
  <2>2. Unread = <<>>
    BY <1>1, <2>1 DEF Unread
  <2> QED
    BY <1>1, <1>2, <2>1, <2>2 DEF Lock, Going, OneWay, Back, Expected, Through
<1> QED
  BY <1>2, <1>3

\* A step that moves no byte of either side.
LEMMA LockUnchanged ==
    ASSUME Lock, UNCHANGED <<ctl, bus, buf, fwd, up, slot, atDev, asked, replies>>,
           ph' = ph \/ ph' = "stopped"
    PROVE  Lock'
<1> SUFFICES ASSUME ph' # "stopped" PROVE (Going /\ OneWay /\ Back /\ Expected /\ Through)'
  BY DEF Lock
<1>1. ph' = ph /\ Going /\ OneWay /\ Back /\ Expected /\ Through
  BY DEF Lock
<1>2. Unread' = Unread /\ LastAsked' = LastAsked /\ LastReply' = LastReply /\ Latest' = Latest
  BY LatestSame DEF Unread, LastAsked, LastReply
<1>3. Going' /\ OneWay' /\ Through'
  BY <1>1, <1>2 DEF Going, OneWay, Through
<1>4. Back'
  BY <1>1, <1>2 DEF Back, Shaped
<1>5. AtEnd' <=> AtEnd
  BY <1>2 DEF AtEnd
<1>6. Expected'
  BY <1>1, <1>2, <1>5 DEF Expected
<1> QED
  BY <1>3, <1>4, <1>6

\* The controller asks when nothing else is on its way.
LEMMA LockAsks ==
    ASSUME TypeOK, TypeOK', asked \in Seq(Asking), Lock, Undamaged', ControllerAsks
    PROVE  Lock'
<1>1. PICK r \in Requests, how \in Damage :
              /\ ctl' = Damaged(RequestFrame(r), how)
              /\ LastAsked' = [req |-> r, intact |-> how = "none", quiet |-> Quiet]
              /\ asked' # <<>> /\ Len(asked') \in DOMAIN asked'
  BY NextAsked
<1>2. LastAsked'.intact /\ LastAsked'.quiet
  BY <1>1 DEF Undamaged, LastAsked
<1>3. how = "none" /\ Quiet
  BY <1>1, <1>2
<1>4. ctl' = RequestFrame(r) /\ r \in Request
  BY <1>1, <1>3, ByteAssumption DEF Damaged
<1>5. /\ ph \in {"detect", "loop"} /\ atDev = <<>> /\ bus = <<>>
      /\ UNCHANGED <<ph, bus, buf, atDev, replies>>
  BY <1>3 DEF Quiet, ControllerAsks
<1>6. Through /\ buf = <<>>
  BY <1>5 DEF Lock, Through
<1>7. Unread' = <<>>
  BY <1>5, <1>6 DEF Unread
<1>8. Len(ctl') = 8 /\ ctl' \in Seq(Cell) /\ Len(atDev') = 0 /\ atDev' = <<>>
  BY <1>4, <1>5, RequestCells, EmptySeq
<1>9. Going'
  <2>1. atDev' \o ctl' = ctl'
    BY <1>8, ConcatEmptySeq
  <2>2. atDev' \o ctl' = RequestFrame(LastAsked'.req)
    BY <1>1, <1>4, <2>1
  <2>3. Len(atDev') + Len(ctl') <= 8
    BY <1>8
  <2> QED
    BY <1>1, <2>2, <2>3 DEF Going
<1>10. OneWay' /\ Back'
  BY <1>5, <1>6, <1>7 DEF OneWay, Back
<1>11. Expected'
  BY <1>7, <1>8 DEF Expected
<1>12. Through'
  BY <1>5, <1>6 DEF Through
<1> QED
  BY <1>9, <1>10, <1>11, <1>12 DEF Lock

\* While the ports are told apart only the controller has sent anything.
LEMMA LockDetectRead ==
    ASSUME TypeOK, TypeOK', OrderInv, OrderInv', Lock, Undamaged,
           NEW c \in Chunks, NEW d \in Chunks, DetectRead(c, d)
    PROVE  Lock'
<1> DEFINE k == Least(c, Len(ctl))
<1>1. /\ ph = "detect" /\ ctl' = Drop(ctl, k) /\ ph' \in {"detect", "up"}
      /\ UNCHANGED <<atDev, asked, sent, replies, fwd>>
  BY DEF DetectRead, env
<1>2. ctl \in Seq(Cell) /\ Len(ctl) \in Nat
  BY LenProperties DEF TypeOK
<1>3. k \in 0 .. Len(ctl)
  BY <1>2, ReadTypes
<1> HIDE DEF k
<1>4. /\ Len(ctl') = Len(ctl) - k
      /\ SubSeq(ctl, 1, k) \o ctl' = ctl /\ Len(SubSeq(ctl, 1, k)) = k
      /\ SubSeq(ctl, 1, k) \in Seq(Cell) /\ ctl' \in Seq(Cell)
  BY <1>1, <1>2, <1>3, Cut
<1>5. atDev = <<>> /\ Len(atDev) = 0 /\ Going /\ Through /\ replies = <<>>
  BY <1>1, EmptySeq DEF OrderInv, Lock, Through
<1>6. buf' = <<>> /\ bus' = <<>>
  <2>1. sent = <<>>
    BY <1>5 DEF Undamaged
  <2>2. Len(sent') = 0
    BY <1>1, <2>1, EmptySeq
  <2>3. Len(fwd') + Len(buf') + Len(bus') = Len(sent')
    BY <1>1 DEF OrderInv, Whole
  <2>4. /\ buf' \in Seq(Cell) /\ bus' \in Seq(Cell)
        /\ Len(fwd') \in Nat /\ Len(buf') \in Nat /\ Len(bus') \in Nat
    BY LenProperties DEF TypeOK
  <2>5. Len(buf') = 0 /\ Len(bus') = 0
    BY <2>2, <2>3, <2>4
  <2> QED
    BY <2>4, <2>5, EmptySeq
<1>7. Unread' = <<>> /\ LastAsked' = LastAsked
  BY <1>1, <1>6 DEF Unread, LastAsked
<1>8. Going'
  <2>1. Len(atDev') + Len(ctl') <= 8
    BY <1>1, <1>2, <1>3, <1>4, <1>5 DEF Going
  <2>2. ASSUME Len(atDev') + Len(ctl') = 8
        PROVE  asked' # <<>> /\ atDev' \o ctl' = RequestFrame(LastAsked'.req)
    <3>1. Len(ctl) = 8 /\ k = 0
      BY <1>1, <1>2, <1>3, <1>4, <1>5, <2>2 DEF Going
    <3>2. SubSeq(ctl, 1, k) = <<>>
      BY <1>4, <3>1, EmptySeq
    <3>3. ctl' = ctl
      BY <1>4, <3>2, ConcatEmptySeq
    <3>4. Len(atDev) + Len(ctl) = 8
      BY <1>5, <3>1
    <3> QED
      BY <1>1, <1>5, <1>7, <3>3, <3>4 DEF Going
  <2> QED
    BY <2>1, <2>2 DEF Going
<1>9. OneWay' /\ Back' /\ Expected'
  BY <1>1, <1>5, <1>6, <1>7 DEF OneWay, Back, Expected
<1>10. Through'
  BY <1>1, <1>5, <1>6 DEF Through
<1> QED
  BY <1>8, <1>9, <1>10 DEF Lock

\* A chunk goes to the device at once, and the request is parsed when it is whole.
LEMMA LockReadController ==
    ASSUME TypeOK, TypeOK', PlaceInv, Lock, Undamaged, STREAM >= 15,
           NEW c \in Chunks, ReadController(c)
    PROVE  Lock'
<1> DEFINE k == Least(c, Len(ctl))
           g == SubSeq(ctl, 1, k)
<1>1. /\ ph = "loop" /\ ph' = "up" /\ ctl' = Drop(ctl, k) /\ atDev' = atDev \o g
      /\ UNCHANGED <<bus, buf, slot, asked, sent, replies, fwd>>
  BY DEF ReadController, env
<1>2. /\ ctl \in Seq(Cell) /\ atDev \in Seq(Cell) /\ Len(ctl) \in Nat /\ Len(atDev) \in Nat
      /\ ctl' \in Seq(Cell) /\ atDev' \in Seq(Cell) /\ Len(ctl') \in Nat /\ Len(atDev') \in Nat
  BY LenProperties DEF TypeOK
<1>3. k \in 0 .. Len(ctl)
  BY <1>2, ReadTypes
<1> HIDE DEF k
<1>4. /\ g \o ctl' = ctl /\ g \in Seq(Cell) /\ Len(g) = k /\ Len(ctl') = Len(ctl) - k
  BY <1>1, <1>2, <1>3, Cut
<1> HIDE DEF g
<1>5. atDev' \o ctl' = atDev \o ctl
  <2>1. (atDev \o g) \o ctl' = atDev \o (g \o ctl')
    <3>1. atDev \in Seq(Cell) /\ g \in Seq(Cell) /\ ctl' \in Seq(Cell)
      BY <1>2, <1>4
    <3> QED
      BY <3>1, Regroup, ZenonT(30)
  <2> QED
    BY <1>1, <1>4, <2>1
<1>6. Len(atDev') + Len(ctl') = Len(atDev) + Len(ctl)
  <2>1. Len(atDev') = Len(atDev) + Len(g)
    BY <1>1, <1>2, <1>4, Joined
  <2> QED
    BY <1>2, <1>3, <1>4, <2>1
<1>7. /\ Going /\ OneWay /\ Back /\ Expected /\ Through
      /\ Unread' = Unread /\ LastAsked' = LastAsked /\ LastReply' = LastReply
  BY <1>1 DEF Lock, Unread, LastAsked, LastReply
<1>8. Going'
  BY <1>1, <1>5, <1>6, <1>7 DEF Going
<1>9. OneWay'
  <2>1. (atDev' \o ctl' = <<>> <=> atDev' = <<>> /\ ctl' = <<>>)
        /\ (atDev \o ctl = <<>> <=> atDev = <<>> /\ ctl = <<>>)
    BY <1>2, JoinedEmpty
  <2> QED
    BY <1>1, <1>5, <1>7, <2>1 DEF OneWay
<1>10. Back'
  BY <1>1, <1>7 DEF Back, Shaped
<1>11. Expected'
  <2> SUFFICES ASSUME asked' # <<>>, LastAsked'.req.fn = 3, Len(atDev') = 8 \/ Unread' # <<>>
               PROVE  slot' = LastAsked'.req \/ (ph' = "up" /\ AtEnd')
    BY DEF Expected
  <2>1. asked # <<>> /\ LastAsked.req.fn = 3
    BY <1>1, <1>7
  <2>2. CASE Unread # <<>>
    <3>1. slot = LastAsked.req
      BY <1>1, <1>7, <2>1, <2>2 DEF Expected
    <3> QED
      BY <1>1, <1>7, <3>1
  <2>3. CASE Len(atDev') = 8 /\ ctl = <<>>
    <3>1. Len(ctl) = 0
      BY <2>3, EmptySeq
    <3>2. Len(atDev) = 8
      BY <1>2, <1>3, <1>4, <1>6, <2>3, <3>1
    <3>3. slot = LastAsked.req
      BY <1>1, <1>7, <2>1, <3>2 DEF Expected
    <3> QED
      BY <1>1, <1>7, <3>3
  <2>4. CASE Len(atDev') = 8 /\ ctl # <<>>
    <3>1. Len(ctl') = 0
      BY <1>2, <1>6, <1>7, <2>4 DEF Going
    <3>2. ctl' = <<>>
      BY <1>2, <3>1, EmptySeq
    <3>3. ReadAsked
      BY <2>1, LastIs DEF PlaceInv
    <3>4. Coming
      BY <2>4, <3>3 DEF Coming
    <3>5. AtEnd'
      BY <3>2, <3>4, PlaceReadController
    <3> QED
      BY <1>1, <3>5
  <2> QED
    BY <1>7, <2>2, <2>3, <2>4
<1>12. Through'
  BY <1>1, <1>7 DEF Through
<1> QED
  BY <1>8, <1>9, <1>10, <1>11, <1>12 DEF Lock

\* An answer fits in the buffer.
LEMMA AnswerFits ==
    ASSUME TypeOK, Lock, Roomy, ph # "stopped" PROVE Len(buf) + Len(bus) <= STREAM
<1>1. Len(Unread) = Len(buf) + Len(bus) /\ Len(Unread) \in Nat /\ Unread \in Seq(Cell)
  BY UnreadType, LenProperties
<1>2. STREAM \in Nat /\ STREAM >= 15
  BY BufferAssumption DEF Roomy
<1>3. CASE Unread = <<>>
  BY <1>1, <1>2, <1>3, EmptySeq
<1>4. CASE Unread # <<>>
  <2>1. LastReply.req \in Requests /\ Shaped(Unread, LastReply)
    BY <1>4 DEF Lock, Back
  <2>2. 2 * LastReply.req.count + 5 <= STREAM
    BY <2>1 DEF Roomy
  <2>3. Len(Unread) = 2 * LastReply.req.count + 5 \/ Len(Unread) = 8 \/ Len(Unread) = 5
    BY <2>1 DEF Shaped
  <2>4. Len(Unread) <= STREAM
    BY <1>1, <1>2, <2>2, <2>3
  <2> QED
    BY <1>1, <2>4
<1> QED
  BY <1>3, <1>4

\* So a read from the bus makes no room.
LEMMA ReadBusFits ==
    ASSUME TypeOK, Lock, Roomy, NEW c \in Chunks, ReadBus(c)
    PROVE  fwd' = fwd /\ Unread' = Unread
<1> DEFINE k == Least(c, Len(bus))
           g == SubSeq(bus, 1, k)
           over == Len(buf) + k - STREAM
           n == IF over > 0 THEN over ELSE 0
<1>1. /\ ph = "loop" /\ ph' = "down" /\ bus' = Drop(bus, k)
      /\ fwd' = fwd \o SubSeq(buf, 1, n) /\ buf' = Drop(buf, n) \o g
      /\ UNCHANGED <<ctl, atDev, slot, asked, sent, replies>>
  BY DEF ReadBus, env
<1>2. /\ buf \in Seq(Cell) /\ bus \in Seq(Cell) /\ Len(buf) \in Nat /\ Len(bus) \in Nat
      /\ fwd \in Seq(Cell) /\ STREAM \in Nat
  BY LenProperties, BufferAssumption DEF TypeOK
<1>3. k \in 0 .. Len(bus)
  BY <1>2, ReadTypes
<1>4. Len(buf) + Len(bus) <= STREAM
  BY <1>1, AnswerFits
<1> HIDE DEF k
<1>5. n = 0
  BY <1>2, <1>3, <1>4
<1> HIDE DEF n
<1>6. /\ g \o bus' = bus /\ g \in Seq(Cell) /\ bus' \in Seq(Cell)
  BY <1>1, <1>2, <1>3, Cut
<1> HIDE DEF g
<1>7. SubSeq(buf, 1, n) = <<>> /\ Drop(buf, n) = buf
  <2>1. /\ SubSeq(buf, 1, n) \in Seq(Cell) /\ Len(SubSeq(buf, 1, n)) = n
        /\ Drop(buf, n) \in Seq(Cell) /\ SubSeq(buf, 1, n) \o Drop(buf, n) = buf
    <3>1. n \in 0 .. Len(buf)
      BY <1>2, <1>5
    <3> QED
      BY <1>2, <3>1, Cut
  <2>2. SubSeq(buf, 1, n) = <<>>
    BY <1>5, <2>1, EmptySeq
  <2> QED
    BY <2>1, <2>2, ConcatEmptySeq
<1>8. fwd' = fwd /\ buf' = buf \o g
  <2>1. fwd \o <<>> = fwd
    BY <1>2, ConcatEmptySeq
  <2> QED
    BY <1>1, <1>7, <2>1
<1>9. Unread' = Unread
  <2>1. (buf \o g) \o bus' = buf \o (g \o bus')
    <3>1. buf \in Seq(Cell) /\ g \in Seq(Cell) /\ bus' \in Seq(Cell)
      BY <1>2, <1>6
    <3> QED
      BY <3>1, Regroup, ZenonT(30)
  <2> QED
    BY <1>6, <1>8, <2>1 DEF Unread
<1> QED
  BY <1>8, <1>9

\* Nor does one that fails in making it happen.
LEMMA RoomIsThere ==
    ASSUME TypeOK, Lock, Roomy, NEW c \in Chunks, MakingRoomFails(c) PROVE FALSE
<1> DEFINE k == Least(c, Len(bus))
<1>1. ph = "loop" /\ Len(buf) + k - STREAM > 0
  BY DEF MakingRoomFails
<1>2. /\ bus \in Seq(Cell) /\ Len(bus) \in Nat /\ Len(buf) \in Nat /\ STREAM \in Nat
  BY LenProperties, BufferAssumption DEF TypeOK
<1>3. k \in 0 .. Len(bus)
  BY <1>2, ReadTypes
<1>4. Len(buf) + Len(bus) <= STREAM
  BY <1>1, AnswerFits
<1> HIDE DEF k
<1> QED
  BY <1>1, <1>2, <1>3, <1>4

LEMMA LockReadBus ==
    ASSUME TypeOK, TypeOK', Lock, Roomy, NEW c \in Chunks, ReadBus(c) PROVE Lock'
<1>1. /\ ph = "loop" /\ ph' = "down"
      /\ UNCHANGED <<ctl, atDev, slot, asked, sent, replies>>
  BY DEF ReadBus, env
<1>2. fwd' = fwd /\ Unread' = Unread
  BY ReadBusFits
<1>3. /\ Going /\ OneWay /\ Back /\ Expected
      /\ LastAsked' = LastAsked /\ LastReply' = LastReply
  BY <1>1 DEF Lock, LastAsked, LastReply
<1>4. Going'
  BY <1>1, <1>3 DEF Going
<1>5. OneWay'
  BY <1>1, <1>2, <1>3, UnreadType DEF OneWay, Unread
<1>6. Back'
  BY <1>1, <1>2, <1>3 DEF Back, Shaped
<1>7. Expected'
  BY <1>1, <1>2, <1>3 DEF Expected
<1>8. Through'
  BY <1>1 DEF Through
<1> QED
  BY <1>4, <1>5, <1>6, <1>7, <1>8 DEF Lock

\* Once the request has left the port the proxy finds it before it goes on.
LEMMA LockScan ==
    ASSUME TypeOK, TypeOK', PlaceInv, Lock, Undamaged, ScanRequest \/ ScanSkip \/ ScanEnd
    PROVE  Lock'
<1>1. /\ ph = "up" /\ ph' \in {"up", "down", "loop"}
      /\ UNCHANGED <<ctl, bus, buf, atDev, asked, sent, replies, fwd>>
  BY DEF ScanRequest, ScanSkip, ScanEnd, env
<1>2. /\ Going /\ OneWay /\ Back /\ Expected /\ Through
      /\ Unread' = Unread /\ LastAsked' = LastAsked /\ LastReply' = LastReply
  BY <1>1 DEF Lock, Unread, LastAsked, LastReply
<1>3. Going' /\ OneWay' /\ Through'
  BY <1>1, <1>2 DEF Going, OneWay, Through
<1>4. Back'
  BY <1>1, <1>2 DEF Back, Shaped
<1>5. Expected'
  <2> SUFFICES ASSUME asked' # <<>>, LastAsked'.req.fn = 3, Len(atDev') = 8 \/ Unread' # <<>>
               PROVE  slot' = LastAsked'.req \/ (ph' = "up" /\ AtEnd')
    BY DEF Expected
  <2>1. asked # <<>> /\ LastAsked.req.fn = 3 /\ (Len(atDev) = 8 \/ Unread # <<>>)
    BY <1>1, <1>2
  <2>2. slot = LastAsked.req \/ AtEnd
    BY <1>2, <2>1 DEF Expected
  <2>3. CASE ScanRequest
    <3>1. ctl = <<>>
      <4>1. CASE Unread # <<>>
        BY <1>2, <4>1, UnreadType DEF OneWay
      <4>2. CASE Len(atDev) = 8
        <5>1. ctl \in Seq(Cell) /\ Len(ctl) \in Nat
          BY LenProperties DEF TypeOK
        <5>2. Len(ctl) = 0
          BY <1>2, <4>2, <5>1 DEF Going
        <5> QED
          BY <5>1, <5>2, EmptySeq
      <4> QED
        BY <2>1, <4>1, <4>2
    <3>2. IsReadRequest(up) /\ slot' = HeadRequest(up) /\ up \in Seq(Cell) /\ Len(up) \in Nat
      BY <2>3, LenProperties DEF ScanRequest, TypeOK
    <3>3. Len(up) >= 8 /\ Drop(up, 0) = up
      BY <3>2, SubSeqFull DEF IsReadRequest, Drop
    <3>4. 0 \in 0 .. Len(up) - 8
      BY <3>2, <3>3
    <3>5. HeadRequest(up) = Latest
      BY <1>1, <3>1, <3>2, <3>3, <3>4 DEF PlaceInv, OneRequest, Coming
    <3>6. Latest = LastAsked.req
      BY <2>1, LastIs DEF PlaceInv
    <3> QED
      BY <1>2, <3>2, <3>5, <3>6
  <2>4. CASE ScanSkip
    <3>1. slot' = slot /\ ph' = "up"
      BY <2>4 DEF ScanSkip
    <3>2. AtEnd => AtEnd'
      BY <2>4, PlaceScanSkip
    <3> QED
      BY <1>2, <2>2, <3>1, <3>2
  <2>5. CASE ScanEnd
    <3>1. slot' = slot /\ Len(up) < 8 /\ Len(up) \in Nat
      BY <2>5, LenProperties DEF ScanEnd, TypeOK
    <3>2. ~AtEnd
      BY <3>1 DEF AtEnd
    <3> QED
      BY <1>2, <2>2, <3>1, <3>2
  <2> QED
    BY <2>3, <2>4, <2>5
<1> QED
  BY <1>3, <1>4, <1>5 DEF Lock

\* The device answers the request that it has got.
LEMMA LockAnswers ==
    ASSUME TypeOK, TypeOK', asked \in Seq(Asking), replies \in Seq(ReplyRecord), OrderInv,
           Lock, Undamaged, Undamaged', DeviceAnswers
    PROVE  Lock'
<1>1. /\ atDev # <<>> /\ ctl = <<>> /\ ph # "stopped" /\ atDev' = <<>>
      /\ UNCHANGED <<ph, ctl, buf, slot, up, asked, fwd>>
  BY DEF DeviceAnswers
<1>2. /\ ph # "detect" /\ Going /\ OneWay /\ Expected /\ buf = <<>> /\ bus = <<>>
      /\ LastAsked' = LastAsked /\ Latest' = Latest
  BY <1>1, LatestSame DEF OrderInv, Lock, OneWay, LastAsked
<1>3. Len(atDev') = 0 /\ Len(ctl') = 0
  BY <1>1, EmptySeq
<1>4. Going' /\ OneWay' /\ Through'
  BY <1>1, <1>2, <1>3 DEF Going, OneWay, Through
<1>5. CASE UNCHANGED <<bus, sent, replies>>
  <2>1. Unread' = <<>>
    BY <1>1, <1>2, <1>5 DEF Unread
  <2> QED
    BY <1>3, <1>4, <2>1 DEF Lock, Back, Expected
<1>6. ASSUME NEW r \in Requests, NEW how \in Damage, atDev = RequestFrame(r),
             NEW f, NEW data \in BOOLEAN, Sends(r, f, how, data),
             r.fn \in {3, 6} => \A k : k.req = r /\ k.data = data => Shaped(f, k)
      PROVE  Lock'
  <2>0. r \in Request
    BY ByteAssumption
  <2>1. asked # <<>> /\ RequestFrame(LastAsked.req) = RequestFrame(r)
    <3>1. atDev \o ctl = atDev /\ Len(atDev) = 8 /\ Len(ctl) = 0
      BY <1>1, <1>6, <2>0, RequestCells, ConcatEmptySeq, EmptySeq
    <3>2. Len(atDev) + Len(ctl) = 8
      BY <3>1
    <3> QED
      BY <1>2, <1>6, <3>1, <3>2 DEF Going
  <2>2. LastAsked.req \in Request /\ LastAsked.req.fn \in {3, 6}
    BY <2>1, LastIs
  <2>3. LastAsked.req = r
    BY <2>0, <2>1, <2>2, RequestAlike
  <2> DEFINE k == [at |-> Len(sent), len |-> Len(Damaged(f, how)), req |-> r,
                   intact |-> how = "none", data |-> data]
             t == replies'
  <2>4. bus' = bus \o Damaged(f, how) /\ t = Append(replies, k)
    BY <1>6 DEF Sends
  <2>5. k.at = Len(sent) /\ k.len = Len(Damaged(f, how)) /\ k.req = r /\ (k.intact <=> how = "none") /\ k.data = data
    OBVIOUS
  <2> HIDE DEF k
  <2>6. t # <<>> /\ t[Len(t)] = k /\ Len(t) \in DOMAIN t
    <3>0. t = Append(replies, k)
      BY <2>4
    <3> HIDE DEF t
    <3>1. /\ Len(replies) \in Nat /\ Len(t) = Len(replies) + 1 /\ t # <<>>
          /\ DOMAIN t = 1 .. Len(t) /\ t[Len(t)] = k
      BY <3>0, OneMore
    <3> QED
      BY <3>1
  <2>7. LastReply' = k /\ k.intact /\ replies' # <<>>
    BY <2>6 DEF LastReply, Undamaged
  <2>8. Damaged(f, how) = f /\ Shaped(f, k) /\ f \in Seq(Cell)
    BY <1>6, <2>2, <2>3, <2>5, <2>7 DEF Damaged, Shaped
  <2>9. Unread' = f
    <3>1. <<>> \o f = f
      BY <2>8, ConcatEmptySeq
    <3> QED
      BY <1>1, <1>2, <2>4, <2>8, <3>1 DEF Unread
  <2>10. Len(fwd) = Len(sent)
    <3>1. Len(fwd) + Len(buf) + Len(bus) = Len(sent)
      BY <1>1 DEF OrderInv, Whole
    <3>2. Len(buf) = 0 /\ Len(bus) = 0 /\ Len(fwd) \in Nat /\ Len(sent) \in Nat
      BY <1>2, EmptySeq, LenProperties DEF TypeOK
    <3> QED
      BY <3>1, <3>2
  <2>11. Back'
    <3>1. LastReply'.req = LastAsked'.req /\ LastReply'.req \in Requests
      BY <1>2, <2>3, <2>5, <2>7
    <3>2. LastReply'.at = Len(fwd') /\ LastReply'.len = Len(Unread')
      BY <1>1, <2>5, <2>7, <2>8, <2>9, <2>10
    <3>3. Shaped(Unread', LastReply')
      BY <2>7, <2>8, <2>9
    <3> QED
      BY <1>1, <2>1, <2>7, <3>1, <3>2, <3>3 DEF Back, Shaped
  <2>12. Expected'
    <3>1. Len(atDev) = 8
      BY <1>6, <2>0, RequestCells
    <3>2. LastAsked.req.fn = 3 => slot = LastAsked.req \/ (ph = "up" /\ AtEnd)
      BY <1>2, <2>1, <3>1 DEF Expected
    <3>3. AtEnd' <=> AtEnd
      BY <1>1, <1>2 DEF AtEnd
    <3> QED
      BY <1>1, <1>2, <3>2, <3>3 DEF Expected
  <2> QED
    BY <1>4, <2>11, <2>12 DEF Lock
<1>7. ASSUME NEW r \in Requests, NEW how \in Damage, atDev = RequestFrame(r),
             Sends(r, ReplyFrame(r, RegisterBytes(r.count)), how, r.fn # 6)
      PROVE  Lock'
  <2> DEFINE f == ReplyFrame(r, RegisterBytes(r.count))
             data == r.fn # 6
  <2>1. data \in BOOLEAN /\ Sends(r, f, how, data)
    BY <1>7
  <2>2. ASSUME r.fn \in {3, 6}, NEW k, k.req = r, k.data = data PROVE Shaped(f, k)
    <3>1. (r.fn = 3 /\ k.data) \/ (r.fn = 6 /\ ~k.data)
      BY <2>2
    <3> QED
      BY <2>2, <3>1, AnswerShape
  <2> HIDE DEF f, data
  <2> QED
    BY <1>6, <1>7, <2>1, <2>2
<1>8. ASSUME NEW r \in Requests, NEW how \in Damage, atDev = RequestFrame(r),
             Sends(r, ExceptionFrame(r), how, FALSE)
      PROVE  Lock'
  <2> DEFINE f == ExceptionFrame(r)
             data == FALSE
  <2>1. data \in BOOLEAN /\ Sends(r, f, how, data)
    BY <1>8
  <2>2. ASSUME NEW k, k.req = r, k.data = data PROVE Shaped(f, k)
    BY <2>2, AnswerShape
  <2> HIDE DEF f, data
  <2> QED
    BY <1>6, <1>8, <2>1, <2>2
<1>9. \/ UNCHANGED <<bus, sent, replies>>
      \/ \E r \in Requests, how \in Damage :
            /\ atDev = RequestFrame(r)
            /\ \/ Sends(r, ReplyFrame(r, RegisterBytes(r.count)), how, r.fn # 6)
               \/ Sends(r, ExceptionFrame(r), how, FALSE)
  BY DEF DeviceAnswers
<1> QED
  BY <1>5, <1>7, <1>8, <1>9

\* When the proxy does not wait for more it has the whole answer to the request.
LEMMA WholeAnswer ==
    ASSUME TypeOK, asked \in Seq(Asking), Lock, ph = "down", buf # <<>>,
           ~NeedMore(buf) \/ bus = <<>>
    PROVE  /\ replies # <<>> /\ LastReply.req \in Requests /\ LastReply.req \in Request
           /\ LastReply.at = Len(fwd) /\ LastReply.len = Len(buf)
           /\ Shaped(buf, LastReply) /\ bus = <<>>
           /\ LastReply.data => slot = LastReply.req
           /\ FrameHere(buf) /\ ResponseLen(buf) = Len(buf) /\ ~NeedMore(buf)
           /\ IsRead(buf) <=> LastReply.data
<1>0. /\ buf \in Seq(Cell) /\ bus \in Seq(Cell) /\ Len(buf) \in Nat /\ Len(bus) \in Nat
      /\ Unread \in Seq(Cell) /\ Len(Unread) = Len(buf) + Len(bus) /\ Unread # <<>>
  BY UnreadType
<1>1. /\ replies # <<>> /\ asked # <<>> /\ LastReply.req = LastAsked.req
      /\ LastReply.req \in Requests /\ LastReply.req \in Request
      /\ LastReply.at = Len(fwd) /\ LastReply.len = Len(Unread)
      /\ Shaped(Unread, LastReply)
  BY <1>0, ByteAssumption DEF Lock, Back
<1>2. LastReply.data => slot = LastReply.req
  BY <1>0, <1>1 DEF Lock, Expected, Shaped
<1>3. \A p \in 1 .. Len(buf) : buf[p] = Unread[p]
  BY <1>0, Joined DEF Unread
<1>4. Len(buf) >= 4
  <2>1. CASE ~NeedMore(buf)
    BY <1>0, <2>1 DEF NeedMore
  <2>2. CASE bus = <<>>
    <3>1. Len(bus) = 0
      BY <2>2, EmptySeq
    <3>2. Len(Unread) >= 5
      <4> DEFINE c == LastReply.req.count
      <4>1. c \in 1 .. 125 /\ (Len(Unread) = 2 * c + 5 \/ Len(Unread) = 8 \/ Len(Unread) = 5)
        BY <1>1, RequestParts DEF Shaped
      <4> HIDE DEF c
      <4> QED
        BY <1>0, <4>1
    <3> QED
      BY <1>0, <3>1, <3>2
  <2> QED
    BY <2>1, <2>2
<1>5. /\ ResponseLen(buf) = Len(Unread) /\ (IsRead(buf) <=> LastReply.data)
      /\ FrameHere(buf) <=> Len(buf) = Len(Unread)
      /\ NeedMore(buf) <=> Len(buf) < Len(Unread)
  <2>1. Len(buf) <= Len(Unread)
    BY <1>0
  <2> DEFINE g == Unread
             k == LastReply
             b == buf
  <2>2. /\ k.req \in Request /\ Shaped(g, k) /\ (k.data => slot = k.req)
        /\ b \in Seq(Cell) /\ Len(b) >= 4 /\ Len(b) <= Len(g)
        /\ \A p \in 1 .. Len(b) : b[p] = g[p]
    BY <1>0, <1>1, <1>2, <1>3, <1>4, <2>1
  <2> HIDE DEF g, k, b
  <2>3. /\ ResponseLen(b) = Len(g) /\ (IsRead(b) <=> k.data)
        /\ FrameHere(b) <=> Len(b) = Len(g)
        /\ NeedMore(b) <=> Len(b) < Len(g)
    BY <2>2, HeadOfAnswer
  <2> QED
    BY <2>3 DEF g, k, b
<1>6. bus = <<>>
  <2>1. ASSUME ~NeedMore(buf) PROVE Len(bus) = 0
    BY <1>0, <1>5, <2>1
  <2> QED
    BY <1>0, <2>1, EmptySeq
<1>7. Unread = buf
  BY <1>0, <1>6, ConcatEmptySeq DEF Unread
<1>8. FrameHere(buf) /\ ResponseLen(buf) = Len(buf) /\ ~NeedMore(buf)
  BY <1>0, <1>5, <1>7
<1> QED
  BY <1>1, <1>2, <1>5, <1>6, <1>7, <1>8

\* A whole answer in the buffer goes out at once, with the registers that are
\* overridden if it has some.
LEMMA WholeGoes ==
    ASSUME TypeOK, ~NeedMore(buf), FrameHere(buf), ResponseLen(buf) = Len(buf)
    PROVE  /\ Outgoing(buf) = IF IsRead(buf) THEN Overridden(buf, slot) ELSE buf
           /\ Len(Outgoing(buf)) = Len(buf)
<1>1. buf \in Seq(Cell) /\ Len(buf) \in Nat /\ Len(buf) >= 4
  BY LenProperties DEF TypeOK, NeedMore
<1>2. SubSeq(buf, 1, ResponseLen(buf)) = buf
  BY <1>1, SubSeqFull
<1>3. Outgoing(buf) = IF IsRead(buf) THEN Overridden(buf, slot) ELSE buf
  BY <1>2 DEF Outgoing
<1>4. Len(Overridden(buf, slot)) = Len(buf)
  <2>1. Len(buf) >= 2 /\ ovr \in [DOMAIN ovr -> Byte \X Byte]
    BY <1>1 DEF TypeOK
  <2> QED
    BY <1>1, <2>1, OverriddenType
<1> QED
  BY <1>3, <1>4

LEMMA LockForward ==
    ASSUME TypeOK, TypeOK', asked \in Seq(Asking), Lock, Forward \/ ForwardEnd
    PROVE  Lock'
<1>1. /\ ph = "down" /\ ph' \in {"down", "loop"}
      /\ UNCHANGED <<ctl, bus, up, atDev, asked, replies>>
  BY DEF Forward, ForwardEnd, env
<1>2. Going /\ OneWay /\ Expected /\ LastAsked' = LastAsked /\ LastReply' = LastReply
  BY <1>1 DEF Lock, LastAsked, LastReply
<1>3. Going'
  BY <1>1, <1>2 DEF Going
<1>4. CASE ForwardEnd
  <2>1. NeedMore(buf) /\ UNCHANGED <<buf, slot, fwd>>
    BY <1>4 DEF ForwardEnd
  <2>2. Unread' = Unread /\ Back
    BY <1>1, <2>1 DEF Unread, Lock
  <2>3. Back' /\ OneWay' /\ Expected'
    BY <1>1, <1>2, <2>1, <2>2 DEF Back, OneWay, Expected, Shaped
  <2>4. buf # <<>> => bus # <<>>
    BY <1>1, <2>1, WholeAnswer
  <2>5. Through'
    BY <1>1, <2>1, <2>4, <1>4 DEF Through, ForwardEnd
  <2> QED
    BY <1>3, <2>3, <2>5 DEF Lock
<1>5. CASE Forward
  <2>1. /\ ~NeedMore(buf) /\ buf' = Drop(buf, Len(Outgoing(buf))) /\ ph' = "down"
        /\ buf \in Seq(Cell) /\ Len(buf) \in Nat /\ Len(buf) >= 4
    BY <1>1, <1>5, LenProperties DEF Forward, NeedMore, TypeOK
  <2>2. buf # <<>>
    BY <2>1, EmptySeq
  <2>3. bus = <<>> /\ FrameHere(buf) /\ ResponseLen(buf) = Len(buf) /\ Shaped(buf, LastReply)
    BY <1>1, <2>1, <2>2, WholeAnswer
  <2>4. Len(Outgoing(buf)) = Len(buf)
    BY <2>1, <2>3, WholeGoes
  <2>5. buf' = <<>>
    <3>1. Len(Drop(buf, Len(buf))) = Len(buf) - Len(buf)
      <4>1. Len(buf) \in 0 .. Len(buf)
        BY <2>1
      <4> QED
        BY <2>1, <4>1, Cut
    <3>2. Len(buf') = 0
      BY <2>1, <2>4, <3>1
    <3> QED
      BY <3>2, EmptySeq DEF TypeOK
  <2>6. Unread' = <<>>
    BY <1>1, <2>3, <2>5 DEF Unread
  <2>7. atDev = <<>> /\ ctl = <<>>
    BY <1>2, <2>2 DEF OneWay
  <2>8. Len(atDev') = 0
    BY <1>1, <2>7, EmptySeq
  <2>9. OneWay' /\ Back' /\ Expected' /\ Through'
    BY <1>1, <2>1, <2>5, <2>6, <2>7, <2>8 DEF OneWay, Back, Expected, Through
  <2> QED
    BY <1>3, <2>9 DEF Lock
<1> QED
  BY <1>4, <1>5

\* Every step keeps question and answer in turn as long as nothing is damaged.
LEMMA AnswerStep ==
    ASSUME Roomy, TypeOK, OrderInv, CrcInv, AnswerInv, [Next]_vars
    PROVE  AnswerInv'
<1>0. TypeOK' /\ OrderInv' /\ replies \in Seq(ReplyRecord) /\ asked \in Seq(Asking) /\ STREAM >= 15
  BY TypeStep, OrderStep DEF CrcInv, Framed, AnswerInv, Roomy
<1>1. asked' \in Seq(Asking)
  <2>1. CASE ControllerAsks
    BY <1>0, <2>1, NextAsked
  <2>2. CASE UNCHANGED asked
    BY <1>0, <2>2
  <2> QED
    BY <2>1, <2>2
    DEF Next, Proxy, DeviceAnswers, DetectRead, Poll, ReadController, ReadBus, MakingRoomFails, ScanRequest,
        ScanSkip, ScanEnd, Forward, ForwardEnd, ForwardFails, SetOverride, ClearOverride, Stop, vars, env
<1> SUFFICES ASSUME Undamaged' PROVE (PlaceInv /\ Lock)'
  BY <1>1 DEF AnswerInv
<1>2. Undamaged /\ PlaceInv /\ Lock
  BY <1>0, UndamagedBefore DEF AnswerInv
<1>3. PlaceInv'
  <2>1. AllIntact'
    BY DEF Undamaged, AllIntact
  <2> QED
    BY <1>0, <1>2, <2>1, PlaceStep
<1>4. CASE ControllerAsks
  BY <1>0, <1>2, <1>3, <1>4, LockAsks
<1>5. CASE DeviceAnswers
  BY <1>0, <1>2, <1>3, <1>5, LockAnswers
<1>6. ASSUME NEW c \in Chunks, NEW d \in Chunks, DetectRead(c, d) PROVE Lock'
  BY <1>0, <1>2, <1>6, LockDetectRead
<1>7. ASSUME NEW c \in Chunks, ReadController(c) PROVE Lock'
  BY <1>0, <1>2, <1>7, LockReadController
<1>8. ASSUME NEW c \in Chunks, ReadBus(c) PROVE Lock'
  BY <1>0, <1>2, <1>8, LockReadBus
<1>9. CASE ScanRequest \/ ScanSkip \/ ScanEnd
  BY <1>0, <1>2, <1>3, <1>9, LockScan
<1>10. CASE Forward \/ ForwardEnd
  BY <1>0, <1>2, <1>3, <1>10, LockForward
<1>11. CASE ForwardFails
  BY <1>3, <1>11 DEF ForwardFails, Lock
<1>17. ASSUME NEW c \in Chunks, MakingRoomFails(c) PROVE Lock'
  BY <1>3, <1>17 DEF MakingRoomFails, Lock
<1>12. CASE Poll
  BY <1>2, <1>3, <1>12, LockUnchanged DEF Poll, env
<1>13. ASSUME NEW o \in Typed, SetOverride(o) PROVE Lock'
  BY <1>2, <1>13, LockUnchanged DEF SetOverride, env
<1>14. ASSUME NEW key \in DOMAIN ovr, ClearOverride(key) PROVE Lock'
  BY <1>2, <1>14, LockUnchanged DEF ClearOverride, env
<1>15. CASE Stop
  BY <1>2, <1>3, <1>15, LockUnchanged DEF Stop, env
<1>16. CASE UNCHANGED vars
  BY <1>2, <1>3, <1>16, LockUnchanged DEF vars, env
<1> QED
  BY <1>3, <1>4, <1>5, <1>6, <1>7, <1>8, <1>9, <1>10, <1>11, <1>12, <1>13, <1>14, <1>15, <1>16, <1>17
  DEF Next, Proxy

LEMMA AnswerInit == ASSUME Init PROVE AnswerInv
  BY LockInit, PlaceInit DEF AnswerInv

\* On a line that damages nothing, when the controller waits for each answer, the
\* proxy holds nothing back between frames, however the bytes are cut into reads.
THEOREM NothingKept ==
    ASSUME Roomy PROVE Spec => []HeldBackOnlyIfDamaged
<1> DEFINE Inv == TypeOK /\ OrderInv /\ CrcInv /\ AnswerInv
<1>1. Init => Inv
  BY TypeInit, OrderInit, CrcInit, AnswerInit
<1>2. Inv /\ [Next]_vars => Inv'
  BY TypeStep, OrderStep, CrcStep, AnswerStep
<1>3. Inv => HeldBackOnlyIfDamaged
  <2> SUFFICES ASSUME Inv, Undamaged, ph = "loop", bus = <<>> PROVE buf = <<>>
    BY DEF HeldBackOnlyIfDamaged, NothingHeldBack
  <2>1. Through
    BY DEF AnswerInv, Lock
  <2> QED
    BY <2>1 DEF Through
<1> QED
  BY <1>1, <1>2, <1>3, PTL DEF Spec

-----------------------------------------------------------------------------
(* The overrides in a reply. *)

\* No request runs past the last register.
InRange == \A r \in Requests : r.start + r.count <= 65536

\* The address of a register in range is the sum of two numbers.
LEMMA NoWrap ==
    ASSUME NEW x \in Nat, NEW y \in Nat, NEW z \in Nat, y < z, x + z <= 65536
    PROVE  ((x + y) % 65536) = x + y
<1> DEFINE t == x + y
<1>1. t \in Int /\ 0 <= t /\ t < 65536
  OBVIOUS
<1> HIDE DEF t
<1>2. (t % 65536) = t
  BY <1>1
<1> QED
  BY <1>2 DEF t

\* The two bytes of each register of a whole answer are the override's or the device's.
LEMMA OverriddenRegister ==
    ASSUME TypeOK, NEW k, k.req \in Request, k.data, k.req.start + k.req.count <= 65536,
           NEW f, Shaped(f, k), NEW n \in 0 .. k.req.count - 1
    PROVE  LET o == Overridden(f, k.req)
           IN  <<o[4 + 2 * n].v, o[5 + 2 * n].v>> =
                   IF Sent(k, n) \in DOMAIN ovr THEN ovr[Sent(k, n)] ELSE Held
<1> DEFINE r == k.req
           c == r.count
           m == Len(f) - 2
           Register(i) == <<r.dev, r.fn, (r.start + ((i - 4) \div 2)) % 65536>>
           values == [i \in 1 .. m |->
              IF i \in 4 .. 2 * c + 3 /\ Register(i) \in DOMAIN ovr
              THEN ovr[Register(i)][1 + (i % 2)] ELSE f[i].v]
           o == Overridden(f, r)
           key == Sent(k, n)
           a == 4 + 2 * n
           b == 5 + 2 * n
<1>1. /\ f \in Seq(Cell) /\ Len(f) = 2 * c + 5
      /\ \A p \in 4 .. 2 * c + 3 : f[p].v = Held[1 + (p % 2)]
  BY DEF Shaped
<1>2. c \in 1 .. 125 /\ r.start \in Nat /\ r.start + c <= 65536 /\ n \in Nat /\ n < c
  BY RequestParts DEF Word
<1>3. m = 2 * c + 3 /\ m \in Nat
  <2> DEFINE l == Len(f)
  <2>1. l = 2 * c + 5
    BY <1>1
  <2> HIDE DEF l, c
  <2>2. l - 2 = 2 * c + 3 /\ l - 2 \in Nat
    BY <1>2, <2>1
  <2> QED
    BY <2>2 DEF l
<1>4. o = IF values = ValuesOf(SubSeq(f, 1, m)) THEN f ELSE Frame(values)
  BY DEF Overridden
<1>5. ovr \in [DOMAIN ovr -> Byte \X Byte] /\ Held \in Byte \X Byte
  BY ByteAssumption DEF TypeOK
<1>6. values \in Seq(Byte) /\ Len(values) = m
  <2>1. ASSUME NEW i \in 1 .. m
        PROVE  (IF i \in 4 .. 2 * c + 3 /\ Register(i) \in DOMAIN ovr
                THEN ovr[Register(i)][1 + (i % 2)] ELSE f[i].v) \in Byte
    <3>1. f[i] \in Cell
      <4>1. i \in 1 .. Len(f)
        BY <1>1, <1>3, LenProperties
      <4> QED
        BY <1>1, <4>1, ElementOfSeq
    <3>2. f[i].v \in Byte
      BY <3>1 DEF Cell
    <3>3. ASSUME NEW x \in DOMAIN ovr PROVE ovr[x][1 + (i % 2)] \in Byte
      <4>1. ovr[x] \in Byte \X Byte
        BY <1>5
      <4>2. ovr[x][1] \in Byte /\ ovr[x][2] \in Byte
        BY <4>1
      <4>3. 1 + (i % 2) \in {1, 2}
        BY <1>3
      <4> QED
        BY <4>2, <4>3
    <3> HIDE DEF Register
    <3> QED
      BY <3>2, <3>3
  <2> HIDE DEF m
  <2>2. values \in [1 .. m -> Byte]
    BY <2>1
  <2>3. m \in Nat
    BY <1>3
  <2> HIDE DEF values
  <2>4. values \in Seq(Byte) /\ DOMAIN values = 1 .. m
    BY <2>2, <2>3
  <2> QED
    BY <2>3, <2>4, LenProperties
<1>7. \A i \in 1 .. m : o[i].v = values[i]
  <2>1. CASE values = ValuesOf(SubSeq(f, 1, m))
    <3>1. m <= Len(f)
      BY <1>1, <1>3, LenProperties
    <3>2. Len(SubSeq(f, 1, m)) = m /\ \A p \in 1 .. m : SubSeq(f, 1, m)[p] = f[p]
      <4> HIDE DEF m
      <4> QED
        BY <1>1, <1>3, <3>1, StartPart
    <3>3. \A i \in 1 .. m : values[i] = f[i].v
      <4> DEFINE u == SubSeq(f, 1, m)
      <4>1. values = ValuesOf(u) /\ Len(u) = m /\ \A p \in 1 .. m : u[p] = f[p]
        BY <2>1, <3>2
      <4> HIDE DEF values, m, u
      <4>2. ValuesOf(u) = [p \in 1 .. m |-> u[p].v]
        BY <4>1 DEF ValuesOf
      <4> QED
        BY <4>1, <4>2
    <3>4. o = f
      BY <1>4, <2>1
    <3> HIDE DEF o, values, m
    <3> QED
      BY <3>3, <3>4
  <2>2. CASE values # ValuesOf(SubSeq(f, 1, m))
    <3>1. o = Frame(values)
      BY <1>4, <2>2
    <3> HIDE DEF o, values, m
    <3>2. \A p \in 1 .. Len(values) : Frame(values)[p] = DataCell(values[p])
      BY <1>6, FrameParts
    <3>3. ASSUME NEW i \in 1 .. m PROVE o[i].v = values[i]
      <4>1. i \in 1 .. Len(values)
        BY <1>6
      <4>2. o[i] = DataCell(values[i])
        BY <3>1, <3>2, <4>1
      <4>3. DataCell(values[i]).v = values[i]
        BY DataCells
      <4> QED
        BY <4>2, <4>3
    <3> QED
      BY <3>3
  <2> HIDE DEF o, values, m
  <2> QED
    BY <2>1, <2>2
<1>8. /\ a \in 1 .. m /\ a \in 4 .. 2 * c + 3 /\ (a - 4) \div 2 = n /\ 1 + (a % 2) = 1
      /\ b \in 1 .. m /\ b \in 4 .. 2 * c + 3 /\ (b - 4) \div 2 = n /\ 1 + (b % 2) = 2
      /\ (r.start + n) % 65536 = r.start + n
  <2> HIDE DEF m, c, r
  <2>1. a \in 4 .. 2 * c + 3 /\ b \in 4 .. 2 * c + 3
    BY <1>2
  <2>2. a \in 1 .. m /\ b \in 1 .. m
    BY <1>3, <2>1, <1>2
  <2>3. (a - 4) \div 2 = n /\ (b - 4) \div 2 = n
    BY <1>2
  <2>4. 1 + (a % 2) = 1 /\ 1 + (b % 2) = 2
    BY <1>2
  <2>5. (r.start + n) % 65536 = r.start + n
    <3> DEFINE x == r.start
    <3>1. x \in Nat /\ n \in Nat /\ c \in Nat /\ n < c /\ x + c <= 65536
      BY <1>2
    <3> HIDE DEF x
    <3>2. ((x + n) % 65536) = x + n
      BY <3>1, NoWrap
    <3> QED
      BY <3>2 DEF x
  <2> QED
    BY <2>1, <2>2, <2>3, <2>4, <2>5
<1>9. Register(a) = key /\ Register(b) = key
  BY <1>8 DEF Sent
<1>10. /\ values[a] = IF key \in DOMAIN ovr THEN ovr[key][1] ELSE f[a].v
       /\ values[b] = IF key \in DOMAIN ovr THEN ovr[key][2] ELSE f[b].v
  <2> HIDE DEF a, b, key, m, c, Register
  <2>1. /\ values[a] = IF Register(a) \in DOMAIN ovr THEN ovr[Register(a)][1 + (a % 2)] ELSE f[a].v
        /\ values[b] = IF Register(b) \in DOMAIN ovr THEN ovr[Register(b)][1 + (b % 2)] ELSE f[b].v
    BY <1>8
  <2> QED
    BY <1>8, <1>9, <2>1
<1> HIDE DEF values, a, b, key, m, c, o
<1>11. f[a].v = Held[1] /\ f[b].v = Held[2]
  <2>1. 1 + (a % 2) = 1 /\ 1 + (b % 2) = 2 /\ a \in 4 .. 2 * c + 3 /\ b \in 4 .. 2 * c + 3
    BY <1>8
  <2>2. \A p \in 4 .. 2 * c + 3 : f[p].v = Held[1 + (p % 2)]
    BY <1>1
  <2>3. f[a].v = Held[1 + (a % 2)] /\ f[b].v = Held[1 + (b % 2)]
    BY <2>1, <2>2
  <2> QED
    BY <2>1, <2>3
<1>12. o[a].v = values[a] /\ o[b].v = values[b]
  BY <1>7, <1>8
<1>13. <<o[a].v, o[b].v>> = IF key \in DOMAIN ovr THEN ovr[key] ELSE Held
  <2>1. CASE key \in DOMAIN ovr
    <3>1. ovr[key] \in Byte \X Byte
      BY <1>5, <2>1
    <3>2. ovr[key] = <<ovr[key][1], ovr[key][2]>>
      BY <3>1
    <3> QED
      BY <1>10, <1>12, <2>1, <3>2
  <2>2. CASE key \notin DOMAIN ovr
    <3>1. Held = <<Held[1], Held[2]>>
      BY <1>5
    <3> QED
      BY <1>10, <1>11, <1>12, <2>2, <3>1
  <2> QED
    BY <2>1, <2>2
<1> QED
  BY <1>13 DEF a, b, key, o

\* Only the answer that the proxy has whole can end with what it writes.
LEMMA OnlyTheLast ==
    ASSUME TypeOK, OrderInv, CrcInv, asked \in Seq(Asking), Lock,
           ph = "down", ~NeedMore(buf), NEW i \in DOMAIN replies,
           Len(fwd) < replies[i].at + replies[i].len
    PROVE  /\ replies[i] = LastReply /\ replies[i].at + replies[i].len = Len(fwd) + Len(buf)
           /\ replies[i].at = Len(fwd)
<1>1. /\ buf \in Seq(Cell) /\ Len(buf) \in Nat /\ Len(buf) >= 4 /\ buf # <<>>
      /\ Len(fwd) \in Nat /\ Len(bus) \in Nat /\ Len(sent) \in Nat
  <2>1. buf \in Seq(Cell) /\ Len(buf) >= 4
    BY DEF TypeOK, NeedMore
  <2> QED
    BY <2>1, LenProperties, EmptySeq DEF TypeOK
<1>2. /\ replies # <<>> /\ LastReply.at = Len(fwd) /\ LastReply.len = Len(buf) /\ bus = <<>>
  BY <1>1, WholeAnswer
<1>3. Len(fwd) + Len(buf) = Len(sent)
  <2>1. Len(fwd) + Len(buf) + Len(bus) = Len(sent)
    BY DEF OrderInv, Whole
  <2>2. Len(bus) = 0
    BY <1>2, EmptySeq
  <2> QED
    BY <1>1, <2>1, <2>2
<1> DEFINE m == Len(replies)
<1>4. m \in DOMAIN replies
  <2>1. replies \in Seq(ReplyRecord)
    BY DEF CrcInv, Framed
  <2>2. m \in Nat /\ m # 0 /\ DOMAIN replies = 1 .. m
    BY <1>2, <2>1, LenProperties, EmptySeq
  <2> HIDE DEF m
  <2> QED
    BY <2>2
<1> HIDE DEF m
<1>5. /\ replies[i].at \in Nat /\ replies[i].len \in Nat /\ replies[i].len >= 4
      /\ replies[i].at + replies[i].len <= Len(sent)
  BY ReplyAt DEF CrcInv
<1>6. replies[m] = LastReply
  BY DEF m, LastReply
<1>7. i = m
  <2>1. \/ i = m
        \/ replies[i].at + replies[i].len <= LastReply.at
        \/ LastReply.at + LastReply.len <= replies[i].at
    BY <1>4, <1>6 DEF CrcInv, Framed, Apart
  <2> QED
    BY <1>1, <1>2, <1>3, <1>5, <2>1
<1> QED
  BY <1>2, <1>6, <1>7

\* What a step writes of an answer has the overrides of that moment.
LEMMA OverridesStep ==
    ASSUME Roomy, InRange, TypeOK, OrderInv, CrcInv, AnswerInv, Next, Undamaged,
           NEW i \in DOMAIN replies, replies[i].data,
           Len(fwd) < replies[i].at + replies[i].len,
           replies[i].at + replies[i].len <= Len(fwd'),
           NEW n \in 0 .. replies[i].req.count - 1
    PROVE  Got(fwd', replies[i], n) =
              IF Sent(replies[i], n) \in DOMAIN ovr THEN ovr[Sent(replies[i], n)] ELSE Held
<1> DEFINE k == replies[i]
<1>0. /\ asked \in Seq(Asking) /\ Lock /\ TypeOK' /\ fwd \in Seq(Cell) /\ Len(fwd) \in Nat
      /\ buf \in Seq(Cell) /\ Len(buf) \in Nat /\ k.at \in Nat /\ k.len \in Nat
  <2>1. k.at \in Nat /\ k.len \in Nat
    BY ReplyAt DEF CrcInv
  <2>2. TypeOK'
    BY TypeStep
  <2> QED
    BY <2>1, <2>2, LenProperties DEF AnswerInv, TypeOK
<1>1. ASSUME Len(fwd') = Len(fwd) PROVE FALSE
  BY <1>0, <1>1
<1>2. (\E c \in Chunks : ReadBus(c) \/ MakingRoomFails(c)) \/ Forward \/ ForwardFails
  <2>1. fwd' # fwd
    BY <1>1
  <2> QED
    BY <2>1
    DEF Next, Proxy, ControllerAsks, DeviceAnswers, DetectRead, Poll, ReadController, ScanRequest,
        ScanSkip, ScanEnd, ForwardEnd, SetOverride, ClearOverride, Stop
<1>3. ~ \E c \in Chunks : ReadBus(c) \/ MakingRoomFails(c)
  BY <1>0, <1>1, ReadBusFits, RoomIsThere
<1>4. ph = "down" /\ ~NeedMore(buf)
  BY <1>2, <1>3 DEF Forward, ForwardFails
<1>5. k = LastReply /\ k.at + k.len = Len(fwd) + Len(buf) /\ k.at = Len(fwd)
  BY <1>0, <1>4, OnlyTheLast
<1>6. buf # <<>>
  BY <1>0, <1>4, EmptySeq DEF NeedMore
<1>7. /\ k.req \in Requests /\ k.req \in Request /\ Shaped(buf, k) /\ slot = k.req
      /\ FrameHere(buf) /\ ResponseLen(buf) = Len(buf) /\ IsRead(buf)
  BY <1>0, <1>4, <1>5, <1>6, WholeAnswer
<1> DEFINE o == Overridden(buf, slot)
<1>8. Outgoing(buf) = o /\ Len(o) = Len(buf) /\ o \in Seq(Cell)
  BY <1>4, <1>7, WholeGoes, OutgoingType
<1>9. Forward
  <2> SUFFICES ASSUME ForwardFails PROVE FALSE
    BY <1>2, <1>3
  <2>1. PICK j \in 0 .. Len(Outgoing(buf)) - 1 : fwd' = fwd \o SubSeq(Outgoing(buf), 1, j)
    BY DEF ForwardFails
  <2> HIDE DEF o, k
  <2>2. j \in 0 .. Len(o) /\ j < Len(buf)
    BY <1>0, <1>8, <2>1
  <2>3. SubSeq(o, 1, j) \in Seq(Cell) /\ Len(SubSeq(o, 1, j)) = j
    BY <1>8, <2>2, Cut
  <2>4. Len(fwd') = Len(fwd) + j
    BY <1>0, <1>8, <2>1, <2>3, Joined
  <2> QED
    BY <1>0, <1>5, <2>2, <2>4 DEF k
<1>10. fwd' = fwd \o o
  BY <1>8, <1>9 DEF Forward
<1>11. k.req.start + k.req.count <= 65536 /\ k.req.count \in 1 .. 125 /\ k.data
  BY <1>7, RequestParts DEF InRange
<1>12. <<o[4 + 2 * n].v, o[5 + 2 * n].v>> =
          IF Sent(k, n) \in DOMAIN ovr THEN ovr[Sent(k, n)] ELSE Held
  BY <1>7, <1>11, OverriddenRegister
<1>13. Got(fwd', k, n) = <<o[4 + 2 * n].v, o[5 + 2 * n].v>>
  <2> DEFINE a == 4 + 2 * n
             b == 5 + 2 * n
             c == k.req.count
             p == k.at + 3 + 2 * n
  <2>1. Len(buf) = 2 * c + 5
    BY <1>7, <1>11 DEF Shaped
  <2> HIDE DEF o
  <2>2. a \in 1 .. Len(o) /\ b \in 1 .. Len(o) /\ p + 1 = Len(fwd) + a /\ p + 2 = Len(fwd) + b
    <3>1. c \in 1 .. 125 /\ n \in 0 .. c - 1 /\ k.at = Len(fwd) /\ Len(o) = 2 * c + 5
      BY <1>5, <1>8, <1>11, <2>1
    <3> HIDE DEF c, k
    <3> QED
      BY <1>0, <3>1
  <2>3. \A q \in 1 .. Len(o) : fwd'[Len(fwd) + q] = o[q]
    BY <1>0, <1>8, <1>10, Joined
  <2> HIDE DEF a, b
  <2>4. fwd'[p + 1] = o[a] /\ fwd'[p + 2] = o[b]
    BY <2>2, <2>3
  <2> QED
    BY <2>4 DEF Got, a, b
<1> QED
  BY <1>12, <1>13

\* On such a line a reply has in each register the override in force when it goes
\* through, or the device's value, as long as no request runs past the last register.
THEOREM OverridesReach ==
    ASSUME Roomy, InRange PROVE Spec => OverridesApplied
<1> DEFINE Inv == TypeOK /\ OrderInv /\ CrcInv /\ AnswerInv
           Applied == Undamaged => \A i \in DOMAIN replies :
              LET k == replies[i]
              IN  k.data /\ k.intact /\ Len(fwd) < k.at + k.len /\ k.at + k.len <= Len(fwd') =>
                     \A n \in 0 .. k.req.count - 1 :
                        Got(fwd', k, n) = IF Sent(k, n) \in DOMAIN ovr THEN ovr[Sent(k, n)] ELSE Held
<1>1. Init => Inv
  BY TypeInit, OrderInit, CrcInit, AnswerInit
<1>2. Inv /\ [Next]_vars => Inv'
  BY TypeStep, OrderStep, CrcStep, AnswerStep
<1>3. Inv /\ [Next]_vars => [Applied]_vars
  <2> SUFFICES ASSUME Inv, Next PROVE Applied
    OBVIOUS
  <2> QED
    BY OverridesStep
<1>4. Spec => [][Applied]_vars
  BY <1>1, <1>2, <1>3, PTL DEF Spec
<1> QED
  BY <1>4 DEF OverridesApplied
=============================================================================

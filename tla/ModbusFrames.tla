---------------------------- MODULE ModbusFrames ----------------------------
(***************************************************************************)
(* The Modbus RTU frames of the BMS bus, as the C tools read them.  A byte *)
(* is a cell: its value, and for the two bytes of a CRC also what they     *)
(* were computed over, so that a CRC matches the bytes it was computed     *)
(* over and no others, whatever its two values look like to a parser.      *)
(***************************************************************************)
EXTENDS Integers, Sequences

CONSTANTS CrcLo, CrcHi      \* the values that the two bytes of a CRC happen to have

Byte == 0 .. 255
MaxWord == 65535
Word == 0 .. MaxWord
Cell == [v : Byte, crc : {<<>>} \cup ({"lo", "hi"} \X Seq(Byte))]
Request == [dev : 1 .. 247, fn : {3, 4, 6}, start : Word, count : 1 .. 125]

ASSUME CrcAssumption == CrcLo \in Byte /\ CrcHi \in Byte

NoRequest == [dev |-> 0, fn |-> 0, start |-> 0, count |-> 0]

Drop(b, n) == SubSeq(b, n + 1, Len(b))
Least(i, j) == IF i < j THEN i ELSE j

Cells(values) == [i \in 1 .. Len(values) |-> [v |-> values[i], crc |-> <<>>]]
ValuesOf(cells) == [i \in 1 .. Len(cells) |-> cells[i].v]

\* The two bytes that modbus_crc16 gives for these values.
Crc(values) == << [v |-> CrcLo, crc |-> <<"lo", values>>], [v |-> CrcHi, crc |-> <<"hi", values>>] >>

Frame(values) == Cells(values) \o Crc(values)

HasValidCrc(b, n) ==
    /\ n <= Len(b)
    /\ SubSeq(b, n - 1, n) = Crc(ValuesOf(SubSeq(b, 1, n - 2)))

ValidDevice(d) == d \in 1 .. 247

RequestFrame(r) ==
    Frame(<<r.dev, r.fn, r.start \div 256, r.start % 256, r.count \div 256, r.count % 256>>)

\* What the device answers, given the bytes of the registers; an FC=4 reply has
\* the start address where FC=3 has its length.
ReplyFrame(r, data) ==
    CASE r.fn = 3 -> Frame(<<r.dev, 3, 2 * r.count>> \o data)
      [] r.fn = 4 -> Frame(<<r.dev, 4, r.start \div 256, r.start % 256>> \o data)
      [] r.fn = 6 -> RequestFrame(r)

ExceptionFrame(r) == Frame(<<r.dev, 128 + r.fn, 2>>)

Damages == {"none", "crc", "id", "cut"}
Damaged(f, how) ==
    CASE how = "none" -> f
      [] how = "crc"  -> [f EXCEPT ![Len(f)].crc = <<>>]
      [] how = "id"   -> [f EXCEPT ![1].v = 0]
      [] how = "cut"  -> SubSeq(f, 1, Len(f) - 1)

\* The request in the first eight bytes.
HeadRequest(b) == [dev |-> b[1].v, fn |-> b[2].v,
                   start |-> 256 * b[3].v + b[4].v, count |-> 256 * b[5].v + b[6].v]
=============================================================================

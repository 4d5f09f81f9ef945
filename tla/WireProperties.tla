--------------------------- MODULE WireProperties ---------------------------
(***************************************************************************)
(* What the reading of a wire log should give, compared with what was said *)
(* on the bus.  The two frames of an exchange are known by their times,    *)
(* which no other frame has.                                               *)
(***************************************************************************)
EXTENDS RegisterCsv

FramePlaces == UNION {frames[n].off + 1 .. frames[n].off + Len(frames[n].raw) : n \in DOMAIN frames}

\* Every variable has its type, and the parser has taken the stream apart without a
\* gap or an overlap: every byte it has passed is in one frame, in order, or counted
\* as dropped (parse_log.py:96-160).
TypeOK ==
    /\ phase \in {"bus", "parse", "rows"}
    /\ stream \in Seq(Cell) /\ times \in Seq(Nat) /\ Len(times) = Len(stream)
    /\ i \in 0 .. Len(stream) /\ drops \in 0 .. Len(stream)
    /\ expecting \in {"request", "response"}
    /\ pending \in SUBSET Word /\ Cardinality(pending) <= 1
    /\ done \in 0 .. Len(updates)
    /\ \A n \in DOMAIN frames : frames[n].off + Len(frames[n].raw) <=
                                    (IF n = Len(frames) THEN i ELSE frames[n + 1].off)
    /\ drops = Cardinality(1 .. i \ FramePlaces)
    /\ \A n \in DOMAIN rows : rows[n].ts \in Nat /\ DOMAIN rows[n].data = Columns

-----------------------------------------------------------------------------
\* What was recorded.

Asked(n) == bus[n].asked \in Intact
Replied(n) == bus[n].answer # "none" /\ bus[n].replied \in Intact
ReplyTime(n) == bus[n].t + Turnaround

SentFrames ==
    {[ts |-> bus[n].t, raw |-> RequestFrame(bus[n].req), role |-> "request"] :
        n \in {n \in DOMAIN bus : Asked(n)}}
    \cup {[ts |-> ReplyTime(n), raw |-> Reply(bus[n]), role |-> "response"] :
        n \in {n \in DOMAIN bus : Replied(n)}}

\* An FC=4 reply whose length cannot be told by the last request, that of n.
Unseen(n, m) ==
    /\ bus[m].req.fn = 4 /\ bus[m].answer = "data"
    /\ bus[n].req.fn = 6 \/ bus[n].req.count # bus[m].req.count

\* Between the request of n and the reply of m the parser sees no other frame.
Adjacent(n, m) ==
    /\ n <= m /\ Asked(n) /\ Replied(m)
    /\ n < m => ~Replied(n) /\ ~Asked(m)
    /\ \A l \in n + 1 .. m - 1 : ~Asked(l) /\ (Replied(l) => Unseen(n, l))

SameTarget(p, q) == p.dev = q.dev /\ p.fn = q.fn

\* The reply of m is taken for an answer to n: the same length of the same device,
\* from another place.
Misread(n, m) ==
    /\ bus[m].answer = "data" /\ bus[n].req.start # bus[m].req.start
    /\ SameTarget(bus[n].req, bus[m].req) /\ bus[n].req.fn = 3
    /\ bus[n].req.count = bus[m].req.count /\ Adjacent(n, m)

\* A reply that can be understood: the last frame before it asks for the same.
Understood(m) ==
    /\ bus[m].answer = "data"
    /\ \E n \in 1 .. m : Adjacent(n, m) /\ bus[n].req = bus[m].req

Covers(q, key) == q.dev = key[1] /\ q.fn = key[2] /\ key[3] \in q.start .. q.start + q.count - 1

\* The last of the understood replies up to a time that hold a register, if any.
Sources(key, ts) == {m \in DOMAIN bus : Covers(bus[m].req, key) /\ ReplyTime(m) <= ts /\ Understood(m)}
TrueWord(key, ts) ==
    LET sources == Sources(key, ts)
    IN  IF sources = {} THEN Unknown
        ELSE Unsigned(Reading(key[2], key[1], key[3], bus[Max(sources)].level))

\* The byte at an address, when a device's registers are laid out high byte first.
TrueByte(key, address, ts) ==
    LET word == TrueWord(<<key[1], key[2], address \div 2>>, ts)
    IN  IF word = Unknown THEN Unknown ELSE IF address % 2 = 0 THEN word \div 256 ELSE word % 256

Signed16(v) == v \in Int /\ v + 32768 >= 0 /\ v <= 32767
SignedOf(word) == CHOOSE v \in {word, word - 65536} : Signed16(v)

TrueCell(c, ts) ==
    LET hi == TrueByte(c.key, 2 * c.key[3] + c.off, ts)
        lo == TrueByte(c.key, 2 * c.key[3] + c.off + 1, ts)
        word == 256 * hi + lo
    IN  IF Unknown \in {hi, lo} THEN Unknown
        ELSE CASE c.mode = "w"  -> word
               [] c.mode = "sw" -> SignedOf(word)
               [] c.mode = "b"  -> word \div 2 ^ c.bit - 2 * (word \div 2 ^ (c.bit + 1))

-----------------------------------------------------------------------------
\* No frame is made up: each one found was sent, byte for byte, and was recorded
\* then; and unless it is an FC=6 frame, which reads the same both ways, it is
\* found in its true role whatever was lost around it (parse_log.py:129-142).
FoundWasSent ==
    ParseEnds => \A n \in DOMAIN frames :
        \E s \in SentFrames : /\ s.ts = frames[n].ts /\ s.raw = frames[n].raw
                              /\ frames[n].fc # 6 => s.role = frames[n].role

\* The parser finds its place again at once: whatever was damaged or lost, every
\* frame recorded whole is found, but for an FC=4 reply whose request is not
\* (its length cannot be known; parse_log.py:111-114).
SentIsFound ==
    ParseEnds => \A n \in DOMAIN bus :
        /\ Asked(n) => \E l \in DOMAIN frames : frames[l].ts = bus[n].t
        /\ Replied(n) /\ (bus[n].req.fn = 4 /\ bus[n].answer = "data" => Asked(n)) =>
              \E l \in DOMAIN frames : frames[l].ts = ReplyTime(n)

\* Each FC=3 or FC=4 pair is one exchange, and its latency the battery's, unless
\* the reply of the first and the request of the second were both lost
\* (parse_log.py:165-175, docs/06-wire-captures.md:54).
PairsAreExchanges ==
    ParseEnds => \A n \in DOMAIN LogPairs(frames) :
        LET p == LogPairs(frames)[n]
        IN  p[1].fc # 6 => \E l, m \in DOMAIN bus :
              /\ p[1].ts = bus[l].t /\ p[2].ts = ReplyTime(m)
              /\ Adjacent(l, m) /\ SameTarget(bus[l].req, bus[m].req)
              /\ l = m => Turnaround \in Range(Latencies(QueryOf(p[1])))

-----------------------------------------------------------------------------
NothingMisread(ts) == \A n, m \in DOMAIN bus : Misread(n, m) => ReplyTime(m) > ts

\* Every cell of every row is the last value that the log holds for it by then,
\* unsigned, signed, bit by bit or across two registers, whatever was lost and
\* whichever roles were swapped - until a reply is misread as one to another
\* request (extract_fields.py:229-283, 353-381, 460-488).
RowsTrue ==
    rows # <<>> /\ NothingMisread(Last(rows).ts) =>
        \A c \in DOMAIN Last(rows).data : c.key[2] # 6 => Last(rows).data[c] = TrueCell(c, Last(rows).ts)

\* With a gap no row comes sooner than that after the one before, even when the
\* clock is set back, and no row repeats the one before (extract_fields.py:490-496).
RowsApart ==
    \A n \in 1 .. Len(rows) - 1 :
        /\ gap > 0 => ~(rows[n + 1].ts - rows[n].ts < gap)
        /\ rows[n + 1].data # rows[n].data

\* What the first n pairs say: of each register the last word.
KnownAfter(n) ==
    [key \in UNION {DOMAIN updates[l].regs : l \in 1 .. n} |->
        updates[Max({l \in 1 .. n : key \in DOMAIN updates[l].regs})].regs[key]]

\* Leaving rows out loses nothing that lasts: values that have stayed for as long
\* as the gap are in the last row written, though that row came with a different
\* pair or after others were left out (extract_fields.py:490-502).
LastingIsWritten ==
    phase = "rows" => \A n \in 1 .. done :
        /\ updates[done].ts - updates[n].ts >= gap
        /\ \A l \in n .. done : DataRow(KnownAfter(l)) = DataRow(known)
        => rows # <<>> /\ Last(rows).data = DataRow(known)

\* What the battery held in the block that an exchange read: a byte of it, two of them
\* high byte first wherever they begin, and what it means for a number to be those.
TrueData(x) == Data(x.req, x.level)
HeldByte(x, at) == TrueData(x)[at + 1]
HeldWord(x, at) == 256 * HeldByte(x, at) + HeldByte(x, at + 1)

SignedIs16(v, word) == Signed16(v) /\ v % 65536 = word
CharIs(c, byte) == c \in {byte, Replaced} /\ (c = Replaced <=> byte >= 128)

FieldIs(f, got, x) ==
    CASE f.kind = "u8"    -> got = HeldByte(x, f.at)
      [] f.kind = "u16"   -> got = HeldWord(x, f.at)
      [] f.kind = "u32"   -> got = <<HeldWord(x, f.at), HeldWord(x, f.at + 2)>>
      [] f.kind = "s16"   -> SignedIs16(got, HeldWord(x, f.at))
      [] f.kind = "s32"   -> /\ SignedIs16(got \div 65536, HeldWord(x, f.at))
                             /\ got % 65536 = HeldWord(x, f.at + 2)
      [] f.kind = "ascii" -> \A k \in 1 .. f.len : CharIs(got[k], HeldByte(x, f.at + k - 1))

\* The fields of the block that a request reads.
OwnFields(q) ==
    LET layouts == IF q.fn = 3 THEN {HrLayout} ELSE {IrLayouts[start] : start \in {q.start} \cap DOMAIN IrLayouts}
    IN  UNION {layout.fields : layout \in {layout \in layouts : layout.bytes = 2 * q.count}}

\* A reply is decoded as the block that it is of, and each field is what the battery
\* held at that byte of the block, its two's complement where it has a sign, though
\* the decoder asks the request before it which FC=4 block it is and takes an FC=3
\* reply of 56 bytes for the holding registers (decode_fields.py:16-31, 182-201).
FieldsTrue ==
    ParseEnds => \A n \in DOMAIN LogPairs(frames), m \in DOMAIN bus :
        LET p == LogPairs(frames)[n]
            got == DecodeResponse(p[2], p[1])
        IN  p[2].fc # 6 /\ p[2].ts = ReplyTime(m) =>
              /\ DOMAIN got = OwnFields(bus[m].req)
              /\ \A f \in DOMAIN got : FieldIs(f, got[f], bus[m])
-----------------------------------------------------------------------------
\* What the theorems ask of a recording and of the tables of the decoder.

\* A query tells its frame from a reply's.  An FC=3 request of registers from 768 to
\* 1023 reads as a reply with three bytes of data, and an FC=4 reply of one register
\* is as long as a request.  An inverter asks for neither (docs/06-wire-captures.md:77-82).
Tellable ==
    \A q, r \in Queries :
        /\ q.fn = 3 => q.start \div 256 # 3
        /\ q.fn = 4 /\ r.fn # 6 => r.count # 1

\* The clock was not set back, and no two exchanges have the same time.
ClockRuns == \A m, n \in DOMAIN Schedule : m < n => Schedule[m].t < Schedule[n].t

\* An exchange begins after the one before it is over.
Unhurried == \A m, n \in DOMAIN Schedule : m < n => Schedule[m].t + Turnaround < Schedule[n].t

\* No pair has a time before that of an earlier one.
ClockForward == \A m, n \in DOMAIN updates : m <= n => updates[m].ts <= updates[n].ts

\* The fields that the decoder knows are in their blocks, at any byte of them.
WidthOf(f) ==
    CASE f.kind = "u8" -> 1
      [] f.kind \in {"u16", "s16"} -> 2
      [] f.kind \in {"u32", "s32"} -> 4
      [] f.kind = "ascii" -> f.len

LayoutFits(layout) ==
    /\ layout.bytes \in Nat
    /\ \A f \in layout.fields :
          /\ f.at \in Nat /\ f.kind \in {"u8", "u16", "s16", "u32", "s32", "ascii"}
          /\ f.kind = "ascii" => f.len \in Nat
          /\ f.at + WidthOf(f) <= layout.bytes

LayoutsFit == LayoutFits(HrLayout) /\ \A start \in DOMAIN IrLayouts : LayoutFits(IrLayouts[start])

\* The FC=4 blocks that an inverter reads differ in length: 21, 19 and 20 registers
\* (docs/06-wire-captures.md:77-82).
BlocksTold == \A q, r \in Queries : q.fn = 4 /\ r.fn = 4 /\ q.count = r.count => q.start = r.start
=============================================================================

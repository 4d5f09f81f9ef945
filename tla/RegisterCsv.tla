----------------------------- MODULE RegisterCsv -----------------------------
(***************************************************************************)
(* From pairs to values: decode_pair_updates and write_register_state_csv  *)
(* of tools/extract_fields.py, the latencies of tools/parse_log.py's       *)
(* report and the field decoder of tools/decode_fields.py.  One row is     *)
(* considered per pair; it shows the last value of every register, and is  *)
(* left out when it repeats the row before it or comes too soon after it.  *)
(***************************************************************************)
EXTENDS WireParser

CONSTANTS Filters,          \* the sets of register specs the tool is given; {} for no filter
          Gaps,             \* the least times between two rows it is given
          HrLayout,         \* decode_fields: the fields of HR(0..27), scaled down
          IrLayouts         \* decode_fields: those of the FC=4 blocks, by start address

Wild == -1                  \* * in a register spec
Unknown == 65536            \* a cell without a value

\* parse_register_filter: a mode, what a register's key must match (numbers or
\* Wild), and a byte offset.
Pattern == Int \X Int \X Int
RegisterSpec == [mode : {"w", "sw", "b"}, pattern : Pattern, off : Nat]

ASSUME CsvAssumption == Gaps \subseteq Nat /\ Filters \subseteq SUBSET RegisterSpec

VARIABLES filter, gap,      \* the arguments of the run
          updates, done,    \* pair_updates, and how many of them the writer has gone through
          known,            \* last_known
          lastRow, lastTs,  \* last_data_row, last_output_ts (at most one time)
          rows              \* the rows written

csvVars == <<filter, gap, updates, done, known, lastRow, lastTs, rows>>
vars == <<wireVars, csvVars>>

-----------------------------------------------------------------------------
\* What a pair says of the registers, as a function on <<device, fc, register>>.

RegistersAsked(req) ==
    {<<req.device, req.fc, reg>> :
        reg \in WordAt(req.raw, 2) .. WordAt(req.raw, 2) + WordAt(req.raw, 4) - 1}

BlockUpdates(req, rsp, dataStart) ==
    [key \in RegistersAsked(req) |-> WordAt(rsp.raw, dataStart + 2 * (key[3] - WordAt(req.raw, 2)))]

NoUpdates == [key \in {} |-> 0]

DecodePairUpdates(req, rsp) ==
    LET bytes == 2 * WordAt(req.raw, 4)
    IN  CASE rsp.fc = req.fc + 128 -> NoUpdates
          [] rsp.fc = 3 -> IF rsp.raw[3].v = bytes /\ Len(rsp.raw) >= bytes + 5
                           THEN BlockUpdates(req, rsp, 3) ELSE NoUpdates
          [] rsp.fc = 4 -> IF WordAt(rsp.raw, 2) = WordAt(req.raw, 2) /\ Len(rsp.raw) >= bytes + 6
                           THEN BlockUpdates(req, rsp, 4) ELSE NoUpdates
          [] rsp.fc = 6 -> [key \in {<<req.device, 6, WordAt(req.raw, 2)>>} |-> WordAt(req.raw, 4)]

Updated(old, new) ==
    [key \in DOMAIN old \cup DOMAIN new |-> IF key \in DOMAIN new THEN new[key] ELSE old[key]]

-----------------------------------------------------------------------------
\* Columns.  A field is a register and a byte offset from it; a word may lie
\* across two registers.  A bit column's place in a plot is left out of its cells.

AllKeys == UNION {DOMAIN updates[n].regs : n \in DOMAIN updates}

Matches(key, pattern) == \A n \in 1 .. 3 : pattern[n] \in {Wild, key[n]}

FieldRegisters(key, off) ==
    {<<key[1], key[2], reg>> : reg \in key[3] + off \div 2 .. key[3] + (off + 1) \div 2}

Columns ==
    IF filter = {} THEN {[mode |-> "w", key |-> key, off |-> 0, bit |-> 0] : key \in AllKeys}
    ELSE UNION {{[mode |-> spec.mode, key |-> key, off |-> spec.off, bit |-> bit] :
                    key \in {key \in AllKeys : /\ Matches(key, spec.pattern)
                                               /\ FieldRegisters(key, spec.off) \subseteq AllKeys},
                    bit \in IF spec.mode = "b" THEN 0 .. 15 ELSE {0}} : spec \in filter}

FieldByte(regs, key, absolute) ==
    LET word == regs[<<key[1], key[2], key[3] + absolute \div 2>>]
    IN  IF absolute % 2 = 0 THEN word \div 256 ELSE word % 256

FieldWord(regs, key, off) ==
    IF FieldRegisters(key, off) \subseteq DOMAIN regs
    THEN 256 * FieldByte(regs, key, off) + FieldByte(regs, key, off + 1)
    ELSE Unknown

\* Mutant: the end of the range is off by one.
SignedWordTo32768(w) == IF w <= 32768 THEN w ELSE w - 65536

SignedWord(w) == IF w < 32768 THEN w ELSE w - 65536

Shown(regs, c) ==
    LET w == FieldWord(regs, c.key, c.off)
    IN  IF w = Unknown THEN Unknown
        ELSE CASE c.mode = "w"  -> w
               [] c.mode = "sw" -> SignedWord(w)
               [] c.mode = "b"  -> (w \div 2 ^ c.bit) % 2

DataRow(regs) == [c \in Columns |-> Shown(regs, c)]

-----------------------------------------------------------------------------
\* The writer.

Pair ==
    /\ ParseEnds
    /\ phase' = "rows"
    /\ filter' \in Filters /\ gap' \in Gaps
    /\ LET ps == ExtractPairs(frames)
       IN  updates' = [n \in 1 .. Len(ps) |->
                          [ts |-> ps[n][2].ts, regs |-> DecodePairUpdates(ps[n][1], ps[n][2])]]
    /\ UNCHANGED <<bus, stream, times, i, expecting, pending, frames, drops,
                   done, known, lastRow, lastTs, rows>>

Next1 == updates[done + 1]
NewKnown == Updated(known, Next1.regs)
Repeats == rows # <<>> /\ DataRow(NewKnown) = lastRow
TooSoon == gap > 0 /\ \E ts \in lastTs : Next1.ts - ts < gap

TakePair ==
    /\ phase = "rows" /\ done < Len(updates)
    /\ done' = done + 1
    /\ known' = NewKnown
    /\ UNCHANGED <<wireVars, filter, gap, updates>>

\* Mutant: the time of the row is not remembered.
WriteRowUntimed ==
    /\ TakePair
    /\ ~Repeats /\ ~TooSoon
    /\ lastRow' = DataRow(NewKnown)
    /\ rows' = Append(rows, [ts |-> Next1.ts, data |-> DataRow(NewKnown)])
    /\ UNCHANGED lastTs

WriteRow ==
    /\ TakePair
    /\ ~Repeats /\ ~TooSoon
    /\ lastRow' = DataRow(NewKnown)
    /\ lastTs' = {Next1.ts}
    /\ rows' = Append(rows, [ts |-> Next1.ts, data |-> DataRow(NewKnown)])

\* Mutant: a row left out is remembered like one written.
LeaveOutRemembering ==
    /\ TakePair
    /\ Repeats \/ TooSoon
    /\ lastRow' = DataRow(NewKnown)
    /\ UNCHANGED <<lastTs, rows>>

LeaveOut ==
    /\ TakePair
    /\ Repeats \/ TooSoon
    /\ UNCHANGED <<lastRow, lastTs, rows>>

Finished ==
    /\ phase = "rows" /\ done = Len(updates)
    /\ UNCHANGED vars

-----------------------------------------------------------------------------
\* parse_log's latencies, and the fields of a pair.

QueryOf(req) == <<req.device, req.fc, WordAt(req.raw, 2), WordAt(req.raw, 4)>>

Latencies(query) ==
    LET all == LogPairs(frames)
        ps == Chosen(all, {n \in 1 .. Len(all) : QueryOf(all[n][1]) = query})
    IN  [n \in 1 .. Len(ps) |-> ps[n][2].ts - ps[n][1].ts]

U16(data, at) == WordAt(data, at)
S16(data, at) == SignedWord(U16(data, at))

\* A 32-bit number by its halves, which is how far TLC counts.
U32(data, at) == <<U16(data, at), U16(data, at + 2)>>

\* Mutant: the low half is taken to be signed too.
S32OfSigned(data, at) == 65536 * S16(data, at) + S16(data, at + 2)

S32(data, at) ==
    LET u == U32(data, at)
    IN  IF u[1] >= 32768 THEN 65536 * (u[1] - 65536) + u[2] ELSE 65536 * u[1] + u[2]

\* decode("ascii", errors="replace")
Replaced == 65533
Ascii(data, at, len) ==
    [k \in 1 .. len |-> IF data[at + k].v < 128 THEN data[at + k].v ELSE Replaced]

DecodeField(data, f) ==
    CASE f.kind = "u8"    -> data[f.at + 1].v
      [] f.kind = "u16"   -> U16(data, f.at)
      [] f.kind = "s16"   -> S16(data, f.at)
      [] f.kind = "u32"   -> U32(data, f.at)
      [] f.kind = "s32"   -> S32(data, f.at)
      [] f.kind = "ascii" -> Ascii(data, f.at, f.len)

DecodeBlock(layout, data) ==
    [f \in IF Len(data) = layout.bytes THEN layout.fields ELSE {} |-> DecodeField(data, f)]

Payload(raw, header) == SubSeq(raw, header + 1, Len(raw) - 2)

DecodeResponse(rsp, req) ==
    CASE rsp.fc = 3 -> DecodeBlock(HrLayout, Payload(rsp.raw, 3))
      [] rsp.fc = 4 /\ WordAt(req.raw, 2) \in DOMAIN IrLayouts ->
            DecodeBlock(IrLayouts[WordAt(req.raw, 2)], Payload(rsp.raw, 4))
      [] OTHER -> NoUpdates

-----------------------------------------------------------------------------
Init ==
    /\ ParserInit
    /\ filter = {} /\ gap = 0
    /\ updates = <<>> /\ done = 0 /\ known = NoUpdates
    /\ lastRow = NoUpdates /\ lastTs = {} /\ rows = <<>>

Parse == ParserNext /\ UNCHANGED csvVars

Next == Parse \/ Pair \/ WriteRow \/ LeaveOut \/ Finished

Spec == Init /\ [][Next]_vars
=============================================================================

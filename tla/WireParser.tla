----------------------------- MODULE WireParser -----------------------------
(***************************************************************************)
(* From the wire log to request and reply pairs: load_byte_stream,         *)
(* parse_frames and pair_request_response of tools/parse_log.py and        *)
(* tools/extract_fields.py, which hold the same parser twice.  The parser  *)
(* walks the recorded bytes with one idea of what comes next (a request or *)
(* a reply) and one remembered register count, and must find its way again *)
(* after anything the line, the battery or the logger left out.            *)
(*                                                                         *)
(* The bus comes first: an inverter that asks and a battery that answers,  *)
(* with the log lines that were left of each frame.  `bus' remembers what  *)
(* was really said, for the properties to compare with.                    *)
(***************************************************************************)
EXTENDS ModbusFrames, Selection, FiniteSets, SequencesExt

CONSTANTS Queries,          \* the requests that the inverter sends
          Schedule,         \* when the exchanges of a recording begin, and what the battery holds then
          Turnaround,       \* time from a request to its reply
          MaxFaults         \* bound on frames that are not an answer recorded on one whole line

ASSUME WireAssumption ==
    /\ Queries \subseteq Request
    /\ Schedule \in Seq([t : Nat, level : {0, 1}])
    /\ Turnaround \in Nat /\ MaxFaults \in Nat

VARIABLES bus,              \* what was said: one record per exchange
          phase,            \* "bus", "parse", then "rows"
          stream, times,    \* load_byte_stream: the bytes, and the time of each
          i, expecting, pending, frames, drops      \* the locals of parse_frames

wireVars == <<bus, phase, stream, times, i, expecting, pending, frames, drops>>

-----------------------------------------------------------------------------
\* The bus and the log lines it leaves (external).

\* What the battery holds in a register, as a signed number; level moves all of
\* them, through both ends of the signed range.
Reading(fn, dev, reg, level) ==
    256 * (16 * (fn - 3) + 8 * (dev - 1) + reg) + 3 * reg - 32768 * level

Unsigned(v) == v % 65536

Data(q, level) ==
    [b \in 1 .. 2 * q.count |->
        LET word == Unsigned(Reading(q.fn, q.dev, q.start + (b - 1) \div 2, level))
        IN  IF b % 2 = 1 THEN word \div 256 ELSE word % 256]

Reply(x) == IF x.answer = "data" THEN ReplyFrame(x.req, Data(x.req, x.level)) ELSE ExceptionFrame(x.req)

\* What is left of a frame in the log: all of it on one line or on two, a damaged
\* byte, only the first of its two lines (the other is cut off), or nothing; and the
\* log may begin in the middle of a request.
Recorded == {"whole", "split", "damaged", "head", "tail", "lost"}
Intact == {"whole", "split"}

Lines(f, t, how) ==
    LET line(b, at, ok) == [b |-> b, t |-> at, ok |-> ok]
        head == SubSeq(f, 1, 4)
        tail == Drop(f, 4)
    IN  CASE how = "whole"   -> << line(f, t, TRUE) >>
          [] how = "damaged" -> << line(Damaged(f, "crc"), t, TRUE) >>
          [] how = "lost"    -> << line(f, t, FALSE) >>
          [] OTHER -> << line(head, t, how # "tail"), line(tail, t + 1, how # "head") >>

LinesOf(x) ==
    Lines(RequestFrame(x.req), x.t, x.asked)
        \o (IF x.answer = "none" THEN <<>> ELSE Lines(Reply(x), x.t + Turnaround, x.replied))

Faults(x) == Cardinality({f \in {"asked", "answer", "replied"} : x[f] \notin {"whole", "data"}})

Exchange ==
    /\ phase = "bus"
    /\ Len(bus) < Len(Schedule)
    /\ \E q \in Queries, asked, replied \in Recorded,
          answer \in {"data", "exception", "none"} :
        /\ answer = "none" => replied = "whole"
        /\ replied # "tail" /\ (bus # <<>> => asked # "tail")
        /\ LET now == Schedule[Len(bus) + 1]
           IN  bus' = Append(bus, [req |-> q, level |-> now.level, t |-> now.t,
                                   asked |-> asked, answer |-> answer, replied |-> replied])
        /\ FoldLeft(LAMBDA n, x : n + Faults(x), 0, bus') <= MaxFaults
    /\ UNCHANGED <<phase, stream, times, i, expecting, pending, frames, drops>>

-----------------------------------------------------------------------------
\* The parser.

\* A line that is not what the logger writes, or not all of it, is skipped.
LoadByteStream(lines) ==
    LET read(l) == IF l.ok THEN l.b ELSE <<>>
    IN  [bytes |-> FlattenSeq([n \in 1 .. Len(lines) |-> read(lines[n])]),
         times |-> FlattenSeq([n \in 1 .. Len(lines) |-> [j \in 1 .. Len(read(lines[n])) |-> lines[n].t]])]

Load ==
    /\ phase = "bus"
    /\ phase' = "parse"
    /\ LET log == LoadByteStream(FlattenSeq([n \in 1 .. Len(bus) |-> LinesOf(bus[n])]))
       IN  stream' = log.bytes /\ times' = log.times
    /\ UNCHANGED <<bus, i, expecting, pending, frames, drops>>

ByteAt(k) == stream[i + k + 1].v
WordAt(raw, k) == 256 * raw[k + 1].v + raw[k + 2].v     \* raw[k] and raw[k + 1] of the code
Fc == ByteAt(1)

Other(role) == IF role = "request" THEN "response" ELSE "request"

\* The length that a frame of this role would have here; none if it cannot be one.
\* `pending' is the set of at most one register count.
FrameLength(role) ==
    IF role = "request"
    THEN {8 : fc \in {Fc} \cap {3, 4, 6}}
    ELSE CASE Fc = 3    -> {5 + ByteAt(2)}
           [] Fc = 4    -> {6 + 2 * count : count \in pending}
           [] Fc = 6    -> {8}
           [] Fc >= 128 -> {5}
           [] OTHER     -> {}

\* Mutants: the CRC is not checked; only the expected role is tried.
AnyFrame(role) == {len \in FrameLength(role) : len >= 4 /\ i + len <= Len(stream)}

ExpectedFrame(role) ==
    {len \in FrameLength(role) :
        /\ role = expecting
        /\ len >= 4
        /\ i + len <= Len(stream)
        /\ HasValidCrc(SubSeq(stream, i + 1, i + len), len)}

TryDecode(role) ==
    {len \in FrameLength(role) :
        /\ len >= 4
        /\ i + len <= Len(stream)
        /\ HasValidCrc(SubSeq(stream, i + 1, i + len), len)}

Parsing == phase = "parse" /\ i < Len(stream) - 3

\* Mutant: every frame is taken to be 8 bytes long.
FoundInEights ==
    /\ Parsing
    /\ \E role \in {"request", "response"} : \E len \in TryDecode(role) :
        /\ role # expecting => TryDecode(expecting) = {}
        /\ LET raw == SubSeq(stream, i + 1, i + len)
           IN  frames' = Append(frames, [ts |-> times[i + 1], off |-> i, raw |-> raw, role |-> role,
                                         device |-> raw[1].v, fc |-> raw[2].v])
        /\ i' = Least(i + 8, Len(stream))
        /\ expecting' = Other(role)
    /\ UNCHANGED <<bus, phase, stream, times, pending, drops>>

\* A frame of the expected role or, failing that, of the other one.
Found ==
    /\ Parsing
    /\ \E role \in {"request", "response"} : \E len \in TryDecode(role) :
        /\ role # expecting => TryDecode(expecting) = {}
        /\ LET raw == SubSeq(stream, i + 1, i + len)
           IN  /\ frames' = Append(frames, [ts |-> times[i + 1], off |-> i, raw |-> raw, role |-> role,
                                            device |-> raw[1].v, fc |-> raw[2].v])
               /\ pending' = {WordAt(raw, 4) : fc \in {raw[2].v} \cap (IF role = "request" THEN {3, 4} ELSE {})}
        /\ i' = i + len
        /\ expecting' = Other(role)
    /\ UNCHANGED <<bus, phase, stream, times, drops>>

\* Neither: one byte is dropped.
Resync ==
    /\ Parsing
    /\ TryDecode("request") = {} /\ TryDecode("response") = {}
    /\ drops' = drops + 1
    /\ i' = i + 1
    /\ UNCHANGED <<bus, phase, stream, times, expecting, pending, frames>>

ParseEnds == phase = "parse" /\ i >= Len(stream) - 3

-----------------------------------------------------------------------------
\* Pairs: a request and the next frame, when it is its reply.  extract_fields
\* takes an exception for a reply too, parse_log does not.

\* Mutant: the function code is not compared.
IsPairOfDevice(req, rsp) ==
    req.role = "request" /\ rsp.role = "response" /\ req.device = rsp.device

IsPair(req, rsp) ==
    /\ req.role = "request" /\ rsp.role = "response"
    /\ req.device = rsp.device /\ req.fc = rsp.fc

IsPairOrException(req, rsp) ==
    /\ req.role = "request" /\ rsp.role = "response"
    /\ req.device = rsp.device
    /\ rsp.fc \in {req.fc, req.fc + 128}

Neighbours(fs) == [n \in 1 .. Len(fs) - 1 |-> <<fs[n], fs[n + 1]>>]
LogPairs(fs) == Chosen(Neighbours(fs), {n \in 1 .. Len(fs) - 1 : IsPair(fs[n], fs[n + 1])})
ExtractPairs(fs) == Chosen(Neighbours(fs), {n \in 1 .. Len(fs) - 1 : IsPairOrException(fs[n], fs[n + 1])})

-----------------------------------------------------------------------------
ParserInit ==
    /\ bus = <<>> /\ phase = "bus"
    /\ stream = <<>> /\ times = <<>>
    /\ i = 0 /\ expecting = "request" /\ pending = {} /\ frames = <<>> /\ drops = 0

ParserNext == Exchange \/ Load \/ Found \/ Resync

ParserSpec == ParserInit /\ [][ParserNext]_wireVars
=============================================================================

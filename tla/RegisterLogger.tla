--------------------------- MODULE RegisterLogger ---------------------------
(***************************************************************************)
(* tools/modbus_register_logger.c: it listens to the bus, on which the     *)
(* inverter (the master) asks and the batteries answer, keeps the requests *)
(* it has seen in a queue, pairs each reply with the first that fits, and  *)
(* logs one register from the replies that hold it.                        *)
(*                                                                         *)
(* What is abstracted.  The bytes are those of ModbusFrames.  The value of *)
(* a register is two bytes: its number, and a low byte that changes with   *)
(* time.  The clock counts halves of a second.  The sizes of the queue,    *)
(* the buffer and the longest frame are parameters.  Left out: the wording *)
(* of the log, verbose output and a log that cannot be written.            *)
(* The line moves while the logger waits in read(): what comes during a    *)
(* parse is read after it.  Bounds: MaxFrames, MaxTime, Backlog.           *)
(***************************************************************************)
EXTENDS ModbusFrames, FiniteSets

CONSTANTS
    Requests,       \* what the master may ask: [dev, fn, start, count]
    Answers,        \* what a device may do with a request: "reply", "exception", "silent"
    Damage,         \* what the line may do to a frame
    Noise,          \* what is on the port when the logger starts
    Lows,           \* the low bytes that registers have over time
    Chunks,         \* how many bytes a read may give, READ_BUFFER_SIZE the most
    STREAM,         \* STREAM_BUFFER_SIZE
    MaxFrame,       \* the longest frame the parser waits for, 255
    MaxPending,     \* MAX_PENDING_REQUESTS
    Type, Number,   \* config: the function code and the number of the register
    Gap,            \* min_gap_seconds
    Backlog,        \* how much the port may hold when the next frame comes
    MaxFrames, MaxTime

\* A read always finds room: the longest unfinished frame and a whole chunk fit.
ASSUME RoomAssumption ==
    /\ STREAM \in Nat /\ MaxFrame \in 8 .. 255 /\ MaxPending \in Nat \ {0}
    /\ Chunks \subseteq Nat /\ \A c \in Chunks : MaxFrame - 1 + c <= STREAM
ASSUME RequestAssumption ==
    /\ Requests \subseteq Request /\ Lows \subseteq Byte /\ Damage \subseteq Damages
    /\ \A s \in Noise : s \in Seq(Cell)
    /\ Number \in Word /\ Gap \in Nat

VARIABLES
    ph,         \* "read" or "parse", or "stopped"
    bus,        \* bytes received and not yet read
    buf,        \* stream_buffer
    pending,    \* pending_requests
    last,       \* last_log_time: <<>>, or <<t>> once there is one
    now,        \* the clock, in halves of a second
    open,       \* the request on the bus that waits for its answer, or NoRequest
    sent,       \* history: how many bytes were on the bus
    frames,     \* history: the frames among them: [at, len, kind, req, low, intact]
    log         \* history: the lines of the log: [at, dev, value, time]

line == <<open, sent, frames>>
vars == <<ph, bus, buf, pending, last, now, open, sent, frames, log>>

(* ------------------------------- the bus ------------------------------- *)

\* The bytes of the registers a request asks for.
Registers(r, low) ==
    [i \in 1 .. 2 * r.count |-> IF i % 2 = 1 THEN (r.start + (i - 1) \div 2) % 256 ELSE low]

OnBus(kind, r, low, f) ==
    /\ Len(bus) <= Backlog
    /\ \E how \in Damage :
          /\ bus' = bus \o Damaged(f, how)
          /\ sent' = sent + Len(Damaged(f, how))
          /\ frames' = Append(frames, [at |-> sent, len |-> Len(Damaged(f, how)), kind |-> kind,
                                       req |-> r, low |-> low, intact |-> how = "none"])

MasterAsks ==
    /\ open = NoRequest /\ Len(frames) < MaxFrames
    /\ \E r \in Requests : OnBus("request", r, 0, RequestFrame(r)) /\ open' = r
    /\ UNCHANGED <<ph, buf, pending, last, now, log>>

\* A device answers, or the master gives up.
DeviceAnswers ==
    /\ open # NoRequest
    /\ \/ "reply" \in Answers /\ \E low \in Lows :
             OnBus("reply", open, low, ReplyFrame(open, Registers(open, low)))
       \/ "exception" \in Answers /\ OnBus("exception", open, 0, ExceptionFrame(open))
       \/ "silent" \in Answers /\ UNCHANGED <<bus, sent, frames>>
    /\ open' = NoRequest
    /\ UNCHANGED <<ph, buf, pending, last, now, log>>

Tick ==
    /\ now < MaxTime
    /\ now' = now + 1
    /\ UNCHANGED <<ph, bus, buf, pending, last, line, log>>

(* ------------------------------- reading ------------------------------- *)

\* A full buffer gives up its oldest bytes.
Read(c) ==
    LET k == Least(c, Len(bus))
        over == Len(buf) + k - STREAM
    IN  /\ ph = "read" /\ bus # <<>>
        /\ buf' = (IF over > 0 THEN Drop(buf, over) ELSE buf) \o SubSeq(bus, 1, k)
        /\ bus' = Drop(bus, k)
        /\ ph' = "parse"
        /\ UNCHANGED <<pending, last, now, line, log>>

(* ------------------------------- parsing ------------------------------- *)

\* The most registers that a request may ask for, 125.
MaxCount == (MaxFrame - 5) \div 2

IsRead(b) == ValidDevice(b[1].v) /\ b[2].v \in {3, 4}
ReplyLen(b) == b[3].v + 5

\* The pending requests that a reply which starts here would answer.
Asked(b) == {i \in DOMAIN pending : /\ pending[i].dev = b[1].v /\ pending[i].fn = b[2].v
                                    /\ 2 * pending[i].count = b[3].v}

\* mutant of AskedReply: goes by the length alone
AskedLength(b) == IsRead(b) /\ Asked(b) # {} /\ Len(b) >= ReplyLen(b)

AskedReply(b) == IsRead(b) /\ Asked(b) # {} /\ HasValidCrc(b, ReplyLen(b))
NewRequest(b) == IsRead(b) /\ HasValidCrc(b, 8) /\ HeadRequest(b).count \in 1 .. MaxCount
MayBeReply(b) == IsRead(b) /\ b[3].v >= 2 /\ b[3].v % 2 = 0 /\ ReplyLen(b) <= MaxFrame
OtherReply(b) == MayBeReply(b) /\ HasValidCrc(b, ReplyLen(b))
WriteFrame(b) == ValidDevice(b[1].v) /\ b[2].v = 6 /\ HasValidCrc(b, 8)
Exception(b)  == ValidDevice(b[1].v) /\ b[2].v >= 128 /\ HasValidCrc(b, 5)

\* mutant of NeedMore: no limit to the length it waits for
WaitsForAny(b) ==
    Len(b) >= 4 =>
        \/ IsRead(b) /\ ~AskedReply(b) /\
              \/ Asked(b) # {} /\ Len(b) < ReplyLen(b)
              \/ Len(b) < 8
              \/ ~NewRequest(b) /\ b[3].v >= 2 /\ b[3].v % 2 = 0 /\ Len(b) < ReplyLen(b)
        \/ ValidDevice(b[1].v) /\ b[2].v = 6 /\ Len(b) < 8
        \/ ValidDevice(b[1].v) /\ b[2].v >= 128 /\ Len(b) < 5

\* PARSE_NEED_MORE: a frame may have started here whose end is not in yet.
NeedMore(b) ==
    Len(b) >= 4 =>
        \/ IsRead(b) /\ ~AskedReply(b) /\
              \/ Asked(b) # {} /\ Len(b) < ReplyLen(b)
              \/ Len(b) < 8
              \/ ~NewRequest(b) /\ MayBeReply(b) /\ Len(b) < ReplyLen(b)
        \/ ValidDevice(b[1].v) /\ b[2].v = 6 /\ Len(b) < 8
        \/ ValidDevice(b[1].v) /\ b[2].v >= 128 /\ Len(b) < 5

Covers(r) == r.fn = Type /\ Number \in r.start .. r.start + r.count - 1

\* The value of the register in a reply to r.
Value(b, r) == LET o == 2 * (Number - r.start) IN <<b[o + 4].v, b[o + 5].v>>

\* mutant of GapPassed: compares the seconds and forgets the fraction
WholeSeconds(t) == Gap = 0 \/ last = <<>> \/ t \div 2 - last[1] \div 2 >= Gap

\* elapsed_at_least_seconds, which borrows a second from the fraction.
GapPassed(t) ==
    \/ Gap = 0 \/ last = <<>>
    \/ t \div 2 - last[1] \div 2 - (IF t % 2 < last[1] % 2 THEN 1 ELSE 0) >= Gap

\* How far from the start of what was sent.
At(b) == sent - Len(bus) - Len(b)

\* process_matching_response and log_register_value.
LogValue(r) ==
    IF Covers(r) /\ GapPassed(now)
    THEN /\ log' = Append(log, [at |-> At(buf), dev |-> r.dev, value |-> Value(buf, r), time |-> now])
         /\ last' = IF Gap > 0 THEN <<now>> ELSE last
    ELSE UNCHANGED <<log, last>>

Parsing == ph = "parse" /\ ~NeedMore(buf)

\* The first request that fits is answered and leaves the queue.
TakeReply ==
    /\ Parsing /\ AskedReply(buf)
    /\ \E i \in Asked(buf) :
          /\ \A j \in Asked(buf) : i <= j
          /\ LogValue(pending[i])
          /\ pending' = SubSeq(pending, 1, i - 1) \o Drop(pending, i)
    /\ buf' = Drop(buf, ReplyLen(buf))
    /\ UNCHANGED <<ph, bus, now, line>>

\* mutant of Push: a full queue takes nothing
Refuses(q, r) == IF Len(q) = MaxPending THEN q ELSE Append(q, r)

\* mutant of Push: no limit
Unbounded(q, r) == Append(q, r)

\* pending_request_queue_push: a full queue gives up its oldest.
Push(q, r) == Append(IF Len(q) = MaxPending THEN Drop(q, 1) ELSE q, r)

TakeRequest ==
    /\ Parsing /\ ~AskedReply(buf) /\ NewRequest(buf)
    /\ pending' = Push(pending, HeadRequest(buf))
    /\ buf' = Drop(buf, 8)
    /\ UNCHANGED <<ph, bus, last, now, line, log>>

\* The other frames, which are passed over.
TakeOther ==
    /\ Parsing /\ ~AskedReply(buf) /\ ~NewRequest(buf)
    /\ \/ OtherReply(buf) /\ buf' = Drop(buf, ReplyLen(buf))
       \/ WriteFrame(buf) /\ buf' = Drop(buf, 8)
       \/ Exception(buf)  /\ buf' = Drop(buf, 5)
    /\ UNCHANGED <<ph, bus, pending, last, now, line, log>>

DropByte ==
    /\ Parsing /\ ~AskedReply(buf) /\ ~NewRequest(buf)
    /\ ~OtherReply(buf) /\ ~WriteFrame(buf) /\ ~Exception(buf)
    /\ buf' = Drop(buf, 1)
    /\ UNCHANGED <<ph, bus, pending, last, now, line, log>>

ParseEnd ==
    /\ ph = "parse" /\ NeedMore(buf)
    /\ ph' = "read"
    /\ UNCHANGED <<bus, buf, pending, last, now, line, log>>

\* A signal, or an error of the port.
Stop ==
    /\ ph = "read"
    /\ ph' = "stopped"
    /\ UNCHANGED <<bus, buf, pending, last, now, line, log>>

(* ---------------------------- specification ---------------------------- *)

Init ==
    /\ ph = "read" /\ buf = <<>> /\ pending = <<>> /\ last = <<>> /\ now = 0
    /\ bus \in Noise /\ sent = Len(bus)
    /\ open = NoRequest /\ frames = <<>> /\ log = <<>>

Line == ph = "read" /\ (MasterAsks \/ DeviceAnswers \/ Tick)

Logger ==
    \/ \E c \in Chunks : Read(c)
    \/ TakeReply \/ TakeRequest \/ TakeOther \/ DropByte \/ ParseEnd
    \/ Stop

Next == Line \/ Logger

Spec == Init /\ [][Next]_vars

(* ------------------------------ properties ----------------------------- *)

Pending == [dev : 1 .. 247, fn : {3, 4}, start : Word, count : 1 .. MaxCount]

Entry == [at : Int, dev : 1 .. 247, value : Byte \X Byte, time : Nat]

\* Every variable has its type, the buffer and the queue of requests stay within
\* the arrays they have in main, and a value that is logged was read inside the
\* frame.
TypeOK ==
    /\ ph \in {"read", "parse", "stopped"}
    /\ bus \in Seq(Cell) /\ buf \in Seq(Cell) /\ sent \in Nat
    /\ Len(buf) <= STREAM
    /\ pending \in Seq(Pending) /\ Len(pending) <= MaxPending
    /\ open \in Requests \cup {NoRequest}
    /\ last \in Seq(Nat) /\ now \in Nat
    /\ log \in Seq(Entry)

\* When the logger goes to read, its buffer has room for all a read can give, so
\* that no byte is ever given up, whatever is on the bus.
RoomForRead == ph = "read" => \A c \in Chunks : Len(buf) + c <= STREAM

Holds(k) == k.kind = "reply" /\ k.intact /\ Covers(k.req)

\* Each line of the log is the register's value in an undamaged reply of that
\* device to a request for that register.
LoggedIsTrue ==
    \A n \in DOMAIN log : \E i \in DOMAIN frames :
        /\ Holds(frames[i]) /\ frames[i].at = log[n].at /\ frames[i].req.dev = log[n].dev
        /\ log[n].value = <<Number % 256, frames[i].low>>

\* Parsed, with the request just before it undamaged too.
Heard(i) ==
    /\ i > 1 /\ frames[i - 1].kind = "request" /\ frames[i - 1].intact
    /\ frames[i].at + frames[i].len <= At(buf)

\* Two lines of the log are at least Gap seconds apart.
GapKept == \A n \in 2 .. Len(log) : log[n].time - log[n - 1].time >= 2 * Gap

\* Every undamaged reply that holds the register and whose request was heard is
\* logged as it is parsed, whatever was damaged or left unanswered before, unless
\* a line was logged less than Gap seconds before.
SkippedOnlyInGap ==
    [][\A i \in DOMAIN frames :
          Holds(frames[i]) /\ ~Heard(i) /\ Heard(i)' /\ log' = log =>
              log # <<>> /\ now - log[Len(log)].time < 2 * Gap]_vars
=============================================================================

---------------------------- MODULE ModbusProxy ----------------------------
(***************************************************************************)
(* tools/modbus_proxy.c between the inverter (the controller) and the      *)
(* battery (the device): one thread that polls two serial ports and the    *)
(* console, forwards the controller's bytes as they come, and holds the    *)
(* device's bytes until it can tell a frame, so that the registers of a    *)
(* reply can be overridden on the way.                                     *)
(*                                                                         *)
(* What is abstracted.  The bytes are those of ModbusFrames.  Overrides    *)
(* are a function from registers to values.                                *)
(* Every register of the device holds Held.  Left out: the log file, and   *)
(* a start with the two ports named in the other order, which is the same  *)
(* after detection.  Bound: MaxRequests.                                   *)
(***************************************************************************)
EXTENDS ModbusFrames, FiniteSets

CONSTANTS
    Requests,       \* what the controller may ask: [dev, fn, start, count]
    Answers,        \* what the device may do with a request: "reply", "exception", "silent"
    Damage,         \* what the line may do to a frame: "none", "crc", "id", "cut"
    Late,           \* whether the controller may ask again before an answer is through
    Noise,          \* what the bus port may hold when the proxy starts
    Held,           \* the two bytes of every register of the device
    Chunks,         \* how many bytes a read may ask for, READ_BUFFER_SIZE the most
    STREAM,         \* STREAM_BUFFER_SIZE
    Typed,          \* what is typed after set: [dev, fn, reg, value]
    MaxOverrides,   \* MAX_OVERRIDES
    MaxRequests

Command == [dev : Word, fn : {3, 4}, reg : Word, value : Byte \X Byte]

ASSUME BufferAssumption ==
    /\ STREAM \in Nat /\ MaxOverrides \in Nat
    /\ Chunks \subseteq 1 .. STREAM
    /\ \A s \in Noise : s \in Seq(Cell) /\ Len(s) <= STREAM
ASSUME ByteAssumption ==
    /\ Held \in Byte \X Byte
    /\ Requests \subseteq Request /\ Typed \subseteq Command
    /\ Damage \subseteq Damages

VARIABLES
    ph,         \* "detect", "loop", "up" or "down" (in a parse loop), "stopped"
    ready,      \* the ports poll() found readable and not yet handled; "scan" at the start
    ctl, bus,   \* bytes received at the two ports and not yet read
    up,         \* upstream_parse_buffer
    buf,        \* downstream_parse_buffer
    slot,       \* pending_request
    ovr,        \* overrides
    atDev,      \* bytes on the bus on their way to the device
    asked,      \* the requests the controller has sent: [req, intact, quiet]
    sent,       \* history: every byte the device side has sent
    replies,    \* history: the frames among them: [at, len, req, intact, data]
    fwd,        \* history: every byte written to the controller
    typed       \* history: the set commands taken

env == <<asked, sent, replies>>
vars == <<ph, ready, ctl, bus, up, buf, slot, ovr, atDev, asked, sent, replies, fwd, typed>>

\* The bytes of n registers.
RegisterBytes(n) == [i \in 1 .. 2 * n |-> Held[1 + ((i - 1) % 2)]]

(* ---------------------- the controller and the device ------------------ *)

\* Nothing is on its way in either direction and the proxy waits in poll().
Quiet == atDev = <<>> /\ bus = <<>> /\ ready = {} /\ ph \in {"detect", "loop"}

ControllerAsks ==
    /\ Len(asked) < MaxRequests /\ ctl = <<>> /\ ph # "stopped"
    /\ Late \/ Quiet
    /\ \E r \in Requests, how \in Damage :
          /\ ctl' = Damaged(RequestFrame(r), how)
          /\ asked' = Append(asked, [req |-> r, intact |-> how = "none", quiet |-> Quiet])
    /\ UNCHANGED <<ph, ready, bus, up, buf, slot, ovr, atDev, sent, replies, fwd, typed>>

Sends(r, f, how, data) ==
    /\ bus' = bus \o Damaged(f, how)
    /\ sent' = sent \o Damaged(f, how)
    /\ replies' = Append(replies, [at |-> Len(sent), len |-> Len(Damaged(f, how)), req |-> r,
                                   intact |-> how = "none", data |-> data])

\* The device takes a frame when the line falls silent.
DeviceAnswers ==
    /\ atDev # <<>> /\ ctl = <<>> /\ ph # "stopped"
    /\ \/ \E r \in Requests, how \in Damage :
             /\ atDev = RequestFrame(r)
             /\ \/ "reply" \in Answers /\ Sends(r, ReplyFrame(r, RegisterBytes(r.count)), how, r.fn # 6)
                \/ "exception" \in Answers /\ Sends(r, ExceptionFrame(r), how, FALSE)
       \/ /\ "silent" \in Answers \/ \A r \in Requests : atDev # RequestFrame(r)
          /\ UNCHANGED <<bus, sent, replies>>
    /\ atDev' = <<>>
    /\ UNCHANGED <<ph, ready, ctl, up, buf, slot, ovr, asked, fwd, typed>>

(* ----------------------- the controller's requests --------------------- *)

\* As has_valid_request_frame and consume_upstream_requests check it.
IsReadRequest(b) ==
    /\ Len(b) >= 8
    /\ ValidDevice(b[1].v) /\ b[2].v \in {3, 4}
    /\ HasValidCrc(b, 8)
    /\ HeadRequest(b).count \in 1 .. 125

HasRequest(b) == \E i \in 0 .. Len(b) - 8 : IsReadRequest(Drop(b, i))

\* One pass of the detection loop: a chunk from each port that has one, dropped
\* if the buffer has no room; bytes seen here are not forwarded.
DetectRead(c, d) ==
    LET k == Least(c, Len(ctl))
        n == Least(d, Len(bus))
        up1  == IF Len(up) + k <= STREAM THEN up \o SubSeq(ctl, 1, k) ELSE up
        buf1 == IF Len(buf) + n <= STREAM THEN buf \o SubSeq(bus, 1, n) ELSE buf
    IN  /\ ph = "detect" /\ k + n > 0
        /\ ctl' = Drop(ctl, k) /\ bus' = Drop(bus, n)
        /\ up' = up1 /\ buf' = buf1
        /\ IF HasRequest(up1)
           THEN ph' = "up" /\ ready' = {"scan"}
           ELSE UNCHANGED <<ph, ready>>
        /\ UNCHANGED <<slot, ovr, atDev, env, fwd, typed>>

Poll ==
    /\ ph = "loop" /\ ready = {}
    /\ ready' = {p \in {"ctl", "bus"} : (IF p = "ctl" THEN ctl ELSE bus) # <<>>}
    /\ ready' # {}
    /\ UNCHANGED <<ph, ctl, bus, up, buf, slot, ovr, atDev, env, fwd, typed>>

\* A chunk from the controller goes to the bus at once, and to the parse buffer,
\* which gives up its oldest bytes when it is full.
ReadController(c) ==
    LET k == Least(c, Len(ctl))
        over == Len(up) + k - STREAM
    IN  /\ ph = "loop" /\ "ctl" \in ready
        /\ ctl' = Drop(ctl, k)
        /\ atDev' = atDev \o SubSeq(ctl, 1, k)
        /\ up' = (IF over > 0 THEN Drop(up, over) ELSE up) \o SubSeq(ctl, 1, k)
        /\ ph' = "up" /\ ready' = ready \ {"ctl"}
        /\ UNCHANGED <<bus, buf, slot, ovr, env, fwd, typed>>

ScanRequest ==
    /\ ph = "up" /\ IsReadRequest(up)
    /\ slot' = HeadRequest(up)
    /\ up' = Drop(up, 8)
    /\ UNCHANGED <<ph, ready, ctl, bus, buf, ovr, atDev, env, fwd, typed>>

\* mutant of ScanSkip: drops a frame's length at a time and loses its place
SkipsEight ==
    /\ ph = "up" /\ Len(up) >= 8 /\ ~IsReadRequest(up)
    /\ up' = Drop(up, 8)
    /\ UNCHANGED <<ph, ready, ctl, bus, buf, slot, ovr, atDev, env, fwd, typed>>

ScanSkip ==
    /\ ph = "up" /\ Len(up) >= 8 /\ ~IsReadRequest(up)
    /\ up' = Drop(up, 1)
    /\ UNCHANGED <<ph, ready, ctl, bus, buf, slot, ovr, atDev, env, fwd, typed>>

\* At the start the bytes from the bus are parsed next, otherwise the loop goes on.
ScanEnd ==
    /\ ph = "up" /\ Len(up) < 8
    /\ ph' = IF "scan" \in ready /\ buf # <<>> THEN "down" ELSE "loop"
    /\ ready' = ready \ {"scan"}
    /\ UNCHANGED <<ctl, bus, up, buf, slot, ovr, atDev, env, fwd, typed>>

(* ------------------------- the device's replies ------------------------ *)

\* mutant of ReadBus: makes room as ReadController does, the oldest bytes are lost
LosesOldest(c) ==
    LET k == Least(c, Len(bus))
        over == Len(buf) + k - STREAM
    IN  /\ ph = "loop" /\ "bus" \in ready /\ "ctl" \notin ready
        /\ bus' = Drop(bus, k)
        /\ buf' = (IF over > 0 THEN Drop(buf, over) ELSE buf) \o SubSeq(bus, 1, k)
        /\ ph' = "down" /\ ready' = ready \ {"bus"}
        /\ UNCHANGED <<ctl, up, slot, ovr, atDev, env, fwd, typed>>

\* mutant of ReadBus: makes no room
NoRoomMade(c) ==
    LET k == Least(c, Len(bus))
    IN  /\ ph = "loop" /\ "bus" \in ready /\ "ctl" \notin ready
        /\ bus' = Drop(bus, k)
        /\ buf' = buf \o SubSeq(bus, 1, k)
        /\ ph' = "down" /\ ready' = ready \ {"bus"}
        /\ UNCHANGED <<ctl, up, slot, ovr, atDev, env, fwd, typed>>

\* A chunk from the bus; when the buffer is full its oldest bytes go on unparsed.
ReadBus(c) ==
    LET k == Least(c, Len(bus))
        over == Len(buf) + k - STREAM
        n == IF over > 0 THEN over ELSE 0
    IN  /\ ph = "loop" /\ "bus" \in ready /\ "ctl" \notin ready
        /\ bus' = Drop(bus, k)
        /\ fwd' = fwd \o SubSeq(buf, 1, n)
        /\ buf' = Drop(buf, n) \o SubSeq(bus, 1, k)
        /\ ph' = "down" /\ ready' = ready \ {"bus"}
        /\ UNCHANGED <<ctl, up, slot, ovr, atDev, env, typed>>

\* write_all fails after n of the bytes that make room: the chunk is lost, and the
\* proxy ends.
MakingRoomFails(c) ==
    LET k == Least(c, Len(bus))
        over == Len(buf) + k - STREAM
    IN  /\ ph = "loop" /\ "bus" \in ready /\ "ctl" \notin ready
        /\ over > 0
        /\ \E n \in 0 .. over - 1 : fwd' = fwd \o SubSeq(buf, 1, n)
        /\ bus' = Drop(bus, k)
        /\ ph' = "stopped"
        /\ UNCHANGED <<ready, ctl, up, buf, slot, ovr, atDev, env, typed>>

IsRead(b) == b[2].v \in {3, 4}
Wanted(b) == slot # NoRequest /\ b[1].v = slot.dev /\ b[2].v = slot.fn

\* The length of the frame that starts here, 0 when none can.
ResponseLen(b) ==
    IF ~ValidDevice(b[1].v) THEN 0
    ELSE CASE IsRead(b)        -> IF Wanted(b) THEN 2 * slot.count + 5 ELSE 0
           [] b[2].v = 6       -> 8
           [] b[2].v >= 128    -> 5
           [] OTHER            -> 0

\* mutant of FrameHere: takes a frame by its length
FrameByLength(b) == ResponseLen(b) > 0 /\ Len(b) >= ResponseLen(b)

\* A whole frame is at the head.
FrameHere(b) == ResponseLen(b) > 0 /\ HasValidCrc(b, ResponseLen(b))

\* mutant of NeedMore: waits for one byte more than the frame has
NeedsOneMore(b) ==
    Len(b) >= 4 =>
        /\ ResponseLen(b) > 0
        /\ Len(b) <= ResponseLen(b) \/ (IsRead(b) /\ ~FrameHere(b))

\* CONSUME_NEED_MORE: too short to tell; or a reply to the pending request is
\* expected here, even if enough bytes are there and their CRC does not match.
NeedMore(b) ==
    Len(b) >= 4 =>
        /\ ResponseLen(b) > 0
        /\ Len(b) < ResponseLen(b) \/ (IsRead(b) /\ ~FrameHere(b))

\* mutant of Overridden: looks up the register after the one it changes
NextRegister(f, r) ==
    LET n == Len(f) - 2
        Register(i) == <<r.dev, r.fn, (r.start + ((i - 2) \div 2)) % 65536>>
        values == [i \in 1 .. n |->
            IF i \in 4 .. 2 * r.count + 3 /\ Register(i) \in DOMAIN ovr
            THEN ovr[Register(i)][1 + (i % 2)] ELSE f[i].v]
    IN  Frame(values)

\* apply_overrides_to_response: the registers of the pending request, and a new CRC.
Overridden(f, r) ==
    LET n == Len(f) - 2
        Register(i) == <<r.dev, r.fn, (r.start + ((i - 4) \div 2)) % 65536>>
        values == [i \in 1 .. n |->
            IF i \in 4 .. 2 * r.count + 3 /\ Register(i) \in DOMAIN ovr
            THEN ovr[Register(i)][1 + (i % 2)] ELSE f[i].v]
    IN  IF values = ValuesOf(SubSeq(f, 1, n)) THEN f ELSE Frame(values)

\* What process_downstream_buffer writes next: a frame or a single byte.
Outgoing(b) ==
    IF FrameHere(b)
    THEN LET f == SubSeq(b, 1, ResponseLen(b)) IN IF IsRead(b) THEN Overridden(f, slot) ELSE f
    ELSE SubSeq(b, 1, 1)

Forward ==
    /\ ph = "down" /\ ~NeedMore(buf)
    /\ fwd' = fwd \o Outgoing(buf)
    /\ buf' = Drop(buf, Len(Outgoing(buf)))
    /\ slot' = IF FrameHere(buf) /\ IsRead(buf) THEN NoRequest ELSE slot
    /\ UNCHANGED <<ph, ready, ctl, bus, up, ovr, atDev, env, typed>>

ForwardEnd ==
    /\ ph = "down" /\ NeedMore(buf)
    /\ ph' = "loop"
    /\ UNCHANGED <<ready, ctl, bus, up, buf, slot, ovr, atDev, env, fwd, typed>>

\* write_all fails after n bytes: the proxy ends.
ForwardFails ==
    /\ ph = "down" /\ ~NeedMore(buf)
    /\ \E n \in 0 .. Len(Outgoing(buf)) - 1 : fwd' = fwd \o SubSeq(Outgoing(buf), 1, n)
    /\ ph' = "stopped"
    /\ UNCHANGED <<ready, ctl, bus, up, buf, slot, ovr, atDev, env, typed>>

(* ----------------------------- the console ----------------------------- *)

\* The console is read last in each pass of the loop.
AtConsole == ph = "loop" /\ ready = {}

\* parse_device_id checks the number after it is cut to eight bits.
ParsedDevice(d) == d % 256

SetOverride(o) ==
    LET key == <<ParsedDevice(o.dev), o.fn, o.reg>>
    IN  /\ AtConsole
        /\ ValidDevice(ParsedDevice(o.dev))
        /\ key \in DOMAIN ovr \/ Cardinality(DOMAIN ovr) < MaxOverrides
        /\ ovr' = [k \in DOMAIN ovr \cup {key} |-> IF k = key THEN o.value ELSE ovr[k]]
        /\ typed' = typed \cup {o}
        /\ UNCHANGED <<ph, ready, ctl, bus, up, buf, slot, atDev, env, fwd>>

ClearOverride(key) ==
    /\ AtConsole /\ key \in DOMAIN ovr
    /\ ovr' = [k \in DOMAIN ovr \ {key} |-> ovr[k]]
    /\ UNCHANGED <<ph, ready, ctl, bus, up, buf, slot, atDev, env, fwd, typed>>

\* quit, the end of stdin, a signal, or an error of a port.
Stop ==
    /\ ph \in {"detect", "loop"}
    /\ ph' = "stopped"
    /\ UNCHANGED <<ready, ctl, bus, up, buf, slot, ovr, atDev, env, fwd, typed>>

(* ---------------------------- specification ---------------------------- *)

Init ==
    /\ ph = "detect" /\ ready = {}
    /\ ctl = <<>> /\ up = <<>> /\ buf = <<>> /\ atDev = <<>>
    /\ bus \in Noise /\ sent = bus
    /\ slot = NoRequest /\ ovr = [k \in {} |-> <<0, 0>>]
    /\ asked = <<>> /\ replies = <<>> /\ fwd = <<>> /\ typed = {}

Proxy ==
    \/ \E c \in Chunks, d \in Chunks : DetectRead(c, d)
    \/ Poll
    \/ \E c \in Chunks : ReadController(c) \/ ReadBus(c) \/ MakingRoomFails(c)
    \/ ScanRequest \/ ScanSkip \/ ScanEnd
    \/ Forward \/ ForwardEnd \/ ForwardFails
    \/ \E o \in Typed : SetOverride(o)
    \/ \E key \in DOMAIN ovr : ClearOverride(key)
    \/ Stop

Next == ControllerAsks \/ DeviceAnswers \/ Proxy

Spec == Init /\ [][Next]_vars

(* ------------------------------ properties ----------------------------- *)

Key == Byte \X {3, 4} \X Word
SlotValue == [dev : 1 .. 247, fn : {3, 4}, start : Word, count : 1 .. 125]

\* Every variable has its type, and neither parse buffer nor the table of
\* overrides outgrows the array it has in main.
TypeOK ==
    /\ ph \in {"detect", "loop", "up", "down", "stopped"}
    /\ ready \subseteq {"ctl", "bus", "scan"}
    /\ ctl \in Seq(Cell) /\ bus \in Seq(Cell) /\ up \in Seq(Cell) /\ buf \in Seq(Cell)
    /\ atDev \in Seq(Cell) /\ sent \in Seq(Cell) /\ fwd \in Seq(Cell)
    /\ Len(up) <= STREAM /\ Len(buf) <= STREAM
    /\ slot \in SlotValue \cup {NoRequest}
    /\ DOMAIN ovr \subseteq Key /\ Cardinality(DOMAIN ovr) <= MaxOverrides
    /\ ovr \in [DOMAIN ovr -> Byte \X Byte] /\ IsFiniteSet(DOMAIN ovr)
    /\ typed \subseteq Command

\* Whatever is damaged, cut short or held back, and however the bytes are cut
\* into reads, the proxy sends the controller each byte of the device once and
\* in order: what it has written, what it holds and what it has not read yet are
\* what was sent, as many bytes always and the same bytes until an override is set.
InOrder ==
    /\ ph # "stopped" => Len(fwd) + Len(buf) + Len(bus) = Len(sent)
    /\ Len(fwd) <= Len(sent)
    /\ typed = {} => /\ fwd = SubSeq(sent, 1, Len(fwd))
                     /\ ph # "stopped" => fwd \o buf \o bus = sent

Slice(b, k) == SubSeq(b, k.at + 1, k.at + k.len)

\* The CRC tells the controller the truth: a reply that was damaged on the line
\* is never sent on with a CRC that matches, and one that was not always is,
\* with or without overrides and in whatever pieces it went through.
DamageStaysVisible ==
    \A i \in DOMAIN replies :
        LET k == replies[i]
        IN  k.at + k.len <= Len(fwd) => (k.intact <=> HasValidCrc(Slice(fwd, k), k.len))

Latest ==
    LET reads == {i \in DOMAIN asked : asked[i].intact /\ asked[i].req.fn # 6}
    IN  IF reads = {} THEN NoRequest
        ELSE asked[CHOOSE i \in reads : \A j \in reads : j <= i].req

\* Once it has parsed what the controller sent, the proxy is waiting for the
\* answer to the controller's latest request or for none, whatever damage came
\* before it: one bad frame does not make the parser lose its place.
SlotIsLatest == ph = "loop" /\ ctl = <<>> => slot \in {NoRequest, Latest}

\* The proxy holds nothing: when it has read all that the device sent, the
\* controller has all of it.
NothingHeldBack == ph = "loop" /\ ready = {} /\ bus = <<>> => buf = <<>>

\* So far every request and reply was whole, the controller has waited for each
\* answer and nothing else was on the line; FC=4 is not read.
Undamaged ==
    /\ \A i \in DOMAIN asked : asked[i].intact /\ asked[i].quiet /\ asked[i].req.fn # 4
    /\ \A i \in DOMAIN replies : replies[i].intact
    /\ IF replies = <<>> THEN sent = <<>> ELSE replies[1].at = 0

\* As long as nothing is damaged, late or unknown to it the proxy holds nothing
\* back between frames, however the bytes are cut into reads.
HeldBackOnlyIfDamaged == Undamaged => NothingHeldBack

Sent(k, i) == <<k.req.dev, k.req.fn, k.req.start + i>>
Got(b, k, i) == LET p == k.at + 3 + 2 * i IN <<b[p + 1].v, b[p + 2].v>>

\* On an undamaged line a reply has in each of its registers the override in force
\* at the moment it goes through, or the device's value if there is none.
OverridesApplied ==
    [][Undamaged => \A i \in DOMAIN replies :
          LET k == replies[i]
          IN  k.data /\ k.intact /\ Len(fwd) < k.at + k.len /\ k.at + k.len <= Len(fwd') =>
                 \A n \in 0 .. k.req.count - 1 :
                    Got(fwd', k, n) = IF Sent(k, n) \in DOMAIN ovr THEN ovr[Sent(k, n)] ELSE Held]_vars

\* An override changes the register it was set for and no other.
OverrideHitsItsRegister ==
    \A i \in DOMAIN replies :
        LET k == replies[i]
        IN  k.data /\ k.intact /\ k.req.fn = 3 /\ k.at + k.len <= Len(fwd) =>
               \A n \in 0 .. k.req.count - 1 :
                  \/ Got(fwd, k, n) = Held
                  \/ \E o \in typed : /\ <<o.dev, o.fn, o.reg>> = Sent(k, n)
                                     /\ Got(fwd, k, n) = o.value
=============================================================================

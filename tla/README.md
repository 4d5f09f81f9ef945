# Formal models of bms-analysis

bms-analysis records and analyses the RS485 bus between a GivEnergy inverter (the Modbus
controller) and its battery. This directory holds TLA+ models of the parts of it that keep state:
the capture box, which records around the clock on a Raspberry Pi whose power may be cut at any
moment, the tools that sit on the bus, and the tools that read what was recorded. TLC checks the
models on small instances; TLAPS proves every safety property that these runs check for every instance
that meets the hypotheses named [below](#proofs). Liveness is model-checked only.

Contents: [inventory](#inventory), [plan](#plan), [modules](#modules), [runs](#runs),
[fairness](#fairness), [proofs](#proofs), [findings](#findings), [what is not
modelled](#what-is-not-modelled), [running it](#running-it).

## Inventory

| Component | State it keeps | Operations | Talks to | What is hard |
|---|---|---|---|---|
| `tools/serial_hexdump_logger.c` (wire logger) | the open file and its path | start with a marker, read and stamp, switch file at midnight, append, stop | serial port, capture directory | keeps a file open over midnight while compression removes it; starts before the clock is right; a cut-off line after a power cut; errors of a write are not checked |
| `tools/mqtt_logger.py` (snapshot logger) | fields, dirty flag, expected fields, warm-up and write times, watchdog, first serial | connect, message, update, poll, copy, append, stall exit, restart | MQTT broker, capture directory, systemd | two threads; a copy under the lock and an append outside it; restart with only the files to tell what to wait for |
| `capture-box/givcap-compress` and its timer | the day's files, plain and `.gz` | find finished days, gzip, sync, rm | capture directory, page cache, card | power cut between any two steps; one failed file of several; missed runs |
| `capture-box/givcap-netcheck` and its timer | two counters in /run | check gateway, restart connection, switch radio | NetworkManager | restarting a connection that is just coming back; power cut with the radio off |
| capture box units, `setup.sh` | which services run, the clock | boot, time sync, start, restart | all of the above | no hardware clock |
| `tools/modbus_proxy.c` | two parse buffers, pending request, overrides | detect ports, forward, parse, override, console | inverter, battery, operator | frames cut anywhere; damaged and late replies; full buffers |
| `tools/modbus_register_logger.c` | stream buffer, queue of 32 pending requests, time of the last line | find frames, match replies with requests, log a register | bus, log file | lost replies, full queue, resynchronisation |
| `tools/parse_log.py` | role of each frame by position | frame bytes, resynchronise, pair requests with replies | wire log | a lost frame changes every role after it |
| `tools/extract_fields.py` | last known registers, last row and its time | pair, take fields, write CSV | wire log | exception replies, fields across registers, rows left out |
| `tools/join_streams.py` | none (batch) | read streams, as-of join | wire log, snapshots, tags | damaged lines after a power cut |
| `tools/capture_checks.py` | none (batch) | classify gaps, statistics | joined capture | start marker after a cut-off line |
| `tools/tag.py` | last seen state | tail snapshots, emit tags | snapshot file | half-written and cut-off lines |
| `tools/tcp_poller.py` | none | poll, append, sleep | inverter, capture directory | an error ends it |
| `tools/givcap_status.py` | none | find the last whole line | capture directory | lines longer than the window, cut-off lines |
| `tools/decode_fields.py` | none | fields of a reply | frames | signs, lengths |
| `tools/redact.py`, `tools/pace_reference.py`, notebook | none | pure functions and tables | - | - |

How they interact. On the box the two loggers append to `~/captures/<UTC day>/wire.log` and
`tcp.ndjson`. At 00:30 UTC, or at boot after a missed run, `givcap-compress` replaces the files of
earlier days. Nothing locks: a logger and a run share a day only in what the clock keeps apart.
systemd starts both loggers after the clock is set and restarts them whenever they end. The proxy
and the register logger are used on a bench, the first in the path of the bus and the second beside
it. The Python tools read the files afterwards.

What makes each part correct:

- Capture store: a line that was written can be read back, and a line on the card stays; a finished
  day gets no more lines; every finished day is compressed in the end; exit status 0 means done.
- Snapshot logger: no update is lost between the threads; a record never has fewer columns than the
  one before it unless the warm-up ran out; a process that hears nothing ends.
- Proxy: each byte goes through once and in order; a reply has exactly the overrides in force; damage
  stays visible to the inverter; bad frames do not make the parser lose its place.
- Register logger: a value logged is the register's, and none is passed over but in the gap.
- Parsers: every frame recorded whole is found, in its role, whatever is lost around it; a pair is one
  exchange; a row of the CSV shows the last value heard of each register.
- Readers: what the loggers wrote is read back, and a power cut costs only the lines next to it.
- Wi-Fi check: it acts only after as many checks in a row as it promises, and it does act.

## Plan

Written, in the order of their importance:

1. `CaptureStore`, `DurableLog` and their properties and proofs: the directory both loggers and the
   compression run share, shown to implement what a log directory promises.
2. `MqttLogger` and its proofs: two threads and a restart.
3. `ModbusFrames`, `ModbusProxy`, `RegisterLogger` and their proofs: the tools on the bus.
4. `WireParser`, `RegisterCsv`, `WireProperties`: from the log of a bus with faults to pairs, values
   and rows. `RegisterCsv` extends the parser, so that what is checked is the way from the bus to the CSV.
5. `CaptureFiles`, `CampaignTools`, `CampaignProperties`: the files that the loggers, the poller and
   `tag.py` append to over power cuts, and the tools that read them. A poll is one line here; what its
   frames are is the subject of 4, and what becomes of the whole files that of 1.
6. `NetCheck` and its proofs.

Left for later, in this order: a card that is full (write errors are not checked by either logger, so any
line may be cut), and the harm of power cuts to more than the last line of a file.

## Modules

| Module | Models | Role |
|---|---|---|
| `CaptureStore` | loggers' file handling, `givcap-compress`, its timer, clock, page cache, power loss | specification |
| `DurableLog` | nothing in the code: what a log directory promises | abstract specification |
| `CaptureStoreProperties` | - | properties of the store, refinement mapping, inductive invariant |
| `CaptureStoreProofs` | - | theorems and proofs |
| `MCCaptureStore` | - | instance for TLC |
| `MqttLogger` | `tools/mqtt_logger.py`, its unit | specification and properties |
| `MqttLoggerProofs` | - | theorems and proofs |
| `MCMqttLogger` | - | instances for TLC |
| `ModbusFrames` | the frames of the bus, their CRC and damage | shared definitions |
| `ModbusFramesProofs` | - | lemmas about them |
| `ModbusProxy` | `tools/modbus_proxy.c` | specification and properties |
| `ModbusProxyProofs` | - | theorems and proofs |
| `MCModbusProxy` | - | instances for TLC |
| `RegisterLogger` | `tools/modbus_register_logger.c` | specification and properties |
| `RegisterLoggerProofs` | - | theorems and proofs |
| `MCRegisterLogger` | - | instances for TLC |
| `Selection` | what a loop over a sequence keeps of it | shared definition, by rank so that it can be reasoned about |
| `WireParser` | `load_byte_stream`, `parse_frames`, `pair_request_response` of `tools/parse_log.py` and `tools/extract_fields.py` | specification |
| `RegisterCsv` | the rest of `tools/extract_fields.py`, latencies of `parse_log`, `tools/decode_fields.py` | specification, extends `WireParser` |
| `WireProperties` | - | what was said on the bus, and properties |
| `WireProofs` | - | theorems and proofs |
| `MCWire` | - | instance for TLC |
| `CaptureFiles` | the files of a campaign; `tools/tcp_poller.py`, `tools/tag.py`, start markers, power cuts | specification |
| `CampaignTools` | `tools/join_streams.py`, gaps of `tools/capture_checks.py`, `tools/givcap_status.py`, `detect_changes` | definitions |
| `CampaignProperties` | - | properties |
| `CampaignProofs` | - | theorems and proofs |
| `MCCampaign` | - | instances for TLC |
| `NetCheck` | `capture-box/givcap-netcheck`, its timer | specification and properties |
| `NetCheckProofs` | - | theorems and proofs |

Definitions with a comment that starts with "Mutant" stand next to the definition they change. They are no
part of the specification: each is a plausible bug, with which the property named in `PROJECT.json`
fails.

### CaptureStore

A file is `<<day, log>>`. `srcC`/`srcD` are the plain files as programs see them (page cache) and as
they are on the card, `gzC`/`gzD` the `.gz` files. A power loss copies the card to the cache.

| Code | Model |
|---|---|
| read() and `now_utc` in the wire logger, the stamp in `maybe_write` | `Stamp(g)` puts a line with its day in `pend[g]` |
| `ensure_log_open`, `log_hexdump`, `_append` | `Append(g)`; a write to a file held open after it was unlinked goes to no file |
| start of the wire logger, with its marker line | `LoggerStart(g)` |
| every way out of a logger | `LoggerExit(g)` |
| `After=time-sync.target` | `MayStart` |
| the three comparisons of `givcap-compress`, `gzip -kf`, `sync`, `rm`, `exit` | `Finished`, `RunStart`, `GzipStart`, `GzipOk`, `GzipFail`, `Sync`, `Rm`, `RunDone`, `RunExit`, in the script's order |
| a gzip, sync or rm that fails (`failed=1`, `set -e`) | `GzipFail`, `SyncFail`, `RmFail(f)` |
| `OnCalendar=*-*-* 00:30:00 UTC`, `Persistent=true` | `Settled`, `lastRun` |
| kernel writeback in any order, ext4 names before data | `WritebackSrc`, `WritebackGz` |
| power cut and boot | `PowerLoss`: clock back to some earlier day, timer stamp old, nothing in memory |

`Settled` is an assumption about time, not about the code's order: when a run starts, half an hour
into the day, no logger still has a line of an earlier day to write (a line is written within
milliseconds of its stamp) and the kernel, which writes dirty pages within about 30 s, has written
the plain files of earlier days back. After a boot both hold as nothing is in memory. Without it
`Inductive` fails (that is its mutant): the half hour in the timer is what keeps a
run and a logger apart.

The lines of a file are a set since nothing here reads their order; the order and
damage of lines within a file are the subject of `CaptureFiles`.

### MqttLogger

One action per critical section: `Feed` and `Update` are the two halves of `on_message` (the
watchdog, then the update under the lock), `Copy` is what `maybe_write` does under the lock and
`Append` what it does outside. `Hold` is the first early return, which starts the warm-up. `Start`
reads the expected fields from the plain files of today and yesterday. A stall or a failed write
(`StallExit`, `AppendFails`) leaves the loop (`Stops`) for `loop_stop`, which joins paho's thread, so that the message in
hand is still taken in before the process ends (`Joined`); a power loss or a signal ends it at once (`Killed`). `Ended` is
the end, and loses all that was in memory. Times are ages in ticks held at the limit they are compared with, so time needs no bound.
Names are topics, and one canonical name that the first pack claims (`FieldNamer`). `link = "dead"`
is a broker or network thread that has gone quiet without an error. `newest` is history.

### ModbusProxy

Bytes are the cells of `ModbusFrames`: a value, and for CRC bytes what the CRC was computed over. A CRC then matches only
its own bytes, while its two values, `CrcLo` and `CrcHi`, can be chosen to look like the start of
another frame, as the registers' bytes (`Held`) are; the runs do both. One action per pass of a loop:
`DetectRead` (detection; bytes seen there are not forwarded), `Poll`, `ReadController` with
`ScanRequest`, `ScanSkip`, `ScanEnd` (`consume_upstream_requests`), `ReadBus` (with the
overflow that sends the oldest bytes on, and `MakingRoomFails` when that write ends in the middle) with `Forward`, `ForwardEnd`, `ForwardFails`
(`process_downstream_buffer`), and the console's `SetOverride` and `ClearOverride`. `ready` holds the
order of one pass of the main loop: controller, bus, console.

`ControllerAsks` and `DeviceAnswers` are the inverter and the battery. FC=4 replies have the layout
of docs/01-protocol.md. `Late` says whether the inverter may ask again before an answer is through;
`Damage` what the line does to a frame. `sent`, `replies`, `fwd`, `asked` and `typed` are history.

### RegisterLogger

It reads the same cells. `MasterAsks` and `DeviceAnswers` are the bus it listens to, on which the inverter
asks one thing at a time and may get no answer; `Tick` is the clock, in halves of a second. `Read(c)` is
one `read()` of at most `c` bytes with the branch that gives up the oldest. Then `try_consume_frame` runs
until it needs more: `TakeReply` (a reply to a pending request: log it, remove the request), `TakeRequest`
(queue it), `TakeOther` (a frame passed over), `DropByte`, and `ParseEnd` (`PARSE_NEED_MORE`). `Stop` is
every way out. `NeedMore`, `AskedReply`, `NewRequest` and `OtherReply` follow the order of the returns of
`try_consume_frame`. `sent`, `frames` and `log` are history: what was on the bus, where each frame
began, and the lines, each with the place on the bus where its value came from.

### WireParser and RegisterCsv

`parse_log.py` and `extract_fields.py` hold the same reader and parser; they differ in what they pair
(`IsPair`, `IsPairOrException`). The behaviour has three phases. In "bus", `Exchange` lets the inverter ask
and the battery answer, with data, an exception or not at all, and says what is left of each frame in the
log (`Recorded`): whole on one line or on two, with a damaged byte, cut after its first line, or lost; the
log may begin inside a request. `Load` is `load_byte_stream`. In "parse" each pass of the loop of
`parse_frames` is `Found` or `Resync`; `TryDecode` gives the length of the frame of a role at the place
reached, if there is one, and `FrameLength` is the part before its CRC. `Pair` is the first loop of
`write_register_state_csv` with the arguments of the run (`filter`, `gap`), and in "rows" each pass of its
second loop is `WriteRow` or `LeaveOut`.

A register spec is a record: mode, pattern with `Wild`, byte offset. Columns are a set, since every row
has all; the place of a bit in a plot, which the code adds to its cell, is left out. `Reading` is what
the battery holds, a different value for each register and, with `level`, one of each sign.
`HrLayout` and `IrLayouts` are the blocks of `decode_fields`, scaled down to two and three registers. Between them
they have a field of each kind that the code reads: byte, word and double word, signed and unsigned, and ASCII text; and
as in the code's second FC=4 block there are double words at an odd byte, a signed one among them. A 32-bit unsigned
number is the pair of its halves, as TLC's integers end at 31 bits.

Not in the model: a CRC that matches by accident, and which of two FC=6 frames alike is the request, which the
code cannot tell either; the properties about roles and pairs leave FC=6 out.

### CaptureFiles and CampaignTools

A file is a sequence of lines, and a line a sequence of fragments, of which only the file's last may be
without its newline. `Appended` adds to that fragment or begins a line; `Harmed` is what a power cut
leaves of the last line, if it was written since the last boot: all, all but the newline, a part that has
the time of the line, a part that ends inside the time, NULs, nothing. A poll, request and reply, is one
line.

| Code | Model |
|---|---|
| start marker of the wire logger, its read loop | `Boot`, `Poll` |
| `poll_loop`: time taken, fetch, append; its ends | `AskInverter`, `Answered`, `PollFails`; started again at boot |
| `write_tag`, manual mode | `WriteTag`, `ManualTag` |
| `_tail_records`, `_run_auto` | `StartTail`, `ReadLine`, which may come upon a line half written |
| `load_wire_records`, `logger_starts` | `WireLines` after `WithoutNuls` |
| `load_tcp_records`, `load_tag_records` | `LoadRecords`: what is glued or cut is no JSON |
| `merge_asof` backward, `join_streams` | `AsOf`, `JoinStreams` |
| `cold_boots` | `ColdBoots`, `Kind` |
| `last_line_time` with its growing windows | `LinesInWindow`, `LastLineTime`, `ParseLineTime` |
| `detect_changes` | `DetectChanges`, which is also the reference for the tail |

The readers may be run at any moment, so what they return is a function of the state and the properties
are invariants. `written`, `outages`, `half` and `from` are history. The files are those of one day.

### NetCheck

Each command of the script is an action, in its order: the ping, the look at the device, the look-up of the
connection (`FindsConnection`, `FindsNone`), `con down`, `con up`, radio off, radio on, and the write of the counts; and
`ConDownFails`, `RadioOffFails` and `RadioOnFails` beside those that change something. `Connects`,
`Drops`, `FallsSilent` and `AnswersAgain` come between any two of them. `retrying` says whether
NetworkManager tries by itself; it may have given up after a drop or a `con down`. `Boot` is a power cut:
/run is empty then, but NetworkManager remembers a radio that was off. The gateway is reached over Wi-Fi
only. `run` is history: how many checks in a row found the same since the script last acted on it.

## Runs

| Run | Checks | Bounds and why they are enough |
|---|---|---|
| `capture_store` | `Inductive` (of which `TypeOK` is a part), `ReadBack`, `NoEmptyGzWithoutSource`, `SourceGoneOnlyWhenOnCard`, `ExitZeroMeansDone`, `FinishedStaysFinished`, `DurableSafety`, `FinishedDaysCompressed`, `DurableLiveness` | two logs (one held open, one not), two lines, three days: a run may fail one file and remove another, a day may be compressed twice, the clock may be behind by more than a day; lines lost are used again. No symmetry, as there is liveness |
| `mqtt_logger` | `TypeOK`, `NoColumnBlanked`, `ValueReachesDisk`, `QuietProcessEnds` | two packs, two days, one value (the code compares no values; a first update takes the same path as a later one): any number of restarts, one midnight, compression; an update between copy and append; the interval, the warm-up and the stall each end after one tick, so that every comparison with them comes out both ways |
| `mqtt_logger_overnight` | violates `HoldsForLastRecord` | one pack, two days |
| `proxy_line` | `TypeOK`, `InOrder`, `DamageStaysVisible`, `SlotIsLatest`, `HeldBackOnlyIfDamaged`, `OverridesApplied` | three requests of FC=3, FC=4 and FC=6, every answer, a wrong CRC and a cut-off frame (a changed device id is a wrong CRC to the proxy too), late answers, noise at the start, reads that cut a frame into one to three pieces, an override of the second register of a reply, a buffer of 16 bytes, which two replies fill; CRC and data bytes that look like a header. The last two properties are for what came through undamaged |
| `proxy_input` | violates `NothingHeldBack` | FC=3 and FC=4, no damage |
| `proxy_stale` | violates `OverrideHitsItsRegister` | two FC=3 requests of equal length, one damaged reply, a buffer of 16 bytes |
| `register_safety` | `TypeOK`, `RoomForRead`, `LoggedIsTrue`, `GapKept`, `SkippedOnlyInGap` | four frames from a write and two reads of different length, each whole or cut, exceptions and silence, noise before the first, a gap of one second and replies at three half seconds; a queue of 2, which three requests overfill; bytes of data and CRC that look like a header |
| `register_stale` | violates `LoggedIsTrue` | two reads of equal length, no damage, silence |
| `wire_reading` | `TypeOK`, `FoundWasSent`, `SentIsFound`, `PairsAreExchanges`, `RowsTrue`, `RowsApart`, `LastingIsWritten`, `FieldsTrue` | three exchanges of two FC=3 blocks of equal length, two FC=4 blocks of different lengths (as the inverter's three are) and a write, with any two faults: enough for a lost reply and a lost request in a row, the case where a pair is not an exchange. Times 0, 4 and 20 with a gap of 12: a row too soon, and one that is not. With no filter and with one that has words across registers, signed words and bits |
| `capture_files` | `PollsAreRows`, `JoinIsNewest`, `GapsTold`, `StatusIsLast`, `TagsAreChanges` | seven steps, six combinations of harm to the three files, off times shorter and longer than the least gap, a window of 2 against snapshots of 3; the two values are symmetric |
| `capture_files_marker` | violates `OutageIsNoRestart` | as above |
| `network_check` | `TypeOK`, `HelpIsEarned`, `HelpComes` | the script's own limits of 3 and 15, two power cuts |

Named bounds: `LastDay` (the last day of a model: no power loss, failed gzip or midnight happens on
it, so what must happen in the end has an undisturbed day to happen on), `Lines` (lines stored at a
time), `MaxRequests` of the proxy, and `MaxFrames`, `MaxTime` and `Backlog` of the register logger (the last:
how many unread bytes there may be when the next frame comes), `MaxFaults` of `WireParser` and the
length of `Schedule`, `MaxSteps` of `CaptureFiles`, `MaxBoots` of `NetCheck`. The proxy's `STREAM` is 16 or 24 for 2048: what
matters is how many replies fill it. The register logger's `STREAM`, `MaxFrame` and `MaxPending` are 18, 11
and 2 for 1024, 255 and 32, with room for no more than the longest frame and a read. Deadlock checking is off in the runs of the
bus tools only, where `quit`, a signal and the bound on frames end a behaviour.

What the properties are for, shortly: `ReadBack` and `DurableSafety` catch a write to an unlinked file,
a `.gz` replaced by one with fewer lines, and a source removed before its `.gz` is on the card.
`NoColumnBlanked` catches a restart whose first record has one field, which a reader would take for
a change of every other. `ValueReachesDisk` catches an update between copy and append that leaves
the writer clean. `InOrder` catches bytes lost when a buffer overflows. `DamageStaysVisible` catches a
new CRC computed over damage. `OverridesApplied` catches an override applied to half a reply, to the
wrong register, or to a reply passed on byte by byte. `SkippedOnlyInGap` catches a queue or a parser that
noise, cut frames or silence leave unable to pair a reply with the request just before it, and a gap counted
too long; `LoggedIsTrue` a value taken from a damaged reply or at the wrong place. Reads of equal length but another range are left
out of `register_safety` because with them it fails (see findings).

`SentIsFound` catches a parser that stays out of step after a lost frame, `FoundWasSent` a frame made up from
two, or a role swapped for good; `PairsAreExchanges` a reply paired with another request. It holds but for one
case, which it names: the reply of one exchange and the request of the next are both lost (`Adjacent`). If
both asked for the same, the value is still right; if they asked for as many registers from another
place, `Misread`, FC=3 replies do not say which they are, and values are wrong from there on: `RowsTrue` and
`FieldsTrue` say so. `FieldsTrue` takes each field apart into the bytes that the battery held, wherever in the block it
begins, and catches a reply that is decoded as another block. `LastingIsWritten` catches a row left out that is remembered as written.
`JoinIsNewest` and `PollsAreRows` say exactly what a power cut costs: the last line before it, and in
the snapshots and tags, which have no marker to take the harm, the first one after it too. `TagsAreChanges`
holds the tail against `detect_changes` on what it heard. `StatusIsLast` catches a window that does not grow;
a line cut inside its time reads as an earlier one, so that case is left out of it. `HelpIsEarned` catches a
restart, or the radio switched, on fewer checks in a row than the script promises, through a check that found the
connection in order or through an old count. It is about what the checks saw: a connection that dropped and came back between two
of them is silent to both, and may be restarted though it has just come back.

## Fairness

Safety properties assume none. `CaptureStore`: days pass, NTP is reached, a logger that has stamped a line
writes it, systemd fires the timer, each step of a running script follows the last, and the kernel
writes every dirty file back. All are weak: once possible they stay possible until done or until a
power loss undoes them, and there is none on the last day. Loggers need not start, and gzip may fail
on every day but the last. `MqttLogger`: time passes, systemd restarts the process
(`Restart=always`), both threads go on. `Hold` and `Copy` are strongly fair: the main thread polls
every 0.2 s, so it acts on a condition that recurs even if messages keep switching it off, while
stall times and message gaps are of seconds. Nothing is assumed of the broker. `Joined` is weakly fair since paho's
thread goes on; one that hung inside a call would keep `loop_stop` waiting. Nothing asks a write to fail. `NetCheck`: the timer runs the
script again and again and each of its commands ends, one weak fairness for the script as a whole. Each of the
`nmcli` commands may fail, but not for ever: `ConDown`, `RadioOff` and `RadioOn` are strongly fair, so a command
that is tried again and again succeeds at last, without which a box with its radio off stays off. Nothing
is assumed of the network, not even that it connects when it can. The properties of the
bus tools, the parsers and the readers are all safety properties.

## Proofs

`CaptureStoreProofs` proves, for any sets of lines and logs and any number of days:

| Theorem | Property |
|---|---|
| `TypeCorrect` | `TypeOK` |
| `InductiveInvariant` | `Inductive` |
| `LinesReadBack` | `ReadBack` |
| `NoEmptyGz` | `NoEmptyGzWithoutSource` |
| `SourceOutlivesGz` | `SourceGoneOnlyWhenOnCard` |
| `ExitStatusTells` | `ExitZeroMeansDone` |
| `FinishedDaysGetNoLines` | `FinishedStaysFinished` |
| `StoreIsDurable` | `DurableSafety` |

Assumptions: `HoldOpenAssumption` and `LastDayAssumption` of `CaptureStore`, which TLC evaluates too.

The argument. `ReadBack` alone is not inductive: to know that `Rm` loses nothing one must know that
the `.gz` holds all lines of the source, which needs that no line was added since `GzipOk`, hence that no
logger has a line of that day to write, hence that loggers run on the true day and that the run's
`today` is not after the clock. `Inductive` is the conjunction of what these steps need: `ClockInv` (a
logger runs only on a clock that was set), `PendInv` (a waiting line is of no day that is compressed
or being compressed), `OpenInv` (a file held open exists or is compressed), `FileInv` (how the cached
and the stored copy of a file may differ), `RunInv` and `RunFileInv` (where each file of a run
stands). There is one lemma per action, `<action>Step`, and `InductiveStep` joins them. The other
theorems follow from `Inductive`; `StoreIsDurable` maps each step to a step of `DurableLog` or a stutter:
`Append` to `Log`, `PowerLoss` to `Lose`, the rest to `Keep` or a stutter.

`ModbusProxyProofs` proves, for any buffer size, requests, damage, overrides and ways to cut the reads, with
what the last column asks for besides:

| Theorem | Property | Holds if |
|---|---|---|
| `TypeCorrect` | `TypeOK`: also that buffers and overrides stay within their arrays | - |
| `BytesInOrder` | `InOrder` | - |
| `DamageShows` | `DamageStaysVisible` | - |
| `SlotIsRight` | `SlotIsLatest` | `"id" \notin Damage`, `STREAM >= 15` |
| `NothingKept` | `HeldBackOnlyIfDamaged` | `Roomy` |
| `OverridesReach` | `OverridesApplied` | `Roomy`, `InRange` |

Assumptions: `BufferAssumption` (a read asks for no more than the buffer holds; what is on the port at
the start fits in it) and `ByteAssumption` (bytes, 16-bit registers, at most 125 of them). `TypeOK` is
inductive: `OutgoingType` says that what `Forward` writes is as long as what leaves the buffer, since
`Overridden` keeps a frame's length. `InOrder` is not, for `ReadBus` with a full buffer and the
reads of port detection: `OrderInv` adds that until the proxy stops written, held and unread bytes make
up all that was sent (`Whole`), that without a `set` there is no override, and that during detection
nothing is forwarded and no request reaches the device, so that what it sent fits in the buffer.

`DamageStaysVisible` speaks of a reply when it has gone out, so `CrcInv` says what has gone out of each one at
any time: as much as has passed agrees with what was sent (`Agrees`), or all of it was written anew, whole and with
a CRC of its own (`Renewed`), or the proxy ended in its middle (`CutOff`). A frame is rewritten only if its
CRC matches, and `Framed` says that in all that was sent a CRC can match only where an undamaged reply ends
(`CrcEnds`), and that replies lie apart: so a rewritten frame is one whole reply and no other reply has a byte
of it.

`SlotIsLatest` follows from `PlaceInv`. A CRC ends only with the last byte that the controller has sent
(`ReadEnds`), so between two reads less than a request is left in the buffer, while it is parsed there is at most one
in it, at the end, and that is the latest (`Scanned`, `OneRequest`); of a request that has come in part nothing is
dropped (`KeptWhole`). Its two hypotheses are needed. When port detection throws
bytes away, the CRC of a request whose address was damaged may come to stand behind the bytes of another, and
the two of them make a request that nobody sent. And a buffer that cannot hold what is left of a request, 7 bytes,
and one more request is emptied in the middle of one; the code's holds 2048.

`HeldBackOnlyIfDamaged` and `OverridesApplied` are about a bus on which nothing is damaged, no answer is late
and FC=4 is not read (`Undamaged`). There `Lock` holds: at any time one request at most is on its way (`Going`),
nothing else is on the line (`OneWay`), what comes back is a piece of the answer to the request in the slot
(`Back`, `Expected`), and an answer that was read to its end is being sent on (`Through`). `Roomy` says that the longest
reply fits in the buffer, 255 bytes in 2048. `InRange` says that no request runs past register 65535: the code takes
a register's address modulo 65536, so that a read past the end would have the override of register 0 in it.

`RegisterLoggerProofs` proves, for any requests, damage, noise, reads, gap and sizes that its assumptions
allow, with what the last column asks for besides:

| Theorem | Property | Holds if |
|---|---|---|
| `TypeCorrect` | `TypeOK`: also that buffer and queue stay within their arrays and a value within its frame | - |
| `NoByteGivenUp` | `RoomForRead` | - |
| `LinesApart` | `GapKept` | - |
| `LinesAreTrue` | `LoggedIsTrue` | `Distinct`, `NoWholeFrame` |
| `NoReplySkipped` | `SkippedOnlyInGap` | `Distinct`, `NoWholeFrame`, `Fits`, `Type = 3` |

Assumptions: `RoomAssumption` (the longest unfinished frame and one read fit in the buffer: 254 + 256 is
at most 1024) and `RequestAssumption` (bytes, 16-bit registers). `RoomForRead` follows from `RoomInv`: when
the parser stops, what is left is shorter than `MaxFrame`, as each way to need more waits for a frame of at
most that length; for the requests in the queue that is `MaxCount`, which `TypeOK` keeps. So the code that
gives up bytes never runs. `GapKept` needs `GapInv`: the time remembered is that of the last line, and no line
is later than the clock. `ModbusFramesProofs` holds the lemmas about frames that both tools' proofs use.

`LoggedIsTrue` follows from `ValueInv`. Its main part, `Marked`, says of the bytes not parsed yet that each one
which ends the CRC of some bytes is the last of a frame of the history with just those bytes, of an undamaged one or
of one whose address was changed to 0; or that those bytes began before what is left. So where a CRC matches at the
head of the buffer and the address is a device's, an undamaged frame of the history begins (`FrameAtHead`), and
its length and function code tell a reply from a request (`Kinds`). The queue then holds only requests that were
asked (`Known`), and a reply is paired with one of the same device and length. `Distinct` says that this makes it
the same read: the reads of one device and one length are of one range. The inverter's polls are like that, and
`register_stale` shows that it is needed. `NoWholeFrame` says that the bytes on the port at the start, of which
the history knows nothing, hold no CRC-ended frame from its first byte to its last.

`SkippedOnlyInGap` is a property of steps: the step in which the parser passes the end of such a reply logs it.
Two more invariants say that it comes to the reply's first byte with the request at hand. `LineInv`: the frames lie
end to end, the bytes not parsed yet of an undamaged one are as they were sent, and a reply next to a request is the
reply to it. `ParserInv`: of an undamaged request of FC=3 the parser is at or before the first byte, or just after the
last with the request the newest in the queue, or further on; of the reply to it, at or before the first byte or past
the last. For it steps over one byte or one whole frame of the history at a time (`TakesFrames`), so it stops at
every frame that it is before (`StopsAt`), and takes a request, and then its reply, for what they are (`AtRequest`,
`AtReply`); a full queue gives up its oldest, never the newest. `Fits` says that no read is longer than the parser
would wait for: with the code's 255 bytes and at most 125 registers that is always so. `Type = 3` is there since the
code never recognises an FC=4 reply (see findings).

`CampaignProofs` proves, for any number of power cuts and steps, any harm to the files, any times and values:

| Theorem | Property |
|---|---|
| `PollsAreRowsHolds` | `PollsAreRows` |
| `JoinIsNewestHolds` | `JoinIsNewest` |
| `GapsToldHolds` | `GapsTold` |
| `OrderedHolds` | `Ordered`, on which the next one rests |
| `StatusIsLastHolds` | `StatusIsLast` |
| `TagsAreChangesHolds` | `TagsAreChanges` |

Assumptions: `FilesAssumption` and `ToolsAssumption`. The first three rest on `Account`: of each file, every record that was
written stands on a line of its own (`Alone`), or was the last before a power cut, or the first after one in a
file that has no start marker; and a line without its newline is the last of the file, with no record written since
the cut (`Accounted`, `SafeOrLast`). What is alone on its line is read (`AloneIsRead`), and what is read was written.
`GapsTold` needs to know what the loggers did around an outage too: `Marked` says that each outage ends with a start
marker or goes on, that every start but the first ends one, that nothing is written in it, and that each record of
the wire log is whole unless it was the last before a cut. `SortedByTime` and `Chosen` go by rank, so that their
results can be reasoned about without induction.

`StatusIsLast` needs the order of the lines: `Ordered` says that the lines of a file begin with records whose times
grow, and that only the last line lacks its newline. The bytes of the file that a window shows are its end,
so the lines in it are the last lines, but for the first of them, which may be cut on its left. So a line
with a time that the search finds is the last of the file that has one, whatever the window was, and where the window
shows none it grows until it holds the whole file.

`TagsAreChanges` follows from `Tailing`: what the tail remembers as the last value is the last known value of what it
heard, and the tags it wrote are the changes of that. Each line read adds one fragment to what was heard, and a
choice from a sequence with one more member is the choice from the old one with or without that member.

`MqttLoggerProofs` proves, for any packs, values, times and number of days:

| Theorem | Property |
|---|---|
| `TypeCorrect` | `TypeOK` |
| `BlanksNoColumn` | `NoColumnBlanked` |

Assumptions: `ValuesAssumption` (no value is `Unset`), `DaysAssumption`, `TimesAssumption` and `NamesAssumption`. The invariant is `TypeOK` with `Dated` (no file is of a day to come), `Begun` (when a process has written), `Grown` (fields are
never unset) and `Covering`. `Covers(S, today)` says that a record with the names `S`, appended today, has every
name of the newest record in the plain files of today and yesterday. Until its first copy a process waits
for names that cover or for the warm-up to end; after it, its fields cover, as they only grow and the newest
record is its own. Midnight only takes files out of sight, and compression leaves the day's own file alone.

`WireProofs` proves, for any queries, schedule, faults and number of faults, filters, gaps and layouts, with what
the last column asks for besides:

| Theorem | Property | Holds if |
|---|---|---|
| `WireTypes` | `TypeOK`: also that each byte is in one frame or counted as dropped, and that frames do not overlap | - |
| `FramesAreSent` | `FoundWasSent` | `Tellable` |
| `WholeFramesAreFound` | `SentIsFound` | `Tellable` |
| `PairsOfExchanges` | `PairsAreExchanges` | `Tellable` |
| `FieldsAreTrue` | `FieldsTrue` | `Tellable`, `ClockRuns`, `LayoutsFit`, `BlocksTold` |
| `RowsAreTrue` | `RowsTrue` | `Tellable`, `Unhurried` |
| `RowsAreApart` | `RowsApart` | - |
| `LastingRows` | `LastingIsWritten` | `ClockForward`, in the states where it is to hold |
| `UnhurriedLasts` | `LastingIsWritten` | `Tellable`, `Unhurried` |

Assumptions: `WireAssumption` (queries of bytes and 16-bit words, at most 125 registers) and `CsvAssumption`
(what `parse_register_filter` returns, and a gap that is not negative). The hypotheses stand at the end of `WireProperties`, and `MCWire` evaluates those that
are about constants (`RecordingAssumption`). `Tellable`: no query can be taken for another kind of frame. A read of FC=3
from a register between 768 and 1023 has the bytes of a reply with three bytes of data, and a reply of FC=4 to a read of one
register is as long as a request; the inverter asks for neither. `ClockRuns`: no two exchanges have the
same time, since frames are told apart by it. `Unhurried`: an exchange is over before the next begins, as the bus has
one pair of wires; with it a clock that goes forwards is one for the pairs too. `LayoutsFit`: the
decoder's fields lie within their blocks, at any byte of them, and are of the kinds it reads; its tables meet that. `BlocksTold`: no two
FC=4 blocks that the inverter reads have one length, which goes for its three of 21, 19 and 20 registers. The decoder takes
the block from the request of the pair, and it is by its length that the pair's reply is known to be of that block.

The argument. `TypeInv` lays the frames found end to end with the dropped bytes between them (`WalkOK`) and ties each to
the bytes of the stream (`Cutting`). `SentInv` says the same of what was sent: there are places (`Cuts`) that divide the stream into what was left
of the 1st, 2nd, ... frame of the bus, two to an exchange. A CRC matches only the bytes it was computed over, so where
one ends a frame that was sent ends, and with `Tellable` it begins there too and has its true role. Hence each frame found was
sent (`AllSent`), each frame left whole before the place the parser has reached was found unless its length
was not known (`FoundUpTo`), and what was passed over after the last frame found was spoilt (`PassedOver`): the three
make `SentSoFar`, which `Found` and `Resync` keep, one frame or one byte further on. The last of them is what makes a
pair an exchange: two frames next to each other in `frames` have nothing whole between them on the bus (`Telling`), so they are of one
exchange, or all between them was lost. What a reply that was found holds is what was read from the battery (`Holding`).

`RowsTrue` needs both halves of the tools. `FourOK` adds that a reply of FC=4 has the length its pair's request asks for, so
that a pair tells of a block of registers just what the battery said of it, unless it is `Misread` (`PairSays`); and `SentIsFound` gives the
converse, that each reply which can be understood is one of a pair (`PairCovers`). `MadeInv` gives each update its pair by its rank among them
(`UpdatePlaces`), so that with `Unhurried` the last update for a register is that of the last reply (`KnownIs`). `TaleInv` says
which update the last row was made of (`Written`) and that each one after it either shows the same or came too soon, which
is also `LastingIsWritten`. `CellIsTrue` goes from words to signed words, bits and words across two registers.
`RowsApart` follows from `Remembered`: what the writer compares the next row with is the last row written.

`NetCheckProofs` proves, for any two limits of at least 1:

| Theorem | Property |
|---|---|
| `TypeCorrect` | `TypeOK`: also that no count in the file reaches its limit, and only one is above zero |
| `ActsWhenEarned` | `HelpIsEarned` |

Assumption: `ChecksAssumption`. `CountsInv` says, for each command of the script that may come next, which row of
equal checks the two counts stand for.

Only model-checked is all liveness (`FinishedDaysCompressed`, `DurableLiveness`, `ValueReachesDisk`,
`QuietProcessEnds`, `HelpComes`): the prover has no fairness or ENABLED.

What a loop computes is proved without the library's induction rules, which take an operator as a
parameter. What is kept of a sequence is chosen by rank. Where a fold or a recursive definition is in the way, the
lemmas `Steps` and `Recursion` of the proof modules do the induction over a finite interval, on sets
instead of predicates, from the theorem that strict inclusion of finite sets is well-founded.

The modules use no RECURSIVE operators, which would cost them the SMT solver.

## Findings

Each is a run that TLC must find violated; `PROJECT.json` quotes the text it contradicts.

- `mqtt_logger_overnight`: after a night off, the first record need not wait for the fields of the
  last one, which is by then in a `.gz`.
- `proxy_input`: the proxy expects FC=4 replies to have the length of FC=3 replies, so it holds them back
  and never applies an `input` override.
- `proxy_stale`: one damaged reply makes the proxy hold all replies to requests for the same device and
  function; when its buffer is full an old reply is matched with the newest request and
  the wrong register is overridden. On a bus that alternates FC=3 and FC=4 the change of function
  ends the jam before the buffer fills.
- `register_stale`: one unanswered read leaves its request in the queue, and from then on each reply of that
  length is paired with the request before its own. Where all reads of that length are of one range, as the
  inverter's polls of HR(0..27) are, the value is still right.
- `capture_files_marker`: the start marker is appended without a newline first. When the power cut left part of
  a wire line, the marker is not at the start of its line and is not recognised, and the outage of the box is
  reported as an inverter restart.

Some were findings about the models, made by proofs that did not go through. `Adjacent`, which says when a reply can
stand next to the request of another exchange, was wrong for more than two faults, which no run had. `FieldsTrue` asked that nothing
was misread before, which it does not need. `Shown` and `TrueCell` had a CASE with two guards true at once, so that a cell
without a value could have been anything. And the two kinds of query that `Tellable` excludes, which mislead the parser in the code as well, came up in the proof of
`FoundWasSent`.

Some more things show in the models without a run of their own. `ParsedDevice` keeps the cast in
`parse_device_id`, which comes before the range is checked: `set 257 ...` sets an override on device 1
(no run types a device above 255). The register logger looks for FC=4 replies
where the proxy does, so that of the battery's replies to FC=4 it recognises none and `input` logs nothing.
`last_line_time` speaks of the last complete line, but a wire line goes by its first two words, complete or not.
After a restart of the snapshot logger another pack may be heard first, and then the canonical columns of the
same day are that pack's.

## What is not modelled

- A full card: the models have no limit of space, and no line is cut but by a power cut. A failed gzip is taken to
  remove the part of a `.gz` that it wrote.
- A wire logger that systemd starts again by itself: in `CaptureFiles` it starts with a `Boot` only. One after which no
  file is harmed and the box was off for the least of `OffTimes` is close to it, but the poller and the tail end there too.
- Currents other than 0 and 1 in `ColdBoots`: the readers compare it with a limit, and the two values are its two sides.
- Of the readers: the command lines and register specs as text, the layout of reports and CSV, time zones of
  old logs, columns that mix numbers and words, and the captures of a day that is over while a tool runs.
- Of `tcp_poller` the client library and the names of the fields: a fetch gives a value, none, or an error.
  That a snapshot has the time before the fetch is in the model, but when the inverter read its values is not.
- The log file's text and its write errors in both bus tools, and of the proxy the port names given in the other order (symmetric after detection). A
  write error is modelled where it leaves half a frame with the inverter; elsewhere it is `Stop`.
- Serial port configuration, udev rules, installation: configuration without steps.
- The tables of `decode_fields` (which name is at which offset), `redact`, `pace_reference`, the notebook, the
  statistics of `capture_checks` and `parse_log`: data and stateless functions over it, better served by the
  repository's tests.
- Disk space and service states in `givcap_status`: read from the system and printed.

## Running it

    tlc -config CaptureStore.cfg MCCaptureStore
    tlc -config Wire.cfg MCWire
    tlapm CaptureStoreProofs.tla
    tlapm ModbusProxyProofs.tla
    tlapm RegisterLoggerProofs.tla
    tlapm MqttLoggerProofs.tla
    tlapm WireProofs.tla
    tlapm CampaignProofs.tla
    tlapm NetCheckProofs.tla

and likewise for the other runs listed in `PROJECT.json`.

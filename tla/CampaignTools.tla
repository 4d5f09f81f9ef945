---------------------------- MODULE CampaignTools ---------------------------
(***************************************************************************)
(* The tools that read the files of a campaign, at any moment of it:       *)
(* join_streams.py, the gap classification of capture_checks.py, the       *)
(* freshness report of givcap_status.py and tag.py's detect_changes.       *)
(***************************************************************************)
EXTENDS CaptureFiles

CONSTANTS MinGap,           \* min_gap_s
          TailBytes,        \* TAIL_BYTES
          Size,             \* how long a line of each kind is
          Hour              \* what the time is rounded down to in a line that ends inside it

ASSUME ToolsAssumption ==
    /\ MinGap \in Nat
    /\ TailBytes \in Nat \ {0} /\ Hour \in Nat \ {0}
    /\ Size \in [{"poll", "start", "snap", "tag"} -> Nat \ {0}]

None == -1

-----------------------------------------------------------------------------
\* Records.  json.loads takes anything that is glued to a record, and NULs, for an
\* error; the wire readers drop the NULs first.

IsRecord(line) == Len(line) = 1 /\ line[1].left \in {"all", "bare"}

RecordOf(line) == line[1].rec

Printed(line) == {k \in DOMAIN line : line[k].left # "nul"}

WireRecords(line) ==
    {line[k].rec : k \in {k \in DOMAIN line : Printed(line) = {k} /\ line[k].left \in {"all", "bare"}}}

WireLines(kind) ==
    {r \in UNION {WireRecords(files["wire"][n]) : n \in DOMAIN files["wire"]} : r.kind = kind}

LoadWireRecords == WireLines("poll")
LoggerStarts == {s.ts : s \in WireLines("start")}

LoadRecords(name) ==
    {RecordOf(files[name][n]) : n \in {n \in DOMAIN files[name] : IsRecord(files[name][n])}}

LoadTcpRecords == LoadRecords("tcp")
LoadTagRecords == LoadRecords("tags")

-----------------------------------------------------------------------------
\* join_streams: the latest record of a stream at or before the time of the row.

\* Mutant: the next one.
AsOfForward(stream, t) ==
    LET after == {r \in stream : r.ts >= t}
    IN  {r \in after : \A s \in after : s.ts >= r.ts}

AsOf(stream, t) ==
    LET before == {r \in stream : r.ts <= t}
    IN  {r \in before : \A s \in before : s.ts <= r.ts}

\* No two polls have the same time.
SortedByTime(rows) ==
    LET Rank(r) == Cardinality({s \in rows : s.ts <= r.ts})
    IN  [n \in 1 .. Cardinality(rows) |-> CHOOSE r \in rows : Rank(r) = n]

JoinStreams ==
    LET wire == SortedByTime(LoadWireRecords)
    IN  [n \in DOMAIN wire |-> [ts |-> wire[n].ts, current |-> wire[n].val,
                                tcp |-> AsOf(LoadTcpRecords, wire[n].ts),
                                tag |-> AsOf(LoadTagRecords, wire[n].ts)]]

-----------------------------------------------------------------------------
\* cold_boots, and the starts that main passes it: none when the log has no markers.

\* Mutant: any later start will do.
KindByLaterStart(gapFrom, start) ==
    IF LoggerStarts = {} THEN "restart or capture gap"
    ELSE IF \E t \in LoggerStarts : gapFrom < t THEN "capture gap"
    ELSE "inverter restart"

Kind(gapFrom, start) ==
    IF LoggerStarts = {} THEN "restart or capture gap"
    ELSE IF \E t \in LoggerStarts : gapFrom < t /\ t <= start THEN "capture gap"
    ELSE "inverter restart"

ColdBoots(hr) ==
    {LET live == {n \in k .. Len(hr) : hr[n].current > 0}
     IN  [gapFrom |-> hr[k - 1].ts, restart |-> hr[k].ts,
          kind |-> Kind(hr[k - 1].ts, hr[k].ts),
          firstCurrent |-> IF live = {} THEN None ELSE hr[Min(live)].ts - hr[k].ts] :
     k \in {k \in 2 .. Len(hr) : hr[k].ts - hr[k - 1].ts > MinGap}}

-----------------------------------------------------------------------------
\* last_line_time.  A line of the wire log goes by its first two words, so it need
\* not be whole, and if it ends inside its time that may still read as an earlier
\* one; NULs or the # of a marker do not read as a time.

ParseLineTime(name, n) ==
    LET line == files[name][n]
        t == line[1].rec.ts
        poll == line[1].rec.kind = "poll"
    IN  CASE name = "tcp" /\ IsRecord(line) -> t
          [] name = "wire" /\ poll /\ line[1].left \in {"all", "bare", "cut"} -> t
          [] name = "wire" /\ poll /\ line[1].left = "time" /\ Len(line) = 1 -> t - (t % Hour)
          [] OTHER -> None

Sums(d) ==
    LET sum[k \in 0 .. Len(d)] == IF k = 0 THEN 0 ELSE sum[k - 1] + d[k]
    IN  sum

LineSize(line) == Sums([k \in 1 .. Len(line) |-> Size[line[k].rec.kind]])[Len(line)]

\* Where each line ends.
LineEnds(file) == Sums([n \in 1 .. Len(file) |-> LineSize(file[n])])

\* The lines of the last bytes; the first is dropped unless the file begins there.
LinesInWindow(file, bytes) ==
    LET end == LineEnds(file)
        start == end[Len(file)] - bytes
    IN  {n \in DOMAIN file : start <= 0 \/ end[n - 1] > start}

\* Mutant: the window does not grow.
LastLineTimeInWindow(name) ==
    LET found == {n \in LinesInWindow(files[name], TailBytes) : ParseLineTime(name, n) # None}
    IN  IF found # {} THEN ParseLineTime(name, Max(found)) ELSE None

LastLineTime(name) ==
    LET file == files[name]
        Found(window) == {n \in LinesInWindow(file, window) : ParseLineTime(name, n) # None}
        look[window \in Nat] ==
            IF Found(window) # {} THEN ParseLineTime(name, Max(Found(window)))
            ELSE IF window >= LineEnds(file)[Len(file)] THEN None
            ELSE look[4 * window]
    IN  look[TailBytes]

-----------------------------------------------------------------------------
\* detect_changes over the values of some records.
DetectChanges(values) ==
    LET known == Chosen(values, {n \in 1 .. Len(values) : values[n] # NoValue})
        changes == [n \in 1 .. Len(known) - 1 |-> <<known[n], known[n + 1]>>]
    IN  Chosen(changes, {n \in 1 .. Len(changes) : changes[n][1] # changes[n][2]})
=============================================================================

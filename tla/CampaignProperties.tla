------------------------- MODULE CampaignProperties -------------------------
(***************************************************************************)
(* What the tools should give, whatever the power cuts left of the files.  *)
(***************************************************************************)
EXTENDS CampaignTools

Cuts == {outages[n][1] : n \in DOMAIN outages}

LastBeforeCut(name, n) ==
    \E t \in Cuts : /\ written[name][n].ts < t
                    /\ n < Len(written[name]) => written[name][n + 1].ts > t

FirstAfterCut(name, n) ==
    \E t \in Cuts : /\ written[name][n].ts > t
                    /\ n > 1 => written[name][n - 1].ts < t

\* The start marker takes the harm of the line before it on itself: of the polls
\* only the last before a power cut can be missing from the rows
\* (parse_log.py:63-66, serial_hexdump_logger.c:235-242).
PollsAreRows ==
    \A n \in DOMAIN written["wire"] :
        \/ written["wire"][n].kind = "start"
        \/ written["wire"][n] \in LoadWireRecords
        \/ LastBeforeCut("wire", n)

\* A row has the newest snapshot and the newest tag of its time, but for the last
\* before a power cut and the first after one (join_streams.py:49-65, 84-127).
JoinIsNewest ==
    \A k \in DOMAIN JoinStreams : \A name \in {"tcp", "tags"} :
        LET row == JoinStreams[k]
            got == IF name = "tcp" THEN row.tcp ELSE row.tag
        IN  /\ Cardinality(got) <= 1
            /\ got \subseteq {r \in Range(written[name]) : r.ts <= row.ts}
            /\ \A n \in DOMAIN written[name] :
                  written[name][n].ts <= row.ts /\ (\A r \in got : r.ts < written[name][n].ts)
                  => LastBeforeCut(name, n) \/ FirstAfterCut(name, n)

-----------------------------------------------------------------------------
BoxOffIn(b) == \E n \in DOMAIN outages : b.gapFrom < outages[n][1] /\ outages[n][2] < b.restart

\* A marker that follows a part of a line is not at the start of its line.
MarkerGlued ==
    \E n \in DOMAIN files["wire"] : Cardinality(Printed(files["wire"][n])) > 1

\* A gap in the polls is a capture gap when the box was off inside it and the
\* inverter's otherwise, and the first current after it is the first there was, as
\* long as no power cut left a part of a line before a marker
\* (capture_checks.py:85-131).
GapsTold ==
    \A b \in ColdBoots(JoinStreams) :
        /\ ~MarkerGlued => /\ b.kind = "capture gap" => BoxOffIn(b)
                           /\ b.kind = "inverter restart" => ~BoxOffIn(b)
        /\ \A n \in DOMAIN written["wire"] :
              LET poll == written["wire"][n]
              IN  poll.kind = "poll" /\ poll.val > 0 /\ poll.ts >= b.restart
                  => \/ b.firstCurrent # None /\ b.restart + b.firstCurrent <= poll.ts
                     \/ LastBeforeCut("wire", n)

\* capture_checks.py:107-109 without that condition: a gap in which the box was off
\* is never put down to the inverter.
OutageIsNoRestart ==
    \A b \in ColdBoots(JoinStreams) : b.kind = "inverter restart" => ~BoxOffIn(b)

-----------------------------------------------------------------------------
WholeLines(name) ==
    {n \in DOMAIN files[name] :
        Len(files[name][n]) = 1 /\ files[name][n][1].left = "all" /\ files[name][n][1].rec.kind # "start"}

\* The freshness report is never older than the last whole line and never newer than
\* the last line written, however long the lines behind it are - unless the wire log
\* ends inside a time (givcap_status.py:37-62).
StatusIsLast ==
    \A name \in {"wire", "tcp"} :
        LET t == LastLineTime(name)
        IN  /\ t # None => \E n \in DOMAIN written[name] : t <= written[name][n].ts
            /\ WholeLines(name) # {} /\ (files[name] # <<>> => Last(Last(files[name])).left # "time")
               => t >= RecordOf(files[name][Max(WholeLines(name))]).ts

-----------------------------------------------------------------------------
AutoTags ==
    LET tags == written["tags"]
        auto == Chosen(tags, {n \in from.tags + 1 .. Len(tags) : tags[n].val # Manual})
    IN  [n \in DOMAIN auto |-> auto[n].val]

\* The tail writes the changes that detect_changes finds in the snapshots appended
\* since it began, without those it came upon half written, whatever power cuts
\* left in front of them (tag.py:29-41, 44-70).
TagsAreChanges ==
    tail.on =>
        LET fs == Fragments(files["tcp"])
            values == [n \in 1 .. Len(fs) |-> fs[n].rec.val]
        IN  AutoTags = DetectChanges(Chosen(values, {n \in from.seen + 1 .. tail.seen : n \notin half}))
=============================================================================

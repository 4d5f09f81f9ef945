---------------------------- MODULE CaptureStore ----------------------------
(***************************************************************************)
(* The capture directory of the box, ~/captures/<UTC day>/<log>, and every *)
(* program that changes it: the loggers, which append timestamped lines to *)
(* the file of the day the line is stamped with, and givcap-compress,      *)
(* which turns the files of finished days into .gz files.  Underneath is a *)
(* file system with a page cache: what a program writes reaches the card   *)
(* later, one file at a time in any order, and a power loss takes the box  *)
(* back to what is on the card.                                            *)
(*                                                                         *)
(* What is abstracted.  A line is a model value; the lines of a file are a *)
(* set (no property here reads their order).  A compressed file is absent, *)
(* partial (gzip has not finished it, or its data is not all on the card)  *)
(* or full, with the lines it holds.  Files are compressed in any order,   *)
(* where the shell takes them in glob order.  Of the ways a command of     *)
(* givcap-compress may fail, that of taking away what a failed gzip left   *)
(* is left out.                                                            *)
(*                                                                         *)
(* Bounds: LastDay.  Lines lost to a power loss are free again, so Lines   *)
(* bounds how many lines are stored at a time, not how many are written.   *)
(***************************************************************************)
EXTENDS Integers

CONSTANTS
    Lines,        \* the lines the loggers may write
    Logs,         \* the logs of a day, e.g. wire.log and tcp.ndjson
    HoldOpen,     \* the logs whose writer keeps its file open between lines
    LastDay       \* the last day of the model; the box is undisturbed on it

ASSUME HoldOpenAssumption == HoldOpen \subseteq Logs
ASSUME LastDayAssumption == LastDay \in Nat \ {0}

Day == 1 .. LastDay
None == 0                       \* no day: nothing stamped, nothing open
File == Day \X Logs             \* <<day, log>>

\* A plain file, and a .gz file.  Only a full .gz can be read back.
Src == [ex : BOOLEAN, ls : SUBSET Lines]
NoSrc == [ex |-> FALSE, ls |-> {}]
NoGz == [st |-> "absent", ls |-> {}]
PartialGz == [st |-> "partial", ls |-> {}]
Gz == {NoGz, PartialGz} \cup [st : {"full"}, ls : SUBSET Lines]
FullGz(ls) == [st |-> "full", ls |-> ls]
Readable(gz) == IF gz.st = "full" THEN gz.ls ELSE {}

\* A line stamped with a day; Nothing when no line is waiting.
Nothing == [d |-> None, ls |-> {}]
Stamped(d, l) == [d |-> d, ls |-> {l}]

VARIABLES
    day,          \* the true UTC day
    clock,        \* the day by the clock of the box, which has no hardware clock
    synced,       \* the clock has been set since boot (time-sync.target reached)
    lastRun,      \* the day the timer last started givcap-compress
    up,           \* the logs whose logger is running
    pend,         \* per log: the line stamped but not yet written
    open,         \* per log: the day of the file the logger holds open
    srcC, srcD,   \* plain files: as programs see them, and as they are on the card
    gzC, gzD,     \* .gz files: likewise
    pc,           \* givcap-compress: "idle", "scan", "gzip", "rm" or "exit"
    today,        \* its TODAY
    todo,         \* the files it has still to compress
    cur,          \* the file gzip is working on: a set of at most one file
    compressed,   \* its array of compressed files whose source is to be removed
    failed,       \* its exit status
    seen,         \* auxiliary: the files the run found when it started
    acked         \* auxiliary, per file: lines whose write returned and no power loss undid

boxVars == <<day, clock, synced, lastRun>>
logVars == <<up, pend, open>>
runVars == <<pc, today, todo, cur, compressed, failed, seen>>
vars == <<boxVars, logVars, srcC, srcD, gzC, gzD, runVars, acked>>

\* What can be read of file f now, and what could be read after a power loss.
InCache(f) == srcC[f].ls \cup Readable(gzC[f])
OnCard(f) == srcD[f].ls \cup Readable(gzD[f])

Init ==
    /\ day = 1 /\ clock = 1 /\ synced = FALSE /\ lastRun = None
    /\ up = {}
    /\ pend = [g \in Logs |-> Nothing] /\ open = [g \in Logs |-> None]
    /\ srcC = [f \in File |-> NoSrc] /\ srcD = srcC
    /\ gzC = [f \in File |-> NoGz] /\ gzD = gzC
    /\ pc = "idle" /\ today = None /\ failed = FALSE
    /\ todo = {} /\ cur = {} /\ compressed = {} /\ seen = {}
    /\ acked = [f \in File |-> {}]

-----------------------------------------------------------------------------
(* The clock.  After a boot it starts from a saved day and runs behind     *)
(* until NTP sets it; then it follows the day.                             *)

Midnight ==
    /\ day < LastDay
    /\ day' = day + 1
    /\ clock' = IF synced THEN day + 1 ELSE clock
    /\ UNCHANGED <<synced, lastRun, logVars, srcC, srcD, gzC, gzD, runVars, acked>>

\* A clock that is still behind passes a midnight of its own.
StaleMidnight ==
    /\ ~synced /\ clock < day
    /\ clock' = clock + 1
    /\ UNCHANGED <<day, synced, lastRun, logVars, srcC, srcD, gzC, gzD, runVars, acked>>

TimeSync ==
    /\ ~synced
    /\ synced' = TRUE /\ clock' = day
    /\ UNCHANGED <<day, lastRun, logVars, srcC, srcD, gzC, gzD, runVars, acked>>

-----------------------------------------------------------------------------
(* The loggers.  A logger reads the clock, then makes sure the file of     *)
(* that day is the open one, then writes; the clock may pass midnight, and *)
(* givcap-compress may start, between the first and the last of these.     *)

\* Mutant: the unit is not ordered after time-sync.target.
StartAtBoot == TRUE

\* Both units are After=time-sync.target.
MayStart == synced

\* A line no file and no logger holds.
Fresh(l) ==
    /\ \A f \in File : l \notin InCache(f) \cup OnCard(f)
    /\ \A g \in Logs : l \notin pend[g].ls

\* The wire logger stamps its start marker at once; the other starts empty.
LoggerStart(g) ==
    /\ g \notin up /\ MayStart
    /\ up' = up \cup {g}
    /\ IF g \in HoldOpen
       THEN \E l \in Lines : Fresh(l) /\ pend' = [pend EXCEPT ![g] = Stamped(clock, l)]
       ELSE UNCHANGED pend
    /\ UNCHANGED <<boxVars, open, srcC, srcD, gzC, gzD, runVars, acked>>

Stamp(g) ==
    /\ g \in up /\ pend[g] = Nothing
    /\ \E l \in Lines : Fresh(l) /\ pend' = [pend EXCEPT ![g] = Stamped(clock, l)]
    /\ UNCHANGED <<boxVars, up, open, srcC, srcD, gzC, gzD, runVars, acked>>

\* Mutant: a file once open is never switched.
KeepsWhateverDay(g) == g \in HoldOpen /\ open[g] # None

\* ensure_log_open: a held file serves as long as its path is the one wanted.
Keeps(g) == g \in HoldOpen /\ open[g] = pend[g].d

\* A line written to a held file that has been unlinked is in no file.
Append(g) ==
    /\ g \in up /\ pend[g] # Nothing
    /\ LET f == <<pend[g].d, g>>
       IN /\ srcC' = IF Keeps(g) /\ ~srcC[f].ex THEN srcC
                     ELSE [srcC EXCEPT ![f] = [ex |-> TRUE, ls |-> @.ls \cup pend[g].ls]]
          /\ acked' = [acked EXCEPT ![f] = @ \cup pend[g].ls]
    /\ open' = [open EXCEPT ![g] = IF g \in HoldOpen THEN pend[g].d ELSE None]
    /\ pend' = [pend EXCEPT ![g] = Nothing]
    /\ UNCHANGED <<boxVars, up, srcD, gzC, gzD, runVars>>

\* Hang-up, read error, stop signal, stall, or an open that fails: what was
\* read but not written is gone.
LoggerExit(g) ==
    /\ g \in up
    /\ up' = up \ {g}
    /\ pend' = [pend EXCEPT ![g] = Nothing]
    /\ open' = [open EXCEPT ![g] = None]
    /\ UNCHANGED <<boxVars, srcC, srcD, gzC, gzD, runVars, acked>>

-----------------------------------------------------------------------------
(* givcap-compress, started by its timer once per day of the box's clock,  *)
(* also for a run missed while the box was off (Persistent=true).          *)

\* Mutant: the timer fires at midnight, when a logger may still be writing.
SettledFiles(d) == \A f \in File : f[1] < d => srcC[f] = srcD[f]

\* What the 00:30 start, half an hour into the day, gives: no logger still
\* holds a line of an earlier day, and the kernel, which writes dirty pages
\* back within about 30 s, is done with the plain files of earlier days.
Settled(d) ==
    /\ \A g \in Logs : pend[g] = Nothing \/ pend[g].d >= d
    /\ \A f \in File : f[1] < d => srcC[f] = srcD[f]

\* Mutants: the comparison takes today's files too; only yesterday's are taken.
NotAfterToday(f, d) == f[1] <= d /\ srcC[f].ex
OnlyYesterday(f, d) == f[1] = d - 1 /\ srcC[f].ex

\* A regular file, not a .gz, of a day before TODAY.
Finished(f, d) == f[1] < d /\ srcC[f].ex

RunStart ==
    /\ pc = "idle" /\ lastRun < clock /\ Settled(clock)
    /\ lastRun' = clock
    /\ pc' = "scan" /\ today' = clock
    /\ todo' = {f \in File : Finished(f, clock)} /\ seen' = todo'
    /\ cur' = {} /\ compressed' = {} /\ failed' = FALSE
    /\ UNCHANGED <<day, clock, synced, logVars, srcC, srcD, gzC, gzD, acked>>

\* gzip -f replaces the .gz of an earlier run by one it has yet to fill.
GzipStart(f) ==
    /\ pc = "scan" /\ f \in todo
    /\ pc' = "gzip" /\ cur' = {f} /\ todo' = todo \ {f}
    /\ gzC' = [gzC EXCEPT ![f] = PartialGz]
    /\ UNCHANGED <<boxVars, logVars, srcC, srcD, gzD, today, compressed, failed, seen, acked>>

\* Mutant: gzip without -k removes the source itself.
GzipRemovesSource(f) ==
    /\ pc = "gzip" /\ f \in cur
    /\ gzC' = [gzC EXCEPT ![f] = FullGz(srcC[f].ls)]
    /\ srcC' = [srcC EXCEPT ![f] = NoSrc]
    /\ pc' = "scan" /\ cur' = {}
    /\ UNCHANGED <<boxVars, logVars, srcD, gzD, today, todo, compressed, failed, seen, acked>>

\* The .gz is whole; its source stays (-k) and is put on the list.
GzipOk(f) ==
    /\ pc = "gzip" /\ f \in cur
    /\ gzC' = [gzC EXCEPT ![f] = FullGz(srcC[f].ls)]
    /\ compressed' = compressed \cup {f}
    /\ pc' = "scan" /\ cur' = {}
    /\ UNCHANGED <<boxVars, logVars, srcC, srcD, gzD, today, todo, failed, seen, acked>>

\* Mutant: the failure does not reach the exit status.
GzipFailSilently(f) ==
    /\ pc = "gzip" /\ f \in cur /\ day < LastDay
    /\ gzC' = [gzC EXCEPT ![f] = NoGz]
    /\ pc' = "scan" /\ cur' = {}
    /\ UNCHANGED <<boxVars, logVars, srcC, srcD, gzD, today, todo, compressed, failed, seen, acked>>

\* What gzip left is removed and the run carries on with the rest.
GzipFail(f) ==
    /\ pc = "gzip" /\ f \in cur /\ day < LastDay
    /\ gzC' = [gzC EXCEPT ![f] = NoGz]
    /\ failed' = TRUE
    /\ pc' = "scan" /\ cur' = {}
    /\ UNCHANGED <<boxVars, logVars, srcC, srcD, gzD, today, todo, compressed, seen, acked>>

\* Mutant: the sources are removed without a sync.
NoFlush == UNCHANGED <<srcD, gzD>>

\* sync(1) returns when all that was written is on the card.
Flush == srcD' = srcC /\ gzD' = gzC

Sync ==
    /\ pc = "scan" /\ todo = {} /\ compressed # {}
    /\ Flush
    /\ pc' = "rm"
    /\ UNCHANGED <<boxVars, logVars, srcC, gzC, today, todo, cur, compressed, failed, seen, acked>>

\* set -e: a sync that fails, whatever of it is on the card, ends the run.
SyncFail ==
    /\ pc = "scan" /\ todo = {} /\ compressed # {} /\ day < LastDay
    /\ pc' = "exit" /\ failed' = TRUE /\ compressed' = {}
    /\ UNCHANGED <<boxVars, logVars, srcC, srcD, gzC, gzD, today, todo, cur, seen, acked>>

Rm(f) ==
    /\ pc = "rm" /\ f \in compressed
    /\ srcC' = [srcC EXCEPT ![f] = NoSrc]
    /\ compressed' = compressed \ {f}
    /\ UNCHANGED <<boxVars, logVars, srcD, gzC, gzD, pc, today, todo, cur, failed, seen, acked>>

\* rm keeps a source it cannot remove, goes on with the rest, and fails in the end.
RmFail(f) ==
    /\ pc = "rm" /\ f \in compressed /\ day < LastDay
    /\ compressed' = compressed \ {f} /\ failed' = TRUE
    /\ UNCHANGED <<boxVars, logVars, srcC, srcD, gzC, gzD, pc, today, todo, cur, seen, acked>>

\* rm is done with every source, or nothing was compressed.
RunDone ==
    /\ pc \in {"scan", "rm"} /\ todo = {} /\ compressed = {}
    /\ pc' = "exit"
    /\ UNCHANGED <<boxVars, logVars, srcC, srcD, gzC, gzD, today, todo, cur, compressed, failed, seen, acked>>

NoRun ==
    /\ pc' = "idle" /\ today' = None /\ failed' = FALSE
    /\ todo' = {} /\ cur' = {} /\ compressed' = {} /\ seen' = {}

RunExit ==
    /\ pc = "exit"
    /\ NoRun
    /\ UNCHANGED <<boxVars, logVars, srcC, srcD, gzC, gzD, acked>>

-----------------------------------------------------------------------------
(* The card.                                                               *)

\* The kernel writes the plain file back, or the fact that it is gone.
WritebackSrc(f) ==
    /\ srcC[f] # srcD[f]
    /\ srcD' = [srcD EXCEPT ![f] = srcC[f]]
    /\ UNCHANGED <<boxVars, logVars, srcC, gzC, gzD, runVars, acked>>

\* Likewise the .gz, of which the name may be on the card before its data.
WritebackGz(f) ==
    /\ gzC[f] # gzD[f]
    /\ \/ gzD' = [gzD EXCEPT ![f] = gzC[f]]
       \/ gzC[f].st = "full" /\ gzD' = [gzD EXCEPT ![f] = PartialGz]
    /\ UNCHANGED <<boxVars, logVars, srcC, srcD, gzC, runVars, acked>>

\* After the boot the files are what the card holds, the clock starts from a
\* day saved earlier, and the timer may not remember its last run.
PowerLoss ==
    /\ day < LastDay
    /\ clock' \in 1 .. clock /\ synced' = FALSE /\ lastRun' \in 0 .. lastRun
    /\ up' = {}
    /\ pend' = [g \in Logs |-> Nothing] /\ open' = [g \in Logs |-> None]
    /\ srcC' = srcD /\ gzC' = gzD
    /\ acked' = [f \in File |-> OnCard(f)]
    /\ NoRun
    /\ UNCHANGED <<day, srcD, gzD>>

-----------------------------------------------------------------------------
Next ==
    \/ Midnight \/ StaleMidnight \/ TimeSync
    \/ \E g \in Logs : LoggerStart(g) \/ Stamp(g) \/ Append(g) \/ LoggerExit(g)
    \/ RunStart \/ Sync \/ SyncFail \/ RunDone \/ RunExit
    \/ \E f \in File : GzipStart(f) \/ GzipOk(f) \/ GzipFail(f) \/ Rm(f) \/ RmFail(f)
    \/ \E f \in File : WritebackSrc(f) \/ WritebackGz(f)
    \/ PowerLoss

\* Time passes and NTP is reached; a running logger finishes its write; a run
\* of givcap-compress goes on to its end, each command succeeding unless it fails;
\* the kernel writes every dirty file back in full.
Fairness ==
    /\ WF_vars(Midnight) /\ WF_vars(TimeSync)
    /\ \A g \in Logs : WF_vars(Append(g))
    /\ WF_vars(RunStart) /\ WF_vars(Sync) /\ WF_vars(RunDone) /\ WF_vars(RunExit)
    /\ \A f \in File :
        /\ WF_vars(GzipStart(f)) /\ WF_vars(GzipOk(f)) /\ WF_vars(Rm(f))
        /\ WF_vars(WritebackSrc(f))
        /\ WF_vars(WritebackGz(f) /\ gzD'[f] = gzC[f])

Spec == Init /\ [][Next]_vars /\ Fairness
=============================================================================

----------------------- MODULE CaptureStoreProperties -----------------------
(* What the capture directory must get right. *)
EXTENDS CaptureStore

\* Every variable has the type its declaration says.
TypeOK ==
    /\ day \in Day /\ clock \in Day /\ synced \in BOOLEAN /\ lastRun \in Day \cup {None}
    /\ up \subseteq Logs
    /\ pend \in [Logs -> {Nothing} \cup [d : Day, ls : {{l} : l \in Lines}]]
    /\ open \in [Logs -> Day \cup {None}]
    /\ srcC \in [File -> Src] /\ srcD \in [File -> Src]
    /\ gzC \in [File -> Gz] /\ gzD \in [File -> Gz]
    /\ pc \in {"idle", "scan", "gzip", "rm", "exit"}
    /\ today \in Day \cup {None} /\ failed \in BOOLEAN
    /\ todo \subseteq File /\ cur \subseteq File
    /\ compressed \subseteq File /\ seen \subseteq File
    /\ acked \in [File -> SUBSET Lines]

\* Every line a logger has written can be read back, from the plain file or
\* from a full .gz, at every moment of a compression run: no write goes to a
\* file that was removed (serial_hexdump_logger holds its file open) and no
\* run replaces a .gz by one with fewer lines.
ReadBack == \A f \in File : acked[f] = InCache(f)

\* givcap-compress: "a power cut straight after this run can't leave an empty
\* .gz and no source", here after any step of it and whatever the card holds.
NoEmptyGzWithoutSource ==
    \A f \in File : gzD[f].st = "partial" => srcD[f].ex

\* Where the source is gone, the card already holds the whole of it compressed.
SourceGoneOnlyWhenOnCard ==
    \A f \in File : acked[f] # {} /\ ~srcC[f].ex => gzD[f] = FullGz(acked[f])

\* A run that exits with status 0 has left none of the files it found
\* uncompressed, so a failed file is not hidden by the rest of the run.
ExitZeroMeansDone ==
    pc = "exit" /\ ~failed => \A f \in seen : ~srcC[f].ex /\ gzC[f].st = "full"

\* A day that has a .gz gets no more lines: no logger opens the file of a day
\* that givcap-compress has taken for finished.
FinishedStaysFinished ==
    [][\A f \in File : gzC[f].st # "absent" => acked'[f] \subseteq acked[f]]_vars

\* Every file of a finished day ends up compressed, on the card, with its
\* source removed, whatever runs failed or were cut short on the days before.
FinishedDaysCompressed ==
    \A f \in File : f[1] < LastDay => <>[](~srcC[f].ex /\ ~srcD[f].ex)

\* The capture directory is a durable log of <<file, line>> items.
Durable == INSTANCE DurableLog
    WITH Items <- File \X Lines,
         logged <- {i \in File \X Lines : i[2] \in acked[i[1]]},
         kept <- {i \in File \X Lines : i[2] \in OnCard(i[1])}

\* Durability: what is on the card stays readable through every later power
\* loss, whichever step of a run it cuts short, and nothing else is lost.
DurableSafety == Durable!Safety

\* Every line a logger has written reaches the card, unless a power loss takes
\* it first: no run leaves a written line where only the page cache has it.
DurableLiveness == Durable!Liveness

-----------------------------------------------------------------------------
(* The invariant that makes the safety properties inductive. *)

\* The loggers run on the true day.
ClockInv == clock <= day /\ (synced => clock = day) /\ (up # {} => synced)

\* A waiting line belongs to no day that has a .gz, and to no day that the
\* current run has taken for finished.
PendInv(g) ==
    pend[g] # Nothing =>
        /\ pend[g].d <= day
        /\ gzC[<<pend[g].d, g>>].st = "absent" /\ gzD[<<pend[g].d, g>>].st = "absent"
        /\ pc # "idle" => pend[g].d >= today

\* A file that is held open is there, unless it was compressed.
OpenInv(g) ==
    open[g] # None => srcC[<<open[g], g>>].ex \/ gzC[<<open[g], g>>].st # "absent"

\* The two copies of a file, in the cache and on the card.
FileInv(f) ==
    /\ ~srcC[f].ex => srcC[f].ls = {} /\ gzC[f] = gzD[f]
                      /\ (gzC[f].st = "full" \/ (gzC[f].st = "absent" /\ ~srcD[f].ex))
    /\ ~srcD[f].ex => srcD[f].ls = {} /\ gzD[f].st # "partial"
    /\ srcC[f].ex => Readable(gzC[f]) \cup Readable(gzD[f]) \cup srcD[f].ls \subseteq srcC[f].ls
    /\ srcD[f].ex => Readable(gzD[f]) \subseteq srcD[f].ls
    /\ ~srcC[f].ex => srcD[f].ls \subseteq Readable(gzC[f])
    /\ gzC[f] # gzD[f] => srcC[f] = srcD[f] /\ srcC[f].ex
    /\ gzC[f].st # "absent" \/ gzD[f].st # "absent" => f[1] < day

\* Where a run is, and the files it has yet to compress, compresses, and has
\* compressed.
RunInv ==
    /\ pc = "idle" => todo = {} /\ cur = {} /\ compressed = {} /\ seen = {}
    /\ pc # "idle" => today \in 1 .. clock
    /\ pc # "gzip" => cur = {}
    /\ \A f, h \in cur : f = h
    /\ pc \in {"rm", "exit"} => todo = {}
    /\ pc = "exit" => compressed = {}
    /\ todo \cap cur = {} /\ todo \cap compressed = {} /\ cur \cap compressed = {}
    /\ todo \subseteq seen /\ cur \subseteq seen /\ compressed \subseteq seen

\* The files a run found are finished.  Those it has still to do something with
\* are whole on both sides, compressed ones have a full .gz, on the card too
\* once synced, and the others are done with unless the run has failed.
RunFileInv(f) ==
    f \in seen =>
        /\ f[1] < today
        /\ f \in todo \cup cur \cup compressed => srcC[f].ex /\ srcC[f] = srcD[f]
        /\ f \in compressed => gzC[f] = FullGz(srcC[f].ls) /\ (pc = "rm" => gzD[f] = gzC[f])
        /\ f \notin todo \cup cur \cup compressed /\ ~failed =>
               ~srcC[f].ex /\ gzC[f].st = "full"

Inductive ==
    /\ TypeOK /\ ReadBack /\ ClockInv /\ RunInv
    /\ \A g \in Logs : PendInv(g) /\ OpenInv(g)
    /\ \A f \in File : FileInv(f) /\ RunFileInv(f)
=============================================================================

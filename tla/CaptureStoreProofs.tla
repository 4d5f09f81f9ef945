------------------------- MODULE CaptureStoreProofs -------------------------
(***************************************************************************)
(* Proofs that the safety properties of the capture directory hold for any *)
(* set of lines and logs and any number of days.  The types first; then    *)
(* the invariant Inductive, one lemma per action with one step per named   *)
(* part of the invariant; then what follows from it.                       *)
(***************************************************************************)
EXTENDS CaptureStoreProperties, TLAPS

USE LastDayAssumption

\* The days are natural numbers, and None is not one of them.
LEMMA Constants == 1 \in Day /\ Day \subseteq Nat /\ None \notin Day
  BY DEF Day, None

\* The files that hold nothing have the types of files.
LEMMA EmptyFiles == NoSrc \in Src /\ NoGz \in Gz /\ PartialGz \in Gz
  BY DEF NoSrc, Src, NoGz, PartialGz, Gz

\* The initial state has the declared types.
LEMMA TypeInit == Init => TypeOK
<1> SUFFICES ASSUME Init PROVE TypeOK
  OBVIOUS
<1>1. /\ day \in Day /\ clock \in Day /\ synced \in BOOLEAN /\ lastRun \in Day \cup {None}
      /\ up \subseteq Logs /\ open \in [Logs -> Day \cup {None}]
      /\ pend \in [Logs -> {Nothing} \cup [d : Day, ls : {{l} : l \in Lines}]]
  BY Constants DEF Init
<1>2. srcC \in [File -> Src] /\ srcD \in [File -> Src] /\ gzC \in [File -> Gz] /\ gzD \in [File -> Gz]
  BY EmptyFiles DEF Init
<1> QED
  BY <1>1, <1>2 DEF Init, TypeOK

\* Every step of a logger, of a givcap-compress run, of the kernel or of the
\* clock, and a power loss, keeps the declared types.
LEMMA TypeStep == TypeOK /\ [Next]_vars => TypeOK'
<1> SUFFICES ASSUME TypeOK, [Next]_vars PROVE TypeOK'
  OBVIOUS
<1> USE DEF TypeOK, boxVars, logVars, runVars
<1>1. CASE Midnight
  BY <1>1 DEF Midnight, Day
<1>2. CASE StaleMidnight
  BY <1>2 DEF StaleMidnight, Day
<1>3. CASE TimeSync
  BY <1>3 DEF TimeSync
<1>4. ASSUME NEW g \in Logs, LoggerStart(g) PROVE TypeOK'
  BY <1>4 DEF LoggerStart, Stamped, Day
<1>5. ASSUME NEW g \in Logs, Stamp(g) PROVE TypeOK'
  BY <1>5 DEF Stamp, Stamped
<1>6. ASSUME NEW g \in Logs, Append(g) PROVE TypeOK'
  <2>1. pend[g] \in [d : Day, ls : {{l} : l \in Lines}] /\ pend[g].d \in Day /\ pend[g].ls \subseteq Lines
    BY <1>6 DEF Append
  <2>2. <<pend[g].d, g>> \in File
    BY <2>1 DEF File
  <2> QED
    BY <1>6, <2>1, <2>2 DEF Append, Src
<1>7. ASSUME NEW g \in Logs, LoggerExit(g) PROVE TypeOK'
  BY <1>7 DEF LoggerExit, Nothing, None
<1>8. CASE RunStart
  BY <1>8 DEF RunStart
<1>9. ASSUME NEW f \in File, GzipStart(f) PROVE TypeOK'
  BY <1>9 DEF GzipStart, Gz, PartialGz
<1>10. ASSUME NEW f \in File, GzipOk(f) PROVE TypeOK'
  BY <1>10 DEF GzipOk, Gz, FullGz, Src
<1>11. ASSUME NEW f \in File, GzipFail(f) PROVE TypeOK'
  BY <1>11 DEF GzipFail, Gz, NoGz
<1>12. CASE Sync
  BY <1>12 DEF Sync, Flush
<1>13. ASSUME NEW f \in File, Rm(f) PROVE TypeOK'
  BY <1>13 DEF Rm, Src, NoSrc
<1>20. CASE SyncFail
  BY <1>20 DEF SyncFail
<1>21. ASSUME NEW f \in File, RmFail(f) PROVE TypeOK'
  BY <1>21 DEF RmFail
<1>14. CASE RunDone
  BY <1>14 DEF RunDone
<1>15. CASE RunExit
  BY <1>15 DEF RunExit, NoRun
<1>16. ASSUME NEW f \in File, WritebackSrc(f) PROVE TypeOK'
  BY <1>16 DEF WritebackSrc
<1>17. ASSUME NEW f \in File, WritebackGz(f) PROVE TypeOK'
  BY <1>17, EmptyFiles DEF WritebackGz
<1>18. CASE PowerLoss
  <2>1. \A f \in File : OnCard(f) \in SUBSET Lines
    <3>1. ASSUME NEW f \in File PROVE srcD[f].ls \subseteq Lines /\ Readable(gzD[f]) \subseteq Lines
      <4>1. srcD[f] \in Src /\ gzD[f] \in Gz
        OBVIOUS
      <4>2. gzD[f].st = "full" => gzD[f].ls \subseteq Lines
        BY <4>1 DEF Gz, NoGz, PartialGz
      <4> QED
        BY <4>1, <4>2 DEF Src, Readable
    <3> QED
      BY <3>1 DEF OnCard
  <2>2. acked' \in [File -> SUBSET Lines]
    BY <1>18, <2>1 DEF PowerLoss
  <2>3. clock' \in Day /\ lastRun' \in Day \cup {None}
    BY <1>18 DEF PowerLoss, Day, None
  <2> QED
    BY <1>18, <2>2, <2>3 DEF PowerLoss, NoRun
<1>19. CASE UNCHANGED vars
  BY <1>19 DEF vars
<1> QED
  BY <1>1, <1>2, <1>3, <1>4, <1>5, <1>6, <1>7, <1>8, <1>9, <1>10, <1>11, <1>12,
     <1>13, <1>14, <1>15, <1>16, <1>17, <1>18, <1>19, <1>20, <1>21 DEF Next

\* Type correctness: in every behaviour of the capture box, for any number of
\* logs, lines and days, every variable keeps its type.
THEOREM TypeCorrect == Spec => []TypeOK
<1> QED
  BY TypeInit, TypeStep, PTL DEF Spec

-----------------------------------------------------------------------------
(* The inductive invariant. *)

\* What a step must leave true for the invariant to hold after it.
LEMMA InductiveParts ==
    ASSUME TypeOK', ClockInv', RunInv',
           \A g \in Logs : PendInv(g)' /\ OpenInv(g)',
           \A f \in File : acked'[f] = InCache(f)' /\ FileInv(f)' /\ RunFileInv(f)'
    PROVE Inductive'
  BY DEF Inductive, ReadBack

\* A file is of a day, and a day and a log make a file.
LEMMA FileDays ==
    /\ \A f \in File : f[1] \in Day
    /\ \A d \in Day, g \in Logs : <<d, g>> \in File /\ <<d, g>>[1] = d
  BY DEF File

\* What the states of a .gz and of a plain file hold.
LEMMA GzViews ==
    /\ Readable(NoGz) = {} /\ NoGz.st = "absent"
    /\ Readable(PartialGz) = {} /\ PartialGz.st = "partial"
    /\ \A ls : Readable(FullGz(ls)) = ls /\ FullGz(ls).st = "full"
    /\ NoSrc.ls = {} /\ NoSrc.ex = FALSE
    /\ \A gz \in Gz : gz.st = "absent" => gz = NoGz
  BY DEF Gz, Readable, NoGz, PartialGz, FullGz, NoSrc

\* Midnight: a .gz of an earlier day is still of an earlier day.
LEMMA MidnightStep == ASSUME Inductive, Midnight PROVE Inductive'
<1> USE Constants, FileDays, GzViews DEF boxVars, logVars, runVars, Inductive, TypeOK
<1>1. TypeOK'
  BY TypeStep DEF Next
<1>2. ClockInv'
  BY DEF ClockInv, Midnight
<1>3. RunInv'
  <2>1. /\ clock \in Nat /\ day \in Nat /\ clock' \in Nat /\ clock' >= clock
        /\ UNCHANGED <<pc, today, todo, cur, compressed, seen>>
    BY DEF ClockInv, Day, Midnight
  <2>2. RunInv
    OBVIOUS
  <2>3. pc' # "idle" => today' \in 1 .. clock'
    BY <2>1, <2>2 DEF RunInv
  <2> QED
    BY ONLY <2>1, <2>2, <2>3 DEF RunInv
<1>4. ASSUME NEW g \in Logs PROVE PendInv(g)'
  BY DEF PendInv, Day, None, Nothing, Midnight
<1>5. ASSUME NEW g \in Logs PROVE OpenInv(g)'
  BY DEF OpenInv, Midnight
<1>6. ASSUME NEW f \in File PROVE acked'[f] = InCache(f)'
  BY DEF ReadBack, InCache, Midnight
<1>7. ASSUME NEW f \in File PROVE FileInv(f)'
  BY DEF FileInv, Day, Midnight
<1>8. ASSUME NEW f \in File PROVE RunFileInv(f)'
  BY DEF RunFileInv, RunInv, Midnight
<1> QED
  BY <1>1, <1>2, <1>3, <1>4, <1>5, <1>6, <1>7, <1>8, InductiveParts

\* A clock that is behind moves no logger, since none is running.
LEMMA StaleMidnightStep == ASSUME Inductive, StaleMidnight PROVE Inductive'
<1> USE Constants, FileDays, GzViews DEF boxVars, logVars, runVars, Inductive, TypeOK
<1>1. TypeOK'
  BY TypeStep DEF Next
<1>2. ClockInv'
  BY DEF ClockInv, StaleMidnight
<1>3. RunInv'
  <2>1. /\ clock \in Nat /\ day \in Nat /\ clock' \in Nat /\ clock' >= clock
        /\ UNCHANGED <<pc, today, todo, cur, compressed, seen>>
    BY DEF ClockInv, Day, StaleMidnight
  <2>2. RunInv
    OBVIOUS
  <2>3. pc' # "idle" => today' \in 1 .. clock'
    BY <2>1, <2>2 DEF RunInv
  <2> QED
    BY ONLY <2>1, <2>2, <2>3 DEF RunInv
<1>4. ASSUME NEW g \in Logs PROVE PendInv(g)'
  BY DEF PendInv, ClockInv, RunInv, StaleMidnight
<1>5. ASSUME NEW g \in Logs PROVE OpenInv(g)'
  BY DEF OpenInv, StaleMidnight
<1>6. ASSUME NEW f \in File PROVE acked'[f] = InCache(f)'
  BY DEF ReadBack, InCache, StaleMidnight
<1>7. ASSUME NEW f \in File PROVE FileInv(f)'
  BY DEF FileInv, StaleMidnight
<1>8. ASSUME NEW f \in File PROVE RunFileInv(f)'
  BY DEF RunFileInv, RunInv, StaleMidnight
<1> QED
  BY <1>1, <1>2, <1>3, <1>4, <1>5, <1>6, <1>7, <1>8, InductiveParts

\* Setting the clock: from now on it is the true day.
LEMMA TimeSyncStep == ASSUME Inductive, TimeSync PROVE Inductive'
<1> USE Constants, FileDays, GzViews DEF boxVars, logVars, runVars, Inductive, TypeOK
<1>1. TypeOK'
  BY TypeStep DEF Next
<1>2. ClockInv'
  BY DEF ClockInv, TimeSync
<1>3. RunInv'
  <2>1. /\ clock \in Nat /\ day \in Nat /\ clock' \in Nat /\ clock' >= clock
        /\ UNCHANGED <<pc, today, todo, cur, compressed, seen>>
    BY DEF ClockInv, Day, TimeSync
  <2>2. RunInv
    OBVIOUS
  <2>3. pc' # "idle" => today' \in 1 .. clock'
    BY <2>1, <2>2 DEF RunInv
  <2> QED
    BY ONLY <2>1, <2>2, <2>3 DEF RunInv
<1>4. ASSUME NEW g \in Logs PROVE PendInv(g)'
  BY DEF PendInv, ClockInv, RunInv, TimeSync
<1>5. ASSUME NEW g \in Logs PROVE OpenInv(g)'
  BY DEF OpenInv, TimeSync
<1>6. ASSUME NEW f \in File PROVE acked'[f] = InCache(f)'
  BY DEF ReadBack, InCache, TimeSync
<1>7. ASSUME NEW f \in File PROVE FileInv(f)'
  BY DEF FileInv, TimeSync
<1>8. ASSUME NEW f \in File PROVE RunFileInv(f)'
  BY DEF RunFileInv, RunInv, TimeSync
<1> QED
  BY <1>1, <1>2, <1>3, <1>4, <1>5, <1>6, <1>7, <1>8, InductiveParts

\* The wire logger's start marker is stamped with the true day, which no run
\* has taken for finished.
LEMMA LoggerStartStep == ASSUME NEW x \in Logs, Inductive, LoggerStart(x) PROVE Inductive'
<1> USE Constants, FileDays, GzViews DEF boxVars, logVars, runVars, Inductive, TypeOK
<1>1. TypeOK'
  BY TypeStep DEF Next
<1>2. ClockInv'
  BY DEF ClockInv, LoggerStart, MayStart, Stamped
<1>3. RunInv'
  BY DEF RunInv, LoggerStart, MayStart, Stamped
<1>4. ASSUME NEW g \in Logs PROVE PendInv(g)'
  <2>1. /\ clock = day /\ (pc # "idle" => day >= today)
        /\ gzC[<<day, x>>].st = "absent" /\ gzD[<<day, x>>].st = "absent"
    <3>1. clock = day /\ (pc # "idle" => day >= today)
      BY DEF ClockInv, RunInv, LoggerStart, MayStart, Day
    <3>2. FileInv(<<day, x>>)
      OBVIOUS
    <3> QED
      BY <3>1, <3>2 DEF FileInv, Day
  <2>2. CASE g = x /\ pend'[g] # pend[g]
    BY <2>1, <2>2 DEF PendInv, LoggerStart, Stamped, Day
  <2>3. CASE g # x \/ pend'[g] = pend[g]
    BY <2>3 DEF PendInv, LoggerStart, MayStart, Stamped
  <2> QED
    BY <2>2, <2>3
<1>5. ASSUME NEW g \in Logs PROVE OpenInv(g)'
  BY DEF OpenInv, LoggerStart, MayStart, Stamped
<1>6. ASSUME NEW f \in File PROVE acked'[f] = InCache(f)'
  BY DEF ReadBack, InCache, LoggerStart, MayStart, Stamped
<1>7. ASSUME NEW f \in File PROVE FileInv(f)'
  BY DEF FileInv, LoggerStart, MayStart, Stamped
<1>8. ASSUME NEW f \in File PROVE RunFileInv(f)'
  BY DEF RunFileInv, RunInv, LoggerStart, MayStart, Stamped
<1> QED
  BY <1>1, <1>2, <1>3, <1>4, <1>5, <1>6, <1>7, <1>8, InductiveParts

\* A line is stamped with the true day, which no run has taken for finished.
LEMMA StampStep == ASSUME NEW x \in Logs, Inductive, Stamp(x) PROVE Inductive'
<1> USE Constants, FileDays, GzViews DEF boxVars, logVars, runVars, Inductive, TypeOK
<1>1. TypeOK'
  BY TypeStep DEF Next
<1>2. ClockInv'
  BY DEF ClockInv, Stamp, Stamped
<1>3. RunInv'
  BY DEF RunInv, Stamp, Stamped
<1>4. ASSUME NEW g \in Logs PROVE PendInv(g)'
  <2>1. /\ clock = day /\ (pc # "idle" => day >= today)
        /\ gzC[<<day, x>>].st = "absent" /\ gzD[<<day, x>>].st = "absent"
    <3>1. clock = day /\ (pc # "idle" => day >= today)
      BY DEF ClockInv, RunInv, Stamp, Day
    <3>2. FileInv(<<day, x>>)
      OBVIOUS
    <3> QED
      BY <3>1, <3>2 DEF FileInv, Day
  <2>2. CASE g = x /\ pend'[g] # pend[g]
    BY <2>1, <2>2 DEF PendInv, Stamp, Stamped, Day
  <2>3. CASE g # x \/ pend'[g] = pend[g]
    BY <2>3 DEF PendInv, Stamp, Stamped
  <2> QED
    BY <2>2, <2>3
<1>5. ASSUME NEW g \in Logs PROVE OpenInv(g)'
  BY DEF OpenInv, Stamp, Stamped
<1>6. ASSUME NEW f \in File PROVE acked'[f] = InCache(f)'
  BY DEF ReadBack, InCache, Stamp, Stamped
<1>7. ASSUME NEW f \in File PROVE FileInv(f)'
  BY DEF FileInv, Stamp, Stamped
<1>8. ASSUME NEW f \in File PROVE RunFileInv(f)'
  BY DEF RunFileInv, RunInv, Stamp, Stamped
<1> QED
  BY <1>1, <1>2, <1>3, <1>4, <1>5, <1>6, <1>7, <1>8, InductiveParts

\* A logger that ends drops what it had not written.
LEMMA LoggerExitStep == ASSUME NEW x \in Logs, Inductive, LoggerExit(x) PROVE Inductive'
<1> USE Constants, FileDays, GzViews DEF boxVars, logVars, runVars, Inductive, TypeOK
<1>1. TypeOK'
  BY TypeStep DEF Next
<1>2. ClockInv'
  BY DEF ClockInv, LoggerExit
<1>3. RunInv'
  BY DEF RunInv, LoggerExit
<1>4. ASSUME NEW g \in Logs PROVE PendInv(g)'
  BY DEF PendInv, ClockInv, RunInv, LoggerExit
<1>5. ASSUME NEW g \in Logs PROVE OpenInv(g)'
  BY DEF OpenInv, LoggerExit
<1>6. ASSUME NEW f \in File PROVE acked'[f] = InCache(f)'
  BY DEF ReadBack, InCache, LoggerExit
<1>7. ASSUME NEW f \in File PROVE FileInv(f)'
  BY DEF FileInv, LoggerExit
<1>8. ASSUME NEW f \in File PROVE RunFileInv(f)'
  BY DEF RunFileInv, RunInv, LoggerExit
<1> QED
  BY <1>1, <1>2, <1>3, <1>4, <1>5, <1>6, <1>7, <1>8, InductiveParts

\* A run starts with nothing compressed; by the hour of its start the files it
\* finds are on the card and no line of theirs is waiting.
LEMMA RunStartStep == ASSUME Inductive, RunStart PROVE Inductive'
<1> USE Constants, FileDays, GzViews DEF boxVars, logVars, runVars, Inductive, TypeOK
<1>1. TypeOK'
  BY TypeStep DEF Next
<1>2. ClockInv'
  BY DEF ClockInv, RunStart
<1>3. RunInv'
  BY DEF RunInv, RunStart, Day
<1>4. ASSUME NEW g \in Logs PROVE PendInv(g)'
  BY DEF PendInv, RunStart, Settled
<1>5. ASSUME NEW g \in Logs PROVE OpenInv(g)'
  BY DEF OpenInv, RunStart
<1>6. ASSUME NEW f \in File PROVE acked'[f] = InCache(f)'
  BY DEF ReadBack, InCache, RunStart
<1>7. ASSUME NEW f \in File PROVE FileInv(f)'
  BY DEF FileInv, RunStart
<1>8. ASSUME NEW f \in File PROVE RunFileInv(f)'
  BY DEF RunFileInv, RunInv, RunStart, Finished, Settled
<1> QED
  BY <1>1, <1>2, <1>3, <1>4, <1>5, <1>6, <1>7, <1>8, InductiveParts

\* Emptying an old .gz loses nothing, its source is whole.
LEMMA GzipStartStep == ASSUME NEW x \in File, Inductive, GzipStart(x) PROVE Inductive'
<1> USE Constants, FileDays, GzViews DEF boxVars, logVars, runVars, Inductive, TypeOK
<1>1. TypeOK'
  BY TypeStep DEF Next
<1>a. /\ srcC' = srcC /\ srcD' = srcD /\ gzD' = gzD /\ acked' = acked /\ day' = day
      /\ gzC'[x] = PartialGz /\ \A h \in File : h # x => gzC'[h] = gzC[h]
  BY DEF GzipStart
<1>b. /\ srcC[x].ex /\ srcC[x] = srcD[x] /\ x[1] < today /\ x \in seen /\ pc # "idle"
      /\ x \notin compressed
  BY DEF GzipStart, RunInv, RunFileInv
<1>2. ClockInv'
  BY DEF ClockInv, GzipStart
<1>3. RunInv'
  BY DEF RunInv, GzipStart
<1>4. ASSUME NEW g \in Logs PROVE PendInv(g)'
  <2>1. pend[g] # Nothing => <<pend[g].d, g>> \in File /\ <<pend[g].d, g>> # x
    BY <1>b DEF PendInv, RunInv, Day
  <2> QED
    BY <1>a, <2>1 DEF PendInv, GzipStart
<1>5. ASSUME NEW g \in Logs PROVE OpenInv(g)'
  BY <1>a, <1>b DEF OpenInv, GzipStart
<1>6. ASSUME NEW f \in File PROVE acked'[f] = InCache(f)'
  <2>1. CASE f = x
    <3>1. Readable(gzC[x]) \subseteq srcC[x].ls
      BY <1>b DEF FileInv
    <3> QED
      BY <1>a, <1>b, <2>1, <3>1 DEF ReadBack, InCache
  <2>2. CASE f # x
    BY <1>a, <2>2 DEF ReadBack, InCache
  <2> QED
    BY <2>1, <2>2
<1>7. ASSUME NEW f \in File PROVE FileInv(f)'
  <2>1. CASE f = x
    <3>1. x[1] < day
      BY <1>b DEF RunInv, ClockInv, Day
    <3> QED
      BY <1>a, <1>b, <2>1, <3>1 DEF FileInv
  <2>2. CASE f # x
    BY <1>a, <2>2 DEF FileInv
  <2> QED
    BY <2>1, <2>2
<1>8. ASSUME NEW f \in File PROVE RunFileInv(f)'
  <2>1. CASE f = x
    BY <1>a, <1>b, <2>1 DEF RunFileInv, RunInv, GzipStart
  <2>2. CASE f # x
    BY <1>a, <2>2 DEF RunFileInv, RunInv, GzipStart
  <2> QED
    BY <2>1, <2>2
<1> QED
  BY <1>1, <1>2, <1>3, <1>4, <1>5, <1>6, <1>7, <1>8, InductiveParts

\* A .gz is filled from a source that nobody writes to.
LEMMA GzipOkStep == ASSUME NEW x \in File, Inductive, GzipOk(x) PROVE Inductive'
<1> USE Constants, FileDays, GzViews DEF boxVars, logVars, runVars, Inductive, TypeOK
<1>1. TypeOK'
  BY TypeStep DEF Next
<1>a. /\ srcC' = srcC /\ srcD' = srcD /\ gzD' = gzD /\ acked' = acked /\ day' = day
      /\ gzC'[x] = FullGz(srcC[x].ls) /\ \A h \in File : h # x => gzC'[h] = gzC[h]
  BY DEF GzipOk
<1>b. /\ srcC[x].ex /\ srcC[x] = srcD[x] /\ x[1] < today /\ x \in seen /\ pc # "idle"
      /\ x \notin compressed
  BY DEF GzipOk, RunInv, RunFileInv
<1>2. ClockInv'
  BY DEF ClockInv, GzipOk
<1>3. RunInv'
  BY DEF RunInv, GzipOk
<1>4. ASSUME NEW g \in Logs PROVE PendInv(g)'
  <2>1. pend[g] # Nothing => <<pend[g].d, g>> \in File /\ <<pend[g].d, g>> # x
    BY <1>b DEF PendInv, RunInv, Day
  <2> QED
    BY <1>a, <2>1 DEF PendInv, GzipOk
<1>5. ASSUME NEW g \in Logs PROVE OpenInv(g)'
  BY <1>a, <1>b DEF OpenInv, GzipOk
<1>6. ASSUME NEW f \in File PROVE acked'[f] = InCache(f)'
  <2>1. CASE f = x
    <3>1. Readable(gzC[x]) \subseteq srcC[x].ls
      BY <1>b DEF FileInv
    <3> QED
      BY <1>a, <1>b, <2>1, <3>1 DEF ReadBack, InCache
  <2>2. CASE f # x
    BY <1>a, <2>2 DEF ReadBack, InCache
  <2> QED
    BY <2>1, <2>2
<1>7. ASSUME NEW f \in File PROVE FileInv(f)'
  <2>1. CASE f = x
    <3>1. x[1] < day
      BY <1>b DEF RunInv, ClockInv, Day
    <3> QED
      BY <1>a, <1>b, <2>1, <3>1 DEF FileInv
  <2>2. CASE f # x
    BY <1>a, <2>2 DEF FileInv
  <2> QED
    BY <2>1, <2>2
<1>8. ASSUME NEW f \in File PROVE RunFileInv(f)'
  <2>1. CASE f = x
    BY <1>a, <1>b, <2>1 DEF RunFileInv, RunInv, GzipOk
  <2>2. CASE f # x
    BY <1>a, <2>2 DEF RunFileInv, RunInv, GzipOk
  <2> QED
    BY <2>1, <2>2
<1> QED
  BY <1>1, <1>2, <1>3, <1>4, <1>5, <1>6, <1>7, <1>8, InductiveParts

\* Removing what a failed gzip left loses nothing, the source is kept.
LEMMA GzipFailStep == ASSUME NEW x \in File, Inductive, GzipFail(x) PROVE Inductive'
<1> USE Constants, FileDays, GzViews DEF boxVars, logVars, runVars, Inductive, TypeOK
<1>1. TypeOK'
  BY TypeStep DEF Next
<1>a. /\ srcC' = srcC /\ srcD' = srcD /\ gzD' = gzD /\ acked' = acked /\ day' = day
      /\ gzC'[x] = NoGz /\ \A h \in File : h # x => gzC'[h] = gzC[h]
  BY DEF GzipFail
<1>b. /\ srcC[x].ex /\ srcC[x] = srcD[x] /\ x[1] < today /\ x \in seen /\ pc # "idle"
      /\ x \notin compressed
  BY DEF GzipFail, RunInv, RunFileInv
<1>2. ClockInv'
  BY DEF ClockInv, GzipFail
<1>3. RunInv'
  BY DEF RunInv, GzipFail
<1>4. ASSUME NEW g \in Logs PROVE PendInv(g)'
  <2>1. pend[g] # Nothing => <<pend[g].d, g>> \in File /\ <<pend[g].d, g>> # x
    BY <1>b DEF PendInv, RunInv, Day
  <2> QED
    BY <1>a, <2>1 DEF PendInv, GzipFail
<1>5. ASSUME NEW g \in Logs PROVE OpenInv(g)'
  BY <1>a, <1>b DEF OpenInv, GzipFail
<1>6. ASSUME NEW f \in File PROVE acked'[f] = InCache(f)'
  <2>1. CASE f = x
    <3>1. Readable(gzC[x]) \subseteq srcC[x].ls
      BY <1>b DEF FileInv
    <3> QED
      BY <1>a, <1>b, <2>1, <3>1 DEF ReadBack, InCache
  <2>2. CASE f # x
    BY <1>a, <2>2 DEF ReadBack, InCache
  <2> QED
    BY <2>1, <2>2
<1>7. ASSUME NEW f \in File PROVE FileInv(f)'
  <2>1. CASE f = x
    <3>1. x[1] < day
      BY <1>b DEF RunInv, ClockInv, Day
    <3> QED
      BY <1>a, <1>b, <2>1, <3>1 DEF FileInv
  <2>2. CASE f # x
    BY <1>a, <2>2 DEF FileInv
  <2> QED
    BY <2>1, <2>2
<1>8. ASSUME NEW f \in File PROVE RunFileInv(f)'
  <2>1. CASE f = x
    BY <1>a, <1>b, <2>1 DEF RunFileInv, RunInv, GzipFail
  <2>2. CASE f # x
    BY <1>a, <2>2 DEF RunFileInv, RunInv, GzipFail
  <2> QED
    BY <2>1, <2>2
<1> QED
  BY <1>1, <1>2, <1>3, <1>4, <1>5, <1>6, <1>7, <1>8, InductiveParts

\* After the sync the compressed files of the run are on the card.
LEMMA SyncStep == ASSUME Inductive, Sync PROVE Inductive'
<1> USE Constants, FileDays, GzViews DEF boxVars, logVars, runVars, Inductive, TypeOK
<1>1. TypeOK'
  BY TypeStep DEF Next
<1>2. ClockInv'
  BY DEF ClockInv, Sync, Flush
<1>3. RunInv'
  BY DEF RunInv, Sync, Flush
<1>4. ASSUME NEW g \in Logs PROVE PendInv(g)'
  BY DEF PendInv, ClockInv, RunInv, Sync, Flush
<1>5. ASSUME NEW g \in Logs PROVE OpenInv(g)'
  BY DEF OpenInv, Sync, Flush
<1>6. ASSUME NEW f \in File PROVE acked'[f] = InCache(f)'
  BY DEF ReadBack, InCache, Sync, Flush
<1>7. ASSUME NEW f \in File PROVE FileInv(f)'
  BY DEF FileInv, Sync, Flush
<1>8. ASSUME NEW f \in File PROVE RunFileInv(f)'
  BY DEF RunFileInv, RunInv, Sync, Flush
<1> QED
  BY <1>1, <1>2, <1>3, <1>4, <1>5, <1>6, <1>7, <1>8, InductiveParts

\* A source is removed only when its .gz is full in the cache and on the card.
LEMMA RmStep == ASSUME NEW x \in File, Inductive, Rm(x) PROVE Inductive'
<1> USE Constants, FileDays, GzViews DEF boxVars, logVars, runVars, Inductive, TypeOK
<1>1. TypeOK'
  BY TypeStep DEF Next
<1>a. /\ gzC' = gzC /\ srcD' = srcD /\ gzD' = gzD /\ acked' = acked /\ day' = day
      /\ srcC'[x] = NoSrc /\ \A h \in File : h # x => srcC'[h] = srcC[h]
  BY DEF Rm
<1>b. /\ srcC[x].ex /\ srcC[x] = srcD[x] /\ gzC[x] = FullGz(srcC[x].ls) /\ gzD[x] = gzC[x]
  BY DEF Rm, RunInv, RunFileInv
<1>2. ClockInv'
  BY DEF ClockInv, Rm
<1>3. RunInv'
  BY DEF RunInv, Rm
<1>4. ASSUME NEW g \in Logs PROVE PendInv(g)'
  BY DEF PendInv, ClockInv, RunInv, Rm
<1>5. ASSUME NEW g \in Logs PROVE OpenInv(g)'
  BY <1>a, <1>b DEF OpenInv, Rm
<1>6. ASSUME NEW f \in File PROVE acked'[f] = InCache(f)'
  BY <1>a, <1>b DEF ReadBack, InCache
<1>7. ASSUME NEW f \in File PROVE FileInv(f)'
  <2>1. CASE f = x
    BY <1>a, <1>b, <2>1 DEF FileInv
  <2>2. CASE f # x
    BY <1>a, <2>2 DEF FileInv
  <2> QED
    BY <2>1, <2>2
<1>8. ASSUME NEW f \in File PROVE RunFileInv(f)'
  BY DEF RunFileInv, RunInv, Rm
<1> QED
  BY <1>1, <1>2, <1>3, <1>4, <1>5, <1>6, <1>7, <1>8, InductiveParts

\* A sync that fails ends the run and changes no file.
LEMMA SyncFailStep == ASSUME Inductive, SyncFail PROVE Inductive'
<1> USE Constants, FileDays, GzViews DEF boxVars, logVars, runVars, Inductive, TypeOK
<1>1. TypeOK'
  BY TypeStep DEF Next
<1>2. ClockInv'
  BY DEF ClockInv, SyncFail
<1>3. RunInv'
  BY DEF RunInv, SyncFail
<1>4. ASSUME NEW g \in Logs PROVE PendInv(g)'
  BY DEF PendInv, ClockInv, RunInv, SyncFail
<1>5. ASSUME NEW g \in Logs PROVE OpenInv(g)'
  BY DEF OpenInv, SyncFail
<1>6. ASSUME NEW f \in File PROVE acked'[f] = InCache(f)'
  BY DEF ReadBack, InCache, SyncFail
<1>7. ASSUME NEW f \in File PROVE FileInv(f)'
  BY DEF FileInv, SyncFail
<1>8. ASSUME NEW f \in File PROVE RunFileInv(f)'
  BY DEF RunFileInv, RunInv, SyncFail
<1> QED
  BY <1>1, <1>2, <1>3, <1>4, <1>5, <1>6, <1>7, <1>8, InductiveParts

\* A source that cannot be removed stays beside its .gz.
LEMMA RmFailStep == ASSUME NEW x \in File, Inductive, RmFail(x) PROVE Inductive'
<1> USE Constants, FileDays, GzViews DEF boxVars, logVars, runVars, Inductive, TypeOK
<1>1. TypeOK'
  BY TypeStep DEF Next
<1>2. ClockInv'
  BY DEF ClockInv, RmFail
<1>3. RunInv'
  BY DEF RunInv, RmFail
<1>4. ASSUME NEW g \in Logs PROVE PendInv(g)'
  BY DEF PendInv, ClockInv, RunInv, RmFail
<1>5. ASSUME NEW g \in Logs PROVE OpenInv(g)'
  BY DEF OpenInv, RmFail
<1>6. ASSUME NEW f \in File PROVE acked'[f] = InCache(f)'
  BY DEF ReadBack, InCache, RmFail
<1>7. ASSUME NEW f \in File PROVE FileInv(f)'
  BY DEF FileInv, RmFail
<1>8. ASSUME NEW f \in File PROVE RunFileInv(f)'
  BY DEF RunFileInv, RunInv, RmFail
<1> QED
  BY <1>1, <1>2, <1>3, <1>4, <1>5, <1>6, <1>7, <1>8, InductiveParts

\* The end of the work list changes no file.
LEMMA RunDoneStep == ASSUME Inductive, RunDone PROVE Inductive'
<1> USE Constants, FileDays, GzViews DEF boxVars, logVars, runVars, Inductive, TypeOK
<1>1. TypeOK'
  BY TypeStep DEF Next
<1>2. ClockInv'
  BY DEF ClockInv, RunDone
<1>3. RunInv'
  BY DEF RunInv, RunDone
<1>4. ASSUME NEW g \in Logs PROVE PendInv(g)'
  BY DEF PendInv, ClockInv, RunInv, RunDone
<1>5. ASSUME NEW g \in Logs PROVE OpenInv(g)'
  BY DEF OpenInv, RunDone
<1>6. ASSUME NEW f \in File PROVE acked'[f] = InCache(f)'
  BY DEF ReadBack, InCache, RunDone
<1>7. ASSUME NEW f \in File PROVE FileInv(f)'
  BY DEF FileInv, RunDone
<1>8. ASSUME NEW f \in File PROVE RunFileInv(f)'
  BY DEF RunFileInv, RunInv, RunDone
<1> QED
  BY <1>1, <1>2, <1>3, <1>4, <1>5, <1>6, <1>7, <1>8, InductiveParts

\* The end of the run changes no file.
LEMMA RunExitStep == ASSUME Inductive, RunExit PROVE Inductive'
<1> USE Constants, FileDays, GzViews DEF boxVars, logVars, runVars, Inductive, TypeOK
<1>1. TypeOK'
  BY TypeStep DEF Next
<1>2. ClockInv'
  BY DEF ClockInv, RunExit, NoRun
<1>3. RunInv'
  BY DEF RunInv, RunExit, NoRun
<1>4. ASSUME NEW g \in Logs PROVE PendInv(g)'
  BY DEF PendInv, ClockInv, RunInv, RunExit, NoRun
<1>5. ASSUME NEW g \in Logs PROVE OpenInv(g)'
  BY DEF OpenInv, RunExit, NoRun
<1>6. ASSUME NEW f \in File PROVE acked'[f] = InCache(f)'
  BY DEF ReadBack, InCache, RunExit, NoRun
<1>7. ASSUME NEW f \in File PROVE FileInv(f)'
  BY DEF FileInv, RunExit, NoRun
<1>8. ASSUME NEW f \in File PROVE RunFileInv(f)'
  BY DEF RunFileInv, RunInv, RunExit, NoRun
<1> QED
  BY <1>1, <1>2, <1>3, <1>4, <1>5, <1>6, <1>7, <1>8, InductiveParts

\* Writeback of a plain file, in any order with the rest.
LEMMA WritebackSrcStep == ASSUME NEW x \in File, Inductive, WritebackSrc(x) PROVE Inductive'
<1> USE Constants, FileDays, GzViews DEF boxVars, logVars, runVars, Inductive, TypeOK
<1>1. TypeOK'
  BY TypeStep DEF Next
<1>2. ClockInv'
  BY DEF ClockInv, WritebackSrc
<1>3. RunInv'
  BY DEF RunInv, WritebackSrc
<1>4. ASSUME NEW g \in Logs PROVE PendInv(g)'
  BY DEF PendInv, ClockInv, RunInv, WritebackSrc
<1>5. ASSUME NEW g \in Logs PROVE OpenInv(g)'
  BY DEF OpenInv, WritebackSrc
<1>6. ASSUME NEW f \in File PROVE acked'[f] = InCache(f)'
  BY DEF ReadBack, InCache, WritebackSrc
<1>7. ASSUME NEW f \in File PROVE FileInv(f)'
  BY DEF FileInv, WritebackSrc
<1>8. ASSUME NEW f \in File PROVE RunFileInv(f)'
  BY DEF RunFileInv, RunInv, WritebackSrc
<1> QED
  BY <1>1, <1>2, <1>3, <1>4, <1>5, <1>6, <1>7, <1>8, InductiveParts

\* Writeback of a .gz, in any order with the rest and perhaps without its data.
LEMMA WritebackGzStep == ASSUME NEW x \in File, Inductive, WritebackGz(x) PROVE Inductive'
<1> USE Constants, FileDays, GzViews DEF boxVars, logVars, runVars, Inductive, TypeOK
<1>1. TypeOK'
  BY TypeStep DEF Next
<1>2. ClockInv'
  BY DEF ClockInv, WritebackGz
<1>3. RunInv'
  BY DEF RunInv, WritebackGz
<1>4. ASSUME NEW g \in Logs PROVE PendInv(g)'
  <2>1. \A h \in File : gzC[h].st = "absent" /\ gzD[h].st = "absent" => gzD'[h].st = "absent"
    BY DEF WritebackGz
  <2>2. pend[g] # Nothing => <<pend[g].d, g>> \in File
    OBVIOUS
  <2> QED
    BY <2>1, <2>2 DEF PendInv, WritebackGz
<1>5. ASSUME NEW g \in Logs PROVE OpenInv(g)'
  BY DEF OpenInv, WritebackGz
<1>6. ASSUME NEW f \in File PROVE acked'[f] = InCache(f)'
  BY DEF ReadBack, InCache, WritebackGz
<1>7. ASSUME NEW f \in File PROVE FileInv(f)'
  BY DEF FileInv, WritebackGz
<1>8. ASSUME NEW f \in File PROVE RunFileInv(f)'
  BY DEF RunFileInv, RunInv, WritebackGz
<1> QED
  BY <1>1, <1>2, <1>3, <1>4, <1>5, <1>6, <1>7, <1>8, InductiveParts

\* Power loss: what the card holds satisfies the invariant on its own.
LEMMA PowerLossStep == ASSUME Inductive, PowerLoss PROVE Inductive'
<1> USE Constants, FileDays, GzViews DEF boxVars, logVars, runVars, Inductive, TypeOK
<1>1. TypeOK'
  BY TypeStep DEF Next
<1>2. ClockInv'
  BY DEF ClockInv, PowerLoss, NoRun
<1>3. RunInv'
  BY DEF RunInv, PowerLoss, NoRun
<1>4. ASSUME NEW g \in Logs PROVE PendInv(g)'
  BY DEF PendInv, ClockInv, RunInv, PowerLoss, NoRun
<1>5. ASSUME NEW g \in Logs PROVE OpenInv(g)'
  BY DEF OpenInv, PowerLoss, NoRun
<1>6. ASSUME NEW f \in File PROVE acked'[f] = InCache(f)'
  BY DEF OnCard, InCache, PowerLoss
<1>7. ASSUME NEW f \in File PROVE FileInv(f)'
  <2>1. srcC'[f] = srcD[f] /\ gzC'[f] = gzD[f] /\ srcD'[f] = srcD[f] /\ gzD'[f] = gzD[f] /\ day' = day
    BY DEF PowerLoss
  <2>2. gzD[f].st \in {"absent", "partial", "full"}
    BY DEF Gz
  <2> QED
    BY <2>1, <2>2 DEF FileInv
<1>8. ASSUME NEW f \in File PROVE RunFileInv(f)'
  BY DEF RunFileInv, RunInv, PowerLoss, NoRun
<1> QED
  BY <1>1, <1>2, <1>3, <1>4, <1>5, <1>6, <1>7, <1>8, InductiveParts

\* An append goes to a file that has no .gz and that the current run has not
\* found, so the held file is there and the line joins it.
LEMMA AppendStep == ASSUME NEW x \in Logs, Inductive, Append(x) PROVE Inductive'
<1> USE Constants, FileDays, GzViews DEF boxVars, logVars, runVars, Inductive, TypeOK
<1> DEFINE c == <<pend[x].d, x>>
<1>a. /\ pend[x].d \in Day /\ c \in File /\ c[1] = pend[x].d
      /\ pend[x].ls \subseteq Lines
  BY DEF Append
<1>b. /\ gzC[c].st = "absent" /\ gzD[c].st = "absent" /\ pend[x].d <= day
      /\ pc # "idle" => pend[x].d >= today
  BY <1>a DEF PendInv, Append
<1>c. ~(Keeps(x) /\ ~srcC[c].ex)
  BY <1>a, <1>b DEF OpenInv, Keeps
<1>d. /\ srcC' = [srcC EXCEPT ![c] = [ex |-> TRUE, ls |-> @.ls \cup pend[x].ls]]
      /\ acked' = [acked EXCEPT ![c] = @ \cup pend[x].ls]
  BY <1>c DEF Append
<1>e. /\ srcC'[c].ex /\ srcC'[c].ls = srcC[c].ls \cup pend[x].ls
      /\ acked'[c] = acked[c] \cup pend[x].ls
      /\ \A h \in File : h # c => srcC'[h] = srcC[h] /\ acked'[h] = acked[h]
      /\ srcD' = srcD /\ gzC' = gzC /\ gzD' = gzD /\ day' = day
  BY <1>a, <1>d DEF Append
<1>f. c \notin seen
  BY <1>a, <1>b DEF RunFileInv, RunInv, Day
<1>1. TypeOK'
  BY TypeStep DEF Next
<1>2. ClockInv'
  BY DEF ClockInv, Append
<1>3. RunInv'
  BY DEF RunInv, Append
<1>4. ASSUME NEW g \in Logs PROVE PendInv(g)'
  BY DEF PendInv, Append
<1>5. ASSUME NEW g \in Logs PROVE OpenInv(g)'
  <2>1. CASE g = x
    <3>1. open'[g] # None => open'[g] = pend[x].d
      BY <2>1 DEF Append
    <3>2. open'[g] # None => srcC'[<<open'[g], g>>].ex
      BY <1>e, <2>1, <3>1
    <3> QED
      BY <3>2 DEF OpenInv
  <2>2. CASE g # x
    <3>1. open'[g] = open[g] /\ (open[g] # None => <<open[g], g>> \in File /\ <<open[g], g>> # c)
      BY <2>2 DEF Append
    <3> QED
      BY <1>e, <3>1 DEF OpenInv
  <2> QED
    BY <2>1, <2>2
<1>6. ASSUME NEW f \in File PROVE acked'[f] = InCache(f)'
  BY <1>a, <1>e DEF ReadBack, InCache
<1>7. ASSUME NEW f \in File PROVE FileInv(f)'
  <2>1. CASE f = c
    <3>1. gzC[c] = NoGz /\ gzD[c] = NoGz
      BY <1>a, <1>b
    <3> QED
      BY <1>a, <1>e, <2>1, <3>1 DEF FileInv
  <2>2. CASE f # c
    BY <1>e, <2>2 DEF FileInv
  <2> QED
    BY <2>1, <2>2
<1>8. ASSUME NEW f \in File PROVE RunFileInv(f)'
  <2>1. f \in seen => srcC'[f] = srcC[f]
    BY <1>e, <1>f
  <2>2. runVars' = runVars /\ gzC' = gzC /\ gzD' = gzD /\ srcD' = srcD
    BY DEF Append
  <2> QED
    BY <2>1, <2>2 DEF RunFileInv
<1> QED
  BY <1>1, <1>2, <1>3, <1>4, <1>5, <1>6, <1>7, <1>8, InductiveParts

\* The invariant holds at first.
LEMMA InductiveInit == Init => Inductive
<1> SUFFICES ASSUME Init PROVE Inductive
  OBVIOUS
<1>1. TypeOK
  BY TypeInit
<1>2. ClockInv /\ RunInv
  BY DEF Init, ClockInv, RunInv
<1>3. \A g \in Logs : PendInv(g) /\ OpenInv(g)
  BY DEF Init, PendInv, OpenInv
<1>4. \A f \in File : acked[f] = InCache(f) /\ FileInv(f) /\ RunFileInv(f)
  BY GzViews DEF Init, InCache, FileInv, RunFileInv
<1> QED
  BY <1>1, <1>2, <1>3, <1>4 DEF Inductive, ReadBack

\* The invariant is inductive: one step per action of the capture box.
LEMMA InductiveStep == Inductive /\ [Next]_vars => Inductive'
<1> SUFFICES ASSUME Inductive, [Next]_vars PROVE Inductive'
  OBVIOUS
<1>1. CASE UNCHANGED vars
  BY <1>1 DEF vars, boxVars, logVars, runVars, Inductive, TypeOK, ReadBack, InCache,
     ClockInv, RunInv, PendInv, OpenInv, FileInv, RunFileInv
<1>2. CASE Next
  BY <1>2, MidnightStep, StaleMidnightStep, TimeSyncStep, LoggerStartStep, StampStep,
     AppendStep, LoggerExitStep, RunStartStep, GzipStartStep, GzipOkStep, GzipFailStep,
     SyncStep, SyncFailStep, RmStep, RmFailStep, RunDoneStep, RunExitStep, WritebackSrcStep, WritebackGzStep,
     PowerLossStep DEF Next
<1> QED
  BY <1>1, <1>2

\* The invariant holds in every reachable state, for any logs, lines and days.
THEOREM InductiveInvariant == Spec => []Inductive
<1> QED
  BY InductiveInit, InductiveStep, PTL DEF Spec

-----------------------------------------------------------------------------
(* What the invariant gives. *)

\* Every line a logger has written can be read back at every moment: no logger
\* writes to a removed file and no run replaces a .gz by a smaller one.
THEOREM LinesReadBack == Spec => []ReadBack
<1>1. Inductive => ReadBack
  BY DEF Inductive
<1> QED
  BY <1>1, InductiveInvariant, PTL

\* After any power cut the card has no partial .gz without its source, the
\* promise of givcap-compress's comment.
THEOREM NoEmptyGz == Spec => []NoEmptyGzWithoutSource
<1>1. Inductive => NoEmptyGzWithoutSource
  BY DEF Inductive, FileInv, NoEmptyGzWithoutSource
<1> QED
  BY <1>1, InductiveInvariant, PTL

\* Where a source is gone the card holds all its lines in a full .gz.
THEOREM SourceOutlivesGz == Spec => []SourceGoneOnlyWhenOnCard
<1>1. ASSUME Inductive, NEW f \in File, acked[f] # {}, ~srcC[f].ex
      PROVE gzD[f] = FullGz(acked[f])
  <2>1. acked[f] = srcC[f].ls \cup Readable(gzC[f]) /\ srcC[f].ls = {} /\ gzC[f] = gzD[f]
    BY <1>1 DEF Inductive, ReadBack, InCache, FileInv
  <2>2. gzC[f].st = "full" /\ gzC[f].ls = acked[f]
    BY <1>1, <2>1 DEF Readable
  <2> QED
    <3>1. gzC[f] \in Gz
      BY <1>1 DEF Inductive, TypeOK
    <3>2. gzC[f] = FullGz(acked[f])
      BY <2>2, <3>1 DEF Gz, FullGz, NoGz, PartialGz
    <3> QED
      BY <2>1, <3>2
<1>2. Inductive => SourceGoneOnlyWhenOnCard
  BY <1>1 DEF SourceGoneOnlyWhenOnCard, Inductive
<1> QED
  BY <1>2, InductiveInvariant, PTL

\* A run that exits with status 0 has compressed every file it found.
THEOREM ExitStatusTells == Spec => []ExitZeroMeansDone
<1>1. Inductive => ExitZeroMeansDone
  BY DEF Inductive, TypeOK, RunInv, RunFileInv, ExitZeroMeansDone
<1> QED
  BY <1>1, InductiveInvariant, PTL

\* What the card holds of a file is part of what can be read of it.
LEMMA CardSubset == Inductive => \A f \in File : OnCard(f) \subseteq InCache(f)
<1> SUFFICES ASSUME Inductive, NEW f \in File PROVE OnCard(f) \subseteq InCache(f)
  OBVIOUS
<1>1. FileInv(f)
  BY DEF Inductive
<1> QED
  BY <1>1 DEF FileInv, OnCard, InCache

\* Only an append and a power loss change which lines the loggers have written.
LEMMA AckedChanges ==
    [Next]_vars => acked' = acked \/ PowerLoss \/ \E g \in Logs : Append(g)
  BY DEF Next, vars, Midnight, StaleMidnight, TimeSync, LoggerStart, Stamp, LoggerExit,
     RunStart, Sync, SyncFail, Flush, RunDone, RunExit, GzipStart, GzipOk, GzipFail, Rm, RmFail, WritebackSrc,
     WritebackGz

\* No logger adds a line to a day that has a .gz.
THEOREM FinishedDaysGetNoLines == Spec => FinishedStaysFinished
<1>1. ASSUME Inductive, [Next]_vars, NEW f \in File, gzC[f].st # "absent"
      PROVE acked'[f] \subseteq acked[f]
  <2>1. ASSUME NEW g \in Logs, Append(g) PROVE acked'[f] = acked[f]
    <3>1. <<pend[g].d, g>> # f
      BY <1>1, <2>1 DEF Inductive, PendInv, Append
    <3> QED
      BY <2>1, <3>1 DEF Append, Inductive, TypeOK
  <2>2. CASE PowerLoss
    BY <1>1, <2>2, CardSubset DEF PowerLoss, Inductive, ReadBack
  <2>3. CASE acked' = acked
    BY <2>3
  <2> QED
    BY <1>1, <2>1, <2>2, <2>3, AckedChanges
<1>2. Inductive /\ [Next]_vars =>
        [\A f \in File : gzC[f].st # "absent" => acked'[f] \subseteq acked[f]]_vars
  BY <1>1
<1> QED
  BY <1>2, InductiveInvariant, PTL DEF Spec, FinishedStaysFinished

-----------------------------------------------------------------------------
(* The capture directory implements the safety part of DurableLog. *)

\* No step takes a line off the card: not a writeback, not a removal, not the
\* replacement of a .gz, not a power loss.
LEMMA KeptSubset == Inductive /\ [Next]_vars => \A f \in File : OnCard(f) \subseteq OnCard(f)'
<1> SUFFICES ASSUME Inductive, [Next]_vars, NEW f \in File PROVE OnCard(f) \subseteq OnCard(f)'
  OBVIOUS
<1> USE DEF OnCard
<1>1. CASE UNCHANGED <<srcD, gzD>>
  BY <1>1
<1>2. CASE Sync
  BY <1>2, CardSubset DEF Sync, Flush, Inductive, TypeOK, ReadBack, InCache
<1>3. ASSUME NEW x \in File, WritebackSrc(x) PROVE OnCard(f) \subseteq OnCard(f)'
  <2>1. CASE f = x
    <3>1. srcD'[f] = srcC[f] /\ gzD' = gzD
      BY <1>3, <2>1 DEF WritebackSrc, Inductive, TypeOK
    <3>2. srcD[f].ls \subseteq srcC[f].ls \cup Readable(gzD[f])
      BY DEF Inductive, FileInv
    <3> QED
      BY <3>1, <3>2
  <2>2. CASE f # x
    BY <1>3, <2>2 DEF WritebackSrc, Inductive, TypeOK
  <2> QED
    BY <2>1, <2>2
<1>4. ASSUME NEW x \in File, WritebackGz(x) PROVE OnCard(f) \subseteq OnCard(f)'
  <2>1. CASE f = x
    <3>1. srcD[f].ex /\ srcD' = srcD
      BY <1>4, <2>1 DEF WritebackGz, Inductive, FileInv
    <3>2. Readable(gzD[f]) \subseteq srcD[f].ls
      BY <3>1 DEF Inductive, FileInv
    <3> QED
      BY <3>1, <3>2
  <2>2. CASE f # x
    BY <1>4, <2>2 DEF WritebackGz, Inductive, TypeOK
  <2> QED
    BY <2>1, <2>2
<1> QED
  BY <1>1, <1>2, <1>3, <1>4 DEF Next, vars, Midnight, StaleMidnight, TimeSync, LoggerStart,
     Stamp, Append, LoggerExit, RunStart, SyncFail, RunDone, RunExit, GzipStart, GzipOk, GzipFail, Rm,
     RmFail, PowerLoss

\* The capture directory implements the safety part of DurableLog: each step
\* logs one item, keeps items, loses the items not kept, or changes nothing.
THEOREM StoreIsDurable == Spec => DurableSafety
<1> DEFINE L == {i \in File \X Lines : i[2] \in acked[i[1]]}
           K == {i \in File \X Lines : i[2] \in OnCard(i[1])}
<1>1. Init => Durable!Init
  BY DEF Init, Durable!Init, OnCard, Readable, NoSrc, NoGz
<1>2. ASSUME Inductive, [Next]_vars PROVE [Durable!Next]_<<L, K>>
  <2>1. K \subseteq K' /\ K \subseteq L
    BY <1>2, KeptSubset, CardSubset DEF Inductive, ReadBack
  <2>2. K' \subseteq L'
    <3>1. Inductive'
      BY <1>2, InductiveStep
    <3>2. (\A f \in File : OnCard(f) \subseteq InCache(f))'
      BY <3>1, CardSubset, PTL
    <3>3. (\A f \in File : acked[f] = InCache(f))'
      BY <3>1 DEF Inductive, ReadBack
    <3> QED
      BY <3>2, <3>3
  <2>3. CASE acked' = acked
    BY <2>1, <2>2, <2>3 DEF Durable!Next, Durable!Keep
  <2>4. ASSUME NEW g \in Logs, Append(g) PROVE [Durable!Next]_<<L, K>>
    <3> DEFINE c == <<pend[g].d, g>>
    <3>1. c \in File /\ \E l \in Lines : pend[g].ls = {l}
      BY <1>2, <2>4 DEF Append, Inductive, TypeOK, File
    <3>2. PICK l \in Lines : pend[g].ls = {l}
      BY <3>1
    <3>3. acked' = [acked EXCEPT ![c] = @ \cup {l}]
      BY <2>4, <3>2 DEF Append
    <3>4. acked'[c] = acked[c] \cup {l} /\ \A h \in File : h # c => acked'[h] = acked[h]
      BY <1>2, <3>1, <3>3 DEF Inductive, TypeOK
    <3>5. L' = L \cup {<<c, l>>} /\ <<c, l>> \in File \X Lines
      BY <3>1, <3>4
    <3>6. K' = K
      BY <2>4 DEF Append, OnCard
    <3>7. CASE <<c, l>> \in L
      BY <3>5, <3>6, <3>7
    <3>8. CASE <<c, l>> \notin L
      BY <3>5, <3>6, <3>8 DEF Durable!Next, Durable!Log
    <3> QED
      BY <3>7, <3>8
  <2>5. CASE PowerLoss
    <3>1. K' = K
      BY <2>5 DEF PowerLoss, OnCard
    <3>2. L' = K
      BY <2>5 DEF PowerLoss
    <3> QED
      BY <3>1, <3>2 DEF Durable!Next, Durable!Lose
  <2> QED
    BY <1>2, <2>3, <2>4, <2>5, AckedChanges
<1>3. Inductive /\ [Next]_vars => [Durable!Next]_<<L, K>>
  BY <1>2
<1> QED
  BY <1>1, <1>3, InductiveInvariant, PTL DEF Spec, DurableSafety, Durable!Safety
=============================================================================

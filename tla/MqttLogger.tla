----------------------------- MODULE MqttLogger -----------------------------
(***************************************************************************)
(* tools/mqtt_logger.py on the capture box.  Two threads share a           *)
(* SnapshotWriter: paho's thread feeds the watchdog and updates a field    *)
(* for each message, the main thread polls, copies the fields under the    *)
(* lock and appends the copy to the day's file outside it.  systemd starts *)
(* the process again whenever it ends, and it then reads from the newest   *)
(* files which fields its first snapshot should wait for.                  *)
(*                                                                         *)
(* What is abstracted.  A topic is a battery pack's, or the one GivTCP     *)
(* leaves behind with an empty serial, and all are of one quantity, so the *)
(* only column name in tcp_poller's list is Canonical.  Of each day's file *)
(* only the last complete record is kept.  Times are ages in ticks, each   *)
(* held at the limit it is compared with.  An append writes its line whole *)
(* or not at all.  givcap-compress takes a day in one step (CaptureStore   *)
(* has the rest).  Bound: LastDay.                                         *)
(***************************************************************************)
EXTENDS Integers

CONSTANTS
    Packs,        \* serial numbers of the battery packs
    Blank,        \* the topic with an empty serial
    Canonical,    \* the column name tcp_poller uses
    Values,       \* payloads, parsed
    Unset,        \* no value yet; also: no record, no message
    MinInterval, Warmup, Stall,   \* min_interval_s, warmup_s, stall_s in ticks
    LastDay

ASSUME TimesAssumption ==
    MinInterval \in Nat /\ Warmup \in Nat \ {0} /\ Stall \in Nat \ {0}
ASSUME NamesAssumption == Canonical \notin Packs \cup {Blank} /\ Blank \notin Packs
ASSUME ValuesAssumption == Unset \notin Values
ASSUME DaysAssumption == LastDay \in Nat \ {0}

Topics == Packs \cup {Blank}
Names == Topics \cup {Canonical}
Day == 1 .. LastDay
Never == -1

VARIABLES
    day,          \* the UTC day
    main,         \* the main thread: "down", "poll", "append" or, in loop_stop, "join"
    link,         \* "off", "on", or "dead" when the broker or the way to it has gone quiet
    serial,       \* FieldNamer.battery_serial
    rx,           \* the message on_message has fed the watchdog for, not yet applied
    fields,       \* _fields, Unset for a name it does not have
    dirty,        \* _dirty
    expected,     \* expected_fields
    warmAge,      \* age of _warm_since, Never before it is set
    writeAge,     \* age of _last_write, Never before it is set
    fedAge,       \* age of Watchdog._last
    snap,         \* the record copied by maybe_write: [day, fields]
    last,         \* per day: the last record of its file
    plain,        \* the days whose file is there uncompressed
    newest        \* auxiliary: names of the last record on disk when the process started

procVars == <<serial, rx, fields, dirty, expected, warmAge, writeAge, fedAge, snap>>
vars == <<day, main, link, procVars, last, plain, newest>>

NoFields == [n \in Names |-> Unset]
NamesOf(r) == {n \in Names : r[n] # Unset}
NoSnap == [day |-> 0, fields |-> NoFields]

Init ==
    /\ day = 1 /\ main = "down" /\ link = "off"
    /\ serial = Unset /\ rx = Unset /\ fields = NoFields /\ dirty = FALSE
    /\ expected = {} /\ warmAge = Never /\ writeAge = Never /\ fedAge = 0 /\ snap = NoSnap
    /\ last = [d \in Day |-> NoFields] /\ plain = {} /\ newest = {}

-----------------------------------------------------------------------------
Older(age, limit) == IF age = Never \/ age = limit THEN age ELSE age + 1

Tick ==
    /\ warmAge' = IF writeAge = Never THEN Older(warmAge, Warmup) ELSE warmAge
    /\ writeAge' = Older(writeAge, MinInterval)
    /\ fedAge' = Older(fedAge, Stall)
    /\ <<warmAge, writeAge, fedAge>>' # <<warmAge, writeAge, fedAge>>
    /\ UNCHANGED <<day, main, link, serial, rx, fields, dirty, expected, snap, last, plain, newest>>

Midnight ==
    /\ day < LastDay /\ day' = day + 1
    /\ UNCHANGED <<main, link, procVars, last, plain, newest>>

\* givcap-compress replaces the plain file of a finished day by a .gz.
CompressDay(d) ==
    /\ d \in plain /\ d < day /\ snap.day # d
    /\ plain' = plain \ {d}
    /\ UNCHANGED <<day, main, link, procVars, last, newest>>

-----------------------------------------------------------------------------
(* The process. *)

\* last_field_names: nothing for a file that is not there as plain text.
LastFieldNames(d) == IF d \in plain THEN NamesOf(last[d]) ELSE {}

\* Mutant: yesterday's file is not looked at.
OnlyToday(d) == LastFieldNames(d)

\* expected_fields on day d: its last record, else that of the day before.
ExpectedFields(d) ==
    IF LastFieldNames(d) # {} THEN LastFieldNames(d) ELSE LastFieldNames(d - 1)

\* The names of the last record of all, compressed or not.
NewestNames ==
    LET held == {d \in Day : NamesOf(last[d]) # {}}
    IN {n \in Names : \E d \in held : n \in NamesOf(last[d]) /\ \A e \in held : e <= d}

Start ==
    /\ main = "down" /\ main' = "poll" /\ link' = "off"
    /\ expected' = ExpectedFields(day) /\ newest' = NewestNames
    /\ UNCHANGED <<day, serial, rx, fields, dirty, warmAge, writeAge, fedAge, snap, last, plain>>

\* What the process held in memory is gone, or is not read again.
Forgotten ==
    /\ serial' = Unset /\ fields' = NoFields /\ dirty' = FALSE /\ expected' = {} /\ newest' = {}
    /\ warmAge' = Never /\ writeAge' = Never /\ fedAge' = 0 /\ snap' = NoSnap

Ended ==
    /\ main' = "down" /\ link' = "off" /\ rx' = Unset /\ Forgotten
    /\ UNCHANGED <<day, last, plain>>

\* Mutant: the watchdog starts with the first message instead of at the start.
StalledOnceFed == fedAge = Stall /\ fields # NoFields

Stalled == fedAge = Stall

\* The main thread leaves the loop for the finally clause, where loop_stop lets
\* paho's thread finish the callback it is in and waits for it to end.
Stops ==
    /\ main' = "join" /\ Forgotten
    /\ UNCHANGED <<day, link, rx, last, plain>>

StallExit == main = "poll" /\ Stalled /\ Stops

\* An OSError from mkdir, open or write.
AppendFails == main = "append" /\ Stops

\* paho's thread has ended: sys.exit, or the exception reaches the top.
Joined == main = "join" /\ rx = Unset /\ Ended

\* A power loss, or a stop by systemd.
Killed == main # "down" /\ Ended

-----------------------------------------------------------------------------
(* paho's thread. *)

Connect ==
    /\ main # "down" /\ link = "off" /\ link' = "on"
    /\ UNCHANGED <<day, main, procVars, last, plain, newest>>

\* A broken connection is retried, one that has gone quiet is not noticed.
Disconnect ==
    /\ link = "on" /\ rx = Unset /\ link' \in {"off", "dead"}
    /\ UNCHANGED <<day, main, procVars, last, plain, newest>>

\* on_message, first half.  What comes in while the main thread is in loop_stop
\* reaches nothing: fields and watchdog are not read again.
Feed(t, v) ==
    /\ link = "on" /\ main # "join" /\ rx = Unset
    /\ rx' = [topic |-> t, value |-> v] /\ fedAge' = 0
    /\ UNCHANGED <<day, main, link, serial, fields, dirty, expected, warmAge, writeAge, snap, last, plain, newest>>

\* Mutant: an empty serial is taken for a pack's.
ClaimsAny(t) == serial \in {Unset, t}

\* FieldNamer: the first pack heard of has the canonical name.
Claims(t) == t # Blank /\ serial \in {Unset, t}
NameOf(t) == IF Claims(t) THEN Canonical ELSE t

\* on_message, second half: SnapshotWriter.update, under the lock.
Update ==
    /\ rx # Unset
    /\ serial' = IF Claims(rx.topic) THEN rx.topic ELSE serial
    /\ LET n == NameOf(rx.topic)
       IN /\ fields' = [fields EXCEPT ![n] = rx.value]
          /\ dirty' = (dirty \/ fields[n] # rx.value)
    /\ rx' = Unset
    /\ UNCHANGED <<day, main, link, expected, warmAge, writeAge, fedAge, snap, last, plain, newest>>

-----------------------------------------------------------------------------
(* The main thread. *)

\* The age of _warm_since as maybe_write sees it: now, if this is the first chance.
WarmAge == IF warmAge = Never THEN 0 ELSE warmAge

Complete == expected \subseteq NamesOf(fields)

MayWrite == IF writeAge = Never THEN Complete \/ WarmAge >= Warmup ELSE writeAge >= MinInterval

\* maybe_write returns early; the first time, the warm-up begins.
Hold ==
    /\ main = "poll" /\ ~Stalled /\ dirty /\ ~MayWrite
    /\ writeAge = Never /\ warmAge = Never /\ warmAge' = 0
    /\ UNCHANGED <<day, main, link, serial, rx, fields, dirty, expected, writeAge, fedAge, snap, last, plain, newest>>

\* The part of maybe_write under the lock.
Copy ==
    /\ main = "poll" /\ ~Stalled /\ dirty /\ MayWrite
    /\ main' = "append" /\ snap' = [day |-> day, fields |-> fields]
    /\ warmAge' = IF writeAge = Never THEN WarmAge ELSE warmAge
    /\ dirty' = FALSE /\ writeAge' = 0
    /\ UNCHANGED <<day, link, serial, rx, fields, expected, fedAge, last, plain, newest>>

\* Mutant: _dirty is cleared again once the record is on disk.
AppendThenClean ==
    /\ main = "append" /\ main' = "poll"
    /\ last' = [last EXCEPT ![snap.day] = snap.fields]
    /\ plain' = plain \cup {snap.day}
    /\ snap' = NoSnap /\ dirty' = FALSE
    /\ UNCHANGED <<day, link, serial, rx, fields, expected, warmAge, writeAge, fedAge, newest>>

\* The append, to the file of the day the copy was stamped with.
Append ==
    /\ main = "append" /\ main' = "poll"
    /\ last' = [last EXCEPT ![snap.day] = snap.fields]
    /\ plain' = plain \cup {snap.day}
    /\ snap' = NoSnap
    /\ UNCHANGED <<day, link, serial, rx, fields, dirty, expected, warmAge, writeAge, fedAge, newest>>

Next ==
    \/ Tick \/ Midnight \/ \E d \in Day : CompressDay(d)
    \/ Start \/ StallExit \/ AppendFails \/ Joined \/ Killed
    \/ Connect \/ Disconnect \/ (\E t \in Topics, v \in Values : Feed(t, v)) \/ Update
    \/ Hold \/ Copy \/ Append

\* Time passes, systemd restarts the process, and both threads go on running.
\* The main thread polls every 0.2 s, far more often than messages and stalls
\* come and go, so what it can do again and again it does (SF).  No fairness of
\* the broker: it may go quiet for ever.
Fairness ==
    /\ WF_vars(Tick) /\ WF_vars(Start) /\ WF_vars(StallExit) /\ WF_vars(Joined) /\ WF_vars(Connect)
    /\ WF_vars(Update) /\ SF_vars(Hold) /\ SF_vars(Copy) /\ WF_vars(Append)

Spec == Init /\ [][Next]_vars /\ Fairness

-----------------------------------------------------------------------------
(* Properties. *)

\* Every variable has the type its declaration says; above all, the owner of the
\* canonical column is a pack, never the topic with the empty serial that GivTCP
\* leaves behind with frozen values, whichever message is the first to arrive.
TypeOK ==
    /\ day \in Day /\ main \in {"down", "poll", "append", "join"} /\ link \in {"off", "on", "dead"}
    /\ serial \in Packs \cup {Unset}
    /\ rx \in [topic : Topics, value : Values] \cup {Unset}
    /\ fields \in [Names -> Values \cup {Unset}] /\ dirty \in BOOLEAN
    /\ expected \subseteq Names /\ newest \subseteq Names
    /\ warmAge \in Never .. Warmup /\ writeAge \in Never .. MinInterval /\ fedAge \in 0 .. Stall
    /\ snap \in [day : Day \cup {0}, fields : [Names -> Values \cup {Unset}]]
    /\ last \in [Day -> [Names -> Values \cup {Unset}]] /\ plain \subseteq Day

Newest(d) ==
    /\ last[d] # NoFields /\ d \in {snap.day - 1, snap.day}
    /\ \A e \in plain : e > d => last[e] = NoFields

\* "A record with one field would blank every other column" of a join: a record
\* has every name of the one before it, in the day's file or the last
\* plain one of the day before, across restarts and midnight, unless the
\* process's first record was held for the whole warm-up.
NoColumnBlanked ==
    [][Append => \/ warmAge = Warmup
                 \/ \E d \in plain : Newest(d) /\ NamesOf(last[d]) \subseteq NamesOf(snap.fields)
                 \/ \A d \in plain \cap {snap.day - 1, snap.day} : last[d] = NoFields]_vars

NewestRecord == {d \in Day : last[d] # NoFields /\ \A e \in Day : e > d => last[e] = NoFields}

\* No update is lost between the two threads: a value that stays is in the
\* newest record in the end, also when it arrives between the copy and the
\* append, unless the process ends first.
ValueReachesDisk ==
    \A n \in Names, v \in Values :
        (fields[n] = v) ~> (fields[n] # v \/ \E d \in NewestRecord : last[d][n] = v)

\* A process whose broker or network thread has gone quiet for good ends, so
\* that systemd can start another.
QuietProcessEnds == (main # "down" /\ link = "dead") ~> (main = "down")

\* The module's docstring: "after a restart the logger holds its first snapshot
\* until it has every field of the last record on disk, or for at most
\* WARMUP_S".
HoldsForLastRecord ==
    [][Append => newest \subseteq NamesOf(snap.fields) \/ warmAge = Warmup]_vars
=============================================================================

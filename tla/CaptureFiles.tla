---------------------------- MODULE CaptureFiles ----------------------------
(***************************************************************************)
(* The three files of a campaign and what is left of them: wire.log,       *)
(* tcp.ndjson and tags.ndjson, written line by line while the box may lose *)
(* its power at any time.  The last line of each file may then be left     *)
(* without its end, or as a run of NUL bytes, and the next line written is *)
(* appended to whatever is there.                                          *)
(*                                                                         *)
(* Writers: serial_hexdump_logger.c (a start marker, then a line for each  *)
(* poll; WireParser has the frames of a poll), poll_loop of tcp_poller.py, *)
(* write_tag and the tail of tag.py.  A file is a sequence of lines and a  *)
(* line is a sequence of fragments, of which only the last of the file can *)
(* be without its newline.                                                 *)
(***************************************************************************)
EXTENDS Integers, FiniteSets, Selection, SequencesExt

CONSTANTS Values,           \* values of the field that tag.py watches
          NoValue,          \* a snapshot without it
          Harms,            \* what a power cut may leave of the last line of each file
          OffTimes,         \* how long the box may be without power
          RestartTime,      \* how long the inverter is off when it restarts
          MaxSteps          \* bound on the steps of a behaviour

Names == {"wire", "tcp", "tags"}

\* What is left of a line: all of it, all but its newline, a part of it that has
\* its time, a part that ends inside its time, NULs, or nothing.
Left == {"all", "bare", "cut", "time", "nul", "gone"}

ASSUME FilesAssumption ==
    /\ NoValue \notin Values
    /\ Harms \subseteq [Names -> Left]
    /\ OffTimes \subseteq Nat \ {0} /\ RestartTime \in Nat /\ MaxSteps \in Nat

VARIABLES now, steps,
          box,          \* whether the capture box has power
          ramped,       \* whether current flows again since the inverter last started
          poller,       \* poll_loop: Idle, Ended, or the time t0 of the poll under way
          files,
          tail,         \* tag.py --auto: [on, seen, last]
          written,      \* auxiliary: the records written to each file
          outages,      \* auxiliary: the times without power, as <<from, to>>
          half,         \* auxiliary: the snapshots that the tail read in two halves
          from          \* auxiliary: where the tail began

vars == <<now, steps, box, ramped, poller, files, tail, written, outages, half, from>>

Idle == -1
Ended == -2

-----------------------------------------------------------------------------
Fragments(file) == FlattenSeq(file)
Open(file) == file # <<>> /\ Last(Last(file)).left # "all"

\* open(path, "a"), one write of a line.
Appended(file, rec) ==
    LET whole == [rec |-> rec, left |-> "all"]
    IN  IF Open(file) THEN [file EXCEPT ![Len(file)] = Append(@, whole)] ELSE Append(file, <<whole>>)

Write(name, rec) ==
    /\ files' = [files EXCEPT ![name] = Appended(@, rec)]
    /\ written' = [written EXCEPT ![name] = Append(@, rec)]

LastBoot == IF outages = <<>> THEN 0 ELSE Last(outages)[2]

\* What a power cut leaves of a file; what was written before the last boot is safe.
Harmed(file, how) ==
    IF file = <<>> \/ Open(file) \/ Last(Last(file)).rec.ts < LastBoot \/ how = "all" THEN file
    ELSE IF how # "gone" THEN [file EXCEPT ![Len(file)][Len(Last(file))].left = how]
    ELSE IF Len(Last(file)) = 1 THEN Front(file)
    ELSE [file EXCEPT ![Len(file)] = Front(@)]

Takes(time) ==
    /\ steps < MaxSteps
    /\ steps' = steps + 1
    /\ now' = now + time

Start(t) == [kind |-> "start", ts |-> t, val |-> 0]

-----------------------------------------------------------------------------
\* The wire logger.  The first poll after the inverter has restarted finds no current.

Poll ==
    /\ box /\ Takes(1)
    /\ Write("wire", [kind |-> "poll", ts |-> now', val |-> IF ramped THEN 1 ELSE 0])
    /\ ramped' = TRUE
    /\ UNCHANGED <<box, poller, tail, outages, half, from>>

InverterRestarts ==
    /\ box /\ Takes(RestartTime)
    /\ ramped' = FALSE
    /\ UNCHANGED <<box, poller, files, tail, written, outages, half, from>>

-----------------------------------------------------------------------------
\* poll_loop: the record has the time at which the poll began; any error but
\* StopAsyncIteration ends the program.

AskInverter ==
    /\ box /\ poller = Idle /\ Takes(1)
    /\ poller' = now'
    /\ UNCHANGED <<box, ramped, files, tail, written, outages, half, from>>

Answered ==
    /\ box /\ poller \in Nat /\ Takes(1)
    /\ \E v \in Values \cup {NoValue} : Write("tcp", [kind |-> "snap", ts |-> poller, val |-> v])
    /\ poller' = Idle
    /\ UNCHANGED <<box, ramped, tail, outages, half, from>>

PollFails ==
    /\ box /\ poller \in Nat /\ Takes(1)
    /\ poller' = Ended
    /\ UNCHANGED <<box, ramped, files, tail, written, outages, half, from>>

-----------------------------------------------------------------------------
\* tag.py

\* A tag is the change that auto mode writes, or the one name of manual mode.
Manual == <<>>

WriteTag(t, tag) == Write("tags", [kind |-> "tag", ts |-> t, val |-> tag])

ManualTag ==
    /\ box /\ Takes(1)
    /\ WriteTag(now', Manual)
    /\ UNCHANGED <<box, ramped, poller, tail, outages, half, from>>

\* Mutant: the first value is a change.
ReadLineTaggingFirst ==
    /\ box /\ tail.on /\ tail.seen < Len(Fragments(files["tcp"])) /\ Takes(1)
    /\ \E whole \in BOOLEAN :
        LET n == tail.seen + 1
            value == Fragments(files["tcp"])[n].rec.val
            heard == whole /\ value # NoValue
        IN  /\ half' = IF whole THEN half ELSE half \cup {n}
            /\ tail' = [tail EXCEPT !.seen = n, !.last = IF heard THEN value ELSE @]
            /\ IF heard /\ tail.last # value
               THEN WriteTag(now', <<tail.last, value>>)
               ELSE UNCHANGED <<files, written>>
    /\ UNCHANGED <<box, ramped, poller, outages, from>>

\* The tail begins at the end of the file, in the middle of a line if need be.
StartTail ==
    /\ box /\ ~tail.on
    /\ tail' = [on |-> TRUE, seen |-> Len(Fragments(files["tcp"])), last |-> NoValue]
    /\ from' = [seen |-> tail'.seen, tags |-> Len(written["tags"])]
    /\ half' = {}
    /\ UNCHANGED <<now, steps, box, ramped, poller, files, written, outages>>

\* One line; when it is written in two pieces the tail may come between them, and
\* then neither half is a record.
ReadLine ==
    /\ box /\ tail.on /\ tail.seen < Len(Fragments(files["tcp"])) /\ Takes(1)
    /\ \E whole \in BOOLEAN :
        LET n == tail.seen + 1
            value == Fragments(files["tcp"])[n].rec.val
            heard == whole /\ value # NoValue
        IN  /\ half' = IF whole THEN half ELSE half \cup {n}
            /\ tail' = [tail EXCEPT !.seen = n, !.last = IF heard THEN value ELSE @]
            /\ IF heard /\ tail.last \notin {NoValue, value}
               THEN WriteTag(now', <<tail.last, value>>)
               ELSE UNCHANGED <<files, written>>
    /\ UNCHANGED <<box, ramped, poller, outages, from>>

-----------------------------------------------------------------------------
PowerCut ==
    /\ box /\ Takes(1)
    /\ \E harm \in Harms : files' = [name \in Names |-> Harmed(files[name], harm[name])]
    /\ box' = FALSE
    /\ tail' = [tail EXCEPT !.on = FALSE]
    /\ poller' = Ended
    /\ outages' = Append(outages, <<now', now'>>)
    /\ UNCHANGED <<ramped, written, half, from>>

\* Mutant: the start is not marked.
BootUnmarked ==
    /\ ~box
    /\ \E off \in OffTimes : Takes(off)
    /\ box' = TRUE
    /\ poller' = Idle
    /\ outages' = [outages EXCEPT ![Len(outages)][2] = now']
    /\ UNCHANGED <<ramped, files, tail, written, half, from>>

\* With power the loggers start again; the wire logger marks its start.
Boot ==
    /\ ~box
    /\ \E off \in OffTimes : Takes(off)
    /\ box' = TRUE
    /\ Write("wire", Start(now'))
    /\ poller' = Idle
    /\ outages' = [outages EXCEPT ![Len(outages)][2] = now']
    /\ UNCHANGED <<ramped, tail, half, from>>

-----------------------------------------------------------------------------
Init ==
    /\ now = 0 /\ steps = 0
    /\ box = TRUE /\ ramped = TRUE /\ poller = Idle
    /\ written = [name \in Names |-> IF name = "wire" THEN <<Start(0)>> ELSE <<>>]
    /\ files = [name \in Names |-> [n \in 1 .. Len(written[name]) |-> << [rec |-> written[name][n], left |-> "all"] >>]]
    /\ tail = [on |-> FALSE, seen |-> 0, last |-> NoValue]
    /\ from = [seen |-> 0, tags |-> 0]
    /\ outages = <<>> /\ half = {}

Finished ==
    /\ steps = MaxSteps
    /\ UNCHANGED vars

Next ==
    \/ Poll \/ InverterRestarts
    \/ AskInverter \/ Answered \/ PollFails
    \/ ManualTag \/ StartTail \/ ReadLine
    \/ PowerCut \/ Boot
    \/ Finished

Spec == Init /\ [][Next]_vars
=============================================================================

-------------------------- MODULE MqttLoggerProofs --------------------------
(***************************************************************************)
(* Type correctness of MqttLogger, and that no append blanks a column.     *)
(*                                                                         *)
(* The argument for the second.  Covers(S, d) says that a record with the  *)
(* names S, appended on day d, has every name of the newest record in the  *)
(* plain files of d and of the day before.  Until its first copy a process *)
(* waits for names that cover, or for the warm-up; after it, its fields    *)
(* cover because they only grow and its own last record is the newest one. *)
(* Midnight only takes files out of sight, and givcap-compress cannot      *)
(* uncover an older one, because it leaves the day's own file alone.       *)
(***************************************************************************)
EXTENDS MqttLogger, TLAPS

Record == [Names -> Values \cup {Unset}]

\* d has the newest record of the plain files.
NewestPlain(d) == last[d] # NoFields /\ \A e \in plain : e > d => last[e] = NoFields

Covers(S, today) ==
    \A d \in plain : d >= today - 1 /\ NewestPlain(d) => NamesOf(last[d]) \subseteq S

\* Nothing is dated after the copy under way, or after today.
Dated ==
    /\ \A d \in Day : d > day => last[d] = NoFields
    /\ main = "append" => /\ snap.day \in Day /\ snap.day <= day
                          /\ \A d \in Day : d > snap.day => last[d] = NoFields
    /\ main # "append" => snap = NoSnap

\* A process begins without a write, and a copy counts as one.
Begun ==
    /\ main = "down" => writeAge = Never
    /\ main = "append" => writeAge # Never

\* There is something to write, and what is copied stays among the fields.
Grown ==
    /\ dirty => fields # NoFields
    /\ main = "append" => snap.fields # NoFields /\ NamesOf(snap.fields) \subseteq NamesOf(fields)

Covering ==
    /\ main = "poll" /\ writeAge = Never => Covers(expected, day)
    /\ main = "poll" /\ writeAge # Never => Covers(NamesOf(fields), day)
    /\ main = "append" => warmAge = Warmup \/ Covers(NamesOf(snap.fields), snap.day)

IInv == TypeOK /\ Dated /\ Begun /\ Grown /\ Covering

-----------------------------------------------------------------------------
\* A record without names is NoFields.
LEMMA NoNames ==
    ASSUME NEW r \in Record, NamesOf(r) = {}
    PROVE  r = NoFields
  BY DEF Record, NamesOf, NoFields

\* An age that gets older stays within its limit, and is not Never unless it was.
LEMMA OlderType ==
    ASSUME NEW limit \in Nat, NEW age \in Never .. limit
    PROVE  /\ Older(age, limit) \in Never .. limit
           /\ Older(age, limit) = Never <=> age = Never
           /\ age >= 0 => Older(age, limit) >= 0
  BY DEF Older, Never

\* No copy is a record with nothing in it.
LEMMA NoSnapType == NoSnap \in [day : Day \cup {0}, fields : Record]
  BY DEF NoSnap, NoFields, Record

-----------------------------------------------------------------------------
\* The initial state has the types.
LEMMA InitType == Init => TypeOK
  <1> USE TimesAssumption, DaysAssumption DEF Never, Day
  <1> SUFFICES ASSUME Init PROVE TypeOK
    OBVIOUS
  <1>1. NoFields \in Record
    BY DEF NoFields, Record
  <1>2. last \in [Day -> Record] /\ fields \in Record
    BY <1>1 DEF Init
  <1>3. snap \in [day : Day \cup {0}, fields : Record]
    BY NoSnapType DEF Init
  <1>4. /\ warmAge \in Never .. Warmup /\ writeAge \in Never .. MinInterval /\ fedAge \in 0 .. Stall
        /\ day \in Day
    BY DEF Init
  <1> QED
    BY <1>2, <1>3, <1>4 DEF Init, TypeOK, Record

\* The end of a process.
Leaves == Ended \/ Stops

\* However the process ends, one of the two steps of the end is taken.
LEMMA EndsAreLeaves == StallExit \/ AppendFails \/ Joined \/ Killed => Leaves
  BY DEF Leaves, StallExit, AppendFails, Joined, Killed

\* The end of a process keeps the types.
LEMMA LeavesType == TypeOK /\ Leaves => TypeOK'
  <1> SUFFICES ASSUME TypeOK, Leaves PROVE TypeOK'
    OBVIOUS
  <1> USE TimesAssumption DEF Never
  <1>0. Forgotten /\ UNCHANGED <<day, last, plain>>
    BY DEF Leaves, Ended, Stops
  <1>1. fields' \in Record
    BY <1>0 DEF Forgotten, NoFields, Record
  <1>2. snap' \in [day : Day \cup {0}, fields : Record]
    BY <1>0, NoSnapType DEF Forgotten
  <1>3. warmAge' \in Never .. Warmup /\ writeAge' \in Never .. MinInterval /\ fedAge' \in 0 .. Stall
    BY <1>0 DEF Forgotten
  <1>4. /\ main' \in {"down", "poll", "append", "join"} /\ link' \in {"off", "on", "dead"}
        /\ rx' \in [topic : Topics, value : Values] \cup {Unset}
    BY DEF Leaves, Ended, Stops, TypeOK
  <1>5. serial' \in Packs \cup {Unset} /\ dirty' \in BOOLEAN /\ expected' \subseteq Names /\ newest' \subseteq Names
    BY <1>0 DEF Forgotten
  <1> QED
    BY <1>0, <1>1, <1>2, <1>3, <1>4, <1>5 DEF TypeOK, Record

\* Every step keeps the types.
LEMMA NextType == TypeOK /\ Dated /\ [Next]_vars => TypeOK'
  <1> SUFFICES ASSUME TypeOK, Dated, [Next]_vars PROVE TypeOK'
    OBVIOUS
  <1> USE TimesAssumption, DaysAssumption DEF TypeOK
  <1>1. CASE Tick
    <2>1. warmAge' \in Never .. Warmup /\ writeAge' \in Never .. MinInterval /\ fedAge' \in 0 .. Stall
      <3>1. /\ warmAge \in Never .. Warmup /\ writeAge \in Never .. MinInterval /\ fedAge \in Never .. Stall
            /\ Warmup \in Nat /\ MinInterval \in Nat /\ Stall \in Nat /\ fedAge >= 0
        BY DEF Never
      <3>2. Older(warmAge, Warmup) \in Never .. Warmup
        BY ONLY <3>1, OlderType
      <3>3. Older(writeAge, MinInterval) \in Never .. MinInterval
        BY ONLY <3>1, OlderType
      <3>4. Older(fedAge, Stall) \in Never .. Stall /\ Older(fedAge, Stall) >= 0
        BY ONLY <3>1, OlderType
      <3>5. Older(fedAge, Stall) \in 0 .. Stall
        BY ONLY <3>1, <3>4 DEF Never
      <3> QED
        BY <1>1, <3>1, <3>2, <3>3, <3>5 DEF Tick
    <2> QED
      BY <1>1, <2>1 DEF Tick
  <1>2. CASE Midnight
    BY <1>2 DEF Midnight, procVars, Day
  <1>3. ASSUME NEW d \in Day, CompressDay(d) PROVE TypeOK'
    BY <1>3 DEF CompressDay, procVars
  <1>4. CASE Start
    BY <1>4 DEF Start, ExpectedFields, LastFieldNames, NewestNames, NamesOf
  <1>5. CASE StallExit \/ AppendFails \/ Joined \/ Killed
    BY <1>5, EndsAreLeaves, LeavesType
  <1>7. CASE Connect
    BY <1>7 DEF Connect, procVars
  <1>8. CASE Disconnect
    BY <1>8 DEF Disconnect, procVars
  <1>9. ASSUME NEW t \in Topics, NEW v \in Values, Feed(t, v) PROVE TypeOK'
    BY <1>9 DEF Feed
  <1>10. CASE Update
    <2>1. rx \in [topic : Topics, value : Values]
      BY <1>10 DEF Update
    <2>2. NameOf(rx.topic) \in Names
      BY <2>1 DEF NameOf, Names
    <2>3. fields' \in Record
      BY <1>10, <2>1, <2>2 DEF Update, Record
    <2>4. serial' \in Packs \cup {Unset}
      BY <1>10, <2>1 DEF Update, Claims, Topics
    <2>5. dirty' \in BOOLEAN
      BY <1>10 DEF Update
    <2> QED
      BY <1>10, <2>3, <2>4, <2>5 DEF Update, Record
  <1>11. CASE Hold
    BY <1>11 DEF Hold, Never
  <1>12. CASE Copy
    <2>1. snap' \in [day : Day \cup {0}, fields : Record]
      BY <1>12 DEF Copy, Record
    <2>2. warmAge' \in Never .. Warmup
      BY <1>12 DEF Copy, WarmAge, Never
    <2>3. writeAge' \in Never .. MinInterval
      BY <1>12 DEF Copy, Never
    <2>4. /\ main' = "append" /\ dirty' = FALSE
          /\ UNCHANGED <<day, link, serial, rx, fields, expected, fedAge, last, plain, newest>>
      BY <1>12 DEF Copy
    <2> QED
      BY <2>1, <2>2, <2>3, <2>4 DEF Record
  <1>13. CASE Append
    <2>1. snap' \in [day : Day \cup {0}, fields : Record]
      BY <1>13, NoSnapType DEF Append
    <2>2. last' \in [Day -> Record]
      BY <1>13 DEF Append, Record
    <2>3. plain' \subseteq Day
      BY <1>13 DEF Append, Dated
    <2>4. /\ main' = "poll"
          /\ UNCHANGED <<day, link, serial, rx, fields, dirty, expected, warmAge, writeAge, fedAge, newest>>
      BY <1>13 DEF Append
    <2> QED
      BY <2>1, <2>2, <2>3, <2>4 DEF Record
  <1>14. CASE UNCHANGED vars
    BY <1>14 DEF vars, procVars
  <1> QED
    BY <1>1, <1>2, <1>3, <1>4, <1>5, <1>7, <1>8, <1>9, <1>10, <1>11, <1>12, <1>13, <1>14 DEF Next
-----------------------------------------------------------------------------
\* Initially there is nothing to blank.
LEMMA InitInv == Init => Dated /\ Begun /\ Grown /\ Covering
  BY DEF Init, Dated, Begun, Grown, Covering

\* The end of a process keeps Dated and starts everything else again.
LEMMA LeavesInv == IInv /\ Leaves => Dated' /\ Begun' /\ Grown' /\ Covering'
  BY DEF Leaves, Ended, Stops, Forgotten, IInv, Dated, Begun, Grown, Covering

\* Every step keeps Dated: a record is dated by the day of its copy.
LEMMA NextDated == IInv /\ [Next]_vars => Dated'
  <1> SUFFICES ASSUME IInv, [Next]_vars PROVE Dated'
    OBVIOUS
  <1> USE DaysAssumption DEF IInv
  <1>0. day \in Nat
    BY DEF TypeOK, Day
  <1>1. CASE Tick
    BY <1>1 DEF Tick, Dated
  <1>2. CASE Midnight
    BY <1>0, <1>2 DEF Midnight, procVars, Dated, Day
  <1>3. ASSUME NEW d \in Day, CompressDay(d) PROVE Dated'
    BY <1>3 DEF CompressDay, procVars, Dated
  <1>4. CASE Start
    BY <1>4 DEF Start, Dated
  <1>5. CASE StallExit \/ AppendFails \/ Joined \/ Killed
    BY <1>5, EndsAreLeaves, LeavesInv
  <1>6. CASE Connect \/ Disconnect
    BY <1>6 DEF Connect, Disconnect, procVars, Dated
  <1>7. ASSUME NEW t \in Topics, NEW v \in Values, Feed(t, v) PROVE Dated'
    BY <1>7 DEF Feed, Dated
  <1>8. CASE Update
    BY <1>8 DEF Update, Dated
  <1>9. CASE Hold
    BY <1>9 DEF Hold, Dated
  <1>10. CASE Copy
    BY <1>0, <1>10 DEF Copy, Dated, TypeOK
  <1>11. CASE Append
    <2>1. \A d \in Day : d # snap.day => last'[d] = last[d]
      BY <1>11 DEF Append, TypeOK
    <2>2. snap.day \in Day /\ snap.day <= day /\ day' = day
      BY <1>11 DEF Append, Dated
    <2>3. \A d \in Day : d > day => last'[d] = NoFields
      BY <1>0, <2>1, <2>2 DEF Dated, Day
    <2> QED
      BY <1>11, <2>2, <2>3 DEF Append, Dated
  <1>12. CASE UNCHANGED vars
    BY <1>12 DEF vars, procVars, Dated
  <1> QED
    BY <1>1, <1>2, <1>3, <1>4, <1>5, <1>6, <1>7, <1>8, <1>9, <1>10, <1>11, <1>12 DEF Next

\* Every step keeps Begun.
LEMMA NextBegun == IInv /\ [Next]_vars => Begun'
  <1> SUFFICES ASSUME IInv, [Next]_vars PROVE Begun'
    OBVIOUS
  <1> USE TimesAssumption DEF IInv
  <1>1. CASE Tick
    <2>1. writeAge' = Never <=> writeAge = Never
      BY <1>1, OlderType DEF Tick, TypeOK
    <2> QED
      BY <1>1, <2>1 DEF Tick, Begun
  <1>2. CASE Midnight
    BY <1>2 DEF Midnight, procVars, Begun
  <1>3. ASSUME NEW d \in Day, CompressDay(d) PROVE Begun'
    BY <1>3 DEF CompressDay, procVars, Begun
  <1>4. CASE Start
    BY <1>4 DEF Start, Begun
  <1>5. CASE StallExit \/ AppendFails \/ Joined \/ Killed
    BY <1>5, EndsAreLeaves, LeavesInv
  <1>6. CASE Connect \/ Disconnect
    BY <1>6 DEF Connect, Disconnect, procVars, Begun
  <1>7. ASSUME NEW t \in Topics, NEW v \in Values, Feed(t, v) PROVE Begun'
    BY <1>7 DEF Feed, Begun
  <1>8. CASE Update \/ Hold
    BY <1>8 DEF Update, Hold, Begun
  <1>9. CASE Copy
    BY <1>9 DEF Copy, Begun, Never
  <1>10. CASE Append
    BY <1>10 DEF Append, Begun
  <1>11. CASE UNCHANGED vars
    BY <1>11 DEF vars, procVars, Begun
  <1> QED
    BY <1>1, <1>2, <1>3, <1>4, <1>5, <1>6, <1>7, <1>8, <1>9, <1>10, <1>11 DEF Next

\* A field that has a value keeps one.
LEMMA UpdateGrows ==
    IInv /\ Update => /\ fields' \in Record /\ fields' # NoFields
                     /\ NamesOf(fields) \subseteq NamesOf(fields')
  <1> SUFFICES ASSUME IInv, Update
               PROVE  /\ fields' \in Record /\ fields' # NoFields
                      /\ NamesOf(fields) \subseteq NamesOf(fields')
    OBVIOUS
  <1> DEFINE n == NameOf(rx.topic)
  <1>1. rx \in [topic : Topics, value : Values] /\ fields \in Record
    BY DEF IInv, TypeOK, Update, Record
  <1>2. n \in Names /\ rx.value # Unset /\ fields' = [fields EXCEPT ![n] = rx.value]
    BY <1>1, ValuesAssumption DEF NameOf, Names, Update
  <1>3. fields' \in Record /\ fields'[n] # Unset
    BY <1>1, <1>2 DEF Record
  <1>4. \A m \in Names : fields[m] # Unset => fields'[m] # Unset
    BY <1>1, <1>2 DEF Record
  <1> QED
    BY <1>2, <1>3, <1>4 DEF NamesOf, NoFields

\* Every step keeps Grown: the fields of a process only grow.
LEMMA NextGrown == IInv /\ [Next]_vars => Grown'
  <1> SUFFICES ASSUME IInv, [Next]_vars PROVE Grown'
    OBVIOUS
  <1> USE DEF IInv
  <1>1. CASE Tick
    BY <1>1 DEF Tick, Grown
  <1>2. CASE Midnight
    BY <1>2 DEF Midnight, procVars, Grown
  <1>3. ASSUME NEW d \in Day, CompressDay(d) PROVE Grown'
    BY <1>3 DEF CompressDay, procVars, Grown
  <1>4. CASE Start
    BY <1>4 DEF Start, Grown
  <1>5. CASE StallExit \/ AppendFails \/ Joined \/ Killed
    BY <1>5, EndsAreLeaves, LeavesInv
  <1>6. CASE Connect \/ Disconnect
    BY <1>6 DEF Connect, Disconnect, procVars, Grown
  <1>7. ASSUME NEW t \in Topics, NEW v \in Values, Feed(t, v) PROVE Grown'
    BY <1>7 DEF Feed, Grown
  <1>8. CASE Update
    <2>1. main' = main /\ snap' = snap
      BY <1>8 DEF Update
    <2> QED
      BY <1>8, <2>1, UpdateGrows DEF Grown
  <1>9. CASE Hold
    BY <1>9 DEF Hold, Grown
  <1>10. CASE Copy
    BY <1>10 DEF Copy, Grown
  <1>11. CASE Append
    BY <1>11 DEF Append, Grown
  <1>12. CASE UNCHANGED vars
    BY <1>12 DEF vars, procVars, Grown
  <1> QED
    BY <1>1, <1>2, <1>3, <1>4, <1>5, <1>6, <1>7, <1>8, <1>9, <1>10, <1>11, <1>12 DEF Next

-----------------------------------------------------------------------------
\* More names cover as well.
LEMMA CoversMore ==
    ASSUME NEW S, NEW T, S \subseteq T, NEW today, Covers(S, today)
    PROVE  Covers(T, today)
  BY DEF Covers

\* What a process waits for covers what it found.
LEMMA StartCovers == IInv => Covers(ExpectedFields(day), day)
  <1> SUFFICES ASSUME IInv, NEW d \in plain, d >= day - 1, NewestPlain(d)
               PROVE  NamesOf(last[d]) \subseteq ExpectedFields(day)
    BY DEF Covers
  <1>1. d \in Day /\ day \in Day /\ last \in [Day -> Record]
    BY DEF IInv, TypeOK, Record
  <1>2. d = day \/ d = day - 1
    BY <1>1 DEF IInv, Dated, NewestPlain, Day
  <1>3. LastFieldNames(d) = NamesOf(last[d]) /\ LastFieldNames(d) # {}
    BY <1>1, NoNames DEF LastFieldNames, NewestPlain
  <1>4. d = day - 1 => LastFieldNames(day) = {}
    BY <1>1 DEF LastFieldNames, NewestPlain, NamesOf, NoFields, Day
  <1> QED
    BY <1>2, <1>3, <1>4 DEF ExpectedFields

\* After midnight the files of the day before yesterday are out of sight.
LEMMA MidnightCovers ==
    ASSUME IInv, Midnight, NEW S, Covers(S, day)
    PROVE  Covers(S, day)'
  <1>1. last' = last /\ plain' = plain /\ plain \subseteq Day /\ day' = day + 1 /\ day \in Nat
    BY DEF IInv, TypeOK, Midnight, Day
  <1> SUFFICES ASSUME NEW d \in plain, d >= day' - 1, NewestPlain(d)'
               PROVE  NamesOf(last[d]) \subseteq S
    BY <1>1 DEF Covers
  <1>2. NewestPlain(d) /\ d >= day - 1
    BY <1>1 DEF NewestPlain, Day
  <1> QED
    BY <1>2 DEF Covers

\* Compressing a finished day, other than that of the copy under way, uncovers
\* no older record that counts.
LEMMA CompressCovers ==
    ASSUME IInv, NEW d \in Day, CompressDay(d), NEW S, NEW today \in Day, Covers(S, today),
           \A e \in Day : e > today => last[e] = NoFields, today = d => FALSE
    PROVE  Covers(S, today)'
  <1>1. last' = last /\ plain' = plain \ {d} /\ plain \subseteq Day
    BY DEF IInv, TypeOK, CompressDay
  <1> SUFFICES ASSUME NEW e \in plain', e >= today - 1, NewestPlain(e)'
               PROVE  NamesOf(last[e]) \subseteq S
    BY <1>1 DEF Covers
  <1>2. d > e => last[d] = NoFields
    BY <1>1 DEF Day
  <1>3. NewestPlain(e)
    BY <1>1, <1>2 DEF NewestPlain
  <1> QED
    BY <1>1, <1>3 DEF Covers

\* What a process has written covers, and whatever else it holds by then.
LEMMA AppendCovers ==
    ASSUME IInv, Append
    PROVE  Covers(NamesOf(fields), day)'
  <1> USE DaysAssumption DEF IInv
  <1>1. /\ snap.day \in Day /\ day \in Day /\ snap.day <= day
        /\ \A d \in Day : d > snap.day => last[d] = NoFields
        /\ snap.fields # NoFields /\ NamesOf(snap.fields) \subseteq NamesOf(fields)
    BY DEF Append, TypeOK, Dated, Grown
  <1>2. last \in [Day -> Record] /\ plain \subseteq Day
    BY DEF TypeOK, Record
  <1>3. /\ last'[snap.day] = snap.fields /\ \A d \in Day : d # snap.day => last'[d] = last[d]
        /\ plain' = plain \cup {snap.day} /\ fields' = fields /\ day' = day
    BY <1>1, <1>2 DEF Append
  <1> SUFFICES ASSUME NEW d \in plain', NewestPlain(d)'
               PROVE  NamesOf(last'[d]) \subseteq NamesOf(fields)
    BY <1>3 DEF Covers
  <1>4. d \in Day
    BY <1>1, <1>2, <1>3
  <1>5. d = snap.day
    <2>1. ~(d > snap.day)
      BY <1>1, <1>3, <1>4 DEF NewestPlain, Day
    <2>2. ~(snap.day > d)
      BY <1>1, <1>3 DEF NewestPlain
    <2> QED
      BY <1>1, <1>4, <2>1, <2>2 DEF Day
  <1> QED
    BY <1>1, <1>3, <1>5

\* Every step keeps Covering: the three facts of the header, action by action.
LEMMA NextCovering == IInv /\ [Next]_vars => Covering'
  <1> SUFFICES ASSUME IInv, [Next]_vars PROVE Covering'
    OBVIOUS
  <1> USE TimesAssumption, DaysAssumption DEF IInv
  <1>1. CASE Tick
    <2>1. /\ writeAge' = Never <=> writeAge = Never
          /\ writeAge # Never => warmAge' = warmAge
          /\ UNCHANGED <<day, main, fields, expected, snap, last, plain>>
      BY <1>1, OlderType DEF Tick, TypeOK
    <2> QED
      BY <2>1 DEF Covering, Begun, Covers, NewestPlain
  <1>2. CASE Midnight
    <2>1. ASSUME NEW S, Covers(S, day) PROVE Covers(S, day)'
      BY <1>2, <2>1, MidnightCovers
    <2>2. UNCHANGED <<main, writeAge, warmAge, fields, expected, snap, last, plain>>
      BY <1>2 DEF Midnight, procVars
    <2>3. main = "poll" /\ writeAge = Never => Covers(expected, day)'
      BY <2>1, <2>2 DEF Covering
    <2>4. main = "poll" /\ writeAge # Never => Covers(NamesOf(fields), day)'
      BY <2>1, <2>2 DEF Covering
    <2>5. main = "append" => warmAge = Warmup \/ Covers(NamesOf(snap.fields), snap.day)'
      BY <2>2 DEF Covering, Covers, NewestPlain
    <2> QED
      BY <2>2, <2>3, <2>4, <2>5 DEF Covering
  <1>3. ASSUME NEW d \in Day, CompressDay(d) PROVE Covering'
    <2>1. /\ UNCHANGED <<day, main, writeAge, warmAge, fields, expected, snap, last>>
          /\ d < day /\ d # snap.day /\ day \in Day
      BY <1>3 DEF CompressDay, procVars, TypeOK
    <2>2. ASSUME NEW S, Covers(S, day) PROVE Covers(S, day)'
      BY <1>3, <2>1, <2>2, CompressCovers DEF Dated, Day
    <2>3. ASSUME NEW S, main = "append", Covers(S, snap.day) PROVE Covers(S, snap.day)'
      BY <1>3, <2>1, <2>3, CompressCovers DEF Dated
    <2>4. main = "poll" /\ writeAge = Never => Covers(expected, day)'
      BY <2>1, <2>2 DEF Covering
    <2>5. main = "poll" /\ writeAge # Never => Covers(NamesOf(fields), day)'
      BY <2>1, <2>2 DEF Covering
    <2>6. main = "append" => warmAge = Warmup \/ Covers(NamesOf(snap.fields), snap.day)'
      BY <2>1, <2>3 DEF Covering
    <2> QED
      BY <2>1, <2>4, <2>5, <2>6 DEF Covering
  <1>4. CASE Start
    <2>1. Covers(ExpectedFields(day), day) /\ writeAge = Never
      BY <1>4, StartCovers DEF Start, Begun
    <2>2. /\ main' = "poll" /\ expected' = ExpectedFields(day)
          /\ UNCHANGED <<day, writeAge, last, plain>>
      BY <1>4 DEF Start
    <2> QED
      BY <2>1, <2>2 DEF Covering, Covers, NewestPlain
  <1>5. CASE StallExit \/ AppendFails \/ Joined \/ Killed
    BY <1>5, EndsAreLeaves, LeavesInv
  <1>6. CASE Connect \/ Disconnect
    <2>1. UNCHANGED <<day, main, writeAge, warmAge, fields, expected, snap, last, plain>>
      BY <1>6 DEF Connect, Disconnect, procVars
    <2> QED
      BY <2>1 DEF Covering, Covers, NewestPlain
  <1>7. ASSUME NEW t \in Topics, NEW v \in Values, Feed(t, v) PROVE Covering'
    <2>1. UNCHANGED <<day, main, writeAge, warmAge, fields, expected, snap, last, plain>>
      BY <1>7 DEF Feed
    <2> QED
      BY <2>1 DEF Covering, Covers, NewestPlain
  <1>8. CASE Update
    <2>1. UNCHANGED <<day, main, writeAge, warmAge, expected, snap, last, plain>>
      BY <1>8 DEF Update
    <2>2. Covers(NamesOf(fields), day) => Covers(NamesOf(fields'), day)
      BY <1>8, UpdateGrows, CoversMore
    <2> QED
      BY <2>1, <2>2 DEF Covering, Covers, NewestPlain
  <1>9. CASE Hold
    <2>1. /\ UNCHANGED <<day, main, writeAge, fields, expected, snap, last, plain>>
          /\ main = "poll"
      BY <1>9 DEF Hold
    <2> QED
      BY <2>1 DEF Covering, Covers, NewestPlain
  <1>10. CASE Copy
    <2>1. warmAge' = Warmup \/ Covers(NamesOf(fields), day)
      <3>1. CASE writeAge # Never
        BY <1>10, <3>1 DEF Copy, Covering
      <3>2. CASE writeAge = Never /\ Complete
        BY <1>10, <3>2, CoversMore DEF Copy, Covering, Complete
      <3>3. CASE writeAge = Never /\ WarmAge >= Warmup
        BY <1>10, <3>3 DEF Copy, WarmAge, TypeOK, Never
      <3> QED
        BY <1>10, <3>1, <3>2, <3>3 DEF Copy, MayWrite
    <2>2. /\ main' = "append" /\ snap'.day = day /\ snap'.fields = fields
          /\ UNCHANGED <<last, plain>>
      BY <1>10 DEF Copy
    <2> QED
      BY <2>1, <2>2 DEF Covering, Covers, NewestPlain
  <1>11. CASE Append
    BY <1>11, AppendCovers DEF Append, Covering, Begun
  <1>12. CASE UNCHANGED vars
    BY <1>12 DEF vars, procVars, Covering, Covers, NewestPlain
  <1> QED
    BY <1>1, <1>2, <1>3, <1>4, <1>5, <1>6, <1>7, <1>8, <1>9, <1>10, <1>11, <1>12 DEF Next

-----------------------------------------------------------------------------
\* IInv is inductive.
THEOREM Inductive == Spec => []IInv
  <1>1. Init => IInv
    BY InitType, InitInv DEF IInv
  <1>2. IInv /\ [Next]_vars => IInv'
    BY NextType, NextDated, NextBegun, NextGrown, NextCovering DEF IInv
  <1> QED
    BY <1>1, <1>2, PTL DEF Spec

\* Every variable keeps its type and every age its limit.
THEOREM TypeCorrect == Spec => []TypeOK
  <1>1. IInv => TypeOK
    BY DEF IInv
  <1> QED
    BY <1>1, Inductive, PTL

\* An append after the warm-up, or without a record to go by, or with every name
\* of the newest record of its day or of the day before.
LEMMA AppendBlanksNothing ==
    IInv /\ Append =>
        \/ warmAge = Warmup
        \/ \E d \in plain : Newest(d) /\ NamesOf(last[d]) \subseteq NamesOf(snap.fields)
        \/ \A d \in plain \cap {snap.day - 1, snap.day} : last[d] = NoFields
  <1> SUFFICES ASSUME IInv, Append, warmAge # Warmup,
                      NEW b \in plain, b \in {snap.day - 1, snap.day}, last[b] # NoFields
               PROVE  \E d \in plain : Newest(d) /\ NamesOf(last[d]) \subseteq NamesOf(snap.fields)
    OBVIOUS
  <1>1. /\ Covers(NamesOf(snap.fields), snap.day) /\ plain \subseteq Day
        /\ snap.day \in Day /\ \A d \in Day : d > snap.day => last[d] = NoFields
    BY DEF IInv, Covering, TypeOK, Dated, Append
  <1>2. ASSUME NEW d \in plain, d \in {snap.day - 1, snap.day}, NewestPlain(d)
        PROVE  Newest(d) /\ NamesOf(last[d]) \subseteq NamesOf(snap.fields)
    BY <1>1, <1>2 DEF Covers, Newest, NewestPlain, Day
  <1>3. CASE snap.day \in plain /\ last[snap.day] # NoFields
    <2>1. NewestPlain(snap.day)
      BY <1>1, <1>3 DEF NewestPlain
    <2> QED
      BY <1>2, <1>3, <2>1
  <1>4. CASE ~(snap.day \in plain /\ last[snap.day] # NoFields)
    <2>1. b = snap.day - 1
      BY <1>4
    <2>2. NewestPlain(b)
      BY <1>1, <1>4, <2>1 DEF NewestPlain, Day
    <2> QED
      BY <1>2, <2>2
  <1> QED
    BY <1>3, <1>4

\* No append blanks a column, over any number of packs, days and restarts.
THEOREM BlanksNoColumn == Spec => NoColumnBlanked
  <1>1. IInv /\ [Next]_vars =>
          [Append => \/ warmAge = Warmup
                     \/ \E d \in plain : Newest(d) /\ NamesOf(last[d]) \subseteq NamesOf(snap.fields)
                     \/ \A d \in plain \cap {snap.day - 1, snap.day} : last[d] = NoFields]_vars
    BY AppendBlanksNothing
  <1> QED
    BY <1>1, Inductive, PTL DEF Spec, NoColumnBlanked
=============================================================================

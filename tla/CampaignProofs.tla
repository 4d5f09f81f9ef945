--------------------------- MODULE CampaignProofs ---------------------------
(***************************************************************************)
(* What the tools make of the files of a campaign, for any values, times   *)
(* and number of power cuts, whatever each of them leaves of each file.    *)
(***************************************************************************)
EXTENDS CampaignProperties, SequenceTheorems, FiniteSetTheorems, WellFoundedInduction, TLAPS

-----------------------------------------------------------------------------
(* Sequences. *)

\* An element appended is the last one, and leaves the others where they are.
LEMMA Appending ==
    ASSUME NEW s, s \in Seq(Range(s)), NEW e
    PROVE  /\ Append(s, e) \in Seq(Range(Append(s, e)))
           /\ Len(s) \in Nat /\ Len(Append(s, e)) = Len(s) + 1
           /\ DOMAIN s = 1 .. Len(s) /\ DOMAIN Append(s, e) = 1 .. Len(s) + 1
           /\ Append(s, e)[Len(s) + 1] = e
           /\ \A n \in 1 .. Len(s) : Append(s, e)[n] = s[n]
           /\ Range(Append(s, e)) = Range(s) \cup {e}
  <1> DEFINE T == Range(s) \cup {e}
             a == Append(s, e)
  <1>1. s \in Seq(T) /\ e \in T
    BY SeqDef DEF Range
  <1> HIDE DEF T
  <1>2. /\ a \in Seq(T) /\ Len(s) \in Nat /\ Len(a) = Len(s) + 1
        /\ DOMAIN s = 1 .. Len(s) /\ DOMAIN a = 1 .. Len(s) + 1
        /\ a[Len(s) + 1] = e /\ \A n \in 1 .. Len(s) : a[n] = s[n]
    BY <1>1
  <1> HIDE DEF a
  <1>3. Range(a) = Range(s) \cup {e}
    BY <1>2 DEF Range
  <1>4. a \in Seq(Range(a))
    BY <1>2, SeqOfRange
  <1> QED
    BY <1>2, <1>3, <1>4 DEF a

\* Of some times that are bounded one is the latest.
LEMMA Latest ==
    ASSUME NEW S, S # {}, NEW b \in Nat, \A r \in S : r.ts \in 0 .. b
    PROVE  \E r \in S : \A s \in S : s.ts <= r.ts
  <1> DEFINE Later(r) == {n \in 0 .. b : n > r.ts}
             T == {Later(r) : r \in S}
             B == 0 .. b
  <1>1. IsFiniteSet(B)
    BY FS_Interval
  <1>2. IsWellFoundedOn(StrictSubsetOrdering(B), FiniteSubsetsOf(B)) /\ FiniteSubsetsOf(B) = SUBSET B
    BY <1>1, FS_StrictSubsetOrderingWellFounded, FS_FiniteSubsetsOfFinite
  <1>3. T \subseteq SUBSET B /\ T # {}
    OBVIOUS
  <1> HIDE DEF T
  <1>4. PICK L \in T : \A K \in T : ~ (<<K, L>> \in StrictSubsetOrdering(B))
    BY <1>2, <1>3, WFMin, ZenonT(30)
  <1>5. PICK r \in S : L = Later(r)
    BY <1>4 DEF T
  <1>6. ASSUME NEW s \in S PROVE s.ts <= r.ts
    <2>1. s.ts \in 0 .. b /\ r.ts \in 0 .. b
      OBVIOUS
    <2>2. SUFFICES ASSUME s.ts > r.ts PROVE FALSE
      BY <2>1
    <2>3. Later(s) \subseteq Later(r) /\ s.ts \in Later(r) /\ s.ts \notin Later(s)
      BY <2>1, <2>2
    <2>4. <<Later(s), Later(r)>> \in StrictSubsetOrdering(B)
      BY <2>3 DEF StrictSubsetOrdering
    <2> QED
      BY <1>4, <1>5, <2>4 DEF T
  <1> QED
    BY <1>6

-----------------------------------------------------------------------------
(* A file. *)

\* A file of such records: no line is without a fragment.
FileOf(records) == Seq(Seq([rec : records, left : Left]) \ {<<>>})

\* The record is a line of its own, all of it.
Alone(file, r) == \E k \in DOMAIN file : file[k] = << [rec |-> r, left |-> "all"] >>

\* A fragment that is all of the record, whatever stands before it on its line.
Whole(file, r) == \E k \in DOMAIN file : \E j \in DOMAIN file[k] : file[k][j] = [rec |-> r, left |-> "all"]

LastWhole(file) == Last(Last(file)).rec

\* The last record of a file is one of those it is made of.
LEMMA LastOfFile ==
    ASSUME NEW records, NEW file \in FileOf(records), file # <<>>
    PROVE  LastWhole(file) \in records
  <1> DEFINE Fr == [rec : records, left : Left]
             Ln == Seq(Fr) \ {<<>>}
  <1>1. file \in Seq(Ln) /\ Ln \subseteq Seq(Fr) /\ <<>> \notin Ln
    BY DEF FileOf
  <1> HIDE DEF Ln
  <1>2. Len(file) \in Nat /\ Len(file) # 0
    BY <1>1, EmptySeq
  <1>3. Last(file) \in Ln
    BY <1>1, <1>2, ElementOfSeq DEF Last
  <1> DEFINE l == Last(file)
  <1> HIDE DEF l, Fr
  <1>4. l \in Seq(Fr) /\ l # <<>>
    BY <1>1, <1>3 DEF l
  <1>5. Len(l) \in Nat /\ Len(l) # 0
    BY <1>4, EmptySeq
  <1>6. Last(l) \in Fr
    BY <1>4, <1>5, ElementOfSeq DEF Last
  <1> QED
    BY <1>6 DEF LastWhole, Fr, l

\* A record appended to a file that ends with a whole line is a line of its own.
LEMMA AppendedFile ==
    ASSUME NEW records, NEW file \in FileOf(records), NEW r
    PROVE  /\ Appended(file, r) \in FileOf(records \cup {r})
           /\ Appended(file, r) # <<>> /\ ~Open(Appended(file, r))
           /\ LastWhole(Appended(file, r)) = r
           /\ ~Open(file) => Alone(Appended(file, r), r)
           /\ \A q : Alone(file, q) => Alone(Appended(file, r), q)
           /\ Whole(Appended(file, r), r)
           /\ \A q : Whole(file, q) => Whole(Appended(file, r), q)
  <1> DEFINE whole == [rec |-> r, left |-> "all"]
             Fr == [rec : records \cup {r}, left : Left]
             Ln == Seq(Fr) \ {<<>>}
             a == Appended(file, r)
  <1>1. whole \in Fr /\ whole.left = "all" /\ whole.rec = r
    BY DEF Left
  <1>2. file \in Seq(Ln)
    <2>1. [rec : records, left : Left] \subseteq Fr
      OBVIOUS
    <2>2. Seq([rec : records, left : Left]) \subseteq Seq(Fr)
      BY <2>1, SeqMonotonic
    <2>3. Seq([rec : records, left : Left]) \ {<<>>} \subseteq Ln
      BY <2>2
    <2>4. file \in Seq(Seq([rec : records, left : Left]) \ {<<>>})
      BY DEF FileOf
    <2> HIDE DEF Ln
    <2> QED
      BY <2>3, <2>4, SeqMonotonic
  <1> HIDE DEF whole, Fr
  <1>3. Len(file) \in Nat /\ DOMAIN file = 1 .. Len(file) /\ \A k \in 1 .. Len(file) : file[k] \in Ln
    BY <1>2, LenProperties, ElementOfSeq
  <1>4. CASE Open(file)
    <2> DEFINE m == Len(file)
               l == Append(file[m], whole)
    <2>1. m \in 1 .. Len(file)
      BY <1>2, <1>3, <1>4, EmptySeq DEF Open
    <2>2. file[m] \in Seq(Fr) /\ Len(file[m]) \in Nat /\ Len(file[m]) > 0
      BY <1>3, <2>1, EmptySeq, LenProperties
    <2>3. l \in Ln /\ Len(l) = Len(file[m]) + 1 /\ l[Len(l)] = whole
      BY <1>1, <2>2, AppendProperties
    <2>4. a = [file EXCEPT ![m] = l]
      BY <1>4 DEF Appended, whole
    <2> HIDE DEF m, l, Ln
    <2>5. a \in Seq(Ln) /\ Len(a) = Len(file) /\ \A k \in 1 .. Len(file) : a[k] = IF k = m THEN l ELSE file[k]
      BY <1>2, <2>1, <2>3, <2>4, ExceptSeq
    <2>6. Last(Last(a)) = whole /\ a # <<>>
      <3>1. a[Len(a)] = l
        BY <2>1, <2>5 DEF m
      <3>2. a # <<>>
        BY <1>3, <2>1, <2>5, EmptySeq
      <3> QED
        BY <2>3, <3>1, <3>2 DEF Last
    <2>51. DOMAIN a = 1 .. Len(file) /\ DOMAIN l = 1 .. Len(file[m]) + 1 /\ DOMAIN file[m] = 1 .. Len(file[m])
      BY <2>2, <2>3, <2>5, LenProperties DEF Ln
    <2>52. \A j \in 1 .. Len(file[m]) : l[j] = file[m][j]
      BY <1>1, <2>2, AppendProperties DEF l
    <2>53. Whole(a, r)
      <3>1. m \in DOMAIN a /\ a[m] = l
        BY <2>1, <2>5, <2>51
      <3>2. Len(l) \in DOMAIN l /\ l[Len(l)] = [rec |-> r, left |-> "all"]
        BY <2>2, <2>3, <2>51 DEF whole
      <3> QED
        BY <3>1, <3>2 DEF Whole
    <2>54. ASSUME NEW q, Whole(file, q) PROVE Whole(a, q)
      <3>1. PICK k \in 1 .. Len(file) : \E j \in DOMAIN file[k] : file[k][j] = [rec |-> q, left |-> "all"]
        BY <1>3, <2>54 DEF Whole
      <3>2. PICK j \in DOMAIN file[k] : file[k][j] = [rec |-> q, left |-> "all"]
        BY <3>1
      <3>3. j \in DOMAIN a[k] /\ a[k][j] = file[k][j] /\ k \in DOMAIN a
        BY <2>2, <2>5, <2>51, <2>52, <3>2, SMTT(30)
      <3> QED
        BY <3>2, <3>3 DEF Whole
    <2>7. ASSUME NEW q, Alone(file, q) PROVE Alone(a, q)
      <3>1. PICK k \in 1 .. Len(file) : file[k] = << [rec |-> q, left |-> "all"] >>
        BY <1>3, <2>7 DEF Alone
      <3>2. k # m
        <4>1. Last(file[m]).left # "all"
          BY <1>4 DEF Open, Last, m
        <4> QED
          BY <3>1, <4>1 DEF Last
      <3>3. a[k] = file[k] /\ k \in DOMAIN a
        BY <2>5, <3>2, LenProperties
      <3> QED
        BY <3>1, <3>3 DEF Alone
    <2> QED
      BY <1>1, <1>4, <2>5, <2>53, <2>54, <2>6, <2>7 DEF Open, LastWhole, FileOf, Ln, Fr
  <1>5. CASE ~Open(file)
    <2> DEFINE l == <<whole>>
    <2>1. l \in Ln /\ Len(l) = 1 /\ l[1] = whole
      BY <1>1
    <2>2. a = Append(file, l)
      BY <1>5 DEF Appended, whole
    <2>21. l = << [rec |-> r, left |-> "all"] >>
      BY DEF whole
    <2> HIDE DEF l, Ln
    <2>3. /\ a \in Seq(Ln) /\ Len(a) = Len(file) + 1 /\ a # <<>>
          /\ a[Len(file) + 1] = l /\ \A k \in 1 .. Len(file) : a[k] = file[k]
      BY <1>2, <2>1, <2>2, AppendProperties
    <2>4. DOMAIN a = 1 .. Len(file) + 1
      BY <2>3, LenProperties
    <2>5. Last(Last(a)) = whole
      BY <2>1, <2>3 DEF Last
    <2>6. Alone(a, r)
      BY <1>3, <2>21, <2>3, <2>4 DEF Alone
    <2>7. ASSUME NEW q, Alone(file, q) PROVE Alone(a, q)
      BY <1>3, <2>3, <2>4, <2>7 DEF Alone
    <2>8. Whole(a, r)
      <3>1. DOMAIN l = {1}
        BY <2>21
      <3> QED
        BY <1>3, <2>1, <2>3, <2>4, <3>1 DEF Whole, whole
    <2>9. ASSUME NEW q, Whole(file, q) PROVE Whole(a, q)
      <3>1. PICK k \in 1 .. Len(file) : \E j \in DOMAIN file[k] : file[k][j] = [rec |-> q, left |-> "all"]
        BY <1>3, <2>9 DEF Whole
      <3>2. k \in DOMAIN a /\ a[k] = file[k]
        BY <1>3, <2>3, <2>4
      <3> QED
        BY <3>1, <3>2 DEF Whole
    <2> QED
      BY <1>1, <1>5, <2>3, <2>5, <2>6, <2>7, <2>8, <2>9 DEF Open, LastWhole, FileOf, Ln, Fr
  <1> QED
    BY <1>4, <1>5

\* What a power cut may still harm.
Harmable(file, r) == file # <<>> /\ ~Open(file) /\ LastWhole(file) = r /\ ~ (r.ts < LastBoot)

\* A power cut harms no line but the last, and that one only if the file ends with
\* a line that was written since the last boot.
LEMMA HarmedFile ==
    ASSUME NEW records, NEW file \in FileOf(records), NEW how \in Left
    PROVE  /\ Harmed(file, how) \in FileOf(records)
           /\ \A r : /\ Alone(file, r) => Alone(Harmed(file, how), r) \/ Harmable(file, r)
                     /\ Whole(file, r) => Whole(Harmed(file, how), r) \/ Harmable(file, r)
  <1> DEFINE Fr == [rec : records, left : Left]
             Ln == Seq(Fr) \ {<<>>}
             h == Harmed(file, how)
             m == Len(file)
             last == file[m]
             k == Len(last)
             HarmedOK == /\ h \in FileOf(records)
                         /\ \A r : /\ Alone(file, r) => Alone(h, r) \/ Harmable(file, r)
                                   /\ Whole(file, r) => Whole(h, r) \/ Harmable(file, r)
             safe == file = <<>> \/ Open(file) \/ Last(Last(file)).rec.ts < LastBoot \/ how = "all"
  <1>1. CASE safe
    <2>1. h = file
      BY <1>1 DEF Harmed
    <2> QED
      BY <2>1
  <1>2. CASE ~safe
    <2>0. m = Len(file) /\ last = file[m] /\ k = Len(last) /\ Fr = [rec : records, left : Left]
      OBVIOUS
    <2>1. file \in Seq(Ln) /\ (h \in Seq(Ln) => h \in FileOf(records))
      BY DEF FileOf
    <2>2. Ln \subseteq Seq(Fr) /\ <<>> \notin Ln /\ \A l \in Seq(Fr) : l # <<>> => l \in Ln
      OBVIOUS
    <2>3. h = IF how # "gone" THEN [file EXCEPT ![m][Len(Last(file))].left = how]
              ELSE IF Len(Last(file)) = 1 THEN Front(file)
              ELSE [file EXCEPT ![m] = Front(@)]
      BY <1>2 DEF Harmed
    <2>4. file # <<>> /\ ~Open(file) /\ ~ (LastWhole(file).ts < LastBoot)
      BY <1>2 DEF LastWhole
    <2> HIDE DEF Ln, Fr, h, m, last, k, safe
    <2>5. /\ m \in Nat /\ m > 0 /\ DOMAIN file = 1 .. m
          /\ last \in Ln /\ Last(file) = last /\ \A j \in 1 .. m : file[j] \in Ln
      BY <2>0, <2>1, <2>4, LenProperties, ElementOfSeq, EmptySeq DEF Last
    <2>6. last \in Seq(Fr) /\ last # <<>>
      BY <2>2, <2>5
    <2>7. /\ k \in Nat /\ k > 0 /\ DOMAIN last = 1 .. k
          /\ \A j \in 1 .. k : last[j] \in Fr
          /\ LastWhole(file) = last[k].rec
      <3>1. k \in Nat /\ k > 0 /\ DOMAIN last = 1 .. k /\ \A j \in 1 .. k : last[j] \in Fr
        <4>1. k \in Nat /\ k # 0 /\ DOMAIN last = 1 .. k
          BY <2>0, <2>6, LenProperties, EmptySeq
        <4>2. \A j \in 1 .. k : last[j] \in Fr
          BY <2>0, <2>6, ElementOfSeq
        <4> QED
          BY <4>1, <4>2
      <3>2. LastWhole(file) = last[k].rec
        BY <2>0, <2>5 DEF Last, LastWhole
      <3> QED
        BY <3>1, <3>2
    \* Nothing becomes of the other lines.
    <2>8. ASSUME h \in Seq(Ln), \A j \in 1 .. m - 1 : j \in DOMAIN h /\ h[j] = file[j],
                 \A i \in 1 .. k - 1 : m \in DOMAIN h /\ i \in DOMAIN h[m] /\ h[m][i] = last[i]
          PROVE  HarmedOK
      <3>1. ASSUME NEW r, Alone(file, r), ~Alone(h, r) PROVE LastWhole(file) = r
        <4>1. PICK j \in 1 .. m : file[j] = << [rec |-> r, left |-> "all"] >>
          BY <2>5, <3>1 DEF Alone
        <4>2. j \notin 1 .. m - 1
          BY <2>8, <3>1, <4>1 DEF Alone
        <4>3. j = m
          BY <2>5, <4>1, <4>2
        <4>4. last = << [rec |-> r, left |-> "all"] >>
          BY <2>0, <4>1, <4>3
        <4>5. k = 1 /\ last[1].rec = r
          BY <2>0, <4>4
        <4> QED
          BY <2>7, <4>5
      <3>2. ASSUME NEW r, Whole(file, r), ~Whole(h, r) PROVE LastWhole(file) = r
        <4>0. PICK j \in 1 .. m : \E i \in DOMAIN file[j] : file[j][i] = [rec |-> r, left |-> "all"]
          BY <2>5, <3>2 DEF Whole
        <4>1. PICK i \in DOMAIN file[j] : file[j][i] = [rec |-> r, left |-> "all"]
          BY <4>0
        <4>2. j \notin 1 .. m - 1
          BY <2>8, <3>2, <4>1 DEF Whole
        <4>3. j = m /\ i \in 1 .. k /\ last[i] = [rec |-> r, left |-> "all"]
          BY <2>0, <2>5, <2>7, <4>1, <4>2
        <4>4. i \notin 1 .. k - 1
          BY <2>8, <3>2, <4>3 DEF Whole
        <4>5. i = k
          BY <2>7, <4>3, <4>4
        <4> QED
          BY <2>7, <4>3, <4>5
      <3> QED
        BY <2>1, <2>4, <2>8, <3>1, <3>2 DEF Harmable
    <2> HIDE DEF HarmedOK
    <2>9. ASSUME NEW l \in Ln, h = [file EXCEPT ![m] = l], \A i \in 1 .. k - 1 : i \in DOMAIN l /\ l[i] = last[i]
          PROVE  HarmedOK
      <3>1. h \in Seq(Ln) /\ Len(h) = m /\ \A j \in 1 .. m : h[j] = IF j = m THEN l ELSE file[j]
        <4>1. m \in 1 .. Len(file)
          BY <2>0, <2>5
        <4> QED
          BY <2>0, <2>1, <2>9, <4>1, ExceptSeq
      <3>2. DOMAIN h = 1 .. m
        BY <3>1, LenProperties
      <3>3. \A i \in 1 .. k - 1 : m \in DOMAIN h /\ i \in DOMAIN h[m] /\ h[m][i] = last[i]
        BY <2>5, <2>9, <3>1, <3>2
      <3>4. \A j \in 1 .. m - 1 : j \in DOMAIN h /\ h[j] = file[j]
        BY <2>5, <3>1, <3>2
      <3> QED
        BY <2>8, <3>1, <3>3, <3>4
    <2>10. ASSUME how # "gone" PROVE HarmedOK
      <3> DEFINE f == [last[k] EXCEPT !.left = how]
                 l == [last EXCEPT ![k] = f]
      <3>1. h = [file EXCEPT ![m] = l]
        BY <2>0, <2>3, <2>5, <2>10
      <3>2. f \in Fr
        BY <2>0, <2>7
      <3> HIDE DEF f
      <3>3. l \in Seq(Fr) /\ Len(l) = k /\ \A i \in 1 .. k : l[i] = IF i = k THEN f ELSE last[i]
        <4>1. k \in 1 .. Len(last)
          BY <2>0, <2>7
        <4> QED
          BY <2>0, <2>6, <3>2, <4>1, ExceptSeq
      <3> HIDE DEF l
      <3>4. l \in Ln
        BY <2>2, <2>7, <3>3
      <3>5. DOMAIN l = 1 .. k
        BY <3>3, LenProperties
      <3>6. \A i \in 1 .. k - 1 : i \in DOMAIN l /\ l[i] = last[i]
        BY <2>7, <3>3, <3>5
      <3> QED
        BY <2>9, <3>1, <3>4, <3>6
    <2>11. ASSUME how = "gone", k = 1 PROVE HarmedOK
      <3>1. h = SubSeq(file, 1, m - 1)
        BY <2>0, <2>3, <2>5, <2>11 DEF Front
      <3>2. h \in Seq(Ln) /\ Len(h) = m - 1 /\ \A j \in 1 .. m - 1 : h[j] = file[j]
        BY <2>5, <3>1, SubSeqProperties
      <3>3. DOMAIN h = 1 .. m - 1
        BY <3>2, LenProperties
      <3>4. 1 .. k - 1 = {}
        BY <2>11
      <3> QED
        BY <2>8, <3>2, <3>3, <3>4
    <2>12. ASSUME how = "gone", k # 1 PROVE HarmedOK
      <3> DEFINE l == SubSeq(last, 1, k - 1)
      <3>1. h = [file EXCEPT ![m] = l]
        BY <2>0, <2>3, <2>5, <2>12 DEF Front
      <3>2. l \in Seq(Fr) /\ Len(l) = k - 1 /\ \A i \in 1 .. k - 1 : l[i] = last[i]
        BY <2>7, SubSeqProperties
      <3> HIDE DEF l
      <3>3. l \in Ln
        BY <2>2, <2>7, <2>12, <3>2
      <3>4. DOMAIN l = 1 .. k - 1
        BY <3>2, LenProperties
      <3> QED
        BY <2>9, <3>1, <3>2, <3>3, <3>4
    <2> QED
      BY <2>10, <2>11, <2>12 DEF HarmedOK, h
  <1> QED
    BY <1>1, <1>2

-----------------------------------------------------------------------------
(* What becomes of the records written. *)

Ascending(w) == \A m, n \in 1 .. Len(w) : m < n => w[m].ts < w[n].ts

\* The last record before a power cut, and the first after one.
LastBefore(w, cuts, n) == \E t \in cuts : w[n].ts < t /\ (n < Len(w) => w[n + 1].ts > t)
FirstAfter(w, cuts, n) == \E t \in cuts : w[n].ts > t /\ (n > 1 => w[n - 1].ts < t)

\* Each record is a line of its own or next to a power cut, and a line is only left
\* without its end if nothing was written since.
Accounted(name, file, w, cuts) ==
    /\ w \in Seq(Range(w)) /\ Ascending(w)
    /\ \A n \in 1 .. Len(w) : w[n].ts \in Nat
    /\ file \in FileOf(Range(w))
    /\ \A n \in 1 .. Len(w) : \/ Alone(file, w[n])
                              \/ LastBefore(w, cuts, n)
                              \/ FirstAfter(w, cuts, n) /\ (name = "wire" => w[n].kind = "start")
    /\ Open(file) => \E t \in cuts : \A n \in 1 .. Len(w) : w[n].ts < t

\* The only line that can still be harmed is the last record.
SafeOrLast(file, w) ==
    file # <<>> /\ ~Open(file) => LastWhole(file).ts < LastBoot \/ LastWhole(file) = w[Len(w)]

Clock ==
    /\ now \in Nat /\ box \in BOOLEAN
    /\ outages \in Seq(Nat \X Nat) /\ (~box => outages # <<>>)
    /\ \A t \in Cuts : t \in 0 .. now
    /\ poller \in {Idle, Ended} \cup 0 .. now
    /\ poller \in Nat => /\ \A t \in Cuts : t < poller
                         /\ \A n \in 1 .. Len(written["tcp"]) : written["tcp"][n].ts < poller

Records ==
    /\ DOMAIN files = Names /\ DOMAIN written = Names
    /\ \A name \in Names : /\ Accounted(name, files[name], written[name], Cuts)
                           /\ \A n \in 1 .. Len(written[name]) : written[name][n].ts <= now
                           /\ box => SafeOrLast(files[name], written[name])
    /\ box => ~Open(files["wire"])
    /\ \A n \in 1 .. Len(written["wire"]) : written["wire"][n].kind \in {"start", "poll"}

Account == Clock /\ Records

\* A record written is a line of its own, unless something is left of a power cut
\* that no record came after: then it is the first after that one.
LEMMA WrittenAccounted ==
    ASSUME NEW name, NEW file, NEW w, NEW cuts \in SUBSET Int, Accounted(name, file, w, cuts),
           NEW r, r.ts \in Nat,
           \A n \in 1 .. Len(w) : w[n].ts < r.ts,
           \A t \in cuts : t < r.ts,
           name = "wire" => ~Open(file) \/ r.kind = "start"
    PROVE  /\ Accounted(name, Appended(file, r), Append(w, r), cuts)
           /\ ~Open(Appended(file, r))
           /\ LastWhole(Appended(file, r)) = Append(w, r)[Len(Append(w, r))]
           /\ Len(Append(w, r)) = Len(w) + 1 /\ Len(w) \in Nat
           /\ \A n \in 1 .. Len(w) + 1 : Append(w, r)[n] = IF n = Len(w) + 1 THEN r ELSE w[n]
  <1> DEFINE W == Append(w, r)
             F == Appended(file, r)
             m == Len(w)
  <1>1. w \in Seq(Range(w)) /\ file \in FileOf(Range(w))
    BY DEF Accounted
  <1>2. /\ W \in Seq(Range(W)) /\ m \in Nat /\ Len(W) = m + 1
        /\ W[m + 1] = r /\ \A n \in 1 .. m : W[n] = w[n]
        /\ Range(W) = Range(w) \cup {r}
    BY <1>1, Appending
  <1> HIDE DEF W, m
  <1>3. /\ F \in FileOf(Range(W)) /\ F # <<>> /\ ~Open(F) /\ LastWhole(F) = r
        /\ ~Open(file) => Alone(F, r)
        /\ \A q : Alone(file, q) => Alone(F, q)
    <2>1. F \in FileOf(Range(w) \cup {r})
      BY <1>1, AppendedFile
    <2> QED
      BY <1>1, <1>2, <2>1, AppendedFile
  <1> HIDE DEF F
  <1>4. \A n \in 1 .. m : w[n].ts \in Nat /\ w[n].ts < r.ts
    BY DEF Accounted, m
  <1>5. Ascending(W) /\ \A n \in 1 .. m + 1 : W[n].ts \in Nat
    <2>1. \A n \in 1 .. m + 1 : n \in 1 .. m \/ n = m + 1
      BY <1>2
    <2>2. \A n \in 1 .. m + 1 : W[n].ts \in Nat
      BY <1>2, <1>4, <2>1
    <2>3. ASSUME NEW i \in 1 .. m + 1, NEW j \in 1 .. m + 1, i < j PROVE W[i].ts < W[j].ts
      <3>1. CASE j \in 1 .. m
        BY <1>2, <2>3, <3>1 DEF Accounted, Ascending, m
      <3>2. CASE j = m + 1
        BY <1>2, <1>4, <2>3, <3>2
      <3> QED
        BY <2>1, <3>1, <3>2
    <2> QED
      BY <1>2, <2>2, <2>3 DEF Ascending
  <1>6. ASSUME NEW n \in 1 .. m + 1
        PROVE  \/ Alone(F, W[n])
               \/ LastBefore(W, cuts, n)
               \/ FirstAfter(W, cuts, n) /\ (name = "wire" => W[n].kind = "start")
    <2>1. CASE n \in 1 .. m /\ Alone(file, w[n])
      BY <1>2, <1>3, <2>1
    <2>2. CASE n \in 1 .. m /\ LastBefore(w, cuts, n)
      <3>1. PICK t \in cuts : w[n].ts < t /\ (n < m => w[n + 1].ts > t)
        BY <2>2 DEF LastBefore, m
      <3>2. W[n + 1].ts > t
        BY <1>2, <2>2, <3>1
      <3> QED
        BY <1>2, <2>2, <3>1, <3>2 DEF LastBefore
    <2>3. CASE n \in 1 .. m /\ FirstAfter(w, cuts, n) /\ (name = "wire" => w[n].kind = "start")
      <3>1. n > 1 => n - 1 \in 1 .. m
        BY <1>2, <2>3
      <3> QED
        BY <1>2, <2>3, <3>1 DEF FirstAfter
    <2>4. CASE n = m + 1 /\ ~Open(file)
      BY <1>2, <1>3, <2>4
    <2>5. CASE n = m + 1 /\ Open(file)
      <3>1. PICK t \in cuts : \A i \in 1 .. m : w[i].ts < t
        BY <2>5 DEF Accounted, m
      <3>2. n > 1 => W[n - 1].ts < t
        BY <1>2, <2>5, <3>1
      <3> QED
        BY <1>2, <2>5, <3>1, <3>2 DEF FirstAfter
    <2> QED
      BY <1>2, <2>1, <2>2, <2>3, <2>4, <2>5 DEF Accounted, m
  <1>7. Accounted(name, F, W, cuts)
    BY <1>2, <1>3, <1>5, <1>6 DEF Accounted
  <1>8. LastWhole(F) = W[Len(W)] /\ \A n \in 1 .. m + 1 : W[n] = IF n = m + 1 THEN r ELSE w[n]
    BY <1>2, <1>3
  <1> QED
    BY <1>2, <1>3, <1>7, <1>8 DEF W, F, m

\* What a power cut harms is the last record before it.
LEMMA HarmedAccounted ==
    ASSUME NEW name, NEW file, NEW w, NEW cuts \in SUBSET Int, Accounted(name, file, w, cuts),
           SafeOrLast(file, w), NEW how \in Left,
           NEW t \in Int, \A n \in 1 .. Len(w) : w[n].ts < t
    PROVE  Accounted(name, Harmed(file, how), w, cuts \cup {t})
  <1> DEFINE h == Harmed(file, how)
             cs == cuts \cup {t}
             m == Len(w)
  <1>1. w \in Seq(Range(w)) /\ file \in FileOf(Range(w)) /\ Ascending(w) /\ \A n \in 1 .. m : w[n].ts \in Nat
    BY DEF Accounted
  <1>2. m \in Nat
    BY <1>1, LenProperties
  <1>3. /\ h \in FileOf(Range(w))
        /\ \A r : Alone(file, r) => Alone(h, r) \/ Harmable(file, r)
    BY <1>1, HarmedFile
  <1> HIDE DEF h
  <1>4. ASSUME NEW n \in 1 .. m
        PROVE  \/ Alone(h, w[n])
               \/ LastBefore(w, cs, n)
               \/ FirstAfter(w, cs, n) /\ (name = "wire" => w[n].kind = "start")
    <2>1. CASE Alone(file, w[n])
      <3>1. SUFFICES ASSUME ~Alone(h, w[n]) PROVE LastBefore(w, cs, n)
        OBVIOUS
      <3>2. w[n] = w[m]
        BY <1>3, <2>1, <3>1 DEF SafeOrLast, Harmable
      <3>3. n = m
        <4>1. m \in 1 .. m /\ w[n].ts \in Nat /\ ~ (w[n].ts < w[m].ts)
          BY <1>1, <1>2, <3>2
        <4>2. n < m \/ n = m
          BY <1>2
        <4> QED
          BY <1>1, <4>1, <4>2 DEF Ascending
      <3> QED
        BY <1>2, <3>3 DEF LastBefore
    <2>2. CASE LastBefore(w, cuts, n)
      BY <2>2 DEF LastBefore
    <2>3. CASE FirstAfter(w, cuts, n) /\ (name = "wire" => w[n].kind = "start")
      BY <2>3 DEF FirstAfter
    <2> QED
      BY <2>1, <2>2, <2>3 DEF Accounted
  <1>5. \E c \in cs : \A n \in 1 .. m : w[n].ts < c
    OBVIOUS
  <1> HIDE DEF cs
  <1> QED
    BY <1>1, <1>3, <1>4, <1>5 DEF Accounted, h, cs

\* A line written on any of the files leaves all of them accounted for.
LEMMA WrittenRecords ==
    ASSUME Account, NEW name \in Names, NEW r, Write(name, r), Cuts' = Cuts,
           now' \in Nat, now <= now', r.ts \in 0 .. now',
           \A n \in 1 .. Len(written[name]) : written[name][n].ts < r.ts,
           \A t \in Cuts : t < r.ts,
           name = "wire" => r.kind = "start" \/ (r.kind = "poll" /\ ~Open(files["wire"])),
           \A other \in Names \ {name} : box' => SafeOrLast(files[other], written[other])',
           name # "wire" /\ box' => ~Open(files["wire"])
    PROVE  Records'
  <1> DEFINE F == Appended(files[name], r)
             W == Append(written[name], r)
  <1>1. /\ files' = [files EXCEPT ![name] = F] /\ written' = [written EXCEPT ![name] = W]
        /\ DOMAIN files = Names /\ DOMAIN written = Names
    BY DEF Write, Account, Records
  <1>2. /\ DOMAIN files' = Names /\ DOMAIN written' = Names
        /\ files'[name] = F /\ written'[name] = W
        /\ \A other \in Names \ {name} : files'[other] = files[other] /\ written'[other] = written[other]
    BY <1>1
  <1>3. Cuts \in SUBSET Int /\ now \in Nat
    BY DEF Account, Clock
  <1>4. /\ Accounted(name, F, W, Cuts) /\ ~Open(F) /\ LastWhole(F) = W[Len(W)]
        /\ Len(W) = Len(written[name]) + 1 /\ Len(written[name]) \in Nat
        /\ \A n \in 1 .. Len(written[name]) + 1 :
              W[n] = IF n = Len(written[name]) + 1 THEN r ELSE written[name][n]
    <2>1. Accounted(name, files[name], written[name], Cuts)
      BY DEF Account, Records
    <2>2. name = "wire" => ~Open(files[name]) \/ r.kind = "start"
      OBVIOUS
    <2> QED
      BY <1>3, <2>1, <2>2, WrittenAccounted, SMTT(30)
  <1>5. /\ \A n \in 1 .. Len(W) : W[n].ts <= now'
        /\ name = "wire" => \A n \in 1 .. Len(W) : W[n].kind \in {"start", "poll"}
    <2>1. \A n \in 1 .. Len(written[name]) : written[name][n].ts <= now /\ written[name][n].ts \in Nat
      BY DEF Account, Records, Accounted
    <2>2. name = "wire" => \A n \in 1 .. Len(written[name]) : written[name][n].kind \in {"start", "poll"}
      BY DEF Account, Records
    <2> QED
      BY <1>3, <1>4, <2>1, <2>2, SMTT(30)
  <1> HIDE DEF F, W
  <1>6. ASSUME NEW q \in Names
        PROVE  /\ Accounted(q, files[q], written[q], Cuts)'
               /\ (\A n \in 1 .. Len(written[q]) : written[q][n].ts <= now)'
               /\ (box => SafeOrLast(files[q], written[q]))'
    <2>1. CASE q = name
      BY <1>2, <1>4, <1>5, <2>1 DEF SafeOrLast
    <2>2. CASE q # name
      <3>1. /\ files'[q] = files[q] /\ written'[q] = written[q]
            /\ Accounted(q, files[q], written[q], Cuts)
            /\ \A n \in 1 .. Len(written[q]) : written[q][n].ts <= now /\ written[q][n].ts \in Nat
        BY <1>2, <2>2 DEF Account, Records, Accounted
      <3> QED
        BY <1>3, <2>2, <3>1
    <2> QED
      BY <2>1, <2>2
  <1>7. (\A n \in 1 .. Len(written["wire"]) : written["wire"][n].kind \in {"start", "poll"})'
    <2>1. CASE name = "wire"
      BY <1>2, <1>5, <2>1
    <2>2. CASE name # "wire"
      BY <1>2, <2>2 DEF Account, Records, Names
    <2> QED
      BY <2>1, <2>2
  <1>8. (box => ~Open(files["wire"]))'
    <2>1. CASE name = "wire"
      BY <1>2, <1>4, <2>1
    <2>2. CASE name # "wire"
      BY <1>2, <2>2 DEF Names
    <2> QED
      BY <2>1, <2>2
  <1> QED
    BY <1>2, <1>6, <1>7, <1>8 DEF Records

\* Time passes.
LEMMA WaitingRecords ==
    ASSUME Account, UNCHANGED <<box, files, written, outages>>, now' \in Nat, now <= now'
    PROVE  Records'
  <1>1. Cuts' = Cuts /\ LastBoot' = LastBoot /\ now \in Nat
    BY DEF Cuts, LastBoot, Account, Clock
  <1>2. ASSUME NEW q \in Names
        PROVE  /\ Accounted(q, files[q], written[q], Cuts)'
               /\ (\A n \in 1 .. Len(written[q]) : written[q][n].ts <= now)'
               /\ (box => SafeOrLast(files[q], written[q]))'
    <2>1. /\ Accounted(q, files[q], written[q], Cuts)
          /\ \A n \in 1 .. Len(written[q]) : written[q][n].ts <= now /\ written[q][n].ts \in Nat
          /\ box => SafeOrLast(files[q], written[q])
      BY DEF Account, Records, Accounted
    <2>2. (box => SafeOrLast(files[q], written[q]))'
      BY <1>1, <2>1 DEF SafeOrLast
    <2> QED
      BY <1>1, <2>1, <2>2
  <1> QED
    BY <1>2 DEF Account, Records

-----------------------------------------------------------------------------
(* Every record that a behaviour writes is accounted for. *)

LEMMA InitAccount == Init => Account
  <1> SUFFICES ASSUME Init PROVE Account
    OBVIOUS
  <1> DEFINE s == Start(0)
             F == << << [rec |-> s, left |-> "all"] >> >>
  <1>1. Cuts = {} /\ Clock
    <2>1. outages = <<>> /\ DOMAIN outages = {}
      BY DEF Init
    <2>2. Cuts = {}
      BY <2>1 DEF Cuts
    <2>3. outages \in Seq(Nat \X Nat)
      BY <2>1, EmptySeq
    <2> QED
      BY <2>2, <2>3 DEF Init, Clock, Idle
  <1>2. /\ DOMAIN files = Names /\ DOMAIN written = Names
        /\ written["wire"] = <<s>>
        /\ \A name \in {"tcp", "tags"} : written[name] = <<>> /\ files[name] = <<>>
        /\ files["wire"] = [n \in 1 .. 1 |-> << [rec |-> s, left |-> "all"] >>]
    BY DEF Init, Names
  <1>3. s.ts = 0 /\ s.kind = "start"
    BY DEF Start
  <1> HIDE DEF s
  <1>4. files["wire"] = F
    BY <1>2
  <1>5. Accounted("wire", F, <<s>>, {}) /\ ~Open(F) /\ LastWhole(F) = s
    <2>1. <<s>> \in Seq(Range(<<s>>)) /\ s \in Range(<<s>>)
      BY DEF Range
    <2>2. [rec |-> s, left |-> "all"] \in [rec : Range(<<s>>), left : Left]
      BY <2>1 DEF Left
    <2>3. F \in FileOf(Range(<<s>>))
      BY <2>2 DEF FileOf
    <2>4. Alone(F, s)
      BY DEF Alone
    <2>5. ~Open(F) /\ LastWhole(F) = s
      BY DEF Open, LastWhole, Last
    <2>6. Len(<<s>>) = 1 /\ <<s>>[1] = s
      OBVIOUS
    <2> HIDE DEF F
    <2>7. Ascending(<<s>>)
      BY <2>6 DEF Ascending
    <2> QED
      BY <1>3, <2>1, <2>3, <2>4, <2>5, <2>6, <2>7 DEF Accounted
  <1>6. ASSUME NEW name PROVE Accounted(name, <<>>, <<>>, {}) /\ SafeOrLast(<<>>, <<>>)
    <2>1. <<>> \in Seq(Range(<<>>)) /\ <<>> \in FileOf(Range(<<>>)) /\ Len(<<>>) = 0
      BY EmptySeq DEF FileOf
    <2> QED
      BY <2>1 DEF Accounted, SafeOrLast, Ascending, Open
  <1> HIDE DEF F
  <1>7. ASSUME NEW name \in Names
        PROVE  /\ Accounted(name, files[name], written[name], Cuts)
               /\ \A n \in 1 .. Len(written[name]) : written[name][n].ts <= now
               /\ SafeOrLast(files[name], written[name])
    <2>1. CASE name = "wire"
      BY <1>1, <1>2, <1>3, <1>4, <1>5, <2>1 DEF Init, SafeOrLast
    <2>2. CASE name # "wire"
      BY <1>1, <1>2, <1>6, <2>2 DEF Names
    <2> QED
      BY <2>1, <2>2
  <1>8. ~Open(files["wire"]) /\ \A n \in 1 .. Len(written["wire"]) : written["wire"][n].kind \in {"start", "poll"}
    BY <1>2, <1>3, <1>4, <1>5
  <1> QED
    BY <1>1, <1>2, <1>7, <1>8 DEF Account, Records

LEMMA NextAccount == Account /\ [Next]_vars => Account'
  <1> SUFFICES ASSUME Account, [Next]_vars PROVE Account'
    OBVIOUS
  <1> USE DEF Idle, Ended
  <1>0. /\ now \in Nat /\ box \in BOOLEAN /\ outages \in Seq(Nat \X Nat) /\ (~box => outages # <<>>)
        /\ (\A t \in Cuts : t \in 0 .. now) /\ poller \in {-1, -2} \cup 0 .. now
        /\ (box => ~Open(files["wire"]))
        /\ \A name \in Names : \A n \in 1 .. Len(written[name]) :
              written[name][n].ts <= now /\ written[name][n].ts \in Nat
    BY DEF Account, Clock, Records, Accounted
  <1>1. ASSUME UNCHANGED <<box, outages>>, box, now' \in Nat, now <= now',
               \/ poller' = poller /\ written'["tcp"] = written["tcp"]
               \/ poller' = -1
               \/ poller' = -2
               \/ poller' = now' /\ now' > now /\ written'["tcp"] = written["tcp"]
        PROVE  Clock' /\ Cuts' = Cuts /\ LastBoot' = LastBoot
    <2>1. Cuts' = Cuts /\ LastBoot' = LastBoot
      BY <1>1 DEF Cuts, LastBoot
    <2>2. "tcp" \in Names
      BY DEF Names
    <2>3. CASE poller' = poller /\ written'["tcp"] = written["tcp"]
      BY <1>0, <1>1, <2>1, <2>3 DEF Account, Clock
    <2>4. CASE poller' = -1 \/ poller' = -2
      BY <1>0, <1>1, <2>1, <2>4 DEF Clock
    <2>5. CASE poller' = now' /\ now' > now /\ written'["tcp"] = written["tcp"]
      BY <1>0, <1>1, <2>1, <2>2, <2>5 DEF Clock
    <2> QED
      BY <1>1, <2>1, <2>3, <2>4, <2>5
  <1>2. ASSUME box, UNCHANGED <<box, outages>>, now' = now + 1, NEW name \in Names, NEW r, Write(name, r),
               name = "tcp" => poller \in Nat /\ r.ts = poller /\ poller' = -1,
               name # "tcp" => r.ts = now' /\ poller' = poller,
               name = "wire" => r.kind = "poll"
        PROVE  Account'
    <2>1. written'["tcp"] = IF name = "tcp" THEN Append(written["tcp"], r) ELSE written["tcp"]
      BY <1>2 DEF Write, Account, Records, Names
    <2>2. Clock' /\ Cuts' = Cuts /\ LastBoot' = LastBoot
      BY <1>0, <1>1, <1>2, <2>1
    <2>3. /\ r.ts \in 0 .. now' /\ \A n \in 1 .. Len(written[name]) : written[name][n].ts < r.ts
          /\ \A t \in Cuts : t < r.ts
      BY <1>0, <1>2 DEF Account, Clock
    <2>4. ASSUME NEW other \in Names \ {name} PROVE SafeOrLast(files[other], written[other])'
      <3>1. SafeOrLast(files[other], written[other])
        BY <1>2 DEF Account, Records
      <3>2. files'[other] = files[other] /\ written'[other] = written[other]
        BY <1>2 DEF Write, Account, Records
      <3> QED
        BY <2>2, <3>1, <3>2 DEF SafeOrLast
    <2>5. now' \in Nat /\ now <= now' /\ Cuts' = Cuts
      BY <1>0, <1>2, <2>2
    <2>6. /\ name = "wire" => r.kind = "start" \/ (r.kind = "poll" /\ ~Open(files["wire"]))
          /\ name # "wire" /\ box' => ~Open(files["wire"])
      BY <1>0, <1>2
    <2>7. Write(name, r)
      BY <1>2
    <2>8. Records'
      BY <2>3, <2>4, <2>5, <2>6, <2>7, WrittenRecords
    <2> QED
      BY <2>2, <2>8 DEF Account
  <1>3. CASE Poll
    BY <1>2, <1>3 DEF Poll, Takes, Names
  <1>4. CASE InverterRestarts
    <2>1. now' \in Nat /\ now <= now'
      BY <1>0, <1>4, FilesAssumption DEF InverterRestarts, Takes
    <2>2. Clock'
      BY <1>1, <1>4, <2>1 DEF InverterRestarts
    <2>3. Records'
      BY <1>4, <2>1, WaitingRecords DEF InverterRestarts
    <2> QED
      BY <2>2, <2>3 DEF Account
  <1>5. CASE AskInverter
    <2>1. now' \in Nat /\ now < now' /\ now <= now'
      BY <1>0, <1>5 DEF AskInverter, Takes
    <2>2. Clock'
      BY <1>1, <1>5, <2>1 DEF AskInverter
    <2>3. Records'
      BY <1>5, <2>1, WaitingRecords DEF AskInverter
    <2> QED
      BY <2>2, <2>3 DEF Account
  <1>6. CASE Answered
    BY <1>2, <1>6 DEF Answered, Takes, Names
  <1>7. CASE PollFails
    <2>1. now' \in Nat /\ now <= now'
      BY <1>0, <1>7 DEF PollFails, Takes
    <2>2. Clock'
      BY <1>1, <1>7, <2>1 DEF PollFails
    <2>3. Records'
      BY <1>7, <2>1, WaitingRecords DEF PollFails
    <2> QED
      BY <2>2, <2>3 DEF Account
  <1>8. CASE ManualTag
    BY <1>2, <1>8 DEF ManualTag, WriteTag, Takes, Names
  <1>9. CASE StartTail
    <2>1. now' \in Nat /\ now <= now' /\ UNCHANGED <<box, files, written, outages, poller>> /\ box
      BY <1>0, <1>9 DEF StartTail
    <2>2. Clock'
      BY <1>1, <2>1
    <2>3. Records'
      BY <2>1, WaitingRecords
    <2> QED
      BY <2>2, <2>3 DEF Account
  <1>10. CASE ReadLine
    <2>1. now' = now + 1 /\ now' \in Nat /\ now <= now' /\ UNCHANGED <<box, outages, poller>> /\ box
      BY <1>0, <1>10 DEF ReadLine, Takes
    <2>2. CASE UNCHANGED <<files, written>>
      <3>1. Clock'
        BY <1>1, <2>1, <2>2
      <3>2. Records'
        BY <2>1, <2>2, WaitingRecords
      <3> QED
        BY <3>1, <3>2 DEF Account
    <2>3. CASE \E value : WriteTag(now', <<tail.last, value>>)
      BY <1>2, <2>1, <2>3 DEF WriteTag, Names
    <2> QED
      BY <1>10, <2>2, <2>3 DEF ReadLine
  <1>11. CASE PowerCut
    <2>1. /\ box /\ box' = FALSE /\ now' = now + 1 /\ poller' = -2 /\ written' = written
          /\ outages' = Append(outages, <<now', now'>>)
      BY <1>11 DEF PowerCut, Takes
    <2>2. PICK harm \in Harms : files' = [name \in Names |-> Harmed(files[name], harm[name])]
      BY <1>11 DEF PowerCut
    <2>3. outages' \in Seq(Nat \X Nat) /\ outages' # <<>> /\ Cuts' = Cuts \cup {now'}
      <3>1. <<now', now'>> \in Nat \X Nat /\ <<now', now'>>[1] = now'
        BY <1>0, <2>1
      <3> DEFINE o == <<now', now'>>
      <3> HIDE DEF o
      <3>2. /\ outages' \in Seq(Nat \X Nat) /\ outages' # <<>> /\ Len(outages) \in Nat
            /\ Len(outages') = Len(outages) + 1 /\ outages'[Len(outages) + 1] = o
            /\ \A n \in 1 .. Len(outages) : outages'[n] = outages[n]
        BY <1>0, <2>1, <3>1, AppendProperties, LenProperties DEF o
      <3>3. DOMAIN outages = 1 .. Len(outages) /\ DOMAIN outages' = 1 .. Len(outages) + 1
        BY <1>0, <3>2, LenProperties
      <3>4. o[1] = now'
        BY <3>1 DEF o
      <3> DEFINE m == Len(outages)
      <3> HIDE DEF m
      <3>5. 1 .. m + 1 = 1 .. m \cup {m + 1} /\ m + 1 \notin 1 .. m
        BY <3>2 DEF m
      <3>6. Cuts' = {outages'[n][1] : n \in 1 .. m} \cup {outages'[m + 1][1]}
        BY <3>3, <3>5 DEF Cuts, m
      <3>7. {outages'[n][1] : n \in 1 .. m} = Cuts
        BY <3>2, <3>3 DEF Cuts, m
      <3> QED
        BY <3>2, <3>4, <3>6, <3>7 DEF m
    <2>4. Clock'
      <3>1. now' \in Nat /\ \A t \in Cuts' : t \in 0 .. now'
        <4>1. now' \in Nat /\ now' = now + 1 /\ now \in Nat
          BY <1>0, <2>1
        <4>2. \A t \in Cuts : t \in 0 .. now
          BY <1>0
        <4> QED
          BY <2>3, <4>1, <4>2
      <3>2. box' \in BOOLEAN /\ outages' # <<>>
        BY <2>1, <2>3, Zenon
      <3>3. outages' \in Seq(Nat \X Nat)
        BY <2>3
      <3>4. ~box' => outages' # <<>>
        BY <3>2
      <3>5. poller' \in {-1, -2} \cup 0 .. now' /\ poller' \notin Nat
        BY <2>1
      <3> QED
        BY <3>1, <3>2, <3>3, <3>4, <3>5 DEF Clock
    <2>5. ASSUME NEW name \in Names
          PROVE  /\ Accounted(name, files[name], written[name], Cuts)'
                 /\ \A n \in 1 .. Len(written[name]) : written[name][n].ts <= now'
      <3>1. harm[name] \in Left
        BY FilesAssumption
      <3>2. Accounted(name, files[name], written[name], Cuts) /\ SafeOrLast(files[name], written[name])
        BY <2>1 DEF Account, Records
      <3>3. Cuts \in SUBSET Int /\ now' \in Int /\ \A n \in 1 .. Len(written[name]) : written[name][n].ts < now'
        BY <1>0, <2>1
      <3>4. Accounted(name, Harmed(files[name], harm[name]), written[name], Cuts \cup {now'})
        BY <3>1, <3>2, <3>3, HarmedAccounted
      <3>5. files'[name] = Harmed(files[name], harm[name])
        BY <2>2
      <3> QED
        BY <1>0, <2>1, <2>3, <3>4, <3>5
    <2>6. DOMAIN files' = Names
      BY <2>2
    <2>7. Records'
      BY <2>1, <2>5, <2>6 DEF Account, Records
    <2> QED
      BY <2>4, <2>7 DEF Account
  <1>12. CASE Boot
    <2>1. /\ ~box /\ box' = TRUE /\ poller' = -1 /\ Write("wire", Start(now'))
          /\ outages' = [outages EXCEPT ![Len(outages)][2] = now']
      BY <1>12 DEF Boot
    <2>2. now' \in Nat /\ now < now'
      BY <1>0, <1>12, FilesAssumption, SMTT(30) DEF Boot, Takes
    <2>3. outages' \in Seq(Nat \X Nat) /\ Cuts' = Cuts /\ LastBoot' = now'
      <3> DEFINE m == Len(outages)
                 o == [outages[m] EXCEPT ![2] = now']
      <3>1. m \in Nat /\ m \in 1 .. m /\ outages[m] \in Nat \X Nat
        <4>1. m \in Nat /\ m # 0
          BY <1>0, <2>1, LenProperties, EmptySeq
        <4> QED
          BY <1>0, <4>1, ElementOfSeq
      <3>2. o \in Nat \X Nat /\ o[1] = outages[m][1] /\ o[2] = now'
        BY <2>2, <3>1
      <3>3. outages' = [outages EXCEPT ![m] = o]
        BY <2>1
      <3> HIDE DEF o
      <3>4. /\ outages' \in Seq(Nat \X Nat) /\ Len(outages') = m
            /\ \A n \in 1 .. m : outages'[n] = IF n = m THEN o ELSE outages[n]
        BY <1>0, <3>1, <3>2, <3>3, ExceptSeq
      <3> HIDE DEF m
      <3>5. DOMAIN outages' = 1 .. m /\ DOMAIN outages = 1 .. m
        BY <1>0, <3>4, LenProperties DEF m
      <3>6. Cuts' = Cuts
        BY <3>2, <3>4, <3>5, SMTT(30) DEF Cuts
      <3>7. LastBoot' = now'
        <4>1. outages' # <<>>
          BY <3>1, <3>4, EmptySeq
        <4> QED
          BY <3>1, <3>2, <3>4, <4>1 DEF LastBoot, Last
      <3> QED
        BY <3>4, <3>6, <3>7
    <2>4. Clock'
      BY <1>0, <2>1, <2>2, <2>3 DEF Clock
    <2>5. ASSUME NEW other \in Names \ {"wire"} PROVE SafeOrLast(files[other], written[other])'
      <3>1. files'[other] = files[other] /\ written'[other] = written[other] /\ files[other] \in FileOf(Range(written[other]))
        BY <2>1 DEF Write, Account, Records, Accounted
      <3>2. SUFFICES ASSUME files[other] # <<>> PROVE LastWhole(files[other]).ts < now'
        BY <2>3, <3>1 DEF SafeOrLast
      <3>3. PICK n \in DOMAIN written[other] : LastWhole(files[other]) = written[other][n]
        BY <3>1, <3>2, LastOfFile DEF Range
      <3>4. written[other] \in Seq(Range(written[other]))
        BY DEF Account, Records, Accounted
      <3>5. n \in 1 .. Len(written[other])
        BY <3>3, <3>4, LenProperties
      <3> QED
        BY <1>0, <2>2, <3>3, <3>5
    <2>6. Start(now').ts = now' /\ Start(now').kind = "start" /\ "wire" \in Names
      BY DEF Start, Names
    <2>7. ASSUME NEW r, r.ts = now', r.kind = "start", Write("wire", r) PROVE Records'
      <3>1. \A n \in 1 .. Len(written["wire"]) : written["wire"][n].ts < r.ts
        BY <1>0, <2>2, <2>6, <2>7
      <3>2. \A t \in Cuts : t < r.ts
        BY <1>0, <2>2, <2>7
      <3>3. now <= now' /\ r.ts \in 0 .. now'
        BY <1>0, <2>2, <2>7
      <3>4. \A other \in Names \ {"wire"} : box' => SafeOrLast(files[other], written[other])'
        BY <2>5
      <3>5. Cuts' = Cuts /\ now' \in Nat
        BY <2>2, <2>3
      <3>6. "wire" = "wire" => r.kind = "start" \/ (r.kind = "poll" /\ ~Open(files["wire"]))
        BY <2>7
      <3> QED
        BY <2>6, <2>7, <3>1, <3>2, <3>3, <3>4, <3>5, <3>6, WrittenRecords, Zenon
    <2>8. Records'
      BY <2>1, <2>6, <2>7
    <2> QED
      BY <2>4, <2>8 DEF Account
  <1>13. CASE UNCHANGED vars
    <2>1. UNCHANGED <<box, files, written, outages>> /\ now' \in Nat /\ now <= now'
      BY <1>0, <1>13 DEF vars
    <2>2. Clock'
      BY <1>13 DEF vars, Account, Clock, Cuts
    <2> QED
      BY <2>1, <2>2, WaitingRecords DEF Account
  <1> QED
    BY <1>3, <1>4, <1>5, <1>6, <1>7, <1>8, <1>9, <1>10, <1>11, <1>12, <1>13 DEF Next, Finished

THEOREM AccountHolds == Spec => []Account
  <1> QED
    BY InitAccount, NextAccount, PTL DEF Spec

\* What is left of a file makes up for it: a record with a line of its own is read.
LEMMA AloneIsRead ==
    ASSUME Account, NEW name \in Names, NEW r, Alone(files[name], r)
    PROVE  r \in LoadRecords(name) /\ (name = "wire" /\ r.kind = "poll" => r \in LoadWireRecords)
  <1> DEFINE line == << [rec |-> r, left |-> "all"] >>
  <1>1. PICK k \in DOMAIN files[name] : files[name][k] = line
    BY DEF Alone
  <1>2. Len(line) = 1 /\ line[1] = [rec |-> r, left |-> "all"] /\ DOMAIN line = {1}
    OBVIOUS
  <1> HIDE DEF line
  <1>3. IsRecord(line) /\ RecordOf(line) = r
    BY <1>2 DEF IsRecord, RecordOf
  <1>4. Printed(line) = {1}
    BY <1>2 DEF Printed
  <1>5. r \in WireRecords(line)
    BY <1>2, <1>4 DEF WireRecords
  <1>6. r \in LoadRecords(name)
    BY <1>1, <1>3 DEF LoadRecords
  <1>7. ASSUME name = "wire", r.kind = "poll" PROVE r \in LoadWireRecords
    <2>1. r \in UNION {WireRecords(files["wire"][n]) : n \in DOMAIN files["wire"]}
      BY <1>1, <1>5, <1>7
    <2> QED
      BY <1>7, <2>1 DEF LoadWireRecords, WireLines
  <1> QED
    BY <1>6, <1>7

\* Nothing is read that was not written.
LEMMA ReadIsWritten ==
    ASSUME Account, NEW name \in Names
    PROVE  LoadRecords(name) \subseteq Range(written[name])
  <1> DEFINE R == Range(written[name])
             Fr == [rec : R, left : Left]
             Ln == Seq(Fr) \ {<<>>}
             file == files[name]
  <1>1. file \in Seq(Ln) /\ Ln \subseteq Seq(Fr)
    BY DEF Account, Records, Accounted, FileOf
  <1> SUFFICES ASSUME NEW k \in DOMAIN file, IsRecord(file[k]) PROVE RecordOf(file[k]) \in R
    BY DEF LoadRecords
  <1> HIDE DEF Ln, file
  <1>2. file[k] \in Seq(Fr) /\ Len(file[k]) = 1
    BY <1>1, LenProperties, ElementOfSeq DEF IsRecord
  <1> HIDE DEF Fr
  <1>3. file[k][1] \in Fr
    BY <1>2, ElementOfSeq
  <1> QED
    BY <1>3 DEF Fr, RecordOf

LEMMA AccountIsRows == Account => PollsAreRows
  <1> SUFFICES ASSUME Account, NEW n \in DOMAIN written["wire"], written["wire"][n].kind # "start"
               PROVE  written["wire"][n] \in LoadWireRecords \/ LastBeforeCut("wire", n)
    BY DEF PollsAreRows
  <1> DEFINE w == written["wire"]
  <1>1. "wire" \in Names
    BY DEF Names
  <1>2. Accounted("wire", files["wire"], w, Cuts) /\ n \in 1 .. Len(w)
    BY <1>1, LenProperties DEF Account, Records, Accounted
  <1>3. CASE Alone(files["wire"], w[n])
    <2>1. w[n].kind = "poll"
      BY <1>2 DEF Account, Records
    <2> QED
      BY <1>1, <1>3, <2>1, AloneIsRead
  <1>4. CASE LastBefore(w, Cuts, n)
    BY <1>4 DEF LastBefore, LastBeforeCut
  <1> QED
    BY <1>2, <1>3, <1>4 DEF Accounted

\* Of the polls only the last before a power cut can be missing from the rows, for
\* any number of cuts, whatever they leave of the file.
THEOREM PollsAreRowsHolds == Spec => []PollsAreRows
  <1> QED
    BY AccountIsRows, AccountHolds, PTL

\* Each row is joined with at most one record of each stream, one that was written
\* by its time, and a newer one that it is not joined with is the last before a
\* power cut or the first after one.
THEOREM JoinIsNewestHolds == Spec => []JoinIsNewest
  <1>1. Account => JoinIsNewest
    <2> SUFFICES ASSUME Account, NEW k \in DOMAIN JoinStreams, NEW name \in {"tcp", "tags"}
                 PROVE  LET row == JoinStreams[k]
                            got == IF name = "tcp" THEN row.tcp ELSE row.tag
                        IN  /\ Cardinality(got) <= 1
                            /\ got \subseteq {r \in Range(written[name]) : r.ts <= row.ts}
                            /\ \A n \in DOMAIN written[name] :
                                  written[name][n].ts <= row.ts /\ (\A r \in got : r.ts < written[name][n].ts)
                                  => LastBeforeCut(name, n) \/ FirstAfterCut(name, n)
      BY DEF JoinIsNewest
    <2> DEFINE w == written[name]
               L == LoadRecords(name)
               time == JoinStreams[k].ts
               got == IF name = "tcp" THEN JoinStreams[k].tcp ELSE JoinStreams[k].tag
    <2>1. got = AsOf(L, time)
      BY DEF JoinStreams, LoadTcpRecords, LoadTagRecords
    <2> HIDE DEF time, got, L
    <2>2. /\ name \in Names /\ Accounted(name, files[name], w, Cuts) /\ DOMAIN w = 1 .. Len(w)
          /\ \A n \in 1 .. Len(w) : w[n].ts \in 0 .. now
          /\ now \in Nat
      <3>1. name \in Names /\ now \in Nat
        BY DEF Account, Clock, Names
      <3>2. Accounted(name, files[name], w, Cuts) /\ \A n \in 1 .. Len(w) : w[n].ts <= now
        BY <3>1 DEF Account, Records
      <3>3. w \in Seq(Range(w)) /\ \A n \in 1 .. Len(w) : w[n].ts \in Nat
        BY <3>2 DEF Accounted
      <3>4. DOMAIN w = 1 .. Len(w)
        BY <3>3, LenProperties
      <3> QED
        BY <3>1, <3>2, <3>3, <3>4
    <2>3. L \subseteq {w[n] : n \in 1 .. Len(w)}
      BY <2>2, ReadIsWritten DEF L, Range
    <2>4. \A r \in L : r.ts \in 0 .. now
      BY <2>2, <2>3
    <2>5. Cardinality(got) <= 1
      <3>1. ASSUME NEW r \in got, NEW s \in got PROVE r = s
        <4>1. r \in L /\ s \in L /\ r.ts <= s.ts /\ s.ts <= r.ts
          BY <2>1, <3>1 DEF AsOf
        <4>2. r.ts = s.ts
          BY <2>2, <2>4, <4>1
        <4>3. PICK i \in 1 .. Len(w), j \in 1 .. Len(w) : r = w[i] /\ s = w[j]
          BY <2>3, <4>1
        <4>4. ~ (i < j) /\ ~ (j < i)
          BY <2>2, <4>2, <4>3 DEF Accounted, Ascending
        <4> QED
          BY <4>3, <4>4
      <3>2. CASE got = {}
        BY <3>2, FS_EmptySet
      <3>3. CASE got # {}
        <4>1. PICK r \in got : got = {r}
          BY <3>1, <3>3
        <4> QED
          <5>1. Cardinality({r}) = 1
            BY FS_Singleton
          <5> QED
            BY <4>1, <5>1
      <3> QED
        BY <3>2, <3>3
    <2>6. got \subseteq {r \in Range(w) : r.ts <= time}
      BY <2>1, <2>2, <2>3 DEF AsOf, Range
    <2>7. ASSUME NEW n \in DOMAIN w, w[n].ts <= time, \A r \in got : r.ts < w[n].ts
          PROVE  LastBeforeCut(name, n) \/ FirstAfterCut(name, n)
      <3>1. ~Alone(files[name], w[n])
        <4> SUFFICES ASSUME Alone(files[name], w[n]) PROVE FALSE
          OBVIOUS
        <4> DEFINE before == {r \in L : r.ts <= time}
        <4>1. w[n] \in before
          BY <2>2, <2>7, AloneIsRead DEF L
        <4>2. \A r \in before : r.ts \in 0 .. now
          BY <2>4
        <4>3. PICK r \in before : \A s \in before : s.ts <= r.ts
          <5> HIDE DEF before
          <5> QED
            BY <2>2, <4>1, <4>2, Latest
        <4>4. r \in got
          BY <2>1, <4>3 DEF AsOf
        <4> QED
          BY <2>2, <2>7, <4>1, <4>2, <4>3, <4>4
      <3>2. LastBefore(w, Cuts, n) \/ FirstAfter(w, Cuts, n)
        BY <2>2, <2>7, <3>1 DEF Accounted
      <3> QED
        BY <3>2 DEF LastBefore, FirstAfter, LastBeforeCut, FirstAfterCut
    <2> QED
      BY <2>5, <2>6, <2>7 DEF time, got
  <1> QED
    BY <1>1, AccountHolds, PTL

-----------------------------------------------------------------------------
(* The gaps in the polls. *)

Wire == written["wire"]

\* Each power cut but one that still lasts ended with a start.
OutageEnds ==
    \A m \in 1 .. Len(outages) :
        /\ outages[m][1] <= outages[m][2] /\ outages[m][2] <= now
        /\ m < Len(outages) \/ box => \E n \in 1 .. Len(Wire) : Wire[n].kind = "start" /\ Wire[n].ts = outages[m][2]

\* No start but the first came without a power cut.
StartEndsOutage ==
    \A n \in 1 .. Len(Wire) :
        Wire[n].kind = "start" => Wire[n].ts = 0 \/ \E m \in 1 .. Len(outages) : outages[m][2] = Wire[n].ts

\* The loggers write nothing without power.
SilentInOutage ==
    /\ \A n \in 1 .. Len(Wire), m \in 1 .. Len(outages) :
          Wire[n].kind = "poll" => Wire[n].ts < outages[m][1] \/ outages[m][2] < Wire[n].ts
    /\ ~box => \A n \in 1 .. Len(Wire) : Wire[n].ts < outages[Len(outages)][1]

WholeInWire == \A n \in 1 .. Len(Wire) : Whole(files["wire"], Wire[n]) \/ LastBefore(Wire, Cuts, n)

Marked == OutageEnds /\ StartEndsOutage /\ SilentInOutage /\ WholeInWire

LEMMA InitMarked == Init => Marked
  <1> SUFFICES ASSUME Init PROVE Marked
    OBVIOUS
  <1> DEFINE s == Start(0)
  <1>1. outages = <<>> /\ Len(outages) = 0 /\ box = TRUE
    BY DEF Init
  <1>2. Wire = <<s>> /\ files["wire"] = [n \in 1 .. 1 |-> << [rec |-> s, left |-> "all"] >>] /\ s.ts = 0
    BY DEF Init, Wire, Names, Start
  <1> HIDE DEF s
  <1>3. Len(Wire) = 1 /\ Wire[1] = s
    BY <1>2
  <1>4. Whole(files["wire"], s)
    BY <1>2 DEF Whole
  <1> QED
    BY <1>1, <1>2, <1>3, <1>4 DEF Marked, OutageEnds, StartEndsOutage, SilentInOutage, WholeInWire

LEMMA NextMarked == Account /\ Marked /\ [Next]_vars => Marked'
  <1> SUFFICES ASSUME Account, Marked, [Next]_vars PROVE Marked'
    OBVIOUS
  <1>0. /\ now \in Nat /\ box \in BOOLEAN /\ outages \in Seq(Nat \X Nat) /\ (~box => outages # <<>>)
        /\ "wire" \in Names /\ DOMAIN files = Names /\ DOMAIN written = Names
        /\ \A n \in 1 .. Len(Wire) : Wire[n].ts <= now /\ Wire[n].ts \in Nat
        /\ Accounted("wire", files["wire"], Wire, Cuts)
        /\ box => SafeOrLast(files["wire"], Wire)
    BY DEF Account, Clock, Records, Accounted, Wire, Names
  <1>a. Wire \in Seq(Range(Wire)) /\ files["wire"] \in FileOf(Range(Wire)) /\ Ascending(Wire) /\ Len(Wire) \in Nat
    BY <1>0, LenProperties DEF Accounted
  <1>b. Len(outages) \in Nat /\ \A m \in 1 .. Len(outages) : outages[m][1] \in Nat /\ outages[m][2] \in Nat
    BY <1>0, LenProperties, ElementOfSeq
  <1>1. ASSUME UNCHANGED <<box, outages, Wire, files["wire"]>>, now' \in Nat, now <= now'
        PROVE  Marked'
    <2>1. OutageEnds'
      BY <1>0, <1>1, <1>b DEF Marked, OutageEnds
    <2>2. StartEndsOutage' /\ SilentInOutage'
      BY <1>1 DEF Marked, StartEndsOutage, SilentInOutage
    <2>3. Cuts' = Cuts
      BY <1>1 DEF Cuts
    <2>4. WholeInWire'
      BY <1>1, <2>3 DEF Marked, WholeInWire
    <2> QED
      BY <2>1, <2>2, <2>4 DEF Marked
  \* A record written on the wire log.
  <1>2. ASSUME NEW r, Write("wire", r), r.ts \in Nat, now < r.ts
        PROVE  /\ Len(Wire') = Len(Wire) + 1 /\ Len(Wire) \in Nat
               /\ \A n \in 1 .. Len(Wire) + 1 : Wire'[n] = IF n = Len(Wire) + 1 THEN r ELSE Wire[n]
               /\ (\A t \in Cuts : t <= now) /\ Cuts' = Cuts => WholeInWire'
    <2>1. Wire' = Append(Wire, r) /\ files'["wire"] = Appended(files["wire"], r)
      BY <1>0, <1>2 DEF Write, Wire
    <2>2. /\ Len(Wire') = Len(Wire) + 1
          /\ \A n \in 1 .. Len(Wire) + 1 : Wire'[n] = IF n = Len(Wire) + 1 THEN r ELSE Wire[n]
      BY <1>a, <2>1, Appending
    <2>3. ASSUME NEW n \in 1 .. Len(Wire) + 1, \A t \in Cuts : t <= now, Cuts' = Cuts
          PROVE  Whole(files["wire"], Wire[n])' \/ LastBefore(Wire, Cuts, n)'
      <3>1. CASE n = Len(Wire) + 1
        BY <1>a, <2>1, <2>2, <3>1, AppendedFile, ZenonT(30)
      <3>2. CASE n # Len(Wire) + 1 /\ Whole(files["wire"], Wire[n])
        <4>1. Wire'[n] = Wire[n]
          BY <1>a, <2>2, <3>2
        <4>2. Whole(Appended(files["wire"], r), Wire[n])
          BY <1>a, <3>2, AppendedFile
        <4> QED
          BY <2>1, <4>1, <4>2
      <3>3. CASE n # Len(Wire) + 1 /\ LastBefore(Wire, Cuts, n)
        <4>1. PICK t \in Cuts : Wire[n].ts < t /\ (n < Len(Wire) => Wire[n + 1].ts > t)
          BY <3>3 DEF LastBefore
        <4>2. t <= now /\ t \in Int
          BY <2>3 DEF Account, Clock
        <4>3. Wire'[n] = Wire[n] /\ n + 1 \in 1 .. Len(Wire) + 1
          BY <1>a, <2>2, <3>3
        <4>4. Wire'[n + 1].ts > t
          <5>1. CASE n = Len(Wire)
            <6>1. n + 1 = Len(Wire) + 1 /\ n + 1 \in 1 .. Len(Wire) + 1
              BY <4>3, <5>1
            <6>2. Wire'[n + 1] = r
              BY <2>2, <6>1
            <6>3. r.ts > t
              BY <1>0, <1>2, <4>2
            <6> QED
              BY <6>2, <6>3
          <5>2. CASE n # Len(Wire)
            <6>1. n < Len(Wire) /\ n + 1 # Len(Wire) + 1
              BY <1>a, <3>3, <5>2
            <6> QED
              BY <2>2, <4>1, <4>3, <6>1
          <5> QED
            BY <5>1, <5>2
        <4> QED
          BY <2>3, <4>1, <4>3, <4>4 DEF LastBefore
      <3>4. n # Len(Wire) + 1 => n \in 1 .. Len(Wire)
        BY <1>a
      <3> QED
        BY <3>1, <3>2, <3>3, <3>4 DEF Marked, WholeInWire
    <2> QED
      BY <1>a, <2>2, <2>3 DEF WholeInWire
  <1>c. \A t \in Cuts : t <= now
    BY DEF Account, Clock
  <1>3. CASE Poll
    <2> DEFINE r == [kind |-> "poll", ts |-> now', val |-> IF ramped THEN 1 ELSE 0]
    <2>1. Write("wire", r) /\ r.ts = now' /\ r.kind = "poll" /\ now' = now + 1 /\ box /\ UNCHANGED <<box, outages>>
      BY <1>3 DEF Poll, Takes
    <2> HIDE DEF r
    <2>2. Cuts' = Cuts
      BY <2>1 DEF Cuts
    <2>3. /\ Len(Wire') = Len(Wire) + 1 /\ Len(Wire) \in Nat
          /\ \A n \in 1 .. Len(Wire) + 1 : Wire'[n] = IF n = Len(Wire) + 1 THEN r ELSE Wire[n]
          /\ WholeInWire'
      BY <1>0, <1>2, <1>c, <2>1, <2>2
    <2>4. \A n \in 1 .. Len(Wire) : n \in 1 .. Len(Wire') /\ Wire'[n] = Wire[n]
      BY <2>3
    <2>a. \A m \in 1 .. Len(outages) :
             /\ outages[m][1] <= outages[m][2] /\ outages[m][2] <= now
             /\ \E n \in 1 .. Len(Wire) : Wire[n].kind = "start" /\ Wire[n].ts = outages[m][2]
      BY <2>1 DEF Marked, OutageEnds
    <2>b. OutageEnds'
      <3>1. ASSUME NEW m \in 1 .. Len(outages)
            PROVE  /\ outages[m][1] <= outages[m][2] /\ outages[m][2] <= now'
                   /\ \E n \in 1 .. Len(Wire') : Wire'[n].kind = "start" /\ Wire'[n].ts = outages[m][2]
        <4>1. outages[m][1] <= outages[m][2] /\ outages[m][2] <= now'
          BY <1>0, <1>b, <2>1, <2>a
        <4>2. PICK n \in 1 .. Len(Wire) : Wire[n].kind = "start" /\ Wire[n].ts = outages[m][2]
          BY <2>a
        <4> QED
          BY <2>4, <4>1, <4>2
      <3> QED
        BY <2>1, <3>1 DEF OutageEnds
    <2>5. StartEndsOutage'
      BY <2>1, <2>3 DEF Marked, StartEndsOutage
    <2>6. SilentInOutage'
      <3>1. ASSUME NEW n \in 1 .. Len(Wire'), NEW m \in 1 .. Len(outages), Wire'[n].kind = "poll"
            PROVE  Wire'[n].ts < outages[m][1] \/ outages[m][2] < Wire'[n].ts
        <4>1. CASE n = Len(Wire) + 1
          <5>1. Wire'[n] = r /\ r.ts = now + 1
            BY <2>1, <2>3, <4>1
          <5>2. outages[m][2] <= now /\ outages[m][2] \in Nat /\ now \in Nat
            BY <1>0, <1>b, <2>a
          <5> QED
            BY <5>1, <5>2
        <4>2. CASE n \in 1 .. Len(Wire)
          BY <2>4, <3>1, <4>2 DEF Marked, SilentInOutage
        <4> QED
          BY <2>3, <4>1, <4>2
      <3> QED
        BY <2>1, <3>1 DEF SilentInOutage
    <2> QED
      BY <2>3, <2>5, <2>6, <2>b DEF Marked
  <1>4. CASE PowerCut
    <2>1. /\ box /\ box' = FALSE /\ now' = now + 1 /\ UNCHANGED written
          /\ outages' = Append(outages, <<now', now'>>)
      BY <1>4 DEF PowerCut, Takes
    <2>2. PICK harm \in Harms : files' = [name \in Names |-> Harmed(files[name], harm[name])]
      BY <1>4 DEF PowerCut
    <2> DEFINE L == Len(outages)
    <2>3. /\ Len(outages') = L + 1 /\ L \in Nat
          /\ outages'[L + 1][1] = now' /\ outages'[L + 1][2] = now'
          /\ \A m \in 1 .. L : outages'[m] = outages[m]
      <3> DEFINE o == <<now', now'>>
      <3>1. o \in Nat \X Nat /\ o[1] = now' /\ o[2] = now'
        BY <1>0, <2>1
      <3> HIDE DEF o
      <3>2. Len(outages') = L + 1 /\ outages'[L + 1] = o /\ \A m \in 1 .. L : outages'[m] = outages[m]
        BY <1>0, <2>1, <3>1, AppendProperties DEF o
      <3> QED
        BY <1>b, <3>1, <3>2
    <2>4. Wire' = Wire
      BY <2>1 DEF Wire
    <2>5. now' \in Cuts' /\ Cuts \subseteq Cuts'
      <3>1. outages' \in Seq(Nat \X Nat)
        <4> DEFINE o == <<now', now'>>
        <4>1. o \in Nat \X Nat
          BY <1>0, <2>1
        <4> HIDE DEF o
        <4> QED
          BY <1>0, <2>1, <4>1, AppendProperties DEF o
      <3>2. DOMAIN outages = 1 .. L /\ DOMAIN outages' = 1 .. L + 1
        BY <1>0, <2>3, <3>1, LenProperties
      <3>3. \A n \in 1 .. L : n \in 1 .. L + 1
        BY <2>3
      <3>4. L + 1 \in 1 .. L + 1
        BY <2>3
      <3> HIDE DEF L
      <3> QED
        BY <2>3, <3>2, <3>3, <3>4 DEF Cuts
    <2> HIDE DEF L
    <2>6. \A m \in 1 .. L + 1 : m \in 1 .. L \/ m = L + 1
      BY <2>3
    <2>7. OutageEnds'
      <3>1. \A m \in 1 .. L : /\ outages[m][1] <= outages[m][2] /\ outages[m][2] <= now
                             /\ \E n \in 1 .. Len(Wire) : Wire[n].kind = "start" /\ Wire[n].ts = outages[m][2]
        BY <2>1 DEF Marked, OutageEnds, L
      <3> QED
        BY <1>0, <1>b, <2>1, <2>3, <2>4, <2>6, <3>1, SMTT(30) DEF OutageEnds, L
    <2>8. StartEndsOutage'
      BY <2>3, <2>4 DEF Marked, StartEndsOutage, L
    <2>9. SilentInOutage'
      <3>1. \A n \in 1 .. Len(Wire), m \in 1 .. L :
               Wire[n].kind = "poll" => Wire[n].ts < outages[m][1] \/ outages[m][2] < Wire[n].ts
        BY DEF Marked, SilentInOutage, L
      <3>2. \A n \in 1 .. Len(Wire) : Wire[n].ts < now'
        BY <1>0, <2>1
      <3> QED
        BY <2>3, <2>4, <2>6, <3>1, <3>2 DEF SilentInOutage
    <2>10. WholeInWire'
      <3>1. harm["wire"] \in Left /\ files'["wire"] = Harmed(files["wire"], harm["wire"])
        BY <1>0, <2>2, FilesAssumption
      <3>2. ASSUME NEW n \in 1 .. Len(Wire)
            PROVE  Whole(files'["wire"], Wire[n]) \/ LastBefore(Wire, Cuts', n)
        <4>1. CASE LastBefore(Wire, Cuts, n)
          BY <2>5, <4>1 DEF LastBefore
        <4>2. CASE Whole(files["wire"], Wire[n])
          <5>1. SUFFICES ASSUME ~Whole(files'["wire"], Wire[n]) PROVE LastBefore(Wire, Cuts', n)
            OBVIOUS
          <5>2. Harmable(files["wire"], Wire[n])
            BY <1>a, <3>1, <4>2, <5>1, HarmedFile
          <5>3. Wire[n] = Wire[Len(Wire)]
            BY <1>0, <2>1, <5>2 DEF Harmable, SafeOrLast
          <5>4. n = Len(Wire)
            <6>1. Len(Wire) \in 1 .. Len(Wire) /\ (n < Len(Wire) \/ n = Len(Wire))
              BY <1>a
            <6>2. ~ (Wire[n].ts < Wire[Len(Wire)].ts)
              BY <1>0, <5>3
            <6> QED
              BY <1>a, <6>1, <6>2 DEF Ascending
          <5>5. Wire[n].ts < now'
            BY <1>0, <2>1
          <5> QED
            BY <1>a, <2>5, <5>4, <5>5 DEF LastBefore
        <4> QED
          BY <4>1, <4>2 DEF Marked, WholeInWire
      <3> QED
        BY <2>4, <3>2 DEF WholeInWire
    <2> QED
      BY <2>7, <2>8, <2>9, <2>10 DEF Marked
  <1>5. CASE Boot
    <2> DEFINE L == Len(outages)
    <2>1. /\ ~box /\ box' = TRUE /\ Write("wire", Start(now'))
          /\ outages' = [outages EXCEPT ![L][2] = now']
      BY <1>5 DEF Boot
    <2>2. now' \in Nat /\ now < now'
      BY <1>0, <1>5, FilesAssumption DEF Boot, Takes
    <2>3. /\ L \in Nat /\ L \in 1 .. L /\ Len(outages') = L
          /\ outages'[L][1] = outages[L][1] /\ outages'[L][2] = now'
          /\ \A m \in 1 .. L : m # L => outages'[m] = outages[m]
          /\ Cuts' = Cuts
      <3> DEFINE o == [outages[L] EXCEPT ![2] = now']
      <3>1. L \in Nat /\ L \in 1 .. L /\ outages[L] \in Nat \X Nat
        <4>1. L \in Nat /\ L # 0
          BY <1>0, <2>1, LenProperties, EmptySeq
        <4> QED
          BY <1>0, <4>1, ElementOfSeq
      <3>2. o \in Nat \X Nat /\ o[1] = outages[L][1] /\ o[2] = now'
        BY <2>2, <3>1
      <3>3. outages' = [outages EXCEPT ![L] = o]
        BY <2>1
      <3> HIDE DEF o
      <3>4. /\ outages' \in Seq(Nat \X Nat) /\ Len(outages') = L
            /\ \A n \in 1 .. L : outages'[n] = IF n = L THEN o ELSE outages[n]
        BY <1>0, <3>1, <3>2, <3>3, ExceptSeq
      <3>5. DOMAIN outages' = 1 .. L /\ DOMAIN outages = 1 .. L
        BY <1>0, <3>4, LenProperties
      <3> HIDE DEF L
      <3>6. \A n \in 1 .. L : outages'[n][1] = outages[n][1]
        BY <3>2, <3>4
      <3>7. Cuts' = Cuts
        BY <3>5, <3>6 DEF Cuts
      <3> QED
        BY <3>1, <3>2, <3>4, <3>7
    <2> HIDE DEF L
    <2>4. ASSUME NEW r, r.ts = now', r.kind = "start", Write("wire", r) PROVE Marked'
      <3>1. /\ Len(Wire') = Len(Wire) + 1 /\ Len(Wire) \in Nat
            /\ \A n \in 1 .. Len(Wire) + 1 : Wire'[n] = IF n = Len(Wire) + 1 THEN r ELSE Wire[n]
            /\ WholeInWire'
        BY <1>2, <1>c, <2>2, <2>3, <2>4
      <3>2. OutageEnds'
        <4>1. ASSUME NEW m \in 1 .. L
              PROVE  /\ outages'[m][1] <= outages'[m][2] /\ outages'[m][2] <= now'
                     /\ \E n \in 1 .. Len(Wire') : Wire'[n].kind = "start" /\ Wire'[n].ts = outages'[m][2]
          <5>1. CASE m = L
            <6>1. outages[L][1] <= outages[L][2] /\ outages[L][2] <= now
              BY <2>3 DEF Marked, OutageEnds, L
            <6>2. outages'[L][1] <= now'
              BY <1>0, <1>b, <2>2, <2>3, <6>1 DEF L
            <6>3. Len(Wire) + 1 \in 1 .. Len(Wire') /\ Wire'[Len(Wire) + 1] = r
              BY <3>1
            <6> QED
              BY <2>2, <2>3, <2>4, <5>1, <6>2, <6>3
          <5>2. CASE m # L
            <6>1. m < L
              BY <2>3, <5>2
            <6>2. /\ outages[m][1] <= outages[m][2] /\ outages[m][2] <= now
                  /\ \E n \in 1 .. Len(Wire) : Wire[n].kind = "start" /\ Wire[n].ts = outages[m][2]
              BY <6>1 DEF Marked, OutageEnds, L
            <6>3. PICK n \in 1 .. Len(Wire) : Wire[n].kind = "start" /\ Wire[n].ts = outages[m][2]
              BY <6>2
            <6>4. n \in 1 .. Len(Wire') /\ Wire'[n] = Wire[n]
              BY <3>1
            <6>5. outages'[m] = outages[m] /\ outages[m][2] <= now'
              BY <1>0, <1>b, <2>2, <2>3, <5>2, <6>2, SMTT(30) DEF L
            <6> QED
              BY <6>2, <6>3, <6>4, <6>5
          <5> QED
            BY <5>1, <5>2
        <4> QED
          BY <2>3, <4>1 DEF OutageEnds
      <3>3. StartEndsOutage'
        <4>1. ASSUME NEW n \in 1 .. Len(Wire), Wire[n].kind = "start", Wire[n].ts # 0
              PROVE  \E m \in 1 .. L : outages'[m][2] = Wire[n].ts
          <5>1. PICK m \in 1 .. L : outages[m][2] = Wire[n].ts
            BY <4>1 DEF Marked, StartEndsOutage, L
          <5>2. m # L
            <6>1. Wire[n].ts < outages[L][1] /\ outages[L][1] <= outages[L][2]
              BY <2>1, <2>3 DEF Marked, SilentInOutage, OutageEnds, L
            <6> QED
              BY <1>0, <1>b, <2>3, <5>1, <6>1 DEF L
          <5> QED
            BY <2>3, <5>1, <5>2
        <4> QED
          BY <2>3, <2>4, <3>1, <4>1, SMTT(30) DEF StartEndsOutage
      <3>4. SilentInOutage'
        <4>1. ASSUME NEW n \in 1 .. Len(Wire), NEW m \in 1 .. L, Wire[n].kind = "poll"
              PROVE  Wire[n].ts < outages'[m][1] \/ outages'[m][2] < Wire[n].ts
          BY <2>1, <2>3, <4>1 DEF Marked, SilentInOutage, L
        <4> QED
          BY <2>1, <2>3, <2>4, <3>1, <4>1 DEF SilentInOutage
      <3> QED
        BY <3>1, <3>2, <3>3, <3>4 DEF Marked
    <2>5. Start(now').ts = now' /\ Start(now').kind = "start"
      BY DEF Start
    <2> QED
      BY <2>1, <2>4, <2>5
  <1>6. ASSUME NEW name \in Names \ {"wire"}, NEW r, Write(name, r), now' = now + 1, UNCHANGED <<box, outages>>
        PROVE  Marked'
    <2>1. Wire' = Wire /\ files'["wire"] = files["wire"]
      BY <1>0, <1>6 DEF Write, Wire
    <2> QED
      BY <1>0, <1>1, <1>6, <2>1
  <1>7. CASE InverterRestarts
    <2>1. UNCHANGED <<box, outages, files, written>> /\ now' \in Nat /\ now <= now'
      BY <1>0, <1>7, FilesAssumption DEF InverterRestarts, Takes
    <2> QED
      BY <1>1, <2>1 DEF Wire
  <1>8. CASE AskInverter \/ PollFails \/ StartTail \/ UNCHANGED vars
    <2>1. UNCHANGED <<box, outages, files, written>> /\ now' \in Nat /\ now <= now'
      BY <1>0, <1>8 DEF AskInverter, PollFails, StartTail, Takes, vars
    <2> QED
      BY <1>1, <2>1 DEF Wire
  <1>9. CASE Answered
    BY <1>6, <1>9 DEF Answered, Takes, Names
  <1>10. CASE ManualTag
    BY <1>6, <1>10 DEF ManualTag, WriteTag, Takes, Names
  <1>11. CASE ReadLine
    <2>1. now' = now + 1 /\ UNCHANGED <<box, outages>>
      BY <1>11 DEF ReadLine, Takes
    <2>2. CASE UNCHANGED <<files, written>>
      <3>1. now' \in Nat /\ now <= now'
        BY <1>0, <2>1
      <3> QED
        BY <1>1, <2>1, <2>2, <3>1 DEF Wire
    <2>3. CASE \E value : WriteTag(now', <<tail.last, value>>)
      BY <1>6, <2>1, <2>3 DEF WriteTag, Names
    <2> QED
      BY <1>11, <2>2, <2>3 DEF ReadLine
  <1> QED
    BY <1>3, <1>4, <1>5, <1>7, <1>8, <1>9, <1>10, <1>11 DEF Next, Finished

THEOREM MarkedHolds == Spec => []Marked
  <1> QED
    BY InitMarked, NextMarked, InitAccount, NextAccount, PTL DEF Spec

\* Of some numbers from m to n one is the least.
LEMMA Least ==
    ASSUME NEW m \in Nat, NEW n \in Nat, NEW S \in SUBSET (m .. n), S # {}
    PROVE  Min(S) \in S /\ \A i \in S : Min(S) <= i
  <1> DEFINE R == {[ts |-> n - i] : i \in S}
  <1>1. R # {} /\ \A r \in R : r.ts \in 0 .. n
    <2>1. \A i \in S : i \in Nat /\ n - i \in 0 .. n
      OBVIOUS
    <2>2. R # {}
      OBVIOUS
    <2>3. ASSUME NEW r \in R PROVE r.ts \in 0 .. n
      <3>1. PICK i \in S : r = [ts |-> n - i]
        OBVIOUS
      <3> QED
        BY <2>1, <3>1
    <2> QED
      BY <2>2, <2>3
  <1>2. PICK r \in R : \A s \in R : s.ts <= r.ts
    <2> HIDE DEF R
    <2> QED
      BY <1>1, Latest
  <1>3. PICK k \in S : r = [ts |-> n - k]
    OBVIOUS
  <1>4. ASSUME NEW i \in S PROVE k <= i
    <2>1. [ts |-> n - i] \in R /\ [ts |-> n - i].ts = n - i /\ r.ts = n - k
      BY <1>3
    <2>2. n - i <= n - k
      BY <1>2, <2>1
    <2> QED
      BY <2>2
  <1>5. \E x \in S : \A y \in S : x <= y
    BY <1>4
  <1> QED
    BY <1>5 DEF Min

\* Records of different times are in the order of their times, each in its place.
LEMMA Sorting ==
    ASSUME NEW rows, IsFiniteSet(rows), \A r \in rows : r.ts \in Nat,
           \A r, s \in rows : r.ts = s.ts => r = s
    PROVE  /\ Cardinality(rows) \in Nat
           /\ DOMAIN SortedByTime(rows) = 1 .. Cardinality(rows)
           /\ \A n \in 1 .. Cardinality(rows) : SortedByTime(rows)[n] \in rows
           /\ \A r \in rows : \E n \in 1 .. Cardinality(rows) : SortedByTime(rows)[n] = r
           /\ \A m, n \in 1 .. Cardinality(rows) :
                 SortedByTime(rows)[m].ts <= SortedByTime(rows)[n].ts <=> m <= n
  <1> DEFINE C == Cardinality(rows)
             Before(r) == {s \in rows : s.ts <= r.ts}
             rank == [r \in rows |-> Cardinality(Before(r))]
             sorted == SortedByTime(rows)
  <1>1. C \in Nat
    BY FS_CardinalityType
  <1>2. \A r \in rows : IsFiniteSet(Before(r)) /\ rank[r] \in 1 .. C
    <2>1. SUFFICES ASSUME NEW r \in rows PROVE IsFiniteSet(Before(r)) /\ Cardinality(Before(r)) \in 1 .. C
      OBVIOUS
    <2>2. Before(r) \in SUBSET rows /\ r \in Before(r)
      OBVIOUS
    <2> HIDE DEF Before
    <2>3. IsFiniteSet(Before(r)) /\ Cardinality(Before(r)) <= C
      BY <2>2, FS_Subset
    <2>4. Cardinality(Before(r)) \in Nat /\ Cardinality(Before(r)) # 0
      BY <2>2, <2>3, FS_CardinalityType, FS_EmptySet
    <2> QED
      BY <1>1, <2>3, <2>4
  <1>3. ASSUME NEW r \in rows, NEW s \in rows PROVE rank[r] <= rank[s] <=> r.ts <= s.ts
    <2>1. ASSUME NEW x \in rows, NEW y \in rows, x.ts <= y.ts PROVE rank[x] <= rank[y]
      <3>1. Before(x) \in SUBSET Before(y)
        BY <2>1
      <3>2. IsFiniteSet(Before(y))
        BY <1>2
      <3> HIDE DEF Before
      <3> QED
        BY <3>1, <3>2, FS_Subset
    <2>2. ASSUME NEW x \in rows, NEW y \in rows, x.ts < y.ts PROVE rank[x] < rank[y]
      <3>1. Before(x) \in SUBSET Before(y) /\ y \in Before(y) /\ y \notin Before(x)
        BY <2>2
      <3>2. IsFiniteSet(Before(y)) /\ rank[x] \in 1 .. C /\ rank[y] \in 1 .. C
        BY <1>2
      <3> HIDE DEF Before
      <3>3. Cardinality(Before(x)) <= Cardinality(Before(y)) /\ Cardinality(Before(x)) # Cardinality(Before(y))
        BY <3>1, <3>2, FS_Subset
      <3>4. rank[x] = Cardinality(Before(x)) /\ rank[y] = Cardinality(Before(y))
        OBVIOUS
      <3> QED
        BY <1>1, <3>2, <3>3, <3>4
    <2>3. r.ts \in Nat /\ s.ts \in Nat /\ rank[r] \in 1 .. C /\ rank[s] \in 1 .. C
      BY <1>2
    <2> HIDE DEF rank
    <2>4. CASE r.ts <= s.ts
      BY <2>1, <2>4
    <2>5. CASE ~ (r.ts <= s.ts)
      BY <1>1, <2>2, <2>3, <2>5
    <2> QED
      BY <2>4, <2>5
  <1>4. rank \in Surjection(rows, 1 .. C)
    <2>1. rank \in Injection(rows, 1 .. C)
      <3>1. rank \in [rows -> 1 .. C]
        BY <1>2
      <3>2. ASSUME NEW r \in rows, NEW s \in rows, rank[r] = rank[s] PROVE r = s
        <4>0. rank[r] \in 1 .. C /\ rank[s] \in 1 .. C
          BY <1>2
        <4>1. rank[r] \in Nat /\ rank[s] \in Nat
          <5> HIDE DEF rank, C
          <5> QED
            BY <1>1, <4>0
        <4>2. rank[r] <= rank[s] /\ rank[s] <= rank[r]
          <5> HIDE DEF rank
          <5> QED
            BY <3>2, <4>1
        <4>3. r.ts <= s.ts /\ s.ts <= r.ts
          BY <1>3, <4>2
        <4> QED
          BY <4>3
      <3> HIDE DEF rank
      <3> QED
        BY <3>1, <3>2 DEF Injection, IsInjective
    <2>2. IsFiniteSet(1 .. C) /\ Cardinality(1 .. C) = C
      BY <1>1, FS_Interval
    <2> HIDE DEF rank
    <2> QED
      BY <2>1, <2>2, FS_Injection
  <1>5. ASSUME NEW n \in 1 .. C PROVE sorted[n] \in rows /\ rank[sorted[n]] = n
    <2>1. sorted[n] = CHOOSE r \in rows : rank[r] = n
      BY <1>1 DEF SortedByTime
    <2>2. \E r \in rows : rank[r] = n
      <3> HIDE DEF rank
      <3> QED
        BY <1>4 DEF Surjection
    <2> HIDE DEF rank, sorted
    <2> QED
      BY <2>1, <2>2
  <1>6. DOMAIN sorted = 1 .. C
    BY DEF SortedByTime
  <1> HIDE DEF rank, sorted, C
  <1>7. ASSUME NEW r \in rows PROVE \E n \in 1 .. C : sorted[n] = r
    <2>1. rank[r] \in 1 .. C
      BY <1>2
    <2> DEFINE s == sorted[rank[r]]
    <2>2. s \in rows /\ rank[s] = rank[r]
      BY <1>5, <2>1
    <2> HIDE DEF s
    <2>3. r.ts <= s.ts /\ s.ts <= r.ts
      BY <1>1, <1>3, <2>1, <2>2
    <2>4. s = r
      BY <2>2, <2>3
    <2> QED
      BY <2>1, <2>4 DEF s
  <1>8. ASSUME NEW m \in 1 .. C, NEW n \in 1 .. C PROVE sorted[m].ts <= sorted[n].ts <=> m <= n
    BY <1>3, <1>5
  <1> QED
    BY <1>1, <1>5, <1>6, <1>7, <1>8 DEF C, sorted

\* The polls and starts that are read are among those that were written.
LEMMA WireLinesWritten ==
    ASSUME Account, NEW kind
    PROVE  WireLines(kind) \subseteq {Wire[n] : n \in {n \in 1 .. Len(Wire) : Wire[n].kind = kind}}
  <1> DEFINE R == Range(Wire)
             Fr == [rec : R, left : Left]
             Ln == Seq(Fr) \ {<<>>}
             file == files["wire"]
  <1>1. "wire" \in Names
    BY DEF Names
  <1>2. file \in Seq(Ln) /\ Ln \subseteq Seq(Fr) /\ Wire \in Seq(R)
    BY <1>1 DEF Account, Records, Accounted, FileOf, Wire
  <1> SUFFICES ASSUME NEW r \in WireLines(kind)
               PROVE  \E n \in 1 .. Len(Wire) : Wire[n] = r /\ Wire[n].kind = kind
    OBVIOUS
  <1>3. r.kind = kind /\ r \in UNION {WireRecords(file[n]) : n \in DOMAIN file}
    BY DEF WireLines
  <1>4. PICK n \in DOMAIN file : r \in WireRecords(file[n])
    BY <1>3
  <1> HIDE DEF Ln, file, R
  <1>5. file[n] \in Seq(Fr)
    BY <1>2, <1>4, LenProperties, ElementOfSeq
  <1>6. PICK k \in DOMAIN file[n] : r = file[n][k].rec
    BY <1>4 DEF WireRecords
  <1> HIDE DEF Fr
  <1>7. file[n][k] \in Fr
    BY <1>5, <1>6, LenProperties, ElementOfSeq
  <1>8. r \in R
    BY <1>6, <1>7 DEF Fr
  <1>9. DOMAIN Wire = 1 .. Len(Wire)
    BY <1>2, LenProperties
  <1> QED
    BY <1>3, <1>8, <1>9 DEF R, Range

\* The rows of the join are the polls that are read, in the order of their times.
LEMMA RowsInOrder ==
    ASSUME Account
    PROVE  LET hr == JoinStreams
           IN  /\ Len(hr) \in Nat /\ DOMAIN hr = 1 .. Len(hr)
               /\ \A k \in 1 .. Len(hr) : \E n \in 1 .. Len(Wire) :
                     Wire[n].kind = "poll" /\ hr[k].ts = Wire[n].ts
               /\ \A r \in LoadWireRecords : \E k \in 1 .. Len(hr) : hr[k].ts = r.ts /\ hr[k].current = r.val
               /\ \A k, m \in 1 .. Len(hr) : hr[k].ts <= hr[m].ts <=> k <= m
  <1> DEFINE rows == LoadWireRecords
             sorted == SortedByTime(rows)
             hr == JoinStreams
             C == Cardinality(rows)
             polls == {Wire[n] : n \in {n \in 1 .. Len(Wire) : Wire[n].kind = "poll"}}
  <1>1. rows \subseteq polls
    BY WireLinesWritten DEF LoadWireRecords
  <1>2. /\ Wire \in Seq(Range(Wire)) /\ Ascending(Wire)
        /\ \A n \in 1 .. Len(Wire) : Wire[n].ts \in Nat
    BY DEF Account, Records, Accounted, Wire, Names
  <1>3. Len(Wire) \in Nat /\ DOMAIN Wire = 1 .. Len(Wire)
    BY <1>2, LenProperties
  <1>4. IsFiniteSet(rows)
    <2>1. Wire \in Surjection(1 .. Len(Wire), Range(Wire))
      <3>1. Wire \in [1 .. Len(Wire) -> Range(Wire)]
        BY <1>2, LenProperties
      <3> QED
        BY <1>3, <3>1 DEF Surjection, Range
    <2>2. IsFiniteSet(Range(Wire))
      BY <1>3, <2>1, FS_Interval, FS_Surjection
    <2>3. rows \in SUBSET Range(Wire)
      BY <1>1, <1>3 DEF Range
    <2> HIDE DEF rows
    <2> QED
      BY <2>2, <2>3, FS_Subset
  <1>5. \A r \in rows : r.ts \in Nat
    BY <1>1, <1>2
  <1>6. ASSUME NEW r \in rows, NEW s \in rows, r.ts = s.ts PROVE r = s
    <2>1. PICK i \in 1 .. Len(Wire), j \in 1 .. Len(Wire) : r = Wire[i] /\ s = Wire[j]
      BY <1>1
    <2>2. ~ (i < j) /\ ~ (j < i)
      BY <1>2, <1>6, <2>1 DEF Ascending
    <2> QED
      BY <2>1, <2>2
  <1>7. /\ C \in Nat /\ DOMAIN sorted = 1 .. C
        /\ \A n \in 1 .. C : sorted[n] \in rows
        /\ \A r \in rows : \E n \in 1 .. C : sorted[n] = r
        /\ \A m, n \in 1 .. C : sorted[m].ts <= sorted[n].ts <=> m <= n
    <2> HIDE DEF rows
    <2> QED
      BY <1>4, <1>5, <1>6, Sorting
  <1>8. hr = [n \in 1 .. C |-> [ts |-> sorted[n].ts, current |-> sorted[n].val,
                                tcp |-> AsOf(LoadTcpRecords, sorted[n].ts),
                                tag |-> AsOf(LoadTagRecords, sorted[n].ts)]]
    BY <1>7 DEF JoinStreams
  <1> HIDE DEF hr, sorted, C, rows
  <1>9. Len(hr) = C /\ DOMAIN hr = 1 .. C /\ \A n \in 1 .. C : hr[n].ts = sorted[n].ts /\ hr[n].current = sorted[n].val
    BY <1>7, <1>8
  <1>10. \A k \in 1 .. C : \E n \in 1 .. Len(Wire) : Wire[n].kind = "poll" /\ hr[k].ts = Wire[n].ts
    BY <1>1, <1>7, <1>9
  <1>11. \A r \in rows : \E k \in 1 .. C : hr[k].ts = r.ts /\ hr[k].current = r.val
    BY <1>7, <1>9
  <1>12. \A k, m \in 1 .. C : hr[k].ts <= hr[m].ts <=> k <= m
    BY <1>7, <1>9
  <1> QED
    BY <1>7, <1>9, <1>10, <1>11, <1>12 DEF hr, rows

\* A start that no power cut followed at once is read, unless its line begins with
\* a part of another.
LEMMA StartIsRead ==
    ASSUME Account, ~MarkerGlued, NEW r, r.kind = "start", Whole(files["wire"], r)
    PROVE  r.ts \in LoggerStarts
  <1> DEFINE file == files["wire"]
  <1>1. PICK k \in DOMAIN file : \E j \in DOMAIN file[k] : file[k][j] = [rec |-> r, left |-> "all"]
    BY DEF Whole
  <1>2. PICK j \in DOMAIN file[k] : file[k][j] = [rec |-> r, left |-> "all"]
    BY <1>1
  <1> DEFINE line == file[k]
  <1>3. j \in Printed(line) /\ ~ (Cardinality(Printed(line)) > 1)
    <2>1. j \in Printed(line)
      BY <1>2 DEF Printed
    <2>2. ~ (Cardinality(Printed(line)) > 1)
      BY DEF MarkerGlued
    <2> QED
      BY <2>1, <2>2
  <1>4. IsFiniteSet(Printed(line))
    <2> DEFINE Fr == [rec : Range(Wire), left : Left]
               Ln == Seq(Fr) \ {<<>>}
    <2>1. file \in Seq(Ln) /\ Ln \subseteq Seq(Fr)
      BY DEF Account, Records, Accounted, FileOf, Wire, Names
    <2> HIDE DEF Ln, file, Fr
    <2>2. line \in Seq(Fr)
      BY <2>1, LenProperties, ElementOfSeq
    <2>3. Len(line) \in Nat /\ DOMAIN line = 1 .. Len(line)
      BY <2>2, LenProperties
    <2>4. Printed(line) \in SUBSET (1 .. Len(line))
      BY <2>3 DEF Printed
    <2>5. IsFiniteSet(1 .. Len(line))
      BY <2>3, FS_Interval
    <2> HIDE DEF line
    <2> QED
      BY <2>4, <2>5, FS_Subset
  <1>5. Printed(line) = {j}
    <2>1. Cardinality(Printed(line)) \in Nat /\ Cardinality(Printed(line)) # 0
      BY <1>3, <1>4, FS_CardinalityType, FS_EmptySet
    <2>2. Cardinality(Printed(line)) = 1
      BY <1>3, <2>1
    <2>3. \E x : Printed(line) = {x}
      BY <1>4, <2>2, FS_Singleton
    <2> QED
      BY <1>3, <2>3
  <1>6. r \in WireRecords(line)
    BY <1>2, <1>5 DEF WireRecords
  <1>7. r \in WireLines("start")
    BY <1>1, <1>6 DEF WireLines
  <1> QED
    BY <1>7 DEF LoggerStarts

\* In a log with a marker, a gap in the polls is put down to the capture box exactly
\* when the box was off inside it, and the first current after it is the first there
\* was, for any number of power cuts.
THEOREM GapsToldHolds == Spec => []GapsTold
  <1>1. Account /\ Marked /\ PollsAreRows => GapsTold
    <2> SUFFICES ASSUME Account, Marked, PollsAreRows, NEW b \in ColdBoots(JoinStreams)
                 PROVE  /\ ~MarkerGlued => /\ b.kind = "capture gap" => BoxOffIn(b)
                                           /\ b.kind = "inverter restart" => ~BoxOffIn(b)
                        /\ \A n \in DOMAIN written["wire"] :
                              LET poll == written["wire"][n]
                              IN  poll.kind = "poll" /\ poll.val > 0 /\ poll.ts >= b.restart
                                  => \/ b.firstCurrent # None /\ b.restart + b.firstCurrent <= poll.ts
                                     \/ LastBeforeCut("wire", n)
      BY DEF GapsTold
    <2> DEFINE hr == JoinStreams
               Live(k) == {n \in k .. Len(hr) : hr[n].current > 0}
    <2>1. PICK k \in 2 .. Len(hr) :
            /\ hr[k].ts - hr[k - 1].ts > MinGap
            /\ b = [gapFrom |-> hr[k - 1].ts, restart |-> hr[k].ts,
                    kind |-> Kind(hr[k - 1].ts, hr[k].ts),
                    firstCurrent |-> IF Live(k) = {} THEN None ELSE hr[Min(Live(k))].ts - hr[k].ts]
      BY DEF ColdBoots
    <2>2. /\ Len(hr) \in Nat
          /\ \A i \in 1 .. Len(hr) : \E n \in 1 .. Len(Wire) : Wire[n].kind = "poll" /\ hr[i].ts = Wire[n].ts
          /\ \A r \in LoadWireRecords : \E i \in 1 .. Len(hr) : hr[i].ts = r.ts /\ hr[i].current = r.val
          /\ \A i, m \in 1 .. Len(hr) : hr[i].ts <= hr[m].ts <=> i <= m
      BY RowsInOrder
    <2>3. /\ Wire \in Seq(Range(Wire)) /\ Ascending(Wire) /\ now \in Nat
          /\ \A n \in 1 .. Len(Wire) : Wire[n].ts \in Nat /\ Wire[n].ts <= now
          /\ outages \in Seq(Nat \X Nat)
      BY DEF Account, Clock, Records, Accounted, Wire, Names
    <2>4. /\ Len(Wire) \in Nat /\ DOMAIN Wire = 1 .. Len(Wire)
          /\ Len(outages) \in Nat /\ DOMAIN outages = 1 .. Len(outages)
          /\ \A m \in 1 .. Len(outages) : outages[m][1] \in Nat /\ outages[m][2] \in Nat
      BY <2>3, LenProperties, ElementOfSeq
    <2>a. /\ b.gapFrom = hr[k - 1].ts /\ b.restart = hr[k].ts
          /\ b.kind = Kind(b.gapFrom, b.restart)
          /\ b.firstCurrent = IF Live(k) = {} THEN None ELSE hr[Min(Live(k))].ts - hr[k].ts
      <3> HIDE DEF hr, Live
      <3> QED
        BY <2>1
    <2>b. hr[k].ts - hr[k - 1].ts > MinGap /\ k - 1 \in 1 .. Len(hr) /\ k \in 1 .. Len(hr) /\ k \in Nat
      <3> HIDE DEF hr
      <3> QED
        BY <2>1, <2>2
    <2>c. Live(k) = {n \in k .. Len(hr) : hr[n].current > 0}
      OBVIOUS
    <2> HIDE DEF hr, Live
    <2>d. \A i \in 1 .. Len(hr) : \E n \in 1 .. Len(Wire) : Wire[n].kind = "poll" /\ hr[i].ts = Wire[n].ts
      BY <2>2
    <2> DEFINE before == k - 1
    <2>e. before \in 1 .. Len(hr) /\ b.gapFrom = hr[before].ts
      BY <2>a, <2>b
    <2> HIDE DEF before
    <2>5. PICK p \in 1 .. Len(Wire) : Wire[p].kind = "poll" /\ b.gapFrom = Wire[p].ts
      BY <2>d, <2>e, Zenon
    <2>6. PICK q \in 1 .. Len(Wire) : Wire[q].kind = "poll" /\ b.restart = Wire[q].ts
      BY <2>d, <2>a, <2>b, Zenon
    <2>7. b.gapFrom \in Nat /\ b.restart \in Nat /\ b.gapFrom < b.restart
      <3>1. b.gapFrom \in Nat /\ b.restart \in Nat
        BY <2>3, <2>5, <2>6
      <3>2. b.restart - b.gapFrom > MinGap
        BY <2>a, <2>b
      <3>3. MinGap \in Nat
        BY ToolsAssumption
      <3> QED
        BY <3>1, <3>2, <3>3
    <2>8. b.kind = Kind(b.gapFrom, b.restart)
      BY <2>a
    \* A power cut that began before a poll was written also ended before it.
    <2>9. ASSUME NEW m \in 1 .. Len(outages), outages[m][1] < Wire[q].ts
          PROVE  /\ outages[m][2] < Wire[q].ts
                 /\ \E n \in 1 .. Len(Wire) : Wire[n].kind = "start" /\ Wire[n].ts = outages[m][2]
      <3>1. Wire[q].ts < outages[m][1] \/ outages[m][2] < Wire[q].ts
        BY <2>6 DEF Marked, SilentInOutage
      <3>2. outages[m][2] < Wire[q].ts
        BY <2>3, <2>4, <2>9, <3>1, SMTT(30)
      <3>3. m # Len(outages) => m < Len(outages)
        <4>1. Len(outages) \in Nat
          BY <2>4
        <4> QED
          BY <4>1
      <3>4. m < Len(outages) \/ box
        <4> SUFFICES ASSUME ~box PROVE m < Len(outages)
          OBVIOUS
        <4>1. Wire[q].ts \in Nat /\ outages[m][1] \in Nat
          BY <2>3, <2>4
        <4>2. \A n \in 1 .. Len(Wire) : Wire[n].ts < outages[Len(outages)][1]
          BY DEF Marked, SilentInOutage
        <4>3. m # Len(outages)
          <5> SUFFICES ASSUME m = Len(outages) PROVE FALSE
            OBVIOUS
          <5>1. Wire[q].ts < outages[m][1]
            BY <4>2
          <5> QED
            BY <2>9, <4>1, <5>1
        <4> QED
          BY <3>3, <4>3
      <3> QED
        BY <3>2, <3>4 DEF Marked, OutageEnds
    <2>10. ASSUME b.kind = "capture gap" PROVE BoxOffIn(b)
      <3>1. PICK t \in LoggerStarts : b.gapFrom < t /\ t <= b.restart
        BY <2>8, <2>10 DEF Kind
      <3>2. PICK n \in 1 .. Len(Wire) : Wire[n].kind = "start" /\ Wire[n].ts = t
        <4>1. PICK s \in WireLines("start") : s.ts = t
          BY <3>1 DEF LoggerStarts
        <4>2. s \in {Wire[n] : n \in {n \in 1 .. Len(Wire) : Wire[n].kind = "start"}}
          BY WireLinesWritten
        <4> QED
          BY <4>1, <4>2
      <3>3. PICK m \in 1 .. Len(outages) : outages[m][2] = t
        <4>1. t \in Nat /\ t # 0
          BY <2>3, <2>7, <3>1, <3>2
        <4> QED
          BY <3>2, <4>1 DEF Marked, StartEndsOutage
      <3>4. b.gapFrom < outages[m][1]
        <4>1. Wire[p].ts < outages[m][1] \/ outages[m][2] < Wire[p].ts
          BY <2>5 DEF Marked, SilentInOutage
        <4> QED
          BY <2>4, <2>5, <2>7, <3>1, <3>3, <4>1
      <3>5. outages[m][2] < b.restart
        <4>1. n # q
          BY <2>6, <3>2
        <4>2. Wire[n].ts # Wire[q].ts
          <5>1. Wire[n].ts \in Nat /\ Wire[q].ts \in Nat
            BY <2>3
          <5>2. n < q => Wire[n].ts < Wire[q].ts
            BY <2>3 DEF Ascending
          <5>3. q < n => Wire[q].ts < Wire[n].ts
            BY <2>3 DEF Ascending
          <5> QED
            BY <4>1, <5>1, <5>2, <5>3
        <4>3. t # b.restart /\ t \in Nat
          BY <2>3, <2>6, <3>2, <4>2
        <4> QED
          BY <2>7, <3>1, <3>3, <4>3
      <3> QED
        BY <2>4, <3>4, <3>5 DEF BoxOffIn
    <2>11. ASSUME b.kind = "inverter restart", ~MarkerGlued, BoxOffIn(b) PROVE FALSE
      <3>1. PICK m \in 1 .. Len(outages) : b.gapFrom < outages[m][1] /\ outages[m][2] < b.restart
        BY <2>4, <2>11 DEF BoxOffIn
      <3>2. \A t \in LoggerStarts : ~ (b.gapFrom < t /\ t <= b.restart)
        BY <2>8, <2>11 DEF Kind
      <3> DEFINE S == {Wire[n] : n \in {n \in 1 .. Len(Wire) : /\ Wire[n].kind = "start"
                                                               /\ b.gapFrom < Wire[n].ts /\ Wire[n].ts < b.restart}}
      <3>3. ASSUME NEW c \in 1 .. Len(outages), b.gapFrom < outages[c][1], outages[c][1] < b.restart
            PROVE  \E s \in S : outages[c][1] <= s.ts
        <4>1. PICK n \in 1 .. Len(Wire) : Wire[n].kind = "start" /\ Wire[n].ts = outages[c][2]
          BY <2>6, <2>9, <3>3
        <4>2. outages[c][1] <= outages[c][2] /\ outages[c][2] < b.restart
          BY <2>6, <2>9, <3>3 DEF Marked, OutageEnds
        <4>3. b.gapFrom < Wire[n].ts /\ Wire[n].ts < b.restart
          BY <2>4, <2>7, <3>3, <4>1, <4>2, SMTT(30)
        <4> QED
          BY <4>1, <4>2, <4>3
      <3>4. \A s \in S : s.ts \in 0 .. now
        <4>1. \A n \in 1 .. Len(Wire) : Wire[n].ts \in 0 .. now
          BY <2>3, SMTT(30)
        <4> QED
          BY <4>1
      <3>5. S # {}
        <4>1. outages[m][1] <= outages[m][2]
          BY DEF Marked, OutageEnds
        <4>2. outages[m][1] < b.restart
          BY <2>4, <2>7, <3>1, <4>1
        <4> QED
          BY <3>1, <3>3, <4>2
      <3>6. PICK s \in S : \A r \in S : r.ts <= s.ts
        <4> HIDE DEF S
        <4> QED
          BY <2>3, <3>4, <3>5, Latest
      <3>7. PICK n \in 1 .. Len(Wire) :
              s = Wire[n] /\ s.kind = "start" /\ b.gapFrom < s.ts /\ s.ts < b.restart
        OBVIOUS
      <3> HIDE DEF S
      <3>8. ~LastBefore(Wire, Cuts, n)
        <4> SUFFICES ASSUME LastBefore(Wire, Cuts, n) PROVE FALSE
          OBVIOUS
        <4>1. PICK t \in Cuts : Wire[n].ts < t /\ (n < Len(Wire) => Wire[n + 1].ts > t)
          BY DEF LastBefore
        <4>2. PICK c \in 1 .. Len(outages) : t = outages[c][1]
          <5>1. t \in {outages[c][1] : c \in DOMAIN outages}
            BY <4>1 DEF Cuts
          <5> QED
            BY <2>4, <5>1
        <4>3. n < q
          <5>1. Wire[n].ts \in Nat /\ Wire[q].ts \in Nat /\ Wire[n].ts < Wire[q].ts
            BY <2>3, <2>6, <3>7
          <5>2. ~ (q < n)
            <6>1. q < n => Wire[q].ts < Wire[n].ts
              BY <2>3 DEF Ascending
            <6> QED
              BY <5>1, <6>1
          <5>3. n # q
            BY <5>1
          <5> QED
            BY <5>2, <5>3
        <4>4. Wire[n + 1].ts <= Wire[q].ts
          <5>1. CASE n + 1 = q
            <6>1. Wire[q].ts \in Nat
              BY <2>3
            <6> QED
              BY <5>1, <6>1
          <5>2. CASE n + 1 < q
            <6>1. n + 1 \in 1 .. Len(Wire)
              BY <2>4, <5>2
            <6>2. Wire[n + 1].ts < Wire[q].ts
              BY <2>3, <5>2, <6>1 DEF Ascending
            <6>3. Wire[n + 1].ts \in Nat /\ Wire[q].ts \in Nat
              BY <2>3, <6>1
            <6> QED
              BY <6>2, <6>3, SMTT(30)
          <5> QED
            BY <2>4, <4>3, <5>1, <5>2
        <4>5. t < b.restart /\ b.gapFrom < t /\ s.ts < t /\ t \in Nat /\ s.ts \in Nat
          <5>1. n + 1 \in 1 .. Len(Wire) /\ n < Len(Wire)
            BY <2>4, <4>3
          <5>2. t \in Nat /\ s.ts \in Nat /\ Wire[n + 1].ts \in Nat /\ Wire[q].ts \in Nat
            BY <2>3, <2>4, <3>7, <4>2, <5>1
          <5>3. s.ts < t /\ Wire[n + 1].ts > t
            BY <3>7, <4>1, <5>1
          <5>4. t < Wire[q].ts
            BY <4>4, <5>2, <5>3, SMTT(30)
          <5>5. b.gapFrom < t
            <6>1. b.gapFrom < s.ts /\ b.gapFrom \in Nat
              BY <2>7, <3>7
            <6> QED
              BY <5>2, <5>3, <6>1
          <5> QED
            BY <2>6, <5>2, <5>3, <5>4, <5>5
        <4>6. PICK r \in S : t <= r.ts
          BY <3>3, <4>2, <4>5
        <4>7. r.ts <= s.ts /\ r.ts \in Int
          BY <3>4, <3>6
        <4> QED
          BY <4>5, <4>6, <4>7
      <3>9. Whole(files["wire"], s)
        BY <3>7, <3>8 DEF Marked, WholeInWire
      <3>10. s.ts \in LoggerStarts
        BY <2>11, <3>7, <3>9, StartIsRead
      <3>11. s.ts <= b.restart
        <4>1. s.ts \in Nat /\ s.ts < b.restart
          BY <2>3, <3>7
        <4> QED
          BY <2>7, <4>1
      <3> QED
        BY <3>2, <3>7, <3>10, <3>11
    <2>12. ASSUME NEW n \in 1 .. Len(Wire), Wire[n].kind = "poll", Wire[n].val > 0, Wire[n].ts >= b.restart,
                  ~LastBeforeCut("wire", n)
           PROVE  b.firstCurrent # None /\ b.restart + b.firstCurrent <= Wire[n].ts
      <3>1. Wire[n] \in LoadWireRecords
        BY <2>4, <2>12 DEF PollsAreRows, Wire
      <3>2. PICK i \in 1 .. Len(hr) : hr[i].ts = Wire[n].ts /\ hr[i].current = Wire[n].val
        BY <2>2, <3>1
      <3>3. hr[k].ts <= hr[i].ts
        BY <2>3, <2>7, <2>a, <2>12, <3>2
      <3>4. k <= i
        BY <2>2, <2>b, <3>2, <3>3
      <3> DEFINE S == Live(k)
      <3>5. i \in S /\ S \in SUBSET (k .. Len(hr)) /\ S # {} /\ k \in Nat
        BY <2>2, <2>b, <2>c, <2>12, <3>2, <3>4, SMTT(30)
      <3>6. b.firstCurrent = hr[Min(S)].ts - hr[k].ts
        BY <2>a, <3>5
      <3>13. S \subseteq 1 .. Len(hr)
        BY <2>2, <2>b, <3>5
      <3> HIDE DEF S
      <3>7. Min(S) \in S /\ Min(S) <= i
        BY <2>2, <3>5, Least
      <3>8. Min(S) \in k .. Len(hr) /\ Min(S) \in 1 .. Len(hr)
        BY <3>5, <3>7, <3>13
      <3>9. hr[Min(S)].ts <= hr[i].ts /\ hr[k].ts <= hr[Min(S)].ts
        BY <2>2, <2>b, <3>7, <3>8, SMTT(30)
      <3>10. hr[Min(S)].ts \in Nat
        BY <2>2, <2>3, <3>8
      <3>11. hr[k].ts \in Nat /\ b.restart = hr[k].ts /\ hr[i].ts \in Nat /\ hr[i].ts = Wire[n].ts
        BY <2>3, <2>7, <2>a, <3>2
      <3>12. b.firstCurrent >= 0 /\ b.firstCurrent \in Int /\ b.restart + b.firstCurrent <= Wire[n].ts
        BY <3>6, <3>9, <3>10, <3>11, SMTT(30)
      <3> QED
        BY <3>12 DEF None
    <2> QED
      BY <2>4, <2>10, <2>11, <2>12 DEF Wire
  <1>2. Account => PollsAreRows
    BY AccountIsRows
  <1> QED
    BY <1>1, <1>2, AccountHolds, MarkedHolds, PTL

-----------------------------------------------------------------------------
(* Sequences that are chosen from and put together. *)

\* From 0 to n, one step at a time.
LEMMA Steps ==
    ASSUME NEW n \in Nat, NEW S, 0 \in S, \A k \in 0 .. n - 1 : k \in S => k + 1 \in S
    PROVE  0 .. n \subseteq S
  <1> DEFINE B == 0 .. n
             Above(r) == {l \in 0 .. n : l < r}
             T == {Above(r) : r \in B \ S}
  <1> SUFFICES ASSUME B \ S # {} PROVE FALSE
    OBVIOUS
  <1>1. IsFiniteSet(B)
    BY FS_Interval
  <1>2. IsWellFoundedOn(StrictSubsetOrdering(B), FiniteSubsetsOf(B)) /\ FiniteSubsetsOf(B) = SUBSET B
    BY <1>1, FS_StrictSubsetOrderingWellFounded, FS_FiniteSubsetsOfFinite
  <1>3. T \subseteq SUBSET B /\ T # {}
    OBVIOUS
  <1> HIDE DEF T
  <1>4. PICK L \in T : \A K \in T : ~ (<<K, L>> \in StrictSubsetOrdering(B))
    BY <1>2, <1>3, WFMin, ZenonT(30)
  <1>5. PICK r \in B \ S : L = Above(r)
    BY <1>4 DEF T
  <1>6. r \in Nat /\ r # 0 /\ r - 1 \in 0 .. n - 1 /\ r - 1 + 1 = r
    BY <1>5
  <1>7. r - 1 \in B \ S
    BY <1>5, <1>6
  <1>8. Above(r - 1) \subseteq Above(r) /\ r - 1 \in Above(r) /\ r - 1 \notin Above(r - 1)
    BY <1>6
  <1>9. <<Above(r - 1), Above(r)>> \in StrictSubsetOrdering(B)
    BY <1>8 DEF StrictSubsetOrdering
  <1>10. Above(r - 1) \in T
    BY <1>7 DEF T
  <1> HIDE DEF Above
  <1> QED
    BY <1>4, <1>5, <1>9, <1>10

\* A function that each value gives the next of.
Runs(f, n, V, v, g) ==
    /\ f \in [0 .. n -> V]
    /\ f[0] = v /\ \A k \in 1 .. n : f[k] = g[<<k, f[k - 1]>>]

\* There is such a function.
LEMMA Recursion ==
    ASSUME NEW n \in Nat, NEW V, NEW v \in V, NEW g, g \in [(0 .. n) \X V -> V]
    PROVE  \E f : Runs(f, n, V, v, g)
  <1> DEFINE S == {m \in 0 .. n : \E f : Runs(f, m, V, v, g)}
  <1>1. 0 \in S
    <2> DEFINE f == [k \in 0 .. 0 |-> v]
    <2>1. f \in [0 .. 0 -> V] /\ f[0] = v /\ \A k \in 1 .. 0 : f[k] = g[<<k, f[k - 1]>>]
      OBVIOUS
    <2> HIDE DEF f
    <2> QED
      BY <2>1 DEF Runs
  <1>2. ASSUME NEW m \in 0 .. n - 1, m \in S PROVE m + 1 \in S
    <2>1. PICK f : Runs(f, m, V, v, g)
      BY <1>2
    <2>a. f \in [0 .. m -> V] /\ f[0] = v /\ \A k \in 1 .. m : f[k] = g[<<k, f[k - 1]>>]
      BY <2>1 DEF Runs
    <2> DEFINE h == [k \in 0 .. m + 1 |-> IF k = m + 1 THEN g[<<m + 1, f[m]>>] ELSE f[k]]
    <2>2. f[m] \in V /\ <<m + 1, f[m]>> \in (0 .. n) \X V
      BY <2>a
    <2>3. g[<<m + 1, f[m]>>] \in V
      BY <2>2
    <2>4. h \in [0 .. m + 1 -> V]
      BY <2>3, <2>a
    <2>5. h[0] = v
      BY <2>a
    <2>6. ASSUME NEW k \in 1 .. m + 1 PROVE h[k] = g[<<k, h[k - 1]>>]
      <3>1. CASE k = m + 1
        <4>1. h[k - 1] = f[m] /\ h[k] = g[<<m + 1, f[m]>>]
          BY <3>1
        <4> HIDE DEF h
        <4> QED
          BY <3>1, <4>1
      <3>2. CASE k # m + 1
        <4>1. k \in 1 .. m /\ h[k] = f[k] /\ h[k - 1] = f[k - 1]
          BY <3>2
        <4> HIDE DEF h
        <4> QED
          BY <2>a, <4>1
      <3> QED
        BY <3>1, <3>2
    <2> HIDE DEF h
    <2>7. m + 1 \in 0 .. n
      OBVIOUS
    <2>8. Runs(h, m + 1, V, v, g)
      BY <2>4, <2>5, <2>6 DEF Runs
    <2> QED
      BY <2>7, <2>8
  <1> HIDE DEF S
  <1>3. 0 .. n \subseteq S
    BY <1>1, <1>2, Steps
  <1>4. n \in S
    BY <1>3
  <1> QED
    BY <1>4 DEF S, Runs

\* A sequence of sequences is flattened from left to right.
LEMMA Flattening ==
    ASSUME NEW T, NEW s \in Seq(Seq(T))
    PROVE  \E f \in [0 .. Len(s) -> Seq(T)] :
              /\ f[0] = <<>> /\ \A k \in 1 .. Len(s) : f[k] = f[k - 1] \o s[k]
              /\ FlattenSeq(s) = f[Len(s)]
  <1> DEFINE n == Len(s)
             g == [p \in (0 .. n) \X Seq(T) |-> IF p[1] = 0 THEN <<>> ELSE p[2] \o s[p[1]]]
  <1>1. n \in Nat /\ \A k \in 1 .. n : s[k] \in Seq(T)
    BY LenProperties, ElementOfSeq
  <1>2. g \in [(0 .. n) \X Seq(T) -> Seq(T)]
    <2>1. ASSUME NEW p \in (0 .. n) \X Seq(T)
          PROVE  (IF p[1] = 0 THEN <<>> ELSE p[2] \o s[p[1]]) \in Seq(T)
      <3>1. p[1] \in 0 .. n /\ p[2] \in Seq(T)
        OBVIOUS
      <3>2. CASE p[1] = 0
        BY <3>2, EmptySeq
      <3>3. CASE p[1] # 0
        <4>1. s[p[1]] \in Seq(T)
          BY <1>1, <3>1, <3>3
        <4> QED
          BY <3>1, <3>3, <4>1, ConcatProperties
      <3> QED
        BY <3>2, <3>3
    <2> HIDE DEF n
    <2> QED
      BY <2>1
  <1>3. ASSUME NEW k \in 1 .. n, NEW h \in Seq(T) PROVE g[<<k, h>>] = h \o s[k]
    <2>1. <<k, h>> \in (0 .. n) \X Seq(T) /\ k # 0
      BY <1>1
    <2>2. g[<<k, h>>] = IF <<k, h>>[1] = 0 THEN <<>> ELSE <<k, h>>[2] \o s[<<k, h>>[1]]
      <3> HIDE DEF n
      <3> QED
        BY <2>1
    <2> QED
      BY <2>1, <2>2
  <1> HIDE DEF g
  <1>4. PICK f \in [0 .. n -> Seq(T)] : f[0] = <<>> /\ \A k \in 1 .. n : f[k] = g[<<k, f[k - 1]>>]
    <2>1. <<>> \in Seq(T)
      BY EmptySeq
    <2> DEFINE V == Seq(T)
               e == <<>>
    <2> HIDE DEF n, V, e
    <2>2. n \in Nat /\ e \in V /\ g \in [(0 .. n) \X V -> V]
      BY <1>1, <1>2, <2>1 DEF V, e
    <2>3. PICK f : Runs(f, n, V, e, g)
      BY <2>2, Recursion
    <2> QED
      BY <2>3 DEF V, e, Runs
  <1>5. \A k \in 1 .. n : f[k] = f[k - 1] \o s[k]
    <2> HIDE DEF n
    <2>1. ASSUME NEW k \in 1 .. n PROVE f[k - 1] \in Seq(T)
      BY <1>1, <1>4
    <2> QED
      BY <1>3, <1>4, <2>1
  <1>a. n # 0 => f[1] = s[1]
    <2>1. SUFFICES ASSUME n # 0 PROVE f[1] = s[1]
      OBVIOUS
    <2>2. 1 \in 1 .. n /\ 1 - 1 = 0
      BY <1>1, <2>1
    <2> DEFINE e == s[1]
    <2>3. e \in Seq(T)
      BY <1>1, <2>2
    <2>4. f[1] = <<>> \o e
      <3> HIDE DEF n
      <3> QED
        BY <1>4, <1>5, <2>2
    <2> HIDE DEF e
    <2>5. <<>> \o e = e
      BY <2>3, ConcatEmptySeq
    <2> QED
      BY <2>4, <2>5 DEF e
  <1>6. CASE n = 0
    <2>1. FlattenSeq(s) = s /\ s = <<>>
      BY <1>6, EmptySeq DEF FlattenSeq
    <2> QED
      BY <1>4, <1>5, <1>6, <2>1
  <1>7. CASE n # 0
    <2> DEFINE F == CHOOSE fl : fl = [p \in 1 .. n |-> IF p = 1 THEN s[p] ELSE fl[p - 1] \o s[p]]
               h == [p \in 1 .. n |-> f[p]]
    <2>1. FlattenSeq(s) = F[n]
      BY <1>7 DEF FlattenSeq
    <2>2. h = [p \in 1 .. n |-> IF p = 1 THEN s[p] ELSE h[p - 1] \o s[p]]
      <3>1. ASSUME NEW p \in 1 .. n PROVE f[p] = IF p = 1 THEN s[p] ELSE h[p - 1] \o s[p]
        <4>1. CASE p = 1
          BY <1>a, <1>7, <4>1
        <4>2. CASE p # 1
          <5>1. p - 1 \in 1 .. n /\ h[p - 1] = f[p - 1]
            BY <1>1, <4>2
          <5> HIDE DEF h, n
          <5> QED
            BY <1>5, <4>2, <5>1
        <4> QED
          BY <4>1, <4>2
      <3> QED
        BY <3>1
    <2>3. F = [p \in 1 .. n |-> IF p = 1 THEN s[p] ELSE F[p - 1] \o s[p]]
      <3> HIDE DEF h
      <3> QED
        BY <2>2
    <2> HIDE DEF F
    <2>4. \A k \in 0 .. n : k \in {j \in 0 .. n : j = 0 \/ F[j] = f[j]}
      <3> DEFINE S == {j \in 0 .. n : j = 0 \/ F[j] = f[j]}
      <3>1. 0 \in S
        BY <1>1
      <3>2. ASSUME NEW k \in 0 .. n - 1, k \in S PROVE k + 1 \in S
        <4>1. PICK j \in 1 .. n : j = k + 1 /\ j - 1 = k /\ j \in 0 .. n
          BY <1>1
        <4>2. CASE k = 0
          <5>1. F[j] = s[j]
            <6> HIDE DEF n
            <6> QED
              BY <2>3, <4>1, <4>2
          <5> QED
            BY <1>a, <1>7, <4>1, <4>2, <5>1
        <4>3. CASE k # 0
          <5> HIDE DEF n
          <5>1. j # 1 /\ F[k] = f[k]
            BY <3>2, <4>1, <4>3
          <5>2. F[j] = F[k] \o s[j]
            BY <2>3, <4>1, <5>1
          <5>3. f[j] = f[k] \o s[j]
            BY <1>5, <4>1
          <5> QED
            BY <4>1, <5>1, <5>2, <5>3
        <4> QED
          BY <4>2, <4>3
      <3> HIDE DEF S, n
      <3>3. 0 .. n \subseteq S
        BY <1>1, <3>1, <3>2, Steps
      <3> QED
        BY <3>3 DEF S
    <2>5. F[n] = f[n]
      <3> HIDE DEF n
      <3> QED
        BY <1>1, <1>7, <2>4
    <2> QED
      BY <1>4, <1>5, <2>1, <2>5
  <1> QED
    BY <1>6, <1>7

\* Of some numbers up to n one is the greatest.
LEMMA Greatest ==
    ASSUME NEW n \in Nat, NEW S, S \in SUBSET (0 .. n), S # {}
    PROVE  Max(S) \in S /\ \A j \in S : j <= Max(S)
  <1> DEFINE T == {m \in 0 .. n : S \cap (0 .. m) # {} => \E x \in S \cap (0 .. m) : \A y \in S \cap (0 .. m) : x >= y}
  <1>1. 0 \in T
    OBVIOUS
  <1>2. ASSUME NEW m \in 0 .. n - 1, m \in T PROVE m + 1 \in T
    <2>1. m + 1 \in 0 .. n /\ 0 .. m + 1 = (0 .. m) \cup {m + 1} /\ \A y \in 0 .. m + 1 : m + 1 >= y
      OBVIOUS
    <2>2. CASE m + 1 \in S
      BY <2>1, <2>2
    <2>3. CASE m + 1 \notin S
      <3>1. S \cap (0 .. m + 1) = S \cap (0 .. m)
        BY <2>1, <2>3
      <3> QED
        BY <1>2, <2>1, <3>1
    <2> QED
      BY <2>2, <2>3
  <1>3. n \in T
    <2> HIDE DEF T
    <2>1. 0 .. n \subseteq T
      BY <1>1, <1>2, Steps
    <2> QED
      BY <2>1
  <1>4. S \cap (0 .. n) = S
    OBVIOUS
  <1>5. \E x \in S : \A y \in S : x >= y
    BY <1>3, <1>4
  <1>6. Max(S) \in S /\ \A y \in S : Max(S) >= y
    BY <1>5 DEF Max
  <1> QED
    BY <1>6

\* How many of S are at n or before.
Rank(S, n) == Cardinality({m \in S : m <= n})

\* The members of a set of numbers are numbered by their ranks, in their order.
LEMMA Ranks ==
    ASSUME NEW N \in Nat, NEW S, S \in SUBSET (1 .. N)
    PROVE  /\ Cardinality(S) \in Nat
           /\ \A n \in S : Rank(S, n) \in 1 .. Cardinality(S)
           /\ \A m, n \in S : m < n => Rank(S, m) < Rank(S, n)
           /\ \A k \in 1 .. Cardinality(S) : \E n \in S : Rank(S, n) = k
  <1> DEFINE C == Cardinality(S)
             Upto(n) == {m \in S : m <= n}
             rank == [n \in S |-> Rank(S, n)]
  <1>0. IsFiniteSet(1 .. N)
    BY FS_Interval
  <1>1. IsFiniteSet(S) /\ C \in Nat
    BY <1>0, FS_Subset, FS_CardinalityType
  <1>2. ASSUME NEW n \in S PROVE IsFiniteSet(Upto(n)) /\ Rank(S, n) = Cardinality(Upto(n)) /\ Rank(S, n) \in 1 .. C
    <2>1. Upto(n) \in SUBSET S /\ n \in Upto(n) /\ Rank(S, n) = Cardinality(Upto(n))
      BY DEF Rank
    <2> HIDE DEF Upto
    <2>2. IsFiniteSet(Upto(n)) /\ Cardinality(Upto(n)) <= C
      BY <1>1, <2>1, FS_Subset
    <2>3. Cardinality(Upto(n)) \in Nat /\ Cardinality(Upto(n)) # 0
      BY <2>1, <2>2, FS_CardinalityType, FS_EmptySet
    <2> HIDE DEF C
    <2> QED
      BY <1>1, <2>1, <2>2, <2>3
  <1>3. ASSUME NEW m \in S, NEW n \in S, m < n PROVE Rank(S, m) < Rank(S, n)
    <2>0. m \in Nat /\ n \in Nat /\ \A l \in S : l \in Nat
      OBVIOUS
    <2>a. ASSUME NEW l \in Upto(m) PROVE l \in Upto(n)
      BY <1>3, <2>0
    <2>b. n \in Upto(n) /\ n \notin Upto(m)
      BY <1>3, <2>0
    <2>1. Upto(m) \in SUBSET Upto(n) /\ n \in Upto(n) /\ n \notin Upto(m)
      BY <2>a, <2>b
    <2>2. IsFiniteSet(Upto(n)) /\ Rank(S, n) = Cardinality(Upto(n)) /\ Rank(S, m) = Cardinality(Upto(m))
          /\ Rank(S, m) \in 1 .. C /\ Rank(S, n) \in 1 .. C
      BY <1>2
    <2> HIDE DEF Upto, C
    <2>3. Cardinality(Upto(m)) <= Cardinality(Upto(n)) /\ Cardinality(Upto(m)) # Cardinality(Upto(n))
      BY <2>1, <2>2, FS_Subset
    <2> QED
      BY <1>1, <2>2, <2>3
  <1>4. rank \in Injection(S, 1 .. C)
    <2>1. rank \in [S -> 1 .. C]
      BY <1>2
    <2>2. ASSUME NEW m \in S, NEW n \in S, rank[m] = rank[n] PROVE m = n
      <3>1. rank[m] = Rank(S, m) /\ rank[n] = Rank(S, n) /\ Rank(S, m) \in 1 .. C /\ Rank(S, n) \in 1 .. C
        BY <1>2
      <3>2. Rank(S, m) = Rank(S, n) /\ Rank(S, m) \in Nat /\ m \in Nat /\ n \in Nat
        <4>1. m \in Nat /\ n \in Nat
          OBVIOUS
        <4>2. Rank(S, m) = Rank(S, n) /\ Rank(S, m) \in 1 .. C
          BY <2>2, <3>1
        <4> HIDE DEF C, rank
        <4> QED
          BY <1>1, <4>1, <4>2
      <3>3. ~ (m < n) /\ ~ (n < m)
        BY <1>3, <3>2
      <3> QED
        BY <3>2, <3>3
    <2> HIDE DEF rank
    <2> QED
      BY <2>1, <2>2 DEF Injection, IsInjective
  <1>5. rank \in Surjection(S, 1 .. C)
    <2>1. IsFiniteSet(1 .. C) /\ Cardinality(1 .. C) = C
      BY <1>1, FS_Interval
    <2> HIDE DEF rank
    <2> QED
      BY <1>1, <1>4, <2>1, FS_Injection
  <1>6. ASSUME NEW k \in 1 .. C PROVE \E n \in S : Rank(S, n) = k
    <2>1. \E n \in S : rank[n] = k
      <3> HIDE DEF rank
      <3> QED
        BY <1>5 DEF Surjection
    <2> QED
      BY <2>1
  <1> QED
    BY <1>1, <1>2, <1>3, <1>6

\* What is chosen are the members at these places, in their order.
LEMMA Choice ==
    ASSUME NEW N \in Nat, NEW S, S \in SUBSET (1 .. N), NEW s
    PROVE  /\ Cardinality(S) \in Nat /\ DOMAIN Chosen(s, S) = 1 .. Cardinality(S)
           /\ \A n \in S : Rank(S, n) \in 1 .. Cardinality(S) /\ Chosen(s, S)[Rank(S, n)] = s[n]
           /\ \A m, n \in S : m < n => Rank(S, m) < Rank(S, n)
           /\ \A k \in 1 .. Cardinality(S) : \E n \in S : Rank(S, n) = k
  <1>1. Chosen(s, S) = [k \in 1 .. Cardinality(S) |-> s[CHOOSE n \in S : Rank(S, n) = k]]
    BY DEF Chosen, Rank
  <1>2. ASSUME NEW n \in S PROVE Rank(S, n) \in 1 .. Cardinality(S) /\ Chosen(s, S)[Rank(S, n)] = s[n]
    <2> DEFINE k == Rank(S, n)
               m == CHOOSE l \in S : Rank(S, l) = k
    <2>1. k \in 1 .. Cardinality(S)
      BY Ranks
    <2>2. m \in S /\ Rank(S, m) = k
      OBVIOUS
    <2>3. Chosen(s, S)[k] = s[m]
      BY <1>1, <2>1
    <2> HIDE DEF m
    <2>4. m = n
      <3>1. m \in Nat /\ n \in Nat /\ Rank(S, m) \in Nat /\ Rank(S, n) \in Nat
        BY <2>2, <2>1, Ranks
      <3>2. \A x, y \in S : x < y => Rank(S, x) < Rank(S, y)
        BY Ranks
      <3>3. ~ (m < n) /\ ~ (n < m)
        BY <2>2, <3>1, <3>2
      <3> QED
        BY <3>1, <3>3
    <2> QED
      BY <2>1, <2>3, <2>4
  <1> QED
    BY <1>1, <1>2, Ranks

-----------------------------------------------------------------------------
(* The files keep the order of the records. *)

(* The files keep the order of the records. *)

Kinds == {"poll", "start", "snap", "tag"}

\* No line but the last is without its end, and each begins with a record later than
\* those before it.
Orderly(file) ==
    /\ \A k \in 1 .. Len(file) : k < Len(file) => Last(file[k]).left = "all"
    /\ \A k, l \in 1 .. Len(file) : k < l => file[k][1].rec.ts < file[l][1].rec.ts

\* The lines of a file and their fragments.
LEMMA LinesOfFile ==
    ASSUME NEW records, NEW file \in FileOf(records)
    PROVE  /\ Len(file) \in Nat /\ DOMAIN file = 1 .. Len(file)
           /\ \A k \in 1 .. Len(file) :
                 /\ file[k] \in Seq([rec : records, left : Left]) /\ Len(file[k]) \in Nat /\ Len(file[k]) > 0
                 /\ DOMAIN file[k] = 1 .. Len(file[k])
                 /\ \A j \in 1 .. Len(file[k]) : file[k][j].rec \in records /\ file[k][j].left \in Left
                 /\ Last(file[k]) = file[k][Len(file[k])]
           /\ file # <<>> => Len(file) \in 1 .. Len(file) /\ Last(file) = file[Len(file)]
           /\ file = <<>> => Len(file) = 0
  <1> DEFINE Fr == [rec : records, left : Left]
             Ln == Seq(Fr) \ {<<>>}
  <1>1. file \in Seq(Ln) /\ Ln \subseteq Seq(Fr) /\ <<>> \notin Ln
    BY DEF FileOf
  <1> HIDE DEF Ln
  <1>2. Len(file) \in Nat /\ DOMAIN file = 1 .. Len(file) /\ (file # <<>> => Len(file) # 0)
    BY <1>1, LenProperties, EmptySeq
  <1>3. ASSUME NEW k \in 1 .. Len(file)
        PROVE  /\ file[k] \in Seq(Fr) /\ Len(file[k]) \in Nat /\ Len(file[k]) > 0
               /\ DOMAIN file[k] = 1 .. Len(file[k])
               /\ \A j \in 1 .. Len(file[k]) : file[k][j].rec \in records /\ file[k][j].left \in Left
    <2> DEFINE l == file[k]
    <2>1. l \in Ln
      BY <1>1, ElementOfSeq
    <2> HIDE DEF l
    <2>2. l \in Seq(Fr) /\ l # <<>>
      BY <1>1, <2>1
    <2> HIDE DEF Fr
    <2>3. Len(l) \in Nat /\ Len(l) # 0 /\ DOMAIN l = 1 .. Len(l) /\ \A j \in 1 .. Len(l) : l[j] \in Fr
      BY <2>2, LenProperties, EmptySeq, ElementOfSeq
    <2> QED
      BY <2>2, <2>3 DEF l, Fr
  <1>4. \A k \in 1 .. Len(file) : Last(file[k]) = file[k][Len(file[k])]
    BY DEF Last
  <1>5. file # <<>> => Len(file) \in 1 .. Len(file) /\ Last(file) = file[Len(file)]
    BY <1>2 DEF Last
  <1>6. file = <<>> => Len(file) = 0
    BY EmptySeq
  <1> QED
    BY <1>2, <1>3, <1>4, <1>5, <1>6

\* A later record appended keeps the order.
LEMMA AppendedOrderly ==
    ASSUME NEW records, NEW file \in FileOf(records), Orderly(file), NEW r, \A q \in records : q.ts < r.ts
    PROVE  Orderly(Appended(file, r))
  <1> DEFINE whole == [rec |-> r, left |-> "all"]
             Fr == [rec : records \cup {r}, left : Left]
             Ls == Seq(Fr)
             a == Appended(file, r)
             m == Len(file)
  <1>1. whole \in Fr /\ whole.left = "all" /\ whole.rec = r
    BY DEF Left
  <1>2. file \in Seq(Ls) /\ m \in Nat /\ DOMAIN file = 1 .. m
    <2> DEFINE Gr == [rec : records, left : Left]
    <2>1. Gr \subseteq Fr /\ file \in Seq(Seq(Gr) \ {<<>>})
      BY DEF FileOf
    <2> HIDE DEF Gr, Fr
    <2>2. Seq(Gr) \ {<<>>} \subseteq Ls
      <3>1. Seq(Gr) \subseteq Ls
        BY <2>1, SeqMonotonic
      <3> QED
        BY <3>1
    <2>3. file \in Seq(Ls)
      <3> HIDE DEF Ls
      <3> QED
        BY <2>1, <2>2, SeqMonotonic
    <2> QED
      BY <2>3, LinesOfFile
  <1>3. \A k \in 1 .. m : /\ file[k] \in Seq(Fr) /\ Len(file[k]) \in Nat /\ Len(file[k]) > 0
                          /\ file[k][1].rec.ts < r.ts
                          /\ Last(file[k]) = file[k][Len(file[k])]
    <2>1. \A k \in 1 .. m : file[k] \in Ls
      <3> HIDE DEF Ls
      <3> QED
        BY <1>2, ElementOfSeq
    <2>2. \A k \in 1 .. m : Len(file[k]) \in Nat /\ Len(file[k]) > 0 /\ file[k][1].rec \in records
                            /\ Last(file[k]) = file[k][Len(file[k])]
      <3>1. ASSUME NEW k \in 1 .. m
            PROVE  /\ Len(file[k]) \in Nat /\ Len(file[k]) > 0 /\ Last(file[k]) = file[k][Len(file[k])]
                   /\ \A j \in 1 .. Len(file[k]) : file[k][j].rec \in records
        BY LinesOfFile
      <3>2. ASSUME NEW k \in 1 .. m PROVE 1 \in 1 .. Len(file[k])
        BY <3>1
      <3> QED
        BY <3>1, <3>2
    <2> QED
      BY <2>1, <2>2
  <1> HIDE DEF whole, Fr
  <1>4. CASE Open(file)
    <2> DEFINE l == Append(file[m], whole)
    <2>1. m \in 1 .. m
      BY <1>4, LinesOfFile DEF Open
    <2>2. l \in Seq(Fr) /\ l[1] = file[m][1]
      BY <1>1, <1>3, <2>1, AppendProperties
    <2>3. a = [file EXCEPT ![m] = l]
      BY <1>4 DEF Appended, whole
    <2> HIDE DEF l, a, Ls, m
    <2>3a. m = Len(file) /\ l \in Ls
      BY <2>2 DEF m, Ls
    <2>4. Len(a) = m /\ \A k \in 1 .. m : a[k] = IF k = m THEN l ELSE file[k]
      BY <1>2, <2>1, <2>3, <2>3a, ExceptSeq
    <2>5. \A k \in 1 .. m : a[k][1] = file[k][1]
      BY <2>2, <2>4
    <2>6. \A k \in 1 .. m : k < m => a[k] = file[k]
      BY <1>2, <2>4
    <2> QED
      BY <2>3a, <2>4, <2>5, <2>6 DEF Orderly, a
  <1>5. CASE ~Open(file)
    <2> DEFINE l == <<whole>>
    <2>1. l \in Seq(Fr) /\ l[1] = whole
      BY <1>1
    <2>2. a = Append(file, l)
      BY <1>5 DEF Appended, whole
    <2> HIDE DEF l, a
    <2>3. Len(a) = m + 1 /\ a[m + 1] = l /\ \A k \in 1 .. m : a[k] = file[k]
      BY <1>2, <2>1, <2>2, AppendProperties
    <2>4. m # 0 => Last(file[m]).left = "all"
      <3>1. m # 0 => file # <<>>
        BY EmptySeq
      <3> QED
        BY <1>5, <3>1, LinesOfFile DEF Open
    <2>5. ASSUME NEW k \in 1 .. m + 1, k < m + 1 PROVE Last(a[k]).left = "all"
      <3>1. k \in 1 .. m /\ a[k] = file[k]
        BY <1>2, <2>3, <2>5
      <3> QED
        BY <1>2, <2>4, <3>1 DEF Orderly
    <2>6. ASSUME NEW k \in 1 .. m + 1, NEW j \in 1 .. m + 1, k < j PROVE a[k][1].rec.ts < a[j][1].rec.ts
      <3>1. k \in 1 .. m /\ a[k] = file[k]
        BY <1>2, <2>3, <2>6
      <3>2. CASE j = m + 1
        <4>1. a[j][1].rec = r
          BY <1>1, <2>1, <2>3, <3>2
        <4> QED
          BY <1>3, <3>1, <4>1
      <3>3. CASE j # m + 1
        <4>1. j \in 1 .. m /\ a[j] = file[j]
          BY <1>2, <2>3, <3>3
        <4> QED
          BY <2>6, <3>1, <4>1 DEF Orderly
      <3> QED
        BY <3>2, <3>3
    <2> QED
      BY <2>3, <2>5, <2>6 DEF Orderly, a
  <1> QED
    BY <1>4, <1>5

\* A power cut keeps the order.
LEMMA HarmedOrderly ==
    ASSUME NEW records, NEW file \in FileOf(records), Orderly(file), NEW how \in Left
    PROVE  Orderly(Harmed(file, how))
  <1> DEFINE Fr == [rec : records, left : Left]
             Ls == Seq(Fr)
             h == Harmed(file, how)
             m == Len(file)
             last == file[m]
             k == Len(last)
             safe == file = <<>> \/ Open(file) \/ Last(Last(file)).rec.ts < LastBoot \/ how = "all"
  <1>1. CASE safe
    <2>1. h = file
      BY <1>1 DEF Harmed
    <2> QED
      BY <2>1
  <1>2. CASE ~safe
    <2>0. m = Len(file) /\ last = file[m] /\ k = Len(last)
      OBVIOUS
    <2>a. file # <<>> /\ h = IF how # "gone" THEN [file EXCEPT ![m][Len(Last(file))].left = how]
                            ELSE IF Len(Last(file)) = 1 THEN Front(file)
                            ELSE [file EXCEPT ![m] = Front(@)]
      BY <1>2 DEF Harmed
    <2>b. file \in Seq(Ls)
      <3> DEFINE Ln == Ls \ {<<>>}
      <3>1. Ln \subseteq Ls /\ file \in Seq(Ln)
        BY DEF FileOf
      <3> HIDE DEF Ln, Ls
      <3> QED
        BY <3>1, SeqMonotonic
    <2>c. /\ m \in Nat /\ m \in 1 .. m /\ Last(file) = last
          /\ last \in Seq(Fr) /\ k \in Nat /\ k > 0 /\ DOMAIN last = 1 .. k
      BY <2>a, LinesOfFile
    <2> HIDE DEF h, safe, Fr, Ls, last, m, k
    <2>1. h = IF how # "gone" THEN [file EXCEPT ![m][k].left = how]
              ELSE IF k = 1 THEN Front(file)
              ELSE [file EXCEPT ![m] = Front(@)]
      BY <2>0, <2>a, <2>c
    <2>2. ASSUME NEW l \in Seq(Fr), l[1].rec = last[1].rec, h = [file EXCEPT ![m] = l] PROVE Orderly(h)
      <3>0. l \in Ls
        BY DEF Ls
      <3>1. Len(h) = m /\ \A j \in 1 .. m : h[j] = IF j = m THEN l ELSE file[j]
        <4> HIDE DEF Ls
        <4> QED
          BY <2>0, <2>b, <2>c, <2>2, <3>0, ExceptSeq
      <3>2. \A j \in 1 .. m : h[j][1].rec = file[j][1].rec
        BY <2>0, <2>2, <3>1
      <3>3. \A j \in 1 .. m : j < m => h[j] = file[j]
        BY <2>c, <3>1
      <3> QED
        BY <2>0, <3>1, <3>2, <3>3 DEF Orderly
    <2>3. CASE how # "gone"
      <3> DEFINE f == [last[k] EXCEPT !.left = how]
                 l == [last EXCEPT ![k] = f]
      <3>1. h = [file EXCEPT ![m] = l]
        BY <2>0, <2>1, <2>3
      <3>2. f \in Fr /\ f.rec = last[k].rec
        <4>1. last[k] \in Fr
          BY <2>0, <2>c, ElementOfSeq
        <4> QED
          BY <4>1 DEF Fr
      <3> HIDE DEF f
      <3>3. l \in Seq(Fr) /\ \A j \in 1 .. k : l[j] = IF j = k THEN f ELSE last[j]
        <4>1. k \in 1 .. Len(last)
          BY <2>0, <2>c
        <4> QED
          BY <2>0, <2>c, <3>2, <4>1, ExceptSeq
      <3>4. l[1].rec = last[1].rec
        BY <2>c, <3>2, <3>3
      <3> HIDE DEF l
      <3> QED
        BY <2>2, <3>1, <3>3, <3>4 DEF h
    <2>4. CASE how = "gone" /\ k = 1
      <3>1. h = SubSeq(file, 1, m - 1)
        BY <2>0, <2>1, <2>4 DEF Front
      <3>2. Len(h) = m - 1 /\ \A j \in 1 .. m - 1 : h[j] = file[j]
        <4>1. \A j \in 1 .. m - 1 : file[j] \in Ls
          <5> HIDE DEF Ls
          <5> QED
            BY <2>0, <2>b, <2>c, ElementOfSeq
        <4> HIDE DEF Ls
        <4> QED
          BY <2>c, <3>1, <4>1, SubSeqProperties
      <3>3. \A j \in 1 .. m - 1 : j \in 1 .. m /\ j < m
        BY <2>c
      <3>4. Len(h) = m - 1 /\ \A j \in 1 .. m - 1 : h[j] = file[j] /\ j \in 1 .. m /\ j < m
        BY <3>2, <3>3
      <3>5. \A j \in 1 .. m - 1 : Last(h[j]).left = "all"
        BY <2>0, <3>4 DEF Orderly
      <3>6. \A i, j \in 1 .. m - 1 : i < j => h[i][1].rec.ts < h[j][1].rec.ts
        BY <2>0, <3>4 DEF Orderly
      <3> QED
        BY <3>4, <3>5, <3>6 DEF Orderly, h
    <2>5. CASE how = "gone" /\ k # 1
      <3> DEFINE l == SubSeq(last, 1, k - 1)
      <3>1. h = [file EXCEPT ![m] = l]
        BY <2>0, <2>1, <2>5 DEF Front
      <3>2. l \in Seq(Fr) /\ l[1] = last[1]
        <4>1. \A j \in 1 .. k - 1 : last[j] \in Fr
          BY <2>0, <2>c, ElementOfSeq
        <4>2. 1 \in 1 .. k - 1
          BY <2>c, <2>5
        <4> QED
          BY <2>c, <4>1, <4>2, SubSeqProperties
      <3> HIDE DEF l
      <3> QED
        BY <2>2, <3>1, <3>2 DEF h
    <2> QED
      BY <2>3, <2>4, <2>5 DEF h
  <1> QED
    BY <1>1, <1>2

\* What a step may do to a file.
Stays(name) == files'[name] = files[name] /\ written'[name] = written[name]

Grows(name) ==
    \E r : /\ r.kind \in Kinds /\ \A n \in 1 .. Len(written[name]) : written[name][n].ts < r.ts
           /\ files'[name] = Appended(files[name], r) /\ written'[name] = Append(written[name], r)

IsHarmed(name) ==
    \E how \in Left : files'[name] = Harmed(files[name], how) /\ written'[name] = written[name]

\* A record written makes one file grow, and leaves the others.
LEMMA WriteGrows ==
    ASSUME Account, NEW name \in Names, NEW r, Write(name, r), r.kind \in Kinds,
           \A n \in 1 .. Len(written[name]) : written[name][n].ts < r.ts
    PROVE  Grows(name) /\ \A other \in Names : other # name => Stays(other)
  <1>1. DOMAIN files = Names /\ DOMAIN written = Names
    BY DEF Account, Records
  <1> QED
    BY <1>1 DEF Write, Grows, Stays

\* What any step does to a file.
LEMMA NextFiles ==
    ASSUME Account, [Next]_vars, NEW name \in Names
    PROVE  Stays(name) \/ Grows(name) \/ IsHarmed(name)
  <1>0. /\ now \in Nat
        /\ \A q \in Names : \A n \in 1 .. Len(written[q]) : written[q][n].ts \in Nat /\ written[q][n].ts <= now
        /\ poller \in Nat => \A n \in 1 .. Len(written["tcp"]) : written["tcp"][n].ts < poller
    BY DEF Account, Clock, Records, Accounted
  <1>1. CASE UNCHANGED <<files, written>>
    BY <1>1 DEF Stays
  <1>2. ASSUME NEW q \in Names, NEW r, Write(q, r), r.kind \in Kinds,
               \A n \in 1 .. Len(written[q]) : written[q][n].ts < r.ts
        PROVE  Stays(name) \/ Grows(name)
    BY <1>2, WriteGrows
  <1>3. ASSUME NEW q \in Names, now' \in Nat, now' > now PROVE \A n \in 1 .. Len(written[q]) : written[q][n].ts < now'
    BY <1>0, <1>3
  <1>4. CASE Poll
    <2>1. now' \in Nat /\ now' > now
      BY <1>0, <1>4 DEF Poll, Takes
    <2> DEFINE r == [kind |-> "poll", ts |-> now', val |-> IF ramped THEN 1 ELSE 0]
    <2>2. Write("wire", r) /\ r.kind \in Kinds /\ r.ts = now'
      BY <1>4 DEF Poll, Kinds
    <2> HIDE DEF r
    <2>3. "wire" \in Names
      BY DEF Names
    <2>4. \A n \in 1 .. Len(written["wire"]) : written["wire"][n].ts < r.ts
      BY <1>3, <2>1, <2>2, <2>3
    <2> QED
      BY <1>2, <2>2, <2>3, <2>4
  <1>5. CASE Answered
    BY <1>0, <1>2, <1>5 DEF Answered, Names, Kinds
  <1>6. CASE ManualTag
    <2>1. now' \in Nat /\ now' > now
      BY <1>0, <1>6 DEF ManualTag, Takes
    <2> QED
      BY <1>2, <1>3, <1>6, <2>1 DEF ManualTag, WriteTag, Names, Kinds
  <1>7. CASE ReadLine
    <2>1. now' \in Nat /\ now' > now
      BY <1>0, <1>7 DEF ReadLine, Takes
    <2>2. (\E v : WriteTag(now', v)) \/ UNCHANGED <<files, written>>
      BY <1>7 DEF ReadLine
    <2>3. ASSUME NEW v, WriteTag(now', v) PROVE Stays(name) \/ Grows(name)
      BY <1>2, <1>3, <2>1, <2>3 DEF WriteTag, Names, Kinds
    <2> QED
      BY <1>1, <2>2, <2>3
  <1>8. CASE PowerCut
    <2>1. PICK harm \in Harms : files' = [q \in Names |-> Harmed(files[q], harm[q])]
      BY <1>8 DEF PowerCut
    <2>2. harm[name] \in Left
      BY FilesAssumption
    <2> QED
      BY <1>8, <2>1, <2>2 DEF PowerCut, IsHarmed
  <1>9. CASE Boot
    <2>1. Write("wire", Start(now'))
      BY <1>9 DEF Boot
    <2>2. now' \in Nat /\ now' > now
      BY <1>0, <1>9, FilesAssumption DEF Boot, Takes
    <2> QED
      BY <1>2, <1>3, <2>1, <2>2 DEF Start, Names, Kinds
  <1> QED
    BY <1>1, <1>4, <1>5, <1>6, <1>7, <1>8, <1>9
    DEF Next, vars, InverterRestarts, AskInverter, PollFails, StartTail, Finished

Ordered ==
    \A name \in Names : /\ Orderly(files[name])
                        /\ \A n \in 1 .. Len(written[name]) : written[name][n].kind \in Kinds

\* The files are empty.
LEMMA InitOrdered == Init => Ordered
  <1> SUFFICES ASSUME Init, NEW name \in Names
               PROVE  Orderly(files[name]) /\ \A n \in 1 .. Len(written[name]) : written[name][n].kind \in Kinds
    BY DEF Ordered
  <1>1. CASE name = "wire"
    <2>1. written[name] = <<Start(0)>> /\ files[name] = [n \in 1 .. Len(written[name]) |-> << [rec |-> written[name][n], left |-> "all"] >>]
      BY <1>1 DEF Init, Names
    <2>2. Len(written[name]) = 1 /\ Len(files[name]) = 1 /\ written[name][1].kind = "start"
      BY <2>1 DEF Start
    <2> QED
      BY <2>2 DEF Orderly, Kinds
  <1>2. CASE name # "wire"
    <2>1. written[name] = <<>> /\ files[name] = [n \in 1 .. Len(written[name]) |-> << [rec |-> written[name][n], left |-> "all"] >>]
      BY <1>2 DEF Init, Names
    <2>2. Len(written[name]) = 0 /\ Len(files[name]) = 0
      BY <2>1
    <2> QED
      BY <2>2 DEF Orderly
  <1> QED
    BY <1>1, <1>2

\* Every step keeps the order of the files.
LEMMA NextOrdered == Account /\ Ordered /\ [Next]_vars => Ordered'
  <1> SUFFICES ASSUME Account, Ordered, [Next]_vars, NEW name \in Names
               PROVE  (Orderly(files[name]) /\ \A n \in 1 .. Len(written[name]) : written[name][n].kind \in Kinds)'
    BY DEF Ordered
  <1> DEFINE file == files[name]
             w == written[name]
  <1>1. /\ Orderly(file) /\ \A n \in 1 .. Len(w) : w[n].kind \in Kinds
        /\ file \in FileOf(Range(w)) /\ w \in Seq(Range(w))
    BY DEF Ordered, Account, Records, Accounted
  <1>2. CASE Stays(name)
    <2>1. files'[name] = file /\ written'[name] = w
      BY <1>2 DEF Stays
    <2> HIDE DEF file, w
    <2>2. Orderly(files'[name]) /\ \A n \in 1 .. Len(written'[name]) : written'[name][n].kind \in Kinds
      BY <1>1, <2>1
    <2> QED
      BY <2>2 DEF Orderly
  <1>3. CASE Grows(name)
    <2>1. PICK r : /\ r.kind \in Kinds /\ \A n \in 1 .. Len(w) : w[n].ts < r.ts
                   /\ files'[name] = Appended(file, r) /\ written'[name] = Append(w, r)
      BY <1>3 DEF Grows
    <2> HIDE DEF file, w
    <2>2. \A q \in Range(w) : q.ts < r.ts
      BY <1>1, <2>1, LenProperties DEF Range
    <2>3. Orderly(files'[name])
      BY <1>1, <2>1, <2>2, AppendedOrderly
    <2>4. \A n \in 1 .. Len(written'[name]) : written'[name][n].kind \in Kinds
      <3>1. /\ Len(w) \in Nat /\ Len(Append(w, r)) = Len(w) + 1
            /\ Append(w, r)[Len(w) + 1] = r /\ \A n \in 1 .. Len(w) : Append(w, r)[n] = w[n]
        BY <1>1, Appending
      <3> QED
        BY <1>1, <2>1, <3>1
    <2> QED
      BY <2>3, <2>4 DEF Orderly
  <1>4. CASE IsHarmed(name)
    <2>1. PICK how \in Left : files'[name] = Harmed(file, how) /\ written'[name] = w
      BY <1>4 DEF IsHarmed
    <2> HIDE DEF file, w
    <2>2. Orderly(files'[name])
      BY <1>1, <2>1, HarmedOrderly
    <2>3. \A n \in 1 .. Len(written'[name]) : written'[name][n].kind \in Kinds
      BY <1>1, <2>1
    <2> QED
      BY <2>2, <2>3 DEF Orderly
  <1> QED
    BY <1>2, <1>3, <1>4, NextFiles

\* Whatever power cuts leave of them, the lines of every file begin with records in the
\* order of their times.
THEOREM OrderedHolds == Spec => []Ordered
  <1> QED
    BY AccountHolds, InitOrdered, NextOrdered, PTL DEF Spec

-----------------------------------------------------------------------------
(* The status report reads the last line that has a time. *)

\* The sums are what they should be, and no sum is less than one before it.
LEMMA SumsAre ==
    ASSUME NEW n \in Nat, NEW d \in [1 .. n -> Nat], Len(d) = n
    PROVE  /\ Sums(d) \in [0 .. n -> Nat]
           /\ Sums(d)[0] = 0 /\ \A k \in 1 .. n : Sums(d)[k] = Sums(d)[k - 1] + d[k]
           /\ \A k, l \in 0 .. n : k <= l => Sums(d)[k] <= Sums(d)[l]
  <1> DEFINE g == [p \in (0 .. n) \X Nat |-> IF p[1] = 0 THEN 0 ELSE p[2] + d[p[1]]]
             F == CHOOSE s : s = [k \in 0 .. n |-> IF k = 0 THEN 0 ELSE s[k - 1] + d[k]]
  <1>1. Sums(d) = F
    BY DEF Sums
  <1>2. g \in [(0 .. n) \X Nat -> Nat] /\ \A k \in 1 .. n : \A m \in Nat : g[<<k, m>>] = m + d[k]
    OBVIOUS
  <1> HIDE DEF g
  <1>3. PICK f : Runs(f, n, Nat, 0, g)
    BY <1>2, Recursion
  <1>4. f \in [0 .. n -> Nat] /\ f[0] = 0 /\ \A k \in 1 .. n : f[k] = f[k - 1] + d[k]
    <2>1. f \in [0 .. n -> Nat] /\ f[0] = 0 /\ \A k \in 1 .. n : f[k] = g[<<k, f[k - 1]>>]
      BY <1>3 DEF Runs
    <2>2. \A k \in 1 .. n : f[k - 1] \in Nat
      BY <2>1
    <2> QED
      BY <1>2, <2>1, <2>2
  <1>5. f = [k \in 0 .. n |-> IF k = 0 THEN 0 ELSE f[k - 1] + d[k]]
    <2>1. ASSUME NEW k \in 0 .. n PROVE f[k] = IF k = 0 THEN 0 ELSE f[k - 1] + d[k]
      BY <1>4
    <2> QED
      BY <1>4, <2>1
  <1>6. F = [k \in 0 .. n |-> IF k = 0 THEN 0 ELSE F[k - 1] + d[k]]
    BY <1>5
  <1> HIDE DEF F
  <1>7. F[0] = 0 /\ \A k \in 1 .. n : F[k] = F[k - 1] + d[k]
    <2>1. \A k \in 0 .. n : F[k] = IF k = 0 THEN 0 ELSE F[k - 1] + d[k]
      BY <1>6
    <2> QED
      BY <2>1
  <1>8. \A k \in 0 .. n : F[k] \in Nat
    <2> DEFINE S == {k \in 0 .. n : F[k] \in Nat}
    <2>1. 0 \in S
      BY <1>7
    <2>2. ASSUME NEW k \in 0 .. n - 1, k \in S PROVE k + 1 \in S
      <3>1. k + 1 \in 1 .. n /\ k + 1 - 1 = k /\ F[k] \in Nat /\ d[k + 1] \in Nat
        BY <2>2
      <3>2. F[k + 1] = F[k] + d[k + 1]
        BY <1>7, <3>1
      <3> QED
        BY <3>1, <3>2
    <2> HIDE DEF S
    <2>3. 0 .. n \subseteq S
      BY <2>1, <2>2, Steps
    <2> QED
      BY <2>3 DEF S
  <1>9. \A l \in 0 .. n : \A k \in 0 .. l : F[k] <= F[l]
    <2> DEFINE S == {l \in 0 .. n : \A k \in 0 .. l : F[k] <= F[l]}
    <2>1. 0 \in S
      BY <1>7
    <2>2. ASSUME NEW l \in 0 .. n - 1, l \in S PROVE l + 1 \in S
      <3>1. l + 1 \in 1 .. n /\ l + 1 - 1 = l /\ F[l] \in Nat /\ d[l + 1] \in Nat /\ F[l + 1] \in Nat
        BY <1>8
      <3>2. F[l + 1] = F[l] + d[l + 1]
        BY <1>7, <3>1
      <3>3. ASSUME NEW k \in 0 .. l + 1 PROVE F[k] <= F[l + 1]
        <4>1. CASE k = l + 1
          BY <3>1, <4>1
        <4>2. CASE k # l + 1
          <5>1. k \in 0 .. l /\ F[k] \in Nat
            BY <1>8, <4>2
          <5>2. F[k] <= F[l]
            BY <2>2, <5>1
          <5> QED
            BY <3>1, <3>2, <5>1, <5>2
        <4> QED
          BY <4>1, <4>2
      <3> QED
        BY <3>1, <3>3
    <2> HIDE DEF S
    <2>3. 0 .. n \subseteq S
      BY <2>1, <2>2, Steps
    <2> QED
      BY <2>3 DEF S
  <1>10. F \in [0 .. n -> Nat]
    BY <1>6, <1>8
  <1>11. \A k, l \in 0 .. n : k <= l => F[k] <= F[l]
    <2>1. ASSUME NEW k \in 0 .. n, NEW l \in 0 .. n, k <= l PROVE F[k] <= F[l]
      <3>1. k \in 0 .. l
        BY <2>1
      <3> QED
        BY <1>9, <3>1
    <2> QED
      BY <2>1
  <1> QED
    BY <1>1, <1>7, <1>10, <1>11

\* A window takes in the last lines, and all of them when it is as large as the file.
LEMMA WindowIsSuffix ==
    ASSUME NEW records, NEW file \in FileOf(records), \A r \in records : r.kind \in Kinds, NEW bytes \in Nat
    PROVE  /\ LineEnds(file)[Len(file)] \in Nat
           /\ LinesInWindow(file, bytes) \subseteq DOMAIN file
           /\ bytes >= LineEnds(file)[Len(file)] => LinesInWindow(file, bytes) = DOMAIN file
           /\ \A k, l \in DOMAIN file : k <= l /\ k \in LinesInWindow(file, bytes) => l \in LinesInWindow(file, bytes)
  <1> DEFINE N == Len(file)
             d == [n \in 1 .. N |-> LineSize(file[n])]
             end == LineEnds(file)
  <1>1. N \in Nat /\ DOMAIN file = 1 .. N
    BY LinesOfFile
  <1>2. ASSUME NEW n \in 1 .. N PROVE LineSize(file[n]) \in Nat
    <2> DEFINE L == Len(file[n])
               e == [k \in 1 .. L |-> Size[file[n][k].rec.kind]]
    <2>1. L \in Nat /\ \A k \in 1 .. L : file[n][k].rec \in records
      BY LinesOfFile
    <2>2. \A k \in 1 .. L : Size[file[n][k].rec.kind] \in Nat
      BY <2>1, ToolsAssumption DEF Kinds
    <2>3. LineSize(file[n]) = Sums(e)[L]
      BY DEF LineSize
    <2> HIDE DEF L
    <2>4. e \in [1 .. L -> Nat] /\ Len(e) = L
      BY <2>1, <2>2
    <2> HIDE DEF e
    <2>5. Sums(e) \in [0 .. L -> Nat]
      BY <2>1, <2>4, SumsAre
    <2> QED
      BY <2>1, <2>3, <2>5
  <1>3. end = Sums(d)
    BY DEF LineEnds
  <1> HIDE DEF N
  <1>4. d \in [1 .. N -> Nat] /\ Len(d) = N
    BY <1>1, <1>2
  <1> HIDE DEF d, end
  <1>5. end \in [0 .. N -> Nat] /\ \A k, l \in 0 .. N : k <= l => end[k] <= end[l]
    BY <1>1, <1>3, <1>4, SumsAre
  <1>6. LinesInWindow(file, bytes) = {n \in 1 .. N : end[N] - bytes <= 0 \/ end[n - 1] > end[N] - bytes}
    BY <1>1 DEF LinesInWindow, N, end
  <1>7. end[N] \in Nat
    BY <1>1, <1>5
  <1>8. ASSUME NEW k \in 1 .. N, NEW l \in 1 .. N, k <= l, k \in LinesInWindow(file, bytes)
        PROVE  l \in LinesInWindow(file, bytes)
    <2>1. k - 1 \in 0 .. N /\ l - 1 \in 0 .. N /\ k - 1 <= l - 1
      BY <1>1, <1>8
    <2>2. end[k - 1] <= end[l - 1] /\ end[k - 1] \in Nat /\ end[l - 1] \in Nat
      BY <1>5, <2>1
    <2> QED
      BY <1>6, <1>7, <1>8, <2>2
  <1>9. bytes >= end[N] => LinesInWindow(file, bytes) = 1 .. N
    BY <1>6, <1>7
  <1> QED
    BY <1>1, <1>6, <1>7, <1>8, <1>9 DEF N, end

Parseable(name) == {n \in DOMAIN files[name] : ParseLineTime(name, n) # None}

\* However long its lines are, what is read is the last line of the file that has a time.
LEMMA LastLineTimeIs ==
    ASSUME Account, Ordered, NEW name \in Names
    PROVE  /\ Parseable(name) # {} => /\ Max(Parseable(name)) \in Parseable(name)
                                      /\ \A k \in Parseable(name) : k <= Max(Parseable(name))
           /\ LastLineTime(name) = IF Parseable(name) = {} THEN None ELSE ParseLineTime(name, Max(Parseable(name)))
  <1> DEFINE file == files[name]
             N == Len(file)
             P == Parseable(name)
             size == LineEnds(file)[N]
             Found(window) == {n \in LinesInWindow(file, window) : ParseLineTime(name, n) # None}
             R == IF P = {} THEN None ELSE ParseLineTime(name, Max(P))
             look == CHOOSE h : h = [window \in Nat |->
                        IF Found(window) # {} THEN ParseLineTime(name, Max(Found(window)))
                        ELSE IF window >= size THEN None ELSE h[4 * window]]
  <1>1. LastLineTime(name) = look[TailBytes]
    BY DEF LastLineTime
  <1>2. file \in FileOf(Range(written[name])) /\ \A r \in Range(written[name]) : r.kind \in Kinds
    <2>1. /\ file \in FileOf(Range(written[name])) /\ written[name] \in Seq(Range(written[name]))
          /\ \A n \in 1 .. Len(written[name]) : written[name][n].kind \in Kinds
      BY DEF Account, Records, Accounted, Ordered
    <2> QED
      BY <2>1, LenProperties DEF Range
  <1>3. N \in Nat /\ DOMAIN file = 1 .. N /\ size \in Nat
    BY <1>2, LinesOfFile, WindowIsSuffix
  <1>a. ASSUME NEW w \in Nat
        PROVE  /\ LinesInWindow(file, w) \subseteq 1 .. N /\ (w >= size => LinesInWindow(file, w) = 1 .. N)
               /\ \A k, l \in 1 .. N : k <= l /\ k \in LinesInWindow(file, w) => l \in LinesInWindow(file, w)
    <2> HIDE DEF file
    <2> QED
      BY <1>2, <1>3, WindowIsSuffix DEF N, size
  <1>4. P = {n \in 1 .. N : ParseLineTime(name, n) # None}
    BY <1>3 DEF Parseable
  <1>b. P \in SUBSET (0 .. N)
    BY <1>3, <1>4
  <1> HIDE DEF N, P, size, file
  <1>5. P # {} => Max(P) \in P /\ \A k \in P : k <= Max(P)
    BY <1>3, <1>b, Greatest
  \* All the lines with a time behind one that is found are found too.
  <1>6. ASSUME NEW w \in Nat PROVE /\ Found(w) # {} => P # {} /\ Max(Found(w)) = Max(P)
                                   /\ w >= size => Found(w) = P
    <2> DEFINE Fw == Found(w)
    <2>1. Fw \subseteq P /\ (w >= size => Fw = P)
      BY <1>4, <1>a
    <2>2. ASSUME Fw # {} PROVE P # {} /\ Max(Fw) = Max(P)
      <3>1. P # {} /\ Max(P) \in P /\ \A k \in P : k <= Max(P)
        BY <1>5, <2>1, <2>2
      <3>2. PICK k \in Fw : TRUE
        BY <2>2
      <3>3. k \in 1 .. N /\ Max(P) \in 1 .. N /\ k <= Max(P) /\ k \in LinesInWindow(file, w)
        BY <1>4, <2>1, <3>1, <3>2
      <3>4. Max(P) \in LinesInWindow(file, w)
        BY <1>a, <3>3
      <3>5. Max(P) \in Fw
        BY <1>4, <3>1, <3>4
      <3> HIDE DEF Fw
      <3>6. Fw \in SUBSET (0 .. N)
        BY <1>b, <2>1
      <3>7. Max(Fw) \in Fw /\ \A j \in Fw : j <= Max(Fw)
        BY <1>3, <2>2, <3>6, Greatest
      <3>8. Max(Fw) <= Max(P) /\ Max(P) <= Max(Fw) /\ Max(Fw) \in Nat /\ Max(P) \in Nat
        <4> DEFINE a == Max(Fw)
                   b == Max(P)
        <4>1. a \in 0 .. N /\ b \in 1 .. N /\ a \in P
          BY <2>1, <3>3, <3>6, <3>7
        <4>2. b <= a /\ a <= b
          BY <3>1, <3>5, <3>7, <4>1
        <4> HIDE DEF a, b
        <4>3. a \in Nat /\ b \in Nat
          BY <1>3, <4>1
        <4> QED
          BY <4>2, <4>3 DEF a, b
      <3> QED
        BY <3>1, <3>8
    <2> QED
      BY <2>1, <2>2
  <1> HIDE DEF Found
  <1>7. look = [window \in Nat |->
                   IF Found(window) # {} THEN ParseLineTime(name, Max(Found(window)))
                   ELSE IF window >= size THEN None ELSE look[4 * window]]
    <2> DEFINE h == [window \in Nat |-> R]
    <2>1. ASSUME NEW w \in Nat
          PROVE  h[w] = IF Found(w) # {} THEN ParseLineTime(name, Max(Found(w)))
                        ELSE IF w >= size THEN None ELSE h[4 * w]
      <3>1. h[w] = R /\ h[4 * w] = R
        OBVIOUS
      <3> HIDE DEF h
      <3> QED
        BY <1>6, <3>1
    <2>2. h = [window \in Nat |->
                   IF Found(window) # {} THEN ParseLineTime(name, Max(Found(window)))
                   ELSE IF window >= size THEN None ELSE h[4 * window]]
      <3> DEFINE e(w) == IF Found(w) # {} THEN ParseLineTime(name, Max(Found(w)))
                         ELSE IF w >= size THEN None ELSE h[4 * w]
      <3>1. h = [w \in Nat |-> h[w]]
        OBVIOUS
      <3>2. \A w \in Nat : h[w] = e(w)
        BY <2>1
      <3> HIDE DEF h, e
      <3>3. h = [w \in Nat |-> e(w)]
        BY <3>1, <3>2
      <3> QED
        BY <3>3 DEF e
    <2> HIDE DEF h
    <2> QED
      BY <2>2
  <1> HIDE DEF look, R
  <1>8. ASSUME NEW w \in Nat, w >= size \/ look[4 * w] = R PROVE look[w] = R
    <2>1. look[w] = IF Found(w) # {} THEN ParseLineTime(name, Max(Found(w)))
                    ELSE IF w >= size THEN None ELSE look[4 * w]
      BY <1>7
    <2>2. /\ Found(w) # {} => P # {} /\ Max(Found(w)) = Max(P)
          /\ w >= size => Found(w) = P
      BY <1>6
    <2> QED
      BY <1>8, <2>1, <2>2 DEF R
  \* The windows grow until they are as large as the file.
  <1>9. \A m \in 0 .. size : \A w \in Nat : w > 0 /\ w + m >= size => look[w] = R
    <2> DEFINE S == {m \in 0 .. size : \A w \in Nat : w > 0 /\ w + m >= size => look[w] = R}
    <2>1. 0 \in S
      BY <1>3, <1>8
    <2>2. ASSUME NEW m \in 0 .. size - 1, m \in S PROVE m + 1 \in S
      <3>1. ASSUME NEW w \in Nat, w > 0, w + (m + 1) >= size PROVE look[w] = R
        <4>1. 4 * w \in Nat /\ 4 * w > 0 /\ 4 * w + m >= size
          BY <1>3, <3>1
        <4>2. look[4 * w] = R
          BY <2>2, <4>1
        <4> QED
          BY <1>8, <4>2
      <3> QED
        BY <1>3, <3>1
    <2> HIDE DEF S
    <2>3. 0 .. size \subseteq S
      BY <1>3, <2>1, <2>2, Steps
    <2> QED
      BY <2>3 DEF S
  <1>10. look[TailBytes] = R
    <2>1. TailBytes \in Nat /\ TailBytes > 0 /\ TailBytes + size >= size /\ size \in 0 .. size
      BY <1>3, ToolsAssumption
    <2> QED
      BY <1>9, <2>1
  <1> QED
    BY <1>1, <1>5, <1>10 DEF P, R

\* A line without a time gives none; a line that has one gives that of its first record,
\* unless it ends inside it.
LEMMA LineTimes ==
    ASSUME NEW name \in {"wire", "tcp"}, NEW n, files[name][n][1].rec.ts \in Nat
    PROVE  LET line == files[name][n]
               t == line[1].rec.ts
           IN  /\ \/ ParseLineTime(name, n) \in {None, t}
                  \/ ParseLineTime(name, n) \in 0 .. t /\ line[1].left = "time" /\ Len(line) = 1
               /\ /\ Len(line) = 1 /\ line[1].left = "all"
                  /\ name = "wire" => line[1].rec.kind = "poll"
                  => ParseLineTime(name, n) = t
  <1> DEFINE line == files[name][n]
             t == line[1].rec.ts
             poll == line[1].rec.kind = "poll"
             whole == name = "tcp" /\ IsRecord(line)
             word == name = "wire" /\ poll /\ line[1].left \in {"all", "bare", "cut"}
             part == name = "wire" /\ poll /\ line[1].left = "time" /\ Len(line) = 1
             p == ParseLineTime(name, n)
  <1>1. p = CASE whole -> t [] word -> t [] part -> t - (t % Hour) [] OTHER -> None
    BY DEF ParseLineTime
  <1>2. ~ (whole /\ word) /\ ~ (whole /\ part) /\ ~ (word /\ part)
    OBVIOUS
  <1>3. part => line[1].left = "time" /\ Len(line) = 1
    OBVIOUS
  <1>4. Len(line) = 1 /\ line[1].left = "all" /\ (name = "wire" => poll) => whole \/ word
    BY DEF IsRecord
  <1>5. t - (t % Hour) \in 0 .. t
    <2>1. t % Hour \in 0 .. t
      <3>1. Hour \in Nat \ {0} /\ t \in Nat
        BY ToolsAssumption
      <3> HIDE DEF t
      <3>2. t % Hour \in 0 .. Hour - 1 /\ t = Hour * (t \div Hour) + (t % Hour) /\ t \div Hour \in Nat
        BY <3>1
      <3>3. Hour * (t \div Hour) \in Nat
        BY <3>1, <3>2
      <3> QED
        BY <3>1, <3>2, <3>3
    <2> QED
      BY <2>1
  <1> HIDE DEF whole, word, part, p
  <1>6. /\ whole \/ word => p = t
        /\ part => p = t - (t % Hour)
        /\ ~whole /\ ~word /\ ~part => p = None
    BY <1>1, <1>2
  <1>7. p \in {None, t} \/ (p \in 0 .. t /\ line[1].left = "time" /\ Len(line) = 1)
    BY <1>3, <1>5, <1>6
  <1>8. Len(line) = 1 /\ line[1].left = "all" /\ (name = "wire" => poll) => p = t
    BY <1>4, <1>6
  <1> QED
    BY <1>7, <1>8 DEF p

\* The last line with a time is that of the last record that has left a whole line.
LEMMA StatusFollows == Account /\ Ordered => StatusIsLast
  <1> SUFFICES ASSUME Account, Ordered, NEW name \in {"wire", "tcp"}
               PROVE  LET t == LastLineTime(name)
                      IN  /\ t # None => \E n \in DOMAIN written[name] : t <= written[name][n].ts
                          /\ WholeLines(name) # {} /\ (files[name] # <<>> => Last(Last(files[name])).left # "time")
                             => t >= RecordOf(files[name][Max(WholeLines(name))]).ts
    BY DEF StatusIsLast
  <1> DEFINE file == files[name]
             w == written[name]
             t == LastLineTime(name)
             P == Parseable(name)
             M == Max(P)
             Ts(n) == file[n][1].rec.ts
  <1>1. name \in Names
    BY DEF Names
  <1>2. /\ file \in FileOf(Range(w)) /\ w \in Seq(Range(w)) /\ Orderly(file)
        /\ \A n \in 1 .. Len(w) : w[n].ts \in Nat
        /\ \A n \in 1 .. Len(w) : name = "wire" => w[n].kind \in {"start", "poll"}
    BY <1>1 DEF Account, Records, Accounted, Ordered
  <1>3. DOMAIN w = 1 .. Len(w)
    BY <1>2, LenProperties
  <1>4. Len(file) \in Nat /\ DOMAIN file = 1 .. Len(file)
    BY <1>2, LinesOfFile
  <1>5. ASSUME NEW n \in DOMAIN file
        PROVE  /\ n \in 1 .. Len(file) /\ Ts(n) \in Nat
               /\ \E m \in DOMAIN w : file[n][1].rec = w[m]
               /\ name = "wire" => file[n][1].rec.kind \in {"start", "poll"}
               /\ Last(file[n]) = file[n][Len(file[n])]
               /\ n = Len(file) => Last(file) = file[n] /\ file # <<>>
    <2> DEFINE R == Range(w)
    <2> HIDE DEF R, file
    <2>0. file \in FileOf(R) /\ n \in 1 .. Len(file)
      BY <1>2, <1>4 DEF R
    <2>1. /\ Len(file[n]) \in Nat /\ Len(file[n]) > 0
          /\ \A j \in 1 .. Len(file[n]) : file[n][j].rec \in R
          /\ Last(file[n]) = file[n][Len(file[n])]
      BY <2>0, LinesOfFile
    <2>2. file[n][1].rec \in R
      BY <2>1
    <2>3. n = Len(file) => Last(file) = file[n] /\ file # <<>>
      <3>1. /\ file = <<>> => Len(file) = 0
            /\ file # <<>> => Last(file) = file[Len(file)]
            /\ Len(file) \in Nat
        BY <2>0, LinesOfFile
      <3>2. Len(file) # 0
        BY <2>0, <3>1
      <3> QED
        BY <3>1, <3>2
    <2>4. PICK m \in DOMAIN w : file[n][1].rec = w[m]
      BY <2>2 DEF R, Range
    <2> QED
      BY <1>2, <1>3, <2>0, <2>1, <2>3, <2>4
  <1>6. /\ P # {} => M \in P /\ \A k \in P : k <= M
        /\ t = IF P = {} THEN None ELSE ParseLineTime(name, M)
    BY <1>1, LastLineTimeIs
  <1>7. P = {n \in DOMAIN file : ParseLineTime(name, n) # None}
    BY DEF Parseable
  <1>8. ASSUME NEW n \in DOMAIN file
        PROVE  /\ \/ ParseLineTime(name, n) \in {None, Ts(n)}
                  \/ ParseLineTime(name, n) \in 0 .. Ts(n) /\ file[n][1].left = "time" /\ Len(file[n]) = 1
               /\ /\ Len(file[n]) = 1 /\ file[n][1].left = "all"
                  /\ name = "wire" => file[n][1].rec.kind = "poll"
                  => ParseLineTime(name, n) = Ts(n)
    <2>1. files[name][n][1].rec.ts \in Nat
      BY <1>5
    <2> QED
      BY <2>1, LineTimes
  <1> HIDE DEF P, M, t
  <1>9. ASSUME t # None PROVE \E n \in DOMAIN w : t <= w[n].ts
    <2>1. M \in DOMAIN file /\ ParseLineTime(name, M) # None /\ t = ParseLineTime(name, M)
      BY <1>6, <1>7, <1>9
    <2>2. t \in 0 .. Ts(M) \/ t = Ts(M)
      BY <1>8, <2>1
    <2>3. PICK n \in DOMAIN w : file[M][1].rec = w[n]
      BY <1>5, <2>1
    <2>4. Ts(M) \in Nat /\ Ts(M) = w[n].ts
      BY <1>5, <2>1, <2>3
    <2> QED
      BY <2>2, <2>4
  <1>10. ASSUME WholeLines(name) # {}, file # <<>> => Last(Last(file)).left # "time"
         PROVE  t >= RecordOf(file[Max(WholeLines(name))]).ts
    <2> DEFINE WL == WholeLines(name)
               W == Max(WL)
    <2>1. WL = {n \in DOMAIN file : Len(file[n]) = 1 /\ file[n][1].left = "all" /\ file[n][1].rec.kind # "start"}
      BY DEF WholeLines
    <2>2. W \in WL
      <3> HIDE DEF WL
      <3>1. WL \in SUBSET (0 .. Len(file)) /\ WL # {}
        BY <1>4, <1>10, <2>1 DEF WL
      <3> QED
        BY <1>4, <3>1, Greatest
    <2> HIDE DEF W, WL
    <2>3. /\ W \in DOMAIN file /\ Len(file[W]) = 1 /\ file[W][1].left = "all"
          /\ name = "wire" => file[W][1].rec.kind = "poll"
      BY <1>5, <2>1, <2>2
    <2>4. RecordOf(file[W]).ts = Ts(W) /\ Ts(W) \in Nat
      BY <1>5, <2>3 DEF RecordOf
    <2>5. ParseLineTime(name, W) = Ts(W) /\ W \in P
      <3>1. ParseLineTime(name, W) = Ts(W)
        BY <1>8, <2>3
      <3> HIDE DEF Ts
      <3> QED
        BY <1>7, <2>3, <2>4, <3>1 DEF None
    <2>6. /\ M \in DOMAIN file /\ W <= M /\ t = ParseLineTime(name, M)
          /\ t # None /\ Ts(M) \in Nat
      BY <1>5, <1>6, <1>7, <2>5
    <2>7. CASE W = M
      BY <2>4, <2>5, <2>6, <2>7 DEF W, WL
    <2>8. CASE W # M
      <3>1. W \in 1 .. Len(file) /\ M \in 1 .. Len(file) /\ W < M
        BY <1>4, <2>3, <2>6, <2>8
      <3>2. Ts(W) < Ts(M)
        BY <1>2, <3>1 DEF Orderly
      <3>3. ~ (file[M][1].left = "time" /\ Len(file[M]) = 1)
        <4>1. ASSUME file[M][1].left = "time", Len(file[M]) = 1 PROVE FALSE
          <5>1. Last(file[M]).left = "time"
            BY <1>5, <2>6, <4>1
          <5>2. ~ (M < Len(file))
            BY <1>2, <3>1, <5>1 DEF Orderly
          <5>3. M = Len(file)
            BY <1>4, <3>1, <5>2
          <5> QED
            BY <1>5, <1>10, <2>6, <5>1, <5>3
        <4> QED
          BY <4>1
      <3>4. t = Ts(M)
        BY <1>8, <2>6, <3>3
      <3> QED
        BY <2>4, <2>6, <3>2, <3>4 DEF W, WL
    <2> QED
      BY <2>7, <2>8
  <1> QED
    BY <1>9, <1>10 DEF t

\* Whatever power cuts leave of the files and however long their lines are, the status
\* report is never newer than the last line written and never older than the last whole
\* one, unless the file ends inside a time (givcap_status.py:37-62).
THEOREM StatusIsLastHolds == Spec => []StatusIsLast
  <1> QED
    BY AccountHolds, OrderedHolds, StatusFollows, PTL

-----------------------------------------------------------------------------
(* Sequences that grow. *)

\* Flattening goes from left to right.
LEMMA FlattenMore ==
    ASSUME NEW T, NEW s \in Seq(Seq(T)), NEW t \in Seq(T)
    PROVE  /\ FlattenSeq(s) \in Seq(T)
           /\ FlattenSeq(Append(s, t)) = FlattenSeq(s) \o t
  <1> DEFINE V == Seq(T)
             n == Len(s)
             u == Append(s, t)
  <1> HIDE DEF V
  <1>1. s \in Seq(V) /\ t \in V
    BY DEF V
  <1>2. n \in Nat /\ u \in Seq(V) /\ Len(u) = n + 1 /\ u[n + 1] = t /\ \A k \in 1 .. n : u[k] = s[k]
    BY <1>1, AppendProperties, LenProperties
  <1> HIDE DEF n, u
  <1>3. PICK f \in [0 .. n -> V] : /\ f[0] = <<>> /\ \A k \in 1 .. n : f[k] = f[k - 1] \o s[k]
                                   /\ FlattenSeq(s) = f[n]
    BY Flattening DEF V, n
  <1>4. PICK g \in [0 .. n + 1 -> V] : /\ g[0] = <<>> /\ \A k \in 1 .. n + 1 : g[k] = g[k - 1] \o u[k]
                                       /\ FlattenSeq(u) = g[n + 1]
    <2>1. u \in Seq(Seq(T))
      BY <1>2 DEF V
    <2>2. PICK g \in [0 .. Len(u) -> Seq(T)] : /\ g[0] = <<>> /\ \A k \in 1 .. Len(u) : g[k] = g[k - 1] \o u[k]
                                               /\ FlattenSeq(u) = g[Len(u)]
      BY <2>1, Flattening
    <2>3. Len(u) = n + 1
      BY <1>2
    <2> QED
      BY <2>2, <2>3 DEF V
  <1>5. \A k \in 0 .. n : g[k] = f[k]
    <2> DEFINE S == {k \in 0 .. n : g[k] = f[k]}
    <2>1. 0 \in S
      BY <1>2, <1>3, <1>4
    <2>2. ASSUME NEW k \in 0 .. n - 1, k \in S PROVE k + 1 \in S
      <3>1. PICK j \in 1 .. n : j = k + 1 /\ j - 1 = k /\ j \in 1 .. n + 1 /\ j \in 0 .. n
        BY <1>2
      <3>2. f[j] = f[k] \o s[j]
        BY <1>3, <3>1
      <3>3. g[j] = g[k] \o u[j]
        BY <1>2, <1>4, <3>1
      <3>4. g[k] = f[k] /\ u[j] = s[j]
        BY <1>2, <2>2, <3>1
      <3>5. g[j] = f[j]
        BY <3>2, <3>3, <3>4
      <3> QED
        BY <3>1, <3>5
    <2> HIDE DEF S
    <2>3. 0 .. n \subseteq S
      BY <1>2, <2>1, <2>2, Steps
    <2> QED
      BY <2>3 DEF S
  <1>6. g[n + 1] = f[n] \o t
    <2>1. PICK j \in 1 .. n + 1 : j = n + 1 /\ j - 1 = n /\ n \in 0 .. n
      BY <1>2
    <2>2. g[j] = g[j - 1] \o u[j]
      BY <1>4
    <2>3. u[j] = t /\ g[n] = f[n]
      BY <1>2, <1>5, <2>1
    <2> QED
      BY <2>1, <2>2, <2>3
  <1>7. f[n] \in V
    BY <1>2, <1>3
  <1> QED
    BY <1>3, <1>4, <1>6, <1>7 DEF V, u

\* What is appended to a file is its last fragment.
LEMMA AppendedFragments ==
    ASSUME NEW records, NEW file \in FileOf(records), NEW r
    PROVE  LET Fr == [rec : records \cup {r}, left : Left]
               whole == [rec |-> r, left |-> "all"]
           IN  /\ Fragments(file) \in Seq(Fr) /\ whole \in Fr
               /\ Fragments(Appended(file, r)) = Append(Fragments(file), whole)
  <1> DEFINE Fr == [rec : records \cup {r}, left : Left]
             Ls == Seq(Fr)
             whole == [rec |-> r, left |-> "all"]
             one == <<whole>>
             a == Appended(file, r)
             m == Len(file)
  <1>1. whole \in Fr /\ one \in Ls
    BY DEF Left
  <1>2. file \in Seq(Ls) /\ m \in Nat
    <2> DEFINE Gr == [rec : records, left : Left]
    <2>1. Gr \subseteq Fr /\ file \in Seq(Seq(Gr) \ {<<>>})
      BY DEF FileOf
    <2> HIDE DEF Gr, Fr
    <2>2. Seq(Gr) \ {<<>>} \subseteq Ls
      <3>1. Seq(Gr) \subseteq Ls
        BY <2>1, SeqMonotonic
      <3> QED
        BY <3>1
    <2>3. file \in Seq(Ls)
      <3> HIDE DEF Ls
      <3> QED
        BY <2>1, <2>2, SeqMonotonic
    <2> QED
      BY <2>3, LinesOfFile
  <1>a. Appended(file, r) = IF Open(file) THEN [file EXCEPT ![m] = Append(@, whole)] ELSE Append(file, one)
    BY DEF Appended
  <1> HIDE DEF whole, Fr
  <1>3. FlattenSeq(file) \in Seq(Fr)
    BY <1>1, <1>2, FlattenMore
  <1>b. FlattenSeq(file) \o one = Append(FlattenSeq(file), whole)
    BY <1>1, <1>3, AppendIsConcat
  <1>4. CASE Open(file)
    <2> DEFINE front == SubSeq(file, 1, m - 1)
               last == file[m]
               l == Append(last, whole)
    <2>1. m \in 1 .. m
      BY <1>4, LinesOfFile DEF Open
    <2>2. last \in Ls
      <3> HIDE DEF Ls
      <3> QED
        BY <1>2, <2>1, ElementOfSeq
    <2>3. l \in Ls /\ l = last \o one
      BY <1>1, <2>2, AppendProperties, AppendIsConcat
    <2>4. a = [file EXCEPT ![m] = l]
      BY <1>a, <1>4
    <2> HIDE DEF l, a, Ls, m, last, one
    <2>5. m = Len(file) /\ last = file[m]
      BY DEF m, last
    <2>6. a \in Seq(Ls) /\ Len(a) = m /\ \A k \in 1 .. m : a[k] = IF k = m THEN l ELSE file[k]
      BY <1>2, <2>1, <2>3, <2>4, <2>5, ExceptSeq
    <2>7. front \in Seq(Ls) /\ Len(front) = m - 1 /\ \A k \in 1 .. m - 1 : front[k] = file[k]
      <3>1. \A k \in 1 .. m - 1 : file[k] \in Ls
        BY <1>2, <2>1, <2>5, ElementOfSeq
      <3> QED
        BY <1>2, <2>1, <2>5, <3>1, SubSeqProperties
    <2> HIDE DEF front
    <2>8. file = Append(front, last)
      <3>1. Append(front, last) \in Seq(Ls) /\ Len(Append(front, last)) = m
            /\ \A k \in 1 .. m - 1 : Append(front, last)[k] = front[k]
            /\ Append(front, last)[m] = last
        <4>1. m - 1 + 1 = m
          BY <1>2
        <4> QED
          BY <2>2, <2>7, <4>1, AppendProperties
      <3>2. \A k \in 1 .. m : file[k] = Append(front, last)[k]
        <4>1. \A k \in 1 .. m : k \in 1 .. m - 1 \/ k = m
          BY <1>2
        <4> QED
          BY <2>5, <2>7, <3>1, <4>1
      <3> QED
        BY <1>2, <2>5, <3>1, <3>2, SeqEqual
    <2>9. a = Append(front, l)
      <3>1. Append(front, l) \in Seq(Ls) /\ Len(Append(front, l)) = m
            /\ \A k \in 1 .. m - 1 : Append(front, l)[k] = front[k]
            /\ Append(front, l)[m] = l
        <4>1. m - 1 + 1 = m
          BY <1>2
        <4> QED
          BY <2>3, <2>7, <4>1, AppendProperties
      <3>2. \A k \in 1 .. m : a[k] = Append(front, l)[k]
        <4>1. \A k \in 1 .. m : k \in 1 .. m - 1 \/ k = m
          BY <1>2
        <4>2. \A k \in 1 .. m - 1 : k # m /\ k \in 1 .. m
          BY <1>2
        <4> QED
          BY <2>1, <2>6, <2>7, <3>1, <4>1, <4>2
      <3> QED
        BY <2>6, <3>1, <3>2, SeqEqual
    <2>10. /\ FlattenSeq(front) \in Seq(Fr)
           /\ FlattenSeq(file) = FlattenSeq(front) \o last
           /\ FlattenSeq(a) = FlattenSeq(front) \o l
      BY <2>2, <2>3, <2>7, <2>8, <2>9, FlattenMore DEF Ls
    <2>11. FlattenSeq(a) = FlattenSeq(file) \o one
      <3>1. last \in Seq(Fr) /\ one \in Seq(Fr)
        BY <1>1, <2>2 DEF Ls
      <3> QED
        BY <2>3, <2>10, <3>1, ConcatAssociative, SMTT(30)
    <2> QED
      BY <1>1, <1>3, <1>b, <2>11 DEF Fragments, Fr, whole, a
  <1>5. CASE ~Open(file)
    <2>1. a = Append(file, one)
      BY <1>a, <1>5
    <2>2. FlattenSeq(a) = FlattenSeq(file) \o one
      <3> HIDE DEF one, a
      <3> QED
        BY <1>1, <1>2, <2>1, FlattenMore
    <2> QED
      BY <1>1, <1>3, <1>b, <2>2 DEF Fragments, Fr, whole
  <1> QED
    BY <1>4, <1>5

-----------------------------------------------------------------------------
(* What is chosen of what has grown. *)

Plus(s, v) == [k \in 1 .. Len(s) + 1 |-> IF k = Len(s) + 1 THEN v ELSE s[k]]

\* What is chosen stands at its rank.
LEMMA ChoiceAt ==
    ASSUME NEW N \in Nat, NEW S, S \in SUBSET (1 .. N), NEW s, NEW n \in S
    PROVE  Chosen(s, S)[Rank(S, n)] = s[n]
  <1> QED
    BY Choice, ZenonT(30)

OneMore(s, t, S, m) == Chosen(t, S \cup {m}) = Plus(Chosen(s, S), t[m])
Agree(s, t, S) == \A n \in S : t[n] = s[n]

\* What stands elsewhere does not matter.
LEMMA ChosenSame ==
    ASSUME NEW N \in Nat, NEW S, S \in SUBSET (1 .. N), NEW s, NEW t, Agree(s, t, S)
    PROVE  Chosen(t, S) = Chosen(s, S)
  <1>0. \A n \in S : t[n] = s[n]
    BY DEF Agree
  <1>1. \A k \in 1 .. Cardinality(S) : Chosen(t, S)[k] = Chosen(s, S)[k]
    <2>1. ASSUME NEW k \in 1 .. Cardinality(S) PROVE Chosen(t, S)[k] = Chosen(s, S)[k]
      <3>1. PICK n \in S : Rank(S, n) = k
        BY Choice
      <3>a. Chosen(t, S)[Rank(S, n)] = t[n]
        BY ONLY N \in Nat, S \in SUBSET (1 .. N), n \in S, ChoiceAt
      <3>b. Chosen(s, S)[Rank(S, n)] = s[n]
        BY ONLY N \in Nat, S \in SUBSET (1 .. N), n \in S, ChoiceAt
      <3>2. Chosen(t, S)[k] = t[n] /\ Chosen(s, S)[k] = s[n]
        BY <3>1, <3>a, <3>b
      <3> QED
        BY <1>0, <3>2
    <2> QED
      BY <2>1
  <1>2. /\ Chosen(t, S) = [k \in 1 .. Cardinality(S) |-> Chosen(t, S)[k]]
        /\ Chosen(s, S) = [k \in 1 .. Cardinality(S) |-> Chosen(s, S)[k]]
    BY DEF Chosen
  <1> QED
    BY <1>1, <1>2

\* One place more, behind the others.
LEMMA ChosenMore ==
    ASSUME NEW N \in Nat, NEW S, S \in SUBSET (1 .. N), NEW s, NEW t, Agree(s, t, S),
           NEW m \in Nat, m > N
    PROVE  /\ Cardinality(S) \in Nat /\ Len(Chosen(s, S)) = Cardinality(S)
           /\ OneMore(s, t, S, m)
  <1> DEFINE C == Cardinality(S)
             M == S \cup {m}
  <1>1. M \in SUBSET (1 .. m) /\ m \in M /\ m \notin S /\ IsFiniteSet(S)
    <2>1. IsFiniteSet(1 .. N)
      BY FS_Interval
    <2>2. IsFiniteSet(S)
      BY <2>1, FS_Subset
    <2> QED
      BY <2>2
  <1>2. C \in Nat /\ Cardinality(M) = C + 1
    BY <1>1, FS_CardinalityType, FS_AddElement
  <1> HIDE DEF C, M
  <1>c. /\ \A n \in S : Chosen(s, S)[Rank(S, n)] = s[n]
        /\ \A n \in M : Chosen(t, M)[Rank(M, n)] = t[n]
    <2>1. ASSUME NEW n \in S PROVE Chosen(s, S)[Rank(S, n)] = s[n]
      BY ONLY N \in Nat, S \in SUBSET (1 .. N), n \in S, ChoiceAt, ZenonT(30)
    <2>2. ASSUME NEW n \in M PROVE Chosen(t, M)[Rank(M, n)] = t[n]
      BY ONLY m \in Nat, <1>1, n \in M, ChoiceAt
    <2> QED
      BY <2>1, <2>2
  <1>3. ASSUME NEW n \in S PROVE Rank(M, n) = Rank(S, n) /\ n \in M
    <2>1. n \in 1 .. N /\ ~ (m <= n)
      OBVIOUS
    <2>2. {j \in M : j <= n} = {j \in S : j <= n}
      BY <2>1 DEF M
    <2> QED
      BY <2>2 DEF Rank, M
  <1>4. Rank(M, m) = C + 1
    <2>0. \A j \in M : j <= m
      <3> HIDE DEF M
      <3>1. \A j \in M : j \in 1 .. m
        BY <1>1
      <3> QED
        BY <3>1
    <2>1. {j \in M : j <= m} = M
      BY <2>0
    <2> QED
      BY <1>2, <2>1 DEF Rank
  <1>5. ASSUME NEW k \in 1 .. C PROVE Chosen(t, M)[k] = Chosen(s, S)[k]
    <2>1. PICK n \in S : Rank(S, n) = k
      BY Choice DEF C
    <2>2. Rank(M, n) = k /\ n \in M
      BY <1>3, <2>1
    <2>a. Chosen(t, M)[Rank(M, n)] = t[n]
      BY <1>c, <2>2
    <2>b. Chosen(s, S)[Rank(S, n)] = s[n]
      BY <1>c
    <2>3. t[n] = s[n]
      BY ONLY n \in S, Agree(s, t, S) DEF Agree
    <2> QED
      BY <2>1, <2>2, <2>3, <2>a, <2>b
  <1>6. Chosen(t, M)[C + 1] = t[m]
    <2>1. Chosen(t, M)[Rank(M, m)] = t[m]
      BY <1>1, <1>c
    <2> QED
      BY <1>4, <2>1
  <1>7. /\ Chosen(t, M) = [k \in 1 .. C + 1 |-> Chosen(t, M)[k]]
        /\ Chosen(s, S) = [k \in 1 .. C |-> Chosen(s, S)[k]]
    BY <1>2 DEF Chosen, C
  <1>8. Len(Chosen(s, S)) = C
    BY <1>2, <1>7
  <1>9. \A k \in 1 .. C + 1 : Chosen(t, M)[k] = IF k = C + 1 THEN t[m] ELSE Chosen(s, S)[k]
    <2>1. \A k \in 1 .. C + 1 : k \in 1 .. C \/ k = C + 1
      BY <1>2
    <2>2. \A k \in 1 .. C : k # C + 1
      BY <1>2
    <2> QED
      BY <1>5, <1>6, <2>1, <2>2
  <1>10. Chosen(t, M) = Plus(Chosen(s, S), t[m])
    <2> DEFINE D == Chosen(t, M)
               E == Chosen(s, S)
               v == t[m]
    <2> HIDE DEF D, E, v
    <2>1. D = [k \in 1 .. C + 1 |-> D[k]] /\ Len(E) = C /\ \A k \in 1 .. C + 1 : D[k] = IF k = C + 1 THEN v ELSE E[k]
      BY <1>7, <1>8, <1>9 DEF D, E, v
    <2>2. D = Plus(E, v)
      BY <2>1 DEF Plus
    <2> QED
      BY <2>2 DEF D, E, v
  <1> QED
    BY <1>2, <1>8, <1>10 DEF C, M, OneMore

-----------------------------------------------------------------------------
(* The tail writes the changes of what it hears. *)

\* detect_changes in parts: what is known, its neighbours and those that differ.
Known(values) == Chosen(values, {n \in 1 .. Len(values) : values[n] # NoValue})
Neighbours(known) == [n \in 1 .. Len(known) - 1 |-> <<known[n], known[n + 1]>>]
Differing(pairs) == {n \in 1 .. Len(pairs) : pairs[n][1] # pairs[n][2]}
Changes(known) == Chosen(Neighbours(known), Differing(Neighbours(known)))
LastKnown(values) == IF Len(Known(values)) = 0 THEN NoValue ELSE Known(values)[Len(Known(values))]

\* detect_changes in these parts.
LEMMA DetectIsChanges == \A values : DetectChanges(values) = Changes(Known(values))
  BY DEF DetectChanges, Changes, Known, Neighbours, Differing

\* A sequence with one value more.
LEMMA PlusIs ==
    ASSUME NEW s, NEW n \in Nat, Len(s) = n, NEW v
    PROVE  /\ Len(Plus(s, v)) = n + 1 /\ Plus(s, v)[n + 1] = v
           /\ \A k \in 1 .. n : Plus(s, v)[k] = s[k]
  <1>1. Plus(s, v) = [k \in 1 .. n + 1 |-> IF k = n + 1 THEN v ELSE s[k]]
    BY DEF Plus
  <1>2. n + 1 \in Nat
    OBVIOUS
  <1>3. \A k \in 1 .. n : k # n + 1 /\ k \in 1 .. n + 1
    OBVIOUS
  <1> QED
    BY <1>1, <1>2, <1>3

\* The neighbours: none of a single value, and each but the last has one more.
LEMMA NeighboursAre ==
    ASSUME NEW known, NEW K \in Nat, Len(known) = K
    PROVE  /\ K = 0 => Neighbours(known) = [n \in {} |-> 0] /\ Len(Neighbours(known)) = 0
           /\ K > 0 => Len(Neighbours(known)) = K - 1
           /\ \A n \in 1 .. K - 1 : Neighbours(known)[n] = <<known[n], known[n + 1]>>
  <1>1. Neighbours(known) = [n \in 1 .. K - 1 |-> <<known[n], known[n + 1]>>]
    BY DEF Neighbours
  <1>2. ASSUME K = 0 PROVE Neighbours(known) = [n \in {} |-> 0] /\ Len(Neighbours(known)) = 0
    <2>1. 1 .. K - 1 = {} /\ 1 .. 0 = {}
      BY <1>2
    <2>2. Neighbours(known) = [n \in {} |-> 0]
      BY <1>1, <2>1
    <2>3. [n \in {} |-> 0] = [n \in 1 .. 0 |-> 0]
      BY <2>1
    <2>4. Len([n \in 1 .. 0 |-> 0]) = 0
      OBVIOUS
    <2> QED
      BY <2>2, <2>3, <2>4
  <1>3. ASSUME K > 0 PROVE Len(Neighbours(known)) = K - 1
    <2>1. K - 1 \in Nat
      BY <1>3
    <2> QED
      BY <1>1, <2>1
  <1> QED
    BY <1>1, <1>2, <1>3

\* One value more is one change more, if it differs from the last.
LEMMA ChangesMore ==
    ASSUME NEW known, NEW K \in Nat, Len(known) = K, NEW v
    PROVE  Changes(Plus(known, v)) = IF K = 0 \/ known[K] = v THEN Changes(known)
                                     ELSE Plus(Changes(known), <<known[K], v>>)
  <1> DEFINE more == Plus(known, v)
             p == Neighbours(known)
             q == Neighbours(more)
             S == Differing(p)
             T == Differing(q)
  <1>1. Len(more) = K + 1 /\ more[K + 1] = v /\ \A k \in 1 .. K : more[k] = known[k]
    BY PlusIs
  <1>2. Changes(known) = Chosen(p, S) /\ Changes(more) = Chosen(q, T)
    BY DEF Changes
  <1>3. /\ K = 0 => p = [n \in {} |-> 0] /\ Len(p) = 0
        /\ K > 0 => Len(p) = K - 1
        /\ \A n \in 1 .. K - 1 : p[n] = <<known[n], known[n + 1]>>
    BY NeighboursAre
  <1> HIDE DEF more
  <1>4. Len(q) = K /\ \A n \in 1 .. K : q[n] = <<more[n], more[n + 1]>>
    <2>1. K + 1 \in Nat /\ K + 1 > 0 /\ K + 1 - 1 = K
      OBVIOUS
    <2> QED
      BY <1>1, <2>1, NeighboursAre
  <1> HIDE DEF p, q
  <1>5. S = {n \in 1 .. Len(p) : p[n][1] # p[n][2]} /\ T = {n \in 1 .. Len(q) : q[n][1] # q[n][2]}
    BY DEF Differing
  <1> HIDE DEF S, T
  <1>6. CASE K = 0
    <2>1. S = {} /\ T = {}
      BY <1>3, <1>4, <1>5, <1>6
    <2>2. Chosen(q, {}) = Chosen(p, {})
      <3>1. 0 \in Nat /\ {} \in SUBSET (1 .. 0) /\ Agree(p, q, {})
        BY DEF Agree
      <3> QED
        BY <3>1, ChosenSame
    <2> QED
      BY <1>2, <1>6, <2>1, <2>2 DEF more
  <1>7. CASE K > 0
    <2>1. PICK m \in Nat : m = K - 1 /\ m + 1 = K
      BY <1>7
    <2>2. Len(p) = m /\ \A n \in 1 .. m : q[n] = p[n] /\ n \in 1 .. K
      <3>1. \A n \in 1 .. m : n \in 1 .. K - 1 /\ n \in 1 .. K /\ n + 1 \in 1 .. K
        BY <2>1
      <3> QED
        BY <1>1, <1>3, <1>4, <1>7, <2>1, <3>1
    <2>3. q[K] = <<known[K], v>>
      <3>1. K \in 1 .. K
        BY <1>7
      <3> QED
        BY <1>1, <1>4, <3>1
    <2>4. S \in SUBSET (1 .. m) /\ Agree(p, q, S)
      BY <1>5, <2>2 DEF Agree
    <2>5. T = IF known[K] = v THEN S ELSE S \cup {K}
      <3>1. <<known[K], v>>[1] = known[K] /\ <<known[K], v>>[2] = v
        OBVIOUS
      <3>2. K \in T <=> known[K] # v
        <4>1. K \in 1 .. Len(q)
          BY <1>4, <1>7
        <4> QED
          BY <1>5, <2>3, <3>1, <4>1
      <3>3. ASSUME NEW n \in 1 .. m PROVE n \in T <=> n \in S
        <4>1. n \in 1 .. Len(q) /\ n \in 1 .. Len(p) /\ q[n] = p[n]
          BY <1>4, <2>2
        <4> QED
          BY <1>5, <4>1
      <3>4. \A n \in T : n \in 1 .. m \/ n = K
        BY <1>4, <1>5, <2>1
      <3>5. \A n \in S : n \in 1 .. m
        BY <2>4
      <3>6. K \notin S
        BY <2>1, <3>5
      <3>7. CASE known[K] = v
        <4>1. \A n : n \in T <=> n \in S
          BY <3>2, <3>3, <3>4, <3>5, <3>7
        <4> QED
          BY <3>7, <4>1
      <3>8. CASE known[K] # v
        <4>1. \A n : n \in T <=> n \in S \cup {K}
          BY <3>2, <3>3, <3>4, <3>5, <3>8
        <4> QED
          BY <3>8, <4>1
      <3> QED
        BY <3>7, <3>8
    <2>6. K \in Nat /\ K > m
      BY <2>1
    <2>7. CASE known[K] = v
      <3>1. Chosen(q, S) = Chosen(p, S)
        BY <2>4, ChosenSame
      <3> QED
        BY <1>2, <2>5, <2>7, <3>1 DEF more
    <2>8. CASE known[K] # v
      <3>1. S \in SUBSET (1 .. m) /\ m \in Nat
        BY <2>4
      <3>2. Agree(p, q, S)
        BY <2>4
      <3>3. OneMore(p, q, S, K)
        BY ONLY <2>6, <3>1, <3>2, ChosenMore
      <3> QED
        BY <1>2, <1>7, <2>3, <2>5, <2>8, <3>3 DEF more, OneMore
    <2> QED
      BY <2>7, <2>8
  <1> QED
    BY <1>6, <1>7

\* What one value more changes, and what is the last known then.
LEMMA DetectMore ==
    ASSUME NEW values, NEW N \in Nat, Len(values) = N, NEW v
    PROVE  /\ LastKnown(Plus(values, v)) = IF v = NoValue THEN LastKnown(values) ELSE v
           /\ DetectChanges(Plus(values, v)) =
                 IF v = NoValue \/ LastKnown(values) \in {NoValue, v} THEN DetectChanges(values)
                 ELSE Plus(DetectChanges(values), <<LastKnown(values), v>>)
  <1> DEFINE more == Plus(values, v)
             S == {n \in 1 .. Len(values) : values[n] # NoValue}
             T == {n \in 1 .. Len(more) : more[n] # NoValue}
             kn == Known(values)
             K == Len(kn)
             L == LastKnown(values)
  <1>1. Len(more) = N + 1 /\ more[N + 1] = v /\ \A k \in 1 .. N : more[k] = values[k]
    BY PlusIs
  <1>2. Known(values) = Chosen(values, S) /\ Known(more) = Chosen(more, T)
    BY DEF Known
  <1> HIDE DEF more
  <1>3. S \in SUBSET (1 .. N) /\ \A n \in S : more[n] = values[n] /\ values[n] # NoValue
    BY <1>1
  <1>4. T = IF v = NoValue THEN S ELSE S \cup {N + 1}
    <2>1. \A n \in 1 .. N + 1 : n \in 1 .. N \/ n = N + 1
      OBVIOUS
    <2>2. \A n \in 1 .. N : n \in 1 .. N + 1
      OBVIOUS
    <2>3. N + 1 \in 1 .. N + 1
      OBVIOUS
    <2> QED
      BY <1>1, <2>1, <2>2, <2>3
  <1> HIDE DEF S, T
  <1>5. K \in Nat /\ \A k \in 1 .. K : kn[k] # NoValue
    <2>1. Cardinality(S) \in Nat /\ DOMAIN Chosen(values, S) = 1 .. Cardinality(S)
      BY <1>3, Choice
    <2>2. Len(Chosen(values, S)) = Cardinality(S)
      <3>1. Chosen(values, S) = [k \in 1 .. Cardinality(S) |-> Chosen(values, S)[k]]
        BY DEF Chosen
      <3> QED
        BY <2>1, <3>1
    <2>3. ASSUME NEW k \in 1 .. Cardinality(S) PROVE Chosen(values, S)[k] # NoValue
      <3>1. PICK n \in S : Rank(S, n) = k
        BY <1>3, Choice
      <3>2. Chosen(values, S)[Rank(S, n)] = values[n]
        BY ONLY N \in Nat, <1>3, n \in S, ChoiceAt
      <3> QED
        BY <1>3, <3>1, <3>2
    <2> QED
      BY <1>2, <2>1, <2>2, <2>3
  <1>6. L = (IF K = 0 THEN NoValue ELSE kn[K]) /\ (L = NoValue <=> K = 0)
    <2>1. L = IF K = 0 THEN NoValue ELSE kn[K]
      BY DEF LastKnown
    <2>2. K # 0 => K \in 1 .. K
      BY <1>5
    <2> HIDE DEF L, K, kn
    <2> QED
      BY <1>5, <2>1, <2>2
  <1>7. DetectChanges(values) = Changes(kn) /\ DetectChanges(more) = Changes(Known(more))
    BY DetectIsChanges
  <1>8. CASE v = NoValue
    <2>1. Known(more) = kn
      <3>1. Chosen(more, S) = Chosen(values, S)
        <4>1. Agree(values, more, S)
          BY <1>3 DEF Agree
        <4> QED
          BY ONLY N \in Nat, <1>3, <4>1, ChosenSame
      <3> QED
        BY <1>2, <1>4, <1>8, <3>1
    <2>2. LastKnown(more) = L
      BY <2>1 DEF LastKnown
    <2> QED
      BY <1>7, <1>8, <2>1, <2>2 DEF more
  <1>9. CASE v # NoValue
    <2>1. Known(more) = Plus(kn, v)
      <3>1. Agree(values, more, S)
        BY <1>3 DEF Agree
      <3>2. PICK e \in Nat : e = N + 1 /\ e > N
        OBVIOUS
      <3>3. S \in SUBSET (1 .. N)
        BY <1>3
      <3>4. OneMore(values, more, S, e)
        BY ONLY N \in Nat, e \in Nat, <3>1, <3>2, <3>3, ChosenMore
      <3> QED
        BY <1>1, <1>2, <1>4, <1>9, <3>2, <3>4 DEF OneMore
    <2> HIDE DEF kn, K, L
    <2>2. K = Len(kn)
      BY DEF K
    <2>3. Len(Known(more)) = K + 1 /\ Known(more)[K + 1] = v
      BY <1>5, <2>1, <2>2, PlusIs
    <2>4. LastKnown(more) = v
      <3>1. K + 1 # 0
        BY <1>5
      <3> QED
        BY <2>3, <3>1 DEF LastKnown
    <2>5. Changes(Known(more)) = IF K = 0 \/ kn[K] = v THEN Changes(kn) ELSE Plus(Changes(kn), <<kn[K], v>>)
      BY <1>5, <2>1, <2>2, ChangesMore
    <2>6. DetectChanges(more) = IF v = NoValue \/ L \in {NoValue, v} THEN DetectChanges(values)
                                ELSE Plus(DetectChanges(values), <<L, v>>)
      <3>1. CASE K = 0
        BY <1>6, <1>7, <2>5, <3>1
      <3>2. CASE K # 0 /\ kn[K] = v
        BY <1>6, <1>7, <2>5, <3>2
      <3>3. CASE K # 0 /\ kn[K] # v
        BY <1>6, <1>7, <1>9, <2>5, <3>3
      <3> QED
        BY <3>1, <3>2, <3>3
    <2> QED
      BY <1>9, <2>4, <2>6 DEF more, L
  <1> QED
    BY <1>8, <1>9

(* The tail. *)

SnapFragments == Fragments(files["tcp"])
Vals(fs) == [n \in 1 .. Len(fs) |-> fs[n].rec.val]
Heard == {n \in from.seen + 1 .. tail.seen : n \notin half}
HeardValues == Chosen(Vals(SnapFragments), Heard)
AutoOf(tags, k) ==
    LET auto == Chosen(tags, {n \in k + 1 .. Len(tags) : tags[n].val # Manual})
    IN  [n \in DOMAIN auto |-> auto[n].val]

\* What the tail knows and what it wrote are what the snapshots say that it heard.
Tailing ==
    /\ tail = [on |-> tail.on, seen |-> tail.seen, last |-> tail.last]
    /\ tail.on => /\ box
                  /\ from.seen \in Nat /\ tail.seen \in Nat /\ from.seen <= tail.seen
                  /\ tail.seen <= Len(SnapFragments)
                  /\ from.tags \in Nat /\ from.tags <= Len(written["tags"])
                  /\ half \subseteq 1 .. tail.seen
                  /\ tail.last = LastKnown(HeardValues)
                  /\ AutoTags = DetectChanges(HeardValues)

\* A tag that the tail did not write is not among its own.
LEMMA AutoMore ==
    ASSUME NEW R, NEW tags \in Seq(R), NEW r \in R, NEW k \in 0 .. Len(tags)
    PROVE  AutoOf(Append(tags, r), k) = IF r.val = Manual THEN AutoOf(tags, k) ELSE Plus(AutoOf(tags, k), r.val)
  <1> DEFINE more == Append(tags, r)
             L == Len(tags)
             S == {n \in k + 1 .. Len(tags) : tags[n].val # Manual}
             T == {n \in k + 1 .. Len(more) : more[n].val # Manual}
             old == Chosen(tags, S)
             new == Chosen(more, T)
  <1>1. L \in Nat /\ Len(more) = L + 1 /\ more[L + 1] = r /\ \A n \in 1 .. L : more[n] = tags[n]
    BY AppendProperties, LenProperties
  <1>2. AutoOf(tags, k) = [n \in DOMAIN old |-> old[n].val] /\ AutoOf(more, k) = [n \in DOMAIN new |-> new[n].val]
    BY DEF AutoOf
  <1> HIDE DEF more, L
  <1>3. L = Len(tags) /\ k \in 0 .. L
    BY DEF L
  <1>4. S \in SUBSET (1 .. L) /\ Agree(tags, more, S)
    BY <1>1, <1>3 DEF Agree
  <1>5. T = IF r.val = Manual THEN S ELSE S \cup {L + 1}
    <2>1. \A n \in k + 1 .. L + 1 : n \in k + 1 .. L \/ n = L + 1
      BY <1>1, <1>3
    <2>2. L + 1 \in k + 1 .. L + 1 /\ L + 1 \notin k + 1 .. L
      BY <1>1, <1>3
    <2>3. \A n \in k + 1 .. L : n \in 1 .. L /\ n \in k + 1 .. L + 1
      BY <1>1, <1>3
    <2>4. \A n \in k + 1 .. L : n \in T <=> n \in S
      BY <1>1, <1>3, <2>3
    <2>5. L + 1 \in T <=> r.val # Manual
      BY <1>1, <2>2
    <2>6. /\ \A n \in T : n \in k + 1 .. L \/ n = L + 1
          /\ \A n \in S : n \in k + 1 .. L
      BY <1>1, <1>3, <2>1
    <2> HIDE DEF S, T
    <2>7. CASE r.val = Manual
      <3>1. \A n : n \in T <=> n \in S
        BY <2>4, <2>5, <2>6, <2>7
      <3> QED
        BY <2>7, <3>1
    <2>8. CASE r.val # Manual
      <3>1. \A n : n \in T <=> n \in S \cup {L + 1}
        BY <2>4, <2>5, <2>6, <2>8
      <3> QED
        BY <2>8, <3>1
    <2> QED
      BY <2>7, <2>8
  <1> HIDE DEF S, T
  <1>6. CASE r.val = Manual
    <2>1. Chosen(more, S) = Chosen(tags, S)
      BY ONLY <1>1, <1>4, ChosenSame
    <2>2. new = old
      BY <1>5, <1>6, <2>1
    <2> QED
      BY <1>2, <1>6, <2>2 DEF more
  <1>7. CASE r.val # Manual
    <2>1. PICK e \in Nat : e = L + 1 /\ e > L
      BY <1>1
    <2>2. OneMore(tags, more, S, e) /\ Cardinality(S) \in Nat /\ Len(old) = Cardinality(S)
      BY ONLY <1>1, <1>4, e \in Nat, <2>1, ChosenMore DEF old
    <2>3. new = Plus(old, r)
      BY <1>1, <1>5, <1>7, <2>1, <2>2 DEF OneMore
    <2>4. PICK C \in Nat : C = Cardinality(S)
      BY <2>2
    <2>5. old = [n \in 1 .. C |-> old[n]]
      BY <2>4 DEF Chosen
    <2> HIDE DEF old, new
    <2>6. DOMAIN old = 1 .. C /\ Len(old) = C
      BY <2>2, <2>4, <2>5
    <2>7. new = [n \in 1 .. C + 1 |-> IF n = C + 1 THEN r ELSE old[n]]
      BY <2>3, <2>6 DEF Plus
    <2> DEFINE a == [n \in DOMAIN old |-> old[n].val]
               b == [n \in DOMAIN new |-> new[n].val]
    <2>8. a = [n \in 1 .. C |-> old[n].val]
      BY <2>6
    <2>9. b = [n \in 1 .. C + 1 |-> new[n].val] /\ \A n \in 1 .. C + 1 : new[n] = IF n = C + 1 THEN r ELSE old[n]
      BY <2>7
    <2> HIDE DEF a, b
    <2>10. Len(a) = C /\ \A n \in 1 .. C : a[n] = old[n].val
      BY <2>8
    <2>11. \A n \in 1 .. C + 1 : new[n].val = IF n = C + 1 THEN r.val ELSE a[n]
      <3>1. \A n \in 1 .. C + 1 : n \in 1 .. C \/ n = C + 1
        OBVIOUS
      <3>2. \A n \in 1 .. C : n # C + 1
        OBVIOUS
      <3> QED
        BY <2>9, <2>10, <3>1, <3>2
    <2>12. b = [n \in 1 .. C + 1 |-> IF n = C + 1 THEN r.val ELSE a[n]]
      BY <2>9, <2>11
    <2>13. b = Plus(a, r.val)
      BY <2>10, <2>12 DEF Plus
    <2> QED
      BY <1>2, <1>7, <2>13 DEF a, b, more
  <1> QED
    BY <1>6, <1>7

\* The tail's own tags.
LEMMA AutoTagsIs == AutoTags = AutoOf(written["tags"], from.tags)
  BY DEF AutoTags, AutoOf

\* What the tail keeps up is more than the property.
LEMMA TailingIsChanges == Tailing => TagsAreChanges
  BY DEF Tailing, TagsAreChanges, HeardValues, Heard, Vals, SnapFragments

\* The snapshots are a sequence of fragments, and what a step appends to them comes last.
LEMMA SnapsGrow ==
    ASSUME Account, \E r : files'["tcp"] = Appended(files["tcp"], r)
    PROVE  /\ Len(SnapFragments) \in Nat /\ Len(SnapFragments)' = Len(SnapFragments) + 1
           /\ \A n \in 1 .. Len(SnapFragments) : SnapFragments'[n] = SnapFragments[n]
  <1>1. PICK r : files'["tcp"] = Appended(files["tcp"], r)
    OBVIOUS
  <1> DEFINE R == Range(written["tcp"])
             Fr == [rec : R \cup {r}, left : Left]
             whole == [rec |-> r, left |-> "all"]
             fs == SnapFragments
  <1>2. files["tcp"] \in FileOf(R)
    BY DEF Account, Records, Accounted, Names
  <1>3. fs \in Seq(Fr) /\ whole \in Fr /\ Fragments(Appended(files["tcp"], r)) = Append(fs, whole)
    BY <1>2, AppendedFragments DEF SnapFragments
  <1>4. fs' = Append(fs, whole)
    BY <1>1, <1>3 DEF SnapFragments
  <1> HIDE DEF whole, Fr, fs
  <1>5. /\ Len(fs) \in Nat /\ Len(Append(fs, whole)) = Len(fs) + 1
        /\ \A n \in 1 .. Len(fs) : Append(fs, whole)[n] = fs[n]
    BY <1>3, AppendProperties, LenProperties
  <1> QED
    BY <1>4, <1>5 DEF fs

\* The snapshots are a sequence.
LEMMA SnapsAre == ASSUME Account PROVE Len(SnapFragments) \in Nat
  <1> DEFINE R == Range(written["tcp"])
             r == 0
             Fr == [rec : R \cup {r}, left : Left]
  <1>1. files["tcp"] \in FileOf(R)
    BY DEF Account, Records, Accounted, Names
  <1>2. SnapFragments \in Seq(Fr)
    BY <1>1, AppendedFragments DEF SnapFragments
  <1> QED
    BY <1>2, LenProperties

\* A step of the others that adds no tag of the tail's own.
LEMMA OthersTail ==
    ASSUME Account, Tailing, UNCHANGED <<tail, from, half, box>>,
           \/ files'["tcp"] = files["tcp"]
           \/ \E r : files'["tcp"] = Appended(files["tcp"], r),
           \/ written'["tags"] = written["tags"]
           \/ \E r : r.val = Manual /\ written'["tags"] = Append(written["tags"], r)
    PROVE  Tailing'
  <1> SUFFICES ASSUME tail.on PROVE Tailing'
    BY DEF Tailing
  <1> DEFINE fs == SnapFragments
             L == Len(fs)
             tags == written["tags"]
  <1>1. /\ from.seen \in Nat /\ tail.seen \in Nat /\ from.seen <= tail.seen /\ tail.seen <= L
        /\ from.tags \in Nat /\ from.tags <= Len(tags)
        /\ tail.last = LastKnown(HeardValues) /\ AutoTags = DetectChanges(HeardValues)
        /\ box /\ half \subseteq 1 .. tail.seen
    BY DEF Tailing
  <1>2. L \in Nat /\ L' \in Nat /\ L <= L' /\ \A n \in 1 .. L : fs'[n] = fs[n]
    <2>1. CASE files'["tcp"] = files["tcp"]
      <3>1. fs' = fs
        BY <2>1 DEF SnapFragments
      <3> QED
        BY <3>1, SnapsAre
    <2>2. CASE \E r : files'["tcp"] = Appended(files["tcp"], r)
      <3>1. L \in Nat /\ L' = L + 1 /\ \A n \in 1 .. L : fs'[n] = fs[n]
        BY <2>2, SnapsGrow
      <3> HIDE DEF L, fs
      <3> QED
        BY <3>1
    <2> QED
      BY <2>1, <2>2
  <1>3. Heard' = Heard /\ Heard \in SUBSET (1 .. L)
    <2> HIDE DEF L
    <2>1. Heard' = Heard
      BY DEF Heard
    <2>2. \A n \in Heard : n \in 1 .. L
      BY <1>1, <1>2 DEF Heard
    <2> QED
      BY <2>1, <2>2
  <1>4. HeardValues' = HeardValues
    <2>1. \A n \in Heard : Vals(fs)'[n] = Vals(fs)[n]
      <3>1. Vals(fs) = [n \in 1 .. L |-> fs[n].rec.val] /\ Vals(fs)' = [n \in 1 .. L' |-> fs'[n].rec.val]
        BY DEF Vals
      <3> HIDE DEF L, fs
      <3>2. \A n \in Heard : n \in 1 .. L /\ n \in 1 .. L'
        BY <1>2, <1>3
      <3> QED
        BY <1>2, <3>1, <3>2
    <2>2. Agree(Vals(fs), Vals(fs)', Heard)
      BY <2>1 DEF Agree
    <2>3. Chosen(Vals(fs)', Heard) = Chosen(Vals(fs), Heard)
      BY ONLY <1>2, <1>3, <2>2, ChosenSame
    <2> QED
      BY <1>3, <2>3 DEF HeardValues
  <1>5. /\ AutoTags' = AutoTags
        /\ (from.tags <= Len(tags))'
    <2>0. AutoTags' = AutoOf(tags', from.tags)
      <3>1. AutoTags' = AutoOf(written'["tags"], from'.tags)
        BY DEF AutoTags, AutoOf
      <3> QED
        BY <3>1
    <2>1. CASE tags' = tags
      BY <1>1, <2>0, <2>1, AutoTagsIs
    <2>2. CASE \E r : r.val = Manual /\ tags' = Append(tags, r)
      <3>1. PICK r : r.val = Manual /\ tags' = Append(tags, r)
        BY <2>2
      <3> DEFINE R == Range(tags) \cup {r}
      <3>2. tags \in Seq(R) /\ r \in R
        <4>1. tags \in Seq(Range(tags))
          BY DEF Account, Records, Accounted, Names
        <4> QED
          BY <4>1, SeqMonotonic
      <3> HIDE DEF R
      <3>3. Len(tags) \in Nat /\ Len(Append(tags, r)) = Len(tags) + 1
        BY <3>2, AppendProperties, LenProperties
      <3>4. from.tags \in 0 .. Len(tags)
        BY <1>1, <3>3
      <3>5. AutoOf(Append(tags, r), from.tags) = AutoOf(tags, from.tags)
        <4> HIDE DEF tags
        <4> QED
          BY <3>1, <3>2, <3>4, AutoMore
      <3> QED
        BY <1>1, <2>0, <3>1, <3>3, <3>5, AutoTagsIs
    <2> QED
      BY <2>1, <2>2
  <1>6. (tail = [on |-> tail.on, seen |-> tail.seen, last |-> tail.last])'
    BY DEF Tailing
  <1>7. (tail.seen <= L)'
    <2> HIDE DEF L
    <2> QED
      BY <1>1, <1>2
  <1>8. (tail.last = LastKnown(HeardValues) /\ AutoTags = DetectChanges(HeardValues))'
    BY <1>1, <1>4, <1>5 DEF LastKnown
  <1> QED
    BY <1>1, <1>5, <1>6, <1>7, <1>8 DEF Tailing

\* The tail begins: it has heard nothing and written nothing.
LEMMA StartTails ==
    ASSUME Account, Tailing, StartTail
    PROVE  Tailing'
  <1>1. /\ box' /\ tail' = [on |-> TRUE, seen |-> Len(SnapFragments), last |-> NoValue]
        /\ from' = [seen |-> Len(SnapFragments), tags |-> Len(written["tags"])] /\ half' = {}
        /\ files' = files /\ written' = written
    BY DEF StartTail, SnapFragments
  <1>2. Len(SnapFragments) \in Nat /\ Len(written["tags"]) \in Nat /\ SnapFragments' = SnapFragments
    <2>1. written["tags"] \in Seq(Range(written["tags"]))
      BY DEF Account, Records, Accounted, Names
    <2>2. SnapFragments' = SnapFragments
      BY <1>1 DEF SnapFragments
    <2> QED
      BY <2>1, <2>2, LenProperties, SnapsAre
  <1>3. Heard' = {}
    <2>1. Heard' = {n \in Len(SnapFragments) + 1 .. Len(SnapFragments) : n \notin half'}
      BY <1>1 DEF Heard
    <2> QED
      BY <1>2, <2>1
  <1> DEFINE none == [k \in 1 .. 0 |-> 0]
  <1>4. \A s : Chosen(s, {}) = none
    <2>1. ASSUME NEW s PROVE Chosen(s, {}) = none
      <3>1. Cardinality({}) = 0
        BY FS_EmptySet
      <3>2. Chosen(s, {}) = [k \in 1 .. 0 |-> s[CHOOSE n \in {} : Rank({}, n) = k]]
        BY <3>1 DEF Chosen, Rank
      <3>3. 1 .. 0 = {}
        OBVIOUS
      <3> QED
        BY <3>2, <3>3
    <2> QED
      BY <2>1
  <1>5. HeardValues' = none
    BY <1>3, <1>4 DEF HeardValues
  <1>6. Len(none) = 0
    OBVIOUS
  <1> HIDE DEF none
  <1>7. Known(none) = none
    <2>1. {n \in 1 .. Len(none) : none[n] # NoValue} = {}
      BY <1>6
    <2> QED
      BY <1>4, <2>1 DEF Known
  <1>8. LastKnown(none) = NoValue
    BY <1>6, <1>7 DEF LastKnown
  <1>9. DetectChanges(none) = none
    <2>1. Len(Neighbours(none)) = 0
      BY <1>6, NeighboursAre
    <2>2. Differing(Neighbours(none)) = {}
      BY <2>1 DEF Differing
    <2> QED
      BY <1>4, <1>7, <2>2, DetectIsChanges DEF Changes
  <1>10. AutoTags' = none
    <2> DEFINE T == {n \in from'.tags + 1 .. Len(written'["tags"]) : written'["tags"][n].val # Manual}
               auto == Chosen(written'["tags"], T)
    <2>1. T = {}
      BY <1>1, <1>2
    <2>2. auto = none
      BY <1>4, <2>1
    <2>3. AutoTags' = [n \in DOMAIN auto |-> auto[n].val]
      BY DEF AutoTags
    <2>4. DOMAIN none = {} /\ none = [n \in {} |-> none[n].val]
      <3>1. 1 .. 0 = {}
        OBVIOUS
      <3> QED
        BY <3>1 DEF none
    <2> QED
      BY <2>2, <2>3, <2>4
  <1>11. Len(SnapFragments)' = Len(SnapFragments)
    BY <1>2
  <1> QED
    BY <1>1, <1>2, <1>5, <1>8, <1>9, <1>10, <1>11 DEF Tailing, LastKnown

\* A line read, whole or in two halves.
LEMMA ReadTails ==
    ASSUME Account, Tailing, ReadLine
    PROVE  Tailing'
  <1> DEFINE fs == SnapFragments
             tags == written["tags"]
             n == tail.seen + 1
             value == fs[n].rec.val
             was == HeardValues
             seen == from.seen
  <1>1. /\ from.seen \in Nat /\ tail.seen \in Nat /\ from.seen <= tail.seen /\ tail.seen < Len(fs)
        /\ from.tags \in Nat /\ from.tags <= Len(tags) /\ half \subseteq 1 .. tail.seen
        /\ tail.last = LastKnown(was) /\ AutoTags = DetectChanges(was)
        /\ tail = [on |-> tail.on, seen |-> tail.seen, last |-> tail.last]
        /\ box /\ box' = box /\ from' = from /\ Len(fs) \in Nat
    BY SnapsAre DEF Tailing, ReadLine, SnapFragments
  <1>2. PICK whole \in BOOLEAN :
           /\ half' = IF whole THEN half ELSE half \cup {n}
           /\ tail' = [tail EXCEPT !.seen = n, !.last = IF whole /\ value # NoValue THEN value ELSE @]
           /\ IF whole /\ value # NoValue /\ tail.last \notin {NoValue, value}
              THEN WriteTag(now', <<tail.last, value>>)
              ELSE UNCHANGED <<files, written>>
    BY DEF ReadLine, SnapFragments
  <1>3. DOMAIN files = Names /\ DOMAIN written = Names /\ tags \in Seq(Range(tags))
    BY DEF Account, Records, Accounted, Names
  <1>4. fs' = fs
    <2>1. files'["tcp"] = files["tcp"]
      BY <1>2, <1>3 DEF WriteTag, Write, Names
    <2> QED
      BY <2>1 DEF SnapFragments
  <1>5. tail' = [on |-> tail.on, seen |-> n, last |-> IF whole /\ value # NoValue THEN value ELSE tail.last]
    BY <1>1, <1>2
  <1>6. n \in Nat /\ n > tail.seen /\ seen <= n /\ n <= Len(fs) /\ tail.seen \in Nat /\ n \notin half /\ seen + 1 <= n
    BY <1>1
  <1>7. Heard \in SUBSET (1 .. tail.seen)
    BY <1>1 DEF Heard
  <1>8. Heard' = {m \in seen + 1 .. n : m \notin half'}
    <2>1. tail'.seen = n
      BY <1>5
    <2> QED
      BY <1>1, <2>1 DEF Heard
  <1>9. Heard' = IF whole THEN Heard \cup {n} ELSE Heard
    <2>1. Heard = {m \in seen + 1 .. tail.seen : m \notin half}
      BY DEF Heard
    <2>2. \A m \in seen + 1 .. n : m \in seen + 1 .. tail.seen \/ m = n
      BY <1>1
    <2>3. \A m \in seen + 1 .. tail.seen : m # n /\ m \in seen + 1 .. n
      BY <1>1
    <2>4. n \in seen + 1 .. n
      BY <1>6
    <2> HIDE DEF n, seen
    <2>5. CASE whole
      <3>1. half' = half
        BY <1>2, <2>5
      <3>2. \A m : m \in Heard' <=> m \in Heard \cup {n}
        BY <1>6, <1>8, <2>1, <2>2, <2>3, <2>4, <3>1
      <3> QED
        BY <2>5, <3>2
    <2>6. CASE ~whole
      <3>1. half' = half \cup {n}
        BY <1>2, <2>6
      <3>2. \A m : m \in Heard' <=> m \in Heard
        BY <1>8, <2>1, <2>2, <2>3, <3>1
      <3> QED
        BY <2>6, <3>2
    <2> QED
      BY <2>5, <2>6
  <1>10. Vals(fs)[n] = value /\ Vals(fs)' = Vals(fs)
    <2>1. Vals(fs) = [m \in 1 .. Len(fs) |-> fs[m].rec.val]
      BY DEF Vals
    <2>2. n \in 1 .. Len(fs)
      BY <1>1, <1>6
    <2>3. Vals(fs)[n] = value
      <3> HIDE DEF n
      <3> QED
        BY <2>1, <2>2
    <2> QED
      BY <1>4, <2>3 DEF Vals
  <1>11. was' = Chosen(Vals(fs), Heard') /\ was = Chosen(Vals(fs), Heard)
    BY <1>10 DEF HeardValues
  <1>12. ASSUME whole PROVE was' = Plus(was, value)
    <2>1. Agree(Vals(fs), Vals(fs), Heard)
      BY DEF Agree
    <2> HIDE DEF n, fs, value
    <2>2. OneMore(Vals(fs), Vals(fs), Heard, n)
      BY ONLY <1>6, <1>7, <2>1, ChosenMore
    <2> QED
      BY <1>9, <1>10, <1>11, <1>12, <2>2 DEF OneMore
  <1>13. Cardinality(Heard) \in Nat /\ Len(was) = Cardinality(Heard)
    <2>1. Agree(Vals(fs), Vals(fs), Heard)
      BY DEF Agree
    <2> HIDE DEF n, fs, value
    <2> QED
      BY <1>6, <1>7, <1>11, <2>1, ChosenMore
  <1> HIDE DEF value
  <1>14. ASSUME whole
         PROVE  /\ LastKnown(was') = IF value = NoValue THEN LastKnown(was) ELSE value
                /\ DetectChanges(was') = IF value = NoValue \/ LastKnown(was) \in {NoValue, value} THEN DetectChanges(was)
                                         ELSE Plus(DetectChanges(was), <<LastKnown(was), value>>)
    <2> DEFINE N == Len(was)
    <2>1. N \in Nat
      BY <1>13
    <2> HIDE DEF was
    <2>2. /\ LastKnown(Plus(was, value)) = IF value = NoValue THEN LastKnown(was) ELSE value
          /\ DetectChanges(Plus(was, value)) =
                IF value = NoValue \/ LastKnown(was) \in {NoValue, value} THEN DetectChanges(was)
                ELSE Plus(DetectChanges(was), <<LastKnown(was), value>>)
      BY <2>1, DetectMore
    <2> QED
      BY <1>12, <1>14, <2>2
  <1>15. (tail.last = LastKnown(HeardValues))'
    <2>1. tail'.last = IF whole /\ value # NoValue THEN value ELSE tail.last
      BY <1>5
    <2>2. CASE whole
      BY <1>1, <1>14, <2>1, <2>2 DEF LastKnown
    <2>3. CASE ~whole
      BY <1>1, <1>9, <1>11, <2>1, <2>3 DEF LastKnown
    <2> QED
      BY <2>2, <2>3
  <1>16. AutoTags' = AutoOf(tags', from.tags)
    <2>1. AutoTags' = AutoOf(written'["tags"], from'.tags)
      BY DEF AutoTags, AutoOf
    <2> QED
      BY <1>1, <2>1
  <1>17. (from.tags <= Len(tags))' /\ AutoTags' = DetectChanges(was')
    <2>1. CASE whole /\ value # NoValue /\ tail.last \notin {NoValue, value}
      <3> DEFINE pair == <<tail.last, value>>
                 r == [kind |-> "tag", ts |-> now', val |-> pair]
                 R == Range(tags) \cup {r}
      <3>1. pair # Manual
        BY DEF Manual
      <3>2. tags' = Append(tags, r) /\ r.val = pair
        BY <1>2, <1>3, <2>1 DEF WriteTag, Write, Names
      <3>3. r \in R /\ tags \in Seq(R)
        BY <1>3, SeqMonotonic
      <3> HIDE DEF r, R, pair
      <3>4. Len(tags) \in Nat /\ Len(Append(tags, r)) = Len(tags) + 1
        BY <3>3, AppendProperties, LenProperties
      <3>5. from.tags \in 0 .. Len(tags)
        BY <1>1, <3>4
      <3>6. AutoOf(Append(tags, r), from.tags) = Plus(AutoOf(tags, from.tags), pair)
        <4> HIDE DEF tags
        <4> QED
          BY <3>1, <3>2, <3>3, <3>5, AutoMore
      <3>7. AutoTags' = Plus(AutoTags, pair)
        BY <1>16, <3>2, <3>6, AutoTagsIs
      <3> QED
        BY <1>1, <1>14, <2>1, <3>2, <3>4, <3>7 DEF pair
    <2>2. CASE ~ (whole /\ value # NoValue /\ tail.last \notin {NoValue, value})
      <3>1. tags' = tags
        BY <1>2, <2>2 DEF value
      <3>2. AutoTags' = AutoTags
        BY <1>16, <3>1, AutoTagsIs
      <3>3. DetectChanges(was') = DetectChanges(was)
        <4>1. CASE whole
          BY <1>1, <1>14, <2>2, <4>1
        <4>2. CASE ~whole
          BY <1>9, <1>11, <4>2
        <4> QED
          BY <4>1, <4>2
      <3> QED
        BY <1>1, <3>1, <3>2, <3>3
    <2> QED
      BY <2>1, <2>2
  <1>18. half' \subseteq 1 .. n
    BY <1>1, <1>2
  <1>19. tail'.seen = n /\ (tail = [on |-> tail.on, seen |-> tail.seen, last |-> tail.last])'
    BY <1>5
  <1> HIDE DEF n
  <1>20. (/\ from.seen \in Nat /\ tail.seen \in Nat /\ from.seen <= tail.seen
          /\ tail.seen <= Len(fs) /\ from.tags \in Nat /\ half \subseteq 1 .. tail.seen /\ box)'
    BY <1>1, <1>4, <1>6, <1>18, <1>19
  <1> QED
    BY <1>15, <1>17, <1>19, <1>20 DEF Tailing, LastKnown

\* Nobody has heard anything.
LEMMA InitTailing == Init => Tailing
  BY DEF Init, Tailing

\* Every step keeps what the tail knows to what it heard.
LEMMA NextTailing == Account /\ Tailing /\ [Next]_vars => Tailing'
  <1> SUFFICES ASSUME Account, Tailing, [Next]_vars PROVE Tailing'
    OBVIOUS
  <1>0. DOMAIN files = Names /\ DOMAIN written = Names
    BY DEF Account, Records
  <1>1. CASE UNCHANGED <<tail, from, half, box, files, written>>
    BY <1>1, OthersTail
  <1>2. CASE Poll
    <2>1. /\ UNCHANGED <<tail, from, half, box>>
          /\ files'["tcp"] = files["tcp"] /\ written'["tags"] = written["tags"]
      BY <1>0, <1>2 DEF Poll, Write, Names
    <2> QED
      BY <2>1, OthersTail
  <1>3. CASE Answered
    <2>1. /\ UNCHANGED <<tail, from, half, box>>
          /\ written'["tags"] = written["tags"]
          /\ \E r : files'["tcp"] = Appended(files["tcp"], r)
      BY <1>0, <1>3 DEF Answered, Write, Names
    <2> QED
      BY <2>1, OthersTail
  <1>4. CASE ManualTag
    <2> DEFINE r == [kind |-> "tag", ts |-> now', val |-> Manual]
    <2>1. /\ UNCHANGED <<tail, from, half, box>>
          /\ files'["tcp"] = files["tcp"]
          /\ r.val = Manual /\ written'["tags"] = Append(written["tags"], r)
      BY <1>0, <1>4 DEF ManualTag, WriteTag, Write, Names
    <2> HIDE DEF r
    <2> QED
      BY <2>1, OthersTail
  <1>5. CASE StartTail
    BY <1>5, StartTails
  <1>6. CASE ReadLine
    BY <1>6, ReadTails
  <1>7. CASE PowerCut
    <2>1. tail' = [tail EXCEPT !.on = FALSE] /\ tail = [on |-> tail.on, seen |-> tail.seen, last |-> tail.last]
      BY <1>7 DEF PowerCut, Tailing
    <2>2. tail'.on = FALSE /\ (tail = [on |-> tail.on, seen |-> tail.seen, last |-> tail.last])'
      BY <2>1
    <2> QED
      BY <2>2 DEF Tailing
  <1>8. CASE Boot
    <2>1. ~box /\ tail' = tail
      BY <1>8 DEF Boot
    <2> QED
      BY <2>1 DEF Tailing
  <1> QED
    BY <1>1, <1>2, <1>3, <1>4, <1>5, <1>6, <1>7, <1>8
    DEF Next, vars, InverterRestarts, AskInverter, PollFails, Finished

\* Wherever lines are cut in two and whatever power cuts leave, the tags that the tail
\* writes are the changes of the values it could read (tag.py:29-41, 44-70).
THEOREM TagsAreChangesHolds == Spec => []TagsAreChanges
  <1>1. Spec => []Tailing
    BY AccountHolds, InitTailing, NextTailing, PTL DEF Spec
  <1> QED
    BY <1>1, TailingIsChanges, PTL
=============================================================================

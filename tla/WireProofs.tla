----------------------------- MODULE WireProofs -----------------------------
(***************************************************************************)
(* What is made of the log of a bus, for any queries, answers, readings,   *)
(* times, filter and gap, and for any number of frames damaged or lost.    *)
(* The stream is cut into the frames that were sent (Cuts).  The parser    *)
(* finds nothing but these, passes none that it could have found, and what *)
(* it finds between is told by what came before (SentSoFar).  What the     *)
(* writer remembers is the last row it wrote (Remembered), and what has    *)
(* come since differs not at all or not for long enough (Written).         *)
(***************************************************************************)
EXTENDS WireProperties, ModbusFramesProofs, FiniteSetTheorems, WellFoundedInduction,
        SequenceTheorems, FiniteSetsExt, SequencesExt, TLAPS

-----------------------------------------------------------------------------
(* Sequences that are chosen from and put together. *)

\* From 0 to n, one step at a time.
LEMMA Steps ==
    ASSUME NEW n \in Nat, NEW S, 0 \in S, \A k \in 0 .. n - 1 : k \in S => k + 1 \in S
    PROVE  0 .. n \subseteq S
  <1> DEFINE B == 0 .. n
             Above(r) == {l \in 0 .. n : l < r}
             T == {Above(r) : r \in B \ S}
  <1> SUFFICES ASSUME B \ S # {} PROVE FALSE
    OBVIOUS
  <1>1. IsFiniteSet(B)
    BY FS_Interval
  <1>2. IsWellFoundedOn(StrictSubsetOrdering(B), FiniteSubsetsOf(B)) /\ FiniteSubsetsOf(B) = SUBSET B
    BY <1>1, FS_StrictSubsetOrderingWellFounded, FS_FiniteSubsetsOfFinite
  <1>3. T \subseteq SUBSET B /\ T # {}
    OBVIOUS
  <1> HIDE DEF T
  <1>4. PICK L \in T : \A K \in T : ~ (<<K, L>> \in StrictSubsetOrdering(B))
    BY <1>2, <1>3, WFMin, ZenonT(30)
  <1>5. PICK r \in B \ S : L = Above(r)
    BY <1>4 DEF T
  <1>6. r \in Nat /\ r # 0 /\ r - 1 \in 0 .. n - 1 /\ r - 1 + 1 = r
    BY <1>5
  <1>7. r - 1 \in B \ S
    BY <1>5, <1>6
  <1>8. Above(r - 1) \subseteq Above(r) /\ r - 1 \in Above(r) /\ r - 1 \notin Above(r - 1)
    BY <1>6
  <1>9. <<Above(r - 1), Above(r)>> \in StrictSubsetOrdering(B)
    BY <1>8 DEF StrictSubsetOrdering
  <1>10. Above(r - 1) \in T
    BY <1>7 DEF T
  <1> HIDE DEF Above
  <1> QED
    BY <1>4, <1>5, <1>9, <1>10

\* A function that each value gives the next of.
Runs(f, n, V, v, g) ==
    /\ f \in [0 .. n -> V]
    /\ f[0] = v /\ \A k \in 1 .. n : f[k] = g[<<k, f[k - 1]>>]

\* There is such a function.
LEMMA Recursion ==
    ASSUME NEW n \in Nat, NEW V, NEW v \in V, NEW g, g \in [(0 .. n) \X V -> V]
    PROVE  \E f : Runs(f, n, V, v, g)
  <1> DEFINE S == {m \in 0 .. n : \E f : Runs(f, m, V, v, g)}
  <1>1. 0 \in S
    <2> DEFINE f == [k \in 0 .. 0 |-> v]
    <2>1. f \in [0 .. 0 -> V] /\ f[0] = v /\ \A k \in 1 .. 0 : f[k] = g[<<k, f[k - 1]>>]
      OBVIOUS
    <2> HIDE DEF f
    <2> QED
      BY <2>1 DEF Runs
  <1>2. ASSUME NEW m \in 0 .. n - 1, m \in S PROVE m + 1 \in S
    <2>1. PICK f : Runs(f, m, V, v, g)
      BY <1>2
    <2>a. f \in [0 .. m -> V] /\ f[0] = v /\ \A k \in 1 .. m : f[k] = g[<<k, f[k - 1]>>]
      BY <2>1 DEF Runs
    <2> DEFINE h == [k \in 0 .. m + 1 |-> IF k = m + 1 THEN g[<<m + 1, f[m]>>] ELSE f[k]]
    <2>2. f[m] \in V /\ <<m + 1, f[m]>> \in (0 .. n) \X V
      BY <2>a
    <2>3. g[<<m + 1, f[m]>>] \in V
      BY <2>2
    <2>4. h \in [0 .. m + 1 -> V]
      BY <2>3, <2>a
    <2>5. h[0] = v
      BY <2>a
    <2>6. ASSUME NEW k \in 1 .. m + 1 PROVE h[k] = g[<<k, h[k - 1]>>]
      <3>1. CASE k = m + 1
        <4>1. h[k - 1] = f[m] /\ h[k] = g[<<m + 1, f[m]>>]
          BY <3>1
        <4> HIDE DEF h
        <4> QED
          BY <3>1, <4>1
      <3>2. CASE k # m + 1
        <4>1. k \in 1 .. m /\ h[k] = f[k] /\ h[k - 1] = f[k - 1]
          BY <3>2
        <4> HIDE DEF h
        <4> QED
          BY <2>a, <4>1
      <3> QED
        BY <3>1, <3>2
    <2> HIDE DEF h
    <2>7. m + 1 \in 0 .. n
      OBVIOUS
    <2>8. Runs(h, m + 1, V, v, g)
      BY <2>4, <2>5, <2>6 DEF Runs
    <2> QED
      BY <2>7, <2>8
  <1> HIDE DEF S
  <1>3. 0 .. n \subseteq S
    BY <1>1, <1>2, Steps
  <1>4. n \in S
    BY <1>3
  <1> QED
    BY <1>4 DEF S, Runs

\* A sequence of sequences is flattened from left to right.
LEMMA Flattening ==
    ASSUME NEW T, NEW s \in Seq(Seq(T))
    PROVE  \E f \in [0 .. Len(s) -> Seq(T)] :
              /\ f[0] = <<>> /\ \A k \in 1 .. Len(s) : f[k] = f[k - 1] \o s[k]
              /\ FlattenSeq(s) = f[Len(s)]
  <1> DEFINE n == Len(s)
             g == [p \in (0 .. n) \X Seq(T) |-> IF p[1] = 0 THEN <<>> ELSE p[2] \o s[p[1]]]
  <1>1. n \in Nat /\ \A k \in 1 .. n : s[k] \in Seq(T)
    BY LenProperties, ElementOfSeq
  <1>2. g \in [(0 .. n) \X Seq(T) -> Seq(T)]
    <2>1. ASSUME NEW p \in (0 .. n) \X Seq(T)
          PROVE  (IF p[1] = 0 THEN <<>> ELSE p[2] \o s[p[1]]) \in Seq(T)
      <3>1. p[1] \in 0 .. n /\ p[2] \in Seq(T)
        OBVIOUS
      <3>2. CASE p[1] = 0
        BY <3>2, EmptySeq
      <3>3. CASE p[1] # 0
        <4>1. s[p[1]] \in Seq(T)
          BY <1>1, <3>1, <3>3
        <4> QED
          BY <3>1, <3>3, <4>1, ConcatProperties
      <3> QED
        BY <3>2, <3>3
    <2> HIDE DEF n
    <2> QED
      BY <2>1
  <1>3. ASSUME NEW k \in 1 .. n, NEW h \in Seq(T) PROVE g[<<k, h>>] = h \o s[k]
    <2>1. <<k, h>> \in (0 .. n) \X Seq(T) /\ k # 0
      BY <1>1
    <2>2. g[<<k, h>>] = IF <<k, h>>[1] = 0 THEN <<>> ELSE <<k, h>>[2] \o s[<<k, h>>[1]]
      <3> HIDE DEF n
      <3> QED
        BY <2>1
    <2> QED
      BY <2>1, <2>2
  <1> HIDE DEF g
  <1>4. PICK f \in [0 .. n -> Seq(T)] : f[0] = <<>> /\ \A k \in 1 .. n : f[k] = g[<<k, f[k - 1]>>]
    <2>1. <<>> \in Seq(T)
      BY EmptySeq
    <2> DEFINE V == Seq(T)
               e == <<>>
    <2> HIDE DEF n, V, e
    <2>2. n \in Nat /\ e \in V /\ g \in [(0 .. n) \X V -> V]
      BY <1>1, <1>2, <2>1 DEF V, e
    <2>3. PICK f : Runs(f, n, V, e, g)
      BY <2>2, Recursion
    <2> QED
      BY <2>3 DEF V, e, Runs
  <1>5. \A k \in 1 .. n : f[k] = f[k - 1] \o s[k]
    <2> HIDE DEF n
    <2>1. ASSUME NEW k \in 1 .. n PROVE f[k - 1] \in Seq(T)
      BY <1>1, <1>4
    <2> QED
      BY <1>3, <1>4, <2>1
  <1>a. n # 0 => f[1] = s[1]
    <2>1. SUFFICES ASSUME n # 0 PROVE f[1] = s[1]
      OBVIOUS
    <2>2. 1 \in 1 .. n /\ 1 - 1 = 0
      BY <1>1, <2>1
    <2> DEFINE e == s[1]
    <2>3. e \in Seq(T)
      BY <1>1, <2>2
    <2>4. f[1] = <<>> \o e
      <3> HIDE DEF n
      <3> QED
        BY <1>4, <1>5, <2>2
    <2> HIDE DEF e
    <2>5. <<>> \o e = e
      BY <2>3, ConcatEmptySeq
    <2> QED
      BY <2>4, <2>5 DEF e
  <1>6. CASE n = 0
    <2>1. FlattenSeq(s) = s /\ s = <<>>
      BY <1>6, EmptySeq DEF FlattenSeq
    <2> QED
      BY <1>4, <1>5, <1>6, <2>1
  <1>7. CASE n # 0
    <2> DEFINE F == CHOOSE fl : fl = [p \in 1 .. n |-> IF p = 1 THEN s[p] ELSE fl[p - 1] \o s[p]]
               h == [p \in 1 .. n |-> f[p]]
    <2>1. FlattenSeq(s) = F[n]
      BY <1>7 DEF FlattenSeq
    <2>2. h = [p \in 1 .. n |-> IF p = 1 THEN s[p] ELSE h[p - 1] \o s[p]]
      <3>1. ASSUME NEW p \in 1 .. n PROVE f[p] = IF p = 1 THEN s[p] ELSE h[p - 1] \o s[p]
        <4>1. CASE p = 1
          BY <1>a, <1>7, <4>1
        <4>2. CASE p # 1
          <5>1. p - 1 \in 1 .. n /\ h[p - 1] = f[p - 1]
            BY <1>1, <4>2
          <5> HIDE DEF h, n
          <5> QED
            BY <1>5, <4>2, <5>1
        <4> QED
          BY <4>1, <4>2
      <3> QED
        BY <3>1
    <2>3. F = [p \in 1 .. n |-> IF p = 1 THEN s[p] ELSE F[p - 1] \o s[p]]
      <3> HIDE DEF h
      <3> QED
        BY <2>2
    <2> HIDE DEF F
    <2>4. \A k \in 0 .. n : k \in {j \in 0 .. n : j = 0 \/ F[j] = f[j]}
      <3> DEFINE S == {j \in 0 .. n : j = 0 \/ F[j] = f[j]}
      <3>1. 0 \in S
        BY <1>1
      <3>2. ASSUME NEW k \in 0 .. n - 1, k \in S PROVE k + 1 \in S
        <4>1. PICK j \in 1 .. n : j = k + 1 /\ j - 1 = k /\ j \in 0 .. n
          BY <1>1
        <4>2. CASE k = 0
          <5>1. F[j] = s[j]
            <6> HIDE DEF n
            <6> QED
              BY <2>3, <4>1, <4>2
          <5> QED
            BY <1>a, <1>7, <4>1, <4>2, <5>1
        <4>3. CASE k # 0
          <5> HIDE DEF n
          <5>1. j # 1 /\ F[k] = f[k]
            BY <3>2, <4>1, <4>3
          <5>2. F[j] = F[k] \o s[j]
            BY <2>3, <4>1, <5>1
          <5>3. f[j] = f[k] \o s[j]
            BY <1>5, <4>1
          <5> QED
            BY <4>1, <5>1, <5>2, <5>3
        <4> QED
          BY <4>2, <4>3
      <3> HIDE DEF S, n
      <3>3. 0 .. n \subseteq S
        BY <1>1, <3>1, <3>2, Steps
      <3> QED
        BY <3>3 DEF S
    <2>5. F[n] = f[n]
      <3> HIDE DEF n
      <3> QED
        BY <1>1, <1>7, <2>4
    <2> QED
      BY <1>4, <1>5, <2>1, <2>5
  <1> QED
    BY <1>6, <1>7

\* Of some numbers up to n one is the greatest.
LEMMA Greatest ==
    ASSUME NEW n \in Nat, NEW S, S \in SUBSET (0 .. n), S # {}
    PROVE  Max(S) \in S /\ \A j \in S : j <= Max(S)
  <1> DEFINE T == {m \in 0 .. n : S \cap (0 .. m) # {} => \E x \in S \cap (0 .. m) : \A y \in S \cap (0 .. m) : x >= y}
  <1>1. 0 \in T
    OBVIOUS
  <1>2. ASSUME NEW m \in 0 .. n - 1, m \in T PROVE m + 1 \in T
    <2>1. m + 1 \in 0 .. n /\ 0 .. m + 1 = (0 .. m) \cup {m + 1} /\ \A y \in 0 .. m + 1 : m + 1 >= y
      OBVIOUS
    <2>2. CASE m + 1 \in S
      BY <2>1, <2>2
    <2>3. CASE m + 1 \notin S
      <3>1. S \cap (0 .. m + 1) = S \cap (0 .. m)
        BY <2>1, <2>3
      <3> QED
        BY <1>2, <2>1, <3>1
    <2> QED
      BY <2>2, <2>3
  <1>3. n \in T
    <2> HIDE DEF T
    <2>1. 0 .. n \subseteq T
      BY <1>1, <1>2, Steps
    <2> QED
      BY <2>1
  <1>4. S \cap (0 .. n) = S
    OBVIOUS
  <1>5. \E x \in S : \A y \in S : x >= y
    BY <1>3, <1>4
  <1>6. Max(S) \in S /\ \A y \in S : Max(S) >= y
    BY <1>5 DEF Max
  <1> QED
    BY <1>6

\* How many of S are at n or before.
Rank(S, n) == Cardinality({m \in S : m <= n})

\* The members of a set of numbers are numbered by their ranks, in their order.
LEMMA Ranks ==
    ASSUME NEW N \in Nat, NEW S, S \in SUBSET (1 .. N)
    PROVE  /\ Cardinality(S) \in Nat
           /\ \A n \in S : Rank(S, n) \in 1 .. Cardinality(S)
           /\ \A m, n \in S : m < n => Rank(S, m) < Rank(S, n)
           /\ \A k \in 1 .. Cardinality(S) : \E n \in S : Rank(S, n) = k
  <1> DEFINE C == Cardinality(S)
             Upto(n) == {m \in S : m <= n}
             rank == [n \in S |-> Rank(S, n)]
  <1>0. IsFiniteSet(1 .. N)
    BY FS_Interval
  <1>1. IsFiniteSet(S) /\ C \in Nat
    BY <1>0, FS_Subset, FS_CardinalityType
  <1>2. ASSUME NEW n \in S PROVE IsFiniteSet(Upto(n)) /\ Rank(S, n) = Cardinality(Upto(n)) /\ Rank(S, n) \in 1 .. C
    <2>1. Upto(n) \in SUBSET S /\ n \in Upto(n) /\ Rank(S, n) = Cardinality(Upto(n))
      BY DEF Rank
    <2> HIDE DEF Upto
    <2>2. IsFiniteSet(Upto(n)) /\ Cardinality(Upto(n)) <= C
      BY <1>1, <2>1, FS_Subset
    <2>3. Cardinality(Upto(n)) \in Nat /\ Cardinality(Upto(n)) # 0
      BY <2>1, <2>2, FS_CardinalityType, FS_EmptySet
    <2> HIDE DEF C
    <2> QED
      BY <1>1, <2>1, <2>2, <2>3
  <1>3. ASSUME NEW m \in S, NEW n \in S, m < n PROVE Rank(S, m) < Rank(S, n)
    <2>0. m \in Nat /\ n \in Nat /\ \A l \in S : l \in Nat
      OBVIOUS
    <2>a. ASSUME NEW l \in Upto(m) PROVE l \in Upto(n)
      BY <1>3, <2>0
    <2>b. n \in Upto(n) /\ n \notin Upto(m)
      BY <1>3, <2>0
    <2>1. Upto(m) \in SUBSET Upto(n) /\ n \in Upto(n) /\ n \notin Upto(m)
      BY <2>a, <2>b
    <2>2. IsFiniteSet(Upto(n)) /\ Rank(S, n) = Cardinality(Upto(n)) /\ Rank(S, m) = Cardinality(Upto(m))
          /\ Rank(S, m) \in 1 .. C /\ Rank(S, n) \in 1 .. C
      BY <1>2
    <2> HIDE DEF Upto, C
    <2>3. Cardinality(Upto(m)) <= Cardinality(Upto(n)) /\ Cardinality(Upto(m)) # Cardinality(Upto(n))
      BY <2>1, <2>2, FS_Subset
    <2> QED
      BY <1>1, <2>2, <2>3
  <1>4. rank \in Injection(S, 1 .. C)
    <2>1. rank \in [S -> 1 .. C]
      BY <1>2
    <2>2. ASSUME NEW m \in S, NEW n \in S, rank[m] = rank[n] PROVE m = n
      <3>1. rank[m] = Rank(S, m) /\ rank[n] = Rank(S, n) /\ Rank(S, m) \in 1 .. C /\ Rank(S, n) \in 1 .. C
        BY <1>2
      <3>2. Rank(S, m) = Rank(S, n) /\ Rank(S, m) \in Nat /\ m \in Nat /\ n \in Nat
        <4>1. m \in Nat /\ n \in Nat
          OBVIOUS
        <4>2. Rank(S, m) = Rank(S, n) /\ Rank(S, m) \in 1 .. C
          BY <2>2, <3>1
        <4> HIDE DEF C, rank
        <4> QED
          BY <1>1, <4>1, <4>2
      <3>3. ~ (m < n) /\ ~ (n < m)
        BY <1>3, <3>2
      <3> QED
        BY <3>2, <3>3
    <2> HIDE DEF rank
    <2> QED
      BY <2>1, <2>2 DEF Injection, IsInjective
  <1>5. rank \in Surjection(S, 1 .. C)
    <2>1. IsFiniteSet(1 .. C) /\ Cardinality(1 .. C) = C
      BY <1>1, FS_Interval
    <2> HIDE DEF rank
    <2> QED
      BY <1>1, <1>4, <2>1, FS_Injection
  <1>6. ASSUME NEW k \in 1 .. C PROVE \E n \in S : Rank(S, n) = k
    <2>1. \E n \in S : rank[n] = k
      <3> HIDE DEF rank
      <3> QED
        BY <1>5 DEF Surjection
    <2> QED
      BY <2>1
  <1> QED
    BY <1>1, <1>2, <1>3, <1>6

\* What is chosen are the members at these places, in their order.
LEMMA Choice ==
    ASSUME NEW N \in Nat, NEW S, S \in SUBSET (1 .. N), NEW s
    PROVE  /\ Cardinality(S) \in Nat /\ DOMAIN Chosen(s, S) = 1 .. Cardinality(S)
           /\ \A n \in S : Rank(S, n) \in 1 .. Cardinality(S) /\ Chosen(s, S)[Rank(S, n)] = s[n]
           /\ \A m, n \in S : m < n => Rank(S, m) < Rank(S, n)
           /\ \A k \in 1 .. Cardinality(S) : \E n \in S : Rank(S, n) = k
  <1>1. Chosen(s, S) = [k \in 1 .. Cardinality(S) |-> s[CHOOSE n \in S : Rank(S, n) = k]]
    BY DEF Chosen, Rank
  <1>2. ASSUME NEW n \in S PROVE Rank(S, n) \in 1 .. Cardinality(S) /\ Chosen(s, S)[Rank(S, n)] = s[n]
    <2> DEFINE k == Rank(S, n)
               m == CHOOSE l \in S : Rank(S, l) = k
    <2>1. k \in 1 .. Cardinality(S)
      BY Ranks
    <2>2. m \in S /\ Rank(S, m) = k
      OBVIOUS
    <2>3. Chosen(s, S)[k] = s[m]
      BY <1>1, <2>1
    <2> HIDE DEF m
    <2>4. m = n
      <3>1. m \in Nat /\ n \in Nat /\ Rank(S, m) \in Nat /\ Rank(S, n) \in Nat
        BY <2>2, <2>1, Ranks
      <3>2. \A x, y \in S : x < y => Rank(S, x) < Rank(S, y)
        BY Ranks
      <3>3. ~ (m < n) /\ ~ (n < m)
        BY <2>2, <3>1, <3>2
      <3> QED
        BY <3>1, <3>3
    <2> QED
      BY <2>1, <2>3, <2>4
  <1> QED
    BY <1>1, <1>2, Ranks

-----------------------------------------------------------------------------
(* The stream is laid out as the frames were sent. *)

\* Where each of some sequences lies in the one they are put together to.
LaidOut(s, at, flat) ==
    /\ at \in [0 .. Len(s) -> Nat] /\ at[0] = 0 /\ at[Len(s)] = Len(flat)
    /\ \A j, k \in 0 .. Len(s) : k = j + 1 =>
          at[k] = at[j] + Len(s[k]) /\ \A p \in 1 .. Len(s[k]) : flat[at[j] + p] = s[k][p]

\* Sequences put together lie one after the other.
LEMMA Layout ==
    ASSUME NEW T, NEW s \in Seq(Seq(T))
    PROVE  FlattenSeq(s) \in Seq(T) /\ \E at : LaidOut(s, at, FlattenSeq(s))
  <1> DEFINE n == Len(s)
  <1>1. n \in Nat /\ \A k \in 1 .. n : s[k] \in Seq(T) /\ Len(s[k]) \in Nat
    BY LenProperties, ElementOfSeq
  <1>2. PICK f \in [0 .. n -> Seq(T)] :
              f[0] = <<>> /\ (\A k \in 1 .. n : f[k] = f[k - 1] \o s[k]) /\ FlattenSeq(s) = f[n]
    BY Flattening
  <1> HIDE DEF n
  <1> DEFINE at == [k \in 0 .. n |-> Len(f[k])]
  <1>3. at \in [0 .. n -> Nat]
    <2>1. \A k \in 0 .. n : Len(f[k]) \in Nat
      BY LenProperties
    <2> QED
      BY <2>1
  <1>4. ASSUME NEW j \in 0 .. n, NEW k \in 0 .. n, k = j + 1
        PROVE  /\ at[k] = at[j] + Len(s[k])
               /\ \A p \in 1 .. at[j] : f[k][p] = f[j][p]
               /\ \A p \in 1 .. Len(s[k]) : f[k][at[j] + p] = s[k][p]
    <2>1. f[k] = f[j] \o s[k] /\ f[j] \in Seq(T) /\ s[k] \in Seq(T) /\ Len(f[j]) \in Nat /\ Len(s[k]) \in Nat
      <3>1. k \in 1 .. n /\ k - 1 = j
        BY <1>1, <1>4
      <3> QED
        BY <1>1, <1>2, <3>1, LenProperties
    <2> DEFINE x == f[j]
               y == s[k]
    <2>2. x \in Seq(T) /\ y \in Seq(T) /\ at[j] = Len(x) /\ at[k] = Len(x \o y) /\ Len(x) \in Nat /\ Len(y) \in Nat /\ f[k] = x \o y
      BY <2>1
    <2> HIDE DEF x, y, at
    <2>3. Len(x \o y) = Len(x) + Len(y) /\ \A p \in 1 .. Len(x) + Len(y) : (x \o y)[p] = IF p <= Len(x) THEN x[p] ELSE y[p - Len(x)]
      BY <2>2, ConcatProperties
    <2>4. \A p \in 1 .. Len(x) : (x \o y)[p] = x[p]
      BY <2>2, <2>3
    <2>5. ASSUME NEW p \in 1 .. Len(y) PROVE (x \o y)[Len(x) + p] = y[p]
      <3> DEFINE q == Len(x) + p
      <3>1. q \in 1 .. Len(x) + Len(y) /\ ~(q <= Len(x)) /\ q - Len(x) = p
        BY <2>2
      <3> HIDE DEF q
      <3>2. (x \o y)[q] = y[q - Len(x)]
        BY <2>3, <3>1
      <3> QED
        BY <3>1, <3>2 DEF q
    <2> QED
      BY <2>2, <2>3, <2>4, <2>5 DEF x, y
  <1>5. ASSUME NEW j \in 0 .. n, NEW k \in 0 .. n, k = j + 1
        PROVE  at[k] <= at[n] /\ \A p \in 1 .. Len(s[k]) : f[n][at[j] + p] = s[k][p]
    <2> DEFINE S == {l \in 0 .. n : l >= k => at[k] <= at[l] /\ \A p \in 1 .. Len(s[k]) : f[l][at[j] + p] = s[k][p]}
    <2>0. at[j] \in Nat /\ at[k] \in Nat /\ Len(s[k]) \in Nat /\ k # 0 /\ at[k] = at[j] + Len(s[k])
      BY <1>1, <1>3, <1>4, <1>5
    <2> HIDE DEF at
    <2>1. 0 \in S
      BY <1>1, <1>5
    <2>2. ASSUME NEW l \in 0 .. n - 1, l \in S PROVE l + 1 \in S
      <3>1. PICK m \in 0 .. n : m = l + 1
        BY <1>1
      <3>2. l \in 0 .. n /\ l \in Nat /\ m \in Nat /\ k \in Nat
        BY <1>1
      <3>3. CASE m < k
        BY <3>1, <3>3, <1>1, <3>2
      <3>4. CASE m = k
        <4>1. \A p \in 1 .. Len(s[k]) : f[k][at[j] + p] = s[k][p]
          BY <1>4, <1>5
        <4> QED
          BY <2>0, <3>1, <3>4, <4>1
      <3>5. CASE m > k
        <4>1. at[k] <= at[l] /\ \A p \in 1 .. Len(s[k]) : f[l][at[j] + p] = s[k][p]
          BY <2>2, <3>1, <3>2, <3>5, SMTT(30)
        <4>2. at[m] = at[l] + Len(s[m]) /\ (\A p \in 1 .. at[l] : f[m][p] = f[l][p]) /\ at[l] \in Nat /\ Len(s[m]) \in Nat
          <5>1. m \in 1 .. n
            BY <3>1, <3>2
          <5> QED
            BY <1>1, <1>3, <1>4, <3>1, <3>2, <5>1
        <4>3. ASSUME NEW p \in 1 .. Len(s[k]) PROVE f[m][at[j] + p] = s[k][p]
          <5>0. at[j] \in Nat /\ at[l] \in Nat /\ Len(s[k]) \in Nat /\ at[j] + Len(s[k]) <= at[l]
            BY <2>0, <4>1, <4>2
          <5>1. at[j] + p \in 1 .. at[l]
            BY <5>0, SMTT(30)
          <5> QED
            BY <4>1, <4>2, <5>1
        <4> QED
          BY <2>0, <3>1, <4>1, <4>2, <4>3
      <3> QED
        BY <3>1, <3>2, <3>3, <3>4, <3>5
    <2> HIDE DEF S
    <2>3. 0 .. n \subseteq S
      BY <1>1, <2>1, <2>2, Steps
    <2>4. n \in S /\ n >= k
      BY <1>1, <2>3
    <2> QED
      BY <2>4 DEF S
  <1>6. at[0] = 0 /\ at[n] = Len(FlattenSeq(s)) /\ f[n] \in Seq(T)
    <2>1. 0 \in 0 .. n /\ n \in 0 .. n /\ Len(<<>>) = 0
      BY <1>1, EmptySeq
    <2> QED
      BY <1>2, <2>1
  <1>7. LaidOut(s, at, FlattenSeq(s))
    <2> HIDE DEF at
    <2> QED
      BY <1>2, <1>3, <1>4, <1>5, <1>6 DEF LaidOut, n
  <1> QED
    BY <1>2, <1>6, <1>7

\* Everything lies in one of them, and they follow one another.
LEMMA Located ==
    ASSUME NEW n \in Nat, NEW at \in [0 .. n -> Nat], at[0] = 0,
           \A j, k \in 0 .. n : k = j + 1 => at[j] <= at[k]
    PROVE  /\ \A j, k \in 0 .. n : j <= k => at[j] <= at[k]
           /\ \A p \in 1 .. at[n] : \E j, k \in 0 .. n : k = j + 1 /\ at[j] < p /\ p <= at[k]
  <1>1. ASSUME NEW j \in 0 .. n PROVE \A k \in 0 .. n : j <= k => at[j] <= at[k]
    <2> DEFINE S == {k \in 0 .. n : j <= k => at[j] <= at[k]}
    <2>1. 0 \in S
      OBVIOUS
    <2>2. ASSUME NEW k \in 0 .. n - 1, k \in S PROVE k + 1 \in S
      <3>1. PICK l \in 0 .. n : l = k + 1
        OBVIOUS
      <3>2. k \in 0 .. n /\ at[k] \in Nat /\ at[l] \in Nat /\ at[j] \in Nat /\ at[k] <= at[l]
        BY <3>1
      <3>3. CASE j <= k
        BY <2>2, <3>1, <3>2, <3>3
      <3>4. CASE ~(j <= k)
        BY <3>1, <3>2, <3>4
      <3> QED
        BY <3>3, <3>4
    <2> HIDE DEF S
    <2>3. 0 .. n \subseteq S
      BY <2>1, <2>2, Steps
    <2> QED
      BY <2>3 DEF S
  <1>2. ASSUME NEW p \in 1 .. at[n] PROVE \E j, k \in 0 .. n : k = j + 1 /\ at[j] < p /\ p <= at[k]
    <2> DEFINE S == {k \in 0 .. n : at[k] < p}
    <2> SUFFICES ASSUME \A j, k \in 0 .. n : k = j + 1 /\ at[j] < p => ~(p <= at[k]) PROVE FALSE
      OBVIOUS
    <2>0. p \in Nat /\ p >= 1
      OBVIOUS
    <2>1. 0 \in S
      BY <2>0
    <2>2. ASSUME NEW k \in 0 .. n - 1, k \in S PROVE k + 1 \in S
      <3>1. PICK l \in 0 .. n : l = k + 1
        OBVIOUS
      <3>2. k \in 0 .. n /\ at[k] \in Nat /\ at[l] \in Nat /\ at[k] < p
        BY <2>2
      <3> QED
        BY <2>0, <3>1, <3>2
    <2> HIDE DEF S
    <2>3. 0 .. n \subseteq S
      BY <2>1, <2>2, Steps
    <2>4. n \in 0 .. n /\ at[n] \in Nat
      OBVIOUS
    <2> QED
      BY <2>3, <2>4 DEF S
  <1> QED
    BY <1>1, <1>2

\* A word is its two bytes.
LEMMA Recombined ==
    ASSUME NEW n \in Word
    PROVE  256 * (n \div 256) + (n % 256) = n
  <1>1. n \in Int
    BY Words
  <1> QED
    BY <1>1

\* An unsigned reading is a word.
LEMMA UnsignedWord ==
    ASSUME NEW n \in Int
    PROVE  Unsigned(n) \in Word
  <1>1. n % 65536 \in Int /\ 0 <= n % 65536 /\ n % 65536 <= 65535
    OBVIOUS
  <1> QED
    BY <1>1, Words DEF Unsigned

\* What an exchange of the bus is.
Said == [req : Queries, level : {0, 1}, t : Nat, asked : Recorded,
         answer : {"data", "exception", "none"}, replied : Recorded]

RequestValues(r) == <<r.dev, r.fn, r.start \div 256, r.start % 256, r.count \div 256, r.count % 256>>

\* The bytes of a request, without its CRC.
LEMMA RequestSaid ==
    ASSUME NEW r \in Request
    PROVE  /\ RequestValues(r) \in Seq(Byte) /\ Len(RequestValues(r)) = 6
           /\ RequestFrame(r) = Frame(RequestValues(r))
           /\ RequestValues(r)[1] = r.dev /\ RequestValues(r)[2] = r.fn
           /\ RequestValues(r)[3] = r.start \div 256
           /\ 256 * RequestValues(r)[3] + RequestValues(r)[4] = r.start
           /\ 256 * RequestValues(r)[5] + RequestValues(r)[6] = r.count
  <1>1. /\ r.dev \in Byte /\ r.fn \in Byte
        /\ r.start \div 256 \in Byte /\ r.start % 256 \in Byte
        /\ r.count \div 256 \in Byte /\ r.count % 256 \in Byte
        /\ r.start \in Word /\ r.count \in Word
    BY RequestParts, TwoBytes
  <1>2. 256 * (r.start \div 256) + (r.start % 256) = r.start /\ 256 * (r.count \div 256) + (r.count % 256) = r.count
    BY <1>1, Recombined
  <1>3. RequestValues(r) \in Seq(Byte) /\ Len(RequestValues(r)) = 6
    BY <1>1 DEF RequestValues
  <1> QED
    BY <1>2, <1>3 DEF RequestValues, RequestFrame

\* The data of a reply are bytes, two for each register.
LEMMA DataBytes ==
    ASSUME NEW q \in Request, NEW level \in {0, 1}
    PROVE  Data(q, level) \in Seq(Byte) /\ Len(Data(q, level)) = 2 * q.count
  <1> DEFINE word(b) == Unsigned(Reading(q.fn, q.dev, q.start + (b - 1) \div 2, level))
             byte(b) == IF b % 2 = 1 THEN word(b) \div 256 ELSE word(b) % 256
  <1>1. q.fn \in Int /\ q.dev \in Int /\ q.start \in Int /\ q.count \in Nat /\ level \in Int
    BY RequestParts, Words DEF Byte
  <1>2. ASSUME NEW b \in 1 .. 2 * q.count PROVE byte(b) \in Byte
    <2>1. q.start + (b - 1) \div 2 \in Int
      BY <1>1
    <2>2. \A reg \in Int : Reading(q.fn, q.dev, reg, level) \in Int
      BY <1>1 DEF Reading
    <2>3. word(b) \in Word
      BY <2>1, <2>2, UnsignedWord
    <2> HIDE DEF word
    <2> QED
      BY <2>3, TwoBytes
  <1>3. Data(q, level) = [b \in 1 .. 2 * q.count |-> byte(b)]
    BY DEF Data
  <1> HIDE DEF byte
  <1>4. 2 * q.count \in Nat
    BY <1>1
  <1> QED
    BY <1>2, <1>3, <1>4

ReplyHead(x) ==
    IF x.req.fn = 3 THEN <<x.req.dev, 3, 2 * x.req.count>>
    ELSE <<x.req.dev, 4, x.req.start \div 256, x.req.start % 256>>

ReplyValues(x) ==
    IF x.answer # "data" THEN <<x.req.dev, 128 + x.req.fn, 2>>
    ELSE IF x.req.fn = 6 THEN RequestValues(x.req)
    ELSE ReplyHead(x) \o Data(x.req, x.level)

\* Two sequences, one after the other.
LEMMA Concatenated ==
    ASSUME NEW S, NEW h \in Seq(S), NEW d \in Seq(S)
    PROVE  /\ h \o d \in Seq(S) /\ Len(h \o d) = Len(h) + Len(d) /\ Len(h) \in Nat /\ Len(d) \in Nat
           /\ \A p \in 1 .. Len(h) : (h \o d)[p] = h[p]
           /\ \A b \in 1 .. Len(d) : (h \o d)[Len(h) + b] = d[b]
  <1>1. h \o d \in Seq(S) /\ Len(h \o d) = Len(h) + Len(d) /\ Len(h) \in Nat /\ Len(d) \in Nat
        /\ \A p \in 1 .. Len(h) + Len(d) : (h \o d)[p] = IF p <= Len(h) THEN h[p] ELSE d[p - Len(h)]
    BY ConcatProperties, LenProperties
  <1>2. ASSUME NEW b \in 1 .. Len(d) PROVE (h \o d)[Len(h) + b] = d[b]
    <2> DEFINE q == Len(h) + b
    <2>1. q \in 1 .. Len(h) + Len(d) /\ ~(q <= Len(h)) /\ q - Len(h) = b
      BY <1>1
    <2> HIDE DEF q
    <2>2. (h \o d)[q] = d[q - Len(h)]
      BY <1>1, <2>1
    <2> QED
      BY <2>1, <2>2 DEF q
  <1> QED
    BY <1>1, <1>2

\* The bytes of a reply, without its CRC.
LEMMA ReplySaid ==
    ASSUME NEW x \in Said, x.answer # "none"
    PROVE  LET v == ReplyValues(x)
           IN  /\ v \in Seq(Byte) /\ Len(v) >= 3 /\ Reply(x) = Frame(v)
               /\ v[1] = x.req.dev
               /\ x.answer # "data" => v[2] = 128 + x.req.fn /\ Len(v) = 3
               /\ x.answer = "data" => v[2] = x.req.fn
               /\ x.answer = "data" /\ x.req.fn = 3 =>
                     /\ Len(v) = 3 + 2 * x.req.count /\ v[3] = 2 * x.req.count
                     /\ \A b \in 1 .. 2 * x.req.count : v[3 + b] = Data(x.req, x.level)[b]
               /\ x.answer = "data" /\ x.req.fn = 4 =>
                     /\ Len(v) = 4 + 2 * x.req.count /\ 256 * v[3] + v[4] = x.req.start
                     /\ \A b \in 1 .. 2 * x.req.count : v[4 + b] = Data(x.req, x.level)[b]
               /\ x.answer = "data" /\ x.req.fn = 6 => v = RequestValues(x.req)
  <1> DEFINE r == x.req
             d == Data(r, x.level)
             v == ReplyValues(x)
  <1>1. r \in Request /\ x.level \in {0, 1} /\ x.answer \in {"data", "exception", "none"}
    BY WireAssumption DEF Said
  <1>2. /\ r.dev \in Byte /\ r.fn \in {3, 4, 6} /\ r.fn \in Byte /\ 128 + r.fn \in Byte
        /\ r.start \div 256 \in Byte /\ r.start % 256 \in Byte
        /\ 256 * (r.start \div 256) + (r.start % 256) = r.start
    BY <1>1, RequestParts, TwoBytes, Recombined
  <1>3. 2 \in Byte /\ 3 \in Byte /\ 4 \in Byte /\ 2 * r.count \in Byte /\ r.count \in Nat
    <2>1. \A n \in 1 .. 125 : 2 * n \in Byte /\ n \in Nat
      BY DEF Byte
    <2>2. 2 \in Byte /\ 3 \in Byte /\ 4 \in Byte
      BY DEF Byte
    <2> QED
      BY <1>1, <2>1, <2>2, RequestParts
  <1>4. d \in Seq(Byte) /\ Len(d) = 2 * r.count
    BY <1>1, DataBytes
  <1>5. CASE x.answer # "data"
    <2>1. v = <<r.dev, 128 + r.fn, 2>> /\ Reply(x) = Frame(v)
      BY <1>5 DEF ReplyValues, Reply, ExceptionFrame
    <2>2. v \in Seq(Byte) /\ Len(v) = 3 /\ v[1] = r.dev /\ v[2] = 128 + r.fn
      BY <1>2, <1>3, <2>1
    <2> HIDE DEF v
    <2> QED
      BY <1>5, <2>1, <2>2 DEF v
  <1>6. CASE x.answer = "data" /\ r.fn = 6
    <2>1. v = RequestValues(r) /\ Reply(x) = RequestFrame(r)
      BY <1>6 DEF ReplyValues, Reply, ReplyFrame
    <2>2. /\ RequestValues(r) \in Seq(Byte) /\ Len(RequestValues(r)) = 6
          /\ RequestFrame(r) = Frame(RequestValues(r))
          /\ RequestValues(r)[1] = r.dev /\ RequestValues(r)[2] = r.fn
      BY <1>1, RequestSaid
    <2> QED
      BY <1>6, <2>1, <2>2
  <1>8. CASE x.answer = "data" /\ r.fn = 3
    <2> DEFINE h == <<r.dev, 3, 2 * r.count>>
    <2>1. v = h \o d /\ Reply(x) = Frame(h \o d)
      BY <1>8 DEF ReplyValues, ReplyHead, Reply, ReplyFrame
    <2>2. h \in Seq(Byte) /\ Len(h) = 3 /\ h[1] = r.dev /\ h[2] = 3 /\ h[3] = 2 * r.count
      BY <1>2, <1>3
    <2> HIDE DEF h, d, v
    <2>3. /\ v \in Seq(Byte) /\ Len(v) = 3 + 2 * r.count
          /\ \A p \in 1 .. 3 : v[p] = h[p]
          /\ \A b \in 1 .. 2 * r.count : v[3 + b] = d[b]
      <3>1. /\ h \o d \in Seq(Byte) /\ Len(h \o d) = Len(h) + Len(d)
            /\ \A p \in 1 .. Len(h) : (h \o d)[p] = h[p]
            /\ \A b \in 1 .. Len(d) : (h \o d)[Len(h) + b] = d[b]
        <4>1. h \in Seq(Byte) /\ d \in Seq(Byte)
          BY <1>4, <2>2
        <4>2. Len(h \o d) = Len(h) + Len(d)
          BY <4>1, Concatenated
        <4>4. \A p \in 1 .. Len(h) : (h \o d)[p] = h[p]
          BY <4>1, Concatenated
        <4>3. h \o d \in Seq(Byte)
          BY <4>1, Concatenated, Zenon
        <4>5. \A b \in 1 .. Len(d) : (h \o d)[Len(h) + b] = d[b]
          BY <4>1, Concatenated
        <4> QED
          BY <4>2, <4>3, <4>4, <4>5
      <3> QED
        BY <1>4, <2>1, <2>2, <3>1
    <2>4. v[1] = h[1] /\ v[2] = h[2] /\ v[3] = h[3]
      BY <2>3
    <2>5. Len(v) >= 3
      BY <1>3, <2>3
    <2>6. /\ v \in Seq(Byte) /\ Len(v) >= 3 /\ Reply(x) = Frame(v) /\ v[1] = r.dev /\ v[2] = 3
          /\ Len(v) = 3 + 2 * r.count /\ v[3] = 2 * r.count
          /\ \A b \in 1 .. 2 * r.count : v[3 + b] = d[b]
      BY <2>1, <2>2, <2>3, <2>4, <2>5
    <2> QED
      BY <1>8, <2>6 DEF v, d
  <1>9. CASE x.answer = "data" /\ r.fn = 4
    <2> DEFINE h == <<r.dev, 4, r.start \div 256, r.start % 256>>
    <2>1. v = h \o d /\ Reply(x) = Frame(h \o d)
      BY <1>9 DEF ReplyValues, ReplyHead, Reply, ReplyFrame
    <2>2. h \in Seq(Byte) /\ Len(h) = 4 /\ h[1] = r.dev /\ h[2] = 4 /\ 256 * h[3] + h[4] = r.start
      BY <1>2, <1>3
    <2> HIDE DEF h, d, v
    <2>3. /\ v \in Seq(Byte) /\ Len(v) = 4 + 2 * r.count
          /\ \A p \in 1 .. 4 : v[p] = h[p]
          /\ \A b \in 1 .. 2 * r.count : v[4 + b] = d[b]
      <3>1. /\ h \o d \in Seq(Byte) /\ Len(h \o d) = Len(h) + Len(d)
            /\ \A p \in 1 .. Len(h) : (h \o d)[p] = h[p]
            /\ \A b \in 1 .. Len(d) : (h \o d)[Len(h) + b] = d[b]
        <4>1. h \in Seq(Byte) /\ d \in Seq(Byte)
          BY <1>4, <2>2
        <4>2. Len(h \o d) = Len(h) + Len(d)
          BY <4>1, Concatenated
        <4>4. \A p \in 1 .. Len(h) : (h \o d)[p] = h[p]
          BY <4>1, Concatenated
        <4>3. h \o d \in Seq(Byte)
          BY <4>1, Concatenated, Zenon
        <4>5. \A b \in 1 .. Len(d) : (h \o d)[Len(h) + b] = d[b]
          BY <4>1, Concatenated
        <4> QED
          BY <4>2, <4>3, <4>4, <4>5
      <3> QED
        BY <1>4, <2>1, <2>2, <3>1
    <2>4. v[1] = h[1] /\ v[2] = h[2] /\ v[3] = h[3] /\ v[4] = h[4]
      BY <2>3
    <2>5. Len(v) >= 3
      BY <1>3, <2>3
    <2>6. /\ v \in Seq(Byte) /\ Len(v) >= 3 /\ Reply(x) = Frame(v) /\ v[1] = r.dev /\ v[2] = 4
          /\ Len(v) = 4 + 2 * r.count /\ 256 * v[3] + v[4] = r.start
          /\ \A b \in 1 .. 2 * r.count : v[4 + b] = d[b]
      BY <2>1, <2>2, <2>3, <2>4, <2>5
    <2> QED
      BY <1>9, <2>6 DEF v, d
  <1> QED
    BY <1>1, <1>2, <1>5, <1>6, <1>8, <1>9

LogLine == [b : Seq(Cell), t : Nat, ok : BOOLEAN]
BytesRead(l) == IF l.ok THEN l.b ELSE <<>>

\* Where the bytes of each log line lie in the stream.
Streamed(lines, at, bytes, stamps) ==
    /\ at \in [0 .. Len(lines) -> Nat] /\ at[0] = 0 /\ at[Len(lines)] = Len(bytes)
    /\ \A j, k \in 0 .. Len(lines) : k = j + 1 =>
          /\ at[k] = at[j] + Len(BytesRead(lines[k]))
          /\ \A p \in 1 .. Len(BytesRead(lines[k])) :
                bytes[at[j] + p] = BytesRead(lines[k])[p] /\ stamps[at[j] + p] = lines[k].t

\* load_byte_stream: what is read of the lines lies in the stream in their order,
\* and every byte has the time of its line.
LEMMA StreamRead ==
    ASSUME NEW lines \in Seq(LogLine)
    PROVE  LET log == LoadByteStream(lines)
           IN  /\ log.bytes \in Seq(Cell) /\ log.times \in Seq(Nat) /\ Len(log.times) = Len(log.bytes)
               /\ \E at : Streamed(lines, at, log.bytes, log.times)
  <1> DEFINE n == Len(lines)
             B == [k \in 1 .. n |-> BytesRead(lines[k])]
             T == [k \in 1 .. n |-> [j \in 1 .. Len(BytesRead(lines[k])) |-> lines[k].t]]
             bytes == FlattenSeq(B)
             stamps == FlattenSeq(T)
  <1>1. n \in Nat /\ \A k \in 1 .. n : BytesRead(lines[k]) \in Seq(Cell) /\ lines[k].t \in Nat
                                        /\ Len(BytesRead(lines[k])) \in Nat
    <2>1. n \in Nat /\ \A k \in 1 .. n : lines[k] \in LogLine
      BY LenProperties, ElementOfSeq
    <2>2. \A l \in LogLine : BytesRead(l) \in Seq(Cell) /\ l.t \in Nat
      BY EmptySeq DEF LogLine, BytesRead
    <2> HIDE DEF n
    <2>3. \A k \in 1 .. n : BytesRead(lines[k]) \in Seq(Cell) /\ lines[k].t \in Nat
      BY <2>1, <2>2
    <2> QED
      BY <2>1, <2>3, LenProperties
  <1>2. LoadByteStream(lines).bytes = bytes /\ LoadByteStream(lines).times = stamps
    BY DEF LoadByteStream, BytesRead
  <1>3. B \in Seq(Seq(Cell)) /\ Len(B) = n /\ \A k \in 1 .. n : B[k] = BytesRead(lines[k])
    <2> HIDE DEF n
    <2> QED
      BY <1>1
  <1>4. T \in Seq(Seq(Nat)) /\ Len(T) = n
        /\ \A k \in 1 .. n : Len(T[k]) = Len(BytesRead(lines[k])) /\ \A p \in 1 .. Len(T[k]) : T[k][p] = lines[k].t
    <2> DEFINE x(k) == [j \in 1 .. Len(BytesRead(lines[k])) |-> lines[k].t]
    <2>1. \A k \in 1 .. n : x(k) \in Seq(Nat) /\ Len(x(k)) = Len(BytesRead(lines[k]))
                           /\ \A p \in 1 .. Len(x(k)) : x(k)[p] = lines[k].t
      BY <1>1
    <2> HIDE DEF n, x
    <2>2. T = [k \in 1 .. n |-> x(k)]
      BY DEF x
    <2>3. T \in Seq(Seq(Nat)) /\ Len(T) = n /\ \A k \in 1 .. n : T[k] = x(k)
      BY <1>1, <2>1, <2>2
    <2> HIDE DEF T
    <2> QED
      BY <2>1, <2>3
  <1> HIDE DEF B, T, n
  <1>5. bytes \in Seq(Cell) /\ \E at : LaidOut(B, at, bytes)
    BY <1>3, Layout, Zenon
  <1>6. stamps \in Seq(Nat) /\ \E at : LaidOut(T, at, stamps)
    BY <1>4, Layout, Zenon
  <1> HIDE DEF bytes, stamps
  <1>7. PICK at : LaidOut(B, at, bytes)
    BY <1>5
  <1>8. PICK bt : LaidOut(T, bt, stamps)
    BY <1>6
  <1>a. /\ at \in [0 .. n -> Nat] /\ at[0] = 0 /\ at[n] = Len(bytes)
        /\ \A j, k \in 0 .. n : k = j + 1 =>
              at[k] = at[j] + Len(B[k]) /\ \A p \in 1 .. Len(B[k]) : bytes[at[j] + p] = B[k][p]
    BY <1>3, <1>7 DEF LaidOut
  <1>b. /\ bt \in [0 .. n -> Nat] /\ bt[0] = 0 /\ bt[n] = Len(stamps)
        /\ \A j, k \in 0 .. n : k = j + 1 =>
              bt[k] = bt[j] + Len(T[k]) /\ \A p \in 1 .. Len(T[k]) : stamps[bt[j] + p] = T[k][p]
    BY <1>4, <1>8 DEF LaidOut
  <1>9. \A k \in 0 .. n : at[k] = bt[k]
    <2> DEFINE S == {k \in 0 .. n : at[k] = bt[k]}
    <2>1. 0 \in S
      BY <1>1, <1>a, <1>b
    <2>2. ASSUME NEW j \in 0 .. n - 1, j \in S PROVE j + 1 \in S
      <3>1. PICK k \in 1 .. n : k = j + 1
        BY <1>1
      <3>2. j \in 0 .. n /\ k \in 0 .. n /\ Len(T[k]) = Len(B[k])
        BY <1>1, <1>3, <1>4, <3>1
      <3>3. at[k] = at[j] + Len(B[k])
        BY <1>a, <3>1, <3>2
      <3>4. bt[k] = bt[j] + Len(T[k])
        BY <1>b, <3>1, <3>2
      <3> QED
        BY <2>2, <3>1, <3>2, <3>3, <3>4
    <2> HIDE DEF S
    <2>3. 0 .. n \subseteq S
      BY <1>1, <2>1, <2>2, Steps
    <2> QED
      BY <2>3 DEF S
  <1>10. Streamed(lines, at, bytes, stamps)
    <2>1. ASSUME NEW j \in 0 .. n, NEW k \in 0 .. n, k = j + 1
          PROVE  /\ at[k] = at[j] + Len(BytesRead(lines[k]))
                 /\ \A p \in 1 .. Len(BytesRead(lines[k])) :
                       bytes[at[j] + p] = BytesRead(lines[k])[p] /\ stamps[at[j] + p] = lines[k].t
      <3>1. k \in 1 .. n
        BY <1>1, <2>1
      <3>2. B[k] = BytesRead(lines[k]) /\ Len(T[k]) = Len(B[k]) /\ \A p \in 1 .. Len(T[k]) : T[k][p] = lines[k].t
        BY <1>3, <1>4, <3>1
      <3>3. at[k] = at[j] + Len(B[k]) /\ \A p \in 1 .. Len(B[k]) : bytes[at[j] + p] = B[k][p]
        BY <1>a, <2>1
      <3>4. \A p \in 1 .. Len(T[k]) : stamps[at[j] + p] = T[k][p]
        BY <1>9, <1>b, <2>1
      <3> QED
        BY <3>2, <3>3, <3>4
    <2> QED
      BY <1>a, <2>1 DEF Streamed, n
  <1>11. Len(stamps) = Len(bytes)
    <2>1. n \in 0 .. n
      BY <1>1
    <2> QED
      BY <1>9, <1>a, <1>b, <2>1
  <1> QED
    BY <1>2, <1>5, <1>6, <1>10, <1>11

\* One frame of the bus between a and b of the stream: the whole of it, with its
\* time; or something in which no CRC ends that it could belong to.
Piece(v, t, how, a, b, bytes, stamps) ==
    /\ a <= b
    /\ how \in Intact => /\ b = a + Len(v) + 2 /\ stamps[a + 1] = t
                         /\ \A p \in 1 .. Len(v) + 2 : bytes[a + p] = Frame(v)[p]
    /\ how \notin Intact => \A w : \A p \in a + 1 .. b :
                               HiOf(bytes[p], w) => how = "tail" /\ p < a + Len(w) + 2

\* The lines of a frame, and what is read of them.
LEMMA LinesMade ==
    ASSUME NEW f \in Seq(Cell), Len(f) >= 4, NEW t \in Nat, NEW how \in Recorded, NEW L, L = Lines(f, t, how)
    PROVE  /\ L \in Seq(LogLine)
           /\ how = "whole" => Len(L) = 1 /\ L[1].t = t /\ BytesRead(L[1]) = f
           /\ how = "damaged" => Len(L) = 1 /\ BytesRead(L[1]) = Damaged(f, "crc")
           /\ how = "lost" => Len(L) = 1 /\ BytesRead(L[1]) = <<>>
           /\ how \in {"split", "head", "tail"} =>
                 /\ Len(L) = 2 /\ L[1].t = t
                 /\ BytesRead(L[1]) = IF how = "tail" THEN <<>> ELSE SubSeq(f, 1, 4)
                 /\ BytesRead(L[2]) = IF how = "head" THEN <<>> ELSE Drop(f, 4)
  <1> DEFINE d == Damaged(f, "crc")
             s == SubSeq(f, 1, 4)
             r == Drop(f, 4)
             read(b, at) == [b |-> b, t |-> at, ok |-> TRUE]
             cut(b, at) == [b |-> b, t |-> at, ok |-> FALSE]
  <1>1. d \in Seq(Cell)
    BY DamagedCells DEF Damages
  <1>2. s \in Seq(Cell) /\ r \in Seq(Cell) /\ t + 1 \in Nat
    <2>1. Len(f) \in Nat /\ 4 \in 0 .. Len(f)
      BY LenProperties
    <2>2. s \in Seq(Cell)
      BY <2>1, StartPart
    <2>3. r \in Seq(Cell)
      BY <2>1, RestPart
    <2> QED
      BY <2>2, <2>3
  <1>3. /\ how = "whole" => L = << read(f, t) >>
        /\ how = "damaged" => L = << read(d, t) >>
        /\ how = "lost" => L = << cut(f, t) >>
        /\ how = "split" => L = << read(s, t), read(r, t + 1) >>
        /\ how = "head" => L = << read(s, t), cut(r, t + 1) >>
        /\ how = "tail" => L = << cut(s, t), read(r, t + 1) >>
    BY DEF Lines
  <1>4. \A b \in Seq(Cell), u \in Nat :
          /\ read(b, u) \in LogLine /\ cut(b, u) \in LogLine /\ read(b, u).t = u /\ cut(b, u).t = u
          /\ BytesRead(read(b, u)) = b /\ BytesRead(cut(b, u)) = <<>>
    BY DEF LogLine, BytesRead
  <1> HIDE DEF d, s, r, read, cut
  <1>a. ASSUME NEW x \in LogLine, L = <<x>> PROVE L \in Seq(LogLine) /\ Len(L) = 1 /\ L[1] = x
    BY <1>a
  <1>b. ASSUME NEW x \in LogLine, NEW y \in LogLine, L = <<x, y>>
        PROVE  L \in Seq(LogLine) /\ Len(L) = 2 /\ L[1] = x /\ L[2] = y
    BY <1>b
  <1>6. CASE how = "whole"
    <2> DEFINE x == read(f, t)
    <2>1. x \in LogLine /\ x.t = t /\ BytesRead(x) = f /\ L = <<x>>
      BY <1>3, <1>4, <1>6
    <2> HIDE DEF x
    <2>2. L \in Seq(LogLine) /\ Len(L) = 1 /\ L[1] = x
      BY <1>a, <2>1
    <2> QED
      BY <1>6, <2>1, <2>2
  <1>7. CASE how = "damaged"
    <2> DEFINE x == read(d, t)
    <2>1. x \in LogLine /\ x.t = t /\ BytesRead(x) = d /\ L = <<x>>
      BY <1>3, <1>4, <1>7, <1>1
    <2> HIDE DEF x
    <2>2. L \in Seq(LogLine) /\ Len(L) = 1 /\ L[1] = x
      BY <1>a, <2>1
    <2> QED
      BY <1>7, <2>1, <2>2 DEF d
  <1>8. CASE how = "lost"
    <2> DEFINE x == cut(f, t)
    <2>1. x \in LogLine /\ x.t = t /\ BytesRead(x) = <<>> /\ L = <<x>>
      BY <1>3, <1>4, <1>8
    <2> HIDE DEF x
    <2>2. L \in Seq(LogLine) /\ Len(L) = 1 /\ L[1] = x
      BY <1>a, <2>1
    <2> QED
      BY <1>8, <2>1, <2>2
  <1>9. CASE how = "split"
    <2> DEFINE x == read(s, t)
               y == read(r, t + 1)
    <2>1. /\ x \in LogLine /\ x.t = t /\ BytesRead(x) = s /\ y \in LogLine /\ BytesRead(y) = r
          /\ L = <<x, y>>
      BY <1>2, <1>3, <1>4, <1>9
    <2> HIDE DEF x, y
    <2>2. L \in Seq(LogLine) /\ Len(L) = 2 /\ L[1] = x /\ L[2] = y
      BY <1>b, <2>1
    <2> QED
      BY <1>9, <2>1, <2>2 DEF s, r
  <1>10. CASE how = "head"
    <2> DEFINE x == read(s, t)
               y == cut(r, t + 1)
    <2>1. /\ x \in LogLine /\ x.t = t /\ BytesRead(x) = s /\ y \in LogLine /\ BytesRead(y) = <<>>
          /\ L = <<x, y>>
      BY <1>2, <1>3, <1>4, <1>10
    <2> HIDE DEF x, y
    <2>2. L \in Seq(LogLine) /\ Len(L) = 2 /\ L[1] = x /\ L[2] = y
      BY <1>b, <2>1
    <2> QED
      BY <1>10, <2>1, <2>2 DEF s, r
  <1>11. CASE how = "tail"
    <2> DEFINE x == cut(s, t)
               y == read(r, t + 1)
    <2>1. /\ x \in LogLine /\ x.t = t /\ BytesRead(x) = <<>> /\ y \in LogLine /\ BytesRead(y) = r
          /\ L = <<x, y>>
      BY <1>2, <1>3, <1>4, <1>11
    <2> HIDE DEF x, y
    <2>2. L \in Seq(LogLine) /\ Len(L) = 2 /\ L[1] = x /\ L[2] = y
      BY <1>b, <2>1
    <2> QED
      BY <1>11, <2>1, <2>2 DEF s, r
  <1> QED
    BY <1>6, <1>7, <1>8, <1>9, <1>10, <1>11 DEF Recorded

\* The end of the CRC is the last byte of a frame; in a damaged one it is gone.
LEMMA FrameEnd ==
    ASSUME NEW v \in Seq(Byte), Len(v) >= 3
    PROVE  LET f == Frame(v)
           IN  /\ f \in Seq(Cell) /\ Len(f) = Len(v) + 2 /\ Len(v) \in Nat
               /\ HiOf(f[Len(v) + 2], v)
               /\ \A w : \A p \in 1 .. Len(f) : HiOf(f[p], w) => p = Len(v) + 2 /\ w = v
               /\ Damaged(f, "crc") \in Seq(Cell)
               /\ \A w : \A p \in 1 .. Len(Damaged(f, "crc")) : ~HiOf(Damaged(f, "crc")[p], w)
  <1> DEFINE f == Frame(v)
             n == Len(v) + 2
             g == Damaged(f, "crc")
  <1>1. Len(v) \in Nat /\ n \in Nat /\ n - 1 = Len(v) + 1
    BY LenProperties
  <1>2. /\ f \in Seq(Cell) /\ Len(f) = n
        /\ \A p \in 1 .. Len(v) : f[p] = DataCell(v[p])
        /\ f[n - 1] = LoCell(v) /\ f[n] = HiCell(v)
    BY <1>1, FrameParts
  <1> HIDE DEF f, g
  <1>3. HiOf(f[n], v) /\ \A w : HiOf(f[n], w) => w = v
    BY <1>2, CrcOf
  <1>4. ASSUME NEW p \in 1 .. n, p # n, NEW w PROVE ~HiOf(f[p], w)
    <2>1. CASE p \in 1 .. Len(v)
      <3>1. NoCrc(f[p])
        BY <1>2, <2>1, DataCells
      <3> QED
        BY <3>1, NoCrcNeither
    <2>2. CASE p = n - 1
      <3>1. LoOf(f[p], v)
        BY <1>2, <2>2, CrcOf
      <3> QED
        BY <3>1, LoNotHi
    <2> QED
      BY <1>1, <1>4, <2>1, <2>2
  <1>5. g = [f EXCEPT ![n].crc = <<>>]
    BY <1>2 DEF g, Damaged
  <1>6. g \in Seq(Cell) /\ Len(f) >= 2
    BY <1>1, <1>2, DamagedCells DEF g, Damages
  <1>7. f = [p \in 1 .. n |-> f[p]] /\ DOMAIN f = 1 .. n
    BY <1>2
  <1>8. DOMAIN g = 1 .. n /\ g[n].crc = <<>> /\ \A p \in 1 .. n : p # n => g[p] = f[p]
    <2>1. n \in 1 .. n
      BY <1>1
    <2>2. f[n] = [v |-> CrcHi, crc |-> <<"hi", v>>]
      BY <1>2 DEF HiCell
    <2>3. g[n] = [f[n] EXCEPT !.crc = <<>>]
      BY <1>5, <1>7, <2>1
    <2>4. g[n].crc = <<>>
      BY <2>2, <2>3
    <2> QED
      BY <1>5, <1>7, <2>4
  <1>9. Len(g) = n
    BY <1>1, <1>6, <1>8, LenProperties
  <1>10. ASSUME NEW p \in 1 .. n, NEW w PROVE ~HiOf(g[p], w)
    <2>1. CASE p = n
      <3>1. NoCrc(g[p])
        BY <1>8, <2>1 DEF NoCrc
      <3> QED
        BY <3>1, NoCrcNeither
    <2>2. CASE p # n
      BY <1>4, <1>8, <2>2
    <2> QED
      BY <2>1, <2>2
  <1> QED
    BY <1>1, <1>2, <1>3, <1>4, <1>6, <1>9, <1>10 DEF f, g

\* A place after another one is some places after it.
LEMMA Shifted ==
    ASSUME NEW a \in Nat, NEW n \in Nat, NEW p \in a + 1 .. a + n
    PROVE  \E q \in 1 .. n : p = a + q
  <1>1. p - a \in 1 .. n /\ p = a + (p - a)
    OBVIOUS
  <1> QED
    BY <1>1

\* Bytes without the end of a CRC are no frame.
LEMMA NoEnd ==
    ASSUME NEW v, NEW t, NEW how, how \notin Intact, NEW a \in Nat, NEW b \in Nat, NEW bytes, NEW stamps,
           NEW x, NEW n \in Nat, b = a + n, \A p \in 1 .. n : bytes[a + p] = x[p],
           \A w : \A p \in 1 .. n : ~HiOf(x[p], w)
    PROVE  Piece(v, t, how, a, b, bytes, stamps)
  <1>1. ASSUME NEW p \in a + 1 .. b, NEW w PROVE ~HiOf(bytes[p], w)
    <2>1. PICK q \in 1 .. n : p = a + q
      BY Shifted
    <2> QED
      BY <2>1
  <1> QED
    BY <1>1 DEF Piece

\* The whole of a frame, on one line or on two.
LEMMA WholeFrame ==
    ASSUME NEW v, NEW t, NEW how \in Intact, NEW a \in Nat, NEW b \in Nat, NEW bytes, NEW stamps, Len(v) \in Nat,
           b = a + (Len(v) + 2), stamps[a + 1] = t, \A p \in 1 .. Len(v) + 2 : bytes[a + p] = Frame(v)[p]
    PROVE  Piece(v, t, how, a, b, bytes, stamps)
  BY DEF Piece

\* The end of a frame, and what it ends is not there.
LEMMA EndOnly ==
    ASSUME NEW v, NEW t, NEW a \in Nat, NEW b \in Nat, NEW bytes, NEW stamps, Len(v) \in Nat,
           NEW f, NEW n \in Nat, n = Len(v) + 2, 4 <= n, b = a + (n - 4),
           \A p \in 1 .. n - 4 : bytes[a + p] = f[4 + p],
           \A w : \A p \in 1 .. n : HiOf(f[p], w) => p = n /\ w = v
    PROVE  Piece(v, t, "tail", a, b, bytes, stamps)
  <1>1. ASSUME NEW p \in a + 1 .. b, NEW w, HiOf(bytes[p], w) PROVE p < a + Len(w) + 2
    <2>1. n - 4 \in Nat
      OBVIOUS
    <2>2. PICK q \in 1 .. n - 4 : p = a + q
      BY <2>1, Shifted
    <2>3. HiOf(f[4 + q], w) /\ 4 + q \in 1 .. n
      BY <1>1, <2>1, <2>2
    <2>4. 4 + q = n /\ w = v
      BY <2>3
    <2> QED
      BY <2>2, <2>4
  <1> QED
    BY <1>1 DEF Piece, Intact

Holds(lines, j, some) == \A p \in 1 .. Len(some) : lines[j + p] = some[p]

\* The lines of a frame give a piece of the stream.
LEMMA PieceStreamed ==
    ASSUME NEW v \in Seq(Byte), Len(v) >= 3, NEW t \in Nat, NEW how \in Recorded,
           NEW lines \in Seq(LogLine), NEW at, NEW bytes, NEW stamps, Streamed(lines, at, bytes, stamps),
           NEW j \in Nat, NEW k \in Nat, k <= Len(lines), k = j + Len(Lines(Frame(v), t, how)),
           Holds(lines, j, Lines(Frame(v), t, how))
    PROVE  Piece(v, t, how, at[j], at[k], bytes, stamps)
  <1> DEFINE f == Frame(v)
             L == Lines(f, t, how)
             n == Len(v) + 2
             g == Damaged(f, "crc")
  <1>1. /\ f \in Seq(Cell) /\ Len(f) = n /\ Len(v) \in Nat /\ n \in Nat /\ Len(f) >= 4
        /\ \A w : \A p \in 1 .. n : HiOf(f[p], w) => p = n /\ w = v
        /\ g \in Seq(Cell) /\ \A w : \A p \in 1 .. Len(g) : ~HiOf(g[p], w)
    <2>1. f \in Seq(Cell) /\ Len(f) = n /\ Len(v) \in Nat
      BY FrameEnd
    <2>2. \A w : \A p \in 1 .. n : HiOf(f[p], w) => p = n /\ w = v
      <3> SUFFICES ASSUME NEW w, NEW p \in 1 .. n, HiOf(f[p], w) PROVE p = n /\ w = v
        OBVIOUS
      <3>1. p \in 1 .. Len(f)
        BY <2>1
      <3> QED
        BY <3>1, FrameEnd
    <2>3. g \in Seq(Cell)
      BY FrameEnd
    <2>4. \A w : \A p \in 1 .. Len(g) : ~HiOf(g[p], w)
      BY FrameEnd
    <2> QED
      BY <2>1, <2>2, <2>3, <2>4
  <1> HIDE DEF f, g
  <1>n. Len(f) = n /\ n \in Nat /\ 5 <= n
    BY <1>1
  <1> DEFINE s == SubSeq(f, 1, 4)
             r == Drop(f, 4)
  <1>3. /\ s \in Seq(Cell) /\ Len(s) = 4 /\ \A p \in 1 .. 4 : s[p] = f[p]
        /\ r \in Seq(Cell) /\ Len(r) = n - 4 /\ \A p \in 1 .. n - 4 : r[p] = f[4 + p]
    <2>1. 4 \in 0 .. Len(f) /\ 4 \in Nat /\ 4 <= Len(f)
      BY <1>1
    <2>2. s \in Seq(Cell) /\ Len(s) = 4 /\ \A p \in 1 .. 4 : s[p] = f[p]
      BY <1>1, <2>1, StartPart
    <2>3. r \in Seq(Cell) /\ Len(r) = Len(f) - 4 /\ \A p \in 1 .. Len(f) - 4 : r[p] = f[4 + p]
      BY <1>1, <2>1, RestPart
    <2> QED
      BY <1>1, <2>2, <2>3
  <1>2. /\ how = "whole" => Len(L) = 1 /\ L[1].t = t /\ BytesRead(L[1]) = f
        /\ how = "damaged" => Len(L) = 1 /\ BytesRead(L[1]) = g
        /\ how = "lost" => Len(L) = 1 /\ BytesRead(L[1]) = <<>>
        /\ how \in {"split", "head", "tail"} =>
              /\ Len(L) = 2 /\ L[1].t = t
              /\ BytesRead(L[1]) = IF how = "tail" THEN <<>> ELSE s
              /\ BytesRead(L[2]) = IF how = "head" THEN <<>> ELSE r
    <2>1. f \in Seq(Cell) /\ Len(f) >= 4
      BY <1>1
    <2> QED
      BY <2>1, LinesMade DEF g
  <1>4. k = j + Len(L) /\ \A p \in 1 .. Len(L) : lines[j + p] = L[p]
    BY DEF f, Holds
  <1> HIDE DEF L, s, r
  <1>5. ASSUME NEW l \in Nat, NEW m \in Nat, m = l + 1, m <= Len(lines)
        PROVE  /\ at[l] \in Nat /\ at[m] \in Nat /\ at[m] = at[l] + Len(BytesRead(lines[m]))
               /\ \A p \in 1 .. Len(BytesRead(lines[m])) :
                     bytes[at[l] + p] = BytesRead(lines[m])[p] /\ stamps[at[l] + p] = lines[m].t
    <2>1. l \in 0 .. Len(lines) /\ m \in 0 .. Len(lines) /\ Len(lines) \in Nat
      BY <1>5, LenProperties
    <2> QED
      BY <1>5, <2>1 DEF Streamed
  <1>6. CASE how \in {"whole", "damaged", "lost"}
    <2> DEFINE x == BytesRead(lines[k])
               A == at[j]
               B == at[k]
    <2>1. k = j + 1 /\ lines[k] = L[1]
      BY <1>2, <1>4, <1>6, SMTT(30)
    <2>2. /\ how = "whole" => x = f /\ lines[k].t = t
          /\ how = "damaged" => x = g
          /\ how = "lost" => x = <<>>
      BY <1>2, <2>1
    <2>3. /\ A \in Nat /\ B \in Nat /\ B = A + Len(x)
          /\ \A p \in 1 .. Len(x) : bytes[A + p] = x[p] /\ stamps[A + p] = lines[k].t
      BY <1>5, <2>1
    <2> HIDE DEF x, A, B
    <2>4. CASE how = "whole"
      <3>1. /\ B = A + n /\ stamps[A + 1] = t /\ how \in Intact
            /\ \A p \in 1 .. n : bytes[A + p] = f[p]
        <4>1. x = f /\ lines[k].t = t /\ how \in Intact
          BY <2>2, <2>4 DEF Intact
        <4>2. Len(x) = n /\ 1 \in 1 .. Len(x)
          BY <1>n, <4>1
        <4>3. stamps[A + 1] = t
          BY <2>3, <4>1, <4>2
        <4>4. \A p \in 1 .. n : bytes[A + p] = f[p]
          BY <2>3, <4>1, <4>2
        <4> QED
          BY <2>3, <4>1, <4>2, <4>3, <4>4
      <3> QED
        <4>1. Piece(v, t, how, A, B, bytes, stamps)
          BY <1>1, <2>3, <3>1, WholeFrame DEF f
        <4> QED
          BY <4>1 DEF A, B
    <2>5. CASE how = "damaged"
      <3>1. Len(g) \in Nat /\ B = A + Len(g) /\ (\A p \in 1 .. Len(g) : bytes[A + p] = g[p]) /\ how \notin Intact
        <4>1. x = g /\ how \notin Intact
          BY <2>2, <2>5 DEF Intact
        <4>2. Len(g) \in Nat
          BY <1>1, LenProperties
        <4> QED
          BY <2>3, <4>1, <4>2
      <3>2. \A w : \A p \in 1 .. Len(g) : ~HiOf(g[p], w)
        BY <1>1
      <3>3. Piece(v, t, how, A, B, bytes, stamps)
        BY <2>3, <3>1, <3>2, NoEnd
      <3> QED
        BY <3>3 DEF A, B
    <2>6. CASE how = "lost"
      <3> DEFINE e == <<>>
      <3>1. 0 \in Nat /\ B = A + 0 /\ how \notin Intact
        <4>1. x = <<>> /\ how \notin Intact /\ Len(<<>>) = 0
          BY <2>2, <2>6, EmptySeq DEF Intact
        <4> QED
          BY <2>3, <4>1
      <3>2. (\A p \in 1 .. 0 : bytes[A + p] = e[p]) /\ (\A w : \A p \in 1 .. 0 : ~HiOf(e[p], w))
        OBVIOUS
      <3> HIDE DEF e
      <3>3. Piece(v, t, how, A, B, bytes, stamps)
        BY <2>3, <3>1, <3>2, NoEnd
      <3> QED
        BY <3>3 DEF A, B
    <2> QED
      BY <1>6, <2>4, <2>5, <2>6
  <1>7. CASE how \in {"split", "head", "tail"}
    <2>1. PICK m \in Nat : m = j + 1 /\ k = m + 1 /\ m <= Len(lines) /\ lines[m] = L[1] /\ lines[k] = L[2]
      <3>1. k = j + 2 /\ lines[j + 1] = L[1] /\ lines[j + 2] = L[2] /\ Len(lines) \in Nat
        <4>1. Len(L) = 2 /\ 1 \in 1 .. Len(L) /\ 2 \in 1 .. Len(L)
          BY <1>2, <1>7
        <4>2. Len(lines) \in Nat
          BY LenProperties
        <4> QED
          BY <1>4, <4>1, <4>2
      <3> QED
        BY <3>1
    <2> DEFINE x == BytesRead(lines[m])
               y == BytesRead(lines[k])
               A == at[j]
               B == at[k]
               M == at[m]
    <2>2. /\ x = (IF how = "tail" THEN <<>> ELSE s) /\ lines[m].t = t
          /\ y = (IF how = "head" THEN <<>> ELSE r)
      BY <1>2, <1>7, <2>1
    <2>3. /\ A \in Nat /\ M \in Nat /\ M = A + Len(x)
          /\ \A p \in 1 .. Len(x) : bytes[A + p] = x[p] /\ stamps[A + p] = lines[m].t
      BY <1>5, <2>1
    <2>4. /\ B \in Nat /\ B = M + Len(y)
          /\ \A p \in 1 .. Len(y) : bytes[M + p] = y[p]
      BY <1>5, <2>1
    <2> HIDE DEF x, y, A, B, M
    <2>5. CASE how = "split"
      <3>0. x = s /\ y = r /\ lines[m].t = t
        BY <2>2, <2>5
      <3>1. M = A + 4 /\ B = A + n
        <4>1. Len(x) = 4 /\ Len(y) = n - 4
          BY <1>3, <3>0
        <4> QED
          BY <1>n, <2>3, <2>4, <4>1
      <3>2. ASSUME NEW p \in 1 .. n PROVE bytes[A + p] = f[p]
        <4>1. CASE p <= 4
          <5>1. p \in 1 .. 4
            BY <1>1, <4>1
          <5> QED
            BY <1>3, <2>3, <3>0, <5>1
        <4>2. CASE p > 4
          <5>1. PICK q \in 1 .. n - 4 : p = 4 + q
            <6>1. p - 4 \in 1 .. n - 4 /\ p = 4 + (p - 4)
              BY <1>1, <4>2
            <6> QED
              BY <6>1
          <5>2. bytes[M + q] = r[q] /\ r[q] = f[4 + q]
            BY <1>3, <2>4, <3>0, <5>1
          <5>3. M + q = A + p
            BY <2>3, <3>1, <5>1
          <5> QED
            BY <5>1, <5>2, <5>3
        <4> QED
          BY <1>1, <4>1, <4>2
      <3>3. stamps[A + 1] = t /\ how \in Intact
        <4>1. 1 \in 1 .. Len(x) /\ how \in Intact
          <5>1. how \in Intact
            BY <2>5 DEF Intact
          <5>2. Len(x) = 4
            BY <1>3, <3>0
          <5> QED
            BY <5>1, <5>2
        <4> QED
          BY <2>3, <3>0, <4>1
      <3> QED
        <4>1. Piece(v, t, how, A, B, bytes, stamps)
          BY <1>1, <2>3, <2>4, <3>1, <3>2, <3>3, WholeFrame DEF f
        <4> QED
          BY <4>1 DEF A, B
    <2>6. CASE how = "head"
      <3>1. x = s /\ y = <<>> /\ how \notin Intact
        BY <2>2, <2>6 DEF Intact
      <3>2. B = A + 4 /\ \A p \in 1 .. 4 : bytes[A + p] = s[p]
        <4>1. Len(x) = 4 /\ Len(y) = 0
          BY <1>3, <3>1, EmptySeq
        <4>2. M = A + 4 /\ B = M + 0
          BY <2>3, <2>4, <4>1
        <4>3. \A p \in 1 .. Len(x) : bytes[A + p] = x[p]
          BY <2>3
        <4> QED
          BY <2>3, <3>1, <4>1, <4>2, <4>3
      <3>3. ASSUME NEW w, NEW p \in 1 .. 4 PROVE ~HiOf(s[p], w)
        <4>1. s[p] = f[p] /\ p \in 1 .. n /\ p # n
          BY <1>1, <1>3, SMTT(30)
        <4> QED
          BY <1>1, <4>1
      <3> QED
        <4>1. 4 \in Nat /\ A \in Nat /\ B \in Nat /\ how \notin Intact
          BY <2>3, <2>4, <3>1
        <4>2. Piece(v, t, how, A, B, bytes, stamps)
          BY <3>2, <3>3, <4>1, NoEnd
        <4> QED
          BY <4>2 DEF A, B
    <2>7. CASE how = "tail"
      <3>1. x = <<>> /\ y = r
        BY <2>2, <2>7
      <3>2. M = A
        BY <2>3, <3>1
      <3>3. B = A + (n - 4) /\ \A p \in 1 .. n - 4 : bytes[A + p] = f[4 + p]
        BY <1>3, <2>4, <3>1, <3>2
      <3>4. 4 <= n
        BY <1>1
      <3> QED
        <4>1. Piece(v, t, "tail", A, B, bytes, stamps)
          <5>1. \A w : \A p \in 1 .. n : HiOf(f[p], w) => p = n /\ w = v
            BY <1>1
          <5> QED
            BY <1>1, <2>3, <2>4, <3>3, <3>4, <5>1, EndOnly
        <4> QED
          BY <2>7, <4>1 DEF A, B
    <2> QED
      BY <1>7, <2>5, <2>6, <2>7
  <1> QED
    BY <1>6, <1>7 DEF Recorded

\* An exchange in the stream: its request from a to b, its reply from there to c.
Exchanged(x, a, b, c, bytes, stamps) ==
    /\ Piece(RequestValues(x.req), x.t, x.asked, a, b, bytes, stamps)
    /\ x.answer = "none" => b = c
    /\ x.answer # "none" => Piece(ReplyValues(x), x.t + Turnaround, x.replied, b, c, bytes, stamps)

AskedLines(x) == Lines(RequestFrame(x.req), x.t, x.asked)

\* The lines of an exchange are those of its two frames.
LEMMA SaidLines ==
    ASSUME NEW x \in Said
    PROVE  /\ LinesOf(x) \in Seq(LogLine) /\ AskedLines(x) \in Seq(LogLine)
           /\ x.answer = "none" => LinesOf(x) = AskedLines(x)
           /\ x.answer # "none" =>
                 /\ Lines(Reply(x), x.t + Turnaround, x.replied) \in Seq(LogLine)
                 /\ LinesOf(x) = AskedLines(x) \o Lines(Reply(x), x.t + Turnaround, x.replied)
  <1> DEFINE q == RequestFrame(x.req)
             r == Reply(x)
             u == x.t + Turnaround
             L == AskedLines(x)
             M == Lines(r, u, x.replied)
  <1>1. x.req \in Request /\ x.t \in Nat /\ u \in Nat /\ x.asked \in Recorded /\ x.replied \in Recorded
    BY WireAssumption DEF Said
  <1>2. q \in Seq(Cell) /\ Len(q) >= 4
    <2>1. x.req \in Request
      BY <1>1
    <2>2. q \in Seq(Cell) /\ Len(q) = 8
      BY <2>1, RequestCells
    <2> HIDE DEF q
    <2> QED
      BY <2>2
  <1>3. L \in Seq(LogLine)
    <2> HIDE DEF q
    <2>1. L = Lines(q, x.t, x.asked)
      BY DEF AskedLines, q
    <2> HIDE DEF L
    <2> QED
      BY <1>1, <1>2, <2>1, LinesMade, SMTT(30)
  <1>4. CASE x.answer = "none"
    <2>1. LinesOf(x) = L \o <<>>
      BY <1>4 DEF LinesOf, AskedLines
    <2> HIDE DEF L
    <2>2. LinesOf(x) = L
      BY <1>3, <2>1, ConcatEmptySeq
    <2> QED
      BY <1>3, <1>4, <2>2 DEF L
  <1>5. CASE x.answer # "none"
    <2>1. LinesOf(x) = L \o M
      BY <1>5 DEF LinesOf, AskedLines
    <2>2. r \in Seq(Cell) /\ Len(r) >= 4
      <3> DEFINE v == ReplyValues(x)
      <3>1. v \in Seq(Byte) /\ Len(v) >= 3 /\ r = Frame(v)
        BY <1>5, ReplySaid
      <3> HIDE DEF v, r
      <3>2. r \in Seq(Cell) /\ Len(r) = Len(v) + 2 /\ Len(v) \in Nat
        BY <3>1, FrameEnd
      <3> QED
        BY <3>1, <3>2
    <2> HIDE DEF r, u
    <2>3. M \in Seq(LogLine)
      BY <1>1, <2>2, LinesMade
    <2> HIDE DEF L, M
    <2>4. L \o M \in Seq(LogLine)
      BY <1>3, <2>3, ConcatProperties
    <2> QED
      BY <1>3, <1>5, <2>1, <2>3, <2>4 DEF L, M, r, u
  <1> QED
    BY <1>4, <1>5

\* The lines of an exchange give two pieces, its request's and its reply's.
LEMMA ExchangeStreamed ==
    ASSUME NEW x \in Said,
           NEW lines \in Seq(LogLine), NEW at, NEW bytes, NEW stamps, Streamed(lines, at, bytes, stamps),
           NEW j \in Nat, NEW l \in Nat, l <= Len(lines), l = j + Len(LinesOf(x)), Holds(lines, j, LinesOf(x)),
           NEW k \in Nat, k = j + Len(AskedLines(x))
    PROVE  k <= l /\ Exchanged(x, at[j], at[k], at[l], bytes, stamps)
  <1> DEFINE v == RequestValues(x.req)
             w == ReplyValues(x)
             u == x.t + Turnaround
             L == AskedLines(x)
             M == Lines(Reply(x), u, x.replied)
  <1>1. x.req \in Request /\ x.t \in Nat /\ u \in Nat /\ x.asked \in Recorded /\ x.replied \in Recorded
    BY WireAssumption DEF Said
  <1>2. v \in Seq(Byte) /\ Len(v) >= 3 /\ RequestFrame(x.req) = Frame(v)
    <2>1. x.req \in Request
      BY <1>1
    <2>2. v \in Seq(Byte) /\ Len(v) = 6 /\ RequestFrame(x.req) = Frame(v)
      BY <2>1, RequestSaid
    <2> HIDE DEF v
    <2> QED
      BY <2>2
  <1>3. L = Lines(Frame(v), x.t, x.asked)
    BY <1>2 DEF AskedLines
  <1> HIDE DEF v, w, L, M, u
  <1>4. Len(lines) \in Nat
    BY LenProperties
  <1>5. ASSUME k <= l, Holds(lines, j, L)
        PROVE  Piece(v, x.t, x.asked, at[j], at[k], bytes, stamps)
    <2>1. k <= Len(lines) /\ k = j + Len(L)
      BY <1>4, <1>5 DEF L
    <2> QED
      BY <1>1, <1>2, <1>3, <1>5, <2>1, PieceStreamed
  <1>6. CASE x.answer = "none"
    <2>1. LinesOf(x) = L
      BY <1>6, SaidLines DEF L
    <2>2. k = l /\ Holds(lines, j, L)
      BY <2>1 DEF L
    <2> QED
      BY <1>5, <1>6, <2>2 DEF Exchanged, v
  <1>7. CASE x.answer # "none"
    <2>1. L \in Seq(LogLine) /\ M \in Seq(LogLine) /\ LinesOf(x) = L \o M
      BY <1>7, SaidLines DEF L, M, u
    <2>2. /\ Len(L \o M) = Len(L) + Len(M) /\ Len(L) \in Nat /\ Len(M) \in Nat
          /\ \A p \in 1 .. Len(L) : (L \o M)[p] = L[p]
          /\ \A p \in 1 .. Len(M) : (L \o M)[Len(L) + p] = M[p]
      BY <2>1, Concatenated
    <2>3. k = j + Len(L) /\ l = k + Len(M) /\ k <= l
      BY <2>1, <2>2 DEF L
    <2>4. Holds(lines, j, L \o M)
      BY <2>1
    <2>5. Holds(lines, j, L)
      <3>1. ASSUME NEW p \in 1 .. Len(L) PROVE lines[j + p] = L[p]
        <4>1. p \in 1 .. Len(L \o M)
          BY <2>2
        <4> QED
          BY <2>2, <2>4, <4>1 DEF Holds
      <3> QED
        BY <3>1 DEF Holds
    <2>6. Holds(lines, k, M)
      <3>1. ASSUME NEW p \in 1 .. Len(M) PROVE lines[k + p] = M[p]
        <4>1. PICK r \in 1 .. Len(L \o M) : r = Len(L) + p
          <5>1. Len(L) + p \in 1 .. Len(L) + Len(M)
            BY <2>2
          <5> QED
            BY <2>2, <5>1
        <4>2. lines[j + r] = (L \o M)[r]
          BY <2>4 DEF Holds
        <4>5. (L \o M)[Len(L) + p] = M[p]
          BY <2>2
        <4>3. j + r = k + p
          <5>1. Len(L) \in Nat /\ k = j + Len(L)
            BY <2>2, <2>3
          <5> QED
            BY <4>1, <5>1
        <4>4. (L \o M)[r] = M[p]
          BY <4>1, <4>5
        <4> QED
          BY <4>2, <4>3, <4>4
      <3> QED
        BY <3>1 DEF Holds
    <2>7. w \in Seq(Byte) /\ Len(w) >= 3 /\ M = Lines(Frame(w), u, x.replied)
      BY <1>7, ReplySaid DEF w, M
    <2>8. Piece(w, u, x.replied, at[k], at[l], bytes, stamps)
      BY <1>1, <2>3, <2>6, <2>7, PieceStreamed
    <2> QED
      BY <1>5, <1>7, <2>3, <2>5, <2>8 DEF Exchanged, v, w, u
  <1> QED
    BY <1>6, <1>7

\* Where every exchange lies in the stream.
Pieces(ends, mid, bytes, stamps) ==
    /\ ends \in [0 .. Len(bus) -> Nat] /\ mid \in [1 .. Len(bus) -> Nat]
    /\ ends[0] = 0 /\ ends[Len(bus)] = Len(bytes)
    /\ \A m, n \in 0 .. Len(bus) : n = m + 1 => Exchanged(bus[n], ends[m], mid[n], ends[n], bytes, stamps)

\* The lines of all exchanges give the pieces of each, in their order.
LEMMA BusStreamed ==
    ASSUME bus \in Seq(Said)
    PROVE  LET log == LoadByteStream(FlattenSeq([n \in 1 .. Len(bus) |-> LinesOf(bus[n])]))
           IN  /\ log.bytes \in Seq(Cell) /\ log.times \in Seq(Nat) /\ Len(log.times) = Len(log.bytes)
               /\ \E ends, mid : Pieces(ends, mid, log.bytes, log.times)
  <1> DEFINE N == Len(bus)
             ll == [n \in 1 .. N |-> LinesOf(bus[n])]
             lines == FlattenSeq(ll)
             bytes == LoadByteStream(lines).bytes
             stamps == LoadByteStream(lines).times
  <1>1. N \in Nat /\ \A n \in 1 .. N : bus[n] \in Said
    BY LenProperties, ElementOfSeq
  <1> HIDE DEF N
  <1>2. ll \in Seq(Seq(LogLine)) /\ Len(ll) = N /\ \A n \in 1 .. N : ll[n] = LinesOf(bus[n])
    <2>1. \A n \in 1 .. N : LinesOf(bus[n]) \in Seq(LogLine)
      BY <1>1, SaidLines
    <2> QED
      BY <1>1, <2>1
  <1> HIDE DEF ll
  <1>3. lines \in Seq(LogLine) /\ \E at : LaidOut(ll, at, lines)
    BY <1>2, Layout, Zenon
  <1> HIDE DEF lines
  <1>4. PICK at : LaidOut(ll, at, lines)
    BY <1>3
  <1>5. /\ bytes \in Seq(Cell) /\ stamps \in Seq(Nat) /\ Len(stamps) = Len(bytes)
        /\ \E bt : Streamed(lines, bt, bytes, stamps)
    BY <1>3, StreamRead
  <1> HIDE DEF bytes, stamps
  <1>6. PICK bt : Streamed(lines, bt, bytes, stamps)
    BY <1>5
  <1>7. /\ at \in [0 .. N -> Nat] /\ at[0] = 0 /\ at[N] = Len(lines)
        /\ \A j, k \in 0 .. N : k = j + 1 => at[k] = at[j] + Len(ll[k]) /\ Holds(lines, at[j], ll[k])
    BY <1>2, <1>4 DEF LaidOut, Holds
  <1>8. \A n \in 1 .. N : Len(ll[n]) \in Nat /\ Len(AskedLines(bus[n])) \in Nat
    BY <1>1, <1>2, SaidLines, LenProperties
  <1>9. \A k \in 0 .. N : at[k] <= Len(lines)
    <2>1. \A j, k \in 0 .. N : k = j + 1 => at[j] <= at[k]
      <3> SUFFICES ASSUME NEW j \in 0 .. N, NEW k \in 0 .. N, k = j + 1 PROVE at[j] <= at[k]
        OBVIOUS
      <3>1. k \in 1 .. N /\ at[j] \in Nat
        BY <1>1, <1>7
      <3>2. at[k] = at[j] + Len(ll[k]) /\ Len(ll[k]) \in Nat
        BY <1>7, <1>8, <3>1
      <3> QED
        BY <3>1, <3>2
    <2>2. \A j, k \in 0 .. N : j <= k => at[j] <= at[k]
      BY <1>1, <1>7, <2>1, Located
    <2> QED
      BY <1>1, <1>7, <2>2
  <1>10. bt \in [0 .. Len(lines) -> Nat] /\ bt[0] = 0 /\ bt[Len(lines)] = Len(bytes) /\ Len(lines) \in Nat
    BY <1>3, <1>6, LenProperties DEF Streamed
  <1> DEFINE start(n) == at[n - 1] + Len(AskedLines(bus[n]))
             ends == [n \in 0 .. N |-> bt[at[n]]]
             mid == [n \in 1 .. N |-> bt[start(n)]]
  <1>11. ASSUME NEW m \in 0 .. N, NEW n \in 0 .. N, n = m + 1
         PROVE  /\ Exchanged(bus[n], bt[at[m]], bt[start(n)], bt[at[n]], bytes, stamps)
                /\ start(n) \in 0 .. Len(lines)
    <2>1. n \in 1 .. N /\ n - 1 = m /\ bus[n] \in Said /\ ll[n] = LinesOf(bus[n])
      BY <1>1, <1>2, <1>11
    <2>2. at[m] \in Nat /\ at[n] \in Nat /\ at[n] = at[m] + Len(ll[n]) /\ Holds(lines, at[m], ll[n]) /\ at[n] <= Len(lines)
      BY <1>7, <1>9, <1>11
    <2> DEFINE x == bus[n]
               j == at[m]
               l == at[n]
               k == start(n)
    <2>3. k = j + Len(AskedLines(x)) /\ k \in Nat
      BY <1>8, <2>1, <2>2
    <2>4. x \in Said /\ j \in Nat /\ l \in Nat /\ l <= Len(lines) /\ l = j + Len(LinesOf(x)) /\ Holds(lines, j, LinesOf(x))
      BY <2>1, <2>2
    <2> HIDE DEF x, j, l, k
    <2>5. k <= l /\ Exchanged(x, bt[j], bt[k], bt[l], bytes, stamps)
      BY <1>3, <1>6, <2>3, <2>4, ExchangeStreamed
    <2>6. k \in 0 .. Len(lines)
      BY <1>10, <2>3, <2>4, <2>5
    <2> QED
      BY <2>5, <2>6 DEF x, j, l, k
  <1>12. Pieces(ends, mid, bytes, stamps)
    <2>1. ends \in [0 .. N -> Nat] /\ ends[0] = 0 /\ ends[N] = Len(bytes)
      <3>1. \A n \in 0 .. N : at[n] \in 0 .. Len(lines)
        BY <1>7, <1>9, <1>10
      <3>2. 0 \in 0 .. N /\ N \in 0 .. N
        BY <1>1
      <3> QED
        BY <1>7, <1>10, <3>1, <3>2
    <2>2. mid \in [1 .. N -> Nat]
      <3>1. ASSUME NEW n \in 1 .. N PROVE bt[start(n)] \in Nat
        <4>1. PICK m \in 0 .. N : n = m + 1
          <5>1. n - 1 \in 0 .. N /\ n = (n - 1) + 1
            BY <1>1
          <5> QED
            BY <5>1
        <4>2. start(n) \in 0 .. Len(lines)
          BY <1>11, <4>1
        <4> HIDE DEF start
        <4> QED
          BY <1>10, <4>2
      <3> HIDE DEF start
      <3> QED
        BY <3>1
    <2>3. ASSUME NEW m \in 0 .. N, NEW n \in 0 .. N, n = m + 1
          PROVE  Exchanged(bus[n], ends[m], mid[n], ends[n], bytes, stamps)
      <3>1. n \in 1 .. N
        BY <1>1, <2>3
      <3> HIDE DEF start
      <3>2. ends[m] = bt[at[m]] /\ ends[n] = bt[at[n]] /\ mid[n] = bt[start(n)]
        BY <3>1
      <3> QED
        BY <1>11, <2>3, <3>2
    <2> HIDE DEF ends, mid
    <2> QED
      BY <2>1, <2>2, <2>3 DEF Pieces, N
  <1> HIDE DEF ends, mid
  <1> QED
    BY <1>5, <1>12 DEF bytes, stamps, lines, ll, N

-----------------------------------------------------------------------------
(* A step of the parser. *)

BusOK ==
    /\ bus \in Seq(Said) /\ Len(bus) <= Len(Schedule)
    /\ \A n \in 1 .. Len(bus) : /\ bus[n].t = Schedule[n].t /\ bus[n].level = Schedule[n].level
                                /\ bus[n].asked = "tail" => n = 1
                                /\ bus[n].replied # "tail"

StreamOK ==
    /\ phase \in {"bus", "parse", "rows"}
    /\ stream \in Seq(Cell) /\ times \in Seq(Nat) /\ Len(times) = Len(stream)
    /\ phase = "bus" => stream = <<>> /\ i = 0

FoundFrame == [ts : Nat, off : Nat, raw : Seq(Cell), role : {"request", "response"}, device : Byte, fc : Byte]

\* A frame is what the stream holds there.
Cutting(f) ==
    /\ Len(f.raw) >= 4 /\ f.off + Len(f.raw) <= i
    /\ f.ts = times[f.off + 1] /\ f.device = f.raw[1].v /\ f.fc = f.raw[2].v
    /\ \A p \in 1 .. Len(f.raw) : f.raw[p] = stream[f.off + p]

\* The count that a reply must have.
Awaited(f) == IF f.role = "request" /\ f.fc \in {3, 4} THEN {WordAt(f.raw, 4)} ELSE {}

WalkOK ==
    /\ i \in 0 .. Len(stream) /\ expecting \in {"request", "response"}
    /\ frames \in Seq(FoundFrame)
    /\ \A k \in 1 .. Len(frames) : Cutting(frames[k])
    /\ \A j, k \in 1 .. Len(frames) : j < k => frames[j].off + Len(frames[j].raw) <= frames[k].off
    /\ frames = <<>> => pending = {}
    /\ frames # <<>> => pending = Awaited(frames[Len(frames)])

InFrame(k) == \E n \in DOMAIN frames : k \in frames[n].off + 1 .. frames[n].off + Len(frames[n].raw)
DropsOK == drops = Cardinality({k \in 1 .. i : ~InFrame(k)})

\* What the parser finds in a step.
NewFrame(role, len) ==
    LET raw == SubSeq(stream, i + 1, i + len)
    IN  [ts |-> times[i + 1], off |-> i, raw |-> raw, role |-> role, device |-> raw[1].v, fc |-> raw[2].v]

Finds(role, len) ==
    /\ role \in {"request", "response"} /\ len \in Nat /\ len \in TryDecode(role)
    /\ frames' = Append(frames, NewFrame(role, len))
    /\ pending' = Awaited(NewFrame(role, len))
    /\ i' = i + len /\ expecting' = Other(role)
    /\ UNCHANGED <<bus, phase, stream, times, drops>>

\* The lengths are numbers.
LEMMA Lengths ==
    ASSUME StreamOK, i \in 0 .. Len(stream), Parsing, pending \subseteq Word, NEW role \in {"request", "response"}
    PROVE  FrameLength(role) \subseteq Nat
  <1>1. /\ \A q \in 1 .. Len(stream) : stream[q].v \in Nat
        /\ Len(stream) \in Nat
    <2>1. \A q \in 1 .. Len(stream) : stream[q] \in Cell
      BY ElementOfSeq DEF StreamOK
    <2>2. \A c \in Cell : c.v \in Nat
      <3>1. \A c \in Cell : c.v \in Byte
        BY DEF Cell
      <3>2. Byte \subseteq Nat
        BY DEF Byte
      <3> QED
        BY <3>1, <3>2
    <2>3. Len(stream) \in Nat
      BY LenProperties DEF StreamOK
    <2> QED
      BY <2>1, <2>2, <2>3
  <1>2. ByteAt(2) \in Nat /\ Fc \in Nat
    <2>1. i + 3 \in 1 .. Len(stream) /\ i + 2 \in 1 .. Len(stream) /\ i + 2 + 1 = i + 3 /\ i + 1 + 1 = i + 2
      BY <1>1 DEF Parsing
    <2> QED
      BY <1>1, <2>1 DEF ByteAt, Fc
  <1>3. \A count \in pending : count \in Nat
    BY Words
  <1>4. CASE role = "request"
    BY <1>4 DEF FrameLength
  <1>5. CASE role = "response"
    <2>1. {6 + 2 * count : count \in pending} \subseteq Nat
      BY <1>3
    <2>2. 5 + ByteAt(2) \in Nat
      BY <1>2
    <2>3. FrameLength(role) = CASE Fc = 3 -> {5 + ByteAt(2)}
                                [] Fc = 4 -> {6 + 2 * count : count \in pending}
                                [] Fc = 6 -> {8} [] Fc >= 128 -> {5} [] OTHER -> {}
      BY <1>5 DEF FrameLength
    <2> HIDE DEF ByteAt
    <2> QED
      BY <1>2, <2>1, <2>2, <2>3
  <1> QED
    BY <1>4, <1>5

\* What is awaited is one count at most.
LEMMA AwaitedWord ==
    ASSUME NEW f \in FoundFrame, Len(f.raw) >= 4,
           f.role = "request" => Len(f.raw) >= 6
    PROVE  Awaited(f) \in SUBSET Word /\ Cardinality(Awaited(f)) <= 1 /\ Cardinality(Awaited(f)) \in Nat
  <1>1. CASE f.role = "request" /\ f.fc \in {3, 4}
    <2> DEFINE w == WordAt(f.raw, 4)
               raw == f.raw
    <2>1. w \in Word
      <3>1. raw \in Seq(Cell) /\ Len(raw) >= 6 /\ Len(raw) \in Nat
        BY <1>1, LenProperties DEF FoundFrame
      <3> HIDE DEF raw
      <3>2. raw[5].v \in Byte /\ raw[6].v \in Byte
        <4>1. 5 \in 1 .. Len(raw) /\ 6 \in 1 .. Len(raw)
          BY <3>1
        <4>2. raw[5] \in Cell /\ raw[6] \in Cell
          BY <3>1, <4>1, ElementOfSeq
        <4> QED
          BY <4>2 DEF Cell
      <3>3. w = 256 * raw[5].v + raw[6].v
        BY DEF WordAt, raw
      <3> HIDE DEF w
      <3> QED
        BY <3>2, <3>3, TwoBytesTogether
    <2>2. Awaited(f) = {w}
      BY <1>1 DEF Awaited
    <2> HIDE DEF w
    <2>3. Cardinality({w}) = 1
      BY FS_Singleton
    <2> QED
      BY <2>1, <2>2, <2>3
  <1>2. CASE ~(f.role = "request" /\ f.fc \in {3, 4})
    <2>1. Awaited(f) = {}
      BY <1>2 DEF Awaited
    <2>2. Cardinality({}) = 0
      BY FS_EmptySet
    <2> QED
      BY <2>1, <2>2
  <1> QED
    BY <1>1, <1>2

\* A step that finds a frame finds one that the stream holds.
LEMMA FoundFinds ==
    ASSUME StreamOK, WalkOK, pending \subseteq Word, Found
    PROVE  \E role, len : Finds(role, len)
  <1>1. PICK role \in {"request", "response"} : \E len \in TryDecode(role) :
            LET raw == SubSeq(stream, i + 1, i + len)
            IN  /\ frames' = Append(frames, [ts |-> times[i + 1], off |-> i, raw |-> raw, role |-> role,
                                             device |-> raw[1].v, fc |-> raw[2].v])
                /\ pending' = {WordAt(raw, 4) : fc \in {raw[2].v} \cap (IF role = "request" THEN {3, 4} ELSE {})}
                /\ i' = i + len
                /\ expecting' = Other(role)
    BY DEF Found
  <1>a. PICK len \in TryDecode(role) :
            LET raw == SubSeq(stream, i + 1, i + len)
            IN  /\ frames' = Append(frames, [ts |-> times[i + 1], off |-> i, raw |-> raw, role |-> role,
                                             device |-> raw[1].v, fc |-> raw[2].v])
                /\ pending' = {WordAt(raw, 4) : fc \in {raw[2].v} \cap (IF role = "request" THEN {3, 4} ELSE {})}
                /\ i' = i + len
                /\ expecting' = Other(role)
    BY <1>1
  <1>2. len \in Nat
    <2>1. FrameLength(role) \subseteq Nat
      BY Lengths DEF WalkOK, Found
    <2> QED
      BY <2>1 DEF TryDecode
  <1> DEFINE raw == SubSeq(stream, i + 1, i + len)
             f == NewFrame(role, len)
  <1>3. f.role = role /\ f.fc = raw[2].v /\ f.raw = raw
    BY DEF NewFrame
  <1>4. pending' = Awaited(f)
    <2>1. pending' = {WordAt(raw, 4) : fc \in {raw[2].v} \cap (IF role = "request" THEN {3, 4} ELSE {})}
      BY <1>a
    <2> HIDE DEF raw, f
    <2>2. CASE role = "request" /\ raw[2].v \in {3, 4}
      BY <1>3, <2>1, <2>2 DEF Awaited
    <2>3. CASE ~(role = "request" /\ raw[2].v \in {3, 4})
      BY <1>3, <2>1, <2>3 DEF Awaited
    <2> QED
      BY <2>2, <2>3
  <1>5. Finds(role, len)
    BY <1>a, <1>2, <1>4 DEF Finds, NewFrame, Found
  <1> QED
    BY <1>5

\* A sequence with one element more.
LEMMA Added ==
    ASSUME NEW S, NEW s \in Seq(S), NEW e \in S
    PROVE  /\ Append(s, e) \in Seq(S) /\ Len(s) \in Nat /\ Len(Append(s, e)) = Len(s) + 1
           /\ \A k \in 1 .. Len(s) : Append(s, e)[k] = s[k]
           /\ Append(s, e)[Len(s) + 1] = e /\ Append(s, e) # <<>>
  <1>1. Len(s) \in Nat /\ Append(s, e) \in Seq(S) /\ Len(Append(s, e)) = Len(s) + 1
        /\ \A k \in 1 .. Len(s) : Append(s, e)[k] = s[k]
    BY LenProperties, AppendProperties
  <1>2. Append(s, e)[Len(s) + 1] = e /\ Append(s, e) # <<>>
    BY AppendProperties
  <1> QED
    BY <1>1, <1>2

\* What a step finds is a frame of the stream, after those found before.
LEMMA FindsFrame ==
    ASSUME StreamOK, WalkOK, NEW role, NEW len, Finds(role, len)
    PROVE  /\ NewFrame(role, len) \in FoundFrame
           /\ NewFrame(role, len).role = role /\ NewFrame(role, len).off = i /\ NewFrame(role, len).ts = times[i + 1]
           /\ Len(NewFrame(role, len).raw) = len /\ len \in Nat /\ 4 <= len /\ i \in Nat
           /\ i + len <= Len(stream) /\ Len(stream) \in Nat
           /\ \A p \in 1 .. len : NewFrame(role, len).raw[p] = stream[i + p]
           /\ NewFrame(role, len).device = NewFrame(role, len).raw[1].v
           /\ NewFrame(role, len).fc = NewFrame(role, len).raw[2].v
           /\ HasValidCrc(NewFrame(role, len).raw, len)
           /\ len \in FrameLength(role) /\ (role = "request" => len = 8)
  <1> DEFINE raw == SubSeq(stream, i + 1, i + len)
             f == NewFrame(role, len)
  <1>1. /\ len \in Nat /\ 4 <= len /\ i + len <= Len(stream) /\ HasValidCrc(raw, len)
        /\ len \in FrameLength(role) /\ role \in {"request", "response"}
    BY DEF Finds, TryDecode
  <1>2. Len(stream) \in Nat /\ i \in Nat
    BY LenProperties DEF StreamOK, WalkOK
  <1>3. raw \in Seq(Cell) /\ Len(raw) = len /\ \A p \in 1 .. len : raw[p] = stream[i + p]
    BY <1>1, <1>2, Part DEF StreamOK
  <1>4. times[i + 1] \in Nat
    <2>1. i + 1 \in 1 .. Len(times)
      BY <1>1, <1>2 DEF StreamOK
    <2> QED
      BY <2>1, ElementOfSeq DEF StreamOK
  <1>5. raw[1].v \in Byte /\ raw[2].v \in Byte
    <2> HIDE DEF raw
    <2>1. 1 \in 1 .. Len(raw) /\ 2 \in 1 .. Len(raw)
      BY <1>1, <1>3
    <2>2. raw[1] \in Cell /\ raw[2] \in Cell
      BY <1>3, <2>1, ElementOfSeq
    <2> QED
      BY <2>2 DEF Cell
  <1>6. f = [ts |-> times[i + 1], off |-> i, raw |-> raw, role |-> role, device |-> raw[1].v, fc |-> raw[2].v]
    BY DEF NewFrame
  <1> HIDE DEF raw, f
  <1>7. /\ f \in FoundFrame /\ f.role = role /\ f.off = i /\ f.ts = times[i + 1] /\ f.raw = raw
        /\ f.device = raw[1].v /\ f.fc = raw[2].v
    BY <1>1, <1>2, <1>3, <1>4, <1>5, <1>6 DEF FoundFrame
  <1>8. role = "request" => len = 8
    BY <1>1 DEF FrameLength
  <1> QED
    BY <1>1, <1>2, <1>3, <1>7, <1>8 DEF f

\* The bytes passed and the frames found stay as they are.
LEMMA FindsWalks ==
    ASSUME StreamOK, WalkOK, NEW role, NEW len, Finds(role, len)
    PROVE  WalkOK' /\ pending' \in SUBSET Word /\ Cardinality(pending') <= 1
           /\ Len(frames') = Len(frames) + 1 /\ Len(frames) \in Nat
           /\ (\A k \in 1 .. Len(frames) : frames'[k] = frames[k])
           /\ frames'[Len(frames) + 1] = NewFrame(role, len)
  <1> DEFINE f == NewFrame(role, len)
             n == Len(frames)
  <1>1. /\ f \in FoundFrame /\ f.role = role /\ f.off = i /\ f.ts = times[i + 1]
        /\ Len(f.raw) = len /\ len \in Nat /\ 4 <= len /\ i \in Nat /\ i + len <= Len(stream) /\ Len(stream) \in Nat
        /\ (\A p \in 1 .. len : f.raw[p] = stream[i + p]) /\ f.device = f.raw[1].v /\ f.fc = f.raw[2].v
        /\ (role = "request" => len = 8)
    BY FindsFrame
  <1>2. /\ frames' = Append(frames, f) /\ pending' = Awaited(f) /\ i' = i + len /\ expecting' = Other(role)
        /\ stream' = stream /\ times' = times /\ role \in {"request", "response"}
    BY DEF Finds
  <1> HIDE DEF f
  <1>3. /\ frames' \in Seq(FoundFrame) /\ n \in Nat /\ Len(frames') = n + 1 /\ frames' # <<>>
        /\ (\A k \in 1 .. n : frames'[k] = frames[k]) /\ frames'[n + 1] = f
    BY <1>1, <1>2, Added, SMTT(30) DEF WalkOK
  <1>4. pending' \in SUBSET Word /\ Cardinality(pending') <= 1
    <2>1. Len(f.raw) >= 4 /\ (f.role = "request" => Len(f.raw) >= 6)
      BY <1>1
    <2> QED
      BY <1>1, <1>2, <2>1, AwaitedWord
  <1> HIDE DEF n
  <1>5. ASSUME NEW k \in 1 .. n PROVE Cutting(frames[k])' /\ frames[k].off + Len(frames[k].raw) <= i
                                      /\ frames[k].off \in Nat /\ Len(frames[k].raw) \in Nat /\ frames[k] = frames'[k]
    <2>1. frames[k] \in FoundFrame /\ Cutting(frames[k])
      BY ElementOfSeq DEF WalkOK, n
    <2>2. frames[k].off \in Nat /\ frames[k].raw \in Seq(Cell)
      BY <2>1 DEF FoundFrame
    <2>3. Len(frames[k].raw) \in Nat
      BY <2>2, LenProperties
    <2>4. frames'[k] = frames[k]
      BY <1>3
    <2>5. frames[k].off + Len(frames[k].raw) <= i
      BY <2>1 DEF Cutting
    <2>6. Cutting(frames[k])'
      <3>1. i' >= i
        BY <1>1, <1>2
      <3>2. /\ Len(frames[k].raw) >= 4
            /\ frames[k].ts = times[frames[k].off + 1] /\ frames[k].device = frames[k].raw[1].v /\ frames[k].fc = frames[k].raw[2].v
            /\ \A p \in 1 .. Len(frames[k].raw) : frames[k].raw[p] = stream[frames[k].off + p]
        BY <2>1 DEF Cutting
      <3>3. frames[k].off + Len(frames[k].raw) <= i'
        BY <1>1, <1>2, <2>2, <2>3, <2>5, SMTT(30)
      <3> QED
        BY <1>2, <2>4, <3>2, <3>3 DEF Cutting
    <2> QED
      BY <2>2, <2>3, <2>4, <2>5, <2>6
  <1>6. ASSUME NEW k \in 1 .. n + 1 PROVE Cutting(frames[k])'
    <2>1. CASE k = n + 1
      <3>1. frames'[k] = f
        BY <1>3, <2>1
      <3>2. f.off + Len(f.raw) <= i'
        BY <1>1, <1>2
      <3> QED
        BY <1>1, <1>2, <3>1, <3>2 DEF Cutting
    <2>2. CASE k # n + 1
      <3>1. k \in 1 .. n
        BY <1>3, <2>2
      <3> QED
        BY <1>5, <3>1
    <2> QED
      BY <2>1, <2>2
  <1>7. ASSUME NEW j \in 1 .. n + 1, NEW k \in 1 .. n + 1, j < k
        PROVE  frames'[j].off + Len(frames'[j].raw) <= frames'[k].off
    <2>1. j \in 1 .. n /\ frames'[j] = frames[j] /\ j \in Nat
      BY <1>3, <1>7
    <2>2. CASE k = n + 1
      <3>1. frames'[k].off = i
        BY <1>1, <1>3, <2>2
      <3>2. frames[j].off + Len(frames[j].raw) <= i
        BY <1>5, <2>1
      <3> QED
        BY <2>1, <3>1, <3>2
    <2>3. CASE k # n + 1
      <3>1. k \in 1 .. n /\ frames'[k] = frames[k]
        BY <1>3, <2>3
      <3> QED
        BY <1>7, <2>1, <3>1 DEF WalkOK, n
    <2> QED
      BY <2>2, <2>3
  <1>8. i' \in 0 .. Len(stream') /\ expecting' \in {"request", "response"}
    BY <1>1, <1>2 DEF Other
  <1>9. WalkOK'
    BY <1>2, <1>3, <1>6, <1>7, <1>8 DEF WalkOK
  <1> QED
    BY <1>3, <1>4, <1>9 DEF f, n

\* The bytes of a frame are in it, and every byte dropped is counted.
LEMMA FindsDrops ==
    ASSUME StreamOK, WalkOK, DropsOK, NEW role, NEW len, Finds(role, len)
    PROVE  DropsOK'
  <1> DEFINE f == NewFrame(role, len)
             n == Len(frames)
             Ends(g) == g.off + Len(g.raw)
  <1>1. f.off = i /\ Len(f.raw) = len /\ len \in Nat /\ 4 <= len /\ i \in Nat
    BY FindsFrame
  <1>2. /\ Len(frames') = n + 1 /\ n \in Nat /\ (\A k \in 1 .. n : frames'[k] = frames[k])
        /\ frames'[n + 1] = f /\ frames' \in Seq(FoundFrame) /\ frames \in Seq(FoundFrame)
    BY FindsWalks DEF WalkOK
  <1>3. i' = i + len /\ drops' = drops
    BY DEF Finds
  <1> HIDE DEF f, n
  <1>4. DOMAIN frames = 1 .. n /\ DOMAIN frames' = 1 .. n + 1
    BY <1>2, LenProperties DEF n
  <1>5. ASSUME NEW p \in Nat, p <= i PROVE InFrame(p)' <=> InFrame(p)
    <2>1. InFrame(p) => InFrame(p)'
      BY <1>2, <1>4 DEF InFrame
    <2>2. ASSUME NEW k \in 1 .. n + 1, p \in frames'[k].off + 1 .. frames'[k].off + Len(frames'[k].raw)
          PROVE  InFrame(p)
      <3>1. CASE k = n + 1
        BY <1>1, <1>2, <1>5, <2>2, <3>1
      <3>2. CASE k # n + 1
        <4>1. k \in 1 .. n
          BY <1>2, <3>2
        <4> QED
          BY <1>2, <1>4, <2>2, <4>1 DEF InFrame
      <3> QED
        BY <3>1, <3>2
    <2> QED
      BY <1>4, <2>1, <2>2 DEF InFrame
  <1>6. ASSUME NEW p \in i + 1 .. i + len PROVE InFrame(p)'
    <2>1. n + 1 \in DOMAIN frames' /\ frames'[n + 1].off = i /\ Len(frames'[n + 1].raw) = len
      BY <1>1, <1>2, <1>4
    <2> QED
      BY <2>1 DEF InFrame
  <1>7. {p \in 1 .. i + len : ~InFrame(p)'} = {p \in 1 .. i : ~InFrame(p)}
    <2>1. \A p \in 1 .. i + len : p \in Nat /\ (p <= i => p \in 1 .. i) /\ (~(p <= i) => p \in i + 1 .. i + len)
      BY <1>1
    <2>2. \A p \in 1 .. i : p \in 1 .. i + len /\ p <= i /\ p \in Nat
      BY <1>1
    <2> QED
      BY <1>5, <1>6, <2>1, <2>2
  <1> QED
    BY <1>3, <1>7 DEF DropsOK

\* A byte dropped is in no frame.
LEMMA ResyncDrops ==
    ASSUME StreamOK, WalkOK, DropsOK, Resync
    PROVE  DropsOK'
  <1> DEFINE D == {p \in 1 .. i : ~InFrame(p)}
  <1>1. i' = i + 1 /\ drops' = drops + 1 /\ frames' = frames /\ i \in Nat
    BY DEF Resync, WalkOK
  <1>2. ~InFrame(i + 1)
    <2>1. ASSUME NEW k \in DOMAIN frames PROVE i + 1 \notin frames[k].off + 1 .. frames[k].off + Len(frames[k].raw)
      <3>1. k \in 1 .. Len(frames)
        BY LenProperties DEF WalkOK
      <3>2. frames[k] \in FoundFrame /\ Cutting(frames[k])
        BY <3>1, ElementOfSeq DEF WalkOK
      <3>3. frames[k].off \in Nat /\ Len(frames[k].raw) \in Nat /\ frames[k].off + Len(frames[k].raw) <= i
        BY <3>2, LenProperties DEF FoundFrame, Cutting
      <3> QED
        BY <1>1, <3>3
    <2> QED
      BY <2>1 DEF InFrame
  <1>3. {p \in 1 .. i + 1 : ~InFrame(p)'} = D \cup {i + 1}
    <2>1. \A p : InFrame(p)' <=> InFrame(p)
      BY <1>1 DEF InFrame
    <2>2. 1 .. i + 1 = (1 .. i) \cup {i + 1}
      BY <1>1
    <2> QED
      BY <1>2, <2>1, <2>2
  <1>4. IsFiniteSet(D) /\ i + 1 \notin D
    <2>1. IsFiniteSet(1 .. i) /\ D \subseteq 1 .. i /\ i + 1 \notin 1 .. i
      BY <1>1, FS_Interval
    <2> HIDE DEF D
    <2> QED
      BY <2>1, FS_Subset
  <1>5. Cardinality(D \cup {i + 1}) = Cardinality(D) + 1
    <2> HIDE DEF D
    <2> QED
      BY <1>4, FS_AddElement
  <1> QED
    BY <1>1, <1>3, <1>5 DEF DropsOK

\* A byte dropped leaves the frames found as they are.
LEMMA ResyncWalks ==
    ASSUME StreamOK, WalkOK, Resync
    PROVE  WalkOK'
  <1>1. i' = i + 1 /\ frames' = frames /\ i \in Nat /\ stream' = stream /\ times' = times
        /\ expecting' = expecting /\ pending' = pending /\ i < Len(stream) - 3 /\ Len(stream) \in Nat
    BY LenProperties DEF Resync, WalkOK, Parsing, StreamOK
  <1>2. ASSUME NEW k \in 1 .. Len(frames) PROVE Cutting(frames[k])'
    <2>1. frames[k] \in FoundFrame /\ Cutting(frames[k])
      BY ElementOfSeq DEF WalkOK
    <2>2. frames[k].off \in Nat /\ Len(frames[k].raw) \in Nat
      BY <2>1, LenProperties DEF FoundFrame
    <2>3. frames[k].off + Len(frames[k].raw) <= i'
      BY <1>1, <2>1, <2>2, SMTT(30) DEF Cutting
    <2>4. /\ Len(frames[k].raw) >= 4
          /\ frames[k].ts = times[frames[k].off + 1] /\ frames[k].device = frames[k].raw[1].v /\ frames[k].fc = frames[k].raw[2].v
          /\ \A p \in 1 .. Len(frames[k].raw) : frames[k].raw[p] = stream[frames[k].off + p]
      BY <2>1 DEF Cutting
    <2> QED
      BY <1>1, <2>3, <2>4 DEF Cutting
  <1> QED
    BY <1>1, <1>2 DEF WalkOK, Awaited

-----------------------------------------------------------------------------
(* The rows, one after the other. *)

Remembered ==
    /\ rows \in Seq(Range(rows))
    /\ phase # "rows" => rows = <<>>
    /\ rows # <<>> => lastRow = rows[Len(rows)].data /\ lastTs = {rows[Len(rows)].ts}

\* A row appended is the last one, and leaves the others where they are.
LEMMA RowAppended ==
    ASSUME NEW s, s \in Seq(Range(s)), NEW e
    PROVE  /\ Append(s, e) \in Seq(Range(Append(s, e)))
           /\ Len(s) \in Nat /\ Len(Append(s, e)) = Len(s) + 1
           /\ Append(s, e)[Len(s) + 1] = e
           /\ \A n \in 1 .. Len(s) : Append(s, e)[n] = s[n]
           /\ s = <<>> <=> Len(s) = 0
  <1> DEFINE T == Range(s) \cup {e}
             a == Append(s, e)
  <1>1. s \in Seq(T)
    BY SeqDef DEF Range
  <1>2. e \in T
    OBVIOUS
  <1> HIDE DEF T
  <1>3. /\ a \in Seq(T) /\ Len(s) \in Nat /\ Len(a) = Len(s) + 1 /\ DOMAIN a = 1 .. Len(a)
        /\ a[Len(s) + 1] = e /\ \A n \in 1 .. Len(s) : a[n] = s[n]
        /\ s = <<>> <=> Len(s) = 0
    BY <1>1, <1>2
  <1>4. a \in Seq(Range(a))
    <2> HIDE DEF a
    <2>1. a = [n \in 1 .. Len(a) |-> a[n]] /\ Len(a) \in Nat
      BY <1>3
    <2>2. \A n \in 1 .. Len(a) : a[n] \in Range(a)
      BY <1>3 DEF Range
    <2> QED
      BY <2>1, <2>2
  <1> QED
    BY <1>3, <1>4

\* The steps before the rows, and a row left out, change no row.
LEMMA RowsUnchanged ==
    ASSUME Remembered, RowsApart, Parse \/ Pair \/ LeaveOut \/ UNCHANGED vars
    PROVE  Remembered' /\ RowsApart'
  <1>1. CASE Parse
    BY <1>1 DEF Parse, ParserNext, Exchange, Load, Found, Resync, Parsing, csvVars, Remembered, RowsApart
  <1>2. CASE Pair
    <2>1. rows = <<>> /\ rows' = rows /\ phase' = "rows"
      BY <1>2 DEF Pair, ParseEnds, Remembered
    <2>2. 1 .. Len(rows') - 1 = {}
      BY <2>1
    <2> QED
      BY <2>1, <2>2 DEF Remembered, RowsApart
  <1>3. CASE LeaveOut
    BY <1>3 DEF LeaveOut, TakePair, wireVars, Remembered, RowsApart
  <1>4. CASE UNCHANGED vars
    BY <1>4 DEF vars, wireVars, csvVars, Remembered, RowsApart
  <1> QED
    BY <1>1, <1>2, <1>3, <1>4

\* A row is written when it is neither the last one again nor too soon after it.
LEMMA RowWritten ==
    ASSUME Remembered, RowsApart, WriteRow
    PROVE  Remembered' /\ RowsApart'
  <1> DEFINE row == [ts |-> Next1.ts, data |-> DataRow(NewKnown)]
  <1>1. /\ rows' = Append(rows, row) /\ lastRow' = row.data /\ lastTs' = {row.ts}
        /\ gap' = gap /\ phase' = phase /\ phase = "rows"
    BY DEF WriteRow, TakePair, wireVars
  <1>2. /\ rows # <<>> => row.data # lastRow
        /\ gap > 0 => \A ts \in lastTs : ~(row.ts - ts < gap)
    BY DEF WriteRow, Repeats, TooSoon
  <1> HIDE DEF row
  <1>3. /\ rows' \in Seq(Range(rows')) /\ Len(rows) \in Nat /\ Len(rows') = Len(rows) + 1
        /\ rows'[Len(rows) + 1] = row /\ \A n \in 1 .. Len(rows) : rows'[n] = rows[n]
        /\ rows = <<>> <=> Len(rows) = 0
    BY <1>1, RowAppended DEF Remembered
  <1>4. Remembered'
    BY <1>1, <1>3 DEF Remembered
  <1>5. ASSUME NEW n \in 1 .. Len(rows)
        PROVE  /\ gap > 0 => ~(rows'[n + 1].ts - rows'[n].ts < gap)
               /\ rows'[n + 1].data # rows'[n].data
    <2>1. CASE n = Len(rows)
      BY <1>2, <1>3, <2>1 DEF Remembered
    <2>2. CASE n # Len(rows)
      <3>1. n \in 1 .. Len(rows) - 1 /\ n + 1 \in 1 .. Len(rows)
        BY <1>3, <2>2
      <3> QED
        BY <1>3, <3>1 DEF RowsApart
    <2> QED
      BY <2>1, <2>2
  <1>6. RowsApart'
    BY <1>1, <1>3, <1>5 DEF RowsApart
  <1> QED
    BY <1>4, <1>6

\* However the log was spoilt, rows are at least the gap apart and none repeats
\* the one before.
THEOREM RowsAreApart == Spec => []RowsApart
  <1>1. Init => Remembered /\ RowsApart
    BY DEF Init, ParserInit, Remembered, RowsApart, Range
  <1>2. Remembered /\ RowsApart /\ [Next]_vars => Remembered' /\ RowsApart'
    BY RowsUnchanged, RowWritten DEF Next, Finished
  <1> QED
    BY <1>1, <1>2, PTL DEF Spec

-----------------------------------------------------------------------------
(* Types. *)

\* What is chosen stands at its rank.
LEMMA ChosenAt ==
    ASSUME NEW N \in Nat, NEW S, S \in SUBSET (1 .. N), NEW s, NEW n \in S
    PROVE  Rank(S, n) \in 1 .. Cardinality(S) /\ Chosen(s, S)[Rank(S, n)] = s[n]
  <1>1. \A x \in S : Rank(S, x) \in 1 .. Cardinality(S) /\ Chosen(s, S)[Rank(S, x)] = s[x]
    BY Choice, ZenonT(30)
  <1> QED
    BY <1>1

\* The frames chosen for pairs, and where they are.
PairsOf(ps, fs, S) ==
    /\ Len(ps) \in Nat /\ DOMAIN ps = 1 .. Len(ps)
    /\ \A k \in 1 .. Len(ps) : \E n \in S : ps[k] = <<fs[n], fs[n + 1]>>
    /\ \A n \in S : \E k \in 1 .. Len(ps) : ps[k] = <<fs[n], fs[n + 1]>>

\* extract_pairs keeps neighbours, in their order.
LEMMA PairsChosen ==
    ASSUME NEW fs \in Seq(FoundFrame), NEW S, S \in SUBSET (1 .. Len(fs) - 1)
    PROVE  PairsOf(Chosen(Neighbours(fs), S), fs, S)
  <1> DEFINE N == Len(fs)
             nb == Neighbours(fs)
             C == Cardinality(S)
             ps == Chosen(nb, S)
  <1>1. N \in Nat /\ S \in SUBSET (1 .. N)
    BY LenProperties
  <1>2. \A n \in S : nb[n] = <<fs[n], fs[n + 1]>>
    BY DEF Neighbours
  <1> HIDE DEF nb, N
  <1>a. ps = Chosen(nb, S)
    OBVIOUS
  <1> HIDE DEF C, ps
  <1>d. Cardinality(S) \in Nat /\ DOMAIN Chosen(nb, S) = 1 .. Cardinality(S)
    BY <1>1, Choice
  <1>e. \A n \in S : Rank(S, n) \in 1 .. Cardinality(S) /\ Chosen(nb, S)[Rank(S, n)] = nb[n]
    <2>1. ASSUME NEW n \in S PROVE Rank(S, n) \in 1 .. Cardinality(S) /\ Chosen(nb, S)[Rank(S, n)] = nb[n]
      BY <1>1, ChosenAt, ZenonT(30)
    <2> QED
      BY <2>1
  <1>c. \A k \in 1 .. Cardinality(S) : \E n \in S : Rank(S, n) = k
    BY <1>1, Choice
  <1>3. /\ C \in Nat /\ DOMAIN ps = 1 .. C
        /\ \A n \in S : Rank(S, n) \in 1 .. C /\ ps[Rank(S, n)] = nb[n]
        /\ \A k \in 1 .. C : \E n \in S : Rank(S, n) = k
    BY <1>a, <1>d, <1>e, <1>c DEF C
  <1>4. Len(ps) = C
    <2>1. ps = [k \in 1 .. C |-> nb[CHOOSE n \in S : Cardinality({m \in S : m <= n}) = k]]
      BY <1>a DEF Chosen, C
    <2> QED
      BY <1>3, <2>1
  <1>5. ASSUME NEW k \in 1 .. C PROVE \E n \in S : ps[k] = <<fs[n], fs[n + 1]>>
    <2>1. PICK n \in S : Rank(S, n) = k
      BY <1>3
    <2>2. ps[k] = nb[n]
      BY <1>3, <2>1
    <2> QED
      BY <1>2, <2>2
  <1>6. ASSUME NEW n \in S PROVE \E k \in 1 .. C : ps[k] = <<fs[n], fs[n + 1]>>
    <2>1. Rank(S, n) \in 1 .. C /\ ps[Rank(S, n)] = nb[n]
      BY <1>3
    <2> QED
      BY <1>2, <2>1
  <1> QED
    BY <1>3, <1>4, <1>5, <1>6 DEF PairsOf, ps, nb

UpdatesOK ==
    /\ Len(updates) \in Nat /\ done \in 0 .. Len(updates)
    /\ \A n \in 1 .. Len(updates) : updates[n].ts \in Nat
    /\ gap \in Nat
    /\ phase # "rows" => updates = <<>> /\ known = NoUpdates /\ lastTs = {}

RowsOK == \A n \in 1 .. Len(rows) : rows[n].ts \in Nat /\ DOMAIN rows[n].data = Columns

PendingOK == pending \in SUBSET Word /\ Cardinality(pending) <= 1

TypeInv ==
    /\ BusOK /\ StreamOK /\ WalkOK /\ DropsOK /\ PendingOK
    /\ UpdatesOK /\ RowsOK /\ Remembered /\ RowsApart

\* Nothing has been said, read or written yet.
LEMMA TypeInvInit == Init => TypeInv
  <1> SUFFICES ASSUME Init PROVE TypeInv
    OBVIOUS
  <1>1. /\ bus = <<>> /\ phase = "bus" /\ stream = <<>> /\ times = <<>> /\ i = 0 /\ expecting = "request"
        /\ pending = {} /\ frames = <<>> /\ drops = 0 /\ gap = 0 /\ updates = <<>> /\ done = 0 /\ known = NoUpdates
        /\ lastTs = {} /\ rows = <<>>
    BY DEF Init, ParserInit
  <1>2. BusOK
    <2>1. bus \in Seq(Said) /\ Len(bus) = 0
      BY <1>1, EmptySeq
    <2>2. Len(Schedule) \in Nat
      BY WireAssumption, LenProperties
    <2> QED
      BY <2>1, <2>2 DEF BusOK
  <1>3. StreamOK
    BY <1>1, EmptySeq DEF StreamOK
  <1>4. WalkOK
    <2>1. frames \in Seq(FoundFrame) /\ Len(frames) = 0 /\ Len(stream) = 0
      BY <1>1, EmptySeq
    <2> QED
      BY <1>1, <2>1 DEF WalkOK
  <1>5. DropsOK
    <2>1. {p \in 1 .. i : ~InFrame(p)} = {}
      BY <1>1
    <2>2. Cardinality({}) = 0
      BY FS_EmptySet
    <2> QED
      BY <1>1, <2>1, <2>2 DEF DropsOK
  <1>6. PendingOK
    <2>1. Cardinality({}) = 0
      BY FS_EmptySet
    <2> QED
      BY <1>1, <2>1 DEF PendingOK
  <1>7. UpdatesOK
    BY <1>1 DEF UpdatesOK
  <1>8. RowsOK /\ Remembered /\ RowsApart
    BY <1>1 DEF RowsOK, Remembered, RowsApart, Range
  <1> QED
    BY <1>2, <1>3, <1>4, <1>5, <1>6, <1>7, <1>8 DEF TypeInv

\* What is said of the exchanges so far stays, and the new one is at its turn.
LEMMA ExchangeSaid ==
    ASSUME BusOK, StreamOK, Exchange
    PROVE  BusOK'
  <1> DEFINE N == Len(bus)
             now == Schedule[N + 1]
  <1>1. phase = "bus" /\ N < Len(Schedule)
    BY DEF Exchange
  <1>2. PICK q \in Queries, asked \in Recorded, replied \in Recorded, answer \in {"data", "exception", "none"} :
            /\ replied # "tail" /\ (bus # <<>> => asked # "tail")
            /\ bus' = Append(bus, [req |-> q, level |-> now.level, t |-> now.t,
                                   asked |-> asked, answer |-> answer, replied |-> replied])
    BY DEF Exchange
  <1>3. N \in Nat /\ Len(Schedule) \in Nat /\ (N # 0 => bus # <<>>)
    BY WireAssumption, LenProperties, EmptySeq DEF BusOK
  <1>4. now \in [t : Nat, level : {0, 1}]
    <2>1. N + 1 \in 1 .. Len(Schedule)
      BY <1>1, <1>3
    <2> QED
      BY <2>1, WireAssumption, ElementOfSeq
  <1> DEFINE x == [req |-> q, level |-> now.level, t |-> now.t, asked |-> asked, answer |-> answer, replied |-> replied]
  <1>5. x \in Said /\ x.t = now.t /\ x.level = now.level /\ x.asked = asked /\ x.replied = replied
    BY <1>4 DEF Said
  <1> HIDE DEF x
  <1>6. bus' = Append(bus, x) /\ bus \in Seq(Said)
    BY <1>2 DEF x, BusOK
  <1>7. /\ bus' \in Seq(Said) /\ Len(bus') = N + 1 /\ (\A k \in 1 .. N : bus'[k] = bus[k]) /\ bus'[N + 1] = x
    BY <1>5, <1>6, Added
  <1>8. ASSUME NEW n \in 1 .. N + 1
        PROVE  /\ bus'[n].t = Schedule[n].t /\ bus'[n].level = Schedule[n].level
               /\ (bus'[n].asked = "tail" => n = 1) /\ bus'[n].replied # "tail"
    <2>1. CASE n = N + 1
      <3>1. bus'[n].t = Schedule[n].t /\ bus'[n].level = Schedule[n].level /\ bus'[n].asked = asked
            /\ bus'[n].replied # "tail"
        BY <1>2, <1>5, <1>7, <2>1
      <3>2. asked = "tail" => N = 0
        BY <1>2, <1>3
      <3> QED
        BY <2>1, <3>1, <3>2
    <2>2. CASE n # N + 1
      <3>1. n \in 1 .. N
        BY <1>3, <2>2
      <3> QED
        BY <1>7, <3>1 DEF BusOK
    <2> QED
      BY <2>1, <2>2
  <1>9. Len(bus') <= Len(Schedule)
    BY <1>1, <1>3, <1>7
  <1> QED
    BY <1>7, <1>8, <1>9 DEF BusOK

\* The stream is that of the lines of the log, and its times are theirs.
LEMMA LoadStreams ==
    ASSUME BusOK, StreamOK, Load
    PROVE  /\ StreamOK' /\ phase' = "parse"
           /\ \E ends, mid : Pieces(ends, mid, stream', times')
  <1> DEFINE log == LoadByteStream(FlattenSeq([n \in 1 .. Len(bus) |-> LinesOf(bus[n])]))
  <1>1. stream' = log.bytes /\ times' = log.times /\ phase' = "parse"
    BY DEF Load
  <1>2. bus \in Seq(Said)
    BY DEF BusOK
  <1>3. /\ log.bytes \in Seq(Cell) /\ log.times \in Seq(Nat) /\ Len(log.times) = Len(log.bytes)
        /\ \E ends, mid : Pieces(ends, mid, log.bytes, log.times)
    BY <1>2, BusStreamed
  <1> HIDE DEF log
  <1> QED
    BY <1>1, <1>3 DEF StreamOK

\* Nothing has been found or dropped before the stream is there.
LEMMA FramesAtStart ==
    ASSUME StreamOK, WalkOK, phase = "bus"
    PROVE  frames = <<>> /\ i = 0
  <1>1. i = 0
    BY DEF StreamOK
  <1>2. Len(frames) \in Nat /\ (Len(frames) = 0 => frames = <<>>)
    BY LenProperties, EmptySeq DEF WalkOK
  <1>3. ASSUME Len(frames) # 0 PROVE FALSE
    <2>1. 1 \in 1 .. Len(frames)
      BY <1>2, <1>3
    <2>2. frames[1] \in FoundFrame /\ Cutting(frames[1])
      BY <2>1, ElementOfSeq DEF WalkOK
    <2>3. frames[1].off \in Nat /\ Len(frames[1].raw) \in Nat
      BY <2>2, LenProperties DEF FoundFrame
    <2> QED
      BY <1>1, <2>2, <2>3 DEF Cutting
  <1> QED
    BY <1>1, <1>2, <1>3

\* What is chosen as pairs are pairs of frames found, in their order.
LEMMA PairsFound ==
    ASSUME WalkOK, NEW ps, ps = ExtractPairs(frames)
    PROVE  /\ Len(ps) \in Nat /\ DOMAIN ps = 1 .. Len(ps)
           /\ \A k \in 1 .. Len(ps) : \E n \in 1 .. Len(frames) - 1 :
                 ps[k] = <<frames[n], frames[n + 1]>> /\ IsPairOrException(frames[n], frames[n + 1])
  <1> DEFINE S == {n \in 1 .. Len(frames) - 1 : IsPairOrException(frames[n], frames[n + 1])}
  <1>1. frames \in Seq(FoundFrame) /\ S \in SUBSET (1 .. Len(frames) - 1)
    BY DEF WalkOK
  <1>2. ps = Chosen(Neighbours(frames), S)
    BY DEF ExtractPairs
  <1>3. \A n \in S : n \in 1 .. Len(frames) - 1 /\ IsPairOrException(frames[n], frames[n + 1])
    OBVIOUS
  <1> HIDE DEF S
  <1>4. PairsOf(ps, frames, S)
    BY <1>1, <1>2, PairsChosen
  <1> QED
    BY <1>3, <1>4 DEF PairsOf

\* Each pair gives one update, with the time of its reply.
LEMMA PairUpdates ==
    ASSUME StreamOK, WalkOK, UpdatesOK, Pair
    PROVE  UpdatesOK'
  <1> DEFINE ps == ExtractPairs(frames)
  <1>1. /\ updates' = [n \in 1 .. Len(ps) |-> [ts |-> ps[n][2].ts, regs |-> DecodePairUpdates(ps[n][1], ps[n][2])]]
        /\ phase' = "rows" /\ phase # "rows" /\ gap' \in Gaps /\ done' = done
    BY DEF Pair, ParseEnds
  <1>2. Len(ps) \in Nat
    BY PairsFound
  <1>3. ASSUME NEW k \in 1 .. Len(ps) PROVE ps[k][2].ts \in Nat
    <2>1. PICK n \in 1 .. Len(frames) - 1 : ps[k] = <<frames[n], frames[n + 1]>>
      BY PairsFound
    <2>2. n + 1 \in 1 .. Len(frames)
      BY LenProperties DEF WalkOK
    <2>3. frames[n + 1] \in FoundFrame
      BY <2>2, ElementOfSeq DEF WalkOK
    <2> HIDE DEF ps
    <2> QED
      BY <2>1, <2>3 DEF FoundFrame
  <1> HIDE DEF ps
  <1>4. Len(updates') = Len(ps) /\ \A k \in 1 .. Len(ps) : updates'[k].ts = ps[k][2].ts
    BY <1>1, <1>2
  <1>5. done = 0
    <2>1. updates = <<>> /\ done \in 0 .. Len(updates)
      BY <1>1 DEF UpdatesOK
    <2>2. Len(updates) = 0
      BY <2>1
    <2> QED
      BY <2>1, <2>2
  <1>6. gap' \in Nat
    BY <1>1, CsvAssumption
  <1>7. \A k \in 1 .. Len(updates') : updates'[k].ts \in Nat
    BY <1>3, <1>4
  <1>8. Len(updates') \in Nat /\ done' \in 0 .. Len(updates')
    BY <1>1, <1>2, <1>4, <1>5
  <1> QED
    BY <1>1, <1>6, <1>7, <1>8 DEF UpdatesOK

\* Rows that stay keep their columns.
LEMMA RowsOKUnchanged ==
    ASSUME RowsOK, rows' = rows, Columns' = Columns
    PROVE  RowsOK'
  BY DEF RowsOK

\* The parser leaves what the writer will use alone.
LEMMA TaleUnchanged ==
    ASSUME UpdatesOK, RowsOK, UNCHANGED csvVars, phase # "rows"
    PROVE  UpdatesOK' /\ RowsOK'
  <1>1. UpdatesOK'
    BY DEF UpdatesOK, csvVars
  <1>2. Columns' = Columns /\ rows' = rows
    BY DEF csvVars, Columns, AllKeys
  <1> QED
    BY <1>1, <1>2, RowsOKUnchanged

\* The rows keep their form.
LEMMA WriterTypes ==
    ASSUME UpdatesOK, RowsOK, Remembered, WriteRow \/ LeaveOut
    PROVE  UpdatesOK' /\ RowsOK'
  <1>1. TakePair
    BY DEF WriteRow, LeaveOut
  <1>2. /\ phase = "rows" /\ phase' = phase /\ done < Len(updates) /\ done' = done + 1
        /\ updates' = updates /\ gap' = gap /\ filter' = filter
    BY <1>1 DEF TakePair, wireVars
  <1>3. UpdatesOK'
    <2>1. done' \in 0 .. Len(updates)
      BY <1>2 DEF UpdatesOK
    <2> QED
      BY <1>2, <2>1 DEF UpdatesOK
  <1>4. Columns' = Columns
    BY <1>2 DEF Columns, AllKeys
  <1>5. CASE LeaveOut
    <2>1. rows' = rows
      BY <1>5 DEF LeaveOut
    <2> QED
      BY <1>3, <1>4, <2>1, RowsOKUnchanged
  <1>6. CASE WriteRow
    <2> DEFINE data == DataRow(NewKnown)
               row == [ts |-> Next1.ts, data |-> data]
    <2>1. rows' = Append(rows, row)
      BY <1>6 DEF WriteRow
    <2>2. DOMAIN data = Columns
      BY DEF DataRow
    <2>3. Next1.ts \in Nat
      <3>1. done + 1 \in 1 .. Len(updates)
        BY <1>2 DEF UpdatesOK
      <3> QED
        BY <3>1 DEF UpdatesOK, Next1
    <2> HIDE DEF data
    <2>4. row.ts \in Nat /\ DOMAIN row.data = Columns
      BY <2>2, <2>3
    <2> HIDE DEF row
    <2>5. /\ Len(rows) \in Nat /\ Len(rows') = Len(rows) + 1 /\ rows'[Len(rows) + 1] = row
          /\ \A n \in 1 .. Len(rows) : rows'[n] = rows[n]
      BY <2>1, RowAppended DEF Remembered
    <2>6. ASSUME NEW n \in 1 .. Len(rows') PROVE rows'[n].ts \in Nat /\ DOMAIN rows'[n].data = Columns
      <3>1. CASE n = Len(rows) + 1
        BY <2>4, <2>5, <3>1
      <3>2. CASE n # Len(rows) + 1
        <4>1. n \in 1 .. Len(rows)
          BY <2>5, <3>2
        <4> QED
          BY <2>5, <4>1 DEF RowsOK
      <3> QED
        BY <3>1, <3>2
    <2> QED
      BY <1>3, <1>4, <2>6 DEF RowsOK
  <1> QED
    BY <1>5, <1>6

\* Frames, drops and the remembered count are left alone.
LEMMA WalkUnchanged ==
    ASSUME WalkOK, DropsOK, UNCHANGED <<stream, times, i, expecting, pending, frames, drops>>
    PROVE  WalkOK' /\ DropsOK'
  BY DEF WalkOK, DropsOK, Cutting, InFrame, Awaited

\* A step of the parser keeps the form of everything.
LEMMA ParseTypes ==
    ASSUME TypeInv, Parse
    PROVE  BusOK' /\ StreamOK' /\ WalkOK' /\ DropsOK' /\ PendingOK' /\ UpdatesOK' /\ RowsOK'
  <1>1. BusOK /\ StreamOK /\ WalkOK /\ DropsOK /\ PendingOK /\ UpdatesOK /\ RowsOK
    BY DEF TypeInv
  <1>2. UNCHANGED csvVars
    BY DEF Parse
  <1>3. CASE Exchange
    <2>1. UNCHANGED <<phase, stream, times, i, expecting, pending, frames, drops>> /\ phase = "bus"
      BY <1>3 DEF Exchange
    <2>2. BusOK'
      BY <1>1, <1>3, ExchangeSaid
    <2>3. UpdatesOK' /\ RowsOK'
      BY <1>1, <1>2, <2>1, TaleUnchanged
    <2> QED
      BY <1>1, <2>1, <2>2, <2>3, WalkUnchanged DEF StreamOK, PendingOK
  <1>4. CASE Load
    <2>1. UNCHANGED <<bus, i, expecting, pending, frames, drops>> /\ phase = "bus"
      BY <1>4 DEF Load
    <2>2. StreamOK' /\ phase' = "parse"
      BY <1>1, <1>4, LoadStreams
    <2>3. frames = <<>> /\ i = 0
      BY <1>1, <2>1, FramesAtStart
    <2>4. UpdatesOK' /\ RowsOK'
      BY <1>1, <1>2, <2>1, TaleUnchanged
    <2>5. WalkOK'
      <3>1. Len(frames') = 0 /\ Len(stream') \in Nat /\ frames' \in Seq(FoundFrame)
        BY <2>1, <2>2, <2>3, LenProperties, EmptySeq DEF StreamOK
      <3>2. i' \in 0 .. Len(stream')
        BY <2>1, <2>3, <3>1
      <3>3. expecting' \in {"request", "response"} /\ pending' = {} /\ frames' = <<>>
        BY <1>1, <2>1, <2>3 DEF WalkOK
      <3> QED
        BY <3>1, <3>2, <3>3 DEF WalkOK
    <2>6. DropsOK'
      BY <1>1, <2>1 DEF DropsOK, InFrame
    <2> QED
      BY <1>1, <2>1, <2>2, <2>4, <2>5, <2>6 DEF BusOK, PendingOK
  <1>5. CASE Found
    <2>1. pending \subseteq Word
      BY <1>1 DEF PendingOK
    <2>2. PICK role, len : Finds(role, len)
      BY <1>1, <1>5, <2>1, FoundFinds
    <2>3. UNCHANGED <<bus, phase, stream, times>> /\ phase = "parse"
      BY <1>5 DEF Found, Parsing
    <2>4. WalkOK' /\ pending' \in SUBSET Word /\ Cardinality(pending') <= 1
      BY <1>1, <2>2, FindsWalks
    <2>5. DropsOK'
      BY <1>1, <2>2, FindsDrops
    <2>6. UpdatesOK' /\ RowsOK'
      BY <1>1, <1>2, <2>3, TaleUnchanged
    <2> QED
      BY <1>1, <2>3, <2>4, <2>5, <2>6 DEF BusOK, StreamOK, PendingOK
  <1>6. CASE Resync
    <2>1. UNCHANGED <<bus, phase, stream, times, pending>> /\ phase = "parse"
      BY <1>6 DEF Resync, Parsing
    <2>2. WalkOK' /\ DropsOK'
      BY <1>1, <1>6, ResyncWalks, ResyncDrops
    <2>3. UpdatesOK' /\ RowsOK'
      BY <1>1, <1>2, <2>1, TaleUnchanged
    <2> QED
      BY <1>1, <2>1, <2>2, <2>3 DEF BusOK, StreamOK, PendingOK
  <1> QED
    BY <1>3, <1>4, <1>5, <1>6 DEF Parse, ParserNext

\* Every step keeps the form of everything.
LEMMA TypeInvStep ==
    ASSUME TypeInv, [Next]_vars
    PROVE  TypeInv'
  <1>1. BusOK /\ StreamOK /\ WalkOK /\ DropsOK /\ PendingOK /\ UpdatesOK /\ RowsOK /\ Remembered /\ RowsApart
    BY DEF TypeInv
  <1>2. CASE Parse
    BY <1>1, <1>2, ParseTypes, RowsUnchanged DEF TypeInv
  <1>3. CASE Pair
    <2>1. /\ UNCHANGED <<bus, stream, times, i, expecting, pending, frames, drops, rows>>
          /\ phase = "parse" /\ phase' = "rows"
      BY <1>3 DEF Pair, ParseEnds
    <2>2. BusOK' /\ StreamOK' /\ PendingOK'
      BY <1>1, <2>1 DEF BusOK, StreamOK, PendingOK
    <2>3. WalkOK' /\ DropsOK'
      BY <1>1, <2>1, WalkUnchanged
    <2>4. UpdatesOK'
      BY <1>1, <1>3, PairUpdates
    <2>5. Len(rows') = 0
      BY <1>1, <2>1 DEF Remembered
    <2>6. RowsOK'
      BY <2>5 DEF RowsOK
    <2> QED
      BY <1>1, <1>3, <2>2, <2>3, <2>4, <2>6, RowsUnchanged DEF TypeInv
  <1>4. CASE WriteRow \/ LeaveOut
    <2>1. UNCHANGED wireVars
      BY <1>4 DEF WriteRow, LeaveOut, TakePair
    <2>2. BusOK' /\ StreamOK' /\ PendingOK'
      BY <1>1, <2>1 DEF BusOK, StreamOK, PendingOK, wireVars
    <2>3. WalkOK' /\ DropsOK'
      BY <1>1, <2>1, WalkUnchanged DEF wireVars
    <2>4. UpdatesOK' /\ RowsOK'
      BY <1>1, <1>4, WriterTypes
    <2>5. Remembered' /\ RowsApart'
      BY <1>1, <1>4, RowWritten, RowsUnchanged
    <2> QED
      BY <2>2, <2>3, <2>4, <2>5 DEF TypeInv
  <1>5. CASE UNCHANGED vars
    <2>1. UNCHANGED wireVars /\ UNCHANGED csvVars
      BY <1>5 DEF vars
    <2>2. BusOK' /\ StreamOK' /\ PendingOK'
      BY <1>1, <2>1 DEF BusOK, StreamOK, PendingOK, wireVars
    <2>3. WalkOK' /\ DropsOK'
      BY <1>1, <2>1, WalkUnchanged DEF wireVars
    <2>4. UpdatesOK' /\ RowsOK'
      <3>1. UpdatesOK'
        BY <1>1, <2>1 DEF UpdatesOK, wireVars, csvVars
      <3>2. Columns' = Columns /\ rows' = rows
        BY <2>1 DEF csvVars, Columns, AllKeys
      <3> QED
        BY <1>1, <3>1, <3>2, RowsOKUnchanged
    <2>5. Remembered' /\ RowsApart'
      BY <1>1, <1>5, RowsUnchanged
    <2> QED
      BY <2>2, <2>3, <2>4, <2>5 DEF TypeInv
  <1> QED
    BY <1>2, <1>3, <1>4, <1>5 DEF Next, Finished

\* What is kept is more than the types.
LEMMA TypeInvTypes == TypeInv => TypeOK
  <1> SUFFICES ASSUME TypeInv PROVE TypeOK
    OBVIOUS
  <1>1. BusOK /\ StreamOK /\ WalkOK /\ DropsOK /\ PendingOK /\ UpdatesOK /\ RowsOK /\ Remembered
    BY DEF TypeInv
  <1>2. Len(stream) \in Nat /\ i \in 0 .. Len(stream)
    BY <1>1, LenProperties DEF StreamOK, WalkOK
  <1>3. drops \in 0 .. Len(stream)
    <2> DEFINE D == {p \in 1 .. i : ~InFrame(p)}
    <2>1. D \subseteq 1 .. i /\ drops = Cardinality(D)
      BY <1>1 DEF DropsOK
    <2> HIDE DEF D
    <2>2. i \in Nat /\ 1 \in Nat /\ IsFiniteSet(1 .. i) /\ Cardinality(1 .. i) = i
      <3>1. i \in Nat
        BY <1>2
      <3>2. IsFiniteSet(1 .. i) /\ Cardinality(1 .. i) = IF 1 > i THEN 0 ELSE i - 1 + 1
        BY <3>1, FS_Interval
      <3> QED
        BY <3>1, <3>2
    <2>3. IsFiniteSet(D) /\ Cardinality(D) <= Cardinality(1 .. i)
      BY <2>1, <2>2, FS_Subset
    <2>4. Cardinality(D) \in Nat
      BY <2>3, FS_CardinalityType
    <2> QED
      BY <1>2, <2>1, <2>2, <2>3, <2>4
  <1>4. \A n \in DOMAIN frames : frames[n].off + Len(frames[n].raw) <= (IF n = Len(frames) THEN i ELSE frames[n + 1].off)
    <2>1. DOMAIN frames = 1 .. Len(frames) /\ Len(frames) \in Nat
      BY <1>1, LenProperties DEF WalkOK
    <2>2. ASSUME NEW n \in DOMAIN frames
          PROVE  frames[n].off + Len(frames[n].raw) <= (IF n = Len(frames) THEN i ELSE frames[n + 1].off)
      <3>1. CASE n = Len(frames)
        <4>1. Cutting(frames[n])
          BY <1>1, <2>1 DEF WalkOK
        <4> QED
          BY <3>1, <4>1 DEF Cutting
      <3>2. CASE n # Len(frames)
        <4>1. n \in 1 .. Len(frames) /\ n + 1 \in 1 .. Len(frames) /\ n < n + 1
          BY <2>1, <3>2
        <4>2. frames[n].off + Len(frames[n].raw) <= frames[n + 1].off
          BY <1>1, <4>1 DEF WalkOK
        <4> QED
          BY <3>2, <4>2
      <3> QED
        BY <3>1, <3>2
    <2> QED
      BY <2>2
  <1>5. \A n \in DOMAIN rows : rows[n].ts \in Nat /\ DOMAIN rows[n].data = Columns
    <2>1. DOMAIN rows = 1 .. Len(rows)
      BY <1>1, LenProperties DEF Remembered
    <2> QED
      BY <1>1, <2>1 DEF RowsOK
  <1>6. drops = Cardinality(1 .. i \ FramePlaces)
    <2>1. {k \in 1 .. i : ~InFrame(k)} = 1 .. i \ FramePlaces
      BY Zenon DEF InFrame, FramePlaces
    <2> QED
      BY <1>1, <2>1 DEF DropsOK
  <1> QED
    BY <1>1, <1>2, <1>3, <1>4, <1>5, <1>6 DEF TypeOK, StreamOK, WalkOK, PendingOK, UpdatesOK

\* Whatever is asked, answered, damaged or lost, every variable keeps its type, and the
\* parser takes the stream apart without a gap or an overlap (parse_log.py:96-160).
THEOREM WireTypes == Spec => []TypeOK
  <1>1. Init => TypeInv
    BY TypeInvInit
  <1>2. TypeInv /\ [Next]_vars => TypeInv'
    BY TypeInvStep
  <1>3. TypeInv => TypeOK
    BY TypeInvTypes
  <1> QED
    BY <1>1, <1>2, <1>3, PTL DEF Spec

-----------------------------------------------------------------------------
(* What is found was sent. *)

\* The frames of the bus in their order, two for each exchange: the k-th one is a
\* request for an odd k and a reply for an even one.
Turn(k) == (k + 1) \div 2
Odd(k) == k % 2 = 1

SentBytes(k) == IF Odd(k) THEN RequestValues(bus[Turn(k)].req) ELSE ReplyValues(bus[Turn(k)])
SentTime(k) == IF Odd(k) THEN bus[Turn(k)].t ELSE ReplyTime(Turn(k))
SentHow(k) ==
    IF Odd(k) THEN bus[Turn(k)].asked
    ELSE IF bus[Turn(k)].answer = "none" THEN "lost" ELSE bus[Turn(k)].replied

Last2 == 2 * Len(bus)

\* Where they begin and end in the stream.
Cuts(c, bytes, stamps) ==
    /\ c \in [0 .. Last2 -> Nat] /\ c[0] = 0 /\ c[Last2] = Len(bytes)
    /\ \A j, k \in 0 .. Last2 : k = j + 1 =>
          Piece(SentBytes(k), SentTime(k), SentHow(k), c[j], c[k], bytes, stamps)

\* The second frame of an exchange.
LEMMA TurnEven ==
    ASSUME NEW n \in Nat
    PROVE  ~Odd(2 * n) /\ Turn(2 * n) = n
  <1>1. (2 * n) % 2 = 0 /\ (2 * n + 1) \div 2 = n
    OBVIOUS
  <1> QED
    BY <1>1 DEF Odd, Turn

\* The first frame of an exchange.
LEMMA TurnOdd ==
    ASSUME NEW n \in Nat
    PROVE  Odd(2 * n + 1) /\ Turn(2 * n + 1) = n + 1
  <1>1. (2 * n + 1) % 2 = 1 /\ (2 * n + 2) \div 2 = n + 1 /\ 2 * n + 1 + 1 = 2 * n + 2
    OBVIOUS
  <1> QED
    BY <1>1 DEF Odd, Turn

\* Every frame is the first or the second of an exchange.
LEMMA Parity ==
    ASSUME NEW k \in Nat
    PROVE  /\ Odd(k) => \E n \in Nat : k = 2 * n + 1
           /\ ~Odd(k) => \E n \in Nat : k = 2 * n
  <1>1. k \div 2 \in Nat
    OBVIOUS
  <1>2. Odd(k) => k = 2 * (k \div 2) + 1
    BY DEF Odd
  <1>3. ~Odd(k) => k = 2 * (k \div 2)
    BY DEF Odd
  <1> QED
    BY <1>1, <1>2, <1>3

\* A request is the first of its exchange, a reply the second.
LEMMA Turning ==
    ASSUME bus \in Seq(Said), NEW k \in 1 .. Last2
    PROVE  /\ Len(bus) \in Nat /\ Turn(k) \in 1 .. Len(bus) /\ bus[Turn(k)] \in Said
           /\ Odd(k) => k = 2 * Turn(k) - 1
           /\ ~Odd(k) => k = 2 * Turn(k)
  <1>1. Len(bus) \in Nat /\ k \in Nat /\ 1 <= k /\ k <= 2 * Len(bus)
    BY LenProperties DEF Last2
  <1>2. CASE Odd(k)
    <2>1. PICK n \in Nat : k = 2 * n + 1
      BY <1>1, <1>2, Parity
    <2>2. Turn(k) = n + 1
      BY <2>1, TurnOdd
    <2>3. n + 1 \in 1 .. Len(bus)
      BY <1>1, <2>1
    <2> QED
      BY <1>1, <1>2, <2>1, <2>2, <2>3, ElementOfSeq
  <1>3. CASE ~Odd(k)
    <2>1. PICK n \in Nat : k = 2 * n
      BY <1>1, <1>3, Parity
    <2>2. Turn(k) = n
      BY <2>1, TurnEven
    <2>3. n \in 1 .. Len(bus)
      BY <1>1, <2>1
    <2> QED
      BY <1>1, <1>3, <2>1, <2>2, <2>3, ElementOfSeq
  <1> QED
    BY <1>2, <1>3

\* The stream is cut into the frames of the bus.
LEMMA CutsMade ==
    ASSUME bus \in Seq(Said), NEW ends, NEW mid, NEW bytes, NEW stamps, Pieces(ends, mid, bytes, stamps)
    PROVE  \E c : Cuts(c, bytes, stamps)
  <1> DEFINE N == Len(bus)
             c == [k \in 0 .. Last2 |-> IF Odd(k) THEN mid[Turn(k)] ELSE ends[Turn(k)]]
  <1>0. N \in Nat /\ Last2 = 2 * N /\ Last2 \in Nat
    BY LenProperties DEF Last2
  <1>1. /\ ends \in [0 .. N -> Nat] /\ mid \in [1 .. N -> Nat] /\ ends[0] = 0 /\ ends[N] = Len(bytes)
        /\ \A m, n \in 0 .. N : n = m + 1 => Exchanged(bus[n], ends[m], mid[n], ends[n], bytes, stamps)
    BY DEF Pieces
  <1> HIDE DEF N
  <1>2. ASSUME NEW n \in 0 .. N PROVE 2 * n \in 0 .. Last2 /\ c[2 * n] = ends[n]
    <2>1. 2 * n \in 0 .. Last2
      BY <1>0
    <2>a. n \in Nat
      BY <1>0
    <2>2. ~Odd(2 * n) /\ Turn(2 * n) = n
      BY <2>a, TurnEven
    <2> QED
      BY <2>1, <2>2
  <1>3. ASSUME NEW n \in 0 .. N - 1 PROVE 2 * n + 1 \in 0 .. Last2 /\ c[2 * n + 1] = mid[n + 1]
    <2>1. 2 * n + 1 \in 0 .. Last2
      BY <1>0
    <2>a. n \in Nat
      BY <1>0
    <2>2. Odd(2 * n + 1) /\ Turn(2 * n + 1) = n + 1
      BY <2>a, TurnOdd
    <2> QED
      BY <2>1, <2>2
  <1> HIDE DEF c
  <1>4. ASSUME NEW j \in 0 .. Last2, NEW k \in 0 .. Last2, k = j + 1
        PROVE  Piece(SentBytes(k), SentTime(k), SentHow(k), c[j], c[k], bytes, stamps)
    <2>1. CASE Odd(k)
      <3>1. PICK n \in Nat : k = 2 * n + 1
        BY <1>0, <2>1, Parity
      <3>2. n \in 0 .. N - 1 /\ n \in 0 .. N /\ n + 1 \in 0 .. N /\ j = 2 * n /\ Turn(k) = n + 1
        <4>1. n \in 0 .. N - 1 /\ n \in 0 .. N /\ n + 1 \in 0 .. N /\ j = 2 * n
          BY <1>0, <1>4, <3>1
        <4>2. Turn(k) = n + 1
          BY <3>1, TurnOdd
        <4> QED
          BY <4>1, <4>2
      <3>3. c[j] = ends[n] /\ c[k] = mid[n + 1]
        BY <1>2, <1>3, <3>1, <3>2
      <3>4. Exchanged(bus[n + 1], ends[n], mid[n + 1], ends[n + 1], bytes, stamps)
        BY <1>1, <3>2
      <3>5. Piece(RequestValues(bus[n + 1].req), bus[n + 1].t, bus[n + 1].asked, ends[n], mid[n + 1], bytes, stamps)
        BY <3>4 DEF Exchanged
      <3> QED
        BY <2>1, <3>2, <3>3, <3>5 DEF SentBytes, SentTime, SentHow
    <2>2. CASE ~Odd(k)
      <3>1. PICK m \in Nat : k = 2 * m
        BY <1>0, <2>2, Parity
      <3>2. m - 1 \in 0 .. N - 1 /\ m - 1 \in 0 .. N /\ m \in 0 .. N /\ m = (m - 1) + 1 /\ j = 2 * (m - 1) + 1
            /\ m - 1 \in Nat
        BY <1>0, <2>2, <1>4, <3>1
      <3>3. c[j] = mid[m] /\ c[k] = ends[m] /\ Turn(k) = m
        <4>1. c[2 * (m - 1) + 1] = mid[m] /\ c[2 * m] = ends[m]
          BY <1>2, <1>3, <3>2
        <4>2. Turn(k) = m
          BY <3>1, TurnEven
        <4> QED
          BY <3>1, <3>2, <4>1, <4>2
      <3>4. Exchanged(bus[m], ends[m - 1], mid[m], ends[m], bytes, stamps)
        BY <1>1, <3>2
      <3>5. CASE bus[m].answer = "none"
        <4>1. mid[m] = ends[m] /\ ends[m] \in Nat
          BY <1>1, <3>2, <3>4, <3>5 DEF Exchanged
        <4>2. mid[m] + 1 .. ends[m] = {} /\ mid[m] <= ends[m]
          BY <4>1
        <4>3. Piece(SentBytes(k), SentTime(k), "lost", mid[m], ends[m], bytes, stamps)
          BY <4>2 DEF Piece, Intact
        <4> QED
          BY <2>2, <3>3, <3>5, <4>3 DEF SentHow
      <3>6. CASE bus[m].answer # "none"
        <4>1. Piece(ReplyValues(bus[m]), bus[m].t + Turnaround, bus[m].replied, mid[m], ends[m], bytes, stamps)
          BY <3>4, <3>6 DEF Exchanged
        <4> QED
          BY <2>2, <3>3, <3>6, <4>1 DEF SentBytes, SentTime, SentHow, ReplyTime
      <3> QED
        BY <3>5, <3>6
    <2> QED
      BY <2>1, <2>2
  <1>5. c \in [0 .. Last2 -> Nat]
    <2>1. ASSUME NEW k \in 0 .. Last2 PROVE c[k] \in Nat
      <3>1. CASE Odd(k)
        <4>1. PICK n \in Nat : k = 2 * n + 1
          BY <1>0, <3>1, Parity
        <4>2. n \in 0 .. N - 1 /\ n + 1 \in 1 .. N
          BY <1>0, <4>1
        <4> QED
          BY <1>1, <1>3, <4>1, <4>2
      <3>2. CASE ~Odd(k)
        <4>1. PICK n \in Nat : k = 2 * n
          BY <1>0, <3>2, Parity
        <4>2. n \in 0 .. N
          BY <1>0, <4>1
        <4> QED
          BY <1>1, <1>2, <4>1, <4>2
      <3> QED
        BY <3>1, <3>2
    <2>2. c = [k \in 0 .. Last2 |-> c[k]]
      BY DEF c
    <2> QED
      BY <2>1, <2>2
  <1>6. c[0] = 0 /\ c[Last2] = Len(bytes)
    <2>1. 0 \in 0 .. N /\ N \in 0 .. N /\ 2 * 0 = 0
      BY <1>0
    <2> QED
      BY <1>0, <1>1, <1>2, <2>1
  <1> QED
    BY <1>4, <1>5, <1>6 DEF Cuts

Within(x, l, p) == \E q \in 1 .. l : p = x + q

\* A place between two others is at some distance of the first.
LEMMA Offset ==
    ASSUME NEW x \in Nat, NEW p \in Nat, NEW l \in Nat, x < p, p <= x + l
    PROVE  Within(x, l, p)
  <1> DEFINE d == p - x
  <1>1. d \in 1 .. l /\ p = x + d
    OBVIOUS
  <1> HIDE DEF d
  <1> QED
    BY <1>1 DEF Within

\* Sequences that agree everywhere are the same.
LEMMA SameCells ==
    ASSUME NEW S, NEW s \in Seq(S), NEW t \in Seq(S), NEW n, Len(s) = n, Len(t) = n, \A p \in 1 .. n : s[p] = t[p]
    PROVE  s = t
  <1>1. DOMAIN s = 1 .. n /\ DOMAIN t = 1 .. n
    OBVIOUS
  <1>2. s = [p \in 1 .. n |-> s[p]] /\ t = [p \in 1 .. n |-> t[p]]
    BY <1>1
  <1> QED
    BY <1>2

\* The cuts ascend.
LEMMA CutsOrdered ==
    ASSUME bus \in Seq(Said), NEW c, NEW bytes, NEW stamps, Cuts(c, bytes, stamps)
    PROVE  /\ Last2 \in Nat /\ c \in [0 .. Last2 -> Nat]
           /\ \A j, k \in 0 .. Last2 : j <= k => c[j] <= c[k]
           /\ \A p \in 1 .. Len(bytes) : \E j, k \in 0 .. Last2 : k = j + 1 /\ c[j] < p /\ p <= c[k]
  <1>1. Last2 \in Nat
    BY LenProperties DEF Last2
  <1>2. c \in [0 .. Last2 -> Nat] /\ c[0] = 0 /\ c[Last2] = Len(bytes)
    BY DEF Cuts
  <1>3. \A j, k \in 0 .. Last2 : k = j + 1 => c[j] <= c[k]
    BY DEF Cuts, Piece
  <1>4. \A j, k \in 0 .. Last2 : j <= k => c[j] <= c[k]
    BY <1>1, <1>2, <1>3, Located
  <1>5. \A p \in 1 .. c[Last2] : \E j, k \in 0 .. Last2 : k = j + 1 /\ c[j] < p /\ p <= c[k]
    BY <1>1, <1>2, <1>3, Located
  <1> QED
    BY <1>1, <1>2, <1>4, <1>5

\* A frame recorded whole has its length and its bytes.
LEMMA SentFrame ==
    ASSUME BusOK, NEW k \in 1 .. Last2, SentHow(k) \in Intact
    PROVE  SentBytes(k) \in Seq(Byte) /\ Len(SentBytes(k)) \in Nat /\ Len(SentBytes(k)) >= 3
  <1>1. bus \in Seq(Said)
    BY DEF BusOK
  <1>2. bus[Turn(k)] \in Said
    BY <1>1, Turning
  <1>3. CASE Odd(k)
    <2>1. bus[Turn(k)].req \in Request
      BY <1>2, WireAssumption DEF Said
    <2>2. RequestValues(bus[Turn(k)].req) \in Seq(Byte) /\ Len(RequestValues(bus[Turn(k)].req)) = 6
      BY <2>1, RequestSaid
    <2>3. SentBytes(k) = RequestValues(bus[Turn(k)].req)
      BY <1>3 DEF SentBytes
    <2> HIDE DEF SentBytes
    <2> QED
      BY <2>2, <2>3, SMTT(30)
  <1>4. CASE ~Odd(k)
    <2>1. bus[Turn(k)].answer # "none"
      BY <1>4 DEF SentHow, Intact
    <2>2. ReplyValues(bus[Turn(k)]) \in Seq(Byte) /\ Len(ReplyValues(bus[Turn(k)])) >= 3
      BY <1>2, <2>1, ReplySaid
    <2>3. Len(ReplyValues(bus[Turn(k)])) \in Nat
      BY <2>2, LenProperties
    <2> QED
      BY <1>4, <2>2, <2>3 DEF SentBytes
  <1> QED
    BY <1>3, <1>4

\* Only the first frame of the log can have lost its beginning.
LEMMA OnlyFirstCut ==
    ASSUME BusOK, NEW k \in 1 .. Last2, SentHow(k) = "tail"
    PROVE  k = 1
  <1>1. /\ Len(bus) \in Nat /\ Turn(k) \in 1 .. Len(bus)
        /\ Odd(k) => k = 2 * Turn(k) - 1
    BY Turning DEF BusOK
  <1>2. (bus[Turn(k)].asked = "tail" => Turn(k) = 1) /\ bus[Turn(k)].replied # "tail"
    BY <1>1 DEF BusOK
  <1>3. Odd(k) /\ bus[Turn(k)].asked = "tail"
    BY <1>2 DEF SentHow
  <1> QED
    BY <1>1, <1>2, <1>3

\* A frame at a place of the stream is the k-th frame of the bus.
SentAt(j, k, c, a, n, raw) ==
    /\ j \in 0 .. Last2 /\ k \in 1 .. Last2 /\ k = j + 1 /\ SentHow(k) \in Intact
    /\ c[j] = a /\ c[k] = a + n /\ Len(SentBytes(k)) = n - 2 /\ raw = Frame(SentBytes(k))
    /\ times[a + 1] = SentTime(k)

\* What has a valid CRC was sent: the end of a frame is found nowhere else, and
\* it tells how long the frame was.
LEMMA ValidWasSent ==
    ASSUME BusOK, StreamOK, NEW c, Cuts(c, stream, times), NEW a \in Nat, NEW n \in Nat, 4 <= n, a + n <= Len(stream),
           NEW raw \in Seq(Cell), Len(raw) = n, \A p \in 1 .. n : raw[p] = stream[a + p], HasValidCrc(raw, n)
    PROVE  \E j, k : SentAt(j, k, c, a, n, raw)
  <1> DEFINE w == [p \in 1 .. n - 2 |-> raw[p].v]
  <1>1. raw[n] = HiCell(w)
    <2>1. 2 <= n /\ n <= Len(raw)
      OBVIOUS
    <2> QED
      BY <2>1, ValidCrc
  <1>2. Len(w) = n - 2 /\ Len(w) \in Nat
    <2>1. n - 2 \in Nat
      OBVIOUS
    <2> QED
      BY <2>1
  <1> HIDE DEF w
  <1>3. HiOf(stream[a + n], w)
    <2>1. HiOf(HiCell(w), w)
      BY CrcOf
    <2>2. raw[n] = stream[a + n]
      OBVIOUS
    <2> QED
      BY <1>1, <2>1, <2>2
  <1>4. Last2 \in Nat /\ c \in [0 .. Last2 -> Nat]
        /\ \A p \in 1 .. Len(stream) : \E j, k \in 0 .. Last2 : k = j + 1 /\ c[j] < p /\ p <= c[k]
    BY CutsOrdered DEF BusOK
  <1>5. PICK j \in 0 .. Last2, k \in 0 .. Last2 : k = j + 1 /\ c[j] < a + n /\ a + n <= c[k]
    <2>1. a + n \in 1 .. Len(stream)
      BY LenProperties DEF StreamOK
    <2> QED
      BY <1>4, <2>1
  <1>6. k \in 1 .. Last2 /\ c[j] \in Nat /\ c[k] \in Nat
    BY <1>4, <1>5
  <1> DEFINE v == SentBytes(k)
  <1>7. Piece(v, SentTime(k), SentHow(k), c[j], c[k], stream, times)
    BY <1>5 DEF Cuts
  <1>8. SentHow(k) \in Intact
    <2> SUFFICES ASSUME SentHow(k) \notin Intact PROVE FALSE
      OBVIOUS
    <2>1. a + n \in c[j] + 1 .. c[k]
      BY <1>5, <1>6
    <2>2. SentHow(k) = "tail" /\ a + n < c[j] + Len(w) + 2
      BY <1>3, <1>7, <2>1 DEF Piece
    <2>3. k = 1
      BY <1>6, <2>2, OnlyFirstCut
    <2>4. c[j] = 0
      BY <1>5, <2>3 DEF Cuts
    <2> QED
      BY <1>2, <2>2, <2>4
  <1>9. v \in Seq(Byte) /\ Len(v) \in Nat /\ Len(v) >= 3
    BY <1>6, <1>8, SentFrame
  <1>10. /\ c[k] = c[j] + Len(v) + 2 /\ times[c[j] + 1] = SentTime(k)
         /\ \A p \in 1 .. Len(v) + 2 : stream[c[j] + p] = Frame(v)[p]
    BY <1>7, <1>8 DEF Piece
  <1> HIDE DEF v
  <1>11. PICK q \in 1 .. Len(v) + 2 : a + n = c[j] + q
    <2>0. c[k] = c[j] + Len(v) + 2
      BY <1>10
    <2> DEFINE l == Len(v) + 2
               p == a + n
               x == c[j]
    <2>1. x \in Nat /\ l \in Nat /\ p \in Nat /\ x < p /\ p <= x + l
      BY <1>5, <1>6, <1>9, <2>0, SMTT(30)
    <2> HIDE DEF l, p, x
    <2>2. Within(x, l, p)
      BY <2>1, Offset
    <2> QED
      BY <2>2 DEF l, p, x, Within
  <1>12. q = Len(v) + 2 /\ w = v
    <2>1. HiOf(Frame(v)[q], w)
      BY <1>3, <1>10, <1>11
    <2>2. Frame(v) \in Seq(Cell) /\ Len(Frame(v)) = Len(v) + 2
          /\ \A x : \A p \in 1 .. Len(Frame(v)) : HiOf(Frame(v)[p], x) => p = Len(v) + 2 /\ x = v
      BY <1>9, FrameEnd
    <2> QED
      BY <2>1, <2>2
  <1>13. Len(v) = n - 2 /\ c[j] = a /\ c[k] = a + n
    <2>1. Len(v) = n - 2
      BY <1>2, <1>12
    <2> QED
      BY <1>6, <1>10, <1>11, <1>12, <2>1, SMTT(30)
  <1>14. raw = Frame(v)
    <2>1. Frame(v) \in Seq(Cell) /\ Len(Frame(v)) = n
      BY <1>9, <1>13, FrameEnd
    <2>2. \A p \in 1 .. n : raw[p] = Frame(v)[p]
      <3>1. Len(v) + 2 = n
        BY <1>13
      <3>2. \A p \in 1 .. n : stream[c[j] + p] = Frame(v)[p]
        BY <1>10, <3>1
      <3> QED
        BY <1>13, <3>2
    <2> QED
      BY <2>1, <2>2, SameCells
  <1>15. SentAt(j, k, c, a, n, raw)
    BY <1>5, <1>6, <1>8, <1>10, <1>13, <1>14 DEF SentAt, v
  <1> QED
    BY <1>15

Role(k) == IF Odd(k) THEN "request" ELSE "response"

\* A frame found is the k-th frame of the bus.
IsSent(f, j, k, c) ==
    /\ SentAt(j, k, c, f.off, Len(f.raw), f.raw)
    /\ f.ts = SentTime(k)
    /\ f.fc = SentBytes(k)[2]
    /\ f.fc # 6 => f.role = Role(k)

AllSent(fs, c) == \A n \in 1 .. Len(fs) : \E j, k : IsSent(fs[n], j, k, c)

\* The values of the frame at a place.
ValuesAt(v, a, n, raw) ==
    /\ v \in Seq(Byte) /\ Len(v) = n - 2 /\ 5 <= n /\ raw = Frame(v)
    /\ \A p \in 1 .. n - 2 : stream[a + p].v = v[p] /\ raw[p].v = v[p]

\* A piece of the stream with the bytes of a frame has its values.
LEMMA SentValues ==
    ASSUME BusOK, StreamOK, NEW j, NEW k, NEW c, NEW a \in Nat, NEW n \in Nat, NEW raw, SentAt(j, k, c, a, n, raw),
           \A p \in 1 .. n : raw[p] = stream[a + p]
    PROVE  ValuesAt(SentBytes(k), a, n, raw)
  <1> DEFINE v == SentBytes(k)
  <1>1. k \in 1 .. Last2 /\ SentHow(k) \in Intact /\ raw = Frame(v) /\ Len(v) = n - 2
    BY DEF SentAt
  <1>2. v \in Seq(Byte) /\ Len(v) \in Nat /\ Len(v) >= 3
    BY <1>1, SentFrame
  <1> HIDE DEF v
  <1>3. \A p \in 1 .. Len(v) : Frame(v)[p] = DataCell(v[p])
    BY <1>2, FrameParts
  <1>4. ASSUME NEW p \in 1 .. n - 2 PROVE stream[a + p].v = v[p] /\ raw[p].v = v[p]
    <2>1. p \in 1 .. Len(v) /\ p \in 1 .. n
      BY <1>1
    <2>2. raw[p] = DataCell(v[p]) /\ raw[p] = stream[a + p]
      BY <1>1, <1>3, <2>1
    <2>3. DataCell(v[p]).v = v[p]
      BY DataCells
    <2> QED
      BY <2>2, <2>3
  <1>5. 5 <= n
    BY <1>1, <1>2
  <1> QED
    BY <1>1, <1>2, <1>4, <1>5 DEF ValuesAt, v

\* What a request's frame says.
LEMMA AskedValues ==
    ASSUME BusOK, NEW k \in 1 .. Last2, Odd(k)
    PROVE  /\ bus[Turn(k)].req \in Queries /\ bus[Turn(k)].req \in Request
           /\ Len(SentBytes(k)) = 6 /\ SentBytes(k)[2] = bus[Turn(k)].req.fn
           /\ SentBytes(k)[3] = bus[Turn(k)].req.start \div 256
           /\ 256 * SentBytes(k)[5] + SentBytes(k)[6] = bus[Turn(k)].req.count
  <1> DEFINE r == bus[Turn(k)].req
  <1>1. r \in Queries
    BY Turning DEF BusOK, Said
  <1>2. r \in Request
    BY <1>1, WireAssumption
  <1> HIDE DEF r
  <1>3. /\ Len(RequestValues(r)) = 6 /\ RequestValues(r)[2] = r.fn /\ RequestValues(r)[3] = r.start \div 256
        /\ 256 * RequestValues(r)[5] + RequestValues(r)[6] = r.count
    BY <1>2, RequestSaid
  <1>4. SentBytes(k) = RequestValues(r)
    BY DEF SentBytes, r
  <1> QED
    BY <1>1, <1>2, <1>3, <1>4 DEF r

\* The count that a request asks for is in its fifth and sixth bytes.
LEMMA CountOf ==
    ASSUME NEW raw
    PROVE  WordAt(raw, 4) = 256 * raw[5].v + raw[6].v
  <1>1. 4 + 1 = 5 /\ 4 + 2 = 6
    OBVIOUS
  <1> QED
    BY <1>1 DEF WordAt

\* The lengths that a frame can have here.
LEMMA FrameLengths ==
    /\ Fc = 3 => FrameLength("response") = {5 + ByteAt(2)}
    /\ Fc = 4 => FrameLength("response") = {6 + 2 * count : count \in pending}
    /\ Fc = 6 => FrameLength("response") = {8}
    /\ Fc \notin {3, 4, 6} /\ Fc >= 128 => FrameLength("response") = {5}
    /\ Fc \in {3, 4, 6} => FrameLength("request") = {8}
    /\ \A len \in FrameLength("request") : len = 8 /\ Fc \in {3, 4, 6}
  <1> DEFINE x == Fc
             y == ByteAt(2)
             P == {6 + 2 * count : count \in pending}
             L == CASE x = 3 -> {5 + y} [] x = 4 -> P [] x = 6 -> {8} [] x >= 128 -> {5} [] OTHER -> {}
             R == {8 : fc \in {x} \cap {3, 4, 6}}
  <1>1. FrameLength("response") = L /\ FrameLength("request") = R
    BY DEF FrameLength
  <1> HIDE DEF x, y, P
  <1>2. /\ x = 3 => L = {5 + y}
        /\ x = 4 => L = P
        /\ x = 6 => L = {8}
        /\ x \notin {3, 4, 6} /\ x >= 128 => L = {5}
    OBVIOUS
  <1>3. /\ x \in {3, 4, 6} => R = {8}
        /\ \A len \in R : len = 8 /\ x \in {3, 4, 6}
    OBVIOUS
  <1> QED
    BY <1>1, <1>2, <1>3 DEF x, y, P

\* The count remembered is that of a request that was sent.
LEMMA PendingCount ==
    ASSUME BusOK, StreamOK, WalkOK, NEW c, AllSent(frames, c), NEW count \in pending
    PROVE  \E n \in 1 .. Len(bus) : bus[n].req.fn # 6 /\ bus[n].req.count = count
  <1> DEFINE l == Len(frames)
             f == frames[l]
  <1>1. frames # <<>> /\ pending = Awaited(f) /\ l \in 1 .. l
    <2>1. frames # <<>>
      BY DEF WalkOK
    <2>2. l \in Nat /\ l # 0
      BY <2>1, LenProperties, EmptySeq DEF WalkOK
    <2> QED
      BY <2>1, <2>2 DEF WalkOK
  <1>2. f.role = "request" /\ f.fc \in {3, 4} /\ count = WordAt(f.raw, 4)
    BY <1>1 DEF Awaited
  <1>3. PICK j, k : IsSent(f, j, k, c)
    BY <1>1 DEF AllSent
  <1>4. f \in FoundFrame /\ Cutting(f)
    BY <1>1, ElementOfSeq DEF WalkOK
  <1> HIDE DEF f, l
  <1>5. k \in 1 .. Last2 /\ Odd(k)
    BY <1>2, <1>3 DEF IsSent, SentAt, Role
  <1> DEFINE r == bus[Turn(k)].req
             v == SentBytes(k)
             n == Len(f.raw)
  <1>6. /\ Len(v) = 6 /\ v[2] = r.fn /\ 256 * v[5] + v[6] = r.count
    BY <1>5, AskedValues
  <1>7. /\ f.off \in Nat /\ n \in Nat /\ \A p \in 1 .. n : f.raw[p] = stream[f.off + p]
    BY <1>4, LenProperties DEF FoundFrame, Cutting
  <1>a. SentAt(j, k, c, f.off, n, f.raw) /\ f.fc = v[2]
    BY <1>3 DEF IsSent
  <1> HIDE DEF v, n
  <1>8. Len(v) = n - 2 /\ \A p \in 1 .. n - 2 : f.raw[p].v = v[p]
    <2> DEFINE a == f.off
               raw == f.raw
    <2>1. a \in Nat /\ n \in Nat /\ SentAt(j, k, c, a, n, raw) /\ \A p \in 1 .. n : raw[p] = stream[a + p]
      BY <1>7, <1>a
    <2> HIDE DEF a, raw
    <2>2. ValuesAt(v, a, n, raw)
      BY <2>1, SentValues DEF v
    <2> QED
      BY <2>2 DEF ValuesAt, raw
  <1>9. f.raw[5].v = v[5] /\ f.raw[6].v = v[6]
    <2>1. n - 2 = 6
      BY <1>6, <1>8, Zenon
    <2>2. 5 \in 1 .. n - 2 /\ 6 \in 1 .. n - 2
      BY <2>1
    <2> QED
      BY <1>8, <2>2
  <1>10. WordAt(f.raw, 4) = 256 * v[5] + v[6]
    <2>1. WordAt(f.raw, 4) = 256 * f.raw[5].v + f.raw[6].v
      BY CountOf
    <2> QED
      BY <1>9, <2>1
  <1>11. Turn(k) \in 1 .. Len(bus)
    BY <1>5, Turning DEF BusOK
  <1> QED
    BY <1>2, <1>6, <1>a, <1>10, <1>11

\* What a reply's frame says.
AnswerIs(x, v) ==
    /\ x \in Said /\ x.req \in Queries /\ x.req \in Request /\ x.answer \in {"data", "exception"}
    /\ x.answer # "data" => v[2] = 128 + x.req.fn /\ Len(v) = 3
    /\ x.answer = "data" => v[2] = x.req.fn
    /\ x.answer = "data" /\ x.req.fn = 3 => Len(v) = 3 + 2 * x.req.count /\ v[3] = 2 * x.req.count
    /\ x.answer = "data" /\ x.req.fn = 4 => Len(v) = 4 + 2 * x.req.count
    /\ x.answer = "data" /\ x.req.fn = 6 => Len(v) = 6

\* The first bytes of a reply tell what it is.
LEMMA AnswerValues ==
    ASSUME BusOK, NEW k \in 1 .. Last2, ~Odd(k), SentHow(k) \in Intact
    PROVE  AnswerIs(bus[Turn(k)], SentBytes(k))
  <1> DEFINE x == bus[Turn(k)]
             v == SentBytes(k)
  <1>1. x \in Said
    BY Turning DEF BusOK
  <1>2. x.req \in Queries /\ x.answer \in {"data", "exception", "none"}
    BY <1>1 DEF Said
  <1>3. x.req \in Request
    BY <1>2, WireAssumption
  <1>4. x.answer # "none"
    BY DEF SentHow, Intact
  <1>5. v = ReplyValues(x)
    BY DEF SentBytes
  <1> DEFINE w == ReplyValues(x)
  <1>6. /\ x.answer # "data" => w[2] = 128 + x.req.fn /\ Len(w) = 3
        /\ x.answer = "data" => w[2] = x.req.fn
        /\ x.answer = "data" /\ x.req.fn = 3 => Len(w) = 3 + 2 * x.req.count /\ w[3] = 2 * x.req.count
        /\ x.answer = "data" /\ x.req.fn = 4 => Len(w) = 4 + 2 * x.req.count
        /\ x.answer = "data" /\ x.req.fn = 6 => w = RequestValues(x.req)
    BY <1>1, <1>4, ReplySaid
  <1>7. Len(RequestValues(x.req)) = 6
    BY <1>3, RequestSaid
  <1>8. v = w
    BY <1>5
  <1> HIDE DEF w, v, x
  <1>9. AnswerIs(x, v)
    BY <1>1, <1>2, <1>3, <1>4, <1>6, <1>7, <1>8 DEF AnswerIs
  <1> QED
    BY <1>9 DEF x, v

\* A query asks for something.
LEMMA CountIs ==
    ASSUME NEW q \in Queries
    PROVE  q.fn \in {3, 4, 6} /\ q.count \in Nat /\ q.count > 0 /\ q.start \in Nat
  <1>1. q \in Request
    BY WireAssumption
  <1>2. q.fn \in {3, 4, 6} /\ q.count \in 1 .. 125
    BY <1>1 DEF Request
  <1>3. q.start \in Word
    BY <1>1 DEF Request
  <1>4. q.start \in Nat
    BY <1>3, Words
  <1> QED
    BY <1>2, <1>4

\* A frame of another function than FC=6 is found in its role.
LEMMA TrueRole ==
    ASSUME Tellable, BusOK, StreamOK, WalkOK, NEW c, AllSent(frames, c),
           NEW len \in Nat, NEW role \in {"request", "response"}, len \in FrameLength(role),
           NEW k \in 1 .. Last2, SentHow(k) \in Intact, Len(SentBytes(k)) = len - 2,
           Fc = SentBytes(k)[2], ByteAt(2) = SentBytes(k)[3], Fc # 6
    PROVE  role = Role(k)
  <1> DEFINE v == SentBytes(k)
             x == bus[Turn(k)]
             q == x.req
  <1>0. Len(v) = len - 2 /\ Fc = v[2] /\ ByteAt(2) = v[3]
    OBVIOUS
  <1>1. CASE Odd(k)
    <2> SUFFICES ASSUME role # "request" PROVE FALSE
      BY <1>1 DEF Role
    <2>1. q \in Queries /\ q \in Request /\ Len(v) = 6 /\ v[2] = q.fn /\ v[3] = q.start \div 256
      BY <1>1, AskedValues, ZenonT(30)
    <2>2. q.fn \in {3, 4, 6}
      BY <2>1, RequestParts
    <2> HIDE DEF v, q
    <2>a. Len(v) = 6 /\ v[2] = q.fn
      BY <2>1
    <2>3. len = 8
      <3>1. Len(v) = len - 2
        BY <1>0
      <3>2. len - 2 = 6
        BY <2>a, <3>1, Zenon
      <3> QED
        BY <3>2
    <2>4. len \in FrameLength("response")
      OBVIOUS
    <2>5. CASE q.fn = 3
      <3>1. Fc = 3
        BY <1>0, <2>1, <2>5
      <3>2. len = 5 + ByteAt(2)
        BY <2>4, <3>1, FrameLengths
      <3>3. q.start \div 256 # 3
        BY <2>1, <2>5 DEF Tellable
      <3>4. ByteAt(2) = q.start \div 256
        BY <1>0, <2>1
      <3>5. q.start \in Nat
        BY <2>1, CountIs
      <3> QED
        BY <2>3, <3>2, <3>3, <3>4, <3>5
    <2>6. CASE q.fn = 4
      <3>1. Fc = 4
        BY <1>0, <2>1, <2>6
      <3>2. PICK count \in pending : len = 6 + 2 * count
        BY <2>4, <3>1, FrameLengths
      <3>3. PICK n \in 1 .. Len(bus) : bus[n].req.fn # 6 /\ bus[n].req.count = count
        BY PendingCount
      <3> DEFINE r == bus[n].req
      <3>4. r \in Queries
        <4>1. bus \in Seq(Said)
          BY DEF BusOK
        <4>2. bus[n] \in Said
          BY <4>1, ElementOfSeq
        <4> QED
          BY <4>2 DEF Said
      <3>5. r.count \in Nat
        BY <3>4, CountIs
      <3> HIDE DEF r
      <3>6. r.count = count /\ r.fn # 6
        BY <3>3 DEF r
      <3>7. r.count # 1
        BY <2>1, <2>6, <3>4, <3>6 DEF Tellable
      <3> QED
        BY <2>3, <3>2, <3>5, <3>6, <3>7
    <2> QED
      BY <1>0, <2>1, <2>2, <2>5, <2>6
  <1>2. CASE ~Odd(k)
    <2> SUFFICES ASSUME role = "request" PROVE FALSE
      BY <1>2 DEF Role
    <2>1. /\ q \in Queries /\ q \in Request /\ x.answer \in {"data", "exception"}
          /\ x.answer # "data" => v[2] = 128 + q.fn /\ Len(v) = 3
          /\ x.answer = "data" => v[2] = q.fn
          /\ x.answer = "data" /\ q.fn = 3 => Len(v) = 3 + 2 * q.count
          /\ x.answer = "data" /\ q.fn = 4 => Len(v) = 4 + 2 * q.count
      <3>1. AnswerIs(x, v)
        BY <1>2, AnswerValues
      <3> HIDE DEF x, v
      <3> QED
        BY <3>1 DEF AnswerIs, q
    <2>2. q.fn \in {3, 4, 6} /\ q.count \in Nat
      <3>1. q \in Queries
        BY <2>1
      <3> HIDE DEF q
      <3> QED
        BY <3>1, CountIs
    <2>3. len = 8 /\ Fc \in {3, 4, 6}
      BY FrameLengths
    <2> HIDE DEF v, q, x
    <2>4. Len(v) = 6 /\ v[2] \in {3, 4}
      BY <1>0, <2>3
    <2>5. x.answer = "data"
      BY <2>1, <2>4
    <2>6. CASE q.fn = 3
      BY <2>1, <2>2, <2>4, <2>5, <2>6
    <2>7. CASE q.fn = 4
      <3>1. q.count = 1
        BY <2>1, <2>2, <2>4, <2>5, <2>7
      <3>2. q.count # 1
        <4>1. \A r \in Queries : q.fn = 4 /\ r.fn # 6 => r.count # 1
          BY <2>1 DEF Tellable
        <4> QED
          BY <2>1, <2>7, <4>1
      <3> QED
        BY <3>1, <3>2
    <2> QED
      BY <2>1, <2>2, <2>4, <2>5, <2>6, <2>7
  <1> QED
    BY <1>1, <1>2

\* A reply to FC=4 is told by its request only.
Recoverable(k) ==
    Odd(k) \/ (bus[Turn(k)].req.fn = 4 /\ bus[Turn(k)].answer = "data" => Asked(Turn(k)))

FoundUpTo(fs, at, c) ==
    \A j, k \in 0 .. Last2 :
        k = j + 1 /\ SentHow(k) \in Intact /\ Recoverable(k) /\ c[j] < at =>
            c[k] <= at /\ \E n \in 1 .. Len(fs) : IsSent(fs[n], j, k, c)

\* The piece of a frame is not shorter than its CRC and what comes before.
LEMMA PieceLong ==
    ASSUME BusOK, NEW c, NEW bytes, NEW stamps, Cuts(c, bytes, stamps), NEW j \in 0 .. Last2, NEW k \in 0 .. Last2, k = j + 1,
           SentHow(k) \in Intact
    PROVE  /\ k \in 1 .. Last2 /\ c[j] \in Nat /\ c[k] \in Nat /\ c[j] + 5 <= c[k] /\ c[k] <= Len(bytes)
           /\ c[k] = c[j] + Len(SentBytes(k)) + 2
  <1>1. Last2 \in Nat /\ c \in [0 .. Last2 -> Nat] /\ \A m, n \in 0 .. Last2 : m <= n => c[m] <= c[n]
    BY CutsOrdered DEF BusOK
  <1>2. k \in 1 .. Last2 /\ c[j] \in Nat /\ c[k] \in Nat
    BY <1>1
  <1>3. c[k] = c[j] + Len(SentBytes(k)) + 2
    <2>1. Piece(SentBytes(k), SentTime(k), SentHow(k), c[j], c[k], bytes, stamps)
      BY DEF Cuts
    <2> QED
      BY <2>1 DEF Piece
  <1>4. Len(SentBytes(k)) \in Nat /\ Len(SentBytes(k)) >= 3
    BY <1>2, SentFrame
  <1>5. c[k] <= Len(bytes)
    <2>1. c[Last2] = Len(bytes) /\ Last2 \in 0 .. Last2 /\ k <= Last2
      BY <1>1, <1>2 DEF Cuts
    <2> QED
      BY <1>1, <2>1
  <1>6. c[j] + 5 <= c[k]
    <2> DEFINE l == Len(SentBytes(k))
    <2> HIDE DEF l
    <2>1. l \in Nat /\ l >= 3 /\ c[k] = c[j] + l + 2
      BY <1>3, <1>4 DEF l
    <2> QED
      BY <1>2, <2>1
  <1> QED
    BY <1>2, <1>3, <1>5, <1>6

\* What a step finds was sent.
LEMMA FoundIsSent ==
    ASSUME Tellable, BusOK, StreamOK, WalkOK, NEW c, Cuts(c, stream, times), AllSent(frames, c),
           NEW role, NEW len, Finds(role, len)
    PROVE  \E j, k : IsSent(NewFrame(role, len), j, k, c)
  <1> DEFINE f == NewFrame(role, len)
             raw == f.raw
  <1>1. /\ f \in FoundFrame /\ f.role = role /\ f.off = i /\ f.ts = times[i + 1]
        /\ Len(raw) = len /\ len \in Nat /\ 4 <= len /\ i \in Nat
        /\ i + len <= Len(stream) /\ f.fc = raw[2].v
        /\ \A p \in 1 .. len : raw[p] = stream[i + p]
        /\ HasValidCrc(raw, len) /\ len \in FrameLength(role)
    BY FindsFrame
  <1>2. role \in {"request", "response"}
    BY DEF Finds
  <1> HIDE DEF f, raw
  <1>3. raw \in Seq(Cell)
    BY <1>1 DEF FoundFrame, raw
  <1>4. PICK j, k : SentAt(j, k, c, i, len, raw)
    BY <1>1, <1>3, ValidWasSent
  <1> DEFINE v == SentBytes(k)
  <1>5. k \in 1 .. Last2 /\ SentHow(k) \in Intact /\ times[i + 1] = SentTime(k) /\ Len(v) = len - 2
    BY <1>4 DEF SentAt
  <1>6. ValuesAt(v, i, len, raw)
    BY <1>1, <1>4, SentValues
  <1> HIDE DEF v
  <1>7. raw[2].v = v[2] /\ stream[i + 2].v = v[2] /\ stream[i + 3].v = v[3]
    <2>1. 5 <= len /\ \A p \in 1 .. len - 2 : stream[i + p].v = v[p] /\ raw[p].v = v[p]
      BY <1>6 DEF ValuesAt
    <2>2. 2 \in 1 .. len - 2 /\ 3 \in 1 .. len - 2
      BY <1>1, <2>1
    <2> QED
      BY <2>1, <2>2
  <1>8. Fc = v[2] /\ ByteAt(2) = v[3] /\ f.fc = v[2]
    <2>1. i + 1 + 1 = i + 2 /\ i + 2 + 1 = i + 3
      BY <1>1
    <2> QED
      BY <1>1, <1>7, <2>1 DEF Fc, ByteAt
  <1>9. f.fc # 6 => role = Role(k)
    BY <1>1, <1>2, <1>5, <1>8, TrueRole DEF v
  <1>10. SentAt(j, k, c, f.off, Len(f.raw), f.raw)
    BY <1>1, <1>4 DEF raw
  <1>11. IsSent(f, j, k, c)
    BY <1>1, <1>5, <1>8, <1>9, <1>10 DEF IsSent, v
  <1> QED
    BY <1>11 DEF f

\* A frame that begins where another one lies is that one.
LEMMA SamePiece ==
    ASSUME BusOK, NEW c, NEW bytes, NEW stamps, Cuts(c, bytes, stamps), NEW j \in 0 .. Last2, NEW k \in 0 .. Last2, k = j + 1,
           SentHow(k) \in Intact, NEW l \in 0 .. Last2, NEW m \in 0 .. Last2, m = l + 1, c[l] <= c[j], c[j] < c[m]
    PROVE  j = l /\ k = m
  <1>1. Last2 \in Nat /\ c \in [0 .. Last2 -> Nat] /\ \A x, y \in 0 .. Last2 : x <= y => c[x] <= c[y]
    BY CutsOrdered DEF BusOK
  <1>2. c[j] \in Nat /\ c[k] \in Nat /\ c[l] \in Nat /\ c[m] \in Nat /\ c[j] + 5 <= c[k]
    BY <1>1, PieceLong
  <1>3. ~(m <= j)
    <2>1. m <= j => c[m] <= c[j]
      BY <1>1
    <2> QED
      BY <1>2, <2>1
  <1>4. ~(k <= l)
    <2>1. k <= l => c[k] <= c[l]
      BY <1>1
    <2> QED
      BY <1>2, <2>1
  <1> QED
    BY <1>1, <1>3, <1>4

\* A frame found is the next one of those recorded whole.
LEMMA FoundNext ==
    ASSUME BusOK, StreamOK, WalkOK, NEW c, Cuts(c, stream, times), FoundUpTo(frames, i, c),
           NEW f, NEW fs, NEW len \in Nat, NEW l, NEW m, IsSent(f, l, m, c), f.off = i, Len(f.raw) = len, 4 <= len,
           Len(frames) \in Nat, Len(fs) = Len(frames) + 1, \A n \in 1 .. Len(frames) : fs[n] = frames[n],
           fs[Len(frames) + 1] = f
    PROVE  FoundUpTo(fs, i + len, c)
  <1>1. /\ l \in 0 .. Last2 /\ m \in 1 .. Last2 /\ m = l + 1 /\ c[l] = i /\ c[m] = i + len
    BY DEF IsSent, SentAt
  <1>2. Last2 \in Nat /\ i \in Nat /\ \A j, k \in 0 .. Last2 : j <= k => c[j] <= c[k]
    BY CutsOrdered DEF BusOK, WalkOK
  <1>3. Len(frames) + 1 \in 1 .. Len(fs) /\ \A n \in 1 .. Len(frames) : n \in 1 .. Len(fs)
    OBVIOUS
  <1>4. ASSUME NEW j \in 0 .. Last2, NEW k \in 0 .. Last2, k = j + 1, SentHow(k) \in Intact, Recoverable(k), c[j] < i + len
        PROVE  c[k] <= i + len /\ \E n \in 1 .. Len(fs) : IsSent(fs[n], j, k, c)
    <2>1. c[j] \in Nat /\ c[k] \in Nat /\ c[j] + 5 <= c[k]
      BY <1>4, PieceLong
    <2>2. CASE c[j] < i
      <3>1. c[k] <= i
        BY <1>4, <2>2 DEF FoundUpTo
      <3>2. PICK n \in 1 .. Len(frames) : IsSent(frames[n], j, k, c)
        BY <1>4, <2>2 DEF FoundUpTo
      <3>3. n \in 1 .. Len(fs) /\ IsSent(fs[n], j, k, c)
        BY <1>3, <3>2
      <3>4. c[k] <= i + len
        BY <1>2, <2>1, <3>1
      <3> QED
        BY <3>3, <3>4
    <2>3. CASE ~(c[j] < i)
      <3>3. j = l /\ k = m
        <4>1. c[l] <= c[j] /\ c[j] < c[m] /\ l \in 0 .. Last2 /\ m \in 0 .. Last2 /\ m = l + 1
          BY <1>1, <1>2, <1>4, <2>1, <2>3
        <4> QED
          BY <1>4, <4>1, SamePiece
      <3>4. IsSent(fs[Len(frames) + 1], j, k, c)
        BY <3>3
      <3>5. c[k] <= i + len
        BY <1>1, <1>2, <3>3
      <3> QED
        BY <1>3, <3>4, <3>5
    <2> QED
      BY <2>2, <2>3
  <1> QED
    BY <1>4 DEF FoundUpTo

-----------------------------------------------------------------------------
(* What was sent is found. *)

\* The count of the request just read is remembered.
LEMMA RequestRemembered ==
    ASSUME BusOK, StreamOK, WalkOK, NEW c, Cuts(c, stream, times), FoundUpTo(frames, i, c),
           NEW j \in 0 .. Last2, NEW k \in 1 .. Last2, k = j + 1, ~Odd(k), c[j] = i,
           Asked(Turn(k)), bus[Turn(k)].req.fn # 6
    PROVE  pending = {bus[Turn(k)].req.count}
  <1> DEFINE t == Turn(k)
             r == bus[t].req
  <1>1. k = 2 * t /\ t \in 1 .. Len(bus) /\ Len(bus) \in Nat
    BY Turning DEF BusOK
  <1>2. t - 1 \in Nat /\ j = 2 * (t - 1) + 1 /\ j - 1 \in 0 .. Last2 /\ j = (j - 1) + 1
    <2>1. Last2 = 2 * Len(bus)
      BY DEF Last2
    <2> HIDE DEF t
    <2> QED
      BY <1>1, <2>1
  <1>3. Odd(j) /\ Turn(j) = t
    <2> DEFINE u == t - 1
    <2>1. u \in Nat /\ j = 2 * u + 1 /\ u + 1 = t
      <3> HIDE DEF t
      <3> QED
        BY <1>1, <1>2
    <2> HIDE DEF u, t
    <2>2. Odd(2 * u + 1) /\ Turn(2 * u + 1) = u + 1
      BY <2>1, TurnOdd
    <2> QED
      BY <2>1, <2>2
  <1> HIDE DEF t
  <1>4. SentHow(j) \in Intact /\ Recoverable(j)
    BY <1>3 DEF SentHow, Recoverable, Asked, t
  <1>5. j \in 1 .. Last2 /\ c[j - 1] < i
    BY <1>2, <1>4, PieceLong, SMTT(30)
  <1>6. PICK m \in 1 .. Len(frames) : IsSent(frames[m], j - 1, j, c)
    BY <1>2, <1>4, <1>5 DEF FoundUpTo
  <1> DEFINE f == frames[m]
             n == Len(f.raw)
             v == SentBytes(j)
  <1>7. f \in FoundFrame /\ Cutting(f)
    BY ElementOfSeq DEF WalkOK
  <1>8. SentAt(j - 1, j, c, f.off, n, f.raw) /\ f.fc = v[2] /\ (f.fc # 6 => f.role = Role(j))
    BY <1>6 DEF IsSent
  <1>9. f.off + n = i
    BY <1>8 DEF SentAt
  <1>10. m = Len(frames)
    <2> SUFFICES ASSUME m # Len(frames) PROVE FALSE
      OBVIOUS
    <2> DEFINE l == Len(frames)
    <2>1. l \in 1 .. l /\ m < l
      BY LenProperties DEF WalkOK
    <2>2. f.off + n <= frames[l].off
      BY <2>1 DEF WalkOK
    <2>3. frames[l] \in FoundFrame /\ Cutting(frames[l])
      BY <2>1, ElementOfSeq DEF WalkOK
    <2>4. frames[l].off \in Nat /\ Len(frames[l].raw) \in Nat /\ Len(frames[l].raw) >= 4
          /\ frames[l].off + Len(frames[l].raw) <= i
      BY <2>3, LenProperties DEF FoundFrame, Cutting
    <2>5. i \in Nat
      BY DEF WalkOK
    <2> HIDE DEF f, n, l
    <2> QED
      BY <1>9, <2>2, <2>4, <2>5, SMTT(30)
  <1>11. frames # <<>>
    <2>1. frames # <<>>
      BY <1>10, EmptySeq
    <2> QED
      BY <2>1
  <1>12. pending = Awaited(f)
    BY <1>10, <1>11 DEF WalkOK
  <1>13. /\ r \in Request /\ Len(v) = 6 /\ v[2] = r.fn /\ 256 * v[5] + v[6] = r.count
    BY <1>3, <1>5, AskedValues
  <1>14. f.role = "request" /\ f.fc \in {3, 4}
    <2>1. r.fn \in {3, 4, 6} /\ r.fn # 6
      BY <1>13, RequestParts DEF t
    <2> HIDE DEF f, v, r
    <2> QED
      BY <1>3, <1>8, <1>13, <2>1 DEF Role
  <1>15. WordAt(f.raw, 4) = r.count
    <2> DEFINE raw == f.raw
               a == f.off
    <2>1. /\ a \in Nat /\ n \in Nat /\ \A p \in 1 .. n : raw[p] = stream[a + p]
      BY <1>7, LenProperties DEF FoundFrame, Cutting
    <2>2. SentAt(j - 1, j, c, a, n, raw)
      BY <1>8
    <2> HIDE DEF f, n, raw, a
    <2>3. ValuesAt(v, a, n, raw)
      BY <2>1, <2>2, SentValues
    <2> HIDE DEF v
    <2>4. Len(v) = n - 2 /\ \A p \in 1 .. n - 2 : raw[p].v = v[p]
      BY <2>3 DEF ValuesAt
    <2>5. n - 2 = 6
      BY <1>13, <2>4, Zenon
    <2>6. raw[5].v = v[5] /\ raw[6].v = v[6]
      <3>1. 5 \in 1 .. n - 2 /\ 6 \in 1 .. n - 2
        BY <2>5
      <3> QED
        BY <2>4, <3>1
    <2>7. WordAt(raw, 4) = 256 * raw[5].v + raw[6].v
      BY CountOf
    <2> QED
      BY <1>13, <2>6, <2>7 DEF raw
  <1>16. Awaited(f) = {WordAt(f.raw, 4)}
    BY <1>14 DEF Awaited
  <1> QED
    BY <1>12, <1>15, <1>16 DEF t

\* What is there is a frame of this length.
LEMMA CanDecode ==
    ASSUME StreamOK, i \in Nat, NEW role, NEW v \in Seq(Byte), NEW n \in Nat, n = Len(v) + 2, Len(v) >= 3, i + n <= Len(stream),
           \A p \in 1 .. n : stream[i + p] = Frame(v)[p], n \in FrameLength(role)
    PROVE  TryDecode(role) # {}
  <1> DEFINE b == SubSeq(stream, i + 1, i + n)
             f == Frame(v)
  <1>1. b \in Seq(Cell) /\ Len(b) = n /\ \A p \in 1 .. n : b[p] = stream[i + p]
    BY Part, SMTT(30) DEF StreamOK
  <1>2. f \in Seq(Cell) /\ Len(f) = n /\ HasValidCrc(f, n)
    BY FrameIsValid, FrameCells
  <1>3. Len(v) \in Nat
    BY LenProperties
  <1>4. 4 <= n /\ 2 <= n
    BY <1>3
  <1> HIDE DEF b, f
  <1>5. \A p \in 1 .. n : b[p] = f[p]
    BY <1>1 DEF f
  <1>6. n <= Len(b) /\ n <= Len(f)
    BY <1>1, <1>2
  <1>7. HasValidCrc(b, n)
    BY <1>1, <1>2, <1>4, <1>5, <1>6, CrcAlike
  <1>8. n \in TryDecode(role)
    BY <1>4, <1>7 DEF TryDecode, b
  <1> QED
    BY <1>8

\* The length of a frame can be told here.
Told(k) == Odd(k) \/ (bus[Turn(k)].req.fn = 4 /\ bus[Turn(k)].answer = "data" => bus[Turn(k)].req.count \in pending)

\* The parser does not pass a frame whose length it can tell.
LEMMA NextIsTaken ==
    ASSUME BusOK, StreamOK, WalkOK, NEW c, Cuts(c, stream, times),
           NEW j \in 0 .. Last2, NEW k \in 0 .. Last2, k = j + 1, SentHow(k) \in Intact, Told(k), c[j] = i
    PROVE  TryDecode("request") # {} \/ TryDecode("response") # {}
  <1> DEFINE v == SentBytes(k)
             n == Len(v) + 2
             f == Frame(v)
  <1>1. k \in 1 .. Last2 /\ c[k] \in Nat /\ i \in Nat /\ c[k] <= Len(stream) /\ c[k] = i + n
    <2>1. k \in 1 .. Last2 /\ c[j] \in Nat /\ c[k] \in Nat /\ c[k] <= Len(stream) /\ c[k] = c[j] + Len(SentBytes(k)) + 2
      BY PieceLong
    <2>2. Len(SentBytes(k)) \in Nat
      BY <2>1, SentFrame
    <2> QED
      BY <2>1, <2>2
  <1>2. v \in Seq(Byte) /\ Len(v) \in Nat /\ Len(v) >= 3
    BY <1>1, SentFrame
  <1>3. times[i + 1] = SentTime(k) /\ \A p \in 1 .. n : stream[i + p] = f[p]
    <2>1. Piece(v, SentTime(k), SentHow(k), c[j], c[k], stream, times)
      BY DEF Cuts
    <2> HIDE DEF v
    <2> QED
      BY <2>1 DEF Piece
  <1> HIDE DEF v
  <1>4. n \in Nat /\ n - 2 = Len(v) /\ n >= 5 /\ i + n <= Len(stream)
    BY <1>1, <1>2
  <1>5. \A p \in 1 .. Len(v) : stream[i + p].v = v[p]
    <2>1. \A p \in 1 .. Len(v) : f[p] = DataCell(v[p])
      BY <1>2, FrameParts
    <2>2. ASSUME NEW p \in 1 .. Len(v) PROVE stream[i + p].v = v[p]
      <3>1. p \in 1 .. n
        BY <1>2, <1>4
      <3>2. stream[i + p] = DataCell(v[p])
        BY <1>3, <2>1, <3>1
      <3>3. DataCell(v[p]).v = v[p]
        BY DataCells
      <3> QED
        BY <3>2, <3>3
    <2> QED
      BY <2>2
  <1>6. Fc = v[2] /\ ByteAt(2) = v[3]
    <2>1. i + 1 + 1 = i + 2 /\ i + 2 + 1 = i + 3 /\ 2 \in 1 .. Len(v) /\ 3 \in 1 .. Len(v)
      BY <1>1, <1>2
    <2> QED
      BY <1>5, <2>1 DEF Fc, ByteAt
  <1>7. ASSUME NEW role, n \in FrameLength(role) PROVE TryDecode(role) # {}
    <2>1. n \in Nat /\ n = Len(v) + 2 /\ Len(v) >= 3 /\ i + n <= Len(stream) /\ \A p \in 1 .. n : stream[i + p] = Frame(v)[p]
      BY <1>2, <1>3, <1>4
    <2> HIDE DEF n, f
    <2> QED
      BY <1>1, <1>2, <1>7, <2>1, CanDecode
  <1>8. CASE Odd(k)
    <2> DEFINE r == bus[Turn(k)].req
    <2>1. r \in Queries /\ Len(v) = 6 /\ v[2] = r.fn
      BY <1>1, <1>8, AskedValues DEF v
    <2> HIDE DEF r
    <2>2. r.fn \in {3, 4, 6}
      BY <2>1, CountIs
    <2>3. FrameLength("request") = {8}
      BY <1>6, <2>1, <2>2, FrameLengths
    <2>4. n = 8
      BY <2>1
    <2> QED
      BY <1>7, <2>3, <2>4
  <1>9. CASE ~Odd(k)
    <2> DEFINE x == bus[Turn(k)]
               q == x.req
    <2>1. AnswerIs(x, v)
      BY <1>1, <1>9, AnswerValues DEF v
    <2>2. /\ q \in Queries /\ x.answer \in {"data", "exception"}
          /\ x.answer # "data" => v[2] = 128 + q.fn /\ Len(v) = 3
          /\ x.answer = "data" => v[2] = q.fn
          /\ x.answer = "data" /\ q.fn = 3 => Len(v) = 3 + 2 * q.count /\ v[3] = 2 * q.count
          /\ x.answer = "data" /\ q.fn = 4 => Len(v) = 4 + 2 * q.count
          /\ x.answer = "data" /\ q.fn = 6 => Len(v) = 6
      <3> HIDE DEF x
      <3> QED
        BY <2>1 DEF AnswerIs
    <2>b. q.fn = 4 /\ x.answer = "data" => q.count \in pending
      BY <1>9 DEF Told
    <2> HIDE DEF x, q
    <2>3. q.fn \in {3, 4, 6} /\ q.count \in Nat
      BY <2>2, CountIs
    <2>4. n \in FrameLength("response")
      <3>1. CASE x.answer # "data"
        <4>a. Len(v) = 3 /\ v[2] = 128 + q.fn
          BY <2>2, <3>1
        <4>1. n = 5 /\ Fc = 128 + q.fn
          BY <1>6, <4>a
        <4>2. Fc \notin {3, 4, 6} /\ Fc >= 128
          BY <2>3, <4>1
        <4> QED
          BY <4>1, <4>2, FrameLengths
      <3>2. CASE x.answer = "data" /\ q.fn = 3
        <4>1. Len(v) = 3 + 2 * q.count /\ Fc = 3 /\ ByteAt(2) = 2 * q.count
          BY <1>6, <2>2, <3>2
        <4>2. n = 5 + ByteAt(2)
          BY <2>3, <4>1
        <4> QED
          BY <4>1, <4>2, FrameLengths
      <3>3. CASE x.answer = "data" /\ q.fn = 4
        <4>1. Len(v) = 4 + 2 * q.count /\ Fc = 4
          BY <1>6, <2>2, <3>3
        <4>2. n = 6 + 2 * q.count
          BY <2>3, <4>1
        <4>3. q.count \in pending
          BY <2>b, <3>3
        <4>4. FrameLength("response") = {6 + 2 * count : count \in pending}
          BY <4>1, FrameLengths
        <4> QED
          BY <4>2, <4>3, <4>4
      <3>4. CASE x.answer = "data" /\ q.fn = 6
        <4>a. Len(v) = 6 /\ v[2] = 6
          BY <2>2, <3>4
        <4>1. n = 8 /\ Fc = 6
          BY <1>6, <4>a
        <4> QED
          BY <4>1, FrameLengths
      <3> QED
        BY <2>2, <2>3, <3>1, <3>2, <3>3, <3>4
    <2> QED
      BY <1>7, <2>4
  <1> QED
    BY <1>8, <1>9

\* A frame that can be recovered is told by the frames before it.
LEMMA RecoverableIsTold ==
    ASSUME BusOK, StreamOK, WalkOK, NEW c, Cuts(c, stream, times), FoundUpTo(frames, i, c),
           NEW j \in 0 .. Last2, NEW k \in 1 .. Last2, k = j + 1, SentHow(k) \in Intact, Recoverable(k), c[j] = i
    PROVE  Told(k)
  <1> DEFINE x == bus[Turn(k)]
  <1> SUFFICES ASSUME ~Odd(k), x.req.fn = 4, x.answer = "data"
               PROVE  x.req.count \in pending
    BY DEF Told
  <1>1. Asked(Turn(k))
    BY DEF Recoverable
  <1>2. x.req.fn # 6
    OBVIOUS
  <1>3. pending = {bus[Turn(k)].req.count}
    BY <1>1, <1>2, RequestRemembered
  <1> QED
    BY <1>3

\* A reply to FC=4 that the parser has passed came after a frame that does not tell
\* its length, the n-th of those found.
NotTold(k) ==
    ~Odd(k) /\ SentHow(k) \in Intact /\ bus[Turn(k)].req.fn = 4 /\ bus[Turn(k)].answer = "data"

PassedAt(fs, n, at, k) ==
    /\ n \in 0 .. Len(fs)
    /\ n # 0 => fs[n].off + Len(fs[n].raw) <= at /\ Awaited(fs[n]) # {bus[Turn(k)].req.count}
    /\ n # Len(fs) => at < fs[n + 1].off

PassedOver(fs, at, c) ==
    \A j, k \in 0 .. Last2 :
        k = j + 1 /\ NotTold(k) /\ c[j] < at =>
            \/ \E n \in 1 .. Len(fs) : IsSent(fs[n], j, k, c)
            \/ \E n : PassedAt(fs, n, c[j], k)

SentSoFar(fs, at, c) == AllSent(fs, c) /\ FoundUpTo(fs, at, c) /\ PassedOver(fs, at, c)

\* What the parser has found is what was sent so far.
SentInv == phase # "bus" => \E c : Cuts(c, stream, times) /\ SentSoFar(frames, i, c)

\* What was said and read stays.
LEMMA CutsStay ==
    ASSUME UNCHANGED bus, NEW c, Cuts(c, stream', times')
    PROVE  Cuts(c, stream, times)'
  BY DEF Cuts, SentBytes, SentTime, SentHow, ReplyTime, Last2

\* What was found stays.
LEMMA SentStay ==
    ASSUME UNCHANGED <<bus, times>>, NEW c, SentSoFar(frames', i', c)
    PROVE  SentSoFar(frames, i, c)'
  <1>1. AllSent(frames, c)'
    BY DEF SentSoFar, AllSent, IsSent, SentAt, SentBytes, SentTime, SentHow, ReplyTime, Last2
  <1>2. FoundUpTo(frames, i, c)'
    BY DEF SentSoFar, FoundUpTo, IsSent, SentAt, SentBytes, SentTime, SentHow, ReplyTime, Last2, Recoverable, Asked
  <1>3. PassedOver(frames, i, c)'
    <2>1. PassedOver(frames', i', c)
      BY DEF SentSoFar
    <2>2. Last2' = Last2
      BY DEF Last2
    <2>3. \A k : NotTold(k)' = NotTold(k)
      BY DEF NotTold, SentHow
    <2>4. \A f, j, k : IsSent(f, j, k, c)' = IsSent(f, j, k, c)
      BY DEF IsSent, SentAt, SentBytes, SentTime, SentHow, ReplyTime, Last2
    <2>5. \A fs, n, at, k : PassedAt(fs, n, at, k)' = PassedAt(fs, n, at, k)
      BY DEF PassedAt
    <2> QED
      BY <2>1, <2>2, <2>3, <2>4, <2>5 DEF PassedOver
  <1> QED
    BY <1>1, <1>2, <1>3 DEF SentSoFar

\* A frame appended leaves those passed where they are.
LEMMA FoundPasses ==
    ASSUME BusOK, StreamOK, WalkOK, NEW c, Cuts(c, stream, times), PassedOver(frames, i, c),
           NEW f, NEW fs, NEW len \in Nat, NEW l, NEW m, IsSent(f, l, m, c), f.off = i, Len(f.raw) = len, 4 <= len,
           Len(frames) \in Nat, Len(fs) = Len(frames) + 1, \A n \in 1 .. Len(frames) : fs[n] = frames[n],
           fs[Len(frames) + 1] = f
    PROVE  PassedOver(fs, i + len, c)
  <1>1. /\ l \in 0 .. Last2 /\ m \in 1 .. Last2 /\ m = l + 1 /\ c[l] = i /\ c[m] = i + len
    BY DEF IsSent, SentAt
  <1>2. Last2 \in Nat /\ i \in Nat /\ c \in [0 .. Last2 -> Nat]
    BY CutsOrdered DEF BusOK, WalkOK
  <1>3. Len(frames) + 1 \in 1 .. Len(fs) /\ \A n \in 1 .. Len(frames) : n \in 1 .. Len(fs)
    OBVIOUS
  <1>4. ASSUME NEW j \in 0 .. Last2, NEW k \in 0 .. Last2, k = j + 1, NotTold(k), c[j] < i + len
        PROVE  (\E n \in 1 .. Len(fs) : IsSent(fs[n], j, k, c)) \/ (\E n : PassedAt(fs, n, c[j], k))
    <2>0. SentHow(k) \in Intact
      BY <1>4 DEF NotTold
    <2>1. c[j] \in Nat
      BY <1>2
    <2>2. CASE c[j] < i
      <3>1. CASE \E n \in 1 .. Len(frames) : IsSent(frames[n], j, k, c)
        BY <1>3, <3>1
      <3>2. CASE \E n : PassedAt(frames, n, c[j], k)
        <4>1. PICK n : PassedAt(frames, n, c[j], k)
          BY <3>2
        <4>2. /\ n \in 0 .. Len(frames)
              /\ n # 0 => frames[n].off + Len(frames[n].raw) <= c[j] /\ Awaited(frames[n]) # {bus[Turn(k)].req.count}
              /\ n # Len(frames) => c[j] < frames[n + 1].off
          BY <4>1 DEF PassedAt
        <4>3. n \in 0 .. Len(fs) /\ n # Len(fs)
          BY <4>2
        <4>4. n # 0 => fs[n].off + Len(fs[n].raw) <= c[j] /\ Awaited(fs[n]) # {bus[Turn(k)].req.count}
          <5>1. n # 0 => fs[n] = frames[n]
            BY <4>2
          <5> QED
            BY <4>2, <5>1
        <4>5. c[j] < fs[n + 1].off
          <5>1. CASE n = Len(frames)
            BY <2>2, <5>1
          <5>2. CASE n # Len(frames)
            <6>1. n + 1 \in 1 .. Len(frames)
              BY <4>2, <5>2
            <6>2. fs[n + 1] = frames[n + 1]
              BY <6>1
            <6> QED
              BY <4>2, <5>2, <6>2
          <5> QED
            BY <5>1, <5>2
        <4>6. PassedAt(fs, n, c[j], k)
          BY <4>3, <4>4, <4>5 DEF PassedAt
        <4> QED
          BY <4>6
      <3> QED
        BY <1>4, <2>2, <3>1, <3>2 DEF PassedOver
    <2>3. CASE ~(c[j] < i)
      <3>1. c[l] <= c[j] /\ c[j] < c[m] /\ l \in 0 .. Last2 /\ m \in 0 .. Last2 /\ m = l + 1
        BY <1>1, <1>2, <1>4, <2>1, <2>3
      <3>2. j = l /\ k = m
        BY <1>4, <2>0, <3>1, SamePiece
      <3> QED
        BY <1>3, <3>2
    <2> QED
      BY <2>2, <2>3
  <1> QED
    BY <1>4 DEF PassedOver

\* A step that finds a frame keeps what was sent so far.
LEMMA FoundSent ==
    ASSUME Tellable, BusOK, StreamOK, WalkOK, NEW c, Cuts(c, stream, times), SentSoFar(frames, i, c),
           NEW role, NEW len, Finds(role, len)
    PROVE  SentSoFar(frames', i', c)
  <1> DEFINE f == NewFrame(role, len)
             n == Len(frames)
  <1>0. AllSent(frames, c) /\ FoundUpTo(frames, i, c) /\ PassedOver(frames, i, c) /\ i' = i + len
    BY DEF SentSoFar, Finds
  <1>1. PICK j, k : IsSent(f, j, k, c)
    BY <1>0, FoundIsSent
  <1>2. f.off = i /\ Len(f.raw) = len /\ len \in Nat /\ 4 <= len
    BY FindsFrame
  <1>3. n \in Nat /\ Len(frames') = n + 1 /\ (\A m \in 1 .. n : frames'[m] = frames[m]) /\ frames'[n + 1] = f
    BY FindsWalks
  <1> HIDE DEF f
  <1>4. FoundUpTo(frames', i + len, c)
    BY <1>0, <1>1, <1>2, <1>3, FoundNext
  <1>5. AllSent(frames', c)
    <2>1. ASSUME NEW m \in 1 .. n + 1 PROVE \E x, y : IsSent(frames'[m], x, y, c)
      <3>1. CASE m = n + 1
        BY <1>1, <1>3, <3>1
      <3>2. CASE m # n + 1
        <4>1. m \in 1 .. n
          BY <1>3, <3>2
        <4> QED
          BY <1>0, <1>3, <4>1 DEF AllSent
      <3> QED
        BY <3>1, <3>2
    <2> QED
      BY <1>3, <2>1 DEF AllSent
  <1>6. PassedOver(frames', i + len, c)
    BY <1>0, <1>1, <1>2, <1>3, FoundPasses
  <1> QED
    BY <1>0, <1>4, <1>5, <1>6 DEF SentSoFar

\* A byte is dropped only where no whole frame begins that can be recovered.
LEMMA DroppedUnsent ==
    ASSUME BusOK, StreamOK, WalkOK, NEW c, Cuts(c, stream, times), SentSoFar(frames, i, c), Resync
    PROVE  SentSoFar(frames', i', c)
  <1>0. AllSent(frames, c) /\ FoundUpTo(frames, i, c) /\ PassedOver(frames, i, c) /\ i' = i + 1 /\ frames' = frames /\ i \in Nat
        /\ TryDecode("request") = {} /\ TryDecode("response") = {}
    BY DEF SentSoFar, Resync, WalkOK
  <1>1. ASSUME NEW j \in 0 .. Last2, NEW k \in 0 .. Last2, k = j + 1, SentHow(k) \in Intact, Recoverable(k), c[j] < i + 1
        PROVE  c[k] <= i + 1 /\ \E n \in 1 .. Len(frames) : IsSent(frames[n], j, k, c)
    <2>1. c[j] \in Nat /\ c[k] \in Nat
      BY <1>1, PieceLong
    <2>2. c[j] # i
      <3> SUFFICES ASSUME c[j] = i PROVE FALSE
        OBVIOUS
      <3>1. k \in 1 .. Last2
        BY <1>1, PieceLong
      <3>2. Told(k)
        BY <1>0, <1>1, <3>1, RecoverableIsTold
      <3> QED
        BY <1>0, <1>1, <3>2, NextIsTaken
    <2>3. c[j] < i
      BY <1>0, <1>1, <2>1, <2>2
    <2>4. c[k] <= i /\ \E n \in 1 .. Len(frames) : IsSent(frames[n], j, k, c)
      BY <1>0, <1>1, <2>3 DEF FoundUpTo
    <2>5. c[k] <= i + 1
      BY <1>0, <2>1, <2>4
    <2> QED
      BY <2>4, <2>5
  <1>2. FoundUpTo(frames, i + 1, c)
    BY <1>1 DEF FoundUpTo
  <1>3. ASSUME NEW j \in 0 .. Last2, NEW k \in 0 .. Last2, k = j + 1, NotTold(k), c[j] < i + 1
        PROVE  (\E n \in 1 .. Len(frames) : IsSent(frames[n], j, k, c)) \/ (\E n : PassedAt(frames, n, c[j], k))
    <2>0. SentHow(k) \in Intact /\ bus[Turn(k)].req.fn = 4 /\ bus[Turn(k)].answer = "data" /\ ~Odd(k)
      BY <1>3 DEF NotTold
    <2>1. c[j] \in Nat
      BY <1>3, <2>0, PieceLong
    <2>2. CASE c[j] < i
      BY <1>0, <1>3, <2>2 DEF PassedOver
    <2>3. CASE ~(c[j] < i)
      <3>1. c[j] = i
        BY <1>0, <1>3, <2>1, <2>3
      <3>2. ~Told(k)
        BY <1>0, <1>3, <2>0, <3>1, NextIsTaken
      <3>3. bus[Turn(k)].req.count \notin pending
        BY <3>2 DEF Told
      <3> DEFINE n == Len(frames)
      <3>4. n \in Nat /\ (n # 0 => frames # <<>>)
        BY LenProperties, EmptySeq DEF WalkOK
      <3>5. n # 0 => frames[n].off + Len(frames[n].raw) <= i /\ Awaited(frames[n]) # {bus[Turn(k)].req.count}
        <4> SUFFICES ASSUME n # 0 PROVE frames[n].off + Len(frames[n].raw) <= i /\ Awaited(frames[n]) # {bus[Turn(k)].req.count}
          OBVIOUS
        <4>1. pending = Awaited(frames[n])
          BY <3>4 DEF WalkOK
        <4>2. n \in 1 .. n
          BY <3>4
        <4>3. Cutting(frames[n])
          BY <4>2 DEF WalkOK
        <4> HIDE DEF n
        <4> QED
          BY <3>3, <4>1, <4>3 DEF Cutting
      <3>6. PassedAt(frames, n, c[j], k)
        <4>1. n \in 0 .. n
          BY <3>4
        <4> QED
          BY <3>1, <3>5, <4>1 DEF PassedAt
      <3> QED
        BY <3>6
    <2> QED
      BY <2>2, <2>3
  <1>4. PassedOver(frames, i + 1, c)
    BY <1>3 DEF PassedOver
  <1> QED
    BY <1>0, <1>2, <1>4 DEF SentSoFar

\* Every step keeps what was found to what was sent.
LEMMA SentInvStep ==
    ASSUME Tellable, TypeInv, SentInv, [Next]_vars
    PROVE  SentInv'
  <1>1. BusOK /\ StreamOK /\ WalkOK /\ PendingOK
    BY DEF TypeInv
  <1>a. ASSUME UNCHANGED <<bus, stream, times, frames, i>>, phase # "bus" PROVE SentInv'
    <2>1. PICK c : Cuts(c, stream, times) /\ SentSoFar(frames, i, c)
      BY <1>a DEF SentInv
    <2>2. Cuts(c, stream', times') /\ SentSoFar(frames', i', c)
      BY <1>a, <2>1
    <2>3. Cuts(c, stream, times)' /\ SentSoFar(frames, i, c)'
      BY <1>a, <2>2, CutsStay, SentStay
    <2> QED
      BY <2>3 DEF SentInv
  <1>b. ASSUME UNCHANGED <<bus, stream, times, frames, i, phase>> PROVE SentInv'
    <2>1. CASE phase = "bus"
      BY <1>b, <2>1 DEF SentInv
    <2>2. CASE phase # "bus"
      BY <1>a, <1>b, <2>2
    <2> QED
      BY <2>1, <2>2
  <1>2. CASE Exchange
    <2>1. phase' = "bus"
      BY <1>2 DEF Exchange
    <2> QED
      BY <2>1 DEF SentInv
  <1>3. CASE Load
    <2>1. UNCHANGED <<bus, frames, i>> /\ phase = "bus"
      BY <1>3 DEF Load
    <2>2. frames = <<>> /\ i = 0
      BY <1>1, <2>1, FramesAtStart
    <2>3. PICK ends, mid : Pieces(ends, mid, stream', times')
      BY <1>1, <1>3, LoadStreams
    <2>4. PICK c : Cuts(c, stream', times')
      BY <1>1, <2>3, CutsMade DEF BusOK
    <2>6. Cuts(c, stream, times)'
      BY <2>1, <2>4, CutsStay
    <2>7. SentSoFar(frames, i, c)'
      <3>1. AllSent(frames, c)'
        <4>1. 1 .. Len(frames') = {}
          BY <2>1, <2>2
        <4> QED
          BY <4>1 DEF AllSent
      <3>2. ASSUME NEW j \in 0 .. Last2' PROVE ~(c[j] < i')
        <4>1. Last2' = Last2
          BY <2>1 DEF Last2
        <4>2. c[j] \in Nat
          BY <2>4, <4>1 DEF Cuts
        <4> QED
          BY <2>1, <2>2, <4>2
      <3>3. FoundUpTo(frames, i, c)'
        BY <3>2 DEF FoundUpTo
      <3>4. PassedOver(frames, i, c)'
        BY <3>2 DEF PassedOver
      <3> QED
        BY <3>1, <3>3, <3>4 DEF SentSoFar
    <2> QED
      BY <2>6, <2>7 DEF SentInv
  <1>4. CASE Found
    <2>0. phase = "parse" /\ UNCHANGED <<bus, stream, times>>
      BY <1>4 DEF Found, Parsing
    <2>1. PICK c : Cuts(c, stream, times) /\ SentSoFar(frames, i, c)
      BY <2>0 DEF SentInv
    <2>2. pending \subseteq Word
      BY <1>1 DEF PendingOK
    <2>3. PICK role, len : Finds(role, len)
      BY <1>1, <1>4, <2>2, FoundFinds
    <2>4. SentSoFar(frames', i', c)
      BY <1>1, <2>1, <2>3, FoundSent
    <2>5. Cuts(c, stream', times')
      BY <2>0, <2>1
    <2>6. Cuts(c, stream, times)' /\ SentSoFar(frames, i, c)'
      BY <2>0, <2>4, <2>5, CutsStay, SentStay
    <2> QED
      BY <2>6 DEF SentInv
  <1>5. CASE Resync
    <2>0. phase = "parse" /\ UNCHANGED <<bus, stream, times>>
      BY <1>5 DEF Resync, Parsing
    <2>1. PICK c : Cuts(c, stream, times) /\ SentSoFar(frames, i, c)
      BY <2>0 DEF SentInv
    <2>4. SentSoFar(frames', i', c)
      BY <1>1, <1>5, <2>1, DroppedUnsent
    <2>5. Cuts(c, stream', times')
      BY <2>0, <2>1
    <2>6. Cuts(c, stream, times)' /\ SentSoFar(frames, i, c)'
      BY <2>0, <2>4, <2>5, CutsStay, SentStay
    <2> QED
      BY <2>6 DEF SentInv
  <1>6. CASE Pair
    BY <1>6, <1>a DEF Pair, ParseEnds
  <1>7. CASE WriteRow \/ LeaveOut
    BY <1>7, <1>b DEF WriteRow, LeaveOut, TakePair, wireVars
  <1>8. CASE UNCHANGED vars
    BY <1>8, <1>b DEF vars, wireVars
  <1> QED
    BY <1>2, <1>3, <1>4, <1>5, <1>6, <1>7, <1>8 DEF Next, Finished, Parse, ParserNext

\* At the end of the stream, this is what the property says.
LEMMA SentMeansSent ==
    ASSUME TypeInv, SentInv
    PROVE  FoundWasSent
  <1> SUFFICES ASSUME ParseEnds, NEW n \in DOMAIN frames
               PROVE  \E s \in SentFrames : /\ s.ts = frames[n].ts /\ s.raw = frames[n].raw
                                            /\ frames[n].fc # 6 => s.role = frames[n].role
    BY DEF FoundWasSent
  <1>1. BusOK /\ StreamOK /\ WalkOK
    BY DEF TypeInv
  <1>2. PICK c : Cuts(c, stream, times) /\ SentSoFar(frames, i, c)
    BY DEF SentInv, ParseEnds
  <1>3. n \in 1 .. Len(frames)
    BY <1>1, LenProperties DEF WalkOK
  <1> DEFINE f == frames[n]
  <1>4. PICK j, k : IsSent(f, j, k, c)
    BY <1>2, <1>3 DEF SentSoFar, AllSent
  <1> HIDE DEF f
  <1>5. /\ k \in 1 .. Last2 /\ SentHow(k) \in Intact /\ f.raw = Frame(SentBytes(k)) /\ f.ts = SentTime(k)
        /\ f.fc # 6 => f.role = Role(k)
    BY <1>4 DEF IsSent, SentAt
  <1> DEFINE t == Turn(k)
             x == bus[t]
  <1>6. t \in 1 .. Len(bus) /\ x \in Said /\ Len(bus) \in Nat
    BY <1>1, <1>5, Turning DEF BusOK
  <1>7. t \in DOMAIN bus
    BY <1>1, <1>6, LenProperties DEF BusOK
  <1>8. CASE Odd(k)
    <2> DEFINE s == [ts |-> bus[t].t, raw |-> RequestFrame(bus[t].req), role |-> "request"]
    <2>1. Asked(t)
      BY <1>5, <1>8 DEF SentHow, Asked
    <2>2. s \in SentFrames
      <3> HIDE DEF t
      <3> QED
        BY <1>7, <2>1 DEF SentFrames
    <2>3. x.req \in Request
      BY <1>6, WireAssumption DEF Said
    <2>4. RequestFrame(x.req) = Frame(RequestValues(x.req))
      BY <2>3, RequestSaid
    <2>5. s.ts = f.ts /\ s.raw = f.raw /\ (f.fc # 6 => s.role = f.role)
      BY <1>5, <1>8, <2>4 DEF SentTime, SentBytes, Role
    <2> QED
      BY <2>2, <2>5 DEF f
  <1>9. CASE ~Odd(k)
    <2> DEFINE s == [ts |-> ReplyTime(t), raw |-> Reply(bus[t]), role |-> "response"]
    <2>1. Replied(t)
      BY <1>5, <1>9 DEF SentHow, Replied, Intact
    <2>2. s \in SentFrames
      <3> HIDE DEF t
      <3> QED
        BY <1>7, <2>1 DEF SentFrames
    <2>4. Reply(x) = Frame(ReplyValues(x))
      BY <1>6, <2>1, ReplySaid DEF Replied
    <2>5. s.ts = f.ts /\ s.raw = f.raw /\ (f.fc # 6 => s.role = f.role)
      BY <1>5, <1>9, <2>4 DEF SentTime, SentBytes, Role
    <2> QED
      BY <2>2, <2>5 DEF f
  <1> QED
    BY <1>8, <1>9

\* At the end of the stream, each frame that can be recovered has been found.
LEMMA EndFound ==
    ASSUME TypeInv, SentInv, ParseEnds, NEW j \in Nat, NEW k \in Nat, k = j + 1, k <= Last2,
           SentHow(k) \in Intact, Recoverable(k)
    PROVE  \E l \in DOMAIN frames : frames[l].ts = SentTime(k)
  <1>1. BusOK /\ StreamOK /\ WalkOK
    BY DEF TypeInv
  <1>2. PICK c : Cuts(c, stream, times) /\ SentSoFar(frames, i, c)
    BY DEF SentInv, ParseEnds
  <1>3. j \in 0 .. Last2 /\ k \in 0 .. Last2
    <2>1. Last2 \in Nat
      BY <1>1, LenProperties DEF Last2, BusOK
    <2> QED
      BY <2>1
  <1>4. c[j] \in Nat /\ c[k] \in Nat /\ c[j] + 5 <= c[k] /\ c[k] <= Len(stream)
    BY <1>1, <1>2, <1>3, PieceLong
  <1>5. i >= Len(stream) - 3 /\ i \in Nat /\ Len(stream) \in Nat
    BY <1>1, LenProperties DEF ParseEnds, WalkOK, StreamOK
  <1>6. c[j] < i
    BY <1>4, <1>5
  <1>7. PICK l \in 1 .. Len(frames) : IsSent(frames[l], j, k, c)
    BY <1>2, <1>3, <1>6 DEF SentSoFar, FoundUpTo
  <1>8. l \in DOMAIN frames
    BY <1>1, LenProperties DEF WalkOK
  <1> QED
    BY <1>7, <1>8 DEF IsSent

\* At the end of the stream, this is what the property says.
LEMMA SentMeansFound ==
    ASSUME TypeInv, SentInv
    PROVE  SentIsFound
  <1>1. bus \in Seq(Said)
    BY DEF TypeInv, BusOK
  <1> SUFFICES ASSUME ParseEnds, NEW n \in 1 .. Len(bus)
               PROVE  /\ Asked(n) => \E l \in DOMAIN frames : frames[l].ts = bus[n].t
                      /\ Replied(n) /\ (bus[n].req.fn = 4 /\ bus[n].answer = "data" => Asked(n)) =>
                            \E l \in DOMAIN frames : frames[l].ts = ReplyTime(n)
    BY <1>1, LenProperties DEF SentIsFound
  <1>2. Len(bus) \in Nat /\ Last2 = 2 * Len(bus)
    BY <1>1, LenProperties DEF Last2
  <1> DEFINE m == n - 1
             j == 2 * m
             k == 2 * m + 1
             h == 2 * n
  <1>3. m \in Nat /\ j \in Nat /\ k \in Nat /\ h \in Nat /\ n \in Nat /\ k = j + 1 /\ h = k + 1 /\ k <= Last2 /\ h <= Last2
        /\ m + 1 = n
    BY <1>2
  <1>4. Odd(k) /\ Turn(k) = n
    <2> HIDE DEF m
    <2> QED
      BY <1>3, TurnOdd
  <1>5. ~Odd(h) /\ Turn(h) = n
    BY <1>3, TurnEven
  <1> HIDE DEF m, j, k, h
  <1>6. ASSUME Asked(n) PROVE \E l \in DOMAIN frames : frames[l].ts = bus[n].t
    <2>1. SentHow(k) \in Intact /\ Recoverable(k) /\ SentTime(k) = bus[n].t
      BY <1>4, <1>6 DEF SentHow, Recoverable, SentTime, Asked
    <2>2. \E l \in DOMAIN frames : frames[l].ts = SentTime(k)
      BY <1>3, <2>1, EndFound
    <2> QED
      BY <2>1, <2>2
  <1>7. ASSUME Replied(n), bus[n].req.fn = 4 /\ bus[n].answer = "data" => Asked(n)
        PROVE  \E l \in DOMAIN frames : frames[l].ts = ReplyTime(n)
    <2>1. SentHow(h) \in Intact /\ Recoverable(h) /\ SentTime(h) = ReplyTime(n)
      BY <1>5, <1>7 DEF SentHow, Recoverable, SentTime, Replied
    <2>2. \E l \in DOMAIN frames : frames[l].ts = SentTime(h)
      BY <1>3, <2>1, EndFound
    <2> QED
      BY <2>1, <2>2
  <1> QED
    BY <1>6, <1>7

\* Types and what was sent so far, at all times.
LEMMA WireInvariant ==
    ASSUME Tellable
    PROVE  Spec => [](TypeInv /\ SentInv)
  <1>1. Init => TypeInv /\ SentInv
    BY TypeInvInit DEF SentInv, Init, ParserInit
  <1>2. TypeInv /\ SentInv /\ [Next]_vars => TypeInv' /\ SentInv'
    BY TypeInvStep, SentInvStep
  <1> QED
    BY <1>1, <1>2, PTL DEF Spec

\* However the log was spoilt, the parser finds no frame that was not sent, and gives
\* each its time and its role (parse_log.py:129-142).
THEOREM FramesAreSent ==
    ASSUME Tellable
    PROVE  Spec => []FoundWasSent
  <1>1. Spec => [](TypeInv /\ SentInv)
    BY WireInvariant
  <1>2. TypeInv /\ SentInv => FoundWasSent
    BY SentMeansSent
  <1> QED
    BY <1>1, <1>2, PTL

\* However the log was spoilt, the parser finds every frame that was recorded whole
\* and whose length it can know (parse_log.py:96-160).
THEOREM WholeFramesAreFound ==
    ASSUME Tellable
    PROVE  Spec => []SentIsFound
  <1>1. Spec => [](TypeInv /\ SentInv)
    BY WireInvariant
  <1>2. TypeInv /\ SentInv => SentIsFound
    BY SentMeansFound
  <1> QED
    BY <1>1, <1>2, PTL

-----------------------------------------------------------------------------
(* What lasts is written. *)

KeysOf(l) == DOMAIN updates[l].regs
Sayings(n, key) == {l \in 1 .. n : key \in KeysOf(l)}

\* The same by the parts it is made of.
LEMMA KnownParts ==
    ASSUME NEW n
    PROVE  KnownAfter(n) = [key \in UNION {KeysOf(l) : l \in 1 .. n} |-> updates[Max(Sayings(n, key))].regs[key]]
  BY DEF KnownAfter, KeysOf, Sayings

\* The last of the pairs that say something of a register.
LEMMA LastSaid ==
    ASSUME NEW n \in Nat, NEW key
    PROVE  /\ key \in KeysOf(n + 1) => Max(Sayings(n + 1, key)) = n + 1
           /\ key \notin KeysOf(n + 1) => Sayings(n + 1, key) = Sayings(n, key)
  <1>1. 1 .. n + 1 = (1 .. n) \cup {n + 1} /\ n + 1 \in Nat
    OBVIOUS
  <1>2. ASSUME key \in KeysOf(n + 1) PROVE Max(Sayings(n + 1, key)) = n + 1
    <2> DEFINE S == Sayings(n + 1, key)
    <2>1. n + 1 \in S /\ S \subseteq 1 .. n + 1
      BY <1>1, <1>2 DEF Sayings
    <2>2. S \in SUBSET (0 .. n + 1) /\ S # {}
      BY <2>1
    <2> HIDE DEF S
    <2>3. Max(S) \in S /\ \A l \in S : l <= Max(S)
      BY <1>1, <2>2, Greatest
    <2>4. Max(S) \in 1 .. n + 1 /\ n + 1 <= Max(S)
      BY <2>1, <2>3
    <2> QED
      BY <1>1, <2>4 DEF S
  <1>3. ASSUME key \notin KeysOf(n + 1) PROVE Sayings(n + 1, key) = Sayings(n, key)
    BY <1>1, <1>3 DEF Sayings
  <1> QED
    BY <1>2, <1>3

\* What is known after one more pair.
LEMMA KnownNext ==
    ASSUME NEW n \in Nat
    PROVE  Updated(KnownAfter(n), updates[n + 1].regs) = KnownAfter(n + 1)
  <1> DEFINE D(m) == UNION {KeysOf(l) : l \in 1 .. m}
             new == updates[n + 1].regs
             old == KnownAfter(n)
             val(m, key) == updates[Max(Sayings(m, key))].regs[key]
  <1>1. DOMAIN new = KeysOf(n + 1)
    BY DEF KeysOf
  <1>2. D(n + 1) = D(n) \cup KeysOf(n + 1)
    <2>1. 1 .. n + 1 = (1 .. n) \cup {n + 1}
      OBVIOUS
    <2> QED
      BY <2>1
  <1>3. old = [key \in D(n) |-> val(n, key)] /\ KnownAfter(n + 1) = [key \in D(n + 1) |-> val(n + 1, key)]
    BY KnownParts
  <1>4. ASSUME NEW key \in D(n + 1)
        PROVE  (IF key \in DOMAIN new THEN new[key] ELSE old[key]) = val(n + 1, key)
    <2>1. CASE key \in KeysOf(n + 1)
      <3>1. Max(Sayings(n + 1, key)) = n + 1
        BY <2>1, LastSaid
      <3> QED
        BY <1>1, <2>1, <3>1
    <2>2. CASE key \notin KeysOf(n + 1)
      <3>1. Sayings(n + 1, key) = Sayings(n, key)
        BY <2>2, LastSaid
      <3>2. key \in D(n)
        BY <1>2, <2>2
      <3>3. old[key] = val(n, key)
        BY <1>3, <3>2
      <3> QED
        BY <1>1, <2>2, <3>1, <3>3
    <2> QED
      BY <2>1, <2>2
  <1> HIDE DEF D, val, old, new
  <1>5. DOMAIN old \cup DOMAIN new = D(n + 1)
    <2>1. DOMAIN old = D(n)
      BY <1>3
    <2> QED
      BY <1>1, <1>2, <2>1
  <1>6. Updated(old, new) = [key \in D(n + 1) |-> IF key \in DOMAIN new THEN new[key] ELSE old[key]]
    BY <1>5 DEF Updated
  <1>7. Updated(old, new) = [key \in D(n + 1) |-> val(n + 1, key)]
    BY <1>4, <1>6
  <1> QED
    BY <1>3, <1>7 DEF old, new

\* Before the first pair nothing is known.
LEMMA KnownNothing == KnownAfter(0) = NoUpdates
  <1>1. UNION {KeysOf(l) : l \in 1 .. 0} = {}
    OBVIOUS
  <1> QED
    BY <1>1, KnownParts DEF NoUpdates

\* The row of the w-th pair was the last one written: since then the values were the
\* same, or not for long enough.
Written(w, upto) ==
    /\ lastTs = {updates[w].ts} /\ lastRow = DataRow(KnownAfter(w))
    /\ \A n \in w + 1 .. upto : \/ DataRow(KnownAfter(n)) = lastRow
                                \/ gap > 0 /\ updates[n].ts - updates[w].ts < gap

TaleInv ==
    phase = "rows" =>
        /\ known = KnownAfter(done)
        /\ rows = <<>> => done = 0 /\ lastTs = {}
        /\ rows # <<>> => \E w \in 1 .. done : Written(w, done)

\* What is known depends on the pairs only.
LEMMA SameKnown ==
    ASSUME updates' = updates, NEW n
    PROVE  KnownAfter(n)' = KnownAfter(n)
  BY DEF KnownAfter

\* A row depends on the pairs and the filter only.
LEMMA SameRow ==
    ASSUME updates' = updates, filter' = filter, NEW n
    PROVE  DataRow(KnownAfter(n))' = DataRow(KnownAfter(n))
  <1>1. KnownAfter(n)' = KnownAfter(n)
    BY DEF KnownAfter
  <1>2. Columns' = Columns
    BY DEF Columns, AllKeys
  <1> QED
    BY <1>1, <1>2 DEF DataRow

\* A row that was the last one stays so while none is written.
LEMMA WrittenStays ==
    ASSUME updates' = updates, filter' = filter, gap' = gap, NEW w, NEW d \in Nat,
           lastTs' = {updates[w].ts}, lastRow' = DataRow(KnownAfter(w)),
           \A n \in w + 1 .. d : \/ DataRow(KnownAfter(n)) = lastRow'
                                 \/ gap > 0 /\ updates[n].ts - updates[w].ts < gap
    PROVE  Written(w, d)'
  <1>1. lastRow' = DataRow(KnownAfter(w))'
    BY SameRow
  <1>2. ASSUME NEW n \in w + 1 .. d
        PROVE  DataRow(KnownAfter(n))' = lastRow' \/ (gap' > 0 /\ updates'[n].ts - updates'[w].ts < gap')
    <2>1. DataRow(KnownAfter(n))' = DataRow(KnownAfter(n))
      BY SameRow
    <2> QED
      BY <1>2, <2>1
  <1> QED
    BY <1>1, <1>2 DEF Written

\* A row written or left out.
LEMMA TaleInvWriter ==
    ASSUME UpdatesOK, Remembered, TaleInv, WriteRow \/ LeaveOut
    PROVE  TaleInv'
  <1>a. PICK d : d = done + 1
    OBVIOUS
  <1>1. TakePair
    BY DEF WriteRow, LeaveOut
  <1>2. /\ phase = "rows" /\ done \in Nat /\ d \in Nat /\ d \in 1 .. d /\ done < Len(updates)
        /\ done' = d /\ known' = NewKnown
        /\ phase' = phase /\ updates' = updates /\ filter' = filter /\ gap' = gap
    BY <1>a, <1>1 DEF TakePair, UpdatesOK, wireVars
  <1>3. known = KnownAfter(done)
    BY <1>2 DEF TaleInv
  <1>5. Next1 = updates[d]
    BY <1>a DEF Next1
  <1>6. NewKnown = KnownAfter(d)
    <2>1. Updated(KnownAfter(done), updates[done + 1].regs) = KnownAfter(done + 1)
      BY <1>2, KnownNext
    <2> QED
      BY <1>a, <1>3, <2>1 DEF NewKnown, Next1
  <1>7. known' = KnownAfter(done)'
    <2>1. KnownAfter(d)' = KnownAfter(d)
      BY <1>2, SameKnown
    <2> QED
      BY <1>2, <1>6, <2>1
  <1>8. CASE WriteRow
    <2>1. lastTs' = {updates[d].ts} /\ lastRow' = DataRow(KnownAfter(d))
      BY <1>6, <1>5, <1>8 DEF WriteRow
    <2>2. d + 1 .. d = {}
      BY <1>2
    <2>3. Written(d, d)'
      BY <1>2, <2>1, <2>2, WrittenStays
    <2>4. rows' # <<>>
      BY <1>8, RowAppended DEF WriteRow, Remembered
    <2>5. \E w \in 1 .. done' : Written(w, done)'
      BY <1>2, <2>3
    <2> QED
      BY <1>7, <2>4, <2>5 DEF TaleInv
  <1>9. CASE LeaveOut
    <2>1. lastRow' = lastRow /\ lastTs' = lastTs /\ rows' = rows /\ (Repeats \/ TooSoon)
      BY <1>9 DEF LeaveOut
    <2>2. rows # <<>>
      BY <1>2, <2>1 DEF Repeats, TooSoon, TaleInv
    <2>3. PICK w \in 1 .. done : Written(w, done)
      BY <1>2, <2>2 DEF TaleInv
    <2>4. /\ lastTs = {updates[w].ts} /\ lastRow = DataRow(KnownAfter(w))
          /\ \A n \in w + 1 .. done : \/ DataRow(KnownAfter(n)) = lastRow
                                      \/ gap > 0 /\ updates[n].ts - updates[w].ts < gap
      BY <2>3 DEF Written
    <2>5. DataRow(KnownAfter(d)) = lastRow \/ (gap > 0 /\ updates[d].ts - updates[w].ts < gap)
      BY <1>6, <1>5, <2>1, <2>4 DEF Repeats, TooSoon
    <2>6. ASSUME NEW n \in w + 1 .. d
          PROVE  DataRow(KnownAfter(n)) = lastRow' \/ (gap > 0 /\ updates[n].ts - updates[w].ts < gap)
      <3>1. CASE n = d
        BY <2>1, <2>5, <3>1
      <3>2. CASE n # d
        <4>1. n \in w + 1 .. done
          BY <1>a, <1>2, <2>6, <3>2
        <4> QED
          BY <2>1, <2>4, <4>1
      <3> QED
        BY <3>1, <3>2
    <2>7. Written(w, d)'
      <3>1. lastTs' = {updates[w].ts} /\ lastRow' = DataRow(KnownAfter(w))
        BY <2>1, <2>4
      <3> QED
        BY <1>2, <3>1, <2>6, WrittenStays
    <2>8. w \in 1 .. d
      BY <1>a, <1>2
    <2>9. \E x \in 1 .. done' : Written(x, done)'
      BY <1>2, <2>7, <2>8
    <2> QED
      BY <1>7, <2>1, <2>2, <2>9 DEF TaleInv
  <1> QED
    BY <1>8, <1>9

\* Every step keeps what the last row written says of the pairs since.
LEMMA TaleInvStep ==
    ASSUME TypeInv, TaleInv, [Next]_vars
    PROVE  TaleInv'
  <1>1. UpdatesOK /\ Remembered /\ StreamOK
    BY DEF TypeInv
  <1>2. CASE Parse
    <2>1. phase' # "rows"
      BY <1>2 DEF Parse, ParserNext, Exchange, Load, Found, Resync, Parsing
    <2> QED
      BY <2>1 DEF TaleInv
  <1>3. CASE Pair
    <2>1. phase # "rows" /\ rows' = rows /\ known' = known /\ done' = done /\ lastTs' = lastTs
      BY <1>3 DEF Pair, ParseEnds
    <2>2. rows = <<>> /\ known = NoUpdates /\ lastTs = {} /\ updates = <<>> /\ done \in 0 .. Len(updates)
      BY <1>1, <2>1 DEF UpdatesOK, Remembered
    <2>3. Len(updates) = 0
      BY <2>2
    <2>4. done = 0
      BY <2>2, <2>3
    <2>5. known' = KnownAfter(done)'
      <3>1. UNION {DOMAIN updates'[l].regs : l \in 1 .. 0} = {}
        OBVIOUS
      <3>2. KnownAfter(0)' = NoUpdates
        BY <3>1 DEF KnownAfter, NoUpdates
      <3> QED
        BY <2>1, <2>2, <2>4, <3>2
    <2> QED
      BY <2>1, <2>2, <2>4, <2>5 DEF TaleInv
  <1>4. CASE WriteRow \/ LeaveOut
    BY <1>1, <1>4, TaleInvWriter
  <1>5. CASE UNCHANGED vars
    <2>1. UNCHANGED <<updates, filter, gap, lastTs, lastRow, rows, done, known, phase>>
      BY <1>5 DEF vars, wireVars, csvVars
    <2> SUFFICES ASSUME phase = "rows" PROVE TaleInv'
      BY <2>1 DEF TaleInv
    <2>2. known' = KnownAfter(done)'
      BY <2>1 DEF TaleInv, KnownAfter
    <2>3. ASSUME rows # <<>> PROVE \E w \in 1 .. done' : Written(w, done)'
      <3>1. PICK w \in 1 .. done : Written(w, done)
        BY <2>3 DEF TaleInv
      <3>2. done \in Nat
        BY <1>1 DEF UpdatesOK
      <3>3. Written(w, done)'
        BY <2>1, <3>1, <3>2, WrittenStays DEF Written
      <3> QED
        BY <2>1, <3>1, <3>3
    <2> QED
      BY <2>1, <2>2, <2>3 DEF TaleInv
  <1> QED
    BY <1>2, <1>3, <1>4, <1>5 DEF Next, Finished

\* What has lasted as long as the gap has been written.
LEMMA TaleIsLasting ==
    ASSUME TypeInv, TaleInv, ClockForward
    PROVE  LastingIsWritten
  <1> SUFFICES ASSUME phase = "rows", NEW n \in 1 .. done,
                      \A l \in n .. done : DataRow(KnownAfter(l)) = DataRow(known),
                      updates[done].ts - updates[n].ts >= gap
               PROVE  rows # <<>> /\ Last(rows).data = DataRow(known)
    BY DEF LastingIsWritten
  <1>1. UpdatesOK /\ Remembered
    BY DEF TypeInv
  <1>2. done \in Nat /\ done # 0 /\ gap \in Nat /\ Len(updates) \in Nat /\ done <= Len(updates) /\ n \in Nat
        /\ \A l \in 1 .. Len(updates) : updates[l].ts \in Nat
    BY <1>1 DEF UpdatesOK
  <1>3. known = KnownAfter(done) /\ rows # <<>>
    BY <1>2 DEF TaleInv
  <1>4. PICK w \in 1 .. done : Written(w, done)
    BY <1>3 DEF TaleInv
  <1>5. Last(rows).data = lastRow /\ lastRow = DataRow(KnownAfter(w))
    BY <1>1, <1>3, <1>4 DEF Remembered, Written, Last
  <1>6. CASE n <= w
    <2>1. w \in n .. done
      BY <1>2, <1>6
    <2> QED
      BY <1>3, <1>5, <2>1
  <1>7. CASE ~(n <= w)
    <2>1. done \in w + 1 .. done /\ w \in 1 .. Len(updates) /\ n \in 1 .. Len(updates) /\ done \in 1 .. Len(updates) /\ w <= n
      BY <1>2, <1>7
    <2>2. DataRow(KnownAfter(done)) = lastRow \/ (gap > 0 /\ updates[done].ts - updates[w].ts < gap)
      BY <1>4, <2>1 DEF Written
    <2>3. updates[w].ts <= updates[n].ts
      <3>1. w \in DOMAIN updates /\ n \in DOMAIN updates
        BY <1>1, <2>1 DEF UpdatesOK
      <3> QED
        BY <2>1, <3>1 DEF ClockForward
    <2>4. ~(updates[done].ts - updates[w].ts < gap)
      <3>1. updates[w].ts \in Nat /\ updates[n].ts \in Nat /\ updates[done].ts \in Nat
        BY <1>2, <2>1
      <3> QED
        BY <1>2, <2>3, <3>1
    <2> QED
      BY <1>3, <1>5, <2>2, <2>4
  <1> QED
    BY <1>6, <1>7

\* Whatever the log holds, unless its clock was set back, leaving rows out loses no
\* values that last as long as the gap (extract_fields.py:490-502).
THEOREM LastingRows == Spec => [](ClockForward => LastingIsWritten)
  <1>1. Init => TypeInv /\ TaleInv
    BY TypeInvInit DEF TaleInv, Init, ParserInit
  <1>2. TypeInv /\ TaleInv /\ [Next]_vars => TypeInv' /\ TaleInv'
    BY TypeInvStep, TaleInvStep
  <1>3. TypeInv /\ TaleInv => (ClockForward => LastingIsWritten)
    BY TaleIsLasting
  <1> QED
    BY <1>1, <1>2, <1>3, PTL DEF Spec

-----------------------------------------------------------------------------
(* Pairs are exchanges. *)

\* What a frame found says of itself.
LEMMA FrameSays ==
    ASSUME BusOK, StreamOK, WalkOK, NEW n \in 1 .. Len(frames), NEW j, NEW k, NEW c, IsSent(frames[n], j, k, c)
    PROVE  /\ ValuesAt(SentBytes(k), frames[n].off, Len(frames[n].raw), frames[n].raw)
           /\ frames[n].device = SentBytes(k)[1] /\ frames[n].fc = SentBytes(k)[2]
           /\ frames[n].off \in Nat /\ Len(frames[n].raw) \in Nat /\ frames[n].off + Len(frames[n].raw) <= i
  <1> DEFINE f == frames[n]
             raw == f.raw
             a == f.off
             v == SentBytes(k)
             l == Len(raw)
  <1>1. f \in FoundFrame /\ Cutting(f)
    BY ElementOfSeq DEF WalkOK
  <1> HIDE DEF f
  <1>2. a \in Nat /\ l \in Nat /\ (\A p \in 1 .. l : raw[p] = stream[a + p]) /\ f.device = raw[1].v /\ a + l <= i
    BY <1>1, LenProperties DEF FoundFrame, Cutting
  <1>3. SentAt(j, k, c, a, l, raw) /\ f.fc = v[2]
    BY DEF IsSent, f
  <1> HIDE DEF raw, a, v, l
  <1>4. ValuesAt(v, a, l, raw)
    BY <1>2, <1>3, SentValues DEF v
  <1>5. raw[1].v = v[1]
    <2>1. 5 <= l /\ \A p \in 1 .. l - 2 : stream[a + p].v = v[p] /\ raw[p].v = v[p]
      BY <1>4 DEF ValuesAt
    <2>2. 1 \in 1 .. l - 2
      BY <1>2, <2>1
    <2> QED
      BY <2>1, <2>2
  <1> QED
    BY <1>2, <1>3, <1>4, <1>5 DEF f, raw, a, v, l

\* Every frame begins with its device.
LEMMA DeviceSaid ==
    ASSUME BusOK, NEW k \in 1 .. Last2, SentHow(k) \in Intact
    PROVE  SentBytes(k)[1] = bus[Turn(k)].req.dev
  <1> DEFINE x == bus[Turn(k)]
  <1>1. x \in Said
    BY Turning DEF BusOK
  <1> HIDE DEF x
  <1>2. CASE Odd(k)
    <2>1. x.req \in Request
      BY <1>1, WireAssumption DEF Said
    <2>2. RequestValues(x.req)[1] = x.req.dev
      BY <2>1, RequestSaid
    <2> QED
      BY <1>2, <2>2 DEF SentBytes, x
  <1>3. CASE ~Odd(k)
    <2>1. x.answer # "none"
      BY <1>3 DEF SentHow, Intact, x
    <2>2. ReplyValues(x)[1] = x.req.dev
      BY <1>1, <2>1, ReplySaid
    <2> QED
      BY <1>3, <2>2 DEF SentBytes, x
  <1> QED
    BY <1>2, <1>3

\* The count that a request found makes the parser remember.
LEMMA CountAwaited ==
    ASSUME BusOK, StreamOK, WalkOK, NEW n \in 1 .. Len(frames), NEW j, NEW k, NEW c, IsSent(frames[n], j, k, c),
           Odd(k), frames[n].fc # 6
    PROVE  Awaited(frames[n]) = {bus[Turn(k)].req.count}
  <1> DEFINE f == frames[n]
             v == SentBytes(k)
             l == Len(f.raw)
             q == bus[Turn(k)].req
  <1>1. k \in 1 .. Last2 /\ f.fc = v[2] /\ f.role = "request"
    BY DEF IsSent, SentAt, Role
  <1>2. q \in Queries /\ Len(v) = 6 /\ v[2] = q.fn /\ 256 * v[5] + v[6] = q.count
    BY <1>1, AskedValues
  <1>3. ValuesAt(v, f.off, l, f.raw) /\ l \in Nat
    BY FrameSays
  <1> HIDE DEF f, v, l, q
  <1>4. f.fc \in {3, 4}
    <2>1. f.fc # 6
      BY DEF f
    <2> QED
      BY <1>1, <1>2, <2>1, CountIs
  <1>5. Len(v) = l - 2 /\ \A p \in 1 .. l - 2 : f.raw[p].v = v[p]
    BY <1>3 DEF ValuesAt
  <1>6. l - 2 = 6
    BY <1>2, <1>5, Zenon
  <1>7. f.raw[5].v = v[5] /\ f.raw[6].v = v[6]
    <2>1. 5 \in 1 .. l - 2 /\ 6 \in 1 .. l - 2
      BY <1>6
    <2> QED
      BY <1>5, <2>1
  <1>8. WordAt(f.raw, 4) = q.count
    <2>1. WordAt(f.raw, 4) = 256 * f.raw[5].v + f.raw[6].v
      BY CountOf
    <2> QED
      BY <1>2, <1>7, <2>1
  <1> QED
    BY <1>1, <1>4, <1>8 DEF Awaited, f, q

TellsNot(f, k) == Awaited(f) # {bus[Turn(k)].req.count}

\* What lies between two frames found one after the other.
LEMMA NothingBetween ==
    ASSUME BusOK, StreamOK, WalkOK, NEW c, Cuts(c, stream, times), SentSoFar(frames, i, c),
           NEW a \in 1 .. Len(frames), NEW b \in 1 .. Len(frames), b = a + 1,
           NEW j1, NEW k1, IsSent(frames[a], j1, k1, c), NEW j2, NEW k2, IsSent(frames[b], j2, k2, c),
           NEW j \in 0 .. Last2, NEW k \in 0 .. Last2, k = j + 1, k1 < k, k < k2, SentHow(k) \in Intact
    PROVE  NotTold(k) /\ ~Recoverable(k) /\ TellsNot(frames[a], k)
  <1> DEFINE off(n) == frames[n].off
             end(n) == frames[n].off + Len(frames[n].raw)
  <1>1. /\ j1 \in 0 .. Last2 /\ k1 \in 0 .. Last2 /\ k1 = j1 + 1 /\ c[j1] = off(a) /\ c[k1] = end(a)
        /\ j2 \in 0 .. Last2 /\ k2 \in 0 .. Last2 /\ k2 = j2 + 1 /\ c[j2] = off(b) /\ c[k2] = end(b)
        /\ SentHow(k1) \in Intact /\ SentHow(k2) \in Intact
    <2>0. Last2 \in Nat
      BY CutsOrdered DEF BusOK
    <2>1. SentAt(j1, k1, c, off(a), Len(frames[a].raw), frames[a].raw) /\ SentAt(j2, k2, c, off(b), Len(frames[b].raw), frames[b].raw)
      BY DEF IsSent
    <2>2. /\ j1 \in 0 .. Last2 /\ k1 \in 1 .. Last2 /\ k1 = j1 + 1 /\ c[j1] = off(a) /\ c[k1] = end(a) /\ SentHow(k1) \in Intact
      BY <2>1 DEF SentAt
    <2>3. /\ j2 \in 0 .. Last2 /\ k2 \in 1 .. Last2 /\ k2 = j2 + 1 /\ c[j2] = off(b) /\ c[k2] = end(b) /\ SentHow(k2) \in Intact
      BY <2>1 DEF SentAt
    <2> HIDE DEF off, end
    <2> QED
      BY <2>0, <2>2, <2>3
  <1>b. c[j1] = off(a) /\ c[k1] = end(a) /\ c[j2] = off(b) /\ c[k2] = end(b)
    BY <1>1
  <1>2. Last2 \in Nat /\ i \in Nat /\ c \in [0 .. Last2 -> Nat] /\ \A x, y \in 0 .. Last2 : x <= y => c[x] <= c[y]
    BY CutsOrdered DEF BusOK, WalkOK
  <1>3. c[k1] <= c[j] /\ c[k] <= c[j2]
    <2>1. k1 \in 0 .. Last2 /\ j2 \in 0 .. Last2 /\ k2 = j2 + 1
      BY <1>1
    <2>2. k1 <= j /\ k <= j2
      BY <1>2, <2>1
    <2> QED
      BY <1>2, <2>1, <2>2
  <1>4. c[j] + 5 <= c[k] /\ c[j1] + 5 <= c[k1] /\ c[j2] + 5 <= c[k2]
    <2>1. c[j] + 5 <= c[k]
      BY PieceLong
    <2>2. c[j1] + 5 <= c[k1]
      BY <1>1, PieceLong
    <2>3. c[j2] + 5 <= c[k2]
      BY <1>1, PieceLong
    <2> QED
      BY <2>1, <2>2, <2>3
  <1>5. c[j] \in Nat /\ c[k] \in Nat /\ c[j1] \in Nat /\ c[k1] \in Nat /\ c[j2] \in Nat /\ c[k2] \in Nat
    BY <1>1, <1>2
  <1>6. Len(frames) \in Nat /\ \A n \in 1 .. Len(frames) : off(n) \in Nat /\ end(n) \in Nat /\ off(n) <= end(n) /\ end(n) <= i
    <2>1. ASSUME NEW n \in 1 .. Len(frames) PROVE off(n) \in Nat /\ end(n) \in Nat /\ off(n) <= end(n) /\ end(n) <= i
      <3>1. frames[n] \in FoundFrame /\ Cutting(frames[n])
        BY ElementOfSeq DEF WalkOK
      <3>2. frames[n].off \in Nat /\ Len(frames[n].raw) \in Nat /\ frames[n].off + Len(frames[n].raw) <= i
        BY <3>1, LenProperties DEF FoundFrame, Cutting
      <3> QED
        BY <3>2, SMTT(30)
    <2> QED
      BY <2>1, LenProperties DEF WalkOK
  <1>7. \A m, n \in 1 .. Len(frames) : m < n => end(m) <= off(n)
    BY DEF WalkOK
  <1> HIDE DEF off, end
  <1>8. c[j] < i
    <2>1. end(b) <= i
      BY <1>6
    <2>2. c[j] + 5 <= c[k] /\ c[k] <= c[j2] /\ c[j2] + 5 <= end(b) /\ end(b) \in Nat
      BY <1>3, <1>4, <1>5, <1>b
    <2>3. c[j] < end(b)
      BY <1>5, <2>2
    <2> QED
      BY <1>2, <1>5, <2>1, <2>2, <2>3
  <1>9. ASSUME NEW n \in 1 .. Len(frames), IsSent(frames[n], j, k, c) PROVE FALSE
    <2>1. off(n) = c[j] /\ end(n) = c[k]
      BY <1>9 DEF IsSent, SentAt, off, end
    <2>2. CASE n < a
      <3>1. end(n) <= off(a)
        BY <1>7, <2>2
      <3> QED
        BY <1>b, <1>3, <1>4, <1>5, <2>1, <3>1, SMTT(30)
    <2>3. CASE n = a
      BY <1>b, <1>3, <1>4, <1>5, <2>1, <2>3
    <2>4. CASE n = b
      BY <1>b, <1>3, <1>4, <1>5, <2>1, <2>4
    <2>5. CASE b < n
      <3>1. end(b) <= off(n)
        BY <1>7, <2>5
      <3> QED
        BY <1>b, <1>3, <1>4, <1>5, <2>1, <3>1, SMTT(30)
    <2> QED
      BY <1>6, <2>2, <2>3, <2>4, <2>5
  <1>10. ~Recoverable(k)
    BY <1>8, <1>9 DEF SentSoFar, FoundUpTo
  <1>11. NotTold(k)
    BY <1>10 DEF Recoverable, NotTold
  <1>12. PICK n : PassedAt(frames, n, c[j], k)
    BY <1>8, <1>9, <1>11 DEF SentSoFar, PassedOver
  <1>13. /\ n \in 0 .. Len(frames)
         /\ n # 0 => end(n) <= c[j] /\ Awaited(frames[n]) # {bus[Turn(k)].req.count}
         /\ n # Len(frames) => c[j] < off(n + 1)
    BY <1>12 DEF PassedAt, off, end
  <1>14. ~(n < a)
    <2> SUFFICES ASSUME n < a PROVE FALSE
      OBVIOUS
    <2>1. n + 1 \in 1 .. Len(frames) /\ n # Len(frames) /\ (n + 1 = a \/ n + 1 < a)
      BY <1>6, <1>13
    <2>2. off(n + 1) <= end(a)
      <3>1. CASE n + 1 = a
        BY <1>6, <3>1
      <3>2. CASE n + 1 < a
        <4>1. end(n + 1) <= off(a)
          BY <1>7, <2>1, <3>2
        <4>2. off(n + 1) \in Nat /\ end(n + 1) \in Nat /\ off(a) \in Nat /\ end(a) \in Nat
              /\ off(n + 1) <= end(n + 1) /\ off(a) <= end(a)
          BY <1>6, <2>1
        <4> QED
          BY <4>1, <4>2
      <3> QED
        BY <2>1, <3>1, <3>2
    <2>3. off(n + 1) \in Nat /\ c[j] < off(n + 1)
      BY <1>6, <1>13, <2>1
    <2> QED
      BY <1>b, <1>3, <1>5, <2>2, <2>3
  <1>15. ~(b <= n)
    <2> SUFFICES ASSUME b <= n PROVE FALSE
      OBVIOUS
    <2>1. n \in 1 .. Len(frames) /\ n # 0 /\ (n = b \/ b < n)
      BY <1>6, <1>13
    <2>2. end(b) <= end(n)
      <3>1. CASE n = b
        BY <1>6, <3>1
      <3>2. CASE b < n
        <4>1. end(b) <= off(n)
          BY <1>7, <2>1, <3>2
        <4>2. off(n) \in Nat /\ end(n) \in Nat /\ end(b) \in Nat /\ off(n) <= end(n)
          BY <1>6, <2>1
        <4> QED
          BY <4>1, <4>2
      <3> QED
        BY <2>1, <3>1, <3>2
    <2>3. end(n) \in Nat /\ end(n) <= c[j]
      BY <1>6, <1>13, <2>1
    <2> QED
      BY <1>b, <1>3, <1>4, <1>5, <2>2, <2>3, SMTT(30)
  <1>16. n = a /\ n # 0
    BY <1>13, <1>14, <1>15
  <1> QED
    BY <1>10, <1>11, <1>13, <1>16 DEF TellsNot

\* Where the two frames of an exchange are among all those of the bus.
LEMMA Places ==
    ASSUME bus \in Seq(Said), NEW n \in 1 .. Len(bus)
    PROVE  /\ 2 * n - 2 \in 0 .. Last2 /\ 2 * n - 1 \in 0 .. Last2 /\ 2 * n \in 0 .. Last2
           /\ 2 * n - 1 = (2 * n - 2) + 1 /\ 2 * n = (2 * n - 1) + 1
           /\ Odd(2 * n - 1) /\ Turn(2 * n - 1) = n /\ ~Odd(2 * n) /\ Turn(2 * n) = n
  <1> DEFINE m == n - 1
  <1>1. Len(bus) \in Nat /\ Last2 = 2 * Len(bus)
    BY LenProperties DEF Last2
  <1>2. m \in Nat /\ n \in Nat /\ 2 * m + 1 = 2 * n - 1 /\ m + 1 = n
    BY <1>1
  <1>3. /\ 2 * n - 2 \in 0 .. Last2 /\ 2 * n - 1 \in 0 .. Last2 /\ 2 * n \in 0 .. Last2
        /\ 2 * n - 1 = (2 * n - 2) + 1 /\ 2 * n = (2 * n - 1) + 1
    BY <1>1
  <1> HIDE DEF m
  <1>4. Odd(2 * m + 1) /\ Turn(2 * m + 1) = m + 1
    BY <1>2, TurnOdd
  <1>5. ~Odd(2 * n) /\ Turn(2 * n) = n
    BY <1>2, TurnEven
  <1> QED
    BY <1>2, <1>3, <1>4, <1>5

\* A request and a reply found one after the other.
Telling(f, g, l, m) ==
    /\ l \in 1 .. Len(bus) /\ m \in 1 .. Len(bus)
    /\ f.ts = bus[l].t /\ g.ts = ReplyTime(m) /\ Adjacent(l, m)
    /\ f.device = bus[l].req.dev /\ f.fc = bus[l].req.fn /\ g.device = bus[m].req.dev
    /\ ValuesAt(RequestValues(bus[l].req), f.off, Len(f.raw), f.raw)
    /\ g.fc = ReplyValues(bus[m])[2] /\ ValuesAt(ReplyValues(bus[m]), g.off, Len(g.raw), g.raw)

\* A request found and the reply found after it belong together.
LEMMA FoundTelling ==
    ASSUME TypeInv, SentInv, phase # "bus", NEW a \in 1 .. Len(frames), NEW b \in 1 .. Len(frames), b = a + 1,
           frames[a].role = "request", frames[a].fc # 6, frames[b].role = "response", frames[b].fc # 6
    PROVE  \E l, m : Telling(frames[a], frames[b], l, m)
  <1>1. BusOK /\ StreamOK /\ WalkOK /\ bus \in Seq(Said) /\ Len(bus) \in Nat
    BY LenProperties DEF TypeInv, BusOK
  <1>2. PICK c : Cuts(c, stream, times) /\ SentSoFar(frames, i, c)
    BY DEF SentInv
  <1>3. PICK j1, k1 : IsSent(frames[a], j1, k1, c)
    BY <1>2 DEF SentSoFar, AllSent
  <1>4. PICK j2, k2 : IsSent(frames[b], j2, k2, c)
    BY <1>2 DEF SentSoFar, AllSent
  <1>5. /\ SentAt(j1, k1, c, frames[a].off, Len(frames[a].raw), frames[a].raw)
        /\ frames[a].ts = SentTime(k1) /\ frames[a].fc = SentBytes(k1)[2] /\ Role(k1) = "request"
    BY <1>3 DEF IsSent
  <1>6. /\ SentAt(j2, k2, c, frames[b].off, Len(frames[b].raw), frames[b].raw)
        /\ frames[b].ts = SentTime(k2) /\ frames[b].fc = SentBytes(k2)[2] /\ Role(k2) = "response"
    BY <1>4 DEF IsSent
  <1>7. k1 \in 1 .. Last2 /\ k2 \in 1 .. Last2 /\ Odd(k1) /\ ~Odd(k2) /\ SentHow(k1) \in Intact /\ SentHow(k2) \in Intact
    BY <1>5, <1>6 DEF SentAt, Role
  <1> DEFINE l == Turn(k1)
             m == Turn(k2)
  <1>8. /\ l \in 1 .. Len(bus) /\ bus[l] \in Said /\ k1 = 2 * l - 1
        /\ m \in 1 .. Len(bus) /\ bus[m] \in Said /\ k2 = 2 * m
    BY <1>1, <1>7, Turning
  <1>9. Asked(l) /\ Replied(m)
    BY <1>7 DEF SentHow, Asked, Replied, Intact
  <1>10. k1 < k2
    <2>1. /\ j2 \in 0 .. Last2 /\ c[k1] = frames[a].off + Len(frames[a].raw) /\ c[j2] = frames[b].off /\ k2 = j2 + 1
      BY <1>5, <1>6 DEF SentAt
    <2>2. frames[a].off + Len(frames[a].raw) <= frames[b].off
      BY <1>1 DEF WalkOK
    <2>3. c[j2] + 5 <= c[k2] /\ c[j2] \in Nat /\ c[k2] \in Nat
      <3>1. k2 \in 0 .. Last2
        BY <1>7
      <3> QED
        BY <1>1, <1>2, <1>7, <2>1, <3>1, PieceLong
    <2>4. Last2 \in Nat /\ c \in [0 .. Last2 -> Nat] /\ \A x, y \in 0 .. Last2 : x <= y => c[x] <= c[y]
      BY <1>1, <1>2, CutsOrdered
    <2>5. c[k1] <= c[j2]
      BY <2>1, <2>2
    <2>6. c[k1] \in Nat /\ k1 \in 0 .. Last2 /\ k2 \in 0 .. Last2
      BY <1>7, <2>4
    <2>7. ~(k2 <= k1)
      <3>1. k2 <= k1 => c[k2] <= c[k1]
        BY <2>4, <2>6
      <3> QED
        BY <2>3, <2>5, <2>6, <3>1
    <2> QED
      BY <2>4, <2>6, <2>7
  <1> HIDE DEF l, m
  <1>11. \A h \in 1 .. Len(bus) : l < h /\ h <= m => ~Asked(h)
    <2> SUFFICES ASSUME NEW h \in 1 .. Len(bus), l < h, h <= m, Asked(h) PROVE FALSE
      OBVIOUS
    <2> DEFINE j == 2 * h - 2
               k == 2 * h - 1
    <2>1. j \in 0 .. Last2 /\ k \in 0 .. Last2 /\ k = j + 1 /\ Odd(k) /\ Turn(k) = h
      BY <1>1, Places
    <2>2. k1 < k /\ k < k2
      BY <1>8
    <2> HIDE DEF j, k
    <2>3. SentHow(k) \in Intact /\ Recoverable(k)
      BY <2>1 DEF SentHow, Asked, Recoverable
    <2> QED
      BY <1>1, <1>2, <1>3, <1>4, <2>1, <2>2, <2>3, NothingBetween
  <1>12. \A h \in 1 .. Len(bus) : l <= h /\ h < m /\ Replied(h) => h # l /\ Unseen(l, h)
    <2> SUFFICES ASSUME NEW h \in 1 .. Len(bus), l <= h, h < m, Replied(h) PROVE h # l /\ Unseen(l, h)
      OBVIOUS
    <2> DEFINE j == 2 * h - 1
               k == 2 * h
    <2>1. j \in 0 .. Last2 /\ k \in 0 .. Last2 /\ k = j + 1 /\ ~Odd(k) /\ Turn(k) = h
      BY <1>1, Places
    <2>2. k1 < k /\ k < k2
      BY <1>8
    <2> HIDE DEF j, k
    <2>3. SentHow(k) \in Intact
      BY <2>1 DEF SentHow, Replied
    <2>a. BusOK /\ StreamOK /\ WalkOK /\ k = j + 1 /\ j \in 0 .. Last2 /\ k \in 0 .. Last2
      BY <1>1, <2>1
    <2>4. NotTold(k) /\ ~Recoverable(k) /\ Awaited(frames[a]) # {bus[Turn(k)].req.count}
      <3>1. NotTold(k)
        BY <1>2, <1>3, <1>4, <2>a, <2>2, <2>3, NothingBetween
      <3>2. ~Recoverable(k)
        BY <1>2, <1>3, <1>4, <2>a, <2>2, <2>3, NothingBetween
      <3>3. TellsNot(frames[a], k)
        BY <1>2, <1>3, <1>4, <2>a, <2>2, <2>3, NothingBetween
      <3> QED
        BY <3>1, <3>2, <3>3 DEF TellsNot
    <2>5. bus[h].req.fn = 4 /\ bus[h].answer = "data" /\ ~Asked(h)
      BY <2>1, <2>4 DEF NotTold, Recoverable
    <2>6. Awaited(frames[a]) = {bus[l].req.count}
      BY <1>1, <1>3, <1>7, CountAwaited DEF l
    <2>7. bus[l].req.count # bus[h].req.count
      BY <2>1, <2>4, <2>6
    <2> QED
      BY <1>9, <2>5, <2>7 DEF Unseen
  <1>13. Adjacent(l, m)
    <2>1. l <= m
      BY <1>8, <1>10
    <2>2. l < m => ~Replied(l) /\ ~Asked(m)
      BY <1>8, <1>11, <1>12, SMTT(30)
    <2>3. ASSUME NEW h \in l + 1 .. m - 1 PROVE ~Asked(h) /\ (Replied(h) => Unseen(l, h))
      <3>0. Len(bus) \in Nat /\ l \in 1 .. Len(bus) /\ m \in 1 .. Len(bus)
        BY <1>1, <1>8
      <3>1. h \in 1 .. Len(bus) /\ l < h /\ h < m /\ l <= h /\ h <= m
        BY <3>0
      <3> QED
        BY <1>11, <1>12, <3>1
    <2> QED
      BY <1>9, <2>1, <2>2, <2>3 DEF Adjacent
  <1>14. frames[a].ts = bus[l].t /\ frames[b].ts = ReplyTime(m)
    BY <1>5, <1>6, <1>7 DEF SentTime, l, m
  <1>15. /\ SentBytes(k1) = RequestValues(bus[l].req) /\ SentBytes(k2) = ReplyValues(bus[m])
    BY <1>7 DEF SentBytes, l, m
  <1>16. /\ ValuesAt(SentBytes(k1), frames[a].off, Len(frames[a].raw), frames[a].raw)
         /\ ValuesAt(SentBytes(k2), frames[b].off, Len(frames[b].raw), frames[b].raw)
         /\ frames[a].device = SentBytes(k1)[1] /\ frames[b].device = SentBytes(k2)[1]
    BY <1>1, <1>3, <1>4, FrameSays
  <1>17. SentBytes(k1)[1] = bus[l].req.dev /\ SentBytes(k2)[1] = bus[m].req.dev /\ SentBytes(k1)[2] = bus[l].req.fn
    BY <1>1, <1>7, DeviceSaid, AskedValues DEF l, m
  <1>18. Telling(frames[a], frames[b], l, m)
    BY <1>5, <1>6, <1>8, <1>13, <1>14, <1>15, <1>16, <1>17 DEF Telling
  <1> QED
    BY <1>18

\* The pair that a place of the list is.
FoundPair(p) ==
    \E a \in 1 .. Len(frames) - 1 : p = <<frames[a], frames[a + 1]>> /\ IsPair(frames[a], frames[a + 1])

\* The pairs of the log are of two frames found one after the other.
LEMMA LogPairIs ==
    ASSUME WalkOK
    PROVE  /\ Len(LogPairs(frames)) \in Nat /\ DOMAIN LogPairs(frames) = 1 .. Len(LogPairs(frames))
           /\ \A n \in DOMAIN LogPairs(frames) : FoundPair(LogPairs(frames)[n])
  <1> DEFINE ps == LogPairs(frames)
             S == {a \in 1 .. Len(frames) - 1 : IsPair(frames[a], frames[a + 1])}
  <1>1. S \in SUBSET (1 .. Len(frames) - 1) /\ frames \in Seq(FoundFrame)
    BY DEF WalkOK
  <1>2. \A a \in S : IsPair(frames[a], frames[a + 1])
    OBVIOUS
  <1>3. ps = Chosen(Neighbours(frames), S)
    BY DEF LogPairs
  <1> HIDE DEF S, ps
  <1>4. PairsOf(ps, frames, S)
    BY <1>1, <1>3, PairsChosen
  <1>5. Len(ps) \in Nat /\ DOMAIN ps = 1 .. Len(ps) /\ \A n \in 1 .. Len(ps) : \E a \in S : ps[n] = <<frames[a], frames[a + 1]>>
    BY <1>4 DEF PairsOf
  <1>6. ASSUME NEW n \in DOMAIN ps PROVE FoundPair(ps[n])
    <2>1. PICK a \in S : ps[n] = <<frames[a], frames[a + 1]>>
      BY <1>5
    <2> QED
      BY <1>1, <1>2, <2>1 DEF FoundPair
  <1> QED
    BY <1>5, <1>6 DEF ps

\* The latency of a pair is in the list.
LatencyOf(p) == p[2].ts - p[1].ts \in Range(Latencies(QueryOf(p[1])))

\* Every pair gives its latency to the list of its query.
LEMMA LatencyIs ==
    ASSUME WalkOK, NEW n \in DOMAIN LogPairs(frames)
    PROVE  LatencyOf(LogPairs(frames)[n])
  <1> DEFINE all == LogPairs(frames)
             q == QueryOf(all[n][1])
             S == {x \in 1 .. Len(all) : QueryOf(all[x][1]) = q}
             ps == Chosen(all, S)
             lats == [x \in 1 .. Len(ps) |-> ps[x][2].ts - ps[x][1].ts]
  <1>1. Len(all) \in Nat /\ DOMAIN all = 1 .. Len(all)
    BY LogPairIs
  <1>2. S \in SUBSET (1 .. Len(all)) /\ n \in S
    BY <1>1
  <1>3. Latencies(q) = lats
    BY DEF Latencies
  <1> HIDE DEF all, S, q
  <1>4. Rank(S, n) \in 1 .. Cardinality(S) /\ ps[Rank(S, n)] = all[n]
    BY <1>1, <1>2, ChosenAt
  <1>5. Len(ps) = Cardinality(S)
    <2>1. Cardinality(S) \in Nat /\ DOMAIN ps = 1 .. Cardinality(S)
      BY <1>1, <1>2, Choice
    <2>2. ps = [x \in 1 .. Cardinality(S) |-> ps[x]]
      BY <2>1 DEF Chosen
    <2> HIDE DEF ps
    <2> QED
      BY <2>1, <2>2
  <1> DEFINE r == Rank(S, n)
  <1> HIDE DEF ps, r
  <1>6. r \in DOMAIN lats /\ lats[r] = all[n][2].ts - all[n][1].ts
    BY <1>4, <1>5 DEF r
  <1>7. lats[r] \in Range(lats)
    BY <1>6 DEF Range
  <1> QED
    BY <1>3, <1>6, <1>7 DEF LatencyOf, all, q

\* At the end of the stream, this is what the property says.
LEMMA SentMeansExchanges ==
    ASSUME TypeInv, SentInv
    PROVE  PairsAreExchanges
  <1> DEFINE ps == LogPairs(frames)
  <1> SUFFICES ASSUME ParseEnds, NEW n \in DOMAIN ps, ps[n][1].fc # 6
               PROVE  \E l, m \in DOMAIN bus :
                        /\ ps[n][1].ts = bus[l].t /\ ps[n][2].ts = ReplyTime(m)
                        /\ Adjacent(l, m) /\ SameTarget(bus[l].req, bus[m].req)
                        /\ l = m => Turnaround \in Range(Latencies(QueryOf(ps[n][1])))
    BY DEF PairsAreExchanges
  <1>1. WalkOK /\ bus \in Seq(Said) /\ BusOK
    BY DEF TypeInv, BusOK
  <1>2. LatencyOf(ps[n])
    <2>1. n \in DOMAIN LogPairs(frames)
      OBVIOUS
    <2>2. LatencyOf(LogPairs(frames)[n])
      BY <1>1, <2>1, LatencyIs
    <2> QED
      BY <2>2
  <1>3. PICK a \in 1 .. Len(frames) - 1 : ps[n] = <<frames[a], frames[a + 1]>> /\ IsPair(frames[a], frames[a + 1])
    <2>1. FoundPair(ps[n])
      BY <1>1, LogPairIs
    <2> QED
      BY <2>1 DEF FoundPair
  <1> HIDE DEF ps
  <1> DEFINE f == frames[a]
             g == frames[a + 1]
  <1>4. ps[n][1] = f /\ ps[n][2] = g
    BY <1>3
  <1>5. f.role = "request" /\ g.role = "response" /\ f.device = g.device /\ f.fc = g.fc /\ f.fc # 6
    BY <1>3, <1>4 DEF IsPair
  <1>6. a \in 1 .. Len(frames) /\ a + 1 \in 1 .. Len(frames) /\ phase # "bus"
    BY <1>1, LenProperties DEF WalkOK, ParseEnds
  <1>7. PICK l, m : Telling(f, g, l, m)
    BY <1>5, <1>6, FoundTelling
  <1> HIDE DEF f, g
  <1>8. l \in DOMAIN bus /\ m \in DOMAIN bus /\ bus[l] \in Said /\ bus[m] \in Said /\ l \in 1 .. Len(bus) /\ m \in 1 .. Len(bus)
    BY <1>1, <1>7, LenProperties, ElementOfSeq DEF Telling
  <1>9. f.ts = bus[l].t /\ g.ts = ReplyTime(m) /\ Adjacent(l, m)
    BY <1>7 DEF Telling
  <1>10. SameTarget(bus[l].req, bus[m].req)
    <2>1. f.device = bus[l].req.dev /\ g.device = bus[m].req.dev /\ f.fc = bus[l].req.fn /\ g.fc = ReplyValues(bus[m])[2]
      BY <1>7 DEF Telling
    <2>2. bus[m].answer # "none"
      BY <1>9 DEF Adjacent, Replied
    <2>3. /\ bus[m].answer # "data" => ReplyValues(bus[m])[2] = 128 + bus[m].req.fn
          /\ bus[m].answer = "data" => ReplyValues(bus[m])[2] = bus[m].req.fn
      BY <1>8, <2>2, ReplySaid
    <2>4. bus[l].req \in Queries /\ bus[m].req \in Queries
      BY <1>8 DEF Said
    <2>5. bus[l].req.fn \in {3, 4, 6} /\ bus[m].req.fn \in {3, 4, 6}
      BY <2>4, CountIs
    <2>6. bus[l].req.fn = bus[m].req.fn
      <3> DEFINE p == bus[l].req.fn
                 q == bus[m].req.fn
      <3>1. p \in {3, 4, 6} /\ q \in {3, 4, 6} /\ (p = 128 + q \/ p = q)
        <4>1. p = ReplyValues(bus[m])[2]
          BY <1>5, <2>1
        <4> QED
          BY <4>1, <2>3, <2>5
      <3> HIDE DEF p, q
      <3>2. p = q
        BY <3>1
      <3> QED
        BY <3>2 DEF p, q
    <2> QED
      BY <1>5, <2>1, <2>6 DEF SameTarget
  <1>11. ASSUME l = m PROVE Turnaround \in Range(Latencies(QueryOf(ps[n][1])))
    <2>1. ReplyTime(m) - bus[l].t = Turnaround
      <3>1. bus[m].t \in Nat /\ Turnaround \in Nat
        BY <1>8, WireAssumption DEF Said
      <3> QED
        BY <1>11, <3>1 DEF ReplyTime
    <2> QED
      BY <1>2, <1>4, <1>9, <2>1 DEF LatencyOf
  <1> QED
    BY <1>4, <1>8, <1>9, <1>10, <1>11

\* However the log was spoilt, a pair is an exchange of the bus, but where the reply of
\* one and the request of another were lost (parse_log.py:165-175).
THEOREM PairsOfExchanges ==
    ASSUME Tellable
    PROVE  Spec => []PairsAreExchanges
  <1>1. Spec => [](TypeInv /\ SentInv)
    BY WireInvariant
  <1>2. TypeInv /\ SentInv => PairsAreExchanges
    BY SentMeansExchanges
  <1> QED
    BY <1>1, <1>2, PTL

-----------------------------------------------------------------------------
(* Fields read from the bytes of a reply. *)

\* The word that two bytes of a reply give.
LEMMA WordSaid ==
    ASSUME NEW q \in Request, NEW level \in {0, 1}, NEW k \in Nat, k < q.count
    PROVE  /\ 2 * k + 1 \in 1 .. 2 * q.count /\ 2 * k + 2 \in 1 .. 2 * q.count
           /\ 256 * Data(q, level)[2 * k + 1] + Data(q, level)[2 * k + 2] = Unsigned(Reading(q.fn, q.dev, q.start + k, level))
  <1> DEFINE word(b) == Unsigned(Reading(q.fn, q.dev, q.start + (b - 1) \div 2, level))
             byte(b) == IF b % 2 = 1 THEN word(b) \div 256 ELSE word(b) % 256
             w == Unsigned(Reading(q.fn, q.dev, q.start + k, level))
             n == 2 * q.count
  <1>1. q.count \in Nat /\ q.start \in Nat /\ q.fn \in Nat /\ q.dev \in Nat
    <2>1. q.count \in 1 .. 125 /\ q.start \in Word /\ q.fn \in {3, 4, 6} /\ q.dev \in 1 .. 247
      BY DEF Request
    <2> QED
      BY <2>1, Words
  <1>2. Data(q, level) = [b \in 1 .. n |-> byte(b)]
    BY DEF Data
  <1>3. 2 * k + 1 \in 1 .. n /\ 2 * k + 2 \in 1 .. n
    BY <1>1
  <1>4. (2 * k + 1 - 1) \div 2 = k /\ (2 * k + 2 - 1) \div 2 = k /\ (2 * k + 1) % 2 = 1 /\ (2 * k + 2) % 2 # 1
    OBVIOUS
  <1>5. word(2 * k + 1) = w /\ word(2 * k + 2) = w
    BY <1>4
  <1> HIDE DEF word, w
  <1>6. byte(2 * k + 1) = w \div 256 /\ byte(2 * k + 2) = w % 256
    BY <1>4, <1>5
  <1>7. w \in Word
    <2>1. Reading(q.fn, q.dev, q.start + k, level) \in Int
      <3>1. level \in Int
        OBVIOUS
      <3> QED
        BY <1>1, <3>1 DEF Reading
    <2> QED
      BY <2>1, UnsignedWord DEF w
  <1>8. 256 * (w \div 256) + (w % 256) = w
    BY <1>7, Recombined
  <1> HIDE DEF byte, n
  <1>9. Data(q, level)[2 * k + 1] = byte(2 * k + 1) /\ Data(q, level)[2 * k + 2] = byte(2 * k + 2)
    BY <1>2, <1>3
  <1> QED
    BY <1>3, <1>6, <1>8, <1>9 DEF w, n

\* The bytes of the registers in a reply.
Header(fn) == IF fn = 3 THEN 3 ELSE 4

DataIs(data, x) ==
    /\ Len(data) = 2 * x.req.count
    /\ \A b \in 1 .. 2 * x.req.count : data[b].v = Data(x.req, x.level)[b]

\* A reply found that holds data.
Holding(raw, x) ==
    /\ x \in Said /\ x.req \in Request /\ x.req.fn \in {3, 4} /\ x.answer = "data"
    /\ Len(raw) = Header(x.req.fn) + 2 * x.req.count + 2
    /\ \A b \in 1 .. 2 * x.req.count : raw[Header(x.req.fn) + b].v = Data(x.req, x.level)[b]
    /\ x.req.fn = 3 => raw[3].v = 2 * x.req.count
    /\ x.req.fn = 4 => WordAt(raw, 2) = x.req.start

\* A reply that belongs to a request holds its registers.
LEMMA TellingHolds ==
    ASSUME bus \in Seq(Said), NEW f, NEW g, NEW l, NEW m, Telling(f, g, l, m), g.fc < 128, g.fc # 6, Len(g.raw) \in Nat
    PROVE  Holding(g.raw, bus[m]) /\ bus[m].req.fn = g.fc
  <1> DEFINE x == bus[m]
             v == ReplyValues(x)
             raw == g.raw
             n == Len(raw)
             d == Data(x.req, x.level)
  <1>1. m \in 1 .. Len(bus) /\ g.fc = v[2] /\ ValuesAt(v, g.off, n, raw) /\ Adjacent(l, m)
    BY DEF Telling
  <1>2. x \in Said
    BY <1>1, ElementOfSeq
  <1>3. x.req \in Queries /\ x.req \in Request /\ x.answer \in {"data", "exception", "none"}
    BY <1>2, WireAssumption DEF Said
  <1>4. x.answer # "none"
    BY <1>1 DEF Adjacent, Replied
  <1>a. n \in Nat
    OBVIOUS
  <1> HIDE DEF x, v, d, raw, n
  <1>5. x.req.fn \in {3, 4, 6} /\ x.req.count \in Nat /\ x.req.count > 0
    BY <1>3, CountIs
  <1>6. /\ x.answer # "data" => v[2] = 128 + x.req.fn
        /\ x.answer = "data" => v[2] = x.req.fn
        /\ x.answer = "data" /\ x.req.fn = 3 =>
              Len(v) = 3 + 2 * x.req.count /\ v[3] = 2 * x.req.count /\ \A b \in 1 .. 2 * x.req.count : v[3 + b] = d[b]
        /\ x.answer = "data" /\ x.req.fn = 4 =>
              Len(v) = 4 + 2 * x.req.count /\ 256 * v[3] + v[4] = x.req.start /\ \A b \in 1 .. 2 * x.req.count : v[4 + b] = d[b]
    BY <1>2, <1>4, ReplySaid DEF v, d
  <1>7. x.answer = "data" /\ x.req.fn \in {3, 4} /\ x.req.fn = g.fc
    <2>1. x.answer = "data"
      <3> SUFFICES ASSUME x.answer # "data" PROVE FALSE
        OBVIOUS
      <3>1. g.fc = 128 + x.req.fn
        BY <1>1, <1>6
      <3> QED
        BY <1>5, <3>1
    <2>2. g.fc = x.req.fn
      BY <1>1, <1>6, <2>1
    <2> QED
      BY <1>5, <2>1, <2>2
  <1>8. Len(v) = n - 2 /\ \A p \in 1 .. n - 2 : raw[p].v = v[p]
    BY <1>1 DEF ValuesAt
  <1> DEFINE h == Header(x.req.fn)
             c == 2 * x.req.count
  <1>9. h \in {3, 4} /\ c \in Nat /\ c > 1 /\ (x.req.fn = 3 <=> h = 3)
    BY <1>5, <1>7 DEF Header
  <1>10. Len(v) = h + c /\ (\A b \in 1 .. c : v[h + b] = d[b]) /\ (h = 3 => v[3] = c) /\ (h = 4 => 256 * v[3] + v[4] = x.req.start)
    BY <1>6, <1>7 DEF Header
  <1> HIDE DEF h, c
  <1>11. n - 2 = h + c
    BY <1>8, <1>10, Zenon
  <1>12. n = h + c + 2
    BY <1>9, <1>11, <1>a
  <1>13. ASSUME NEW b \in 1 .. c PROVE raw[h + b].v = d[b]
    <2>1. h + b \in 1 .. n - 2
      BY <1>9, <1>11
    <2> QED
      BY <1>8, <1>10, <2>1
  <1>14. raw[3].v = v[3] /\ raw[4].v = v[4]
    <2>1. 3 \in 1 .. n - 2 /\ 4 \in 1 .. n - 2
      BY <1>9, <1>11
    <2> QED
      BY <1>8, <2>1
  <1>15. WordAt(raw, 2) = 256 * raw[3].v + raw[4].v
    <2>1. 2 + 1 = 3 /\ 2 + 2 = 4
      OBVIOUS
    <2> QED
      BY <2>1 DEF WordAt
  <1>b. (x.req.fn = 3 => v[3] = c) /\ (x.req.fn = 4 => 256 * v[3] + v[4] = x.req.start)
    BY <1>7, <1>9, <1>10
  <1>16. (x.req.fn = 3 => raw[3].v = c) /\ (x.req.fn = 4 => WordAt(raw, 2) = x.req.start)
    <2>1. x.req.fn = 3 => raw[3].v = c
      BY <1>b, <1>14
    <2>2. ASSUME x.req.fn = 4 PROVE WordAt(raw, 2) = x.req.start
      <3>1. 256 * v[3] + v[4] = x.req.start
        BY <1>b, <2>2
      <3>2. WordAt(raw, 2) = 256 * v[3] + v[4]
        BY <1>14, <1>15, Zenon
      <3> QED
        BY <3>1, <3>2, Zenon
    <2> QED
      BY <2>1, <2>2
  <1>17. Holding(raw, x)
    BY <1>2, <1>3, <1>7, <1>12, <1>13, <1>16 DEF Holding, h, c, d, n
  <1> QED
    BY <1>7, <1>17 DEF raw, x

\* A word read as a signed number has the bits of the word.
LEMMA SignedHas ==
    ASSUME NEW w \in Nat, w <= 65535
    PROVE  SignedIs16(SignedWord(w), w)
  <1>1. CASE w < 32768
    <2>1. SignedWord(w) = w /\ w % 65536 = w
      BY <1>1 DEF SignedWord
    <2> QED
      BY <1>1, <2>1 DEF SignedIs16, Signed16
  <1>2. CASE ~(w < 32768)
    <2>1. SignedWord(w) = w - 65536 /\ (w - 65536) % 65536 = w
      BY <1>2 DEF SignedWord
    <2> QED
      BY <1>2, <2>1 DEF SignedIs16, Signed16
  <1> QED
    BY <1>1, <1>2

\* Two words read as a signed number have its bits, the sign in the first.
Joined32(hi, lo) == IF hi >= 32768 THEN 65536 * (hi - 65536) + lo ELSE 65536 * hi + lo
SignedIs32(v, hi, lo) == SignedIs16(v \div 65536, hi) /\ v % 65536 = lo

LEMMA SignedHasBoth ==
    ASSUME NEW hi \in Nat, hi <= 65535, NEW lo \in Nat, lo <= 65535
    PROVE  SignedIs32(Joined32(hi, lo), hi, lo)
  <1> DEFINE s == IF hi >= 32768 THEN hi - 65536 ELSE hi
             v == Joined32(hi, lo)
  <1>1. s \in Int /\ v = 65536 * s + lo
    BY DEF Joined32
  <1>2. SignedIs16(s, hi)
    <2>1. s = SignedWord(hi)
      BY DEF SignedWord
    <2> QED
      BY <2>1, SignedHas
  <1> HIDE DEF s, v
  <1>3. v \div 65536 = s /\ v % 65536 = lo
    BY <1>1
  <1> QED
    BY <1>2, <1>3 DEF SignedIs32, v

\* Two bytes read are the word that the battery held there, at an odd place too.
LEMMA WordRead ==
    ASSUME NEW x \in Said, x.req \in Queries, x.req \in Request, NEW data, DataIs(data, x),
           NEW at \in Nat, at + 2 <= Len(data)
    PROVE  /\ U16(data, at) = HeldWord(x, at)
           /\ HeldWord(x, at) \in Nat /\ HeldWord(x, at) <= 65535
  <1> DEFINE d == Data(x.req, x.level)
             n == 2 * x.req.count
  <1>1. d \in Seq(Byte) /\ Len(d) = n
    BY DataBytes DEF Said
  <1>2. Len(data) = n /\ \A b \in 1 .. n : data[b].v = d[b]
    BY DEF DataIs
  <1>3. n \in Nat
    <2>1. x.req.count \in Nat
      BY CountIs
    <2> QED
      BY <2>1
  <1>4. TrueData(x) = d
    BY DEF TrueData
  <1> HIDE DEF d, n
  <1>5. at + 1 \in 1 .. n /\ at + 2 \in 1 .. n
    BY <1>2, <1>3
  <1>6. data[at + 1].v = d[at + 1] /\ data[at + 2].v = d[at + 2]
    BY <1>2, <1>5
  <1>7. d[at + 1] \in Byte /\ d[at + 2] \in Byte
    BY <1>1, <1>5, ElementOfSeq
  <1>8. U16(data, at) = 256 * d[at + 1] + d[at + 2]
    BY <1>6 DEF U16, WordAt
  <1>9. HeldByte(x, at) = d[at + 1] /\ HeldByte(x, at + 1) = d[at + 2]
    <2>1. at + 1 + 1 = at + 2
      OBVIOUS
    <2> QED
      BY <1>4, <2>1 DEF HeldByte
  <1>10. HeldWord(x, at) = 256 * d[at + 1] + d[at + 2]
    BY <1>9 DEF HeldWord
  <1>11. \A b \in Byte : b \in Nat /\ b <= 255
    BY DEF Byte
  <1> QED
    BY <1>7, <1>8, <1>10, <1>11

\* Each field is decoded to what the battery held.
LEMMA FieldDecoded ==
    ASSUME NEW x \in Said, x.req \in Queries, x.req \in Request, NEW data, DataIs(data, x),
           NEW layout, LayoutFits(layout), Len(data) = layout.bytes, NEW f \in layout.fields
    PROVE  FieldIs(f, DecodeField(data, f), x)
  <1> DEFINE at == f.at
             n == Len(data)
             d == Data(x.req, x.level)
  <1>1. /\ at \in Nat /\ f.kind \in {"u8", "u16", "s16", "u32", "s32", "ascii"} /\ n \in Nat
        /\ f.kind = "ascii" => f.len \in Nat
        /\ at + WidthOf(f) <= n
    BY DEF LayoutFits
  <1>2. n = 2 * x.req.count /\ \A b \in 1 .. n : data[b].v = d[b]
    BY DEF DataIs
  <1>3. d \in Seq(Byte) /\ Len(d) = n
    BY <1>2, DataBytes DEF Said
  <1>4. \A k \in Nat : HeldByte(x, k) = d[k + 1]
    BY DEF HeldByte, TrueData
  <1>5. \A k \in Nat : k + 2 <= n =>
            /\ U16(data, k) = HeldWord(x, k)
            /\ HeldWord(x, k) \in Nat /\ HeldWord(x, k) <= 65535
    BY WordRead
  <1> HIDE DEF at, n, d
  <1>6. CASE f.kind = "u8"
    <2>1. at + 1 \in 1 .. n
      BY <1>1, <1>6 DEF WidthOf
    <2>2. data[at + 1].v = HeldByte(x, at)
      BY <1>1, <1>2, <1>4, <2>1
    <2> QED
      BY <1>6, <2>2 DEF FieldIs, DecodeField, at
  <1>7. CASE f.kind = "u16"
    <2>1. at + 2 <= n
      BY <1>1, <1>7 DEF WidthOf
    <2>2. U16(data, at) = HeldWord(x, at)
      BY <1>1, <1>5, <2>1
    <2> QED
      BY <1>7, <2>2 DEF FieldIs, DecodeField, at
  <1>8. CASE f.kind = "s16"
    <2>1. at + 2 <= n
      BY <1>1, <1>8 DEF WidthOf
    <2>2. U16(data, at) = HeldWord(x, at) /\ HeldWord(x, at) \in Nat /\ HeldWord(x, at) <= 65535
      BY <1>1, <1>5, <2>1
    <2>3. SignedIs16(S16(data, at), HeldWord(x, at))
      BY <2>2, SignedHas DEF S16
    <2> QED
      BY <1>8, <2>3 DEF FieldIs, DecodeField, at
  <1>9. CASE f.kind \in {"u32", "s32"}
    <2>1. WidthOf(f) = 4
      BY <1>9 DEF WidthOf
    <2>2. at + 2 \in Nat /\ at + 2 <= n /\ (at + 2) + 2 <= n
      BY <1>1, <2>1
    <2> DEFINE hi == HeldWord(x, at)
               lo == HeldWord(x, at + 2)
    <2>3. U16(data, at) = hi /\ hi \in Nat /\ hi <= 65535
      BY <1>1, <1>5, <2>2
    <2>4. U16(data, at + 2) = lo /\ lo \in Nat /\ lo <= 65535
      BY <1>5, <2>2
    <2> HIDE DEF hi, lo
    <2>5. U32(data, at) = <<hi, lo>>
      BY <2>3, <2>4 DEF U32
    <2>6. S32(data, at) = Joined32(hi, lo)
      BY <2>5 DEF S32, Joined32
    <2>a. SignedIs32(Joined32(hi, lo), hi, lo)
      BY <2>3, <2>4, SignedHasBoth
    <2>7. SignedIs16(S32(data, at) \div 65536, hi) /\ S32(data, at) % 65536 = lo
      BY ONLY <2>6, <2>a DEF SignedIs32
    <2>8. CASE f.kind = "u32"
      BY <2>5, <2>8 DEF FieldIs, DecodeField, at, hi, lo
    <2>9. CASE f.kind = "s32"
      BY <2>7, <2>9 DEF FieldIs, DecodeField, at, hi, lo
    <2> QED
      BY <1>9, <2>8, <2>9
  <1>10. CASE f.kind = "ascii"
    <2>1. f.len \in Nat /\ at + f.len <= n
      BY <1>1, <1>10 DEF WidthOf
    <2> DEFINE got == Ascii(data, at, f.len)
    <2>2. ASSUME NEW k \in 1 .. f.len PROVE CharIs(got[k], HeldByte(x, at + k - 1))
      <3>1. at + k \in 1 .. n /\ at + k - 1 \in Nat /\ at + k - 1 + 1 = at + k
        BY <1>1, <2>1
      <3>2. data[at + k].v = d[at + k] /\ d[at + k] \in Byte
        BY <1>2, <1>3, <3>1, ElementOfSeq
      <3>3. HeldByte(x, at + k - 1) = d[at + k]
        BY <1>4, <3>1
      <3>a. got[k] = IF data[at + k].v < 128 THEN data[at + k].v ELSE Replaced
        BY Zenon DEF Ascii
      <3>4. got[k] = IF d[at + k] < 128 THEN d[at + k] ELSE Replaced
        BY <3>2, <3>a, Zenon
      <3>5. d[at + k] \in Nat /\ d[at + k] <= 255
        <4>1. \A byte \in Byte : byte \in Nat /\ byte <= 255
          BY DEF Byte
        <4> QED
          BY ONLY <3>2, <4>1
      <3> DEFINE b == HeldByte(x, at + k - 1)
                 c == got[k]
      <3>6. b \in Nat /\ b <= 255 /\ (b < 128 => c = b) /\ (~(b < 128) => c = Replaced)
        BY <3>3, <3>4, <3>5
      <3> HIDE DEF b, c
      <3>7. CharIs(c, b)
        <4>1. CASE b < 128
          <5>1. c = b /\ c # 65533 /\ ~(b >= 128)
            BY <3>6, <4>1
          <5> QED
            BY <5>1 DEF CharIs, Replaced
        <4>2. CASE ~(b < 128)
          <5>1. c = Replaced /\ b >= 128
            BY <3>6, <4>2
          <5> QED
            BY <5>1 DEF CharIs
        <4> QED
          BY <4>1, <4>2
      <3> QED
        BY <3>7 DEF b, c
    <2>3. DecodeField(data, f) = got
      BY <1>10 DEF DecodeField, at
    <2> HIDE DEF got
    <2>4. \A k \in 1 .. f.len : CharIs(DecodeField(data, f)[k], HeldByte(x, f.at + k - 1))
      BY <2>2, <2>3 DEF at
    <2> QED
      BY <1>10, <2>4 DEF FieldIs
  <1> QED
    BY <1>1, <1>6, <1>7, <1>8, <1>9, <1>10

\* The payload of a reply is its registers.
LEMMA PayloadIs ==
    ASSUME NEW raw \in Seq(Cell), NEW x, Holding(raw, x)
    PROVE  DataIs(Payload(raw, Header(x.req.fn)), x)
  <1> DEFINE h == Header(x.req.fn)
             c == 2 * x.req.count
             p == Payload(raw, h)
             n == Len(raw)
  <1>1. x.req.count \in Nat
    <2>1. x.req \in Queries
      BY DEF Holding, Said
    <2> QED
      BY <2>1, CountIs
  <1>2. h \in Nat /\ c \in Nat /\ n = h + c + 2 /\ \A b \in 1 .. c : raw[h + b].v = Data(x.req, x.level)[b]
    BY <1>1 DEF Holding, Header
  <1>3. n - 2 = h + c /\ h + c <= Len(raw)
    BY <1>2
  <1> HIDE DEF h, c
  <1>4. p = SubSeq(raw, h + 1, h + c)
    BY <1>3 DEF Payload
  <1>5. Len(p) = c /\ \A b \in 1 .. c : p[b] = raw[h + b]
    <2> DEFINE s == SubSeq(raw, h + 1, h + c)
    <2>1. Len(s) = c /\ \A b \in 1 .. c : s[b] = raw[h + b]
      BY <1>2, <1>3, Part
    <2> HIDE DEF s
    <2>2. p = s
      BY <1>4 DEF s
    <2> HIDE DEF p
    <2> QED
      BY <2>1, <2>2
  <1> HIDE DEF p
  <1>6. \A b \in 1 .. c : p[b].v = Data(x.req, x.level)[b]
    BY <1>2, <1>5
  <1> QED
    BY <1>5, <1>6 DEF DataIs, p, h, c

\* Exchanges have different times.
LEMMA TimesDiffer ==
    ASSUME ClockRuns, BusOK, NEW l \in 1 .. Len(bus), NEW m \in 1 .. Len(bus)
    PROVE  l < m => bus[l].t < bus[m].t /\ ReplyTime(l) < ReplyTime(m)
  <1>1. l \in DOMAIN Schedule /\ m \in DOMAIN Schedule
    <2>1. Len(bus) \in Nat /\ Len(bus) <= Len(Schedule) /\ Len(Schedule) \in Nat /\ DOMAIN Schedule = 1 .. Len(Schedule)
      BY WireAssumption, LenProperties DEF BusOK
    <2> QED
      BY <2>1
  <1>2. l < m => Schedule[l].t < Schedule[m].t
    BY <1>1 DEF ClockRuns
  <1>3. Schedule[l].t = bus[l].t /\ Schedule[m].t = bus[m].t
    BY DEF BusOK
  <1>4. bus[l].t \in Nat /\ bus[m].t \in Nat /\ Turnaround \in Nat
    <2>1. bus[l] \in Said /\ bus[m] \in Said
      BY ElementOfSeq DEF BusOK
    <2> QED
      BY <2>1, WireAssumption DEF Said
  <1> QED
    BY <1>2, <1>3, <1>4 DEF ReplyTime

-----------------------------------------------------------------------------
(* Rows are what the battery held. *)

\* An FC=4 reply found has the length that the frame before it asks for.
AskedLength(f, g) == \E count \in Awaited(f) : Len(g.raw) = 6 + 2 * count
IsReply4(g) == g.role = "response" /\ g.fc = 4
FourOK == \A n \in 1 .. Len(frames) - 1 : IsReply4(frames[n + 1]) => AskedLength(frames[n], frames[n + 1])

\* The places of the frames that are taken for pairs, and what the pairs say.
PairPlaces == {n \in 1 .. Len(frames) - 1 : IsPairOrException(frames[n], frames[n + 1])}
UpdateOf(n) == [ts |-> frames[n + 1].ts, regs |-> DecodePairUpdates(frames[n], frames[n + 1])]

MadeInv ==
    phase = "rows" =>
        /\ i >= Len(stream) - 3
        /\ DOMAIN updates = 1 .. Cardinality(PairPlaces)
        /\ \A n \in PairPlaces : updates[Rank(PairPlaces, n)] = UpdateOf(n)

PairInv == FourOK /\ MadeInv /\ filter \subseteq RegisterSpec

\* The length is that of the frame before.
LEMMA FourFinds ==
    ASSUME StreamOK, WalkOK, FourOK, NEW role, NEW len, Finds(role, len)
    PROVE  FourOK'
  <1> DEFINE f == NewFrame(role, len)
             N == Len(frames)
             fs == Append(frames, f)
  <1>1. /\ f \in FoundFrame /\ f.role = role /\ Len(f.raw) = len /\ len \in Nat /\ 4 <= len /\ i \in Nat
        /\ i + len <= Len(stream) /\ Len(stream) \in Nat /\ len \in FrameLength(role) /\ f.fc = f.raw[2].v
        /\ \A p \in 1 .. len : f.raw[p] = stream[i + p]
    BY FindsFrame
  <1>2. frames' = fs /\ frames \in Seq(FoundFrame)
    BY DEF Finds, WalkOK
  <1> HIDE DEF f
  <1>3. Len(fs) = N + 1 /\ N \in Nat /\ (\A k \in 1 .. N : fs[k] = frames[k]) /\ fs[N + 1] = f
    BY <1>1, <1>2, Added
  <1> HIDE DEF fs, N
  <1>4. ASSUME NEW n \in 1 .. N, IsReply4(fs[n + 1]) PROVE AskedLength(fs[n], fs[n + 1])
    <2>1. fs[n] = frames[n]
      BY <1>3
    <2>2. CASE n = N
      <3>1. fs[n + 1] = f /\ f.role = "response" /\ f.fc = 4
        BY <1>3, <1>4, <2>2 DEF IsReply4
      <3>2. Fc = 4
        <4>1. i + 1 + 1 = i + 2 /\ 2 \in 1 .. len
          BY <1>1
        <4>2. f.raw[2] = stream[i + 2]
          BY <1>1, <4>1
        <4> QED
          BY <1>1, <3>1, <4>1, <4>2 DEF Fc, ByteAt
      <3>3. PICK count \in pending : len = 6 + 2 * count
        <4>1. len \in FrameLength("response")
          BY <1>1, <3>1
        <4> QED
          BY <3>2, <4>1, FrameLengths
      <3>4. pending = Awaited(frames[n])
        <4>1. frames # <<>>
          BY <2>2, <1>3 DEF N
        <4> QED
          BY <2>2, <4>1 DEF WalkOK, N
      <3> QED
        BY <1>1, <2>1, <3>1, <3>3, <3>4 DEF AskedLength
    <2>3. CASE n # N
      <3>1. n \in 1 .. N - 1 /\ n + 1 \in 1 .. N
        BY <1>3, <2>3
      <3>2. fs[n + 1] = frames[n + 1]
        BY <1>3, <3>1
      <3> QED
        BY <1>4, <2>1, <3>1, <3>2 DEF FourOK, N
    <2> QED
      BY <2>2, <2>3
  <1>5. \A n \in 1 .. Len(frames') - 1 : IsReply4(frames'[n + 1]) => AskedLength(frames'[n], frames'[n + 1])
    <2>1. Len(fs) - 1 = N
      BY <1>3
    <2> QED
      BY <1>2, <1>4, <2>1
  <1> QED
    BY <1>5 DEF FourOK, IsReply4, AskedLength, Awaited

\* Without a new frame there is no new length.
LEMMA FourStays ==
    ASSUME FourOK, frames' = frames
    PROVE  FourOK'
  BY DEF FourOK, IsReply4, AskedLength, Awaited

\* Places and updates stay.
LEMMA MadeStays ==
    ASSUME MadeInv, UNCHANGED <<phase, frames, i, stream, updates>>
    PROVE  MadeInv'
  <1>1. PairPlaces' = PairPlaces
    BY DEF PairPlaces
  <1>2. \A n : UpdateOf(n)' = UpdateOf(n)
    BY DEF UpdateOf
  <1> QED
    BY <1>1, <1>2 DEF MadeInv

\* Each pair gives one update, at its rank.
LEMMA PairsMake ==
    ASSUME WalkOK, Pair
    PROVE  MadeInv'
  <1> DEFINE S == PairPlaces
             ps == ExtractPairs(frames)
             C == Cardinality(S)
             nb == Neighbours(frames)
  <1>0. UNCHANGED <<frames, i, stream>> /\ i >= Len(stream) - 3
    BY DEF Pair, ParseEnds
  <1>1. updates' = [n \in 1 .. Len(ps) |-> [ts |-> ps[n][2].ts, regs |-> DecodePairUpdates(ps[n][1], ps[n][2])]]
    BY DEF Pair
  <1>2. Len(frames) \in Nat
    BY LenProperties DEF WalkOK
  <1>3. ps = Chosen(nb, S)
    BY DEF ExtractPairs, PairPlaces
  <1>4. S \in SUBSET (1 .. Len(frames))
    BY <1>2 DEF PairPlaces
  <1>5. \A n \in S : nb[n] = <<frames[n], frames[n + 1]>>
    BY DEF PairPlaces, Neighbours
  <1> HIDE DEF S, nb
  <1>6. C \in Nat /\ DOMAIN Chosen(nb, S) = 1 .. C
    BY <1>2, <1>4, Choice
  <1>7. Len(ps) = C
    <2>1. Chosen(nb, S) = [k \in 1 .. C |-> Chosen(nb, S)[k]]
      BY <1>6 DEF Chosen
    <2> DEFINE s == Chosen(nb, S)
    <2> HIDE DEF s, C
    <2>2. Len(s) = C
      BY <1>6, <2>1 DEF s
    <2> QED
      BY <1>3, <2>2 DEF s
  <1> HIDE DEF C, ps
  <1>8. ASSUME NEW n \in S PROVE updates'[Rank(S, n)] = UpdateOf(n)
    <2>1. Rank(S, n) \in 1 .. Cardinality(S) /\ Chosen(nb, S)[Rank(S, n)] = nb[n]
      BY <1>2, <1>4, ChosenAt
    <2> DEFINE r == Rank(S, n)
    <2>2. r \in 1 .. Len(ps) /\ ps[r] = <<frames[n], frames[n + 1]>>
      BY <1>3, <1>5, <1>7, <2>1 DEF C
    <2> HIDE DEF r
    <2>3. updates'[r] = [ts |-> ps[r][2].ts, regs |-> DecodePairUpdates(ps[r][1], ps[r][2])]
      BY <1>1, <2>2
    <2>4. ps[r][1] = frames[n] /\ ps[r][2] = frames[n + 1]
      BY <2>2
    <2> QED
      BY <2>3, <2>4 DEF UpdateOf, r
  <1>9. DOMAIN updates' = 1 .. Cardinality(S)
    BY <1>1, <1>7 DEF C
  <1>10. PairPlaces' = S
    BY <1>0 DEF PairPlaces, S
  <1>11. \A n : UpdateOf(n)' = UpdateOf(n)
    BY <1>0 DEF UpdateOf
  <1> QED
    BY <1>0, <1>8, <1>9, <1>10, <1>11 DEF MadeInv

\* Every step keeps what the pairs are.
LEMMA PairInvStep ==
    ASSUME TypeInv, PairInv, [Next]_vars
    PROVE  PairInv'
  <1>1. StreamOK /\ WalkOK /\ PendingOK /\ FourOK /\ MadeInv /\ filter \subseteq RegisterSpec
    BY DEF TypeInv, PairInv
  <1>2. CASE Parse
    <2>1. filter' = filter
      BY <1>2 DEF Parse, csvVars
    <2>2. phase' # "rows"
      BY <1>2 DEF Parse, ParserNext, Exchange, Load, Found, Resync, Parsing
    <2>3. FourOK'
      <3>1. CASE Found
        <4>1. pending \subseteq Word
          BY <1>1 DEF PendingOK
        <4>2. PICK role, len : Finds(role, len)
          BY <1>1, <3>1, <4>1, FoundFinds
        <4> QED
          BY <1>1, <4>2, FourFinds
      <3>2. CASE ~Found
        <4>1. frames' = frames
          BY <1>2, <3>2 DEF Parse, ParserNext, Exchange, Load, Resync
        <4> QED
          BY <1>1, <4>1, FourStays
      <3> QED
        BY <3>1, <3>2
    <2> QED
      BY <1>1, <2>1, <2>2, <2>3 DEF PairInv, MadeInv
  <1>3. CASE Pair
    <2>1. frames' = frames /\ filter' \in Filters
      BY <1>3 DEF Pair
    <2>2. filter' \subseteq RegisterSpec
      BY <2>1, CsvAssumption
    <2>3. FourOK' /\ MadeInv'
      BY <1>1, <1>3, <2>1, FourStays, PairsMake
    <2> QED
      BY <2>2, <2>3 DEF PairInv
  <1>4. CASE WriteRow \/ LeaveOut \/ UNCHANGED vars
    <2>1. UNCHANGED <<phase, frames, i, stream, updates, filter>>
      BY <1>4 DEF WriteRow, LeaveOut, TakePair, vars, wireVars, csvVars
    <2>2. FourOK' /\ MadeInv'
      BY <1>1, <2>1, FourStays, MadeStays
    <2> QED
      BY <1>1, <2>1, <2>2 DEF PairInv
  <1> QED
    BY <1>2, <1>3, <1>4 DEF Next, Finished

\* Nothing is found or paired at the start.
LEMMA PairInvInit ==
    ASSUME Init
    PROVE  PairInv
  <1>1. frames = <<>> /\ phase = "bus" /\ filter = {}
    BY DEF Init, ParserInit
  <1>2. 1 .. Len(frames) - 1 = {}
    BY <1>1
  <1> QED
    BY <1>1, <1>2 DEF PairInv, FourOK, MadeInv

\* Frames are found in the order in which they were sent.
LEMMA FoundInOrder ==
    ASSUME BusOK, WalkOK, NEW c, Cuts(c, stream, times), NEW a \in 1 .. Len(frames), NEW b \in 1 .. Len(frames), a < b,
           NEW j1, NEW k1, IsSent(frames[a], j1, k1, c), NEW j2, NEW k2, IsSent(frames[b], j2, k2, c)
    PROVE  k1 \in 1 .. Last2 /\ k2 \in 1 .. Last2 /\ k1 < k2
  <1>1. /\ SentAt(j1, k1, c, frames[a].off, Len(frames[a].raw), frames[a].raw)
        /\ SentAt(j2, k2, c, frames[b].off, Len(frames[b].raw), frames[b].raw)
    BY DEF IsSent
  <1>2. /\ k1 \in 1 .. Last2 /\ c[k1] = frames[a].off + Len(frames[a].raw)
        /\ j2 \in 0 .. Last2 /\ k2 \in 1 .. Last2 /\ k2 = j2 + 1 /\ c[j2] = frames[b].off /\ SentHow(k2) \in Intact
    BY <1>1 DEF SentAt
  <1>3. frames[a].off + Len(frames[a].raw) <= frames[b].off
    BY DEF WalkOK
  <1>4. Last2 \in Nat /\ c \in [0 .. Last2 -> Nat] /\ \A x, y \in 0 .. Last2 : x <= y => c[x] <= c[y]
    BY CutsOrdered DEF BusOK
  <1>5. k1 \in 0 .. Last2 /\ k2 \in 0 .. Last2
    BY <1>2, <1>4
  <1>6. c[j2] + 5 <= c[k2]
    BY <1>2, <1>5, PieceLong
  <1>7. c[k1] <= c[j2] /\ c[k1] \in Nat /\ c[j2] \in Nat /\ c[k2] \in Nat
    BY <1>2, <1>3, <1>4, <1>5
  <1>8. ~(k2 <= k1)
    <2>1. k2 <= k1 => c[k2] <= c[k1]
      BY <1>4, <1>5
    <2> QED
      BY <1>6, <1>7, <2>1
  <1> QED
    BY <1>2, <1>4, <1>5, <1>8

\* Without hurry the clock runs.
LEMMA UnhurriedRuns ==
    ASSUME Unhurried
    PROVE  ClockRuns
  <1> SUFFICES ASSUME NEW m \in DOMAIN Schedule, NEW n \in DOMAIN Schedule, m < n PROVE Schedule[m].t < Schedule[n].t
    BY DEF ClockRuns
  <1>1. Schedule[m].t + Turnaround < Schedule[n].t
    BY DEF Unhurried
  <1>2. Schedule[m].t \in Nat /\ Schedule[n].t \in Nat /\ Turnaround \in Nat
    <2>1. Schedule \in Seq([t : Nat, level : {0, 1}]) /\ Turnaround \in Nat
      BY WireAssumption
    <2>2. m \in 1 .. Len(Schedule) /\ n \in 1 .. Len(Schedule)
      BY <2>1, LenProperties
    <2>3. Schedule[m] \in [t : Nat, level : {0, 1}] /\ Schedule[n] \in [t : Nat, level : {0, 1}]
      BY <2>1, <2>2, ElementOfSeq
    <2> QED
      BY <2>1, <2>3
  <1> QED
    BY <1>1, <1>2

\* An exchange is over when the next one begins.
LEMMA OverBefore ==
    ASSUME Unhurried, BusOK, NEW l \in 1 .. Len(bus), NEW m \in 1 .. Len(bus)
    PROVE  /\ bus[l].t \in Nat /\ ReplyTime(l) \in Nat /\ bus[l].t <= ReplyTime(l)
           /\ l < m => ReplyTime(l) < bus[m].t
  <1>1. l \in DOMAIN Schedule /\ m \in DOMAIN Schedule
    <2>1. Len(bus) \in Nat /\ Len(bus) <= Len(Schedule) /\ Len(Schedule) \in Nat /\ DOMAIN Schedule = 1 .. Len(Schedule)
      BY WireAssumption, LenProperties DEF BusOK
    <2> QED
      BY <2>1
  <1>2. l < m => Schedule[l].t + Turnaround < Schedule[m].t
    BY <1>1 DEF Unhurried
  <1>3. Schedule[l].t = bus[l].t /\ Schedule[m].t = bus[m].t
    BY DEF BusOK
  <1>4. bus[l].t \in Nat /\ Turnaround \in Nat
    <2>1. bus[l] \in Said
      BY ElementOfSeq DEF BusOK
    <2> QED
      BY <2>1, WireAssumption DEF Said
  <1> QED
    BY <1>2, <1>3, <1>4 DEF ReplyTime

\* The frames have their times in their order.
LEMMA SentInOrder ==
    ASSUME Unhurried, BusOK, NEW h \in 1 .. Last2, NEW k \in 1 .. Last2
    PROVE  /\ SentTime(h) \in Nat /\ SentTime(k) \in Nat
           /\ h <= k => SentTime(h) <= SentTime(k)
           /\ h < k /\ Odd(k) => SentTime(h) < SentTime(k)
  <1> DEFINE l == Turn(h)
             m == Turn(k)
  <1>1. /\ l \in 1 .. Len(bus) /\ m \in 1 .. Len(bus) /\ Len(bus) \in Nat
        /\ (Odd(h) => h = 2 * l - 1) /\ (~Odd(h) => h = 2 * l)
        /\ (Odd(k) => k = 2 * m - 1) /\ (~Odd(k) => k = 2 * m)
    BY Turning DEF BusOK
  <1>2. /\ SentTime(h) = IF Odd(h) THEN bus[l].t ELSE ReplyTime(l)
        /\ SentTime(k) = IF Odd(k) THEN bus[m].t ELSE ReplyTime(m)
    BY DEF SentTime
  <1> HIDE DEF l, m
  <1>3. /\ bus[l].t \in Nat /\ ReplyTime(l) \in Nat /\ bus[l].t <= ReplyTime(l)
        /\ l < m => ReplyTime(l) < bus[m].t
    BY <1>1, OverBefore
  <1>4. bus[m].t \in Nat /\ ReplyTime(m) \in Nat /\ bus[m].t <= ReplyTime(m)
    BY <1>1, OverBefore
  <1>5. SentTime(h) \in Nat /\ SentTime(k) \in Nat
    BY <1>2, <1>3, <1>4
  <1>6. ASSUME h <= k PROVE l <= m /\ (l = m => h = k \/ (Odd(h) /\ ~Odd(k)))
    BY <1>1, <1>6
  <1>7. ASSUME h <= k PROVE SentTime(h) <= SentTime(k)
    <2>1. l < m \/ (l = m /\ h = k) \/ (l = m /\ Odd(h) /\ ~Odd(k))
      BY <1>1, <1>6, <1>7
    <2> QED
      BY <1>2, <1>3, <1>4, <2>1
  <1>8. ASSUME h < k, Odd(k) PROVE SentTime(h) < SentTime(k)
    <2>1. l < m
      BY <1>1, <1>6, <1>8
    <2> QED
      BY <1>2, <1>3, <1>4, <1>8, <2>1
  <1> QED
    BY <1>5, <1>7, <1>8

\* A pair that comes later was found and sent later.
LEMMA PairsInOrder ==
    ASSUME Unhurried, TypeInv, SentInv, phase # "bus", NEW a \in PairPlaces, NEW b \in PairPlaces
    PROVE  /\ frames[a + 1].ts \in Nat /\ frames[b].ts \in Nat /\ frames[b + 1].ts \in Nat
           /\ a <= b => frames[a + 1].ts <= frames[b + 1].ts
           /\ a < b /\ frames[b].fc # 6 => frames[a + 1].ts < frames[b].ts /\ frames[b].ts <= frames[b + 1].ts
  <1>1. BusOK /\ WalkOK /\ StreamOK
    BY DEF TypeInv
  <1>2. PICK c : Cuts(c, stream, times) /\ SentSoFar(frames, i, c)
    BY DEF SentInv
  <1>a. Len(frames) \in Nat
    BY <1>1, LenProperties DEF WalkOK
  <1>b. /\ a \in 1 .. Len(frames) - 1 /\ IsPairOrException(frames[a], frames[a + 1])
        /\ b \in 1 .. Len(frames) - 1 /\ IsPairOrException(frames[b], frames[b + 1])
    BY DEF PairPlaces
  <1>3. /\ Len(frames) \in Nat /\ a \in 1 .. Len(frames) /\ a + 1 \in 1 .. Len(frames)
        /\ b \in 1 .. Len(frames) /\ b + 1 \in 1 .. Len(frames)
        /\ IsPairOrException(frames[a], frames[a + 1]) /\ IsPairOrException(frames[b], frames[b + 1])
    BY <1>a, <1>b
  <1>4. ASSUME NEW n \in 1 .. Len(frames) PROVE \E j, k : IsSent(frames[n], j, k, c)
    BY <1>2 DEF SentSoFar, AllSent
  <1>5. PICK j1, k1 : IsSent(frames[a + 1], j1, k1, c)
    BY <1>3, <1>4
  <1>6. PICK j2, k2 : IsSent(frames[b], j2, k2, c)
    BY <1>3, <1>4
  <1>7. PICK j3, k3 : IsSent(frames[b + 1], j3, k3, c)
    BY <1>3, <1>4
  <1>8. /\ frames[a + 1].ts = SentTime(k1) /\ k1 \in 1 .. Last2
        /\ frames[b].ts = SentTime(k2) /\ k2 \in 1 .. Last2
        /\ frames[b + 1].ts = SentTime(k3) /\ k3 \in 1 .. Last2
        /\ frames[b].fc # 6 => frames[b].role = Role(k2)
    BY <1>5, <1>6, <1>7 DEF IsSent, SentAt
  <1>9. frames[b].role = "request" /\ frames[a + 1].role = "response"
    BY <1>3 DEF IsPairOrException
  <1>10. k2 < k3
    <2>1. b < b + 1
      BY <1>3
    <2> QED
      BY <1>1, <1>2, <1>3, <1>6, <1>7, <2>1, FoundInOrder
  <1>11. SentTime(k1) \in Nat /\ SentTime(k2) \in Nat /\ SentTime(k3) \in Nat
    BY <1>1, <1>8, SentInOrder
  <1>12. ASSUME a <= b PROVE frames[a + 1].ts <= frames[b + 1].ts
    <2>1. CASE a = b
      BY <1>8, <1>11, <2>1
    <2>2. CASE a # b
      <3>1. a + 1 < b + 1
        BY <1>3, <1>12, <2>2
      <3>2. k1 < k3
        BY <1>1, <1>2, <1>3, <1>5, <1>7, <3>1, FoundInOrder
      <3>3. k1 <= k3
        BY <1>8, <3>2, <1>1, LenProperties DEF Last2, BusOK
      <3>4. SentTime(k1) <= SentTime(k3)
        BY <1>1, <1>8, <3>3, SentInOrder
      <3> QED
        BY <1>8, <3>4
    <2> QED
      BY <2>1, <2>2
  <1>13. ASSUME a < b, frames[b].fc # 6 PROVE frames[a + 1].ts < frames[b].ts /\ frames[b].ts <= frames[b + 1].ts
    <2>1. a + 1 # b
      BY <1>9
    <2>2. a + 1 < b
      BY <1>3, <1>13, <2>1
    <2>3. k1 < k2
      BY <1>1, <1>2, <1>3, <1>5, <1>6, <2>2, FoundInOrder
    <2>4. Odd(k2)
      BY <1>8, <1>9, <1>13 DEF Role
    <2>5. SentTime(k1) < SentTime(k2)
      BY <1>1, <1>8, <2>3, <2>4, SentInOrder
    <2>6. k2 <= k3
      BY <1>8, <1>10, <1>1, LenProperties DEF Last2, BusOK
    <2>7. SentTime(k2) <= SentTime(k3)
      BY <1>1, <1>8, <2>6, SentInOrder
    <2> QED
      BY <1>8, <2>5, <2>7
  <1> QED
    BY <1>8, <1>11, <1>12, <1>13

\* What a request found asks for.
LEMMA RequestRead ==
    ASSUME NEW q \in Request, NEW a, NEW raw, NEW n \in Nat, ValuesAt(RequestValues(q), a, n, raw)
    PROVE  WordAt(raw, 2) = q.start /\ WordAt(raw, 4) = q.count
  <1> DEFINE v == RequestValues(q)
  <1>1. Len(v) = 6 /\ 256 * v[3] + v[4] = q.start /\ 256 * v[5] + v[6] = q.count
    BY RequestSaid
  <1> HIDE DEF v
  <1>2. Len(v) = n - 2 /\ \A p \in 1 .. n - 2 : raw[p].v = v[p]
    BY DEF ValuesAt, v
  <1>3. 3 \in 1 .. n - 2 /\ 4 \in 1 .. n - 2 /\ 5 \in 1 .. n - 2 /\ 6 \in 1 .. n - 2
    <2>1. n - 2 = 6
      BY <1>1, <1>2, Zenon
    <2> QED
      BY <2>1
  <1>4. raw[3].v = v[3] /\ raw[4].v = v[4] /\ raw[5].v = v[5] /\ raw[6].v = v[6]
    BY <1>2, <1>3
  <1>5. WordAt(raw, 2) = 256 * raw[3].v + raw[4].v
    <2>1. 2 + 1 = 3 /\ 2 + 2 = 4
      OBVIOUS
    <2> QED
      BY <2>1 DEF WordAt
  <1>6. WordAt(raw, 4) = 256 * raw[5].v + raw[6].v
    BY CountOf
  <1>7. WordAt(raw, 2) = 256 * v[3] + v[4] /\ WordAt(raw, 4) = 256 * v[5] + v[6]
    BY <1>4, <1>5, <1>6, Zenon
  <1> QED
    BY <1>1, <1>7, Zenon

\* A request found is one of a query.
LEMMA RequestFound ==
    ASSUME TypeInv, SentInv, phase # "bus", NEW n \in 1 .. Len(frames), frames[n].role = "request"
    PROVE  frames[n].fc \in {3, 4, 6}
  <1>1. BusOK
    BY DEF TypeInv
  <1>2. PICK c : SentSoFar(frames, i, c)
    BY DEF SentInv
  <1>3. PICK j, k : IsSent(frames[n], j, k, c)
    BY <1>2 DEF SentSoFar, AllSent
  <1>4. k \in 1 .. Last2 /\ frames[n].fc = SentBytes(k)[2] /\ (frames[n].fc # 6 => Odd(k))
    BY <1>3 DEF IsSent, SentAt, Role
  <1>5. Odd(k) => SentBytes(k)[2] = bus[Turn(k)].req.fn /\ bus[Turn(k)].req \in Queries
    BY <1>1, <1>4, AskedValues
  <1>6. Odd(k) => bus[Turn(k)].req.fn \in {3, 4, 6}
    BY <1>5, CountIs
  <1> QED
    BY <1>4, <1>5, <1>6

\* A pair says of a register what the reply of m says of it, when asked what l asked.
SameBlock(p, q) == SameTarget(p, q) /\ p.count = q.count /\ (p.fn = 4 => p.start = q.start)

RegisterOf(q, key) ==
    /\ key = <<q.dev, q.fn, key[3]>> /\ key[3] \in q.start .. q.start + q.count - 1

SaysOf(f, g, key, l, m) ==
    /\ Telling(f, g, l, m) /\ Holding(g.raw, bus[m])
    /\ bus[l].req \in Queries /\ bus[m].req \in Queries /\ bus[l].req.fn \in {3, 4}
    /\ SameBlock(bus[l].req, bus[m].req)
    /\ RegisterOf(bus[l].req, key)
    /\ DecodePairUpdates(f, g)[key] = WordAt(g.raw, Header(bus[l].req.fn) + 2 * (key[3] - bus[l].req.start))

\* What is read of a block, and where.
LEMMA BlockSays ==
    ASSUME NEW req, NEW rsp, NEW at, NEW key \in RegistersAsked(req)
    PROVE  /\ BlockUpdates(req, rsp, at)[key] = WordAt(rsp.raw, at + 2 * (key[3] - WordAt(req.raw, 2)))
           /\ key = <<req.device, req.fc, key[3]>>
           /\ key[3] \in WordAt(req.raw, 2) .. WordAt(req.raw, 2) + WordAt(req.raw, 4) - 1
  <1>1. PICK reg \in WordAt(req.raw, 2) .. WordAt(req.raw, 2) + WordAt(req.raw, 4) - 1 : key = <<req.device, req.fc, reg>>
    BY DEF RegistersAsked
  <1>2. key[3] = reg
    BY <1>1
  <1>3. BlockUpdates(req, rsp, at)[key] = WordAt(rsp.raw, at + 2 * (key[3] - WordAt(req.raw, 2)))
    BY DEF BlockUpdates
  <1> QED
    BY <1>1, <1>2, <1>3

\* What is said of a register comes from a block read.
LEMMA BlockRead ==
    ASSUME NEW f, NEW g, f.fc \in {3, 4, 6}, g.fc \in {f.fc, f.fc + 128},
           NEW key \in DOMAIN DecodePairUpdates(f, g), key[2] # 6
    PROVE  /\ g.fc = f.fc /\ f.fc \in {3, 4} /\ key \in RegistersAsked(f)
           /\ DecodePairUpdates(f, g) = BlockUpdates(f, g, Header(f.fc))
           /\ f.fc = 3 => g.raw[3].v = 2 * WordAt(f.raw, 4)
           /\ f.fc = 4 => WordAt(g.raw, 2) = WordAt(f.raw, 2)
  <1> DEFINE bytes == 2 * WordAt(f.raw, 4)
             d == DecodePairUpdates(f, g)
             A == g.raw[3].v = bytes /\ Len(g.raw) >= bytes + 5
             B == WordAt(g.raw, 2) = WordAt(f.raw, 2) /\ Len(g.raw) >= bytes + 6
             write == [r \in {<<f.device, 6, WordAt(f.raw, 2)>>} |-> WordAt(f.raw, 4)]
  <1>1. d = CASE g.fc = f.fc + 128 -> NoUpdates
              [] g.fc = 3 -> IF A THEN BlockUpdates(f, g, 3) ELSE NoUpdates
              [] g.fc = 4 -> IF B THEN BlockUpdates(f, g, 4) ELSE NoUpdates
              [] g.fc = 6 -> write
    BY DEF DecodePairUpdates
  <1>2. key \in DOMAIN d
    OBVIOUS
  <1>3. DOMAIN NoUpdates = {}
    BY DEF NoUpdates
  <1>4. DOMAIN write = {<<f.device, 6, WordAt(f.raw, 2)>>}
    OBVIOUS
  <1>5. \A at : DOMAIN BlockUpdates(f, g, at) = RegistersAsked(f)
    BY DEF BlockUpdates
  <1>a. A => g.raw[3].v = bytes
    OBVIOUS
  <1>b. B => WordAt(g.raw, 2) = WordAt(f.raw, 2)
    OBVIOUS
  <1> HIDE DEF d, A, B, write
  <1>6. CASE g.fc = f.fc + 128
    <2>1. d = NoUpdates
      BY <1>1, <1>6
    <2> QED
      BY <1>2, <1>3, <2>1
  <1>7. CASE g.fc = f.fc /\ f.fc = 3
    <2>1. d = IF A THEN BlockUpdates(f, g, 3) ELSE NoUpdates
      BY <1>1, <1>7
    <2>2. A /\ d = BlockUpdates(f, g, 3)
      BY <1>2, <1>3, <2>1
    <2>3. key \in RegistersAsked(f)
      BY <1>2, <1>5, <2>2
    <2> QED
      BY <1>7, <1>a, <2>2, <2>3 DEF Header, d
  <1>8. CASE g.fc = f.fc /\ f.fc = 4
    <2>1. d = IF B THEN BlockUpdates(f, g, 4) ELSE NoUpdates
      BY <1>1, <1>8
    <2>2. B /\ d = BlockUpdates(f, g, 4)
      BY <1>2, <1>3, <2>1
    <2>3. key \in RegistersAsked(f)
      BY <1>2, <1>5, <2>2
    <2> QED
      BY <1>8, <1>b, <2>2, <2>3 DEF Header, d
  <1>9. CASE g.fc = f.fc /\ f.fc = 6
    <2>1. d = write
      BY <1>1, <1>9
    <2>2. key = <<f.device, 6, WordAt(f.raw, 2)>>
      BY <1>2, <1>4, <2>1
    <2> QED
      BY <2>2
  <1> QED
    BY <1>6, <1>7, <1>8, <1>9

\* What a pair says of a register is what some reply of the bus says.
LEMMA PairSays ==
    ASSUME TypeInv, SentInv, FourOK, phase # "bus", NEW a \in PairPlaces,
           NEW key \in DOMAIN DecodePairUpdates(frames[a], frames[a + 1]), key[2] # 6
    PROVE  \E l, m : SaysOf(frames[a], frames[a + 1], key, l, m)
  <1> DEFINE f == frames[a]
             g == frames[a + 1]
  <1>1. WalkOK /\ bus \in Seq(Said)
    BY DEF TypeInv, BusOK
  <1>a. Len(frames) \in Nat
    BY <1>1, LenProperties DEF WalkOK
  <1>b. a \in 1 .. Len(frames) - 1 /\ IsPairOrException(f, g)
    BY DEF PairPlaces
  <1>2. a \in 1 .. Len(frames) /\ a + 1 \in 1 .. Len(frames)
    BY <1>a, <1>b
  <1>3. f.role = "request" /\ g.role = "response" /\ f.device = g.device /\ g.fc \in {f.fc, f.fc + 128}
    BY <1>b DEF IsPairOrException
  <1>4. f.fc \in {3, 4, 6}
    BY <1>2, <1>3, RequestFound
  <1>c. IsReply4(g) => AskedLength(f, g)
    BY <1>b DEF FourOK
  <1>d. g \in FoundFrame
    BY <1>1, <1>2, ElementOfSeq DEF WalkOK
  <1>e. key \in DOMAIN DecodePairUpdates(f, g)
    OBVIOUS
  <1>5. /\ g.fc = f.fc /\ f.fc \in {3, 4} /\ key \in RegistersAsked(f)
        /\ DecodePairUpdates(f, g) = BlockUpdates(f, g, Header(f.fc))
        /\ f.fc = 3 => g.raw[3].v = 2 * WordAt(f.raw, 4)
        /\ f.fc = 4 => WordAt(g.raw, 2) = WordAt(f.raw, 2)
    <2> HIDE DEF f, g
    <2> QED
      BY <1>3, <1>4, <1>e, BlockRead
  <1>6. PICK l, m : Telling(f, g, l, m)
    <2>1. f.fc # 6 /\ g.fc # 6
      BY <1>5
    <2> QED
      BY <1>2, <1>3, <2>1, FoundTelling
  <1> HIDE DEF f, g
  <1>7. Len(g.raw) \in Nat
    BY <1>d, LenProperties DEF FoundFrame
  <1>8. Holding(g.raw, bus[m]) /\ bus[m].req.fn = g.fc
    <2>1. g.fc < 128 /\ g.fc # 6
      BY <1>5
    <2> QED
      BY <1>1, <1>6, <1>7, <2>1, TellingHolds
  <1> DEFINE p == bus[l].req
             q == bus[m].req
  <1>9. /\ l \in 1 .. Len(bus) /\ m \in 1 .. Len(bus) /\ f.device = p.dev /\ f.fc = p.fn /\ g.device = q.dev
        /\ ValuesAt(RequestValues(p), f.off, Len(f.raw), f.raw)
    BY <1>6 DEF Telling
  <1>10. p \in Queries /\ q \in Queries
    <2>1. bus[l] \in Said /\ bus[m] \in Said
      BY <1>1, <1>9, ElementOfSeq
    <2> QED
      BY <2>1 DEF Said
  <1>11. p \in Request
    BY <1>10, WireAssumption
  <1>f. Len(f.raw) \in Nat
    <2>1. f \in FoundFrame
      BY <1>1, <1>2, ElementOfSeq DEF WalkOK, f
    <2> QED
      BY <2>1, LenProperties DEF FoundFrame
  <1>g. /\ Len(g.raw) = Header(q.fn) + 2 * q.count + 2
        /\ q.fn = 3 => g.raw[3].v = 2 * q.count
        /\ q.fn = 4 => WordAt(g.raw, 2) = q.start
    BY <1>8 DEF Holding
  <1> HIDE DEF p, q
  <1>12. WordAt(f.raw, 2) = p.start /\ WordAt(f.raw, 4) = p.count
    BY <1>9, <1>11, <1>f, RequestRead
  <1>13. p.count \in Nat /\ q.count \in Nat
    BY <1>10, CountIs
  <1>h. q.fn = g.fc
    BY <1>8 DEF q
  <1>14. SameTarget(p, q)
    BY <1>3, <1>5, <1>9, <1>h DEF SameTarget
  <1>15. p.count = q.count
    <2>1. CASE f.fc = 3
      BY <1>5, <1>12, <1>13, <1>g, <1>h, <2>1
    <2>2. CASE f.fc = 4
      <3>1. IsReply4(g)
        BY <1>3, <1>5, <2>2 DEF IsReply4
      <3>2. PICK count \in Awaited(f) : Len(g.raw) = 6 + 2 * count
        BY <1>c, <3>1 DEF AskedLength
      <3>3. count = p.count
        BY <1>3, <1>12, <2>2, <3>2 DEF Awaited
      <3>4. Header(q.fn) = 4
        BY <1>5, <1>h, <2>2 DEF Header
      <3> QED
        BY <1>13, <1>g, <3>2, <3>3, <3>4
    <2> QED
      BY <1>5, <2>1, <2>2
  <1>16. p.fn = 4 => p.start = q.start
    BY <1>5, <1>9, <1>12, <1>g, <1>h
  <1>17. SameBlock(p, q)
    BY <1>14, <1>15, <1>16 DEF SameBlock
  <1>18. /\ BlockUpdates(f, g, Header(f.fc))[key] = WordAt(g.raw, Header(f.fc) + 2 * (key[3] - WordAt(f.raw, 2)))
         /\ key = <<f.device, f.fc, key[3]>>
         /\ key[3] \in WordAt(f.raw, 2) .. WordAt(f.raw, 2) + WordAt(f.raw, 4) - 1
    <2>1. key \in RegistersAsked(f)
      BY <1>5
    <2> DEFINE at == Header(f.fc)
    <2>2. /\ BlockUpdates(f, g, at)[key] = WordAt(g.raw, at + 2 * (key[3] - WordAt(f.raw, 2)))
          /\ key = <<f.device, f.fc, key[3]>>
          /\ key[3] \in WordAt(f.raw, 2) .. WordAt(f.raw, 2) + WordAt(f.raw, 4) - 1
      <3> HIDE DEF at
      <3> QED
        BY ONLY <2>1, BlockSays
    <2> QED
      BY <2>2
  <1>19. RegisterOf(p, key)
    BY <1>9, <1>12, <1>18 DEF RegisterOf
  <1>20. DecodePairUpdates(f, g)[key] = WordAt(g.raw, Header(p.fn) + 2 * (key[3] - p.start))
    BY <1>5, <1>9, <1>12, <1>18
  <1>21. SaysOf(f, g, key, l, m)
    BY <1>5, <1>6, <1>8, <1>9, <1>10, <1>17, <1>19, <1>20 DEF SaysOf, p, q
  <1> QED
    BY <1>21 DEF f, g

\* The frame found after the request of l is the reply of m or comes later, when the
\* parser sees nothing between the two.
LEMMA NextFound ==
    ASSUME TypeInv, FourOK, NEW c, Cuts(c, stream, times), NEW l, NEW m, l \in 1 .. Len(bus), m \in 1 .. Len(bus),
           Adjacent(l, m), bus[l].req.fn # 6,
           NEW a \in 1 .. Len(frames), NEW b \in 1 .. Len(frames), b = a + 1,
           NEW j1, NEW k1, IsSent(frames[a], j1, k1, c), k1 = 2 * l - 1,
           NEW j2, NEW k2, IsSent(frames[b], j2, k2, c)
    PROVE  k2 \in 1 .. Last2 /\ 2 * m <= k2
  <1>1. BusOK /\ StreamOK /\ WalkOK /\ bus \in Seq(Said)
    BY DEF TypeInv, BusOK
  <1>2. /\ l \in Nat /\ m \in Nat /\ Len(bus) \in Nat /\ Len(frames) \in Nat
        /\ Odd(k1) /\ Turn(k1) = l
    <2>1. Len(bus) \in Nat /\ Len(frames) \in Nat
      BY <1>1, LenProperties DEF WalkOK
    <2>2. Odd(k1) /\ Turn(k1) = l
      BY <1>1, Places
    <2> QED
      BY <2>1, <2>2
  <1>3. k1 \in 1 .. Last2 /\ k2 \in 1 .. Last2 /\ k1 < k2
    <2>1. a < b
      BY <1>2
    <2> QED
      BY <1>1, <2>1, FoundInOrder
  <1>4. /\ l <= m /\ (l < m => ~Replied(l) /\ ~Asked(m))
        /\ \A h \in l + 1 .. m - 1 : ~Asked(h) /\ (Replied(h) => Unseen(l, h))
    BY DEF Adjacent
  <1> SUFFICES ASSUME k2 < 2 * m PROVE FALSE
    <2>1. k2 \in Nat
      BY <1>3
    <2> QED
      BY <1>2, <1>3, <2>1
  <1> DEFINE h == Turn(k2)
  <1>5. /\ h \in 1 .. Len(bus) /\ (Odd(k2) => k2 = 2 * h - 1) /\ (~Odd(k2) => k2 = 2 * h) /\ SentHow(k2) \in Intact
        /\ frames[b].fc = SentBytes(k2)[2] /\ (frames[b].fc # 6 => frames[b].role = Role(k2))
        /\ Len(SentBytes(k2)) = Len(frames[b].raw) - 2
    BY <1>1, <1>3, Turning DEF IsSent, SentAt
  <1>6. CASE Odd(k2)
    <2>1. Asked(h)
      BY <1>5, <1>6 DEF Asked, SentHow
    <2>2. l < h /\ h <= m
      <3> HIDE DEF h
      <3> QED
        BY <1>2, <1>3, <1>5, <1>6
    <2>3. h = m \/ h \in l + 1 .. m - 1
      <3> HIDE DEF h
      <3> QED
        BY <1>2, <1>5, <2>2
    <2>4. l < m
      <3> HIDE DEF h
      <3> QED
        BY <1>2, <1>5, <2>2
    <2> QED
      BY <1>4, <2>1, <2>3, <2>4
  <1>7. CASE ~Odd(k2)
    <2>1. Replied(h)
      BY <1>5, <1>7 DEF Replied, SentHow, Intact
    <2>2. l <= h /\ h < m
      <3> HIDE DEF h
      <3> QED
        BY <1>2, <1>3, <1>5, <1>7
    <2>3. (l < m /\ h = l) \/ h \in l + 1 .. m - 1
      <3> HIDE DEF h
      <3> QED
        BY <1>2, <1>5, <2>2
    <2>4. Unseen(l, h)
      BY <1>4, <2>1, <2>3
    <2>5. bus[h].req.fn = 4 /\ bus[h].answer = "data" /\ bus[l].req.count # bus[h].req.count
      BY <2>4 DEF Unseen
    <2>6. AnswerIs(bus[h], SentBytes(k2))
      BY <1>1, <1>3, <1>5, <1>7, AnswerValues
    <2>7. SentBytes(k2)[2] = 4 /\ Len(SentBytes(k2)) = 4 + 2 * bus[h].req.count /\ bus[h].req \in Queries
      BY <2>5, <2>6 DEF AnswerIs
    <2>8. IsReply4(frames[b])
      BY <1>5, <1>7, <2>7 DEF IsReply4, Role
    <2>9. a \in 1 .. Len(frames) - 1
      BY <1>2
    <2>10. PICK count \in Awaited(frames[a]) : Len(frames[b].raw) = 6 + 2 * count
      BY <2>8, <2>9 DEF FourOK, AskedLength
    <2>11. frames[a].fc # 6
      <3>1. SentBytes(k1)[2] = bus[l].req.fn
        BY <1>1, <1>2, <1>3, AskedValues
      <3> QED
        BY <3>1 DEF IsSent
    <2>12. Awaited(frames[a]) = {bus[l].req.count}
      BY <1>1, <1>2, <2>11, CountAwaited
    <2>13. bus[l].req.count \in Nat /\ bus[h].req.count \in Nat
      <3>1. bus[l] \in Said
        BY <1>1, ElementOfSeq
      <3>2. bus[l].req \in Queries
        BY <3>1 DEF Said
      <3> QED
        BY <2>7, <3>2, CountIs
    <2>14. Len(frames[b].raw) \in Nat
      <3>1. frames[b] \in FoundFrame
        BY <1>1, ElementOfSeq DEF WalkOK
      <3> QED
        BY <3>1, LenProperties DEF FoundFrame
    <2> DEFINE x == bus[l].req.count
               y == bus[h].req.count
               n == Len(frames[b].raw)
               v == Len(SentBytes(k2))
    <2>15. /\ x \in Nat /\ y \in Nat /\ n \in Nat /\ x # y
           /\ v = n - 2 /\ v = 4 + 2 * y /\ n = 6 + 2 * x
      <3>1. count = x
        BY <2>12
      <3> QED
        BY <1>5, <2>5, <2>7, <2>10, <2>13, <2>14, <3>1
    <2> HIDE DEF x, y, n, v
    <2>16. n = v + 2 /\ v + 2 = 6 + 2 * y /\ 2 * x = 2 * y
      BY ONLY <2>15
    <2>17. x = y
      BY ONLY <2>15, <2>16
    <2> QED
      BY ONLY <2>15, <2>17
  <1> QED
    BY <1>6, <1>7

\* At the end of the stream, a frame that can be recovered has been found at a place.
LEMMA EndPlace ==
    ASSUME TypeInv, i >= Len(stream) - 3, NEW c, Cuts(c, stream, times), SentSoFar(frames, i, c),
           NEW j \in 0 .. Last2, NEW k \in 0 .. Last2, k = j + 1, SentHow(k) \in Intact
    PROVE  /\ c[j] < i /\ c[j] \in Nat /\ c[k] \in Nat /\ c[j] + 5 <= c[k]
           /\ Recoverable(k) => \E n \in 1 .. Len(frames) : IsSent(frames[n], j, k, c)
  <1>1. BusOK /\ StreamOK /\ WalkOK
    BY DEF TypeInv
  <1>2. c[j] \in Nat /\ c[k] \in Nat /\ c[j] + 5 <= c[k] /\ c[k] <= Len(stream)
    BY <1>1, PieceLong
  <1>3. i \in Nat /\ Len(stream) \in Nat
    BY <1>1, LenProperties DEF WalkOK, StreamOK
  <1>4. c[j] < i
    BY <1>2, <1>3
  <1> QED
    BY <1>2, <1>4 DEF SentSoFar, FoundUpTo

\* A reply to the request before it is found, for its length is that of the request.
LEMMA ReplyPlace ==
    ASSUME TypeInv, FourOK, i >= Len(stream) - 3, NEW c, Cuts(c, stream, times), SentSoFar(frames, i, c),
           NEW l, NEW m, l \in 1 .. Len(bus), m \in 1 .. Len(bus), Adjacent(l, m),
           bus[l].req.fn # 6, bus[l].req.count = bus[m].req.count,
           NEW a \in 1 .. Len(frames), IsSent(frames[a], 2 * l - 2, 2 * l - 1, c)
    PROVE  \E b \in 1 .. Len(frames) : IsSent(frames[b], 2 * m - 1, 2 * m, c)
  <1>1. BusOK /\ StreamOK /\ WalkOK /\ bus \in Seq(Said)
    BY DEF TypeInv, BusOK
  <1> DEFINE j == 2 * m - 1
             k == 2 * m
             k1 == 2 * l - 1
             off(n) == frames[n].off
             end(n) == frames[n].off + Len(frames[n].raw)
  <1>2. j \in 0 .. Last2 /\ k \in 0 .. Last2 /\ k = j + 1 /\ ~Odd(k) /\ Turn(k) = m
    BY <1>1, Places
  <1>3. l <= m /\ Asked(l) /\ Replied(m) /\ l \in Nat /\ m \in Nat
    <2>1. Len(bus) \in Nat
      BY <1>1, LenProperties
    <2> QED
      BY <2>1 DEF Adjacent
  <1>4. k1 <= j /\ k1 \in 0 .. Last2 /\ Odd(k1) /\ Turn(k1) = l
    BY <1>1, <1>3, Places
  <1>5. SentHow(k) \in Intact
    BY <1>2, <1>3 DEF SentHow, Replied
  <1> HIDE DEF j, k
  <1>6. c[j] < i /\ c[j] \in Nat /\ c[k] \in Nat /\ c[j] + 5 <= c[k]
    BY <1>2, <1>5, EndPlace
  <1>7. CASE Recoverable(k)
    BY <1>2, <1>5, <1>7, EndPlace DEF j, k
  <1>8. CASE ~Recoverable(k) /\ ~(\E b \in 1 .. Len(frames) : IsSent(frames[b], j, k, c))
    <2>1. NotTold(k)
      BY <1>2, <1>5, <1>8 DEF Recoverable, NotTold
    <2>2. PICK n : PassedAt(frames, n, c[j], k)
      BY <1>2, <1>6, <1>8, <2>1 DEF SentSoFar, PassedOver
    <2>3. /\ n \in 0 .. Len(frames)
          /\ n # 0 => end(n) <= c[j] /\ Awaited(frames[n]) # {bus[m].req.count}
          /\ n # Len(frames) => c[j] < off(n + 1)
      BY <1>2, <2>2 DEF PassedAt
    <2>4. /\ k1 \in 1 .. Last2 /\ c[k1] = end(a) /\ frames[a].fc = SentBytes(k1)[2]
      BY DEF IsSent, SentAt
    <2>5. Last2 \in Nat /\ c \in [0 .. Last2 -> Nat] /\ \A x, y \in 0 .. Last2 : x <= y => c[x] <= c[y]
      BY <1>1, CutsOrdered
    <2>6. end(a) <= c[j]
      BY <1>2, <1>4, <2>4, <2>5
    <2>7. Len(frames) \in Nat /\ \A b \in 1 .. Len(frames) : off(b) \in Nat /\ end(b) \in Nat /\ off(b) <= end(b)
      <3>1. ASSUME NEW b \in 1 .. Len(frames) PROVE off(b) \in Nat /\ end(b) \in Nat /\ off(b) <= end(b)
        <4>1. frames[b] \in FoundFrame
          BY <1>1, ElementOfSeq DEF WalkOK
        <4>2. frames[b].off \in Nat /\ Len(frames[b].raw) \in Nat
          BY <4>1, LenProperties DEF FoundFrame
        <4> DEFINE x == frames[b].off
                   y == Len(frames[b].raw)
        <4>3. x \in Nat /\ y \in Nat
          BY <4>2
        <4>4. off(b) = x /\ end(b) = x + y
          OBVIOUS
        <4> HIDE DEF x, y, off, end
        <4> QED
          BY <4>3, <4>4
      <3> QED
        BY <1>1, <3>1, LenProperties DEF WalkOK
    <2>8. \A x, y \in 1 .. Len(frames) : x < y => end(x) <= off(y)
      BY <1>1 DEF WalkOK
    <2>9. frames[a].fc # 6
      <3>1. SentBytes(k1)[2] = bus[l].req.fn
        BY <1>1, <1>4, <2>4, AskedValues
      <3> QED
        BY <2>4, <3>1
    <2>10. Awaited(frames[a]) = {bus[l].req.count}
      BY <1>1, <1>4, <2>9, CountAwaited
    <2> HIDE DEF off, end, k1
    <2>11. ~(n < a)
      <3> SUFFICES ASSUME n < a PROVE FALSE
        OBVIOUS
      <3>1. n + 1 \in 1 .. Len(frames) /\ n # Len(frames) /\ (n + 1 = a \/ n + 1 < a)
        BY <2>3, <2>7
      <3>2. off(n + 1) <= end(a)
        <4>1. CASE n + 1 = a
          BY <2>7, <4>1
        <4>2. CASE n + 1 < a
          <5>1. end(n + 1) <= off(a)
            BY <2>8, <3>1, <4>2
          <5>2. off(n + 1) \in Nat /\ end(n + 1) \in Nat /\ off(a) \in Nat /\ end(a) \in Nat
                /\ off(n + 1) <= end(n + 1) /\ off(a) <= end(a)
            BY <2>7, <3>1
          <5> QED
            BY <5>1, <5>2
        <4> QED
          BY <3>1, <4>1, <4>2
      <3>3. off(n + 1) \in Nat /\ c[j] < off(n + 1) /\ end(a) \in Nat
        BY <2>3, <2>7, <3>1
      <3> QED
        BY <1>6, <2>6, <3>2, <3>3
    <2>12. n # a
      BY <2>3, <2>10
    <2>13. n \in 1 .. Len(frames) /\ a + 1 \in 1 .. Len(frames) /\ (n = a + 1 \/ a + 1 < n)
      BY <2>3, <2>7, <2>11, <2>12
    <2>14. end(a + 1) <= c[j] /\ end(a + 1) \in Nat
      <3>1. end(n) <= c[j] /\ end(n) \in Nat /\ off(n) \in Nat /\ off(n) <= end(n) /\ end(a + 1) \in Nat
        BY <2>3, <2>7, <2>13
      <3>2. a + 1 < n => end(a + 1) <= off(n)
        BY <2>8, <2>13
      <3> QED
        BY <1>6, <2>13, <3>1, <3>2
    <2>15. PICK j2, k2 : IsSent(frames[a + 1], j2, k2, c)
      BY <2>13 DEF SentSoFar, AllSent
    <2>16. k2 \in 1 .. Last2 /\ 2 * m <= k2
      BY <2>13, <2>15, NextFound DEF k1
    <2>17. c[k2] = end(a + 1)
      BY <2>15 DEF IsSent, SentAt, end
    <2>18. c[k] <= c[k2]
      BY <1>2, <2>5, <2>16 DEF k
    <2>19. c[k2] <= c[j]
      BY <2>14, <2>17
    <2>20. c[k2] \in Nat
      BY <2>14, <2>17
    <2>21. ASSUME NEW x \in Nat, NEW y \in Nat, NEW z \in Nat, x + 5 <= y, y <= z, z <= x
           PROVE  FALSE
      BY ONLY <2>21
    <2> QED
      BY ONLY <1>6, <2>18, <2>19, <2>20, <2>21
  <1> QED
    BY <1>7, <1>8 DEF j, k

\* An understood reply is found right after its request.
LEMMA UnderstoodPlaces ==
    ASSUME TypeInv, FourOK, i >= Len(stream) - 3, NEW c, Cuts(c, stream, times), SentSoFar(frames, i, c),
           NEW l, NEW m, l \in 1 .. Len(bus), m \in 1 .. Len(bus), Adjacent(l, m),
           bus[l].req.fn # 6, bus[l].req.count = bus[m].req.count
    PROVE  \E a \in 1 .. Len(frames) - 1 : IsSent(frames[a], 2 * l - 2, 2 * l - 1, c) /\ IsSent(frames[a + 1], 2 * m - 1, 2 * m, c)
  <1>1. BusOK /\ StreamOK /\ WalkOK /\ bus \in Seq(Said)
    BY DEF TypeInv, BusOK
  <1>2. /\ Len(bus) \in Nat /\ Len(frames) \in Nat /\ l \in Nat /\ m \in Nat /\ l <= m /\ Asked(l)
    <2>1. Len(bus) \in Nat /\ Len(frames) \in Nat
      BY <1>1, LenProperties DEF WalkOK
    <2> QED
      BY <2>1 DEF Adjacent
  <1> DEFINE j1 == 2 * l - 2
             k1 == 2 * l - 1
  <1>3. j1 \in 0 .. Last2 /\ k1 \in 0 .. Last2 /\ k1 = j1 + 1 /\ Odd(k1) /\ Turn(k1) = l
    BY <1>1, Places
  <1> HIDE DEF j1, k1
  <1>4. SentHow(k1) \in Intact /\ Recoverable(k1)
    BY <1>2, <1>3 DEF SentHow, Asked, Recoverable
  <1>5. PICK a \in 1 .. Len(frames) : IsSent(frames[a], j1, k1, c)
    BY <1>3, <1>4, EndPlace
  <1>6. PICK b \in 1 .. Len(frames) : IsSent(frames[b], 2 * m - 1, 2 * m, c)
    BY <1>5, ReplyPlace DEF j1, k1
  <1>7. ~(b < a)
    <2>1. b < a => 2 * m < k1
      BY <1>1, <1>5, <1>6, FoundInOrder
    <2> QED
      BY <1>2, <2>1 DEF k1
  <1>8. b # a
    <2> SUFFICES ASSUME b = a PROVE FALSE
      OBVIOUS
    <2>1. /\ j1 \in 0 .. Last2 /\ k1 \in 0 .. Last2 /\ k1 = j1 + 1 /\ c[j1] = frames[a].off
          /\ c[k1] = frames[a].off + Len(frames[a].raw) /\ SentHow(k1) \in Intact
      BY <1>3, <1>4, <1>5 DEF IsSent, SentAt
    <2>2. /\ c[2 * m - 1] = frames[a].off /\ c[2 * m] = frames[a].off + Len(frames[a].raw)
      BY <1>6 DEF IsSent, SentAt
    <2>3. c[j1] + 5 <= c[k1] /\ c[j1] \in Nat /\ c[k1] \in Nat
      BY <1>1, <2>1, PieceLong
    <2>4. 2 * m - 1 \in 0 .. Last2 /\ k1 <= 2 * m - 1
      BY <1>1, <1>2, Places DEF k1
    <2>5. c[k1] <= c[2 * m - 1]
      BY <1>1, <2>1, <2>4, CutsOrdered
    <2> QED
      BY <2>1, <2>2, <2>3, <2>5
  <1>9. a + 1 \in 1 .. Len(frames) /\ a + 1 <= b
    BY <1>2, <1>7, <1>8
  <1>10. PICK j2, k2 : IsSent(frames[a + 1], j2, k2, c)
    BY <1>9 DEF SentSoFar, AllSent
  <1>11. k2 \in 1 .. Last2 /\ 2 * m <= k2
    <2> DEFINE n == a + 1
    <2>1. n \in 1 .. Len(frames) /\ n = a + 1 /\ IsSent(frames[n], j2, k2, c) /\ k1 = 2 * l - 1
      BY <1>9, <1>10 DEF k1
    <2> HIDE DEF n
    <2> QED
      BY <1>5, <2>1, NextFound
  <1>12. b = a + 1
    <2> SUFFICES ASSUME a + 1 < b PROVE FALSE
      BY <1>2, <1>9
    <2>1. k2 < 2 * m
      BY <1>1, <1>6, <1>9, <1>10, FoundInOrder
    <2>2. k2 \in Nat
      BY <1>11
    <2> QED
      BY <1>2, <1>11, <2>1, <2>2
  <1>13. a \in 1 .. Len(frames) - 1
    BY <1>2, <1>9
  <1> QED
    BY <1>5, <1>6, <1>12, <1>13 DEF j1, k1

\* Two frames found one after the other tell of the exchanges they are of.
LEMMA PlacesTell ==
    ASSUME TypeInv, NEW c, Cuts(c, stream, times), NEW l, NEW m, l \in 1 .. Len(bus), m \in 1 .. Len(bus), Adjacent(l, m),
           NEW a \in 1 .. Len(frames), NEW b \in 1 .. Len(frames),
           IsSent(frames[a], 2 * l - 2, 2 * l - 1, c), IsSent(frames[b], 2 * m - 1, 2 * m, c)
    PROVE  /\ Telling(frames[a], frames[b], l, m)
           /\ frames[a].fc # 6 => frames[a].role = "request"
           /\ frames[b].fc # 6 => frames[b].role = "response"
  <1>1. BusOK /\ StreamOK /\ WalkOK /\ bus \in Seq(Said)
    BY DEF TypeInv, BusOK
  <1> DEFINE j1 == 2 * l - 2
             k1 == 2 * l - 1
             j2 == 2 * m - 1
             k2 == 2 * m
  <1>2. Odd(k1) /\ Turn(k1) = l /\ ~Odd(k2) /\ Turn(k2) = m
    BY <1>1, Places
  <1>3. IsSent(frames[a], j1, k1, c) /\ IsSent(frames[b], j2, k2, c)
    OBVIOUS
  <1> HIDE DEF j1, k1, j2, k2
  <1>4. /\ k1 \in 1 .. Last2 /\ SentHow(k1) \in Intact /\ k2 \in 1 .. Last2 /\ SentHow(k2) \in Intact
        /\ frames[a].ts = SentTime(k1) /\ frames[b].ts = SentTime(k2)
        /\ frames[a].fc # 6 => frames[a].role = Role(k1)
        /\ frames[b].fc # 6 => frames[b].role = Role(k2)
    BY <1>3 DEF IsSent, SentAt
  <1>5. frames[a].ts = bus[l].t /\ frames[b].ts = ReplyTime(m)
    BY <1>2, <1>4 DEF SentTime
  <1>6. SentBytes(k1) = RequestValues(bus[l].req) /\ SentBytes(k2) = ReplyValues(bus[m])
    BY <1>2 DEF SentBytes
  <1>7. /\ ValuesAt(SentBytes(k1), frames[a].off, Len(frames[a].raw), frames[a].raw)
        /\ frames[a].device = SentBytes(k1)[1] /\ frames[a].fc = SentBytes(k1)[2]
    BY <1>1, <1>3, FrameSays
  <1>8. /\ ValuesAt(SentBytes(k2), frames[b].off, Len(frames[b].raw), frames[b].raw)
        /\ frames[b].device = SentBytes(k2)[1] /\ frames[b].fc = SentBytes(k2)[2]
    BY <1>1, <1>3, FrameSays
  <1>9. SentBytes(k1)[1] = bus[l].req.dev /\ SentBytes(k2)[1] = bus[m].req.dev /\ SentBytes(k1)[2] = bus[l].req.fn
    BY <1>1, <1>2, <1>4, DeviceSaid, AskedValues
  <1>10. Telling(frames[a], frames[b], l, m)
    BY <1>5, <1>6, <1>7, <1>8, <1>9 DEF Telling
  <1> QED
    BY <1>2, <1>4, <1>10 DEF Role

\* The registers that a pair asked for, and got, are those that it says something of.
LEMMA PairCovers ==
    ASSUME TypeInv, NEW a \in 1 .. Len(frames), NEW b \in 1 .. Len(frames), NEW l, NEW m,
           Telling(frames[a], frames[b], l, m), bus[m].answer = "data", bus[l].req = bus[m].req, bus[m].req.fn # 6
    PROVE  /\ frames[a].fc = bus[m].req.fn /\ frames[b].fc = bus[m].req.fn /\ frames[a].device = frames[b].device
           /\ \A reg \in bus[m].req.start .. bus[m].req.start + bus[m].req.count - 1 :
                 <<bus[m].req.dev, bus[m].req.fn, reg>> \in DOMAIN DecodePairUpdates(frames[a], frames[b])
  <1> DEFINE f == frames[a]
             g == frames[b]
             q == bus[m].req
  <1>1. bus \in Seq(Said) /\ WalkOK
    BY DEF TypeInv, BusOK
  <1>2. /\ l \in 1 .. Len(bus) /\ m \in 1 .. Len(bus) /\ f.device = q.dev /\ f.fc = q.fn /\ g.device = q.dev
        /\ ValuesAt(RequestValues(q), f.off, Len(f.raw), f.raw) /\ g.fc = ReplyValues(bus[m])[2]
    BY DEF Telling
  <1>3. bus[m] \in Said
    BY <1>1, <1>2, ElementOfSeq
  <1>4. q \in Queries /\ q \in Request
    BY <1>3, WireAssumption DEF Said
  <1>5. q.fn \in {3, 4} /\ q.count \in Nat /\ q.start \in Nat
    BY <1>4, CountIs
  <1>6. g.fc = q.fn
    <2>1. ReplyValues(bus[m])[2] = q.fn
      BY <1>3, ReplySaid
    <2> QED
      BY <1>2, <2>1
  <1>7. f \in FoundFrame /\ g \in FoundFrame
    BY <1>1, ElementOfSeq DEF WalkOK
  <1>8. Len(f.raw) \in Nat /\ Len(g.raw) \in Nat
    BY <1>7, LenProperties DEF FoundFrame
  <1>a. Telling(f, g, l, m)
    OBVIOUS
  <1> HIDE DEF f, g
  <1>9. Holding(g.raw, bus[m])
    <2>1. g.fc < 128 /\ g.fc # 6
      BY <1>5, <1>6
    <2> QED
      BY <1>1, <1>8, <1>a, <2>1, TellingHolds
  <1>10. /\ Len(g.raw) = Header(q.fn) + 2 * q.count + 2
         /\ q.fn = 3 => g.raw[3].v = 2 * q.count
         /\ q.fn = 4 => WordAt(g.raw, 2) = q.start
    BY <1>9 DEF Holding
  <1> HIDE DEF q
  <1>11. WordAt(f.raw, 2) = q.start /\ WordAt(f.raw, 4) = q.count
    BY <1>2, <1>4, <1>8, RequestRead
  <1>12. DOMAIN DecodePairUpdates(f, g) = RegistersAsked(f)
    <2> DEFINE bytes == 2 * WordAt(f.raw, 4)
               A == g.raw[3].v = bytes /\ Len(g.raw) >= bytes + 5
               B == WordAt(g.raw, 2) = WordAt(f.raw, 2) /\ Len(g.raw) >= bytes + 6
               write == [r \in {<<f.device, 6, WordAt(f.raw, 2)>>} |-> WordAt(f.raw, 4)]
               d == DecodePairUpdates(f, g)
    <2>1. d = CASE g.fc = f.fc + 128 -> NoUpdates
                [] g.fc = 3 -> IF A THEN BlockUpdates(f, g, 3) ELSE NoUpdates
                [] g.fc = 4 -> IF B THEN BlockUpdates(f, g, 4) ELSE NoUpdates
                [] g.fc = 6 -> write
      BY DEF DecodePairUpdates
    <2>2. \A at : DOMAIN BlockUpdates(f, g, at) = RegistersAsked(f)
      BY DEF BlockUpdates
    <2>3. q.fn = 3 => A
      BY <1>5, <1>10, <1>11 DEF Header
    <2>4. q.fn = 4 => B
      BY <1>5, <1>10, <1>11 DEF Header
    <2> HIDE DEF A, B, write, d
    <2>5. CASE q.fn = 3
      <3>1. d = BlockUpdates(f, g, 3)
        BY <1>2, <1>6, <2>1, <2>3, <2>5
      <3> QED
        BY <2>2, <3>1 DEF d
    <2>6. CASE q.fn = 4
      <3>1. d = BlockUpdates(f, g, 4)
        BY <1>2, <1>6, <2>1, <2>4, <2>6
      <3> QED
        BY <2>2, <3>1 DEF d
    <2> QED
      BY <1>5, <2>5, <2>6
  <1>13. RegistersAsked(f) = {<<q.dev, q.fn, reg>> : reg \in q.start .. q.start + q.count - 1}
    BY <1>2, <1>11 DEF RegistersAsked
  <1> QED
    BY <1>2, <1>6, <1>12, <1>13 DEF f, g, q

\* What the reply of m says of a register.
WordOf(m, key) == Unsigned(Reading(key[2], key[1], key[3], bus[m].level))

\* Replies have times.
LEMMA ReplyTimes ==
    ASSUME BusOK, NEW m \in 1 .. Len(bus)
    PROVE  bus[m] \in Said /\ bus[m].t \in Nat /\ ReplyTime(m) \in Nat
  <1>1. bus[m] \in Said
    BY ElementOfSeq DEF BusOK
  <1>2. bus[m].t \in Nat /\ Turnaround \in Nat
    BY <1>1, WireAssumption DEF Said
  <1> QED
    BY <1>1, <1>2 DEF ReplyTime

\* When nothing was misread, a pair says of a register what an understood reply says of it.
LEMMA SayingIsSource ==
    ASSUME TypeInv, SentInv, FourOK, phase # "bus", NEW T \in Nat, NothingMisread(T), NEW a \in PairPlaces, frames[a + 1].ts <= T,
           NEW key \in DOMAIN DecodePairUpdates(frames[a], frames[a + 1]), key[2] # 6
    PROVE  \E m \in Sources(key, T) : frames[a + 1].ts = ReplyTime(m)
                                      /\ DecodePairUpdates(frames[a], frames[a + 1])[key] = WordOf(m, key)
  <1> DEFINE f == frames[a]
             g == frames[a + 1]
             d == DecodePairUpdates(f, g)
  <1>1. PICK l, m : SaysOf(f, g, key, l, m)
    BY PairSays
  <1>a. g.ts <= T
    OBVIOUS
  <1> DEFINE p == bus[l].req
             q == bus[m].req
             k == key[3] - q.start
             H == Header(q.fn)
  <1> HIDE DEF f, g, d
  <1>2. BusOK
    BY DEF TypeInv
  <1>3. /\ l \in 1 .. Len(bus) /\ m \in 1 .. Len(bus) /\ g.ts = ReplyTime(m) /\ Adjacent(l, m)
        /\ Holding(g.raw, bus[m]) /\ p \in Queries /\ q \in Queries /\ p.fn \in {3, 4}
        /\ SameBlock(p, q) /\ RegisterOf(p, key)
        /\ d[key] = WordAt(g.raw, Header(p.fn) + 2 * (key[3] - p.start))
    BY <1>1 DEF SaysOf, Telling, d
  <1>4. p \in Request /\ q \in Request
    BY <1>3, WireAssumption
  <1>5. DOMAIN bus = 1 .. Len(bus) /\ Len(bus) \in Nat
    BY <1>2, LenProperties DEF BusOK
  <1>6. bus[m].answer = "data" /\ bus[m].level \in {0, 1}
    <2>1. bus[m] \in Said
      BY <1>2, <1>3, ReplyTimes
    <2> QED
      BY <1>3, <2>1 DEF Holding, Said
  <1>7. ReplyTime(m) \in Nat /\ ReplyTime(m) <= T
    BY <1>2, <1>3, <1>a, ReplyTimes
  <1>8. ~Misread(l, m)
    <2>1. Misread(l, m) => ReplyTime(m) > T
      BY <1>3, <1>5 DEF NothingMisread
    <2> QED
      BY <1>7, <2>1
  <1>9. p.start = q.start
    <2>1. CASE p.fn = 3
      BY <1>3, <1>6, <1>8, <2>1 DEF Misread, SameBlock
    <2>2. CASE p.fn = 4
      BY <1>3, <2>2 DEF SameBlock
    <2> QED
      BY <1>3, <2>1, <2>2
  <1>10. p = q
    <2>1. p.dev = q.dev /\ p.fn = q.fn /\ p.count = q.count
      BY <1>3 DEF SameBlock, SameTarget
    <2> HIDE DEF p, q
    <2> QED
      BY <1>4, <1>9, <2>1 DEF Request
  <1>11. Understood(m)
    <2>1. l <= m
      BY <1>3 DEF Adjacent
    <2>2. l \in 1 .. m
      BY <1>3, <1>5, <2>1
    <2> QED
      BY <1>3, <1>6, <1>10, <2>2 DEF Understood
  <1> HIDE DEF p, q
  <1>12. key = <<q.dev, q.fn, key[3]>> /\ key[3] \in q.start .. q.start + q.count - 1
    BY <1>3, <1>10 DEF RegisterOf
  <1>13. key[1] = q.dev /\ key[2] = q.fn
    BY <1>12
  <1>14. Covers(q, key)
    BY <1>12, <1>13 DEF Covers
  <1>15. m \in Sources(key, T)
    BY <1>3, <1>5, <1>7, <1>11, <1>14 DEF Sources, q
  <1>16. q.count \in Nat /\ q.start \in Nat
    BY <1>3, CountIs
  <1>17. k \in Nat /\ k < q.count /\ q.start + k = key[3] /\ key[3] \in Int
    BY <1>12, <1>16
  <1>18. d[key] = WordAt(g.raw, H + 2 * k)
    BY <1>3, <1>10
  <1> HIDE DEF k, H, d
  <1>19. /\ 2 * k + 1 \in 1 .. 2 * q.count /\ 2 * k + 2 \in 1 .. 2 * q.count
         /\ 256 * Data(q, bus[m].level)[2 * k + 1] + Data(q, bus[m].level)[2 * k + 2] = WordOf(m, key)
    <2>1. /\ 2 * k + 1 \in 1 .. 2 * q.count /\ 2 * k + 2 \in 1 .. 2 * q.count
          /\ 256 * Data(q, bus[m].level)[2 * k + 1] + Data(q, bus[m].level)[2 * k + 2]
             = Unsigned(Reading(q.fn, q.dev, q.start + k, bus[m].level))
      BY <1>4, <1>6, <1>17, WordSaid
    <2> QED
      BY <1>13, <1>17, <2>1 DEF WordOf
  <1>20. \A b \in 1 .. 2 * q.count : g.raw[H + b].v = Data(q, bus[m].level)[b]
    BY <1>3 DEF Holding, q, H
  <1>21. WordAt(g.raw, H + 2 * k) = 256 * g.raw[H + (2 * k + 1)].v + g.raw[H + (2 * k + 2)].v
    <2>1. H + 2 * k + 1 = H + (2 * k + 1) /\ H + 2 * k + 2 = H + (2 * k + 2)
      <3>1. H \in Nat
        BY DEF H, Header
      <3> QED
        BY <1>17, <3>1
    <2> QED
      BY <2>1 DEF WordAt
  <1>22. d[key] = WordOf(m, key)
    BY <1>18, <1>19, <1>20, <1>21
  <1> QED
    BY <1>3, <1>15, <1>22 DEF f, g, d

\* What an understood reply says of a register, a pair says.
LEMMA SourceIsSaying ==
    ASSUME TypeInv, SentInv, FourOK, phase # "bus", i >= Len(stream) - 3, NEW T, NEW key, NEW m \in Sources(key, T),
           key = <<key[1], key[2], key[3]>>, key[2] # 6
    PROVE  \E a \in PairPlaces : /\ key \in DOMAIN DecodePairUpdates(frames[a], frames[a + 1])
                                 /\ frames[a + 1].ts = ReplyTime(m) /\ frames[a].fc # 6
  <1> DEFINE q == bus[m].req
  <1>1. BusOK /\ WalkOK /\ bus \in Seq(Said)
    BY DEF TypeInv, BusOK
  <1>2. m \in DOMAIN bus /\ Understood(m) /\ Covers(q, key)
    BY DEF Sources
  <1>3. m \in 1 .. Len(bus) /\ Len(bus) \in Nat /\ Len(frames) \in Nat
    BY <1>1, <1>2, LenProperties DEF WalkOK
  <1>4. PICK l \in 1 .. m : Adjacent(l, m) /\ bus[l].req = q
    BY <1>2 DEF Understood
  <1>5. l \in 1 .. Len(bus) /\ bus[m].answer = "data"
    BY <1>2, <1>3 DEF Understood
  <1>6. q.dev = key[1] /\ q.fn = key[2] /\ key[3] \in q.start .. q.start + q.count - 1
    BY <1>2 DEF Covers
  <1>7. PICK c : Cuts(c, stream, times) /\ SentSoFar(frames, i, c)
    BY DEF SentInv
  <1>8. bus[l].req.fn # 6 /\ bus[l].req.count = bus[m].req.count /\ bus[l].req = bus[m].req /\ bus[m].req.fn # 6
    BY <1>4, <1>6
  <1>9. PICK a \in 1 .. Len(frames) - 1 :
            IsSent(frames[a], 2 * l - 2, 2 * l - 1, c) /\ IsSent(frames[a + 1], 2 * m - 1, 2 * m, c)
    BY <1>3, <1>4, <1>5, <1>7, <1>8, UnderstoodPlaces
  <1> DEFINE b == a + 1
  <1>10. a \in 1 .. Len(frames) /\ b \in 1 .. Len(frames) /\ b = a + 1
    BY <1>3
  <1>a. IsSent(frames[a], 2 * l - 2, 2 * l - 1, c) /\ IsSent(frames[b], 2 * m - 1, 2 * m, c)
    BY <1>9
  <1> HIDE DEF b
  <1>11. /\ Telling(frames[a], frames[b], l, m)
         /\ frames[a].fc # 6 => frames[a].role = "request"
         /\ frames[b].fc # 6 => frames[b].role = "response"
    BY <1>3, <1>4, <1>5, <1>7, <1>10, <1>a, PlacesTell
  <1>12. /\ frames[a].fc = q.fn /\ frames[b].fc = q.fn /\ frames[a].device = frames[b].device
         /\ \A reg \in q.start .. q.start + q.count - 1 :
               <<q.dev, q.fn, reg>> \in DOMAIN DecodePairUpdates(frames[a], frames[b])
    BY <1>5, <1>8, <1>10, <1>11, PairCovers
  <1> HIDE DEF q
  <1>13. IsPairOrException(frames[a], frames[b])
    BY <1>6, <1>11, <1>12 DEF IsPairOrException
  <1>14. a \in PairPlaces
    BY <1>10, <1>13 DEF PairPlaces
  <1>15. <<q.dev, q.fn, key[3]>> \in DOMAIN DecodePairUpdates(frames[a], frames[b])
    BY <1>6, <1>12
  <1>16. key \in DOMAIN DecodePairUpdates(frames[a], frames[b])
    <2>1. key = <<q.dev, q.fn, key[3]>>
      BY <1>6
    <2> QED
      BY <1>15, <2>1
  <1>17. frames[b].ts = ReplyTime(m)
    BY <1>11 DEF Telling
  <1> QED
    BY <1>6, <1>10, <1>12, <1>14, <1>16, <1>17

\* Every update is that of a pair, and they are in the order of their pairs.
UpdatePlace(u, n) == n \in PairPlaces /\ Rank(PairPlaces, n) = u /\ updates[u] = UpdateOf(n)

\* Each update has its pair, each pair its update, in one order.
LEMMA UpdatePlaces ==
    ASSUME WalkOK, MadeInv, phase = "rows"
    PROVE  /\ Cardinality(PairPlaces) \in Nat /\ DOMAIN updates = 1 .. Cardinality(PairPlaces)
           /\ \A u \in DOMAIN updates : \E n : UpdatePlace(u, n)
           /\ \A n \in PairPlaces : Rank(PairPlaces, n) \in DOMAIN updates /\ UpdatePlace(Rank(PairPlaces, n), n)
           /\ \A m, n, u, w : UpdatePlace(u, m) /\ UpdatePlace(w, n) /\ u <= w => m <= n
  <1> DEFINE S == PairPlaces
             C == Cardinality(S)
  <1>1. Len(frames) \in Nat
    BY LenProperties DEF WalkOK
  <1>2. S \in SUBSET (1 .. Len(frames))
    BY <1>1 DEF PairPlaces
  <1>3. DOMAIN updates = 1 .. C /\ \A n \in S : updates[Rank(S, n)] = UpdateOf(n)
    BY DEF MadeInv
  <1> HIDE DEF S
  <1>4. /\ C \in Nat /\ (\A n \in S : Rank(S, n) \in 1 .. C)
        /\ \A m, n \in S : m < n => Rank(S, m) < Rank(S, n)
        /\ \A k \in 1 .. C : \E n \in S : Rank(S, n) = k
    BY <1>1, <1>2, Ranks
  <1>5. \A u \in DOMAIN updates : \E n : UpdatePlace(u, n)
    BY <1>3, <1>4 DEF UpdatePlace, S
  <1>6. \A n \in S : Rank(S, n) \in DOMAIN updates /\ UpdatePlace(Rank(S, n), n)
    BY <1>3, <1>4 DEF UpdatePlace, S
  <1>7. ASSUME NEW m, NEW n, NEW u, NEW w, UpdatePlace(u, m), UpdatePlace(w, n), u <= w PROVE m <= n
    <2>1. m \in S /\ n \in S /\ Rank(S, m) = u /\ Rank(S, n) = w
      BY <1>7 DEF UpdatePlace, S
    <2>2. m \in Nat /\ n \in Nat /\ u \in Nat /\ w \in Nat
      BY <1>2, <1>4, <2>1
    <2>3. n < m => w < u
      BY <1>4, <2>1
    <2> QED
      BY <1>7, <2>2, <2>3
  <1> QED
    BY <1>3, <1>4, <1>5, <1>6, <1>7 DEF S

\* The updates have their times in their order, when the inverter does not hurry.
LEMMA UpdatesInOrder ==
    ASSUME Unhurried, TypeInv, SentInv, MadeInv, phase = "rows"
    PROVE  /\ \A u \in DOMAIN updates : updates[u].ts \in Nat
           /\ \A u, w \in DOMAIN updates : u <= w => updates[u].ts <= updates[w].ts
  <1>1. WalkOK /\ phase # "bus"
    BY DEF TypeInv
  <1>2. ASSUME NEW u \in DOMAIN updates, NEW w \in DOMAIN updates
        PROVE  updates[u].ts \in Nat /\ (u <= w => updates[u].ts <= updates[w].ts)
    <2>1. PICK a : UpdatePlace(u, a)
      BY <1>1, UpdatePlaces
    <2>2. PICK b : UpdatePlace(w, b)
      BY <1>1, UpdatePlaces
    <2>3. a \in PairPlaces /\ b \in PairPlaces /\ updates[u].ts = frames[a + 1].ts /\ updates[w].ts = frames[b + 1].ts
      BY <2>1, <2>2 DEF UpdatePlace, UpdateOf
    <2>4. frames[a + 1].ts \in Nat /\ (a <= b => frames[a + 1].ts <= frames[b + 1].ts)
      BY <1>1, <2>3, PairsInOrder
    <2>5. u <= w => a <= b
      BY <1>1, <2>1, <2>2, UpdatePlaces
    <2> QED
      BY <2>3, <2>4, <2>5
  <1> QED
    BY <1>2

\* What is known of a register is what the last understood reply says of it.
KnownIs(w, key, T) ==
    /\ key \in DOMAIN KnownAfter(w) => KnownAfter(w)[key] = TrueWord(key, T) /\ TrueWord(key, T) \in Word
    /\ key \notin DOMAIN KnownAfter(w) => TrueWord(key, T) = Unknown

\* It is what the battery held, as long as no reply is misread.
LEMMA KnownIsTrue ==
    ASSUME Unhurried, TypeInv, SentInv, FourOK, MadeInv, phase = "rows", NEW w \in DOMAIN updates, NEW T, T = updates[w].ts,
           NothingMisread(T), NEW key, key = <<key[1], key[2], key[3]>>, key[2] # 6
    PROVE  KnownIs(w, key, T)
  <1> DEFINE S == Sayings(w, key)
             M == Sources(key, T)
             Says(u, m) == /\ u \in S /\ m \in M /\ updates[u].ts = ReplyTime(m) /\ updates[u].regs[key] = WordOf(m, key)
  <1>1. BusOK /\ WalkOK /\ StreamOK /\ phase # "bus" /\ ClockRuns /\ i >= Len(stream) - 3
    BY UnhurriedRuns DEF TypeInv, MadeInv
  <1>2. Cardinality(PairPlaces) \in Nat /\ DOMAIN updates = 1 .. Cardinality(PairPlaces) /\ Len(bus) \in Nat
        /\ DOMAIN bus = 1 .. Len(bus)
    BY <1>1, UpdatePlaces, LenProperties DEF BusOK
  <1>3. w \in Nat /\ \A u \in 1 .. w : u \in DOMAIN updates /\ u <= w
    BY <1>2
  <1>4. T \in Nat /\ \A u, v \in DOMAIN updates : u <= v => updates[u].ts <= updates[v].ts
    BY UpdatesInOrder
  <1>5. S \subseteq 1 .. w /\ \A u \in S : key \in DOMAIN updates[u].regs
    BY DEF Sayings, KeysOf
  <1>6. M \subseteq 1 .. Len(bus)
    BY <1>2 DEF Sources
  <1>7. ASSUME NEW u \in S PROVE \E m : Says(u, m)
    <2>1. u \in DOMAIN updates /\ updates[u].ts <= T /\ key \in DOMAIN updates[u].regs
      BY <1>3, <1>4, <1>5
    <2>2. PICK a : UpdatePlace(u, a)
      BY <1>1, <2>1, UpdatePlaces
    <2>3. /\ a \in PairPlaces /\ frames[a + 1].ts = updates[u].ts
          /\ updates[u].regs = DecodePairUpdates(frames[a], frames[a + 1])
      BY <2>2 DEF UpdatePlace, UpdateOf
    <2>4. PICK m \in M : frames[a + 1].ts = ReplyTime(m) /\ DecodePairUpdates(frames[a], frames[a + 1])[key] = WordOf(m, key)
      <3>1. frames[a + 1].ts <= T /\ key \in DOMAIN DecodePairUpdates(frames[a], frames[a + 1])
        BY <2>1, <2>3
      <3> QED
        BY <1>1, <1>4, <2>3, <3>1, SayingIsSource
    <2> QED
      BY <2>3, <2>4
  <1>8. ASSUME NEW m \in M PROVE \E u \in S : updates[u].ts = ReplyTime(m)
    <2>1. PICK a \in PairPlaces : /\ key \in DOMAIN DecodePairUpdates(frames[a], frames[a + 1])
                                  /\ frames[a + 1].ts = ReplyTime(m) /\ frames[a].fc # 6
      BY <1>1, SourceIsSaying
    <2> DEFINE u == Rank(PairPlaces, a)
    <2>2. u \in DOMAIN updates /\ UpdatePlace(u, a)
      BY <1>1, UpdatePlaces
    <2> HIDE DEF u
    <2>3. updates[u].ts = ReplyTime(m) /\ key \in KeysOf(u)
      BY <2>1, <2>2 DEF UpdatePlace, UpdateOf, KeysOf
    <2>4. PICK b : UpdatePlace(w, b)
      BY <1>1, UpdatePlaces
    <2>5. b \in PairPlaces /\ frames[b + 1].ts = T
      BY <2>4 DEF UpdatePlace, UpdateOf
    <2>6. ReplyTime(m) <= T /\ ReplyTime(m) \in Nat
      <3>1. m \in 1 .. Len(bus)
        BY <1>6
      <3> QED
        BY <1>1, <3>1, ReplyTimes DEF Sources
    <2>7. ~(b < a)
      <3>1. b < a => frames[b + 1].ts < frames[a].ts /\ frames[a].ts <= frames[a + 1].ts
        BY <1>1, <2>1, <2>5, PairsInOrder
      <3>2. frames[a].ts \in Nat
        BY <1>1, <2>1, PairsInOrder
      <3> QED
        BY <1>4, <2>1, <2>5, <2>6, <3>1, <3>2
    <2>8. u <= w
      <3>1. w <= u => b <= a
        BY <1>1, <2>2, <2>4, UpdatePlaces
      <3>2. a \in Nat /\ b \in Nat /\ u \in Nat
        <4>1. Len(frames) \in Nat
          BY <1>1, LenProperties DEF WalkOK
        <4> QED
          BY <1>2, <2>1, <2>2, <2>5, <4>1 DEF PairPlaces
      <3>3. a = b => u = w
        BY <2>2, <2>4 DEF UpdatePlace
      <3> QED
        BY <1>3, <2>7, <3>1, <3>2, <3>3
    <2>9. u \in S
      BY <1>2, <1>3, <2>2, <2>3, <2>8 DEF Sayings
    <2> QED
      BY <2>3, <2>9
  <1>9. DOMAIN KnownAfter(w) = UNION {KeysOf(l) : l \in 1 .. w} /\ (key \in DOMAIN KnownAfter(w) => KnownAfter(w)[key] = updates[Max(S)].regs[key])
    BY KnownParts
  <1>10. key \in DOMAIN KnownAfter(w) <=> S # {}
    BY <1>9 DEF Sayings
  <1>11. TrueWord(key, T) = IF M = {} THEN Unknown ELSE WordOf(Max(M), key)
    BY DEF TrueWord, WordOf
  <1> HIDE DEF S, M
  <1>12. CASE S = {}
    <2>1. M = {}
      BY <1>8, <1>12
    <2> QED
      BY <1>10, <1>11, <1>12, <2>1 DEF KnownIs
  <1>13. CASE S # {}
    <2> DEFINE u == Max(S)
               m == Max(M)
    <2>1. u \in S /\ \A v \in S : v <= u
      <3>1. S \in SUBSET (0 .. w)
        BY <1>5
      <3> QED
        BY <1>3, <1>13, <3>1, Greatest
    <2> HIDE DEF u
    <2>2. PICK h : Says(u, h)
      BY <1>7, <2>1
    <2>3. m \in M /\ \A v \in M : v <= m
      <3>1. M \in SUBSET (0 .. Len(bus))
        BY <1>6
      <3> QED
        BY <1>2, <2>2, <3>1, Greatest
    <2> HIDE DEF m
    <2>4. PICK v \in S : updates[v].ts = ReplyTime(m)
      BY <1>8, <2>3
    <2>5. updates[v].ts <= updates[u].ts
      BY <1>3, <1>4, <1>5, <2>1, <2>4
    <2>6. h \in 1 .. Len(bus) /\ m \in 1 .. Len(bus) /\ h <= m
      BY <1>6, <2>2, <2>3
    <2>7. ReplyTime(m) <= ReplyTime(h) /\ ReplyTime(m) \in Nat /\ ReplyTime(h) \in Nat
      <3>1. ReplyTime(m) \in Nat /\ ReplyTime(h) \in Nat
        BY <1>1, <2>6, ReplyTimes
      <3> QED
        BY <2>2, <2>4, <2>5, <3>1
    <2>8. h = m
      <3>1. h < m => ReplyTime(h) < ReplyTime(m)
        BY <1>1, <2>6, TimesDiffer
      <3> QED
        BY <1>2, <2>6, <2>7, <3>1
    <2>9. KnownAfter(w)[key] = WordOf(m, key)
      BY <1>9, <1>10, <1>13, <2>2, <2>8 DEF u
    <2>10. TrueWord(key, T) = WordOf(m, key)
      BY <1>11, <2>3 DEF m
    <2>11. WordOf(m, key) \in Word
      <3>1. bus[m] \in Said /\ Covers(bus[m].req, key)
        BY <1>1, <2>3, <2>6, ReplyTimes DEF Sources, M
      <3>2. bus[m].req \in Queries /\ bus[m].req \in Request /\ bus[m].level \in {0, 1}
        BY <3>1, WireAssumption DEF Said
      <3>3. bus[m].req.fn \in Int /\ bus[m].req.dev \in Int /\ bus[m].req.start \in Int /\ bus[m].req.count \in Int /\ bus[m].level \in Int
        <4> DEFINE q == bus[m].req
        <4>1. q \in Request
          BY <3>2
        <4> HIDE DEF q
        <4>2. q.start \in Word /\ q.count \in Word /\ q.fn \in Byte /\ q.dev \in Byte
          BY <4>1, RequestParts
        <4>3. q.start \in Int /\ q.count \in Int /\ q.fn \in Int /\ q.dev \in Int
          BY <4>2, Words DEF Byte
        <4> QED
          BY <3>2, <4>3 DEF q
      <3>4. key[1] \in Int /\ key[2] \in Int /\ key[3] \in Int
        BY <3>1, <3>3 DEF Covers
      <3> DEFINE level == bus[m].level
                 x == key[1]
                 y == key[2]
                 z == key[3]
      <3>5. Reading(y, x, z, level) \in Int
        <4>1. level \in Int /\ x \in Int /\ y \in Int /\ z \in Int
          BY <3>3, <3>4
        <4> HIDE DEF level, x, y, z
        <4> QED
          BY <4>1 DEF Reading
      <3> QED
        BY <3>5, UnsignedWord DEF WordOf
    <2> QED
      BY <1>10, <1>13, <2>9, <2>10, <2>11 DEF KnownIs
  <1> QED
    BY <1>12, <1>13

\* A bit of a word, by division and by remainder.
Halved(w, d, e) == w \div d - 2 * (w \div e) = (w \div d) % 2
BitIs(w, b) == Halved(w, 2 ^ b, 2 ^ (b + 1))

\* A bit is what halving leaves over, at every place of a word.
LEMMA BitHalves ==
    ASSUME NEW w \in Nat, w <= 65535, NEW b \in 0 .. 15
    PROVE  BitIs(w, b)
  <1>1. CASE b = 0
    <2>1. 2 ^ b = 1 /\ 2 ^ (b + 1) = 2
      BY <1>1
    <2> DEFINE d == 2 ^ b
               e == 2 ^ (b + 1)
    <2>2. d = 1 /\ e = 2
      BY <2>1
    <2> HIDE DEF d, e
    <2>3. Halved(w, d, e)
      BY <2>2 DEF Halved
    <2> QED
      BY <2>3 DEF BitIs, d, e
  <1>2. CASE b = 1
    <2>1. 2 ^ b = 2 /\ 2 ^ (b + 1) = 4
      BY <1>2
    <2> DEFINE d == 2 ^ b
               e == 2 ^ (b + 1)
    <2>2. d = 2 /\ e = 4
      BY <2>1
    <2> HIDE DEF d, e
    <2>3. Halved(w, d, e)
      BY <2>2 DEF Halved
    <2> QED
      BY <2>3 DEF BitIs, d, e
  <1>3. CASE b = 2
    <2>1. 2 ^ b = 4 /\ 2 ^ (b + 1) = 8
      BY <1>3
    <2> DEFINE d == 2 ^ b
               e == 2 ^ (b + 1)
    <2>2. d = 4 /\ e = 8
      BY <2>1
    <2> HIDE DEF d, e
    <2>3. Halved(w, d, e)
      BY <2>2 DEF Halved
    <2> QED
      BY <2>3 DEF BitIs, d, e
  <1>4. CASE b = 3
    <2>1. 2 ^ b = 8 /\ 2 ^ (b + 1) = 16
      BY <1>4
    <2> DEFINE d == 2 ^ b
               e == 2 ^ (b + 1)
    <2>2. d = 8 /\ e = 16
      BY <2>1
    <2> HIDE DEF d, e
    <2>3. Halved(w, d, e)
      BY <2>2 DEF Halved
    <2> QED
      BY <2>3 DEF BitIs, d, e
  <1>5. CASE b = 4
    <2>1. 2 ^ b = 16 /\ 2 ^ (b + 1) = 32
      BY <1>5
    <2> DEFINE d == 2 ^ b
               e == 2 ^ (b + 1)
    <2>2. d = 16 /\ e = 32
      BY <2>1
    <2> HIDE DEF d, e
    <2>3. Halved(w, d, e)
      BY <2>2 DEF Halved
    <2> QED
      BY <2>3 DEF BitIs, d, e
  <1>6. CASE b = 5
    <2>1. 2 ^ b = 32 /\ 2 ^ (b + 1) = 64
      BY <1>6
    <2> DEFINE d == 2 ^ b
               e == 2 ^ (b + 1)
    <2>2. d = 32 /\ e = 64
      BY <2>1
    <2> HIDE DEF d, e
    <2>3. Halved(w, d, e)
      BY <2>2 DEF Halved
    <2> QED
      BY <2>3 DEF BitIs, d, e
  <1>7. CASE b = 6
    <2>1. 2 ^ b = 64 /\ 2 ^ (b + 1) = 128
      BY <1>7
    <2> DEFINE d == 2 ^ b
               e == 2 ^ (b + 1)
    <2>2. d = 64 /\ e = 128
      BY <2>1
    <2> HIDE DEF d, e
    <2>3. Halved(w, d, e)
      BY <2>2 DEF Halved
    <2> QED
      BY <2>3 DEF BitIs, d, e
  <1>8. CASE b = 7
    <2>1. 2 ^ b = 128 /\ 2 ^ (b + 1) = 256
      BY <1>8
    <2> DEFINE d == 2 ^ b
               e == 2 ^ (b + 1)
    <2>2. d = 128 /\ e = 256
      BY <2>1
    <2> HIDE DEF d, e
    <2>3. Halved(w, d, e)
      BY <2>2 DEF Halved
    <2> QED
      BY <2>3 DEF BitIs, d, e
  <1>9. CASE b = 8
    <2>1. 2 ^ b = 256 /\ 2 ^ (b + 1) = 512
      BY <1>9
    <2> DEFINE d == 2 ^ b
               e == 2 ^ (b + 1)
    <2>2. d = 256 /\ e = 512
      BY <2>1
    <2> HIDE DEF d, e
    <2>3. Halved(w, d, e)
      BY <2>2 DEF Halved
    <2> QED
      BY <2>3 DEF BitIs, d, e
  <1>10. CASE b = 9
    <2>1. 2 ^ b = 512 /\ 2 ^ (b + 1) = 1024
      BY <1>10
    <2> DEFINE d == 2 ^ b
               e == 2 ^ (b + 1)
    <2>2. d = 512 /\ e = 1024
      BY <2>1
    <2> HIDE DEF d, e
    <2>3. Halved(w, d, e)
      BY <2>2 DEF Halved
    <2> QED
      BY <2>3 DEF BitIs, d, e
  <1>11. CASE b = 10
    <2>1. 2 ^ b = 1024 /\ 2 ^ (b + 1) = 2048
      BY <1>11
    <2> DEFINE d == 2 ^ b
               e == 2 ^ (b + 1)
    <2>2. d = 1024 /\ e = 2048
      BY <2>1
    <2> HIDE DEF d, e
    <2>3. Halved(w, d, e)
      BY <2>2 DEF Halved
    <2> QED
      BY <2>3 DEF BitIs, d, e
  <1>12. CASE b = 11
    <2>1. 2 ^ b = 2048 /\ 2 ^ (b + 1) = 4096
      BY <1>12
    <2> DEFINE d == 2 ^ b
               e == 2 ^ (b + 1)
    <2>2. d = 2048 /\ e = 4096
      BY <2>1
    <2> HIDE DEF d, e
    <2>3. Halved(w, d, e)
      BY <2>2 DEF Halved
    <2> QED
      BY <2>3 DEF BitIs, d, e
  <1>13. CASE b = 12
    <2>1. 2 ^ b = 4096 /\ 2 ^ (b + 1) = 8192
      BY <1>13
    <2> DEFINE d == 2 ^ b
               e == 2 ^ (b + 1)
    <2>2. d = 4096 /\ e = 8192
      BY <2>1
    <2> HIDE DEF d, e
    <2>3. Halved(w, d, e)
      BY <2>2 DEF Halved
    <2> QED
      BY <2>3 DEF BitIs, d, e
  <1>14. CASE b = 13
    <2>1. 2 ^ b = 8192 /\ 2 ^ (b + 1) = 16384
      BY <1>14
    <2> DEFINE d == 2 ^ b
               e == 2 ^ (b + 1)
    <2>2. d = 8192 /\ e = 16384
      BY <2>1
    <2> HIDE DEF d, e
    <2>3. Halved(w, d, e)
      BY <2>2 DEF Halved
    <2> QED
      BY <2>3 DEF BitIs, d, e
  <1>15. CASE b = 14
    <2>1. 2 ^ b = 16384 /\ 2 ^ (b + 1) = 32768
      BY <1>15
    <2> DEFINE d == 2 ^ b
               e == 2 ^ (b + 1)
    <2>2. d = 16384 /\ e = 32768
      BY <2>1
    <2> HIDE DEF d, e
    <2>3. Halved(w, d, e)
      BY <2>2 DEF Halved
    <2> QED
      BY <2>3 DEF BitIs, d, e
  <1>16. CASE b = 15
    <2>1. 2 ^ b = 32768 /\ 2 ^ (b + 1) = 65536
      BY <1>16
    <2> DEFINE d == 2 ^ b
               e == 2 ^ (b + 1)
    <2>2. d = 32768 /\ e = 65536
      BY <2>1
    <2> HIDE DEF d, e
    <2>3. Halved(w, d, e)
      BY <2>2 DEF Halved
    <2> QED
      BY <2>3 DEF BitIs, d, e
  <1> QED
    BY <1>1, <1>2, <1>3, <1>4, <1>5, <1>6, <1>7, <1>8, <1>9, <1>10, <1>11, <1>12, <1>13, <1>14, <1>15, <1>16

\* The signed value of a word is the one of its two readings that is in range.
LEMMA SignedIs ==
    ASSUME NEW w \in Nat, w <= 65535
    PROVE  SignedWord(w) = SignedOf(w)
  <1> DEFINE S == {v \in {w, w - 65536} : Signed16(v)}
             x == SignedWord(w)
  <1>1. S = {x}
    <2>1. CASE w < 32768
      <3>1. x = w /\ Signed16(w) /\ ~Signed16(w - 65536)
        BY <2>1 DEF SignedWord, Signed16
      <3> QED
        BY <3>1
    <2>2. CASE ~(w < 32768)
      <3>1. x = w - 65536 /\ ~Signed16(w) /\ Signed16(w - 65536)
        BY <2>2 DEF SignedWord, Signed16
      <3> QED
        BY <3>1
    <2> QED
      BY <2>1, <2>2
  <1>2. \A v : v \in {w, w - 65536} /\ Signed16(v) <=> v = x
    BY <1>1
  <1> HIDE DEF x
  <1>3. (CHOOSE v \in {w, w - 65536} : Signed16(v)) = x
    BY <1>2
  <1> QED
    BY <1>3 DEF x, SignedOf

\* A byte of a word.
ByteOf(word, a) == IF a % 2 = 0 THEN word \div 256 ELSE word % 256

\* The two bytes of a column that may lie across two registers.
LEMMA Halves ==
    ASSUME NEW r \in Nat, NEW off \in Nat
    PROVE  /\ (2 * r + off) \div 2 = r + off \div 2 /\ (2 * r + off + 1) \div 2 = r + (off + 1) \div 2
           /\ (2 * r + off) % 2 = off % 2 /\ (2 * r + off + 1) % 2 = (off + 1) % 2
           /\ off \div 2 \in Nat /\ (off + 1) \div 2 \in Nat
           /\ (off + 1) \div 2 = off \div 2 \/ (off + 1) \div 2 = off \div 2 + 1
  OBVIOUS

\* A column that the writer can make.
ColumnOK(c) ==
    /\ c.mode \in {"w", "sw", "b"} /\ c.off \in Nat /\ c.bit \in 0 .. 15
    /\ c.key = <<c.key[1], c.key[2], c.key[3]>> /\ c.key[3] \in Nat

\* A column shows the word, the signed word or the bit that the battery held there.
LEMMA CellIsTrue ==
    ASSUME NEW w, NEW T, NEW c, ColumnOK(c),
           \A reg \in Nat : KnownIs(w, <<c.key[1], c.key[2], reg>>, T)
    PROVE  Shown(KnownAfter(w), c) = TrueCell(c, T)
  <1> DEFINE regs == KnownAfter(w)
             off == c.off
             r == c.key[3]
             reg1 == r + off \div 2
             reg2 == r + (off + 1) \div 2
             k1 == <<c.key[1], c.key[2], reg1>>
             k2 == <<c.key[1], c.key[2], reg2>>
             a == 2 * r + off
             hi == TrueByte(c.key, a, T)
             lo == TrueByte(c.key, a + 1, T)
             word == 256 * hi + lo
             f == FieldWord(regs, c.key, off)
  <1>1. off \in Nat /\ r \in Nat /\ c.mode \in {"w", "sw", "b"} /\ c.bit \in 0 .. 15
    BY DEF ColumnOK
  <1>2. /\ a \div 2 = reg1 /\ (a + 1) \div 2 = reg2 /\ a % 2 = off % 2 /\ (a + 1) % 2 = (off + 1) % 2
        /\ reg1 \in Nat /\ reg2 \in Nat /\ (reg2 = reg1 \/ reg2 = reg1 + 1)
    <2> HIDE DEF off, r
    <2> QED
      BY <1>1, Halves
  <1>3. KnownIs(w, k1, T) /\ KnownIs(w, k2, T)
    <2> HIDE DEF reg1, reg2
    <2> QED
      BY <1>2
  <1>4. FieldRegisters(c.key, off) = {k1, k2}
    <2>1. reg1 .. reg2 = {reg1, reg2}
      <3> HIDE DEF reg1, reg2
      <3> QED
        BY <1>2
    <2>2. FieldRegisters(c.key, off) = {<<c.key[1], c.key[2], reg>> : reg \in reg1 .. reg2}
      BY DEF FieldRegisters
    <2> HIDE DEF reg1, reg2
    <2> QED
      BY <2>1, <2>2
  <1>5. /\ FieldByte(regs, c.key, off) = ByteOf(regs[k1], off)
        /\ FieldByte(regs, c.key, off + 1) = ByteOf(regs[k2], off + 1)
    BY DEF FieldByte, ByteOf
  <1>6. /\ hi = IF TrueWord(k1, T) = Unknown THEN Unknown ELSE ByteOf(TrueWord(k1, T), off)
        /\ lo = IF TrueWord(k2, T) = Unknown THEN Unknown ELSE ByteOf(TrueWord(k2, T), off + 1)
    <2> HIDE DEF a, reg1, reg2, off
    <2> QED
      BY <1>2 DEF TrueByte, ByteOf
  <1>7. f = IF FieldRegisters(c.key, off) \subseteq DOMAIN regs
            THEN 256 * FieldByte(regs, c.key, off) + FieldByte(regs, c.key, off + 1) ELSE Unknown
    BY DEF FieldWord
  <1>8. /\ Shown(regs, c) = IF f = Unknown THEN Unknown
                            ELSE CASE c.mode = "w"  -> f
                                   [] c.mode = "sw" -> SignedWord(f)
                                   [] c.mode = "b"  -> (f \div 2 ^ c.bit) % 2
        /\ TrueCell(c, T) = IF Unknown \in {hi, lo} THEN Unknown
                            ELSE CASE c.mode = "w"  -> word
                                   [] c.mode = "sw" -> SignedOf(word)
                                   [] c.mode = "b"  -> word \div 2 ^ c.bit - 2 * (word \div 2 ^ (c.bit + 1))
    BY DEF Shown, TrueCell
  <1> HIDE DEF regs, off, r, reg1, reg2, k1, k2, a, hi, lo, f
  <1>9. CASE k1 \in DOMAIN regs /\ k2 \in DOMAIN regs
    <2>1. regs[k1] = TrueWord(k1, T) /\ TrueWord(k1, T) \in Word /\ regs[k2] = TrueWord(k2, T) /\ TrueWord(k2, T) \in Word
      BY <1>3, <1>9 DEF KnownIs, regs
    <2>2. \A v \in Word : v # Unknown
      BY Words DEF Unknown
    <2>3. hi = ByteOf(regs[k1], off) /\ lo = ByteOf(regs[k2], off + 1)
      BY <1>6, <2>1, <2>2
    <2>4. \A v \in Word, b \in Nat : ByteOf(v, b) \in Nat /\ ByteOf(v, b) <= 255
      <3> SUFFICES ASSUME NEW v \in Word, NEW b \in Nat PROVE ByteOf(v, b) \in Nat /\ ByteOf(v, b) <= 255
        OBVIOUS
      <3>1. v \div 256 \in Nat /\ v \div 256 <= 255 /\ v % 256 \in Nat /\ v % 256 <= 255
        <4>1. v \in Int /\ 0 <= v /\ v <= 65535
          BY Words
        <4> QED
          BY <4>1
      <3> QED
        BY <3>1 DEF ByteOf
    <2>5. hi \in Nat /\ hi <= 255 /\ lo \in Nat /\ lo <= 255
      <3>1. off + 1 \in Nat
        BY <1>1
      <3> QED
        BY <1>1, <2>1, <2>3, <2>4, <3>1
    <2>6. f = word
      BY <1>4, <1>5, <1>7, <1>9, <2>3
    <2>7. word \in Nat /\ word <= 65535 /\ Unknown \notin {hi, lo} /\ f # Unknown
      <3>1. word \in Nat /\ word <= 65535
        BY ONLY <2>5
      <3>2. hi # 65536 /\ lo # 65536 /\ word # 65536
        BY ONLY <2>5, <3>1
      <3> QED
        BY ONLY <2>6, <3>1, <3>2 DEF Unknown
    <2> HIDE DEF word
    <2>8. SignedWord(word) = SignedOf(word)
      BY ONLY <2>7, SignedIs
    <2>9. word \div 2 ^ c.bit - 2 * (word \div 2 ^ (c.bit + 1)) = (word \div 2 ^ c.bit) % 2
      <3>1. BitIs(word, c.bit)
        BY ONLY <1>1, <2>7, BitHalves
      <3> QED
        BY <3>1 DEF BitIs, Halved
    <2>10. /\ c.mode = "w"  => Shown(regs, c) = f
           /\ c.mode = "sw" => Shown(regs, c) = SignedWord(f)
           /\ c.mode = "b"  => Shown(regs, c) = (f \div 2 ^ c.bit) % 2
      <3> DEFINE s == SignedWord(f)
                 g == (f \div 2 ^ c.bit) % 2
                 m == c.mode
      <3>1. Shown(regs, c) = IF f = Unknown THEN Unknown
                             ELSE CASE m = "w" -> f [] m = "sw" -> s [] m = "b" -> g
        BY ONLY <1>8
      <3> HIDE DEF s, g, m
      <3>2. /\ m = "w" => Shown(regs, c) = f
            /\ m = "sw" => Shown(regs, c) = s
            /\ m = "b" => Shown(regs, c) = g
        <4>1. f # Unknown
          BY <2>7
        <4> QED
          BY ONLY <3>1, <4>1
      <3> QED
        BY <3>2 DEF s, g, m
    <2>11. /\ c.mode = "w"  => TrueCell(c, T) = word
           /\ c.mode = "sw" => TrueCell(c, T) = SignedOf(word)
           /\ c.mode = "b"  => TrueCell(c, T) = word \div 2 ^ c.bit - 2 * (word \div 2 ^ (c.bit + 1))
      <3> DEFINE s == SignedOf(word)
                 g == word \div 2 ^ c.bit - 2 * (word \div 2 ^ (c.bit + 1))
                 m == c.mode
                 U == Unknown \in {hi, lo}
      <3>1. TrueCell(c, T) = IF U THEN Unknown
                             ELSE CASE m = "w" -> word [] m = "sw" -> s [] m = "b" -> g
        BY ONLY <1>8
      <3>2. ~U
        BY <2>7
      <3> HIDE DEF s, g, m, U
      <3>3. /\ m = "w" => TrueCell(c, T) = word
            /\ m = "sw" => TrueCell(c, T) = s
            /\ m = "b" => TrueCell(c, T) = g
        BY ONLY <3>1, <3>2
      <3> QED
        BY <3>3 DEF s, g, m
    <2>12. CASE c.mode = "w"
      BY ONLY <2>6, <2>10, <2>11, <2>12 DEF regs
    <2>13. CASE c.mode = "sw"
      BY ONLY <2>6, <2>8, <2>10, <2>11, <2>13 DEF regs
    <2>14. CASE c.mode = "b"
      BY ONLY <2>6, <2>9, <2>10, <2>11, <2>14 DEF regs
    <2> QED
      BY <1>1, <2>12, <2>13, <2>14
  <1>10. CASE ~(k1 \in DOMAIN regs /\ k2 \in DOMAIN regs)
    <2>1. f = Unknown
      BY <1>4, <1>7, <1>10
    <2>2. TrueWord(k1, T) = Unknown \/ TrueWord(k2, T) = Unknown
      BY <1>3, <1>10 DEF KnownIs, regs
    <2>3. Unknown \in {hi, lo}
      BY <1>6, <2>2
    <2> QED
      BY <1>8, <2>1, <2>3 DEF regs
  <1> QED
    BY <1>9, <1>10

\* A key that is said something of is a device, a function code and a register.
KeyOK(key) == key = <<key[1], key[2], key[3]>> /\ key[3] \in Nat

\* The registers that the pairs speak of have such keys.
LEMMA KeysAreOK ==
    ASSUME TypeInv, SentInv, FourOK, MadeInv, phase = "rows", NEW key \in AllKeys, key[2] # 6
    PROVE  KeyOK(key)
  <1>1. WalkOK /\ phase # "bus"
    BY DEF TypeInv
  <1>2. PICK n \in DOMAIN updates : key \in DOMAIN updates[n].regs
    BY DEF AllKeys
  <1>3. PICK a : UpdatePlace(n, a)
    BY <1>1, UpdatePlaces
  <1>4. a \in PairPlaces /\ key \in DOMAIN DecodePairUpdates(frames[a], frames[a + 1])
    BY <1>2, <1>3 DEF UpdatePlace, UpdateOf
  <1>5. PICK l, m : SaysOf(frames[a], frames[a + 1], key, l, m)
    BY <1>1, <1>4, PairSays
  <1> DEFINE q == bus[l].req
  <1>6. RegisterOf(q, key) /\ q \in Queries
    BY <1>5 DEF SaysOf
  <1> HIDE DEF q
  <1>7. q.start \in Nat /\ q.count \in Nat
    <2>1. q \in Request
      BY <1>6, WireAssumption
    <2>2. q.start \in Word /\ q.count \in Word
      BY <2>1, RequestParts
    <2> QED
      BY <2>2, Words
  <1>8. key = <<q.dev, q.fn, key[3]>> /\ key[3] \in q.start .. q.start + q.count - 1
    BY <1>6 DEF RegisterOf
  <1>9. key[1] = q.dev /\ key[2] = q.fn
    BY <1>8
  <1>10. key[3] \in Nat
    BY <1>7, <1>8
  <1> QED
    BY <1>8, <1>9, <1>10 DEF KeyOK

\* The columns of a row are of registers that something was said of.
LEMMA ColumnsAreOK ==
    ASSUME TypeInv, SentInv, FourOK, MadeInv, filter \subseteq RegisterSpec, phase = "rows",
           NEW c \in Columns, c.key[2] # 6
    PROVE  ColumnOK(c)
  <1>1. c.mode \in {"w", "sw", "b"} /\ c.off \in Nat /\ c.bit \in 0 .. 15 /\ c.key \in AllKeys
    <2>1. CASE filter = {}
      <3>1. PICK key \in AllKeys : c = [mode |-> "w", key |-> key, off |-> 0, bit |-> 0]
        BY <2>1 DEF Columns
      <3> QED
        BY <3>1
    <2>2. CASE filter # {}
      <3>1. PICK spec \in filter, key \in AllKeys, bit \in 0 .. 15 :
              c = [mode |-> spec.mode, key |-> key, off |-> spec.off, bit |-> bit]
        <4>1. PICK spec \in filter :
                c \in {[mode |-> spec.mode, key |-> key, off |-> spec.off, bit |-> bit] :
                          key \in {key \in AllKeys : /\ Matches(key, spec.pattern)
                                                     /\ FieldRegisters(key, spec.off) \subseteq AllKeys},
                          bit \in IF spec.mode = "b" THEN 0 .. 15 ELSE {0}}
          BY <2>2 DEF Columns
        <4>2. PICK key \in AllKeys, bit \in IF spec.mode = "b" THEN 0 .. 15 ELSE {0} :
                c = [mode |-> spec.mode, key |-> key, off |-> spec.off, bit |-> bit]
          BY <4>1
        <4>3. bit \in 0 .. 15
          BY <4>2
        <4> QED
          BY <4>2, <4>3
      <3>2. spec.mode \in {"w", "sw", "b"} /\ spec.off \in Nat
        BY DEF RegisterSpec
      <3> QED
        BY <3>1, <3>2
    <2> QED
      BY <2>1, <2>2
  <1>2. KeyOK(c.key)
    BY <1>1, KeysAreOK
  <1> QED
    BY <1>1, <1>2 DEF KeyOK, ColumnOK

\* The last row shows what the battery held.
LEMMA PairsMeanRowsTrue ==
    ASSUME Unhurried, TypeInv, SentInv, TaleInv, PairInv
    PROVE  RowsTrue
  <1> SUFFICES ASSUME rows # <<>>, NothingMisread(Last(rows).ts),
                      NEW c \in DOMAIN Last(rows).data, c.key[2] # 6
               PROVE  Last(rows).data[c] = TrueCell(c, Last(rows).ts)
    BY DEF RowsTrue
  <1> DEFINE T == Last(rows).ts
  <1>1. FourOK /\ MadeInv /\ filter \subseteq RegisterSpec /\ Remembered /\ UpdatesOK
    BY DEF PairInv, TypeInv
  <1>2. phase = "rows"
    BY <1>1 DEF Remembered
  <1>3. Last(rows) = rows[Len(rows)]
    BY DEF Last
  <1>4. PICK w \in 1 .. done : Written(w, done)
    BY <1>2 DEF TaleInv
  <1>5. T = updates[w].ts /\ Last(rows).data = DataRow(KnownAfter(w))
    BY <1>1, <1>3, <1>4 DEF Remembered, Written
  <1>6. w \in DOMAIN updates
    BY <1>1, <1>2 DEF UpdatesOK
  <1>7. c \in Columns /\ Last(rows).data[c] = Shown(KnownAfter(w), c)
    BY <1>5 DEF DataRow
  <1>8. ColumnOK(c)
    BY <1>1, <1>2, <1>7, ColumnsAreOK
  <1> HIDE DEF T
  <1>9. ASSUME NEW reg \in Nat PROVE KnownIs(w, <<c.key[1], c.key[2], reg>>, T)
    <2> DEFINE key == <<c.key[1], c.key[2], reg>>
    <2>1. key = <<key[1], key[2], key[3]>> /\ key[2] # 6
      OBVIOUS
    <2>2. NothingMisread(T)
      BY DEF T
    <2> HIDE DEF key
    <2>3. KnownIs(w, key, T)
      BY <1>1, <1>2, <1>5, <1>6, <2>1, <2>2, KnownIsTrue
    <2> QED
      BY <2>3 DEF key
  <1>10. Shown(KnownAfter(w), c) = TrueCell(c, T)
    BY <1>8, <1>9, CellIsTrue
  <1> QED
    BY <1>7, <1>10 DEF T

\* The pairs stay what the frames say, whatever happens.
LEMMA PairInvariant ==
    ASSUME Tellable
    PROVE  Spec => [](TypeInv /\ SentInv /\ TaleInv /\ PairInv)
  <1>1. Init => TypeInv /\ SentInv /\ TaleInv /\ PairInv
    BY TypeInvInit, PairInvInit DEF SentInv, TaleInv, Init, ParserInit
  <1>2. TypeInv /\ SentInv /\ TaleInv /\ PairInv /\ [Next]_vars => TypeInv' /\ SentInv' /\ TaleInv' /\ PairInv'
    BY TypeInvStep, SentInvStep, TaleInvStep, PairInvStep
  <1> QED
    BY <1>1, <1>2, PTL DEF Spec

\* Every cell of every row is the last value the log holds for it, unsigned, signed, bit by
\* bit or across two registers, whatever was lost, until a reply is misread
\* (extract_fields.py:229-283, 353-381, 460-488).
THEOREM RowsAreTrue ==
    ASSUME Tellable, Unhurried
    PROVE  Spec => []RowsTrue
  <1>1. Spec => [](TypeInv /\ SentInv /\ TaleInv /\ PairInv)
    BY PairInvariant
  <1>2. TypeInv /\ SentInv /\ TaleInv /\ PairInv => RowsTrue
    BY PairsMeanRowsTrue
  <1> QED
    BY <1>1, <1>2, PTL

\* When no exchange begins before the one before it is over, the pairs come in the
\* order of their times, and no value that lasts is left out of the rows
\* (extract_fields.py:490-502).
THEOREM UnhurriedLasts ==
    ASSUME Tellable, Unhurried
    PROVE  Spec => []LastingIsWritten
  <1>1. Spec => [](TypeInv /\ SentInv /\ TaleInv /\ PairInv)
    BY PairInvariant
  <1>2. ASSUME TypeInv, SentInv, TaleInv, PairInv PROVE LastingIsWritten
    <2>1. CASE phase = "rows"
      <3>1. ClockForward
        <4>1. \A m, n \in DOMAIN updates : m <= n => updates[m].ts <= updates[n].ts
          BY <1>2, <2>1, UpdatesInOrder DEF PairInv
        <4> QED
          BY <4>1 DEF ClockForward
      <3> QED
        BY <1>2, <3>1, TaleIsLasting
    <2>2. CASE phase # "rows"
      BY <2>2 DEF LastingIsWritten
    <2> QED
      BY <2>1, <2>2
  <1> QED
    BY <1>1, <1>2, PTL

-----------------------------------------------------------------------------
(* Fields are what the battery held. *)

DecodedTrue(rsp, req, x) ==
    LET got == DecodeResponse(rsp, req)
    IN  DOMAIN got = OwnFields(x.req) /\ \A e \in DOMAIN got : FieldIs(e, got[e], x)

\* At the end of the stream, this is what the property says.
LEMMA SentMeansFields ==
    ASSUME ClockRuns, LayoutsFit, BlocksTold, TypeInv, SentInv, FourOK
    PROVE  FieldsTrue
  <1> DEFINE ps == LogPairs(frames)
  <1> SUFFICES ASSUME ParseEnds, NEW n \in DOMAIN ps, NEW m \in DOMAIN bus, ps[n][2].fc # 6, ps[n][2].ts = ReplyTime(m)
               PROVE  DecodedTrue(ps[n][2], ps[n][1], bus[m])
    BY DEF FieldsTrue, DecodedTrue
  <1>1. WalkOK /\ bus \in Seq(Said) /\ BusOK
    BY DEF TypeInv, BusOK
  <1>3. PICK a \in 1 .. Len(frames) - 1 : ps[n] = <<frames[a], frames[a + 1]>> /\ IsPair(frames[a], frames[a + 1])
    <2>1. FoundPair(ps[n])
      BY <1>1, LogPairIs
    <2> QED
      BY <2>1 DEF FoundPair
  <1> HIDE DEF ps
  <1> DEFINE f == frames[a]
             g == frames[a + 1]
             got == DecodeResponse(g, f)
  <1>4. ps[n][1] = f /\ ps[n][2] = g
    BY <1>3
  <1>5. f.role = "request" /\ g.role = "response" /\ f.device = g.device /\ f.fc = g.fc
    BY <1>3, <1>4 DEF IsPair
  <1>6. a \in 1 .. Len(frames) /\ a + 1 \in 1 .. Len(frames) /\ phase # "bus"
    BY <1>1, LenProperties DEF WalkOK, ParseEnds
  <1>7. g \in FoundFrame
    BY <1>1, <1>6, ElementOfSeq DEF WalkOK
  <1>8. g.ts = ReplyTime(m)
    BY <1>4
  <1>9. g.fc # 6
    BY <1>4
  <1>a. IsReply4(g) => AskedLength(f, g)
    BY <1>3 DEF FourOK, f, g
  <1> HIDE DEF f, g
  <1>10. PICK l, k : Telling(f, g, l, k)
    BY <1>5, <1>6, <1>9, FoundTelling DEF f, g
  <1> DEFINE x == bus[k]
  <1>11. k \in 1 .. Len(bus) /\ l \in 1 .. Len(bus) /\ f.fc = bus[l].req.fn /\ g.ts = ReplyTime(k)
    BY <1>10 DEF Telling
  <1>12. k = m
    <2>1. m \in 1 .. Len(bus) /\ Len(bus) \in Nat
      BY <1>1, LenProperties
    <2>2. bus[k].t \in Nat /\ bus[m].t \in Nat /\ Turnaround \in Nat
      <3>1. bus[k] \in Said /\ bus[m] \in Said
        BY <1>1, <1>11, <2>1, ElementOfSeq
      <3> QED
        BY <3>1, WireAssumption DEF Said
    <2>3. ReplyTime(k) \in Nat /\ ReplyTime(m) \in Nat /\ ReplyTime(k) = ReplyTime(m)
      BY <1>8, <1>11, <2>2, SMTT(30) DEF ReplyTime
    <2>4. ~(k < m) /\ ~(m < k)
      <3>1. k < m => ReplyTime(k) < ReplyTime(m)
        BY <1>1, <1>11, <2>1, TimesDiffer
      <3>2. m < k => ReplyTime(m) < ReplyTime(k)
        BY <1>1, <1>11, <2>1, TimesDiffer
      <3> QED
        BY <2>3, <3>1, <3>2
    <2> QED
      BY <1>11, <2>1, <2>4
  <1>13. g.fc < 128 /\ g.fc # 6
    <2>1. bus[l] \in Said
      BY <1>1, <1>11, ElementOfSeq
    <2>2. bus[l].req.fn \in {3, 4, 6}
      BY <2>1, CountIs DEF Said
    <2> QED
      BY <1>5, <1>9, <1>11, <2>2
  <1>14. Holding(g.raw, x) /\ x.req.fn = g.fc
    <2>1. Len(g.raw) \in Nat
      BY <1>7, LenProperties DEF FoundFrame
    <2> QED
      BY <1>1, <1>10, <1>13, <2>1, TellingHolds
  <1>15. x \in Said /\ x.req \in Queries /\ x.req \in Request /\ x.req.fn # 6 /\ x.req.fn \in {3, 4}
    BY <1>14 DEF Holding, Said
  <1> HIDE DEF x
  <1> DEFINE data == Payload(g.raw, Header(x.req.fn))
  <1>16. DataIs(data, x)
    BY <1>7, <1>14, PayloadIs DEF FoundFrame
  <1>17. g.fc = 3 => got = DecodeBlock(HrLayout, data)
    BY <1>14 DEF DecodeResponse, Header
  <1>18. ASSUME g.fc = 4
         PROVE  /\ WordAt(f.raw, 2) = x.req.start
                /\ x.req.start \in DOMAIN IrLayouts => got = DecodeBlock(IrLayouts[x.req.start], data)
                /\ x.req.start \notin DOMAIN IrLayouts => got = NoUpdates
    <2> DEFINE p == bus[l].req
               q == x.req
    <2>1. Header(q.fn) = 4
      BY <1>14, <1>18 DEF Header
    <2>2. PICK count \in Awaited(f) : Len(g.raw) = 6 + 2 * count
      BY <1>5, <1>18, <1>a DEF IsReply4, AskedLength
    <2>3. count = WordAt(f.raw, 4)
      BY <1>5, <1>18, <2>2 DEF Awaited
    <2>4. p \in Queries /\ p \in Request /\ p.count \in Nat /\ q.count \in Nat
      <3>1. bus[l] \in Said
        BY <1>1, <1>11, ElementOfSeq
      <3>2. p \in Queries
        BY <3>1 DEF Said
      <3> QED
        BY <1>15, <3>2, WireAssumption, CountIs
    <2>5. WordAt(f.raw, 2) = p.start /\ WordAt(f.raw, 4) = p.count
      <3>1. Len(f.raw) \in Nat
        <4>1. f \in FoundFrame
          BY <1>1, <1>6, ElementOfSeq DEF WalkOK, f
        <4> QED
          BY <4>1, LenProperties DEF FoundFrame
      <3>2. ValuesAt(RequestValues(p), f.off, Len(f.raw), f.raw)
        BY <1>10 DEF Telling
      <3> HIDE DEF p
      <3> QED
        BY <2>4, <3>1, <3>2, RequestRead
    <2>6. Len(g.raw) = 4 + 2 * q.count + 2
      BY <1>14, <2>1 DEF Holding
    <2>7. p.fn = 4 /\ q.fn = 4 /\ q \in Queries
      BY <1>5, <1>11, <1>14, <1>15, <1>18
    <2> HIDE DEF p, q
    <2>8. p.count = q.count
      BY <2>2, <2>3, <2>4, <2>5, <2>6
    <2>9. WordAt(f.raw, 2) = q.start
      BY <2>4, <2>5, <2>7, <2>8 DEF BlocksTold
    <2>10. data = Payload(g.raw, 4)
      BY <2>1 DEF q
    <2> HIDE DEF data
    <2> QED
      BY <1>18, <2>9, <2>10 DEF DecodeResponse, q
  <1> HIDE DEF data, got
  <1>19. Len(data) = 2 * x.req.count
    BY <1>16 DEF DataIs
  <1>20. ASSUME NEW layout, LayoutFits(layout), got = DecodeBlock(layout, data)
         PROVE  /\ DOMAIN got = (IF layout.bytes = 2 * x.req.count THEN layout.fields ELSE {})
                /\ \A e \in DOMAIN got : FieldIs(e, got[e], x)
    <2>1. DOMAIN got = IF Len(data) = layout.bytes THEN layout.fields ELSE {}
      BY <1>20 DEF DecodeBlock
    <2>2. ASSUME NEW e \in DOMAIN got PROVE FieldIs(e, got[e], x)
      <3>1. e \in layout.fields /\ Len(data) = layout.bytes
        BY <2>1
      <3>2. got[e] = DecodeField(data, e)
        BY <1>20, <3>1 DEF DecodeBlock
      <3>3. FieldIs(e, DecodeField(data, e), x)
        BY <1>15, <1>16, <1>20, <3>1, FieldDecoded
      <3> QED
        BY <3>2, <3>3
    <2> QED
      BY <1>19, <2>1, <2>2
  <1>21. DOMAIN got = OwnFields(x.req) /\ \A e \in DOMAIN got : FieldIs(e, got[e], x)
    <2>1. CASE g.fc = 3
      <3>1. /\ DOMAIN got = (IF HrLayout.bytes = 2 * x.req.count THEN HrLayout.fields ELSE {})
            /\ \A e \in DOMAIN got : FieldIs(e, got[e], x)
        BY <1>17, <1>20, <2>1 DEF LayoutsFit
      <3>2. x.req.fn = 3
        BY <1>14, <2>1
      <3>3. OwnFields(x.req) = IF HrLayout.bytes = 2 * x.req.count THEN HrLayout.fields ELSE {}
        BY <3>2 DEF OwnFields
      <3> QED
        BY <3>1, <3>3
    <2>2. CASE g.fc = 4
      <3> DEFINE start == x.req.start
      <3>1. x.req.fn # 3
        BY <1>14, <2>2
      <3>2. CASE start \in DOMAIN IrLayouts
        <4>1. got = DecodeBlock(IrLayouts[start], data) /\ LayoutFits(IrLayouts[start])
          BY <1>18, <2>2, <3>2 DEF LayoutsFit
        <4>2. /\ DOMAIN got = (IF IrLayouts[start].bytes = 2 * x.req.count THEN IrLayouts[start].fields ELSE {})
              /\ \A e \in DOMAIN got : FieldIs(e, got[e], x)
          BY <1>20, <4>1
        <4>3. OwnFields(x.req) = IF IrLayouts[start].bytes = 2 * x.req.count THEN IrLayouts[start].fields ELSE {}
          BY <3>1, <3>2 DEF OwnFields
        <4> QED
          BY <4>2, <4>3
      <3>3. CASE start \notin DOMAIN IrLayouts
        <4>1. DOMAIN got = {}
          BY <1>18, <2>2, <3>3 DEF NoUpdates
        <4>2. OwnFields(x.req) = {}
          BY <3>1, <3>3 DEF OwnFields
        <4> QED
          BY <4>1, <4>2
      <3> QED
        BY <3>2, <3>3
    <2> QED
      BY <1>14, <1>15, <2>1, <2>2
  <1> QED
    BY <1>4, <1>12, <1>21 DEF DecodedTrue, got, x

\* However the log was spoilt, a reply is decoded as the block that it is of, and every
\* field is what the battery held at that byte when it answered, in any layouts inside
\* their blocks when no two FC=4 blocks have one length (decode_fields.py:16-31, 182-201).
THEOREM FieldsAreTrue ==
    ASSUME Tellable, ClockRuns, LayoutsFit, BlocksTold
    PROVE  Spec => []FieldsTrue
  <1>1. Spec => [](TypeInv /\ SentInv /\ TaleInv /\ PairInv)
    BY PairInvariant
  <1>2. TypeInv /\ SentInv /\ TaleInv /\ PairInv => FieldsTrue
    BY SentMeansFields DEF PairInv
  <1> QED
    BY <1>1, <1>2, PTL
=============================================================================

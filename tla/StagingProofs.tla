--------------------------- MODULE StagingProofs ---------------------------
(***************************************************************************)
(* Theorems about Staging for every bucket, every set of invocations and   *)
(* threads and every history of events.                                    *)
(***************************************************************************)
EXTENDS Staging, FiniteSetTheorems, WellFoundedInduction, SequenceTheorems,
        TLAPS

----------------------------------------------------------------------------
(* Finite sets.                                                            *)

(* A function on a finite set has a finite range.                          *)
LEMMA FiniteRange ==
  ASSUME NEW S, IsFiniteSet(S), NEW f, f = [x \in S |-> f[x]]
  PROVE  IsFiniteSet({f[x] : x \in S})
<1> DEFINE T == {f[x] : x \in S}
<1>1. f \in Surjection(S, T)
  BY DEF Surjection, Range
<1>2. QED
  BY <1>1, FS_Surjection

(* The order WFMin needs on the naturals.                                  *)
LEMMA BelowIsLess ==
  \A n \in Nat : \A m \in Nat : m = n - 1 => <<m, n>> \in OpToRel(<, Nat)
<1> TAKE n \in Nat
<1> TAKE m \in Nat
<1>1. m = n - 1 => m < n
  OBVIOUS
<1> DEFINE p == <<m, n>>
<1>2. p \in Nat \X Nat /\ p[1] = m /\ p[2] = n
  OBVIOUS
<1>3. m < n => p[1] < p[2]
  BY <1>2
<1> HIDE DEF p
<1>4. m < n => p \in OpToRel(<, Nat)
  BY <1>2, <1>3 DEF OpToRel
<1>5. QED
  BY <1>1, <1>4 DEF p

(* A relation that is total and transitive on a finite set has a greatest  *)
(* element there.                                                          *)
LEMMA GreatestElement ==
  ASSUME NEW S, IsFiniteSet(S), S # {}, NEW R,
         \A x, y \in S : <<x, y>> \in R \/ <<y, x>> \in R,
         \A x, y, z \in S : <<x, y>> \in R /\ <<y, z>> \in R => <<x, z>> \in R
  PROVE  \E x \in S : \A y \in S : <<x, y>> \in R
<1> DEFINE Has(T) == \E x \in T : \A y \in T : <<x, y>> \in R
           Without == {T \in SUBSET S : T # {} /\ ~Has(T)}
           Sizes == {n \in Nat : \E T \in Without : Cardinality(T) = n}
<1> SUFFICES ASSUME ~Has(S) PROVE FALSE
  OBVIOUS
<1>1. \A T \in SUBSET S : IsFiniteSet(T) /\ Cardinality(T) \in Nat
  BY FS_Subset, FS_CardinalityType
<1>2. S \in Without
  OBVIOUS
<1>3. Cardinality(S) \in Sizes
  BY <1>1, <1>2
<1>4. PICK n \in Sizes : \A m \in Sizes : <<m, n>> \notin OpToRel(<, Nat)
  <2>1. Sizes \subseteq Nat /\ Sizes # {}
    BY <1>3
  <2> HIDE DEF Sizes
  <2>2. QED
    BY <2>1, NatLessThanWellFounded, WFMin
<1>5. PICK T \in Without : Cardinality(T) = n
  OBVIOUS
<1>6. PICK x \in T : TRUE
  OBVIOUS
<1> DEFINE U == T \ {x}
<1>7. Cardinality(U) = n - 1 /\ n \in Nat /\ Cardinality(U) \in Nat
  BY <1>1, <1>5, <1>6, FS_RemoveElement
<1>8. U \notin Without
  <2>1. ASSUME U \in Without PROVE FALSE
    <3>1. Cardinality(U) \in Sizes
      BY <2>1, <1>7
    <3>2. <<Cardinality(U), n>> \in OpToRel(<, Nat)
      BY <1>7, BelowIsLess
    <3>3. QED
      BY <3>1, <3>2, <1>4
  <2>2. QED
    BY <2>1
<1>9. CASE U = {}
  BY <1>5, <1>6, <1>9
<1>10. CASE U # {}
  <2>1. PICK y \in U : \A z \in U : <<y, z>> \in R
    BY <1>8, <1>10
  <2>2. CASE <<y, x>> \in R
    BY <2>1, <2>2, <1>5, <1>6
  <2>3. CASE <<x, y>> \in R
    <3>1. \A z \in U : <<x, z>> \in R
      BY <2>1, <2>3, <1>5, <1>6
    <3>2. <<x, x>> \in R
      BY <1>5, <1>6
    <3>3. QED
      BY <3>1, <3>2, <1>5, <1>6
  <2>4. QED
    BY <2>1, <2>2, <2>3, <1>5, <1>6
<1>11. QED
  BY <1>9, <1>10

(* SetToSeq lists a finite set without repetition.                         *)
LEMMA SetToSeqLists ==
  ASSUME NEW S, IsFiniteSet(S)
  PROVE  /\ SetToSeq(S) \in Seq(S)
         /\ ToSet(SetToSeq(S)) = S
         /\ \A i, j \in DOMAIN SetToSeq(S) :
              SetToSeq(S)[i] = SetToSeq(S)[j] => i = j
<1> DEFINE D == 1..Cardinality(S)
           f == SetToSeq(S)
<1>1. Cardinality(S) \in Nat /\ ExistsBijection(D, S)
  BY FS_CardinalityType
<1>2. PICK g \in Bijection(D, S) : TRUE
  BY <1>1 DEF ExistsBijection
<1>3. g \in [D -> S] /\ IsInjective(g)
  BY <1>2 DEF Bijection, Injection
<1>4. f \in [D -> S] /\ IsInjective(f)
  BY <1>3 DEF SetToSeq
<1> HIDE DEF f
<1>5. f \in Seq(S) /\ Len(f) = Cardinality(S) /\ DOMAIN f = D
  BY <1>4, <1>1
<1>6. f \in Injection(D, S)
  BY <1>4 DEF Injection
<1>7. IsFiniteSet(D) /\ Cardinality(D) = Cardinality(S)
  BY <1>1, FS_Interval
<1>8. f \in Surjection(D, S)
  BY <1>6, <1>7, FS_Injection
<1>9. ToSet(f) = S
  BY <1>8, <1>5, <1>4 DEF Surjection, ToSet
<1>10. \A i, j \in DOMAIN f : f[i] = f[j] => i = j
  BY <1>4 DEF IsInjective
<1>11. QED
  BY <1>5, <1>9, <1>10 DEF f

----------------------------------------------------------------------------
(* The rows of a batch of files.                                           *)

(* A place is a file, a record of the file and a line of the record.       *)
LEMMA PlaceParts ==
  ASSUME NEW t \in Tables, NEW files \in Seq(Files), NEW p \in Places(t, files)
  PROVE  /\ p[1] \in DOMAIN files
         /\ p[2] \in DOMAIN Page[files[p[1]]].records
         /\ p[3] \in Slots(t, Page[files[p[1]]].records[p[2]])
         /\ p = <<p[1], p[2], p[3]>>
         /\ p[1] \in Nat /\ p[2] \in Nat /\ p[3] \in Nat
         /\ files[p[1]] \in Files
<1>1. PICK n, k, l :
        /\ n \in DOMAIN files
        /\ k \in DOMAIN Page[files[n]].records
        /\ l \in Slots(t, Page[files[n]].records[k])
        /\ p = <<n, k, l>>
  BY DEF Places
<1>2. n \in Nat /\ files[n] \in Files
  BY <1>1
<1>3. Page[files[n]].records \in Seq(ToSet(Page[files[n]].records))
  BY <1>2, StagingAssumption DEF IsSequence
<1>4. k \in Nat
  BY <1>1, <1>3
<1>5. l \in Nat
  <2>1. CASE t = "header"
    BY <1>1, <2>1 DEF Slots
  <2>2. CASE t # "header"
    <3> DEFINE lines == Page[files[n]].records[k].lines
    <3>1. lines \in Seq(ToSet(lines))
      BY <1>1, <1>2, StagingAssumption DEF IsSequence
    <3>2. l \in DOMAIN lines
      BY <1>1, <2>2 DEF Slots
    <3>3. QED
      BY <3>1, <3>2
  <2>3. QED
    BY <2>1, <2>2
<1>6. QED
  BY <1>1, <1>2, <1>4, <1>5

(* A row of a batch is a row of one of its files.                          *)
LEMMA RowOfFile ==
  ASSUME NEW t \in Tables, NEW files \in Seq(Files), NEW r \in Parsed(t, files)
  PROVE  \E f \in ToSet(files) :
           /\ r \in Parsed(t, <<f>>)
           /\ r.tenant = Page[f].tenant
           /\ r.synced = Page[f].synced /\ r.synced \in Nat
           /\ t = "header" => r.line = "whole"
<1>1. PICK p \in Places(t, files) : r = RowAt(files, p)
  BY DEF Parsed
<1> DEFINE f == files[p[1]]
           q == <<1, p[2], p[3]>>
<1>2. /\ p[1] \in DOMAIN files /\ f \in Files
      /\ p[2] \in DOMAIN Page[f].records
      /\ p[3] \in Slots(t, Page[f].records[p[2]])
  BY PlaceParts
<1>3. f \in ToSet(files)
  BY <1>2 DEF ToSet
<1>4. q \in Places(t, <<f>>)
  <2>1. 1 \in DOMAIN <<f>> /\ <<f>>[1] = f
    OBVIOUS
  <2>2. QED
    BY <1>2, <2>1 DEF Places
<1>5. RowAt(<<f>>, q) = r
  BY <1>1 DEF RowAt
<1>6. r \in Parsed(t, <<f>>)
  BY <1>4, <1>5 DEF Parsed
<1>7. r.tenant = Page[f].tenant /\ r.synced = Page[f].synced
  BY <1>1 DEF RowAt
<1>8. Page[f].synced \in Nat
  BY <1>2, StagingAssumption
<1>9. t = "header" => r.line = "whole"
  BY <1>1, <1>2 DEF RowAt, Slots
<1>10. QED
  BY <1>3, <1>6, <1>7, <1>8, <1>9

(* The rows of a batch are those of its files.                             *)
LEMMA FileOfRow ==
  ASSUME NEW t \in Tables, NEW files \in Seq(Files), NEW f \in ToSet(files)
  PROVE  Parsed(t, <<f>>) \subseteq Parsed(t, files)
<1> SUFFICES ASSUME NEW r \in Parsed(t, <<f>>)
             PROVE  r \in Parsed(t, files)
  OBVIOUS
<1>1. PICK n \in DOMAIN files : files[n] = f
  BY DEF ToSet
<1>2. f \in Files /\ <<f>> \in Seq(Files)
  BY <1>1
<1>3. PICK p \in Places(t, <<f>>) : r = RowAt(<<f>>, p)
  BY DEF Parsed
<1> DEFINE q == <<n, p[2], p[3]>>
<1> DEFINE one == <<f>>
<1>4. /\ p[1] = 1 /\ one[p[1]] = f
      /\ p[2] \in DOMAIN Page[f].records
      /\ p[3] \in Slots(t, Page[f].records[p[2]])
  <2>1. one \in Seq(Files) /\ DOMAIN one = {1} /\ one[1] = f
    BY <1>2
  <2> HIDE DEF one
  <2>2. p \in Places(t, one)
    BY DEF one
  <2>3. /\ p[1] \in DOMAIN one
        /\ p[2] \in DOMAIN Page[one[p[1]]].records
        /\ p[3] \in Slots(t, Page[one[p[1]]].records[p[2]])
    BY <2>1, <2>2, PlaceParts
  <2>4. QED
    BY <2>1, <2>3
<1>5. q \in Places(t, files)
  BY <1>1, <1>4 DEF Places
<1>6. RowAt(files, q) = r
  BY <1>1, <1>3, <1>4 DEF RowAt
<1>7. QED
  BY <1>5, <1>6 DEF Parsed

(* A sequence has finitely many places.                                    *)
LEMMA SeqDomainFinite ==
  ASSUME NEW S, NEW s \in Seq(S)
  PROVE  IsFiniteSet(DOMAIN s)
<1>1. DOMAIN s = 1..Len(s) /\ Len(s) \in Int
  OBVIOUS
<1>2. QED
  BY <1>1, FS_Interval

(* A sequence over a set is one over a larger set.                         *)
LEMMA SeqOfSuperset ==
  ASSUME NEW S, NEW T, S \subseteq T, NEW s \in Seq(S)
  PROVE  s \in Seq(T)
<1>1. Len(s) \in Nat /\ s \in [1..Len(s) -> S]
  OBVIOUS
<1>2. s \in [1..Len(s) -> T]
  BY <1>1
<1>3. QED
  BY <1>1, <1>2

(* The two parts of a concatenation.                                       *)
LEMMA ConcatParts ==
  ASSUME NEW S, NEW s \in Seq(S), NEW u \in Seq(S), NEW r, r = s \o u
  PROVE  /\ r \in Seq(S)
         /\ Len(r) = Len(s) + Len(u)
         /\ \A i \in 1..Len(s) : r[i] = s[i]
         /\ \A i \in 1..Len(u) : r[Len(s) + i] = u[i]
<1>1. Len(s) \in Nat /\ Len(u) \in Nat
  OBVIOUS
<1>2. /\ r \in Seq(S) /\ Len(r) = Len(s) + Len(u)
      /\ \A i \in 1..(Len(s) + Len(u)) :
           r[i] = IF i <= Len(s) THEN s[i] ELSE u[i - Len(s)]
  BY ConcatProperties
<1>3. \A i \in 1..Len(s) : r[i] = s[i]
  BY <1>1, <1>2
<1>4. \A i \in 1..Len(u) : r[Len(s) + i] = u[i]
  <2> TAKE i \in 1..Len(u)
  <2>1. /\ Len(s) + i \in 1..(Len(s) + Len(u))
        /\ ~(Len(s) + i <= Len(s)) /\ (Len(s) + i) - Len(s) = i
    BY <1>1
  <2>2. QED
    BY <1>2, <2>1
<1>5. QED
  BY <1>2, <1>3, <1>4

(* A batch has finitely many rows.                                         *)
LEMMA ParsedFinite ==
  ASSUME NEW t \in Tables, NEW files \in Seq(Files)
  PROVE  IsFiniteSet(Places(t, files)) /\ IsFiniteSet(Parsed(t, files))
<1> DEFINE Of(n, k) ==
             {<<n, k, l>> : l \in Slots(t, Page[files[n]].records[k])}
           In(n) == UNION {Of(n, k) : k \in DOMAIN Page[files[n]].records}
<1>1. ASSUME NEW n \in DOMAIN files
      PROVE  IsFiniteSet(In(n))
  <2> DEFINE recs == Page[files[n]].records
  <2>1. recs \in Seq(ToSet(recs)) /\ files[n] \in Files
    BY StagingAssumption DEF IsSequence
  <2>2. IsFiniteSet(DOMAIN recs)
    BY <2>1, SeqDomainFinite
  <2>3. ASSUME NEW k \in DOMAIN recs
        PROVE  IsFiniteSet(Of(n, k))
    <3> DEFINE S == Slots(t, recs[k])
               place == [l \in S |-> <<n, k, l>>]
    <3>1. recs[k].lines \in Seq(ToSet(recs[k].lines))
      BY <2>1, StagingAssumption DEF IsSequence
    <3>2. IsFiniteSet(DOMAIN recs[k].lines)
      BY <3>1, SeqDomainFinite
    <3>3. IsFiniteSet(S)
      BY <3>2, FS_Singleton DEF Slots
    <3> HIDE DEF S
    <3>4. IsFiniteSet({place[l] : l \in S})
      BY <3>3, FiniteRange
    <3>5. {place[l] : l \in S} = Of(n, k)
      BY DEF S
    <3>6. QED
      BY <3>4, <3>5
  <2> DEFINE all == [k \in DOMAIN recs |-> Of(n, k)]
  <2> HIDE DEF Of, recs
  <2>4. IsFiniteSet({all[k] : k \in DOMAIN recs})
    BY <2>2, FiniteRange
  <2>5. \A T \in {all[k] : k \in DOMAIN recs} : IsFiniteSet(T)
    BY <2>3
  <2>6. UNION {all[k] : k \in DOMAIN recs} = In(n)
    BY DEF recs
  <2>7. QED
    BY <2>4, <2>5, <2>6, FS_UNION
<1> DEFINE each == [n \in DOMAIN files |-> In(n)]
<1>2. UNION {In(n) : n \in DOMAIN files} = Places(t, files)
  BY DEF Places
<1> HIDE DEF In
<1>3. IsFiniteSet(DOMAIN files)
  BY SeqDomainFinite
<1>4. IsFiniteSet({each[n] : n \in DOMAIN files})
  BY <1>3, FiniteRange
<1>5. \A T \in {each[n] : n \in DOMAIN files} : IsFiniteSet(T)
  BY <1>1
<1>6. IsFiniteSet(Places(t, files))
  <2>1. UNION {each[n] : n \in DOMAIN files} = UNION {In(n) : n \in DOMAIN files}
    OBVIOUS
  <2>2. QED
    BY <1>2, <1>4, <1>5, <2>1, FS_UNION
<1> DEFINE P == Places(t, files)
           row == [p \in P |-> RowAt(files, p)]
<1>7. {row[p] : p \in P} = Parsed(t, files)
  BY DEF Parsed
<1> HIDE DEF P
<1>8. IsFiniteSet({row[p] : p \in P})
  BY <1>6, FiniteRange DEF P
<1>9. QED
  BY <1>6, <1>7, <1>8

----------------------------------------------------------------------------
(* The rows a batch is collapsed to.                                       *)

(* Two rows of a batch: the one at p is kept rather than the one at q.     *)
Stamp(t, files, p) == Timestamp(t, RowAt(files, p))
Beats(t, files, p, q) ==
  \/ Stamp(t, files, p) > Stamp(t, files, q)
  \/ Stamp(t, files, p) = Stamp(t, files, q) /\ NotBefore(p, q)

(* What Dedup keeps, in terms of places.                                   *)
LEMMA DedupPlaces ==
  ASSUME NEW t, NEW files
  PROVE  \A r : r \in Dedup(t, files) <=>
           \E p \in Places(t, files) :
             /\ r = RowAt(files, p)
             /\ \A q \in Places(t, files) :
                  SameKey(RowAt(files, q), RowAt(files, p)) =>
                    Beats(t, files, p, q)
  BY DEF Dedup, Winners, Beats, Stamp

(* Of two places one beats the other, only one if they differ, and beating *)
(* is transitive.                                                          *)
LEMMA BeatsOrder ==
  ASSUME NEW t \in Tables, NEW files \in Seq(Files)
  PROVE  /\ \A p, q \in Places(t, files) :
              /\ Beats(t, files, p, q) \/ Beats(t, files, q, p)
              /\ Beats(t, files, p, q) /\ Beats(t, files, q, p) => p = q
         /\ \A p, q, u \in Places(t, files) :
              Beats(t, files, p, q) /\ Beats(t, files, q, u) =>
                Beats(t, files, p, u)
<1>1. ASSUME NEW p \in Places(t, files)
      PROVE  /\ p[1] \in Nat /\ p[2] \in Nat /\ p[3] \in Nat
             /\ p = <<p[1], p[2], p[3]>>
             /\ Stamp(t, files, p) \in Nat
  <2>1. /\ p[1] \in Nat /\ p[2] \in Nat /\ p[3] \in Nat
        /\ p = <<p[1], p[2], p[3]>> /\ files[p[1]] \in Files
    BY PlaceParts
  <2>2. Page[files[p[1]]].synced \in Nat
    BY <2>1, StagingAssumption
  <2>3. Stamp(t, files, p) \in Nat
    BY <2>2 DEF Stamp, Timestamp, RowAt
  <2>4. QED
    BY <2>1, <2>3
<1>2. ASSUME NEW p \in Places(t, files), NEW q \in Places(t, files)
      PROVE  Beats(t, files, p, q) \/ Beats(t, files, q, p)
  BY <1>1 DEF Beats, NotBefore
<1>3. ASSUME NEW p \in Places(t, files), NEW q \in Places(t, files),
             Beats(t, files, p, q), Beats(t, files, q, p)
      PROVE  p = q
  <2>1. p[1] = q[1] /\ p[2] = q[2] /\ p[3] = q[3]
    BY <1>1, <1>3 DEF Beats, NotBefore
  <2>2. QED
    BY <1>1, <2>1
<1>4. ASSUME NEW p \in Places(t, files), NEW q \in Places(t, files),
             NEW u \in Places(t, files),
             Beats(t, files, p, q), Beats(t, files, q, u)
      PROVE  Beats(t, files, p, u)
  BY <1>1, <1>4 DEF Beats, NotBefore
<1>5. QED
  BY <1>2, <1>3, <1>4

(* The collapsed batch has one row per key, for every key of the batch,    *)
(* and for a header the newest of them.                                    *)
LEMMA DedupFacts ==
  ASSUME NEW t \in Tables, NEW files \in Seq(Files)
  PROVE  /\ Dedup(t, files) \subseteq Parsed(t, files)
         /\ IsFiniteSet(Dedup(t, files))
         /\ \A r, s \in Dedup(t, files) : SameKey(r, s) => r = s
         /\ \A r \in Parsed(t, files) : \E s \in Dedup(t, files) :
              SameKey(r, s) /\ (t = "header" => s.synced >= r.synced)
<1> DEFINE P == Places(t, files)
<1>1. Dedup(t, files) \subseteq Parsed(t, files)
  BY DedupPlaces DEF Parsed
<1>2. IsFiniteSet(Dedup(t, files))
  BY <1>1, ParsedFinite, FS_Subset
<1>3. ASSUME NEW r \in Dedup(t, files), NEW s \in Dedup(t, files), SameKey(r, s)
      PROVE  r = s
  <2>1. PICK p \in P : /\ r = RowAt(files, p)
                       /\ \A q \in P : SameKey(RowAt(files, q), r) =>
                                          Beats(t, files, p, q)
    BY DedupPlaces
  <2>2. PICK q \in P : /\ s = RowAt(files, q)
                       /\ \A u \in P : SameKey(RowAt(files, u), s) =>
                                          Beats(t, files, q, u)
    BY DedupPlaces
  <2>3. SameKey(s, r)
    BY <1>3 DEF SameKey
  <2>4. Beats(t, files, p, q) /\ Beats(t, files, q, p)
    BY <1>3, <2>1, <2>2, <2>3
  <2>5. p = q
    BY <2>4, BeatsOrder
  <2>6. QED
    BY <2>1, <2>2, <2>5
<1>4. ASSUME NEW r \in Parsed(t, files)
      PROVE  \E s \in Dedup(t, files) :
               SameKey(r, s) /\ (t = "header" => s.synced >= r.synced)
  <2>1. PICK p0 \in P : r = RowAt(files, p0)
    BY DEF Parsed
  <2> DEFINE S == {p \in P : SameKey(RowAt(files, p), r)}
             R == {pq \in S \X S : Beats(t, files, pq[1], pq[2])}
  <2>2. p0 \in S
    BY <2>1 DEF SameKey
  <2>3. IsFiniteSet(S) /\ S # {} /\ S \subseteq P
    BY <2>2, ParsedFinite, FS_Subset
  <2>4. \A x, y \in S : <<x, y>> \in R <=> Beats(t, files, x, y)
    OBVIOUS
  <2> HIDE DEF S, R
  <2>5. \A x, y \in S : <<x, y>> \in R \/ <<y, x>> \in R
    BY <2>3, <2>4, BeatsOrder
  <2>6. \A x, y, z \in S : <<x, y>> \in R /\ <<y, z>> \in R => <<x, z>> \in R
    BY <2>3, <2>4, BeatsOrder
  <2>7. PICK p \in S : \A q \in S : <<p, q>> \in R
    BY <2>3, <2>5, <2>6, GreatestElement
  <2> DEFINE s == RowAt(files, p)
  <2>8. p \in P /\ SameKey(s, r)
    BY <2>7 DEF S
  <2>9. \A q \in P : SameKey(RowAt(files, q), s) => Beats(t, files, p, q)
    <3>1. \A q \in P : SameKey(RowAt(files, q), s) => q \in S
      BY <2>8 DEF S, SameKey
    <3>2. QED
      BY <3>1, <2>4, <2>7
  <2>10. s \in Dedup(t, files)
    BY <2>8, <2>9, DedupPlaces
  <2>11. t = "header" => s.synced >= r.synced
    <3>1. Beats(t, files, p, p0)
      BY <2>2, <2>4, <2>7
    <3>2. s.synced \in Nat /\ r.synced \in Nat
      BY <1>1, <2>10, RowOfFile
    <3>3. QED
      BY <2>1, <3>1, <3>2 DEF Beats, Stamp, Timestamp
  <2>12. QED
    BY <2>8, <2>10, <2>11 DEF SameKey
<1>5. QED
  BY <1>1, <1>2, <1>3, <1>4

----------------------------------------------------------------------------
(* A MERGE.                                                                *)

(* What a MERGE makes of the rows of its target: a row stays where it is   *)
(* and keeps its key; one that was seen takes the columns of the source    *)
(* row that matches it; a row is added at most once, for a source row      *)
(* that no row seen matches; and every source row is there afterwards.     *)
Outcome(target, n, source, result) ==
  /\ \A i \in DOMAIN target :
       /\ i \in DOMAIN result
       /\ \/ /\ result[i] = target[i]
             /\ i <= n => \A s \in source : ~Matches(target[i], s)
          \/ /\ i <= n
             /\ result[i] \in source /\ Matches(target[i], result[i])
  /\ \A i \in DOMAIN result :
       i \notin DOMAIN target =>
         /\ result[i] \in source
         /\ \A k \in 1..n : ~Matches(target[k], result[i])
  /\ \A i, j \in DOMAIN result :
       /\ i \notin DOMAIN target /\ j \notin DOMAIN target
       /\ result[i] = result[j]
       => i = j
  /\ \A s \in source :
       \/ \E i \in DOMAIN result : result[i] = s
       \/ \E k \in 1..n : Matches(target[k], s)

LEMMA MergedRows ==
  ASSUME NEW Old, NEW target \in Seq(Old), NEW source, IsFiniteSet(source),
         NEW n \in Nat, n <= Len(target),
         NEW result, result = Merged(target, n, source)
  PROVE  /\ result \in Seq(Old \cup source)
         /\ Len(target) <= Len(result)
         /\ Outcome(target, n, source, result)
<1> DEFINE Hit(r) == {s \in source : Matches(r, s)}
           fresh == {s \in source : \A i \in 1..n : ~Matches(target[i], s)}
           kept == [i \in DOMAIN target |->
                      IF i > n \/ Hit(target[i]) = {} THEN target[i]
                      ELSE CHOOSE s \in Hit(target[i]) : TRUE]
           added == SetToSeq(fresh)
           All == Old \cup source
<1>0. Len(target) \in Nat /\ DOMAIN target = 1..Len(target)
      /\ 1..n \subseteq DOMAIN target
  OBVIOUS
<1>1. result = kept \o added
  BY DEF Merged
<1>2. IsFiniteSet(fresh)
  BY FS_Subset
<1>3. added \in Seq(All) /\ ToSet(added) = fresh
  <2>1. fresh \subseteq All
    OBVIOUS
  <2>2. added \in Seq(fresh) /\ ToSet(added) = fresh
    BY <1>2, SetToSeqLists
  <2> HIDE DEF fresh, added
  <2>3. added \in Seq(All)
    BY <2>1, <2>2, SeqOfSuperset
  <2>4. QED
    BY <2>2, <2>3
<1>4. \A i, j \in DOMAIN added : added[i] = added[j] => i = j
  BY <1>2, SetToSeqLists
<1>5. \A i \in DOMAIN target :
        \/ /\ kept[i] = target[i]
           /\ i <= n => \A s \in source : ~Matches(target[i], s)
        \/ i <= n /\ kept[i] \in source /\ Matches(target[i], kept[i])
  <2> SUFFICES ASSUME NEW i \in DOMAIN target
               PROVE  \/ /\ kept[i] = target[i]
                         /\ i <= n => \A s \in source : ~Matches(target[i], s)
                      \/ /\ i <= n
                         /\ kept[i] \in source /\ Matches(target[i], kept[i])
    OBVIOUS
  <2>1. CASE i > n
    BY <2>1, <1>0
  <2>2. CASE i <= n /\ Hit(target[i]) = {}
    BY <2>2, <1>0
  <2>3. CASE i <= n /\ Hit(target[i]) # {}
    <3>1. kept[i] \in Hit(target[i])
      BY <2>3, <1>0
    <3>2. QED
      BY <2>3, <3>1
  <2>4. QED
    BY <1>0, <2>1, <2>2, <2>3
<1>6. kept \in Seq(All) /\ Len(kept) = Len(target) /\ DOMAIN kept = DOMAIN target
  <2>1. DOMAIN kept = 1..Len(target) /\ Len(target) \in Nat
    OBVIOUS
  <2>2. \A i \in DOMAIN target : target[i] \in Old
    OBVIOUS
  <2>3. \A i \in DOMAIN target : kept[i] \in All
    BY <1>5, <2>2
  <2>4. kept \in [1..Len(target) -> All]
    <3>1. kept = [i \in DOMAIN target |-> kept[i]]
      OBVIOUS
    <3>2. QED
      BY <2>1, <2>3, <3>1
  <2> HIDE DEF kept
  <2>5. QED
    BY <2>1, <2>4
<1> HIDE DEF kept, added, fresh
<1>7. /\ result \in Seq(All)
      /\ Len(result) = Len(target) + Len(added)
      /\ \A i \in 1..Len(target) : result[i] = kept[i]
      /\ \A i \in 1..Len(added) : result[Len(target) + i] = added[i]
  <2> HIDE DEF All
  <2>1. kept \in Seq(All) /\ added \in Seq(All)
    BY <1>3, <1>6 DEF All
  <2>2. /\ result \in Seq(All)
        /\ Len(result) = Len(kept) + Len(added)
        /\ \A i \in 1..Len(kept) : result[i] = kept[i]
        /\ \A i \in 1..Len(added) : result[Len(kept) + i] = added[i]
    BY <1>1, <2>1, ConcatParts
  <2>3. QED
    BY <1>6, <2>2
<1>8. /\ DOMAIN result = 1..(Len(target) + Len(added))
       /\ Len(added) \in Nat /\ DOMAIN added = 1..Len(added)
  BY <1>0, <1>3, <1>7
<1>9. \A i \in DOMAIN target : i \in DOMAIN result /\ result[i] = kept[i]
  BY <1>3, <1>6, <1>7
<1>10. \A i \in DOMAIN result : i \notin DOMAIN target =>
        \E k \in DOMAIN added : i = Len(target) + k /\ result[i] = added[k]
  <2> SUFFICES ASSUME NEW i \in DOMAIN result, i \notin DOMAIN target
               PROVE  \E k \in DOMAIN added :
                        i = Len(target) + k /\ result[i] = added[k]
    OBVIOUS
  <2> DEFINE k == i - Len(target)
  <2>1. k \in 1..Len(added) /\ i = Len(target) + k
    BY <1>0, <1>8
  <2>2. QED
    BY <1>7, <1>8, <2>1
<1>11. \A k \in DOMAIN added : added[k] \in fresh
  BY <1>3 DEF ToSet
<1>12. \A i \in DOMAIN result : i \notin DOMAIN target =>
        /\ result[i] \in source
        /\ \A k \in 1..n : ~Matches(target[k], result[i])
  BY <1>10, <1>11 DEF fresh
<1>13. \A i, j \in DOMAIN result :
         /\ i \notin DOMAIN target /\ j \notin DOMAIN target
         /\ result[i] = result[j]
         => i = j
  BY <1>4, <1>10
<1>14. \A s \in source :
         \/ \E i \in DOMAIN result : result[i] = s
         \/ \E k \in 1..n : Matches(target[k], s)
  <2>1. ASSUME NEW s \in fresh
        PROVE  \E i \in DOMAIN result : result[i] = s
    <3>1. PICK k \in DOMAIN added : added[k] = s
      BY <1>3 DEF ToSet
    <3>2. Len(target) + k \in DOMAIN result /\ result[Len(target) + k] = s
      BY <1>0, <1>7, <1>8, <3>1
    <3>3. QED
      BY <3>2
  <2>2. QED
    BY <2>1 DEF fresh
<1>15. Len(target) <= Len(result)
  BY <1>0, <1>3, <1>7
<1>16. Outcome(target, n, source, result)
  BY <1>5, <1>9, <1>12, <1>13, <1>14 DEF Outcome
<1>17. QED
  BY <1>7, <1>15, <1>16

----------------------------------------------------------------------------
(* Types.                                                                  *)

(* A running MERGE has seen rows the table has.                            *)
BaseSeen ==
  \A w \in Workers : pc[w] = "running" => base[w] <= Len(staging[tab[w]])

StagingTypes == StagingTypeOK /\ IsFiniteSet(landed) /\ BaseSeen

(* The rows a table may hold.                                              *)
LandedRows(t) == UNION {Parsed(t, <<f>>) : f \in landed}

(* What the constants are.                                                 *)
LEMMA WorkerParts ==
  /\ Instances \cap Threads = {}
  /\ Nobody \notin Workers
  /\ \A w \in Workers : ProcessOf(w) \in Processes
  /\ \A w \in Workers : w \in Instances \/ w \in Threads
  BY StagingAssumption DEF Workers, Processes, ProcessOf

(* The lock a worker uses is the one of its process and table.             *)
LEMMA MyLockType ==
  ASSUME StagingTypes, NEW w \in Workers
  PROVE  MyLock(w) \in Processes \X Tables
  BY WorkerParts DEF StagingTypes, StagingTypeOK, MyLock

(* An order of a set of landed files is a sequence of landed files.        *)
LEMMA SetToSeqsType ==
  ASSUME IsFiniteSet(landed), NEW read \in SUBSET landed,
         NEW files \in SetToSeqs(read)
  PROVE  files \in Seq(landed) /\ ToSet(files) \subseteq read
<1>1. Cardinality(read) \in Nat
  BY FS_Subset, FS_CardinalityType
<1>2. files \in [1..Cardinality(read) -> read]
  BY DEF SetToSeqs
<1>3. files \in Seq(read)
  BY <1>1, <1>2
<1>4. files \in Seq(landed)
  BY <1>3, SeqOfSuperset
<1>5. QED
  BY <1>2, <1>4 DEF ToSet

(* The rows of a batch of landed files may be in the table.                *)
LEMMA BatchLanded ==
  ASSUME landed \subseteq Files, NEW t \in Tables, NEW files \in Seq(landed)
  PROVE  Parsed(t, files) \subseteq LandedRows(t)
<1> SUFFICES ASSUME NEW r \in Parsed(t, files)
             PROVE  r \in LandedRows(t)
  OBVIOUS
<1>1. files \in Seq(Files)
  BY SeqOfSuperset
<1>2. PICK f \in ToSet(files) : r \in Parsed(t, <<f>>)
  BY <1>1, RowOfFile
<1>3. f \in landed
  BY DEF ToSet
<1>4. QED
  BY <1>2, <1>3 DEF LandedRows

(* What RunMerge reads and writes.                                         *)
LEMMA RunMergeFacts ==
  ASSUME StagingTypes, NEW w \in Workers, RunMerge(w)
  PROVE  LET t == tab[w]
             n == base[w]
             batch == Dedup(t, input[w])
         IN /\ t \in Tables /\ input[w] \in Seq(Files)
            /\ staging[t] \in Seq(LandedRows(t))
            /\ n \in Nat /\ n <= Len(staging[t])
            /\ IsFiniteSet(batch)
            /\ staging'[t] = Merged(staging[t], n, batch)
            /\ \A u \in Tables : u # t => staging'[u] = staging[u]
<1>1. /\ tab[w] \in Tables /\ input[w] \in Seq(landed) /\ landed \subseteq Files
      /\ DOMAIN staging = Tables /\ base[w] \in Nat
      /\ \A u \in Tables : staging[u] \in Seq(LandedRows(u))
  BY DEF StagingTypes, StagingTypeOK, LandedRows
<1>2. input[w] \in Seq(Files)
  BY <1>1, SeqOfSuperset
<1>3. IsFiniteSet(Dedup(tab[w], input[w]))
  BY <1>1, <1>2, DedupFacts
<1>4. base[w] <= Len(staging[tab[w]])
  BY DEF StagingTypes, BaseSeen, RunMerge
<1>5. /\ staging'[tab[w]]
           = Merged(staging[tab[w]], base[w], Dedup(tab[w], input[w]))
      /\ \A u \in Tables : u # tab[w] => staging'[u] = staging[u]
  BY <1>1 DEF RunMerge, Source
<1>6. QED
  BY <1>1, <1>2, <1>3, <1>4, <1>5

(* What RunMerge writes down of it, and which MERGEs are run again.        *)
LEMMA RunMergeRecords ==
  ASSUME StagingTypes, NEW w \in Workers, RunMerge(w)
  PROVE  LET t == tab[w] IN
         /\ DOMAIN origin' = Tables
         /\ \A u \in Tables : u # t => origin'[u] = origin[u]
         /\ origin'[t] = [i \in DOMAIN staging'[t] |->
              IF i \in DOMAIN staging[t] THEN origin[t][i]
              ELSE [by |-> w, base |-> base[w]]]
         /\ base' \in [Workers -> Nat]
         /\ \A v \in Workers :
              \/ base'[v] = base[v]
              \/ /\ v # w /\ pc[v] = "running" /\ tab[v] = t
                 /\ base'[v] = Len(staging'[t])
<1> DEFINE t == tab[w]
           merged == Merged(staging[t], base[w], Source(w))
<1>1. /\ t \in Tables /\ staging'[t] = merged
      /\ staging[t] \in Seq(LandedRows(t)) /\ base[w] \in Nat
      /\ base[w] <= Len(staging[t]) /\ IsFiniteSet(Source(w))
  BY RunMergeFacts DEF Source
<1>2. /\ DOMAIN origin = Tables /\ base \in [Workers -> Nat]
      /\ DOMAIN origin[t] = DOMAIN staging[t]
  BY <1>1 DEF StagingTypes, StagingTypeOK
<1>3. Len(merged) \in Nat
  <2>1. merged \in Seq(LandedRows(t) \cup Source(w))
    BY <1>1, MergedRows
  <2>2. QED
    BY <2>1
<1> HIDE DEF merged, t
<1>4. /\ origin' = [origin EXCEPT ![t] =
            [i \in DOMAIN merged |-> IF i \in DOMAIN origin[t] THEN origin[t][i]
                                     ELSE [by |-> w, base |-> base[w]]]]
      /\ base' = [v \in Workers |->
           IF v \in Rerun(w) THEN Len(merged) ELSE base[v]]
  BY <1>1, <1>2 DEF RunMerge, merged, t
<1>5. \A v \in Rerun(w) : v # w /\ pc[v] = "running" /\ tab[v] = t
  BY DEF Rerun, t
<1>6. QED
  BY <1>1, <1>2, <1>3, <1>4, <1>5 DEF t

(* RunMerge keeps the types of the tables.                                 *)
LEMMA RunMergeTypes ==
  ASSUME StagingTypes, NEW w \in Workers, RunMerge(w)
  PROVE  \A t \in Tables :
           /\ staging'[t] \in Seq(LandedRows(t))
           /\ Len(staging[t]) <= Len(staging'[t])
           /\ origin'[t] \in
                [DOMAIN staging'[t] -> [by : Workers, base : Nat]]
<1> SUFFICES ASSUME NEW t \in Tables
             PROVE  /\ staging'[t] \in Seq(LandedRows(t))
                    /\ Len(staging[t]) <= Len(staging'[t])
                    /\ origin'[t] \in
                         [DOMAIN staging'[t] -> [by : Workers, base : Nat]]
  OBVIOUS
<1>1. /\ input[w] \in Seq(landed) /\ landed \subseteq Files
      /\ staging[t] \in Seq(LandedRows(t))
      /\ origin[t] \in [DOMAIN staging[t] -> [by : Workers, base : Nat]]
  BY DEF StagingTypes, StagingTypeOK, LandedRows
<1>2. CASE t # tab[w]
  <2>1. staging'[t] = staging[t] /\ origin'[t] = origin[t]
    BY <1>2, RunMergeFacts, RunMergeRecords
  <2>2. Len(staging[t]) \in Nat
    BY <1>1
  <2>3. QED
    BY <1>1, <2>1, <2>2
<1>3. CASE t = tab[w]
  <2> DEFINE batch == Dedup(t, input[w])
             n == base[w]
  <2>1. /\ staging'[t] = Merged(staging[t], n, batch)
        /\ n \in Nat /\ n <= Len(staging[t])
        /\ IsFiniteSet(batch) /\ input[w] \in Seq(Files)
    BY <1>3, RunMergeFacts
  <2>2. batch \subseteq LandedRows(t)
    BY <1>1, <2>1, DedupFacts, BatchLanded
  <2>3. origin'[t] = [i \in DOMAIN staging'[t] |->
          IF i \in DOMAIN staging[t] THEN origin[t][i]
          ELSE [by |-> w, base |-> n]]
    BY <1>3, RunMergeRecords
  <2> HIDE DEF batch, n
  <2>4. /\ staging'[t] \in Seq(LandedRows(t) \cup batch)
        /\ Len(staging[t]) <= Len(staging'[t])
    <3>1. /\ Merged(staging[t], n, batch) \in Seq(LandedRows(t) \cup batch)
          /\ Len(staging[t]) <= Len(Merged(staging[t], n, batch))
      BY <1>1, <2>1, MergedRows
    <3>2. QED
      BY <2>1, <3>1
  <2>5. LandedRows(t) \cup batch = LandedRows(t)
    BY <2>2
  <2>6. origin'[t] \in [DOMAIN staging'[t] -> [by : Workers, base : Nat]]
    BY <1>1, <2>1, <2>3
  <2>7. QED
    BY <2>4, <2>5, <2>6
<1>4. QED
  BY <1>2, <1>3

(* The types hold initially.                                               *)
LEMMA InitTypes == StagingInit => StagingTypes
<1> SUFFICES ASSUME StagingInit PROVE StagingTypes
  OBVIOUS
<1> USE DEF StagingInit
<1>1. IsFiniteSet(landed)
  BY FS_EmptySet
<1>2. lock \in [Processes \X Tables -> Workers \cup {Nobody}]
  OBVIOUS
<1>3. input \in [Workers -> Seq(landed)]
  OBVIOUS
<1>4. \A t \in Tables : staging[t] \in Seq(LandedRows(t))
  OBVIOUS
<1>5. QED
  BY <1>1, <1>2, <1>3, <1>4
  DEF StagingTypes, StagingTypeOK, BaseSeen, LandedRows, Phases, Tables, Outcomes

(* Every step keeps the types.                                             *)
LEMMA StepTypes == StagingTypes /\ [StagingNext]_stagingVars => StagingTypes'
<1> SUFFICES ASSUME StagingTypes, [StagingNext]_stagingVars
             PROVE  StagingTypes'
  OBVIOUS
<1> DEFINE Static == /\ IsFiniteSet(landed) /\ landed \subseteq Files
                     /\ jobs = Unscanned \/ jobs \subseteq DOMAIN TenantOrder
                     /\ input \in [Workers -> Seq(landed)]
           Moving == /\ pc \in [Workers -> Phases]
                     /\ tab \in [Workers -> Tables]
                     /\ seen \in [Workers -> {"nothing", "absent", "schema", "unread"}]
                     /\ lock \in [Processes \X Tables -> Workers \cup {Nobody}]
                     /\ creator \in [Tables -> Workers \cup {Nobody}]
                     /\ outcome \in [Workers -> Outcomes]
           Rows == /\ DOMAIN staging = Tables
                   /\ \A t \in Tables : staging[t] \in Seq(LandedRows(t))
           Marks == /\ DOMAIN origin = Tables
                    /\ \A t \in Tables : origin[t] \in
                         [DOMAIN staging[t] -> [by : Workers, base : Nat]]
                    /\ base \in [Workers -> Nat]
                    /\ BaseSeen
<1>1. StagingTypes <=> Static /\ Moving /\ Rows /\ Marks
  BY DEF StagingTypes, StagingTypeOK, LandedRows
<1>2. StagingTypes' <=> Static' /\ Moving' /\ Rows' /\ Marks'
  BY DEF StagingTypes, StagingTypeOK, LandedRows
<1>3. landed' = landed /\ staging' = staging => Rows'
  BY <1>1 DEF LandedRows
<1>3a. ASSUME UNCHANGED <<staging, origin, base>>,
              \A w \in Workers : pc'[w] = "running" =>
                pc[w] = "running" /\ tab'[w] = tab[w]
       PROVE  Marks'
  <2>1. Marks
    BY <1>1
  <2>2. BaseSeen'
    BY <1>3a, <2>1 DEF BaseSeen
  <2>3. QED
    BY <1>3a, <2>1, <2>2
<1>4. landed' = landed /\ jobs' = jobs /\ input' = input => Static'
  BY <1>1
<1> HIDE DEF Static, Rows, Marks
<1>5. CASE UNCHANGED stagingVars
  BY <1>1, <1>2, <1>3, <1>4, <1>5, <1>3a DEF stagingVars
<1>6. ASSUME NEW f \in Files, Land(f) PROVE StagingTypes'
  <2>1. IsFiniteSet(landed') /\ landed' \subseteq Files /\ landed \subseteq landed'
    BY <1>1, <1>6, FS_AddElement DEF Land, Static
  <2>2. \A w \in Workers : input[w] \in Seq(landed')
    BY <1>1, <2>1, SeqOfSuperset DEF Static
  <2>3. Static'
    BY <1>1, <1>6, <2>1, <2>2 DEF Land, Static
  <2>4. Rows'
    <3>1. ASSUME NEW t \in Tables PROVE staging[t] \in Seq(LandedRows(t)')
      <4>1. LandedRows(t) \subseteq LandedRows(t)'
        BY <2>1 DEF LandedRows
      <4>2. QED
        BY <1>1, <4>1, SeqOfSuperset DEF Rows
    <3>2. QED
      BY <1>1, <1>6, <3>1 DEF Land, Rows
  <2>5. Moving'
    BY <1>1, <1>6 DEF Land
  <2>6. Marks'
    BY <1>6, <1>3a DEF Land
  <2>7. QED
    BY <1>2, <2>3, <2>4, <2>5, <2>6
<1>7. ASSUME NEW i \in Instances, NEW f \in Files,
             ProcessGcsUpload(i, f) \/ ReadFails(i, f)
      PROVE  StagingTypes'
  <2>1. i \in Workers /\ f \in landed /\ <<f>> \in Seq(landed)
    BY <1>7 DEF Workers, ProcessGcsUpload, ReadFails
  <2>2. /\ jobs' = jobs /\ landed' = landed /\ staging' = staging
        /\ input' = [input EXCEPT ![i] = <<f>>]
    BY <1>7 DEF ProcessGcsUpload, ReadFails, Return, StartParser
  <2>3. Static'
    BY <1>1, <2>1, <2>2 DEF Static
  <2>4. Moving'
    BY <1>1, <1>7, <2>1
    DEF ProcessGcsUpload, ReadFails, Return, StartParser, Phases, Tables, Outcomes
  <2>5. /\ UNCHANGED <<staging, origin, base>> /\ pc'[i] # "running"
        /\ \A v \in Workers : v # i => pc'[v] = pc[v] /\ tab'[v] = tab[v]
    BY <1>1, <1>7, <2>1 DEF ProcessGcsUpload, ReadFails, Return, StartParser
  <2>6. Marks'
    BY <1>3a, <2>5
  <2>7. QED
    BY <1>2, <1>3, <2>2, <2>3, <2>4, <2>6
<1>8. CASE ScanBucket
  <2>1. Static'
    BY <1>1, <1>8 DEF ScanBucket, Static
  <2>2. Marks'
    BY <1>8, <1>3a DEF ScanBucket
  <2>3. QED
    BY <1>1, <1>2, <1>3, <1>8, <2>1, <2>2 DEF ScanBucket
<1>9. ASSUME NEW w \in Threads, TakeJob(w) PROVE StagingTypes'
  <2>1. PICK n \in jobs : /\ jobs' = jobs \ {n}
                          /\ \E read \in SUBSET Listed(TenantOrder[n]) :
                               \E files \in SetToSeqs(read) :
                                 StartParser(w, files) \/ NothingToParse(w, files)
    BY <1>9 DEF TakeJob
  <2>2. PICK read, files :
          /\ read \in SUBSET Listed(TenantOrder[n])
          /\ files \in SetToSeqs(read)
          /\ StartParser(w, files) \/ NothingToParse(w, files)
    BY <2>1
  <2>3. files \in Seq(landed)
    BY <1>1, <2>2, SetToSeqsType DEF Static, Listed
  <2>4. /\ landed' = landed /\ staging' = staging /\ w \in Workers
        /\ input' = [input EXCEPT ![w] = files]
    BY <2>2 DEF StartParser, NothingToParse, Workers
  <2>5. Static'
    BY <1>1, <1>9, <2>1, <2>3, <2>4 DEF Static, TakeJob
  <2>6. Moving'
    BY <1>1, <2>2, <2>4
    DEF StartParser, NothingToParse, Phases, Tables, Outcomes
  <2>7. /\ UNCHANGED <<staging, origin, base>> /\ pc'[w] # "running"
        /\ \A v \in Workers : v # w => pc'[v] = pc[v] /\ tab'[v] = tab[v]
    BY <1>1, <1>9, <2>2, <2>4 DEF TakeJob, StartParser, NothingToParse
  <2>8. Marks'
    BY <1>3a, <2>7
  <2>9. QED
    BY <1>2, <1>3, <2>4, <2>5, <2>6, <2>8
<1>10. ASSUME NEW w \in Workers, Merge(w) PROVE StagingTypes'
  <2>1. landed' = landed /\ jobs' = jobs /\ input' = input
    BY <1>10
    DEF Merge, AcquireLock, WriteTemp, GetSchemaFails, FindTarget, MissTarget,
        CreateTarget, StartMerge, RunMerge, CallFails, NextTable, Raise, Finish
  <2>2. MyLock(w) \in Processes \X Tables /\ tab[w] \in Tables
    BY <1>1, MyLockType
  <2>3. Moving'
    <3>1. CASE AcquireLock(w) \/ NextTable(w) \/ Raise(w)
      BY <1>1, <2>2, <3>1
      DEF AcquireLock, NextTable, Raise, Unlock, Finish, Phases, Tables, Outcomes
    <3>2. CASE WriteTemp(w) \/ GetSchemaFails(w) \/ FindTarget(w) \/ MissTarget(w)
               \/ CreateTarget(w) \/ StartMerge(w) \/ RunMerge(w)
               \/ CallFails(w)
      BY <1>1, <2>2, <3>2
      DEF WriteTemp, GetSchemaFails, FindTarget, MissTarget, CreateTarget,
          StartMerge, RunMerge, CallFails, Phases
    <3>3. QED
      BY <1>10, <3>1, <3>2 DEF Merge
  <2>4. Rows'
    <3>1. CASE RunMerge(w)
      <4>1. \A t \in Tables : staging'[t] \in Seq(LandedRows(t))
        BY <3>1, RunMergeTypes DEF LandedRows
      <4>2. DOMAIN staging' = Tables
        BY <1>1, <3>1 DEF RunMerge, Rows
      <4>3. QED
        BY <2>1, <4>1, <4>2 DEF Rows, LandedRows
    <3>2. CASE ~RunMerge(w)
      <4>1. staging' = staging
        BY <1>10, <3>2
        DEF Merge, AcquireLock, WriteTemp, GetSchemaFails, FindTarget,
            MissTarget, CreateTarget, StartMerge, CallFails, NextTable, Raise
      <4>2. QED
        BY <1>3, <2>1, <4>1
    <3>3. QED
      BY <3>1, <3>2
  <2>5. \A v \in Workers : v # w => pc'[v] = pc[v] /\ tab'[v] = tab[v]
    BY <1>1, <1>10
    DEF Merge, AcquireLock, WriteTemp, GetSchemaFails, FindTarget, MissTarget,
        CreateTarget, StartMerge, RunMerge, CallFails, NextTable, Raise, Finish
  <2>6. Marks'
    <3>1. CASE RunMerge(w)
      <4>1. \A t \in Tables :
              /\ Len(staging[t]) <= Len(staging'[t])
              /\ Len(staging[t]) \in Nat /\ Len(staging'[t]) \in Nat
              /\ origin'[t] \in
                   [DOMAIN staging'[t] -> [by : Workers, base : Nat]]
        BY <1>1, <2>4, <3>1, RunMergeTypes DEF Rows
      <4>2. /\ DOMAIN origin' = Tables /\ base' \in [Workers -> Nat]
            /\ \A v \in Workers :
                 \/ base'[v] = base[v]
                 \/ tab[v] = tab[w] /\ base'[v] = Len(staging'[tab[w]])
        BY <3>1, RunMergeRecords
      <4>3. tab' = tab /\ pc'[w] # "running"
        BY <1>1, <3>1 DEF RunMerge
      <4>4. ASSUME NEW v \in Workers, pc'[v] = "running"
            PROVE  base'[v] <= Len(staging'[tab'[v]])
        <5>1. v # w /\ pc[v] = "running" /\ tab[v] \in Tables /\ base[v] \in Nat
          BY <1>1, <2>5, <4>3, <4>4 DEF Marks
        <5>2. base[v] <= Len(staging[tab[v]])
          BY <1>1, <5>1 DEF Marks, BaseSeen
        <5>3. base[v] <= Len(staging'[tab[v]])
          BY <4>1, <5>1, <5>2
        <5>4. QED
          BY <4>1, <4>2, <4>3, <5>1, <5>3
      <4>5. BaseSeen'
        BY <4>4 DEF BaseSeen
      <4>6. QED
        BY <4>1, <4>2, <4>5 DEF Marks
    <3>2. CASE StartMerge(w)
      <4>1. /\ UNCHANGED <<staging, origin, tab>>
            /\ base' = [base EXCEPT ![w] = Len(staging[tab[w]])]
        BY <3>2 DEF StartMerge
      <4>2. Len(staging[tab[w]]) \in Nat
        BY <1>1, <2>2 DEF Rows
      <4>3. base' \in [Workers -> Nat]
        BY <1>1, <4>1, <4>2 DEF Marks
      <4>4. BaseSeen'
        BY <1>1, <2>5, <4>1, <4>2 DEF Marks, BaseSeen
      <4>5. QED
        BY <1>1, <4>1, <4>3, <4>4 DEF Marks
    <3>3. CASE ~(RunMerge(w) \/ StartMerge(w))
      <4>1. /\ UNCHANGED <<staging, origin, base>>
            /\ pc'[w] # "running"
        BY <1>1, <1>10, <3>3
        DEF Merge, AcquireLock, WriteTemp, GetSchemaFails, FindTarget,
            MissTarget, CreateTarget, CallFails, NextTable, Raise, Finish
      <4>2. QED
        BY <1>3a, <2>5, <4>1
    <3>4. QED
      BY <3>1, <3>2, <3>3
  <2>7. QED
    BY <1>2, <1>4, <2>1, <2>3, <2>4, <2>6
<1>11. ASSUME NEW p \in Processes, Kill(p) PROVE StagingTypes'
  <2>1. Moving'
    BY <1>1, <1>11 DEF Kill, Phases, Outcomes
  <2>2. Marks'
    BY <1>1, <1>11, <1>3a DEF Kill
  <2>3. QED
    BY <1>2, <1>3, <1>4, <1>11, <2>1, <2>2 DEF Kill
<1>12. QED
  BY <1>5, <1>6, <1>7, <1>8, <1>9, <1>10, <1>11 DEF StagingNext

(* The variables keep their types, and a staging table holds only rows     *)
(* that a file of the bucket holds.                                        *)
THEOREM StagingTypeCorrect == StagingSpec => []StagingTypeOK
<1>1. StagingTypes => StagingTypeOK
  BY DEF StagingTypes
<1>2. QED
  BY InitTypes, StepTypes, <1>1, PTL DEF StagingSpec

----------------------------------------------------------------------------
(* The lock and the schema.                                                *)

Inside ==
  {"schema", "ensure", "create", "merge", "running", "ok", "raising"}

(* A worker between taking and releasing a lock holds it; what it has not  *)
(* found there only a worker of another process can have created since.    *)
LockHeld == \A w \in Workers : pc[w] \in Inside => lock[MyLock(w)] = w

SchemaOwn ==
  \A w \in Workers :
    pc[w] \in {"ensure", "create", "merge"} /\ seen[w] = "absent" =>
      LET c == creator[tab[w]] IN
      c = Nobody \/ c = w \/ ~({c, w} \subseteq Threads)

(* Steps of one worker leave the others' locks alone.                      *)
LEMMA StepLock ==
  LockHeld /\ StagingTypes /\ [StagingNext]_stagingVars => LockHeld'
<1> SUFFICES ASSUME LockHeld, StagingTypes, [StagingNext]_stagingVars
             PROVE  LockHeld'
  OBVIOUS
<1>1. /\ \A w \in Workers : MyLock(w) \in Processes \X Tables
      /\ pc \in [Workers -> Phases] /\ tab \in [Workers -> Tables]
      /\ DOMAIN lock = Processes \X Tables
  BY MyLockType DEF StagingTypes, StagingTypeOK
<1>2. CASE pc' = pc /\ tab' = tab /\ lock' = lock
  BY <1>2 DEF LockHeld, MyLock
<1>3. ASSUME NEW w \in Workers, NEW u \in Workers,
             pc'[w] \in Inside => pc[w] \in Inside /\ tab'[w] = tab[w],
             \A v \in Workers : v # w => pc'[v] = pc[v] /\ tab'[v] = tab[v],
             lock' = lock
      PROVE  pc'[u] \in Inside => lock'[MyLock(u)'] = u
  BY <1>3 DEF LockHeld, MyLock
<1>4. ASSUME NEW f \in Files, Land(f) PROVE LockHeld'
  BY <1>2, <1>4 DEF Land
<1>5. ASSUME NEW i \in Instances, NEW f \in Files,
             ProcessGcsUpload(i, f) \/ ReadFails(i, f)
      PROVE  LockHeld'
  <2>1. /\ i \in Workers /\ lock' = lock /\ pc'[i] \notin Inside
        /\ \A v \in Workers : v # i => pc'[v] = pc[v] /\ tab'[v] = tab[v]
    BY <1>1, <1>5
    DEF ProcessGcsUpload, ReadFails, Return, StartParser, Inside, Workers
  <2>2. QED
    BY <1>3, <2>1 DEF LockHeld
<1>6. CASE ScanBucket
  BY <1>2, <1>6 DEF ScanBucket
<1>7. ASSUME NEW w \in Threads, TakeJob(w) PROVE LockHeld'
  <2>1. \E files : StartParser(w, files) \/ NothingToParse(w, files)
    BY <1>7 DEF TakeJob
  <2>2. /\ w \in Workers /\ lock' = lock /\ pc[w] = "idle"
        /\ pc'[w] \notin Inside
        /\ \A v \in Workers : v # w => pc'[v] = pc[v] /\ tab'[v] = tab[v]
    BY <1>1, <1>7, <2>1 DEF TakeJob, StartParser, NothingToParse, Inside, Workers
  <2>3. QED
    BY <1>3, <2>2 DEF LockHeld
<1>8. ASSUME NEW w \in Workers, Merge(w) PROVE LockHeld'
  <2>1. \A v \in Workers : v # w => pc'[v] = pc[v] /\ tab'[v] = tab[v]
    BY <1>1, <1>8
    DEF Merge, AcquireLock, WriteTemp, GetSchemaFails, FindTarget, MissTarget,
        CreateTarget, StartMerge, RunMerge, CallFails, NextTable, Raise, Finish
  <2>2. CASE AcquireLock(w)
    <3>1. /\ lock' = [lock EXCEPT ![MyLock(w)] = w] /\ tab' = tab
          /\ lock[MyLock(w)] = Nobody
      BY <2>2 DEF AcquireLock
    <3>2. ASSUME NEW v \in Workers, v # w, pc[v] \in Inside
          PROVE  lock'[MyLock(v)'] = v
      <4>1. lock[MyLock(v)] = v /\ v # Nobody
        BY <3>2, WorkerParts DEF LockHeld
      <4>2. MyLock(v)' = MyLock(v) /\ MyLock(v) # MyLock(w)
        BY <3>1, <4>1 DEF MyLock
      <4>3. QED
        BY <1>1, <3>1, <4>1, <4>2
    <3>3. lock'[MyLock(w)'] = w
      BY <1>1, <3>1 DEF MyLock
    <3>4. QED
      BY <2>1, <3>2, <3>3 DEF LockHeld
  <2>3. CASE NextTable(w) \/ Raise(w)
    <3>1. /\ lock' = [lock EXCEPT ![MyLock(w)] = Nobody]
          /\ pc[w] \in Inside /\ pc'[w] \notin Inside
      BY <1>1, <2>3 DEF NextTable, Raise, Unlock, Finish, Inside
    <3>2. ASSUME NEW v \in Workers, v # w, pc[v] \in Inside
          PROVE  lock'[MyLock(v)'] = v
      <4>1. lock[MyLock(v)] = v /\ lock[MyLock(w)] = w
        BY <3>1, <3>2 DEF LockHeld
      <4>2. MyLock(v)' = MyLock(v) /\ MyLock(v) # MyLock(w)
        BY <2>1, <3>2, <4>1 DEF MyLock
      <4>3. QED
        BY <1>1, <3>1, <4>1, <4>2
    <3>3. QED
      BY <2>1, <3>1, <3>2 DEF LockHeld
  <2>4. CASE WriteTemp(w) \/ GetSchemaFails(w) \/ FindTarget(w) \/ MissTarget(w)
             \/ CreateTarget(w) \/ StartMerge(w) \/ RunMerge(w) \/ CallFails(w)
    <3>1. pc[w] \in Inside /\ tab' = tab /\ lock' = lock
      BY <2>4
      DEF WriteTemp, GetSchemaFails, FindTarget, MissTarget, CreateTarget,
          StartMerge, RunMerge, CallFails, Inside
    <3>2. QED
      BY <1>3, <2>1, <3>1 DEF LockHeld
  <2>5. QED
    BY <1>8, <2>2, <2>3, <2>4 DEF Merge
<1>9. ASSUME NEW p \in Processes, Kill(p) PROVE LockHeld'
  <2> DEFINE mine == {w \in Workers : ProcessOf(w) = p}
  <2>1. /\ tab' = tab
        /\ pc' = [w \in Workers |-> IF w \in mine THEN "done" ELSE pc[w]]
        /\ lock' = [l \in DOMAIN lock |->
                      IF lock[l] \in mine THEN Nobody ELSE lock[l]]
    BY <1>9 DEF Kill
  <2>2. ASSUME NEW w \in Workers, pc'[w] \in Inside
        PROVE  lock'[MyLock(w)'] = w
    <3>1. w \notin mine /\ pc[w] \in Inside
      BY <2>1, <2>2 DEF Inside
    <3>2. lock[MyLock(w)] = w /\ MyLock(w)' = MyLock(w)
      BY <2>1, <3>1 DEF LockHeld, MyLock
    <3>3. QED
      BY <1>1, <2>1, <3>1, <3>2
  <2>3. QED
    BY <2>2 DEF LockHeld
<1>10. CASE UNCHANGED stagingVars
  BY <1>2, <1>10 DEF stagingVars
<1>11. QED
  BY <1>4, <1>5, <1>6, <1>7, <1>8, <1>9, <1>10 DEF StagingNext

(* A table is created under its lock, so no thread creates it while        *)
(* another thread holds the lock.                                          *)
LEMMA StepSchema ==
  SchemaOwn /\ LockHeld /\ StagingTypes /\ [StagingNext]_stagingVars => SchemaOwn'
<1> SUFFICES ASSUME SchemaOwn, LockHeld, StagingTypes,
                    [StagingNext]_stagingVars
             PROVE  SchemaOwn'
  OBVIOUS
<1> DEFINE Looking == {"ensure", "create", "merge"}
           Own(v) == pc[v] \in Looking /\ seen[v] = "absent" =>
                       LET c == creator[tab[v]] IN
                       c = Nobody \/ c = v \/ ~({c, v} \subseteq Threads)
<1>1. /\ pc \in [Workers -> Phases] /\ tab \in [Workers -> Tables]
      /\ DOMAIN seen = Workers /\ DOMAIN creator = Tables
  BY DEF StagingTypes, StagingTypeOK
<1>2. \A v \in Workers : Own(v)
  BY DEF SchemaOwn
<1>3. (\A v \in Workers : Own(v)') => SchemaOwn'
  BY DEF SchemaOwn
<1>4. ASSUME NEW v \in Workers, creator' = creator,
             \/ pc'[v] \notin Looking
             \/ pc[v] \in Looking /\ tab'[v] = tab[v] /\ seen'[v] = seen[v]
      PROVE  Own(v)'
  BY <1>2, <1>4
<1>5. CASE pc' = pc /\ tab' = tab /\ seen' = seen /\ creator' = creator
  BY <1>2, <1>3, <1>5
<1>6. ASSUME NEW f \in Files, Land(f) PROVE SchemaOwn'
  BY <1>5, <1>6 DEF Land
<1>7. ASSUME NEW i \in Instances, NEW f \in Files,
             ProcessGcsUpload(i, f) \/ ReadFails(i, f)
      PROVE  SchemaOwn'
  <2>1. /\ i \in Workers /\ creator' = creator /\ seen' = seen
        /\ pc'[i] \notin Looking
        /\ \A v \in Workers : v # i => pc'[v] = pc[v] /\ tab'[v] = tab[v]
    BY <1>1, <1>7
    DEF ProcessGcsUpload, ReadFails, Return, StartParser, Workers
  <2>2. QED
    BY <1>3, <1>4, <2>1
<1>8. CASE ScanBucket
  BY <1>5, <1>8 DEF ScanBucket
<1>9. ASSUME NEW w \in Threads, TakeJob(w) PROVE SchemaOwn'
  <2>1. \E files : StartParser(w, files) \/ NothingToParse(w, files)
    BY <1>9 DEF TakeJob
  <2>2. /\ w \in Workers /\ creator' = creator /\ seen' = seen
        /\ pc'[w] \notin Looking
        /\ \A v \in Workers : v # w => pc'[v] = pc[v] /\ tab'[v] = tab[v]
    BY <1>1, <1>9, <2>1 DEF TakeJob, StartParser, NothingToParse, Workers
  <2>3. QED
    BY <1>3, <1>4, <2>2
<1>10. ASSUME NEW w \in Workers, Merge(w) PROVE SchemaOwn'
  <2>1. \A v \in Workers : v # w =>
          pc'[v] = pc[v] /\ tab'[v] = tab[v] /\ seen'[v] = seen[v]
    BY <1>1, <1>10
    DEF Merge, AcquireLock, WriteTemp, GetSchemaFails, FindTarget, MissTarget,
        CreateTarget, StartMerge, RunMerge, CallFails, NextTable, Raise, Finish
  <2>2. CASE CreateTarget(w)
    <3>1. tab' = tab /\ seen' = seen /\ pc[w] = "create"
      BY <2>2 DEF CreateTarget
    <3>2. CASE creator' = creator
      BY <1>3, <1>4, <2>1, <3>1, <3>2
    <3>3. CASE creator' # creator
      <4>1. creator[tab[w]] = Nobody /\ creator' = [creator EXCEPT ![tab[w]] = w]
        BY <2>2, <3>3 DEF CreateTarget
      <4>2. ASSUME NEW v \in Workers, v # w PROVE Own(v)'
        <5> SUFFICES ASSUME pc[v] \in Looking, seen[v] = "absent"
                     PROVE  LET c == creator'[tab[v]] IN
                            c = Nobody \/ c = v \/ ~({c, v} \subseteq Threads)
          BY <2>1, <4>2
        <5>1. CASE tab[v] # tab[w]
          BY <1>1, <1>2, <4>1, <4>2, <5>1
        <5>2. CASE tab[v] = tab[w]
          <6>1. lock[MyLock(v)] = v /\ lock[MyLock(w)] = w
            BY <3>1 DEF LockHeld, Inside
          <6>2. ProcessOf(v) # ProcessOf(w)
            BY <4>2, <5>2, <6>1 DEF MyLock
          <6>3. ~({w, v} \subseteq Threads)
            BY <6>2 DEF ProcessOf
          <6>4. creator'[tab[v]] = w
            BY <1>1, <4>1, <5>2
          <6>5. QED
            BY <6>3, <6>4
        <5>3. QED
          BY <5>1, <5>2
      <4>3. Own(w)'
        BY <1>1, <3>1, <4>1
      <4>4. QED
        BY <1>3, <4>2, <4>3
    <3>4. QED
      BY <3>2, <3>3
  <2>3. CASE WriteTemp(w)
    <3>1. creator' = creator /\ tab' = tab
          /\ seen'[w] = IF creator[tab[w]] = Nobody THEN "absent" ELSE "schema"
      BY <1>1, <2>3 DEF WriteTemp
    <3>2. Own(w)'
      BY <3>1
    <3>3. \A v \in Workers : v # w => Own(v)'
      BY <1>2, <2>1, <3>1
    <3>4. QED
      BY <1>3, <3>2, <3>3
  <2>4. CASE GetSchemaFails(w)
    <3>1. creator' = creator /\ tab' = tab /\ seen'[w] = "unread"
      BY <1>1, <2>4 DEF GetSchemaFails
    <3>2. QED
      BY <1>2, <1>3, <2>1, <3>1
  <2>5. CASE AcquireLock(w) \/ StartMerge(w) \/ RunMerge(w) \/ CallFails(w)
             \/ NextTable(w) \/ Raise(w)
    <3>1. creator' = creator /\ pc'[w] \notin Looking
      BY <1>1, <2>5
      DEF AcquireLock, StartMerge, RunMerge, CallFails, NextTable, Raise, Finish
    <3>2. QED
      BY <1>2, <1>3, <2>1, <3>1
  <2>6. CASE FindTarget(w) \/ MissTarget(w)
    <3>1. creator' = creator /\ tab' = tab /\ seen' = seen /\ pc[w] = "ensure"
      BY <2>6 DEF FindTarget, MissTarget
    <3>2. QED
      BY <1>2, <1>3, <2>1, <3>1
  <2>7. QED
    BY <1>10, <2>2, <2>3, <2>4, <2>5, <2>6 DEF Merge
<1>11. ASSUME NEW p \in Processes, Kill(p) PROVE SchemaOwn'
  <2>1. tab' = tab /\ seen' = seen /\ creator' = creator
        /\ \A v \in Workers : pc'[v] = pc[v] \/ pc'[v] = "done"
    BY <1>1, <1>11 DEF Kill
  <2>2. QED
    BY <1>2, <1>3, <2>1
<1>12. CASE UNCHANGED stagingVars
  BY <1>5, <1>12 DEF stagingVars
<1>13. QED
  BY <1>6, <1>7, <1>8, <1>9, <1>10, <1>11, <1>12 DEF StagingNext

(* A temp table whose types were detected never meets a table another      *)
(* thread created meanwhile: the schema is read under the table's lock.    *)
THEOREM StagingOwnSchema == StagingSpec => []OwnSchema
<1>1. StagingInit => LockHeld /\ SchemaOwn
  BY DEF StagingInit, LockHeld, SchemaOwn, Inside
<1>2. SchemaOwn => OwnSchema
  BY WorkerParts DEF SchemaOwn, OwnSchema, Workers
<1>3. QED
  BY <1>1, <1>2, InitTypes, StepTypes, StepLock, StepSchema, PTL DEF StagingSpec

----------------------------------------------------------------------------
(* One row per key.                                                        *)

(* Only RunMerge inserts rows or updates them.                             *)
LEMMA OnlyMergeWrites ==
  ASSUME [StagingNext]_stagingVars
  PROVE  \/ staging' = staging /\ origin' = origin
         \/ \E w \in Workers : RunMerge(w)
  BY DEF StagingNext, stagingVars, Land, ProcessGcsUpload, ReadFails, Return,
         StartParser, ScanBucket, TakeJob, NothingToParse, Merge, AcquireLock,
         WriteTemp, GetSchemaFails, FindTarget, MissTarget, CreateTarget,
         StartMerge, CallFails, NextTable, Raise, Kill

(* What was inserted since the MERGE of a worker took its rows was         *)
(* inserted by another process.                                            *)
OthersInserted ==
  \A w \in Workers : pc[w] = "running" =>
    \A i \in DOMAIN origin[tab[w]] :
      i > base[w] => ProcessOf(origin[tab[w]][i].by) # ProcessOf(w)

(* A worker that writes or runs a MERGE shares its table with no other of  *)
(* its process.                                                            *)
LEMMA OneWriter ==
  ASSUME LockHeld, NEW v \in Workers, NEW w \in Workers, v # w,
         pc[v] \in Inside, pc[w] \in Inside, tab[v] = tab[w]
  PROVE  ProcessOf(v) # ProcessOf(w)
  BY DEF LockHeld, MyLock

(* Every step keeps what is unseen foreign.                                *)
LEMMA StepInserted ==
  OthersInserted /\ LockHeld /\ StagingTypes /\ [StagingNext]_stagingVars
  => OthersInserted'
<1> SUFFICES ASSUME OthersInserted, LockHeld, StagingTypes,
                    [StagingNext]_stagingVars
             PROVE  OthersInserted'
  OBVIOUS
<1>1. /\ pc \in [Workers -> Phases] /\ tab \in [Workers -> Tables]
      /\ base \in [Workers -> Nat] /\ DOMAIN origin = Tables
      /\ \A t \in Tables : /\ Len(staging[t]) \in Nat
                           /\ DOMAIN staging[t] = 1..Len(staging[t])
                           /\ DOMAIN origin[t] = DOMAIN staging[t]
  BY DEF StagingTypes, StagingTypeOK
<1>2. ASSUME UNCHANGED <<origin, base>>,
             \A v \in Workers : pc'[v] = "running" =>
               pc[v] = "running" /\ tab'[v] = tab[v]
      PROVE  OthersInserted'
  BY <1>2 DEF OthersInserted
<1>3. ASSUME NEW f \in Files, Land(f) PROVE OthersInserted'
  BY <1>2, <1>3 DEF Land
<1>4. ASSUME NEW i \in Instances, NEW f \in Files,
             ProcessGcsUpload(i, f) \/ ReadFails(i, f)
      PROVE  OthersInserted'
  <2>1. /\ UNCHANGED <<origin, base>> /\ pc'[i] # "running"
        /\ \A v \in Workers : v # i => pc'[v] = pc[v] /\ tab'[v] = tab[v]
    BY <1>1, <1>4
    DEF ProcessGcsUpload, ReadFails, Return, StartParser, Workers
  <2>2. QED
    BY <1>2, <2>1
<1>5. CASE ScanBucket
  BY <1>2, <1>5 DEF ScanBucket
<1>6. ASSUME NEW w \in Threads, TakeJob(w) PROVE OthersInserted'
  <2>1. \E files : StartParser(w, files) \/ NothingToParse(w, files)
    BY <1>6 DEF TakeJob
  <2>2. /\ UNCHANGED <<origin, base>> /\ pc'[w] # "running"
        /\ \A v \in Workers : v # w => pc'[v] = pc[v] /\ tab'[v] = tab[v]
    BY <1>1, <1>6, <2>1 DEF TakeJob, StartParser, NothingToParse, Workers
  <2>3. QED
    BY <1>2, <2>2
<1>7. ASSUME NEW w \in Workers, Merge(w) PROVE OthersInserted'
  <2>1. \A v \in Workers : v # w => pc'[v] = pc[v] /\ tab'[v] = tab[v]
    BY <1>1, <1>7
    DEF Merge, AcquireLock, WriteTemp, GetSchemaFails, FindTarget, MissTarget,
        CreateTarget, StartMerge, RunMerge, CallFails, NextTable, Raise, Finish
  <2>2. CASE RunMerge(w)
    <3> DEFINE t == tab[w]
    <3>1. /\ t \in Tables
          /\ Len(staging'[t]) \in Nat
          /\ DOMAIN staging'[t] = 1..Len(staging'[t])
      BY <1>1, <2>2, RunMergeTypes
    <3>2. /\ \A u \in Tables : u # t => origin'[u] = origin[u]
          /\ origin'[t] = [i \in DOMAIN staging'[t] |->
               IF i \in DOMAIN staging[t] THEN origin[t][i]
               ELSE [by |-> w, base |-> base[w]]]
          /\ \A v \in Workers :
               \/ base'[v] = base[v]
               \/ tab[v] = t /\ base'[v] = Len(staging'[t])
      BY <2>2, RunMergeRecords
    <3>3. tab' = tab /\ pc'[w] # "running" /\ pc[w] = "running"
      BY <1>1, <2>2 DEF RunMerge
    <3>4. ASSUME NEW v \in Workers, pc'[v] = "running",
                 NEW i \in DOMAIN origin'[tab[v]], i > base'[v]
          PROVE  ProcessOf(origin'[tab[v]][i].by) # ProcessOf(v)
      <4>1. v # w /\ pc[v] = "running" /\ tab[v] \in Tables
        BY <1>1, <2>1, <3>3, <3>4
      <4>2. CASE tab[v] # t
        <5>1. origin'[tab[v]] = origin[tab[v]] /\ base'[v] = base[v]
          BY <3>2, <4>1, <4>2
        <5>2. QED
          BY <3>4, <4>1, <5>1 DEF OthersInserted
      <4>3. CASE tab[v] = t
        <5>1. i \in DOMAIN staging'[t]
          BY <3>2, <3>4, <4>3
        <5>2. base'[v] = base[v]
          BY <3>1, <3>2, <3>4, <4>3, <5>1
        <5>3. CASE i \in DOMAIN staging[t]
          <6>1. origin'[t][i] = origin[t][i] /\ i \in DOMAIN origin[t]
            BY <1>1, <3>1, <3>2, <5>1, <5>3
          <6>2. QED
            BY <3>4, <4>1, <4>3, <5>2, <6>1 DEF OthersInserted
        <5>4. CASE i \notin DOMAIN staging[t]
          <6>1. origin'[t][i].by = w
            BY <3>2, <5>1, <5>4
          <6>2. ProcessOf(v) # ProcessOf(w)
            BY <3>3, <4>1, <4>3, OneWriter DEF Inside
          <6>3. QED
            BY <4>3, <6>1, <6>2
        <5>5. QED
          BY <5>3, <5>4
      <4>4. QED
        BY <4>2, <4>3
    <3>5. QED
      BY <3>3, <3>4 DEF OthersInserted
  <2>3. CASE StartMerge(w)
    <3>1. /\ UNCHANGED <<origin, tab>>
          /\ base' = [base EXCEPT ![w] = Len(staging[tab[w]])]
      BY <2>3 DEF StartMerge
    <3>2. tab[w] \in Tables /\ base'[w] = Len(staging[tab[w]])
          /\ \A v \in Workers : v # w => base'[v] = base[v]
      BY <1>1, <3>1
    <3>3. \A i \in DOMAIN origin[tab[w]] : ~(i > base'[w])
      BY <1>1, <3>2
    <3>4. QED
      BY <2>1, <3>1, <3>2, <3>3 DEF OthersInserted
  <2>4. CASE ~(RunMerge(w) \/ StartMerge(w))
    <3>1. UNCHANGED <<origin, base>> /\ pc'[w] # "running"
      BY <1>1, <1>7, <2>4
      DEF Merge, AcquireLock, WriteTemp, GetSchemaFails, FindTarget, MissTarget,
          CreateTarget, CallFails, NextTable, Raise, Finish
    <3>2. QED
      BY <1>2, <2>1, <3>1
  <2>5. QED
    BY <2>2, <2>3, <2>4
<1>8. ASSUME NEW p \in Processes, Kill(p) PROVE OthersInserted'
  BY <1>1, <1>2, <1>8 DEF Kill
<1>9. CASE UNCHANGED stagingVars
  BY <1>2, <1>9 DEF stagingVars
<1>10. QED
  BY <1>3, <1>4, <1>5, <1>6, <1>7, <1>8, <1>9 DEF StagingNext

(* A MERGE inserts a key again only beside a row it has not seen.          *)
LEMMA MergedNoTwins ==
  ASSUME NEW Old, NEW target \in Seq(Old), NEW source, IsFiniteSet(source),
         NEW n \in Nat, n <= Len(target),
         \A r, s \in source : SameKey(r, s) => r = s,
         NEW result, result = Merged(target, n, source),
         NEW i \in DOMAIN result, NEW j \in DOMAIN result, i < j,
         Matches(result[i], result[j])
  PROVE  /\ i \in DOMAIN target
         /\ j \in DOMAIN target => Matches(target[i], target[j])
         /\ j \notin DOMAIN target => i > n
<1>0. DOMAIN target = 1..Len(target) /\ Len(target) \in Nat
  OBVIOUS
<1>1. /\ \A k \in DOMAIN target :
           result[k] = target[k] \/ Matches(target[k], result[k])
      /\ \A k \in DOMAIN result : k \notin DOMAIN target =>
           /\ result[k] \in source
           /\ \A m \in 1..n : ~Matches(target[m], result[k])
      /\ \A k, m \in DOMAIN result :
           /\ k \notin DOMAIN target /\ m \notin DOMAIN target
           /\ result[k] = result[m]
           => k = m
      /\ result \in Seq(Old \cup source)
  BY MergedRows DEF Outcome
<1>2. i \in Nat /\ j \in Nat /\ i >= 1
  BY <1>1
<1>3. /\ i \in DOMAIN target => SameKey(target[i], result[i])
      /\ j \in DOMAIN target => SameKey(target[j], result[j])
  BY <1>1 DEF Matches, SameKey
<1>4. SameKey(result[i], result[j]) /\ result[i].line # Null
  BY DEF Matches
<1>5. i \in DOMAIN target
  <2>1. SUFFICES ASSUME i \notin DOMAIN target PROVE FALSE
    OBVIOUS
  <2>2. j \notin DOMAIN target
    BY <1>0, <1>2, <2>1
  <2>3. result[i] = result[j]
    BY <1>1, <1>4, <2>1, <2>2
  <2>4. i = j
    BY <1>1, <2>1, <2>2, <2>3
  <2>5. QED
    BY <1>2, <2>4
<1>6. j \in DOMAIN target => Matches(target[i], target[j])
  BY <1>3, <1>4, <1>5 DEF Matches, SameKey
<1>7. ASSUME j \notin DOMAIN target PROVE i > n
  <2>1. Matches(target[i], result[j])
    BY <1>3, <1>4, <1>5 DEF Matches, SameKey
  <2>2. i \notin 1..n
    BY <1>1, <1>7, <2>1
  <2>3. QED
    BY <1>2, <2>2
<1>8. QED
  BY <1>5, <1>6, <1>7

(* Every step inserts a key again only in a race.                          *)
LEMMA StepOneRow ==
  /\ OneRowUnlessRaced /\ OthersInserted /\ StagingTypes
  /\ [StagingNext]_stagingVars
  => OneRowUnlessRaced'
<1> SUFFICES ASSUME OneRowUnlessRaced, OthersInserted, StagingTypes,
                    [StagingNext]_stagingVars
             PROVE  OneRowUnlessRaced'
  OBVIOUS
<1>1. CASE staging' = staging /\ origin' = origin
  BY <1>1 DEF OneRowUnlessRaced
<1>2. ASSUME NEW w \in Workers, RunMerge(w),
             NEW t \in Tables, NEW i \in DOMAIN staging'[t],
             NEW j \in DOMAIN staging'[t], i < j,
             Matches(staging'[t][i], staging'[t][j])
      PROVE  /\ origin'[t][j].base < i
             /\ ProcessOf(origin'[t][i].by) # ProcessOf(origin'[t][j].by)
  <2>1. CASE t # tab[w]
    <3>1. staging'[t] = staging[t] /\ origin'[t] = origin[t]
      BY <1>2, <2>1, RunMergeFacts, RunMergeRecords
    <3>2. QED
      BY <1>2, <3>1 DEF OneRowUnlessRaced
  <2>2. CASE t = tab[w]
    <3> DEFINE target == staging[t]
               batch == Dedup(t, input[w])
               n == base[w]
    <3>1. /\ target \in Seq(LandedRows(t)) /\ IsFiniteSet(batch)
          /\ n \in Nat /\ n <= Len(target)
          /\ staging'[t] = Merged(target, n, batch)
          /\ input[w] \in Seq(Files)
      BY <1>2, <2>2, RunMergeFacts
    <3>2. \A r, s \in batch : SameKey(r, s) => r = s
      BY <3>1, DedupFacts
    <3>3. origin'[t] = [k \in DOMAIN staging'[t] |->
            IF k \in DOMAIN target THEN origin[t][k] ELSE [by |-> w, base |-> n]]
      BY <1>2, <2>2, RunMergeRecords
    <3> HIDE DEF batch, target, n
    <3>4. /\ i \in DOMAIN target
          /\ j \in DOMAIN target => Matches(target[i], target[j])
          /\ j \notin DOMAIN target => i > n
      BY <1>2, <3>1, <3>2, MergedNoTwins
    <3>5. origin'[t][i] = origin[t][i]
      BY <1>2, <3>3, <3>4
    <3>6. CASE j \in DOMAIN target
      <4>1. origin'[t][j] = origin[t][j]
        BY <1>2, <3>3, <3>6
      <4>2. QED
        BY <1>2, <3>4, <3>5, <3>6, <4>1 DEF OneRowUnlessRaced, target
    <3>7. CASE j \notin DOMAIN target
      <4>1. origin'[t][j] = [by |-> w, base |-> n] /\ i > n
        BY <1>2, <3>3, <3>4, <3>7
      <4>2. i \in Nat
        BY <3>1, <3>4
      <4>3. i \in DOMAIN origin[t]
        BY <3>4 DEF target, StagingTypes, StagingTypeOK
      <4>4. ProcessOf(origin[t][i].by) # ProcessOf(w)
        BY <1>2, <2>2, <4>1, <4>3 DEF OthersInserted, RunMerge, n
      <4>5. QED
        BY <3>1, <3>5, <4>1, <4>2, <4>4
    <3>8. QED
      BY <3>6, <3>7
  <2>3. QED
    BY <2>1, <2>2
<1>3. ASSUME NEW w \in Workers, RunMerge(w) PROVE OneRowUnlessRaced'
  BY <1>2, <1>3 DEF OneRowUnlessRaced
<1>4. QED
  BY <1>1, <1>3, OnlyMergeWrites

(* The inductive invariant about the rows of a key.                        *)
RowsInv == StagingTypes /\ LockHeld /\ OthersInserted /\ OneRowUnlessRaced

LEMMA RowsAlways == StagingSpec => []RowsInv
<1>1. StagingInit => LockHeld /\ OthersInserted /\ OneRowUnlessRaced
  BY DEF StagingInit, LockHeld, OthersInserted, OneRowUnlessRaced, Inside, Tables
<1>2. QED
  BY <1>1, InitTypes, StepTypes, StepLock, StepInserted, StepOneRow, PTL
  DEF StagingSpec, RowsInv

(* A key without NULL has a second row only where the MERGEs of two        *)
(* processes inserted it at the same time; no repeated event, no history   *)
(* of snapshots and no thread of the same process brings it in twice.      *)
THEOREM StagingOneRowUnlessRaced == StagingSpec => []OneRowUnlessRaced
<1>1. RowsInv => OneRowUnlessRaced
  BY DEF RowsInv
<1>2. QED
  BY <1>1, RowsAlways, PTL

(* One row of each key that has no NULL.                                   *)
OneRowPerKey ==
  \A t \in Tables : \A i, j \in DOMAIN staging[t] :
    Matches(staging[t][i], staging[t][j]) => i = j

(* When all that merges runs in one process, such as a backfill with the   *)
(* Cloud Function stopped, the table lock makes the upsert a true one.     *)
THEOREM StagingOneRowPerKey ==
  OneProcess => (StagingSpec => []OneRowPerKey)
<1> SUFFICES ASSUME OneProcess PROVE StagingSpec => []OneRowPerKey
  OBVIOUS
<1>1. ASSUME RowsInv PROVE OneRowPerKey
  <2>1. ASSUME NEW t \in Tables, NEW i \in DOMAIN staging[t],
               NEW j \in DOMAIN staging[t], Matches(staging[t][i], staging[t][j])
        PROVE  ~(i < j)
    <3>1. origin[t][i].by \in Workers /\ origin[t][j].by \in Workers
      BY <1>1 DEF RowsInv, StagingTypes, StagingTypeOK
    <3>2. ProcessOf(origin[t][i].by) = ProcessOf(origin[t][j].by)
      BY <3>1 DEF OneProcess
    <3>3. QED
      BY <1>1, <2>1, <3>2 DEF RowsInv, OneRowUnlessRaced
  <2>2. ASSUME NEW t \in Tables, NEW i \in DOMAIN staging[t],
               NEW j \in DOMAIN staging[t], Matches(staging[t][i], staging[t][j])
        PROVE  i = j
    <3>1. Matches(staging[t][j], staging[t][i])
      BY <2>2 DEF Matches, SameKey
    <3>2. staging[t] \in Seq(LandedRows(t))
      BY <1>1 DEF RowsInv, StagingTypes, StagingTypeOK, LandedRows
    <3>3. i \in Nat /\ j \in Nat
      BY <3>2
    <3>4. QED
      BY <2>1, <2>2, <3>1, <3>3
  <2>3. QED
    BY <2>2 DEF OneRowPerKey
<1>2. QED
  BY <1>1, RowsAlways, PTL

----------------------------------------------------------------------------
(* What was read stays staged.                                             *)

(* The jobs of a backfill: the files the threads are at are of different   *)
(* tenants, none of which is still in the queue.                           *)
TenantAt(f) == Page[f].tenant
FilesApart ==
  /\ jobs = Unscanned => \A w \in Threads : ToSet(input[w]) = {}
  /\ jobs # Unscanned =>
       \A w \in Threads : \A f \in ToSet(input[w]) :
         \E n \in DOMAIN TenantOrder \ jobs : TenantAt(f) = TenantOrder[n]
  /\ \A v, w \in Threads : v # w =>
       \A f \in ToSet(input[v]), g \in ToSet(input[w]) : TenantAt(f) # TenantAt(g)

(* An invocation that has not begun is at its first table.                 *)
Unbegun == \A i \in Instances : pc[i] = "idle" => tab[i] = "header"

(* The worker has merged its rows of a table.                              *)
HasMerged(w, t) ==
  \/ outcome[w] = "ok"
  \/ t = "header" /\ tab[w] = "lines"
  \/ t = tab[w] /\ pc[w] = "ok"

(* A staged row stands for a row that was read: it has its key and, if     *)
(* only the backfill runs and it is a header, it is no older.              *)
StandsFor(t, s, r) ==
  /\ SameKey(r, s)
  /\ t = "header" /\ Instances = {} => s.synced >= r.synced

Staged(w, t) ==
  \A r \in Parsed(t, input[w]) :
    \E i \in DOMAIN staging[t] : StandsFor(t, staging[t][i], r)

StagedInv == \A w \in Workers, t \in Tables : HasMerged(w, t) => Staged(w, t)

(* The jobs taken stay apart.                                              *)
LEMMA StepApart ==
  FilesApart /\ StagingTypes /\ [StagingNext]_stagingVars => FilesApart'
<1> SUFFICES ASSUME FilesApart, StagingTypes, [StagingNext]_stagingVars
             PROVE  FilesApart'
  OBVIOUS
<1>1. input \in [Workers -> Seq(landed)] /\ Threads \subseteq Workers
      /\ (jobs = Unscanned \/ jobs \subseteq DOMAIN TenantOrder)
      /\ IsFiniteSet(landed)
  BY DEF StagingTypes, StagingTypeOK, Workers
<1>2. CASE jobs' = jobs /\ \A w \in Threads : input'[w] = input[w]
  BY <1>2 DEF FilesApart
<1>3. ASSUME NEW f \in Files, Land(f) PROVE FilesApart'
  BY <1>2, <1>3 DEF Land
<1>4. ASSUME NEW i \in Instances, NEW f \in Files,
             ProcessGcsUpload(i, f) \/ ReadFails(i, f)
      PROVE  FilesApart'
  <2>1. i \notin Threads /\ jobs' = jobs /\ input' = [input EXCEPT ![i] = <<f>>]
    BY <1>4, WorkerParts DEF ProcessGcsUpload, ReadFails, Return, StartParser
  <2>2. QED
    BY <1>1, <1>2, <2>1
<1>5. CASE ScanBucket
  <2>1. jobs = Unscanned /\ input' = input
    BY <1>5 DEF ScanBucket
  <2>2. \A w \in Threads : ToSet(input[w]) = {}
    BY <2>1 DEF FilesApart
  <2>3. QED
    BY <2>1, <2>2 DEF FilesApart
<1>6. ASSUME NEW w \in Threads, TakeJob(w) PROVE FilesApart'
  <2>1. jobs # Unscanned /\ jobs \subseteq DOMAIN TenantOrder
    BY <1>1, <1>6 DEF TakeJob
  <2>2. PICK n \in jobs : /\ jobs' = jobs \ {n}
                          /\ \E read \in SUBSET Listed(TenantOrder[n]) :
                               \E files \in SetToSeqs(read) :
                                 StartParser(w, files) \/ NothingToParse(w, files)
    BY <1>6 DEF TakeJob
  <2>3. PICK read, files :
          /\ read \in SUBSET Listed(TenantOrder[n])
          /\ files \in SetToSeqs(read)
          /\ StartParser(w, files) \/ NothingToParse(w, files)
    BY <2>2
  <2>4. \A f \in ToSet(files) : TenantAt(f) = TenantOrder[n]
    <3>1. ToSet(files) \subseteq read
      BY <1>1, <2>3, SetToSeqsType DEF Listed
    <3>2. QED
      BY <2>3, <3>1 DEF Listed, TenantAt
  <2>5. /\ input'[w] = files
        /\ \A v \in Threads : v # w => input'[v] = input[v]
    BY <1>1, <2>3 DEF StartParser, NothingToParse
  <2>6. \A v \in Threads : v # w => \A f \in ToSet(input[v]) :
          /\ TenantAt(f) # TenantOrder[n]
          /\ \E m \in DOMAIN TenantOrder \ jobs' : TenantAt(f) = TenantOrder[m]
    <3> SUFFICES ASSUME NEW v \in Threads, NEW f \in ToSet(input[v])
                 PROVE  /\ TenantAt(f) # TenantOrder[n]
                        /\ \E m \in DOMAIN TenantOrder \ jobs' :
                             TenantAt(f) = TenantOrder[m]
      OBVIOUS
    <3>1. PICK m \in DOMAIN TenantOrder \ jobs : TenantAt(f) = TenantOrder[m]
      BY <2>1 DEF FilesApart
    <3>2. m # n /\ n \in DOMAIN TenantOrder
      BY <2>1, <3>1
    <3>3. TenantOrder[m] # TenantOrder[n]
      BY <3>1, <3>2, StagingAssumption DEF IsInjective
    <3>4. QED
      BY <2>2, <3>1, <3>3
  <2>7. jobs' # Unscanned
    BY <2>1, <2>2, StagingAssumption
  <2>8. \A f \in ToSet(files) :
          \E m \in DOMAIN TenantOrder \ jobs' : TenantAt(f) = TenantOrder[m]
    BY <2>1, <2>2, <2>4
  <2>9. \A v \in Threads : \A f \in ToSet(input'[v]) :
          \E m \in DOMAIN TenantOrder \ jobs' : TenantAt(f) = TenantOrder[m]
    BY <2>5, <2>6, <2>8
  <2>10. \A u, v \in Threads : u # v =>
           \A f \in ToSet(input'[u]), g \in ToSet(input'[v]) :
             TenantAt(f) # TenantAt(g)
    <3>1. ASSUME NEW u \in Threads, NEW v \in Threads, u # v,
                 NEW f \in ToSet(input'[u]), NEW g \in ToSet(input'[v])
          PROVE  TenantAt(f) # TenantAt(g)
      <4>1. CASE u # w /\ v # w
        BY <2>5, <3>1, <4>1 DEF FilesApart
      <4>2. CASE u = w
        BY <2>4, <2>5, <2>6, <3>1, <4>2
      <4>3. CASE v = w
        BY <2>4, <2>5, <2>6, <3>1, <4>3
      <4>4. QED
        BY <4>1, <4>2, <4>3
    <3>2. QED
      BY <3>1
  <2>11. QED
    BY <2>7, <2>9, <2>10 DEF FilesApart, TenantAt
<1>7. ASSUME NEW w \in Workers, Merge(w) PROVE FilesApart'
  BY <1>2, <1>7
  DEF Merge, AcquireLock, WriteTemp, GetSchemaFails, FindTarget, MissTarget,
      CreateTarget, StartMerge, RunMerge, CallFails, NextTable, Raise
<1>8. ASSUME NEW p \in Processes, Kill(p) PROVE FilesApart'
  BY <1>2, <1>8 DEF Kill
<1>9. CASE UNCHANGED stagingVars
  BY <1>2, <1>9 DEF stagingVars
<1>10. QED
  BY <1>3, <1>4, <1>5, <1>6, <1>7, <1>8, <1>9 DEF StagingNext

(* An invocation begins once.                                              *)
LEMMA StepUnbegun ==
  Unbegun /\ StagingTypes /\ [StagingNext]_stagingVars => Unbegun'
<1> SUFFICES ASSUME Unbegun, StagingTypes, [StagingNext]_stagingVars,
                    NEW i \in Instances, pc'[i] = "idle"
             PROVE  tab'[i] = "header"
  BY DEF Unbegun
<1>1. i \in Workers /\ i \notin Threads /\ DOMAIN pc = Workers /\ DOMAIN tab = Workers
  BY WorkerParts DEF StagingTypes, StagingTypeOK, Workers
<1>2. pc[i] = "idle" /\ tab'[i] = tab[i]
  <2>1. CASE UNCHANGED stagingVars
    BY <2>1 DEF stagingVars
  <2>2. ASSUME NEW f \in Files, Land(f) PROVE pc[i] = "idle" /\ tab'[i] = tab[i]
    BY <2>2 DEF Land
  <2>3. ASSUME NEW j \in Instances, NEW f \in Files,
               ProcessGcsUpload(j, f) \/ ReadFails(j, f)
        PROVE  pc[i] = "idle" /\ tab'[i] = tab[i]
    BY <1>1, <2>3 DEF ProcessGcsUpload, ReadFails, Return, StartParser
  <2>4. CASE ScanBucket
    BY <2>4 DEF ScanBucket
  <2>5. ASSUME NEW w \in Threads, TakeJob(w)
        PROVE  pc[i] = "idle" /\ tab'[i] = tab[i]
    <3>1. \E files : StartParser(w, files) \/ NothingToParse(w, files)
      BY <2>5 DEF TakeJob
    <3>2. QED
      BY <1>1, <3>1 DEF StartParser, NothingToParse
  <2>6. ASSUME NEW w \in Workers, Merge(w)
        PROVE  pc[i] = "idle" /\ tab'[i] = tab[i]
    BY <1>1, <2>6
    DEF Merge, AcquireLock, WriteTemp, GetSchemaFails, FindTarget, MissTarget,
        CreateTarget, StartMerge, RunMerge, CallFails, NextTable, Raise, Finish
  <2>7. ASSUME NEW p \in Processes, Kill(p)
        PROVE  pc[i] = "idle" /\ tab'[i] = tab[i]
    BY <1>1, <2>7 DEF Kill
  <2>8. QED
    BY <2>1, <2>2, <2>3, <2>4, <2>5, <2>6, <2>7 DEF StagingNext
<1>3. QED
  BY <1>2 DEF Unbegun

(* After its MERGE a worker's rows are in the table.                       *)
LEMMA MergeStages ==
  ASSUME StagingTypes, NEW w \in Workers, RunMerge(w)
  PROVE  Staged(w, tab[w])'
<1> DEFINE t == tab[w]
           batch == Dedup(t, input[w])
           target == staging[t]
           n == base[w]
<1>1. /\ t \in Tables /\ input[w] \in Seq(Files)
      /\ target \in Seq(LandedRows(t))
      /\ IsFiniteSet(batch) /\ n \in Nat /\ n <= Len(target)
      /\ staging'[t] = Merged(target, n, batch)
      /\ input' = input /\ tab' = tab
  BY RunMergeFacts DEF RunMerge
<1>2. /\ \A r, s \in batch : SameKey(r, s) => r = s
      /\ \A r \in Parsed(t, input[w]) : \E s \in batch :
           SameKey(r, s) /\ (t = "header" => s.synced >= r.synced)
  BY <1>1, DedupFacts
<1>3. PICK result : /\ result = Merged(target, n, batch)
                    /\ Outcome(target, n, batch, result)
  BY <1>1, MergedRows
<1> HIDE DEF batch, target, t, n
<1>4. /\ \A i \in DOMAIN target :
           /\ i \in DOMAIN result
           /\ \/ i <= n => \A s \in batch : ~Matches(target[i], s)
              \/ result[i] \in batch /\ Matches(target[i], result[i])
      /\ \A s \in batch :
           \/ \E i \in DOMAIN result : result[i] = s
           \/ \E k \in 1..n : Matches(target[k], s)
  BY <1>3 DEF Outcome
<1>5. ASSUME NEW r \in Parsed(t, input[w])
      PROVE  \E i \in DOMAIN result : StandsFor(t, result[i], r)
  <2>1. PICK s \in batch : SameKey(r, s) /\ (t = "header" => s.synced >= r.synced)
    BY <1>2
  <2>2. \E i \in DOMAIN result : result[i] = s
    <3>1. ASSUME NEW k \in 1..n, Matches(target[k], s)
          PROVE  k \in DOMAIN result /\ result[k] = s
      <4>1. k \in DOMAIN target /\ k <= n
        BY <1>1
      <4>2. k \in DOMAIN result /\ result[k] \in batch /\ Matches(target[k], result[k])
        BY <1>4, <3>1, <4>1
      <4>3. SameKey(result[k], s)
        BY <3>1, <4>2 DEF Matches, SameKey
      <4>4. QED
        BY <1>2, <4>2, <4>3
    <3>2. QED
      BY <1>4, <3>1
  <2>3. QED
    BY <2>1, <2>2 DEF StandsFor
<1>6. QED
  BY <1>1, <1>3, <1>5 DEF Staged, t

(* A MERGE loses no row another worker, or another table, has.             *)
LEMMA MergeKeeps ==
  ASSUME StagingTypes, FilesApart, NEW w \in Workers, RunMerge(w),
         NEW v \in Workers, NEW t \in Tables, v # w \/ t # tab[w], Staged(v, t)
  PROVE  Staged(v, t)'
<1>1. CASE t # tab[w]
  <2>1. staging'[t] = staging[t] /\ input' = input
    BY <1>1, RunMergeFacts DEF RunMerge
  <2>2. QED
    BY <2>1 DEF Staged
<1>2. CASE t = tab[w]
  <2> DEFINE batch == Dedup(t, input[w])
             target == staging[t]
             n == base[w]
  <2>1. /\ input[w] \in Seq(Files)
        /\ target \in Seq(LandedRows(t))
        /\ IsFiniteSet(batch) /\ n \in Nat /\ n <= Len(target)
        /\ staging'[t] = Merged(target, n, batch)
        /\ input' = input
    BY <1>2, RunMergeFacts DEF RunMerge
  <2>2. input[v] \in Seq(Files)
    <3>1. input[v] \in Seq(landed) /\ landed \subseteq Files
      BY DEF StagingTypes, StagingTypeOK
    <3>2. QED
      BY <3>1, SeqOfSuperset
  <2>3. batch \subseteq Parsed(t, input[w])
    BY <2>1, DedupFacts
  <2>4. PICK result : /\ result = Merged(target, n, batch)
                      /\ Outcome(target, n, batch, result)
    BY <2>1, MergedRows
  <2> HIDE DEF batch, target, n
  <2>5. \A i \in DOMAIN target :
          /\ i \in DOMAIN result
          /\ \/ result[i] = target[i]
             \/ result[i] \in batch /\ Matches(target[i], result[i])
    BY <2>4 DEF Outcome
  <2>6. ASSUME NEW r \in Parsed(t, input[v])
        PROVE  \E i \in DOMAIN result : StandsFor(t, result[i], r)
    <3>1. PICK i \in DOMAIN target : StandsFor(t, target[i], r)
      BY DEF Staged, target
    <3>2. CASE result[i] = target[i]
      BY <2>5, <3>1, <3>2
    <3>3. CASE result[i] \in batch /\ Matches(target[i], result[i])
      <4>1. SameKey(r, result[i])
        BY <3>1, <3>3 DEF StandsFor, Matches, SameKey
      <4>2. ~(t = "header" /\ Instances = {})
        <5> SUFFICES ASSUME Instances = {} PROVE FALSE
          OBVIOUS
        <5>1. v \in Threads /\ w \in Threads /\ v # w
          BY <1>2 DEF Workers
        <5>2. PICK f \in ToSet(input[v]) : r.tenant = Page[f].tenant
          BY <2>2, RowOfFile
        <5>3. PICK g \in ToSet(input[w]) : result[i].tenant = Page[g].tenant
          BY <2>1, <2>3, <3>3, RowOfFile
        <5>4. Page[f].tenant # Page[g].tenant
          BY <5>1 DEF FilesApart, TenantAt
        <5>5. QED
          BY <4>1, <5>2, <5>3, <5>4 DEF SameKey
      <4>3. QED
        BY <2>5, <4>1, <4>2 DEF StandsFor
    <3>4. QED
      BY <2>5, <3>2, <3>3
  <2>7. QED
    BY <2>1, <2>4, <2>6 DEF Staged, target
<1>3. QED
  BY <1>1, <1>2

(* Every step keeps what was merged staged.                                *)
LEMMA StepStaged ==
  /\ StagedInv /\ Unbegun /\ FilesApart /\ StagingTypes
  /\ [StagingNext]_stagingVars
  => StagedInv'
<1> SUFFICES ASSUME StagedInv, Unbegun, FilesApart, StagingTypes,
                    [StagingNext]_stagingVars
             PROVE  StagedInv'
  OBVIOUS
<1> DEFINE Kept(v, t) == HasMerged(v, t)' => Staged(v, t)'
<1>1. /\ pc \in [Workers -> Phases] /\ tab \in [Workers -> Tables]
      /\ input \in [Workers -> Seq(landed)]
      /\ DOMAIN outcome = Workers
  BY DEF StagingTypes, StagingTypeOK
<1>2. (\A v \in Workers, t \in Tables : Kept(v, t)) => StagedInv'
  BY DEF StagedInv
<1>3. ASSUME NEW v \in Workers, NEW t \in Tables, staging' = staging,
             input'[v] = input[v], HasMerged(v, t)' => HasMerged(v, t)
      PROVE  Kept(v, t)
  BY <1>3 DEF StagedInv, Staged
<1>4. ASSUME NEW v \in Workers, NEW t \in Tables, staging' = staging,
             input'[v] = input[v], pc'[v] = pc[v], tab'[v] = tab[v],
             outcome'[v] = outcome[v]
      PROVE  Kept(v, t)
  BY <1>3, <1>4 DEF HasMerged
<1>5. CASE UNCHANGED stagingVars
  BY <1>2, <1>4, <1>5 DEF stagingVars
<1>6. ASSUME NEW f \in Files, Land(f) PROVE StagedInv'
  BY <1>2, <1>4, <1>6 DEF Land
<1>7. ASSUME NEW i \in Instances, NEW f \in Files,
             ProcessGcsUpload(i, f) \/ ReadFails(i, f)
      PROVE  StagedInv'
  <2>1. /\ i \in Workers /\ staging' = staging /\ pc[i] = "idle"
        /\ \A v \in Workers : v # i =>
             /\ pc'[v] = pc[v] /\ tab'[v] = tab[v] /\ input'[v] = input[v]
             /\ outcome'[v] = outcome[v]
    BY <1>1, <1>7
    DEF ProcessGcsUpload, ReadFails, Return, StartParser, Workers
  <2>2. /\ outcome'[i] # "ok" /\ pc'[i] # "ok" /\ tab'[i] = "header"
    <3>1. tab[i] = "header"
      BY <2>1 DEF Unbegun
    <3>2. QED
      BY <1>1, <1>7, <2>1, <3>1
      DEF ProcessGcsUpload, ReadFails, Return, StartParser
  <2>3. \A t \in Tables : ~HasMerged(i, t)'
    BY <2>2 DEF HasMerged
  <2>4. QED
    BY <1>2, <1>4, <2>1, <2>3
<1>8. CASE ScanBucket
  BY <1>2, <1>4, <1>8 DEF ScanBucket
<1>9. ASSUME NEW w \in Threads, TakeJob(w) PROVE StagedInv'
  <2>1. \E files : StartParser(w, files) \/ NothingToParse(w, files)
    BY <1>9 DEF TakeJob
  <2>2. /\ w \in Workers /\ staging' = staging
        /\ outcome'[w] # "ok" /\ pc'[w] # "ok" /\ tab'[w] = "header"
        /\ \A v \in Workers : v # w =>
             /\ pc'[v] = pc[v] /\ tab'[v] = tab[v] /\ input'[v] = input[v]
             /\ outcome'[v] = outcome[v]
    BY <1>1, <1>9, <2>1 DEF TakeJob, StartParser, NothingToParse, Workers
  <2>3. \A t \in Tables : ~HasMerged(w, t)'
    BY <2>2 DEF HasMerged
  <2>4. QED
    BY <1>2, <1>4, <2>2, <2>3
<1>10. ASSUME NEW w \in Workers, Merge(w) PROVE StagedInv'
  <2>1. /\ input' = input
        /\ \A v \in Workers : v # w =>
             pc'[v] = pc[v] /\ tab'[v] = tab[v] /\ outcome'[v] = outcome[v]
    BY <1>1, <1>10
    DEF Merge, AcquireLock, WriteTemp, GetSchemaFails, FindTarget, MissTarget,
        CreateTarget, StartMerge, RunMerge, CallFails, NextTable, Raise, Finish
  <2>2. CASE RunMerge(w)
    <3>1. tab' = tab /\ outcome' = outcome
      BY <2>2 DEF RunMerge
    <3>2. Staged(w, tab[w])'
      BY <2>2, MergeStages
    <3>3. ASSUME NEW v \in Workers, NEW t \in Tables, v # w \/ t # tab[w]
          PROVE  Kept(v, t)
      <4>1. HasMerged(v, t)' => HasMerged(v, t)
        BY <2>1, <3>1, <3>3 DEF HasMerged
      <4>2. HasMerged(v, t) => Staged(v, t)
        BY DEF StagedInv
      <4>3. Staged(v, t) => Staged(v, t)'
        BY <2>2, <3>3, MergeKeeps
      <4>4. QED
        BY <4>1, <4>2, <4>3
    <3>4. ASSUME NEW v \in Workers, NEW t \in Tables, v = w /\ t = tab[w]
          PROVE  Kept(v, t)
      <4>1. tab'[w] = tab[w]
        BY <3>1
      <4>2. Staged(v, t)'
        BY <3>2, <3>4, <4>1 DEF Staged
      <4>3. QED
        BY <4>2
    <3>5. QED
      BY <1>2, <3>3, <3>4
  <2>3. CASE NextTable(w)
    <3>1. staging' = staging /\ pc[w] = "ok"
      BY <2>3 DEF NextTable
    <3>2. HasMerged(w, tab[w]) /\ (tab[w] = "lines" => HasMerged(w, "header"))
      BY <3>1 DEF HasMerged
    <3>3. CASE tab[w] = "header" /\ Parsed("lines", input[w]) # {}
      <4>1. pc'[w] = "lock" /\ outcome'[w] = outcome[w]
        BY <1>1, <2>3, <3>3 DEF NextTable
      <4>2. \A t \in Tables : HasMerged(w, t)' => HasMerged(w, t)
        BY <3>2, <3>3, <4>1 DEF HasMerged, Tables
      <4>3. QED
        BY <1>2, <1>3, <1>4, <2>1, <3>1, <4>2
    <3>4. CASE ~(tab[w] = "header" /\ Parsed("lines", input[w]) # {})
      <4>1. \A t \in Tables : Staged(w, t)
        <5>1. CASE tab[w] = "lines"
          BY <3>2, <5>1 DEF StagedInv, Tables
        <5>2. CASE tab[w] = "header"
          <6>1. Staged(w, "lines")
            BY <3>4, <5>2 DEF Staged
          <6>2. Staged(w, "header")
            BY <3>2, <5>2 DEF StagedInv, Tables
          <6>3. QED
            BY <6>1, <6>2 DEF Tables
        <5>3. QED
          BY <1>1, <5>1, <5>2 DEF Tables
      <4>2. \A t \in Tables : Staged(w, t)'
        BY <2>1, <3>1, <4>1 DEF Staged
      <4>3. QED
        BY <1>2, <1>4, <2>1, <3>1, <4>2
    <3>5. QED
      BY <3>3, <3>4
  <2>4. CASE Raise(w)
    <3>1. /\ staging' = staging /\ tab' = tab /\ outcome'[w] = "raised"
          /\ pc'[w] # "ok"
      BY <1>1, <2>4 DEF Raise, Finish
    <3>2. \A t \in Tables : HasMerged(w, t)' => HasMerged(w, t)
      BY <3>1 DEF HasMerged
    <3>3. QED
      BY <1>2, <1>3, <1>4, <2>1, <3>1, <3>2
  <2>5. CASE AcquireLock(w) \/ WriteTemp(w) \/ GetSchemaFails(w) \/ FindTarget(w)
             \/ MissTarget(w) \/ CreateTarget(w) \/ StartMerge(w) \/ CallFails(w)
    <3>1. staging' = staging /\ tab' = tab /\ outcome' = outcome /\ pc'[w] # "ok"
      BY <1>1, <2>5
      DEF AcquireLock, WriteTemp, GetSchemaFails, FindTarget, MissTarget,
          CreateTarget, StartMerge, CallFails
    <3>2. \A t \in Tables : HasMerged(w, t)' => HasMerged(w, t)
      BY <3>1 DEF HasMerged
    <3>3. QED
      BY <1>2, <1>3, <1>4, <2>1, <3>1, <3>2
  <2>6. QED
    BY <1>10, <2>2, <2>3, <2>4, <2>5 DEF Merge
<1>11. ASSUME NEW p \in Processes, Kill(p) PROVE StagedInv'
  <2>1. /\ staging' = staging /\ input' = input /\ tab' = tab
        /\ \A v \in Workers :
             /\ pc'[v] = pc[v] \/ pc'[v] = "done"
             /\ outcome'[v] = outcome[v] \/ outcome'[v] = "killed"
    BY <1>1, <1>11 DEF Kill
  <2>2. \A v \in Workers, t \in Tables : HasMerged(v, t)' => HasMerged(v, t)
    BY <2>1 DEF HasMerged
  <2>3. QED
    BY <1>2, <1>3, <2>1, <2>2
<1>12. QED
  BY <1>5, <1>6, <1>7, <1>8, <1>9, <1>10, <1>11 DEF StagingNext

StagingInv ==
  StagingTypes /\ FilesApart /\ Unbegun /\ StagedInv

(* The inductive invariant about what is staged.                           *)
LEMMA StagedAlways == StagingSpec => []StagingInv
<1>1. StagingInit => FilesApart /\ Unbegun /\ StagedInv
  BY DEF StagingInit, FilesApart, Unbegun, StagedInv, HasMerged, Workers, ToSet
<1>2. QED
  BY <1>1, InitTypes, StepTypes, StepApart, StepUnbegun, StepStaged, PTL
  DEF StagingSpec, StagingInv

(* An invocation or a job that ended well has staged every record and      *)
(* every child row of the files it read, and no later step loses the row,  *)
(* whatever fails or dies on the way.                                      *)
THEOREM StagingOkMeansStaged == StagingSpec => []OkMeansStaged
<1>1. StagingInv => OkMeansStaged
  BY DEF StagingInv, StagedInv, HasMerged, Staged, StandsFor, OkMeansStaged
<1>2. QED
  BY <1>1, StagedAlways, PTL

(* When nothing but the backfill runs, each of its jobs leaves every       *)
(* header at a version no older than any it read: the files may arrive in  *)
(* any order, and no other job is about the same tenant.                   *)
THEOREM StagingHeadersNewest ==
  Instances = {} => (StagingSpec => []BackfillHeadersNewest)
<1> SUFFICES ASSUME Instances = {}
             PROVE  StagingSpec => []BackfillHeadersNewest
  OBVIOUS
<1>1. StagingInv => BackfillHeadersNewest
  BY DEF StagingInv, StagedInv, HasMerged, Staged, StandsFor, MergedBy,
         BackfillHeadersNewest, NewestStaged, Workers, Tables
<1>2. QED
  BY <1>1, StagedAlways, PTL
----------------------------------------------------------------------------
(* The refinement of StagedTables.                                         *)

(* The rows a set of files brings are those parsed from it in any order.   *)
LEMMA BroughtRows ==
  ASSUME NEW t \in Tables, NEW files \in Seq(Files)
  PROVE  Promise!Brought(t, ToSet(files)) = Parsed(t, files)
<1>1. ToSet(files) \subseteq Files
  BY DEF ToSet
<1>2. \A f \in ToSet(files) : FileRows[t][f] = Parsed(t, <<f>>)
  BY <1>1 DEF FileRows
<1>3. \A r \in Parsed(t, files) : \E f \in ToSet(files) : r \in Parsed(t, <<f>>)
  BY RowOfFile
<1>4. \A f \in ToSet(files) : Parsed(t, <<f>>) \subseteq Parsed(t, files)
  BY FileOfRow
<1>. QED
  BY <1>2, <1>3, <1>4 DEF Promise!Brought

(* A collapsed batch is one the abstract table may take.                   *)
LEMMA DedupCollapses ==
  ASSUME NEW t \in Tables, NEW files \in Seq(Files)
  PROVE  Dedup(t, files) \in Promise!Collapsed(t, ToSet(files))
<1>1. Promise!Brought(t, ToSet(files)) = Parsed(t, files)
  BY BroughtRows
<1>. QED
  BY <1>1, DedupFacts DEF Promise!Collapsed, Promise!SameKey, SameKey

(* The rows of a table a MERGE has not seen.                               *)
Late(target, n) == {target[i] : i \in {k \in DOMAIN target : k > n}}

(* As a set of rows, the result of a MERGE is the source, the rows of the  *)
(* target that nothing in the source matches and those it has not seen.    *)
LEMMA MergedSet ==
  ASSUME NEW Old, NEW target \in Seq(Old), NEW source, IsFiniteSet(source),
         NEW n \in Nat, n <= Len(target),
         \A r, s \in source : SameKey(r, s) => r = s
  PROVE  ToSet(Merged(target, n, source))
           = Promise!Upserted(ToSet(target), Late(target, n), source)
<1> DEFINE kept == {r \in ToSet(target) :
                      \/ r \in Late(target, n)
                      \/ \A s \in source : ~Matches(r, s)}
<1>0. DOMAIN target = 1..Len(target) /\ Len(target) \in Nat
  OBVIOUS
<1>1. Promise!Upserted(ToSet(target), Late(target, n), source)
        = kept \cup source
  BY DEF Promise!Upserted, Promise!Replaces, Promise!SameKey, Matches, SameKey
<1>2. PICK result : /\ result = Merged(target, n, source)
                    /\ Outcome(target, n, source, result)
  BY MergedRows
<1>3. /\ \A i \in DOMAIN target :
           /\ i \in DOMAIN result
           /\ \/ /\ result[i] = target[i]
                 /\ i <= n => \A s \in source : ~Matches(target[i], s)
              \/ /\ i <= n
                 /\ result[i] \in source /\ Matches(target[i], result[i])
      /\ \A i \in DOMAIN result : i \notin DOMAIN target => result[i] \in source
      /\ \A s \in source :
           \/ \E i \in DOMAIN result : result[i] = s
           \/ \E k \in 1..n : Matches(target[k], s)
  BY <1>2 DEF Outcome
<1>4. ASSUME NEW i \in DOMAIN result
      PROVE  result[i] \in kept \cup source
  <2>1. CASE i \notin DOMAIN target \/ result[i] \in source
    BY <1>3, <2>1
  <2>2. CASE i \in DOMAIN target /\ result[i] = target[i] /\ i > n
    BY <2>2 DEF Late, ToSet
  <2>3. CASE /\ i \in DOMAIN target /\ result[i] = target[i]
             /\ \A s \in source : ~Matches(target[i], s)
    BY <2>3 DEF ToSet
  <2>. QED
    BY <1>0, <1>3, <2>1, <2>2, <2>3
<1>5. ASSUME NEW r \in kept
      PROVE  \E i \in DOMAIN result : result[i] = r
  <2>1. CASE r \in Late(target, n)
    <3>1. PICK k \in DOMAIN target : target[k] = r /\ k > n
      BY <2>1 DEF Late
    <3>. QED
      BY <1>0, <1>3, <3>1
  <2>2. CASE \A s \in source : ~Matches(r, s)
    <3>1. PICK k \in DOMAIN target : target[k] = r
      BY DEF ToSet
    <3>. QED
      BY <1>3, <2>2, <3>1
  <2>. QED
    BY <2>1, <2>2
<1>6. ASSUME NEW s \in source
      PROVE  \E i \in DOMAIN result : result[i] = s
  <2>1. ASSUME NEW k \in 1..n, Matches(target[k], s)
        PROVE  k \in DOMAIN result /\ result[k] = s
    <3>1. k \in DOMAIN target /\ k <= n
      BY <1>0
    <3>2. k \in DOMAIN result /\ result[k] \in source /\ Matches(target[k], result[k])
      BY <1>3, <2>1, <3>1
    <3>3. SameKey(result[k], s)
      BY <2>1, <3>2 DEF Matches, SameKey
    <3>. QED
      BY <3>2, <3>3
  <2>. QED
    BY <1>3, <2>1
<1> HIDE DEF kept
<1>7. ToSet(result) = kept \cup source
  BY <1>4, <1>5, <1>6 DEF ToSet
<1>. QED
  BY <1>1, <1>2, <1>7

(* Where a worker is in the abstract tables.                               *)
LEMMA StageCases ==
  ASSUME NEW w \in Workers
  PROVE  /\ pc[w] \in Resting =>
              StageOf(w) = IF outcome[w] = "ok" THEN "ok" ELSE "resting"
         /\ pc[w] = "ok" =>
              StageOf(w) = IF tab[w] = "header" /\ Parsed("lines", input[w]) # {}
                           THEN "lines" ELSE "all"
         /\ pc[w] \notin Resting \cup {"ok"} => StageOf(w) = tab[w]
  BY DEF StageOf, Resting

(* The same after a step.                                                  *)
LEMMA StageCasesNext ==
  ASSUME NEW w \in Workers
  PROVE  /\ pc'[w] \in Resting =>
              StageOf(w)' = IF outcome'[w] = "ok" THEN "ok" ELSE "resting"
         /\ pc'[w] = "ok" =>
              StageOf(w)' = IF tab'[w] = "header" /\ Parsed("lines", input'[w]) # {}
                            THEN "lines" ELSE "all"
         /\ pc'[w] \notin Resting \cup {"ok"} => StageOf(w)' = tab'[w]
  BY DEF StageOf, Resting

(* What leaves every worker's stage and files alone is not visible.        *)
LEMMA Unseen ==
  ASSUME UNCHANGED <<landed, staging, input>>,
         \A v \in Workers : StageOf(v)' = StageOf(v)
  PROVE  UNCHANGED Promise!vars
<1>1. StageMap' = StageMap
  BY DEF StageMap
<1>2. BatchMap' = BatchMap
  BY DEF BatchMap
<1>3. RowMap' = RowMap
  BY DEF RowMap
<1>. QED
  BY <1>1, <1>2, <1>3 DEF Promise!vars

(* The others of a worker are left alone by what it does.                  *)
Others(w) ==
  \A v \in Workers : v # w =>
    /\ pc'[v] = pc[v] /\ tab'[v] = tab[v]
    /\ input'[v] = input[v] /\ outcome'[v] = outcome[v]

LEMMA OneMoves ==
  ASSUME NEW w \in Workers, Others(w)
  PROVE  /\ StageMap' = [StageMap EXCEPT ![w] = StageOf(w)']
         /\ BatchMap' = [BatchMap EXCEPT ![w] =
              IF StageOf(w)' = "resting" THEN {} ELSE ToSet(input'[w])]
<1>1. \A v \in Workers : v # w => StageOf(v)' = StageOf(v)
  BY DEF Others, StageOf
<1>2. StageMap' = [StageMap EXCEPT ![w] = StageOf(w)']
  BY <1>1 DEF StageMap
<1>3. BatchMap' = [BatchMap EXCEPT ![w] =
        IF StageOf(w)' = "resting" THEN {} ELSE ToSet(input'[w])]
  BY <1>1 DEF BatchMap, Others
<1>. QED
  BY <1>2, <1>3

(* A worker that comes to rest without an "ok" has left.                   *)
LEMMA OneLeaves ==
  ASSUME NEW w \in Workers, Others(w), UNCHANGED <<landed, staging>>,
         StageOf(w)' = "resting"
  PROVE  Promise!Next
<1>1. /\ StageMap' = [StageMap EXCEPT ![w] = "resting"]
      /\ BatchMap' = [BatchMap EXCEPT ![w] = {}]
  BY OneMoves
<1>2. StageMap' = [v \in Workers |-> IF v \in {w} THEN "resting" ELSE StageMap[v]]
  BY <1>1 DEF StageMap
<1>3. BatchMap' = [v \in Workers |-> IF v \in {w} THEN {} ELSE BatchMap[v]]
  BY <1>1 DEF BatchMap
<1>4. RowMap' = RowMap
  BY DEF RowMap
<1>5. Promise!Leave({w})
  BY <1>2, <1>3, <1>4 DEF Promise!Leave
<1>. QED
  BY <1>5 DEF Promise!Next

(* A parser that is started takes its files.                               *)
LEMMA ParserTakes ==
  ASSUME StagingTypes, NEW w \in Workers, NEW files \in Seq(landed),
         pc[w] = "idle", RecordsOf(files) # {}, StartParser(w, files)
  PROVE  Promise!Next
<1>0. /\ pc \in [Workers -> Phases] /\ DOMAIN tab = Workers
      /\ DOMAIN input = Workers /\ DOMAIN outcome = Workers
      /\ landed \subseteq Files
  BY DEF StagingTypes, StagingTypeOK
<1>1. /\ Others(w) /\ UNCHANGED <<landed, staging>>
      /\ pc'[w] = "lock" /\ tab'[w] = "header" /\ input'[w] = files
  BY <1>0 DEF StartParser, Others
<1>2. StageOf(w)' = "header"
  BY <1>1, StageCasesNext DEF Resting
<1>3. /\ StageMap' = [StageMap EXCEPT ![w] = "header"]
      /\ BatchMap' = [BatchMap EXCEPT ![w] = ToSet(files)]
  BY <1>1, <1>2, OneMoves
<1>4. StageMap[w] \in {"resting", "ok"}
  BY StageCases DEF StageMap, Resting
<1>5. ToSet(files) \in SUBSET landed /\ files \in Seq(Files)
  BY <1>0, SeqOfSuperset DEF ToSet
<1>6. Promise!Brought("header", ToSet(files)) # {}
  BY <1>5, BroughtRows DEF RecordsOf, Tables
<1>7. RowMap' = RowMap
  BY <1>1 DEF RowMap
<1>8. Promise!Take(w)
  BY <1>1, <1>3, <1>4, <1>5, <1>6, <1>7 DEF Promise!Take
<1>. QED
  BY <1>8 DEF Promise!Next

(* In one process a MERGE has seen every row of its table.                 *)
LEMMA AloneSeesAll ==
  ASSUME StagingTypes, OthersInserted, OneProcess,
         NEW w \in Workers, RunMerge(w)
  PROVE  Late(staging[tab[w]], base[w]) = {}
<1> DEFINE t == tab[w]
<1>1. /\ t \in Tables /\ pc[w] = "running"
      /\ origin[t] \in [DOMAIN staging[t] -> [by : Workers, base : Nat]]
  BY DEF StagingTypes, StagingTypeOK, RunMerge
<1>2. ASSUME NEW i \in DOMAIN staging[t], i > base[w] PROVE FALSE
  <2>1. i \in DOMAIN origin[t] /\ origin[t][i].by \in Workers
    BY <1>1
  <2>2. ProcessOf(origin[t][i].by) # ProcessOf(w)
    BY <1>1, <1>2, <2>1 DEF OthersInserted
  <2>3. QED
    BY <2>1, <2>2 DEF OneProcess
<1>3. QED
  BY <1>2 DEF Late

(* A MERGE is the upsert of the table.                                     *)
LEMMA MergeUpserts ==
  ASSUME StagingTypes, OthersInserted, NEW w \in Workers, RunMerge(w)
  PROVE  Promise!Next
<1> DEFINE t == tab[w]
           files == ToSet(input[w])
           new == Dedup(t, input[w])
           n == base[w]
           unseen == Late(staging[t], n)
<1>1. /\ t \in Tables /\ input[w] \in Seq(Files)
      /\ staging[t] \in Seq(LandedRows(t))
      /\ n \in Nat /\ n <= Len(staging[t])
      /\ IsFiniteSet(new)
      /\ staging'[t] = Merged(staging[t], n, new)
      /\ \A u \in Tables : u # t => staging'[u] = staging[u]
  BY RunMergeFacts
<1>2. /\ pc \in [Workers -> Phases]
      /\ pc[w] = "running" /\ pc'[w] \in {"ok", "raising"} /\ Others(w)
      /\ UNCHANGED <<landed, tab, input>>
  BY DEF RunMerge, StagingTypes, StagingTypeOK, Others
<1>3. new \in Promise!Collapsed(t, files)
  BY <1>1, DedupCollapses
<1>4. ToSet(staging'[t]) = Promise!Upserted(ToSet(staging[t]), unseen, new)
  <2>1. \A r, s \in new : SameKey(r, s) => r = s
    BY <1>1, DedupFacts
  <2> HIDE DEF new, n
  <2>. QED
    BY <1>1, <2>1, MergedSet
<1>5. StageMap[w] = t
  BY <1>2, StageCases DEF StageMap, Resting
<1>6. BatchMap[w] = files
  BY <1>1, <1>5 DEF BatchMap, StageMap, Tables
<1>7. StageOf(w)' \in {t, Promise!After(t, files)}
  <2>1. Promise!Brought("lines", files) = Parsed("lines", input[w])
    BY <1>1, BroughtRows DEF Tables
  <2>2. CASE pc'[w] = "ok"
    BY <1>2, <2>1, <2>2, StageCasesNext DEF Promise!After
  <2>3. CASE pc'[w] = "raising"
    BY <1>2, <2>3, StageCasesNext DEF Resting
  <2>. QED
    BY <1>2, <2>2, <2>3
<1>8. /\ StageMap' = [StageMap EXCEPT ![w] = StageOf(w)']
      /\ BatchMap' = BatchMap
  <2>1. StageOf(w)' # "resting"
    BY <1>1, <1>7 DEF Promise!After, Tables
  <2>2. BatchMap' = [BatchMap EXCEPT ![w] = files]
    BY <1>2, <2>1, OneMoves
  <2>. QED
    BY <1>2, <1>6, <2>2, OneMoves DEF BatchMap
<1>9. RowMap' = [RowMap EXCEPT ![t] = Promise!Upserted(@, unseen, new)]
  <2> HIDE DEF new, t, unseen
  <2>1. RowMap[t] = ToSet(staging[t])
    BY <1>1 DEF RowMap
  <2>. QED
    BY <1>1, <1>4, <2>1 DEF RowMap
<1>10. unseen \in SUBSET RowMap[t] /\ (OneProcess => unseen = {})
  <2>1. unseen \in SUBSET RowMap[t]
    BY <1>1 DEF RowMap, Late, ToSet
  <2>2. OneProcess => unseen = {}
    BY AloneSeesAll
  <2>. QED
    BY <2>1, <2>2
<1>11. Promise!Upsert(w, t)
  <2> HIDE DEF new, unseen
  <2>. QED
    BY <1>2, <1>3, <1>5, <1>6, <1>7, <1>8, <1>9, <1>10 DEF Promise!Upsert
<1>. QED
  BY <1>1, <1>11 DEF Promise!Next, Promise!Tables, Tables

(* A worker that goes on after a MERGE, or ends, has reported or is not    *)
(* seen to move.                                                           *)
LEMMA NextTableReports ==
  ASSUME StagingTypes, NEW w \in Workers, NextTable(w)
  PROVE  Promise!Next \/ UNCHANGED Promise!vars
<1>1. /\ pc \in [Workers -> Phases] /\ DOMAIN tab = Workers
      /\ DOMAIN outcome = Workers /\ tab[w] \in Tables
      /\ pc[w] = "ok" /\ Others(w) /\ UNCHANGED <<landed, input, staging>>
  BY DEF NextTable, Finish, StagingTypes, StagingTypeOK, Others
<1>2. CASE tab[w] = "header" /\ Parsed("lines", input[w]) # {}
  <2>1. pc'[w] = "lock" /\ tab'[w] = "lines"
    BY <1>1, <1>2 DEF NextTable
  <2>2. StageOf(w) = "lines" /\ StageOf(w)' = "lines"
    BY <1>1, <1>2, <2>1, StageCases, StageCasesNext DEF Resting
  <2>3. \A v \in Workers : StageOf(v)' = StageOf(v)
    BY <1>1, <2>2 DEF Others, StageOf
  <2>. QED
    BY <1>1, <2>3, Unseen
<1>3. CASE ~(tab[w] = "header" /\ Parsed("lines", input[w]) # {})
  <2>1. pc'[w] \in Resting /\ outcome'[w] = "ok"
    BY <1>1, <1>3 DEF NextTable, Finish, Resting
  <2>2. StageOf(w) = "all" /\ StageOf(w)' = "ok"
    BY <1>1, <1>3, <2>1, StageCases, StageCasesNext
  <2>3. StageMap' = [StageMap EXCEPT ![w] = "ok"] /\ StageMap[w] = "all"
    BY <1>1, <2>2, OneMoves DEF StageMap
  <2>4. BatchMap' = BatchMap
    <3>1. BatchMap' = [BatchMap EXCEPT ![w] = ToSet(input[w])]
      BY <1>1, <2>2, OneMoves
    <3>2. BatchMap[w] = ToSet(input[w])
      BY <2>2 DEF BatchMap
    <3>. QED
      BY <3>1, <3>2 DEF BatchMap
  <2>5. RowMap' = RowMap
    BY <1>1 DEF RowMap
  <2>6. Promise!Report(w)
    BY <1>1, <2>3, <2>4, <2>5 DEF Promise!Report
  <2>. QED
    BY <2>6 DEF Promise!Next
<1>. QED
  BY <1>2, <1>3

(* A step of a merge that writes no row of the table is not seen.          *)
LEMMA PreparationUnseen ==
  ASSUME StagingTypes, NEW w \in Workers,
         \/ AcquireLock(w) \/ WriteTemp(w) \/ GetSchemaFails(w)
         \/ FindTarget(w) \/ MissTarget(w) \/ CreateTarget(w)
         \/ StartMerge(w) \/ CallFails(w)
  PROVE  UNCHANGED Promise!vars
<1> DEFINE Working == {"lock", "schema", "ensure", "create", "merge", "running",
                       "raising"}
<1>1. /\ pc \in [Workers -> Phases]
      /\ pc[w] \in Working /\ pc'[w] \in Working
      /\ Others(w) /\ UNCHANGED <<landed, tab, input, staging>>
  BY DEF AcquireLock, WriteTemp, GetSchemaFails, FindTarget, MissTarget,
         CreateTarget, StartMerge, CallFails, StagingTypes, StagingTypeOK, Others
<1>2. StageOf(w) = tab[w] /\ StageOf(w)' = tab[w]
  BY <1>1, StageCases, StageCasesNext DEF Resting
<1>3. \A v \in Workers : StageOf(v)' = StageOf(v)
  BY <1>1, <1>2 DEF Others, StageOf
<1>. QED
  BY <1>1, <1>3, Unseen

(* A process that dies takes its working threads with it.                  *)
LEMMA KillLeaves ==
  ASSUME StagingTypes, NEW p \in Processes, Kill(p)
  PROVE  Promise!Next
<1> DEFINE some == {w \in Workers : ProcessOf(w) = p /\ pc[w] \notin Resting}
<1>1. ASSUME NEW w \in Workers
      PROVE  /\ w \in some => pc'[w] \in Resting /\ outcome'[w] = "killed"
             /\ w \notin some =>
                  /\ pc'[w] = pc[w] \/ (pc[w] \in Resting /\ pc'[w] \in Resting)
                  /\ outcome'[w] = outcome[w]
             /\ tab'[w] = tab[w] /\ input'[w] = input[w]
  BY DEF Kill, Resting
<1>2. ASSUME NEW w \in Workers
      PROVE  StageOf(w)' = IF w \in some THEN "resting" ELSE StageOf(w)
  <2>1. CASE w \in some
    BY <1>1, <2>1, StageCasesNext
  <2>2. CASE w \notin some /\ pc'[w] = pc[w]
    BY <1>1, <2>2 DEF StageOf
  <2>3. CASE w \notin some /\ pc[w] \in Resting /\ pc'[w] \in Resting
    BY <1>1, <2>3, StageCases, StageCasesNext
  <2>. QED
    BY <1>1, <2>1, <2>2, <2>3
<1> HIDE DEF some
<1>3. StageMap' = [w \in Workers |-> IF w \in some THEN "resting" ELSE StageMap[w]]
  BY <1>2 DEF StageMap
<1>4. BatchMap' = [w \in Workers |-> IF w \in some THEN {} ELSE BatchMap[w]]
  BY <1>1, <1>2 DEF BatchMap
<1>5. UNCHANGED <<landed, RowMap>>
  BY DEF Kill, RowMap
<1>6. some \in SUBSET Workers
  BY DEF some
<1>7. Promise!Leave(some)
  BY <1>3, <1>4, <1>5 DEF Promise!Leave
<1>. QED
  BY <1>6, <1>7 DEF Promise!Next

(* What a step of the ETL is to the abstract tables.                       *)
LEMMA StepPromise ==
  StagingTypes /\ OthersInserted /\ [StagingNext]_stagingVars
  => [Promise!Next]_(Promise!vars)
<1> SUFFICES ASSUME StagingTypes, OthersInserted, [StagingNext]_stagingVars
             PROVE  Promise!Next \/ UNCHANGED Promise!vars
  OBVIOUS
<1>0. /\ DOMAIN pc = Workers /\ DOMAIN tab = Workers
      /\ DOMAIN input = Workers /\ DOMAIN outcome = Workers
      /\ Instances \subseteq Workers /\ Threads \subseteq Workers
  BY DEF StagingTypes, StagingTypeOK, Workers
<1>1. ASSUME NEW f \in Files, Land(f)
      PROVE  Promise!Next
  <2>1. UNCHANGED <<StageMap, BatchMap, RowMap>>
    BY <1>1 DEF Land, StageMap, StageOf, BatchMap, RowMap
  <2>2. Promise!Land(f)
    BY <1>1, <2>1 DEF Land, Promise!Land
  <2>. QED
    BY <2>2 DEF Promise!Next
<1>2. ASSUME NEW i \in Instances, NEW f \in landed, NEW how \in Outcomes \ {"ok"},
             Return(i, f, how)
      PROVE  Promise!Next
  <2>1. /\ Others(i) /\ UNCHANGED <<landed, staging>>
        /\ pc'[i] = "done" /\ outcome'[i] = how
    BY <1>0, <1>2 DEF Return, Others
  <2>2. StageOf(i)' = "resting"
    BY <1>0, <2>1, StageCasesNext DEF Resting
  <2>. QED
    BY <1>0, <2>1, <2>2, OneLeaves
<1>3. ASSUME NEW i \in Instances, NEW f \in Files, ProcessGcsUpload(i, f)
      PROVE  Promise!Next
  <2>1. f \in landed /\ pc[i] = "idle"
    BY <1>3 DEF ProcessGcsUpload
  <2>2. CASE StartParser(i, <<f>>) /\ Page[f].records # <<>>
    <3> DEFINE one == <<f>>
    <3>1. one \in Seq(landed) /\ one \in Seq(Files) /\ f \in ToSet(one)
      BY <2>1 DEF ToSet
    <3>2. RecordsOf(one) # {}
      <4>1. 1 \in DOMAIN Page[f].records
        BY <2>2, StagingAssumption DEF IsSequence
      <4>2. <<1, 1, 0>> \in Places("header", one)
        <5>1. 1 \in DOMAIN one /\ one[1] = f
          OBVIOUS
        <5>. QED
          BY <4>1, <5>1 DEF Places, Slots
      <4>. QED
        BY <4>2 DEF RecordsOf, Parsed
    <3> HIDE DEF one
    <3>3. StartParser(i, one)
      BY <2>2 DEF one
    <3>. QED
      BY <1>0, <2>1, <3>1, <3>2, <3>3, ParserTakes
  <2>3. CASE \E how \in {"raised", "skipped", "warned"} : Return(i, f, how)
    BY <1>2, <2>1, <2>3 DEF Outcomes
  <2>. QED
    BY <1>3, <2>2, <2>3 DEF ProcessGcsUpload
<1>4. ASSUME NEW i \in Instances, NEW f \in Files, ReadFails(i, f)
      PROVE  Promise!Next
  BY <1>2, <1>4 DEF ReadFails, Outcomes
<1>5. CASE ScanBucket
  <2>1. UNCHANGED <<landed, staging, input>>
        /\ \A v \in Workers : StageOf(v)' = StageOf(v)
    BY <1>5 DEF ScanBucket, StageOf
  <2>. QED
    BY <2>1, Unseen
<1>6. ASSUME NEW w \in Threads, TakeJob(w)
      PROVE  Promise!Next
  <2>1. PICK n \in jobs : \E read \in SUBSET Listed(TenantOrder[n]) :
          \E files \in SetToSeqs(read) :
            \/ RecordsOf(files) # {} /\ StartParser(w, files)
            \/ RecordsOf(files) = {} /\ NothingToParse(w, files)
    BY <1>6 DEF TakeJob
  <2>2. PICK read \in SUBSET Listed(TenantOrder[n]) :
          \E files \in SetToSeqs(read) :
            \/ RecordsOf(files) # {} /\ StartParser(w, files)
            \/ RecordsOf(files) = {} /\ NothingToParse(w, files)
    BY <2>1
  <2>3. PICK files \in SetToSeqs(read) :
            \/ RecordsOf(files) # {} /\ StartParser(w, files)
            \/ RecordsOf(files) = {} /\ NothingToParse(w, files)
    BY <2>2
  <2>4. pc[w] = "idle" /\ w \in Workers
    BY <1>0, <1>6 DEF TakeJob
  <2>5. files \in Seq(landed)
    BY SetToSeqsType DEF Listed, StagingTypes
  <2>6. CASE RecordsOf(files) # {} /\ StartParser(w, files)
    BY <2>4, <2>5, <2>6, ParserTakes
  <2>7. CASE NothingToParse(w, files)
    <3>1. /\ Others(w) /\ UNCHANGED <<landed, staging>>
          /\ pc'[w] = "idle" /\ outcome'[w] = "empty"
      BY <1>0, <2>4, <2>7 DEF NothingToParse, Others
    <3>2. StageOf(w)' = "resting"
      BY <2>4, <3>1, StageCasesNext DEF Resting
    <3>. QED
      BY <2>4, <3>1, <3>2, OneLeaves
  <2>. QED
    BY <2>3, <2>6, <2>7
<1>7. ASSUME NEW w \in Workers, Raise(w)
      PROVE  Promise!Next
  <2>1. /\ Others(w) /\ UNCHANGED <<landed, staging>>
        /\ pc'[w] \in Resting /\ outcome'[w] = "raised"
    BY <1>0, <1>7 DEF Raise, Finish, Others, Resting
  <2>2. StageOf(w)' = "resting"
    BY <2>1, StageCasesNext
  <2>. QED
    BY <2>1, <2>2, OneLeaves
<1>8. ASSUME NEW w \in Workers, Merge(w)
      PROVE  Promise!Next \/ UNCHANGED Promise!vars
  BY <1>7, <1>8, MergeUpserts, NextTableReports, PreparationUnseen DEF Merge
<1>9. CASE UNCHANGED stagingVars
  <2>1. UNCHANGED <<landed, staging, input>>
        /\ \A v \in Workers : StageOf(v)' = StageOf(v)
    BY <1>9 DEF stagingVars, StageOf
  <2>. QED
    BY <2>1, Unseen
<1>. QED
  BY <1>1, <1>3, <1>4, <1>5, <1>6, <1>8, <1>9, KillLeaves DEF StagingNext

LEMMA InitPromise == StagingInit => Promise!Init
<1> SUFFICES ASSUME StagingInit PROVE Promise!Init
  OBVIOUS
<1>1. \A w \in Workers : StageOf(w) = "resting"
  BY StageCases DEF StagingInit, Resting
<1>2. /\ StageMap = [w \in Workers |-> "resting"]
      /\ BatchMap = [w \in Workers |-> {}]
  BY <1>1 DEF StageMap, BatchMap
<1>3. RowMap = [t \in Promise!Tables |-> {}]
  BY DEF StagingInit, RowMap, Promise!Tables, Tables, ToSet
<1>. QED
  BY <1>2, <1>3 DEF Promise!Init, StagingInit

(* The invocations and the threads of the backfill, with their locks,      *)
(* schemas, failures and kills, do to the tables what StagedTables says:   *)
(* each MERGE is one upsert of the collapsed batch into the rows it has    *)
(* seen, which are all of them if everything runs in one process; headers  *)
(* come before child rows, and what ends well has done both.               *)
THEOREM StagingImplementsTables == StagingSpec => ImplementsTables
<1>1. RowsInv => StagingTypes /\ OthersInserted
  BY DEF RowsInv
<1>. QED
  BY <1>1, RowsAlways, InitPromise, StepPromise, PTL
     DEF StagingSpec, ImplementsTables, Promise!Spec
============================================================================

-------------------------- MODULE SyncLayersProofs -------------------------
(* The layers bring in what is promised of them, for every set of records, *)
(* every number of overlapping reads, every window and every clock.        *)
EXTENDS SyncLayers, FiniteSetTheorems, WellFoundedInduction, TLAPS

(* The records of a set S that are paged before x.                         *)
Below(S, x) == {y \in S : y < x}

Rank(S, x) == Cardinality(Below(S, x))

(* A set of naturals that is not empty has a least element.                *)
LEMMA LeastNatural ==
  ASSUME NEW S \in SUBSET Nat, S # {}
  PROVE  \E n \in S : \A m \in S : n <= m
<1>1. PICK n \in S : \A m \in S : <<m, n>> \notin OpToRel(<, Nat)
  BY NatLessThanWellFounded, WFMin
<1>2. ASSUME NEW m \in S, m < n
      PROVE  FALSE
  <2> DEFINE p == <<m, n>>
  <2>1. p \in Nat \X Nat /\ p[1] < p[2]
    BY <1>2
  <2>2. p \notin OpToRel(<, Nat)
    BY <1>1
  <2> HIDE DEF p
  <2>. QED
    BY <2>1, <2>2 DEF OpToRel
<1>3. \A m \in S : n <= m
  BY <1>2
<1>. QED
  BY <1>3

(* What lies before a number can be counted.                               *)
LEMMA BelowFinite ==
  ASSUME NEW S \in SUBSET Nat, NEW x \in Nat
  PROVE  IsFiniteSet(Below(S, x)) /\ Rank(S, x) \in Nat
<1>1. ASSUME NEW y \in Below(S, x)
      PROVE  y \in 0..x
  <2>1. y \in Nat /\ y < x
    BY DEF Below
  <2>. QED
    BY <2>1
<1>2. IsFiniteSet(0..x)
  <2>1. 0 \in Int /\ x \in Int
    OBVIOUS
  <2>. QED
    BY <2>1, FS_Interval
<1>3. Below(S, x) \in SUBSET (0..x)
  BY <1>1
<1>4. IsFiniteSet(Below(S, x))
  BY <1>2, <1>3, FS_Subset
<1>. QED
  BY <1>4, FS_CardinalityType DEF Rank

(* A set that grows leaves nothing at a smaller rank.                      *)
LEMMA RankGrows ==
  ASSUME NEW S \in SUBSET Nat, NEW T \in SUBSET S, NEW x \in Nat
  PROVE  Rank(T, x) <= Rank(S, x)
<1>1. Below(T, x) \subseteq Below(S, x)
  BY DEF Below
<1>. QED
  BY <1>1, BelowFinite, FS_Subset DEF Rank

(* The ranks follow the order.                                             *)
LEMMA RankOrder ==
  ASSUME NEW S \in SUBSET Nat, NEW x \in S, NEW y \in S, x < y
  PROVE  Rank(S, x) + 1 <= Rank(S, y)
<1>1. x \in Nat /\ y \in Nat
  OBVIOUS
<1>2. ASSUME NEW z \in Below(S, x) \cup {x}
      PROVE  z \in Below(S, y)
  <2>1. z \in S /\ z \in Nat /\ (z < x \/ z = x)
    BY DEF Below
  <2>2. z < y
    BY <1>1, <2>1
  <2>. QED
    BY <2>1, <2>2 DEF Below
<1>3. x \notin Below(S, x)
  BY <1>1 DEF Below
<1>4. Below(S, x) \cup {x} \in SUBSET Below(S, y)
  BY <1>2
<1>5. IsFiniteSet(Below(S, x)) /\ IsFiniteSet(Below(S, y))
  BY <1>1, BelowFinite
<1>6. Cardinality(Below(S, x) \cup {x}) = Rank(S, x) + 1
  BY <1>3, <1>5, FS_AddElement DEF Rank
<1>. QED
  BY <1>4, <1>5, <1>6, FS_Subset DEF Rank

(* No rank is left out: the least element whose rank is not below n has    *)
(* the rank n.                                                             *)
LEMMA RankReached ==
  ASSUME NEW S \in SUBSET Nat, NEW x \in S, NEW n \in Nat, n <= Rank(S, x)
  PROVE  \E z \in S : Rank(S, z) = n
<1> DEFINE High == {y \in S : n <= Rank(S, y)}
<1>1. PICK z \in High : \A y \in High : z <= y
  <2>1. High \in SUBSET Nat /\ High # {}
    OBVIOUS
  <2> HIDE DEF High
  <2>. QED
    BY <2>1, LeastNatural
<1>2. z \in Nat /\ Rank(S, z) \in Nat /\ n <= Rank(S, z)
  BY BelowFinite
<1>3. ASSUME Rank(S, z) > n
      PROVE  FALSE
  <2>1. PICK y \in Below(S, z) : \A u \in Below(S, z) : u <= y
    <3> DEFINE Gaps == {z - u : u \in Below(S, z)}
    <3>1. Below(S, z) # {}
      BY <1>2, <1>3, FS_EmptySet DEF Rank
    <3>2. Gaps \in SUBSET Nat /\ Gaps # {}
      <4>1. \A u \in Below(S, z) : z - u \in Nat
        BY <1>2 DEF Below
      <4>2. PICK u \in Below(S, z) : TRUE
        BY <3>1
      <4>3. z - u \in Gaps
        BY <4>2
      <4>. QED
        BY <4>1, <4>3
    <3>3. PICK g \in Gaps : \A h \in Gaps : g <= h
      <4> HIDE DEF Gaps
      <4>. QED
        BY <3>2, LeastNatural
    <3>4. PICK y \in Below(S, z) : g = z - y
      BY <3>3
    <3>5. \A u \in Below(S, z) : u \in Nat /\ z - y <= z - u
      BY <3>3, <3>4 DEF Below
    <3>6. \A u \in Below(S, z) : u <= y
      BY <1>2, <3>5
    <3>. QED
      BY <3>6
  <2>2. y \in S /\ y \in Nat /\ y < z
    BY DEF Below
  <2>3. Below(S, y) = Below(S, z) \ {y}
    <3>1. ASSUME NEW u \in S
          PROVE  u < y <=> u < z /\ u # y
      <4>1. u \in Nat
        OBVIOUS
      <4>2. u < z => u <= y
        BY <2>1 DEF Below
      <4>. QED
        BY <1>2, <2>2, <4>1, <4>2
    <3>. QED
      BY <3>1 DEF Below
  <2>4. Rank(S, y) = Rank(S, z) - 1
    <3>1. IsFiniteSet(Below(S, z)) /\ y \in Below(S, z)
      BY <1>2, BelowFinite
    <3>. QED
      BY <2>3, <3>1, FS_RemoveElement DEF Rank
  <2>5. y \in High
    BY <1>2, <1>3, <2>2, <2>4
  <2>. QED
    BY <1>1, <1>2, <2>2, <2>5
<1>. QED
  BY <1>2, <1>3
----------------------------------------------------------------------------
(* The pages of a sequence.                                                *)
Held(s) == {s[i] : i \in 1..Len(s)}

(* No page, a page more, and a page less.                                  *)
LEMMA HeldNone == Held(<<>>) = {}
BY DEF Held

LEMMA HeldAppend ==
  ASSUME NEW S, NEW s \in Seq(S), NEW g \in S
  PROVE  /\ Append(s, g) \in Seq(S)
         /\ Len(s) \in Nat /\ Len(Append(s, g)) = Len(s) + 1
         /\ Held(Append(s, g)) = Held(s) \cup {g}
<1> DEFINE t == Append(s, g)
<1>1. /\ t \in Seq(S) /\ Len(s) \in Nat /\ Len(t) = Len(s) + 1
      /\ \A i \in 1..Len(s) : t[i] = s[i]
      /\ t[Len(s) + 1] = g
  OBVIOUS
<1> HIDE DEF t
<1>2. 1..Len(t) = (1..Len(s)) \cup {Len(s) + 1}
  BY <1>1
<1>3. Held(t) = Held(s) \cup {g}
  BY <1>1, <1>2 DEF Held
<1>. QED
  BY <1>1, <1>3 DEF t

LEMMA HeldTail ==
  ASSUME NEW S, NEW s \in Seq(S), s # <<>>
  PROVE  /\ Tail(s) \in Seq(S)
         /\ Head(s) \in S
         /\ Held(s) = {Head(s)} \cup Held(Tail(s))
<1> DEFINE t == Tail(s)
<1>1. /\ t \in Seq(S) /\ Head(s) \in S /\ Head(s) = s[1]
      /\ Len(s) \in Nat \ {0} /\ Len(t) = Len(s) - 1
      /\ \A i \in 1..Len(t) : t[i] = s[i + 1]
  OBVIOUS
<1> HIDE DEF t
<1>2. ASSUME NEW i \in 1..Len(s)
      PROVE  s[i] \in {Head(s)} \cup Held(t)
  <2>1. CASE i = 1
    BY <1>1, <2>1
  <2>2. CASE i # 1
    <3>1. i - 1 \in 1..Len(t) /\ (i - 1) + 1 = i
      BY <1>1, <2>2
    <3>2. t[i - 1] = s[i]
      BY <1>1, <3>1
    <3>. QED
      BY <3>1, <3>2 DEF Held
  <2>. QED
    BY <2>1, <2>2
<1>3. ASSUME NEW i \in 1..Len(t)
      PROVE  t[i] \in Held(s)
  <2>1. i + 1 \in 1..Len(s) /\ t[i] = s[i + 1]
    BY <1>1
  <2>. QED
    BY <2>1 DEF Held
<1>4. Head(s) \in Held(s)
  BY <1>1 DEF Held
<1>5. Held(s) \subseteq {Head(s)} \cup Held(t)
  BY <1>2 DEF Held
<1>6. Held(t) \subseteq Held(s)
  BY <1>3 DEF Held
<1>. QED
  BY <1>1, <1>4, <1>5, <1>6 DEF t
----------------------------------------------------------------------------
(* Times lie in the past, and the versions of a record in their order.     *)
TimesInv ==
  /\ \A x \in Records :
       /\ xero[x].modified <= xero[x].touched
       /\ xero[x].touched <= now
       /\ xero[x].bumped <= xero[x].version
  /\ \A r \in Readers : reads[r] # NoRead => reads[r].synced_at <= now

(* A read has the filter of its layer, its start and the date of its run,  *)
(* and answers for that date.                                              *)
Dated(read) ==
  \E run_date \in Nat :
    /\ read.filter = FilterOf(read.layer, read.synced_at, run_date)
    /\ read.due = Due(read.layer, run_date)

FilterInv == \A r \in Readers : reads[r] # NoRead => Dated(reads[r])

(* A version v of record x, taken at a time `since' or later, is as new as *)
(* every change before that time.                                          *)
Fresh(x, v, since) ==
  /\ xero[x].modified < since => v >= xero[x].bumped
  /\ xero[x].touched < since => v = xero[x].version

(* What reads have fetched and what is in the bucket is that fresh.        *)
FreshInv ==
  /\ \A r \in Readers :
       reads[r] # NoRead =>
         \A g \in Held(reads[r].got) :
           Fresh(g.record, g.version, reads[r].synced_at)
  /\ \A c \in bucket : Fresh(c.record, c.version, c.synced_at)

(* A read has fetched a record and is still to upload it, or a capture of  *)
(* the record with that stamp is there.                                    *)
Fetched(r, x) == \E g \in Held(reads[r].got) : g.record = x
Stored(x, stamp) == \E c \in bucket : c.record = x /\ c.synced_at = stamp

(* A read has brought or fetched, or its loop is still to reach, a record. *)
Reaches(r, x) ==
  \/ Fetched(r, x)
  \/ Stored(x, reads[r].synced_at)
  \/ /\ reads[r].phase = "fetching"
     /\ Len(reads[r].got) <= Rank(Matching(r), x)

(* That is so of every record that matches the filter of an undisturbed    *)
(* read since it started.                                                  *)
PagesInv ==
  \A r \in Readers :
    reads[r] # NoRead /\ ~reads[r].disturbed =>
      \A x \in Matching(r) :
        xero[x].modified < reads[r].synced_at => Reaches(r, x)

(* A capture of record x that was taken after time t is in the bucket.     *)
StoredAfter(x, t) == \E c \in bucket : c.record = x /\ t < c.synced_at

(* Every change a layer claims is older than a capture of its record.      *)
ClaimsInv ==
  \A x \in Records :
    /\ xero[x].modified < covered => StoredAfter(x, xero[x].modified)
    /\ xero[x].open /\ xero[x].touched < swept =>
         StoredAfter(x, xero[x].touched)
    /\ xero[x].touched < rolled[x] => StoredAfter(x, xero[x].touched)

LayersInv == TimesInv /\ FilterInv /\ FreshInv /\ PagesInv /\ ClaimsInv
----------------------------------------------------------------------------
(* A layer's filter is one.                                                *)
LEMMA FilterType ==
  ASSUME NEW layer \in SyncTypes, NEW time \in Nat, NEW run_date \in Nat
  PROVE  FilterOf(layer, time, run_date) \in Filters
BY LayersAssumption
   DEF FilterOf, Filters, SyncTypes, ModifiedAfter, RollingWindow

(* A read under way has the fields of one.                                 *)
LEMMA ReadType ==
  ASSUME LayersTypeOK, NEW r \in Readers, reads[r] # NoRead
  PROVE  /\ reads[r] \in Reads
         /\ reads[r].layer \in SyncTypes
         /\ reads[r].synced_at \in Nat
         /\ reads[r].filter \in Filters
         /\ reads[r].phase \in {"fetching", "uploading"}
         /\ reads[r].got \in Seq(Pages)
         /\ Len(reads[r].got) \in Nat
         /\ Held(reads[r].got) \subseteq Pages
         /\ reads[r].disturbed \in BOOLEAN
<1>1. reads[r] \in Reads
  BY DEF LayersTypeOK
<1>2. /\ reads[r].layer \in SyncTypes
      /\ reads[r].synced_at \in Nat
      /\ reads[r].filter \in Filters
      /\ reads[r].phase \in {"fetching", "uploading"}
      /\ reads[r].got \in Seq(Pages)
      /\ reads[r].disturbed \in BOOLEAN
  BY <1>1 DEF Reads
<1>3. Len(reads[r].got) \in Nat /\ Held(reads[r].got) \subseteq Pages
  BY <1>2 DEF Held
<1>. QED
  BY <1>1, <1>2, <1>3

(* What a read keeps while it goes on.                                     *)
Continues(old, new) ==
  /\ new \in Reads
  /\ new.layer = old.layer
  /\ new.synced_at = old.synced_at
  /\ new.filter = old.filter
  /\ new.due = old.due

(* A read that starts has fetched nothing.                                 *)
LEMMA StartShape ==
  ASSUME LayersTypeOK, NEW r \in Readers, NEW layer \in Layers,
         StartRead(r, layer)
  PROVE  /\ UNCHANGED <<now, xero, bucket, covered, swept, rolled>>
         /\ starts' \in 0..MaxStarts
         /\ \E read \in Reads :
              /\ reads' = [reads EXCEPT ![r] = read]
              /\ read.synced_at = now
              /\ Dated(read)
              /\ read.phase = "fetching"
              /\ read.got = <<>>
<1>1. PICK run_date \in 0..now :
        reads' = [reads EXCEPT ![r] =
          [layer |-> layer, synced_at |-> now,
           filter |-> FilterOf(layer, now, run_date),
           due |-> Due(layer, run_date),
           phase |-> "fetching", got |-> <<>>, disturbed |-> FALSE]]
  BY DEF StartRead
<1> DEFINE read == [layer |-> layer, synced_at |-> now,
                    filter |-> FilterOf(layer, now, run_date),
                    due |-> Due(layer, run_date),
                    phase |-> "fetching", got |-> <<>>, disturbed |-> FALSE]
<1>2. layer \in SyncTypes /\ now \in Nat /\ run_date \in Nat
  BY LayersAssumption DEF LayersTypeOK
<1>3. Due(layer, run_date) \in SUBSET Int
  BY <1>2, LayersAssumption DEF Due
<1>4. read \in Reads
  BY <1>2, <1>3, FilterType DEF Reads
<1>5. Dated(read) /\ read.synced_at = now
  BY <1>2 DEF Dated
<1>6. read.phase = "fetching" /\ read.got = <<>>
  OBVIOUS
<1>7. reads' = [reads EXCEPT ![r] = read]
  BY <1>1
<1>8. UNCHANGED <<now, xero, bucket, covered, swept, rolled>>
  BY DEF StartRead
<1>9. starts' \in 0..MaxStarts
  BY LayersAssumption DEF StartRead, LayersTypeOK
<1> HIDE DEF read
<1>. QED
  BY <1>4, <1>5, <1>6, <1>7, <1>8, <1>9

(* A record of Xero has the fields of one.                                 *)
LEMMA RecordType ==
  ASSUME LayersTypeOK, NEW x \in Records
  PROVE  /\ xero[x] \in XeroRecord
         /\ xero[x].open \in BOOLEAN
         /\ xero[x].version \in Versions
         /\ xero[x].bumped \in Versions
         /\ xero[x].version \in Nat
         /\ xero[x].bumped \in Nat
         /\ xero[x].modified \in Nat
         /\ xero[x].touched \in Nat
<1>1. xero[x] \in XeroRecord
  BY DEF LayersTypeOK
<1>. QED
  BY <1>1, LayersAssumption DEF XeroRecord, Versions

(* A change of a record in Xero: fields `f' replace its own, later and     *)
(* with the next version; what does not move UpdatedDateUTC keeps the      *)
(* status too.                                                             *)
Alters(x, f) ==
  /\ Update(x, f)
  /\ f \in XeroRecord
  /\ f.version = xero[x].version + 1
  /\ f.touched = now
  /\ \/ f.modified = now /\ f.bumped = f.version
     \/ /\ f.modified = xero[x].modified
        /\ f.bumped = xero[x].bumped
        /\ f.open = xero[x].open
  /\ f.open => xero[x].open

(* Users change records in no other way.                                   *)
LEMMA ChangeShape ==
  ASSUME LayersTypeOK, NEW x \in Records, Change(x) \/ LinkedChange(x)
  PROVE  \E f : Alters(x, f)
<1>1. xero[x].version < MaxVersion => xero[x].version + 1 \in Versions
  BY RecordType, LayersAssumption DEF Versions
<1>2. now \in Nat
  BY DEF LayersTypeOK
<1>3. CASE Change(x)
  <2>1. PICK open \in {xero[x].open, FALSE} :
          Update(x, [open |-> open, version |-> xero[x].version + 1,
                     bumped |-> xero[x].version + 1,
                     modified |-> now, touched |-> now])
    BY <1>3 DEF Change
  <2> DEFINE f == [open |-> open, version |-> xero[x].version + 1,
                   bumped |-> xero[x].version + 1,
                   modified |-> now, touched |-> now]
  <2>2. f \in XeroRecord
    BY <1>1, <1>2, <1>3, RecordType DEF Change, XeroRecord
  <2>3. f.open => xero[x].open
    OBVIOUS
  <2>. QED
    BY <2>1, <2>2, <2>3 DEF Alters
<1>4. CASE LinkedChange(x)
  <2> DEFINE f == [xero[x] EXCEPT !.version = @ + 1, !.touched = now]
  <2>1. Update(x, f)
    BY <1>4 DEF LinkedChange
  <2>2. /\ f \in XeroRecord
        /\ f.version = xero[x].version + 1
        /\ f.touched = now
        /\ f.modified = xero[x].modified
        /\ f.bumped = xero[x].bumped
        /\ f.open = xero[x].open
    BY <1>1, <1>2, <1>4, RecordType DEF LinkedChange, XeroRecord
  <2> HIDE DEF f
  <2>. QED
    BY <2>1, <2>2 DEF Alters
<1>. QED
  BY <1>3, <1>4

(* A change in Xero at most disturbs a read.                               *)
LEMMA UpdateReads ==
  ASSUME LayersTypeOK, NEW x \in Records, NEW f, Update(x, f),
         NEW r \in Readers
  PROVE  /\ reads'[r] = NoRead <=> reads[r] = NoRead
         /\ reads[r] # NoRead =>
              /\ Continues(reads[r], reads'[r])
              /\ reads'[r].phase = reads[r].phase
              /\ reads'[r].got = reads[r].got
              /\ ~reads'[r].disturbed =>
                   ~reads[r].disturbed /\ ~Disturbs(r, x, f)
<1>1. reads'[r] = IF Disturbs(r, x, f)
                  THEN [reads[r] EXCEPT !.disturbed = TRUE] ELSE reads[r]
  BY DEF Update
<1>2. CASE reads[r] = NoRead
  BY <1>1, <1>2 DEF Disturbs
<1>3. CASE reads[r] # NoRead
  <2>1. reads[r] \in Reads
    BY <1>3, ReadType
  <2> DEFINE marked == [reads[r] EXCEPT !.disturbed = TRUE]
  <2>2. /\ Continues(reads[r], marked)
        /\ marked.phase = reads[r].phase
        /\ marked.got = reads[r].got
        /\ marked.disturbed
    BY <2>1 DEF Reads, Continues
  <2>3. Continues(reads[r], reads[r])
    BY <2>1 DEF Continues
  <2>4. reads'[r] = IF Disturbs(r, x, f) THEN marked ELSE reads[r]
    BY <1>1
  <2>5. marked # NoRead
    BY <2>2, NoReadAssumption DEF Continues
  <2> HIDE DEF marked
  <2>. QED
    BY <1>3, <2>2, <2>3, <2>4, <2>5
<1>. QED
  BY <1>2, <1>3
----------------------------------------------------------------------------
(* A page brings one record as it is.                                      *)
LEMMA FetchShape ==
  ASSUME LayersTypeOK, NEW r \in Readers, FetchPage(r)
  PROVE  /\ reads[r] # NoRead /\ reads[r].phase = "fetching"
         /\ UNCHANGED <<now, starts, xero, bucket, covered, swept, rolled>>
         /\ \E x \in Records : \E read :
              /\ x \in Matching(r)
              /\ Rank(Matching(r), x) = Len(reads[r].got)
              /\ reads' = [reads EXCEPT ![r] = read]
              /\ Continues(reads[r], read)
              /\ read.phase = "fetching"
              /\ Len(read.got) = Len(reads[r].got) + 1
              /\ Held(read.got) = Held(reads[r].got)
                   \cup {[record |-> x, version |-> xero[x].version]}
              /\ read.disturbed = reads[r].disturbed
<1>1. reads[r] # NoRead /\ reads[r].phase = "fetching" /\ reads[r] \in Reads
  BY ReadType DEF FetchPage
<1>2. UNCHANGED <<now, starts, xero, bucket, covered, swept, rolled>>
  BY DEF FetchPage
<1>3. PICK x \in OnPage(r) :
        reads' = [reads EXCEPT
          ![r].got = Append(@, [record |-> x, version |-> xero[x].version])]
  BY DEF FetchPage
<1>4. /\ x \in Records /\ x \in Matching(r)
      /\ Rank(Matching(r), x) = Len(reads[r].got)
  BY DEF OnPage, Matching, Rank, Below
<1> DEFINE g == [record |-> x, version |-> xero[x].version]
           got == Append(reads[r].got, g)
           read == [reads[r] EXCEPT !.got = got]
<1>5. reads' = [reads EXCEPT ![r] = read]
  BY <1>3 DEF LayersTypeOK
<1>6. g \in Pages
  BY <1>4, RecordType DEF Pages
<1>7. /\ got \in Seq(Pages)
      /\ Len(got) = Len(reads[r].got) + 1
      /\ Held(got) = Held(reads[r].got) \cup {g}
  <2>1. reads[r].got \in Seq(Pages)
    BY <1>1, ReadType
  <2> HIDE DEF g
  <2>. QED
    BY <1>6, <2>1, HeldAppend
<1>8. /\ Continues(reads[r], read)
      /\ read.phase = reads[r].phase
      /\ read.got = got
      /\ read.disturbed = reads[r].disturbed
  <2> HIDE DEF got
  <2>. QED
    BY <1>1, <1>7 DEF Reads, Continues
<1> HIDE DEF read, got
<1>. QED
  BY <1>1, <1>2, <1>4, <1>5, <1>7, <1>8

(* A loop that ends leaves the read undisturbed only if no page was left.  *)
LEMMA EndShape ==
  ASSUME LayersTypeOK, NEW r \in Readers, EndFetch(r)
  PROVE  /\ reads[r] # NoRead /\ reads[r].phase = "fetching"
         /\ UNCHANGED <<now, starts, xero, bucket, covered, swept, rolled>>
         /\ \E read :
              /\ reads' = [reads EXCEPT ![r] = read]
              /\ Continues(reads[r], read)
              /\ read.got = reads[r].got
              /\ ~read.disturbed => ~reads[r].disturbed /\ OnPage(r) = {}
<1> DEFINE ended == reads[r].disturbed \/ OnPage(r) # {}
           read == [reads[r] EXCEPT !.phase = "uploading", !.disturbed = ended]
<1>1. reads[r] # NoRead /\ reads[r].phase = "fetching" /\ reads[r] \in Reads
  BY ReadType DEF EndFetch
<1>2. UNCHANGED <<now, starts, xero, bucket, covered, swept, rolled>>
  BY DEF EndFetch
<1>3. reads' = [reads EXCEPT ![r] = read]
  BY DEF EndFetch, LayersTypeOK
<1>4. ended \in BOOLEAN
  BY <1>1, ReadType
<1>5. Continues(reads[r], read) /\ read.got = reads[r].got
  <2> HIDE DEF ended
  <2>. QED
    BY <1>1, <1>4 DEF Reads, Continues
<1>6. read.disturbed = ended
  <2> HIDE DEF ended
  <2>. QED
    BY <1>1 DEF Reads
<1> HIDE DEF read
<1>. QED
  BY <1>1, <1>2, <1>3, <1>5, <1>6

(* An upload moves one page of the read to the bucket.                     *)
LEMMA UploadShape ==
  ASSUME LayersTypeOK, NEW r \in Readers, UploadPage(r)
  PROVE  /\ reads[r] # NoRead
         /\ UNCHANGED <<now, starts, xero, covered, swept, rolled>>
         /\ \E g \in Pages : \E read, c :
              /\ Held(reads[r].got) = {g} \cup Held(read.got)
              /\ reads' = [reads EXCEPT ![r] = read]
              /\ Continues(reads[r], read)
              /\ read.phase = "uploading"
              /\ read.disturbed = reads[r].disturbed
              /\ bucket' = bucket \cup {c}
              /\ c \in Captures
              /\ c.record = g.record
              /\ c.version = g.version
              /\ c.synced_at = reads[r].synced_at
<1> DEFINE g == Head(reads[r].got)
           got == Tail(reads[r].got)
           read == [reads[r] EXCEPT !.got = got]
           c == [record |-> g.record, version |-> g.version,
                 synced_at |-> reads[r].synced_at]
<1>1. /\ reads[r] # NoRead /\ reads[r].phase = "uploading"
      /\ reads[r].got # <<>>
  BY DEF UploadPage
<1>2. reads[r] \in Reads /\ reads[r].got \in Seq(Pages)
  BY <1>1, ReadType
<1>3. UNCHANGED <<now, starts, xero, covered, swept, rolled>>
  BY DEF UploadPage
<1>4. /\ reads' = [reads EXCEPT ![r] = read]
      /\ bucket' = bucket \cup {c}
  BY DEF UploadPage, LayersTypeOK, SyncedAt
<1>5. /\ got \in Seq(Pages) /\ g \in Pages
      /\ Held(reads[r].got) = {g} \cup Held(got)
  BY <1>1, <1>2, HeldTail
<1>6. /\ Continues(reads[r], read)
      /\ read.phase = reads[r].phase
      /\ read.got = got
      /\ read.disturbed = reads[r].disturbed
  <2> HIDE DEF got
  <2>. QED
    BY <1>2, <1>5 DEF Reads, Continues
<1>7. /\ c \in Captures /\ c.record = g.record /\ c.version = g.version
      /\ c.synced_at = reads[r].synced_at
  <2>1. reads[r].synced_at \in Nat
    BY <1>1, ReadType
  <2> HIDE DEF g
  <2>. QED
    BY <1>5, <2>1 DEF Captures, Pages
<1> HIDE DEF read, c, got, g
<1>. QED
  BY <1>1, <1>3, <1>4, <1>5, <1>6, <1>7

(* Every step keeps the types.                                             *)
LEMMA NextLayersTypes ==
  ASSUME LayersTypeOK, TimesInv, [LayersNext]_layerVars
  PROVE  LayersTypeOK'
<1>0. now \in Nat
  BY DEF LayersTypeOK
<1>1. CASE UNCHANGED layerVars
  BY <1>1 DEF layerVars, LayersTypeOK
<1>2. ASSUME NEW x \in Records, Change(x) \/ LinkedChange(x)
      PROVE  LayersTypeOK'
  <2>1. PICK f : Alters(x, f)
    BY <1>2, ChangeShape
  <2>2. Update(x, f) /\ f \in XeroRecord
    BY <2>1 DEF Alters
  <2>3. xero' \in [Records -> XeroRecord]
    BY <2>2 DEF Update, LayersTypeOK
  <2>4. reads' \in [Readers -> Reads \cup {NoRead}]
    <3>1. \A r \in Readers : reads'[r] \in Reads \cup {NoRead}
      BY <2>2, UpdateReads DEF Continues
    <3>2. reads' = [r \in Readers |-> reads'[r]]
      BY <2>2 DEF Update
    <3>. QED
      BY <3>1, <3>2
  <2>. QED
    BY <2>2, <2>3, <2>4 DEF Update, LayersTypeOK
<1>3. CASE Tick
  <2>1. /\ now' = now + 1 /\ starts' = 0
        /\ UNCHANGED <<xero, reads, bucket, covered, swept, rolled>>
    BY <1>3 DEF Tick
  <2>2. 0..now \subseteq 0..now' /\ starts' \in 0..MaxStarts
    BY <1>0, <2>1, LayersAssumption
  <2>3. bucket' \subseteq Captures /\ \A c \in bucket' : c.synced_at <= now'
    <3>1. \A c \in bucket : c.synced_at \in Nat /\ c.synced_at <= now
      BY DEF LayersTypeOK, Captures
    <3>. QED
      BY <1>0, <2>1, <3>1 DEF LayersTypeOK
  <2>4. /\ covered' \in 0..now' /\ swept' \in 0..now'
        /\ rolled' \in [Records -> 0..now']
    BY <2>1, <2>2 DEF LayersTypeOK
  <2>. QED
    BY <1>0, <2>1, <2>2, <2>3, <2>4 DEF LayersTypeOK
<1>4. ASSUME NEW r \in Readers, NEW layer \in Layers, StartRead(r, layer)
      PROVE  LayersTypeOK'
  <2>1. /\ UNCHANGED <<now, xero, bucket, covered, swept, rolled>>
        /\ starts' \in 0..MaxStarts
        /\ \E read \in Reads : reads' = [reads EXCEPT ![r] = read]
    BY <1>4, StartShape
  <2>. QED
    BY <2>1 DEF LayersTypeOK
<1>5. ASSUME NEW r \in Readers, FetchPage(r) \/ EndFetch(r)
      PROVE  LayersTypeOK'
  <2>1. /\ UNCHANGED <<now, starts, xero, bucket, covered, swept, rolled>>
        /\ \E read \in Reads : reads' = [reads EXCEPT ![r] = read]
    BY <1>5, FetchShape, EndShape DEF Continues
  <2>. QED
    BY <2>1 DEF LayersTypeOK
<1>6. ASSUME NEW r \in Readers, UploadPage(r)
      PROVE  LayersTypeOK'
  <2>1. /\ reads[r] # NoRead
        /\ UNCHANGED <<now, starts, xero, covered, swept, rolled>>
    BY <1>6, UploadShape
  <2>2. \E read, c :
          /\ reads' = [reads EXCEPT ![r] = read] /\ read \in Reads
          /\ bucket' = bucket \cup {c}
          /\ c \in Captures /\ c.synced_at = reads[r].synced_at
    BY <1>6, UploadShape DEF Continues
  <2>3. reads[r].synced_at <= now
    BY <2>1 DEF TimesInv
  <2>4. /\ bucket' \subseteq Captures /\ \A c \in bucket' : c.synced_at <= now
        /\ reads' \in [Readers -> Reads \cup {NoRead}]
    BY <2>2, <2>3 DEF LayersTypeOK
  <2>. QED
    BY <2>1, <2>4 DEF LayersTypeOK
<1>7. ASSUME NEW r \in Readers, FinishRead(r)
      PROVE  LayersTypeOK'
  <2>1. /\ reads[r] # NoRead
        /\ reads' = [reads EXCEPT ![r] = NoRead]
        /\ covered' \in {covered, reads[r].synced_at}
        /\ swept' \in {swept, reads[r].synced_at}
        /\ rolled' = [x \in Records |-> rolled'[x]]
        /\ \A x \in Records : rolled'[x] \in {rolled[x], reads[r].synced_at}
        /\ UNCHANGED <<now, starts, xero, bucket>>
    BY <1>7 DEF FinishRead
  <2>2. reads[r].synced_at \in 0..now
    BY <1>0, <2>1, ReadType DEF TimesInv
  <2>3. /\ covered' \in 0..now /\ swept' \in 0..now
        /\ rolled' \in [Records -> 0..now]
    BY <2>1, <2>2 DEF LayersTypeOK
  <2>. QED
    BY <2>1, <2>3 DEF LayersTypeOK
<1>8. ASSUME NEW r \in Readers, ReadFails(r)
      PROVE  LayersTypeOK'
  BY <1>8 DEF ReadFails, LayersTypeOK
<1>. QED
  BY <1>1, <1>2, <1>3, <1>4, <1>5, <1>6, <1>7, <1>8 DEF LayersNext
----------------------------------------------------------------------------
(* What a step can do to reads and records: users change a record, or the  *)
(* clock goes on, or one read is replaced (by none, when it ends).         *)
LEMMA StepCases ==
  ASSUME LayersTypeOK, [LayersNext]_layerVars
  PROVE  \/ \E x \in Records : \E f : Alters(x, f)
         \/ Tick
         \/ \E r \in Readers :
              \/ \E layer \in Layers : StartRead(r, layer)
              \/ FetchPage(r) \/ EndFetch(r) \/ UploadPage(r)
              \/ FinishRead(r) \/ ReadFails(r)
         \/ UNCHANGED layerVars
BY ChangeShape DEF LayersNext

(* A read goes on in these steps, and keeps its layer, stamp and filter.   *)
LEMMA Continuing ==
  ASSUME LayersTypeOK, NEW r \in Readers,
         FetchPage(r) \/ EndFetch(r) \/ UploadPage(r)
  PROVE  /\ reads[r] # NoRead /\ UNCHANGED <<now, xero>>
         /\ \E read : /\ reads' = [reads EXCEPT ![r] = read]
                      /\ Continues(reads[r], read)
BY FetchShape, EndShape, UploadShape

(* Every step keeps times in the past and versions in order.               *)
LEMMA NextTimes ==
  ASSUME LayersTypeOK, TimesInv, [LayersNext]_layerVars
  PROVE  TimesInv'
<1>0. now \in Nat
  BY DEF LayersTypeOK
<1>1. ASSUME NEW x \in Records, NEW f, Alters(x, f)
      PROVE  TimesInv'
  <2>1. Update(x, f) /\ now' = now
    BY <1>1 DEF Alters, Update
  <2>2. ASSUME NEW y \in Records
        PROVE  /\ xero'[y].modified <= xero'[y].touched
               /\ xero'[y].touched <= now
               /\ xero'[y].bumped <= xero'[y].version
    <3>1. CASE y # x
      BY <2>1, <3>1 DEF Update, LayersTypeOK, TimesInv
    <3>2. CASE y = x
      <4>1. xero'[x] = f
        BY <2>1 DEF Update, LayersTypeOK
      <4>2. f.modified <= f.touched /\ f.touched <= now
        BY <1>0, <1>1, RecordType DEF Alters, TimesInv
      <4>3. f.bumped <= f.version
        BY <1>1, RecordType DEF Alters, TimesInv
      <4>. QED
        BY <3>2, <4>1, <4>2, <4>3
    <3>. QED
      BY <3>1, <3>2
  <2>3. \A r \in Readers : reads'[r] # NoRead => reads'[r].synced_at <= now
    BY <2>1, UpdateReads DEF TimesInv, Continues
  <2>. QED
    BY <2>1, <2>2, <2>3 DEF TimesInv
<1>2. CASE Tick
  <2>1. now' = now + 1 /\ UNCHANGED <<xero, reads>>
    BY <1>2 DEF Tick
  <2>2. \A x \in Records : xero[x].touched \in Nat
    BY RecordType
  <2>3. \A r \in Readers : reads[r] # NoRead => reads[r].synced_at \in Nat
    BY ReadType
  <2>. QED
    BY <1>0, <2>1, <2>2, <2>3 DEF TimesInv
<1>3. ASSUME NEW r \in Readers, UNCHANGED <<now, xero>>,
             NEW read, reads' = [reads EXCEPT ![r] = read],
             read # NoRead => read.synced_at <= now
      PROVE  TimesInv'
  BY <1>3 DEF TimesInv, LayersTypeOK
<1>4. ASSUME NEW r \in Readers, NEW layer \in Layers, StartRead(r, layer)
      PROVE  TimesInv'
  <2>1. PICK read \in Reads : /\ reads' = [reads EXCEPT ![r] = read]
                              /\ read.synced_at = now
    BY <1>4, StartShape
  <2>2. UNCHANGED <<now, xero>>
    BY <1>4, StartShape
  <2>3. read.synced_at <= now
    BY <1>0, <2>1
  <2>. QED
    BY <1>3, <2>1, <2>2, <2>3
<1>5. ASSUME NEW r \in Readers, FetchPage(r) \/ EndFetch(r) \/ UploadPage(r)
      PROVE  TimesInv'
  <2>1. PICK read : /\ reads' = [reads EXCEPT ![r] = read]
                    /\ Continues(reads[r], read)
    BY <1>5, Continuing
  <2>2. read.synced_at <= now
    BY <1>5, <2>1, Continuing DEF Continues, TimesInv
  <2>3. UNCHANGED <<now, xero>>
    BY <1>5, Continuing
  <2>. QED
    BY <1>3, <2>1, <2>2, <2>3
<1>6. ASSUME NEW r \in Readers, FinishRead(r) \/ ReadFails(r)
      PROVE  TimesInv'
  BY <1>3, <1>6 DEF FinishRead, ReadFails
<1>7. CASE UNCHANGED layerVars
  BY <1>7 DEF layerVars, TimesInv
<1>. QED
  BY <1>1, <1>2, <1>4, <1>5, <1>6, <1>7, StepCases

(* A read keeps its filter.                                                *)
LEMMA NextFilter ==
  ASSUME LayersTypeOK, FilterInv, [LayersNext]_layerVars
  PROVE  FilterInv'
<1>0. ASSUME NEW old, NEW new, Continues(old, new), Dated(old)
      PROVE  Dated(new)
  BY <1>0 DEF Continues, Dated
<1>1. ASSUME NEW x \in Records, NEW f, Alters(x, f)
      PROVE  FilterInv'
  <2>1. Update(x, f)
    BY <1>1 DEF Alters
  <2>. QED
    BY <1>0, <2>1, UpdateReads DEF FilterInv
<1>2. ASSUME NEW r \in Readers, NEW read,
             reads' = [reads EXCEPT ![r] = read],
             read # NoRead => Dated(read)
      PROVE  FilterInv'
  BY <1>2 DEF FilterInv, LayersTypeOK
<1>3. ASSUME NEW r \in Readers, NEW layer \in Layers, StartRead(r, layer)
      PROVE  FilterInv'
  <2>1. PICK read \in Reads : reads' = [reads EXCEPT ![r] = read] /\ Dated(read)
    BY <1>3, StartShape
  <2>. QED
    BY <1>2, <2>1
<1>4. ASSUME NEW r \in Readers, FetchPage(r) \/ EndFetch(r) \/ UploadPage(r)
      PROVE  FilterInv'
  <2>1. PICK read :
          /\ reads' = [reads EXCEPT ![r] = read]
          /\ Continues(reads[r], read)
    BY <1>4, Continuing
  <2>2. Dated(read)
    BY <1>0, <1>4, <2>1, Continuing DEF FilterInv
  <2>. QED
    BY <1>2, <2>1, <2>2
<1>5. ASSUME NEW r \in Readers, FinishRead(r) \/ ReadFails(r)
      PROVE  FilterInv'
  BY <1>2, <1>5 DEF FinishRead, ReadFails
<1>6. CASE Tick \/ UNCHANGED layerVars
  BY <1>6 DEF Tick, layerVars, FilterInv
<1>. QED
  BY <1>1, <1>3, <1>4, <1>5, <1>6, StepCases
----------------------------------------------------------------------------
(* A change does not make what was taken before it less fresh: it is not   *)
(* earlier than anything taken so far.                                     *)
LEMMA FreshKept ==
  ASSUME LayersTypeOK, NEW x \in Records, NEW f, Alters(x, f),
         NEW y \in Records, NEW v, NEW since \in Nat, since <= now,
         Fresh(y, v, since)
  PROVE  Fresh(y, v, since)'
<1>1. now \in Nat
  BY DEF LayersTypeOK
<1>2. xero' = [xero EXCEPT ![x] = f]
  BY DEF Alters, Update
<1>3. CASE y # x
  BY <1>2, <1>3 DEF Fresh, LayersTypeOK
<1>4. CASE y = x
  <2>1. xero'[y] = f
    BY <1>2, <1>4 DEF LayersTypeOK
  <2>2. ~(f.touched < since)
    BY <1>1 DEF Alters
  <2>3. f.modified < since => v >= f.bumped
    BY <1>1, <1>4 DEF Alters, Fresh
  <2>. QED
    BY <2>1, <2>2, <2>3 DEF Fresh
<1>. QED
  BY <1>3, <1>4

(* A record as it is now is fresh.                                         *)
LEMMA FreshNow ==
  ASSUME LayersTypeOK, TimesInv, NEW x \in Records, NEW since
  PROVE  Fresh(x, xero[x].version, since)
BY RecordType DEF Fresh, TimesInv

(* Every step keeps what was fetched and what is in the bucket fresh.      *)
LEMMA NextFresh ==
  ASSUME LayersTypeOK, TimesInv, FreshInv, [LayersNext]_layerVars
  PROVE  FreshInv'
<1>1. \A c \in bucket : Fresh(c.record, c.version, c.synced_at)
  BY DEF FreshInv
<1>2. ASSUME NEW x \in Records, NEW f, Alters(x, f)
      PROVE  FreshInv'
  <2>1. bucket' = bucket /\ Update(x, f)
    BY <1>2 DEF Alters, Update
  <2>2. ASSUME NEW c \in bucket
        PROVE  Fresh(c.record, c.version, c.synced_at)'
    <3>1. /\ c.record \in Records /\ c.synced_at \in Nat
          /\ c.synced_at <= now
      BY DEF LayersTypeOK, Captures
    <3>2. Fresh(c.record, c.version, c.synced_at)
      BY <1>1
    <3>. QED
      BY <1>2, <3>1, <3>2, FreshKept
  <2>3. ASSUME NEW r \in Readers, reads'[r] # NoRead,
               NEW g \in Held(reads'[r].got)
        PROVE  Fresh(g.record, g.version, reads[r].synced_at)'
    <3>1. /\ reads[r] # NoRead
          /\ reads'[r].got = reads[r].got
          /\ reads'[r].synced_at = reads[r].synced_at
      BY <2>1, <2>3, UpdateReads DEF Continues
    <3>2. Fresh(g.record, g.version, reads[r].synced_at)
      BY <2>3, <3>1 DEF FreshInv
    <3>3. reads[r].synced_at \in Nat /\ reads[r].synced_at <= now
      BY <3>1, ReadType DEF TimesInv
    <3>4. g.record \in Records
      <4>1. g \in Pages
        BY <2>3, <3>1, ReadType
      <4>. QED
        BY <4>1 DEF Pages
    <3>. QED
      BY <1>2, <3>1, <3>2, <3>3, <3>4, FreshKept DEF Fresh
  <2>. QED
    BY <2>1, <2>2, <2>3 DEF FreshInv
<1>3. ASSUME UNCHANGED xero, NEW r \in Readers,
             NEW read, reads' = [reads EXCEPT ![r] = read],
             read # NoRead =>
               \A g \in Held(read.got) :
                 Fresh(g.record, g.version, read.synced_at),
             \A c \in bucket' : Fresh(c.record, c.version, c.synced_at)
      PROVE  FreshInv'
  <2>1. \A q \in Readers :
          reads'[q] # NoRead =>
            \A g \in Held(reads'[q].got) :
              Fresh(g.record, g.version, reads'[q].synced_at)
    BY <1>3 DEF FreshInv, LayersTypeOK
  <2>. QED
    BY <1>3, <2>1 DEF FreshInv, Fresh
<1>4. ASSUME NEW r \in Readers, NEW layer \in Layers, StartRead(r, layer)
      PROVE  FreshInv'
  <2>1. PICK read \in Reads :
          reads' = [reads EXCEPT ![r] = read] /\ read.got = <<>>
    BY <1>4, StartShape
  <2>2. UNCHANGED <<xero, bucket>>
    BY <1>4, StartShape
  <2>3. Held(read.got) = {}
    BY <2>1, HeldNone
  <2>. QED
    BY <1>1, <1>3, <2>1, <2>2, <2>3
<1>5. ASSUME NEW r \in Readers, FetchPage(r)
      PROVE  FreshInv'
  <2>1. reads[r] # NoRead /\ UNCHANGED <<xero, bucket>>
    BY <1>5, FetchShape
  <2>2. PICK x \in Records, read \in Reads :
          /\ reads' = [reads EXCEPT ![r] = read]
          /\ read.synced_at = reads[r].synced_at
          /\ Held(read.got) = Held(reads[r].got)
               \cup {[record |-> x, version |-> xero[x].version]}
    BY <1>5, FetchShape DEF Continues
  <2>3. \A g \in Held(reads[r].got) :
          Fresh(g.record, g.version, reads[r].synced_at)
    BY <2>1 DEF FreshInv
  <2>4. Fresh(x, xero[x].version, reads[r].synced_at)
    BY FreshNow
  <2>5. \A g \in Held(read.got) : Fresh(g.record, g.version, read.synced_at)
    BY <2>2, <2>3, <2>4
  <2>. QED
    BY <1>1, <1>3, <2>1, <2>2, <2>5
<1>6. ASSUME NEW r \in Readers, EndFetch(r)
      PROVE  FreshInv'
  <2>1. reads[r] # NoRead /\ UNCHANGED <<xero, bucket>>
    BY <1>6, EndShape
  <2>2. PICK read :
          /\ reads' = [reads EXCEPT ![r] = read]
          /\ read.synced_at = reads[r].synced_at
          /\ read.got = reads[r].got
    BY <1>6, EndShape DEF Continues
  <2>3. \A g \in Held(read.got) : Fresh(g.record, g.version, read.synced_at)
    BY <2>1, <2>2 DEF FreshInv
  <2>. QED
    BY <1>1, <1>3, <2>1, <2>2, <2>3
<1>7. ASSUME NEW r \in Readers, UploadPage(r)
      PROVE  FreshInv'
  <2>1. reads[r] # NoRead /\ UNCHANGED xero
    BY <1>7, UploadShape
  <2>2. PICK g \in Pages : \E read, c :
          /\ Held(reads[r].got) = {g} \cup Held(read.got)
          /\ reads' = [reads EXCEPT ![r] = read]
          /\ read.synced_at = reads[r].synced_at
          /\ bucket' = bucket \cup {c}
          /\ c.record = g.record
          /\ c.version = g.version
          /\ c.synced_at = reads[r].synced_at
    BY <1>7, UploadShape DEF Continues
  <2>3. PICK read, c :
          /\ Held(reads[r].got) = {g} \cup Held(read.got)
          /\ reads' = [reads EXCEPT ![r] = read]
          /\ read.synced_at = reads[r].synced_at
          /\ bucket' = bucket \cup {c}
          /\ c.record = g.record
          /\ c.version = g.version
          /\ c.synced_at = reads[r].synced_at
    BY <2>2
  <2>4. \A h \in Held(reads[r].got) :
          Fresh(h.record, h.version, reads[r].synced_at)
    BY <2>1 DEF FreshInv
  <2>5. \A h \in Held(read.got) : Fresh(h.record, h.version, read.synced_at)
    BY <2>3, <2>4
  <2>6. Fresh(c.record, c.version, c.synced_at)
    BY <2>3, <2>4
  <2>7. \A d \in bucket' : Fresh(d.record, d.version, d.synced_at)
    BY <1>1, <2>3, <2>6
  <2>. QED
    BY <1>3, <2>1, <2>3, <2>5, <2>7
<1>8. ASSUME NEW r \in Readers, FinishRead(r) \/ ReadFails(r)
      PROVE  FreshInv'
  BY <1>1, <1>3, <1>8 DEF FinishRead, ReadFails
<1>9. CASE Tick \/ UNCHANGED layerVars
  BY <1>9 DEF Tick, layerVars, FreshInv, Fresh
<1>. QED
  BY <1>2, <1>4, <1>5, <1>6, <1>7, <1>8, <1>9, StepCases
----------------------------------------------------------------------------
(* What matches is a set of numbers.                                       *)
LEMMA MatchingType ==
  ASSUME NEW r
  PROVE  Matching(r) \in SUBSET Records /\ Matching(r) \in SUBSET Nat
BY LayersAssumption DEF Matching

(* Every step keeps an undisturbed read complete up to where it is.        *)
LEMMA NextPages ==
  ASSUME LayersTypeOK, TimesInv, PagesInv, [LayersNext]_layerVars
  PROVE  PagesInv'
<1>1. ASSUME NEW x \in Records, NEW f, Alters(x, f),
             NEW r \in Readers, reads'[r] # NoRead, ~reads'[r].disturbed,
             NEW y \in Matching(r)', xero'[y].modified < reads'[r].synced_at
      PROVE  Reaches(r, y)'
  <2>1. /\ reads[r] # NoRead /\ ~reads[r].disturbed
        /\ ~Disturbs(r, x, f)
        /\ reads'[r].synced_at = reads[r].synced_at
        /\ reads'[r].filter = reads[r].filter
        /\ reads'[r].phase = reads[r].phase
        /\ reads'[r].got = reads[r].got
        /\ bucket' = bucket
    BY <1>1, UpdateReads DEF Alters, Continues, Update
  <2>2. xero' = [xero EXCEPT ![x] = f]
    BY <1>1 DEF Alters, Update
  <2>3. Matching(r)'
          = {z \in Records : Matches(reads[r].filter, z, xero'[z])}
    BY <2>1 DEF Matching, Matches
  <2>4. y \in Records /\ Matches(reads[r].filter, y, xero'[y])
    BY <2>3
  <2>5. y \in Matching(r) /\ xero[y].modified < reads[r].synced_at
    <3>1. CASE y # x
      <4>1. xero'[y] = xero[y]
        BY <2>2, <2>4, <3>1 DEF LayersTypeOK
      <4>. QED
        BY <1>1, <2>1, <2>4, <4>1 DEF Matching
    <3>2. CASE y = x
      <4>1. xero'[y] = f
        BY <2>2, <3>2 DEF LayersTypeOK
      <4>2. now \in Nat /\ reads[r].synced_at \in Nat
            /\ reads[r].synced_at <= now
        BY <2>1, ReadType DEF LayersTypeOK, TimesInv
      <4>3. f.modified = xero[x].modified /\ f.open = xero[x].open
        BY <1>1, <2>1, <4>1, <4>2 DEF Alters
      <4>4. Matches(reads[r].filter, x, xero[x])
        BY <2>4, <3>2, <4>1, <4>3 DEF Matches
      <4>. QED
        BY <1>1, <2>1, <3>2, <4>1, <4>3, <4>4 DEF Matching
    <3>. QED
      BY <3>1, <3>2
  <2>6. Reaches(r, y)
    BY <2>1, <2>5 DEF PagesInv
  <2>7. CASE Fetched(r, y) \/ Stored(y, reads[r].synced_at)
    BY <2>1, <2>7 DEF Reaches, Fetched, Stored
  <2>8. CASE /\ reads[r].phase = "fetching"
             /\ Len(reads[r].got) <= Rank(Matching(r), y)
    <3>1. \A z \in Records :
            Matches(reads[r].filter, z, xero[z])
              => Matches(reads[r].filter, z, xero'[z])
      BY <2>1, <2>2, <2>8 DEF Disturbs, LayersTypeOK
    <3>2. Matching(r) \subseteq Matching(r)'
      BY <2>3, <3>1 DEF Matching
    <3>3. Matching(r)' \in SUBSET Nat /\ y \in Nat
      BY <2>3, <2>4, LayersAssumption
    <3>4. Rank(Matching(r), y) <= Rank(Matching(r)', y)
      BY <3>2, <3>3, RankGrows
    <3>5. /\ Rank(Matching(r), y) \in Nat
          /\ Rank(Matching(r)', y) \in Nat
          /\ Len(reads[r].got) \in Nat
      BY <2>1, <3>3, BelowFinite, MatchingType, ReadType
    <3>6. Len(reads[r].got) <= Rank(Matching(r)', y)
      BY <2>8, <3>4, <3>5
    <3>. QED
      BY <2>1, <2>8, <3>6 DEF Reaches, Rank, Below
  <2>. QED
    BY <2>6, <2>7, <2>8 DEF Reaches
<1>2. ASSUME UNCHANGED xero, bucket \subseteq bucket',
             NEW r \in Readers, NEW read,
             reads' = [reads EXCEPT ![r] = read],
             read # NoRead /\ ~read.disturbed =>
               \A x \in Matching(r)' :
                 xero[x].modified < read.synced_at => Reaches(r, x)'
      PROVE  PagesInv'
  <2> SUFFICES ASSUME NEW q \in Readers, reads'[q] # NoRead,
                      ~reads'[q].disturbed, NEW x \in Matching(q)',
                      xero[x].modified < reads'[q].synced_at
               PROVE  Reaches(q, x)'
    BY <1>2 DEF PagesInv
  <2>1. CASE q = r
    BY <1>2, <2>1 DEF LayersTypeOK
  <2>2. CASE q # r
    <3>1. reads'[q] = reads[q]
      BY <1>2, <2>2 DEF LayersTypeOK
    <3>2. Matching(q)' = Matching(q) /\ (Fetched(q, x)' <=> Fetched(q, x))
      BY <1>2, <3>1 DEF Matching, Matches, Fetched
    <3>3. Stored(x, reads[q].synced_at) => Stored(x, reads[q].synced_at)'
      BY <1>2, <3>1 DEF Stored
    <3>4. Reaches(q, x)
      BY <3>1, <3>2 DEF PagesInv
    <3>. QED
      BY <3>1, <3>2, <3>3, <3>4 DEF Reaches, Rank, Below
  <2>. QED
    BY <2>1, <2>2
<1>3. ASSUME NEW r \in Readers, NEW layer \in Layers, StartRead(r, layer)
      PROVE  PagesInv'
  <2>1. PICK read \in Reads : /\ reads' = [reads EXCEPT ![r] = read]
                              /\ read.phase = "fetching"
                              /\ read.got = <<>>
    BY <1>3, StartShape
  <2>2. UNCHANGED <<xero, bucket>>
    BY <1>3, StartShape
  <2>3. reads'[r] = read
    BY <2>1 DEF LayersTypeOK
  <2>4. Matching(r)' \in SUBSET Nat
    BY LayersAssumption DEF Matching
  <2>5. \A x \in Matching(r)' : 0 <= Rank(Matching(r)', x)
    BY <2>4, BelowFinite
  <2>6. \A x \in Matching(r)' : Reaches(r, x)'
    BY <2>1, <2>3, <2>5 DEF Reaches, Rank, Below
  <2>. QED
    BY <1>2, <2>1, <2>2, <2>6
<1>4. ASSUME NEW r \in Readers, FetchPage(r)
      PROVE  PagesInv'
  <2>1. reads[r] # NoRead /\ UNCHANGED <<xero, bucket>>
    BY <1>4, FetchShape
  <2>2. PICK z \in Records, read \in Reads :
          /\ z \in Matching(r)
          /\ Rank(Matching(r), z) = Len(reads[r].got)
          /\ reads' = [reads EXCEPT ![r] = read]
          /\ read.synced_at = reads[r].synced_at
          /\ read.filter = reads[r].filter
          /\ read.phase = "fetching"
          /\ Len(read.got) = Len(reads[r].got) + 1
          /\ Held(read.got) = Held(reads[r].got)
               \cup {[record |-> z, version |-> xero[z].version]}
          /\ read.disturbed = reads[r].disturbed
    BY <1>4, FetchShape DEF Continues
  <2>3. reads'[r] = read
    BY <2>2 DEF LayersTypeOK
  <2>4. Matching(r)' = Matching(r)
    BY <2>1, <2>2, <2>3 DEF Matching, Matches
  <2>5. Fetched(r, z)' /\ \A x : Fetched(r, x) => Fetched(r, x)'
    <3> DEFINE g == [record |-> z, version |-> xero[z].version]
    <3>1. g.record = z /\ g \in Held(reads'[r].got)
      BY <2>2, <2>3
    <3>2. Held(reads[r].got) \subseteq Held(reads'[r].got)
      BY <2>2, <2>3
    <3> HIDE DEF g
    <3>. QED
      BY <3>1, <3>2 DEF Fetched
  <2>6. ASSUME ~read.disturbed, NEW x \in Matching(r),
               xero[x].modified < read.synced_at
        PROVE  Reaches(r, x)'
    <3>1. Reaches(r, x)
      BY <2>1, <2>2, <2>6 DEF PagesInv
    <3>2. Stored(x, reads[r].synced_at) => Reaches(r, x)'
      BY <2>1, <2>2, <2>3 DEF Stored, Reaches
    <3>3. ASSUME x # z, Len(reads[r].got) <= Rank(Matching(r), x)
          PROVE  Len(read.got) <= Rank(Matching(r), x)
      <4>1. x \in Nat /\ z \in Nat
        BY <2>2, MatchingType
      <4>2. Rank(Matching(r), x) \in Nat /\ Len(reads[r].got) \in Nat
        BY <2>1, <4>1, BelowFinite, MatchingType, ReadType
      <4>3. ~(x < z)
        BY <2>2, <3>3, <4>1, <4>2, RankOrder, MatchingType
      <4>4. z < x
        BY <3>3, <4>1, <4>3
      <4>. QED
        BY <2>2, <4>4, RankOrder, MatchingType
    <3>4. Len(read.got) <= Rank(Matching(r), x) => Reaches(r, x)'
      BY <2>2, <2>3, <2>4 DEF Reaches, Rank, Below
    <3>. QED
      BY <2>5, <3>1, <3>2, <3>3, <3>4 DEF Reaches
  <2>. QED
    BY <1>2, <2>1, <2>2, <2>4, <2>6
<1>5. ASSUME NEW r \in Readers, EndFetch(r)
      PROVE  PagesInv'
  <2>1. reads[r] # NoRead /\ UNCHANGED <<xero, bucket>>
    BY <1>5, EndShape
  <2>2. PICK read :
          /\ reads' = [reads EXCEPT ![r] = read]
          /\ read.synced_at = reads[r].synced_at
          /\ read.filter = reads[r].filter
          /\ read.got = reads[r].got
          /\ ~read.disturbed => ~reads[r].disturbed /\ OnPage(r) = {}
    BY <1>5, EndShape DEF Continues
  <2>3. reads'[r] = read
    BY <2>2 DEF LayersTypeOK
  <2>4. Matching(r)' = Matching(r)
    BY <2>1, <2>2, <2>3 DEF Matching, Matches
  <2>5. ASSUME ~read.disturbed, NEW x \in Matching(r),
               xero[x].modified < read.synced_at
        PROVE  Reaches(r, x)'
    <3>1. Reaches(r, x)
      BY <2>1, <2>2, <2>5 DEF PagesInv
    <3>2. ASSUME Len(reads[r].got) <= Rank(Matching(r), x)
          PROVE  FALSE
      <4>1. PICK z \in Matching(r) : Rank(Matching(r), z) = Len(reads[r].got)
        BY <2>1, <3>2, ReadType, RankReached, MatchingType
      <4>2. z \in OnPage(r)
        BY <4>1 DEF OnPage, Rank, Below
      <4>. QED
        BY <2>2, <2>5, <4>2
    <3>. QED
      BY <2>1, <2>2, <2>3, <3>1, <3>2 DEF Reaches, Fetched, Stored
  <2>. QED
    BY <1>2, <2>1, <2>2, <2>4, <2>5
<1>6. ASSUME NEW r \in Readers, UploadPage(r)
      PROVE  PagesInv'
  <2>1. reads[r] # NoRead /\ UNCHANGED xero
    BY <1>6, UploadShape
  <2>2. PICK g \in Pages : \E read, c :
          /\ Held(reads[r].got) = {g} \cup Held(read.got)
          /\ reads' = [reads EXCEPT ![r] = read]
          /\ read.synced_at = reads[r].synced_at
          /\ read.filter = reads[r].filter
          /\ read.disturbed = reads[r].disturbed
          /\ bucket' = bucket \cup {c}
          /\ c.record = g.record
          /\ c.synced_at = reads[r].synced_at
    BY <1>6, UploadShape DEF Continues
  <2>3. PICK read, c :
          /\ Held(reads[r].got) = {g} \cup Held(read.got)
          /\ reads' = [reads EXCEPT ![r] = read]
          /\ read.synced_at = reads[r].synced_at
          /\ read.filter = reads[r].filter
          /\ read.disturbed = reads[r].disturbed
          /\ bucket' = bucket \cup {c}
          /\ c.record = g.record
          /\ c.synced_at = reads[r].synced_at
    BY <2>2
  <2>4. reads'[r] = read
    BY <2>3 DEF LayersTypeOK
  <2>5. Matching(r)' = Matching(r)
    BY <2>1, <2>3, <2>4 DEF Matching, Matches
  <2>6. ASSUME ~read.disturbed, NEW x \in Matching(r),
               xero[x].modified < read.synced_at
        PROVE  Reaches(r, x)'
    <3>1. Reaches(r, x)
      BY <2>1, <2>3, <2>6 DEF PagesInv
    <3>2. Fetched(r, x) => Fetched(r, x)' \/ x = g.record
      BY <2>3, <2>4 DEF Fetched
    <3>3. x = g.record => Stored(x, reads[r].synced_at)'
      BY <2>3, <2>4 DEF Stored
    <3>4. Stored(x, reads[r].synced_at) => Stored(x, reads[r].synced_at)'
      BY <2>3, <2>4 DEF Stored
    <3>5. reads[r].phase # "fetching"
      BY <1>6 DEF UploadPage
    <3>. QED
      BY <3>1, <3>2, <3>3, <3>4, <3>5 DEF Reaches
  <2>. QED
    BY <1>2, <2>1, <2>3, <2>5, <2>6
<1>7. ASSUME NEW r \in Readers, FinishRead(r) \/ ReadFails(r)
      PROVE  PagesInv'
  BY <1>2, <1>7 DEF FinishRead, ReadFails
<1>8. CASE Tick \/ UNCHANGED layerVars
  <2>1. UNCHANGED <<xero, reads, bucket>>
    BY <1>8 DEF Tick, layerVars
  <2>2. ASSUME NEW r
        PROVE  Matching(r)' = Matching(r)
    BY <2>1 DEF Matching, Matches
  <2>3. ASSUME NEW r, NEW x, Reaches(r, x)
        PROVE  Reaches(r, x)'
    BY <2>1, <2>2, <2>3 DEF Reaches, Fetched, Stored, Rank, Below
  <2>. QED
    BY <2>1, <2>2, <2>3 DEF PagesInv
<1>9. ASSUME NEW x \in Records, NEW f, Alters(x, f)
      PROVE  PagesInv'
  BY <1>1, <1>9 DEF PagesInv
<1>. QED
  BY <1>3, <1>4, <1>5, <1>6, <1>7, <1>8, <1>9, StepCases
----------------------------------------------------------------------------
(* What a read that finishes undisturbed should have brought is stored.    *)
LEMMA FinishedStored ==
  ASSUME LayersTypeOK, PagesInv, NEW r \in Readers, FinishRead(r),
         ~reads[r].disturbed, NEW x \in Records,
         Matches(reads[r].filter, x, xero[x]),
         xero[x].modified < reads[r].synced_at
  PROVE  Stored(x, reads[r].synced_at)
<1>1. /\ reads[r] # NoRead /\ reads[r].phase = "uploading"
      /\ reads[r].got = <<>>
  BY DEF FinishRead
<1>2. x \in Matching(r)
  BY DEF Matching
<1>3. Reaches(r, x)
  BY <1>1, <1>2 DEF PagesInv
<1>4. ~Fetched(r, x)
  BY <1>1, HeldNone DEF Fetched
<1>. QED
  BY <1>1, <1>3, <1>4 DEF Reaches

(* The bucket only grows, so what a claim needs stays there.               *)
LEMMA StoredKept ==
  ASSUME [LayersNext]_layerVars, NEW x, NEW t, StoredAfter(x, t)
  PROVE  StoredAfter(x, t)'
<1>1. bucket \subseteq bucket'
  BY DEF LayersNext, layerVars, Change, LinkedChange, Update, Tick, StartRead,
         FetchPage, EndFetch, UploadPage, FinishRead, ReadFails
<1>. QED
  BY <1>1 DEF StoredAfter

(* Every step keeps what is claimed older than what is stored.             *)
LEMMA NextClaims ==
  ASSUME LayersTypeOK, TimesInv, FilterInv, PagesInv, ClaimsInv,
         [LayersNext]_layerVars
  PROVE  ClaimsInv'
<1>0. /\ now \in Nat /\ covered \in Nat /\ swept \in Nat
      /\ covered <= now /\ swept <= now
      /\ \A x \in Records : rolled[x] \in Nat /\ rolled[x] <= now
  BY DEF LayersTypeOK
<1>1. ASSUME NEW x \in Records, NEW f, Alters(x, f)
      PROVE  ClaimsInv'
  <2>1. /\ xero' = [xero EXCEPT ![x] = f]
        /\ UNCHANGED <<bucket, covered, swept, rolled>>
    BY <1>1 DEF Alters, Update
  <2>2. ~(f.touched < swept) /\ ~(f.touched < rolled[x])
    BY <1>0, <1>1 DEF Alters
  <2>3. f.modified < covered => StoredAfter(x, f.modified)
    BY <1>0, <1>1 DEF Alters, ClaimsInv
  <2>4. xero'[x] = f /\ \A y \in Records : y # x => xero'[y] = xero[y]
    BY <2>1 DEF LayersTypeOK
  <2>. QED
    BY <2>1, <2>2, <2>3, <2>4 DEF ClaimsInv, StoredAfter
<1>2. ASSUME NEW r \in Readers, FinishRead(r)
      PROVE  ClaimsInv'
  <2> DEFINE read == reads[r]
             since == reads[r].synced_at
  <2>0. read # NoRead
    BY <1>2 DEF FinishRead
  <2>1. PICK run_date \in Nat :
          /\ read # NoRead /\ UNCHANGED <<xero, bucket>>
          /\ since \in Nat
          /\ read.filter = FilterOf(read.layer, since, run_date)
          /\ read.due = Due(read.layer, run_date)
          /\ read.disturbed \in BOOLEAN
    BY <1>2, <2>0, ReadType DEF FinishRead, FilterInv, Dated
  <2> SUFFICES ASSUME NEW x \in Records
               PROVE  /\ xero[x].modified < covered' =>
                           StoredAfter(x, xero[x].modified)
                      /\ xero[x].open /\ xero[x].touched < swept' =>
                           StoredAfter(x, xero[x].touched)
                      /\ xero[x].touched < rolled'[x] =>
                           StoredAfter(x, xero[x].touched)
    BY <2>1 DEF ClaimsInv, StoredAfter
  <2>2. /\ xero[x].modified \in Nat /\ xero[x].touched \in Nat
        /\ xero[x].modified <= xero[x].touched
    BY RecordType DEF TimesInv
  <2>3. \A t : Stored(x, since) /\ t < since => StoredAfter(x, t)
    BY DEF Stored, StoredAfter
  <2>4. /\ xero[x].modified < covered => StoredAfter(x, xero[x].modified)
        /\ xero[x].open /\ xero[x].touched < swept =>
             StoredAfter(x, xero[x].touched)
        /\ xero[x].touched < rolled[x] => StoredAfter(x, xero[x].touched)
    BY DEF ClaimsInv
  <2>5. ASSUME covered' # covered, covered <= xero[x].modified,
               xero[x].modified < covered'
        PROVE  StoredAfter(x, xero[x].modified)
    <3>1. /\ read.layer = "incremental" /\ ~read.disturbed
          /\ since - WindowDays <= covered
          /\ covered' = since
      BY <1>2, <2>5 DEF FinishRead
    <3>2. read.filter
            = [by |-> "modified", from |-> since - WindowDays, to |-> 0]
      BY <2>1, <3>1 DEF FilterOf, ModifiedAfter
    <3>3. xero[x].modified >= since - WindowDays
      BY <1>0, <2>1, <2>2, <2>5, <3>1, LayersAssumption
    <3>4. Matches(reads[r].filter, x, xero[x])
      BY <3>2, <3>3 DEF Matches
    <3>5. Stored(x, since)
      BY <1>2, <2>5, <3>1, <3>4, FinishedStored
    <3>. QED
      BY <2>3, <2>5, <3>1, <3>5
  <2>6. ASSUME swept' # swept, xero[x].open, xero[x].touched < swept'
        PROVE  StoredAfter(x, xero[x].touched)
    <3>1. read.layer = "open-sweep" /\ ~read.disturbed /\ swept' = since
      BY <1>2, <2>6 DEF FinishRead
    <3>2. read.filter = [by |-> "open", from |-> 0, to |-> 0]
      BY <2>1, <3>1 DEF FilterOf
    <3>3. Matches(reads[r].filter, x, xero[x])
      BY <2>6, <3>2 DEF Matches
    <3>4. xero[x].modified < since
      BY <2>1, <2>2, <2>6, <3>1
    <3>5. Stored(x, since)
      BY <1>2, <3>1, <3>3, <3>4, FinishedStored
    <3>. QED
      BY <2>3, <2>6, <3>1, <3>5
  <2>7. ASSUME rolled'[x] # rolled[x], xero[x].touched < rolled'[x]
        PROVE  StoredAfter(x, xero[x].touched)
    <3>1. /\ read.layer = "rolling-full" /\ ~read.disturbed
          /\ rolled'[x] = since
          /\ DateOf[x] \in read.due
      BY <1>2, <2>7 DEF FinishRead
    <3>2. read.filter = [by |-> "date",
                         from |-> RollingWindow(run_date, TightDays).from,
                         to |-> RollingWindow(run_date, TightDays).to]
      BY <2>1, <3>1 DEF FilterOf
    <3>3. DateOf[x] \in RollingWindow(run_date, TightDays).from
                          ..RollingWindow(run_date, TightDays).to
      BY <2>1, <3>1, LayersAssumption DEF Due, RollingWindow
    <3>4. Matches(reads[r].filter, x, xero[x])
      BY <3>2, <3>3 DEF Matches
    <3>5. xero[x].modified < since
      BY <2>1, <2>2, <2>7, <3>1
    <3>6. Stored(x, since)
      BY <1>2, <3>1, <3>4, <3>5, FinishedStored
    <3>. QED
      BY <2>3, <2>7, <3>1, <3>6
  <2>8. xero[x].modified < covered' => StoredAfter(x, xero[x].modified)
    BY <1>0, <2>2, <2>4, <2>5
  <2>. QED
    BY <2>4, <2>6, <2>7, <2>8
<1>3. ASSUME UNCHANGED <<xero, covered, swept, rolled>>
      PROVE  ClaimsInv'
  BY <1>3, StoredKept DEF ClaimsInv
<1>4. ASSUME NEW r \in Readers, NEW layer \in Layers, StartRead(r, layer)
      PROVE  ClaimsInv'
  BY <1>3, <1>4 DEF StartRead
<1>5. CASE Tick \/ UNCHANGED layerVars
  BY <1>3, <1>5 DEF Tick, layerVars
<1>6. ASSUME NEW r \in Readers,
             FetchPage(r) \/ EndFetch(r) \/ UploadPage(r) \/ ReadFails(r)
      PROVE  ClaimsInv'
  BY <1>3, <1>6 DEF FetchPage, EndFetch, UploadPage, ReadFails
<1>. QED
  BY <1>1, <1>2, <1>4, <1>5, <1>6, StepCases
----------------------------------------------------------------------------
(* The types and the invariant hold initially.                             *)
LEMMA InitLayers == LayersInit => LayersTypeOK /\ LayersInv
<1> SUFFICES ASSUME LayersInit
             PROVE  LayersTypeOK /\ LayersInv
  OBVIOUS
<1>1. LayersTypeOK
  BY LayersAssumption DEF LayersInit, LayersTypeOK, XeroRecord, Versions
<1>2. \A r \in Readers : reads[r] = NoRead
  BY DEF LayersInit
<1>3. TimesInv /\ FilterInv /\ PagesInv
  BY <1>2 DEF LayersInit, TimesInv, FilterInv, PagesInv
<1>4. FreshInv /\ ClaimsInv
  BY <1>2 DEF LayersInit, FreshInv, ClaimsInv
<1>. QED
  BY <1>1, <1>3, <1>4 DEF LayersInv

(* They hold in every reachable state.                                     *)
LEMMA LayersInvariant == LayersSpec => [](LayersTypeOK /\ LayersInv)
<1>1. LayersTypeOK /\ LayersInv /\ [LayersNext]_layerVars
        => (LayersTypeOK /\ LayersInv)'
  BY NextLayersTypes, NextTimes, NextFilter, NextFresh, NextPages, NextClaims
     DEF LayersInv
<1>. QED
  BY <1>1, InitLayers, PTL DEF LayersSpec

(* Types, in every reachable state.                                        *)
THEOREM LayersTypes == LayersSpec => []LayersTypeOK
BY LayersInvariant, PTL

(* A record with a capture after time t has a latest one, and every latest *)
(* one was taken after t and is that fresh.                                *)
LEMMA LatestStored ==
  ASSUME LayersTypeOK, LayersInv, NEW x \in Records, NEW t \in Nat,
         StoredAfter(x, t)
  PROVE  /\ Latest(x) # {}
         /\ \A c \in Latest(x) :
              /\ c.version \in Versions
              /\ xero[x].modified <= t => c.version >= xero[x].bumped
              /\ xero[x].touched <= t => c.version = xero[x].version
<1> DEFINE Ages == {now - c.synced_at : c \in {d \in bucket : d.record = x}}
<1>1. PICK d \in bucket : d.record = x /\ t < d.synced_at
  BY DEF StoredAfter
<1>2. /\ now \in Nat
      /\ \A c \in bucket : /\ c.synced_at \in Nat /\ c.synced_at <= now
                           /\ c.version \in Versions
  BY DEF LayersTypeOK, Captures
<1>3. Latest(x) # {}
  <2>1. Ages \in SUBSET Nat /\ Ages # {}
    BY <1>1, <1>2
  <2>2. PICK n \in Ages : \A m \in Ages : n <= m
    <3> HIDE DEF Ages
    <3>. QED
      BY <2>1, LeastNatural
  <2>3. PICK c \in bucket : c.record = x /\ n = now - c.synced_at
    BY <2>2
  <2>4. ASSUME NEW e \in bucket, e.record = x
        PROVE  e.synced_at <= c.synced_at
    <3>1. n <= now - e.synced_at
      BY <2>2, <2>4
    <3>. QED
      BY <1>2, <2>3, <3>1
  <2>. QED
    BY <2>3, <2>4 DEF Latest
<1>4. ASSUME NEW c \in Latest(x)
      PROVE  /\ c.version \in Versions
             /\ xero[x].modified <= t => c.version >= xero[x].bumped
             /\ xero[x].touched <= t => c.version = xero[x].version
  <2>1. c \in bucket /\ c.record = x /\ d.synced_at <= c.synced_at
    BY <1>1 DEF Latest
  <2>2. Fresh(x, c.version, c.synced_at)
    BY <2>1 DEF LayersInv, FreshInv
  <2>3. t < c.synced_at
    BY <1>1, <1>2, <2>1
  <2>4. /\ xero[x].modified <= t => xero[x].modified < c.synced_at
        /\ xero[x].touched <= t => xero[x].touched < c.synced_at
    BY <1>2, <2>1, <2>3, RecordType
  <2>. QED
    BY <1>2, <2>1, <2>2, <2>4 DEF Fresh
<1>. QED
  BY <1>3, <1>4

(* Whatever is claimed of a layer is in the latest capture, which was      *)
(* taken later than the record's change.                                   *)
LEMMA ClaimsMet ==
  ASSUME LayersTypeOK, LayersInv
  PROVE  NoChangeMissed /\ SweepRepairs /\ RollingRepairs
<1>1. ASSUME NEW x \in Records, xero[x].modified < covered
      PROVE  LatestIs(x, xero[x].bumped..MaxVersion)
  <2>1. /\ Latest(x) # {}
        /\ \A c \in Latest(x) : /\ c.version \in Versions
                                /\ c.version >= xero[x].bumped
    BY <1>1, LatestStored, RecordType DEF LayersInv, ClaimsInv
  <2>. QED
    BY <2>1, RecordType, LayersAssumption DEF LatestIs, Versions
<1>2. ASSUME NEW x \in Records, StoredAfter(x, xero[x].touched)
      PROVE  LatestIs(x, {xero[x].version})
  <2>1. /\ Latest(x) # {}
        /\ \A c \in Latest(x) : c.version = xero[x].version
    BY <1>2, LatestStored, RecordType
  <2>. QED
    BY <2>1 DEF LatestIs
<1>3. NoChangeMissed
  BY <1>1 DEF NoChangeMissed
<1>4. SweepRepairs
  BY <1>2 DEF LayersInv, ClaimsInv, SweepRepairs
<1>5. RollingRepairs
  BY <1>2 DEF LayersInv, ClaimsInv, RollingRepairs
<1>. QED
  BY <1>3, <1>4, <1>5

(* While undisturbed incremental reads follow each other within the        *)
(* window, no change that moves UpdatedDateUTC before the last of them is  *)
(* missing from the latest capture in the bucket, however reads of all     *)
(* layers overlap, fail with some of their pages uploaded and finish out   *)
(* of order.                                                               *)
THEOREM IncrementalComplete == LayersSpec => []NoChangeMissed
BY LayersInvariant, ClaimsMet, PTL

(* After an undisturbed open-sweep the latest capture of every record      *)
(* still open and unchanged since is the record, whatever older captures   *)
(* are uploaded afterwards.                                                *)
THEOREM SweepComplete == LayersSpec => []SweepRepairs
BY LayersInvariant, ClaimsMet, PTL

(* After an undisturbed rolling-full read over a record's date the latest  *)
(* capture of it is the record, while it stays unchanged.                  *)
THEOREM RollingComplete == LayersSpec => []RollingRepairs
BY LayersInvariant, ClaimsMet, PTL
============================================================================

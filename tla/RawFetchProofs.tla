--------------------------- MODULE RawFetchProofs --------------------------
(* What the pagination loops return, for every cut of Xero's data into     *)
(* pages, every cap and every sequence of additions and faults.            *)
EXTENDS RawFetch, FiniteSetTheorems, SequenceTheorems, WellFoundedInduction,
        TLAPS

AllRecords == 1..MaxRecord

(* Every set of numbers that is not empty has a least one.                 *)
LEMMA LeastNumber ==
  ASSUME NEW S \in SUBSET Nat, S # {}
  PROVE  \E x \in S : \A y \in S : x <= y
<1> DEFINE less == OpToRel(<, Nat)
<1>1. IsWellFoundedOn(less, Nat)
  BY NatLessThanWellFounded
<1>2. \A x, y \in Nat : <<y, x>> \in less <=> y < x
  BY DEF OpToRel
<1> HIDE DEF less
<1>3. PICK x \in S : \A y \in S : ~(<<y, x>> \in less)
  BY <1>1, WFMin
<1>4. \A y \in S : ~(y < x)
  BY <1>2, <1>3
<1>. QED
  BY <1>4

(* A set of records that is not empty has a greatest.                      *)
LEMMA MaxOfRecords ==
  ASSUME NEW S \in SUBSET AllRecords, S # {}
  PROVE  Max(S) \in S /\ \A m \in S : Max(S) >= m
<1> DEFINE distances == {MaxRecord - m : m \in S}
<1>1. distances \in SUBSET Nat /\ distances # {}
  <2>1. \A m \in S : MaxRecord - m \in Nat
    BY RawFetchAssumption DEF AllRecords
  <2>2. PICK m \in S : TRUE
    OBVIOUS
  <2>3. MaxRecord - m \in distances
    OBVIOUS
  <2>. QED
    BY <2>1, <2>3
<1>2. PICK d \in distances : \A e \in distances : d <= e
  BY <1>1, LeastNumber
<1>3. PICK x \in S : d = MaxRecord - x
  BY <1>2
<1>4. \A m \in S : x >= m
  <2> SUFFICES ASSUME NEW m \in S PROVE x >= m
    OBVIOUS
  <2>1. d <= MaxRecord - m
    BY <1>2
  <2>. QED
    BY <1>3, <2>1, RawFetchAssumption DEF AllRecords
<1>. QED
  BY <1>4 DEF Max

(* The records of a sequence of pages are those of its elements.           *)
LEMMA RecordsOf ==
  ASSUME NEW seq \in Seq(SUBSET AllRecords)
  PROVE  /\ Records(seq) \subseteq AllRecords
         /\ \A n : n \in Records(seq) <=> \E i \in 1..Len(seq) : n \in seq[i]
  BY DEF Records, ToSet

(* One page more.                                                          *)
LEMMA OnePageMore ==
  ASSUME NEW seq \in Seq(SUBSET AllRecords), NEW S \in SUBSET AllRecords
  PROVE  /\ Append(seq, S) \in Seq(SUBSET AllRecords)
         /\ Len(Append(seq, S)) = Len(seq) + 1
         /\ \A i \in 1..Len(seq) : Append(seq, S)[i] = seq[i]
         /\ Append(seq, S)[Len(seq) + 1] = S
         /\ Records(Append(seq, S)) = Records(seq) \cup S
<1>1. /\ Append(seq, S) \in Seq(SUBSET AllRecords)
      /\ Len(Append(seq, S)) = Len(seq) + 1
      /\ \A i \in 1..Len(seq) : Append(seq, S)[i] = seq[i]
      /\ Append(seq, S)[Len(seq) + 1] = S
  BY AppendProperties
<1>2. \A n : n \in Records(Append(seq, S)) <=>
               \E i \in 1..(Len(seq) + 1) : n \in Append(seq, S)[i]
  BY <1>1, RecordsOf
<1>3. Len(seq) \in Nat
  BY LenProperties
<1>4. ASSUME NEW n \in Records(Append(seq, S))
      PROVE  n \in Records(seq) \cup S
  <2>1. PICK i \in 1..(Len(seq) + 1) : n \in Append(seq, S)[i]
    BY <1>2, <1>4
  <2>2. CASE i = Len(seq) + 1
    BY <1>1, <2>1, <2>2
  <2>3. CASE i # Len(seq) + 1
    <3>1. i \in 1..Len(seq)
      BY <1>3, <2>3
    <3>. QED
      BY <1>1, <2>1, <3>1, RecordsOf
  <2>. QED
    BY <2>2, <2>3
<1>5. ASSUME NEW n \in Records(seq)
      PROVE  n \in Records(Append(seq, S))
  <2>1. PICK i \in 1..Len(seq) : n \in seq[i]
    BY <1>5, RecordsOf
  <2>2. i \in 1..(Len(seq) + 1) /\ n \in Append(seq, S)[i]
    BY <1>1, <1>3, <2>1
  <2>. QED
    BY <1>2, <2>2
<1>6. ASSUME NEW n \in S
      PROVE  n \in Records(Append(seq, S))
  BY <1>1, <1>2, <1>3, <1>6
<1>. QED
  BY <1>1, <1>4, <1>5, <1>6
----------------------------------------------------------------------------
(* The inductive invariant.  The types, with what Xero ensures of its data *)
(* and keeps ensuring while records are added.                             *)
Shape ==
  /\ path \in Paths
  /\ remote \in Seq(SUBSET AllRecords)
  /\ \A i \in 1..Len(remote) : remote[i] # {}
  /\ \A i, j \in 1..Len(remote) : i # j => remote[i] \cap remote[j] = {}
  /\ present \subseteq Records(remote)
  /\ pages \in Seq(SUBSET AllRecords)
  /\ Records(pages) \subseteq Records(remote)
  /\ page \in 1..(MaxPages + 1)
  /\ offset \in 0..MaxRecord
  /\ ended \in {"no", "error", "single_page", "ended_on_empty_page",
                "hit_max_pages_cap", "offset_not_advancing"}
  /\ misread \in BOOLEAN

(* While the loop runs, page counts the pages, none of them empty; the page*)
(* loop has two ends.                                                      *)
Counted ==
  /\ path = "page" => ended \notin {"single_page", "offset_not_advancing"}
  /\ Len(pages) <= MaxPages
  /\ ended \in {"no", "hit_max_pages_cap"} =>
       page = Len(pages) + 1 /\ \A i \in 1..Len(pages) : pages[i] # {}
  /\ ended = "hit_max_pages_cap" => page > MaxPages
  /\ ended = "no" /\ path = "single" => pages = <<>>

(* What the page loop fetched is of the page it asked for, and no record   *)
(* of the beginning was left on it.                                        *)
PagesFetched ==
  path = "page" =>
    /\ \A i \in 1..Len(pages) :
         pages[i] # {} => i \in 1..Len(remote) /\ pages[i] \subseteq remote[i]
    /\ ended = "no" =>
         \A i \in 1..Len(pages) : i \in 1..Len(remote) =>
           remote[i] \cap present \subseteq pages[i]

(* The offset loop has what was there up to its offset, and nothing above. *)
OffsetFetched ==
  path = "offset" /\ ended = "no" =>
    /\ \A n \in Records(pages) : n <= offset
    /\ \A n \in present : n <= offset => n \in Records(pages)

(* The steps of a fetch: it stops at the cap, it fails, or it captures a   *)
(* page and then goes on or stops.                                         *)
Stays == UNCHANGED <<path, remote, present>>

Capped ==
  /\ ended = "no" /\ page > MaxPages
  /\ ended' = "hit_max_pages_cap"
  /\ UNCHANGED <<page, offset, pages, misread>>

Failed ==
  /\ ended' = "error"
  /\ pages' = <<>>
  /\ UNCHANGED <<page, offset, misread>>

GoesOn(records, next) ==
  /\ path # "single" /\ records # {}
  /\ ended' = "no"
  /\ page' = page + 1
  /\ \/ path = "page" /\ offset' = offset
     \/ path = "offset" /\ next > offset /\ offset' = next

Stops(records) ==
  /\ UNCHANGED <<page, offset>>
  /\ \/ path = "single" /\ ended' = "single_page"
     \/ path # "single" /\ records = {} /\ ended' = "ended_on_empty_page"
     \/ path = "offset" /\ ended' = "offset_not_advancing"

Captured(records) ==
  /\ ended = "no" /\ page <= MaxPages
  /\ records \in Answers \/ (misread' /\ records = {})
  /\ misread' \in BOOLEAN
  /\ pages' = Append(pages, records)
  /\ \/ Stops(records)
     \/ \E next \in {offset, NextOffset(records)} : GoesOn(records, next)

(* Consume() captures.                                                     *)
LEMMA ConsumeCaptures ==
  ASSUME Shape, Requesting,
         NEW records \in SUBSET AllRecords,
         records \in Answers \/ records = {},
         NEW next \in {offset, NextOffset(records)}, Consume(records, next)
  PROVE  Stays /\ Captured(records)
<1>1. page <= MaxPages
  BY RawFetchAssumption DEF Shape, Requesting, CapReached
<1>2. next \in Nat /\ offset \in Nat
  <2>1. offset \in Nat
    BY RawFetchAssumption DEF Shape
  <2>2. CASE records = {}
    BY <2>1, <2>2 DEF NextOffset
  <2>3. CASE records # {}
    BY <2>1, <2>3, MaxOfRecords, RawFetchAssumption DEF NextOffset, AllRecords
  <2>. QED
    BY <2>2, <2>3
<1>3. /\ Stays /\ pages' = Append(pages, records)
      /\ misread' \in BOOLEAN
      /\ records \in Answers \/ (misread' /\ records = {})
  BY DEF Consume, Stays
<1>4. Stops(records) \/ GoesOn(records, next)
  <2>1. CASE path = "single"
    BY <2>1 DEF Consume, Stops
  <2>2. CASE path # "single" /\ records = {}
    BY <2>2 DEF Consume, Stops, StopAfter
  <2>3. CASE path # "single" /\ records # {}
    BY <1>2, <2>3, RawFetchAssumption
       DEF Consume, Stops, GoesOn, StopAfter, StopAtOffset, Requesting, Shape
  <2>. QED
    BY <2>1, <2>2, <2>3
<1>. QED
  BY <1>1, <1>3, <1>4 DEF Captured, Requesting

(* What Xero answers to each loop.                                         *)
LEMMA AnswersAre ==
  ASSUME Shape, NEW records \in Answers
  PROVE  /\ records \in SUBSET Records(remote)
         /\ path = "single" => records = Records(remote)
         /\ path = "page" =>
              records = IF page <= Len(remote) THEN remote[page] ELSE {}
         /\ path = "offset" =>
              /\ \A n \in records : n > offset
              /\ records = {} => \A n \in Records(remote) : n <= offset
              /\ \A m \in Records(remote), n \in records :
                   m > offset /\ m < n => m \in records
<1>1. Records(remote) \subseteq AllRecords /\ AllRecords \subseteq Nat
  BY RecordsOf DEF Shape, AllRecords
<1>2. path \in {"single", "page", "offset"}
  BY RawFetchAssumption DEF Shape
<1>3. CASE path = "single"
  BY <1>3 DEF Answers
<1>4. CASE path = "page"
  <2>1. records = IF page <= Len(remote) THEN remote[page] ELSE {}
    BY <1>4 DEF Answers
  <2>2. ASSUME page <= Len(remote)
        PROVE  remote[page] \subseteq Records(remote)
    <3>1. page \in 1..Len(remote)
      BY <2>2 DEF Shape
    <3>. QED
      BY <3>1, RecordsOf DEF Shape
  <2>. QED
    BY <1>4, <2>1, <2>2
<1>5. CASE path = "offset"
  <2> DEFINE after == {n \in Records(remote) : n > offset}
  <2>1. /\ after = {} => records = {}
        /\ after # {} => \E k \in 1..PageSize : records = FirstOf(k, after)
    BY <1>5 DEF Answers
  <2>2. after \in SUBSET Nat /\ IsFiniteSet(after)
    <3>1. IsFiniteSet(AllRecords)
      BY FS_Interval, RawFetchAssumption DEF AllRecords
    <3>. QED
      BY <1>1, <3>1, FS_Subset
  <2>3. \A n \in Records(remote) : n > offset <=> n \in after
    OBVIOUS
  <2> HIDE DEF after
  <2>4. CASE after = {}
    <3>1. \A n \in Records(remote) : ~(n > offset)
      BY <2>3, <2>4
    <3>2. offset \in Nat
      BY RawFetchAssumption DEF Shape
    <3>3. \A n \in Records(remote) : n <= offset
      <4>1. \A n \in Records(remote) : n \in Nat
        BY <1>1
      <4>. QED
        BY <3>1, <3>2, <4>1
    <3>4. records = {}
      BY <2>1, <2>4
    <3>. QED
      BY <1>5, <3>3, <3>4
  <2>5. CASE after # {}
    <3>1. PICK k \in 1..PageSize : records = FirstOf(k, after)
      BY <2>1, <2>5
    <3> DEFINE below(n) == {m \in after : m < n}
    <3>2. records = {n \in after : Cardinality(below(n)) < k}
      BY <3>1 DEF FirstOf
    <3>3. \A n \in after : IsFiniteSet(below(n)) /\ Cardinality(below(n)) \in Nat
      BY <2>2, FS_Subset, FS_CardinalityType
    <3>4. PICK least \in after : \A n \in after : least <= n
      BY <2>2, <2>5, LeastNumber
    <3>5. below(least) = {}
      <4>1. \A n \in after : ~(n < least)
        BY <2>2, <3>4
      <4>. QED
        BY <4>1
    <3>6. least \in records
      BY <3>1, <3>2, <3>4, <3>5, FS_EmptySet, RawFetchAssumption
    <3>7. ASSUME NEW m \in after, NEW n \in records, m < n
          PROVE  m \in records
      <4>1. n \in after /\ Cardinality(below(n)) < k
        BY <3>2
      <4>2. below(m) \subseteq below(n)
        <5>1. \A x \in after : x < m => x < n
          BY <2>2, <3>7, <4>1
        <5>. QED
          BY <5>1
      <4>3. Cardinality(below(m)) <= Cardinality(below(n))
        BY <3>3, <4>1, <4>2, FS_Subset
      <4>4. /\ Cardinality(below(m)) \in Nat /\ Cardinality(below(n)) \in Nat
            /\ k \in Nat
        BY <3>3, <4>1
      <4>5. Cardinality(below(m)) < k
        BY <4>1, <4>3, <4>4
      <4>. QED
        BY <3>2, <4>5
    <3> HIDE DEF below
    <3>8. records \subseteq after /\ after \subseteq Records(remote)
      BY <3>2 DEF after
    <3>9. \A n \in records : n > offset
      BY <2>3, <3>8
    <3>. QED
      BY <1>5, <2>3, <3>6, <3>7, <3>8, <3>9
  <2>. QED
    BY <2>4, <2>5
<1>. QED
  BY <1>2, <1>3, <1>4, <1>5
----------------------------------------------------------------------------
(* Every step of a fetch is one of the three.                              *)
LEMMA FetchShape ==
  ASSUME Shape, Fetch
  PROVE  /\ Stays
         /\ \/ Capped
            \/ Failed
            \/ \E records \in SUBSET AllRecords : Captured(records)
<1>1. CASE HitMaxPagesCap
  <2>1. page > MaxPages
    BY <1>1 DEF HitMaxPagesCap, CapReached
  <2>. QED
    BY <1>1, <2>1 DEF HitMaxPagesCap, Capped, Stays
<1>2. ASSUME Fail
      PROVE  Stays /\ Failed
  BY <1>2 DEF Fail, Failed, Stays
<1>3. Records(remote) \subseteq AllRecords
  BY RecordsOf DEF Shape
<1>4. CASE FetchPage
  <2>1. PICK records \in Answers : Consume(records, NextOffset(records))
    BY <1>4 DEF FetchPage
  <2>2. records \in SUBSET AllRecords
    BY <1>3, AnswersAre
  <2>3. Requesting
    BY <1>4 DEF FetchPage
  <2>4. NextOffset(records) \in {offset, NextOffset(records)}
    OBVIOUS
  <2>. QED
    BY <2>1, <2>2, <2>3, <2>4, ConsumeCaptures
<1>5. CASE FetchNotJson
  <2>1. Requesting
    BY <1>5 DEF FetchNotJson
  <2>2. CASE ~Raw
    BY <1>2, <1>5, <2>2 DEF FetchNotJson
  <2>3. CASE Raw
    <3>1. Consume({}, offset)
      BY <1>5, <2>3 DEF FetchNotJson
    <3>2. {} \in SUBSET AllRecords /\ offset \in {offset, NextOffset({})}
      OBVIOUS
    <3>. QED
      BY <2>1, <3>1, <3>2, ConsumeCaptures
  <2>. QED
    BY <2>2, <2>3
<1>6. CASE FetchUnnumbered
  <2>1. PICK records \in Answers \ {{}} : Consume(records, offset)
    BY <1>6 DEF FetchUnnumbered
  <2>2. records \in Answers /\ records \in SUBSET AllRecords
    BY <1>3, <2>1, AnswersAre
  <2>3. Requesting
    BY <1>6 DEF FetchUnnumbered
  <2>4. offset \in {offset, NextOffset(records)}
    OBVIOUS
  <2>. QED
    BY <2>1, <2>2, <2>3, <2>4, ConsumeCaptures
<1>7. CASE FetchNotModified
  <2>1. Requesting /\ Records(remote) = {} /\ Consume({}, offset)
    BY <1>7 DEF FetchNotModified
  <2>2. {} \in Answers
    <3>1. path \in {"single", "page", "offset"}
      BY RawFetchAssumption DEF Shape
    <3>2. CASE path = "single"
      BY <2>1, <3>2 DEF Answers
    <3>3. CASE path = "page"
      <4>1. remote \in Seq(SUBSET AllRecords)
        BY DEF Shape
      <4>2. \A n : \A i \in 1..Len(remote) : n \notin remote[i]
        BY <2>1, <4>1, RecordsOf
      <4>3. \A i \in 1..Len(remote) : remote[i] # {}
        BY DEF Shape
      <4>4. ~(1 <= Len(remote))
        BY <4>1, <4>2, <4>3, LenProperties
      <4>5. ~(page <= Len(remote))
        BY <4>1, <4>4, LenProperties DEF Shape
      <4>. QED
        BY <3>3, <4>5 DEF Answers
    <3>4. CASE path = "offset"
      BY <2>1, <3>4 DEF Answers
    <3>. QED
      BY <3>1, <3>2, <3>3, <3>4
  <2>3. {} \in SUBSET AllRecords /\ offset \in {offset, NextOffset({})}
    OBVIOUS
  <2>. QED
    BY <2>1, <2>2, <2>3, ConsumeCaptures
<1>8. CASE FetchPastEnd
  BY <1>2, <1>8 DEF FetchPastEnd
<1>9. CASE FetchFails
  BY <1>2, <1>9 DEF FetchFails
<1>10. CASE FetchNoArray
  <2>1. Requesting /\ Consume({}, offset)
    BY <1>10 DEF FetchNoArray
  <2>2. {} \in SUBSET AllRecords /\ offset \in {offset, NextOffset({})}
    OBVIOUS
  <2>. QED
    BY <2>1, <2>2, ConsumeCaptures
<1>. QED
  BY <1>1, <1>4, <1>5, <1>6, <1>7, <1>8, <1>9, <1>10 DEF Fetch

(* A record is added: the pages stay apart and grow by that record only.   *)
Added(n) ==
  /\ remote' \in Seq(SUBSET AllRecords)
  /\ Len(remote) <= Len(remote')
  /\ n \notin Records(remote)
  /\ \A i \in 1..Len(remote') : remote'[i] # {}
  /\ \A i, j \in 1..Len(remote') : i # j => remote'[i] \cap remote'[j] = {}
  /\ \A i \in 1..Len(remote') :
       i \notin 1..Len(remote) => remote'[i] = {n}
  /\ \A i \in 1..Len(remote) :
       remote[i] \subseteq remote'[i] /\ remote'[i] \subseteq remote[i] \cup {n}

LEMMA AddedShape ==
  ASSUME Shape, RecordAdded
  PROVE  /\ ended = "no"
         /\ UNCHANGED <<path, present, page, offset, pages, ended, misread>>
         /\ \E n : Added(n)
<1>1. /\ ended = "no"
      /\ UNCHANGED <<path, present, page, offset, pages, ended, misread>>
  BY DEF RecordAdded
<1>2. PICK n \in AllRecords :
        /\ \A m \in Records(remote) : n > m
        /\ remote' =
             IF remote # <<>> /\ Cardinality(Last(remote)) < PageSize
             THEN [remote EXCEPT ![Len(remote)] = @ \cup {n}]
             ELSE Append(remote, {n})
  BY DEF RecordAdded, AllRecords
<1>3. remote \in Seq(SUBSET AllRecords) /\ Len(remote) \in Nat
  BY LenProperties DEF Shape
<1>4. n \notin Records(remote)
  <2>1. ~(n > n)
    BY DEF AllRecords
  <2>. QED
    BY <1>2, <2>1
<1>5. \A i \in 1..Len(remote) : n \notin remote[i]
  BY <1>3, <1>4, RecordsOf
<1>6. CASE remote' = Append(remote, {n})
  <2>1. /\ remote' \in Seq(SUBSET AllRecords)
        /\ Len(remote') = Len(remote) + 1
        /\ \A i \in 1..Len(remote) : remote'[i] = remote[i]
        /\ remote'[Len(remote) + 1] = {n}
    BY <1>3, <1>6, AppendProperties
  <2>2. \A i \in 1..Len(remote') : i \in 1..Len(remote) \/ i = Len(remote) + 1
    BY <1>3, <2>1
  <2>3. \A i \in 1..Len(remote') : remote'[i] # {}
    BY <2>1, <2>2 DEF Shape
  <2>4. \A i, j \in 1..Len(remote') : i # j => remote'[i] \cap remote'[j] = {}
    BY <1>5, <2>1, <2>2 DEF Shape
  <2>5. \A i \in 1..Len(remote') : i \notin 1..Len(remote) => remote'[i] = {n}
    BY <2>1, <2>2
  <2>6. Len(remote) <= Len(remote')
    BY <1>3, <2>1
  <2>. QED
    BY <1>1, <1>4, <2>1, <2>3, <2>4, <2>5, <2>6 DEF Added
<1>7. CASE remote # <<>> /\ remote' = [remote EXCEPT ![Len(remote)] = @ \cup {n}]
  <2>1. Len(remote) \in 1..Len(remote)
    BY <1>3, <1>7, EmptySeq
  <2>2. /\ remote' \in Seq(SUBSET AllRecords)
        /\ Len(remote') = Len(remote)
        /\ \A i \in 1..Len(remote) :
             remote'[i] = IF i = Len(remote) THEN remote[i] \cup {n}
                                             ELSE remote[i]
    <3>1. remote[Len(remote)] \in SUBSET AllRecords
      BY <1>3, <2>1, ElementOfSeq
    <3>2. remote[Len(remote)] \cup {n} \in SUBSET AllRecords
      BY <3>1
    <3> DEFINE wider == remote[Len(remote)] \cup {n}
    <3>3. remote' = [remote EXCEPT ![Len(remote)] = wider]
      BY <1>7
    <3> HIDE DEF wider
    <3>4. /\ remote' \in Seq(SUBSET AllRecords)
          /\ Len(remote') = Len(remote)
          /\ \A i \in 1..Len(remote) :
               remote'[i] = IF i = Len(remote) THEN wider ELSE remote[i]
      BY <1>3, <2>1, <3>2, <3>3, ExceptSeq DEF wider
    <3>. QED
      BY <3>4 DEF wider
  <2>3. \A i \in 1..Len(remote') : remote'[i] # {}
    BY <2>2 DEF Shape
  <2>4. \A i, j \in 1..Len(remote') : i # j => remote'[i] \cap remote'[j] = {}
    <3> SUFFICES ASSUME NEW i \in 1..Len(remote), NEW j \in 1..Len(remote), i # j
                 PROVE  remote'[i] \cap remote'[j] = {}
      BY <2>2
    <3>1. remote[i] \cap remote[j] = {}
      BY DEF Shape
    <3>2. n \notin remote[i] /\ n \notin remote[j]
      BY <1>5
    <3>. QED
      BY <2>2, <3>1, <3>2
  <2>5. \A i \in 1..Len(remote) :
          remote[i] \subseteq remote'[i] /\ remote'[i] \subseteq remote[i] \cup {n}
    BY <2>2
  <2>6. Len(remote) <= Len(remote')
    BY <1>3, <2>2
  <2>. QED
    BY <1>1, <1>4, <2>2, <2>3, <2>4, <2>5, <2>6 DEF Added
<1>. QED
  BY <1>2, <1>6, <1>7
----------------------------------------------------------------------------
(* Nothing Xero holds goes away while a record is added.                   *)
LEMMA AddedKeeps ==
  ASSUME Shape, NEW n, Added(n)
  PROVE  /\ Records(remote) \subseteq Records(remote')
         /\ present \subseteq Records(remote)
<1>1. ASSUME NEW m \in Records(remote)
      PROVE  m \in Records(remote')
  <2>1. PICK i \in 1..Len(remote) : m \in remote[i]
    BY <1>1, RecordsOf DEF Shape
  <2>2. remote' \in Seq(SUBSET AllRecords) /\ m \in remote'[i]
    BY <2>1 DEF Added
  <2>3. i \in 1..Len(remote')
    <3>1. Len(remote) \in Nat /\ Len(remote') \in Nat
      BY <2>2, LenProperties DEF Shape
    <3>. QED
      BY <3>1 DEF Added
  <2>. QED
    BY <2>2, <2>3, RecordsOf
<1>. QED
  BY <1>1 DEF Shape

(* A captured page joins the others.                                       *)
LEMMA CapturedPages ==
  ASSUME Shape, NEW records \in SUBSET AllRecords, Captured(records)
  PROVE  /\ pages' \in Seq(SUBSET AllRecords)
         /\ Len(pages) \in Nat
         /\ Len(pages') = Len(pages) + 1
         /\ \A i \in 1..Len(pages) : pages'[i] = pages[i]
         /\ pages'[Len(pages) + 1] = records
         /\ Records(pages') = Records(pages) \cup records
         /\ records \in SUBSET Records(remote)
<1>1. pages \in Seq(SUBSET AllRecords) /\ pages' = Append(pages, records)
  BY DEF Shape, Captured
<1>2. records \in SUBSET Records(remote)
  BY AnswersAre DEF Captured
<1>. QED
  BY <1>1, <1>2, OnePageMore, LenProperties

(* Every step keeps the types.                                             *)
LEMMA NextShape == Shape /\ [RawFetchNext]_fetchVars => Shape'
<1> SUFFICES ASSUME Shape, [RawFetchNext]_fetchVars
             PROVE  Shape'
  OBVIOUS
<1>1. CASE UNCHANGED fetchVars
  BY <1>1 DEF fetchVars, Shape
<1>2. CASE RecordAdded
  <2>1. PICK n : Added(n)
    BY <1>2, AddedShape
  <2>2. UNCHANGED <<path, present, page, offset, pages, ended, misread>>
    BY <1>2, AddedShape
  <2>3. Records(remote) \subseteq Records(remote')
    BY <2>1, AddedKeeps
  <2>. QED
    BY <2>1, <2>2, <2>3 DEF Added, Shape
<1>3. CASE Fetch
  <2>1. UNCHANGED <<path, remote, present>>
    BY <1>3, FetchShape DEF Stays
  <2>2. CASE Capped
    BY <2>1, <2>2 DEF Capped, Shape
  <2>3. CASE Failed
    <3>1. <<>> \in Seq(SUBSET AllRecords) /\ Records(<<>>) = {}
      BY DEF Records, ToSet
    <3>. QED
      BY <2>1, <2>3, <3>1 DEF Failed, Shape
  <2>4. ASSUME NEW records \in SUBSET AllRecords, Captured(records)
        PROVE  Shape'
    <3>1. /\ pages' \in Seq(SUBSET AllRecords)
          /\ Records(pages') \subseteq Records(remote')
      BY <2>1, <2>4, CapturedPages DEF Shape
    <3>2. misread' \in BOOLEAN
      BY <2>4 DEF Captured
    <3>3. CASE Stops(records)
      BY <2>1, <3>1, <3>2, <3>3 DEF Stops, Shape
    <3>4. ASSUME NEW next \in {offset, NextOffset(records)},
                 GoesOn(records, next)
          PROVE  Shape'
      <4>1. page' \in 1..(MaxPages + 1)
        BY <2>4, <3>4, RawFetchAssumption DEF Captured, GoesOn, Shape
      <4>2. NextOffset(records) \in 0..MaxRecord
        <5>1. records # {}
          BY <3>4 DEF GoesOn
        <5>2. Max(records) \in AllRecords
          BY <5>1, MaxOfRecords
        <5>3. Max(records) \in 0..MaxRecord
          BY <5>2, RawFetchAssumption DEF AllRecords
        <5>. QED
          BY <5>1, <5>3 DEF NextOffset
      <4>3. offset' \in 0..MaxRecord
        BY <3>4, <4>2 DEF GoesOn, Shape
      <4>. QED
        BY <2>1, <3>1, <3>2, <3>4, <4>1, <4>3 DEF GoesOn, Shape
    <3>. QED
      BY <2>4, <3>3, <3>4 DEF Captured
  <2>. QED
    BY <1>3, <2>2, <2>3, <2>4, FetchShape
<1>. QED
  BY <1>1, <1>2, <1>3 DEF RawFetchNext

(* Every step keeps count of the pages.                                    *)
LEMMA NextCounted ==
  Shape /\ Counted /\ [RawFetchNext]_fetchVars => Counted'
<1> SUFFICES ASSUME Shape, Counted, [RawFetchNext]_fetchVars
             PROVE  Counted'
  OBVIOUS
<1>1. CASE UNCHANGED fetchVars
  BY <1>1 DEF fetchVars, Counted
<1>2. CASE RecordAdded
  BY <1>2, AddedShape DEF Counted
<1>3. CASE Fetch
  <2>1. UNCHANGED <<path, remote, present>>
    BY <1>3, FetchShape DEF Stays
  <2>2. CASE Capped
    BY <2>1, <2>2 DEF Capped, Counted
  <2>3. CASE Failed
    <3>1. Len(<<>>) = 0
      OBVIOUS
    <3>. QED
      BY <2>1, <2>3, <3>1, RawFetchAssumption DEF Failed, Counted
  <2>4. ASSUME NEW records \in SUBSET AllRecords, Captured(records)
        PROVE  Counted'
    <3>1. /\ Len(pages) \in Nat
          /\ Len(pages') = Len(pages) + 1
          /\ \A i \in 1..Len(pages) : pages'[i] = pages[i]
          /\ pages'[Len(pages) + 1] = records
      BY <2>4, CapturedPages
    <3>2. /\ page = Len(pages) + 1 /\ page <= MaxPages
          /\ \A i \in 1..Len(pages) : pages[i] # {}
      BY <2>4 DEF Captured, Counted
    <3>3. Len(pages') <= MaxPages
      BY <3>1, <3>2
    <3>4. CASE Stops(records)
      BY <2>1, <3>3, <3>4 DEF Stops, Counted
    <3>5. ASSUME NEW next \in {offset, NextOffset(records)},
                 GoesOn(records, next)
          PROVE  Counted'
      <4>1. page' = Len(pages') + 1
        BY <3>1, <3>2, <3>5 DEF GoesOn
      <4>2. \A i \in 1..Len(pages') : i \in 1..Len(pages) \/ i = Len(pages) + 1
        BY <3>1
      <4>3. \A i \in 1..Len(pages') : pages'[i] # {}
        BY <3>1, <3>2, <3>5, <4>2 DEF GoesOn
      <4>. QED
        BY <2>1, <3>3, <3>5, <4>1, <4>3 DEF GoesOn, Counted
    <3>. QED
      BY <2>4, <3>4, <3>5 DEF Captured
  <2>. QED
    BY <1>3, <2>2, <2>3, <2>4, FetchShape
<1>. QED
  BY <1>1, <1>2, <1>3 DEF RawFetchNext
----------------------------------------------------------------------------
(* What the page loop captures is the page it asked for.                   *)
LEMMA NextPagesFetched ==
  Shape /\ Counted /\ PagesFetched /\ [RawFetchNext]_fetchVars
    => PagesFetched'
<1> SUFFICES ASSUME Shape, Counted, PagesFetched, [RawFetchNext]_fetchVars,
                    path' = "page"
             PROVE  PagesFetched'
  BY DEF PagesFetched
<1>1. CASE UNCHANGED fetchVars
  BY <1>1 DEF fetchVars, PagesFetched
<1>2. CASE RecordAdded
  <2>1. PICK n : Added(n)
    BY <1>2, AddedShape
  <2>2. UNCHANGED <<path, present, page, offset, pages, ended, misread>>
    BY <1>2, AddedShape
  <2>3. n \notin present
    BY <2>1 DEF Added, Shape
  <2>4. 1..Len(remote) \subseteq 1..Len(remote')
    <3>1. Len(remote) \in Nat /\ Len(remote') \in Nat
      BY <2>1, LenProperties DEF Added, Shape
    <3>. QED
      BY <2>1, <3>1 DEF Added
  <2>5. ASSUME NEW i \in 1..Len(pages), pages[i] # {}
        PROVE  i \in 1..Len(remote') /\ pages[i] \subseteq remote'[i]
    BY <2>1, <2>2, <2>4, <2>5 DEF PagesFetched, Added
  <2>6. ASSUME ended = "no", NEW i \in 1..Len(pages), i \in 1..Len(remote')
        PROVE  remote'[i] \cap present \subseteq pages[i]
    <3>1. CASE i \in 1..Len(remote)
      BY <2>1, <2>2, <2>3, <2>6, <3>1 DEF PagesFetched, Added
    <3>2. CASE i \notin 1..Len(remote)
      BY <2>1, <2>3, <2>6, <3>2 DEF Added
    <3>. QED
      BY <3>1, <3>2
  <2>. QED
    BY <2>2, <2>5, <2>6 DEF PagesFetched
<1>3. CASE Fetch
  <2>1. UNCHANGED <<path, remote, present>>
    BY <1>3, FetchShape DEF Stays
  <2>2. CASE Capped
    BY <2>1, <2>2 DEF Capped, PagesFetched
  <2>3. CASE Failed
    <3>1. 1..Len(<<>>) = {}
      OBVIOUS
    <3>. QED
      BY <2>3, <3>1 DEF Failed, PagesFetched
  <2>4. ASSUME NEW records \in SUBSET AllRecords, Captured(records)
        PROVE  PagesFetched'
    <3>1. /\ Len(pages) \in Nat
          /\ Len(pages') = Len(pages) + 1
          /\ \A i \in 1..Len(pages) : pages'[i] = pages[i]
          /\ pages'[Len(pages) + 1] = records
      BY <2>4, CapturedPages
    <3>2. page = Len(pages) + 1 /\ ended = "no"
      BY <2>4 DEF Captured, Counted
    <3>3. records \in Answers \/ records = {}
      BY <2>4 DEF Captured
    <3>4. records # {} =>
            page \in 1..Len(remote) /\ records = remote[page]
      <4>1. Len(remote) \in Nat /\ page \in Nat /\ page >= 1
        BY LenProperties DEF Shape
      <4>. QED
        BY <2>1, <3>3, <4>1, AnswersAre
    <3>5. \A i \in 1..Len(pages') : i \in 1..Len(pages) \/ i = Len(pages) + 1
      BY <3>1
    <3>6. ASSUME NEW i \in 1..Len(pages'), pages'[i] # {}
          PROVE  i \in 1..Len(remote) /\ pages'[i] \subseteq remote[i]
      <4>1. CASE i \in 1..Len(pages)
        BY <2>1, <3>1, <3>6, <4>1 DEF PagesFetched
      <4>2. CASE i = Len(pages) + 1
        BY <3>1, <3>2, <3>4, <3>6, <4>2
      <4>. QED
        BY <3>5, <4>1, <4>2
    <3>7. ASSUME ended' = "no", NEW i \in 1..Len(pages'), i \in 1..Len(remote)
          PROVE  remote[i] \cap present \subseteq pages'[i]
      <4>1. CASE i \in 1..Len(pages)
        BY <2>1, <3>1, <3>2, <3>7, <4>1 DEF PagesFetched
      <4>2. CASE i = Len(pages) + 1
        <5>1. records # {}
          BY <2>4, <3>7 DEF Captured, Stops, GoesOn
        <5>. QED
          BY <3>1, <3>2, <3>4, <4>2, <5>1
      <4>. QED
        BY <3>5, <4>1, <4>2
    <3>. QED
      BY <2>1, <3>6, <3>7 DEF PagesFetched
  <2>. QED
    BY <1>3, <2>2, <2>3, <2>4, FetchShape
<1>. QED
  BY <1>1, <1>2, <1>3 DEF RawFetchNext

(* The offset loop moves past what it captured and past nothing else.      *)
LEMMA NextOffsetFetched ==
  Shape /\ OffsetFetched /\ [RawFetchNext]_fetchVars => OffsetFetched'
<1> SUFFICES ASSUME Shape, OffsetFetched, [RawFetchNext]_fetchVars,
                    path' = "offset", ended' = "no"
             PROVE  OffsetFetched'
  BY DEF OffsetFetched
<1>1. CASE UNCHANGED fetchVars
  BY <1>1 DEF fetchVars, OffsetFetched
<1>2. CASE RecordAdded
  BY <1>2, AddedShape DEF OffsetFetched
<1>3. CASE Fetch
  <2>1. UNCHANGED <<path, remote, present>>
    BY <1>3, FetchShape DEF Stays
  <2>2. PICK records \in SUBSET AllRecords : Captured(records)
    BY <1>3, FetchShape DEF Capped, Failed
  <2>3. /\ Records(pages') = Records(pages) \cup records
        /\ ended = "no"
    BY <2>2, CapturedPages DEF Captured
  <2>4. PICK next \in {offset, NextOffset(records)} : GoesOn(records, next)
    BY <2>2 DEF Captured, Stops
  <2>5. /\ records # {} /\ next > offset /\ offset' = next
    BY <2>1, <2>4 DEF GoesOn
  <2>6. offset \in Nat
    BY RawFetchAssumption DEF Shape
  <2>7. next = Max(records)
    BY <2>4, <2>5, <2>6 DEF NextOffset
  <2>8. next \in records /\ \A m \in records : next >= m
    BY <2>5, <2>7, MaxOfRecords
  <2>9. Records(remote) \subseteq Nat /\ records \subseteq Nat
    <3>1. Records(remote) \subseteq AllRecords /\ AllRecords \subseteq Nat
      BY RecordsOf DEF Shape, AllRecords
    <3>. QED
      BY <3>1
  <2>10. records \in Answers
    BY <2>2, <2>5 DEF Captured
  <2>11. /\ \A n \in Records(pages) : n <= offset
         /\ \A n \in present : n <= offset => n \in Records(pages)
    BY <2>1, <2>3 DEF OffsetFetched
  <2>12. Records(pages) \subseteq Nat /\ present \subseteq Records(remote)
    BY <2>9 DEF Shape
  <2>13. ASSUME NEW n \in Records(pages')
         PROVE  n <= next
    <3>1. CASE n \in Records(pages)
      <4>1. n \in Nat /\ n <= offset /\ next \in Nat
        BY <2>8, <2>9, <2>11, <2>12, <3>1
      <4>. QED
        BY <2>5, <2>6, <4>1
    <3>2. CASE n \in records
      <4>1. n \in Nat /\ next \in Nat /\ next >= n
        BY <2>8, <2>9, <3>2
      <4>. QED
        BY <4>1
    <3>. QED
      BY <2>3, <2>13, <3>1, <3>2
  <2>14. ASSUME NEW n \in present, n <= next
         PROVE  n \in Records(pages')
    <3>1. n \in Nat /\ next \in Nat /\ n \in Records(remote)
      BY <2>8, <2>9, <2>12
    <3>2. CASE n <= offset
      BY <2>3, <2>11, <3>2
    <3>3. CASE n > offset /\ n = next
      BY <2>3, <2>8, <3>3
    <3>4. CASE n > offset /\ n < next
      <4>1. n \in records
        BY <2>1, <2>8, <2>10, <3>1, <3>4, AnswersAre
      <4>. QED
        BY <2>3, <4>1
    <3>. QED
      BY <2>6, <2>14, <3>1, <3>2, <3>3, <3>4
  <2>. QED
    BY <2>1, <2>5, <2>13, <2>14 DEF OffsetFetched
<1>. QED
  BY <1>1, <1>2, <1>3 DEF RawFetchNext
----------------------------------------------------------------------------
(* The loops stop at the end of the data only with all of it, or after a   *)
(* page they misread.                                                      *)
LEMMA NextComplete ==
  /\ Shape /\ Counted /\ PagesFetched /\ OffsetFetched
  /\ HealthyUnlessMisread
  /\ [RawFetchNext]_fetchVars
  => HealthyUnlessMisread'
<1> SUFFICES ASSUME Shape, Counted, PagesFetched, OffsetFetched,
                    HealthyUnlessMisread, [RawFetchNext]_fetchVars,
                    ~misread', ended' \in {"ended_on_empty_page", "single_page"}
             PROVE  present' \subseteq Records(pages')
  BY DEF HealthyUnlessMisread, HealthyMeansComplete
<1>1. CASE UNCHANGED fetchVars
  BY <1>1 DEF fetchVars, HealthyUnlessMisread, HealthyMeansComplete
<1>2. CASE RecordAdded
  BY <1>2, AddedShape
<1>3. CASE Fetch
  <2>1. UNCHANGED <<path, remote, present>>
    BY <1>3, FetchShape DEF Stays
  <2>2. PICK records \in SUBSET AllRecords : Captured(records)
    BY <1>3, FetchShape DEF Capped, Failed
  <2>3. Records(pages') = Records(pages) \cup records
    BY <2>2, CapturedPages
  <2>4. /\ records \in Answers /\ ended = "no" /\ page = Len(pages) + 1
        /\ Stops(records)
    BY <2>2 DEF Captured, GoesOn, Counted
  <2>5. present \subseteq Records(remote)
    BY DEF Shape
  <2>6. CASE path = "single"
    BY <2>1, <2>3, <2>4, <2>5, <2>6, AnswersAre
  <2>7. CASE path = "page"
    <3>1. records = {}
      BY <2>4, <2>7 DEF Stops
    <3>2. /\ Len(remote) \in Nat /\ Len(pages) \in Nat
          /\ page \in Nat /\ page >= 1
      BY LenProperties DEF Shape
    <3>3. ~(page <= Len(remote))
      <4>1. page <= Len(remote) => remote[page] = {}
        BY <2>4, <2>7, <3>1, AnswersAre
      <4>2. page <= Len(remote) => page \in 1..Len(remote)
        BY <3>2
      <4>. QED
        BY <4>1, <4>2 DEF Shape
    <3>4. ASSUME NEW n \in present
          PROVE  n \in Records(pages)
      <4>1. PICK i \in 1..Len(remote) : n \in remote[i]
        BY <2>5, RecordsOf DEF Shape
      <4>2. i \in 1..Len(pages)
        BY <2>4, <3>2, <3>3
      <4>3. n \in pages[i]
        BY <2>4, <2>7, <4>1, <4>2 DEF PagesFetched
      <4>. QED
        BY <4>2, <4>3, RecordsOf DEF Shape
    <3>. QED
      BY <2>1, <2>3, <3>4
  <2>8. CASE path = "offset"
    <3>1. records = {}
      BY <2>4, <2>8 DEF Stops
    <3>2. \A n \in Records(remote) : n <= offset
      BY <2>4, <2>8, <3>1, AnswersAre
    <3>. QED
      BY <2>1, <2>3, <2>4, <2>5, <2>8, <3>2 DEF OffsetFetched
  <2>. QED
    BY <2>6, <2>7, <2>8, RawFetchAssumption DEF Shape
<1>. QED
  BY <1>1, <1>2, <1>3 DEF RawFetchNext

(* No page brings a record another page has brought.                       *)
LEMMA NextOnce ==
  /\ Shape /\ Counted /\ PagesFetched /\ OffsetFetched
  /\ NoRecordTwice
  /\ [RawFetchNext]_fetchVars
  => NoRecordTwice'
<1> SUFFICES ASSUME Shape, Counted, PagesFetched, OffsetFetched,
                    NoRecordTwice, [RawFetchNext]_fetchVars
             PROVE  NoRecordTwice'
  OBVIOUS
<1>1. CASE UNCHANGED fetchVars
  BY <1>1 DEF fetchVars, NoRecordTwice
<1>2. CASE RecordAdded
  BY <1>2, AddedShape DEF NoRecordTwice
<1>3. CASE Fetch
  <2>1. CASE Capped
    BY <2>1 DEF Capped, NoRecordTwice
  <2>2. CASE Failed
    <3>1. pages' = <<>> /\ DOMAIN pages' = {}
      BY <2>2 DEF Failed
    <3>. QED
      BY <3>1 DEF NoRecordTwice
  <2>3. ASSUME NEW records \in SUBSET AllRecords, Captured(records)
        PROVE  NoRecordTwice'
    <3>1. /\ Len(pages) \in Nat
          /\ Len(pages') = Len(pages) + 1
          /\ \A i \in 1..Len(pages) : pages'[i] = pages[i]
          /\ pages'[Len(pages) + 1] = records
      BY <2>3, CapturedPages
    <3>2. DOMAIN pages = 1..Len(pages) /\ DOMAIN pages' = 1..(Len(pages) + 1)
      <4>1. pages' \in Seq(SUBSET AllRecords)
        BY <2>3, CapturedPages
      <4>. QED
        BY <3>1, <4>1, LenProperties DEF Shape
    <3>3. /\ ended = "no" /\ page = Len(pages) + 1
          /\ \A i \in 1..Len(pages) : pages[i] # {}
          /\ path = "single" => pages = <<>>
      BY <2>3 DEF Captured, Counted
    <3>4. ASSUME NEW i \in 1..Len(pages), NEW n \in pages[i], n \in records
          PROVE  FALSE
      <4>1. records \in Answers /\ records # {}
        BY <2>3, <3>4 DEF Captured
      <4>2. CASE path = "single"
        BY <3>3, <4>2
      <4>3. CASE path = "page"
        <5>1. i \in 1..Len(remote) /\ pages[i] \subseteq remote[i]
          BY <3>3, <4>3 DEF PagesFetched
        <5>2. records = IF page <= Len(remote) THEN remote[page] ELSE {}
          BY <4>1, <4>3, AnswersAre
        <5>3. page <= Len(remote) /\ records = remote[page]
          BY <4>1, <5>2
        <5>4. page \in 1..Len(remote) /\ i # page
          BY <3>1, <3>3, <5>3, LenProperties DEF Shape
        <5>5. remote[i] \cap remote[page] = {}
          BY <5>1, <5>4 DEF Shape
        <5>. QED
          BY <3>4, <5>1, <5>3, <5>5
      <4>4. CASE path = "offset"
        <5>1. n \in Records(pages)
          BY RecordsOf DEF Shape
        <5>2. n <= offset /\ n > offset
          BY <3>3, <3>4, <4>1, <4>4, <5>1, AnswersAre DEF OffsetFetched
        <5>3. n \in Nat /\ offset \in Nat
          BY <3>4, RawFetchAssumption DEF Shape, AllRecords
        <5>. QED
          BY <5>2, <5>3
      <4>. QED
        BY <4>2, <4>3, <4>4, RawFetchAssumption DEF Shape
    <3>5. ASSUME NEW i \in 1..(Len(pages) + 1), NEW j \in 1..(Len(pages) + 1),
                 i < j
          PROVE  pages'[i] \cap pages'[j] = {}
      <4>1. i \in 1..Len(pages) /\ pages'[i] = pages[i]
        BY <3>1, <3>5
      <4>2. CASE j = Len(pages) + 1
        BY <3>1, <3>4, <4>1, <4>2
      <4>3. CASE j \in 1..Len(pages)
        BY <3>1, <3>2, <3>5, <4>1, <4>3 DEF NoRecordTwice
      <4>. QED
        BY <3>1, <4>2, <4>3
    <3>. QED
      BY <3>2, <3>5 DEF NoRecordTwice
  <2>. QED
    BY <1>3, <2>1, <2>2, <2>3, FetchShape
<1>. QED
  BY <1>1, <1>2, <1>3 DEF RawFetchNext
----------------------------------------------------------------------------
FetchInv == Shape /\ Counted /\ PagesFetched /\ OffsetFetched /\ NoRecordTwice

(* The invariant holds at first.                                           *)
LEMMA InitFetch ==
  ASSUME RawFetchInit
  PROVE  FetchInv /\ HealthyUnlessMisread
<1>1. /\ remote \in Seq(SUBSET AllRecords)
      /\ \A i \in 1..Len(remote) : remote[i] # {}
      /\ \A i, j \in 1..Len(remote) : i # j => remote[i] \cap remote[j] = {}
  <2>1. remote \in Seq((SUBSET AllRecords) \ {{}})
    BY RemotesAssumption DEF RawFetchInit, AllRecords
  <2>2. \A i \in 1..Len(remote) : remote[i] \in (SUBSET AllRecords) \ {{}}
    BY <2>1, ElementOfSeq
  <2>3. remote \in Seq(SUBSET AllRecords) /\ DOMAIN remote = 1..Len(remote)
    BY <2>1, SeqMonotonic, LenProperties
  <2>. QED
    BY <2>2, <2>3, RemotesAssumption DEF RawFetchInit
<1>2. /\ pages = <<>> /\ pages \in Seq(SUBSET AllRecords)
      /\ Len(pages) = 0 /\ 1..Len(pages) = {} /\ DOMAIN pages = {}
      /\ Records(pages) = {}
  BY DEF RawFetchInit, Records, ToSet
<1>3. Shape
  <2>1. misread \in BOOLEAN
    BY DEF RawFetchInit
  <2>. QED
    BY <1>1, <1>2, <2>1, RawFetchAssumption DEF RawFetchInit, Shape
<1>4. Counted
  BY <1>2, RawFetchAssumption DEF RawFetchInit, Counted
<1>5. PagesFetched /\ NoRecordTwice
  BY <1>2 DEF PagesFetched, NoRecordTwice
<1>6. OffsetFetched
  <2>1. Records(remote) \subseteq AllRecords
    BY <1>1, RecordsOf
  <2>2. \A n \in AllRecords : ~(n <= 0)
    BY RawFetchAssumption DEF AllRecords
  <2>. QED
    BY <1>2, <2>1, <2>2 DEF RawFetchInit, OffsetFetched
<1>7. HealthyUnlessMisread
  BY DEF RawFetchInit, HealthyUnlessMisread, HealthyMeansComplete
<1>. QED
  BY <1>3, <1>4, <1>5, <1>6, <1>7 DEF FetchInv

(* Every step keeps the invariant.                                         *)
LEMMA NextFetch == FetchInv /\ [RawFetchNext]_fetchVars => FetchInv'
  BY NextShape, NextCounted, NextPagesFetched, NextOffsetFetched, NextOnce
     DEF FetchInv

(* What the invariant says of the types and of the cap.                    *)
LEMMA InvMeans == FetchInv => RawFetchTypeOK /\ NoRecordTwice /\ CapMeansFull
<1> SUFFICES ASSUME FetchInv
             PROVE  RawFetchTypeOK /\ NoRecordTwice /\ CapMeansFull
  OBVIOUS
<1>1. RawFetchTypeOK
  BY DEF FetchInv, Shape, Counted, RawFetchTypeOK
<1>2. CapMeansFull
  <2> SUFFICES ASSUME ended = "hit_max_pages_cap"
               PROVE  Len(pages) = MaxPages /\ Last(pages) # {}
    BY DEF CapMeansFull
  <2>1. /\ page = Len(pages) + 1 /\ page > MaxPages /\ Len(pages) <= MaxPages
        /\ \A i \in 1..Len(pages) : pages[i] # {}
    BY DEF FetchInv, Counted
  <2>2. Len(pages) \in Nat /\ Len(pages) = MaxPages
    BY <2>1, LenProperties, RawFetchAssumption DEF FetchInv, Shape
  <2>3. Len(pages) \in 1..Len(pages)
    BY <2>2, RawFetchAssumption
  <2>. QED
    BY <2>1, <2>2, <2>3 DEF Last
<1>. QED
  BY <1>1, <1>2 DEF FetchInv

(* The types of a fetch, in every reachable state.                         *)
THEOREM FetchTypes == RawFetchSpec => []RawFetchTypeOK
  BY InitFetch, NextFetch, InvMeans, PTL DEF RawFetchSpec

(* No record is fetched twice, however Xero cuts and extends its data.     *)
THEOREM FetchedOnce == RawFetchSpec => []NoRecordTwice
  BY InitFetch, NextFetch, InvMeans, PTL DEF RawFetchSpec

(* The cap is never reported early nor after an empty page.                *)
THEOREM CapIsFull == RawFetchSpec => []CapMeansFull
  BY InitFetch, NextFetch, InvMeans, PTL DEF RawFetchSpec

(* "Healthy" is true whenever the loop found the records of every page     *)
(* that had some, whatever Faults, Raw, the cut into pages and the         *)
(* additions are.                                                          *)
THEOREM HealthyIsComplete == RawFetchSpec => []HealthyUnlessMisread
<1>1. FetchInv /\ HealthyUnlessMisread /\ [RawFetchNext]_fetchVars
        => HealthyUnlessMisread'
  BY NextComplete DEF FetchInv
<1>. QED
  BY <1>1, InitFetch, NextFetch, PTL DEF RawFetchSpec
============================================================================

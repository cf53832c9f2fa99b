-------------------------- MODULE ParsedFetchProofs ------------------------
(* What the parsed calls return, for every organisation, every dates and   *)
(* times of its records, every cut into pages, cap and fault.              *)
EXTENDS ParsedFetch, RawFetchProofs

(* The parsed calls run the loops of RawFetch and nothing else of them.    *)
LEMMA ParsedInitIsFetch == ParsedInit => RawFetchInit
  BY DEF ParsedInit

LEMMA ParsedNextIsFetch ==
  [ParsedNext]_parsedVars => [RawFetchNext]_fetchVars
<1> SUFFICES ASSUME [ParsedNext]_parsedVars
             PROVE  [RawFetchNext]_fetchVars
  OBVIOUS
<1>1. CASE LoopStep
  BY <1>1 DEF LoopStep, RawFetchNext
<1>2. CASE SelectedRecordAdded
  BY <1>2 DEF SelectedRecordAdded, RawFetchNext
<1>3. CASE Refuse \/ LoopFails \/ Filter \/ ExpandRow \/ Expanded
  BY <1>3 DEF Refuse, LoopFails, Filter, ExpandRow, Expanded
<1>4. CASE UNCHANGED parsedVars
  BY <1>4 DEF parsedVars
<1>. QED
  BY <1>1, <1>2, <1>3, <1>4 DEF ParsedNext

(* Every behaviour of the parsed calls is one of the loops: the calls      *)
(* implement the specification of the loops.                               *)
THEOREM ParsedIsFetch == ParsedSpec => RawFetchSpec
  BY ParsedInitIsFetch, ParsedNextIsFetch, PTL DEF ParsedSpec, RawFetchSpec
----------------------------------------------------------------------------
(* The call and the organisation it was made to stay what they were.       *)
Asked ==
  /\ call \in Calls
  /\ path = call.path
  /\ present = {n \in org : Selected(n)}

Returned == result \in {"expanding", "ok"}

(* The rows are the records that were fetched and kept, one each.          *)
RowsKept ==
  /\ Returned =>
       /\ ended \notin {"no", "error"} /\ ~CapIsError
       /\ RowRecords = {n \in Records(pages) : Kept(n)}
       /\ \A row, other \in rows : row.record = other.record => row = other
  /\ ~Returned => rows = {} /\ headers = {}

RowTypes ==
  /\ rows \subseteq [record : AllRecords, detail : BOOLEAN]
  /\ headers \subseteq rows
  /\ result \in {"no", "expanding", "ok", "error"}
  /\ result = "ok" => headers = {}

ParsedInv ==
  FetchInv /\ HealthyUnlessMisread /\ Asked /\ RowsKept /\ RowTypes

(* A detail changes its row and no record of the rows.                     *)
LEMMA ExpansionKeepsRecords ==
  ASSUME RowTypes, NEW row \in rows,
         \A one, other \in rows : one.record = other.record => one = other,
         NEW R \in {(rows \ {row}) \cup {[row EXCEPT !.detail = TRUE]}, rows}
  PROVE  /\ R \subseteq [record : AllRecords, detail : BOOLEAN]
         /\ headers \ {row} \subseteq R
         /\ {one.record : one \in R} = RowRecords
         /\ \A one, other \in R : one.record = other.record => one = other
<1> DEFINE new == [row EXCEPT !.detail = TRUE]
<1>1. row \in [record : AllRecords, detail : BOOLEAN]
  BY DEF RowTypes
<1>2. /\ new \in [record : AllRecords, detail : BOOLEAN]
      /\ new.record = row.record
  BY <1>1
<1> HIDE DEF new
<1>3. CASE R = rows
  BY <1>3 DEF RowTypes, RowRecords
<1>4. CASE R = (rows \ {row}) \cup {new}
  <2>1. R \subseteq [record : AllRecords, detail : BOOLEAN]
    BY <1>2, <1>4 DEF RowTypes
  <2>2. headers \ {row} \subseteq R
    BY <1>4 DEF RowTypes
  <2>3. \A one \in R : \E other \in rows : one.record = other.record
    BY <1>2, <1>4
  <2>4. \A other \in rows : \E one \in R : one.record = other.record
    BY <1>2, <1>4
  <2>5. {one.record : one \in R} = RowRecords
    BY <2>3, <2>4 DEF RowRecords
  <2>6. \A one, other \in R : one.record = other.record => one = other
    BY <1>2, <1>4
  <2>. QED
    BY <2>1, <2>2, <2>5, <2>6
<1>. QED
  BY <1>3, <1>4 DEF new
----------------------------------------------------------------------------
(* Every step keeps the call and its organisation.                         *)
LEMMA NextAsked ==
  Shape /\ Asked /\ [ParsedNext]_parsedVars => Asked'
<1> SUFFICES ASSUME Shape, Asked, [ParsedNext]_parsedVars
             PROVE  Asked'
  OBVIOUS
<1>1. UNCHANGED <<path, present, call, org>>
  <2>1. CASE LoopStep
    BY <2>1, FetchShape DEF LoopStep, Stays
  <2>2. CASE SelectedRecordAdded
    BY <2>2, AddedShape DEF SelectedRecordAdded
  <2>3. CASE Refuse \/ LoopFails \/ Filter \/ ExpandRow \/ Expanded
    BY <2>3 DEF Refuse, LoopFails, Filter, ExpandRow, Expanded, fetchVars
  <2>4. CASE UNCHANGED parsedVars
    BY <2>4 DEF parsedVars, fetchVars
  <2>. QED
    BY <2>1, <2>2, <2>3, <2>4 DEF ParsedNext
<1>. QED
  BY <1>1 DEF Asked, Selected

(* Every step keeps the rows what was fetched and kept.                    *)
LEMMA NextRows ==
  Shape /\ RowsKept /\ RowTypes /\ [ParsedNext]_parsedVars
    => RowsKept' /\ RowTypes'
<1> SUFFICES ASSUME Shape, RowsKept, RowTypes, [ParsedNext]_parsedVars
             PROVE  RowsKept' /\ RowTypes'
  OBVIOUS
<1>1. CASE result = "no" /\ UNCHANGED <<rows, headers, result>>
  BY <1>1 DEF RowsKept, RowTypes, Returned
<1>2. CASE result = "no" /\ result' = "error" /\ UNCHANGED <<rows, headers>>
  BY <1>2 DEF RowsKept, RowTypes, Returned
<1>3. CASE Filter
  <2> DEFINE kept == {n \in Records(pages) : Kept(n)}
  <2>1. /\ rows' = {[record |-> n, detail |-> FALSE] : n \in kept}
        /\ headers' \subseteq rows'
        /\ result' \in {"expanding", "ok"}
        /\ result' = "ok" => headers' = {}
        /\ ended \notin {"no", "error"} /\ ~CapIsError
        /\ UNCHANGED <<fetchVars, call, org>>
    BY <1>3 DEF Filter
  <2>2. kept \subseteq AllRecords
    BY RecordsOf DEF Shape
  <2>3. kept' = kept
    BY <2>1 DEF fetchVars, Kept, InWindow, InModifiedWindow
  <2>4. CapIsError' = CapIsError
    BY <2>1 DEF fetchVars, CapIsError
  <2> HIDE DEF kept
  <2> DEFINE header(n) == [record |-> n, detail |-> FALSE]
  <2>5. /\ \A row \in rows' : \E n \in kept : row = header(n)
        /\ \A n \in kept : header(n) \in rows'
    BY <2>1
  <2>6. \A n : header(n).record = n
    OBVIOUS
  <2>7. \A n \in AllRecords :
          header(n) \in [record : AllRecords, detail : BOOLEAN]
    OBVIOUS
  <2> HIDE DEF header
  <2>8. RowRecords' = kept
    BY <2>5, <2>6 DEF RowRecords
  <2>9. \A row, other \in rows' : row.record = other.record => row = other
    BY <2>5, <2>6
  <2>10. rows' \subseteq [record : AllRecords, detail : BOOLEAN]
    BY <2>2, <2>5, <2>7
  <2>11. RowTypes'
    BY <2>1, <2>10 DEF RowTypes
  <2>12. RowRecords' = {n \in Records(pages') : Kept(n)'}
    BY <2>3, <2>8 DEF kept
  <2>. QED
    BY <2>1, <2>4, <2>9, <2>11, <2>12 DEF RowsKept, Returned, fetchVars
<1>4. CASE ExpandRow
  <2>1. PICK row \in headers :
          /\ headers' = headers \ {row}
          /\ rows' \in {(rows \ {row}) \cup {[row EXCEPT !.detail = TRUE]}, rows}
    BY <1>4 DEF ExpandRow
  <2>2. result = "expanding" /\ UNCHANGED <<fetchVars, call, org, result>>
    BY <1>4 DEF ExpandRow
  <2>3. /\ row \in rows
        /\ \A one, other \in rows : one.record = other.record => one = other
    BY <2>1, <2>2 DEF RowsKept, RowTypes, Returned
  <2>4. /\ rows' \subseteq [record : AllRecords, detail : BOOLEAN]
        /\ headers' \subseteq rows'
        /\ {one.record : one \in rows'} = RowRecords
        /\ \A one, other \in rows' : one.record = other.record => one = other
    BY <2>1, <2>3, ExpansionKeepsRecords
  <2>5. RowRecords' = RowRecords
    BY <2>4 DEF RowRecords
  <2>6. CapIsError' = CapIsError
    BY <2>2 DEF fetchVars, CapIsError
  <2>7. {n \in Records(pages') : Kept(n)'} = {n \in Records(pages) : Kept(n)}
    BY <2>2 DEF fetchVars, Kept, InWindow, InModifiedWindow
  <2>. QED
    BY <2>2, <2>4, <2>5, <2>6, <2>7 DEF RowsKept, RowTypes, Returned, fetchVars
<1>5. CASE /\ Returned /\ Returned' /\ result' \in {result, "ok"}
           /\ UNCHANGED <<fetchVars, call, org, rows, headers>>
           /\ result' = "ok" => headers = {}
  <2>1. CapIsError' = CapIsError /\ RowRecords' = RowRecords
    BY <1>5 DEF fetchVars, CapIsError, RowRecords
  <2>2. {n \in Records(pages') : Kept(n)'} = {n \in Records(pages) : Kept(n)}
    BY <1>5 DEF fetchVars, Kept, InWindow, InModifiedWindow
  <2>. QED
    BY <1>5, <2>1, <2>2 DEF RowsKept, RowTypes, Returned, fetchVars
<1>6. CASE result = "error" /\ UNCHANGED parsedVars
  BY <1>6 DEF RowsKept, RowTypes, Returned, parsedVars
<1>7. \/ result = "no" /\ UNCHANGED <<rows, headers, result>>
      \/ result = "no" /\ result' = "error" /\ UNCHANGED <<rows, headers>>
      \/ Filter
      \/ ExpandRow
      \/ /\ Returned /\ Returned' /\ result' \in {result, "ok"}
         /\ UNCHANGED <<fetchVars, call, org, rows, headers>>
         /\ result' = "ok" => headers = {}
      \/ result = "error" /\ UNCHANGED parsedVars
  <2>1. CASE LoopStep \/ SelectedRecordAdded
    BY <2>1 DEF LoopStep, SelectedRecordAdded
  <2>2. CASE Refuse \/ LoopFails
    BY <2>2 DEF Refuse, LoopFails
  <2>3. CASE Expanded
    BY <2>3 DEF Expanded, Returned
  <2>4. CASE UNCHANGED parsedVars
    BY <2>4 DEF parsedVars, Returned, RowTypes
  <2>. QED
    BY <2>1, <2>2, <2>3, <2>4 DEF ParsedNext
<1>. QED
  BY <1>1, <1>2, <1>3, <1>4, <1>5, <1>6, <1>7

(* The invariant holds at first and every step keeps it.                   *)
LEMMA InitParsed == ParsedInit => ParsedInv
<1> SUFFICES ASSUME ParsedInit
             PROVE  ParsedInv
  OBVIOUS
<1>1. FetchInv /\ HealthyUnlessMisread
  BY InitFetch, ParsedInitIsFetch
<1>2. Asked
  BY DEF ParsedInit, Asked
<1>3. RowsKept /\ RowTypes
  BY DEF ParsedInit, RowsKept, RowTypes, Returned
<1>. QED
  BY <1>1, <1>2, <1>3 DEF ParsedInv

LEMMA NextParsed == ParsedInv /\ [ParsedNext]_parsedVars => ParsedInv'
<1> SUFFICES ASSUME ParsedInv, [ParsedNext]_parsedVars
             PROVE  ParsedInv'
  OBVIOUS
<1>1. [RawFetchNext]_fetchVars
  BY ParsedNextIsFetch
<1>2. FetchInv' /\ HealthyUnlessMisread'
  BY <1>1, NextFetch, NextComplete DEF ParsedInv, FetchInv
<1>3. Asked' /\ RowsKept' /\ RowTypes'
  BY NextAsked, NextRows DEF ParsedInv, FetchInv
<1>. QED
  BY <1>2, <1>3 DEF ParsedInv
----------------------------------------------------------------------------
(* What is told to be complete has every record the call selects.          *)
LEMMA ToldIsComplete ==
  ASSUME ParsedInv, ToldComplete, ~misread, NEW n \in org, Selected(n)
  PROVE  n \in Records(pages)
<1>1. n \in present
  BY DEF ParsedInv, Asked
<1>2. ended \in {"ended_on_empty_page", "single_page"}
  <2>1. CASE call.api = "fetch" /\ path = "page"
    <3>1. ended \notin {"no", "error"} /\ ended # "hit_max_pages_cap"
      BY <2>1 DEF ParsedInv, RowsKept, Returned, ToldComplete, CapIsError
    <3>2. ended \notin {"single_page", "offset_not_advancing"}
      BY <2>1 DEF ParsedInv, FetchInv, Counted
    <3>. QED
      BY <3>1, <3>2 DEF ParsedInv, FetchInv, Shape
  <2>. QED
    BY <2>1 DEF ToldComplete
<1>. QED
  BY <1>1, <1>2 DEF ParsedInv, HealthyUnlessMisread, HealthyMeansComplete

(* The dates of the half-open window are those the filter keeps.           *)
LEMMA WindowIsDated ==
  ASSUME ParsedInv, NEW n \in AllRecords
  PROVE  InWindow(n) <=> Dated(n)
<1>1. call.start \in Int /\ call.end \in Int
  BY ParsedFetchAssumption DEF ParsedInv, Asked
<1>2. DateOf[n] \in Int \/ DateOf[n] = Unknown
  BY ParsedFetchAssumption DEF AllRecords
<1>3. CASE DateOf[n] = Unknown
  BY <1>3 DEF InWindow, Dated
<1>4. CASE DateOf[n] \in Int
  BY <1>1, <1>4, ParsedFetchAssumption DEF InWindow, Dated
<1>. QED
  BY <1>2, <1>3, <1>4

(* The types of a parsed call.                                             *)
THEOREM ParsedTypes == ParsedSpec => []ParsedTypeOK
<1>1. ParsedInv => ParsedTypeOK
  <2> SUFFICES ASSUME ParsedInv
               PROVE  ParsedTypeOK
    OBVIOUS
  <2>1. RawFetchTypeOK
    BY InvMeans DEF ParsedInv
  <2>. QED
    BY <2>1 DEF ParsedInv, RowTypes, RowsKept, Returned, ParsedTypeOK, AllRecords
<1>. QED
  BY <1>1, InitParsed, NextParsed, PTL DEF ParsedSpec

(* A call by business date returns the records of its half-open window and *)
(* no other, whether or not Xero filters, faults and cuts its data; all of *)
(* them, unless a page was misread.                                        *)
THEOREM WindowIsExact == ParsedSpec => []BusinessWindowExact
<1>1. ParsedInv => BusinessWindowExact
  <2> SUFFICES ASSUME ParsedInv, call.api = "business", result = "ok"
               PROVE  /\ \A n \in RowRecords : Dated(n)
                      /\ ToldComplete /\ ~misread =>
                           \A n \in org :
                             Dated(n) /\ (path = "offset" =>
                                            ModifiedSince(n, call.start)) =>
                               n \in RowRecords
    BY DEF BusinessWindowExact
  <2>1. RowRecords = {n \in Records(pages) : InWindow(n)}
    BY DEF ParsedInv, RowsKept, Returned, Kept
  <2>2. Records(pages) \subseteq AllRecords
    BY RecordsOf DEF ParsedInv, FetchInv, Shape
  <2>3. \A n \in RowRecords : Dated(n)
    BY <2>1, <2>2, WindowIsDated
  <2>4. ASSUME ToldComplete, ~misread, NEW n \in org, Dated(n),
               path = "offset" => ModifiedSince(n, call.start)
        PROVE  n \in RowRecords
    <3>1. Selected(n)
      <4>1. CASE path = "offset"
        <5>1. call.path = "offset"
          BY <4>1 DEF ParsedInv, Asked
        <5>2. ModifiedSince(n, call.start)
          BY <2>4, <4>1
        <5>. QED
          BY <5>1, <5>2 DEF Selected, ModifiedSince
      <4>2. CASE path # "offset"
        BY <2>4, <4>2 DEF Selected, Dated, ParsedInv, Asked
      <4>. QED
        BY <4>1, <4>2
    <3>2. n \in Records(pages)
      BY <2>4, <3>1, ToldIsComplete
    <3>3. InWindow(n)
      BY <2>2, <2>4, <3>2, WindowIsDated
    <3>. QED
      BY <2>1, <3>2, <3>3
  <2>. QED
    BY <2>3, <2>4
<1>. QED
  BY <1>1, InitParsed, NextParsed, PTL DEF ParsedSpec

(* A call by modification time returns every record of its window once and *)
(* none that says it was modified outside, whichever details failed and    *)
(* unless a page was misread.                                              *)
THEOREM ModifiedIsExact == ParsedSpec => []ModifiedWindowExact
<1>1. ParsedInv => ModifiedWindowExact
  <2> SUFFICES ASSUME ParsedInv, call.api # "business", result = "ok"
               PROVE  /\ \A n \in RowRecords : After(n) /\ Before(n)
                      /\ ToldComplete /\ ~misread =>
                           \A n \in org : After(n) /\ Before(n) =>
                                            n \in RowRecords
                      /\ \A row, other \in rows :
                           row.record = other.record => row = other
    BY DEF ModifiedWindowExact
  <2>1. RowRecords = {n \in Records(pages) : InModifiedWindow(n)}
    BY DEF ParsedInv, RowsKept, Returned, Kept
  <2>2. \A n : InModifiedWindow(n) <=> After(n) /\ Before(n)
    BY DEF InModifiedWindow, After, Before, ModifiedSince
  <2>3. ASSUME ToldComplete, ~misread, NEW n \in org, After(n), Before(n)
        PROVE  n \in RowRecords
    <3>1. Selected(n)
      BY <2>3 DEF Selected, After
    <3>2. n \in Records(pages)
      BY <2>3, <3>1, ToldIsComplete
    <3>. QED
      BY <2>1, <2>2, <2>3, <3>2
  <2>4. \A row, other \in rows : row.record = other.record => row = other
    BY DEF ParsedInv, RowsKept, Returned
  <2>. QED
    BY <2>1, <2>2, <2>3, <2>4
<1>. QED
  BY <1>1, InitParsed, NextParsed, PTL DEF ParsedSpec
============================================================================

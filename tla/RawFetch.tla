----------------------------- MODULE RawFetch ------------------------------
(***************************************************************************)
(* The pagination loops of xero-client against the data they page through. *)
(*                                                                         *)
(* The client has two sets of loops of the same shape: fetch_raw_pages and *)
(* fetch_raw_journals keep the bytes of every page for the uploader;       *)
(* fetch_inner, fetch_by_business_date_tracked and fetch_journals parse    *)
(* the records.  They differ in what a body that is not JSON does: the     *)
(* first count it as zero records, the second return an error.  Both take  *)
(* JSON without the array of the entity for an empty page.  SyncRun models *)
(* the control of the raw loops under retries and limits; here a request   *)
(* is one step, and what matters is which records were fetched when the    *)
(* loop says how it ended.                                                 *)
(*                                                                         *)
(* A record is its journal number; the numbers have gaps.  Xero is the     *)
(* environment: it cuts its data into pages, short ones too, adds records  *)
(* while the loop runs, and answers with one of Faults now and then.  It   *)
(* removes none: a removal moves records to a page already fetched.        *)
(*                                                                         *)
(* An entity without pages is fetched by one request, the path "single".   *)
(***************************************************************************)
EXTENDS Naturals, Sequences, FiniteSets, FiniteSetsExt, SequencesExt

CONSTANTS
  Paths,      \* the loops to run: "page", "offset", or "single" for none
  Raw,        \* TRUE for the loops that keep bytes
  Remotes,    \* what Xero may hold at first: sequences of sets of records
  PageSize,   \* the most records Xero puts on a page
  MaxRecord,  \* bound on the records Xero adds: none is above it
  MaxPages,   \* max_pages_per_entity()
  Faults      \* the answers of Xero besides a page of its data

ASSUME RawFetchAssumption ==
  /\ Paths \subseteq {"page", "offset", "single"}
  /\ Raw \in BOOLEAN
  /\ MaxPages \in Nat \ {0}
  /\ PageSize \in Nat \ {0}
  /\ MaxRecord \in Nat
  /\ Faults \subseteq
       {"not_json", "no_array", "unnumbered", "not_modified", "past_end"}

(* Xero puts every record on one page, and leaves no page empty before the *)
(* last.                                                                   *)
ASSUME RemotesAssumption ==
  \A xero \in Remotes :
    /\ xero \in Seq((SUBSET (1..MaxRecord)) \ {{}})
    /\ \A i, j \in DOMAIN xero : i # j => xero[i] \cap xero[j] = {}

VARIABLES
  path,     \* the loop this fetch runs
  remote,   \* the pages Xero holds
  present,  \* the records Xero held when the fetch began
  page,     \* the page number, or the count of pages of the offset loop
  offset,   \* the journal number the next page starts after
  pages,    \* the records of every page fetched so far
  ended,    \* "no", "error" or how the loop stopped
  misread   \* history: a page that has records was taken for an empty one

fetchVars == <<path, remote, present, page, offset, pages, ended, misread>>

Records(seq) == UNION ToSet(seq)

RawFetchInit ==
  /\ path \in Paths
  /\ remote \in Remotes
  /\ present = Records(remote)
  /\ page = 1
  /\ offset = 0
  /\ pages = <<>>
  /\ ended = "no"
  /\ misread = FALSE
----------------------------------------------------------------------------
(* Xero.                                                                   *)
FirstOf(k, S) == {n \in S : Cardinality({m \in S : m < n}) < k}

(* The answers to the loop's next request: the page asked for, or some     *)
(* journals after the offset, the lowest numbers first.                    *)
Answers ==
  LET after == {n \in Records(remote) : n > offset} IN
  CASE path = "single" -> {Records(remote)}
    [] path = "page" -> {IF page <= Len(remote) THEN remote[page] ELSE {}}
    [] path = "offset" ->
         IF after = {} THEN {{}} ELSE {FirstOf(k, after) : k \in 1..PageSize}

(* Somebody adds a record: to the last page or, if it is full, a new one.  *)
RecordAdded ==
  /\ ended = "no"
  /\ \E n \in 1..MaxRecord :
       /\ \A m \in Records(remote) : n > m
       /\ remote' =
            IF remote # <<>> /\ Cardinality(Last(remote)) < PageSize
            THEN [remote EXCEPT ![Len(remote)] = @ \cup {n}]
            ELSE Append(remote, {n})
  /\ UNCHANGED <<path, present, page, offset, pages, ended, misread>>
----------------------------------------------------------------------------
(* Mutant of StopAfter: a short page ends the loop.                        *)
StopOnShortPage(records) == Cardinality(records) < PageSize

(* should_stop_page_pagination(): only an empty page ends the page loop.   *)
StopAfter(records) == records = {}

(* max_journal_number(...).unwrap_or(offset)                               *)
NextOffset(records) == IF records = {} THEN offset ELSE Max(records)

(* Mutant of StopAtOffset: only an empty page stops the offset loop.       *)
NeverStopAtOffset(next) == FALSE

(* should_stop_offset_pagination() for a page that has records.            *)
StopAtOffset(next) == next <= offset

(* Mutants of CapReached: one page short of the cap, one page over it.     *)
CapReachedEarly == page >= MaxPages
CapReachedLate == page > MaxPages + 1

CapReached == page > MaxPages

(* The loops test the cap before each request.                             *)
HitMaxPagesCap ==
  /\ ended = "no"
  /\ CapReached
  /\ ended' = "hit_max_pages_cap"
  /\ UNCHANGED <<path, remote, present, page, offset, pages, misread>>

(* A page was captured: the rest of the loop's body.                       *)
Consume(records, next) ==
  /\ pages' = Append(pages, records)
  /\ misread' = (records = {} /\ {} \notin Answers)
  /\ \/ /\ path = "single"
        /\ ended' = "single_page"
        /\ UNCHANGED <<page, offset>>
     \/ /\ path # "single"
        /\ StopAfter(records)
        /\ ended' = "ended_on_empty_page"
        /\ UNCHANGED <<page, offset>>
     \/ /\ ~StopAfter(records)
        /\ path = "page"
        /\ page' = page + 1
        /\ UNCHANGED <<offset, ended>>
     \/ /\ ~StopAfter(records)
        /\ path = "offset"
        /\ IF StopAtOffset(next)
           THEN /\ ended' = "offset_not_advancing"
                /\ UNCHANGED <<page, offset>>
           ELSE /\ page' = page + 1
                /\ offset' = next
                /\ UNCHANGED ended
  /\ UNCHANGED <<path, remote, present>>

(* An error leaves the loop and drops every page it had.                   *)
Fail ==
  /\ ended' = "error"
  /\ pages' = <<>>
  /\ UNCHANGED <<path, remote, present, page, offset, misread>>

Requesting == ended = "no" /\ ~CapReached

FetchPage ==
  /\ Requesting
  /\ \E records \in Answers : Consume(records, NextOffset(records))

(* A 200 whose body does not parse: record_count_from_bytes takes it for   *)
(* an empty page, resp.json() for an error.                                *)
FetchNotJson ==
  /\ Requesting
  /\ "not_json" \in Faults
  /\ IF Raw THEN Consume({}, offset) ELSE Fail

(* A 200 whose JSON lacks the array of the entity: no records for either.  *)
FetchNoArray ==
  /\ Requesting
  /\ "no_array" \in Faults
  /\ Consume({}, offset)

(* Journals without a JournalNumber: the offset does not move.             *)
FetchUnnumbered ==
  /\ Requesting
  /\ "unnumbered" \in Faults
  /\ path = "offset"
  /\ \E records \in Answers \ {{}} : Consume(records, offset)

(* 304: nothing modified since the watermark.  Xero answers so only when   *)
(* the filtered data is empty.                                             *)
FetchNotModified ==
  /\ Requesting
  /\ "not_modified" \in Faults
  /\ Records(remote) = {}
  /\ Consume({}, offset)

(* A 4xx instead of an empty page after the last.                          *)
FetchPastEnd ==
  /\ Requesting
  /\ "past_end" \in Faults
  /\ Answers = {{}}
  /\ Fail

(* Any other failure: a 4xx, or retries that ran out.                      *)
FetchFails ==
  /\ Requesting
  /\ Fail

Fetch ==
  \/ HitMaxPagesCap \/ FetchPage \/ FetchNotJson \/ FetchNoArray
  \/ FetchUnnumbered \/ FetchNotModified \/ FetchPastEnd \/ FetchFails

RawFetchNext == RecordAdded \/ Fetch

RawFetchSpec == RawFetchInit /\ [][RawFetchNext]_fetchVars
----------------------------------------------------------------------------
RawFetchTypeOK ==
  /\ path \in Paths
  /\ page \in 1..(MaxPages + 1)
  /\ offset \in 0..MaxRecord
  /\ Records(pages) \subseteq Records(remote)
  /\ Len(pages) <= MaxPages
  /\ ended \in {"no", "error", "single_page", "ended_on_empty_page",
                "hit_max_pages_cap", "offset_not_advancing"}
  /\ misread \in BOOLEAN

(* "Healthy: paging stopped because Xero returned an empty page - we       *)
(* fetched everything available" (TerminationReason::EndedOnEmptyPage):    *)
(* every record that was there when the fetch began is in its pages,       *)
(* whatever was added meanwhile and however the data is cut into pages.    *)
(* Two answers refute it, a body that is not JSON and JSON without the     *)
(* array of the entity.                                                    *)
HealthyMeansComplete ==
  ended \in {"ended_on_empty_page", "single_page"} =>
    present \subseteq Records(pages)

(* What the loops do promise: a healthy end means that everything was      *)
(* fetched, unless Xero answered for a page that has records with a body   *)
(* in which the loop found none (record_count_from_bytes, and the          *)
(* unwrap_or_default() of fetch_records_with_query).                       *)
HealthyUnlessMisread == misread \/ HealthyMeansComplete

(* No record is fetched twice: the page loop never goes back, and after a  *)
(* page without the numbers the offset is taken from, the offset loop      *)
(* stops instead of asking for the same page again                         *)
(* (should_stop_offset_pagination, "would otherwise loop forever").        *)
NoRecordTwice ==
  \A i, j \in DOMAIN pages : i < j => pages[i] \cap pages[j] = {}

(* The cap is reported only when the loop has fetched as many pages as it  *)
(* allows, the last of them not empty (PaginationOutcome).                 *)
CapMeansFull ==
  ended = "hit_max_pages_cap" =>
    Len(pages) = MaxPages /\ Last(pages) # {}

============================================================================

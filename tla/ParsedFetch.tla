---------------------------- MODULE ParsedFetch ----------------------------
(***************************************************************************)
(* The fetch functions of xero-client that hand out parsed records: fetch, *)
(* fetch_with_extras and fetch_by_business_date.  Each lets Xero filter as *)
(* far as the endpoint can, runs a loop of RawFetch over what Xero then    *)
(* has to give, filters again, and fetch_with_extras replaces each row of  *)
(* Budgets and ContactGroups by what the endpoint of the record returns.   *)
(* A date and a time are numbers here.                                     *)
(***************************************************************************)
EXTENDS RawFetch, Integers

CONSTANTS
  Calls,       \* the calls made
  Orgs,        \* sets of records the organisation may have at first
  DateOf,      \* business date of each record
  ModifiedOf,  \* UpdatedDateUTC of each record
  Unknown,     \* the record has no such field, or it does not parse
  Unbounded    \* the call names no such bound

(* These functions parse: a body that is not JSON is an error, and one     *)
(* that is JSON without the array of the entity has no records.            *)
ASSUME ParsedFetchAssumption ==
  /\ ~Raw
  /\ Unknown \notin Int
  /\ DateOf \in [1..MaxRecord -> Int \cup {Unknown}]
  /\ \A made \in Calls : {made.start, made.end} \subseteq Int

VARIABLES
  call,     \* the call under way
  org,      \* the records of the organisation when it began
  rows,     \* the rows it returns: record, and whether it has its detail
  headers,  \* rows whose detail is still to be fetched
  result    \* "no", "expanding", "ok" or "error"

parsedVars == <<fetchVars, call, org, rows, headers, result>>

(* Mutant of InWindow: the window is taken as closed.                      *)
InClosedWindow(n) == DateOf[n] # Unknown /\ DateOf[n] \in call.start..call.end

(* filter_records_by_business_date_window(): a record without a date is    *)
(* dropped.                                                                *)
InWindow(n) ==
  DateOf[n] # Unknown /\ call.start <= DateOf[n] /\ DateOf[n] < call.end

(* filter_records_by_modified_window(): a record without a time is kept    *)
(* unless the window has an end.                                           *)
InModifiedWindow(n) ==
  IF ModifiedOf[n] = Unknown THEN call.before = Unbounded
  ELSE /\ call.after # Unbounded => ModifiedOf[n] >= call.after
       /\ call.before # Unbounded => ModifiedOf[n] < call.before

Kept(n) == IF call.api = "business" THEN InWindow(n) ELSE InModifiedWindow(n)

(* If-Modified-Since: a record without a time is always sent.              *)
ModifiedSince(n, time) == ModifiedOf[n] = Unknown \/ ModifiedOf[n] >= time

(* What Xero selects for the query of a call: the where clause or the pair *)
(* DateFrom and DateTo (inclusive, hence the day before the end), or the   *)
(* header If-Modified-Since, with the start of the window for Journals,    *)
(* which have no filter on dates.  An endpoint may ignore any of them.     *)
Selected(n) ==
  \/ call.ignored
  \/ CASE call.api = "business" /\ call.path = "offset" ->
            ModifiedSince(n, call.start)
       [] call.api = "business" /\ call.path # "offset" ->
            DateOf[n] # Unknown /\ DateOf[n] \in call.start..(call.end - 1)
       [] OTHER -> call.after # Unbounded => ModifiedSince(n, call.after)

ParsedInit ==
  /\ RawFetchInit
  /\ call \in Calls
  /\ path = call.path
  /\ org \in Orgs
  /\ present = {n \in org : Selected(n)}
  /\ rows = {}
  /\ headers = {}
  /\ result = "no"
----------------------------------------------------------------------------
(* DateWindow::new() and business_date_query_mode(): the window is empty,  *)
(* or the entity has no business date.                                     *)
Refused == call.api = "business" /\ (call.start >= call.end \/ ~call.dated)

Refuse ==
  /\ result = "no" /\ ended = "no" /\ pages = <<>>
  /\ Refused
  /\ result' = "error"
  /\ UNCHANGED <<fetchVars, call, org, rows, headers>>

(* One request of the loop, or its end.                                    *)
LoopStep ==
  /\ result = "no" /\ ~Refused
  /\ Fetch
  /\ UNCHANGED <<call, org, rows, headers, result>>

(* Somebody adds a record the call selects.                                *)
SelectedRecordAdded ==
  /\ result = "no"
  /\ RecordAdded
  /\ Records(remote') \subseteq
       Records(remote) \cup {n \in 1..MaxRecord : Selected(n)}
  /\ UNCHANGED <<call, org, rows, headers, result>>

(* Mutant of CapIsError: fetch() returns what it has at the cap.           *)
CapIsEnd == FALSE

(* fetch() takes the page cap for an error; the functions that tell their  *)
(* caller how the loop ended return what they have, and so does fetch()    *)
(* for Journals, although it does not tell.                                *)
CapIsError ==
  call.api = "fetch" /\ path = "page" /\ ended = "hit_max_pages_cap"

LoopFails ==
  /\ result = "no"
  /\ ended = "error" \/ CapIsError
  /\ result' = "error"
  /\ UNCHANGED <<fetchVars, call, org, rows, headers>>

(* The loop has ended: filter, then return or expand.                      *)
Filter ==
  LET kept == {n \in Records(pages) : Kept(n)} IN
  /\ result = "no"
  /\ ended \notin {"no", "error"} /\ ~CapIsError
  /\ rows' = {[record |-> n, detail |-> FALSE] : n \in kept}
  /\ headers' = IF call.expand THEN rows' ELSE {}
  /\ result' = IF call.expand THEN "expanding" ELSE "ok"
  /\ UNCHANGED <<fetchVars, call, org>>

(* fetch_one_by_id() answers with the detail, with nothing, or not at all; *)
(* only the first changes the row.                                         *)
ExpandRow ==
  /\ result = "expanding"
  /\ \E row \in headers :
       /\ headers' = headers \ {row}
       /\ rows' \in {(rows \ {row}) \cup {[row EXCEPT !.detail = TRUE]}, rows}
  /\ UNCHANGED <<fetchVars, call, org, result>>

Expanded ==
  /\ result = "expanding"
  /\ headers = {}
  /\ result' = "ok"
  /\ UNCHANGED <<fetchVars, call, org, rows, headers>>

ParsedNext ==
  \/ Refuse \/ LoopStep \/ SelectedRecordAdded
  \/ LoopFails \/ Filter \/ ExpandRow \/ Expanded

ParsedSpec == ParsedInit /\ [][ParsedNext]_parsedVars
----------------------------------------------------------------------------
ParsedTypeOK ==
  /\ RawFetchTypeOK
  /\ rows \subseteq [record : 1..MaxRecord, detail : BOOLEAN]
  /\ headers \subseteq rows
  /\ result \in {"no", "expanding", "ok", "error"}
  /\ result = "ok" => ended \notin {"no", "error"} /\ headers = {}

Dated(n) == DateOf[n] # Unknown /\ DateOf[n] \in call.start..(call.end - 1)

Before(n) ==
  call.before # Unbounded => ModifiedOf[n] # Unknown /\ ModifiedOf[n] < call.before

After(n) == call.after # Unbounded => ModifiedSince(n, call.after)

RowRecords == {row.record : row \in rows}

(* The caller is told that nothing was cut off: by the outcome, or, where  *)
(* fetch() returns none, by the call having returned Ok.  It is so unless  *)
(* a page was misread.                                                     *)
ToldComplete ==
  /\ result = "ok"
  /\ \/ ended \in {"ended_on_empty_page", "single_page"}
     \/ call.api = "fetch" /\ path = "page"

(* fetch_by_business_date(): the rows are dated in the half-open window,   *)
(* whether or not Xero filtered, and if the caller is told so they are all *)
(* there are, but for a page that was misread (lib.rs:304-309) and for     *)
(* journals: of those modified before the window begins the ones dated in  *)
(* it are not asked for (lib.rs:855 holds there are none, which no rule of *)
(* the program ensures for a post-dated journal).                          *)
BusinessWindowExact ==
  (call.api = "business" /\ result = "ok") =>
    /\ \A n \in RowRecords : Dated(n)
    /\ ToldComplete /\ ~misread =>
         \A n \in org :
           Dated(n) /\ (path = "offset" => ModifiedSince(n, call.start)) =>
             n \in RowRecords

(* fetch() and fetch_with_extras(): every record modified in the window    *)
(* has one row, with its detail or without, whichever requests for details *)
(* failed, and no other record has one that says when it was modified;     *)
(* records may be missing only if a page was misread (lib.rs:746-751) or   *)
(* the caller is told that the fetch was cut off.                          *)
ModifiedWindowExact ==
  (call.api # "business" /\ result = "ok") =>
    /\ \A n \in RowRecords : After(n) /\ Before(n)
    /\ \A row, other \in rows : row.record = other.record => row = other
    /\ ToldComplete /\ ~misread =>
         \A n \in org : After(n) /\ Before(n) => n \in RowRecords
============================================================================

------------------------------ MODULE SyncRun ------------------------------
(***************************************************************************)
(* One run of the uploader: SyncJob::run of xero-sync with the request     *)
(* loop of xero-client, the per-tenant limiter (module RateLimiter), the   *)
(* object-then-sidecar sink of xero-gcs and the manifest the CLI writes at *)
(* the end.                                                                *)
(*                                                                         *)
(* Every (tenant, entity) pair is a unit.  At most Concurrency units run   *)
(* as futures of one task; they interleave at their awaits, and each       *)
(* action below is the code of one unit from one await to the next (a      *)
(* stretch may be cut in two where that only adds interleavings).  A unit  *)
(* that ends appends its outcome and lets the next queued unit in, in the  *)
(* same step.  The process may be killed between any two steps.            *)
(*                                                                         *)
(* Data is abstracted: a response body is its number of records and, for   *)
(* the offset-paginated Journals, whether its largest journal number is    *)
(* above the current offset; record totals, dates and query strings are    *)
(* left out.  Sleeps may end at any moment.                                *)
(***************************************************************************)
EXTENDS Integers, Sequences, FiniteSets

CONSTANTS
  Tenants,
  Entities,
  KindOf,               \* how the client fetches each entity
  units,                \* the (tenant, entity) pairs of the run, in order
  max_concurrent,       \* --max-concurrent or its configured default
  MAX_CONCURRENCY,      \* 6 in the code
  MAX_CONCURRENT_PER_TENANT,
  PROACTIVE_THROTTLE_THRESHOLD,
  Quotas,
  NoQuota,
  MAX_ATTEMPTS,         \* 5 in the code
  MaxPages,             \* max_pages_per_entity()
  RemotePages           \* non-empty pages Xero can return for one unit

Kinds == {"single", "paged", "journals", "report", "aged_report"}

ASSUME RunAssumption ==
  /\ KindOf \in [Entities -> Kinds]
  /\ units \in Seq(Tenants \X Entities)
  /\ max_concurrent \in Nat
  /\ MAX_CONCURRENCY \in Nat \ {0}
  /\ MAX_CONCURRENT_PER_TENANT \in Nat \ {0}
  /\ PROACTIVE_THROTTLE_THRESHOLD \in Nat
  /\ Quotas \subseteq Nat
  /\ NoQuota \notin Nat
  /\ MAX_ATTEMPTS \in Nat
  /\ MaxPages \in Nat \ {0}
  /\ RemotePages \in Nat

(* The fan-out's ceiling is not above the limiter's: both are 6, in        *)
(* xero-sync/src/lib.rs:51 and xero-client/src/rate_limit.rs:23.           *)
ASSUME CeilingAssumption == MAX_CONCURRENCY <= MAX_CONCURRENT_PER_TENANT

N == Len(units)
Units == 1..N
TenantOf == [u \in Units |-> units[u][1]]
Kind(u) == KindOf[units[u][2]]

(* tenants x entities in the order of flat_map.                            *)
FlatMap(tenants, entities) ==
  LET k == Len(entities) IN
  [i \in 1..(Len(tenants) * k) |->
     <<tenants[((i - 1) \div k) + 1], entities[((i - 1) % k) + 1]>>]

(* max_concurrent.clamp(1, MAX_CONCURRENCY)                                *)
Concurrency ==
  IF max_concurrent < 1 THEN 1
  ELSE IF max_concurrent > MAX_CONCURRENCY THEN MAX_CONCURRENCY
  ELSE max_concurrent

VARIABLES
  inFlight, minRemaining, phase,  \* the limiters: see RateLimiter
  stage,     \* where the process is
  next,      \* index of the next unit to start
  running,   \* the units in FuturesUnordered
  pc,        \* where each unit is
  attempt,   \* retries of the current request
  fetched,   \* record counts of the pages collected in memory
  ended,     \* why the unit's pagination loop stopped
  uploaded,  \* pages whose put_raw returned
  outcomes,  \* EntityOutcomes in order of completion
  objects,   \* keys of the raw objects in the bucket
  sidecars,  \* keys whose .meta.json sidecar is in the bucket
  manifest   \* the manifest in the bucket

Limiter == INSTANCE RateLimiter WITH Callers <- Units

limiterVars == <<inFlight, minRemaining, phase>>
fetchVars == <<attempt, fetched, ended>>
fanVars == <<next, running, outcomes>>
sinkVars == <<uploaded, objects, sidecars>>
vars == <<limiterVars, stage, fanVars, pc, fetchVars, sinkVars, manifest>>

Stages == {"fanout", "manifest_sidecar", "ok", "failed", "crashed"}
Steps == {"queued", "token", "acquire", "request", "body", "backoff",
          "object", "sidecar", "settled"}
Terminations == {"ended_on_empty_page", "hit_max_pages_cap",
                 "offset_not_advancing", "report-snapshot"}
Outcomes == [unit : Units, pages : Nat, termination : Terminations \cup {"error"}]
NoManifest == [written |-> FALSE, entities |-> <<>>]
Keys == (Tenants \X Entities) \X Nat

TypeOK ==
  /\ Limiter!LimiterTypeOK
  /\ stage \in Stages
  /\ next \in 1..(N + 1)
  /\ running \in SUBSET Units
  /\ pc \in [Units -> Steps]
  /\ attempt \in [Units -> 0..MAX_ATTEMPTS]
  /\ fetched \in [Units -> Seq(Nat)]
  /\ ended \in [Units -> Terminations \cup {"none"}]
  /\ uploaded \in [Units -> Nat]
  /\ outcomes \in Seq(Outcomes)
  /\ objects \in SUBSET Keys
  /\ sidecars \in SUBSET Keys
  /\ manifest \in [written : BOOLEAN, entities : Seq(Outcomes)]

(* Mutant of Primed: the pump is primed while in_flight.len() <= width.    *)
PrimedOneMore == IF N < Concurrency + 1 THEN N ELSE Concurrency + 1

(* run() up to its first await: the units that prime the pump are started. *)
Primed == IF N < Concurrency THEN N ELSE Concurrency

Init ==
  /\ Limiter!LimiterInit
  /\ stage = "fanout"
  /\ next = Primed + 1
  /\ running = 1..Primed
  /\ pc = [u \in Units |-> IF u <= Primed THEN "token" ELSE "queued"]
  /\ attempt = [u \in Units |-> 0]
  /\ fetched = [u \in Units |-> <<>>]
  /\ ended = [u \in Units |-> "none"]
  /\ uploaded = [u \in Units |-> 0]
  /\ outcomes = <<>>
  /\ objects = {}
  /\ sidecars = {}
  /\ manifest = NoManifest
----------------------------------------------------------------------------
(* Moving a unit on, and ending it.                                        *)
At(u, step) == stage = "fanout" /\ pc[u] = step

Goto(u, step) ==
  /\ pc' = [pc EXCEPT ![u] = step]
  /\ UNCHANGED fanVars

(* Mutants of Settle: the refill does not advance the iterator; a unit     *)
(* that has ended is not replaced.                                         *)
SettleSameUnitAgain(u, outcome) ==
  /\ outcomes' = Append(outcomes, outcome)
  /\ running' = (running \ {u}) \cup ({next} \cap Units)
  /\ UNCHANGED next
  /\ pc' = [v \in Units |-> IF v = next THEN "token"
                               ELSE IF v = u THEN "settled" ELSE pc[v]]

SettleWithoutRefill(u, outcome) ==
  /\ outcomes' = Append(outcomes, outcome)
  /\ running' = running \ {u}
  /\ pc' = [pc EXCEPT ![u] = "settled"]
  /\ UNCHANGED next

(* in_flight.next() yields the outcome: it is recorded and the next queued *)
(* unit, if there is one, takes the place.                                 *)
Settle(u, outcome) ==
  /\ outcomes' = Append(outcomes, outcome)
  /\ running' = (running \ {u}) \cup ({next} \cap Units)
  /\ next' = IF next <= N THEN next + 1 ELSE next
  /\ pc' = [v \in Units |-> IF v = u THEN "settled"
                               ELSE IF v = next THEN "token"
                               ELSE pc[v]]

(* run_unit turns any error into an outcome: nothing counts as fetched,    *)
(* whatever was uploaded before.                                           *)
Fail(u) == Settle(u, [unit |-> u, pages |-> 0, termination |-> "error"])

(* PaginationOutcome.pages_fetched: the page loop subtracts the terminal   *)
(* empty page, the offset loop counts it.                                  *)
PagesFetched(u) ==
  IF Kind(u) = "paged" /\ ended[u] = "ended_on_empty_page"
    THEN Len(fetched[u]) - 1
    ELSE Len(fetched[u])

Succeed(u) ==
  Settle(u, [unit |-> u, pages |-> PagesFetched(u), termination |-> ended[u]])

(* Mutant of Key: the page index is not part of the key.                   *)
KeyWithoutPage(u) == <<units[u], 1>>

Key(u) == <<units[u], uploaded[u] + 1>>
----------------------------------------------------------------------------
(* fetch_token_for_tenant returned a token and, for a report, the query    *)
(* parameters are complete.                                                *)
FetchToken(u) ==
  /\ At(u, "token")
  /\ Kind(u) # "aged_report"
  /\ Goto(u, "acquire")
  /\ UNCHANGED <<limiterVars, stage, fetchVars, sinkVars, manifest>>

(* No token; or an aged report, for which report_params never supplies the *)
(* contactId that validate_report_params wants.                            *)
TokenFails(u) ==
  /\ At(u, "token")
  /\ Fail(u)
  /\ UNCHANGED <<limiterVars, stage, fetchVars, sinkVars, manifest>>

(* limiter.acquire() before a request: sleep first if the quota is low.    *)
AwaitQuota(u) ==
  /\ At(u, "acquire")
  /\ Limiter!Throttle(u)
  /\ UNCHANGED <<stage, fanVars, pc, fetchVars, sinkVars, manifest>>

(* acquire() returns the permit and the request goes out.                  *)
Send(u) ==
  /\ At(u, "acquire")
  /\ Limiter!TakePermit(u) \/ Limiter!WakeAndTakePermit(u)
  /\ Goto(u, "request")
  /\ UNCHANGED <<stage, fetchVars, sinkVars, manifest>>

(* A response with its headers; a transport error has none.                *)
Headers(u) == \E q \in Quotas \cup {NoQuota} : Limiter!UpdateFromHeaders(u, q)

(* 200: the body is read with the permit still held.                       *)
RespondSuccess(u) ==
  /\ At(u, "request")
  /\ Headers(u)
  /\ Goto(u, "body")
  /\ UNCHANGED <<inFlight, phase, stage, fetchVars, sinkVars, manifest>>

(* Mutants of RespondRetryable: no limit on the attempts; the attempt is   *)
(* not counted; the permit is held during the sleep.                       *)
RetryBeyondMax(u) ==
  /\ At(u, "request")
  /\ Headers(u)
  /\ Limiter!DropPermit(u)
  /\ attempt' = [attempt EXCEPT ![u] = @ + 1]
  /\ attempt[u] <= MAX_ATTEMPTS
  /\ Goto(u, "backoff")
  /\ UNCHANGED <<stage, fetched, ended, sinkVars, manifest>>

RetryUncounted(u) ==
  /\ At(u, "request")
  /\ Headers(u)
  /\ Limiter!DropPermit(u)
  /\ Goto(u, "backoff")
  /\ UNCHANGED <<stage, fetchVars, sinkVars, manifest>>

RetryHoldingPermit(u) ==
  /\ At(u, "request")
  /\ attempt[u] < MAX_ATTEMPTS
  /\ Headers(u)
  /\ attempt' = [attempt EXCEPT ![u] = @ + 1]
  /\ Goto(u, "backoff")
  /\ UNCHANGED <<inFlight, phase, stage, fetched, ended, sinkVars, manifest>>

(* 429, 5xx or a transient transport error with attempts left: the permit  *)
(* is dropped for the time of the sleep.                                   *)
RespondRetryable(u) ==
  /\ At(u, "request")
  /\ attempt[u] < MAX_ATTEMPTS
  /\ Headers(u)
  /\ Limiter!DropPermit(u)
  /\ attempt' = [attempt EXCEPT ![u] = @ + 1]
  /\ Goto(u, "backoff")
  /\ UNCHANGED <<stage, fetched, ended, sinkVars, manifest>>

BackoffEnds(u) ==
  /\ At(u, "backoff")
  /\ Goto(u, "acquire")
  /\ UNCHANGED <<limiterVars, stage, fetchVars, sinkVars, manifest>>

(* Any other 4xx, a 304 to a report request, a transport error that is not *)
(* transient, or the last attempt used up: the pages collected so far are  *)
(* dropped with the unit.                                                  *)
RespondFatal(u) ==
  /\ At(u, "request")
  /\ Headers(u)
  /\ Limiter!DropPermit(u)
  /\ Fail(u)
  /\ UNCHANGED <<stage, fetchVars, sinkVars, manifest>>

(* Why the loop stops after a page with n records, as page number p.       *)
StopReason(u, p, n, advances) ==
  IF Kind(u) = "report" THEN "report-snapshot"
  ELSE IF Kind(u) = "single" \/ n = 0 THEN "ended_on_empty_page"
  ELSE IF Kind(u) = "journals" /\ ~advances THEN "offset_not_advancing"
  ELSE IF p >= MaxPages THEN "hit_max_pages_cap"
  ELSE "none"

(* fetch_raw_with_query returned a page; the permit went out of scope.     *)
CollectPage(u, n, advances) ==
  LET reason == StopReason(u, Len(fetched[u]) + 1, n, advances) IN
  /\ Limiter!DropPermit(u)
  /\ fetched' = [fetched EXCEPT ![u] = Append(@, n)]
  /\ ended' = [ended EXCEPT ![u] = reason]
  /\ attempt' = [attempt EXCEPT ![u] = 0]
  /\ Goto(u, IF reason = "none" THEN "acquire" ELSE "object")

(* 304: an empty page (fetch_report_raw has no such branch).               *)
RespondNotModified(u) ==
  /\ At(u, "request")
  /\ Kind(u) # "report"
  /\ Headers(u)
  /\ CollectPage(u, 0, FALSE)
  /\ UNCHANGED <<stage, sinkVars, manifest>>

(* The records a body can hold: none past the remote's last page, and none *)
(* at any page when it does not parse; a report always counts as one.      *)
BodyRecords(u) ==
  IF Kind(u) = "report" THEN {1}
  ELSE IF Len(fetched[u]) < RemotePages THEN {0, 1} ELSE {0}

ReadBody(u) ==
  /\ At(u, "body")
  /\ \E n \in BodyRecords(u), advances \in BOOLEAN : CollectPage(u, n, advances)
  /\ UNCHANGED <<minRemaining, stage, sinkVars, manifest>>

(* The connection breaks while the body is read: not retried.              *)
BodyFails(u) ==
  /\ At(u, "body")
  /\ Limiter!DropPermit(u)
  /\ Fail(u)
  /\ UNCHANGED <<minRemaining, stage, fetchVars, sinkVars, manifest>>
----------------------------------------------------------------------------
(* Mutant of PutObject: the sidecar is put before the object.              *)
PutSidecarFirst(u) ==
  /\ At(u, "object")
  /\ sidecars' = sidecars \cup {Key(u)}
  /\ Goto(u, "sidecar")
  /\ UNCHANGED <<limiterVars, stage, fetchVars, uploaded, objects, manifest>>

(* put_raw, first half: the object.                                        *)
PutObject(u) ==
  /\ At(u, "object")
  /\ objects' = objects \cup {Key(u)}
  /\ Goto(u, "sidecar")
  /\ UNCHANGED <<limiterVars, stage, fetchVars, uploaded, sidecars, manifest>>

(* The upload reports an error; the bucket may have taken the object.      *)
PutObjectFails(u) ==
  /\ At(u, "object")
  /\ objects' \in {objects, objects \cup {Key(u)}}
  /\ Fail(u)
  /\ UNCHANGED <<limiterVars, stage, fetchVars, uploaded, sidecars, manifest>>

(* put_raw, second half: the sidecar; then the next page or the outcome.   *)
PutSidecar(u) ==
  /\ At(u, "sidecar")
  /\ sidecars' = sidecars \cup {Key(u)}
  /\ uploaded' = [uploaded EXCEPT ![u] = @ + 1]
  /\ IF uploaded[u] + 1 < Len(fetched[u]) THEN Goto(u, "object") ELSE Succeed(u)
  /\ UNCHANGED <<limiterVars, stage, fetchVars, objects, manifest>>

(* Mutant of PutSidecarFails: the error is logged and the loop goes on.    *)
PutSidecarFailureIgnored(u) ==
  /\ At(u, "sidecar")
  /\ uploaded' = [uploaded EXCEPT ![u] = @ + 1]
  /\ IF uploaded[u] + 1 < Len(fetched[u]) THEN Goto(u, "object") ELSE Succeed(u)
  /\ UNCHANGED <<limiterVars, stage, fetchVars, objects, sidecars, manifest>>

PutSidecarFails(u) ==
  /\ At(u, "sidecar")
  /\ sidecars' \in {sidecars, sidecars \cup {Key(u)}}
  /\ Fail(u)
  /\ UNCHANGED <<limiterVars, stage, fetchVars, uploaded, objects, manifest>>
----------------------------------------------------------------------------
(* write_manifest after the last outcome; it is a put_raw as well.         *)
Quiet == UNCHANGED <<limiterVars, fanVars, pc, fetchVars, sinkVars>>

WriteManifest ==
  /\ stage = "fanout"
  /\ running = {}
  /\ manifest' = [written |-> TRUE, entities |-> outcomes]
  /\ stage' = "manifest_sidecar"
  /\ Quiet

WriteManifestSidecar ==
  /\ stage = "manifest_sidecar"
  /\ stage' = "ok"
  /\ UNCHANGED manifest
  /\ Quiet

WriteManifestFails ==
  /\ \/ stage = "fanout" /\ running = {}
        /\ manifest' \in {manifest, [written |-> TRUE, entities |-> outcomes]}
     \/ stage = "manifest_sidecar" /\ UNCHANGED manifest
  /\ stage' = "failed"
  /\ Quiet

(* The process is killed.  Nothing is persisted locally: a later run       *)
(* starts from Init with a fresh run id, hence with fresh keys.            *)
Crash ==
  /\ stage \in {"fanout", "manifest_sidecar"}
  /\ stage' = "crashed"
  /\ UNCHANGED manifest
  /\ Quiet

UnitStep(u) ==
  \/ FetchToken(u) \/ TokenFails(u)
  \/ AwaitQuota(u) \/ Send(u)
  \/ RespondSuccess(u) \/ RespondRetryable(u) \/ BackoffEnds(u)
  \/ RespondFatal(u) \/ RespondNotModified(u)
  \/ ReadBody(u) \/ BodyFails(u)
  \/ PutObject(u) \/ PutObjectFails(u)
  \/ PutSidecar(u) \/ PutSidecarFails(u)

ManifestStep == WriteManifest \/ WriteManifestSidecar \/ WriteManifestFails

(* The process has exited.                                                 *)
Exited == stage \in {"ok", "failed", "crashed"} /\ UNCHANGED vars

Next == (\E u \in Units : UnitStep(u)) \/ ManifestStep \/ Crash \/ Exited

Spec == Init /\ [][Next]_vars

(* The runtime polls every woken future, and every await ends: requests to *)
(* Xero have a 60 s timeout (xero-client/src/lib.rs:172), sleeps are       *)
(* finite, and the token and bucket clients end with a result or an error. *)
Fairness == (\A u \in Units : WF_vars(UnitStep(u))) /\ WF_vars(ManifestStep)

FairSpec == Spec /\ Fairness
----------------------------------------------------------------------------
Settled(u) == \E i \in DOMAIN outcomes : outcomes[i].unit = u

SettledOk(u) ==
  \E i \in DOMAIN outcomes : outcomes[i].unit = u /\ outcomes[i].termination # "error"

(* SyncJob::run never has more than clamp(max_concurrent, 1, 6) units in   *)
(* flight: the refill adds one only after one has left.                    *)
ConcurrencyBound == Cardinality(running) <= Concurrency

(* No unit is lost, started twice or reported twice: the started units are *)
(* those in flight and those with an outcome, each of the latter with one. *)
OneOutcomePerUnit ==
  /\ 1..(next - 1) = running \cup {u \in Units : Settled(u)}
  /\ \A u \in running : ~Settled(u)
  /\ \A i, j \in DOMAIN outcomes : outcomes[i].unit = outcomes[j].unit => i = j

(* The limiter's counter is the number of requests in flight, on every     *)
(* path out of the request loop: retries, 304s, errors and normal returns  *)
(* all give the permit back, and a sleeping or uploading unit has none.    *)
PermitsBalanced ==
  \A t \in Tenants :
    inFlight[t] = Cardinality({u \in Units : /\ TenantOf[u] = t
                                             /\ pc[u] \in {"request", "body"}})

(* Although acquire() increments after its test is stale, a run never has  *)
(* more than MAX_CONCURRENT_PER_TENANT requests in flight for a tenant,    *)
(* and no unit ever waits in the limiter's 50 ms loop.                     *)
CapNeverBlocks ==
  \A u \in Units :
    /\ inFlight[TenantOf[u]] <= MAX_CONCURRENT_PER_TENANT
    /\ pc[u] = "acquire" => Limiter!UnderCap(TenantOf[u])

(* The registry of limiters outlives the run (a backfill makes many runs   *)
(* in one process): when the run has its manifest, every permit is back.   *)
PermitsReturned ==
  (manifest.written \/ stage \in {"ok", "failed"})
    => \A t \in Tenants : inFlight[t] = 0

(* The ETL is triggered by sidecars: whatever fails or crashes in between, *)
(* a sidecar is never in the bucket without its object, and the pages of a *)
(* unit become visible without a gap.                                      *)
SidecarsUsable ==
  /\ sidecars \subseteq objects
  /\ \A k \in sidecars : k[2] > 1 => <<k[1], k[2] - 1>> \in sidecars

(* The pages put_raw has acknowledged for a unit that reports success.     *)
ReportedPages(o) ==
  IF Kind(o.unit) = "paged" /\ o.termination = "ended_on_empty_page"
    THEN o.pages + 1 ELSE o.pages

Backed(o, bucket) ==
  /\ ReportedPages(o) >= 1
  /\ \A p \in 1..ReportedPages(o) : <<units[o.unit], p>> \in bucket

(* A success in the manifest is backed by the bucket: each page it counts, *)
(* and the terminal empty page of a page loop, is there with its sidecar;  *)
(* and there is an entry for each unit.                                    *)
ManifestBacked ==
  /\ \A i \in DOMAIN outcomes :
       outcomes[i].termination # "error" => Backed(outcomes[i], sidecars \cap objects)
  /\ manifest.written =>
       /\ manifest.entities = outcomes
       /\ \A u \in Units : Settled(u)

(* The inductive invariant behind the invariants above.  Units are started *)
(* in order, are in flight exactly between their start and their outcome,  *)
(* and none waits in the queue while nothing runs.                         *)
FanOutInv ==
  /\ \A u \in Units :
       /\ u \in running <=> pc[u] \notin {"queued", "settled"}
       /\ pc[u] = "queued" <=> u >= next
       /\ pc[u] = "settled" <=> Settled(u)
  /\ \A i, j \in DOMAIN outcomes : outcomes[i].unit = outcomes[j].unit => i = j
  /\ next <= N => running # {}

(* A unit uploads only pages it has collected, for a loop that has ended.  *)
UploadInv ==
  \A u \in Units :
    /\ uploaded[u] <= Len(fetched[u])
    /\ pc[u] \in {"object", "sidecar"} =>
         ended[u] \in Terminations /\ uploaded[u] < Len(fetched[u])

(* What put_raw has acknowledged is in the bucket.                         *)
LandedInv ==
  \A u \in Units :
    /\ \A p \in 1..uploaded[u] : <<units[u], p>> \in sidecars \cap objects
    /\ pc[u] = "sidecar" => Key(u) \in objects

(* The manifest is written, and the process exits, only when all is done.  *)
StageInv ==
  /\ manifest.written => manifest.entities = outcomes
  /\ manifest.written \/ stage \in {"manifest_sidecar", "ok", "failed"}
       => running = {}
  /\ manifest.written => stage # "fanout"

IInv ==
  /\ TypeOK /\ FanOutInv /\ UploadInv /\ LandedInv /\ StageInv
  /\ ConcurrencyBound /\ PermitsBalanced /\ SidecarsUsable /\ ManifestBacked

(* "append-only objects" (README.md:19): no put_raw of the run writes a    *)
(* key that is already in the bucket.                                      *)
AppendOnly ==
  [][\A u \in Units :
       pc[u] = "object" /\ pc'[u] = "sidecar" => Key(u) \notin objects]_vars

(* Every run comes to an end, for bounded retries and finitely many pages: *)
(* no unit waits for another one for ever.                                 *)
RunEnds == <>(stage \in {"ok", "failed", "crashed"})

(* The run implements FanOut: status, visible pages and report are read    *)
(* off the futures, the bucket and the manifest.                           *)
StatusOf(u) ==
  CASE pc[u] = "queued"  -> "queued"
    [] pc[u] = "settled" -> IF SettledOk(u) THEN "ok" ELSE "error"
    [] OTHER             -> "running"

ReportOf ==
  [u \in Units |-> IF manifest.written THEN StatusOf(u) ELSE "unpublished"]

Visible(u) == {k[2] : k \in {x \in sidecars : x[1] = units[u]}}

StatusMap == [u \in Units |-> StatusOf(u)]
VisibleMap == [u \in Units |-> Visible(u)]

Abstract == INSTANCE FanOut WITH
  Width   <- Concurrency,
  status  <- StatusMap,
  visible <- VisibleMap,
  report  <- ReportOf

ImplementsFanOut == Abstract!Spec
============================================================================

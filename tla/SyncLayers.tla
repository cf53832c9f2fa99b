----------------------------- MODULE SyncLayers ----------------------------
(***************************************************************************)
(* What the layers of deploy/crontab.example bring into the bucket of one  *)
(* transactional entity of one tenant, while its records change.           *)
(*                                                                         *)
(* A read is one (tenant, entity) unit of one run: it takes its stamp      *)
(* (x-synced-at) and its filter when it starts (xero-sync/src/lib.rs), the *)
(* filter depends on the layer (mode.rs), it pages through what matches    *)
(* it, and then uploads page after page.  Nothing is remembered between    *)
(* runs.  Runs are started by cron, whether the last one has ended or not, *)
(* so reads overlap; a read that fails leaves in the bucket what it has    *)
(* uploaded.                                                               *)
(*                                                                         *)
(* A page is one record here, records are paged in a fixed order, and      *)
(* ?page=N counts what matches when it is asked: when a record leaves the  *)
(* filter while pages are fetched the later ones move up and one may be    *)
(* skipped.  Such a read is called disturbed, and so is one whose loop     *)
(* ends before the data does.  Time is counted in days.                    *)
(*                                                                         *)
(* What is promised is of the bucket: of the capture of a record with the  *)
(* latest stamp, which _dedup_by_key() of the ETL keeps of a batch.  The   *)
(* staging row may be older, since MERGE compares no stamps (Staging).     *)
(***************************************************************************)
EXTENDS Integers, Sequences, FiniteSets

CONSTANTS
  Records,       \* numbers: their order is the order of the pages
  DateOf,        \* the business date of each record
  Readers,       \* units that may overlap
  Layers,        \* the layers cron runs
  WindowDays,    \* SYNC_WINDOW_DAYS
  TightDays,     \* SYNC_ROLLING_FULL_TIGHT_DAYS
  MaxQueue,      \* days a unit may wait in its run before it starts
  MaxStarts,     \* bound on the reads that start at one time
  MaxTime,       \* bound on the clock
  MaxVersion,    \* bound on the changes of a record
  NoRead

SyncTypes == {"incremental", "open-sweep", "rolling-full", "master"}

ASSUME LayersAssumption ==
  /\ Records \subseteq Nat
  /\ DateOf \in [Records -> Int]
  /\ Layers \subseteq SyncTypes
  /\ WindowDays \in Nat
  /\ TightDays \in Nat
  /\ MaxQueue \in Nat
  /\ MaxStarts \in Nat
  /\ MaxTime \in Nat
  /\ MaxVersion \in Nat \ {0}

VARIABLES
  now,      \* Utc::now()
  starts,   \* how many reads have started at this time
  xero,     \* the records as Xero has them
  reads,    \* the reads under way
  bucket,   \* the captures uploaded so far
  covered,  \* incremental reads have followed each other closely up to here
  swept,    \* start of the latest open-sweep
  rolled    \* start of the latest rolling-full over each record's date

layerVars == <<now, starts, xero, reads, bucket, covered, swept, rolled>>

(* A record of Xero: its version counts every change, bumped is the last   *)
(* version that moved UpdatedDateUTC (modified), touched the time of the   *)
(* last change of any kind, open whether its status is AUTHORISED.         *)
Versions == 1..MaxVersion
XeroRecord ==
  [open : BOOLEAN, version : Versions, bumped : Versions,
   modified : Nat, touched : Nat]

Filters ==
  [by : {"none", "modified", "open", "date"}, from : Int, to : Int]

(* A page in the bucket: the version of a record and the stamp of its read.*)
Captures == [record : Records, version : Versions, synced_at : Nat]

Pages == [record : Records, version : Versions]

(* The pages a read has got are those it has fetched and not yet uploaded. *)
Reads ==
  [layer : SyncTypes, synced_at : Nat, filter : Filters, due : SUBSET Int,
   phase : {"fetching", "uploading"}, got : Seq(Pages), disturbed : BOOLEAN]

ASSUME NoReadAssumption == NoRead \notin Reads

LayersTypeOK ==
  /\ now \in Nat
  /\ starts \in 0..MaxStarts
  /\ xero \in [Records -> XeroRecord]
  /\ reads \in [Readers -> Reads \cup {NoRead}]
  /\ bucket \subseteq Captures
  /\ \A c \in bucket : c.synced_at <= now
  /\ covered \in 0..now /\ swept \in 0..now
  /\ rolled \in [Records -> 0..now]

LayersInit ==
  /\ now = 0
  /\ starts = 0
  /\ xero = [x \in Records |->
       [open |-> TRUE, version |-> 1, bumped |-> 1,
        modified |-> 0, touched |-> 0]]
  /\ reads = [r \in Readers |-> NoRead]
  /\ bucket = {}
  /\ covered = 0
  /\ swept = 0
  /\ rolled = [x \in Records |-> 0]
----------------------------------------------------------------------------
(* rolling_window(): `days` days up to and with run_date, at least one.    *)
RollingWindow(run_date, days) ==
  [from |-> run_date - ((IF days > 1 THEN days ELSE 1) - 1), to |-> run_date]

(* Mutant of ModifiedAfter: the lower bound one day late.                  *)
ModifiedAfterLate(time) == time - WindowDays + 1

(* incremental_modified_after()                                            *)
ModifiedAfter(time) == time - WindowDays

(* Mutant of FilterOf: the sweep keeps the modified window.                *)
FilterWithWindow(layer, time, run_date) ==
  CASE layer = "rolling-full" ->
         [by |-> "date", from |-> RollingWindow(run_date, TightDays).from,
          to |-> RollingWindow(run_date, TightDays).to]
    [] layer = "master" -> [by |-> "none", from |-> 0, to |-> 0]
    [] OTHER -> [by |-> "modified", from |-> ModifiedAfter(time), to |-> 0]

(* Mutant of FilterOf: the rolling window ends the day before.             *)
FilterBeforeRunDate(layer, time, run_date) ==
  CASE layer = "rolling-full" ->
         [by |-> "date", from |-> RollingWindow(run_date, TightDays).from,
          to |-> run_date - 1]
    [] layer = "open-sweep" -> [by |-> "open", from |-> 0, to |-> 0]
    [] layer = "master" -> [by |-> "none", from |-> 0, to |-> 0]
    [] OTHER -> [by |-> "modified", from |-> ModifiedAfter(time), to |-> 0]

(* fetch_params() for an entity with a business date.                      *)
FilterOf(layer, time, run_date) ==
  LET window == RollingWindow(run_date, TightDays) IN
  CASE layer = "incremental" ->
         [by |-> "modified", from |-> ModifiedAfter(time), to |-> 0]
    [] layer = "open-sweep" -> [by |-> "open", from |-> 0, to |-> 0]
    [] layer = "rolling-full" ->
         [by |-> "date", from |-> window.from, to |-> window.to]
    [] layer = "master" -> [by |-> "none", from |-> 0, to |-> 0]

(* Whether Xero's answer to a filter has the record with these fields.     *)
Matches(filter, x, fields) ==
  /\ filter.by = "modified" => fields.modified >= filter.from
  /\ filter.by = "open" => fields.open
  /\ filter.by = "date" => DateOf[x] \in filter.from..filter.to
----------------------------------------------------------------------------
(* Users of the Xero organisation change record x.                         *)
Disturbs(r, x, fields) ==
  /\ reads[r] # NoRead
  /\ reads[r].phase = "fetching"
  /\ Matches(reads[r].filter, x, xero[x])
  /\ ~Matches(reads[r].filter, x, fields)

Update(x, fields) ==
  /\ xero' = [xero EXCEPT ![x] = fields]
  /\ reads' = [r \in Readers |->
       IF Disturbs(r, x, fields)
       THEN [reads[r] EXCEPT !.disturbed = TRUE] ELSE reads[r]]
  /\ UNCHANGED <<now, starts, bucket, covered, swept, rolled>>

(* An edit, a payment or a void: UpdatedDateUTC moves.                     *)
Change(x) ==
  /\ xero[x].version < MaxVersion
  /\ \E open \in {xero[x].open, FALSE} :
       Update(x, [open |-> open, version |-> xero[x].version + 1,
                  bumped |-> xero[x].version + 1,
                  modified |-> now, touched |-> now])

(* A linked change that does not move the UpdatedDateUTC of its parent.    *)
LinkedChange(x) ==
  /\ xero[x].version < MaxVersion
  /\ Update(x, [xero[x] EXCEPT !.version = @ + 1, !.touched = now])

Tick ==
  /\ now < MaxTime
  /\ now' = now + 1
  /\ starts' = 0
  /\ UNCHANGED <<xero, reads, bucket, covered, swept, rolled>>
----------------------------------------------------------------------------
(* The business dates a run answers for: TightDays of them up to its own.  *)
Due(layer, run_date) ==
  IF layer = "rolling-full" THEN (run_date - TightDays + 1)..run_date ELSE {}

(* run_entity() has its token: the stamp and the bounds are taken.  The    *)
(* date of the run was taken when its command started, before the unit was *)
(* queued.                                                                 *)
StartRead(r, layer) ==
  /\ reads[r] = NoRead
  /\ starts < MaxStarts
  /\ starts' = starts + 1
  /\ \E run_date \in 0..now :
       /\ now - run_date <= MaxQueue
       /\ reads' = [reads EXCEPT ![r] =
            [layer |-> layer, synced_at |-> now,
             filter |-> FilterOf(layer, now, run_date),
             due |-> Due(layer, run_date),
             phase |-> "fetching", got |-> <<>>, disturbed |-> FALSE]]
  /\ UNCHANGED <<now, xero, bucket, covered, swept, rolled>>

Matching(r) == {x \in Records : Matches(reads[r].filter, x, xero[x])}

(* The record on the page a read asks for next, if there is one.           *)
OnPage(r) ==
  {x \in Matching(r) :
     Cardinality({y \in Matching(r) : y < x}) = Len(reads[r].got)}

(* One turn of the loop in fetch_raw_pages().                              *)
FetchPage(r) ==
  /\ reads[r] # NoRead
  /\ reads[r].phase = "fetching"
  /\ \E x \in OnPage(r) :
       reads' = [reads EXCEPT
         ![r].got = Append(@, [record |-> x, version |-> xero[x].version])]
  /\ UNCHANGED <<now, starts, xero, bucket, covered, swept, rolled>>

(* The loop returns its pages: after the empty page, or before the end of  *)
(* the data, at the cap or at a page it misread (RawFetch).                *)
EndFetch(r) ==
  /\ reads[r] # NoRead
  /\ reads[r].phase = "fetching"
  /\ reads' = [reads EXCEPT ![r].phase = "uploading",
                            ![r].disturbed = @ \/ OnPage(r) # {}]
  /\ UNCHANGED <<now, starts, xero, bucket, covered, swept, rolled>>

(* Mutant of SyncedAt: a local time, which is ahead of UTC.                *)
SyncedAtLocal(r) == reads[r].synced_at + 1

(* The x-synced-at of a unit's objects: taken before its first request.    *)
SyncedAt(r) == reads[r].synced_at

(* put_raw() of the next page.                                             *)
UploadPage(r) ==
  /\ reads[r] # NoRead
  /\ reads[r].phase = "uploading"
  /\ reads[r].got # <<>>
  /\ LET page == Head(reads[r].got) IN
       bucket' = bucket \cup
         {[record |-> page.record, version |-> page.version,
           synced_at |-> SyncedAt(r)]}
  /\ reads' = [reads EXCEPT ![r].got = Tail(@)]
  /\ UNCHANGED <<now, starts, xero, covered, swept, rolled>>

(* Every page is in the bucket.  The read extends what the layer has       *)
(* covered unless it was disturbed; an incremental one does so only if its *)
(* window reaches back to what was covered before.                         *)
FinishRead(r) ==
  LET read == reads[r]
      Extends(layer) == read.layer = layer /\ ~read.disturbed
      Later(time) == IF read.synced_at > time THEN read.synced_at ELSE time
  IN
  /\ read # NoRead
  /\ read.phase = "uploading"
  /\ read.got = <<>>
  /\ reads' = [reads EXCEPT ![r] = NoRead]
  /\ covered' = IF /\ Extends("incremental")
                   /\ read.synced_at - WindowDays <= covered
                THEN Later(covered) ELSE covered
  /\ swept' = IF Extends("open-sweep") THEN Later(swept) ELSE swept
  /\ rolled' = [x \in Records |->
       IF Extends("rolling-full") /\ DateOf[x] \in read.due
       THEN Later(rolled[x]) ELSE rolled[x]]
  /\ UNCHANGED <<now, starts, xero, bucket>>

(* run_unit(): a request or an upload failed, or the process was killed.   *)
(* What was uploaded before stays in the bucket.                           *)
ReadFails(r) ==
  /\ reads[r] # NoRead
  /\ reads' = [reads EXCEPT ![r] = NoRead]
  /\ UNCHANGED <<now, starts, xero, bucket, covered, swept, rolled>>

LayersNext ==
  \/ \E x \in Records : Change(x) \/ LinkedChange(x)
  \/ Tick
  \/ \E r \in Readers :
       \/ \E layer \in Layers : StartRead(r, layer)
       \/ FetchPage(r)
       \/ EndFetch(r)
       \/ UploadPage(r)
       \/ FinishRead(r)
       \/ ReadFails(r)

LayersSpec == LayersInit /\ [][LayersNext]_layerVars
----------------------------------------------------------------------------
(* The captures of a record with the latest stamp.  There are several if   *)
(* a read came across the record twice.                                    *)
Latest(x) ==
  {c \in bucket :
     /\ c.record = x
     /\ \A d \in bucket : d.record = x => d.synced_at <= c.synced_at}

(* What the bucket knows of record x, to one who takes the latest stamp as *)
(* _dedup_by_key() does, is one of these versions.                         *)
LatestIs(x, versions) ==
  Latest(x) # {} /\ \A c \in Latest(x) : c.version \in versions

(* "modified >= now-3d, every 4h, catches churn, closes, voids"            *)
(* (docs/NEW_ARCHITECTURE_RAW_GCS.md): as long as each undisturbed         *)
(* incremental read starts at most WindowDays after the one before it,     *)
(* every change that moves UpdatedDateUTC and lies before the last of them *)
(* is in the latest capture, however reads of the three layers fail, with  *)
(* some of their pages uploaded, overlap and finish out of order.          *)
NoChangeMissed ==
  \A x \in Records :
    xero[x].modified < covered => LatestIs(x, xero[x].bumped..MaxVersion)

(* open-sweep "catches open items unchanged > 3d": after an undisturbed    *)
(* sweep, whatever the incremental layer lost before it, the latest        *)
(* capture of every record still open and not changed since the sweep      *)
(* started is the record, even if a read that started earlier uploads an   *)
(* older version afterwards.                                               *)
SweepRepairs ==
  \A x \in Records :
    xero[x].open /\ xero[x].touched < swept =>
      LatestIs(x, {xero[x].version})

(* rolling-full catches "drift": after an undisturbed read over a record's *)
(* business date the latest capture is the record as it is, even if its    *)
(* last change did not move UpdatedDateUTC.                                *)
RollingRepairs ==
  \A x \in Records :
    xero[x].touched < rolled[x] => LatestIs(x, {xero[x].version})
============================================================================

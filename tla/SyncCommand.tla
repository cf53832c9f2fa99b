---------------------------- MODULE SyncCommand ----------------------------
(***************************************************************************)
(* One `xero sync` command (xero-cli): from its flags to the run manifest. *)
(*                                                                         *)
(* The command resolves a mode and a set of entities and runs SyncJob once *)
(* or, for a backfill, once in full for the entities that take no date     *)
(* filter and once for each chunk of the date range.  The parts share one  *)
(* run id and end in one merged manifest.  A part is a step here: module   *)
(* SyncRun models what happens inside one, and its theorem EveryUnitOnce   *)
(* is why a part adds one outcome for each of its units.                   *)
(*                                                                         *)
(* Dates are numbers.  Adding months is chrono's; all that is assumed of   *)
(* it is that it moves forward or finds no date.                           *)
(***************************************************************************)
EXTENDS Integers, Sequences

CONSTANTS
  Args,            \* the command lines to consider
  Tenants,         \* the tenants resolve_tenants returned
  Reports,         \* entities that are reports
  Windowable,      \* is_date_windowable
  Master,          \* master_data
  OpenStatus,      \* open_status
  Accounting,      \* EntityType::all(), no report in it
  ReportsDefault,  \* reports_default
  MaxDate,         \* NaiveDate::MAX
  AddMonths(_, _), \* checked_add_months
  NoDate,          \* an absent date or window
  Today,           \* run_date
  TightDays,       \* rolling_full_tight_days
  MaxClock         \* bound on the seconds a command takes

Dates == 0..MaxDate
Entities == Accounting \cup Reports

(* What a command line says; an empty entity stands for no --entity.       *)
ArgsType ==
  [backfill : BOOLEAN, reports : BOOLEAN, where : BOOLEAN,
   no_window : BOOLEAN, full : BOOLEAN, full_with_window : BOOLEAN,
   business_from : Dates \cup {NoDate}, business_to : Dates \cup {NoDate},
   from : Dates, to : Dates, chunk_months : Nat, entity : SUBSET Entities]

(* The months of a chunk: at least one.                                    *)
MonthsIn(a) == IF a.chunk_months = 0 THEN 1 ELSE a.chunk_months

ASSUME CommandAssumption ==
  /\ Args \subseteq ArgsType
  /\ MaxDate \in Nat
  /\ NoDate \notin Dates
  /\ \A d \in Dates, a \in Args :
       LET next == AddMonths(d, MonthsIn(a)) IN
       next = NoDate \/ (next \in Dates /\ next > d)
  /\ Today \in Dates
  /\ TightDays \in Nat
  /\ MaxClock \in Nat

(* The range ends before the last date chrono can represent.               *)
ASSUME RangeAssumption == \A a \in Args : a.to < MaxDate

ASSUME EntityAssumption ==
  /\ Windowable \cup Master \cup OpenStatus \subseteq Accounting
  /\ ReportsDefault \subseteq Reports
  /\ Accounting \cap Reports = {}

VARIABLES
  args,      \* the command line
  status,    \* where the command is
  entities,  \* resolve_entities
  chunks,    \* backfill_chunks
  cursor,    \* the start of the next chunk
  chunk,     \* how many chunks have run
  parts,     \* the runs of SyncJob so far
  clock,     \* the second the command is in
  manifest   \* the manifest in the bucket

commandVars ==
  <<args, status, entities, chunks, cursor, chunk, parts, clock, manifest>>

Statuses ==
  {"start", "full_once", "chunking", "chunks", "single", "merge", "done",
   "failed", "killed"}

CommandInit ==
  /\ args \in Args
  /\ status = "start"
  /\ entities = {}
  /\ chunks = <<>>
  /\ cursor = args.from
  /\ chunk = 0
  /\ parts = <<>>
  /\ clock = 0
  /\ manifest = {}
----------------------------------------------------------------------------
(* resolve_mode(): the flags in the order the code tests them.             *)
Ranged == args.business_from # NoDate \/ args.business_to # NoDate

ModeOf ==
  IF args.reports THEN "reports"
  ELSE IF args.where THEN "open_sweep"
  ELSE IF Ranged \/ args.full_with_window THEN "rolling_full"
  ELSE IF args.full THEN "master"
  ELSE IF args.no_window THEN "open_sweep"
  ELSE "incremental"

BusinessTo == IF args.business_to = NoDate THEN Today ELSE args.business_to

(* --business-to without --business-from, and a range that ends before it  *)
(* begins, are refused.                                                    *)
ModeRefused ==
  /\ ModeOf = "rolling_full"
  /\ Ranged
  /\ args.business_from # NoDate => BusinessTo < args.business_from

(* Mutant of Days: the range counts its first or its last day, not both.   *)
DaysBetween ==
  IF Ranged THEN BusinessTo - args.business_from ELSE TightDays

(* RollingFull { days } and the run date it is anchored at.                *)
Days == IF Ranged THEN BusinessTo - args.business_from + 1 ELSE TightDays
Anchor == IF ModeOf = "rolling_full" /\ Ranged THEN BusinessTo ELSE Today

(* rolling_window()                                                        *)
RollingWindow(date, days) ==
  <<date - ((IF days > 1 THEN days ELSE 1) - 1), date>>

DefaultEntities(mode) ==
  CASE mode = "reports" -> ReportsDefault
    [] mode = "master" -> Master
    [] mode = "open_sweep" -> OpenStatus
    [] mode = "rolling_full" -> Accounting \ Master
    [] mode \in {"incremental", "backfill"} -> Accounting

(* resolve_entities(): reports go with --reports and with nothing else.    *)
EntitiesRefused(mode) ==
  IF mode = "reports" THEN ~(args.entity \subseteq Reports)
  ELSE args.entity \cap Reports # {}

ResolvedEntities(mode) ==
  IF args.entity = {} THEN DefaultEntities(mode) ELSE args.entity

(* The window fetch_params gives an entity: only windowable ones get one.  *)
WindowOf(part, e) == IF e \in Windowable THEN part.window ELSE NoDate
----------------------------------------------------------------------------
Refuse ==
  /\ status' = "failed"
  /\ UNCHANGED <<args, entities, chunks, cursor, chunk, parts, clock, manifest>>

ResolveBackfill ==
  /\ status = "start"
  /\ args.backfill
  /\ \/ /\ EntitiesRefused("backfill") \/ args.to < args.from
        /\ Refuse
     \/ /\ ~EntitiesRefused("backfill")
        /\ args.from <= args.to
        /\ entities' = ResolvedEntities("backfill")
        /\ status' = "full_once"
        /\ UNCHANGED <<args, chunks, cursor, chunk, parts, clock, manifest>>

Resolve ==
  /\ status = "start"
  /\ ~args.backfill
  /\ \/ /\ ModeRefused \/ EntitiesRefused(ModeOf)
        /\ Refuse
     \/ /\ ~ModeRefused
        /\ ~EntitiesRefused(ModeOf)
        /\ entities' = ResolvedEntities(ModeOf)
        /\ status' = "single"
        /\ UNCHANGED <<args, chunks, cursor, chunk, parts, clock, manifest>>

(* SyncJob::run: the time it starts at, to the second, goes into its keys. *)
RunPart(mode, date, window, set) ==
  /\ clock' \in {n \in {clock, clock + 1} : n <= MaxClock}
  /\ parts' = Append(parts, [mode |-> mode, date |-> date, window |-> window,
                             entities |-> set, ts |-> clock'])
  /\ UNCHANGED <<args, entities, cursor, chunks, manifest>>

RunSingle ==
  /\ status = "single"
  /\ RunPart(ModeOf, Anchor,
             IF ModeOf = "rolling_full" THEN RollingWindow(Anchor, Days)
             ELSE NoDate,
             entities)
  /\ status' = "merge"
  /\ UNCHANGED chunk

AfterFullOnce == IF entities \cap Windowable = {} THEN "merge" ELSE "chunking"

(* The entities without a business date are pulled once, in full.          *)
FullOnce ==
  /\ status = "full_once"
  /\ status' = AfterFullOnce
  /\ UNCHANGED chunk
  /\ IF entities \subseteq Windowable
     THEN UNCHANGED <<args, entities, chunks, cursor, parts, clock, manifest>>
     ELSE RunPart("master", args.to, NoDate, entities \ Windowable)

(* Mutant of Months: chunk_months as it was given.                         *)
MonthsAsGiven == args.chunk_months

Months == MonthsIn(args)

NextStart ==
  IF AddMonths(cursor, Months) = NoDate THEN MaxDate
  ELSE AddMonths(cursor, Months)

(* Mutant of ChunkEnd: a chunk ends on the day the next one begins.        *)
ChunkEndShared == IF NextStart < args.to THEN NextStart ELSE args.to

ChunkEnd == IF NextStart - 1 < args.to THEN NextStart - 1 ELSE args.to

(* One turn of the loop of backfill_chunks.                                *)
NextChunk ==
  /\ status = "chunking"
  /\ cursor <= args.to
  /\ chunks' = Append(chunks, <<cursor, ChunkEnd>>)
  /\ cursor' = NextStart
  /\ UNCHANGED <<args, status, entities, chunk, parts, clock, manifest>>

ChunksReady ==
  /\ status = "chunking"
  /\ cursor > args.to
  /\ status' = "chunks"
  /\ UNCHANGED <<args, entities, chunks, cursor, chunk, parts, clock, manifest>>

(* Mutant of ChunkDate: every part is filed under the end of the range.    *)
RangeDate(c) == args.to

(* The run date of a chunk's part: its last day.                           *)
ChunkDate(c) == c[2]

RunChunk ==
  /\ status = "chunks"
  /\ chunk < Len(chunks)
  /\ LET c == chunks[chunk + 1] IN
     RunPart("backfill", ChunkDate(c), c, entities \cap Windowable)
  /\ chunk' = chunk + 1
  /\ UNCHANGED status

ChunksDone ==
  /\ status = "chunks"
  /\ chunk = Len(chunks)
  /\ status' = "merge"
  /\ UNCHANGED <<args, entities, chunks, cursor, chunk, parts, clock, manifest>>

(* Every part's outcome for every one of its units.                        *)
Outcomes ==
  UNION {{[part |-> n, tenant |-> t, entity |-> e, window |-> WindowOf(parts[n], e)]
            : t \in Tenants, e \in parts[n].entities} : n \in DOMAIN parts}

(* The manifests of the parts are merged and written.  There is a part: no *)
(* set of entities is empty.                                               *)
WriteManifest ==
  /\ status = "merge"
  /\ manifest' = Outcomes
  /\ status' = "done"
  /\ UNCHANGED <<args, entities, chunks, cursor, chunk, parts, clock>>

WriteManifestFails ==
  /\ status = "merge"
  /\ Refuse

Kill ==
  /\ status \notin {"done", "failed", "killed"}
  /\ status' = "killed"
  /\ UNCHANGED <<args, entities, chunks, cursor, chunk, parts, clock, manifest>>

CommandNext ==
  \/ ResolveBackfill \/ Resolve \/ RunSingle \/ FullOnce \/ NextChunk
  \/ ChunksReady \/ RunChunk \/ ChunksDone \/ WriteManifest
  \/ WriteManifestFails \/ Kill

CommandSpec == CommandInit /\ [][CommandNext]_commandVars
----------------------------------------------------------------------------
(* The inductive invariant of the proofs, in parts.                        *)
Modes ==
  {"reports", "open_sweep", "rolling_full", "master", "incremental",
   "backfill"}

PartType ==
  [mode : Modes, date : Dates, window : (Int \X Int) \cup {NoDate},
   entities : SUBSET Entities, ts : 0..MaxClock]

Within(d, window) == window[1] <= d /\ d <= window[2]

(* The types of the variables; every chunk is a range that is not empty    *)
(* and lies in the range of the backfill.                                  *)
CommandTypeOK ==
  /\ args \in Args
  /\ status \in Statuses
  /\ entities \subseteq Entities
  /\ cursor \in Dates
  /\ chunks \in Seq(Dates \X Dates)
  /\ \A n \in DOMAIN chunks :
       args.from <= chunks[n][1] /\ chunks[n][1] <= chunks[n][2]
         /\ chunks[n][2] <= args.to
  /\ chunk \in 0..Len(chunks)
  /\ clock \in 0..MaxClock

(* backfill_chunks so far: the chunks are in order, apart, before the      *)
(* cursor, and hold every date of the range that is before the cursor.     *)
ChunksPartition ==
  /\ args.from <= cursor
  /\ \A n \in DOMAIN chunks : chunks[n][2] < cursor
  /\ \A m, n \in DOMAIN chunks : m < n => chunks[m][2] < chunks[n][1]
  /\ \A d \in args.from..args.to :
       d < cursor => \E n \in DOMAIN chunks : Within(d, chunks[n])

(* The parts of a backfill: at most one in full, then one for each chunk   *)
(* that has run.                                                           *)
FullParts == IF entities \subseteq Windowable THEN 0 ELSE 1

IsFullPart(part) ==
  /\ part.mode = "master"
  /\ part.window = NoDate
  /\ part.entities = entities \ Windowable

IsChunkPart(part, c) ==
  /\ part.mode = "backfill"
  /\ part.window = c
  /\ part.date = c[2]
  /\ part.entities = entities \cap Windowable

BackfillParts ==
  args.backfill =>
    /\ Len(parts) <= FullParts + chunk
    /\ \A n \in DOMAIN parts :
         IF n <= FullParts THEN IsFullPart(parts[n])
         ELSE IsChunkPart(parts[n], chunks[n - FullParts])

(* The one part of every other command.                                    *)
SinglePart ==
  ~args.backfill =>
    /\ Len(parts) <= 1
    /\ parts # <<>> => ~ModeRefused
    /\ \A n \in DOMAIN parts :
         parts[n].mode = "rolling_full" =>
           ModeOf = "rolling_full" /\ parts[n].window = RollingWindow(Anchor, Days)

(* What each status says about the rest.                                   *)
Progress ==
  /\ status \in {"start", "full_once", "single"} => parts = <<>> /\ chunk = 0
  /\ status \in {"start", "full_once"} => cursor = args.from /\ chunks = <<>>
  /\ status \in {"full_once", "chunking", "chunks"} => args.backfill
  /\ status = "single" => ~args.backfill /\ ~ModeRefused
  /\ status = "chunking" => chunk = 0
  /\ status = "chunks" => cursor > args.to
  /\ args.backfill /\ status \in {"chunking", "chunks", "merge", "done"} =>
       Len(parts) = FullParts + chunk
  /\ args.backfill /\ status \in {"merge", "done"} =>
       /\ chunk = Len(chunks)
       /\ entities \cap Windowable # {} => cursor > args.to
  /\ status = "done" => manifest = Outcomes

(* The inductive invariant of a command.  A date that no chunk holds, a    *)
(* chunk that runs twice or a part with the wrong entities violates it in  *)
(* the step it happens in, before any manifest shows it.                   *)
CommandInv ==
  /\ CommandTypeOK
  /\ parts \in Seq(PartType)
  /\ ChunksPartition
  /\ BackfillParts
  /\ SinglePart
  /\ Progress

(* The manifest of a backfill accounts for every tenant's every entity:    *)
(* each date of the range is in the window of exactly one of its outcomes, *)
(* and an entity without a business date has one outcome, without a window *)
(* (run_backfill, "the per-chunk manifests are merged into a single run    *)
(* manifest").                                                             *)
ManifestCoversRange ==
  args.backfill /\ status = "done" =>
    \A t \in Tenants, e \in entities :
      LET mine == {o \in manifest : o.tenant = t /\ o.entity = e} IN
      IF e \in Windowable
      THEN \A d \in args.from..args.to :
             \E o \in mine : /\ Within(d, o.window)
                             /\ \A q \in mine : Within(d, q.window) => q = o
      ELSE \E o \in mine : o.window = NoDate /\ mine = {o}

(* No two parts of a command write an object of the same entity under the  *)
(* same date and second, so a key is never written twice although all      *)
(* parts share a run id and may start in one second (object_key).          *)
PartKeysDiffer ==
  \A m, n \in DOMAIN parts :
    /\ m # n
    /\ parts[m].entities \cap parts[n].entities # {}
    => parts[m].date # parts[n].date \/ parts[m].ts # parts[n].ts

(* --business-from and --business-to fetch exactly the dates they name,    *)
(* although the mode keeps only a number of days and an anchor.            *)
ExplicitWindowKept ==
  \A n \in DOMAIN parts :
    parts[n].mode = "rolling_full" /\ Ranged =>
      parts[n].window = <<args.business_from, BusinessTo>>
============================================================================

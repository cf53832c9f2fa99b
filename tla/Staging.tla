------------------------------ MODULE Staging ------------------------------
(***************************************************************************)
(* The ETL that brings the raw pages of the bucket into the staging        *)
(* tables (etl/).                                                          *)
(*                                                                         *)
(* Two programs run the same parsers.  The Cloud Function starts one       *)
(* invocation per finalised sidecar; events are delivered at least once    *)
(* and in no order, so an invocation may be for any file that has landed,  *)
(* a file may have several, and each is a process of its own.  The         *)
(* backfill is one process whose threads take (tenant, endpoint) jobs from *)
(* a queue and read every file of the tenant.  A parser run merges its     *)
(* header rows and then its child rows, each with BQWriter.merge: lock the *)
(* table within the process, write a temp table, create the target if it   *)
(* is missing, MERGE, drop the temp table.  The lock orders the MERGEs of   *)
(* one process; those of two processes overlap at BigQuery as its rules    *)
(* for concurrent statements allow, which are modelled here as external.   *)
(*                                                                         *)
(* One endpoint is modelled, with a header table and one child table.  A   *)
(* row keeps its key and the sync time of the file it was parsed from,     *)
(* which stands for its other columns.  Columns added to a table later are *)
(* left out: a MERGE may fail at any time.                                 *)
(***************************************************************************)
EXTENDS Naturals, Sequences, FiniteSets, SequencesExt, Functions

CONSTANTS
  Files,        \* sidecars the uploader writes, each with its data object
  Page,         \* what a file holds: tenant, kind, synced and records
  TenantOrder,  \* the tenants of the bucket, sorted
  Instances,    \* Cloud Function invocations, one delivery each
  Threads,      \* workers of the backfill's pool
  Backfill,     \* the process the threads run in
  Null,         \* the key of a child row whose id is absent
  Nobody,       \* no worker
  Unscanned     \* the backfill has not listed the bucket yet

Workers == Instances \cup Threads
Processes == Workers \cup {Backfill}
Tables == {"header", "lines"}

(* unreadable: the sidecar or its page does not parse, which is what the   *)
(* sidecar of a run manifest and the empty body of a 304 look like.        *)
(* no_array_key: an endpoint endpoint_config does not name.  known_unparsed*)
(* is bills, which it does not name either.                                *)
EndpointKinds ==
  {"parsed", "no_parser", "no_array_key", "known_unparsed", "unreadable"}

IsSequence(s) == s \in Seq(ToSet(s))

(* main() sorts a set of tenants, so none is in the order twice; a header  *)
(* row has no column that may be NULL in its key.                          *)
ASSUME StagingAssumption ==
  /\ Instances \cap Threads = {}
  /\ Nobody \notin Workers
  /\ Null # "whole"
  /\ IsSequence(TenantOrder) /\ IsInjective(TenantOrder)
  /\ \A S \in SUBSET DOMAIN TenantOrder : S # Unscanned
  /\ \A f \in Files :
       /\ Page[f].kind \in EndpointKinds
       /\ Page[f].synced \in Nat
       /\ IsSequence(Page[f].records)
       /\ \A k \in DOMAIN Page[f].records :
            /\ Page[f].records[k].id # Null
            /\ IsSequence(Page[f].records[k].lines)

VARIABLES
  landed,   \* the files in the bucket
  jobs,     \* places in TenantOrder of the jobs no thread has taken yet
  pc,       \* where each worker is in the merge of its current table
  tab,      \* the table each worker merges
  input,    \* the files each worker read, in the order it read them
  seen,     \* what the read of the target's schema told the worker
  lock,     \* holder of each process's lock of each table
  creator,  \* the worker that created each table
  staging,  \* the rows of each table, in the order they were inserted
  base,     \* how many rows of its table the MERGE of each worker has seen
  origin,   \* history: the worker that inserted each row, and its base
  outcome   \* how the last invocation or job of each worker ended

stagingVars ==
  <<landed, jobs, pc, tab, input, seen, lock, creator, staging, base,
    origin, outcome>>

Outcomes == {"none", "skipped", "warned", "empty", "ok", "raised", "killed"}
Phases ==
  {"idle", "lock", "schema", "ensure", "create", "merge", "running", "ok",
   "raising", "done"}
Resting == {"idle", "done"}

(* Mutant of ProcessOf: the lock belongs to the writer, one per thread.    *)
OwnProcess(w) == w

ProcessOf(w) == IF w \in Threads THEN Backfill ELSE w

StagingInit ==
  /\ landed = {}
  /\ jobs = Unscanned
  /\ pc = [w \in Workers |-> "idle"]
  /\ tab = [w \in Workers |-> "header"]
  /\ input = [w \in Workers |-> <<>>]
  /\ seen = [w \in Workers |-> "nothing"]
  /\ lock = [l \in Processes \X Tables |-> Nobody]
  /\ creator = [t \in Tables |-> Nobody]
  /\ staging = [t \in Tables |-> <<>>]
  /\ base = [w \in Workers |-> 0]
  /\ origin = [t \in Tables |-> <<>>]
  /\ outcome = [w \in Workers |-> "none"]
----------------------------------------------------------------------------
(* Rows.  A row's place is the file it is in, the record of the file and   *)
(* the line of the record; the header row of a record comes at line 0.     *)
Slots(t, rec) == IF t = "header" THEN {0} ELSE DOMAIN rec.lines

(* The places of the rows a parser makes for a table from some files.      *)
Places(t, files) ==
  UNION {UNION {{<<n, k, l>> : l \in Slots(t, Page[files[n]].records[k])} :
                  k \in DOMAIN Page[files[n]].records} : n \in DOMAIN files}

RowAt(files, p) ==
  LET page == Page[files[p[1]]]
      rec == page.records[p[2]]
  IN [tenant |-> page.tenant, id |-> rec.id,
      line |-> IF p[3] = 0 THEN "whole" ELSE rec.lines[p[3]],
      synced |-> page.synced]

Parsed(t, files) == {RowAt(files, p) : p \in Places(t, files)}

RecordsOf(files) == Parsed("header", files)

(* The rows are made file by file, record by record and line by line.      *)
NotBefore(p, q) ==
  \/ p[1] > q[1]
  \/ p[1] = q[1] /\ p[2] > q[2]
  \/ p[1] = q[1] /\ p[2] = q[2] /\ p[3] >= q[3]

SameKey(r, s) == r.tenant = s.tenant /\ r.id = s.id /\ r.line = s.line

(* Python finds equal keys equal, None included; SQL finds NULL equal to   *)
(* nothing.                                                                *)
Matches(r, s) == SameKey(r, s) /\ r.line # Null

(* _ts(): only header rows carry synced_at.                                *)
Timestamp(t, r) == IF t = "header" THEN r.synced ELSE 0

(* The places of the rows that win over every row of their key.            *)
Winners(t, files, Beats(_, _)) ==
  {p \in Places(t, files) : \A q \in Places(t, files) :
     SameKey(RowAt(files, q), RowAt(files, p)) => Beats(p, q)}

(* Mutants of Dedup: the batch is not collapsed; the last row seen wins.   *)
NoDedup(t, files) == Parsed(t, files)
LastSeen(t, files) ==
  {RowAt(files, p) : p \in Winners(t, files, NotBefore)}

(* _dedup_by_key(): one row per key, the one with the greatest timestamp,  *)
(* and of equal timestamps the last.                                       *)
Dedup(t, files) ==
  LET Stamp(p) == Timestamp(t, RowAt(files, p))
      Beats(p, q) == \/ Stamp(p) > Stamp(q)
                     \/ Stamp(p) = Stamp(q) /\ NotBefore(p, q)
  IN {RowAt(files, p) : p \in Winners(t, files, Beats)}

(* Mutant of Merged: the load job appends.                                 *)
Appended(target, n, source) == target \o SetToSeq(source)

(* A source row updates one of the first n rows of the target.             *)
Updates(target, n, source) ==
  \E i \in 1..n, s \in source : Matches(target[i], s)

(* _run_merge(), on the first n rows of the target: a row that a source    *)
(* row matches takes its columns, source rows that match nothing are       *)
(* inserted.  Rows stay where they are and keep their keys, so a number of *)
(* rows stands for a snapshot of the target.                               *)
Merged(target, n, source) ==
  LET Hit(r) == {s \in source : Matches(r, s)}
      new == {s \in source : \A i \in 1..n : ~Matches(target[i], s)}
  IN [i \in DOMAIN target |->
        IF i > n \/ Hit(target[i]) = {} THEN target[i]
        ELSE CHOOSE s \in Hit(target[i]) : TRUE] \o SetToSeq(new)
----------------------------------------------------------------------------
(* The uploader writes a page and its sidecar; runs that overlap write     *)
(* theirs in any order of the sync times.                                  *)
Land(f) ==
  /\ f \notin landed
  /\ landed' = landed \cup {f}
  /\ UNCHANGED <<jobs, pc, tab, input, seen, lock, creator, staging, base,
                 origin, outcome>>

(* parser.run() on the records of some files: the header table is first.   *)
StartParser(w, files) ==
  /\ input' = [input EXCEPT ![w] = files]
  /\ tab' = [tab EXCEPT ![w] = "header"]
  /\ pc' = [pc EXCEPT ![w] = "lock"]
  /\ outcome' = [outcome EXCEPT ![w] = "none"]
  /\ UNCHANGED <<landed, seen, lock, creator, staging, base, origin>>

(* process_gcs_upload() returns, or raises, without writing anything.      *)
Return(i, f, how) ==
  /\ input' = [input EXCEPT ![i] = <<f>>]
  /\ pc' = [pc EXCEPT ![i] = "done"]
  /\ outcome' = [outcome EXCEPT ![i] = how]
  /\ UNCHANGED <<landed, tab, seen, lock, creator, staging, base, origin>>

(* process_gcs_upload(): the records are extracted before the parser of    *)
(* the endpoint is looked up.  The event may be a repeated or late one.    *)
ProcessGcsUpload(i, f) ==
  /\ pc[i] = "idle"
  /\ f \in landed
  /\ \/ /\ Page[f].kind = "unreadable"
        /\ Return(i, f, "raised")
     \/ /\ Page[f].kind # "unreadable"
        /\ \/ Page[f].kind \in {"no_array_key", "known_unparsed"}
           \/ Page[f].records = <<>>
        /\ Return(i, f, "skipped")
     \/ /\ Page[f].kind = "no_parser"
        /\ Page[f].records # <<>>
        /\ Return(i, f, "warned")
     \/ /\ Page[f].kind = "parsed"
        /\ Page[f].records # <<>>
        /\ StartParser(i, <<f>>)
  /\ UNCHANGED jobs

(* The reads of an event's two objects may fail on the way.                *)
ReadFails(i, f) ==
  /\ pc[i] = "idle"
  /\ f \in landed
  /\ Return(i, f, "raised")
  /\ UNCHANGED jobs

(* main(): one listing of the bucket gives the tenants, hence the jobs.    *)
ScanBucket ==
  /\ Threads # {}
  /\ jobs = Unscanned
  /\ jobs' = {n \in DOMAIN TenantOrder :
                \E f \in landed : Page[f].tenant = TenantOrder[n]}
  /\ UNCHANGED <<landed, pc, tab, input, seen, lock, creator, staging, base,
                 origin, outcome>>

(* Mutant of Listed: the files are taken from a manifest, not the bucket.  *)
ListedFromManifest(tenant) ==
  {f \in Files : Page[f].tenant = tenant /\ Page[f].kind = "parsed"}

(* The sidecars of a tenant under the endpoint of the parser.              *)
Listed(tenant) ==
  {f \in landed : Page[f].tenant = tenant /\ Page[f].kind = "parsed"}

NothingToParse(w, files) ==
  /\ input' = [input EXCEPT ![w] = files]
  /\ tab' = [tab EXCEPT ![w] = "header"]
  /\ outcome' = [outcome EXCEPT ![w] = "empty"]
  /\ UNCHANGED <<landed, pc, seen, lock, creator, staging, base, origin>>

(* backfill_tenant_endpoint(): the next job of the queue.  The files are   *)
(* read on a pool and arrive as they complete, in any order; one whose     *)
(* read fails is logged and contributes no record.                         *)
TakeJob(w) ==
  /\ pc[w] = "idle"
  /\ jobs # Unscanned
  /\ \E n \in jobs :
       /\ \A m \in jobs : n <= m
       /\ jobs' = jobs \ {n}
       /\ \E read \in SUBSET Listed(TenantOrder[n]) :
            \E files \in SetToSeqs(read) :
              \/ RecordsOf(files) # {} /\ StartParser(w, files)
              \/ RecordsOf(files) = {} /\ NothingToParse(w, files)
----------------------------------------------------------------------------
(* BQWriter.merge().                                                       *)
MyLock(w) == <<ProcessOf(w), tab[w]>>

AcquireLock(w) ==
  /\ pc[w] = "lock"
  /\ lock[MyLock(w)] = Nobody
  /\ lock' = [lock EXCEPT ![MyLock(w)] = w]
  /\ pc' = [pc EXCEPT ![w] = "schema"]
  /\ UNCHANGED <<landed, jobs, tab, input, seen, creator, staging, base,
                 origin, outcome>>

(* _get_schema() and _write_temp(): without a schema, because there is no  *)
(* table or because the call that asks failed, the types of the temp table *)
(* are detected from the rows.                                             *)
WriteTemp(w) ==
  /\ pc[w] = "schema"
  /\ seen' = [seen EXCEPT ![w] =
                IF creator[tab[w]] = Nobody THEN "absent" ELSE "schema"]
  /\ pc' = [pc EXCEPT ![w] = "ensure"]
  /\ UNCHANGED <<landed, jobs, tab, input, lock, creator, staging, base,
                 origin, outcome>>

GetSchemaFails(w) ==
  /\ pc[w] = "schema"
  /\ seen' = [seen EXCEPT ![w] = "unread"]
  /\ pc' = [pc EXCEPT ![w] = "ensure"]
  /\ UNCHANGED <<landed, jobs, tab, input, lock, creator, staging, base,
                 origin, outcome>>

(* _ensure_target_exists(): ask for the target; an answer other than the   *)
(* table, an error included, leads to create_table.                        *)
FindTarget(w) ==
  /\ pc[w] = "ensure"
  /\ creator[tab[w]] # Nobody
  /\ pc' = [pc EXCEPT ![w] = "merge"]
  /\ UNCHANGED <<landed, jobs, tab, input, seen, lock, creator, staging,
                 base, origin, outcome>>

MissTarget(w) ==
  /\ pc[w] = "ensure"
  /\ pc' = [pc EXCEPT ![w] = "create"]
  /\ UNCHANGED <<landed, jobs, tab, input, seen, lock, creator, staging,
                 base, origin, outcome>>

(* create_table() answers with a conflict when the table is there: the     *)
(* exception leaves merge().                                               *)
CreateTarget(w) ==
  /\ pc[w] = "create"
  /\ IF creator[tab[w]] = Nobody
     THEN /\ creator' = [creator EXCEPT ![tab[w]] = w]
          /\ pc' = [pc EXCEPT ![w] = "merge"]
     ELSE /\ pc' = [pc EXCEPT ![w] = "raising"]
          /\ UNCHANGED creator
  /\ UNCHANGED <<landed, jobs, tab, input, seen, lock, staging, base,
                 origin, outcome>>

(* job = query(): the MERGE starts on the rows the table has then.         *)
StartMerge(w) ==
  /\ pc[w] = "merge"
  /\ base' = [base EXCEPT ![w] = Len(staging[tab[w]])]
  /\ pc' = [pc EXCEPT ![w] = "running"]
  /\ UNCHANGED <<landed, jobs, tab, input, seen, lock, creator, staging,
                 origin, outcome>>

Source(w) == Dedup(tab[w], input[w])

Mutates(w) == Updates(staging[tab[w]], base[w], Source(w))

(* The MERGEs BigQuery reruns when that of w commits: two that update rows *)
(* of one table conflict, one that only inserts conflicts with none.       *)
Rerun(w) ==
  {v \in Workers \ {w} : /\ pc[v] = "running" /\ tab[v] = tab[w]
                        /\ Mutates(v) /\ Mutates(w)}

(* The MERGE commits.  job.result() raises if its answer is lost.          *)
RunMerge(w) ==
  LET t == tab[w]
      merged == Merged(staging[t], base[w], Source(w))
      mine == [by |-> w, base |-> base[w]]
  IN /\ pc[w] = "running"
     /\ staging' = [staging EXCEPT ![t] = merged]
     /\ origin' = [origin EXCEPT ![t] =
          [i \in DOMAIN merged |-> IF i \in DOMAIN @ THEN @[i] ELSE mine]]
     /\ base' = [v \in Workers |->
          IF v \in Rerun(w) THEN Len(merged) ELSE base[v]]
     /\ \E next \in {"ok", "raising"} : pc' = [pc EXCEPT ![w] = next]
     /\ UNCHANGED <<landed, jobs, tab, input, seen, lock, creator, outcome>>

(* Mutant of CallFails: the exception is swallowed.                        *)
CallFailsUnnoticed(w) ==
  /\ pc[w] \in {"schema", "ensure", "create", "merge", "running"}
  /\ pc' = [pc EXCEPT ![w] = "ok"]
  /\ UNCHANGED <<landed, jobs, tab, input, seen, lock, creator, staging,
                 base, origin, outcome>>

(* The load job, the copy of the schema, the creation or the MERGE raises, *)
(* a MERGE also because another process updates the table.  A MERGE whose  *)
(* caller has stopped to wait does not commit afterwards: in one process   *)
(* no other worker merges the tenant, and for another process it only      *)
(* commits later than it does here.                                        *)
CallFails(w) ==
  /\ pc[w] \in {"schema", "ensure", "create", "merge", "running"}
  /\ pc' = [pc EXCEPT ![w] = "raising"]
  /\ UNCHANGED <<landed, jobs, tab, input, seen, lock, creator, staging,
                 base, origin, outcome>>

(* A worker is through with its files: an invocation ends, a thread is     *)
(* ready for another job.                                                  *)
Finish(w, how) ==
  /\ outcome' = [outcome EXCEPT ![w] = how]
  /\ pc' = [pc EXCEPT ![w] = IF w \in Threads THEN "idle" ELSE "done"]
  /\ UNCHANGED tab

Unlock(w) == lock' = [lock EXCEPT ![MyLock(w)] = Nobody]

(* The finally clause drops the temp table and the lock is released; the   *)
(* parser goes on to its child table if the files have child rows.         *)
NextTable(w) ==
  /\ pc[w] = "ok"
  /\ Unlock(w)
  /\ IF tab[w] = "header" /\ Parsed("lines", input[w]) # {}
     THEN /\ tab' = [tab EXCEPT ![w] = "lines"]
          /\ pc' = [pc EXCEPT ![w] = "lock"]
          /\ UNCHANGED outcome
     ELSE Finish(w, "ok")
  /\ UNCHANGED <<landed, jobs, input, seen, creator, staging, base, origin>>

(* Mutant of Raise: the lock is kept when merge() is left by an exception. *)
RaiseLocked(w) ==
  /\ pc[w] = "raising"
  /\ Finish(w, "raised")
  /\ UNCHANGED <<landed, jobs, input, seen, lock, creator, staging, base,
                 origin>>

Raise(w) ==
  /\ pc[w] = "raising"
  /\ Unlock(w)
  /\ Finish(w, "raised")
  /\ UNCHANGED <<landed, jobs, input, seen, creator, staging, base, origin>>

(* A process dies: the platform ends an invocation, an operator the        *)
(* backfill.  Its locks go with it; what it wrote stays.                   *)
Kill(p) ==
  LET mine == {w \in Workers : ProcessOf(w) = p} IN
  /\ \E w \in mine : pc[w] \notin Resting
  /\ pc' = [w \in Workers |-> IF w \in mine THEN "done" ELSE pc[w]]
  /\ outcome' = [w \in Workers |->
       IF w \in mine /\ pc[w] \notin Resting THEN "killed" ELSE outcome[w]]
  /\ lock' = [l \in DOMAIN lock |-> IF lock[l] \in mine THEN Nobody ELSE lock[l]]
  /\ UNCHANGED <<landed, jobs, tab, input, seen, creator, staging, base,
                 origin>>
----------------------------------------------------------------------------
Merge(w) ==
  \/ AcquireLock(w) \/ WriteTemp(w) \/ GetSchemaFails(w) \/ FindTarget(w)
  \/ MissTarget(w) \/ CreateTarget(w) \/ StartMerge(w) \/ RunMerge(w)
  \/ CallFails(w) \/ NextTable(w) \/ Raise(w)

StagingNext ==
  \/ \E f \in Files : Land(f)
  \/ \E i \in Instances, f \in Files : ProcessGcsUpload(i, f) \/ ReadFails(i, f)
  \/ ScanBucket
  \/ \E w \in Threads : TakeJob(w)
  \/ \E w \in Workers : Merge(w)
  \/ \E p \in Processes : Kill(p)

StagingSpec == StagingInit /\ [][StagingNext]_stagingVars

(* Every call to BigQuery and to the bucket returns or raises, and the     *)
(* pool runs every thread.  Nothing makes an event arrive.                 *)
FairStagingSpec ==
  /\ StagingSpec
  /\ WF_stagingVars(ScanBucket)
  /\ \A w \in Threads : WF_stagingVars(TakeJob(w) \/ Merge(w))
----------------------------------------------------------------------------
(* The types of the variables; the rows of a table were all read from a    *)
(* file of the bucket.                                                     *)
StagingTypeOK ==
  /\ landed \subseteq Files
  /\ jobs = Unscanned \/ jobs \subseteq DOMAIN TenantOrder
  /\ pc \in [Workers -> Phases]
  /\ tab \in [Workers -> Tables]
  /\ input \in [Workers -> Seq(landed)]
  /\ seen \in [Workers -> {"nothing", "absent", "schema", "unread"}]
  /\ lock \in [Processes \X Tables -> Workers \cup {Nobody}]
  /\ creator \in [Tables -> Workers \cup {Nobody}]
  /\ DOMAIN staging = Tables
  /\ \A t \in Tables :
       staging[t] \in Seq(UNION {Parsed(t, <<f>>) : f \in landed})
  /\ base \in [Workers -> Nat]
  /\ DOMAIN origin = Tables
  /\ \A t \in Tables : origin[t] \in
       [DOMAIN staging[t] -> [by : Workers, base : Nat]]
  /\ outcome \in [Workers -> Outcomes]

(* A key without NULL has a second row only if two processes insert it at  *)
(* the same time: the MERGE that inserted the later row had started when   *)
(* the earlier one was not there, and in another process.  Whatever        *)
(* repeated events, threads and files bring the key again, nothing else    *)
(* inserts it twice.  (BQWriter.merge, "exactly one current row per key".) *)
OneRowUnlessRaced ==
  \A t \in Tables : \A i, j \in DOMAIN staging[t] :
    i < j /\ Matches(staging[t][i], staging[t][j]) =>
      /\ origin[t][j].base < i
      /\ ProcessOf(origin[t][i].by) # ProcessOf(origin[t][j].by)

(* An invocation or a job that ended well has left a row for every record  *)
(* and every child row of the files it read, and nobody has lost it since. *)
OkMeansStaged ==
  \A w \in Workers : outcome[w] = "ok" =>
    \A t \in Tables : \A r \in Parsed(t, input[w]) :
      \E i \in DOMAIN staging[t] : SameKey(r, staging[t][i])

(* A worker that found no table and detected the types of its temp table   *)
(* never merges it into a table another thread of its process created in   *)
(* the meantime (the comment inside BQWriter.merge on the schema read).    *)
OwnSchema ==
  \A w \in Workers :
    LET c == creator[tab[w]] IN
    pc[w] = "merge" /\ seen[w] = "absent" => c = w \/ ~({c, w} \subseteq Threads)

MergedBy(w, t) ==
  \/ outcome[w] = "ok"
  \/ t = "header" /\ tab[w] = "lines"

NewestStaged(t) ==
  \A w \in Threads : MergedBy(w, t) =>
    \A r \in Parsed(t, input[w]) :
      \E i \in DOMAIN staging[t] :
        SameKey(r, staging[t][i]) /\ staging[t][i].synced >= r.synced

(* When nothing but the backfill runs, a job leaves each header at a       *)
(* version no older than any it read, in whatever order the files arrived. *)
BackfillHeadersNewest == NewestStaged("header")

(* The same of the child rows.                                             *)
BackfillLinesNewest == NewestStaged("lines")

(* A header row is never replaced by an older one.                         *)
HeaderNeverOlder ==
  [][LET old == ToSet(staging["header"])
         new == ToSet(staging'["header"])
     IN \A r \in old, s \in new : SameKey(r, s) => s.synced >= r.synced
    ]_stagingVars

(* The backfill comes to an end: every thread comes to rest and no job is  *)
(* left, unless the process was killed.                                    *)
BackfillEnds ==
  <>[](\A w \in Threads : pc[w] = "done" \/ (pc[w] = "idle" /\ jobs = {}))
(* The ETL implements StagedTables: what a worker has to do next, and with *)
(* which files, is read off its place in the merge; what it raises, and    *)
(* what kills it, is all the same there.                                   *)
StageOf(w) ==
  CASE pc[w] \in Resting -> IF outcome[w] = "ok" THEN "ok" ELSE "resting"
    [] pc[w] = "ok" ->
         IF tab[w] = "header" /\ Parsed("lines", input[w]) # {} THEN "lines"
         ELSE "all"
    [] OTHER -> tab[w]

StageMap == [w \in Workers |-> StageOf(w)]

BatchMap ==
  [w \in Workers |-> IF StageOf(w) = "resting" THEN {} ELSE ToSet(input[w])]

RowMap == [t \in Tables |-> ToSet(staging[t])]

FileRows == [t \in Tables |-> [f \in Files |-> Parsed(t, <<f>>)]]

OneProcess == \A v, w \in Workers : ProcessOf(v) = ProcessOf(w)

Promise == INSTANCE StagedTables WITH
  Serial <- OneProcess,
  RowsOf <- FileRows,
  stage  <- StageMap,
  batch  <- BatchMap,
  rows   <- RowMap

ImplementsTables == Promise!Spec
============================================================================

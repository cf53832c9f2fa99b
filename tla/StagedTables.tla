---------------------------- MODULE StagedTables ----------------------------
(***************************************************************************)
(* What the ETL promises of the staging tables (BQWriter.merge in          *)
(* etl/common/bq_writer.py: "a true upsert"), whoever runs it: a worker    *)
(* takes some of the files that have landed, brings their header rows into *)
(* the header table in one step and then their child rows into the child   *)
(* table in one step, and says "ok" only after both.  One row of each key  *)
(* the files have takes the place of the rows that had the key, a header   *)
(* the newest of them; every other row stays.  Where the workers do not    *)
(* all run in one process, rows of others may come in unseen, and then     *)
(* they stay as well.  A worker may leave at any time, and what it has     *)
(* brought in remains, whether it has learnt of it or not.                 *)
(*                                                                         *)
(* Locks, schemas, temp tables, the creation of tables, the queue of the   *)
(* backfill, the processes and the order of files and rows are not here.   *)
(***************************************************************************)
EXTENDS Naturals

CONSTANTS
  Workers,    \* whatever merges: invocations and threads
  Files,      \* the files the uploader writes
  RowsOf,     \* the rows each table gets from each file
  Null,       \* the key of a child row whose id is absent
  Serial      \* whether all workers run in one process

VARIABLES
  landed,     \* the files in the bucket
  stage,      \* of each worker: the table it has to bring in, or how it is
  batch,      \* the files each worker has taken
  rows        \* the rows of each table

vars == <<landed, stage, batch, rows>>

Tables == {"header", "lines"}

SameKey(r, s) == r.tenant = s.tenant /\ r.id = s.id /\ r.line = s.line

(* NULL is no key to find a row by.                                        *)
Replaces(s, r) == SameKey(r, s) /\ r.line # Null

Brought(t, files) == UNION {RowsOf[t][f] : f \in files}

(* One row of each key the files have, of a header the newest.             *)
Collapsed(t, files) ==
  {one \in SUBSET Brought(t, files) :
     /\ \A r, s \in one : SameKey(r, s) => r = s
     /\ \A r \in Brought(t, files) : \E s \in one :
          SameKey(r, s) /\ (t = "header" => s.synced >= r.synced)}

Upserted(old, unseen, new) ==
  {r \in old : r \in unseen \/ \A s \in new : ~Replaces(s, r)} \cup new

Init ==
  /\ landed = {}
  /\ stage = [w \in Workers |-> "resting"]
  /\ batch = [w \in Workers |-> {}]
  /\ rows = [t \in Tables |-> {}]

Land(f) ==
  /\ landed' = landed \cup {f}
  /\ UNCHANGED <<stage, batch, rows>>

Take(w) ==
  /\ stage[w] \in {"resting", "ok"}
  /\ stage' = [stage EXCEPT ![w] = "header"]
  /\ \E files \in SUBSET landed :
       /\ Brought("header", files) # {}
       /\ batch' = [batch EXCEPT ![w] = files]
  /\ UNCHANGED <<landed, rows>>

(* What is left to do after a table.                                       *)
After(t, files) ==
  IF t = "header" /\ Brought("lines", files) # {} THEN "lines" ELSE "all"

Upsert(w, t) ==
  /\ stage[w] = t
  /\ \E new \in Collapsed(t, batch[w]), unseen \in SUBSET rows[t] :
       /\ Serial => unseen = {}
       /\ rows' = [rows EXCEPT ![t] = Upserted(@, unseen, new)]
  /\ \E next \in {t, After(t, batch[w])} : stage' = [stage EXCEPT ![w] = next]
  /\ UNCHANGED <<landed, batch>>

Report(w) ==
  /\ stage[w] = "all"
  /\ stage' = [stage EXCEPT ![w] = "ok"]
  /\ UNCHANGED <<landed, batch, rows>>

(* Some workers raise, are killed or have nothing to do.                   *)
Leave(some) ==
  /\ stage' = [w \in Workers |-> IF w \in some THEN "resting" ELSE stage[w]]
  /\ batch' = [w \in Workers |-> IF w \in some THEN {} ELSE batch[w]]
  /\ UNCHANGED <<landed, rows>>

Next ==
  \/ \E f \in Files : Land(f)
  \/ \E w \in Workers : Take(w) \/ Report(w) \/ \E t \in Tables : Upsert(w, t)
  \/ \E some \in SUBSET Workers : Leave(some)

Spec == Init /\ [][Next]_vars
=============================================================================

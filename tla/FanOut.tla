------------------------------- MODULE FanOut -------------------------------
(***************************************************************************)
(* What a run of the uploader promises (the documentation of               *)
(* SyncJob::run and the "Failure isolation" paragraph of                   *)
(* docs/NEW_ARCHITECTURE_RAW_GCS.md): a bounded number of units at a time, *)
(* started in order; each unit ends exactly once, in success or in error,  *)
(* and neither end touches another unit; the pages of a unit become        *)
(* visible to the ETL in order, only while it runs, and at least one of    *)
(* them before it counts as a success; the manifest is published when all  *)
(* have ended, says of each how it ended, and never changes.               *)
(***************************************************************************)
EXTENDS Integers, FiniteSets

CONSTANTS
  Units,      \* 1..N, in the order in which they are started
  Width       \* how many may run at a time

VARIABLES
  status,     \* of each unit
  visible,    \* the pages of each unit the ETL can consume
  report      \* the published manifest

vars == <<status, visible, report>>

Unpublished == [u \in Units |-> "unpublished"]

Init ==
  /\ status = [u \in Units |-> IF u <= Width THEN "running" ELSE "queued"]
  /\ visible = [u \in Units |-> {}]
  /\ report = Unpublished

Reveal(u) ==
  LET p == Cardinality(visible[u]) IN
  visible[u] = 1..p /\ visible' = [visible EXCEPT ![u] = 1..(p + 1)]

Deliver(u) ==
  /\ status[u] = "running"
  /\ Reveal(u)
  /\ UNCHANGED <<status, report>>

FirstQueued(v) ==
  status[v] = "queued" /\ \A w \in Units : status[w] = "queued" => v <= w

End(u, result) ==
  /\ status[u] = "running"
  /\ status' = [v \in Units |-> IF v = u THEN result
                                ELSE IF FirstQueued(v) THEN "running"
                                ELSE status[v]]
  /\ Reveal(u) \/ UNCHANGED visible
  /\ result = "ok" => visible'[u] # {}
  /\ UNCHANGED report

Publish ==
  /\ report = Unpublished
  /\ \A u \in Units : status[u] \in {"ok", "error"}
  /\ report' = status
  /\ UNCHANGED <<status, visible>>

Next ==
  \/ \E u \in Units : Deliver(u) \/ End(u, "ok") \/ End(u, "error")
  \/ Publish

Spec == Init /\ [][Next]_vars
=============================================================================

----------------------------- MODULE MCSyncRun -----------------------------
(* Instances of SyncRun for TLC.                                           *)
EXTENDS SyncRun

CONSTANT t1

(* One entity of each kind a mode can mix in one run.                      *)
MCKindOf ==
  [invoices |-> "paged", accounts |-> "single", journals |-> "journals",
   profit_and_loss |-> "report", aged_payables |-> "aged_report"]

MCEntities == DOMAIN MCKindOf

(* One tenant and one limiter: both ways to paginate, and a report         *)
(* (`--entity` may mix them in one run).                                   *)
FanOutUnits == FlatMap(<<t1>>, <<"invoices", "profit_and_loss", "journals">>)
============================================================================

----------------------------- MODULE MCStaging -----------------------------
(* Instances of Staging for TLC.                                           *)
EXTENDS Staging

Rec(id, lines) == [id |-> id, lines |-> lines]
File(tenant, kind, synced, records) ==
  [tenant |-> tenant, kind |-> kind, synced |-> synced, records |-> records]

(* What the Cloud Function meets: two syncs of an invoice, the second with *)
(* a line less and two lines without an id; the sidecar of a manifest; and *)
(* endpoints without a parser.                                             *)
EventPage ==
  [first    |-> File("A", "parsed", 1, <<Rec("i1", <<"l1", "l2">>)>>),
   second   |-> File("A", "parsed", 2, <<Rec("i1", <<"l1", Null, Null>>)>>),
   manifest |-> File("A", "unreadable", 3, <<>>),
   budgets  |-> File("A", "no_parser", 4, <<Rec("g1", <<>>)>>),
   bills    |-> File("A", "known_unparsed", 5, <<Rec("i1", <<>>)>>)]

EventFiles == DOMAIN EventPage

(* Two tenants with a history of full snapshots, so every invoice and line *)
(* is in several files.                                                    *)
HistoryPage ==
  [a1 |-> File("A", "parsed", 1, <<Rec("i1", <<"l1">>), Rec("i2", <<>>)>>),
   a2 |-> File("A", "parsed", 2, <<Rec("i1", <<"l1">>)>>),
   b1 |-> File("B", "parsed", 3, <<Rec("j1", <<"l1">>)>>)]

HistoryFiles == DOMAIN HistoryPage

TwoTenants == <<"A", "B">>
============================================================================

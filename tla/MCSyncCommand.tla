--------------------------- MODULE MCSyncCommand ---------------------------
(* Instances of SyncCommand for TLC: a calendar of four months of 3, 2, 3  *)
(* and 1 days, its last day standing for the last date there is.           *)
EXTENDS SyncCommand

Start == <<0, 3, 5, 8>>
Length == <<3, 2, 3, 1>>
MonthOf(d) == CHOOSE k \in 1..4 : Start[k] <= d /\ d < Start[k] + Length[k]

(* The same day of a later month, or its last day if it is shorter.        *)
MCAddMonths(d, m) ==
  LET k == MonthOf(d) + m
      day == d - Start[MonthOf(d)]
  IN IF k > 4 THEN NoDate
     ELSE Start[k] + (IF day < Length[k] THEN day ELSE Length[k] - 1)

NoFlags ==
  [backfill |-> FALSE, reports |-> FALSE, where |-> FALSE, no_window |-> FALSE,
   full |-> FALSE, full_with_window |-> FALSE, business_from |-> NoDate,
   business_to |-> NoDate, from |-> 0, to |-> 0, chunk_months |-> 1,
   entity |-> {}]

EntityChoices ==
  {{}, {"invoices"}, {"journals", "accounts"}, {"profit_and_loss", "invoices"},
   {"profit_and_loss"}}

BackfillArgs ==
  {[NoFlags EXCEPT !.backfill = TRUE, !.from = f, !.to = t,
                   !.chunk_months = m, !.entity = e]
     : f \in 0..7, t \in 0..7, m \in 0..2, e \in EntityChoices}

ModeArgs ==
  {[NoFlags EXCEPT !.reports = r, !.where = w, !.no_window = nw, !.full = f,
                   !.full_with_window = fw, !.business_from = bf,
                   !.business_to = bt, !.entity = e]
     : r \in BOOLEAN, w \in BOOLEAN, nw \in BOOLEAN, f \in BOOLEAN,
       fw \in BOOLEAN, bf \in {NoDate, 2, 5}, bt \in {NoDate, 1, 4, 7},
       e \in EntityChoices}

MCArgs == BackfillArgs \cup ModeArgs
============================================================================

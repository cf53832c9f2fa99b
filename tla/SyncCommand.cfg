SPECIFICATION CommandSpec
CONSTANTS
  Args <- MCArgs
  Tenants = {"t1", "t2"}
  Reports = {"profit_and_loss", "aged_payables"}
  Windowable = {"invoices", "payments"}
  Master = {"accounts"}
  OpenStatus = {"invoices"}
  Accounting = {"invoices", "payments", "accounts", "journals"}
  ReportsDefault = {"profit_and_loss"}
  MaxDate = 8
  AddMonths <- MCAddMonths
  NoDate = NoDate
  Today = 4
  TightDays = 3
  MaxClock = 1
CHECK_DEADLOCK FALSE
INVARIANTS
  CommandTypeOK
  ManifestCoversRange
  PartKeysDiffer
  ExplicitWindowKept

CONSTANTS
  Backend = "postgres"
  Tokens = {t1}
  Sessions = {s1, s2}
  Macs = {m1}
  RadiusIds = {}
  None = None
  Duration <- DurationOne
  DataLimit <- LimitTwo
  Procs = {p1, p2}
  Workers = {}
  Ops = {"redeem", "resume", "interim", "stop"}
  MaxFaults = 0
  HasCoA = TRUE
  HasHTTP = FALSE
  MaxTasks = 1
  Adds = {1}
  Totals = {}
  Word = 2
  MaxBytes = 2
  MaxTime = 0
SPECIFICATION Spec
INVARIANTS QuotaSeesAllUsage

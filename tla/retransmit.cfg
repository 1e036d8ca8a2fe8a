CONSTANTS
  Backend = "postgres"
  Tokens = {t1}
  Sessions = {s1}
  Macs = {m1}
  RadiusIds = {r1}
  None = None
  Duration <- DurationOne
  DataLimit <- NoLimit
  Procs = {p1, p2}
  Workers = {}
  Ops = {"auth", "acct_interim"}
  MaxFaults = 0
  HasCoA = TRUE
  HasHTTP = FALSE
  MaxTasks = 1
  Adds = {}
  Totals = {1}
  Word = 2
  MaxBytes = 1
  MaxTime = 0
SPECIFICATION Spec
INVARIANTS RadiusCountedOnce
CHECK_DEADLOCK FALSE

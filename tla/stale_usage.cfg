CONSTANTS
  Backend = "postgres"
  Tokens = {t1}
  Sessions = {s1}
  Macs = {m1}
  RadiusIds = {}
  None = None
  Duration <- DurationOne
  DataLimit <- NoLimit
  Procs = {p1, p2}
  Workers = {}
  Ops = {"redeem", "revoke", "interim"}
  MaxFaults = 0
  HasCoA = TRUE
  HasHTTP = FALSE
  MaxTasks = 1
  Adds = {1}
  Totals = {}
  Word = 2
  MaxBytes = 1
  MaxTime = 0
SPECIFICATION Spec
INVARIANTS RevocationEndsSessions

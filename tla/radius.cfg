CONSTANTS
  Backend = "postgres"
  Tokens = {t1}
  Sessions = {s1, s2}
  Macs = {m1}
  RadiusIds = {r1}
  None = None
  Duration <- DurationOne
  DataLimit <- LimitTwo
  Procs = {p1, w1}
  Workers = {w1}
  Ops = {"auth", "start", "stop", "acct_start", "acct_interim", "acct_stop", "sweep"}
  MaxFaults = 1
  HasCoA = TRUE
  HasHTTP = FALSE
  MaxTasks = 1
  Adds = {}
  Totals = {1, 3}
  Word = 2
  MaxBytes = 2
  MaxTime = 1
SPECIFICATION Spec
SYMMETRY Symmetry
INVARIANTS TypeOK TokenInv RadiusCountedOnce CopyInv

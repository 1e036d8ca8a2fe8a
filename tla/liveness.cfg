CONSTANTS
  Backend = "postgres"
  Tokens = {t1, t2}
  Sessions = {s1, s2}
  Macs = {m1}
  RadiusIds = {}
  None = None
  Duration <- DurationOne
  DataLimit <- NoLimit
  Procs = {p1, w1}
  Workers = {w1}
  Ops = {"auth", "stop", "sweep", "retry"}
  MaxFaults = 1
  HasCoA = TRUE
  HasHTTP = FALSE
  MaxTasks = 1
  Adds = {}
  Totals = {}
  Word = 2
  MaxBytes = 0
  MaxTime = 1
SPECIFICATION FairSpec
PROPERTIES RequestsFinish OverdueIsSwept OverGoesOffline

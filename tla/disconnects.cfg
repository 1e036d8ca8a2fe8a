CONSTANTS
  Backend = "postgres"
  Tokens = {t1}
  Sessions = {s1, s2, s3}
  Macs = {m1}
  RadiusIds = {}
  None = None
  Duration <- DurationOne
  DataLimit <- NoLimit
  Procs = {p1, p2, w1}
  Workers = {w1}
  Ops = {"redeem", "resume", "revoke", "sweep", "retry"}
  MaxFaults = 0
  HasCoA = TRUE
  HasHTTP = TRUE
  MaxTasks = 1
  Adds = {}
  Totals = {}
  Word = 2
  MaxBytes = 0
  MaxTime = 2
SPECIFICATION Spec
SYMMETRY Symmetry
INVARIANTS OneActiveSession OverPursued EndedIsTracked ChaseInv PendingIsTracked PendingInv ExpiryInv

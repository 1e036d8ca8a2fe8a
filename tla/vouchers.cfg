CONSTANTS
  Backend = "postgres"
  Tokens = {t1}
  Sessions = {s1, s2}
  Macs = {m1, m2}
  RadiusIds = {}
  None = None
  Duration <- DurationOne
  DataLimit <- NoLimit
  Procs = {p1, p2, w1}
  Workers = {w1}
  Ops = {"redeem", "auth", "revoke", "sweep", "stop"}
  MaxFaults = 1
  HasCoA = TRUE
  HasHTTP = FALSE
  MaxTasks = 1
  Adds = {}
  Totals = {}
  Word = 2
  MaxBytes = 0
  MaxTime = 2
SPECIFICATION Spec
SYMMETRY Symmetry
INVARIANTS OneDevicePerToken
PROPERTIES TerminalIsFinal  VoucherSpec

CONSTANTS
  Backend = "memory"
  Tokens = {t1, t2}
  Sessions = {s1, s2}
  Macs = {m1}
  RadiusIds = {}
  None = None
  Duration <- DurationOne
  DataLimit <- NoLimit
  Procs = {p1, p2}
  Workers = {}
  Ops = {"redeem", "resume", "disconnect", "recover"}
  MaxFaults = 0
  HasCoA = TRUE
  HasHTTP = FALSE
  MaxTasks = 1
  Adds = {}
  Totals = {}
  Word = 2
  MaxBytes = 0
  MaxTime = 2
SPECIFICATION Spec
SYMMETRY Symmetry
INVARIANTS TokenInv SessionInv OneActiveSession OverEndsSessions RecoveredIsOver CopyInv RecoverInv
PROPERTIES EndedStaysEnded RecoveryEndsOverdue VoucherSpec

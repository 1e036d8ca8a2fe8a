CONSTANTS
  Keys = {k1}
  Max = 2
  Window = 2
  MaxClock = 7
  MaxAsked = 7
SPECIFICATION Spec
INVARIANTS LimitInv WindowBound RefusedIsBusy
CHECK_DEADLOCK FALSE

\* Two customers book at the same time.
SPECIFICATION Spec
CONSTANTS
  ana = ana
  bea = bea
  Staff = {ana, bea}
  Appt = {a1, a2}
  Batch = {1, 2, 3}
  Request = {r1, r2}
  MaxTime = 3
  Plan <- MCPlanSerial
  LeadTime = 1
  Op = {"book"}
  PanelStatus = {"pending", "confirmed", "cancelled", "completed"}
  MaxNow = 2
  MaxCrash = 0
PROPERTIES CustomersNeverDoubleBook
CHECK_DEADLOCK FALSE

\* One handler at a time: bookings by customers, and the panel changing statuses.
SPECIFICATION Spec
CONSTANTS
  ana = ana
  bea = bea
  Staff = {ana, bea}
  Appt = {a1, a2}
  Batch = {1, 2, 3}
  Request = {r1}
  MaxTime = 3
  Plan <- MCPlanSerial
  LeadTime = 1
  Op = {"book", "status"}
  PanelStatus = {"pending", "confirmed", "cancelled", "completed"}
  MaxNow = 2
  MaxCrash = 0
INVARIANTS StatusAndIndexAgree
CHECK_DEADLOCK FALSE

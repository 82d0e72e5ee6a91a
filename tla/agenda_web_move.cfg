\* One customer books, and another moves a booking from the web page.
SPECIFICATION Spec
CONSTANTS
  ana = ana
  bea = bea
  Staff = {ana, bea}
  Appt = {a1, a2}
  Batch = {1, 2, 3}
  Request = {r1}
  MaxTime = 5
  Plan <- MCPlanMove
  LeadTime = 1
  Op = {"book", "webMove"}
  PanelStatus = {"pending", "confirmed", "cancelled", "completed"}
  MaxNow = 2
  MaxCrash = 0
PROPERTIES CustomersNeverDoubleBook
CHECK_DEADLOCK FALSE

\* One handler at a time, so each runs to its end or dies; the clock runs.
SPECIFICATION FairSpec
CONSTANTS
  ana = ana
  bea = bea
  Staff = {ana, bea}
  Appt = {a1, a2}
  Batch = {1, 2, 3}
  Request = {r1}
  MaxTime = 3
  Plan <- MCPlanSerial
  LeadTime = 1
  Op = {"create", "book", "whatsappMove", "edit", "status", "whatsappCancel", "webCancel", "remove"}
  PanelStatus = {"pending", "confirmed", "cancelled", "completed"}
  MaxNow = 2
  MaxCrash = 1
INVARIANTS ClosedHoldsNothing WindowOfSegments
PROPERTIES CustomersNeverDoubleBook CancelledReleases
CHECK_DEADLOCK FALSE

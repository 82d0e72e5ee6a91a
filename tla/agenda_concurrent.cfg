\* Two handlers in flight, every operation that writes differently.
SPECIFICATION Spec
CONSTANTS
  ana = ana
  bea = bea
  Staff = {ana, bea}
  Appt = {a1, a2}
  Batch = {1, 2}
  Request = {r1, r2}
  MaxTime = 4
  Plan <- MCPlanChain
  LeadTime = 0
  Op = {"create", "book", "whatsappMove", "webMove", "edit", "status", "whatsappCancel", "remove"}
  PanelStatus = {"pending", "cancelled"}
  MaxNow = 0
  MaxCrash = 0
SYMMETRY Symmetry
INVARIANTS TypeOK NoHalfBooking NoOrphan
PROPERTIES ImplementsLedger
CHECK_DEADLOCK FALSE

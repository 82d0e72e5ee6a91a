------------------------------ MODULE MCAgenda -------------------------------
\* Instances of Agenda for TLC.
EXTENDS Agenda, TLC

CONSTANTS ana, bea   \* two professionals

Seg(staff, start, end) == [staff |-> staff, start |-> start, end |-> end]
Booking1(staff, start, end) == [start |-> start, end |-> end, segs |-> {Seg(staff, start, end)}]

\* One long service and a short one that overlaps its second half without starting
\* with it; two services in a row, the second on another professional and at the
\* time of the short one; and a time that is soon past.
MCPlan ==
  {Booking1(ana, 1, 3), Booking1(ana, 2, 3),
   [start |-> 1, end |-> 3, segs |-> {Seg(bea, 1, 2), Seg(ana, 2, 3)}]}

\* The same conflict with fewer bookings, for the runs with two handlers.  Neither is
\* a part of the other, so that half of one is never taken for the whole of the other.
MCPlanChain ==
  {Booking1(ana, 2, 4),
   [start |-> 1, end |-> 3, segs |-> {Seg(bea, 1, 2), Seg(ana, 2, 3)}]}

MCPlanSerial == MCPlan \cup {Booking1(bea, 0, 1)}

\* Three times for the same service, each overlapping the next in part.
MCPlanMove == {Booking1(ana, 1, 3), Booking1(ana, 2, 4), Booking1(ana, 3, 5)}

Symmetry == Permutations(Appt) \cup Permutations(Request)
===============================================================================

-------------------------------- MODULE Agenda --------------------------------
\* The agenda of one business: the tables appointments and appointment_services
\* and every handler that writes them (appointments/appointments.service.ts), with
\* the check the customer's channels make before they write
\* (availability/booking/booking-availability.service.ts).
\*
\* The server is one process.  A handler is a promise chain, and between two
\* awaited queries any other handler may run: a step of this module is one query,
\* or one database transaction, with the code around it.  A handler that touches
\* these tables once is one action; the others keep in req[r] what they have read
\* until their next query.  Prices, services and names are left out.
EXTENDS Integers, FiniteSets

CONSTANTS
  Staff,     \* the professionals
  Appt,      \* appointment ids, each drawn once (uuid)
  Batch,     \* one element stands for the uuids of one insertion of segments
  Request,   \* the handlers that can be in flight at once
  MaxTime,   \* the last instant of the grid (bound)
  Plan,      \* the bookings that can be asked for
  LeadTime,  \* MIN_LEAD_TIME_MINUTES, in units of the grid
  Op,        \* the operations the run exercises
  PanelStatus,  \* the statuses the panel asks for
  MaxNow,    \* how far the clock runs (bound)
  MaxCrash   \* how many times the process may die (bound)

Time == 0 .. MaxTime
NoTime == -1          \* NULL in activeStartTime

Segment == [staff : Staff, start : Time, end : Time]

Overlap(x, y) == x.start < y.end /\ y.start < x.end

\* planBookingSegments gives a booking its window; create, editBookingByTenant and
\* createFromBookingFlow refuse, before they write, a plan whose segments overlap
\* on one professional (overlappingStaffIds).
WellPlanned(p) ==
  /\ p.segs # {}
  /\ \A s \in p.segs : p.start <= s.start /\ s.start < s.end /\ s.end <= p.end
  /\ \A s, t \in p.segs : s.staff = t.staff /\ Overlap(s, t) => s = t

ASSUME PlanAssumption ==
  /\ Plan \subseteq [start : Time, end : Time, segs : SUBSET Segment]
  /\ \A p \in Plan : WellPlanned(p)

ASSUME BoundAssumption ==
  MaxTime \in Nat /\ LeadTime \in Nat /\ MaxCrash \in Nat /\ MaxNow \in Time

ASSUME StatusAssumption == PanelStatus \subseteq {"pending", "confirmed", "cancelled", "completed"}

-------------------------------------------------------------------------------
\* State

Status == {"pending", "confirmed", "cancelled", "completed"}

\* BLOCKING_APPOINTMENT_STATUSES; OPEN_APPOINTMENT_STATUSES is the same list.
Blocking == {"pending", "confirmed"}

VARIABLES
  appt,      \* the row of each appointment; "unborn" and "deleted" are no row
  rows,      \* the segments of each appointment
  now,       \* the server's clock
  req,       \* what each handler in flight is about to do, and what it has read
  stranded,  \* history: the ids a crash left half written, or that a late save
             \* inserted again after they had been deleted
  crashes    \* how many times the process has died

vars == <<appt, rows, now, req, stranded, crashes>>

Row == [batch : Batch, staff : Staff, start : Time, end : Time,
        active : Time \cup {NoTime}]

Record == [status : Status \cup {"unborn", "deleted"}, start : Time, end : Time]

Idle      == [pc : {"idle"}]
Confirmed == [pc : {"confirmed"}, plan : Plan]
Writing   == [pc : {"saved", "undo"}, id : Appt, plan : Plan]
Moving    == [pc : {"moveConfirmed", "editing"}, by : {"panel", "customer"}, id : Appt, plan : Plan]
Cancel    == [pc : {"cancelling"}, id : Appt, was : Record, seen : SUBSET Row]
Sync      == [pc : {"sync"}, id : Appt, status : Status]
Syncing   == [pc : {"syncing"}, id : Appt, status : Status, seen : SUBSET Row]

Handler == Idle \cup Confirmed \cup Writing \cup Moving \cup Cancel \cup Sync \cup Syncing

idle == [pc |-> "idle"]
NoRecord(status) == [status |-> status, start |-> 0, end |-> 0]

Present(a) == appt[a].status \in Status
BlocksAgenda(a) == appt[a].status \in Blocking

Init ==
  /\ appt = [a \in Appt |-> NoRecord("unborn")]
  /\ rows = [a \in Appt |-> {}]
  /\ now = 0
  /\ req = [r \in Request |-> idle]
  /\ stranded = {}
  /\ crashes = 0

-------------------------------------------------------------------------------
\* The table of segments

\* (A bug for TLC to find: the end is added to the start instead of the duration.)
RowsEndingTwice(p, b, claims) ==
  {[batch |-> b, staff |-> s.staff, start |-> s.start, end |-> s.start + s.end,
    active |-> IF claims THEN s.start ELSE NoTime] : s \in p.segs}

\* The segments a plan is written as.
RowsOf(p, b, claims) ==
  {[batch |-> b, staff |-> s.staff, start |-> s.start, end |-> s.end,
    active |-> IF claims THEN s.start ELSE NoTime] : s \in p.segs}

Batches(rs) == {x.batch : x \in rs}

\* The uuids of b are in no row of a, nor in a copy of its rows in memory.
Fresh(a, b) ==
  /\ b \notin Batches(rows[a])
  /\ \A r \in Request : req[r].pc \in {"cancelling", "syncing"} /\ req[r].id = a
                          => b \notin Batches(req[r].seen)

\* With Batch finite there may be none (bound): a status saved late inserts again
\* the segments an edit replaced, so the copies of an appointment can pile up.
HasFresh(a) == \E b \in Batch : Fresh(a, b)

NewBatch(a) == CHOOSE b \in Batch : Fresh(a, b)

\* The unique index (staffId, activeStartTime), on the rows a would have.
Clash(x, y) == x.staff = y.staff /\ x.active = y.active /\ x.active # NoTime

IndexAccepts(a, new) ==
  /\ \A x, y \in new : Clash(x, y) => x = y
  /\ \A b \in Appt \ {a} : \A x \in new, y \in rows[b] : ~Clash(x, y)

\* A write of segments fails with "duplicate entry", or on the foreign key when
\* the appointment is gone; either way nothing of it stays.
Writable(a, new) == Present(a) /\ IndexAccepts(a, new)

\* (Two bugs: only the first segment of each insertion follows the status; the
\* slots are claimed whatever the status.)
ResavedFirst(a, seen, status) ==
  LET first == {CHOOSE x \in rows[a] : x.batch = b : b \in Batches(rows[a] \cap seen)}
  IN (rows[a] \ first)
       \cup {[x EXCEPT !.active = IF status \in Blocking THEN x.start ELSE NoTime] : x \in first}

ResavedClaiming(a, seen, status) ==
  {x \in rows[a] : x.batch \notin Batches(seen)} \cup {[x EXCEPT !.active = x.start] : x \in seen}

\* The rows save(segments) leaves: TypeORM updates the segments it was given, and
\* inserts again those that are no longer in the table.
Resaved(a, seen, status) ==
  {x \in rows[a] : x.batch \notin Batches(seen)}
    \cup {[x EXCEPT !.active = IF status \in Blocking THEN x.start ELSE NoTime]
            : x \in seen}

\* isStaffFree over getAppointmentsByStaff: what is busy is told by the status of
\* the appointment, not by activeStartTime.  `except` is excludeAppointmentId.
StaffFree(s, except) ==
  \A a \in Appt \ except : BlocksAgenda(a) =>
    \A x \in rows[a] : x.staff = s.staff => ~Overlap(x, s)

\* (A bug: only the first instant of each segment is looked up.)
SlotConfirmedByStart(p, except) ==
  /\ p.start >= now + LeadTime
  /\ \A s \in p.segs : StaffFree([s EXCEPT !.end = s.start + 1], except)

\* confirmSlot with scope "client".
SlotConfirmed(p, except) ==
  /\ p.start >= now + LeadTime
  /\ \A s \in p.segs : StaffFree(s, except)

-------------------------------------------------------------------------------
\* Handlers of one query or one transaction.  They too need a free slot among the
\* handlers in flight.

FreeHandler == \E r \in Request : req[r].pc = "idle"

\* create and insertBooking: the panel's warnings never refuse, so the only check
\* is the index.  A booking that has already ended is born attended.
PanelCreate(a, p) ==
  LET status == IF p.end < now THEN "completed" ELSE "pending"
      new == RowsOf(p, NewBatch(a), status \in Blocking)
  IN /\ "create" \in Op
     /\ FreeHandler
     /\ appt[a].status = "unborn"
     /\ HasFresh(a)
     /\ IndexAccepts(a, new)
     /\ appt' = [appt EXCEPT ![a] = [status |-> status, start |-> p.start, end |-> p.end]]
     /\ rows' = [rows EXCEPT ![a] = new]
     /\ UNCHANGED <<now, req, stranded, crashes>>

\* removeByTenant: the row goes, and its segments in cascade.
Remove(a) ==
  /\ "remove" \in Op
  /\ FreeHandler
  /\ Present(a)
  /\ appt' = [appt EXCEPT ![a] = NoRecord("deleted")]
  /\ rows' = [rows EXCEPT ![a] = {}]
  /\ UNCHANGED <<now, req, stranded, crashes>>

-------------------------------------------------------------------------------
\* A customer's booking: confirmSlot, then createFromBookingFlow

ConfirmSlot(r, p) ==
  /\ "book" \in Op
  /\ req[r].pc = "idle"
  /\ SlotConfirmed(p, {})
  /\ req' = [req EXCEPT ![r] = [pc |-> "confirmed", plan |-> p]]
  /\ UNCHANGED <<appt, rows, now, stranded, crashes>>

SaveAppointment(r) ==
  /\ req[r].pc = "confirmed"
  /\ \E a \in Appt :
       /\ appt[a].status = "unborn"
       /\ appt' = [appt EXCEPT ![a] = [status |-> "confirmed",
                     start |-> req[r].plan.start, end |-> req[r].plan.end]]
       /\ req' = [req EXCEPT ![r] = [pc |-> "saved", id |-> a, plan |-> req[r].plan]]
  /\ UNCHANGED <<rows, now, stranded, crashes>>

\* (A bug: the segments are written one by one, and the second write is lost.)
WithFirstOf(a, p) ==
  LET new == RowsOf(p, NewBatch(a), TRUE)
  IN rows[a] \cup {x \in new : \A y \in new : x.start <= y.start}

\* The rows of the appointment with those of the plan added.
WithPlan(a, p) == rows[a] \cup RowsOf(p, NewBatch(a), TRUE)

SaveSegments(r) ==
  /\ req[r].pc = "saved"
  /\ LET a == req[r].id
     IN /\ HasFresh(a)
        /\ Writable(a, WithPlan(a, req[r].plan))
        /\ rows' = [rows EXCEPT ![a] = WithPlan(a, req[r].plan)]
  /\ req' = [req EXCEPT ![r] = idle]
  /\ UNCHANGED <<appt, now, stranded, crashes>>

SegmentsRefused(r) ==
  /\ req[r].pc = "saved"
  /\ HasFresh(req[r].id)
  /\ ~Writable(req[r].id, WithPlan(req[r].id, req[r].plan))
  /\ req' = [req EXCEPT ![r].pc = "undo"]
  /\ UNCHANGED <<appt, rows, now, stranded, crashes>>

\* (A bug: the catch reports the conflict and leaves the appointment.)
UndoNothing(r) ==
  /\ req[r].pc = "undo"
  /\ req' = [req EXCEPT ![r] = idle]
  /\ UNCHANGED <<appt, rows, now, stranded, crashes>>

\* The catch: the orphan appointment is deleted, with whatever hangs from it.
UndoAppointment(r) ==
  /\ req[r].pc = "undo"
  /\ appt' = [appt EXCEPT ![req[r].id] = NoRecord("deleted")]
  /\ rows' = [rows EXCEPT ![req[r].id] = {}]
  /\ req' = [req EXCEPT ![r] = idle]
  /\ UNCHANGED <<now, stranded, crashes>>

-------------------------------------------------------------------------------
\* Moving a booking: editBookingByTenant, and the checks its callers make

\* WhatsApp: afterConfirm finds the appointment still open and confirms the slot.
ConfirmMove(r, a, p) ==
  /\ "whatsappMove" \in Op
  /\ req[r].pc = "idle"
  /\ BlocksAgenda(a)
  /\ SlotConfirmed(p, {a})
  /\ req' = [req EXCEPT ![r] = [pc |-> "moveConfirmed", by |-> "customer", id |-> a, plan |-> p]]
  /\ UNCHANGED <<appt, rows, now, stranded, crashes>>

\* reschedule keeps the services and who attends; only the time is another.
Care(segs) == {<<s.staff, s.end - s.start>> : s \in segs}

\* The customer's web page: movable, and no check of the time chosen.
WebMove(r, a, p) ==
  /\ "webMove" \in Op
  /\ req[r].pc = "idle"
  /\ BlocksAgenda(a)
  /\ appt[a].start >= now
  /\ Care(p.segs) = Care(rows[a])
  /\ req' = [req EXCEPT ![r] = [pc |-> "editing", by |-> "customer", id |-> a, plan |-> p]]
  /\ UNCHANGED <<appt, rows, now, stranded, crashes>>

\* The panel: the appointment is read and must be open.
PanelEdit(r, a, p) ==
  /\ "edit" \in Op
  /\ req[r].pc = "idle"
  /\ BlocksAgenda(a)
  /\ req' = [req EXCEPT ![r] = [pc |-> "editing", by |-> "panel", id |-> a, plan |-> p]]
  /\ UNCHANGED <<appt, rows, now, stranded, crashes>>

\* The same read, for a move WhatsApp has confirmed.
ReadMove(r) ==
  /\ req[r].pc = "moveConfirmed"
  /\ req' = [req EXCEPT ![r] = IF BlocksAgenda(req[r].id)
                               THEN [@ EXCEPT !.pc = "editing"] ELSE idle]
  /\ UNCHANGED <<appt, rows, now, stranded, crashes>>

\* (A bug: the end of the appointment is left where it was.)
MovedStart(a, p) == [appt[a] EXCEPT !.start = p.start]

Moved(a, p) == [appt[a] EXCEPT !.start = p.start, !.end = p.end]

\* replaceSegments, one transaction.  Only an open appointment got this far, so
\* claimsSlot is true: it was computed from the status read before.
ReplaceSegments(r) ==
  LET a == req[r].id
      p == req[r].plan
      new == RowsOf(p, NewBatch(a), TRUE)
  IN /\ req[r].pc = "editing"
     /\ HasFresh(a)
     /\ IF Writable(a, new)
          THEN /\ rows' = [rows EXCEPT ![a] = new]
               /\ appt' = [appt EXCEPT ![a] = Moved(a, p)]
          ELSE UNCHANGED <<appt, rows>>
     /\ req' = [req EXCEPT ![r] = idle]
     /\ UNCHANGED <<now, stranded, crashes>>

-------------------------------------------------------------------------------
\* Changing the status: the panel, and the customer's cancellation

\* updateByTenant: the read before decides only whom to notify.
UpdateStatus(r, a, status) ==
  /\ "status" \in Op
  /\ req[r].pc = "idle"
  /\ Present(a)
  /\ appt' = [appt EXCEPT ![a].status = status]
  /\ req' = [req EXCEPT ![r] = [pc |-> "sync", id |-> a, status |-> status]]
  /\ UNCHANGED <<rows, now, stranded, crashes>>

ReadToCancel(r, a) ==
  req' = [req EXCEPT ![r] = [pc |-> "cancelling", id |-> a, was |-> appt[a],
                             seen |-> rows[a]]]

\* cancelByClient, from a WhatsApp button.
WhatsappCancel(r, a) ==
  /\ "whatsappCancel" \in Op
  /\ req[r].pc = "idle"
  /\ BlocksAgenda(a)
  /\ ReadToCancel(r, a)
  /\ UNCHANGED <<appt, rows, now, stranded, crashes>>

\* cancelByCustomerAccount, from the web: not once it has started.
WebCancel(r, a) ==
  /\ "webCancel" \in Op
  /\ req[r].pc = "idle"
  /\ BlocksAgenda(a)
  /\ appt[a].start >= now
  /\ ReadToCancel(r, a)
  /\ UNCHANGED <<appt, rows, now, stranded, crashes>>

\* cancelForCustomer saves the entity it read, with its segments: TypeORM writes
\* the columns that differ, inserts a row that is no longer there, and fails when
\* the table has a segment the entity lacks (it would orphan it: the key is NOT NULL).
SaveCancelled(r) ==
  LET a == req[r].id
      gone == ~Present(a)
  IN /\ req[r].pc = "cancelling"
     /\ IF Batches(rows[a]) \subseteq Batches(req[r].seen)
          THEN /\ appt' = [appt EXCEPT ![a] = [req[r].was EXCEPT !.status = "cancelled"]]
               /\ req' = [req EXCEPT ![r] = [pc |-> "sync", id |-> a, status |-> "cancelled"]]
               /\ stranded' = IF gone THEN stranded \cup {a} ELSE stranded
          ELSE /\ req' = [req EXCEPT ![r] = idle]
               /\ UNCHANGED <<appt, stranded>>
     /\ UNCHANGED <<rows, now, crashes>>

\* (A bug: an appointment that closes is left out.)
SyncFindOpen(r) ==
  /\ req[r].pc = "sync"
  /\ req' = [req EXCEPT ![r] =
       IF rows[req[r].id] = {} \/ req[r].status \notin Blocking THEN idle
       ELSE [pc |-> "syncing", id |-> req[r].id, status |-> req[r].status,
             seen |-> rows[req[r].id]]]
  /\ UNCHANGED <<appt, rows, now, stranded, crashes>>

\* syncActiveSlot: the segments are found in one query and saved in another.
SyncFind(r) ==
  /\ req[r].pc = "sync"
  /\ req' = [req EXCEPT ![r] =
       IF rows[req[r].id] = {} THEN idle
       ELSE [pc |-> "syncing", id |-> req[r].id, status |-> req[r].status,
             seen |-> rows[req[r].id]]]
  /\ UNCHANGED <<appt, rows, now, stranded, crashes>>

\* A refused save is answered as a conflict; the status stays as it was written.
SyncSave(r) ==
  LET a == req[r].id
      new == Resaved(a, req[r].seen, req[r].status)
  IN /\ req[r].pc = "syncing"
     /\ rows' = IF Writable(a, new) THEN [rows EXCEPT ![a] = new] ELSE rows
     /\ req' = [req EXCEPT ![r] = idle]
     /\ UNCHANGED <<appt, now, stranded, crashes>>

-------------------------------------------------------------------------------
\* Time, and the death of the process

Tick ==
  /\ now < MaxNow
  /\ now' = now + 1
  /\ UNCHANGED <<appt, rows, req, stranded, crashes>>

\* What was in memory is lost; what was written stays.
Crash ==
  /\ crashes < MaxCrash
  /\ \E r \in Request : req[r] # idle
  /\ crashes' = crashes + 1
  /\ stranded' = stranded \cup
       {req[r].id : r \in {q \in Request : req[q].pc \in {"saved", "undo"}}}
  /\ req' = [r \in Request |-> idle]
  /\ UNCHANGED <<appt, rows, now>>

\* The next query of a handler in flight.
Continue(r) ==
  \/ SaveAppointment(r) \/ SaveSegments(r) \/ SegmentsRefused(r) \/ UndoAppointment(r)
  \/ ReadMove(r) \/ ReplaceSegments(r)
  \/ SaveCancelled(r) \/ SyncFind(r) \/ SyncSave(r)

Arrive(r) ==
  \/ \E p \in Plan : ConfirmSlot(r, p)
  \/ \E a \in Appt, p \in Plan : ConfirmMove(r, a, p)
  \/ \E a \in Appt, p \in Plan : WebMove(r, a, p)
  \/ \E a \in Appt, p \in Plan : PanelEdit(r, a, p)
  \/ \E a \in Appt, status \in PanelStatus : UpdateStatus(r, a, status)
  \/ \E a \in Appt : WhatsappCancel(r, a)
  \/ \E a \in Appt : WebCancel(r, a)

Next ==
  \/ \E a \in Appt, p \in Plan : PanelCreate(a, p)
  \/ \E a \in Appt : Remove(a)
  \/ \E r \in Request : Arrive(r)
  \/ \E r \in Request : Continue(r)
  \/ Tick
  \/ Crash

Spec == Init /\ [][Next]_vars

\* The event loop runs the continuation of every promise that settles.
FairSpec == Spec /\ \A r \in Request : WF_vars(Continue(r))

-------------------------------------------------------------------------------
\* Properties

TypeOK ==
  /\ appt \in [Appt -> Record]
  /\ rows \in [Appt -> SUBSET Row]
  /\ now \in Time
  /\ req \in [Request -> Handler]
  /\ stranded \in SUBSET Appt
  /\ crashes \in 0 .. MaxCrash

\* The segments inserted together.
Inserted(rs, b) == {x \in rs : x.batch = b}

Whole(rs) ==
  \A b \in Batches(rs) : \E p \in Plan, claims \in BOOLEAN : Inserted(rs, b) = RowsOf(p, b, claims)

\* No half booking, whatever is lost, refused or overwritten: the segments that
\* were inserted together are all there and all in the dispute for their slots, or
\* all there and all out of it, or none is ("escribirlos uno por uno dejaria media
\* reserva escrita", createFromBookingFlow).
NoHalfBooking == \A a \in Appt : Whole(rows[a])

\* An open appointment without segments "no tiene profesional, ni precio, ni lugar
\* en la agenda" (insertBooking): only the handler that is about to write them, or
\* to delete it, leaves one; or a crash, or a save that came after a deletion.
NoOrphan ==
  \A a \in Appt \ stranded : BlocksAgenda(a) /\ rows[a] = {} =>
    \E r \in Request : req[r].pc \in {"saved", "undo"} /\ req[r].id = a

\* The slots an appointment disputes with the others.
Slots(rs) == {<<x.staff, x.active>> : x \in {y \in rs : y.active # NoTime}}

Held(a) == Slots(rows[a])

\* What the index keeps: two rows in dispute for one slot are the same row.
IndexUnique ==
  \A a, b \in Appt : \A x \in rows[a], y \in rows[b] : Clash(x, y) => a = b /\ x = y

\* What a handler has read is also made of whole insertions.
SnapshotsWhole ==
  \A r \in Request : req[r].pc \in {"cancelling", "syncing"} => Whole(req[r].seen)

\* Every appointment that has a row and no segments, closed ones too, is accounted
\* for: the panel may reopen it.
Accounted ==
  \A a \in Appt \ stranded : Present(a) /\ rows[a] = {} =>
    \E r \in Request : req[r].pc \in {"saved", "undo"} /\ req[r].id = a

\* The inductive invariant.
AgendaInv == TypeOK /\ NoHalfBooking /\ SnapshotsWhole /\ IndexUnique /\ Accounted

SlotsOf(p) == {<<s.staff, s.start>> : s \in p.segs}

Ledger == INSTANCE SlotLedger WITH Booking <- {SlotsOf(p) : p \in Plan},
                                   held <- [a \in Appt |-> Held(a)]

\* Whatever the handlers interleave, the segments table is a ledger of slots: one
\* holder a slot, no slot passed on without being released, and whole bookings
\* placed, moved and lifted in one step.
ImplementsLedger == Ledger!Spec

\* A closed appointment is out of the dispute once nobody is still settling it:
\* otherwise "el indice rechazaria reservas que la disponibilidad considera libres"
\* (appointment.entity.ts).  Not after a crash: nothing finishes what it cut short.
ClosedHoldsNothing ==
  crashes = 0 =>
    \A a \in Appt : Held(a) # {} /\ ~BlocksAgenda(a) =>
      \E r \in Request : req[r].pc \in {"sync", "syncing"} /\ req[r].id = a

\* The other half of what that comment says must always agree: what availability
\* discards is what the index disputes.
StatusAndIndexAgree ==
  (\A r \in Request : req[r].pc = "idle") =>
    \A a \in Appt : \A x \in rows[a] : BlocksAgenda(a) <=> x.active # NoTime

\* The times of an appointment are those of its segments.
Window(a) ==
  \E p \in Plan : /\ {[staff |-> x.staff, start |-> x.start, end |-> x.end] : x \in rows[a]} = p.segs
                  /\ appt[a].start = p.start /\ appt[a].end = p.end

WindowOfSegments == \A a \in Appt : rows[a] # {} => Window(a)

\* What a customer books or moves is never put on top of an appointment that
\* occupies the agenda: confirmSlot "es la unica barrera, y corre siempre".
CustomerWrites(r) ==
  \/ req[r].pc = "saved" /\ SaveSegments(r)
  \/ req[r].pc = "editing" /\ req[r].by = "customer" /\ ReplaceSegments(r)

CustomersNeverDoubleBook ==
  [][\A r \in Request : CustomerWrites(r) /\ rows' # rows =>
       \A s \in req[r].plan.segs : StaffFree(s, {req[r].id})]_vars

\* A cancelled appointment gives its slots back, unless the process dies meanwhile.
CancelledReleases ==
  \A a \in Appt : (appt[a].status = "cancelled" /\ Held(a) # {})
                     ~> (appt[a].status # "cancelled" \/ Held(a) = {} \/ crashes > 0)
===============================================================================

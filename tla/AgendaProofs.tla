----------------------------- MODULE AgendaProofs -----------------------------
\* Proofs about Agenda, for any professionals, bookings, handlers and bounds.
EXTENDS Agenda, TLAPS

\* What a handler holds in memory, by where it is.
LEMMA HandlerFields ==
  ASSUME NEW h \in Handler
  PROVE  /\ h.pc = "confirmed" => h \in Confirmed
         /\ h.pc \in {"saved", "undo"} => h \in Writing
         /\ h.pc \in {"moveConfirmed", "editing"} => h \in Moving
         /\ h.pc = "cancelling" => h \in Cancel
         /\ h.pc = "sync" => h \in Sync
         /\ h.pc = "syncing" => h \in Syncing
BY DEF Handler, Idle, Confirmed, Writing, Moving, Cancel, Sync, Syncing

\* A plan is a window and its segments.
LEMMA PlanFields ==
  ASSUME NEW p \in Plan
  PROVE  p.start \in Time /\ p.end \in Time /\ p.segs \in SUBSET Segment /\ p.segs # {}
BY PlanAssumption DEF WellPlanned

\* The rows of a plan are rows, and there is one at least.
LEMMA RowsOfTyped ==
  ASSUME NEW p \in Plan, NEW b \in Batch, NEW claims \in BOOLEAN
  PROVE  RowsOf(p, b, claims) \in SUBSET Row /\ RowsOf(p, b, claims) # {}
<1>1. ASSUME NEW s \in p.segs
      PROVE  [batch |-> b, staff |-> s.staff, start |-> s.start, end |-> s.end,
              active |-> IF claims THEN s.start ELSE NoTime] \in Row
  <2>1. s \in Segment
    BY PlanFields
  <2>2. (IF claims THEN s.start ELSE NoTime) \in Time \cup {NoTime}
    BY <2>1 DEF Segment
  <2> QED BY <2>1, <2>2 DEF Segment, Row
<1>2. RowsOf(p, b, claims) \in SUBSET Row
  BY <1>1 DEF RowsOf
<1>3. PICK s \in p.segs : TRUE
  BY PlanFields
<1>4. RowsOf(p, b, claims) # {}
  BY <1>3 DEF RowsOf
<1> QED BY <1>2, <1>4

\* The uuids of an insertion are in no row of the appointment, nor in a copy of them.
LEMMA NewBatchFresh ==
  ASSUME NEW a, HasFresh(a)
  PROVE  NewBatch(a) \in Batch /\ NewBatch(a) \notin Batches(rows[a])
BY DEF HasFresh, NewBatch, Fresh

\* A save of segments leaves rows, whatever it was given and whatever the status.
LEMMA ResavedTyped ==
  ASSUME TypeOK, NEW a \in Appt, NEW seen \in SUBSET Row, NEW status
  PROVE  Resaved(a, seen, status) \in SUBSET Row
BY BoundAssumption DEF TypeOK, Resaved, Row, NoTime, Time

\* A save of segments deletes none.
LEMMA ResavedKeeps ==
  ASSUME NEW a, NEW seen, NEW status, rows[a] # {}
  PROVE  Resaved(a, seen, status) # {}
<1> DEFINE saved(x) == [x EXCEPT !.active = IF status \in Blocking THEN x.start ELSE NoTime]
<1>1. PICK x \in rows[a] : TRUE
  OBVIOUS
<1>2. CASE x.batch \notin Batches(seen)
  BY <1>1, <1>2 DEF Resaved
<1>3. CASE x.batch \in Batches(seen)
  <2>1. PICK y \in seen : TRUE
    BY <1>3 DEF Batches
  <2>2. saved(y) \in Resaved(a, seen, status)
    BY <2>1 DEF Resaved
  <2> QED BY <2>2
<1> QED BY <1>2, <1>3

-------------------------------------------------------------------------------
\* Type correctness

\* The empty agenda has the types of the columns.
THEOREM TypeInit == Init => TypeOK
BY BoundAssumption DEF Init, TypeOK, Record, NoRecord, Time, Status, idle, Handler, Idle

\* No query of any handler writes a value its column cannot hold.
THEOREM TypeNext == TypeOK /\ [Next]_vars => TypeOK'
<1> SUFFICES ASSUME TypeOK, [Next]_vars PROVE TypeOK'
  OBVIOUS
<1> USE DEF TypeOK
<1>1. ASSUME NEW a \in Appt, NEW p \in Plan, PanelCreate(a, p) PROVE TypeOK'
  <2> DEFINE status == IF p.end < now THEN "completed" ELSE "pending"
  <2>1. RowsOf(p, NewBatch(a), status \in Blocking) \in SUBSET Row
    <3>1. (status \in Blocking) \in BOOLEAN
      OBVIOUS
    <3>2. NewBatch(a) \in Batch
      BY <1>1, NewBatchFresh DEF PanelCreate
    <3> HIDE DEF status
    <3> QED BY <3>1, <3>2, RowsOfTyped
  <2>2. rows' \in [Appt -> SUBSET Row]
    BY <1>1, <2>1 DEF PanelCreate
  <2>3. appt' \in [Appt -> Record]
    BY <1>1, PlanFields DEF PanelCreate, Record, Status
  <2> QED BY <1>1, <2>2, <2>3 DEF PanelCreate
<1>2. ASSUME NEW a \in Appt, Remove(a) PROVE TypeOK'
  BY <1>2, BoundAssumption DEF Remove, Record, NoRecord, Time
<1>3. ASSUME NEW r \in Request, NEW p \in Plan, ConfirmSlot(r, p) PROVE TypeOK'
  BY <1>3 DEF ConfirmSlot, Handler, Confirmed
<1>4. ASSUME NEW r \in Request, NEW a \in Appt, NEW p \in Plan,
             ConfirmMove(r, a, p) \/ WebMove(r, a, p) \/ PanelEdit(r, a, p)
      PROVE  TypeOK'
  BY <1>4 DEF ConfirmMove, WebMove, PanelEdit, Handler, Moving
<1>5. ASSUME NEW r \in Request, NEW a \in Appt, NEW status \in PanelStatus,
             UpdateStatus(r, a, status)
      PROVE  TypeOK'
  <2>1. status \in Status
    BY StatusAssumption DEF Status
  <2> QED BY <1>5, <2>1 DEF UpdateStatus, Handler, Sync, Record
<1>6. ASSUME NEW r \in Request, NEW a \in Appt, WhatsappCancel(r, a) \/ WebCancel(r, a)
      PROVE  TypeOK'
  BY <1>6 DEF WhatsappCancel, WebCancel, ReadToCancel, Handler, Cancel
<1>7. ASSUME NEW r \in Request, Continue(r) PROVE TypeOK'
  <2>1. CASE SaveAppointment(r)
    <3>1. req[r] \in Confirmed
      BY <2>1, HandlerFields DEF SaveAppointment
    <3> QED BY <2>1, <3>1, PlanFields DEF SaveAppointment, Confirmed, Handler, Writing, Record, Status
  <2>2. CASE SaveSegments(r)
    <3>1. req[r] \in Writing
      BY <2>2, HandlerFields DEF SaveSegments
    <3> QED BY <2>2, <3>1, RowsOfTyped, NewBatchFresh
            DEF SaveSegments, Writing, WithPlan, Handler, Idle, idle
  <2>3. CASE SegmentsRefused(r)
    <3>1. req[r] \in Writing
      BY <2>3, HandlerFields DEF SegmentsRefused
    <3> QED BY <2>3, <3>1 DEF SegmentsRefused, Writing, Handler
  <2>4. CASE UndoAppointment(r)
    <3>1. req[r] \in Writing
      BY <2>4, HandlerFields DEF UndoAppointment
    <3> QED BY <2>4, <3>1, BoundAssumption
            DEF UndoAppointment, Writing, Handler, Idle, idle, Record, NoRecord, Time
  <2>5. CASE ReadMove(r)
    <3>1. req[r] \in Moving
      BY <2>5, HandlerFields DEF ReadMove
    <3> QED BY <2>5, <3>1 DEF ReadMove, Moving, Handler, Idle, idle
  <2>6. CASE ReplaceSegments(r)
    <3>1. req[r] \in Moving
      BY <2>6, HandlerFields DEF ReplaceSegments
    <3> DEFINE a == req[r].id
               new == RowsOf(req[r].plan, NewBatch(a), TRUE)
    <3>2. a \in Appt /\ req[r].plan \in Plan
      BY <3>1 DEF Moving
    <3>3. new \in SUBSET Row
      BY <2>6, <3>2, RowsOfTyped, NewBatchFresh DEF ReplaceSegments
    <3>4. Moved(a, req[r].plan) \in Record
      BY <3>2, PlanFields DEF Moved, Record
    <3>5. rows' \in [Appt -> SUBSET Row] /\ appt' \in [Appt -> Record]
      <4> HIDE DEF new
      <4>1. rows' = [rows EXCEPT ![a] = new] \/ rows' = rows
        BY <2>6 DEF ReplaceSegments, new
      <4>2. appt' = [appt EXCEPT ![a] = Moved(a, req[r].plan)] \/ appt' = appt
        BY <2>6 DEF ReplaceSegments
      <4> QED BY <4>1, <4>2, <3>2, <3>3, <3>4
    <3>6. req' \in [Request -> Handler]
      BY <2>6 DEF ReplaceSegments, Handler, Idle, idle
    <3> QED BY <2>6, <3>5, <3>6 DEF ReplaceSegments
  <2>7. CASE SaveCancelled(r)
    <3>1. req[r] \in Cancel
      BY <2>7, HandlerFields DEF SaveCancelled
    <3> QED BY <2>7, <3>1 DEF SaveCancelled, Cancel, Sync, Status, Handler, Idle, idle, Record
  <2>8. CASE SyncFind(r)
    <3>1. req[r] \in Sync
      BY <2>8, HandlerFields DEF SyncFind
    <3> QED BY <2>8, <3>1 DEF SyncFind, Sync, Syncing, Handler, Idle, idle
  <2>9. CASE SyncSave(r)
    <3>1. req[r] \in Syncing
      BY <2>9, HandlerFields DEF SyncSave
    <3> QED BY <2>9, <3>1, ResavedTyped DEF SyncSave, Syncing, Handler, Idle, idle
  <2> QED BY <1>7, <2>1, <2>2, <2>3, <2>4, <2>5, <2>6, <2>7, <2>8, <2>9 DEF Continue
<1>8. CASE Tick
  BY <1>8, BoundAssumption DEF Tick, Time
<1>9. CASE Crash
  <2>1. ASSUME NEW r \in Request, req[r].pc \in {"saved", "undo"} PROVE req[r].id \in Appt
    BY <2>1, HandlerFields DEF Writing
  <2> QED BY <1>9, <2>1, BoundAssumption DEF Crash, Handler, Idle, idle
<1>10. CASE UNCHANGED vars
  BY <1>10 DEF vars
<1> QED BY <1>1, <1>2, <1>3, <1>4, <1>5, <1>6, <1>7, <1>8, <1>9, <1>10 DEF Next, Arrive

\* The tables, the clock and what the handlers hold always have the shape the code
\* gives them.
THEOREM TypeCorrect == Spec => []TypeOK
BY TypeInit, TypeNext, PTL DEF Spec

-------------------------------------------------------------------------------
\* Whole insertions

\* An insertion of a whole plan with new uuids keeps every insertion whole.
LEMMA WholeAdd ==
  ASSUME NEW rs, Whole(rs), NEW p \in Plan, NEW b \in Batch, b \notin Batches(rs),
         NEW claims \in BOOLEAN
  PROVE  Whole(rs \cup RowsOf(p, b, claims))
<1> DEFINE new == rs \cup RowsOf(p, b, claims)
<1>1. \A x \in RowsOf(p, b, claims) : x.batch = b
  BY DEF RowsOf
<1>2. Inserted(new, b) = RowsOf(p, b, claims)
  BY <1>1 DEF Inserted, Batches
<1>3. ASSUME NEW c \in Batches(new), c # b
      PROVE  Inserted(new, c) = Inserted(rs, c) /\ c \in Batches(rs)
  BY <1>1, <1>3 DEF Inserted, Batches
<1>4. ASSUME NEW c \in Batches(new)
      PROVE  \E q \in Plan, k \in BOOLEAN : Inserted(new, c) = RowsOf(q, c, k)
  <2>1. CASE c = b
    BY <2>1, <1>2
  <2>2. CASE c # b
    BY <2>2, <1>3 DEF Whole
  <2> QED BY <2>1, <2>2
<1> QED BY <1>4 DEF Whole

\* The rows of a plan, alone, are one whole insertion.
LEMMA WholeOfPlan ==
  ASSUME NEW p \in Plan, NEW b \in Batch, NEW claims \in BOOLEAN
  PROVE  Whole(RowsOf(p, b, claims))
<1>1. Whole({}) /\ b \notin Batches({})
  BY DEF Whole, Batches
<1>2. Whole({} \cup RowsOf(p, b, claims))
  BY <1>1, WholeAdd
<1> QED BY <1>2

\* Saving with another status is writing the same plan with another claim.
LEMMA ResaveOfPlan ==
  ASSUME NEW p \in Plan, NEW b, NEW claims \in BOOLEAN, NEW status
  PROVE  {[x EXCEPT !.active = IF status \in Blocking THEN x.start ELSE NoTime]
            : x \in RowsOf(p, b, claims)}
         = RowsOf(p, b, status \in Blocking)
<1> DEFINE old(s) == [batch |-> b, staff |-> s.staff, start |-> s.start, end |-> s.end,
                      active |-> IF claims THEN s.start ELSE NoTime]
           resaved(x) == [x EXCEPT !.active = IF status \in Blocking THEN x.start ELSE NoTime]
           new(s) == [batch |-> b, staff |-> s.staff, start |-> s.start, end |-> s.end,
                      active |-> IF status \in Blocking THEN s.start ELSE NoTime]
<1>1. ASSUME NEW s PROVE resaved(old(s)) = new(s)
  OBVIOUS
<1>2. RowsOf(p, b, claims) = {old(s) : s \in p.segs}
  BY DEF RowsOf
<1>3. RowsOf(p, b, status \in Blocking) = {new(s) : s \in p.segs}
  BY DEF RowsOf
<1> HIDE DEF old, resaved, new
<1>4. ASSUME NEW y \in {resaved(x) : x \in {old(s) : s \in p.segs}}
      PROVE  y \in {new(s) : s \in p.segs}
  <2>1. PICK s \in p.segs : y = resaved(old(s))
    BY <1>4
  <2> QED BY <2>1, <1>1
<1>5. ASSUME NEW y \in {new(s) : s \in p.segs}
      PROVE  y \in {resaved(x) : x \in {old(s) : s \in p.segs}}
  <2>1. PICK s \in p.segs : y = new(s)
    BY <1>5
  <2>2. y = resaved(old(s)) /\ old(s) \in {old(t) : t \in p.segs}
    BY <2>1, <1>1
  <2> QED BY <2>2
<1>6. {resaved(x) : x \in RowsOf(p, b, claims)} = RowsOf(p, b, status \in Blocking)
  BY <1>2, <1>3, <1>4, <1>5
<1> QED BY <1>6 DEF resaved

\* A save of whole insertions over whole insertions leaves whole insertions.
LEMMA WholeResaved ==
  ASSUME TypeOK, NEW a \in Appt, Whole(rows[a]), NEW seen \in SUBSET Row, Whole(seen), NEW status
  PROVE  Whole(Resaved(a, seen, status))
<1> DEFINE saved(x) == [x EXCEPT !.active = IF status \in Blocking THEN x.start ELSE NoTime]
           new == Resaved(a, seen, status)
<1>1. \A x \in seen : saved(x).batch = x.batch
  BY DEF Row
<1>2. new = {x \in rows[a] : x.batch \notin Batches(seen)} \cup {saved(x) : x \in seen}
  BY DEF Resaved
<1> HIDE DEF saved, new
<1>3. SUFFICES ASSUME NEW c \in Batches(new)
               PROVE  \E q \in Plan, k \in BOOLEAN : Inserted(new, c) = RowsOf(q, c, k)
  BY DEF Whole, new
<1>4. CASE c \in Batches(seen)
  <2>1. Inserted(new, c) = {saved(x) : x \in Inserted(seen, c)}
    BY <1>1, <1>2, <1>4 DEF Inserted, Batches
  <2>2. PICK q \in Plan, k \in BOOLEAN : Inserted(seen, c) = RowsOf(q, c, k)
    BY <1>4 DEF Whole
  <2>3. Inserted(new, c) = RowsOf(q, c, status \in Blocking)
    BY <2>1, <2>2, ResaveOfPlan DEF saved
  <2>4. (status \in Blocking) \in BOOLEAN
    OBVIOUS
  <2> QED BY <2>3, <2>4
<1>5. CASE c \notin Batches(seen)
  <2>1. Inserted(new, c) = Inserted(rows[a], c) /\ c \in Batches(rows[a])
    BY <1>1, <1>2, <1>3, <1>5 DEF Inserted, Batches
  <2> QED BY <2>1 DEF Whole
<1> QED BY <1>4, <1>5

-------------------------------------------------------------------------------
\* The inductive invariant

\* One step writes the segments of one appointment at most: whole insertions, that
\* the index accepts.
Written(a, new) ==
  /\ rows' = [rows EXCEPT ![a] = new]
  /\ new \in SUBSET Row
  /\ Whole(new)
  /\ IndexAccepts(a, new)

\* An appointment without segments is whole and claims nothing.
LEMMA NothingWritten == \A a \in Appt : Whole({}) /\ IndexAccepts(a, {})
BY DEF Whole, Batches, IndexAccepts

\* A step leaves the segments as they are, or writes those of one appointment:
\* whole insertions that the index accepts.
LEMMA NextRows ==
  ASSUME AgendaInv, [Next]_vars
  PROVE  rows' = rows \/ \E a \in Appt : \E new \in SUBSET Row : Written(a, new)
<1> USE DEF AgendaInv, TypeOK
<1>1. ASSUME NEW a \in Appt, NEW p \in Plan, PanelCreate(a, p)
      PROVE  \E new \in SUBSET Row : Written(a, new)
  <2> DEFINE status == IF p.end < now THEN "completed" ELSE "pending"
             claims == status \in Blocking
             new == RowsOf(p, NewBatch(a), claims)
  <2>1. NewBatch(a) \in Batch /\ claims \in BOOLEAN
    BY <1>1, NewBatchFresh DEF PanelCreate
  <2>2. rows' = [rows EXCEPT ![a] = new] /\ IndexAccepts(a, new)
    BY <1>1 DEF PanelCreate
  <2> HIDE DEF claims
  <2>3. new \in SUBSET Row /\ Whole(new)
    BY <2>1, RowsOfTyped, WholeOfPlan
  <2> QED BY <2>2, <2>3 DEF Written
<1>2. ASSUME NEW a \in Appt, Remove(a) PROVE \E new \in SUBSET Row : Written(a, new)
  <2>1. Written(a, {})
    BY <1>2, NothingWritten DEF Remove, Written
  <2> QED BY <2>1
<1>3. ASSUME NEW r \in Request, SaveSegments(r)
      PROVE  \E a \in Appt : \E new \in SUBSET Row : Written(a, new)
  <2> DEFINE a == req[r].id
             new == WithPlan(a, req[r].plan)
  <2>1. a \in Appt /\ req[r].plan \in Plan
    BY <1>3, HandlerFields DEF SaveSegments, Writing
  <2>2. NewBatch(a) \in Batch /\ NewBatch(a) \notin Batches(rows[a])
    BY <1>3, NewBatchFresh DEF SaveSegments
  <2>3. new \in SUBSET Row
    BY <2>1, <2>2, RowsOfTyped DEF WithPlan
  <2>4. Whole(new)
    BY <2>1, <2>2, WholeAdd DEF WithPlan, NoHalfBooking
  <2>5. Written(a, new)
    BY <1>3, <2>3, <2>4 DEF SaveSegments, Written, Writable
  <2> QED BY <2>1, <2>3, <2>5
<1>4. ASSUME NEW r \in Request, UndoAppointment(r)
      PROVE  \E a \in Appt : \E new \in SUBSET Row : Written(a, new)
  <2>1. req[r].id \in Appt
    BY <1>4, HandlerFields DEF UndoAppointment, Writing
  <2>2. Written(req[r].id, {})
    BY <1>4, <2>1, NothingWritten DEF UndoAppointment, Written
  <2> QED BY <2>1, <2>2
<1>5. ASSUME NEW r \in Request, ReplaceSegments(r)
      PROVE  rows' = rows \/ \E a \in Appt : \E new \in SUBSET Row : Written(a, new)
  <2> DEFINE a == req[r].id
             new == RowsOf(req[r].plan, NewBatch(a), TRUE)
  <2>1. a \in Appt /\ req[r].plan \in Plan
    BY <1>5, HandlerFields DEF ReplaceSegments, Moving
  <2>2. new \in SUBSET Row /\ Whole(new)
    BY <1>5, <2>1, NewBatchFresh, RowsOfTyped, WholeOfPlan DEF ReplaceSegments
  <2>3. rows' = rows \/ (rows' = [rows EXCEPT ![a] = new] /\ IndexAccepts(a, new))
    BY <1>5 DEF ReplaceSegments, Writable
  <2> HIDE DEF new
  <2> QED BY <2>1, <2>2, <2>3 DEF Written
<1>6. ASSUME NEW r \in Request, SyncSave(r)
      PROVE  rows' = rows \/ \E a \in Appt : \E new \in SUBSET Row : Written(a, new)
  <2> DEFINE a == req[r].id
             new == Resaved(a, req[r].seen, req[r].status)
  <2>1. a \in Appt /\ req[r].seen \in SUBSET Row
    BY <1>6, HandlerFields DEF SyncSave, Syncing
  <2>2. Whole(req[r].seen) /\ Whole(rows[a])
    BY <1>6, <2>1 DEF SyncSave, SnapshotsWhole, NoHalfBooking
  <2>3. new \in SUBSET Row /\ Whole(new)
    BY <2>1, <2>2, ResavedTyped, WholeResaved
  <2>4. rows' = rows \/ (rows' = [rows EXCEPT ![a] = new] /\ IndexAccepts(a, new))
    BY <1>6 DEF SyncSave, Writable
  <2> HIDE DEF new
  <2> QED BY <2>1, <2>3, <2>4 DEF Written
<1>7. ASSUME NEW r \in Request, Arrive(r) PROVE rows' = rows
  BY <1>7 DEF Arrive, ConfirmSlot, ConfirmMove, WebMove, PanelEdit, UpdateStatus,
              WhatsappCancel, WebCancel
<1>8. ASSUME NEW r \in Request,
             SaveAppointment(r) \/ SegmentsRefused(r) \/ ReadMove(r) \/ SaveCancelled(r) \/ SyncFind(r)
      PROVE  rows' = rows
  BY <1>8 DEF SaveAppointment, SegmentsRefused, ReadMove, SaveCancelled, SyncFind
<1>9. ASSUME Tick \/ Crash \/ UNCHANGED vars PROVE rows' = rows
  BY <1>9 DEF Tick, Crash, vars
<1> HIDE DEF AgendaInv, TypeOK
<1> QED BY <1>1, <1>2, <1>3, <1>4, <1>5, <1>6, <1>7, <1>8, <1>9 DEF Next, Continue

\* What such a write leaves in each appointment.
LEMMA RowsWritten ==
  ASSUME AgendaInv, NEW a \in Appt, NEW new \in SUBSET Row, Written(a, new), NEW c \in Appt
  PROVE  rows'[c] = IF c = a THEN new ELSE rows[c]
BY DEF AgendaInv, TypeOK, Written

\* A step that writes whole insertions keeps every insertion whole.
LEMMA NoHalfBookingNext == AgendaInv /\ [Next]_vars => NoHalfBooking'
<1> SUFFICES ASSUME AgendaInv, [Next]_vars, NEW c \in Appt PROVE Whole(rows'[c])
  BY DEF NoHalfBooking, Whole, Batches, Inserted
<1>1. CASE rows' = rows
  BY <1>1 DEF AgendaInv, NoHalfBooking
<1>2. ASSUME NEW a \in Appt, NEW new \in SUBSET Row, Written(a, new) PROVE Whole(rows'[c])
  BY <1>2, RowsWritten DEF Written, AgendaInv, NoHalfBooking
<1> QED BY <1>1, <1>2, NextRows

\* The index is asked at every write, so it never holds two rows for one slot.
LEMMA IndexUniqueNext == AgendaInv /\ [Next]_vars => IndexUnique'
<1> SUFFICES ASSUME AgendaInv, [Next]_vars PROVE IndexUnique'
  OBVIOUS
<1>1. CASE rows' = rows
  BY <1>1 DEF AgendaInv, IndexUnique
<1>2. ASSUME NEW a \in Appt, NEW new \in SUBSET Row, Written(a, new) PROVE IndexUnique'
  <2> SUFFICES ASSUME NEW c \in Appt, NEW d \in Appt, NEW x \in rows'[c], NEW y \in rows'[d],
                      Clash(x, y)
               PROVE  c = d /\ x = y
    BY DEF IndexUnique
  <2>1. Clash(y, x)
    BY DEF Clash
  <2>2. /\ rows'[c] = IF c = a THEN new ELSE rows[c]
        /\ rows'[d] = IF d = a THEN new ELSE rows[d]
    BY <1>2, RowsWritten
  <2>3. CASE c # a /\ d # a
    BY <2>2, <2>3 DEF AgendaInv, IndexUnique
  <2>4. CASE c = a \/ d = a
    BY <1>2, <2>1, <2>2, <2>4 DEF Written, IndexAccepts
  <2> QED BY <2>3, <2>4
<1> QED BY <1>1, <1>2, NextRows

\* A handler that holds a copy of segments held it before, or has just read it.
LEMMA SnapshotTaken ==
  ASSUME TypeOK, [Next]_vars, NEW r \in Request, req'[r].pc \in {"cancelling", "syncing"}
  PROVE  req'[r] = req[r] \/ \E a \in Appt : req'[r].seen = rows[a]
<1> USE DEF TypeOK
<1>1. ASSUME NEW q \in Request, Arrive(q)
      PROVE  req'[r] = req[r] \/ \E a \in Appt : req'[r].seen = rows[a]
  <2>1. ASSUME NEW p \in Plan, ConfirmSlot(q, p) PROVE req'[r] = req[r]
    BY <2>1 DEF ConfirmSlot
  <2>2. ASSUME NEW a \in Appt, NEW p \in Plan,
               ConfirmMove(q, a, p) \/ WebMove(q, a, p) \/ PanelEdit(q, a, p)
        PROVE  req'[r] = req[r]
    BY <2>2 DEF ConfirmMove, WebMove, PanelEdit
  <2>3. ASSUME NEW a \in Appt, NEW status \in PanelStatus, UpdateStatus(q, a, status)
        PROVE  req'[r] = req[r]
    BY <2>3 DEF UpdateStatus
  <2>4. ASSUME NEW a \in Appt, WhatsappCancel(q, a) \/ WebCancel(q, a)
        PROVE  req'[r] = req[r] \/ req'[r].seen = rows[a]
    BY <2>4 DEF WhatsappCancel, WebCancel, ReadToCancel
  <2> QED BY <1>1, <2>1, <2>2, <2>3, <2>4 DEF Arrive
<1>2. ASSUME NEW q \in Request, SyncFind(q)
      PROVE  req'[r] = req[r] \/ \E a \in Appt : req'[r].seen = rows[a]
  <2>1. req[q].id \in Appt
    BY <1>2, HandlerFields DEF SyncFind, Sync
  <2> QED BY <1>2, <2>1 DEF SyncFind, idle
<1>3. ASSUME NEW q \in Request, Continue(q), ~SyncFind(q) PROVE req'[r] = req[r]
  <2>1. CASE SaveAppointment(q) \/ SaveSegments(q) \/ UndoAppointment(q)
    BY <2>1 DEF SaveAppointment, SaveSegments, UndoAppointment, idle
  <2>2. CASE SegmentsRefused(q)
    <3>1. req[q] \in Writing
      BY <2>2, HandlerFields DEF SegmentsRefused
    <3> QED BY <2>2, <3>1 DEF SegmentsRefused, Writing
  <2>3. CASE ReadMove(q)
    <3>1. req[q] \in Moving
      BY <2>3, HandlerFields DEF ReadMove
    <3> QED BY <2>3, <3>1 DEF ReadMove, Moving, idle
  <2>4. CASE ReplaceSegments(q) \/ SyncSave(q)
    <3>1. req' = [req EXCEPT ![q] = idle]
      BY <2>4 DEF ReplaceSegments, SyncSave
    <3> QED BY <3>1 DEF idle
  <2>5. CASE SaveCancelled(q)
    <3>1. \/ req' = [req EXCEPT ![q] = idle]
          \/ req' = [req EXCEPT ![q] = [pc |-> "sync", id |-> req[q].id, status |-> "cancelled"]]
      BY <2>5 DEF SaveCancelled
    <3> QED BY <3>1 DEF idle
  <2> QED BY <1>3, <2>1, <2>2, <2>3, <2>4, <2>5 DEF Continue
<1>4. ASSUME NEW a \in Appt, NEW p \in Plan, PanelCreate(a, p) PROVE req'[r] = req[r]
  BY <1>4 DEF PanelCreate
<1>5. ASSUME NEW a \in Appt, Remove(a) PROVE req'[r] = req[r]
  BY <1>5 DEF Remove
<1>6. CASE Tick \/ UNCHANGED vars
  BY <1>6 DEF Tick, vars
<1>7. CASE Crash
  BY <1>7 DEF Crash, idle
<1> QED BY <1>1, <1>2, <1>3, <1>4, <1>5, <1>6, <1>7 DEF Next

\* What is copied is copied whole, from rows that are whole.
LEMMA SnapshotsWholeNext == AgendaInv /\ [Next]_vars => SnapshotsWhole'
<1> SUFFICES ASSUME AgendaInv, [Next]_vars, NEW r \in Request,
                    req'[r].pc \in {"cancelling", "syncing"}
             PROVE  Whole(req'[r].seen)
  BY DEF SnapshotsWhole, Whole, Batches, Inserted
<1> USE DEF AgendaInv
<1>1. CASE req'[r] = req[r]
  BY <1>1 DEF SnapshotsWhole
<1>2. ASSUME NEW a \in Appt, req'[r].seen = rows[a] PROVE Whole(req'[r].seen)
  BY <1>2 DEF NoHalfBooking
<1> QED BY <1>1, <1>2, SnapshotTaken

\* An appointment without segments: whoever was about to settle it still is, or has
\* written its segments, or has deleted it, or died and left it stranded.
LEMMA AccountedNext == AgendaInv /\ [Next]_vars => Accounted'
<1> SUFFICES ASSUME AgendaInv, [Next]_vars PROVE Accounted'
  OBVIOUS
<1> USE DEF AgendaInv, TypeOK
<1>1. ASSUME NEW a \in Appt, NEW p \in Plan, PanelCreate(a, p) PROVE Accounted'
  <2> DEFINE status == IF p.end < now THEN "completed" ELSE "pending"
             new == RowsOf(p, NewBatch(a), status \in Blocking)
  <2>1. new # {}
    <3>1. (status \in Blocking) \in BOOLEAN
      OBVIOUS
    <3>2. NewBatch(a) \in Batch
      BY <1>1, NewBatchFresh DEF PanelCreate
    <3> HIDE DEF status
    <3> QED BY <3>1, <3>2, RowsOfTyped
  <2>2. rows' = [rows EXCEPT ![a] = new]
    BY <1>1 DEF PanelCreate
  <2>3. ASSUME NEW c \in Appt, c # a
        PROVE  Present(c)' = Present(c) /\ rows'[c] = rows[c]
    BY <1>1, <2>2, <2>3 DEF PanelCreate, Present
  <2>4. rows'[a] # {}
    BY <2>1, <2>2
  <2>5. req' = req /\ stranded' = stranded
    BY <1>1 DEF PanelCreate
  <2> HIDE DEF new
  <2> QED BY <2>3, <2>4, <2>5 DEF Accounted
<1>2. ASSUME NEW a \in Appt, Remove(a) PROVE Accounted'
  <2>1. ~Present(a)'
    BY <1>2 DEF Remove, Present, NoRecord, Status
  <2>2. ASSUME NEW c \in Appt, c # a
        PROVE  Present(c)' = Present(c) /\ rows'[c] = rows[c]
    BY <1>2, <2>2 DEF Remove, Present
  <2>3. req' = req /\ stranded' = stranded
    BY <1>2 DEF Remove
  <2> QED BY <2>1, <2>2, <2>3 DEF Accounted
<1>3. ASSUME NEW q \in Request, Arrive(q) PROVE Accounted'
  <2>1. rows' = rows /\ stranded' = stranded
    BY <1>3 DEF Arrive, ConfirmSlot, ConfirmMove, WebMove, PanelEdit, UpdateStatus,
                WhatsappCancel, WebCancel
  <2>2. ASSUME NEW c \in Appt, Present(c)' PROVE Present(c)
    BY <1>3, <2>2 DEF Arrive, ConfirmSlot, ConfirmMove, WebMove, PanelEdit, UpdateStatus,
                      WhatsappCancel, WebCancel, Present
  <2>3. req[q].pc = "idle" /\ \A r \in Request : r # q => req'[r] = req[r]
    BY <1>3 DEF Arrive, ConfirmSlot, ConfirmMove, WebMove, PanelEdit, UpdateStatus,
                WhatsappCancel, WebCancel, ReadToCancel
  <2> QED BY <2>1, <2>2, <2>3 DEF Accounted
<1>4. ASSUME NEW q \in Request, SaveAppointment(q) PROVE Accounted'
  <2>1. PICK a \in Appt :
          /\ appt' = [appt EXCEPT ![a] = [status |-> "confirmed",
                        start |-> req[q].plan.start, end |-> req[q].plan.end]]
          /\ req' = [req EXCEPT ![q] = [pc |-> "saved", id |-> a, plan |-> req[q].plan]]
    BY <1>4 DEF SaveAppointment
  <2>2. req'[q].pc = "saved" /\ req'[q].id = a
    BY <2>1
  <2>3. ASSUME NEW c \in Appt, c # a PROVE Present(c)' = Present(c)
    BY <2>1, <2>3 DEF Present
  <2>4. req[q].pc = "confirmed" /\ rows' = rows /\ stranded' = stranded
    BY <1>4 DEF SaveAppointment
  <2>5. \A r \in Request : r # q => req'[r] = req[r]
    BY <2>1
  <2> QED BY <2>2, <2>3, <2>4, <2>5 DEF Accounted
<1>5. ASSUME NEW q \in Request, SaveSegments(q) PROVE Accounted'
  <2> DEFINE a == req[q].id
  <2>1. a \in Appt /\ req[q].plan \in Plan
    BY <1>5, HandlerFields DEF SaveSegments, Writing
  <2>2. WithPlan(a, req[q].plan) # {}
    BY <1>5, <2>1, NewBatchFresh, RowsOfTyped DEF SaveSegments, WithPlan
  <2>3. rows' = [rows EXCEPT ![a] = WithPlan(a, req[q].plan)] /\ appt' = appt
        /\ stranded' = stranded /\ req' = [req EXCEPT ![q] = idle]
    BY <1>5 DEF SaveSegments
  <2>4. rows'[a] # {} /\ \A c \in Appt : c # a => rows'[c] = rows[c]
    BY <2>1, <2>2, <2>3
  <2>5. \A r \in Request : r # q => req'[r] = req[r]
    BY <2>3
  <2> QED BY <2>3, <2>4, <2>5 DEF Accounted, Present
<1>6. ASSUME NEW q \in Request, SegmentsRefused(q) PROVE Accounted'
  <2>1. req[q] \in Writing
    BY <1>6, HandlerFields DEF SegmentsRefused
  <2>2. req'[q].pc = "undo" /\ req'[q].id = req[q].id
    BY <1>6, <2>1 DEF SegmentsRefused, Writing
  <2>3. appt' = appt /\ rows' = rows /\ stranded' = stranded
        /\ \A r \in Request : r # q => req'[r] = req[r]
    BY <1>6 DEF SegmentsRefused
  <2> QED BY <2>2, <2>3 DEF Accounted, Present
<1>7. ASSUME NEW q \in Request, UndoAppointment(q) PROVE Accounted'
  <2>1. PICK a \in Appt : a = req[q].id
    BY <1>7, HandlerFields DEF UndoAppointment, Writing
  <2>2. ~Present(a)'
    <3>1. appt'[a] = NoRecord("deleted")
      BY <1>7, <2>1 DEF UndoAppointment
    <3> QED BY <3>1 DEF Present, NoRecord, Status
  <2>3. ASSUME NEW c \in Appt, c # a
        PROVE  appt'[c] = appt[c] /\ rows'[c] = rows[c]
    BY <1>7, <2>1, <2>3 DEF UndoAppointment
  <2>4. stranded' = stranded /\ \A r \in Request : r # q => req'[r] = req[r]
    BY <1>7 DEF UndoAppointment
  <2>5. ASSUME NEW c \in Appt \ stranded', Present(c)', rows'[c] = {}
        PROVE  \E r \in Request : req'[r].pc \in {"saved", "undo"} /\ req'[r].id = c
    <3>1. c # a /\ Present(c) /\ rows[c] = {}
      BY <2>1, <2>2, <2>3, <2>5 DEF Present
    <3>2. PICK r \in Request : req[r].pc \in {"saved", "undo"} /\ req[r].id = c
      BY <2>4, <2>5, <3>1 DEF Accounted
    <3> QED BY <2>1, <2>4, <3>1, <3>2
  <2> QED BY <2>5 DEF Accounted
<1>8. ASSUME NEW q \in Request, ReadMove(q) PROVE Accounted'
  <2>1. req[q].pc = "moveConfirmed" /\ \A r \in Request : r # q => req'[r] = req[r]
    BY <1>8 DEF ReadMove
  <2> QED BY <1>8, <2>1 DEF ReadMove, Accounted, Present
<1>9. ASSUME NEW q \in Request, ReplaceSegments(q) PROVE Accounted'
  <2> DEFINE a == req[q].id
             new == RowsOf(req[q].plan, NewBatch(a), TRUE)
  <2>1. a \in Appt /\ req[q].plan \in Plan
    BY <1>9, HandlerFields DEF ReplaceSegments, Moving
  <2>2. new # {}
    BY <1>9, <2>1, NewBatchFresh, RowsOfTyped DEF ReplaceSegments
  <2>3. \/ rows' = [rows EXCEPT ![a] = new] /\ appt' = [appt EXCEPT ![a] = Moved(a, req[q].plan)]
        \/ rows' = rows /\ appt' = appt
    BY <1>9 DEF ReplaceSegments
  <2> HIDE DEF new
  <2>4. \A c \in Appt : rows'[c] = {} => rows[c] = {} /\ appt'[c] = appt[c]
    BY <2>1, <2>2, <2>3
  <2>5. req[q].pc = "editing" /\ stranded' = stranded /\ req' = [req EXCEPT ![q] = idle]
    BY <1>9 DEF ReplaceSegments
  <2>6. \A r \in Request : r # q => req'[r] = req[r]
    BY <2>5
  <2> QED BY <2>4, <2>5, <2>6 DEF Accounted, Present
<1>10. ASSUME NEW q \in Request, SaveCancelled(q) PROVE Accounted'
  <2> PICK a \in Appt : a = req[q].id
    BY <1>10, HandlerFields DEF SaveCancelled, Cancel
  <2>1. /\ req[q].pc = "cancelling"
        /\ rows' = rows
        /\ \A r \in Request : r # q => req'[r] = req[r]
    BY <1>10 DEF SaveCancelled
  <2>2. \A c \in Appt : c # a => appt'[c] = appt[c]
    BY <1>10 DEF SaveCancelled
  <2>3. stranded \subseteq stranded' /\ (a \notin stranded' /\ Present(a)' => Present(a))
    BY <1>10 DEF SaveCancelled, Present
  <2> QED BY <2>1, <2>2, <2>3 DEF Accounted, Present
<1>11. ASSUME NEW q \in Request, SyncFind(q) PROVE Accounted'
  <2>1. req[q].pc = "sync" /\ \A r \in Request : r # q => req'[r] = req[r]
    BY <1>11 DEF SyncFind
  <2> QED BY <1>11, <2>1 DEF SyncFind, Accounted, Present
<1>12. ASSUME NEW q \in Request, SyncSave(q) PROVE Accounted'
  <2> DEFINE a == req[q].id
             new == Resaved(a, req[q].seen, req[q].status)
  <2>1. req[q].pc = "syncing" /\ appt' = appt /\ stranded' = stranded
        /\ \A r \in Request : r # q => req'[r] = req[r]
    BY <1>12 DEF SyncSave
  <2>2. a \in Appt /\ (rows' = [rows EXCEPT ![a] = new] \/ rows' = rows)
    BY <1>12, HandlerFields DEF SyncSave, Syncing
  <2>3. rows[a] # {} => new # {}
    BY ResavedKeeps
  <2> HIDE DEF new
  <2>4. \A c \in Appt : rows'[c] = {} => rows[c] = {}
    BY <2>2, <2>3
  <2> QED BY <2>1, <2>4 DEF Accounted, Present
<1>13. CASE Tick \/ UNCHANGED vars
  BY <1>13 DEF Tick, vars, Accounted, Present
<1>14. CASE Crash
  <2>1. appt' = appt /\ rows' = rows
    BY <1>14 DEF Crash
  <2>2. ASSUME NEW r \in Request, req[r].pc \in {"saved", "undo"}
        PROVE  req[r].id \in stranded'
    BY <1>14, <2>2 DEF Crash
  <2>3. stranded \subseteq stranded'
    BY <1>14 DEF Crash
  <2> QED BY <2>1, <2>2, <2>3 DEF Accounted, Present
<1> HIDE DEF AgendaInv, TypeOK
<1> QED BY <1>1, <1>2, <1>3, <1>4, <1>5, <1>6, <1>7, <1>8, <1>9, <1>10, <1>11, <1>12,
           <1>13, <1>14 DEF Next, Continue

\* The empty agenda satisfies the inductive invariant.
THEOREM InvariantInit == Init => AgendaInv
<1> SUFFICES ASSUME Init PROVE AgendaInv
  OBVIOUS
<1>1. TypeOK
  BY TypeInit
<1>2. NoHalfBooking /\ IndexUnique
  BY DEF Init, NoHalfBooking, Whole, Batches, IndexUnique
<1>3. SnapshotsWhole
  BY DEF Init, SnapshotsWhole, idle
<1>4. Accounted
  BY DEF Init, Accounted, Present, NoRecord, Status
<1> QED BY <1>1, <1>2, <1>3, <1>4 DEF AgendaInv

\* Every query of every handler keeps it.
THEOREM InvariantNext == AgendaInv /\ [Next]_vars => AgendaInv'
BY TypeNext, NoHalfBookingNext, SnapshotsWholeNext, IndexUniqueNext, AccountedNext DEF AgendaInv

\* So it holds for ever, in whatever order the handlers run and wherever they die.
THEOREM InvariantCorrect == Spec => []AgendaInv
BY InvariantInit, InvariantNext, PTL DEF Spec

\* However the handlers interleave, and whatever is refused, overwritten or lost in
\* a crash, the segments written together stay together and of one mind about their
\* slots: createFromBookingFlow, replaceSegments and syncActiveSlot never leave half
\* a booking.
THEOREM NeverHalfABooking == Spec => []NoHalfBooking
<1>1. AgendaInv => NoHalfBooking
  BY DEF AgendaInv
<1> QED BY <1>1, InvariantCorrect, PTL

\* An open appointment is without segments only while the handler that will write
\* them or delete it is at work, unless a crash or a late save stranded it.
THEOREM NeverAnOrphan == Spec => []NoOrphan
<1>1. AgendaInv => NoOrphan
  BY DEF AgendaInv, Accounted, NoOrphan, Present, BlocksAgenda, Blocking, Status
<1> QED BY <1>1, InvariantCorrect, PTL

-------------------------------------------------------------------------------
\* The agenda implements the ledger of slots

\* Whole insertions hold the slots of whole bookings.
LEMMA WholeHeld ==
  ASSUME NEW rs \in SUBSET Row, Whole(rs)
  PROVE  \E some \in SUBSET {SlotsOf(p) : p \in Plan} : UNION some = Slots(rs)
<1> DEFINE placed == {p \in Plan : \E b \in Batches(rs) : Inserted(rs, b) = RowsOf(p, b, TRUE)}
           some == {SlotsOf(p) : p \in placed}
<1>1. ASSUME NEW z \in UNION some PROVE z \in Slots(rs)
  <2>1. PICK p \in placed : z \in SlotsOf(p)
    BY <1>1
  <2>2. PICK b \in Batches(rs) : Inserted(rs, b) = RowsOf(p, b, TRUE)
    BY <2>1
  <2>3. PICK s \in p.segs : z = <<s.staff, s.start>>
    BY <2>1 DEF SlotsOf
  <2> DEFINE x == [batch |-> b, staff |-> s.staff, start |-> s.start, end |-> s.end,
                   active |-> s.start]
  <2>4. x \in rs
    BY <2>2, <2>3 DEF RowsOf, Inserted
  <2>5. s.start # NoTime
    BY <2>3, PlanFields, BoundAssumption DEF Segment, Time, NoTime
  <2> QED BY <2>3, <2>4, <2>5 DEF Slots
<1>2. ASSUME NEW z \in Slots(rs) PROVE z \in UNION some
  <2>1. PICK x \in rs : x.active # NoTime /\ z = <<x.staff, x.active>>
    BY <1>2 DEF Slots
  <2>2. x.batch \in Batches(rs) /\ x \in Inserted(rs, x.batch)
    BY <2>1 DEF Batches, Inserted
  <2>3. PICK p \in Plan, claims \in BOOLEAN : Inserted(rs, x.batch) = RowsOf(p, x.batch, claims)
    BY <2>2 DEF Whole
  <2>4. PICK s \in p.segs :
          x = [batch |-> x.batch, staff |-> s.staff, start |-> s.start, end |-> s.end,
               active |-> IF claims THEN s.start ELSE NoTime]
    BY <2>2, <2>3 DEF RowsOf
  <2>5. claims = TRUE /\ z = <<s.staff, s.start>>
    BY <2>1, <2>4
  <2>6. p \in placed
    BY <2>2, <2>3, <2>5
  <2>7. z \in SlotsOf(p)
    BY <2>5 DEF SlotsOf
  <2> QED BY <2>6, <2>7
<1>3. UNION some = Slots(rs)
  BY <1>1, <1>2
<1>4. some \in SUBSET {SlotsOf(p) : p \in Plan}
  OBVIOUS
<1> QED BY <1>3, <1>4

\* An empty agenda is an empty ledger.
LEMMA LedgerInit == Init => Ledger!Init
BY DEF Init, Ledger!Init, Held, Slots

\* What one appointment's write settles is one step of the ledger.
LEMMA WrittenSettles ==
  ASSUME AgendaInv, NEW a \in Appt, NEW new \in SUBSET Row, Written(a, new)
  PROVE  Ledger!Settle(a)
<1>1. PICK some \in SUBSET {SlotsOf(p) : p \in Plan} : UNION some = Slots(new)
  BY WholeHeld DEF Written
<1>2. ASSUME NEW b \in Appt \ {a}, NEW z \in Slots(new), z \in Slots(rows[b]) PROVE FALSE
  <2>1. PICK x \in new : x.active # NoTime /\ z = <<x.staff, x.active>>
    BY <1>2 DEF Slots
  <2>2. PICK y \in rows[b] : y.active # NoTime /\ z = <<y.staff, y.active>>
    BY <1>2 DEF Slots
  <2>3. Clash(x, y)
    BY <2>1, <2>2 DEF Clash
  <2> QED BY <2>3 DEF Written, IndexAccepts
<1>3. ASSUME NEW c \in Appt PROVE rows'[c] = IF c = a THEN new ELSE rows[c]
  BY <1>3, RowsWritten
<1>4. [c \in Appt |-> Held(c)]' = [[c \in Appt |-> Held(c)] EXCEPT ![a] = Slots(new)]
  BY <1>3 DEF Held
<1>5. \A b \in Appt \ {a} : (UNION some) \cap [c \in Appt |-> Held(c)][b] = {}
  BY <1>1, <1>2 DEF Held
<1> QED BY <1>1, <1>4, <1>5 DEF Ledger!Settle

\* Every query of a handler is one step of the ledger, or leaves it as it was.
LEMMA LedgerStep ==
  AgendaInv /\ [Next]_vars => [Ledger!Next]_([a \in Appt |-> Held(a)])
<1> SUFFICES ASSUME AgendaInv, [Next]_vars PROVE [Ledger!Next]_([a \in Appt |-> Held(a)])
  OBVIOUS
<1>1. CASE rows' = rows
  BY <1>1 DEF Held, Slots
<1>2. ASSUME NEW a \in Appt, NEW new \in SUBSET Row, Written(a, new)
      PROVE  Ledger!Next
  BY <1>2, WrittenSettles DEF Ledger!Next
<1> QED BY <1>1, <1>2, NextRows

\* The segments table is a ledger of slots: every query of every handler is one
\* atomic change of what one appointment holds, or no change.  So no slot ever has
\* two holders, and a booking of several services is placed, moved and lifted as one.
THEOREM LedgerImplemented == Spec => ImplementsLedger
BY InvariantCorrect, LedgerInit, LedgerStep, PTL DEF Spec, ImplementsLedger, Ledger!Spec

\* No slot has two holders: two rows in dispute for one professional and one
\* instant belong to one appointment, whichever handlers raced for it.
THEOREM NoSlotHasTwoHolders == Spec => []Ledger!OneHolder
<1>1. AgendaInv => Ledger!OneHolder
  <2> SUFFICES ASSUME AgendaInv, NEW a \in Appt, NEW b \in Appt, a # b,
                      NEW z \in Held(a), z \in Held(b)
               PROVE  FALSE
    BY DEF Ledger!OneHolder
  <2>1. PICK x \in rows[a] : x.active # NoTime /\ z = <<x.staff, x.active>>
    BY DEF Held, Slots
  <2>2. PICK y \in rows[b] : y.active # NoTime /\ z = <<y.staff, y.active>>
    BY DEF Held, Slots
  <2>3. Clash(x, y)
    BY <2>1, <2>2 DEF Clash
  <2> QED BY <2>3 DEF AgendaInv, IndexUnique
<1> QED BY <1>1, InvariantCorrect, PTL

-------------------------------------------------------------------------------
\* One handler at a time: what a reader of the agenda sees is settled

\* The event loop takes a request after another.
Serial == \A q, r \in Request : q = r

\* An appointment without a row has no segments, and one with segments has their times.
Settled(a) ==
  /\ ~Present(a) => rows[a] = {}
  /\ rows[a] # {} => Window(a)

\* What a handler has read is still so when it writes: nobody else wrote meanwhile.
Holding(r) ==
  /\ req[r].pc = "confirmed" => \A s \in req[r].plan.segs : StaffFree(s, {})
  /\ req[r].pc = "saved" =>
       /\ rows[req[r].id] = {}
       /\ appt[req[r].id] = [status |-> "confirmed", start |-> req[r].plan.start, end |-> req[r].plan.end]
       /\ \A s \in req[r].plan.segs : StaffFree(s, {req[r].id})
  /\ req[r].pc \in {"moveConfirmed", "editing"} /\ req[r].by = "customer" /\ "webMove" \notin Op =>
       \A s \in req[r].plan.segs : StaffFree(s, {req[r].id})
  /\ req[r].pc = "editing" => BlocksAgenda(req[r].id)
  /\ req[r].pc = "cancelling" =>
       req[r].was = appt[req[r].id] /\ req[r].seen = rows[req[r].id] /\ BlocksAgenda(req[r].id)
  /\ req[r].pc \in {"sync", "syncing"} => appt[req[r].id].status = req[r].status
  /\ req[r].pc = "syncing" => req[r].seen = rows[req[r].id]

SerialInv == (\A a \in Appt : Settled(a)) /\ ClosedHoldsNothing /\ \A r \in Request : Holding(r)

\* The rows of a plan have its segments.
LEMMA CareOfPlan ==
  ASSUME NEW p \in Plan, NEW b, NEW claims \in BOOLEAN
  PROVE  {[staff |-> x.staff, start |-> x.start, end |-> x.end] : x \in RowsOf(p, b, claims)} = p.segs
<1> DEFINE row(s) == [batch |-> b, staff |-> s.staff, start |-> s.start, end |-> s.end,
                      active |-> IF claims THEN s.start ELSE NoTime]
           care(x) == [staff |-> x.staff, start |-> x.start, end |-> x.end]
<1>1. ASSUME NEW s \in p.segs PROVE care(row(s)) = s
  <2>1. s \in Segment
    BY PlanFields
  <2> QED BY <2>1 DEF Segment
<1>2. RowsOf(p, b, claims) = {row(s) : s \in p.segs}
  BY DEF RowsOf
<1> HIDE DEF row, care
<1>3. {care(x) : x \in RowsOf(p, b, claims)} = p.segs
  <2>1. ASSUME NEW s \in p.segs PROVE s \in {care(x) : x \in RowsOf(p, b, claims)}
    BY <1>1, <1>2
  <2>2. ASSUME NEW x \in RowsOf(p, b, claims) PROVE care(x) \in p.segs
    BY <1>1, <1>2
  <2> QED BY <2>1, <2>2
<1> QED BY <1>3 DEF care

\* A plan that is not in the dispute holds no slot.
LEMMA UnclaimedHoldsNothing ==
  ASSUME NEW p \in Plan, NEW b
  PROVE  Slots(RowsOf(p, b, FALSE)) = {}
BY DEF Slots, RowsOf

\* Saving what was read, nobody having written since: the same segments, all of them in the
\* dispute or all out of it.
LEMMA ResavedAll ==
  ASSUME TypeOK, NEW a \in Appt, NEW status
  PROVE  /\ {[staff |-> x.staff, start |-> x.start, end |-> x.end] : x \in Resaved(a, rows[a], status)}
              = {[staff |-> x.staff, start |-> x.start, end |-> x.end] : x \in rows[a]}
         /\ status \notin Blocking => Slots(Resaved(a, rows[a], status)) = {}
         /\ rows[a] = {} => Resaved(a, rows[a], status) = {}
<1> DEFINE saved(x) == [x EXCEPT !.active = IF status \in Blocking THEN x.start ELSE NoTime]
           care(x) == [staff |-> x.staff, start |-> x.start, end |-> x.end]
<1>1. Resaved(a, rows[a], status) = {saved(x) : x \in rows[a]}
  BY DEF Resaved, Batches
<1>2. ASSUME NEW x \in rows[a]
      PROVE  care(saved(x)) = care(x) /\ (status \notin Blocking => saved(x).active = NoTime)
  <2>1. x \in Row
    BY DEF TypeOK
  <2> QED BY <2>1 DEF Row
<1> HIDE DEF saved, care
<1>3. {care(y) : y \in {saved(x) : x \in rows[a]}} = {care(x) : x \in rows[a]}
  <2>1. ASSUME NEW x \in rows[a] PROVE care(x) \in {care(y) : y \in {saved(z) : z \in rows[a]}}
    <3>1. saved(x) \in {saved(z) : z \in rows[a]} /\ care(x) = care(saved(x))
      BY <1>2
    <3> QED BY <3>1
  <2>2. ASSUME NEW y \in {saved(x) : x \in rows[a]} PROVE care(y) \in {care(x) : x \in rows[a]}
    BY <1>2
  <2> QED BY <2>1, <2>2
<1>4. status \notin Blocking => Slots({saved(x) : x \in rows[a]}) = {}
  BY <1>2 DEF Slots
<1>5. rows[a] = {} => {saved(x) : x \in rows[a]} = {}
  OBVIOUS
<1> QED BY <1>1, <1>3, <1>4, <1>5 DEF care

\* When the one handler is not settling an appointment, no closed one holds a slot.
LEMMA NobodySettling ==
  ASSUME Serial, ClosedHoldsNothing, crashes = 0, NEW q \in Request, NEW c \in Appt,
         req[q].pc \notin {"sync", "syncing"} \/ req[q].id # c, ~BlocksAgenda(c)
  PROVE  Held(c) = {}
BY DEF Serial, ClosedHoldsNothing

\* A step that writes one appointment leaves every other as it was.
LEMMA OneSettled ==
  ASSUME \A c \in Appt : Settled(c), NEW a \in Appt, crashes' = crashes, Settled(a)',
         \A c \in Appt \ {a} : appt'[c] = appt[c] /\ rows'[c] = rows[c],
         crashes = 0 => \A c \in Appt \ {a} : ~BlocksAgenda(c) => Held(c) = {},
         crashes = 0 /\ ~BlocksAgenda(a)' /\ Held(a)' # {} =>
           \E r \in Request : req'[r].pc \in {"sync", "syncing"} /\ req'[r].id = a
  PROVE  (\A c \in Appt : Settled(c))' /\ ClosedHoldsNothing'
<1>1. ASSUME NEW c \in Appt, c # a
      PROVE  Settled(c)' /\ (BlocksAgenda(c)' = BlocksAgenda(c)) /\ Held(c)' = Held(c)
  BY <1>1 DEF Settled, Window, Present, BlocksAgenda, Held
<1> QED BY <1>1 DEF ClosedHoldsNothing

\* A step that writes no appointment leaves all of them as they were.
LEMMA AllSettled ==
  ASSUME \A c \in Appt : Settled(c), UNCHANGED <<appt, rows>>,
         crashes' = 0 => \A c \in Appt : ~BlocksAgenda(c) /\ Held(c) # {} =>
           \E r \in Request : req'[r].pc \in {"sync", "syncing"} /\ req'[r].id = c
  PROVE  (\A c \in Appt : Settled(c))' /\ ClosedHoldsNothing'
<1>1. ASSUME NEW c \in Appt
      PROVE  Settled(c)' /\ (BlocksAgenda(c)' = BlocksAgenda(c)) /\ Held(c)' = Held(c)
  BY <1>1 DEF Settled, Window, Present, BlocksAgenda, Held
<1> QED BY <1>1 DEF ClosedHoldsNothing

\* An appointment is born with its segments, or goes with them, in one step of nobody else's.
LEMMA SerialOneStep ==
  ASSUME Serial, AgendaInv, SerialInv, NEW a \in Appt,
         Remove(a) \/ \E p \in Plan : PanelCreate(a, p)
  PROVE  SerialInv'
<1> USE DEF SerialInv
<1>1. PICK q \in Request : req[q].pc = "idle"
  BY DEF Remove, PanelCreate, FreeHandler
<1>2. req' = req /\ crashes' = crashes /\ \A r \in Request : req'[r].pc = "idle"
  BY <1>1 DEF Remove, PanelCreate, Serial
<1>3. \A r \in Request : Holding(r)'
  BY <1>2 DEF Holding
<1>4. crashes = 0 => \A c \in Appt \ {a} : ~BlocksAgenda(c) => Held(c) = {}
  BY <1>1, NobodySettling
<1>5. TypeOK
  BY DEF AgendaInv
<1>6. CASE Remove(a)
  <2>1. rows'[a] = {} /\ \A c \in Appt \ {a} : appt'[c] = appt[c] /\ rows'[c] = rows[c]
    BY <1>5, <1>6 DEF Remove, TypeOK
  <2>2. Settled(a)' /\ Held(a)' = {}
    BY <2>1 DEF Settled, Held, Slots
  <2> QED BY <1>2, <1>3, <1>4, <2>1, <2>2, OneSettled
<1>7. ASSUME NEW p \in Plan, PanelCreate(a, p) PROVE SerialInv'
  <2> DEFINE status == IF p.end < now THEN "completed" ELSE "pending"
             claims == status \in Blocking
             new == RowsOf(p, NewBatch(a), claims)
  <2>1. /\ rows'[a] = new /\ appt'[a] = [status |-> status, start |-> p.start, end |-> p.end]
        /\ \A c \in Appt \ {a} : appt'[c] = appt[c] /\ rows'[c] = rows[c]
    BY <1>5, <1>7 DEF PanelCreate, TypeOK
  <2>2. claims \in BOOLEAN
    OBVIOUS
  <2>3. Settled(a)'
    <3>1. {[staff |-> x.staff, start |-> x.start, end |-> x.end] : x \in new} = p.segs
      BY <2>2, CareOfPlan
    <3>2. Present(a)'
      BY <2>1 DEF Present, Status
    <3> HIDE DEF new
    <3> QED BY <2>1, <3>1, <3>2 DEF Settled, Window
  <2>4. ~BlocksAgenda(a)' => Held(a)' = {}
    <3>1. ~BlocksAgenda(a)' => claims = FALSE
      BY <2>1 DEF BlocksAgenda
    <3> HIDE DEF claims
    <3> QED BY <2>1, <3>1, UnclaimedHoldsNothing DEF Held
  <2> QED BY <1>2, <1>3, <1>4, <2>1, <2>3, <2>4, OneSettled
<1> QED BY <1>6, <1>7

\* A request that arrives reads, and only that of the panel for a status writes.
LEMMA SerialArrive ==
  ASSUME Serial, AgendaInv, SerialInv, NEW q \in Request, Arrive(q)
  PROVE  SerialInv'
<1> USE DEF SerialInv
<1>1. req[q].pc = "idle" /\ rows' = rows /\ crashes' = crashes /\ \A r \in Request : r = q
  BY DEF Arrive, ConfirmSlot, ConfirmMove, WebMove, PanelEdit, UpdateStatus, WhatsappCancel, WebCancel, Serial
<1>2. crashes = 0 => \A c \in Appt : ~BlocksAgenda(c) => Held(c) = {}
  BY <1>1, NobodySettling
<1>3. TypeOK
  BY DEF AgendaInv
<1>4. ASSUME appt' = appt PROVE (\A c \in Appt : Settled(c))' /\ ClosedHoldsNothing'
  BY <1>1, <1>2, <1>4, AllSettled
<1>5. ASSUME appt' = appt PROVE \A x, e : StaffFree(x, e)' = StaffFree(x, e)
  BY <1>1, <1>5 DEF StaffFree, BlocksAgenda
<1>6. ASSUME NEW p \in Plan, ConfirmSlot(q, p) PROVE SerialInv'
  <2>1. appt' = appt /\ req'[q] = [pc |-> "confirmed", plan |-> p] /\ \A s \in p.segs : StaffFree(s, {})
    BY <1>3, <1>6 DEF ConfirmSlot, SlotConfirmed, TypeOK
  <2>2. Holding(q)'
    BY <1>5, <2>1 DEF Holding
  <2> QED BY <1>1, <1>4, <2>1, <2>2
<1>7. ASSUME NEW a \in Appt, NEW p \in Plan, ConfirmMove(q, a, p) PROVE SerialInv'
  <2>1. /\ appt' = appt /\ req'[q] = [pc |-> "moveConfirmed", by |-> "customer", id |-> a, plan |-> p]
        /\ \A s \in p.segs : StaffFree(s, {a})
    BY <1>3, <1>7 DEF ConfirmMove, SlotConfirmed, TypeOK
  <2>2. Holding(q)'
    BY <1>5, <2>1 DEF Holding
  <2> QED BY <1>1, <1>4, <2>1, <2>2
<1>8. ASSUME NEW a \in Appt, NEW p \in Plan, WebMove(q, a, p) \/ PanelEdit(q, a, p) PROVE SerialInv'
  <2>1. /\ appt' = appt /\ BlocksAgenda(a)
        /\ \E by \in {"customer", "panel"} :
             /\ req'[q] = [pc |-> "editing", by |-> by, id |-> a, plan |-> p]
             /\ by = "customer" => "webMove" \in Op
    BY <1>3, <1>8 DEF WebMove, PanelEdit, TypeOK
  <2>2. Holding(q)'
    BY <2>1 DEF Holding, BlocksAgenda
  <2> QED BY <1>1, <1>4, <2>1, <2>2
<1>9. ASSUME NEW a \in Appt, NEW status \in PanelStatus, UpdateStatus(q, a, status) PROVE SerialInv'
  <2>1. /\ req'[q] = [pc |-> "sync", id |-> a, status |-> status]
        /\ appt'[a] = [appt[a] EXCEPT !.status = status] /\ appt[a] \in Record
        /\ \A c \in Appt \ {a} : appt'[c] = appt[c] /\ rows'[c] = rows[c]
    BY <1>1, <1>3, <1>9 DEF UpdateStatus, TypeOK
  <2>2. Present(a) /\ Present(a)' /\ appt'[a].status = status
    BY <1>9, <2>1, StatusAssumption DEF UpdateStatus, Present, Status, Record
  <2>3. Settled(a)'
    BY <1>1, <2>1, <2>2 DEF Settled, Window, Record
  <2>4. Holding(q)'
    <3>1. /\ req'[q].pc = "sync" /\ req'[q].id = a /\ req'[q].status = status
      BY <2>1
    <3> QED BY <2>2, <3>1 DEF Holding
  <2>5. (\A c \in Appt : Settled(c))' /\ ClosedHoldsNothing'
    BY <1>1, <1>2, <2>1, <2>3, OneSettled
  <2> QED BY <1>1, <2>4, <2>5
<1>10. ASSUME NEW a \in Appt, WhatsappCancel(q, a) \/ WebCancel(q, a) PROVE SerialInv'
  <2>1. /\ appt' = appt /\ BlocksAgenda(a)
        /\ req'[q] = [pc |-> "cancelling", id |-> a, was |-> appt[a], seen |-> rows[a]]
    BY <1>3, <1>10 DEF WhatsappCancel, WebCancel, ReadToCancel, TypeOK
  <2>2. Holding(q)'
    BY <1>1, <2>1 DEF Holding, BlocksAgenda
  <2> QED BY <1>1, <1>4, <2>1, <2>2
<1> QED BY <1>6, <1>7, <1>8, <1>9, <1>10 DEF Arrive

\* A customer's booking is written as it was confirmed.
LEMMA SerialBook ==
  ASSUME Serial, AgendaInv, SerialInv, NEW q \in Request,
         SaveAppointment(q) \/ SaveSegments(q) \/ SegmentsRefused(q) \/ UndoAppointment(q)
  PROVE  SerialInv'
<1> USE DEF SerialInv
<1>1. /\ req[q].pc \in {"confirmed", "saved", "undo"} /\ crashes' = crashes /\ \A r \in Request : r = q
  BY DEF SaveAppointment, SaveSegments, SegmentsRefused, UndoAppointment, Serial
<1>2. crashes = 0 => \A c \in Appt : ~BlocksAgenda(c) => Held(c) = {}
  BY <1>1, NobodySettling
<1>3. TypeOK /\ Holding(q)
  BY DEF AgendaInv
<1>4. CASE SaveAppointment(q)
  <2>1. PICK a \in Appt :
          /\ appt[a].status = "unborn"
          /\ appt' = [appt EXCEPT ![a] = [status |-> "confirmed",
                        start |-> req[q].plan.start, end |-> req[q].plan.end]]
          /\ req' = [req EXCEPT ![q] = [pc |-> "saved", id |-> a, plan |-> req[q].plan]]
    BY <1>4 DEF SaveAppointment
  <2>2. /\ appt'[a] = [status |-> "confirmed", start |-> req[q].plan.start, end |-> req[q].plan.end]
        /\ req'[q] = [pc |-> "saved", id |-> a, plan |-> req[q].plan]
        /\ rows' = rows /\ \A c \in Appt \ {a} : appt'[c] = appt[c] /\ rows'[c] = rows[c]
    BY <1>3, <1>4, <2>1 DEF SaveAppointment, TypeOK
  <2>3. rows[a] = {}
    <3>1. ~Present(a) /\ Settled(a)
      BY <2>1 DEF Present, Status
    <3> QED BY <3>1 DEF Settled
  <2>4. Settled(a)' /\ Held(a)' = {}
    BY <2>2, <2>3 DEF Settled, Held, Slots
  <2>5. \A s \in req[q].plan.segs : StaffFree(s, {a})'
    <3>1. \A s \in req[q].plan.segs : StaffFree(s, {})
      BY <1>3, <1>4 DEF Holding, SaveAppointment
    <3> QED BY <2>2, <3>1 DEF StaffFree, BlocksAgenda
  <2>6. Holding(q)'
    BY SMTT(60), <2>2, <2>3, <2>5 DEF Holding
  <2>7. (\A c \in Appt : Settled(c))' /\ ClosedHoldsNothing'
    BY <1>1, <1>2, <2>2, <2>4, OneSettled
  <2> QED BY <1>1, <2>6, <2>7
<1>5. CASE SaveSegments(q)
  <2>1. PICK a \in Appt, p \in Plan : req[q].pc = "saved" /\ a = req[q].id /\ p = req[q].plan
    BY <1>3, <1>5, HandlerFields DEF SaveSegments, TypeOK, Writing
  <2> DEFINE new == RowsOf(p, NewBatch(a), TRUE)
  <2>2. rows[a] = {} /\ appt[a] = [status |-> "confirmed", start |-> p.start, end |-> p.end]
    BY <1>3, <2>1 DEF Holding
  <2>3. rows'[a] = new /\ appt' = appt /\ req'[q] = idle
        /\ \A c \in Appt \ {a} : appt'[c] = appt[c] /\ rows'[c] = rows[c]
    BY <1>3, <1>5, <2>1, <2>2 DEF SaveSegments, WithPlan, TypeOK
  <2>4. {[staff |-> x.staff, start |-> x.start, end |-> x.end] : x \in new} = p.segs
    BY CareOfPlan
  <2> HIDE DEF new
  <2>5. Settled(a)' /\ BlocksAgenda(a)'
    BY <2>2, <2>3, <2>4 DEF Settled, Window, BlocksAgenda, Blocking, Present, Status
  <2>6. Holding(q)'
    BY <2>3 DEF Holding, idle
  <2>7. (\A c \in Appt : Settled(c))' /\ ClosedHoldsNothing'
    BY <1>1, <1>2, <2>3, <2>5, OneSettled
  <2> QED BY <1>1, <2>6, <2>7
<1>6. CASE SegmentsRefused(q)
  <2>1. UNCHANGED <<appt, rows>> /\ req'[q].pc = "undo"
    <3>1. req[q] \in Writing
      BY <1>3, <1>6, HandlerFields DEF SegmentsRefused, TypeOK
    <3> QED BY <1>3, <1>6, <3>1 DEF SegmentsRefused, TypeOK, Writing
  <2>2. Holding(q)'
    BY <2>1 DEF Holding
  <2>3. (\A c \in Appt : Settled(c))' /\ ClosedHoldsNothing'
    BY <1>1, <1>2, <2>1, AllSettled
  <2> QED BY <1>1, <2>2, <2>3
<1>7. CASE UndoAppointment(q)
  <2>1. PICK a \in Appt : a = req[q].id
    BY <1>3, <1>7, HandlerFields DEF UndoAppointment, TypeOK, Writing
  <2>2. rows'[a] = {} /\ req'[q] = idle /\ \A c \in Appt \ {a} : appt'[c] = appt[c] /\ rows'[c] = rows[c]
    BY <1>3, <1>7, <2>1 DEF UndoAppointment, TypeOK
  <2>3. Settled(a)' /\ Held(a)' = {} /\ Holding(q)'
    BY <2>2 DEF Settled, Held, Slots, Holding, idle
  <2>4. (\A c \in Appt : Settled(c))' /\ ClosedHoldsNothing'
    BY <1>1, <1>2, <2>2, <2>3, OneSettled
  <2> QED BY <1>1, <2>3, <2>4
<1> QED BY <1>4, <1>5, <1>6, <1>7

\* An edit replaces the segments and the times together, of an appointment still open.
LEMMA SerialMove ==
  ASSUME Serial, AgendaInv, SerialInv, NEW q \in Request, ReadMove(q) \/ ReplaceSegments(q)
  PROVE  SerialInv'
<1> USE DEF SerialInv
<1>1. /\ req[q].pc \in {"moveConfirmed", "editing"} /\ crashes' = crashes /\ \A r \in Request : r = q
  BY DEF ReadMove, ReplaceSegments, Serial
<1>2. crashes = 0 => \A c \in Appt : ~BlocksAgenda(c) => Held(c) = {}
  BY <1>1, NobodySettling
<1>3. TypeOK /\ Holding(q)
  BY DEF AgendaInv
<1>4. PICK a \in Appt, p \in Plan : req[q] \in Moving /\ a = req[q].id /\ p = req[q].plan
  BY <1>1, <1>3, HandlerFields DEF TypeOK, Moving
<1>5. CASE ReadMove(q)
  <2>1. UNCHANGED <<appt, rows>>
    BY <1>5 DEF ReadMove
  <2>2. \/ req'[q] = idle
        \/ /\ BlocksAgenda(a) /\ req[q].pc = "moveConfirmed"
           /\ req'[q].pc = "editing" /\ req'[q].by = req[q].by /\ req'[q].id = a /\ req'[q].plan = p
    BY <1>3, <1>4, <1>5 DEF ReadMove, Moving, TypeOK
  <2>3. BlocksAgenda(a)' = BlocksAgenda(a) /\ \A s : StaffFree(s, {a})' = StaffFree(s, {a})
    BY <2>1 DEF BlocksAgenda, StaffFree
  <2>4. Holding(q)'
    <3>1. CASE req'[q] = idle
      BY <3>1 DEF Holding, idle
    <3>2. CASE req'[q] # idle
      BY <1>3, <1>4, <2>2, <2>3, <3>2 DEF Holding
    <3> QED BY <3>1, <3>2
  <2>5. (\A c \in Appt : Settled(c))' /\ ClosedHoldsNothing'
    BY <1>1, <1>2, <2>1, AllSettled
  <2> QED BY <1>1, <2>4, <2>5
<1>6. CASE ReplaceSegments(q)
  <2> DEFINE new == RowsOf(p, NewBatch(a), TRUE)
  <2>1. req'[q] = idle /\ req[q].pc = "editing" /\ BlocksAgenda(a)
    BY <1>3, <1>4, <1>6 DEF ReplaceSegments, Holding, TypeOK
  <2>2. Holding(q)'
    BY <2>1 DEF Holding, idle
  <2>3. CASE UNCHANGED <<appt, rows>>
    BY <1>1, <1>2, <2>2, <2>3, AllSettled
  <2>4. CASE rows' = [rows EXCEPT ![a] = new] /\ appt' = [appt EXCEPT ![a] = Moved(a, p)]
    <3>1. /\ rows'[a] = new /\ appt'[a] = [appt[a] EXCEPT !.start = p.start, !.end = p.end]
          /\ \A c \in Appt \ {a} : appt'[c] = appt[c] /\ rows'[c] = rows[c]
      BY <1>3, <2>4 DEF Moved, TypeOK
    <3>2. appt[a] \in Record
      BY <1>3 DEF TypeOK
    <3>3. appt'[a].status = appt[a].status /\ appt'[a].start = p.start /\ appt'[a].end = p.end
      BY <3>1, <3>2 DEF Record
    <3>4. {[staff |-> x.staff, start |-> x.start, end |-> x.end] : x \in new} = p.segs
      BY CareOfPlan
    <3> HIDE DEF new
    <3>5. Settled(a)' /\ BlocksAgenda(a)'
      BY <2>1, <3>1, <3>3, <3>4 DEF Settled, Window, BlocksAgenda, Blocking, Present, Status
    <3>6. (\A c \in Appt : Settled(c))' /\ ClosedHoldsNothing'
      BY <1>1, <1>2, <3>1, <3>5, OneSettled
    <3> QED BY <1>1, <2>2, <3>6
  <2> QED BY <1>4, <1>6, <2>3, <2>4 DEF ReplaceSegments
<1> QED BY <1>5, <1>6

\* A change of status reaches the segments before the handler ends, and a save of those
\* of a closed appointment is never refused: it disputes no slot.
LEMMA SerialSync ==
  ASSUME Serial, AgendaInv, SerialInv, NEW q \in Request, SaveCancelled(q) \/ SyncFind(q) \/ SyncSave(q)
  PROVE  SerialInv'
<1> USE DEF SerialInv
<1>1. /\ req[q].pc \in {"cancelling", "sync", "syncing"} /\ crashes' = crashes /\ \A r \in Request : r = q
  BY DEF SaveCancelled, SyncFind, SyncSave, Serial
<1>2. TypeOK /\ Holding(q)
  BY DEF AgendaInv
<1>3. PICK a \in Appt : a = req[q].id
  BY <1>1, <1>2, HandlerFields DEF TypeOK, Cancel, Sync, Syncing
<1>4. crashes = 0 => \A c \in Appt \ {a} : ~BlocksAgenda(c) => Held(c) = {}
  BY <1>3, NobodySettling
<1>5. CASE SaveCancelled(q)
  <2>1. /\ req[q].pc = "cancelling" /\ req[q].was = appt[a] /\ req[q].seen = rows[a] /\ BlocksAgenda(a)
    BY <1>2, <1>3, <1>5 DEF SaveCancelled, Holding
  <2>2. /\ rows' = rows /\ appt' = [appt EXCEPT ![a] = [appt[a] EXCEPT !.status = "cancelled"]]
        /\ req'[q] = [pc |-> "sync", id |-> a, status |-> "cancelled"]
    BY <1>2, <1>3, <1>5, <2>1 DEF SaveCancelled, TypeOK
  <2>3. /\ appt'[a] = [appt[a] EXCEPT !.status = "cancelled"] /\ appt[a] \in Record
        /\ \A c \in Appt \ {a} : appt'[c] = appt[c] /\ rows'[c] = rows[c]
    BY <1>2, <2>2 DEF TypeOK
  <2>4. Present(a) /\ Present(a)' /\ appt'[a].status = "cancelled"
    BY <2>1, <2>3 DEF Present, BlocksAgenda, Blocking, Status, Record
  <2>5. Settled(a)'
    BY <2>2, <2>3, <2>4 DEF Settled, Window, Record
  <2>6. req'[q].pc = "sync" /\ req'[q].id = a /\ req'[q].status = "cancelled"
    BY <2>2
  <2>7. Holding(q)'
    BY <2>4, <2>6 DEF Holding
  <2>8. (\A c \in Appt : Settled(c))' /\ ClosedHoldsNothing'
    BY <1>1, <1>4, <2>3, <2>5, <2>6, OneSettled
  <2> QED BY <1>1, <2>7, <2>8
<1>6. CASE SyncFind(q)
  <2>1. UNCHANGED <<appt, rows>> /\ req[q].pc = "sync" /\ appt[a].status = req[q].status
    BY <1>2, <1>3, <1>6 DEF SyncFind, Holding
  <2>2. \/ req'[q] = idle /\ rows[a] = {}
        \/ req'[q] = [pc |-> "syncing", id |-> a, status |-> req[q].status, seen |-> rows[a]]
    BY <1>2, <1>3, <1>6 DEF SyncFind, TypeOK
  <2>3. CASE req'[q] = idle /\ rows[a] = {}
    <3>1. Holding(q)'
      BY <2>3 DEF Holding, idle
    <3>2. crashes = 0 => \A c \in Appt : ~BlocksAgenda(c) => Held(c) = {}
      BY <1>4, <2>3 DEF Held, Slots
    <3>3. (\A c \in Appt : Settled(c))' /\ ClosedHoldsNothing'
      BY <1>1, <2>1, <3>2, AllSettled
    <3> QED BY <1>1, <3>1, <3>3
  <2>4. CASE req'[q] = [pc |-> "syncing", id |-> a, status |-> req[q].status, seen |-> rows[a]]
    <3>1. /\ req'[q].pc = "syncing" /\ req'[q].id = a
          /\ req'[q].status = req[q].status /\ req'[q].seen = rows[a]
      BY <2>4
    <3>2. Holding(q)'
      BY <2>1, <3>1 DEF Holding
    <3>3. crashes = 0 => \A c \in Appt : ~BlocksAgenda(c) /\ Held(c) # {} =>
            \E r \in Request : req'[r].pc \in {"sync", "syncing"} /\ req'[r].id = c
      BY <1>4, <3>1
    <3>4. (\A c \in Appt : Settled(c))' /\ ClosedHoldsNothing'
      BY <1>1, <2>1, <3>3, AllSettled
    <3> QED BY <1>1, <3>2, <3>4
  <2> QED BY <2>2, <2>3, <2>4
<1>7. CASE SyncSave(q)
  <2> DEFINE new == Resaved(a, rows[a], req[q].status)
  <2>1. /\ req[q].pc = "syncing" /\ appt[a].status = req[q].status /\ req[q].seen = rows[a]
        /\ req[q].status \in Status
    BY <1>2, <1>3, <1>7, HandlerFields DEF SyncSave, Holding, TypeOK, Syncing
  <2>2. /\ appt' = appt /\ req'[q] = idle
        /\ rows' = IF Writable(a, new) THEN [rows EXCEPT ![a] = new] ELSE rows
    BY <1>2, <1>3, <1>7, <2>1 DEF SyncSave, TypeOK
  <2>3. Holding(q)'
    BY <2>2 DEF Holding, idle
  <2>4. Present(a) /\ BlocksAgenda(a)' = BlocksAgenda(a) /\ (~BlocksAgenda(a) => req[q].status \notin Blocking)
    BY <2>1, <2>2 DEF Present, BlocksAgenda
  <2>5. /\ {[staff |-> x.staff, start |-> x.start, end |-> x.end] : x \in new}
              = {[staff |-> x.staff, start |-> x.start, end |-> x.end] : x \in rows[a]}
        /\ req[q].status \notin Blocking => Slots(new) = {}
        /\ rows[a] = {} => new = {}
    BY <1>2, ResavedAll
  <2> HIDE DEF new
  <2>6. Slots(new) = {} => Writable(a, new)
    BY <2>4 DEF Slots, Writable, IndexAccepts, Clash
  <2>7. CASE Writable(a, new)
    <3>1. rows'[a] = new /\ \A c \in Appt \ {a} : appt'[c] = appt[c] /\ rows'[c] = rows[c]
      BY <1>2, <2>2, <2>7 DEF TypeOK
    <3>2. Settled(a)'
      BY <2>2, <2>4, <2>5, <3>1 DEF Settled, Window, Present
    <3>3. ~BlocksAgenda(a)' => Held(a)' = {}
      BY <2>4, <2>5, <3>1 DEF Held
    <3>4. (\A c \in Appt : Settled(c))' /\ ClosedHoldsNothing'
      BY <1>1, <1>4, <3>1, <3>2, <3>3, OneSettled
    <3> QED BY <1>1, <2>3, <3>4
  <2>8. CASE ~Writable(a, new)
    <3>1. BlocksAgenda(a) /\ UNCHANGED <<appt, rows>>
      BY <2>2, <2>4, <2>5, <2>6, <2>8
    <3>2. crashes = 0 => \A c \in Appt : ~BlocksAgenda(c) => Held(c) = {}
      BY <1>4, <3>1
    <3>3. (\A c \in Appt : Settled(c))' /\ ClosedHoldsNothing'
      BY <1>1, <3>1, <3>2, AllSettled
    <3> QED BY <1>1, <2>3, <3>3
  <2> QED BY <2>7, <2>8
<1> QED BY <1>5, <1>6, <1>7

\* Nothing is in flight and nothing is written when the service starts.
LEMMA SerialInit == Init => SerialInv
BY DEF Init, SerialInv, Settled, Present, NoRecord, Status, ClosedHoldsNothing, Held, Slots, Holding, idle

\* Every query of the one handler in flight, the clock and a crash keep it.
LEMMA SerialNext ==
  ASSUME Serial, AgendaInv, SerialInv, [Next]_vars
  PROVE  SerialInv'
<1>1. ASSUME UNCHANGED <<appt, rows, req, crashes>> PROVE SerialInv'
  <2>1. \A r \in Request : Holding(r)'
    BY <1>1 DEF SerialInv, Holding, StaffFree, BlocksAgenda
  <2>2. (\A c \in Appt : Settled(c))' /\ ClosedHoldsNothing'
    BY <1>1, AllSettled DEF SerialInv, ClosedHoldsNothing
  <2> QED BY <2>1, <2>2 DEF SerialInv
<1>2. CASE Crash
  <2>1. UNCHANGED <<appt, rows>> /\ crashes' # 0 /\ \A r \in Request : req'[r] = idle
    BY <1>2, BoundAssumption DEF Crash, AgendaInv, TypeOK
  <2>2. \A r \in Request : Holding(r)'
    BY <2>1 DEF Holding, idle
  <2>3. (\A c \in Appt : Settled(c))' /\ ClosedHoldsNothing'
    BY <2>1, AllSettled DEF SerialInv
  <2> QED BY <2>2, <2>3 DEF SerialInv
<1>3. CASE Tick \/ UNCHANGED vars
  BY <1>1, <1>3 DEF Tick, vars
<1> QED BY <1>2, <1>3, SerialOneStep, SerialArrive, SerialBook, SerialMove, SerialSync DEF Next, Continue

\* With one handler at a time, no closed appointment keeps a slot in dispute unless its
\* own change of status is still on its way to the segments: what syncActiveSlot leaves
\* agrees with the status, and its save of a closed appointment cannot be refused.
THEOREM ClosedHoldNoSlot ==
  ASSUME Serial
  PROVE  Spec => []ClosedHoldsNothing
<1>1. Init => AgendaInv /\ SerialInv
  BY InvariantInit, SerialInit
<1>2. AgendaInv /\ SerialInv /\ [Next]_vars => (AgendaInv /\ SerialInv)'
  BY InvariantNext, SerialNext
<1>3. SerialInv => ClosedHoldsNothing
  BY DEF SerialInv
<1> QED BY <1>1, <1>2, <1>3, PTL DEF Spec

\* With one handler at a time, the times an appointment shows are those of its segments,
\* through bookings, edits, changes of status, cancellations and crashes.
THEOREM TimesAreOfSegments ==
  ASSUME Serial
  PROVE  Spec => []WindowOfSegments
<1>1. Init => AgendaInv /\ SerialInv
  BY InvariantInit, SerialInit
<1>2. AgendaInv /\ SerialInv /\ [Next]_vars => (AgendaInv /\ SerialInv)'
  BY InvariantNext, SerialNext
<1>3. SerialInv => WindowOfSegments
  BY DEF SerialInv, Settled, WindowOfSegments
<1> QED BY <1>1, <1>2, <1>3, PTL DEF Spec

\* With one handler at a time, and without the web page's move (which checks nothing), no
\* customer's booking or move is written over an appointment that occupies the agenda.
THEOREM CustomersAreKeptApart ==
  ASSUME Serial, "webMove" \notin Op
  PROVE  Spec => CustomersNeverDoubleBook
<1>1. Init => AgendaInv /\ SerialInv
  BY InvariantInit, SerialInit
<1>2. AgendaInv /\ SerialInv /\ [Next]_vars => (AgendaInv /\ SerialInv)'
  BY InvariantNext, SerialNext
<1>3. AgendaInv /\ SerialInv =>
        \A r \in Request : CustomerWrites(r) /\ rows' # rows =>
          \A s \in req[r].plan.segs : StaffFree(s, {req[r].id})
  BY DEF SerialInv, Holding, CustomerWrites
<1> QED BY <1>1, <1>2, <1>3, PTL DEF Spec, CustomersNeverDoubleBook

===============================================================================

---- MODULE StaffAlerts ----
(***************************************************************************)
(* The alerts that tell the professionals of an appointment what changed   *)
(* in their agenda (notifications/).  The request that changes the         *)
(* appointment writes rows, one per fact, and never talks to WhatsApp;     *)
(* the rows are sent by flush, which the same request starts and a job     *)
(* repeats every minute, so that several flushes run over one table.       *)
(*                                                                         *)
(* One appointment, whose changes are taken one at a time (Agenda          *)
(* interleaves them).  A row keeps its place in the order of creation.     *)
(***************************************************************************)
EXTENDS Integers, Sequences, FiniteSets, SequencesExt

CONSTANTS
  Staff,          \* the professionals
  Plans,          \* the segments an appointment may have: sets of [staff, service, start]
  Flushers,       \* the requests and runs of the job that may send at once
  Batch,          \* BATCH_SIZE: rows taken by a flush
  MaxSegments,    \* bound: segments of an appointment that have a professional
  MaxEdits,       \* bound: changes of the appointment
  MaxChanges,     \* bound: changes of the team, of the settings and of the templates, and crashes
  MayLose         \* whether writing the rows may fail, which the request swallows

CONSTANT NoStaff  \* a segment without a professional

AlertsAssumption ==
  /\ Batch \in Nat \ {0} /\ MaxSegments \in Nat /\ MaxEdits \in Nat /\ MaxChanges \in Nat
  /\ \A plan \in Plans : /\ IsFiniteSet(plan)
                         /\ \A s \in plan : s.staff \in Staff \cup {NoStaff}
                         /\ \A s, t \in plan : s.staff = t.staff /\ s.service = t.service => s = t
                         /\ Cardinality({s \in plan : s.staff # NoStaff}) <= MaxSegments

VARIABLES
  status,         \* of the appointment
  segs,           \* its segments
  rows,           \* appointment_notifications, in order of createdAt
  fs,             \* [Flushers -> what a flush holds in memory]
  reachable,      \* the professionals resolveRecipient finds a phone for, while the business
                  \* has the alerts on and WhatsApp connected; none otherwise
  approved,       \* the events whose template Meta approved
  edits, changes, \* how much of the bounds is used
  untold          \* a change was not told: an insert failed, or it is not news

vars == <<status, segs, rows, fs, reachable, approved, edits, changes, untold>>
appointment == <<status, segs, edits>>
world == <<reachable, approved, changes>>

Events == {"CREATED", "RESCHEDULED", "CANCELLED"}
Idle == [pc |-> "idle", todo |-> <<>>, deleting |-> FALSE]

-----------------------------------------------------------------------------
(* Whom to tell what (staff-notification.rules.ts) *)

Key(event, s) == [event |-> event, staff |-> s.staff, service |-> s.service, start |-> s.start]
StaffedOrNot(segments) == segments   \* mutant: nobody to tell
Staffed(segments) == {s \in segments : s.staff # NoStaff}

PlanCreated(segments) == {Key("CREATED", s) : s \in Staffed(segments)}
PlanCancelled(segments) == {Key("CANCELLED", s) : s \in Staffed(segments)}

\* The grain of the comparison: who does what, whatever the row of the segment.
SameService(s, t) == s.service = t.service   \* mutant: whoever does it
Same(s, t) == s.staff = t.staff /\ s.service = t.service
Within(s, segments) == \E t \in Staffed(segments) : Same(s, t)

PlanEdited(before, after) ==
  {Key("CREATED", s) : s \in {s \in Staffed(after) : ~Within(s, before)}}
  \cup {Key("RESCHEDULED", s) : s \in {s \in Staffed(after) :
                                 \E t \in Staffed(before) : Same(s, t) /\ t.start # s.start}}
  \cup {Key("CANCELLED", s) : s \in {s \in Staffed(before) : ~Within(s, after)}}

-----------------------------------------------------------------------------
(* The rows *)

Row(k) == [key |-> k, st |-> "PENDING", old |-> FALSE, told |-> 0]
Keys == {rows[i].key : i \in DOMAIN rows}

\* A fact that already has its row, in whatever state, is left alone (INSERT IGNORE).
Enqueued(keys) == rows \o SetToSeq({Row(k) : k \in keys \ Keys})

\* A failure is swallowed: the appointment has changed anyway.
Enqueue(keys) ==
  \/ rows' = Enqueued(keys) /\ UNCHANGED untold
  \/ MayLose /\ keys # {} /\ untold' = TRUE /\ UNCHANGED rows

\* An update of a row that may have been deleted meanwhile.
Updated(i, st) == IF i \in DOMAIN rows THEN [rows EXCEPT ![i].st = st, ![i].old = FALSE] ELSE rows

ClaimAny(i) == i \in DOMAIN rows   \* mutant: the row is taken as it was read
Claimable(i) == i \in DOMAIN rows /\ rows[i].st = "PENDING"

Pending == {i \in DOMAIN rows : rows[i].st = "PENDING"}
NewestFirst(n) == {i \in Pending : Cardinality({j \in Pending : j > i}) < n}   \* mutant: DESC
OldestFirst(n) == {i \in Pending : Cardinality({j \in Pending : j < i}) < n}

Interrupted(r) == r.st = "SENDING" /\ r.old

-----------------------------------------------------------------------------
(* The appointment *)

Editing == edits < MaxEdits /\ edits' = edits + 1
Elsewhere == UNCHANGED <<fs, world>>

Book ==
  /\ status = "none" /\ status' = "open"
  /\ \E plan \in Plans : segs' = plan /\ Enqueue(PlanCreated(plan))
  /\ UNCHANGED edits /\ Elsewhere

\* An appointment noted down afterwards is no news.
BookPast ==
  /\ status = "none" /\ status' = "completed"
  /\ segs' \in Plans /\ untold' = TRUE
  /\ UNCHANGED <<edits, rows>> /\ Elsewhere

Edit ==
  /\ Editing /\ status = "open"
  /\ \E plan \in Plans : segs' = plan /\ Enqueue(PlanEdited(segs, plan))
  /\ UNCHANGED status /\ Elsewhere

\* Only a cancellation is told, and not that of what was already attended to.
ChangeStatus ==
  /\ Editing /\ status \in {"open", "completed", "cancelled"}
  /\ status' \in {"open", "completed", "cancelled"}
  /\ IF status = "completed"
     THEN UNCHANGED rows /\ untold' = TRUE
     ELSE Enqueue(IF status' = "cancelled" THEN PlanCancelled(segs) ELSE {})
  /\ UNCHANGED segs /\ Elsewhere

-----------------------------------------------------------------------------
(* flush *)

Goto(f, m) == fs' = [fs EXCEPT ![f] = m]
Head1(f) == Head(fs[f].todo)
\* The next row; after the last one a flush ends, unless a deletion waits for it.
Pop(f) == Goto(f, IF Len(fs[f].todo) > 1 \/ fs[f].deleting
                  THEN [fs[f] EXCEPT !.pc = "loop", !.todo = Tail(@)] ELSE Idle)

\* The rows are read with the professional and the business as they are now.
FindPending(f) ==
  /\ fs[f].pc = "find" \/ (fs[f].pc = "idle" /\ Pending # {})
  /\ Goto(f, [fs[f] EXCEPT !.pc = "loop",
        !.todo = [n \in 1 .. Cardinality(OldestFirst(Batch)) |->
                   LET i == SetToSortSeq(OldestFirst(Batch), <)[n]
                   IN [row |-> i, ok |-> rows[i].key.staff \in reachable]]])
  /\ UNCHANGED <<appointment, rows, untold, world>>

Skip(f) ==
  /\ fs[f].pc = "loop" /\ fs[f].todo # <<>> /\ ~Head1(f).ok
  /\ rows' = Updated(Head1(f).row, "SKIPPED")
  /\ Pop(f)
  /\ UNCHANGED <<appointment, untold, world>>

\* The template is read now.
Sendable(f) == Claimable(Head1(f).row) /\ rows[Head1(f).row].key.event \in approved

\* Without it the row waits for another run.
Wait(f) ==
  /\ fs[f].pc = "loop" /\ fs[f].todo # <<>> /\ Head1(f).ok
  /\ ~Sendable(f)
  /\ Pop(f)
  /\ UNCHANGED <<appointment, rows, untold, world>>

Claim(f) ==
  /\ fs[f].pc = "loop" /\ fs[f].todo # <<>> /\ Head1(f).ok
  /\ Sendable(f)
  /\ rows' = Updated(Head1(f).row, "SENDING")
  /\ Goto(f, [fs[f] EXCEPT !.pc = "send"])
  /\ UNCHANGED <<appointment, untold, world>>

\* Whatever Meta answers, the message may have been delivered.
Send(f) ==
  /\ fs[f].pc = "send"
  /\ \E answer \in {"SENT", "FAILED"} : Goto(f, [fs[f] EXCEPT !.pc = answer])
  /\ rows' = IF Head1(f).row \in DOMAIN rows THEN [rows EXCEPT ![Head1(f).row].told = @ + 1] ELSE rows
  /\ UNCHANGED <<appointment, untold, world>>

Mark(f) ==
  /\ fs[f].pc \in {"SENT", "FAILED"}
  /\ rows' = Updated(Head1(f).row, fs[f].pc)
  /\ Pop(f)
  /\ UNCHANGED <<appointment, untold, world>>

\* The job closes what was left half sent, once it is old, before its flush.
FailStale ==
  /\ \E i \in DOMAIN rows : Interrupted(rows[i])
  /\ rows' = [i \in DOMAIN rows |-> IF Interrupted(rows[i]) THEN [rows[i] EXCEPT !.st = "FAILED", !.old = FALSE]
                                                            ELSE rows[i]]
  /\ UNCHANGED <<appointment, fs, untold, world>>

-----------------------------------------------------------------------------
(* Deleting the appointment: tell whoever was told, flush, delete with the rows *)

Informed == {rows[i].key.staff : i \in {i \in DOMAIN rows : rows[i].st \in {"SENT", "SENDING"}}}

\* A support session does not flush.
Delete(f) ==
  /\ Editing /\ status \notin {"none", "deleted"} /\ fs[f].pc = "idle"
  /\ Enqueue(PlanCancelled({s \in segs : s.staff \in Informed}))
  /\ \E pc \in {"find", "loop"} : Goto(f, [Idle EXCEPT !.pc = pc, !.deleting = TRUE])
  /\ UNCHANGED <<status, segs, world>>

DeleteNow(f) ==
  /\ fs[f].pc = "loop" /\ fs[f].todo = <<>> /\ fs[f].deleting
  /\ status' = "deleted" /\ segs' = {} /\ rows' = <<>>
  /\ Goto(f, Idle)
  /\ UNCHANGED <<edits, untold, world>>

-----------------------------------------------------------------------------
(* What changes around *)

Change == changes < MaxChanges /\ changes' = changes + 1
Around == UNCHANGED <<appointment, rows, untold>>

SwitchStaff == Change /\ (\E p \in Staff : reachable' = SymDiff(reachable, {p})) /\ UNCHANGED <<approved, fs>> /\ Around
SwitchBusiness == Change /\ reachable' = (IF reachable = {} THEN Staff ELSE {}) /\ UNCHANGED <<approved, fs>> /\ Around
SwitchTemplate == Change /\ (\E e \in Events : approved' = SymDiff(approved, {e})) /\ UNCHANGED <<reachable, fs>> /\ Around
Crash(f) == Change /\ fs[f].pc # "idle" /\ Goto(f, Idle) /\ UNCHANGED <<reachable, approved>> /\ Around

\* Fifteen minutes pass over what is being sent.
Age ==
  /\ \E i \in DOMAIN rows : rows[i].st = "SENDING" /\ ~rows[i].old
  /\ rows' = [i \in DOMAIN rows |-> [rows[i] EXCEPT !.old = rows[i].st = "SENDING"]]
  /\ UNCHANGED <<appointment, fs, untold, world>>

Init ==
  /\ status = "none" /\ segs = {} /\ rows = <<>> /\ fs = [f \in Flushers |-> Idle]
  /\ reachable = Staff /\ approved = Events
  /\ edits = 0 /\ changes = 0 /\ untold = FALSE

Dispatch(f) == Skip(f) \/ Wait(f) \/ Claim(f) \/ Send(f) \/ Mark(f) \/ DeleteNow(f)

Next ==
  \/ Book \/ BookPast \/ Edit \/ ChangeStatus
  \/ \E f \in Flushers : FindPending(f) \/ Dispatch(f) \/ Delete(f) \/ Crash(f)
  \/ FailStale \/ Age
  \/ SwitchStaff \/ SwitchBusiness \/ SwitchTemplate

\* The job runs every minute, a flush that is not cut short goes on, and time passes.
Fairness ==
  /\ WF_vars(FailStale) /\ WF_vars(Age)
  /\ \A f \in Flushers : WF_vars(Dispatch(f)) /\ WF_vars(FindPending(f))

Spec == Init /\ [][Next]_vars /\ Fairness

-----------------------------------------------------------------------------
(* Properties *)

\* Booking tells each professional once; a change tells, at most, all of before and all of after.
MaxRows == MaxSegments * (2 * MaxEdits + 1)
States == {"PENDING", "SENDING", "SENT", "FAILED", "SKIPPED"}

TypeOK ==
  /\ status \in {"none", "open", "completed", "cancelled", "deleted"}
  /\ segs \in Plans \cup {{}}
  /\ Len(rows) <= MaxRows
  /\ \A i \in DOMAIN rows : rows[i].key.event \in Events /\ rows[i].key.staff \in Staff /\ rows[i].st \in States
  /\ \A f \in Flushers : fs[f].pc \in {"idle", "find", "loop", "send", "SENT", "FAILED"}
  /\ reachable \subseteq Staff /\ approved \subseteq Events
  /\ edits \in 0 .. MaxEdits /\ changes \in 0 .. MaxChanges /\ untold \in BOOLEAN

\* No fact is told twice, however many flushes run over the same rows, with sends whose
\* outcome nobody knows, crashes in the middle and rows closed as interrupted.
ToldOnce == \A i \in DOMAIN rows : rows[i].told <= 1

\* Unless a change went untold, whoever has a segment of an open appointment has a
\* row that says so with its time, and whoever had one and lost it has a row that says so.
AgendaIsAnnounced ==
  ~untold /\ status \in {"open", "cancelled"} =>
    /\ status = "open" => \A s \in Staffed(segs) : {Key("CREATED", s), Key("RESCHEDULED", s)} \cap Keys # {}
    /\ \A k \in Keys : \/ status = "open" /\ Within(k, segs)
                       \/ \E c \in Keys : c.event = "CANCELLED" /\ Same(c, k)

Settled(i) == i \in DOMAIN rows => rows[i].st \in {"SENT", "FAILED", "SKIPPED"}
\* A row waits for its own template, or behind a whole batch that waits for others.
Waits(i) ==
  i \in DOMAIN rows /\ rows[i].st = "PENDING" /\
    \/ rows[i].key.event \notin approved
    \/ Cardinality({j \in Pending : j < i /\ rows[j].key.event \notin approved}) >= Batch

AtRest(i) == Settled(i) \/ Waits(i)

\* No row is left for ever half sent, or pending once there is a template for it and room
\* for it in a batch.
RowsSettle == \A i \in 1 .. MaxRows : []<>AtRest(i)
====

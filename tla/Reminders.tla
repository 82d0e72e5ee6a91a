------------------------------ MODULE Reminders ------------------------------
\* The reminders sent to customers before their appointments: the table
\* appointment_reminders and the job that runs every five minutes over it
\* (reminders/appointment-reminders.job.ts, .service.ts, .repository.ts, .rules.ts),
\* beside an agenda that changes and a process that may die.
\*
\* A run of the job ("sweep") is a promise chain: each step is one query, or the call
\* to Meta, and anything else may happen between two.  One business is modelled: the
\* runs share nothing between businesses but their order.  An appointment is what
\* this code sees of it, open (blocksAgenda) or closed, its start, and whether its
\* client has a phone.
EXTENDS Integers

CONSTANTS
  Appt,      \* appointments
  Offset,    \* the lead times a business can choose (SUPPORTED_REMINDER_OFFSETS)
  Setting,   \* the settings the business goes through
  Sweep,     \* the runs of the job that can be in flight at once
  MaxTime,   \* the last instant (bound)
  Horizon,   \* RECONCILE_HORIZON_MINUTES
  Timeout,   \* SENDING_TIMEOUT_MINUTES
  Booked,    \* the times appointments are given (bound)
  Phone      \* whether clients have a phone: a set of booleans

Time == 0 .. MaxTime
NoTime == -1         \* NULL

\* enabled: the switch of automatic messages is on and WhatsApp is connected.
\* approved: Meta has approved the template.
ASSUME SettingAssumption ==
  Setting \subseteq [offsets : SUBSET Offset, enabled : BOOLEAN, approved : BOOLEAN]

ASSUME NumberAssumption ==
  /\ Offset \subseteq Nat \ {0}
  /\ MaxTime \in Nat /\ Horizon \in Nat /\ Timeout \in Nat
  /\ Booked \subseteq Time /\ Phone \subseteq BOOLEAN

-------------------------------------------------------------------------------
\* State

VARIABLES
  appt,       \* the appointments
  setting,    \* the settings of the business, and its template
  row,        \* the reminder of each appointment and offset; "none" is no row
  sweep,      \* what each run is about to do, and what it has read
  now,        \* the clock
  delivered,  \* history: how many times each reminder has reached the customer
  changed,    \* history: the appointments written since each run began
  upset       \* history: the runs whose reconciliation failed, or had the settings changed

vars == <<appt, setting, row, sweep, now, delivered, changed, upset>>
env == <<appt, setting, now>>

Key == Appt \X Offset     \* the unique index (appointmentId, channel, offsetMinutes)

Appointment == [life : {"unborn", "open", "closed", "deleted"}, start : Time, phone : BOOLEAN]

\* since is updatedAt, which only matters to rows in SENDING.
Row == [state : {"none", "CANCELLED", "SKIPPED"}, at : {NoTime}, since : {NoTime}]
         \cup [state : {"SCHEDULED", "SENT", "FAILED"}, at : Time, since : {NoTime}]
         \cup [state : {"SENDING"}, at : Time, since : Time]

Desire == [state : {"SCHEDULED"}, at : Time] \cup [state : {"SKIPPED", "CANCELLED"}, at : {NoTime}]
Write  == [key : Key, want : Desire, how : {"upsert", "update"}]
Seen   == [id : Appt, start : Time, phone : BOOLEAN]
Due    == [key : Key, at : Time, life : {"open", "closed"}, start : Time, phone : BOOLEAN,
           enabled : BOOLEAN]

Run ==
  [pc : {"idle"}]
    \cup [pc : {"stale", "appointments", "due"}, now : Time]
    \cup [pc : {"orphans"}, now : Time, open : SUBSET Seen]
    \cup [pc : {"stored"}, now : Time, open : SUBSET Seen, orphans : SUBSET Key]
    \cup [pc : {"tenant"}, now : Time, open : SUBSET Seen, orphans : SUBSET Key, stored : [Key -> Row]]
    \cup [pc : {"writing"}, now : Time, writes : SUBSET Write, orphans : SUBSET Key]
    \cup [pc : {"template"}, now : Time, due : SUBSET Due]
    \cup [pc : {"sending"}, now : Time, due : SUBSET Due, approved : BOOLEAN]
    \cup [pc : {"calling", "arrived", "refused"}, now : Time, due : SUBSET Due, approved : BOOLEAN, key : Key]

idle == [pc |-> "idle"]
NoRow == [state |-> "none", at |-> NoTime, since |-> NoTime]

Init ==
  /\ appt = [a \in Appt |-> [life |-> "unborn", start |-> 0, phone |-> FALSE]]
  /\ setting \in Setting
  /\ row = [k \in Key |-> NoRow]
  /\ sweep = [s \in Sweep |-> idle]
  /\ now = 0
  /\ delivered = [k \in Key |-> 0]
  /\ changed = [s \in Sweep |-> {}]
  /\ upset = {}

-------------------------------------------------------------------------------
\* The rules: what reminder an appointment should have

\* (A bug: a row that is not to be sent keeps the moment it was for.)
DesiredWithMoment(open, p, o, t) ==
  LET at == p.start - o
  IN IF ~open THEN [state |-> "CANCELLED", at |-> at]
     ELSE IF at <= t \/ ~p.phone THEN [state |-> "SKIPPED", at |-> at]
     ELSE [state |-> "SCHEDULED", at |-> at]

\* resolveReminderTarget and toDesiredRow, for an appointment p judged at t.
Desired(open, p, o, t) ==
  LET at == p.start - o
  IN IF ~open THEN [state |-> "CANCELLED", at |-> NoTime]
     ELSE IF at <= t \/ ~p.phone THEN [state |-> "SKIPPED", at |-> NoTime]
     ELSE [state |-> "SCHEDULED", at |-> at]

\* FROZEN_REMINDER_STATES: the reconciliation leaves them alone.
Frozen == {"SENT", "FAILED", "SENDING"}

\* resolveReminderAction, when it is not NOOP.
Needs(stored, want) ==
  /\ stored.state \notin Frozen
  /\ <<stored.state, stored.at>> # <<want.state, want.at>>

\* (A bug: the status of the appointment is not looked at again.)
ValidIfThere(d, t) ==
  /\ d.start > t
  /\ Desired(TRUE, d, d.key[2], d.start - d.key[2] - 1) = [state |-> "SCHEDULED", at |-> d.at]
  /\ d.enabled

\* validateBeforeSending, up to the template: not started, and what corresponds, as
\* judged just before its moment, is still this reminder.  The credentials that send()
\* looks at next are part of enabled.
Valid(d, t) ==
  /\ d.start > t
  /\ Desired(d.life = "open", d, d.key[2], d.start - d.key[2] - 1) = [state |-> "SCHEDULED", at |-> d.at]
  /\ d.enabled

-------------------------------------------------------------------------------
\* The rows

As(want) == [state |-> want.state, at |-> want.at, since |-> NoTime]

\* An UPDATE by id: nothing happens to a row that is gone.
Updated(k, r) == IF row[k].state = "none" THEN row ELSE [row EXCEPT ![k] = r]

Cancelled == [state |-> "CANCELLED", at |-> NoTime, since |-> NoTime]

\* (A bug: off by one.)
StaleAfter(r, t) == r.state = "SENDING" /\ r.since < t - Timeout

IsStale(r, t) == r.state = "SENDING" /\ r.since <= t - Timeout

\* (A bug: what was interrupted is tried again.)
Retried(r) == [r EXCEPT !.state = "SCHEDULED", !.since = NoTime]

Interrupted(r) == [r EXCEPT !.state = "FAILED", !.since = NoTime]

-------------------------------------------------------------------------------
\* A run of the job, step by step

Step(s, next) == sweep' = [sweep EXCEPT ![s] = next]

\* The histories are of the runs in flight.
Forget(s) == changed' = IF sweep'[s] = idle THEN [changed EXCEPT ![s] = {}] ELSE changed

\* The stages up to the end of the reconciliation.
FirstStages == {"stale", "appointments", "orphans", "stored", "tenant", "writing", "due"}

\* What did not change in a step that only reads.
OnlyReads == UNCHANGED <<env, row, delivered, changed, upset>>

Start(s) ==
  /\ sweep[s].pc = "idle"
  /\ Step(s, [pc |-> "stale", now |-> now])
  /\ UNCHANGED <<env, row, delivered, changed, upset>>

FailStaleSending(s) ==
  /\ sweep[s].pc = "stale"
  /\ row' = [k \in Key |-> IF IsStale(row[k], sweep[s].now) THEN Interrupted(row[k]) ELSE row[k]]
  /\ Step(s, [pc |-> "appointments", now |-> sweep[s].now])
  /\ UNCHANGED <<env, delivered, changed, upset>>

\* reconcile: four queries, then its writes.
FindAppointmentsToReconcile(s) ==
  /\ sweep[s].pc = "appointments"
  /\ LET t == sweep[s].now
         open == {a \in Appt : appt[a].life = "open" /\ appt[a].start > t
                                 /\ appt[a].start <= t + Horizon}
     IN Step(s, [pc |-> "orphans", now |-> t,
                 open |-> {[id |-> a, start |-> appt[a].start, phone |-> appt[a].phone] : a \in open}])
  /\ OnlyReads

\* (A bug: the other half of the reconciliation is missing.)
NoOrphans == {}

\* The reminders still scheduled of appointments that are no longer active.
Orphans == {k \in Key : row[k].state = "SCHEDULED" /\ appt[k[1]].life = "closed"}

FindOrphanScheduled(s) ==
  /\ sweep[s].pc = "orphans"
  /\ Step(s, [pc |-> "stored", now |-> sweep[s].now, open |-> sweep[s].open, orphans |-> Orphans])
  /\ OnlyReads

FindByAppointmentIds(s) ==
  /\ sweep[s].pc = "stored"
  /\ LET ids == {p.id : p \in sweep[s].open}
     IN Step(s, [pc |-> "tenant", now |-> sweep[s].now, open |-> sweep[s].open,
                 orphans |-> sweep[s].orphans,
                 stored |-> [k \in Key |-> IF k[1] \in ids THEN row[k] ELSE NoRow]])
  /\ OnlyReads

\* What reconcile writes, once it knows the offsets of the business.
WritesFor(run, offsets, t) ==
  {w \in {[key |-> <<p.id, o>>, want |-> Desired(TRUE, p, o, t), how |-> "upsert"]
            : p \in run.open, o \in offsets} : Needs(run.stored[w.key], w.want)}
  \cup {[key |-> k, want |-> [state |-> "CANCELLED", at |-> NoTime], how |-> "update"]
          : k \in {j \in Key : run.stored[j].state = "SCHEDULED" /\ j[2] \notin offsets}}

\* The rest of the reconciliation, or the search for what is due when it is over.
Reconciling(t, writes, orphans) ==
  IF writes = {} /\ orphans = {} THEN [pc |-> "due", now |-> t]
  ELSE [pc |-> "writing", now |-> t, writes |-> writes, orphans |-> orphans]

LoadTenant(s) ==
  /\ sweep[s].pc = "tenant"
  /\ Step(s, Reconciling(sweep[s].now, WritesFor(sweep[s], setting.offsets, sweep[s].now),
                         sweep[s].orphans))
  /\ OnlyReads

\* One row of the first loops; the database gives the appointments in any order.  The
\* row of an appointment that has been deleted cannot be inserted: reconcile throws.
WriteRow(s) ==
  /\ sweep[s].pc = "writing"
  /\ \E w \in sweep[s].writes :
       IF w.how = "upsert" /\ appt[w.key[1]].life = "deleted"
         THEN /\ Step(s, [pc |-> "due", now |-> sweep[s].now])
              /\ upset' = upset \cup {s}
              /\ UNCHANGED row
         ELSE /\ Step(s, Reconciling(sweep[s].now, sweep[s].writes \ {w}, sweep[s].orphans))
              /\ row' = IF w.how = "upsert" THEN [row EXCEPT ![w.key] = As(w.want)]
                        ELSE Updated(w.key, As(w.want))
              /\ UNCHANGED upset
  /\ UNCHANGED <<env, delivered, changed>>

CancelOrphan(s) ==
  /\ sweep[s].pc = "writing" /\ sweep[s].writes = {}
  /\ \E k \in sweep[s].orphans :
       /\ Step(s, Reconciling(sweep[s].now, {}, sweep[s].orphans \ {k}))
       /\ row' = Updated(k, Cancelled)
  /\ UNCHANGED <<env, delivered, changed, upset>>

\* sendDue: the rows that are due, with their appointments as they are now.
FindDue(s) ==
  /\ sweep[s].pc = "due"
  /\ LET t == sweep[s].now
         due == {[key |-> k, at |-> row[k].at, life |-> appt[k[1]].life, start |-> appt[k[1]].start,
                  phone |-> appt[k[1]].phone, enabled |-> setting.enabled]
                   : k \in {j \in Key : row[j].state = "SCHEDULED" /\ row[j].at <= t}}
     IN Step(s, IF due = {} THEN idle ELSE [pc |-> "template", now |-> t, due |-> due])
  /\ Forget(s)
  /\ upset' = upset \ {s}
  /\ UNCHANGED <<env, row, delivered>>

\* The template is read once a run.
TemplateFor(s) ==
  /\ sweep[s].pc = "template"
  /\ Step(s, [pc |-> "sending", now |-> sweep[s].now, due |-> sweep[s].due,
              approved |-> setting.approved])
  /\ OnlyReads

\* The next reminder of the loop, by scheduledFor.
Upcoming(s) ==
  IF sweep[s].pc = "sending" THEN {d \in sweep[s].due : \A e \in sweep[s].due : d.at <= e.at}
  ELSE {}

Remaining(run, due) ==
  IF due = {} THEN idle
  ELSE [pc |-> "sending", now |-> run.now, due |-> due, approved |-> run.approved]

\* Blocked: cancelled for good, or left scheduled until Meta approves the template.
Block(s, d) ==
  /\ ~Valid(d, sweep[s].now)
  /\ row' = Updated(d.key, Cancelled)
  /\ Step(s, Remaining(sweep[s], sweep[s].due \ {d}))
  /\ Forget(s)
  /\ UNCHANGED <<env, delivered, upset>>

Postpone(s, d) ==
  /\ Valid(d, sweep[s].now) /\ ~sweep[s].approved
  /\ row' = Updated(d.key, As([state |-> "SCHEDULED", at |-> d.at]))
  /\ Step(s, Remaining(sweep[s], sweep[s].due \ {d}))
  /\ Forget(s)
  /\ UNCHANGED <<env, delivered, upset>>

\* claimForSending: the condition travels in the UPDATE.
Claim(s, d) ==
  /\ Valid(d, sweep[s].now) /\ sweep[s].approved
  /\ LET due == sweep[s].due \ {d}
     IN IF row[d.key].state = "SCHEDULED"
          THEN /\ row' = [row EXCEPT ![d.key].state = "SENDING", ![d.key].since = now]
               /\ Step(s, [pc |-> "calling", now |-> sweep[s].now, due |-> due,
                           approved |-> sweep[s].approved, key |-> d.key])
          ELSE Step(s, Remaining(sweep[s], due)) /\ UNCHANGED row
  /\ Forget(s)
  /\ UNCHANGED <<env, delivered, upset>>

\* The call to Meta.  An error does not tell that the message did not go out.
SendTemplate(s) ==
  /\ sweep[s].pc = "calling"
  /\ \E out \in BOOLEAN, answer \in {"arrived", "refused"} :
       /\ answer = "arrived" => out
       /\ delivered' = [delivered EXCEPT ![sweep[s].key] = IF out THEN @ + 1 ELSE @]
       /\ Step(s, [sweep[s] EXCEPT !.pc = answer])
  /\ UNCHANGED <<env, row, changed, upset>>

\* markSent, or markFailed.
Mark(s) ==
  /\ sweep[s].pc \in {"arrived", "refused"}
  /\ LET k == sweep[s].key
     IN row' = Updated(k, [state |-> IF sweep[s].pc = "arrived" THEN "SENT" ELSE "FAILED",
                           at |-> row[k].at, since |-> NoTime])
  /\ Step(s, Remaining(sweep[s], sweep[s].due))
  /\ Forget(s)
  /\ UNCHANGED <<env, delivered, upset>>

\* A query that fails ends the stage it belongs to; the next one runs all the same.
Throw(s) ==
  /\ sweep[s].pc \notin {"idle", "calling"}
  /\ Step(s, IF sweep[s].pc = "stale" THEN [pc |-> "appointments", now |-> sweep[s].now]
             ELSE IF sweep[s].pc \in {"appointments", "orphans", "stored", "tenant", "writing"}
               THEN [pc |-> "due", now |-> sweep[s].now]
             ELSE idle)
  /\ upset' = IF sweep'[s] = idle THEN upset \ {s} ELSE upset \cup {s}
  /\ Forget(s)
  /\ UNCHANGED <<env, row, delivered>>

Continue(s) ==
  \/ FailStaleSending(s)
  \/ FindAppointmentsToReconcile(s) \/ FindOrphanScheduled(s) \/ FindByAppointmentIds(s)
  \/ LoadTenant(s) \/ WriteRow(s) \/ CancelOrphan(s)
  \/ FindDue(s) \/ TemplateFor(s)
  \/ \E d \in Upcoming(s) : Block(s, d) \/ Postpone(s, d) \/ Claim(s, d)
  \/ SendTemplate(s) \/ Mark(s)

-------------------------------------------------------------------------------
\* Around the job: the agenda, the settings, the clock and the process

Changed(a) == changed' = [s \in Sweep |-> IF sweep[s] = idle THEN {} ELSE changed[s] \cup {a}]

Book(a) ==
  /\ appt[a].life = "unborn"
  /\ \E start \in Booked, phone \in Phone :
       appt' = [appt EXCEPT ![a] = [life |-> "open", start |-> start, phone |-> phone]]
  /\ Changed(a)
  /\ UNCHANGED <<setting, row, sweep, now, delivered, upset>>

Move(a) ==
  /\ appt[a].life = "open"
  /\ \E start \in Booked : appt' = [appt EXCEPT ![a].start = start]
  /\ Changed(a)
  /\ UNCHANGED <<setting, row, sweep, now, delivered, upset>>

\* Cancelled or attended; the panel may also open it again.
SetStatus(a) ==
  /\ appt[a].life \in {"open", "closed"}
  /\ appt' = [appt EXCEPT ![a].life = IF @ = "open" THEN "closed" ELSE "open"]
  /\ Changed(a)
  /\ UNCHANGED <<setting, row, sweep, now, delivered, upset>>

\* The reminders go with the appointment, in cascade.
Remove(a) ==
  /\ appt[a].life \in {"open", "closed"}
  /\ appt' = [appt EXCEPT ![a] = [life |-> "deleted", start |-> 0, phone |-> FALSE]]
  /\ row' = [k \in Key |-> IF k[1] = a THEN NoRow ELSE row[k]]
  /\ Changed(a)
  /\ UNCHANGED <<setting, sweep, now, delivered, upset>>

Configure ==
  /\ \E new \in Setting \ {setting} : setting' = new
  /\ upset' = {s \in Sweep : sweep[s].pc \in FirstStages}
  /\ UNCHANGED <<appt, row, sweep, now, delivered, changed>>

Tick ==
  /\ now < MaxTime
  /\ now' = now + 1
  /\ UNCHANGED <<appt, setting, row, sweep, delivered, changed, upset>>

Crash ==
  /\ \E s \in Sweep : sweep[s] # idle
  /\ sweep' = [s \in Sweep |-> idle]
  /\ changed' = [s \in Sweep |-> {}]
  /\ upset' = {}
  /\ UNCHANGED <<env, row, delivered>>

Next ==
  \/ \E s \in Sweep : Start(s) \/ Continue(s) \/ Throw(s)
  \/ \E a \in Appt : Book(a) \/ Move(a) \/ SetStatus(a) \/ Remove(a)
  \/ Configure \/ Tick \/ Crash

Spec == Init /\ [][Next]_vars

\* The clock runs, the cron starts a run, and the event loop carries it on; a query
\* tried for ever does not fail, and the process does not die, every time.
FairSpec ==
  /\ Spec
  /\ WF_vars(Tick)
  /\ \A s \in Sweep : WF_vars(Start(s)) /\ WF_vars(Continue(s)) /\ SF_vars(FailStaleSending(s))

-------------------------------------------------------------------------------
\* Properties

\* The columns hold what their comments say: a moment only in the rows that wait for
\* one or had one.
TypeOK ==
  /\ appt \in [Appt -> Appointment]
  /\ setting \in Setting
  /\ row \in [Key -> Row]
  /\ sweep \in [Sweep -> Run]
  /\ now \in Time
  /\ delivered \in [Key -> Nat]
  /\ changed \in [Sweep -> SUBSET Appt]
  /\ upset \in SUBSET Sweep

\* "Un recordatorio enviado no se vuelve a enviar": not after a crash between the call
\* and the mark, nor when the answer was lost, nor when the appointment moves later.
NeverTwice == \A k \in Key : delivered[k] <= 1

\* What reaches a customer is true: unless somebody has written the appointment since
\* the run began, it is open, has not started, and this is the moment it was due for,
\* whichever stages of the run failed.
TellsTheTruth ==
  [][\A k \in Key : delivered'[k] > delivered[k] =>
       \E s \in Sweep :
         /\ sweep[s].pc = "calling" /\ sweep[s].key = k
         /\ k[1] \notin changed[s] =>
              /\ appt[k[1]].life = "open"
              /\ appt[k[1]].start > sweep[s].now
              /\ row[k].at = appt[k[1]].start - k[2] /\ row[k].at <= sweep[s].now]_vars

\* No row stays in SENDING when the process died or could not write the outcome.
\* (The clock of the model stops: a row claimed too near its end never gets old.)
SendingEnds ==
  \A k \in Key : (row[k].state = "SENDING" /\ row[k].since <= MaxTime - Timeout)
                   ~> row[k].state # "SENDING"

\* What reconcile answers for: "un cambio de horario o una cancelacion convergen
\* porque la respuesta cambia".  When a run gets to its second stage, and neither a query
\* failed nor the settings changed under it, each row of an appointment that nobody
\* wrote meanwhile is what corresponds, or is out of the reconciliation's hands.
InHorizon(p, t) == p.life = "open" /\ t < p.start /\ p.start <= t + Horizon

Corresponds(k, t) ==
  LET p == appt[k[1]]
  IN \/ row[k].state \in Frozen
     \/ InHorizon(p, t) /\ k[2] \in setting.offsets /\ row[k] = As(Desired(TRUE, p, k[2], t))
     \/ InHorizon(p, t) /\ k[2] \notin setting.offsets /\ row[k].state # "SCHEDULED"
     \/ p.life = "closed" /\ row[k].state # "SCHEDULED"
     \/ p.life \in {"unborn", "deleted"} /\ row[k].state = "none"
     \/ p.life = "open" /\ ~InHorizon(p, t)

Reconciled ==
  \A s \in Sweep : sweep[s].pc = "due" /\ s \notin upset =>
    \A k \in Key : k[1] \notin changed[s] => Corresponds(k, sweep[s].now)

\* "Ahi el momento ya paso por definicion, asi que juzgarlo desde ahora lo descartaria
\* siempre" (targetFor): a reminder that is due, and could be sent, is not discarded
\* because its moment has come.
InOrder(k) ==
  /\ appt[k[1]].life = "open" /\ appt[k[1]].phone /\ appt[k[1]].start > now
  /\ row[k].at = appt[k[1]].start - k[2]
  /\ setting.enabled /\ setting.approved /\ k[2] \in setting.offsets

DueIsNotSkipped ==
  [][\A k \in Key : row[k].state = "SCHEDULED" /\ row[k].at <= now /\ InOrder(k)
                      => row'[k].state # "SKIPPED"]_vars
-------------------------------------------------------------------------------
\* The inductive invariant of NeverTwice, for runs that do not overlap

OneRunAtATime == \A s, t \in Sweep : s = t

\* The foreign key of a row.
ForeignKey == \A k \in Key : row[k].state # "none" => appt[k[1]].life \in {"open", "closed"}

\* What a run has read or is about to write was there when it looked.
Born ==
  \A s \in Sweep :
    /\ sweep[s].pc \in {"orphans", "stored", "tenant"} =>
         \A p \in sweep[s].open : appt[p.id].life # "unborn"
    /\ sweep[s].pc = "tenant" =>
         \A k \in Key : sweep[s].stored[k].state # "none" => appt[k[1]].life # "unborn"
    /\ sweep[s].pc = "writing" => \A w \in sweep[s].writes : appt[w.key[1]].life # "unborn"

\* A reminder nobody will send again.
Closed(k) == row[k].state \in Frozen \/ appt[k[1]].life = "deleted"

Accounted == \A k \in Key : delivered[k] > 0 => Closed(k)

Sends == {"calling", "arrived", "refused"}
Looping == Sends \cup {"template", "sending"}

\* The reminder in the hands of a run is its own, and has not been sent before.
Claimed ==
  \A s \in Sweep : sweep[s].pc \in Sends =>
    /\ Closed(sweep[s].key)
    /\ sweep[s].pc = "calling" => delivered[sweep[s].key] = 0
    /\ \A d \in sweep[s].due : d.key # sweep[s].key

OneEach ==
  \A s \in Sweep : sweep[s].pc \in Looping => \A d, e \in sweep[s].due : d.key = e.key => d = e

\* The rows a run may still write without looking at them again.
Pending(run, k) ==
  \/ run.pc \in {"stored", "tenant", "writing"} /\ k \in run.orphans
  \/ run.pc = "tenant" /\ run.stored[k].state = "SCHEDULED"
  \/ run.pc = "tenant" /\ run.stored[k].state \notin Frozen /\ \E p \in run.open : p.id = k[1]
  \/ run.pc = "writing" /\ \E w \in run.writes : w.key = k
  \/ run.pc \in Looping /\ \E d \in run.due : d.key = k

NotYetFrozen == \A s \in Sweep, k \in Key : Pending(sweep[s], k) => row[k].state \notin Frozen

RemindersInv ==
  TypeOK /\ ForeignKey /\ Born /\ Accounted /\ Claimed /\ OneEach /\ NotYetFrozen /\ NeverTwice
-------------------------------------------------------------------------------
\* The inductive invariant of Reconciled: what a run knows, stage by stage, of the
\* appointments that nobody has written since it began

\* The open appointments of the horizon, as they are ...
KnowsOpen(s) ==
  sweep[s].pc \in {"orphans", "stored", "tenant"} =>
    /\ \A p \in sweep[s].open : p.id \notin changed[s] =>
         /\ InHorizon(appt[p.id], sweep[s].now)
         /\ p.start = appt[p.id].start /\ p.phone = appt[p.id].phone
    /\ \A a \in Appt \ changed[s] : InHorizon(appt[a], sweep[s].now) => \E p \in sweep[s].open : p.id = a

\* ... the reminders still scheduled of those that closed ...
KnowsOrphans(s) ==
  sweep[s].pc \in {"stored", "tenant", "writing"} /\ s \notin upset =>
    \A k \in Key : k[1] \notin changed[s] =>
      /\ appt[k[1]].life = "closed" /\ row[k].state = "SCHEDULED" => k \in sweep[s].orphans
      /\ k \in sweep[s].orphans => appt[k[1]].life = "closed"

\* ... their rows ...
KnowsRows(s) ==
  sweep[s].pc = "tenant" =>
    \A k \in Key :
      IF \E p \in sweep[s].open : p.id = k[1] THEN k[1] \notin changed[s] => sweep[s].stored[k] = row[k]
      ELSE sweep[s].stored[k] = NoRow

\* ... and what is left to write: each row corresponds, or its write is on the list, and
\* what is on the list corresponds.
Rightly(w, k, t) ==
  /\ InHorizon(appt[k[1]], t)
  /\ w.how = "upsert" => k[2] \in setting.offsets /\ w.want = Desired(TRUE, appt[k[1]], k[2], t)
  /\ w.how = "update" => k[2] \notin setting.offsets /\ w.want.state = "CANCELLED"

Converging(s) ==
  sweep[s].pc = "writing" /\ s \notin upset =>
    \A k \in Key : k[1] \notin changed[s] =>
      /\ Corresponds(k, sweep[s].now) \/ (\E w \in sweep[s].writes : w.key = k) \/ k \in sweep[s].orphans
      /\ \A w \in sweep[s].writes : w.key = k => Rightly(w, k, sweep[s].now)

ReconciledInv ==
  Reconciled /\ \A s \in Sweep : KnowsOpen(s) /\ KnowsOrphans(s) /\ KnowsRows(s) /\ Converging(s)

\* The inductive invariant of TellsTheTruth: what is due is what was read, and what is being
\* sent was found true.
TruthInv ==
  \A s \in Sweep :
    /\ sweep[s].pc \in Looping =>
         \A d \in sweep[s].due :
           /\ d.at <= sweep[s].now
           /\ row[d.key].state = "SCHEDULED" => row[d.key].at = d.at
           /\ d.key[1] \notin changed[s] => d.life = appt[d.key[1]].life /\ d.start = appt[d.key[1]].start
    /\ sweep[s].pc = "calling" =>
         LET k == sweep[s].key
         IN k[1] \notin changed[s] =>
              /\ appt[k[1]].life = "open" /\ appt[k[1]].start > sweep[s].now
              /\ row[k].at = appt[k[1]].start - k[2] /\ row[k].at <= sweep[s].now
===============================================================================

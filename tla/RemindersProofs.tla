---------------------------- MODULE RemindersProofs ----------------------------
\* Proofs about Reminders, for any appointments, settings and bounds, while runs of
\* the job do not overlap.
EXTENDS Reminders, TLAPS

-------------------------------------------------------------------------------
\* What is in memory and in the table

\* What a run holds, by the stage it is at.
LEMMA RunFields ==
  ASSUME NEW r \in Run
  PROVE  /\ r.pc = "idle" => r = idle
         /\ r.pc \in {"stale", "appointments", "due"} => r.now \in Time
         /\ r.pc = "orphans" => r.now \in Time /\ r.open \in SUBSET Seen
         /\ r.pc = "stored" => r.now \in Time /\ r.open \in SUBSET Seen /\ r.orphans \in SUBSET Key
         /\ r.pc = "tenant" => /\ r.now \in Time /\ r.open \in SUBSET Seen
                               /\ r.orphans \in SUBSET Key /\ r.stored \in [Key -> Row]
         /\ r.pc = "writing" => /\ r.now \in Time /\ r.writes \in SUBSET Write
                                /\ r.orphans \in SUBSET Key
         /\ r.pc = "template" => r.now \in Time /\ r.due \in SUBSET Due
         /\ r.pc = "sending" => r.now \in Time /\ r.due \in SUBSET Due /\ r.approved \in BOOLEAN
         /\ r.pc \in Sends => /\ r.now \in Time /\ r.due \in SUBSET Due /\ r.approved \in BOOLEAN
                              /\ r.key \in Key
         /\ r.pc \in {"idle", "stale", "appointments", "orphans", "stored", "tenant", "writing",
                      "due", "template", "sending", "calling", "arrived", "refused"}
BY DEF Run, Sends, idle

\* A row, by its state.
LEMMA RowFields ==
  ASSUME NEW r \in Row
  PROVE  /\ r = [state |-> r.state, at |-> r.at, since |-> r.since]
         /\ r.state \in {"none", "CANCELLED", "SKIPPED", "SCHEDULED", "SENT", "FAILED", "SENDING"}
         /\ r.state \in {"SCHEDULED", "SENT", "FAILED", "SENDING"} => r.at \in Time
         /\ r.state \in {"none", "CANCELLED", "SKIPPED"} => r.at = NoTime
         /\ r.state = "SENDING" => r.since \in Time
         /\ r.state # "SENDING" => r.since = NoTime
BY DEF Row

\* What corresponds to an appointment is something a row can say.
LEMMA DesiredTyped ==
  ASSUME NEW open \in BOOLEAN, NEW p \in Seen, NEW o \in Offset, NEW t \in Time
  PROVE  Desired(open, p, o, t) \in Desire
<1> DEFINE at == p.start - o
<1>1. p.start \in Time /\ p.phone \in BOOLEAN
  BY DEF Seen
<1>2. ASSUME ~(at <= t) PROVE at \in Time
  BY <1>1, <1>2, NumberAssumption DEF Time
<1> HIDE DEF at
<1> QED BY <1>1, <1>2 DEF Desired, Desire, at

\* What the reconciliation and the sending write is a row.
LEMMA AsTyped ==
  /\ \A want \in Desire : As(want) \in Row
  /\ Cancelled \in Row /\ NoRow \in Row
BY DEF As, Desire, Row, Cancelled, NoRow

\* An interrupted sending is a failed one, with its moment.
LEMMA InterruptedTyped ==
  ASSUME NEW r \in Row, r.state = "SENDING"
  PROVE  Interrupted(r) \in Row /\ Interrupted(r).state = "FAILED"
<1>1. r \in [state : {"SENDING"}, at : Time, since : Time]
  BY DEF Row
<1> QED BY <1>1 DEF Interrupted, Row

\* An UPDATE by id keeps the table typed, and inserts nothing.
LEMMA UpdatedTyped ==
  ASSUME row \in [Key -> Row], NEW k \in Key, NEW r
  PROVE  /\ r \in Row => Updated(k, r) \in [Key -> Row]
         /\ row[k].state = "none" => Updated(k, r) = row
         /\ row[k].state # "none" => Updated(k, r) = [row EXCEPT ![k] = r]
BY DEF Updated

\* A run goes on with its loops, or to the search for what is due.
LEMMA ReconcilingTyped ==
  ASSUME NEW t \in Time, NEW writes \in SUBSET Write, NEW orphans \in SUBSET Key
  PROVE  Reconciling(t, writes, orphans) \in Run
BY DEF Reconciling, Run

\* A run goes on with its next reminder, or ends.
LEMMA RemainingTyped ==
  ASSUME NEW run \in Run, run.pc \in {"sending"} \cup Sends, NEW due \in SUBSET run.due
  PROVE  Remaining(run, due) \in Run
<1>1. run.now \in Time /\ run.due \in SUBSET Due /\ run.approved \in BOOLEAN
  BY RunFields
<1>2. due \in SUBSET Due
  BY <1>1
<1> QED BY <1>1, <1>2 DEF Remaining, Run, idle

\* What reconcile decides to write, by the loop that writes it.
Decided(run, offsets, t, w) ==
  \/ \E p \in run.open, o \in offsets :
       /\ w = [key |-> <<p.id, o>>, want |-> Desired(TRUE, p, o, t), how |-> "upsert"]
       /\ run.stored[<<p.id, o>>].state \notin Frozen
  \/ \E k \in Key :
       /\ w = [key |-> k, want |-> [state |-> "CANCELLED", at |-> NoTime], how |-> "update"]
       /\ run.stored[k].state = "SCHEDULED" /\ k[2] \notin offsets

\* Each write of the reconciliation comes from one of its two loops.
LEMMA WritesForCases ==
  ASSUME NEW run, NEW offsets, NEW t, NEW w \in WritesFor(run, offsets, t)
  PROVE  Decided(run, offsets, t, w)
<1> DEFINE upsert(p, o) == [key |-> <<p.id, o>>, want |-> Desired(TRUE, p, o, t), how |-> "upsert"]
           update(k) == [key |-> k, want |-> [state |-> "CANCELLED", at |-> NoTime], how |-> "update"]
<1>1. \A p, o : upsert(p, o).key = <<p.id, o>>
  OBVIOUS
<1>2. WritesFor(run, offsets, t) =
        {x \in {upsert(p, o) : p \in run.open, o \in offsets} : Needs(run.stored[x.key], x.want)}
        \cup {update(k) : k \in {j \in Key : run.stored[j].state = "SCHEDULED" /\ j[2] \notin offsets}}
  BY DEF WritesFor
<1>3. ASSUME NEW p \in run.open, NEW o \in offsets, w = upsert(p, o), Needs(run.stored[w.key], w.want)
      PROVE  run.stored[<<p.id, o>>].state \notin Frozen
  BY <1>1, <1>3 DEF Needs
<1> HIDE DEF upsert, update
<1>4. \/ \E p \in run.open, o \in offsets : w = upsert(p, o) /\ Needs(run.stored[w.key], w.want)
      \/ \E k \in Key : w = update(k) /\ run.stored[k].state = "SCHEDULED" /\ k[2] \notin offsets
  BY <1>2
<1>5. \/ \E p \in run.open, o \in offsets : w = upsert(p, o) /\ run.stored[<<p.id, o>>].state \notin Frozen
      \/ \E k \in Key : w = update(k) /\ run.stored[k].state = "SCHEDULED" /\ k[2] \notin offsets
  BY <1>3, <1>4
<1> QED BY <1>5 DEF upsert, update, Decided

\* The rows those writes are for.
LEMMA WritesForKeys ==
  ASSUME NEW run, NEW offsets, NEW t, NEW w \in WritesFor(run, offsets, t)
  PROVE  \/ \E p \in run.open, o \in offsets :
              w.key = <<p.id, o>> /\ run.stored[<<p.id, o>>].state \notin Frozen
         \/ \E j \in Key : w.key = j /\ run.stored[j].state = "SCHEDULED"
<1>1. Decided(run, offsets, t, w)
  BY WritesForCases
<1>2. ASSUME NEW p \in run.open, NEW o \in offsets,
             w = [key |-> <<p.id, o>>, want |-> Desired(TRUE, p, o, t), how |-> "upsert"]
      PROVE  w.key = <<p.id, o>>
  BY <1>2
<1>3. ASSUME NEW k \in Key,
             w = [key |-> k, want |-> [state |-> "CANCELLED", at |-> NoTime], how |-> "update"]
      PROVE  w.key = k
  BY <1>3
<1> QED BY <1>1, <1>2, <1>3 DEF Decided

-------------------------------------------------------------------------------
\* Type correctness

\* The empty table and the idle job have the types of the columns.
THEOREM TypeInit == Init => TypeOK
BY NumberAssumption DEF Init, TypeOK, Appointment, Row, NoRow, Run, idle, Time

\* One step of a run takes it to a stage with what that stage needs.
LEMMA RunTyped ==
  ASSUME TypeOK, ForeignKey, NEW s \in Sweep, Start(s) \/ Continue(s) \/ Throw(s)
  PROVE  sweep' \in [Sweep -> Run]
<1> USE DEF TypeOK, Step
<1> DEFINE run == sweep[s]
<1>0. run \in Run
  OBVIOUS
<1> SUFFICES \E next \in Run : sweep' = [sweep EXCEPT ![s] = next]
  OBVIOUS
<1>1. CASE Start(s)
  BY <1>1 DEF Start, Run
<1>2. CASE FailStaleSending(s)
  BY <1>0, <1>2, RunFields DEF FailStaleSending, Run
<1>3. CASE FindAppointmentsToReconcile(s)
  <2>1. run.now \in Time
    BY <1>0, <1>3, RunFields DEF FindAppointmentsToReconcile
  <2>2. \A a \in Appt : [id |-> a, start |-> appt[a].start, phone |-> appt[a].phone] \in Seen
    BY DEF Appointment, Seen
  <2> DEFINE open == {a \in Appt : appt[a].life = "open" /\ appt[a].start > run.now
                                     /\ appt[a].start <= run.now + Horizon}
             seen == {[id |-> a, start |-> appt[a].start, phone |-> appt[a].phone] : a \in open}
  <2>3. seen \in SUBSET Seen
    BY <2>2
  <2>4. sweep' = [sweep EXCEPT ![s] = [pc |-> "orphans", now |-> run.now, open |-> seen]]
    BY <1>3 DEF FindAppointmentsToReconcile
  <2> HIDE DEF seen
  <2> QED BY <2>1, <2>3, <2>4 DEF Run
<1>4. CASE FindOrphanScheduled(s)
  <2>1. run.now \in Time /\ run.open \in SUBSET Seen
    BY <1>0, <1>4, RunFields DEF FindOrphanScheduled
  <2>2. Orphans \in SUBSET Key
    BY DEF Orphans
  <2> QED BY <1>4, <2>1, <2>2 DEF FindOrphanScheduled, Run
<1>5. CASE FindByAppointmentIds(s)
  <2> DEFINE stored == [k \in Key |-> IF k[1] \in {p.id : p \in run.open} THEN row[k] ELSE NoRow]
             next == [pc |-> "tenant", now |-> run.now, open |-> run.open,
                      orphans |-> run.orphans, stored |-> stored]
  <2>1. run.now \in Time /\ run.open \in SUBSET Seen /\ run.orphans \in SUBSET Key
    BY <1>0, <1>5, RunFields DEF FindByAppointmentIds
  <2>2. stored \in [Key -> Row]
    BY AsTyped
  <2>3. sweep' = [sweep EXCEPT ![s] = next]
    BY <1>5 DEF FindByAppointmentIds
  <2> HIDE DEF stored
  <2>4. next \in Run
    BY <2>1, <2>2 DEF Run
  <2> QED BY <2>3, <2>4
<1>6. CASE LoadTenant(s)
  <2>1. /\ run.now \in Time /\ run.open \in SUBSET Seen
        /\ run.orphans \in SUBSET Key /\ run.stored \in [Key -> Row]
    BY <1>0, <1>6, RunFields DEF LoadTenant
  <2>2. setting.offsets \in SUBSET Offset
    BY SettingAssumption
  <2>3. \A p \in run.open, o \in setting.offsets : <<p.id, o>> \in Key
    BY <2>1, <2>2 DEF Seen, Key
  <2>4. \A p \in run.open, o \in setting.offsets : Desired(TRUE, p, o, run.now) \in Desire
    BY <2>1, <2>2, DesiredTyped
  <2>5. [state |-> "CANCELLED", at |-> NoTime] \in Desire
    BY DEF Desire
  <2>6. WritesFor(run, setting.offsets, run.now) \in SUBSET Write
    <3> SUFFICES ASSUME NEW w \in WritesFor(run, setting.offsets, run.now) PROVE w \in Write
      OBVIOUS
    <3>1. ASSUME NEW p \in run.open, NEW o \in setting.offsets
          PROVE  [key |-> <<p.id, o>>, want |-> Desired(TRUE, p, o, run.now), how |-> "upsert"] \in Write
      BY <2>3, <2>4 DEF Write
    <3>2. ASSUME NEW k \in Key
          PROVE  [key |-> k, want |-> [state |-> "CANCELLED", at |-> NoTime], how |-> "update"] \in Write
      BY <2>5 DEF Write
    <3>3. Decided(run, setting.offsets, run.now, w)
      BY WritesForCases
    <3> QED BY <3>1, <3>2, <3>3 DEF Decided
  <2> QED BY <1>6, <2>1, <2>6, ReconcilingTyped DEF LoadTenant
<1>7. CASE WriteRow(s)
  <2>1. run.now \in Time /\ run.writes \in SUBSET Write /\ run.orphans \in SUBSET Key
    BY <1>0, <1>7, RunFields DEF WriteRow
  <2>2. [pc |-> "due", now |-> run.now] \in Run
    BY <2>1 DEF Run
  <2>3. \A w \in run.writes : Reconciling(run.now, run.writes \ {w}, run.orphans) \in Run
    BY <2>1, ReconcilingTyped
  <2> QED BY <1>7, <2>2, <2>3 DEF WriteRow
<1>8. CASE CancelOrphan(s)
  <2>1. run.now \in Time /\ run.orphans \in SUBSET Key
    BY <1>0, <1>8, RunFields DEF CancelOrphan
  <2>2. \A k \in run.orphans : Reconciling(run.now, {}, run.orphans \ {k}) \in Run
    BY <2>1, ReconcilingTyped
  <2> QED BY <1>8, <2>2 DEF CancelOrphan
<1>9. CASE FindDue(s)
  <2> DEFINE found(k) == [key |-> k, at |-> row[k].at, life |-> appt[k[1]].life,
                          start |-> appt[k[1]].start, phone |-> appt[k[1]].phone,
                          enabled |-> setting.enabled]
             due == {found(k) : k \in {j \in Key : row[j].state = "SCHEDULED" /\ row[j].at <= run.now}}
  <2>1. run.now \in Time
    BY <1>0, <1>9, RunFields DEF FindDue
  <2>2. ASSUME NEW k \in Key, row[k].state = "SCHEDULED" PROVE found(k) \in Due
    <3>1. row[k].at \in Time
      BY <2>2, RowFields
    <3>2. appt[k[1]].life \in {"open", "closed"} /\ appt[k[1]] \in Appointment
      BY <2>2 DEF ForeignKey, Key
    <3>3. setting.enabled \in BOOLEAN
      BY SettingAssumption
    <3> QED BY <3>1, <3>2, <3>3 DEF Due, Appointment
  <2>3. due \in SUBSET Due
    BY <2>2
  <2>4. sweep' = [sweep EXCEPT ![s] = IF due = {} THEN idle
                                      ELSE [pc |-> "template", now |-> run.now, due |-> due]]
    BY <1>9 DEF FindDue
  <2> HIDE DEF due
  <2> QED BY <2>1, <2>3, <2>4 DEF Run, idle
<1>10. CASE TemplateFor(s)
  <2>1. run.now \in Time /\ run.due \in SUBSET Due
    BY <1>0, <1>10, RunFields DEF TemplateFor
  <2>2. setting.approved \in BOOLEAN
    BY SettingAssumption
  <2> QED BY <1>10, <2>1, <2>2 DEF TemplateFor, Run
<1>11. ASSUME NEW d \in Upcoming(s), Block(s, d) \/ Postpone(s, d)
       PROVE  \E next \in Run : sweep' = [sweep EXCEPT ![s] = next]
  <2>1. run.pc = "sending"
    BY <1>11 DEF Upcoming
  <2>2. Remaining(run, run.due \ {d}) \in Run
    BY <1>0, <2>1, RemainingTyped
  <2> QED BY <1>11, <2>2 DEF Block, Postpone
<1>12. ASSUME NEW d \in Upcoming(s), Claim(s, d)
       PROVE  \E next \in Run : sweep' = [sweep EXCEPT ![s] = next]
  <2> DEFINE calling == [pc |-> "calling", now |-> run.now, due |-> run.due \ {d},
                         approved |-> run.approved, key |-> d.key]
  <2>1. run.pc = "sending" /\ d \in run.due
    BY <1>12 DEF Upcoming
  <2>2. Remaining(run, run.due \ {d}) \in Run
    BY <1>0, <2>1, RemainingTyped
  <2>3. calling \in Run
    BY <1>0, <2>1, RunFields DEF Run, Due
  <2>4. \/ sweep' = [sweep EXCEPT ![s] = calling]
        \/ sweep' = [sweep EXCEPT ![s] = Remaining(run, run.due \ {d})]
    BY <1>12 DEF Claim
  <2> QED BY <2>2, <2>3, <2>4
<1>13. CASE SendTemplate(s)
  <2>1. run.pc = "calling"
    BY <1>13 DEF SendTemplate
  <2>2. ASSUME NEW answer \in {"arrived", "refused"} PROVE [run EXCEPT !.pc = answer] \in Run
    BY <1>0, <2>1, <2>2 DEF Run
  <2> QED BY <1>13, <2>2 DEF SendTemplate
<1>14. CASE Mark(s)
  <2>1. Remaining(run, run.due) \in Run
    BY <1>0, <1>14, RemainingTyped DEF Mark, Sends
  <2> QED BY <1>14, <2>1 DEF Mark
<1>15. CASE Throw(s)
  <2>1. run.pc \in {"stale", "appointments", "orphans", "stored", "tenant", "writing"}
        => run.now \in Time
    BY <1>0, RunFields
  <2> QED BY <1>15, <2>1 DEF Throw, Run, idle
<1> QED BY <1>1, <1>2, <1>3, <1>4, <1>5, <1>6, <1>7, <1>8, <1>9, <1>10, <1>11, <1>12, <1>13,
           <1>14, <1>15 DEF Continue

\* One step of a run leaves rows in the table.
LEMMA RowsTyped ==
  ASSUME TypeOK, ForeignKey, Claimed, NEW s \in Sweep, Start(s) \/ Continue(s) \/ Throw(s)
  PROVE  row' \in [Key -> Row]
<1> USE DEF TypeOK
<1> DEFINE run == sweep[s]
<1>0. run \in Run
  OBVIOUS
<1>1. CASE Start(s) \/ FindAppointmentsToReconcile(s) \/ FindOrphanScheduled(s)
           \/ FindByAppointmentIds(s) \/ LoadTenant(s) \/ FindDue(s) \/ TemplateFor(s)
           \/ SendTemplate(s) \/ Throw(s)
  BY <1>1 DEF Start, FindAppointmentsToReconcile, FindOrphanScheduled, FindByAppointmentIds,
              LoadTenant, FindDue, TemplateFor, SendTemplate, Throw, OnlyReads
<1>2. CASE FailStaleSending(s)
  <2>1. ASSUME NEW k \in Key, row[k].state = "SENDING" PROVE Interrupted(row[k]) \in Row
    BY <2>1, InterruptedTyped
  <2> QED BY <1>2, <2>1 DEF FailStaleSending, IsStale
<1>3. CASE WriteRow(s)
  <2>1. run.writes \in SUBSET Write
    BY <1>0, <1>3, RunFields DEF WriteRow
  <2>2. PICK w \in run.writes : \/ row' = row
                                \/ row' = [row EXCEPT ![w.key] = As(w.want)]
                                \/ row' = Updated(w.key, As(w.want))
    BY <1>3 DEF WriteRow
  <2>3. w.key \in Key /\ As(w.want) \in Row
    BY <2>1, AsTyped DEF Write
  <2> QED BY <2>2, <2>3, UpdatedTyped
<1>4. CASE CancelOrphan(s)
  <2>1. run.orphans \in SUBSET Key
    BY <1>0, <1>4, RunFields DEF CancelOrphan
  <2> QED BY <1>4, <2>1, AsTyped, UpdatedTyped DEF CancelOrphan
<1>5. ASSUME NEW d \in Upcoming(s), Block(s, d) \/ Postpone(s, d) \/ Claim(s, d)
      PROVE  row' \in [Key -> Row]
  <2>1. d \in Due
    BY <1>0, RunFields DEF Upcoming
  <2>2. d.key \in Key /\ d.at \in Time
    BY <2>1 DEF Due
  <2>3. CASE Block(s, d)
    BY <2>2, <2>3, AsTyped, UpdatedTyped DEF Block
  <2>4. CASE Postpone(s, d)
    <3>1. As([state |-> "SCHEDULED", at |-> d.at]) \in Row
      BY <2>2 DEF As, Row
    <3> QED BY <2>2, <2>4, <3>1, UpdatedTyped DEF Postpone
  <2>5. CASE Claim(s, d)
    <3>1. CASE row[d.key].state = "SCHEDULED"
      <4>1. row[d.key].at \in Time /\ row[d.key] = [state |-> "SCHEDULED", at |-> row[d.key].at, since |-> row[d.key].since]
        BY <2>2, <3>1, RowFields
      <4>2. row' = [row EXCEPT ![d.key] = [state |-> "SENDING", at |-> row[d.key].at, since |-> now]]
        BY <2>2, <2>5, <3>1, <4>1 DEF Claim
      <4>3. [state |-> "SENDING", at |-> row[d.key].at, since |-> now] \in Row
        BY <4>1 DEF Row
      <4> QED BY <4>2, <4>3
    <3>2. CASE row[d.key].state # "SCHEDULED"
      BY <2>5, <3>2 DEF Claim
    <3> QED BY <3>1, <3>2
  <2> QED BY <1>5, <2>3, <2>4, <2>5
<1>6. CASE Mark(s)
  <2> DEFINE k == run.key
             marked == [state |-> IF run.pc = "arrived" THEN "SENT" ELSE "FAILED",
                        at |-> row[k].at, since |-> NoTime]
  <2>1. k \in Key /\ run.pc \in Sends
    BY <1>0, <1>6, RunFields DEF Mark, Sends
  <2>2. row' = Updated(k, marked)
    BY <1>6 DEF Mark
  <2>3. CASE row[k].state \in Frozen
    <3>1. marked \in Row
      BY <2>1, <2>3, RowFields DEF Frozen, Row
    <3> QED BY <2>1, <2>2, <3>1, UpdatedTyped
  <2>4. CASE row[k].state \notin Frozen
    <3>1. appt[k[1]].life = "deleted"
      BY <2>1, <2>4 DEF Claimed, Closed
    <3>2. row[k].state = "none"
      BY <2>1, <3>1 DEF ForeignKey
    <3> QED BY <2>1, <2>2, <3>2, UpdatedTyped
  <2> QED BY <2>3, <2>4
<1> QED BY <1>1, <1>2, <1>3, <1>4, <1>5, <1>6 DEF Continue

\* A step of a run leaves the agenda, the settings and the clock alone.
LEMMA RunLeavesAlone ==
  ASSUME NEW s \in Sweep, Start(s) \/ Continue(s) \/ Throw(s)
  PROVE  UNCHANGED env
BY DEF Start, Continue, Throw, FailStaleSending, FindAppointmentsToReconcile, FindOrphanScheduled,
       FindByAppointmentIds, LoadTenant, WriteRow, CancelOrphan, FindDue, TemplateFor, Block,
       Postpone, Claim, SendTemplate, Mark, OnlyReads

\* No query of a run, and nothing around it, writes a value its column cannot hold.
THEOREM TypeNext == TypeOK /\ ForeignKey /\ Claimed /\ [Next]_vars => TypeOK'
<1> SUFFICES ASSUME TypeOK, ForeignKey, Claimed, [Next]_vars PROVE TypeOK'
  OBVIOUS
<1> USE DEF TypeOK
<1>1. ASSUME NEW s \in Sweep, Start(s) \/ Continue(s) \/ Throw(s) PROVE TypeOK'
  <2>1. row' \in [Key -> Row] /\ sweep' \in [Sweep -> Run]
    BY <1>1, RowsTyped, RunTyped
  <2>2. UNCHANGED env
    BY <1>1, RunLeavesAlone
  <2>3. changed' \in [Sweep -> SUBSET Appt] /\ upset' \in SUBSET Sweep
    BY <1>1 DEF Start, Continue, Throw, FailStaleSending, FindAppointmentsToReconcile,
                FindOrphanScheduled, FindByAppointmentIds, LoadTenant, WriteRow, CancelOrphan,
                FindDue, TemplateFor, Block, Postpone, Claim, SendTemplate, Mark, OnlyReads, Forget
  <2>4. delivered' \in [Key -> Nat]
    <3>1. CASE SendTemplate(s)
      <4>1. sweep[s].key \in Key
        BY <3>1, RunFields DEF SendTemplate, Sends
      <4> QED BY <3>1, <4>1 DEF SendTemplate
    <3>2. CASE ~SendTemplate(s)
      BY <1>1, <3>2 DEF Start, Continue, Throw, FailStaleSending, FindAppointmentsToReconcile,
                FindOrphanScheduled, FindByAppointmentIds, LoadTenant, WriteRow, CancelOrphan,
                FindDue, TemplateFor, Block, Postpone, Claim, Mark, OnlyReads
    <3> QED BY <3>1, <3>2
  <2> QED BY <2>1, <2>2, <2>3, <2>4 DEF env
<1>2. ASSUME NEW a \in Appt, Book(a) \/ Move(a) \/ SetStatus(a) \/ Remove(a) PROVE TypeOK'
  <2>1. changed' \in [Sweep -> SUBSET Appt]
    BY <1>2 DEF Book, Move, SetStatus, Remove, Changed
  <2>2. appt' \in [Appt -> Appointment]
    <3>1. appt[a] \in Appointment /\ Booked \subseteq Time /\ 0 \in Time
      BY NumberAssumption DEF Time
    <3>2. CASE Book(a)
      BY <3>1, <3>2, NumberAssumption DEF Book, Appointment
    <3>3. CASE Move(a)
      BY <3>1, <3>3 DEF Move, Appointment
    <3>4. CASE SetStatus(a)
      BY <3>1, <3>4 DEF SetStatus, Appointment
    <3>5. CASE Remove(a)
      BY <3>1, <3>5 DEF Remove, Appointment
    <3> QED BY <1>2, <3>2, <3>3, <3>4, <3>5
  <2>3. row' \in [Key -> Row]
    BY <1>2, AsTyped DEF Book, Move, SetStatus, Remove
  <2> QED BY <1>2, <2>1, <2>2, <2>3 DEF Book, Move, SetStatus, Remove
<1>3. CASE Configure
  <2>1. setting' \in Setting /\ upset' \in SUBSET Sweep
    BY <1>3 DEF Configure
  <2> QED BY <1>3, <2>1 DEF Configure
<1>6. CASE Tick
  BY <1>6, NumberAssumption DEF Tick, Time
<1>4. CASE Crash
  BY <1>4 DEF Crash, Run, idle, env
<1>5. CASE UNCHANGED vars
  BY <1>5 DEF vars
<1> QED BY <1>1, <1>2, <1>3, <1>4, <1>5, <1>6 DEF Next

-------------------------------------------------------------------------------
\* What a step of a run does to a row

\* A run may rewrite a row it has read, which its appointment still keeps ...
Rewritten(s, k) ==
  /\ Pending(sweep[s], k)
  /\ row'[k].state \notin Frozen
  /\ row'[k].state # "none"
  /\ appt[k[1]].life \in {"open", "closed"}

\* ... take it to send it ...
Taken(s, k) ==
  /\ \E d \in Upcoming(s) : d.key = k /\ Claim(s, d)
  /\ row[k].state = "SCHEDULED"
  /\ row'[k].state = "SENDING"

\* ... or write how the sending ended.
Ended(s, k) ==
  /\ row[k].state # "none"
  /\ row'[k].state \in {"SENT", "FAILED"}
  /\ row[k].state = "SENDING" \/ (sweep[s].pc \in Sends /\ sweep[s].key = k)

\* No step of a run does anything else to a row.
LEMMA StepRow ==
  ASSUME RemindersInv, NEW s \in Sweep, Start(s) \/ Continue(s) \/ Throw(s), NEW k \in Key
  PROVE  row'[k] = row[k] \/ Rewritten(s, k) \/ Taken(s, k) \/ Ended(s, k)
<1> USE DEF RemindersInv, TypeOK
<1> DEFINE run == sweep[s]
<1>0. run \in Run
  OBVIOUS
<1>1. CASE Start(s) \/ FindAppointmentsToReconcile(s) \/ FindOrphanScheduled(s)
           \/ FindByAppointmentIds(s) \/ LoadTenant(s) \/ FindDue(s) \/ TemplateFor(s)
           \/ SendTemplate(s) \/ Throw(s)
  BY <1>1 DEF Start, FindAppointmentsToReconcile, FindOrphanScheduled, FindByAppointmentIds,
              LoadTenant, FindDue, TemplateFor, SendTemplate, Throw, OnlyReads
<1>2. CASE FailStaleSending(s)
  BY <1>2, InterruptedTyped DEF FailStaleSending, IsStale, Ended
<1>3. CASE WriteRow(s)
  <2>1. run.pc = "writing" /\ run.writes \in SUBSET Write
    BY <1>0, <1>3, RunFields DEF WriteRow
  <2>2. PICK w \in run.writes :
          \/ row' = row
          \/ w.how # "upsert" /\ row' = Updated(w.key, As(w.want))
          \/ appt[w.key[1]].life # "deleted" /\ row' = [row EXCEPT ![w.key] = As(w.want)]
    BY <1>3 DEF WriteRow
  <2>3. w.key \in Key /\ As(w.want).state \in {"SCHEDULED", "SKIPPED", "CANCELLED"}
    BY <2>1 DEF Write, Desire, As
  <2>4. appt[w.key[1]].life # "unborn" /\ appt[w.key[1]].life \in {"unborn", "open", "closed", "deleted"}
    BY <2>1, <2>3 DEF Born, Key, Appointment
  <2>5. CASE row' = row
    BY <2>5
  <2>6. CASE row[w.key].state # "none" /\ row' = [row EXCEPT ![w.key] = As(w.want)]
    <3>1. appt[w.key[1]].life \in {"open", "closed"}
      BY <2>3, <2>6 DEF ForeignKey
    <3> QED BY <2>1, <2>3, <2>6, <3>1 DEF Rewritten, Pending, Frozen
  <2>7. CASE appt[w.key[1]].life # "deleted" /\ row' = [row EXCEPT ![w.key] = As(w.want)]
    BY <2>1, <2>3, <2>4, <2>7 DEF Rewritten, Pending, Frozen
  <2> QED BY <2>2, <2>3, <2>5, <2>6, <2>7, UpdatedTyped
<1>4. CASE CancelOrphan(s)
  <2>1. run.pc = "writing" /\ run.orphans \in SUBSET Key
    BY <1>0, <1>4, RunFields DEF CancelOrphan
  <2>2. PICK j \in run.orphans : row' = Updated(j, Cancelled)
    BY <1>4 DEF CancelOrphan
  <2>3. CASE row[j].state # "none"
    <3>1. appt[j[1]].life \in {"open", "closed"}
      BY <2>1, <2>3 DEF ForeignKey
    <3>2. row' = [row EXCEPT ![j] = Cancelled]
      BY <2>1, <2>2, <2>3 DEF Updated
    <3>3. CASE k = j
      <4>1. row'[k] = Cancelled
        BY <3>2, <3>3
      <4>2. Pending(run, k)
        BY <2>1, <3>3 DEF Pending
      <4> QED BY <3>1, <3>3, <4>1, <4>2 DEF Rewritten, Frozen, Cancelled
    <3> QED BY <3>2, <3>3
  <2>4. CASE row[j].state = "none"
    BY <2>2, <2>4 DEF Updated
  <2> QED BY <2>3, <2>4
<1>5. ASSUME NEW d \in Upcoming(s), Block(s, d) \/ Postpone(s, d)
      PROVE  row'[k] = row[k] \/ Rewritten(s, k)
  <2>1. run.pc = "sending" /\ d \in run.due /\ d \in Due
    BY <1>0, RunFields DEF Upcoming
  <2>2. d.key \in Key
    BY <2>1 DEF Due
  <2> DEFINE scheduled == As([state |-> "SCHEDULED", at |-> d.at])
  <2>3. PICK r : r.state \in {"SCHEDULED", "CANCELLED"} /\ row' = Updated(d.key, r)
    <3>1. scheduled.state = "SCHEDULED" /\ Cancelled.state = "CANCELLED"
      BY DEF As, Cancelled
    <3>2. row' = Updated(d.key, Cancelled) \/ row' = Updated(d.key, scheduled)
      BY <1>5 DEF Block, Postpone
    <3> HIDE DEF scheduled
    <3> QED BY <3>1, <3>2
  <2>4. CASE row[d.key].state # "none"
    <3>1. appt[d.key[1]].life \in {"open", "closed"}
      BY <2>2, <2>4 DEF ForeignKey
    <3>2. row' = [row EXCEPT ![d.key] = r]
      BY <2>3, <2>4 DEF Updated
    <3>3. CASE k = d.key
      <4>1. row'[k] = r
        BY <3>2, <3>3
      <4>2. Pending(run, k)
        BY <2>1, <3>3 DEF Pending, Looping
      <4> QED BY <2>3, <3>1, <3>3, <4>1, <4>2 DEF Rewritten, Frozen
    <3> QED BY <3>2, <3>3
  <2>5. CASE row[d.key].state = "none"
    BY <2>3, <2>5 DEF Updated
  <2> QED BY <2>4, <2>5
<1>6. ASSUME NEW d \in Upcoming(s), Claim(s, d)
      PROVE  row'[k] = row[k] \/ Taken(s, k)
  <2>1. d.key \in Key
    BY <1>0, RunFields DEF Upcoming, Due
  <2>2. CASE row[d.key].state = "SCHEDULED"
    <3>1. row[d.key] = [state |-> "SCHEDULED", at |-> row[d.key].at, since |-> row[d.key].since]
      BY <2>1, <2>2, RowFields
    <3>2. row' = [row EXCEPT ![d.key] = [state |-> "SENDING", at |-> row[d.key].at, since |-> now]]
      BY <1>6, <2>1, <2>2, <3>1 DEF Claim
    <3>3. CASE k = d.key
      BY <1>6, <2>2, <3>2, <3>3 DEF Taken
    <3> QED BY <3>2, <3>3
  <2>3. CASE row[d.key].state # "SCHEDULED"
    BY <1>6, <2>3 DEF Claim
  <2> QED BY <2>2, <2>3
<1>7. CASE Mark(s)
  <2> DEFINE marked == [state |-> IF run.pc = "arrived" THEN "SENT" ELSE "FAILED",
                        at |-> row[run.key].at, since |-> NoTime]
  <2>1. run.key \in Key /\ run.pc \in Sends
    BY <1>0, <1>7, RunFields DEF Mark, Sends
  <2>2. row' = Updated(run.key, marked) /\ marked.state \in {"SENT", "FAILED"}
    BY <1>7 DEF Mark
  <2> HIDE DEF marked
  <2> QED BY <2>1, <2>2, UpdatedTyped DEF Ended
<1> QED BY <1>1, <1>2, <1>3, <1>4, <1>5, <1>6, <1>7 DEF Continue

-------------------------------------------------------------------------------
\* The inductive invariant

\* The empty table, nothing sent and no run in flight.
THEOREM InvInit == Init => RemindersInv
<1> SUFFICES ASSUME Init PROVE RemindersInv
  OBVIOUS
<1>1. TypeOK
  BY TypeInit
<1>2. \A k \in Key : row[k].state = "none" /\ delivered[k] = 0
  BY DEF Init, NoRow
<1>3. \A s \in Sweep : sweep[s] = idle
  BY DEF Init
<1>4. ForeignKey /\ Accounted /\ NeverTwice
  BY <1>2 DEF ForeignKey, Accounted, NeverTwice
<1>5. Born /\ Claimed /\ OneEach /\ NotYetFrozen
  BY <1>3 DEF Born, Claimed, OneEach, NotYetFrozen, Pending, Sends, Looping, idle
<1> QED BY <1>1, <1>4, <1>5 DEF RemindersInv

\* An appointment is born once and deleted once.
LEMMA LifeGoesOn ==
  ASSUME TypeOK, [Next]_vars, NEW a \in Appt
  PROVE  /\ appt[a].life # "unborn" => appt'[a].life # "unborn"
         /\ appt[a].life = "deleted" => appt'[a].life = "deleted"
<1> USE DEF TypeOK
<1>1. ASSUME NEW s \in Sweep, Start(s) \/ Continue(s) \/ Throw(s) PROVE appt' = appt
  BY <1>1, RunLeavesAlone DEF env
<1>2. ASSUME NEW b \in Appt, Book(b) \/ Move(b) \/ SetStatus(b) \/ Remove(b)
      PROVE  /\ appt[a].life # "unborn" => appt'[a].life # "unborn"
             /\ appt[a].life = "deleted" => appt'[a].life = "deleted"
  BY <1>2 DEF Book, Move, SetStatus, Remove, Appointment
<1>3. CASE Configure \/ Tick \/ Crash \/ UNCHANGED vars
  BY <1>3 DEF Configure, Tick, Crash, vars, env
<1> QED BY <1>1, <1>2, <1>3 DEF Next

\* A row belongs to an appointment that is there.
THEOREM ForeignKeyNext == RemindersInv /\ [Next]_vars => ForeignKey'
<1> SUFFICES ASSUME RemindersInv, [Next]_vars PROVE ForeignKey'
  OBVIOUS
<1> USE DEF RemindersInv, TypeOK
<1>1. ASSUME NEW s \in Sweep, Start(s) \/ Continue(s) \/ Throw(s) PROVE ForeignKey'
  <2>1. appt' = appt
    BY <1>1, RunLeavesAlone DEF env
  <2>2. ASSUME NEW k \in Key, row'[k].state # "none"
        PROVE  row[k].state # "none" \/ appt[k[1]].life \in {"open", "closed"}
    BY <1>1, <2>2, StepRow DEF Rewritten, Taken, Ended
  <2> QED BY <2>1, <2>2 DEF ForeignKey
<1>2. ASSUME NEW a \in Appt, Book(a) \/ Move(a) \/ SetStatus(a) PROVE ForeignKey'
  <2>1. row' = row
    BY <1>2 DEF Book, Move, SetStatus
  <2>2. \A b \in Appt : appt[b].life \in {"open", "closed"} => appt'[b].life \in {"open", "closed"}
    BY <1>2 DEF Book, Move, SetStatus, Appointment
  <2> QED BY <2>1, <2>2 DEF ForeignKey, Key
<1>3. ASSUME NEW a \in Appt, Remove(a) PROVE ForeignKey'
  BY <1>3 DEF Remove, ForeignKey, Key, NoRow
<1>4. CASE Configure \/ Tick \/ Crash \/ UNCHANGED vars
  BY <1>4 DEF Configure, Tick, Crash, vars, env, ForeignKey
<1> QED BY <1>1, <1>2, <1>3, <1>4 DEF Next

\* A reminder nobody will send again, after the step.
ClosedAfter(k) == row'[k].state \in Frozen \/ appt'[k[1]].life = "deleted"

\* What nobody will send again, nobody will.
LEMMA ClosedStays ==
  ASSUME RemindersInv, [Next]_vars, NEW k \in Key, Closed(k)
  PROVE  ClosedAfter(k)
<1> USE DEF RemindersInv, TypeOK
<1>1. CASE appt[k[1]].life = "deleted"
  <2>1. k[1] \in Appt
    BY DEF Key
  <2> QED BY <1>1, <2>1, LifeGoesOn DEF ClosedAfter
<1>2. CASE row[k].state \in Frozen
  <2>1. ASSUME NEW s \in Sweep, Start(s) \/ Continue(s) \/ Throw(s) PROVE row'[k].state \in Frozen
    BY <1>2, <2>1, StepRow DEF Rewritten, Taken, Ended, NotYetFrozen, Frozen
  <2>2. ASSUME NEW a \in Appt, Book(a) \/ Move(a) \/ SetStatus(a) PROVE row' = row
    BY <2>2 DEF Book, Move, SetStatus
  <2>3. ASSUME NEW a \in Appt, Remove(a)
        PROVE  row'[k] = row[k] \/ appt'[k[1]].life = "deleted"
    BY <2>3 DEF Remove, Key
  <2>4. ASSUME Configure \/ Tick \/ Crash \/ UNCHANGED vars PROVE row' = row
    BY <2>4 DEF Configure, Tick, Crash, vars, env
  <2> QED BY <1>2, <2>1, <2>2, <2>3, <2>4 DEF Next, ClosedAfter
<1> QED BY <1>1, <1>2 DEF Closed

\* Only the call to Meta delivers, and only the reminder that was taken.
LEMMA DeliveredByCall ==
  ASSUME TypeOK, [Next]_vars, NEW k \in Key
  PROVE  \/ delivered'[k] = delivered[k]
         \/ /\ delivered'[k] = delivered[k] + 1
            /\ \E s \in Sweep : SendTemplate(s) /\ sweep[s].pc = "calling" /\ sweep[s].key = k
<1> USE DEF TypeOK
<1>1. ASSUME NEW s \in Sweep, SendTemplate(s)
      PROVE  \/ delivered'[k] = delivered[k]
             \/ delivered'[k] = delivered[k] + 1 /\ sweep[s].pc = "calling" /\ sweep[s].key = k
  <2>1. sweep[s].key \in Key
    BY <1>1, RunFields DEF SendTemplate, Sends
  <2> QED BY <1>1, <2>1 DEF SendTemplate
<1>2. ASSUME NEW s \in Sweep, Start(s) \/ Continue(s) \/ Throw(s), ~SendTemplate(s)
      PROVE  delivered' = delivered
  BY <1>2 DEF Start, Continue, Throw, FailStaleSending, FindAppointmentsToReconcile,
              FindOrphanScheduled, FindByAppointmentIds, LoadTenant, WriteRow, CancelOrphan,
              FindDue, TemplateFor, Block, Postpone, Claim, Mark, OnlyReads
<1>3. ASSUME NEW a \in Appt, Book(a) \/ Move(a) \/ SetStatus(a) \/ Remove(a)
      PROVE  delivered' = delivered
  BY <1>3 DEF Book, Move, SetStatus, Remove
<1>4. CASE Configure \/ Tick \/ Crash \/ UNCHANGED vars
  BY <1>4 DEF Configure, Tick, Crash, vars
<1> QED BY <1>1, <1>2, <1>3, <1>4 DEF Next

\* What has been delivered is closed, and was delivered once.
THEOREM AccountedNext == RemindersInv /\ [Next]_vars => Accounted' /\ NeverTwice'
<1> SUFFICES ASSUME RemindersInv, [Next]_vars, NEW k \in Key
             PROVE  (delivered'[k] > 0 => ClosedAfter(k)) /\ delivered'[k] <= 1
  BY DEF Accounted, NeverTwice, Closed, ClosedAfter
<1>1. CASE delivered'[k] = delivered[k]
  BY <1>1, ClosedStays DEF RemindersInv, Accounted, NeverTwice
<1>2. ASSUME NEW s \in Sweep, sweep[s].pc = "calling", sweep[s].key = k,
             delivered'[k] = delivered[k] + 1
      PROVE  (delivered'[k] > 0 => ClosedAfter(k)) /\ delivered'[k] <= 1
  <2>1. Closed(k) /\ delivered[k] = 0
    BY <1>2 DEF RemindersInv, Claimed, Sends
  <2> QED BY <1>2, <2>1, ClosedStays
<1> QED BY <1>1, <1>2, DeliveredByCall DEF RemindersInv

\* Only a run's own steps, and the death of the process, move it.
LEMMA RunMoves ==
  ASSUME OneRunAtATime, [Next]_vars, NEW s \in Sweep
  PROVE  \/ sweep'[s] = sweep[s]
         \/ sweep'[s] = idle
         \/ Start(s) \/ Continue(s) \/ Throw(s)
<1>1. ASSUME NEW a \in Appt, Book(a) \/ Move(a) \/ SetStatus(a) \/ Remove(a) PROVE sweep' = sweep
  BY <1>1 DEF Book, Move, SetStatus, Remove
<1>2. CASE Configure \/ Tick \/ UNCHANGED vars
  BY <1>2 DEF Configure, Tick, vars
<1>3. CASE Crash
  BY <1>3 DEF Crash
<1>4. ASSUME NEW r \in Sweep, Start(r) \/ Continue(r) \/ Throw(r)
      PROVE  Start(s) \/ Continue(s) \/ Throw(s)
  <2>1. r = s
    BY DEF OneRunAtATime
  <2> QED BY <1>4, <2>1
<1> QED BY <1>1, <1>2, <1>3, <1>4 DEF Next

\* The stages a step leads to that neither read nor keep anything to write.
LEMMA RunAhead ==
  ASSUME TypeOK, NEW s \in Sweep,
         \/ Start(s) \/ FailStaleSending(s) \/ FindDue(s) \/ TemplateFor(s) \/ SendTemplate(s)
         \/ Mark(s) \/ Throw(s) \/ \E d \in Upcoming(s) : Block(s, d) \/ Postpone(s, d) \/ Claim(s, d)
  PROVE  /\ sweep'[s].pc \in {"idle", "stale", "appointments", "due", "template", "sending", "calling",
                              "arrived", "refused"}
         /\ sweep'[s].pc = "due" => Throw(s)
<1> USE DEF TypeOK, Step
<1>1. CASE Start(s) \/ FailStaleSending(s) \/ FindDue(s) \/ TemplateFor(s) \/ Throw(s)
  BY <1>1 DEF Start, FailStaleSending, FindDue, TemplateFor, Throw, idle
<1>2. CASE SendTemplate(s)
  <2>1. sweep[s].pc = "calling" /\ sweep[s] \in Run
    BY <1>2 DEF SendTemplate
  <2>2. \A answer : [sweep[s] EXCEPT !.pc = answer].pc = answer
    BY <2>1 DEF Run
  <2> QED BY <1>2, <2>2 DEF SendTemplate
<1>3. ASSUME NEW run, NEW due PROVE Remaining(run, due).pc \in {"idle", "sending"}
  BY DEF Remaining, idle
<1>4. CASE Mark(s)
  BY <1>3, <1>4 DEF Mark
<1>5. ASSUME NEW d \in Upcoming(s), Block(s, d) \/ Postpone(s, d)
      PROVE  sweep'[s].pc \in {"idle", "sending"}
  BY <1>3, <1>5 DEF Block, Postpone
<1>6. ASSUME NEW d \in Upcoming(s), Claim(s, d)
      PROVE  sweep'[s].pc \in {"idle", "sending", "calling"}
  BY <1>3, <1>6 DEF Claim
<1> QED BY <1>1, <1>2, <1>4, <1>5, <1>6

\* What a run has read of an appointment, or is about to write, was there when it looked.
THEOREM BornNext == RemindersInv /\ OneRunAtATime /\ [Next]_vars => Born'
<1> SUFFICES ASSUME RemindersInv, OneRunAtATime, [Next]_vars, NEW s \in Sweep
             PROVE  /\ sweep'[s].pc \in {"orphans", "stored", "tenant"} =>
                         \A p \in sweep'[s].open : appt'[p.id].life # "unborn"
                    /\ sweep'[s].pc = "tenant" =>
                         \A k \in Key : sweep'[s].stored[k].state # "none" => appt'[k[1]].life # "unborn"
                    /\ sweep'[s].pc = "writing" =>
                         \A w \in sweep'[s].writes : appt'[w.key[1]].life # "unborn"
  BY DEF Born
<1> USE DEF RemindersInv, TypeOK, Step
<1> DEFINE run == sweep[s]
           next == sweep'[s]
<1>0. run \in Run
  OBVIOUS
<1>1. CASE next = run
  <2>1. run.pc \in {"orphans", "stored", "tenant"} => \A p \in run.open : p.id \in Appt
    BY <1>0, RunFields DEF Seen
  <2>2. \A k \in Key : k[1] \in Appt
    BY DEF Key
  <2>3. run.pc = "writing" => \A w \in run.writes : w.key[1] \in Appt
    BY <1>0, <2>2, RunFields DEF Write
  <2> QED BY <1>1, <2>1, <2>2, <2>3, LifeGoesOn DEF Born
<1>2. CASE next.pc \in {"idle", "stale", "appointments", "due", "template", "sending",
                        "calling", "arrived", "refused"}
  BY <1>2
<1>3. CASE FindAppointmentsToReconcile(s)
  <2>1. appt' = appt
    BY <1>3, RunLeavesAlone DEF Continue, env
  <2>2. next.pc = "orphans"
    BY <1>3 DEF FindAppointmentsToReconcile
  <2>3. ASSUME NEW p \in next.open PROVE appt[p.id].life # "unborn"
    BY <1>3, <2>3 DEF FindAppointmentsToReconcile
  <2> QED BY <2>1, <2>2, <2>3
<1>4. CASE FindOrphanScheduled(s)
  <2>1. appt' = appt
    BY <1>4, RunLeavesAlone DEF Continue, env
  <2> QED BY <1>4, <2>1 DEF FindOrphanScheduled, Born
<1>5. CASE FindByAppointmentIds(s)
  <2>1. appt' = appt
    BY <1>5, RunLeavesAlone DEF Continue, env
  <2>2. next.pc = "tenant" /\ next.open = run.open /\ run.pc = "stored"
    BY <1>5 DEF FindByAppointmentIds
  <2>3. ASSUME NEW k \in Key, next.stored[k].state # "none" PROVE row[k].state # "none"
    BY <1>5, <2>3 DEF FindByAppointmentIds, NoRow
  <2>4. \A k \in Key : row[k].state # "none" => appt[k[1]].life # "unborn"
    BY DEF ForeignKey
  <2> QED BY <2>1, <2>2, <2>3, <2>4 DEF Born
<1>6. CASE LoadTenant(s)
  <2>1. appt' = appt
    BY <1>6, RunLeavesAlone DEF Continue, env
  <2>2. run.pc = "tenant"
    BY <1>6 DEF LoadTenant
  <2>3. next.pc = "due" \/ (next.pc = "writing" /\ next.writes = WritesFor(run, setting.offsets, run.now))
    BY <1>6 DEF LoadTenant, Reconciling
  <2>4. ASSUME NEW w \in WritesFor(run, setting.offsets, run.now)
        PROVE  appt[w.key[1]].life # "unborn"
    <3>1. CASE \E p \in run.open, o \in setting.offsets : w.key = <<p.id, o>>
      BY <2>2, <3>1 DEF Born
    <3>2. CASE \E k \in Key : w.key = k /\ run.stored[k].state = "SCHEDULED"
      BY <2>2, <3>2 DEF Born
    <3>3. \/ \E p \in run.open, o \in setting.offsets :
               w.key = <<p.id, o>> /\ run.stored[<<p.id, o>>].state \notin Frozen
          \/ \E j \in Key : w.key = j /\ run.stored[j].state = "SCHEDULED"
      BY WritesForKeys
    <3> QED BY <3>1, <3>2, <3>3
  <2> QED BY <2>1, <2>3, <2>4
<1>7. CASE WriteRow(s) \/ CancelOrphan(s)
  <2>1. appt' = appt
    BY <1>7, RunLeavesAlone DEF Continue, env
  <2>2. run.pc = "writing"
    BY <1>7 DEF WriteRow, CancelOrphan
  <2>3. next.pc = "due" \/ (next.pc = "writing" /\ next.writes \subseteq run.writes)
    BY <1>7 DEF WriteRow, CancelOrphan, Reconciling
  <2> QED BY <2>1, <2>2, <2>3 DEF Born
<1> QED BY <1>1, <1>2, <1>3, <1>4, <1>5, <1>6, <1>7, RunMoves, RunAhead DEF Continue, idle

\* The stages of the reconciliation are not those of the sending.
LEMMA RunBehind ==
  ASSUME TypeOK, NEW s \in Sweep,
         \/ FindAppointmentsToReconcile(s) \/ FindOrphanScheduled(s) \/ FindByAppointmentIds(s)
         \/ LoadTenant(s) \/ WriteRow(s) \/ CancelOrphan(s) \/ Start(s) \/ FailStaleSending(s) \/ Throw(s)
  PROVE  sweep'[s].pc \notin Looping
<1> USE DEF TypeOK, Step, Looping, Sends
<1>1. CASE FindAppointmentsToReconcile(s) \/ FindOrphanScheduled(s) \/ FindByAppointmentIds(s)
           \/ Start(s) \/ FailStaleSending(s) \/ Throw(s)
  BY <1>1 DEF FindAppointmentsToReconcile, FindOrphanScheduled, FindByAppointmentIds, Start,
              FailStaleSending, Throw, idle
<1>2. ASSUME NEW t, NEW writes, NEW orphans
      PROVE  Reconciling(t, writes, orphans).pc \in {"due", "writing"}
  BY DEF Reconciling
<1>3. CASE LoadTenant(s)
  BY <1>2, <1>3 DEF LoadTenant
<1>4. CASE WriteRow(s)
  BY <1>2, <1>4 DEF WriteRow
<1>5. CASE CancelOrphan(s)
  BY <1>2, <1>5 DEF CancelOrphan
<1> QED BY <1>1, <1>3, <1>4, <1>5

\* In its loop a run only loses reminders.
LEMMA LoopShrinks ==
  ASSUME TypeOK, NEW s \in Sweep, Start(s) \/ Continue(s) \/ Throw(s), sweep'[s].pc \in Looping
  PROVE  FindDue(s) \/ (sweep[s].pc \in Looping /\ sweep'[s].due \subseteq sweep[s].due)
<1> USE DEF TypeOK, Step, Looping, Sends
<1>1. CASE TemplateFor(s)
  BY <1>1 DEF TemplateFor
<1>2. ASSUME NEW run, NEW due
      PROVE  Remaining(run, due).pc = "sending" => Remaining(run, due).due = due
  BY DEF Remaining, idle
<1>3. ASSUME NEW run, NEW due PROVE Remaining(run, due).pc \in {"idle", "sending"}
  BY DEF Remaining, idle
<1>4. CASE Mark(s)
  BY <1>2, <1>3, <1>4 DEF Mark
<1>5. ASSUME NEW d \in Upcoming(s), Block(s, d) \/ Postpone(s, d)
      PROVE  sweep[s].pc \in Looping /\ sweep'[s].due \subseteq sweep[s].due
  BY <1>2, <1>3, <1>5 DEF Block, Postpone, Upcoming
<1>6. ASSUME NEW d \in Upcoming(s), Claim(s, d)
      PROVE  sweep[s].pc \in Looping /\ sweep'[s].due \subseteq sweep[s].due
  <2>1. sweep[s].pc = "sending"
    BY DEF Upcoming
  <2>2. CASE row[d.key].state = "SCHEDULED"
    <3>1. sweep'[s].due = sweep[s].due \ {d}
      BY <1>6, <2>2 DEF Claim
    <3> QED BY <2>1, <3>1
  <2>3. CASE row[d.key].state # "SCHEDULED"
    <3>1. sweep'[s] = Remaining(sweep[s], sweep[s].due \ {d})
      BY <1>6, <2>3 DEF Claim
    <3>2. sweep'[s].due = sweep[s].due \ {d}
      BY <1>2, <1>3, <3>1
    <3> QED BY <2>1, <3>2
  <2> QED BY <2>2, <2>3
<1>7. CASE SendTemplate(s)
  <2>1. sweep[s].pc = "calling" /\ sweep[s] \in Run
    BY <1>7 DEF SendTemplate
  <2>2. \A answer : [sweep[s] EXCEPT !.pc = answer].due = sweep[s].due
    BY <2>1 DEF Run
  <2>3. PICK answer \in {"arrived", "refused"} : sweep'[s] = [sweep[s] EXCEPT !.pc = answer]
    BY <1>7 DEF SendTemplate
  <2> QED BY <2>1, <2>2, <2>3
<1> QED BY <1>1, <1>4, <1>5, <1>6, <1>7, RunBehind DEF Continue

\* A run sends what it has just taken, or goes on with what it had taken.
LEMMA SendsFrom ==
  ASSUME TypeOK, NEW s \in Sweep, Start(s) \/ Continue(s) \/ Throw(s), sweep'[s].pc \in Sends
  PROVE  \/ /\ SendTemplate(s) /\ sweep[s].pc = "calling" /\ sweep'[s].pc # "calling"
            /\ sweep'[s].key = sweep[s].key /\ sweep'[s].due = sweep[s].due
         \/ \E d \in Upcoming(s) :
              /\ Claim(s, d) /\ row[d.key].state = "SCHEDULED"
              /\ sweep'[s].key = d.key /\ sweep'[s].due = sweep[s].due \ {d}
<1> USE DEF TypeOK, Step, Sends
<1>1. CASE SendTemplate(s)
  <2>1. sweep[s].pc = "calling" /\ sweep[s] \in Run
    BY <1>1 DEF SendTemplate
  <2>2. \A answer : /\ [sweep[s] EXCEPT !.pc = answer].due = sweep[s].due
                    /\ [sweep[s] EXCEPT !.pc = answer].key = sweep[s].key
                    /\ [sweep[s] EXCEPT !.pc = answer].pc = answer
    BY <2>1 DEF Run
  <2>3. PICK answer \in {"arrived", "refused"} : sweep'[s] = [sweep[s] EXCEPT !.pc = answer]
    BY <1>1 DEF SendTemplate
  <2> QED BY <1>1, <2>1, <2>2, <2>3
<1>2. ASSUME NEW run, NEW due PROVE Remaining(run, due).pc \in {"idle", "sending"}
  BY DEF Remaining, idle
<1>3. ~Mark(s)
  BY <1>2 DEF Mark
<1>4. ASSUME NEW d \in Upcoming(s) PROVE ~Block(s, d) /\ ~Postpone(s, d)
  BY <1>2 DEF Block, Postpone
<1>5. ~FindDue(s) /\ ~TemplateFor(s)
  BY DEF FindDue, TemplateFor, idle
<1>6. ASSUME NEW d \in Upcoming(s), Claim(s, d)
      PROVE  /\ row[d.key].state = "SCHEDULED"
             /\ sweep'[s].key = d.key /\ sweep'[s].due = sweep[s].due \ {d}
  <2>1. CASE row[d.key].state = "SCHEDULED"
    BY <1>6, <2>1 DEF Claim
  <2>2. CASE row[d.key].state # "SCHEDULED"
    BY <1>2, <1>6, <2>2 DEF Claim
  <2> QED BY <2>1, <2>2
<1> QED BY <1>1, <1>3, <1>4, <1>5, <1>6, RunBehind DEF Continue, Looping

\* The reminder in the hands of a run is its own, and has not been delivered before.
THEOREM ClaimedNext == RemindersInv /\ OneRunAtATime /\ [Next]_vars => Claimed'
<1> SUFFICES ASSUME RemindersInv, OneRunAtATime, [Next]_vars,
                    NEW s \in Sweep, sweep'[s].pc \in Sends
             PROVE  /\ ClosedAfter(sweep'[s].key)
                    /\ sweep'[s].pc = "calling" => delivered'[sweep'[s].key] = 0
                    /\ \A d \in sweep'[s].due : d.key # sweep'[s].key
  BY DEF Claimed, Closed, ClosedAfter
<1> USE DEF RemindersInv, TypeOK
<1>1. CASE sweep'[s] = sweep[s]
  <2>1. sweep[s].key \in Key /\ Closed(sweep[s].key)
    BY <1>1, RunFields DEF Claimed
  <2>2. ClosedAfter(sweep[s].key)
    BY <2>1, ClosedStays
  <2>3. ASSUME sweep[s].pc = "calling"
        PROVE  delivered'[sweep[s].key] = delivered[sweep[s].key]
    <3>1. ASSUME NEW r \in Sweep, SendTemplate(r) PROVE FALSE
      <4>1. r = s
        BY DEF OneRunAtATime
      <4>2. sweep'[s].pc # "calling"
        BY <1>1, <2>3, <3>1, <4>1, SendsFrom DEF Continue, Upcoming
      <4> QED BY <1>1, <2>3, <4>2
    <3> QED BY <2>1, <3>1, DeliveredByCall
  <2> QED BY <1>1, <2>2, <2>3 DEF Claimed
<1>2. CASE SendTemplate(s) /\ sweep[s].pc = "calling" /\ sweep'[s].pc # "calling"
           /\ sweep'[s].key = sweep[s].key /\ sweep'[s].due = sweep[s].due
  <2>1. sweep[s].key \in Key /\ Closed(sweep[s].key)
    BY <1>2, RunFields DEF Claimed, Sends
  <2>2. ClosedAfter(sweep[s].key)
    BY <2>1, ClosedStays
  <2> QED BY <1>2, <2>2 DEF Claimed, Sends
<1>3. ASSUME NEW d \in Upcoming(s), Claim(s, d), row[d.key].state = "SCHEDULED",
             sweep'[s].key = d.key, sweep'[s].due = sweep[s].due \ {d}
      PROVE  /\ ClosedAfter(d.key) /\ delivered'[d.key] = 0
             /\ \A e \in sweep'[s].due : e.key # d.key
  <2>1. d \in sweep[s].due /\ sweep[s].pc = "sending" /\ d.key \in Key
    BY RunFields DEF Upcoming, Due
  <2>2. row'[d.key].state = "SENDING"
    <3>1. row[d.key] = [state |-> row[d.key].state, at |-> row[d.key].at, since |-> row[d.key].since]
      BY <2>1, RowFields
    <3> QED BY <1>3, <2>1, <3>1 DEF Claim
  <2>3. delivered' = delivered
    BY <1>3 DEF Claim
  <2>4. appt[d.key[1]].life \in {"open", "closed"}
    BY <1>3, <2>1 DEF ForeignKey
  <2>5. delivered[d.key] = 0
    BY <1>3, <2>1, <2>4 DEF Accounted, Closed, Frozen
  <2>6. \A e \in sweep[s].due \ {d} : e.key # d.key
    BY <2>1 DEF OneEach, Looping
  <2> QED BY <1>3, <2>2, <2>3, <2>5, <2>6 DEF ClosedAfter, Frozen
<1>4. CASE sweep'[s] = idle
  BY <1>4 DEF idle, Sends
<1> QED BY <1>1, <1>2, <1>3, <1>4, RunMoves, SendsFrom

\* A run has each reminder once.
THEOREM OneEachNext == RemindersInv /\ OneRunAtATime /\ [Next]_vars => OneEach'
<1> SUFFICES ASSUME RemindersInv, OneRunAtATime, [Next]_vars,
                    NEW s \in Sweep, sweep'[s].pc \in Looping
             PROVE  \A d, e \in sweep'[s].due : d.key = e.key => d = e
  BY DEF OneEach
<1> USE DEF RemindersInv
<1>1. CASE sweep'[s] = sweep[s] \/ (sweep[s].pc \in Looping /\ sweep'[s].due \subseteq sweep[s].due)
  BY <1>1 DEF OneEach
<1>2. CASE FindDue(s)
  <2> DEFINE found(k) == [key |-> k, at |-> row[k].at, life |-> appt[k[1]].life,
                          start |-> appt[k[1]].start, phone |-> appt[k[1]].phone,
                          enabled |-> setting.enabled]
  <2>1. \A d \in sweep'[s].due : \E k \in Key : d = found(k)
    BY <1>2 DEF FindDue, Step, TypeOK, Looping, Sends, idle
  <2>2. \A k : found(k).key = k
    OBVIOUS
  <2> HIDE DEF found
  <2> QED BY <2>1, <2>2
<1>3. CASE sweep'[s] = idle
  BY <1>3 DEF idle, Looping, Sends
<1> QED BY <1>1, <1>2, <1>3, RunMoves, LoopShrinks

\* A run that plans to write a row has just read a row that it may write.
LEMMA PendingOfWrites ==
  ASSUME NEW run, run.pc = "tenant", NEW offsets, NEW t, NEW w \in WritesFor(run, offsets, t)
  PROVE  Pending(run, w.key)
<1>1. \/ \E p \in run.open, o \in offsets :
           w.key = <<p.id, o>> /\ run.stored[<<p.id, o>>].state \notin Frozen
      \/ \E j \in Key : w.key = j /\ run.stored[j].state = "SCHEDULED"
  BY WritesForKeys
<1>2. ASSUME NEW p \in run.open, NEW o,
             w.key = <<p.id, o>>, run.stored[<<p.id, o>>].state \notin Frozen
      PROVE  Pending(run, w.key)
  <2>1. w.key[1] = p.id
    BY <1>2
  <2> QED BY <1>2, <2>1 DEF Pending
<1>3. ASSUME NEW j \in Key, w.key = j, run.stored[j].state = "SCHEDULED"
      PROVE  Pending(run, w.key)
  BY <1>3 DEF Pending
<1> QED BY <1>1, <1>2, <1>3

\* What a run becomes entitled to write, it has just seen free to be written.
LEMMA PendingFrom ==
  ASSUME RemindersInv, NEW s \in Sweep, Start(s) \/ Continue(s) \/ Throw(s),
         NEW k \in Key, Pending(sweep'[s], k)
  PROVE  row[k].state \notin Frozen
<1> USE DEF RemindersInv, TypeOK, Step
<1> DEFINE run == sweep[s]
           next == sweep'[s]
<1>0. run \in Run
  OBVIOUS
<1>1. CASE Start(s) \/ FailStaleSending(s) \/ FindAppointmentsToReconcile(s) \/ Throw(s)
  <2>1. next.pc \in {"idle", "stale", "appointments", "orphans", "due"}
    BY <1>1 DEF Start, FailStaleSending, FindAppointmentsToReconcile, Throw, idle
  <2> QED BY <2>1 DEF Pending, Looping, Sends
<1>2. CASE FindOrphanScheduled(s)
  <2>1. next.pc = "stored" /\ next.orphans = Orphans
    BY <1>2 DEF FindOrphanScheduled
  <2> QED BY <2>1 DEF Pending, Looping, Sends, Orphans, Frozen
<1>3. CASE FindByAppointmentIds(s)
  <2>1. run.pc = "stored" /\ next.pc = "tenant" /\ next.orphans = run.orphans /\ next.open = run.open
    BY <1>3 DEF FindByAppointmentIds
  <2>2. next.stored[k] = row[k] \/ (next.stored[k].state = "none" /\ \A p \in run.open : p.id # k[1])
    BY <1>3 DEF FindByAppointmentIds, NoRow
  <2>3. CASE k \in run.orphans
    BY <2>1, <2>3 DEF NotYetFrozen, Pending
  <2>4. CASE k \notin run.orphans
    BY <2>1, <2>2, <2>4 DEF Pending, Looping, Sends, Frozen
  <2> QED BY <2>3, <2>4
<1>4. CASE LoadTenant(s)
  <2>1. run.pc = "tenant" /\ run.open \in SUBSET Seen
    BY <1>0, <1>4, RunFields DEF LoadTenant
  <2>2. \/ next.pc = "due"
        \/ /\ next.pc = "writing" /\ next.orphans = run.orphans
           /\ next.writes = WritesFor(run, setting.offsets, run.now)
    BY <1>4 DEF LoadTenant, Reconciling
  <2>3. ASSUME NEW w \in WritesFor(run, setting.offsets, run.now)
        PROVE  Pending(run, w.key)
    BY <2>1, PendingOfWrites
  <2>4. CASE k \in run.orphans
    BY <2>1, <2>4 DEF NotYetFrozen, Pending
  <2>5. CASE k \notin run.orphans
    BY <2>2, <2>3, <2>5 DEF Pending, Looping, Sends, NotYetFrozen
  <2> QED BY <2>4, <2>5
<1>5. CASE WriteRow(s) \/ CancelOrphan(s)
  <2>1. run.pc = "writing"
    BY <1>5 DEF WriteRow, CancelOrphan
  <2>2. \/ next.pc = "due"
        \/ next.pc = "writing" /\ next.writes \subseteq run.writes /\ next.orphans \subseteq run.orphans
    BY <1>5 DEF WriteRow, CancelOrphan, Reconciling
  <2>3. Pending(run, k)
    BY <2>1, <2>2 DEF Pending, Looping, Sends
  <2> QED BY <2>3 DEF NotYetFrozen
<1>6. CASE FindDue(s)
  <2>1. next = idle \/ (next.pc = "template" /\ \A d \in next.due : row[d.key].state = "SCHEDULED")
    BY <1>6 DEF FindDue
  <2> QED BY <2>1 DEF Pending, Looping, Sends, Frozen, idle
<1>7. CASE next.pc \in Looping /\ run.pc \in Looping /\ next.due \subseteq run.due
  BY <1>7 DEF Pending, NotYetFrozen, Looping, Sends
<1>8. CASE next.pc \in {"idle", "due"}
  BY <1>8 DEF Pending, Looping, Sends
<1>9. CASE TemplateFor(s) \/ SendTemplate(s) \/ Mark(s)
           \/ \E d \in Upcoming(s) : Block(s, d) \/ Postpone(s, d) \/ Claim(s, d)
  <2>1. next.pc \in {"idle", "stale", "appointments", "due"} \cup Looping
    BY <1>9, RunAhead DEF Looping, Sends
  <2>2. CASE next.pc \in Looping
    BY <1>6, <1>7, <1>9, <2>2, LoopShrinks DEF Continue
  <2>3. CASE next.pc \notin Looping
    BY <2>1, <2>3 DEF Pending
  <2> QED BY <2>2, <2>3
<1> QED BY <1>1, <1>2, <1>3, <1>4, <1>5, <1>6, <1>9 DEF Continue

\* No run is about to write, without looking again, over a sending or its outcome.
THEOREM NotYetFrozenNext == RemindersInv /\ OneRunAtATime /\ [Next]_vars => NotYetFrozen'
<1> SUFFICES ASSUME RemindersInv, OneRunAtATime, [Next]_vars,
                    NEW s \in Sweep, NEW k \in Key, Pending(sweep'[s], k)
             PROVE  row'[k].state \notin Frozen
  BY DEF NotYetFrozen, Pending
<1> USE DEF RemindersInv, TypeOK
<1>1. CASE Start(s) \/ Continue(s) \/ Throw(s)
  <2>1. row[k].state \notin Frozen
    BY <1>1, PendingFrom
  <2>2. ~Taken(s, k)
    <3> SUFFICES ASSUME NEW d \in Upcoming(s), d.key = k, Claim(s, d), row[k].state = "SCHEDULED"
                 PROVE  FALSE
      BY DEF Taken
    <3>1. sweep[s].pc = "sending" /\ d \in sweep[s].due
      BY DEF Upcoming
    <3>2. sweep'[s].pc = "calling" /\ sweep'[s].due = sweep[s].due \ {d}
      BY DEF Claim, Step
    <3>3. \A e \in sweep'[s].due : e.key # k
      BY <3>1, <3>2 DEF OneEach, Looping
    <3> QED BY <3>2, <3>3 DEF Pending, Looping, Sends
  <2>3. ~Ended(s, k)
    <3>1. row[k].state # "none" => appt[k[1]].life # "deleted"
      BY DEF ForeignKey
    <3> QED BY <2>1, <3>1 DEF Ended, Claimed, Closed, Frozen
  <2> QED BY <1>1, <2>1, <2>2, <2>3, StepRow DEF Rewritten
<1>2. CASE sweep'[s] = sweep[s] /\ ~(Start(s) \/ Continue(s) \/ Throw(s))
  <2>1. row[k].state \notin Frozen
    BY <1>2 DEF NotYetFrozen
  <2>2. ASSUME NEW r \in Sweep PROVE ~(Start(r) \/ Continue(r) \/ Throw(r))
    BY <1>2 DEF OneRunAtATime
  <2>3. ASSUME NEW a \in Appt, Book(a) \/ Move(a) \/ SetStatus(a) \/ Remove(a)
        PROVE  row'[k] = row[k] \/ row'[k] = NoRow
    BY <2>3 DEF Book, Move, SetStatus, Remove
  <2>4. CASE Configure \/ Tick \/ Crash \/ UNCHANGED vars
    BY <2>1, <2>4 DEF Configure, Tick, Crash, vars, env
  <2> QED BY <2>1, <2>2, <2>3, <2>4 DEF Next, NoRow, Frozen
<1>3. CASE sweep'[s] = idle
  BY <1>3 DEF idle, Pending, Looping, Sends
<1> QED BY <1>1, <1>2, <1>3, RunMoves

\* Every step keeps the inductive invariant.
THEOREM InvNext == RemindersInv /\ OneRunAtATime /\ [Next]_vars => RemindersInv'
<1> SUFFICES ASSUME RemindersInv, OneRunAtATime, [Next]_vars PROVE RemindersInv'
  OBVIOUS
<1>1. TypeOK /\ ForeignKey /\ Claimed
  BY DEF RemindersInv
<1> QED BY <1>1, TypeNext, ForeignKeyNext, BornNext, AccountedNext, ClaimedNext, OneEachNext,
           NotYetFrozenNext DEF RemindersInv

\* The inductive invariant holds for ever, for runs that do not overlap.
THEOREM InvariantCorrect ==
  ASSUME OneRunAtATime
  PROVE  Spec => []RemindersInv
<1>1. RemindersInv /\ [Next]_vars => RemindersInv'
  BY InvNext
<1> QED BY <1>1, InvInit, PTL DEF Spec

\* "Un recordatorio enviado no se vuelve a enviar", whatever crashes, fails, is lost or
\* changes meanwhile, for any number of appointments and offsets.
THEOREM SentAtMostOnce ==
  ASSUME OneRunAtATime
  PROVE  Spec => []NeverTwice
<1>1. RemindersInv => NeverTwice
  BY DEF RemindersInv
<1> QED BY <1>1, InvariantCorrect, PTL

\* The table and the runs always have the shape the code gives them.
THEOREM TypeCorrect ==
  ASSUME OneRunAtATime
  PROVE  Spec => []TypeOK
<1>1. RemindersInv => TypeOK
  BY DEF RemindersInv
<1> QED BY <1>1, InvariantCorrect, PTL
-------------------------------------------------------------------------------
\* What the job tells its customers

\* What happens around a run leaves it where it was; it leaves alone the appointments it
\* does not mark as changed, with their rows, and the settings of a run it does not upset.
LEMMA AroundARun ==
  ASSUME TypeOK, OneRunAtATime, [Next]_vars, NEW s \in Sweep,
         ~(Start(s) \/ Continue(s) \/ Throw(s)), sweep'[s] # idle
  PROVE  /\ sweep'[s] = sweep[s] /\ changed[s] \subseteq changed'[s]
         /\ \A a \in Appt \ changed'[s] : appt'[a] = appt[a]
         /\ \A k \in Key : k[1] \notin changed'[s] => row'[k] = row[k]
         /\ \A k \in Key : row'[k] = row[k] \/ row'[k] = NoRow
         /\ sweep[s].pc \in FirstStages /\ s \notin upset' => s \notin upset /\ setting' = setting
<1> USE DEF TypeOK
<1>1. sweep'[s] = sweep[s] /\ sweep[s] # idle
  BY RunMoves
<1>2. ASSUME NEW r \in Sweep PROVE ~(Start(r) \/ Continue(r) \/ Throw(r))
  <2>1. r = s
    BY DEF OneRunAtATime
  <2> QED BY <2>1
<1>3. ~Crash
  BY DEF Crash
<1>4. ASSUME NEW a \in Appt, Book(a) \/ Move(a) \/ SetStatus(a) \/ Remove(a)
      PROVE  /\ changed'[s] = changed[s] \cup {a}
             /\ \A b \in Appt : b # a => appt'[b] = appt[b]
             /\ \A k \in Key : k[1] # a => row'[k] = row[k]
             /\ \A k \in Key : row'[k] = row[k] \/ row'[k] = NoRow
             /\ setting' = setting /\ upset' = upset
  BY <1>1, <1>4 DEF Book, Move, SetStatus, Remove, Changed
<1>5. CASE Configure
  BY <1>1, <1>5 DEF Configure
<1>6. CASE Tick \/ UNCHANGED vars
  BY <1>1, <1>6 DEF Tick, vars
<1>7. CASE \E a \in Appt : Book(a) \/ Move(a) \/ SetStatus(a) \/ Remove(a)
  <2>1. PICK a \in Appt : Book(a) \/ Move(a) \/ SetStatus(a) \/ Remove(a)
    BY <1>7
  <2>2. /\ changed'[s] = changed[s] \cup {a}
        /\ \A b \in Appt : b # a => appt'[b] = appt[b]
        /\ \A k \in Key : k[1] # a => row'[k] = row[k]
        /\ \A k \in Key : row'[k] = row[k] \/ row'[k] = NoRow
        /\ setting' = setting /\ upset' = upset
    BY <1>4, <2>1
  <2> QED BY <1>1, <2>2
<1> QED BY <1>2, <1>3, <1>5, <1>6, <1>7 DEF Next

\* A run does not write its own histories while it is in flight.
LEMMA RunKeepsHistory ==
  ASSUME TypeOK, NEW s \in Sweep, Start(s) \/ Continue(s) \/ Throw(s), sweep'[s] # idle
  PROVE  changed'[s] = changed[s] /\ appt' = appt /\ setting' = setting
<1>1. appt' = appt /\ setting' = setting
  BY RunLeavesAlone DEF env
<1>2. changed' = changed
  BY DEF Start, Continue, Throw, FailStaleSending, FindAppointmentsToReconcile, FindOrphanScheduled,
       FindByAppointmentIds, LoadTenant, WriteRow, CancelOrphan, FindDue, TemplateFor, Block,
       Postpone, Claim, SendTemplate, Mark, OnlyReads, Forget
<1> QED BY <1>1, <1>2

\* Through its loop a run keeps the instant it began at ...
LEMMA LoopKeepsNow ==
  ASSUME TypeOK, NEW s \in Sweep, Continue(s) \/ Throw(s),
         sweep[s].pc \in Looping, sweep'[s].pc \in Looping
  PROVE  sweep'[s].now = sweep[s].now
<1> USE DEF TypeOK, Step, Looping, Sends
<1>1. ASSUME NEW run, NEW due
      PROVE  Remaining(run, due).pc \in {"idle", "sending"} /\
             (Remaining(run, due).pc = "sending" => Remaining(run, due).now = run.now)
  BY DEF Remaining, idle
<1>2. CASE TemplateFor(s)
  BY <1>2 DEF TemplateFor
<1>3. CASE Mark(s)
  BY <1>1, <1>3 DEF Mark
<1>4. ASSUME NEW d \in Upcoming(s), Block(s, d) \/ Postpone(s, d)
      PROVE  sweep'[s].now = sweep[s].now
  BY <1>1, <1>4 DEF Block, Postpone
<1>5. ASSUME NEW d \in Upcoming(s), Claim(s, d)
      PROVE  sweep'[s].now = sweep[s].now
  <2>1. CASE row[d.key].state = "SCHEDULED"
    BY <1>5, <2>1 DEF Claim
  <2>2. CASE row[d.key].state # "SCHEDULED"
    BY <1>1, <1>5, <2>2 DEF Claim
  <2> QED BY <2>1, <2>2
<1>6. CASE SendTemplate(s)
  <2>1. sweep[s].pc = "calling" /\ sweep[s] \in Run
    BY <1>6 DEF SendTemplate
  <2>2. \A answer : [sweep[s] EXCEPT !.pc = answer].now = sweep[s].now
    BY <2>1 DEF Run
  <2> QED BY <1>6, <2>2 DEF SendTemplate
<1>7. CASE FindDue(s)
  BY <1>7 DEF FindDue
<1> QED BY <1>2, <1>3, <1>4, <1>5, <1>6, <1>7, RunBehind DEF Continue

\* ... and schedules nothing but what it read, for the moment it read.
LEMMA LoopSchedules ==
  ASSUME TypeOK, NEW s \in Sweep, Continue(s) \/ Throw(s), sweep[s].pc \in Looping,
         NEW k \in Key, row'[k].state = "SCHEDULED"
  PROVE  row'[k] = row[k] \/ \E d \in sweep[s].due : d.key = k /\ row'[k].at = d.at
<1> USE DEF TypeOK, Step, Looping, Sends
<1>1. CASE TemplateFor(s) \/ SendTemplate(s) \/ Throw(s)
  BY <1>1 DEF TemplateFor, SendTemplate, Throw, OnlyReads
<1>2. ASSUME NEW d \in Upcoming(s), Block(s, d) \/ Postpone(s, d)
      PROVE  row'[k] = row[k] \/ (d \in sweep[s].due /\ d.key = k /\ row'[k].at = d.at)
  <2>1. d \in sweep[s].due /\ d \in Due
    BY RunFields DEF Upcoming
  <2>2. d.key \in Key
    BY <2>1 DEF Due
  <2>3. CASE Block(s, d)
    <3>1. row' = Updated(d.key, Cancelled)
      BY <2>3 DEF Block
    <3>2. Cancelled.state # "SCHEDULED"
      BY DEF Cancelled
    <3> QED BY <2>2, <3>1, <3>2 DEF Updated
  <2>4. CASE Postpone(s, d)
    <3>1. PICK r : r = As([state |-> "SCHEDULED", at |-> d.at])
      OBVIOUS
    <3>2. r.at = d.at
      BY <3>1 DEF As
    <3>3. row' = Updated(d.key, r)
      BY <2>4, <3>1 DEF Postpone
    <3> QED BY <2>1, <2>2, <3>2, <3>3 DEF Updated
  <2> QED BY <1>2, <2>3, <2>4
<1>3. ASSUME NEW d \in Upcoming(s), Claim(s, d) PROVE row'[k] = row[k]
  <2>1. d.key \in Key
    BY RunFields DEF Upcoming, Due
  <2>2. CASE row[d.key].state = "SCHEDULED"
    <3>1. row[d.key] = [state |-> "SCHEDULED", at |-> row[d.key].at, since |-> row[d.key].since]
      BY <2>1, <2>2, RowFields
    <3>2. row' = [row EXCEPT ![d.key] = [state |-> "SENDING", at |-> row[d.key].at, since |-> now]]
      BY <1>3, <2>1, <2>2, <3>1 DEF Claim
    <3> QED BY <2>1, <3>2
  <2>3. CASE row[d.key].state # "SCHEDULED"
    BY <1>3, <2>3 DEF Claim
  <2> QED BY <2>2, <2>3
<1>4. CASE Mark(s)
  <2>1. PICK r : /\ r.state \in {"SENT", "FAILED"}
                 /\ row' = Updated(sweep[s].key, r)
    <3> DEFINE marked == [state |-> IF sweep[s].pc = "arrived" THEN "SENT" ELSE "FAILED",
                          at |-> row[sweep[s].key].at, since |-> NoTime]
    <3>1. marked.state \in {"SENT", "FAILED"}
      OBVIOUS
    <3>2. row' = Updated(sweep[s].key, marked)
      BY <1>4 DEF Mark
    <3> HIDE DEF marked
    <3> QED BY <3>1, <3>2
  <2>2. sweep[s].key \in Key
    BY <1>4, RunFields DEF Mark
  <2> QED BY <2>1, <2>2 DEF Updated
<1>5. ~FailStaleSending(s) /\ ~FindAppointmentsToReconcile(s) /\ ~FindOrphanScheduled(s)
      /\ ~FindByAppointmentIds(s) /\ ~LoadTenant(s) /\ ~WriteRow(s) /\ ~CancelOrphan(s) /\ ~FindDue(s)
  BY DEF FailStaleSending, FindAppointmentsToReconcile, FindOrphanScheduled, FindByAppointmentIds,
         LoadTenant, WriteRow, CancelOrphan, FindDue
<1> QED BY <1>1, <1>2, <1>3, <1>4, <1>5 DEF Continue

\* What is due, as it was read.
ReadRight(s, d) ==
  /\ d.at <= sweep[s].now
  /\ row[d.key].state = "SCHEDULED" => row[d.key].at = d.at
  /\ d.key[1] \notin changed[s] => d.life = appt[d.key[1]].life /\ d.start = appt[d.key[1]].start

\* What is being sent was found true.
FoundTrue(s) ==
  LET k == sweep[s].key
  IN k[1] \notin changed[s] =>
       /\ appt[k[1]].life = "open" /\ appt[k[1]].start > sweep[s].now
       /\ row[k].at = appt[k[1]].start - k[2] /\ row[k].at <= sweep[s].now

\* What is due stays what was read, whatever happens.
LEMMA ReadRightNext ==
  ASSUME RemindersInv, TruthInv, OneRunAtATime, [Next]_vars, NEW s \in Sweep,
         sweep'[s].pc \in Looping, NEW d \in sweep'[s].due
  PROVE  ReadRight(s, d)'
<1> USE DEF RemindersInv, TypeOK
<1>0. sweep'[s] # idle
  BY DEF idle, Looping, Sends
<1>1. CASE ~(Start(s) \/ Continue(s) \/ Throw(s))
  <2>1. /\ sweep'[s] = sweep[s] /\ changed[s] \subseteq changed'[s]
        /\ \A a \in Appt \ changed'[s] : appt'[a] = appt[a]
        /\ \A k \in Key : row'[k] = row[k] \/ row'[k] = NoRow
    BY <1>0, <1>1, AroundARun
  <2>2. ReadRight(s, d)
    BY <2>1 DEF ReadRight, TruthInv
  <2>3. d.key \in Key /\ d.key[1] \in Appt
    BY <2>1, RunFields DEF Due, Key, Looping
  <2> QED BY <2>1, <2>2, <2>3 DEF ReadRight, NoRow
<1>2. CASE FindDue(s)
  <2>1. /\ d.at <= sweep[s].now /\ d.at = row[d.key].at
        /\ d.life = appt[d.key[1]].life /\ d.start = appt[d.key[1]].start
        /\ sweep'[s].now = sweep[s].now
    <3> DEFINE found(k) == [key |-> k, at |-> row[k].at, life |-> appt[k[1]].life,
                            start |-> appt[k[1]].start, phone |-> appt[k[1]].phone,
                            enabled |-> setting.enabled]
    <3>1. /\ sweep'[s].now = sweep[s].now
          /\ \E k \in Key : d = found(k) /\ row[k].at <= sweep[s].now
      BY <1>0, <1>2 DEF FindDue, Step
    <3>2. PICK k \in Key : d = found(k) /\ row[k].at <= sweep[s].now
      BY <3>1
    <3>3. d.key = k /\ d.at = row[k].at /\ d.life = appt[k[1]].life /\ d.start = appt[k[1]].start
      BY <3>2
    <3> QED BY <3>1, <3>2, <3>3
  <2>2. row' = row
    BY <1>2 DEF FindDue
  <2>3. appt' = appt
    BY <1>2, RunLeavesAlone DEF Continue, env
  <2> QED BY <2>1, <2>2, <2>3 DEF ReadRight
<1>3. CASE (Start(s) \/ Continue(s) \/ Throw(s)) /\ ~FindDue(s)
  <2>1. /\ sweep[s].pc \in Looping /\ d \in sweep[s].due
    BY <1>3, LoopShrinks
  <2>2. Continue(s) \/ Throw(s)
    BY <1>3, <2>1 DEF Start, Looping, Sends
  <2>3. sweep'[s].now = sweep[s].now
    BY <2>1, <2>2, LoopKeepsNow
  <2>4. changed'[s] = changed[s] /\ appt' = appt
    BY <1>0, <1>3, RunKeepsHistory
  <2>5. ReadRight(s, d)
    BY <2>1 DEF ReadRight, TruthInv
  <2>6. d.key \in Key
    BY <2>1, RunFields DEF Due, Looping
  <2>7. row'[d.key].state = "SCHEDULED" => row'[d.key].at = d.at
    <3> SUFFICES ASSUME row'[d.key].state = "SCHEDULED" PROVE row'[d.key].at = d.at
      OBVIOUS
    <3>1. \/ row'[d.key] = row[d.key]
          \/ \E e \in sweep[s].due : e.key = d.key /\ row'[d.key].at = e.at
      BY <2>1, <2>2, <2>6, LoopSchedules
    <3>2. \A e \in sweep[s].due : e.key = d.key => e = d
      BY <2>1 DEF OneEach
    <3> QED BY <2>5, <3>1, <3>2 DEF ReadRight
  <2> QED BY <2>3, <2>4, <2>5, <2>7 DEF ReadRight
<1> QED BY <1>1, <1>2, <1>3

\* A reminder is taken when what was read of it makes it true, and is not rewritten then.
LEMMA FoundTrueNext ==
  ASSUME RemindersInv, TruthInv, OneRunAtATime, [Next]_vars, NEW s \in Sweep,
         sweep'[s].pc = "calling"
  PROVE  FoundTrue(s)'
<1> USE DEF RemindersInv, TypeOK
<1>0. sweep'[s] # idle
  BY DEF idle
<1>1. CASE ~(Start(s) \/ Continue(s) \/ Throw(s))
  <2>1. /\ sweep'[s] = sweep[s] /\ changed[s] \subseteq changed'[s]
        /\ \A a \in Appt \ changed'[s] : appt'[a] = appt[a]
        /\ \A k \in Key : k[1] \notin changed'[s] => row'[k] = row[k]
    BY <1>0, <1>1, AroundARun
  <2>2. FoundTrue(s)
    BY <2>1 DEF FoundTrue, TruthInv
  <2>3. sweep[s].key \in Key /\ sweep[s].key[1] \in Appt
    BY <2>1, RunFields DEF Key, Sends
  <2> QED BY <2>1, <2>2, <2>3 DEF FoundTrue
<1>2. CASE Start(s) \/ Continue(s) \/ Throw(s)
  <2>1. PICK d \in Upcoming(s) : /\ Claim(s, d) /\ row[d.key].state = "SCHEDULED"
                                 /\ sweep'[s].key = d.key
    BY <1>2, SendsFrom DEF Sends
  <2>2. d \in sweep[s].due /\ sweep[s].pc = "sending" /\ d \in Due
    BY RunFields DEF Upcoming
  <2>3. ReadRight(s, d)
    BY <2>2 DEF ReadRight, TruthInv, Looping
  <2>4. d.key \in Key /\ d.start \in Time /\ d.key[2] \in Offset
    BY <2>2 DEF Due, Key
  <2>5. d.start > sweep[s].now /\ d.life = "open" /\ d.at = d.start - d.key[2]
    <3>1. Valid(d, sweep[s].now)
      BY <2>1 DEF Claim
    <3> DEFINE what == Desired(d.life = "open", d, d.key[2], d.start - d.key[2] - 1)
    <3>2. what.state = "SCHEDULED" /\ what.at = d.at
      BY <3>1 DEF Valid
    <3>3. d.life = "open" /\ what.at = d.start - d.key[2]
      BY <3>2 DEF Desired
    <3> QED BY <3>1, <3>2, <3>3 DEF Valid
  <2>6. row'[d.key].at = row[d.key].at
    <3>1. row[d.key] = [state |-> "SCHEDULED", at |-> row[d.key].at, since |-> row[d.key].since]
      BY <2>1, <2>4, RowFields
    <3>2. row' = [row EXCEPT ![d.key] = [state |-> "SENDING", at |-> row[d.key].at, since |-> now]]
      BY <2>1, <2>4, <3>1 DEF Claim
    <3> QED BY <2>4, <3>2
  <2>7. sweep'[s].now = sweep[s].now
    BY <1>2, <2>2, LoopKeepsNow DEF Looping, Sends, Start
  <2>8. changed'[s] = changed[s] /\ appt' = appt
    BY <1>0, <1>2, RunKeepsHistory
  <2> QED BY <2>1, <2>3, <2>5, <2>6, <2>7, <2>8 DEF FoundTrue, ReadRight
<1> QED BY <1>1, <1>2

\* Every step keeps what a run has read and taken true.
THEOREM TruthNext == RemindersInv /\ TruthInv /\ OneRunAtATime /\ [Next]_vars => TruthInv'
<1> SUFFICES ASSUME RemindersInv, TruthInv, OneRunAtATime, [Next]_vars, NEW s \in Sweep
             PROVE  /\ sweep'[s].pc \in Looping => \A d \in sweep'[s].due : ReadRight(s, d)'
                    /\ sweep'[s].pc = "calling" => FoundTrue(s)'
  BY DEF TruthInv, ReadRight, FoundTrue
<1> QED BY ReadRightNext, FoundTrueNext

\* "What reaches a customer is true", for any number of appointments and offsets, whichever
\* stages of the run failed and whatever changed before it.
THEOREM OnlyTheTruthIsTold ==
  ASSUME OneRunAtATime
  PROVE  Spec => TellsTheTruth
<1>1. Init => TruthInv
  BY DEF Init, TruthInv, Looping, Sends, idle
<1>2. RemindersInv /\ TruthInv /\ [Next]_vars => TruthInv'
  BY TruthNext
<1>3. ASSUME RemindersInv, TruthInv, [Next]_vars, NEW k \in Key, delivered'[k] > delivered[k]
      PROVE  \E s \in Sweep :
               /\ sweep[s].pc = "calling" /\ sweep[s].key = k
               /\ k[1] \notin changed[s] =>
                    /\ appt[k[1]].life = "open"
                    /\ appt[k[1]].start > sweep[s].now
                    /\ row[k].at = appt[k[1]].start - k[2] /\ row[k].at <= sweep[s].now
  <2>1. delivered[k] \in Nat
    BY <1>3 DEF RemindersInv, TypeOK
  <2>2. PICK s \in Sweep : SendTemplate(s) /\ sweep[s].pc = "calling" /\ sweep[s].key = k
    BY <1>3, <2>1, DeliveredByCall DEF RemindersInv
  <2> QED BY <1>3, <2>2 DEF TruthInv
<1>4. RemindersInv /\ TruthInv /\ [Next]_vars =>
        [\A k \in Key : delivered'[k] > delivered[k] =>
           \E s \in Sweep :
             /\ sweep[s].pc = "calling" /\ sweep[s].key = k
             /\ k[1] \notin changed[s] =>
                  /\ appt[k[1]].life = "open"
                  /\ appt[k[1]].start > sweep[s].now
                  /\ row[k].at = appt[k[1]].start - k[2] /\ row[k].at <= sweep[s].now]_vars
  BY <1>3
<1> QED BY <1>1, <1>2, <1>4, InvariantCorrect, PTL DEF Spec, TellsTheTruth
-------------------------------------------------------------------------------
\* What the reconciliation answers for

\* What a run knows, at whatever stage it is.
Known(s) ==
  /\ sweep[s].pc = "due" /\ s \notin upset =>
       \A k \in Key : k[1] \notin changed[s] => Corresponds(k, sweep[s].now)
  /\ KnowsOpen(s) /\ KnowsOrphans(s) /\ KnowsRows(s) /\ Converging(s)

\* The row is what corresponds, after the step.
CorrespondsAfter(k, t) ==
  LET p == appt'[k[1]]
  IN \/ row'[k].state \in Frozen
     \/ InHorizon(p, t) /\ k[2] \in setting'.offsets /\ row'[k] = As(Desired(TRUE, p, k[2], t))
     \/ InHorizon(p, t) /\ k[2] \notin setting'.offsets /\ row'[k].state # "SCHEDULED"
     \/ p.life = "closed" /\ row'[k].state # "SCHEDULED"
     \/ p.life \in {"unborn", "deleted"} /\ row'[k].state = "none"
     \/ p.life = "open" /\ ~InHorizon(p, t)

\* A run that goes round its loops keeps what it knows if each row that still does not
\* correspond is on one of its lists, and what is on them corresponds.
LEMMA GoesRound ==
  ASSUME NEW s \in Sweep, NEW t, NEW W, NEW O, sweep'[s] = Reconciling(t, W, O), s \notin upset',
         \A k \in Key : k[1] \notin changed'[s] =>
           /\ CorrespondsAfter(k, t) \/ (\E w \in W : w.key = k) \/ k \in O
           /\ \A w \in W : w.key = k => Rightly(w, k, t)'
           /\ appt'[k[1]].life = "closed" /\ row'[k].state = "SCHEDULED" => k \in O
           /\ k \in O => appt'[k[1]].life = "closed"
  PROVE  Known(s)'
<1>1. CASE W = {} /\ O = {}
  <2>1. sweep'[s] = [pc |-> "due", now |-> t]
    BY <1>1 DEF Reconciling
  <2>2. \A k \in Key : k[1] \notin changed'[s] => CorrespondsAfter(k, t)
    BY <1>1
  <2>3. sweep'[s].pc = "due" /\ sweep'[s].now = t
    BY <2>1
  <2> QED BY <2>2, <2>3 DEF Known, KnowsOpen, KnowsOrphans, KnowsRows, Converging, Corresponds,
                          CorrespondsAfter
<1>2. CASE ~(W = {} /\ O = {})
  <2>1. sweep'[s] = [pc |-> "writing", now |-> t, writes |-> W, orphans |-> O]
    BY <1>2 DEF Reconciling
  <2>2. sweep'[s].pc = "writing" /\ sweep'[s].now = t /\ sweep'[s].writes = W /\ sweep'[s].orphans = O
    BY <2>1
  <2>3. KnowsOrphans(s)'
    BY <2>2 DEF KnowsOrphans
  <2>4. Converging(s)'
    BY <2>2 DEF Converging, Corresponds, CorrespondsAfter, Rightly
  <2>5. KnowsOpen(s)' /\ KnowsRows(s)' /\ sweep'[s].pc # "due"
    BY <2>2 DEF KnowsOpen, KnowsRows
  <2> QED BY <2>3, <2>4, <2>5 DEF Known
<1> QED BY <1>1, <1>2

\* A run that reads nothing more of the agenda has nothing to know.
LEMMA NothingToKnow ==
  ASSUME NEW s \in Sweep,
         \/ sweep'[s].pc \notin {"orphans", "stored", "tenant", "writing", "due"}
         \/ sweep'[s].pc = "due" /\ s \in upset'
  PROVE  Known(s)'
BY DEF Known, KnowsOpen, KnowsOrphans, KnowsRows, Converging

\* What happens around a run leaves it knowing what it knew.
LEMMA AroundKeepsKnown ==
  ASSUME RemindersInv, OneRunAtATime, [Next]_vars, NEW s \in Sweep,
         ~(Start(s) \/ Continue(s) \/ Throw(s)), sweep'[s] # idle, Known(s)
  PROVE  Known(s)'
<1> USE DEF RemindersInv, TypeOK
<1>1. /\ sweep'[s] = sweep[s] /\ changed[s] \subseteq changed'[s]
      /\ \A a \in Appt \ changed'[s] : appt'[a] = appt[a]
      /\ \A k \in Key : k[1] \notin changed'[s] => row'[k] = row[k]
      /\ sweep[s].pc \in FirstStages /\ s \notin upset' => s \notin upset /\ setting' = setting
  BY AroundARun
<1>2. \A k \in Key : k[1] \in Appt
  BY DEF Key
<1>3. \A k \in Key : k[1] \notin changed'[s] =>
        k[1] \notin changed[s] /\ appt'[k[1]] = appt[k[1]] /\ row'[k] = row[k]
  BY <1>1, <1>2
<1>4. sweep'[s].pc = "due" /\ s \notin upset' =>
        \A k \in Key : k[1] \notin changed'[s] => Corresponds(k, sweep[s].now)'
  BY <1>1, <1>3 DEF Known, Corresponds, FirstStages
<1>5. KnowsOpen(s)'
  <2>1. sweep[s].pc \in {"orphans", "stored", "tenant"} => \A p \in sweep[s].open : p.id \in Appt
    BY RunFields DEF Seen
  <2>2. KnowsOpen(s)
    BY DEF Known
  <2> QED BY <1>1, <2>1, <2>2 DEF KnowsOpen
<1>6. KnowsOrphans(s)'
  BY <1>1, <1>3 DEF Known, KnowsOrphans, FirstStages
<1>7. KnowsRows(s)'
  BY <1>1, <1>3 DEF Known, KnowsRows
<1>8. Converging(s)'
  <2>1. CASE sweep[s].pc = "writing" /\ s \notin upset'
    <3>1. s \notin upset /\ setting' = setting
      BY <1>1, <2>1 DEF FirstStages
    <3>2. ASSUME NEW k \in Key, k[1] \notin changed'[s]
          PROVE  /\ \/ Corresponds(k, sweep[s].now)'
                    \/ (\E w \in sweep[s].writes : w.key = k) \/ k \in sweep[s].orphans
                 /\ \A w \in sweep[s].writes : w.key = k => Rightly(w, k, sweep[s].now)'
      <4>1. k[1] \notin changed[s] /\ appt'[k[1]] = appt[k[1]] /\ row'[k] = row[k]
        BY <1>3, <3>2
      <4>2. /\ \/ Corresponds(k, sweep[s].now)
               \/ (\E w \in sweep[s].writes : w.key = k) \/ k \in sweep[s].orphans
            /\ \A w \in sweep[s].writes : w.key = k => Rightly(w, k, sweep[s].now)
        BY <2>1, <3>1, <4>1 DEF Known, Converging
      <4>3. Corresponds(k, sweep[s].now) => Corresponds(k, sweep[s].now)'
        BY <1>1, <3>1, <4>1 DEF Corresponds
      <4>4. ASSUME NEW w, Rightly(w, k, sweep[s].now) PROVE Rightly(w, k, sweep[s].now)'
        BY <1>1, <3>1, <4>1, <4>4 DEF Rightly
      <4> QED BY <4>2, <4>3, <4>4
    <3> QED BY <1>1, <3>2 DEF Converging
  <2>2. CASE ~(sweep[s].pc = "writing" /\ s \notin upset')
    BY <1>1, <2>2 DEF Converging
  <2> QED BY <2>1, <2>2
<1> QED BY <1>1, <1>4, <1>5, <1>6, <1>7, <1>8 DEF Known, Corresponds

\* The queries leave the run knowing what they have read.
LEMMA ReadsAreKnown ==
  ASSUME RemindersInv, NEW s \in Sweep, Known(s),
         FindAppointmentsToReconcile(s) \/ FindOrphanScheduled(s) \/ FindByAppointmentIds(s)
  PROVE  Known(s)'
<1> USE DEF RemindersInv, TypeOK, Step
<1>0. appt' = appt /\ row' = row /\ changed' = changed /\ upset' = upset
  BY DEF FindAppointmentsToReconcile, FindOrphanScheduled, FindByAppointmentIds, OnlyReads, env
<1>1. CASE FindAppointmentsToReconcile(s)
  <2> DEFINE seen(a) == [id |-> a, start |-> appt[a].start, phone |-> appt[a].phone]
             open == {a \in Appt : appt[a].life = "open" /\ appt[a].start > sweep[s].now
                                     /\ appt[a].start <= sweep[s].now + Horizon}
  <2>1. /\ sweep'[s].pc = "orphans" /\ sweep'[s].now = sweep[s].now
        /\ sweep'[s].open = {seen(a) : a \in open}
    BY <1>1 DEF FindAppointmentsToReconcile
  <2>2. \A a : seen(a).id = a /\ seen(a).start = appt[a].start /\ seen(a).phone = appt[a].phone
    OBVIOUS
  <2>3. sweep[s].now \in Time /\ \A a \in Appt : appt[a].start \in Time
    BY <1>1, RunFields DEF FindAppointmentsToReconcile, Appointment
  <2>4. \A a \in Appt : a \in open <=> InHorizon(appt[a], sweep[s].now)
    BY <2>3, NumberAssumption DEF InHorizon, Time
  <2> HIDE DEF seen, open
  <2>5. open \subseteq Appt
    BY DEF open
  <2>6. KnowsOpen(s)'
    BY <1>0, <2>1, <2>2, <2>4, <2>5 DEF KnowsOpen
  <2> QED BY <2>1, <2>6 DEF Known, KnowsOrphans, KnowsRows, Converging
<1>2. CASE FindOrphanScheduled(s)
  <2>1. /\ sweep[s].pc = "orphans" /\ sweep'[s].pc = "stored" /\ sweep'[s].now = sweep[s].now
        /\ sweep'[s].open = sweep[s].open /\ sweep'[s].orphans = Orphans
    BY <1>2 DEF FindOrphanScheduled
  <2>2. KnowsOpen(s)'
    BY <1>0, <2>1 DEF Known, KnowsOpen
  <2>3. KnowsOrphans(s)'
    BY <1>0, <2>1 DEF KnowsOrphans, Orphans
  <2> QED BY <2>1, <2>2, <2>3 DEF Known, KnowsRows, Converging
<1>3. CASE FindByAppointmentIds(s)
  <2> DEFINE stored == [k \in Key |-> IF k[1] \in {p.id : p \in sweep[s].open} THEN row[k] ELSE NoRow]
  <2>1. /\ sweep[s].pc = "stored" /\ sweep'[s].pc = "tenant" /\ sweep'[s].now = sweep[s].now
        /\ sweep'[s].open = sweep[s].open /\ sweep'[s].orphans = sweep[s].orphans
        /\ sweep'[s].stored = stored
    BY <1>3 DEF FindByAppointmentIds
  <2>2. KnowsOpen(s)' /\ KnowsOrphans(s)'
    BY <1>0, <2>1 DEF Known, KnowsOpen, KnowsOrphans
  <2>3. KnowsRows(s)'
    BY <1>0, <2>1 DEF KnowsRows
  <2> QED BY <2>1, <2>2, <2>3 DEF Known, Converging
<1> QED BY <1>1, <1>2, <1>3

\* A row that is not what it should be, or is scheduled for an offset that the business left ...
ToWrite(run, offsets, t, k) ==
  \/ \E p \in run.open, o \in offsets :
       k = <<p.id, o>> /\ Needs(run.stored[k], Desired(TRUE, p, o, t))
  \/ run.stored[k].state = "SCHEDULED" /\ k[2] \notin offsets

\* ... and one that the loops have.
Written(run, offsets, t, k) == \E w \in WritesFor(run, offsets, t) : w.key = k

\* The loops of reconcile leave out neither a row that is not what it should be nor one
\* scheduled for an offset that the business has left.
LEMMA WritesForHas ==
  ASSUME NEW run, NEW offsets, NEW t, NEW k \in Key, ToWrite(run, offsets, t, k)
  PROVE  Written(run, offsets, t, k)
<1> DEFINE upsert(p, o) == [key |-> <<p.id, o>>, want |-> Desired(TRUE, p, o, t), how |-> "upsert"]
           update(j) == [key |-> j, want |-> [state |-> "CANCELLED", at |-> NoTime], how |-> "update"]
<1>1. \A p, o : upsert(p, o).key = <<p.id, o>> /\ upsert(p, o).want = Desired(TRUE, p, o, t)
  OBVIOUS
<1>2. \A j : update(j).key = j
  OBVIOUS
<1>3. WritesFor(run, offsets, t) =
        {x \in {upsert(p, o) : p \in run.open, o \in offsets} : Needs(run.stored[x.key], x.want)}
        \cup {update(j) : j \in {i \in Key : run.stored[i].state = "SCHEDULED" /\ i[2] \notin offsets}}
  BY DEF WritesFor
<1> HIDE DEF upsert, update
<1>4. ASSUME NEW p \in run.open, NEW o \in offsets, k = <<p.id, o>>,
             Needs(run.stored[k], Desired(TRUE, p, o, t))
      PROVE  \E w \in WritesFor(run, offsets, t) : w.key = k
  <2>1. Needs(run.stored[upsert(p, o).key], upsert(p, o).want)
    BY <1>1, <1>4
  <2>2. upsert(p, o) \in WritesFor(run, offsets, t)
    BY <1>3, <2>1
  <2> QED BY <1>1, <1>4, <2>2
<1>5. ASSUME run.stored[k].state = "SCHEDULED", k[2] \notin offsets
      PROVE  update(k) \in WritesFor(run, offsets, t)
  BY <1>3, <1>5
<1> QED BY <1>2, <1>4, <1>5 DEF ToWrite, Written

\* reconcile decides rightly: what it leaves out of its lists corresponds already.
LEMMA DecidesRightly ==
  ASSUME RemindersInv, NEW s \in Sweep, Known(s), sweep[s].pc = "tenant",
         NEW k \in Key, k[1] \notin changed[s], s \notin upset, NEW W,
         W = WritesFor(sweep[s], setting.offsets, sweep[s].now)
  PROVE  /\ Corresponds(k, sweep[s].now) \/ (\E w \in W : w.key = k) \/ k \in sweep[s].orphans
         /\ \A w \in W : w.key = k => Rightly(w, k, sweep[s].now)
<1> USE DEF RemindersInv, TypeOK
<1>0. PICK run, t, a, offsets :
        run \in Run /\ run = sweep[s] /\ t = run.now /\ a = k[1] /\ offsets = setting.offsets
  OBVIOUS
<1>1. a \in Appt /\ k = <<a, k[2]>> /\ k[2] \in Offset /\ offsets \subseteq Offset
  BY <1>0, SettingAssumption DEF Key
<1>2. /\ run.open \in SUBSET Seen /\ run.stored \in [Key -> Row] /\ t \in Time
  BY <1>0, RunFields
<1>3. \A p \in run.open : p.id = a =>
        InHorizon(appt[a], t) /\ p.start = appt[a].start /\ p.phone = appt[a].phone
  BY <1>0 DEF Known, KnowsOpen
<1>4. InHorizon(appt[a], t) => \E p \in run.open : p.id = a
  BY <1>0, <1>1 DEF Known, KnowsOpen
<1>5. /\ (\E p \in run.open : p.id = a) => run.stored[k] = row[k]
      /\ ~(\E p \in run.open : p.id = a) => run.stored[k] = NoRow
  BY <1>0 DEF Known, KnowsRows
<1>6. W = WritesFor(run, offsets, t)
  BY <1>0
<1>7. ASSUME NEW w \in W, w.key = k PROVE Rightly(w, k, t)
  <2>1. CASE \E p \in run.open, o \in offsets :
               w = [key |-> <<p.id, o>>, want |-> Desired(TRUE, p, o, t), how |-> "upsert"]
    <3>1. PICK p \in run.open, o \in offsets :
               w = [key |-> <<p.id, o>>, want |-> Desired(TRUE, p, o, t), how |-> "upsert"]
      BY <2>1
    <3>2. k = <<p.id, o>> /\ w.want = Desired(TRUE, p, o, t) /\ w.how = "upsert"
      BY <1>7, <3>1
    <3>3. p.id = a /\ o = k[2]
      BY <1>0, <3>2
    <3>4. p.start = appt[a].start /\ p.phone = appt[a].phone /\ InHorizon(appt[a], t)
      BY <1>3, <3>3
    <3>5. w.want = Desired(TRUE, appt[a], k[2], t)
      BY <3>2, <3>3, <3>4 DEF Desired
    <3> QED BY <1>0, <1>1, <3>2, <3>3, <3>4, <3>5 DEF Rightly
  <2>2. CASE \E j \in Key :
               /\ w = [key |-> j, want |-> [state |-> "CANCELLED", at |-> NoTime], how |-> "update"]
               /\ run.stored[j].state = "SCHEDULED" /\ j[2] \notin offsets
    <3>1. /\ w.want.state = "CANCELLED" /\ w.how = "update"
          /\ run.stored[k].state = "SCHEDULED" /\ k[2] \notin offsets
      BY <1>7, <2>2
    <3>2. \E p \in run.open : p.id = a
      BY <1>5, <3>1 DEF NoRow
    <3> QED BY <1>0, <1>3, <3>1, <3>2 DEF Rightly
  <2>3. Decided(run, offsets, t, w)
    BY <1>6, <1>7, WritesForCases
  <2> QED BY <2>1, <2>2, <2>3 DEF Decided
<1>8. Corresponds(k, t) \/ (\E w \in W : w.key = k) \/ k \in run.orphans
  <2>1. CASE appt[a].life \in {"unborn", "deleted"}
    BY <1>0, <2>1 DEF ForeignKey, Corresponds
  <2>2. CASE appt[a].life = "closed"
    BY <1>0, <2>2 DEF Known, KnowsOrphans, Corresponds
  <2>3. CASE appt[a].life = "open" /\ ~InHorizon(appt[a], t)
    BY <1>0, <2>3 DEF Corresponds
  <2>4. CASE InHorizon(appt[a], t) /\ k[2] \in offsets
    <3>1. PICK p \in run.open : p.id = a
      BY <1>4, <2>4
    <3>2. run.stored[k] = row[k]
      BY <1>5, <3>1
    <3>3. p.start = appt[a].start /\ p.phone = appt[a].phone
      BY <1>3, <3>1
    <3>4. PICK want : want = Desired(TRUE, p, k[2], t)
      OBVIOUS
    <3>5. want = Desired(TRUE, appt[a], k[2], t)
      BY <3>3, <3>4 DEF Desired
    <3>6. <<p.id, k[2]>> = k
      BY <1>1, <3>1
    <3>7. CASE Needs(row[k], want)
      <4>1. Needs(run.stored[k], Desired(TRUE, p, k[2], t))
        BY <3>2, <3>4, <3>7
      <4>2. ToWrite(run, offsets, t, k)
        BY <2>4, <3>6, <4>1 DEF ToWrite
      <4>3. Written(run, offsets, t, k)
        BY <4>2, WritesForHas
      <4> QED BY <1>6, <4>3 DEF Written
    <3>8. CASE ~Needs(row[k], want) /\ row[k].state \notin Frozen
      <4>1. row[k].state = want.state /\ row[k].at = want.at
        BY <3>8 DEF Needs
      <4>2. row[k] = [state |-> row[k].state, at |-> row[k].at, since |-> NoTime]
        BY <3>8, RowFields DEF Frozen
      <4>3. row[k] = As(want)
        BY <4>1, <4>2 DEF As
      <4> QED BY <1>0, <2>4, <3>5, <4>3 DEF Corresponds
    <3>9. CASE row[k].state \in Frozen
      BY <3>9 DEF Corresponds
    <3> QED BY <3>7, <3>8, <3>9
  <2>5. CASE InHorizon(appt[a], t) /\ k[2] \notin offsets
    <3>1. run.stored[k] = row[k]
      BY <1>4, <1>5, <2>5
    <3>2. CASE row[k].state = "SCHEDULED"
      <4>1. ToWrite(run, offsets, t, k)
        BY <2>5, <3>1, <3>2 DEF ToWrite
      <4>2. Written(run, offsets, t, k)
        BY <4>1, WritesForHas
      <4> QED BY <1>6, <4>2 DEF Written
    <3>3. CASE row[k].state # "SCHEDULED"
      BY <1>0, <2>5, <3>3 DEF Corresponds
    <3> QED BY <3>2, <3>3
  <2>6. appt[a].life \in {"unborn", "open", "closed", "deleted"}
    BY <1>1 DEF Appointment
  <2> QED BY <2>1, <2>2, <2>3, <2>4, <2>5, <2>6
<1> QED BY <1>0, <1>7, <1>8

\* A row that corresponds, and that a step leaves alone, still does.
LEMMA CorrespondsStill ==
  ASSUME NEW k, NEW t, Corresponds(k, t), appt' = appt, setting' = setting, row'[k] = row[k]
  PROVE  CorrespondsAfter(k, t)
BY DEF Corresponds, CorrespondsAfter

\* The offsets are known: the run has on its lists what does not correspond.
LEMMA LoadIsKnown ==
  ASSUME RemindersInv, NEW s \in Sweep, Known(s), LoadTenant(s), s \notin upset'
  PROVE  Known(s)'
<1> USE DEF RemindersInv, TypeOK
<1>1. /\ appt' = appt /\ row' = row /\ changed' = changed /\ upset' = upset /\ setting' = setting
      /\ sweep[s].pc = "tenant"
  BY DEF LoadTenant, OnlyReads, env
<1>2. PICK t, W, O : /\ t = sweep[s].now /\ O = sweep[s].orphans
                     /\ W = WritesFor(sweep[s], setting.offsets, sweep[s].now)
  OBVIOUS
<1>3. sweep'[s] = Reconciling(t, W, O)
  BY <1>2 DEF LoadTenant, Step
<1>4. ASSUME NEW k \in Key, k[1] \notin changed'[s]
      PROVE  /\ CorrespondsAfter(k, t) \/ (\E w \in W : w.key = k) \/ k \in O
             /\ \A w \in W : w.key = k => Rightly(w, k, t)'
             /\ appt'[k[1]].life = "closed" /\ row'[k].state = "SCHEDULED" => k \in O
             /\ k \in O => appt'[k[1]].life = "closed"
  <2>1. /\ Corresponds(k, t) \/ (\E w \in W : w.key = k) \/ k \in O
        /\ \A w \in W : w.key = k => Rightly(w, k, t)
    BY <1>1, <1>2, <1>4, DecidesRightly
  <2>2. CorrespondsAfter(k, t) \/ (\E w \in W : w.key = k) \/ k \in O
    BY <1>1, <2>1, CorrespondsStill
  <2>3. \A w \in W : w.key = k => Rightly(w, k, t)'
    BY <1>1, <2>1 DEF Rightly
  <2>4. /\ appt'[k[1]].life = "closed" /\ row'[k].state = "SCHEDULED" => k \in O
        /\ k \in O => appt'[k[1]].life = "closed"
    BY <1>1, <1>2, <1>4 DEF Known, KnowsOrphans
  <2> QED BY <2>2, <2>3, <2>4
<1> QED BY <1>3, <1>4, GoesRound

\* A write of the list makes its row correspond.
LEMMA WriteIsKnown ==
  ASSUME RemindersInv, NEW s \in Sweep, Known(s), WriteRow(s), s \notin upset'
  PROVE  Known(s)'
<1> USE DEF RemindersInv, TypeOK
<1>1. /\ appt' = appt /\ changed' = changed /\ setting' = setting /\ sweep[s].pc = "writing"
  BY DEF WriteRow, env
<1>2. sweep[s].writes \in SUBSET Write
  BY <1>1, RunFields
<1>3. PICK v \in sweep[s].writes :
        /\ sweep'[s] = Reconciling(sweep[s].now, sweep[s].writes \ {v}, sweep[s].orphans)
        /\ row' = IF v.how = "upsert" THEN [row EXCEPT ![v.key] = As(v.want)]
                  ELSE Updated(v.key, As(v.want))
        /\ upset' = upset
  BY DEF WriteRow, Step
<1>4. v.key \in Key /\ v.how \in {"upsert", "update"}
  BY <1>2 DEF Write
<1>5. PICK t, W, O : t = sweep[s].now /\ W = sweep[s].writes \ {v} /\ O = sweep[s].orphans
  OBVIOUS
<1>6. ASSUME NEW k \in Key, k[1] \notin changed'[s]
      PROVE  /\ CorrespondsAfter(k, t) \/ (\E w \in W : w.key = k) \/ k \in O
             /\ \A w \in W : w.key = k => Rightly(w, k, t)'
             /\ appt'[k[1]].life = "closed" /\ row'[k].state = "SCHEDULED" => k \in O
             /\ k \in O => appt'[k[1]].life = "closed"
  <2>1. /\ Corresponds(k, t) \/ (\E w \in sweep[s].writes : w.key = k) \/ k \in O
        /\ \A w \in sweep[s].writes : w.key = k => Rightly(w, k, t)
    BY <1>1, <1>3, <1>5, <1>6 DEF Known, Converging
  <2>2. /\ appt[k[1]].life = "closed" /\ row[k].state = "SCHEDULED" => k \in O
        /\ k \in O => appt[k[1]].life = "closed"
    BY <1>1, <1>3, <1>5, <1>6 DEF Known, KnowsOrphans
  <2>3. \A w \in W : w.key = k => Rightly(w, k, t)'
    BY <1>1, <1>5, <2>1 DEF Rightly
  <2>4. CASE v.key = k
    <3>1. Rightly(v, k, t)
      BY <2>1, <2>4
    <3>2. CASE v.how = "upsert"
      <4>1. row'[k] = As(v.want)
        BY <1>3, <1>4, <2>4, <3>2
      <4>2. CorrespondsAfter(k, t)
        BY <1>1, <3>1, <3>2, <4>1 DEF Rightly, CorrespondsAfter
      <4>3. appt[k[1]].life = "open"
        BY <3>1 DEF Rightly, InHorizon
      <4> QED BY <1>1, <2>2, <2>3, <4>2, <4>3
    <3>3. CASE v.how = "update"
      <4>1. row'[k].state # "SCHEDULED"
        <5>1. As(v.want).state # "SCHEDULED"
          BY <3>1, <3>3 DEF Rightly, As
        <5> QED BY <1>3, <1>4, <2>4, <3>3, <5>1 DEF Updated
      <4>2. CorrespondsAfter(k, t)
        BY <1>1, <3>1, <3>3, <4>1 DEF Rightly, CorrespondsAfter
      <4> QED BY <1>1, <2>2, <2>3, <4>1, <4>2
    <3> QED BY <1>4, <3>2, <3>3
  <2>5. CASE v.key # k
    <3>1. row'[k] = row[k]
      BY <1>3, <1>4, <2>5 DEF Updated
    <3>2. CorrespondsAfter(k, t) \/ (\E w \in W : w.key = k) \/ k \in O
      BY <1>1, <1>5, <2>1, <2>5, <3>1, CorrespondsStill
    <3> QED BY <1>1, <2>2, <2>3, <3>1, <3>2
  <2> QED BY <2>4, <2>5
<1>7. sweep'[s] = Reconciling(t, W, O)
  BY <1>3, <1>5
<1> QED BY <1>6, <1>7, GoesRound

\* An orphan is cancelled, and corresponds.
LEMMA CancelIsKnown ==
  ASSUME RemindersInv, NEW s \in Sweep, Known(s), CancelOrphan(s), s \notin upset'
  PROVE  Known(s)'
<1> USE DEF RemindersInv, TypeOK
<1>1. /\ appt' = appt /\ changed' = changed /\ setting' = setting /\ upset' = upset
      /\ sweep[s].pc = "writing" /\ sweep[s].writes = {}
  BY DEF CancelOrphan, env
<1>2. sweep[s].orphans \in SUBSET Key
  BY <1>1, RunFields
<1>3. PICK j \in sweep[s].orphans :
        /\ sweep'[s] = Reconciling(sweep[s].now, {}, sweep[s].orphans \ {j})
        /\ row' = Updated(j, Cancelled)
  BY DEF CancelOrphan, Step
<1>4. PICK t, O : t = sweep[s].now /\ O = sweep[s].orphans \ {j}
  OBVIOUS
<1>5. ASSUME NEW k \in Key, k[1] \notin changed'[s]
      PROVE  /\ CorrespondsAfter(k, t) \/ (\E w \in {} : w.key = k) \/ k \in O
             /\ \A w \in {} : w.key = k => Rightly(w, k, t)'
             /\ appt'[k[1]].life = "closed" /\ row'[k].state = "SCHEDULED" => k \in O
             /\ k \in O => appt'[k[1]].life = "closed"
  <2>1. Corresponds(k, t) \/ k \in sweep[s].orphans
    BY <1>1, <1>4, <1>5 DEF Known, Converging
  <2>2. /\ appt[k[1]].life = "closed" /\ row[k].state = "SCHEDULED" => k \in sweep[s].orphans
        /\ k \in sweep[s].orphans => appt[k[1]].life = "closed"
    BY <1>1, <1>5 DEF Known, KnowsOrphans
  <2>3. CASE k = j
    <3>1. row'[k].state # "SCHEDULED"
      BY <1>2, <1>3, <2>3 DEF Updated, Cancelled
    <3>2. appt'[k[1]].life = "closed"
      BY <1>1, <2>2, <2>3
    <3> QED BY <3>1, <3>2 DEF CorrespondsAfter
  <2>4. CASE k # j
    <3>1. row'[k] = row[k]
      BY <1>2, <1>3, <2>4 DEF Updated
    <3>2. CorrespondsAfter(k, t) \/ k \in O
      BY <1>1, <1>4, <2>1, <2>4, <3>1, CorrespondsStill
    <3> QED BY <1>1, <1>4, <2>2, <2>4, <3>1, <3>2
  <2> QED BY <2>3, <2>4
<1>6. sweep'[s] = Reconciling(t, {}, O)
  BY <1>3, <1>4
<1> QED BY <1>5, <1>6, GoesRound

\* Every step keeps what a run knows true.
THEOREM KnownNext ==
  RemindersInv /\ ReconciledInv /\ OneRunAtATime /\ [Next]_vars => ReconciledInv'
<1> SUFFICES ASSUME RemindersInv, ReconciledInv, OneRunAtATime, [Next]_vars, NEW s \in Sweep
             PROVE  Known(s)'
  BY DEF ReconciledInv, Reconciled, Known
<1>1. TypeOK /\ Known(s)
  BY DEF RemindersInv, ReconciledInv, Reconciled, Known
<1>2. CASE sweep'[s] = idle
  BY <1>2, NothingToKnow DEF idle
<1>3. CASE sweep'[s] # idle /\ ~(Start(s) \/ Continue(s) \/ Throw(s))
  BY <1>1, <1>3, AroundKeepsKnown
<1>4. CASE \/ Start(s) \/ FailStaleSending(s) \/ FindDue(s) \/ TemplateFor(s) \/ SendTemplate(s)
           \/ Mark(s) \/ \E d \in Upcoming(s) : Block(s, d) \/ Postpone(s, d) \/ Claim(s, d)
  <2>1. ~(sweep'[s].pc = "due") \/ Throw(s)
    BY <1>1, <1>4, RunAhead
  <2>2. Throw(s) /\ sweep'[s].pc = "due" => s \in upset'
    BY <1>1 DEF Throw, TypeOK, idle
  <2>3. sweep'[s].pc \in {"idle", "stale", "appointments", "due", "template", "sending", "calling",
                          "arrived", "refused"}
    BY <1>1, <1>4, RunAhead
  <2> QED BY <2>1, <2>2, <2>3, NothingToKnow
<1>5. CASE Throw(s)
  <2>1. sweep'[s].pc = "due" => s \in upset'
    BY <1>1, <1>5 DEF Throw, TypeOK, idle
  <2>2. sweep'[s].pc \in {"idle", "stale", "appointments", "due", "template", "sending", "calling",
                          "arrived", "refused"}
    BY <1>1, <1>5, RunAhead
  <2> QED BY <2>1, <2>2, NothingToKnow
<1>6. CASE LoadTenant(s) \/ WriteRow(s) \/ CancelOrphan(s)
  <2>1. CASE s \notin upset'
    BY <1>1, <1>6, <2>1, LoadIsKnown, WriteIsKnown, CancelIsKnown
  <2>2. CASE s \in upset'
    <3>1. sweep'[s].pc \in {"due", "writing"}
      <4>1. ASSUME NEW t, NEW writes, NEW orphans
            PROVE  Reconciling(t, writes, orphans).pc \in {"due", "writing"}
        BY DEF Reconciling
      <4>2. CASE LoadTenant(s)
        BY <1>1, <4>1, <4>2 DEF LoadTenant, Step, TypeOK
      <4>3. CASE WriteRow(s)
        BY <1>1, <4>1, <4>3 DEF WriteRow, Step, TypeOK
      <4>4. CASE CancelOrphan(s)
        BY <1>1, <4>1, <4>4 DEF CancelOrphan, Step, TypeOK
      <4> QED BY <1>6, <4>2, <4>3, <4>4
    <3> QED BY <2>2, <3>1 DEF Known, KnowsOpen, KnowsOrphans, KnowsRows, Converging
  <2> QED BY <2>1, <2>2
<1>7. CASE FindAppointmentsToReconcile(s) \/ FindOrphanScheduled(s) \/ FindByAppointmentIds(s)
  BY <1>1, <1>7, ReadsAreKnown
<1> QED BY <1>2, <1>3, <1>4, <1>5, <1>6, <1>7 DEF Continue

\* "Un cambio de horario o una cancelacion convergen porque la respuesta cambia": after a
\* reconciliation that nothing upset, each row of an appointment that nobody wrote meanwhile
\* is what corresponds to it, for any number of appointments and offsets.
THEOREM RowsCorrespond ==
  ASSUME OneRunAtATime
  PROVE  Spec => []Reconciled
<1>1. Init => ReconciledInv
  <2> SUFFICES ASSUME Init PROVE ReconciledInv
    OBVIOUS
  <2>1. \A s \in Sweep : sweep[s].pc = "idle"
    BY DEF Init, idle
  <2> QED BY <2>1 DEF ReconciledInv, Reconciled, KnowsOpen, KnowsOrphans, KnowsRows, Converging
<1>2. RemindersInv /\ ReconciledInv /\ [Next]_vars => ReconciledInv'
  BY KnownNext
<1>3. ReconciledInv => Reconciled
  BY DEF ReconciledInv
<1> QED BY <1>1, <1>2, <1>3, InvariantCorrect, PTL DEF Spec
================================================================================

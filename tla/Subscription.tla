---- MODULE Subscription ----
(***************************************************************************)
(* What a business pays: the week of trial its first WhatsApp connection   *)
(* starts, the days support adds to it and the months it pays for.  The    *)
(* state is never marked as expired: whether there is access is derived    *)
(* from the dates and the clock.  Time is counted in days.  A request of   *)
(* support notes the moment, reads the row, decides and writes it back     *)
(* with no lock: a connection, another request and midnight can fall in    *)
(* between.                                                                *)
(***************************************************************************)
EXTENDS Integers, Sequences

CONSTANTS
  Handlers,    \* requests of support in course
  TrialDays,   \* TRIAL_DURATION_DAYS
  Extensions,  \* TRIAL_EXTENSION_DAYS
  Terms,       \* SUBSCRIPTION_MONTHS
  FirstDay,    \* the day each month of the calendar begins; the last one only closes it
  LastDay,     \* bound: the clock stops here
  Horizon      \* bound: support grants no trial beyond this day

ClockAssumption == TrialDays \in Nat \ {0} /\ LastDay \in Nat \ {0}
ExtensionsAssumption == Extensions \subseteq {n \in Nat : n >= TrialDays}
TermsAssumption == Terms \subseteq Nat \ {0}
CalendarAssumption ==
  /\ FirstDay \in Seq(Nat \ {0}) /\ Len(FirstDay) > 1 /\ FirstDay[1] = 1
  /\ \A m, n \in 1 .. Len(FirstDay) : m < n => FirstDay[m] < FirstDay[n]

VARIABLES
  status,      \* subscriptionStatus
  trialStart,  \* trialStartedAt
  trialEnd,    \* trialEndsAt
  paidTo,      \* subscriptionEndsAt
  day,         \* the clock
  desk         \* [Handlers -> request]: since when it is, and the row as it was read

vars == <<status, trialStart, trialEnd, paidTo, day, desk>>

Null == 0
Idle == [op |-> "idle", amount |-> 0, now |-> 0, status |-> "NONE", start |-> Null, trial |-> Null, paid |-> Null]

Init ==
  /\ status = "NONE" /\ trialStart = Null /\ trialEnd = Null /\ paidTo = Null
  /\ day = 1 /\ desk = [h \in Handlers |-> Idle]

-----------------------------------------------------------------------------
(* The rules *)

\* A month later is the same day of that month, or its last one if it is shorter.
Months == 1 .. Len(FirstDay) - 1
InMonth(d, m) == FirstDay[m] <= d /\ d < FirstDay[m + 1]
AddMonths(d, n) ==
  LET from == CHOOSE m \in Months : InMonth(d, m)
      same == FirstDay[from + n] + (d - FirstDay[from])
      last == FirstDay[from + n + 1] - 1
  IN IF same <= last THEN same ELSE last

\* Bound: the calendar reaches the month that is paid for.
InCalendar(d, n) == \E m \in Months : InMonth(d, m) /\ m + n \in Months

CanExtendTrial(s) == s # "ACTIVE"
Ongoing(row) == row.status = "TRIAL" /\ row.trial # Null /\ row.trial > row.now
ExtendedEnd(row, days) == (IF Ongoing(row) THEN row.trial ELSE row.now) + days

Covered(row) == row.status = "ACTIVE" /\ row.paid # Null /\ row.paid > row.now
PaidFrom(row) == IF Covered(row) THEN row.paid ELSE row.now

Row == [now |-> day, status |-> status, start |-> trialStart, trial |-> trialEnd, paid |-> paidTo]
Resolved ==
  CASE status = "TRIAL" -> IF Ongoing(Row) THEN "TRIAL_ACTIVE" ELSE "TRIAL_EXPIRED"
    [] status = "ACTIVE" -> IF Covered(Row) THEN "ACTIVE" ELSE "EXPIRED"
    [] OTHER -> "NOT_STARTED"
HasAccess == Resolved \in {"TRIAL_ACTIVE", "ACTIVE", "NOT_STARTED"}

-----------------------------------------------------------------------------
(* The steps *)

\* The condition travels in the UPDATE.  An error is logged and the connection stands.
Anytime == TRUE   \* mutant: every connection starts it
Unstarted == trialStart = Null
StartTrial ==
  /\ Unstarted
  /\ status' = "TRIAL" /\ trialStart' = day /\ trialEnd' = day + TrialDays
  /\ UNCHANGED <<paidTo, day, desk>>

\* The moment is that of the call, not that of the write.
Read(h, op, amount) ==
  /\ desk[h] = Idle
  /\ op = "extend" => trialEnd + amount <= Horizon
  /\ desk' = [desk EXCEPT ![h] = [op |-> op, amount |-> amount, now |-> day, status |-> status,
                                  start |-> trialStart, trial |-> trialEnd, paid |-> paidTo]]
  /\ UNCHANGED <<status, trialStart, trialEnd, paidTo, day>>

Done(h) == desk' = [desk EXCEPT ![h] = Idle]

\* Refused to whoever pays; a trial in course grows from its end, any other from now.
ExtendTrial(h) ==
  LET m == desk[h] IN
  /\ m.op = "extend"
  /\ Done(h)
  /\ \/ /\ ~CanExtendTrial(m.status)
        /\ UNCHANGED <<status, trialStart, trialEnd>>
     \/ /\ CanExtendTrial(m.status)
        /\ status' = "TRIAL"
        /\ trialStart' = IF m.start = Null THEN m.now ELSE m.start
        /\ trialEnd' = ExtendedEnd(m, m.amount)
  /\ UNCHANGED <<paidTo, day>>

PaySubscription(h) ==
  LET m == desk[h] IN
  /\ m.op = "pay"
  /\ InCalendar(PaidFrom(m), m.amount)
  /\ Done(h) /\ status' = "ACTIVE"
  /\ paidTo' = AddMonths(PaidFrom(m), m.amount)
  /\ UNCHANGED <<trialStart, trialEnd, day>>

\* The request is lost between its two queries.
Lost(h) == desk[h] # Idle /\ Done(h) /\ UNCHANGED <<status, trialStart, trialEnd, paidTo, day>>

Dawn ==
  /\ day < LastDay
  /\ day' = day + 1
  /\ UNCHANGED <<status, trialStart, trialEnd, paidTo, desk>>

Next ==
  \/ StartTrial
  \/ \E h \in Handlers :
       \/ \E n \in Extensions : Read(h, "extend", n)
       \/ \E n \in Terms : Read(h, "pay", n)
       \/ ExtendTrial(h) \/ PaySubscription(h) \/ Lost(h)
  \/ Dawn

Spec == Init /\ [][Next]_vars

-----------------------------------------------------------------------------

Statuses == {"NONE", "TRIAL", "ACTIVE"}

TypeOK ==
  /\ status \in Statuses /\ trialStart \in Nat /\ trialEnd \in Nat /\ paidTo \in Int
  /\ day \in 1 .. LastDay
  /\ desk \in [Handlers -> [op : {"idle", "extend", "pay"}, amount : Nat, now : Nat, status : Statuses,
                            start : Nat, trial : Nat, paid : Int]]

\* Somebody wrote the clock of the trial after this extension read it.
Overtaken(h) == desk[h].op = "extend" /\ <<desk[h].start, desk[h].trial>> # <<trialStart, trialEnd>>

\* However many times WhatsApp is connected and support grants and charges, the day the trial
\* began is written once and what was granted of it is never taken back (startTrial is
\* conditioned on trialStartedAt, extendTrial adds to the end in force), with one exception:
\* an extension that another write of the clock overtook between its own two queries writes
\* what it had counted, and may date the trial again or shorten it.
TrialClock ==
  trialStart # Null => \/ trialStart' = trialStart /\ trialEnd' >= trialEnd
                       \/ \E h \in Handlers : Overtaken(h) /\ desk'[h] = Idle
TrialClockRunsOnce == [][TrialClock]_vars
====

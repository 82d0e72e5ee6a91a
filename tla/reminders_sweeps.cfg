\* One run of the job at a time over one appointment with two reminders.
SPECIFICATION FairSpec
CONSTANTS
  Appt = {a1}
  Offset = {1, 2}
  Setting <- MCSetting
  Sweep = {s1}
  MaxTime = 3
  Horizon = 3
  Timeout = 1
  Booked = {2, 3}
  Phone = {TRUE}
INVARIANTS TypeOK NeverTwice Reconciled
PROPERTIES TellsTheTruth SendingEnds
CHECK_DEADLOCK FALSE

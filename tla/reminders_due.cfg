\* One reminder, and nothing fails.
SPECIFICATION Spec
CONSTANTS
  Appt = {a1}
  Offset = {1}
  Setting <- MCSettingPlain
  Sweep = {s1}
  MaxTime = 3
  Horizon = 3
  Timeout = 1
  Booked = {2, 3}
  Phone = {TRUE}
PROPERTIES DueIsNotSkipped
CHECK_DEADLOCK FALSE

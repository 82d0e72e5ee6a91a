----------------------------- MODULE MCReminders -----------------------------
\* Instances of Reminders for TLC.
EXTENDS Reminders

Set(offsets, enabled, approved) ==
  [offsets |-> offsets, enabled |-> enabled, approved |-> approved]

\* All in order; and one reminder taken away, messages off and the template rejected.
\* A change between the two reads of a run shows it each of these apart.
MCSetting == {Set({1, 2}, TRUE, TRUE), Set({2}, FALSE, FALSE)}

\* For the run that follows one reminder alone.
MCSettingPlain == {Set({1}, TRUE, TRUE)}
===============================================================================

------------------------------ MODULE SlotLedger ------------------------------
\* What the agenda promises, with everything about how taken away: a ledger that
\* says which slots (a professional and an instant) each appointment holds.  No
\* slot has two holders, none changes hands without being released in between,
\* and what an appointment holds is always the slots of whole bookings: a booking
\* of several services is placed, moved or lifted as one.
CONSTANTS Appt,     \* the appointments
          Booking   \* the sets of slots a booking can take

VARIABLE held       \* the slots each appointment holds

TypeOK == held \in [Appt -> SUBSET UNION Booking]

Init == held = [a \in Appt |-> {}]

\* One atomic step settles what one appointment holds from now on: the slots of
\* some whole bookings, none of which another appointment holds.
Settle(a) ==
  \E some \in SUBSET Booking :
    /\ \A b \in Appt \ {a} : (UNION some) \cap held[b] = {}
    /\ held' = [held EXCEPT ![a] = UNION some]

Next == \E a \in Appt : Settle(a)

Spec == Init /\ [][Next]_held

\* No slot has two holders.
OneHolder == \A a, b \in Appt : a # b => held[a] \cap held[b] = {}
===============================================================================

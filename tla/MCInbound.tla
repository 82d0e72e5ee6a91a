---- MODULE MCInbound ----
(* Small instances of Inbound.  The wide one: two services, one in a category,
   the other in none and with a choice of professional; two slots today and one tomorrow.
   The narrow one: one service, one professional and one slot, for several sessions and the Flow. *)
EXTENDS Inbound

MCServices == {1, 2}
MCCategoryOf == [s \in MCServices |-> IF s = 1 THEN 11 ELSE 0]
MCTeamOf == [s \in MCServices |-> IF s = 1 THEN {21} ELSE {21, 22}]
MCSlots == {31, 32, 33}
MCDateOf == [x \in MCSlots |-> IF x = 33 THEN 2 ELSE 1]
MCOccupations == {{}, {31}, MCSlots}
MCBefore == {NoAppointment, [st |-> "open", staff |-> 21, slot |-> 31, by |-> None]}

NarrowServices == {1}
NarrowCategoryOf == [s \in NarrowServices |-> 0]
NarrowTeamOf == [s \in NarrowServices |-> {21}]
NarrowSlots == {31}
NarrowDateOf == [x \in NarrowSlots |-> 1]
NarrowOccupations == {{}}
NarrowBefore == {NoAppointment}

Alone(flow, n) == [flow |-> flow, requests |-> {1}, sessions |-> n,
                   appts |-> Appts, person |-> TRUE]
ChatScene == {Alone(FALSE, 1)}
FlowScene == {Alone(TRUE, 1)}
\* Two sessions in the chat, one of the Flow, and two requests over one session of the chat.
NarrowScenes ==
  {Alone(FALSE, 2), Alone(TRUE, 1), [flow |-> FALSE, requests |-> {1, 2}, sessions |-> 1,
    appts |-> {1}, person |-> FALSE]}
====

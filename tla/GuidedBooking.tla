---- MODULE GuidedBooking ----
(***************************************************************************)
(* The handlers of the guided booking flow over the table of sessions of   *)
(* one customer.  A handler reads the whole row of a session, works with   *)
(* its copy and saves the copy whole: a tap and a text read the open       *)
(* session and save it later, a form does so with the session of its       *)
(* token, opening a session looks for the open one before it closes it and *)
(* inserts, and confirming checks the slot, writes the appointment and     *)
(* only then lets the session learn its id.  In between everything else    *)
(* runs while they hold their copy.  What a handler does from its first    *)
(* save to its answer (the reads of the next screen, and the saves of the  *)
(* same copy they lead to) goes with that save.                            *)
(*                                                                         *)
(* The agenda is the customer's own appointments; other customers are a    *)
(* choice made at every read (which slots they have taken) and at every    *)
(* write (whether they won the race).  Agenda models them in full.         *)
(***************************************************************************)
EXTENDS BookingMachine, Sequences

CONSTANTS
  Handlers,     \* the webhook and Flow requests of the customer
  Scenes,       \* bound: the cases a behaviour may be of (below)
  Appts,        \* the appointments of the customer
  Occupations,  \* bound: the sets of slots other customers may have taken
  MayFail       \* whether a query may fail or the process die in a handler

\* In a scene the business has published a Flow or not, and these requests may run at once;
\* sessions bounds those ever opened, appts the appointments made, and person whether the
\* customer asks for one.
Scene == [flow : BOOLEAN, requests : SUBSET Handlers, sessions : Nat, appts : SUBSET Appts, person : BOOLEAN]

ASSUME CustomerAssumption == Appts \subseteq Nat \ {0} /\ Scenes \subseteq Scene

VARIABLES
  sessions,     \* Seq(Session): the rows in order of creation; the index is the token
  shown,        \* the last screen each session delivered to the chat
  flows,        \* the sessions whose token was sent in a Flow
  hs,           \* [Handlers -> Handler]: what each request holds in memory
  appts,        \* [Appts -> Appointment]
  active,       \* the services a customer may choose today
  scene         \* in Scenes, and always the same

booking == <<sessions, shown, flows, hs, appts, active, scene>>

Appointment == [st : {"none", "open", "closed"}, staff : Nat, slot : Nat, by : Nat]
NoAppointment == [st |-> "none", staff |-> None, slot |-> None, by |-> None]
Blank == [ver |-> 0, st |-> "ASK_SERVICE", answers |-> {}]
Idle == [pc |-> "idle", s |-> None, snap |-> NewSession(None), staff |-> None, slot |-> None,
         app |-> None, flow |-> FALSE, screen |-> Blank]

Ids == DOMAIN sessions

\* In such a scene each message of the customer is answered before the next one.
OneAtATime == \A g, h \in scene.requests : g = h

\* The last one opened of those that are not closed.
LatestOpen(rows) == LET open == {s \in DOMAIN rows : Open(rows[s])}
                    IN IF open = {} THEN None ELSE CHOOSE s \in open : \A t \in open : t <= s
FindActive == LatestOpen(sessions)

Save(s, r) == sessions' = [sessions EXCEPT ![s] = r]

\* A screen WhatsApp does not take leaves the customer with those of earlier steps.
Delivered(r, answers) == {Blank, [ver |-> r.ver, st |-> r.st, answers |-> answers]}
Show(s, scr) == \E screen \in Delivered(scr.row, scr.answers) : shown' = [shown EXCEPT ![s] = screen]
SaveAndShow(s, scr) == Save(s, scr.row) /\ Show(s, scr)

Goto(h, rec) == hs' = [hs EXCEPT ![h] = rec]
Done(h) == Goto(h, Idle)

-----------------------------------------------------------------------------
(* The agenda as the flow sees it *)

Held(p, x, but) == \E a \in Appts \ {but} : appts[a].st = "open" /\ appts[a].staff = p /\ appts[a].slot = x

\* What a read finds: the customer's appointments, less the one being moved, and the
\* times others have taken.
World(r, taken) ==
  [active |-> active, days |-> Dates,
   busy |-> {px \in Professionals \X Slots : px[2] \in taken \/ Held(px[1], px[2], r.editing)}]

\* The appointment being moved, if it is still there to be moved.
EditingForgotten(r) == None   \* mutant: every confirmation is a new appointment
Editing(r) == IF r.editing # None /\ appts[r.editing].st = "open" THEN r.editing ELSE None

\* Who can take the slot when it is checked again.
Confirmable(service, staff, x, edit, taken) ==
  IF x \in taken \/ service \notin active THEN {}
  ELSE {p \in Candidates([service |-> service, staff |-> staff]) : ~Held(p, x, edit)}

-----------------------------------------------------------------------------
(* Chat: a tap and a text *)

\* What a customer can tap: the last screen of any session, and older ones.
OldTaps == [tok : Ids, ver : {0}, st : {"ASK_SLOT"}, a : {Cancel} \cup As("slot", Slots)]
           \cup [tok : Ids, ver : {0}, st : {"CONFIRM"}, a : {Confirm}]
LastTaps(s, screen) == [tok : {s}, ver : {screen.ver}, st : {screen.st}, a : screen.answers]
Taps == OldTaps \cup UNION {LastTaps(s, shown[s]) : s \in Ids}

\* The open session, and the screen that the customer had of it.
Read(h) ==
  LET s == FindActive IN
  /\ hs[h].pc = "idle" /\ s # None
  /\ Goto(h, [Idle EXCEPT !.pc = "read", !.s = s, !.snap = sessions[s], !.screen = shown[s]])
  /\ UNCHANGED <<sessions, shown, flows, appts, active, scene>>

\* A tap that is refused only notes the id of its message, in a whole copy too.
Refused == {"FOREIGN", "STALE", "MALFORMED"}
ReadRefused(h) ==
  LET s == FindActive IN
  /\ hs[h].pc = "idle" /\ s # None
  /\ \E tap \in Taps : Verdict(sessions[s], s, tap) \in Refused
  /\ Goto(h, [Idle EXCEPT !.pc = "mark", !.s = s, !.snap = sessions[s]])
  /\ UNCHANGED <<sessions, shown, flows, appts, active, scene>>

Mark(h) ==
  /\ hs[h].pc = "mark" /\ Save(hs[h].s, hs[h].snap) /\ Done(h)
  /\ UNCHANGED <<shown, flows, appts, active, scene>>

\* The tap is on that screen or on an older one of the session; Verdict says which count.
TapsOn(m) == LastTaps(m.s, m.screen) \cup {tap \in OldTaps : tap.tok = m.s}

Tap(h) ==
  LET m == hs[h] IN
  /\ m.pc = "read"
  /\ \E tap \in TapsOn(m) :
       \/ Verdict(m.snap, m.s, tap) = "CANCEL" /\ Save(m.s, Close(m.snap, "CANCELLED")) /\ UNCHANGED shown
       \/ Verdict(m.snap, m.s, tap) = "EXPIRED" /\ Save(m.s, Close(m.snap, "EXPIRED")) /\ UNCHANGED shown
       \/ /\ Verdict(m.snap, m.s, tap) = "ACCEPT" /\ m.snap.st # "CONFIRM"
          /\ \E taken \in Occupations : SaveAndShow(m.s, ApplySelection(m.snap, tap.a, World(m.snap, taken)))
  /\ Done(h)
  /\ UNCHANGED <<flows, appts, active, scene>>

\* A text while a booking is open is not read: the step is sent again.
Text(h) ==
  LET m     == hs[h]
      again == Reissue(m.snap)
  IN /\ m.pc = "read"
     /\ IF m.snap.late
        THEN Save(m.s, Close(m.snap, "EXPIRED")) /\ UNCHANGED shown
        ELSE \E taken \in Occupations : SaveAndShow(m.s, CurrentScreen(again, World(again, taken)))
     /\ Done(h)
     /\ UNCHANGED <<flows, appts, active, scene>>

-----------------------------------------------------------------------------
(* Opening a session: look for the open one; then close it, insert, first screen *)

Start(h, editing) ==
  /\ hs[h].pc = "idle" /\ Len(sessions) < scene.sessions
  /\ Goto(h, [Idle EXCEPT !.pc = "open", !.s = FindActive, !.app = editing,
                          !.snap = IF FindActive = None THEN @ ELSE sessions[FindActive]])
  /\ UNCHANGED <<sessions, shown, flows, appts, active, scene>>

ClosedNone(m) == sessions   \* mutant: the one open is left open
ClosedFirst(m) == IF m.s = None THEN sessions ELSE [sessions EXCEPT ![m.s] = Close(m.snap, "CANCELLED")]

\* With a Flow there are no rows to run out of, so no categories.
FirstScreen(editing) ==
  LET byCat == ~scene.flow /\ AsksCategory(active)
      moved == [Advance(NewSession(editing), IF byCat THEN "ASK_CATEGORY" ELSE "ASK_SERVICE") EXCEPT !.date = Today]
  IN IF byCat THEN CategoryScreen(moved, active) ELSE ServiceScreen(moved, active)

\* The Flow is sent for whatever session is open by then, and the chat takes over if it
\* cannot be sent.
Insert(h) ==
  LET scr  == FirstScreen(hs[h].app)
      rows == Append(ClosedFirst(hs[h]), scr.row)
  IN /\ hs[h].pc = "open" /\ Len(sessions) < scene.sessions
     /\ sessions' = rows
     /\ \/ /\ scene.flow /\ LatestOpen(rows) # None
           /\ flows' = flows \cup {LatestOpen(rows)}
           /\ shown' = Append(shown, Blank)
        \/ \E screen \in Delivered(scr.row, scr.answers) : shown' = Append(shown, screen) /\ UNCHANGED flows
     /\ Done(h)
     /\ UNCHANGED <<appts, active, scene>>

-----------------------------------------------------------------------------
(* Confirming *)

\* Whoever finds the slot free goes on to write the appointment.
ToWrite(m, p, x, edit) ==
  [m EXCEPT !.pc = "write", !.staff = p, !.slot = x, !.app = edit, !.screen = Blank]

\* The slot is checked again; a session that already has its appointment, or lacks data,
\* ends here.
Check(h) ==
  LET m == hs[h]
      r == m.snap
  IN /\ m.pc = "read" /\ r.st = "CONFIRM"
     /\ \E tap \in TapsOn(m) : Verdict(r, m.s, tap) = "ACCEPT"
     /\ \/ /\ r.appt # None \/ ~HasSummary(r)
           /\ Done(h) /\ UNCHANGED <<sessions, shown>>
        \/ /\ r.appt = None /\ HasSummary(r)
           /\ \E taken \in Occupations :
                LET ps == Confirmable(r.service, r.staff, r.slot, Editing(r), taken)
                IN \/ ps = {} /\ SaveAndShow(m.s, SlotTaken(r, World(r, taken))) /\ Done(h)
                   \/ /\ \E p \in ps : Goto(h, ToWrite(m, p, r.slot, Editing(r)))
                      /\ UNCHANGED <<sessions, shown>>
     /\ UNCHANGED <<flows, appts, active, scene>>

\* A new appointment, or the one being moved.
Write(h) ==
  LET m == hs[h]
  IN /\ m.pc = "write"
     /\ \E a \in scene.appts :
          /\ IF m.app = None THEN appts[a].st = "none" ELSE a = m.app /\ appts[a].st = "open"
          /\ ~Held(m.staff, m.slot, a)
          /\ appts' = [appts EXCEPT ![a] = [st |-> "open", staff |-> m.staff, slot |-> m.slot,
                                            by |-> IF m.app = None THEN m.s ELSE @.by]]
          /\ Goto(h, [m EXCEPT !.pc = "complete", !.app = a])
     /\ UNCHANGED <<sessions, shown, flows, active, scene>>

\* The slot may be lost at the last moment, to this customer or to another.
Lose(h) ==
  LET m == hs[h]
  IN /\ m.pc = "write"
     /\ IF m.flow THEN UNCHANGED <<sessions, shown>>
        ELSE \E taken \in Occupations : SaveAndShow(m.s, SlotTaken(m.snap, World(m.snap, taken)))
     /\ Done(h)
     /\ UNCHANGED <<flows, appts, active, scene>>

Finish(h) ==
  LET m == hs[h] IN
  /\ m.pc = "complete"
  /\ Save(m.s, Complete(m.snap, m.app))
  /\ Done(h)
  /\ UNCHANGED <<shown, flows, appts, active, scene>>

-----------------------------------------------------------------------------
(* The Flow: requests that name a session by its token, open or not *)

FormTriggers == {"service", "staff", "date", "review"}

\* The form asks in order, and only asks for a professional when there are several.
Asked(r, trigger, service) ==
  CASE trigger = "service" -> TeamOf[service] # {}
    [] trigger = "staff" -> r.service = service /\ Cardinality(TeamOf[service]) > 1
    [] OTHER -> r.service = service

ReadForm(h) ==
  /\ hs[h].pc = "idle"
  /\ \E s \in flows : Goto(h, [Idle EXCEPT !.pc = "form", !.s = s, !.snap = sessions[s], !.flow = TRUE])
  /\ UNCHANGED <<sessions, shown, flows, appts, active, scene>>

FlowChoice(h) ==
  LET m == hs[h] IN
  /\ m.pc = "form"
  /\ \E trigger \in FormTriggers, service \in active, x \in Slots :
       /\ Asked(m.snap, trigger, service)
       /\ \E p \in TeamOf[service] \cup {None} :
            Save(m.s, FlowSelection(Remember(m.snap), trigger, service, p, x))
  /\ Done(h)
  /\ UNCHANGED <<shown, flows, appts, active, scene>>

\* The form brings its own choices, and always asks for a new appointment.
FlowConfirm(h) ==
  LET m == hs[h] IN
  /\ m.pc = "form" /\ m.snap.appt = None
  /\ \E service \in active, x \in Slots, taken \in Occupations :
       \E choice \in TeamOf[service] \cup {None} :
         LET staff == IF Cardinality(TeamOf[service]) = 1 THEN CHOOSE q \in TeamOf[service] : TRUE ELSE choice
         IN \E p \in Confirmable(service, staff, x, None, taken) :
              Goto(h, ToWrite(m, p, x, None))
  /\ UNCHANGED <<sessions, shown, flows, appts, active, scene>>

\* It asks for its options, or for what is not free or was already booked.
FlowAnswer(h) == hs[h].pc = "form" /\ Done(h) /\ UNCHANGED <<sessions, shown, flows, appts, active, scene>>

-----------------------------------------------------------------------------
(* Around the handlers *)

\* A query that fails, or the process dying, leaves a handler where it was.
Fail(h) ==
  /\ MayFail /\ hs[h].pc # "idle"
  /\ Done(h)
  /\ UNCHANGED <<sessions, shown, flows, appts, active, scene>>

SweepableEarly(r) == Open(r) /\ r.late /\ r.st # "CONFIRM"   \* mutant: whoever is about to confirm is spared
Sweepable(r) == Open(r) /\ r.late

\* Every five minutes, one UPDATE.
ExpireStale ==
  /\ \E s \in Ids : Sweepable(sessions[s])
  /\ sessions' = [s \in Ids |-> IF Sweepable(sessions[s]) THEN Close(sessions[s], "EXPIRED") ELSE sessions[s]]
  /\ UNCHANGED <<shown, flows, hs, appts, active, scene>>

\* The business loses WhatsApp.
CancelOpenByTenant ==
  /\ \E s \in Ids : Open(sessions[s])
  /\ sessions' = [s \in Ids |-> IF Open(sessions[s]) THEN Close(sessions[s], "CANCELLED") ELSE sessions[s]]
  /\ UNCHANGED <<shown, flows, hs, appts, active, scene>>

\* Fifteen minutes pass over the sessions nobody touched.
Aged(r) == IF Open(r) THEN [r EXCEPT !.late = TRUE] ELSE r

\* The copy that is to be saved as it was keeps its expiry, and so ages too.
AgedCopy(m) == IF m.pc = "mark" THEN [m EXCEPT !.snap = Aged(@)] ELSE m
Tick ==
  /\ \E s \in Ids : Aged(sessions[s]) # sessions[s]
  /\ sessions' = [s \in Ids |-> Aged(sessions[s])]
  /\ hs' = [h \in Handlers |-> AgedCopy(hs[h])]
  /\ UNCHANGED <<shown, flows, appts, active, scene>>

\* The panel switches a service on or off, or closes an appointment; the customer's own
\* buttons close one too.
SwitchService(s) ==
  /\ active' = IF s \in active THEN active \ {s} ELSE active \cup {s}
  /\ UNCHANGED <<sessions, shown, flows, hs, appts, scene>>

CloseAppointment(a) ==
  /\ appts[a].st = "open"
  /\ appts' = [appts EXCEPT ![a] = [NoAppointment EXCEPT !.st = "closed", !.by = appts[a].by]]
  /\ UNCHANGED <<sessions, shown, flows, hs, active, scene>>
====

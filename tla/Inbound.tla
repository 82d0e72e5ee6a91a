---- MODULE Inbound ----
(***************************************************************************)
(* What a message of a customer does (webhook/inbound-message.service.ts): *)
(* nothing while a person of the business has the conversation or the bot  *)
(* is off; otherwise a tap goes to the menu, to the buttons of an          *)
(* appointment or to the guided flow, and a text to the open booking, to a *)
(* new one or to the menu.  Composes GuidedBooking with the conversation   *)
(* (conversations/), its hand-off to a person and the two clean-up jobs.   *)
(***************************************************************************)
EXTENDS GuidedBooking

CONSTANTS
  Before,         \* bound: what appointments the customer may come with, one at most
  MaxChanges      \* bound: times the panel changes a service or a setting

\* What the customer comes with was not booked in any of these sessions.
ASSUME ArrivalAssumption ==
  /\ Before \subseteq {a \in Appointment : a.by = None}
  /\ MaxChanges \in Nat

VARIABLES
  conv,         \* the conversation: [st, since], since being handoffRequestedAt
  aiEnabled,    \* tenant.aiEnabled: the bot is on for the business
  mode,         \* tenant.bookingMode: the guided flow, or a link to the web page
  changes       \* how many changes the panel has made

chat == <<conv, aiEnabled, mode, changes>>
vars == <<booking, chat>>

\* handoffRequestedAt is null, less than an hour ago or more.
Conversation == [st : {"IDLE", "HUMAN_HANDOFF"}, since : {"NULL", "RECENT", "LONG_AGO"}]
NewConversation == [st |-> "IDLE", since |-> "NULL"]

IsHandedOff == conv.st = "HUMAN_HANDOFF"
HandedOffUndated(c) == [st |-> "HUMAN_HANDOFF", since |-> "NULL"]   \* mutant: without the moment
HandedOff(c) == [st |-> "HUMAN_HANDOFF", since |-> "RECENT"]
Resumed(c) == [st |-> "IDLE", since |-> "NULL"]
StaleHandoff(c) == c.st = "HUMAN_HANDOFF" /\ c.since = "LONG_AGO"

\* A message that finds the bot quiet is only recorded.
Quiet == IsHandedOff \/ ~aiEnabled

Upcoming == {a \in Appts : appts[a].st = "open"}

-----------------------------------------------------------------------------
(* Messages *)

\* A tap, a text, or a message that cannot be read, with a booking open.
WhileBooking(h) == ~Quiet /\ (Read(h) \/ ReadRefused(h)) /\ UNCHANGED chat

\* Opening a booking, unless the business books through its page.
StartBooking(h, editing) == mode = "GUIDED_FLOW" /\ Start(h, editing) /\ UNCHANGED chat

\* A text that asks for an appointment; who already has one is offered what to do with it.
AskInWords(h) == ~Quiet /\ FindActive = None /\ Upcoming = {} /\ StartBooking(h, None)

\* "Book" in the menu and "another one" in the buttons of an appointment.
TapBook(h) == ~Quiet /\ StartBooking(h, None)

\* The buttons of an appointment, and of a reminder of it, work on any message they were
\* ever in: the appointment may have closed.
TapReschedule(h) == ~Quiet /\ \E a \in Appts : appts[a].st # "none" /\ StartBooking(h, a)

TapCancelAppointment == ~Quiet /\ \E a \in Appts : CloseAppointment(a) /\ UNCHANGED chat

TapTalkToHuman ==
  ~Quiet /\ scene.person /\ conv' = HandedOff(conv) /\ UNCHANGED <<booking, aiEnabled, mode, changes>>

-----------------------------------------------------------------------------
(* The business, the jobs and time *)

PanelResumes == IsHandedOff /\ conv' = Resumed(conv) /\ UNCHANGED <<booking, aiEnabled, mode, changes>>
ResumeStale == StaleHandoff(conv) /\ conv' = Resumed(conv) /\ UNCHANGED <<booking, aiEnabled, mode, changes>>

Change == changes < MaxChanges /\ changes' = changes + 1
PanelSwitchesBot == Change /\ aiEnabled' = ~aiEnabled /\ UNCHANGED <<booking, conv, mode>>
PanelSwitchesMode ==
  /\ Change
  /\ mode' = IF mode = "GUIDED_FLOW" THEN "BOOKING_LINK" ELSE "GUIDED_FLOW"
  /\ UNCHANGED <<booking, conv, aiEnabled>>
PanelSwitchesService == Change /\ (\E s \in Services : SwitchService(s)) /\ UNCHANGED <<conv, aiEnabled, mode>>
LosesWhatsApp == Change /\ CancelOpenByTenant /\ UNCHANGED <<conv, aiEnabled, mode>>

AgedConversation(c) == IF c.since = "RECENT" THEN [c EXCEPT !.since = "LONG_AGO"] ELSE c
SessionsAge == Tick /\ UNCHANGED chat
HandoffAges ==
  /\ AgedConversation(conv) # conv
  /\ conv' = AgedConversation(conv)
  /\ UNCHANGED <<booking, aiEnabled, mode, changes>>

Message(h) ==
  \/ WhileBooking(h) \/ AskInWords(h) \/ TapBook(h) \/ TapReschedule(h)
  \/ ReadForm(h) /\ UNCHANGED chat

Progress(h) ==
  /\ \/ Tap(h) \/ Text(h) \/ Mark(h) \/ FlowChoice(h) \/ FlowAnswer(h)
     \/ Insert(h) \/ Check(h) \/ FlowConfirm(h) \/ Write(h) \/ Lose(h) \/ Finish(h)
  /\ UNCHANGED chat

Business ==
  \/ TapCancelAppointment \/ TapTalkToHuman
  \/ PanelResumes \/ PanelSwitchesBot \/ PanelSwitchesMode \/ PanelSwitchesService \/ LosesWhatsApp
  \/ (\E a \in Appts : CloseAppointment(a)) /\ UNCHANGED chat

Jobs == (ExpireStale /\ UNCHANGED chat) \/ ResumeStale

Init ==
  /\ sessions = <<>> /\ shown = <<>> /\ flows = {}
  /\ hs = [h \in Handlers |-> Idle]
  /\ appts \in [Appts -> Before]
  /\ \A a, b \in Appts : appts[a].st = "open" => a <= b
  /\ active \in {{}, Services}
  /\ scene \in Scenes
  /\ conv = NewConversation /\ aiEnabled = TRUE /\ mode = "GUIDED_FLOW" /\ changes = 0

Next ==
  \/ \E h \in scene.requests : Message(h) \/ Progress(h) \/ (Fail(h) /\ UNCHANGED chat)
  \/ Business \/ Jobs \/ SessionsAge \/ HandoffAges

\* The jobs run every five minutes, time passes, and a request that is not cut short ends.
Fairness == WF_vars(HandoffAges) /\ WF_vars(ExpireStale /\ UNCHANGED chat) /\ WF_vars(ResumeStale)
            /\ \A h \in Handlers : WF_vars(Progress(h))

Spec == Init /\ [][Next]_vars /\ Fairness

-----------------------------------------------------------------------------
(* Properties *)

TypeOK ==
  /\ sessions \in Seq(Session) /\ Len(sessions) <= scene.sessions
  /\ DOMAIN shown = Ids /\ flows \subseteq Ids
  /\ \A h \in Handlers : hs[h].s \in Ids \cup {None} /\ hs[h].snap \in Session
  /\ appts \in [Appts -> Appointment]
  /\ active \subseteq Services /\ scene \in Scenes
  /\ conv \in Conversation /\ aiEnabled \in BOOLEAN /\ mode \in {"GUIDED_FLOW", "BOOKING_LINK"} /\ changes \in 0 .. MaxChanges

BookedBy(s) == {a \in Appts : appts[a].by = s}

\* A session creates one appointment at most, in the chat and in the Flow, however often
\* it is confirmed, as long as each confirmation is answered before the next: what the
\* column appointmentId is for.
BooksOnce == OneAtATime => \A s \in Ids : Cardinality(BookedBy(s)) <= 1

\* In the chat a customer whose messages are answered one by one has one booking open at
\* most: opening another closes the last.
OneOpenInChat == ~scene.flow /\ OneAtATime => Cardinality({s \in Ids : Open(sessions[s])}) <= 1

\* A request that holds a copy of a session that somebody has written since.
Overtaken(h) == hs[h].s # None /\ hs[h].snap # sessions[hs[h].s]

\* In the chat a finished booking is undone by nothing that reads it afterwards: late taps and
\* texts, the sweep and the disconnection of the business leave it as it is.  The exemption is
\* what the code does when requests overlap: one that read the booking before it was finished
\* saves its whole copy over it, and so reopens it (BookingSessionService.advance).
CompletedStays ==
  [][~scene.flow => \A s \in Ids : sessions[s].st = "COMPLETED" =>
       \/ sessions'[s] = sessions[s]
       \/ \E h \in Handlers : hs[h].s = s /\ Overtaken(h) /\ hs'[h] = Idle]_vars

\* Moving an appointment never leaves the customer with two: the one that was to be moved
\* and another that the session created.
MovesNotDuplicates ==
  \A s \in Ids : (sessions[s].editing # None /\ appts[sessions[s].editing].st = "open")
                   => \A a \in BookedBy(s) : appts[a].st # "open"

\* In the chat, at least, moving an appointment never leaves the customer with both.
ReschedulesInPlace == ~scene.flow => MovesNotDuplicates

\* The last screen a customer got of a booking that is open and waits there always has a
\* way out of it, while messages are answered one by one: no conversation is frozen without
\* a button to tap.
ExitOffered ==
  OneAtATime => \A s \in Ids : Open(sessions[s]) /\ shown[s].ver = sessions[s].ver => Cancel \in shown[s].answers

\* What a chat session books is the slot of its last screen, with the professional its
\* customer asked for, while messages are answered one by one.
BooksWhatWasChosen ==
  ~scene.flow /\ OneAtATime =>
    \A s \in Ids : LET r == sessions[s]
                       a == r.appt
                   IN (r.st = "COMPLETED" /\ appts[a].st = "open" /\ \A t \in Ids : sessions[t].editing # a) =>
                        /\ appts[a].slot = r.slot /\ DateOf[r.slot] = r.date
                        /\ appts[a].staff \in TeamOf[r.service]
                        /\ r.staff # None => appts[a].staff = r.staff

\* An abandoned booking ends by itself.
Abandoned == \E s \in Ids : Open(sessions[s]) /\ sessions[s].late
AbandonedEnds == Abandoned ~> ~Abandoned

\* A conversation handed to a person comes back to the bot, whoever forgets it.
HandoffEnds == IsHandedOff ~> ~IsHandedOff
====

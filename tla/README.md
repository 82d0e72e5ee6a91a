# Verification of polaria-back

Polaria is the back end of a booking service for small businesses: a NestJS process over MySQL
(TypeORM) through which customers book on WhatsApp, in a WhatsApp Flow or on a public page, and
businesses run their agenda from a panel. This directory holds TLA+ models of the parts whose
correctness is hard to test, the TLC runs that check them, and TLAPS proofs about them.

The process has one event loop. A handler is a promise chain: between two awaited queries any
other handler, and any cron job, may run; the database serialises single statements and
transactions. **A step of these models is therefore one query or one transaction, with the code
around it**, and what a handler has read lives in a record until its next query. Paths below are
relative to `src/src/`.

## 1. Inventory

| Component | State it keeps | Operations | Talks to |
|---|---|---|---|
| `appointments` | `appointments`, `appointment_services` (its segments) | create, edit, change status, cancel, remove, book for a customer | read by nearly everything |
| `availability` | none | `confirmSlot`, days, slots, choice of professional | reads the agenda, hours, blocks |
| `booking-flow` | `booking_sessions` | a conversation step by step; confirm; move; expire | `appointments`, `availability` |
| `flows` | the same sessions | the same booking on one screen | the same |
| `public-booking`, `customer-accounts` | `customer_accounts` | book, move and cancel from the web | `appointments`, `availability` |
| `reminders` | `appointment_reminders` | a job every 5 minutes: close, reconcile, send | reads the agenda and the settings; WhatsApp |
| `notifications` | `appointment_notifications` | enqueue from handlers; a job every minute sends | `appointments`, WhatsApp |
| `conversations`, `messages`, `webhook` | `conversations`, `messages` | receive, dispatch, hand off to a person and take back | `booking-flow`, `assistant` |
| `whatsapp` | `whatsapp_templates` | send, build messages, follow Meta's review | outside |
| `staff`, `staff-join-requests`, `auth` | `staff`, `staff_schedules`, `staff_join_requests` | sign up, join, approve, grant access, remove | `tenants` |
| `clients` | `clients` | find or create by phone, import, remove | `appointments` |
| `tenants`, `settings`, `subscriptions` | `tenants` | register, connect WhatsApp, configure, expire | all |
| `business_hours`, `schedule`, `schedule-blocks`, `scheduling-rules` | hours, blocks, rules | edit; resolve into working intervals and execution plans | `availability` |
| `services`, `service-categories`, `business-photos` | their tables | lists edited from the panel | |
| `reports`, `public-directory`, `onboarding`, `assistant`, `ai`, `support`, `cloudinary`, `config`, `database`, `migrations` | none of their own that the rest depends on | reads, I/O, wiring | |

What is hard in it, and what makes each part correct:

* **Agenda.** An appointment is written in two tables, its status in one and its claim on the time in
  the other (`activeStartTime`, under the unique index `(staffId, activeStartTime)`). Checks, reads
  and writes are separate queries. Correct: nobody is double booked, no half booking stays, a closed
  appointment holds nothing, an open one holds what it shows.
* **Availability.** Half-open intervals, days, time zones, lead time, groups of services. Correct:
  what it offers is free, within hours, for people who can do it.
* **Sessions.** Two taps, a repeated delivery, an answer to an old screen, expiry, two channels over
  one table. Correct: one open session a client, at most one appointment a session, a terminal session
  stays so.
* **Reminders and staff alerts.** Tables used as queues, a claim that is a conditional UPDATE, a call
  whose answer may be lost, a process that may die in between, data read long before it is used.
  Correct: at most one message, a true one, and nothing stuck.
* **Team and clients.** Find-or-create and check-then-insert without transactions; approvals of several
  writes. Correct: no duplicates, no approval half done.

* **Conversations.** A message goes to the booking, to the menu, to a button or to a person, by the state
  of things when it arrives. Correct: no conversation frozen, none left with a person who forgot it.
* **Connection and templates.** A template belongs to the WhatsApp account and not to the business; Meta
  reviews it when it likes and says so, or not. Correct: whoever is connected ends up with templates.
* **What is charged.** A trial, extensions and months of the calendar, written by three requests. Correct:
  what was granted is not taken back.
* **Reports.** Every list and every total is a query of its own. Correct: they agree.
* **Images.** A file at Cloudinary, a row here, positions to keep. Correct: what the page shows exists.

`PROJECT.json` lists each hazard at its line, with the properties that watch it or why none does.

## 2. Modules

| Module | Models | Proofs |
|---|---|---|
| `SlotLedger` | what the agenda promises: a ledger of who holds which slot | `AgendaProofs` |
| `Agenda` | the tables of appointments and every handler that writes them | `AgendaProofs` |
| `Reminders` | the reminders table and its job | `RemindersProofs` |
| `BookingMachine` | the guided booking as functions: verdicts, transitions, options of each step | |
| `GuidedBooking` | the handlers of the chat and of the Flow over the table of sessions | `InboundProofs` |
| `Inbound` | what a message does: hand-off, menu, buttons, booking; composes `GuidedBooking` | `InboundProofs` |
| `StaffAlerts` | the alerts to the team | `AlertsProofs`, `OfficeProofs` |
| `TeamAccess` | cards of the team, requests to join, entry and sign-up | `OfficeProofs` |
| `Clients` | one card a telephone | `OfficeProofs` |
| `Claims` | which account a booking belongs to | `OfficeProofs` |
| `Subscription` | trial, extensions and months paid | `OfficeProofs` |
| `OpenTimes` | the times of a day: offered, confirmed, warned about, suggested | `TimesProofs`, `OfficeProofs` |
| `Connection` | the WhatsApp connection and the state of a template | `OfficeProofs` (its types) |
| `Reports` | prices agreed, and what every report and list says of them | `ReportsProofs`, `OfficeProofs` |
| `SlotScreens` | the pages and ranges of a long day in the chat | `ScreensProofs`, `OfficeProofs` |
| `Photos` | images here and at Cloudinary | `OfficeProofs` |
| `Office` | these ten, from `StaffAlerts` to `Photos`, side by side | `OfficeProofs` |

`MCAgenda`, `MCReminders`, `MCInbound`, `MCOffice` and `MCSubscription` hold instances for TLC. `Office` instantiates ten
modules side by side (section 3), with the constants of each as parameters of its own. `ReportsProofs`
begins with the lemmas on sums over finite sets, `TimesProofs` with those on folds, which list a set in order or go over a list, and
`ScreensProofs` with those on lists built item by item; the few others that a proof needs are in its own module.

### Agenda

`appt` is the table `appointments` (status, start, end); `rows[a]` the segments of `a`. A row has the
`batch` it was inserted in: it stands for its uuid, all TypeORM uses to tell an update from an
insertion. `active` is `activeStartTime`, `NoTime` is NULL. `req[r]` is a handler in flight: where it
is and what it has read. Handlers correspond to actions so:

| Code | Actions |
|---|---|
| `create`, `insertBooking` (panel; one transaction) | `PanelCreate` |
| `confirmSlot`, then `createFromBookingFlow` | `ConfirmSlot`, `SaveAppointment`, `SaveSegments` or `SegmentsRefused`, `UndoAppointment` |
| `afterConfirm`, `applyReschedule` (WhatsApp moves) | `ConfirmMove`, `ReadMove`, `ReplaceSegments` |
| `reschedule` (web moves) | `WebMove`, `ReplaceSegments` |
| `editBookingByTenant` (panel) | `PanelEdit`, `ReplaceSegments` |
| `updateByTenant` | `UpdateStatus`, `SyncFind`, `SyncSave` |
| `cancelByClient`, `cancelByCustomerAccount` | `WhatsappCancel` or `WebCancel`, `SaveCancelled`, `SyncFind`, `SyncSave` |
| `removeByTenant` | `Remove` |

Refusals are part of the actions: a write the index or the foreign key rejects leaves the tables as they
were and ends the handler, or takes it to its catch. Three behaviours of TypeORM's `save` are modelled
because the properties hang on them: it inserts again a row that is gone, it writes only the columns
that differ from a fresh read, and it fails when it would orphan a segment the entity in memory lacks.

Prices, services, names, messages and warnings (which never refuse) are left out. So are working hours
and blocks in `confirmSlot`: `Plan` stands for the bookings that pass them.

### Reminders

`row[k]` is the reminder of an appointment and an offset (the table's unique key); `sweep[s]` is a run of
the job: the stage it is at and everything it has read so far. `Start`, `FailStaleSending`, the four
queries of `reconcile` and its writes (`FindAppointmentsToReconcile`, `FindOrphanScheduled`,
`FindByAppointmentIds`, `LoadTenant`, `WriteRow`, `CancelOrphan`), and the loop of `sendDue` (`FindDue`,
`TemplateFor`, and for each reminder `Block`, `Postpone` or `Claim`, then `SendTemplate` and `Mark`) are
its steps. `Throw` is any query failing: each stage has its own `catch` in `run`, so the next one starts
all the same. `SendTemplate` separates what Meta did from what it answered. Around the job, appointments
are booked, moved, closed, reopened and removed, the settings change, the clock runs and the process dies.

`resolveReminderTarget`, `toDesiredRow`, `resolveReminderAction` and `validateBeforeSending` are the
operators `Desired`, `Needs` and `Valid`. Reasons, wording and the order between businesses are left out.

### BookingMachine, GuidedBooking, Inbound

`sessions` is the table `booking_sessions` of one customer, in order of creation: the index stands for the
token. `shown[s]` is the last screen of a session that reached the chat; one that WhatsApp refuses leaves the
previous ones. `hs[h]` is a request in course with *the copy of the row it read*, which it saves whole in a later query, as
`advance` does; a tap, a text and a step of the Flow all read in one step and save in another. The reads of the next screen, and the
saves of the same copy that they lead to, go with the first save. `scene` says what kind of behaviour it is, from its beginning: with a
published Flow or not, and which requests may overlap. The functions of `booking-flow.machine.ts`, `booking-session.service.ts` and the prompts are
operators of `BookingMachine` (`Verdict`, `Advance`, `Reissue`, `ApplySelection`, `CurrentScreen`).

| Code | Actions |
|---|---|
| `handleSelection`, `handleFreeText` | `Read`, then `Tap` or `Text` |
| a tap that is refused (`markMetaMessageProcessed`) | `ReadRefused`, `Mark` |
| `start` (look for the open one; then close it and insert) | `Start`, `Insert` |
| `afterConfirm` | `Read`, `Check`, `Write` or `Lose`, `Finish` |
| the requests of the Flow | `ReadForm`, then `FlowChoice`, `FlowAnswer`, or `FlowConfirm` and the same |
| expiry on reading, the sweep, disconnecting | `Tap`, `ExpireStale`, `CancelOpenByTenant` |
| `InboundMessageService` | `WhileBooking`, `StartBooking`, `AskInWords`, `TapBook`, `TapReschedule`, `TapCancelAppointment`, `TapTalkToHuman` |
| `ConversationControlService` | the hand-off inside `TapTalkToHuman`, `PanelResumes`, `ResumeStale` |

Other customers are a choice at each read (what they have taken) and at each write (who wins the race): `Agenda`
has them in full. Pages are not told apart here; `SlotScreens` has them.

### StaffAlerts

One appointment and its segments; `rows` is `appointment_notifications` in order of creation; `fs[f]` a flush,
either of the request that changed the appointment or of the job. `Book`, `BookPast`, `Edit` and `ChangeStatus`
write what `planCreated`, `planEdited` and `planCancelled` say (`PlanCreated`, `PlanEdited`, `PlanCancelled`),
skipping facts that have a row (`Enqueue`: the unique fingerprint); `FindPending`, `Dispatch` (`Skip`, `Wait`,
`Claim`, `Send`, `Mark`) is `flush`; `FailStale` closes interrupted rows; `Delete` and `DeleteNow` are the removal of an
appointment, which sends first what it has to say. `told` counts deliveries, whatever Meta answered.

### TeamAccess

`cards` are the rows of `staff`, `requests` those of `staff_join_requests`, `signup` the accounts that hold a sign-up
token; `hs[h].snap` is the copy a request works with. `Create`, `Grant`, `Revoke` and `Update` read; `SaveCard`
saves the copy (linking included); `RemoveCard` archives whoever has work and deletes the others; `Request`,
`Approve`, `ApproveGrant`, `Mark` and `Reject` are the joining; `Login` and `Link` the entry of a Google account;
`CreateBusiness` and `SupportCreates` the two ways a business comes to be.

### Clients

`cards` are the rows of `clients`. `Arrive` is the search by telephone from any door (typed in the panel, WhatsApp, an
account), then `Restore`, `Insert` or straight to `Write`, the booking. `Analyze`, `InsertChunk` and `InsertRow`
are the import of a file, which retries one by one when a chunk is refused. `Correct` and `UpdateByTenant` change a
telephone. `RemoveByTenant` archives or deletes. `ResolveClientPhone` is the conversion itself: what is typed without a +
and without the code of the business gets it.

### Claims

`jar` is the signed cookie of each browser, `links` the claims sent by WhatsApp, `visits` the requests, which carry the
cookies of when they were sent. `Book` and `CreateBooking` write a booking and add it to the cookie; `SignIn` and
`GoogleCallback` claim what the cookie names; `ClaimFromLink` what a link does.

### OpenTimes

`hours`, `shift`, `blocks` and `busy` are the day; the algorithms (`WorkingRanges`, `ExecutionPlans`, `DistinctStaff`,
`CandidateTimes`, `Slots`, `StaffForPlan`, `Warnings`, `Suggestions`) are operators named as in the code. `Ask` is a
query, `Confirm` what the customer confirms, `Insist` what the panel writes in spite of the warnings; the rest change
the day.

### Connection

`conn` is the number each business is connected with, `templates` (`rows`) its row of `whatsapp_templates`, `meta`
what Meta has in each account, `mail` its webhooks, delivered any number of times in any order. `Signup`, `Settings`,
`UpdateConnection` and `Disconnect` are the requests; `ProvisionTemplates` and `Save` what follows connecting; `Release` deletes the rows of the account
that is left, in a query of its own; `Job` the cron (`FindConnectedMissing`, `ProvisionMissing`, `FindPending`, `RefreshPending`, `SaveState`).
Templates are independent: one stands for all. `strays` is not of the code: it remembers which businesses have a row of an account
they left and no request left to delete it.

### Subscription

The four columns of a business and `desk`, the copy a request of support decides from. `StartTrial` is
conditional in the code and atomic; `Read` then `ExtendTrial` or `PaySubscription` are not, and any number of requests, and
midnight, may come between the two. `AddMonths` is the arithmetic
of the calendar, with the last day of a shorter month.

### Reports

`agenda` (`appts`) with the price each segment freezes; the actions are the writes that touch it. `copies[h]` is a request of the panel
with the segments as it read them: `Read` then `EditBooking` (all are replaced, at the prices read) or `SetSegmentPrices` (saved by id);
`UpdateStatus`, then `FindSegments`, then `SaveSegments` (saved whole, as `syncActiveSlot` does). Creating and editing read the catalogue and the
team in the step that writes. Reports are operators
over a state (`Summary`, `BuildReportTimeline`, `StaffRanking`, `ServiceRanking`, `StaffSummary`, `ClientHistory`,
`DetailTotals`, `CustomerTotal`), evaluated by the invariants at every state. Money is in cents. All days are cut by one operator (`Day`, `Midnight`) with a
fixed offset: that the functions of the code which cut them do it alike is not checked here.

### SlotScreens

`step` (`session`) is what the session remembers of the list, `screen` what is in the chat, `seen` the hours shown since
the list began. `PlanSlotScreen` decides between pages and ranges, `SplitIntoRanges` cuts the day,
`PlanBookingPrompt` and `BuildListPayload` make messages that WhatsApp accepts. The flow asks for no loose hours, and so
`MaxNext` is 0.

### Photos

`photos` (`rows`) is `business_photos`, by the number of the upload, which stands for the row's id and the file's; `files` what Cloudinary has, `column` the images there is one of. `AddMany`,
`Upload`, `SavePhoto`; `RemovePhoto`, `DestroyPhoto`, `DeletePhoto`, `Reindex`; `MoveToFront`, `Renumber`;
`UpdateSingle`, `Replace`, `WriteColumn`. A lost answer of Cloudinary is the request stopping there: `Crash`.
`calm` remembers that no two requests have overlapped and none has stopped half-way.

## 3. Runs

| Run | Question | Result |
|---|---|---|
| `agenda_concurrent` | what two handlers in flight can never do to the tables | holds |
| `agenda_serial` | what handlers promise when they do not race, crashes included | holds |
| `agenda_web_move` | is a customer who moves from the web ever put on another booking? | **violated** |
| `agenda_reactivation` | do status and index agree whenever nothing is in flight? | **violated** |
| `agenda_two_customers` | can two customers be double booked? | **violated** |
| `reminders_sweeps` | what runs that do not overlap promise, whatever fails | holds |
| `reminders_due` | does a reminder in order survive until it is sent? | **violated** |
| `booking_sessions` | what the whole conversation promises, with screens lost and the process dying | holds |
| `booking_restarts` | what remains when a customer starts over, in the chat or with the Flow, or sends two messages at once | holds |
| `booking_flow_move` | does moving an appointment with the Flow leave one? | **violated** |
| `office` | what ten parts of the back office promise, each on its own | holds |
| `subscription_paid_early` | can a charge ever take days away? | **violated** |

`agenda_concurrent` checks the type invariant, `NoHalfBooking` (segments inserted together are all
there and in agreement, or none is), `NoOrphan` (an open appointment without segments has a handler about
to settle it, unless a crash or a late save stranded it) and `ImplementsLedger` (every step is a step of
`SlotLedger`: no slot has two holders or passes from hand to hand unreleased). `agenda_serial` checks that a
closed appointment holds nothing once its handler is done, that an appointment's times are those of its
segments, that what customers write never lands on an appointment that occupies the agenda, and that a
cancelled appointment gives its slots back. The last two need handlers not to race, which is what the
violations show: with two handlers, or with the one caller that skips `confirmSlot`, they fail.

`reminders_sweeps` checks `NeverTwice` (at most one delivery of each reminder), `TellsTheTruth` (what is
delivered was due and its appointment open, unless it was written since the run began), `Reconciled` (what
reconcile leaves is what corresponds), and `SendingEnds` (no row stays in SENDING). `NeverTwice` is
about runs that do not overlap: nothing in the code keeps two apart when one takes more than five
minutes, and with `Sweep = {s1, s2}` TLC finds two deliveries, by `Postpone` or by an upsert whose
reading is old, which write SCHEDULED over what the other run is sending. It is listed as a hazard.

`booking_sessions` checks that what a chat session books is what its customer chose (`BooksWhatWasChosen`),
that the last screen of an open booking always has a way out (`ExitOffered`) and that moving leaves one appointment (`ReschedulesInPlace`).
`booking_restarts` checks one appointment a session (`BooksOnce`), one open session in the chat (`OneOpenInChat`), that a finished booking is not
undone (`CompletedStays`), and that what is abandoned ends (`AbandonedEnds`, `HandoffEnds`). Every request reads in one query and saves in later
ones; jobs, time, the panel and, where the scene lets them overlap, other requests of the customer come between any two. One request at a time is a scene in both runs; in
`booking_restarts` there is another in which two overlap over one session of the chat. `BooksOnce`, `OneOpenInChat`, `ExitOffered` and `BooksWhatWasChosen` are promises to a
customer whose messages are answered one by one (`OneAtATime`): without it TLC breaks `BooksOnce` (two confirmations of one
session) and `OneOpenInChat` (two openings), and with `MayFail` a crash before `appointmentId` is written breaks
`BooksOnce` as well. `CompletedStays` is of requests that overlap too, with its one exemption: a request that read a session before another finished it saves
its copy over the finished row. This does happen: without the exemption TLC violates it in `booking_restarts`. What the property excludes is everything else that could reopen a
session: the sweep, a disconnection, and any request that reads after the end.

`office` is a disjoint sum: `part` says whose behaviour it is, and the variables of the other nine stand still. The ten
share no state within a request, so that nothing is lost by not interleaving them, and their properties are stated
on `part`:

| Part | Module | Properties |
|---|---|---|
| `alerts` | `StaffAlerts` | `ToldOnce`, `AgendaIsAnnounced` (each open segment has its row, and each lost one the row that says so), `RowsSettle` (no row half sent for ever, or pending with a template and room in a batch) |
| `team` | `TeamAccess` | `HistorySurvives` (whoever had work is never deleted), `LinkedIsInvited` (the account let in is the one last invited) |
| `times` | `OpenTimes` | `OfferIsExact`, `BookedIsServable`, `PanelIsWarned`, `SuggestionsHold`: the algorithms against a day told minute by minute, where feasibility is the existence of an assignment |
| `cards` | `Clients` | `OnePersonOneCard`, and that no appointment goes with its client (`HistorySurvives`) |
| `owners` | `Claims` | `OwnerIsKept` |
| `link` | `Connection` | `TemplatesSettle`: nobody connected waits for ever for a template of its own account, unless its row is one of an account it left that nobody deleted (section 5) |
| `money` | `Subscription` | `TrialClockRunsOnce`, but for an extension overtaken between its two queries |
| `desk` | `Reports` | `ReportsAgree` (totals, timelines, rankings and previous periods add up; no appointment falls between two lists; the same price wherever it is read), `AgreedStands`, but for an edit or a change of status overtaken between its queries |
| `screens` | `SlotScreens` | `EveryTimeOffered` |
| `images` | `Photos` | `PageStands`: a photo without its file is one whose removal is between its two writes, or stopped there; and, if nothing overlaps, the order and the cover |

### Bounds, and why they are enough

*Agenda*: two appointments (a conflict is between two), two professionals (a booking of several
services may take two), a grid of 4 to 6 instants on which bookings overlap with and without starting
together; two or three batches a row (`HasFresh` stops a handler that would need one more: the copies
an appointment accumulates repeat); two handlers in the concurrent run, which is where every race of a
read and a write already shows. In `agenda_concurrent` the clock is still and nothing crashes, in
`agenda_serial` it moves twice (a booking is past, another has started) and the process dies once, at any
query. The violation runs keep to the operations that matter so that their traces are short.

*Reminders*: one appointment, since runs treat appointments separately, with two offsets, because rows of
one appointment share its queries; three instants of clock, so that a reminder is early, due and late;
starts at 2 and 3, so that a move brings a reminder forward or back; two settings that differ in every
switch. Throws and crashes are not bounded.

*Conversation*: the wide instance of `booking_sessions` has two services, one of them with a choice of professional and
in no category, the other in one; three slots in two days; lists with room for one, so that every step pages and days are cut
in ranges; one session with all its answers, appointments of before to move, one change of the panel.
`booking_restarts` has one service, professional and slot, and three scenes: two sessions in the chat and one in the Flow, with one request at a time, and one session in the chat
with two requests at once, where every tap, text, confirmation, opening and job meets every other. A screen
older than the last is of version 0, which no session has.

*office*: `Office` is general and the instances are in `MCOffice`. Alerts: two professionals, two flushes, batches of one, one edit and one
change of the world; every template starts approved, or the change would be spent on it, and may be refused afterwards. Team: two accounts, a business, two
cards, one request in course beside the whole requests of others; only the first account founds, for one is as good as the
other; `MaxRows` bounds cards and requests jointly. Day: eight steps, three people, services that need one, two and three of them at once and in
sequence, with every change between the offer and the confirmation once. Cards: somebody from here and somebody from abroad, two requests, a file
with one of them twice. Owners: two accounts, one browser, a cookie that remembers one booking. Link: two
businesses and two numbers in two accounts, one request at a time and two in all beside the job, one failure of Graph. Money: months of unequal lengths, a trial of one
day, extensions of one and two, charges of a month, and two requests of support at once, which is enough for one to overtake the other. Desk: two appointments, two currencies, a price that is quoted,
days of two instants in a zone behind UTC, a month that turns with the day, two requests over the segments and three writes in all (an edit between the reading and the
writing of a price, and the other way round). Screens: up to ten hours in lists of five rows, which is pages and ranges both. Images: two
requests at a time of three, two photos at most a kind.

*Money*, for the violation, is the same instance alone.

### Fairness

`Agenda`: weak fairness of each handler's next query: the event loop runs the continuation of every promise
that settles. Nothing else is fair: customers may never come. `Reminders`: the clock, the cron that
starts a run and the run's own steps are weakly fair; `FailStaleSending` is strongly fair, for the process
may die, and that query fail, again and again, but not every single time. `Inbound`: the two jobs of every five minutes, the clock of a
hand-off, and the next query of a request; customers and the panel owe nothing. `StaffAlerts`: the job of
every minute (`FindPending`, `FailStale`), what a flush does next (`Dispatch`) and time. `Connection`: the
job, Meta's review of each template (`Review`; its webhook may never come) and time; `MaxFails` bounds the failures of Graph, so that "fails
for a while" is not "fails always". In `office` these are conjoined for each part.

## 4. Proofs

TLC shows each of these on a small instance; the theorems are for every value of the constants. What they assume of the
constants is named in the module that declares them (`PlanAssumption`, `NumberAssumption`, `CatalogueAssumption`...), and TLC
evaluates it in the runs. What a theorem assumes beyond that is in its statement, and it is never more than the run itself
assumes:

| Theorem | Property | Premise, and why |
|---|---|---|
| `AgendaProofs`: `TypeCorrect`, `NeverHalfABooking`, `NeverAnOrphan`, `LedgerImplemented` | `TypeOK`, `NoHalfBooking`, `NoOrphan`, `ImplementsLedger` | none: any number of handlers |
| `ClosedHoldNoSlot`, `TimesAreOfSegments` | `ClosedHoldsNothing`, `WindowOfSegments` | `Serial`: handlers do not overlap. False otherwise (section 3) |
| `CustomersAreKeptApart` | `CustomersNeverDoubleBook` | `Serial`, and no `webMove`: false with either (`agenda_two_customers`, `agenda_web_move`) |
| `RemindersProofs`: `SentAtMostOnce`, `OnlyTheTruthIsTold`, `RowsCorrespond` | `NeverTwice`, `TellsTheTruth`, `Reconciled` | `OneRunAtATime`: runs do not overlap. `NeverTwice` is false otherwise |
| `InboundProofs`: `StateIsTyped`, `MovesInPlace`, `WhatWasChosenIsBooked` | `TypeOK`, `ReschedulesInPlace`, `BooksWhatWasChosen` | none: any number of requests in course, for the last in scenes of one at a time (`OneAtATime`, in the property) |
| `ThereIsAWayOut` | `ExitOffered` (`OneAtATime` in it) | no scene has a Flow: its version counter wraps (`Cycle`), which is a bound of the model |
| `FinishedStays` | `CompletedStays` | none: any number of requests in course; what an overtaken one may do is in the property |
| `OneBookingOpen` | `OneOpenInChat` | none; the property is of scenes with one request at a time (`OneAtATime`). False otherwise |
| `BookedOnce` | `BooksOnce` | no death between booking and noting it (`~MayFail`), and `OneAtATime` in the property. False without either |
| `OfficeProofs`: `NobodyToldTwice`, `EveryChangeIsAnnounced` | `ToldOnce`, `AgendaIsAnnounced` | none: any number of flushes |
| `HistoryStays`, `OneCardEach` | `HistorySurvives`, `OnePersonOneCard` | none, beyond `NumberAssumption` |
| `ReportsAlwaysAgree` | `ReportsAgree` | none beyond `CalendarAssumption`: the calendar given has, in order, the months around the clock, and every day somebody books |
| `PanelIsAlwaysWarned`, `SuggestionsAlwaysHold` | `PanelIsWarned`, `SuggestionsHold` | none beyond `TimesAssumption`: blocks end after they begin, services take some time |
| `OfferIsAlwaysExact`, `BookedIsAlwaysServable` | `OfferIsExact`, `BookedIsServable` | `FewServices`: a visit asks for no more than `MaxPlanned` services, the six up to which plans at once are made. The requests of customers are validated to five (`MAX_SERVICES_PER_BOOKING`); above six the code gives up the shortest way on purpose (`buildExecutionPlans`) |
| `TimesProofs`: `WorkingRangesExact` | what the four rest on: the ranges of a day are its minutes | none |
| `TimesProofs`: `MatchingExact` | services at once get each somebody of its own, and fail only when no assignment exists | none |
| `WhatWasAgreedStands` | `AgreedStands` | none: any number of requests at once; an edit or a change of status overtaken between its queries is exempt in the property |
| `PhotosStand` | `PageStands` | none: any number of uploads and of requests at once; a row whose removal stopped between its two writes is exempt in the property |
| `OnlyTheInvitedEnter` | `LinkedIsInvited` | `OneRequest` of the team. False otherwise |
| `OwnersStay` | `OwnerIsKept` | none: any number of requests |
| `TrialIsDatedOnce` | `TrialClockRunsOnce` | none: any number of requests of support at once; an extension overtaken between its two queries is exempt in the property |
| `EveryTimeAlwaysOffered` | `EveryTimeOffered` | none beyond `ScreensAssumption`: a list has more than three rows (WhatsApp's has ten), as a screen keeps two for itself and "see more" is one more |
| `ScreensProofs`: `PagesTile` | what it rests on: the pages of a list, one after another, are the list | the screen keeps at most `Rows - 2` rows for itself; it keeps two |
| `PartsAreTyped` | `Office`'s `TypeOK`, of every part | none |

None of these properties is inductive alone. What each proof adds, and why:

**The agenda.** `AgendaInv` adds `SnapshotsWhole` (what a handler has read is made of whole insertions too, or a save built on it
could write half of one), `IndexUnique` (the unique index, in the form that tells two rows of one appointment apart) and
`Accounted` (closed appointments without segments are accounted for as well: the panel may reopen them). The proof has a step for
each action and a leaf for each conjunct it can disturb; the lemmas on `RowsOf`, `WithPlan`, `Resaved` and `Writable` carry the
facts about tables. The refinement maps `held` to the slots of each appointment's rows and uses the same invariant;
`NoSlotHasTwoHolders` is the ledger's own promise, carried to the tables. For handlers that do not overlap, `SerialInv` says of
each appointment that it is `Settled` or in the hands of the one handler in course, and of that handler (`Holding`) that what it
has read is still so: what it confirmed is free until it writes it, and what it is about to save is what it saw.

**The reminders.** `NeverTwice` says only what has been delivered; `RemindersInv` says why it cannot happen again:

* `Accounted`: a delivered reminder is *closed*: SENDING, SENT or FAILED, or its appointment is deleted
  (the row goes with it, and nobody inserts it again: the foreign key, `ForeignKey`);
* `Claimed`, `OneEach`: what a run is sending is closed, has not been delivered before, and is not in
  its list again;
* `NotYetFrozen`: every row a run may still write *without looking at it again* (`Pending`: a write decided
  from an earlier reading, an orphan to cancel, a reminder on its list) is not one that somebody sends or
  has sent. This is what an overlapping run breaks;
* `Born`: what a run has read of an appointment cannot be of one that does not exist yet, so that a key
  deleted under a run stays deleted.

The lemmas `StepRow` (how a step of a run may rewrite a row), `ClosedStays` (closed is for ever) and
`PendingFrom` (what a run becomes entitled to write it has just seen free) carry the argument. On top of it, `TruthInv` says that
what a run holds to send was read right, or the appointment has been written since (`ReadRight`), and that what it is about to hand to
Meta was found true (`FoundTrue`). `ReconciledInv` follows a reconciliation query by query: which appointments it knows open (`KnowsOpen`),
which orphans (`KnowsOrphans`) and which rows (`KnowsRows`), that what it decides is what corresponds (`Rightly`), and that each row either
corresponds already or is among those it still has to write (`Converging`).

**The conversation.** `BookingInv`: types; for each session (`SessionInv`) and each request in course (`HandlerInv`), what ties the copy that will be
saved whole to the row: they move the same appointment, and in the chat the copy is of a session that was open when it was read. This holds with any
number of requests, and gives `MovesInPlace` and `FinishedStays`: as the copy of a request of the chat is open, it differs from a row that is finished, so that whoever
writes over one has been overtaken, and everything else leaves it alone. In scenes of one request at a time (`Alone`) the same invariant adds that what a session has chosen fits
the catalogue step by step, that its last screen is of where it stands, and that the appointment it made is of what it chose, of the rows and of the copies alike, at each
query of a request. `OneInv` and `OnceInv` are of these scenes too: at most one session is open, and it is the one of the request in course if there is one; and a
session without an appointment noted has booked none, unless the request in course is the one about to note it.

**The alerts.** `AlertsInv`: a row that waits is untold (`WaitingIsUntold`), so is the one in the hand of a flush that is about to send
(`HandsUntold`), and no two flushes have the same (`OneHandEach`), which is what the conditional UPDATE of the claim gives. Most actions are
`Harmless`: they take no row and tell none. `AnnouncedInv` is for the converse, that nothing is silent:
as long as no change went untold, every segment was announced with its time, of a cancelled appointment too (it may be reopened), and whatever was
announced is still in the appointment or was called off. The assumption that plans are finite and repeat no pair of professional and service is what `planCreated`
keys rows by. The type (`AlertsTyped`) bounds the rows by what there was to tell: booking tells each professional once, and a change at most all of before
and all of after (`KeysOfEdit`), as what is new and what has moved are different segments. `RowsSettle` looks at as many rows as that.

**The cards.** `CardsInv` is the unique index, each card with its own person's number, every booking of a card that is in its table (a
removal archives while there is history, and the foreign key refuses to book on a card that was deleted), and for each request in
course that the telephone it will write is its person's. `NumberAssumption` is a real premise: a local number does not begin with the
code of the country, or, typed without a +, it would be taken to have it already.

**The team.** `TeamInv` carries what each request holds, and that a copy is never of a deleted card, or saving it would bring one back
without history. For one request, `AccessInv` adds that the copy about to be saved links whom it invites.

**Owners and money.** Both are action properties. Claims are conditional on there being no owner, so that `OwnersInv` is only a
typing: who is signed in, asks and owns are accounts or nobody. Of the trial, with any number of requests of support at once, `TrialInv` says that a
copy is of a row that has been (one with a trial begun was on trial or paid); an extension whose copy is still the row adds to it (`ExtensionAdds`), one whose copy is not is
the exemption, and no other step writes the clock once it runs.

**What was agreed.** `AgreedStands` is an action property, and its invariant is the types of `Reports`: what was agreed for a service is in the last of
its segments (`AgreedPrices`), which is a fact about lists of typed segments. An edit whose copy is still what the rows are reprices only what it adds, from whatever the
catalogue says then (`EditKeeps`); a price is written by id in every segment of one service that its copy had, and in no other (`PriceKeeps`: an edit in between replaced the ids, so the
save fails); a copy saved over the rows it was taken from changes none of them (`SavedIs`, `SaveKeeps`). What a copy holds is typed, of ids that are told apart, and no id is used for another service
(`Worked`, `RowsKnown`). What was overtaken is the exemption.

**The reports.** `ReportsAgree` is a statement on every state whose rows are typed (`TypeOK`) and whose appointments have a service at
least (`Worked`); these two are the invariant (`DeskInv`), and all the rest is arithmetic on sums. A sum of the
community modules is a recursion over a set. The proof shows first that it may take the members in any order (`SumAny`), by the principle `BySmaller`:
what holds of a set whenever it holds of the set without any one member, holds of every finite set. It has no operator for a parameter, as the set of the
subsets of which it holds is one more set, and so it can be cited where the library's induction cannot. From it, `SumApart` (two parts add up to the whole),
`SumRest` (what counts nothing may be left out), `SumGroups` and `CountGroups` (what is summed, or counted, by groups is summed). Each report is then a
grouping of the same rows by its key: the professional (`MoneyByStaff`, `RankingIs`), the service and its currency (`OffersAre`), the day or month
(`CurveIs`), and "the curve of each professional" by both. That a list leaves nothing out, and that a period and the previous one tile, is that the days of the
business's zone are intervals (`DayFrom`) and that periods are intervals of days (`PeriodIs`, `PreviousBefore`).

**The day.** Both properties compare what is computed with ranges to the day told minute by minute, and hold of every state in which what is
booked has a beginning and a later end (`DayInv`, with the types of the calendar and of the query). That invariant needs only that an offer begins at an
instant and carries one of the ways of fitting the services (`SlotsAre`); the rest is what the algorithms compute. They are folds, which the community modules define as
recursive functions by `CHOOSE`. `TableExists` shows once that such a function exists over the subsets of a finite set, by going up by their size, and `SameRuns`
that any two agree; from them `ListExists` (what a set is listed as, one by one in its place) and `RunExists` (what a list comes to, item by item). With these, each algorithm has its own
invariant over the items taken so far: merged ranges are in order and apart, and hold what they held (`JoinedKeeps`, `MergedIs`); what holes leave of a range is what it had and no
hole takes (`OpenedKeeps`, `CutIs`, `SubtractIs`); an intersection holds what both hold (`IntersectIs`). Ranges that are apart are what makes a period whose every minute is in some
range fit in *one* of them (`WithinIs`), which is `WorkingRangesExact`. For the plans, rounds are numbered without gaps (`RoundsFollow`), so that whatever is in a later round begins
when the earlier ones are over (`RoundsApart`): nobody is in two places in a plan that asks nobody twice in one round (`AssignmentFits`), which the plan one after the other always
is (`SequentialFits`). Who a set of candidates is listed by does not matter to either property, and so no fact about the matching is needed.

**What is offered and confirmed.** These two say that nothing is missing and that nothing is shorter, and so they need that `DistinctStaff` finds an assignment
whenever there is one. The proof is that of the augmenting paths, for the code as it is, with a set of people asked that only grows: `Seat` ends, as each call asks
somebody whom nobody had asked; when it gives a place, everybody who had one keeps one; when it does not, the services reached and the people asked are closed (all the
candidates of the former are among the latter, each held by one of the former), so that there is one person fewer than services and no assignment can exist
(`NobodyLeft`). With `MatchingExact`, a plan has candidates for each round exactly when an assignment makes it attended (`OfRound`, `Covered`). That nothing feasible is missing and
each offer is the shortest is that the plans tried are *all* the groupings of the services into rounds, listed shortest first (`Groupings`, `Ordered`), and a longer plan is
reached only when no shorter one can be attended; this is what `FewServices` is for. What is confirmed is the same computation with the candidates in another order,
by the work they have (`ByLeastWork`): an assignment exists whatever the order, and one service goes to the head of the list. `Ledger` adds that bookings are finitely many and of one appointment
each, so that the one just written can be told from the rest and stays well served until something around it changes (`BookedKeeps`).

**The images.** `ImagesInv` is in `Photos` itself, with the property. `FilesStand` holds with any number of requests: what one has uploaded and
not yet saved is its own (`Apart`: Cloudinary gave it a new identifier, so that nobody removes it or saves it twice), and a row without its file is
one that somebody is taking away, or was when it stopped (`cut`). The places of the photos are another matter: `AloneWith` says, of a request that nothing has overlapped, that it
finds them as it left them at its last query (`Steady`: the count it took is still true, the order it read lists exactly the rows), that they are told apart,
and that the gallery is numbered from 0 unless it is about to renumber it (`Numbering`). Two requests at once break all of this (section 5), which is why
`calm` is in the property. A row is keyed by its upload, as one upload makes one row.

**The screens.** `EveryTimeOffered` is of the screen and of what was seen on the way to it. `ScreensInv` says why: the screen can be sent (`Sound`: no more
rows than a list takes, and no two alike); and as long as the list that was begun goes on, the screen is the one that the session and the hours of now give (`OnItsPage`), and
what was seen is the list from its beginning to the end of that page (`SeenSoFar`). The code counts the hours of the whole day for the next page, inside a
range too; `LongerWindow` is that a longer list ends its page in the same place while something is left of the shorter one, which is what makes the count harmless.
Then "see more" continues where the page ended (`PagesTile`), and at the end nothing is left. For the ranges: lists of pieces that lie one after another over the whole day
(`Tiles`) are what breaking at the gaps of the day gives, and splitting a piece by its cuts (each cut comes after the one before, and leaves something for each of the pieces left: `NextCutFits`), and
joining neighbours, as often as it takes (`RangesTile`). The hours rise, so each is between the ends of its own range and of no other (`RangesHold`).
That all this is of *tables* over 0 .. n is by induction on n, for a given set of the places where it is so (`ByNumber`), and that such tables exist by `ChainExists`.

`Office` is a disjoint sum, so each of its theorems follows from one about the part and from the lemma that the other nine do not touch it.

Only model-checked, and why:

* liveness (`CancelledReleases`, `SendingEnds`, `AbandonedEnds`, `HandoffEnds`, `RowsSettle`, `TemplatesSettle`), which is beyond TLAPS, as
  is `ENABLED`;
* the violations, which are facts about an instance.

## 5. What the violations say

* **A web move is not confirmed** (`agenda_web_move`). `CustomerAppointmentsService.reschedule` calls
  `editBookingByTenant`, whose warnings do not refuse, without `confirmSlot`.
* **A refused reactivation is half done** (`agenda_reactivation`). `updateByTenant` writes the status, then
  tries to claim the slots; the refusal leaves the status written.
* **The index does not see partial overlaps** (`agenda_two_customers`). Two customers who confirm at the
  same time are double booked unless their times start together.
* **A due reminder is skipped by its own run** (`reminders_due`). The reconciliation judges it "as of now",
  when its moment has already come, just before the sending looks for it.
* **A Flow that moves, books anew** (`booking_flow_move`). `onConfirm` never looks at `editingAppointmentId`: the
  customer ends up with two appointments.
* **A trial over paid months** (`subscription_paid_early`). `startTrial` looks only at whether there was a trial: a
  business that paid before connecting goes from ACTIVE to TRIAL, and its next charge counts from that day.

Seen while modelling, and not runs:

* two confirmations of one session at once, or a crash before `appointmentId` is written, book twice;
* two openings at once leave two sessions open;
* overlapping runs of the reminders job send twice;
* an entry that began before an invitation was corrected links the former account;
* two uploads at once exceed the maximum of photos, and one counted before a removal leaves a gallery without its
  position 0, where the cover is looked for;
* approving a request to join may leave a card without access, or a request both approved and rejected;
* a stale save of the settings brings back a connection that had been removed;
* two requests of one customer that overlap: a tap, a text or a repeated button that read the session before it was finished saves its copy after, and the
  booking is open again (`advance`, `booking-flow/booking-session.service.ts:130`);
* a removal of a photo that stops between Cloudinary and the row leaves a photo of the page without its file until it is asked again. The comment of `remove`
  (`business-photos/business-photos.service.ts:274`) says that the row keeps pointing to an image that exists, which is so when the call fails before it destroys anything;
* a connected business waits for ever, with its row of `whatsapp_templates` that of an account it left, in three cases: it was moved to the new account by hand (`updateSettings`
  does nothing to the templates), the process stopped between writing the connection and `deleteByTenant`, or a webhook or the job that had read the former account wrote afterwards. The
  jobs look for rows that are missing or pending, and these are neither, or are asked for in an account that has no such template. The comment of `deleteByTenant` (`whatsapp/whatsapp-templates.repository.ts:67-73`) explains why
  they must not stay;
* two extensions of support at once: both add to the same end, and only one counts, though `tenants/tenants.service.ts:363` says that pressing twice is fourteen days. One that
  read the row before a charge writes TRIAL over a business that has just paid, and one that began without a trial may date it again;
* a price written between the queries of an edit, or of a change of status, is undone by it, as both write the segments they had read.

## 6. Not modelled, and what is left

**Abstracted.** Names, e-mails and notes are identities; money is in cents and time in steps; a search text, the wording of
every message, the layout of a Flow and the order of two businesses that share nothing are left out. Other customers are a choice
in `GuidedBooking`, and a fixed set of plans in `Agenda`.

**Left out for good**, as they are I/O, formatting or reads: the encryption of Flow payloads, HTTP, guards, cookies and tokens,
the language model, the building of templates, migrations, wiring, `onboarding` (derives the next step of the set-up), `public-directory`
(a search), `messages` (a log that is only appended to), `schedule` (normalises its input), `service-categories` (single-row writes).
What this says of each component is in `PROJECT.json`.

**Left for later**, in this order:

1. The edge of the day: `findBusySegments` looks for segments by the day they begin in, and `OpenTimes` has a single day.
   This hazard has no property yet.
2. The wide conversation of `booking_sessions` with two requests in course, which `booking_restarts` has over one service only.
3. Reports of Meta on accounts and payments (`account_update`), which read and write the settings in two queries.

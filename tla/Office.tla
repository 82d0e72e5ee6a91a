---- MODULE Office ----
(***************************************************************************)
(* The parts of the back office that share no state within a request,      *)
(* checked side by side: a behaviour is one of one part, and the variables *)
(* of the others stand still at Nothing.  Each part is instantiated with    *)
(* its proofs, where it has them, for those of the whole to cite.          *)
(***************************************************************************)
EXTENDS Integers, Sequences, FiniteSets

CONSTANTS
  Nothing,      \* the null of a column, and what the variables of a part that is not on hold
  Handlers,     \* requests in course
  OneHandler,   \* the same, where what is promised takes one at a time
  Staff, Accounts, Businesses,
  Batch,        \* rows that a job takes
  MaxChanges,   \* bound: how often the world changes around a part
  MaxAppts      \* bound: appointments ever booked

CONSTANTS AlertPlans, MaxSegments, MaxEdits, MayLose                                 \* StaffAlerts
CONSTANTS TeamBusinesses, Founders, MaxPending, TeamRows, MaxBooked                  \* TeamAccess
CONSTANTS DayStaff, DayServices, Parallel, DayHours, Shifts, BlockRows, Requests,
          Step, Lead, MaxNow, MaxBookings                                            \* OpenTimes
CONSTANTS Number, Dial, Files, MaxCards, MaxVisits                                   \* Clients
CONSTANTS Browsers, MaxClaims                                                        \* Claims
CONSTANTS Waba, Connected0, MaxStarts, MaxFails                                      \* Connection
CONSTANTS TrialDays, Extensions, Terms, FirstDay, LastDay, Horizon                   \* Subscription
CONSTANTS NoPrice, Guests, Customers, Catalogue0, Prices, Currencies, Rates, DeskPlans, Starts,
          DayLength, Zone, DeskMonths, Week, MaxDaily, Days, FirstNow, MaxClock, MaxWrites \* Reports
CONSTANTS LastHour, Rows, MaxNext, MinNext, CutTolerance                             \* SlotScreens
CONSTANTS MaxPhotos, MaxUploads, MaxRequests                                         \* Photos

VARIABLES
  part,                                                                \* whose behaviour it is
  status, segs, rows, fs, reachable, approved, edits, changes, untold, \* StaffAlerts
  tenants, cards, requests, signup, hs,                                \* TeamAccess
  hours, shift, blocks, busy, now, query, wrote, changed,              \* OpenTimes
  clients, bookings, inCourse,                                         \* Clients
  owned, session, jar, links, visits,                                  \* Claims
  conn, templates, meta, mail, calls, job, strays, starts, fails,      \* Connection
  plan, trialStart, trialEnd, paidTo, day, desk,                       \* Subscription
  catalogue, crew, agenda, clock, writes, copies,                      \* Reports
  free, step, screen, seen, same, taken,                               \* SlotScreens
  photos, files, uploads, column, pages, calm, cut, served          \* Photos

-----------------------------------------------------------------------------
(* The parts *)

Alerts == INSTANCE AlertsProofs WITH Plans <- AlertPlans, Flushers <- Handlers, NoStaff <- Nothing

Team == INSTANCE TeamAccess WITH Businesses <- TeamBusinesses, MaxRows <- TeamRows, Handlers <- OneHandler, None <- Nothing

Times == INSTANCE TimesProofs WITH Staff <- DayStaff, Services <- DayServices, Hours <- DayHours, Anyone <- Nothing

Cards == INSTANCE Clients WITH MaxAppts <- MaxVisits, cards <- clients, appts <- bookings, hs <- inCourse

Owners == INSTANCE Claims WITH Nobody <- Nothing, appts <- owned, hs <- visits

Link == INSTANCE Connection WITH Handlers <- OneHandler, None <- Nothing, rows <- templates, hs <- calls

Money == INSTANCE Subscription WITH status <- plan

Desk == INSTANCE ReportsProofs WITH
  Clients <- Guests, Accounts <- Customers, Plans <- DeskPlans, FirstDay <- DeskMonths, MaxNow <- MaxClock, Null <- NoPrice,
  team <- crew, appts <- agenda

Screens == INSTANCE ScreensProofs WITH session <- step, changes <- taken

Images == INSTANCE Photos WITH rows <- photos, hs <- pages, requests <- served

-----------------------------------------------------------------------------
(* What holds of the variables of a part that is not on *)

NoAlerts ==
  /\ status = Nothing /\ segs = Nothing /\ rows = Nothing /\ fs = Nothing /\ reachable = Nothing
  /\ approved = Nothing /\ edits = Nothing /\ changes = Nothing /\ untold = Nothing
NoTeam == tenants = Nothing /\ cards = Nothing /\ requests = Nothing /\ signup = Nothing /\ hs = Nothing
NoTimes ==
  /\ hours = Nothing /\ shift = Nothing /\ blocks = Nothing /\ busy = Nothing /\ now = Nothing
  /\ query = Nothing /\ wrote = Nothing /\ changed = Nothing
NoCards == clients = Nothing /\ bookings = Nothing /\ inCourse = Nothing
NoOwners == owned = Nothing /\ session = Nothing /\ jar = Nothing /\ links = Nothing /\ visits = Nothing
NoLink ==
  /\ conn = Nothing /\ templates = Nothing /\ meta = Nothing /\ mail = Nothing
  /\ calls = Nothing /\ job = Nothing /\ strays = Nothing /\ starts = Nothing /\ fails = Nothing
NoMoney ==
  /\ plan = Nothing /\ trialStart = Nothing /\ trialEnd = Nothing
  /\ paidTo = Nothing /\ day = Nothing /\ desk = Nothing
NoDesk ==
  /\ catalogue = Nothing /\ crew = Nothing /\ agenda = Nothing
  /\ clock = Nothing /\ writes = Nothing /\ copies = Nothing
NoScreens ==
  /\ free = Nothing /\ step = Nothing /\ screen = Nothing
  /\ seen = Nothing /\ same = Nothing /\ taken = Nothing
NoImages ==
  /\ photos = Nothing /\ files = Nothing /\ uploads = Nothing /\ column = Nothing
  /\ pages = Nothing /\ calm = Nothing /\ cut = Nothing /\ served = Nothing

-----------------------------------------------------------------------------

ASSUME PartsAssumption ==
  /\ Alerts!AlertsAssumption /\ Team!TeamAssumption /\ Times!TimesAssumption /\ Cards!NumberAssumption /\ Cards!FilesAssumption
  /\ Owners!ClaimsAssumption /\ Link!ConnectionAssumption
  /\ Money!ClockAssumption /\ Money!ExtensionsAssumption /\ Money!TermsAssumption /\ Money!CalendarAssumption
  /\ Desk!ReportsAssumption /\ Desk!CalendarAssumption /\ Screens!ScreensAssumption
  /\ Images!PhotosAssumption

alertsVars == <<status, segs, rows, fs, reachable, approved, edits, changes, untold>>
teamVars == <<tenants, cards, requests, signup, hs>>
timesVars == <<hours, shift, blocks, busy, now, query, wrote, changed>>
cardsVars == <<clients, bookings, inCourse>>
ownersVars == <<owned, session, jar, links, visits>>
linkVars == <<conn, templates, meta, mail, calls, job, strays, starts, fails>>
moneyVars == <<plan, trialStart, trialEnd, paidTo, day, desk>>
deskVars == <<catalogue, crew, agenda, clock, writes, copies>>
screensVars == <<free, step, screen, seen, same, taken>>
imagesVars == <<photos, files, uploads, column, pages, calm, cut, served>>
vars == <<part, alertsVars, teamVars, timesVars, cardsVars, ownersVars, linkVars, moneyVars, deskVars, screensVars, imagesVars>>

Init ==
  \/ part = "alerts" /\ Alerts!Init /\ NoTeam /\ NoTimes /\ NoCards /\ NoOwners /\ NoLink /\ NoMoney /\ NoDesk /\ NoScreens /\ NoImages
  \/ part = "team" /\ Team!Init /\ NoAlerts /\ NoTimes /\ NoCards /\ NoOwners /\ NoLink /\ NoMoney /\ NoDesk /\ NoScreens /\ NoImages
  \/ part = "times" /\ Times!Init /\ NoAlerts /\ NoTeam /\ NoCards /\ NoOwners /\ NoLink /\ NoMoney /\ NoDesk /\ NoScreens /\ NoImages
  \/ part = "cards" /\ Cards!Init /\ NoAlerts /\ NoTeam /\ NoTimes /\ NoOwners /\ NoLink /\ NoMoney /\ NoDesk /\ NoScreens /\ NoImages
  \/ part = "owners" /\ Owners!Init /\ NoAlerts /\ NoTeam /\ NoTimes /\ NoCards /\ NoLink /\ NoMoney /\ NoDesk /\ NoScreens /\ NoImages
  \/ part = "link" /\ Link!Init /\ NoAlerts /\ NoTeam /\ NoTimes /\ NoCards /\ NoOwners /\ NoMoney /\ NoDesk /\ NoScreens /\ NoImages
  \/ part = "money" /\ Money!Init /\ NoAlerts /\ NoTeam /\ NoTimes /\ NoCards /\ NoOwners /\ NoLink /\ NoDesk /\ NoScreens /\ NoImages
  \/ part = "desk" /\ Desk!Init /\ NoAlerts /\ NoTeam /\ NoTimes /\ NoCards /\ NoOwners /\ NoLink /\ NoMoney /\ NoScreens /\ NoImages
  \/ part = "screens" /\ Screens!Init /\ NoAlerts /\ NoTeam /\ NoTimes /\ NoCards /\ NoOwners /\ NoLink /\ NoMoney /\ NoDesk /\ NoImages
  \/ part = "images" /\ Images!Init /\ NoAlerts /\ NoTeam /\ NoTimes /\ NoCards /\ NoOwners /\ NoLink /\ NoMoney /\ NoDesk /\ NoScreens

OnlyAlerts == part = "alerts" /\ UNCHANGED <<part, teamVars, timesVars, cardsVars, ownersVars, linkVars, moneyVars, deskVars, screensVars, imagesVars>>
OnlyTeam == part = "team" /\ UNCHANGED <<part, alertsVars, timesVars, cardsVars, ownersVars, linkVars, moneyVars, deskVars, screensVars, imagesVars>>
OnlyTimes == part = "times" /\ UNCHANGED <<part, alertsVars, teamVars, cardsVars, ownersVars, linkVars, moneyVars, deskVars, screensVars, imagesVars>>
OnlyCards == part = "cards" /\ UNCHANGED <<part, alertsVars, teamVars, timesVars, ownersVars, linkVars, moneyVars, deskVars, screensVars, imagesVars>>
OnlyOwners == part = "owners" /\ UNCHANGED <<part, alertsVars, teamVars, timesVars, cardsVars, linkVars, moneyVars, deskVars, screensVars, imagesVars>>
OnlyLink == part = "link" /\ UNCHANGED <<part, alertsVars, teamVars, timesVars, cardsVars, ownersVars, moneyVars, deskVars, screensVars, imagesVars>>
OnlyMoney == part = "money" /\ UNCHANGED <<part, alertsVars, teamVars, timesVars, cardsVars, ownersVars, linkVars, deskVars, screensVars, imagesVars>>
OnlyDesk == part = "desk" /\ UNCHANGED <<part, alertsVars, teamVars, timesVars, cardsVars, ownersVars, linkVars, moneyVars, screensVars, imagesVars>>
OnlyScreens == part = "screens" /\ UNCHANGED <<part, alertsVars, teamVars, timesVars, cardsVars, ownersVars, linkVars, moneyVars, deskVars, imagesVars>>
OnlyImages == part = "images" /\ UNCHANGED <<part, alertsVars, teamVars, timesVars, cardsVars, ownersVars, linkVars, moneyVars, deskVars, screensVars>>

Next ==
  \/ OnlyAlerts /\ Alerts!Next
  \/ OnlyTeam /\ Team!Next
  \/ OnlyTimes /\ Times!Next
  \/ OnlyCards /\ Cards!Next
  \/ OnlyOwners /\ Owners!Next
  \/ OnlyLink /\ Link!Next
  \/ OnlyMoney /\ Money!Next
  \/ OnlyDesk /\ Desk!Next
  \/ OnlyScreens /\ Screens!Next
  \/ OnlyImages /\ Images!Next

Fairness ==
  /\ WF_vars(OnlyAlerts /\ Alerts!FailStale) /\ WF_vars(OnlyAlerts /\ Alerts!Age)
  /\ \A f \in Handlers : WF_vars(OnlyAlerts /\ Alerts!Dispatch(f)) /\ WF_vars(OnlyAlerts /\ Alerts!FindPending(f))
  /\ WF_vars(OnlyLink /\ Link!Job)
  /\ \A w \in Link!Wabas : WF_vars(OnlyLink /\ Link!Review(w))
  /\ \A b \in Businesses : WF_vars(OnlyLink /\ Link!Age(b))

Spec == Init /\ [][Next]_vars /\ Fairness

-----------------------------------------------------------------------------

TypeOK ==
  /\ part = "alerts" => Alerts!TypeOK
  /\ part = "team" => Team!TypeOK
  /\ part = "times" => Times!TypeOK
  /\ part = "cards" => Cards!TypeOK
  /\ part = "money" => Money!TypeOK
  /\ part = "desk" => Desk!TypeOK
  /\ part = "images" => Images!TypeOK

\* Alerts: no fact is told twice.
ToldOnce == part = "alerts" => Alerts!ToldOnce
\* Alerts: every open segment has its row, and every lost one the row that says so.
AgendaIsAnnounced == part = "alerts" => Alerts!AgendaIsAnnounced
\* Alerts: no row stays for ever half sent, or pending with a template and room in a batch.
RowsSettle == \A i \in 1 .. Alerts!MaxRows : []<>(part = "alerts" => Alerts!AtRest(i))

\* Team and cards: no appointment that was ever written goes with the professional who did
\* it or with the client it was for.
HistorySurvives ==
  /\ part = "team" => Team!HistorySurvives
  /\ part = "cards" => Cards!ClientHistoryStays
\* Team: the account a card lets in is the one it was last invited with.
LinkedIsInvited == part = "team" => Team!LinkedIsInvited

\* Day: the times offered are exactly those somebody can attend, each as short as can be.
OfferIsExact == part = "times" => Times!OfferIsExact
\* Day: what is written on confirming can be attended by who was chosen.
BookedIsServable == part = "times" => Times!BookedIsServable
\* Day: the panel is warned exactly of what is not free and at work.
PanelIsWarned == part = "times" => Times!PanelIsWarned
\* Day: what the assistant suggests could be booked.
SuggestionsHold == part = "times" => Times!SuggestionsHold
\* Cards: whichever the doors somebody comes by, they have one card.
OnePersonOneCard == part = "cards" => Cards!OnePersonOneCard

\* Owners: an appointment that is of an account stays of that account.
OwnerIsKept == [][part = "owners" => Owners!Kept]_vars

\* Link: a connected business does not wait for ever for a template of its own account,
\* unless its row is one of an account it left that nobody deleted (Connection.Stray).
TemplatesSettle ==
  \A b \in Businesses :
    []<>(part = "link" => Link!Settled(b)) \/ <>[](part = "link" /\ Link!Stray(b))

\* Money: the day a trial began is written once, and what was granted is not taken back but by
\* an extension that another write of the clock overtook between its queries.
TrialClockRunsOnce == [][part = "money" => Money!TrialClock]_vars

\* Desk: every report and every list of the same days says the same.
ReportsAgree == part = "desk" => Desk!ReportsAgree
\* Desk: what was agreed for a service changes only by writing it, or by an edit or a change of
\* status that another write of the same segments overtook between its queries.
AgreedStands == [][part = "desk" => Desk!Agreed]_vars

\* Screens: every hour of the day can be reached, in lists that can be sent.
EveryTimeOffered == part = "screens" => Screens!EveryTimeOffered

\* Images: a photo of the page without its file is one whose removal is between its two
\* writes or stopped there; and the gallery has its cover.
PageStands == part = "images" => Images!PageStands
====

---- MODULE BookingMachine ----
(***************************************************************************)
(* The guided booking flow as functions of a session: which answers of a   *)
(* customer are accepted (booking-flow.machine.ts), how a session advances *)
(* and closes (booking-session.service.ts) and which options each step     *)
(* offers (the prompts of booking-flow.service.ts).  No state here: the    *)
(* handlers that read and save sessions are in GuidedBooking.              *)
(*                                                                         *)
(* Data is abstract.  Services, categories, professionals, dates and slots *)
(* are numbers from 1, and 0 is the null of a column.  A slot belongs to   *)
(* one date.  A range of slots is known by its first slot and spans        *)
(* RangeSpan of them.  An answer is [k, v]: what was tapped and its value. *)
(* Pages are not told apart: the options of a screen are those of all its  *)
(* pages, and "more" reissues the step.  stepVersion counts modulo Cycle:  *)
(* it is only ever compared with the version of a screen, and a screen     *)
(* older than the last one carries version 0 here, which no session has.   *)
(***************************************************************************)
EXTENDS Naturals, Integers, FiniteSets

CONSTANTS
  Services,     \* the ids of the services of the business
  CategoryOf,   \* [Services -> Nat]: the category of each, 0 for none; no category is a service
  TeamOf,       \* [Services -> SUBSET Nat]: who performs each service
  Slots,        \* the start times there are
  DateOf,       \* [Slots -> Nat]: the day of each; day 1 is today
  Cycle,        \* stepVersion is kept in 1 .. Cycle
  ListRoom,     \* services that fit in one list of the channel
  SlotRoom,     \* slots that fit in one screen
  RangeSpan     \* slots covered by one range of the day

ASSUME CatalogueAssumption ==
  /\ Services \subseteq Nat \ {0} /\ Slots \subseteq Nat \ {0}
  /\ CategoryOf \in [Services -> Nat]
  /\ TeamOf \in [Services -> SUBSET (Nat \ {0})]
  /\ DateOf \in [Slots -> Nat \ {0}]
  /\ Cycle \in Nat \ {0}

None == 0
Today == 1
Dates == {DateOf[x] : x \in Slots}
Professionals == UNION {TeamOf[s] : s \in Services}

Steps == {"ASK_CATEGORY", "ASK_SERVICE", "ASK_STAFF", "ASK_SLOT", "ASK_DATE", "CONFIRM"}
Terminal == {"COMPLETED", "CANCELLED", "EXPIRED"}
Paginated == Steps \ {"CONFIRM"}

\* The columns of a session the flow reads; late is whether expiresAt has passed.
\* staff is None both before the question and for whoever answered "anybody".
Session == [st : Steps \cup Terminal, ver : 1 .. Cycle, late : BOOLEAN,
            appt : Nat, editing : Nat, date : Nat, cat : {"NULL", "SPECIFIC", "UNCATEGORIZED"},
            category : Nat, service : Nat, staff : Nat, slot : Nat, range : Nat]

OpenOrDone(r) == r.st \notin {"CANCELLED", "EXPIRED"}   \* mutant: a finished session counts as open
Open(r) == r.st \notin Terminal

NewSession(editing) ==
  [st |-> "ASK_SERVICE", ver |-> 1, late |-> FALSE, appt |-> None,
   editing |-> editing, date |-> None, cat |-> "NULL", category |-> None, service |-> None,
   staff |-> None, slot |-> None, range |-> None]

\* The answers: an option of a screen carries one of them.
Answer(k, v) == [k |-> k, v |-> v]
Cancel == Answer("cancel", None)
Confirm == Answer("confirm", None)
More == Answer("more", None)
OtherDays == Answer("otherdays", None)
AllTimes == Answer("alltimes", None)
Back == Answer("back", None)
Uncategorized == Answer("nocategory", None)
AnyStaff == Answer("any", None)
As(k, vs) == {Answer(k, v) : v \in vs}

-----------------------------------------------------------------------------
(* Which answers are accepted *)

\* The steps whose ids are free text take any answer that is not "more".
ValidForState(st, a) ==
  IF a.k = "more" THEN st \in Paginated
  ELSE CASE st = "ASK_DATE" -> a.k = "date"
         [] st \in {"ASK_CATEGORY", "ASK_SERVICE", "ASK_STAFF"} -> TRUE
         [] st = "ASK_SLOT" -> a.k \in {"otherdays", "alltimes", "range", "slot"}
         [] st = "CONFIRM" -> a.k = "confirm"
         [] OTHER -> FALSE

\* A tap is [tok, ver, st, a]: the four parts of an option.  A message Meta delivers
\* again is dropped before this, by its id, and changes nothing.
VerdictOfAnyScreen(r, tok, tap) ==    \* mutant: the version of the screen is not compared
  CASE tap.tok # tok -> "FOREIGN"
    [] tap.a = Cancel -> IF Open(r) THEN "CANCEL" ELSE "STALE"
    [] r.late -> "EXPIRED"
    [] ~Open(r) \/ tap.st # r.st -> "STALE"
    [] ~ValidForState(r.st, tap.a) -> "MALFORMED"
    [] OTHER -> "ACCEPT"
Verdict(r, tok, tap) ==
  CASE tap.tok # tok -> "FOREIGN"
    [] tap.a = Cancel -> IF Open(r) THEN "CANCEL" ELSE "STALE"
    [] r.late -> "EXPIRED"
    [] ~Open(r) \/ tap.ver # r.ver \/ tap.st # r.st -> "STALE"
    [] ~ValidForState(r.st, tap.a) -> "MALFORMED"
    [] OTHER -> "ACCEPT"

-----------------------------------------------------------------------------
(* How a session moves *)

\* Every advance renews the expiry and makes the options of the step before stale.
Bumped(r) == [r EXCEPT !.ver = (@ % Cycle) + 1]
Advance(r, st) == [Bumped(r) EXCEPT !.st = st, !.late = FALSE]
Reissue(r) == Advance(r, r.st)
CompleteOnly(r, a) == [Bumped(r) EXCEPT !.st = "COMPLETED"]   \* mutant: the appointment is not noted
Complete(r, a) == [Bumped(r) EXCEPT !.appt = a, !.st = "COMPLETED"]
Close(r, st) == [r EXCEPT !.st = st]

NextStateAfter(st, skipStaffStep) ==
  CASE st = "ASK_DATE" -> "ASK_SLOT"
    [] st = "ASK_CATEGORY" -> "ASK_SERVICE"
    [] st = "ASK_SERVICE" -> IF skipStaffStep THEN "ASK_SLOT" ELSE "ASK_STAFF"
    [] st = "ASK_STAFF" -> "ASK_SLOT"
    [] st = "ASK_SLOT" -> "CONFIRM"
    [] st = "CONFIRM" -> "COMPLETED"
    [] OTHER -> st

-----------------------------------------------------------------------------
(* What each step offers.  A screen is the session after the reads that made *)
(* it and the answers it offers; a dead end offers none and closes it.       *)

Screen(r, answers) == [row |-> r, answers |-> answers]
WithCancel(r, content, room, extra) ==
  Screen(r, content \cup extra \cup {Cancel} \cup IF Cardinality(content) > room THEN {More} ELSE {})
DeadEndOpen(r) == Screen(r, {})   \* mutant: a dead end leaves the session open
DeadEnd(r) == Screen(IF Open(r) THEN Close(r, "CANCELLED") ELSE r, {})
NoExit(r) == Screen(r, {})

Groups(active) == {CategoryOf[s] : s \in active}

\* Categories replace the pages of a catalogue that does not fit, and only if there
\* are two of them to choose from.
AsksCategory(active) == Cardinality(active) > ListRoom /\ Cardinality(Groups(active)) > 1

CategoryScreen(r, active) ==
  WithCancel(r, As("category", Groups(active) \ {None})
                  \cup IF None \in Groups(active) THEN {Uncategorized} ELSE {}, ListRoom, {})

ServicesForSession(r, active) ==
  LET filtered == {s \in active : CategoryOf[s] = r.category}
  IN IF r.cat = "NULL" \/ filtered = {} THEN active ELSE filtered

ServiceScreen(r, offered) ==
  IF offered = {} THEN DeadEnd(r)
  ELSE WithCancel(r, As("service", offered), ListRoom, IF r.cat = "NULL" THEN {} ELSE {Back})

\* A catalogue that shrank in the meantime skips the question, under the same state.
AskCategory(r, active) ==
  IF AsksCategory(active) THEN CategoryScreen(r, active) ELSE ServiceScreen(r, active)

AskStaff(r, team) == WithCancel(r, As("staff", team) \cup {AnyStaff}, ListRoom, {})

\* days are the next days the business opens: today is not among them.
AskDate(r, days) == WithCancel(r, As("date", days \ {Today}), ListRoom, {})

InRange(x, from) == x >= from /\ x < from + RangeSpan

\* The professionals a session may be given, and the slots of its day one of them has free.
Candidates(r) == IF r.staff # None THEN {r.staff} ELSE TeamOf[r.service]
SlotsOf(r, w) ==
  IF r.date = None \/ r.service \notin w.active THEN {}
  ELSE {x \in Slots : DateOf[x] = r.date /\ \E p \in Candidates(r) : <<p, x>> \notin w.busy}
RangesOf(all) == {x \in all : \A y \in all : InRange(x, y) => x <= y}

DayScreen(r, all) ==
  IF Cardinality(all) <= SlotRoom
  THEN WithCancel(r, As("slot", all), SlotRoom, {OtherDays})
  ELSE Screen(r, As("range", RangesOf(all)) \cup {OtherDays, Cancel})

\* A day without slots still offers a way out, and a range that filled up while it was
\* looked at sends the customer back to the day.
AskSlot(r, w) ==
  LET all    == SlotsOf(r, w)
      chosen == {x \in all : InRange(x, r.range)}
      back   == [Reissue(r) EXCEPT !.range = None]
  IN CASE all = {} -> Screen(r, {OtherDays, Cancel})
       [] all # {} /\ r.range # None /\ chosen = {} -> DayScreen(back, all)
       [] all # {} /\ r.range # None /\ chosen # {} -> WithCancel(r, As("slot", chosen), SlotRoom, {AllTimes})
       [] OTHER -> DayScreen(r, all)

HasSummary(r) == r.date # None /\ r.slot # None /\ r.service # None

\* Without a summary the session would stay open on a screen that offers nothing.
AskConfirm(r) == IF HasSummary(r) THEN Screen(r, {Confirm, Cancel}) ELSE NoExit(r)

SlotTaken(r, w) ==
  LET again == [Advance(r, "ASK_SLOT") EXCEPT !.slot = None]
  IN WithCancel(again, As("slot", SlotsOf(again, w)), SlotRoom, {})

\* The world a screen is made from: the services a customer may choose (services are
\* switched off, never deleted), the days the business opens, and who is busy when.
CurrentScreen(r, w) ==
  CASE r.st = "ASK_DATE" -> AskDate(r, w.days)
    [] r.st = "ASK_CATEGORY" -> AskCategory(r, w.active)
    [] r.st = "ASK_SERVICE" -> ServiceScreen(r, ServicesForSession(r, w.active))
    [] r.st = "ASK_STAFF" -> AskStaff(r, IF r.service = None THEN {} ELSE TeamOf[r.service])
    [] r.st = "ASK_SLOT" -> AskSlot(r, w)
    [] r.st = "CONFIRM" -> AskConfirm(r)
    [] OTHER -> NoExit(r)

-----------------------------------------------------------------------------
(* What an accepted answer does, except confirming *)

AfterCategoryRaw(r, a, w) ==    \* mutant: the answer itself is stored as the kind of category
  LET moved == [Advance(r, NextStateAfter("ASK_CATEGORY", FALSE)) EXCEPT !.cat = a.k, !.category = a.v]
  IN ServiceScreen(moved, ServicesForSession(moved, w.active))
AfterCategory(r, a, w) ==
  LET moved == [Advance(r, NextStateAfter("ASK_CATEGORY", FALSE)) EXCEPT
                  !.cat = IF a = Uncategorized THEN "UNCATEGORIZED" ELSE "SPECIFIC",
                  !.category = IF a = Uncategorized THEN None ELSE a.v]
  IN ServiceScreen(moved, ServicesForSession(moved, w.active))

BackToCategories(r, w) ==
  AskCategory([Advance(r, "ASK_CATEGORY") EXCEPT !.cat = "NULL", !.category = None], w.active)

\* With a single professional the question is skipped; with none the flow ends here.
AfterService(r, s, w) ==
  LET team == TeamOf[s]
  IN CASE team = {} -> DeadEnd(r)
       [] Cardinality(team) = 1 ->
            AskSlot([Advance(r, NextStateAfter("ASK_SERVICE", TRUE)) EXCEPT
                       !.service = s, !.staff = CHOOSE p \in team : TRUE], w)
       [] OTHER -> AskStaff([Advance(r, NextStateAfter("ASK_SERVICE", FALSE)) EXCEPT !.service = s], team)

AfterStaff(r, a, w) ==
  AskSlot([Advance(r, NextStateAfter("ASK_STAFF", FALSE)) EXCEPT
             !.staff = IF a = AnyStaff THEN None ELSE a.v], w)

AfterSlot(r, a, w) ==
  IF a.k = "range" THEN AskSlot([Reissue(r) EXCEPT !.range = a.v], w)
  ELSE AskConfirm([Advance(r, NextStateAfter("ASK_SLOT", FALSE)) EXCEPT !.slot = a.v])

ApplySelection(r, a, w) ==
  CASE a = More -> CurrentScreen(Reissue(r), w)
    [] a = AllTimes -> AskSlot([Reissue(r) EXCEPT !.range = None], w)
    [] a = OtherDays -> AskDate([Advance(r, "ASK_DATE") EXCEPT !.range = None], w.days)
    [] r.st = "ASK_DATE" /\ a.k = "date" ->
         AskSlot([Advance(r, NextStateAfter("ASK_DATE", FALSE)) EXCEPT !.date = a.v], w)
    [] r.st = "ASK_CATEGORY" /\ a \notin {More, AllTimes, OtherDays} -> AfterCategory(r, a, w)
    [] r.st = "ASK_SERVICE" /\ a = Back -> BackToCategories(r, w)
    [] r.st = "ASK_SERVICE" /\ a.k = "service" -> AfterService(r, a.v, w)
    [] r.st = "ASK_STAFF" /\ a.k \in {"staff", "any"} -> AfterStaff(r, a, w)
    [] r.st = "ASK_SLOT" /\ a.k \in {"range", "slot"} -> AfterSlot(r, a, w)
    [] OTHER -> NoExit(r)

-----------------------------------------------------------------------------
(* The Flow: a form in which every choice lands in the same state *)

\* What a screen of the form writes in the session, whatever its state.
Remember(r) == Advance(r, "ASK_SLOT")

FlowSelection(r, trigger, s, p, x) ==
  CASE trigger = "service" ->
         [r EXCEPT !.service = s, !.date = Today, !.slot = None,
                   !.staff = IF Cardinality(TeamOf[s]) = 1 THEN CHOOSE q \in TeamOf[s] : TRUE ELSE None]
    [] trigger = "staff" -> [r EXCEPT !.staff = p]
    [] trigger = "date" -> [r EXCEPT !.date = DateOf[x], !.slot = None]
    [] trigger = "review" -> [r EXCEPT !.service = s, !.date = DateOf[x], !.slot = x]
====

---- MODULE InboundProofs ----
(***************************************************************************)
(* Proofs about Inbound, for any catalogue, any number of sessions and any *)
(* pages: first what the screens of a session are, then what the handlers  *)
(* keep of the sessions, and last what one request at a time keeps.        *)
(***************************************************************************)
EXTENDS Inbound, FiniteSetTheorems, WellFoundedInduction, TLAPS

-----------------------------------------------------------------------------
(* Sessions and answers *)

\* A service is one of the business, and an appointment one of the customer.
Row == {r \in Session : r.service \in Services \cup {None} /\ r.editing \in Appts \cup {None}}

Kinds == {"cancel", "confirm", "more", "otherdays", "alltimes", "back", "nocategory", "any",
          "category", "service", "staff", "date", "slot", "range"}
Answers == {a \in [k : Kinds, v : Nat] : a.k = "service" => a.v \in Services}

\* What a session of the chat has been told by the step it is in.
Sound(r) ==
  /\ r.date # None
  /\ r.st \in {"ASK_CATEGORY", "ASK_SERVICE"} => r.service = None /\ r.staff = None
  /\ r.st \in {"ASK_STAFF", "ASK_DATE", "ASK_SLOT", "CONFIRM", "COMPLETED"} => r.service # None
  /\ r.staff # None => r.service # None /\ r.staff \in TeamOf[r.service]
  /\ r.st \in {"CONFIRM", "COMPLETED"} => r.slot \in Slots /\ DateOf[r.slot] = r.date

\* The answers its step may offer.
Offered(r) ==
  {a \in Answers :
     \/ a = Cancel
     \/ a = More /\ r.st # "CONFIRM"
     \/ r.st = "ASK_CATEGORY" /\ a.k \in {"category", "nocategory", "service", "back"}
     \/ r.st = "ASK_SERVICE" /\ (a.k = "service" \/ a = Back)
     \/ r.st = "ASK_STAFF" /\ (a = AnyStaff \/ (a.k = "staff" /\ a.v \in TeamOf[r.service]))
     \/ r.st = "ASK_DATE" /\ a.k = "date" /\ a.v # None
     \/ r.st = "ASK_SLOT" /\ (a \in {OtherDays, AllTimes} \/ a.k = "range")
     \/ r.st = "ASK_SLOT" /\ a.k = "slot" /\ a.v \in Slots /\ DateOf[a.v] = r.date
     \/ r.st = "CONFIRM" /\ a = Confirm}

\* A screen moves the session on, and neither finishes it nor touches its appointments.
Follows(scr, r) ==
  /\ scr.row \in Row /\ scr.answers \subseteq Answers
  /\ scr.row.st # "COMPLETED" /\ scr.row.appt = r.appt /\ scr.row.editing = r.editing

\* A screen that leaves its session open offers what the step may offer, and the way out.
Suited(scr) ==
  /\ Sound(scr.row)
  /\ Open(scr.row) => Cancel \in scr.answers /\ scr.answers \subseteq Offered(scr.row)

\* The answers of the screens are answers.
LEMMA AnswersTyped ==
  /\ {Cancel, Confirm, More, OtherDays, AllTimes, Back, Uncategorized, AnyStaff} \subseteq Answers
  /\ \A vs \in SUBSET Nat : \A k \in {"category", "staff", "date", "slot", "range"} : As(k, vs) \subseteq Answers
  /\ \A vs \in SUBSET Services : As("service", vs) \subseteq Answers
<1>1. {Cancel, Confirm, More, OtherDays, AllTimes, Back, Uncategorized, AnyStaff} \subseteq Answers
  BY DEF Answers, Kinds, Answer, Cancel, Confirm, More, OtherDays, AllTimes, Back, Uncategorized, AnyStaff, None
<1>2. ASSUME NEW vs \in SUBSET Nat, NEW k \in {"category", "staff", "date", "slot", "range"}
      PROVE  As(k, vs) \subseteq Answers
  BY DEF Answers, Kinds, As, Answer
<1>3. ASSUME NEW vs \in SUBSET Services PROVE As("service", vs) \subseteq Answers
  BY CatalogueAssumption DEF Answers, Kinds, As, Answer
<1> QED BY <1>1, <1>2, <1>3

\* An answer of a list is of its kind and of one of its values.
LEMMA AnswersOf ==
  ASSUME NEW k, NEW vs, NEW a \in As(k, vs)
  PROVE  a.k = k /\ a.v \in vs
BY DEF As, Answer

\* An advance changes the step, the version and the expiry, and nothing else.
LEMMA AdvanceFields ==
  ASSUME NEW r \in Row, NEW st \in Steps \cup Terminal
  PROVE  /\ Advance(r, st) = [r EXCEPT !.ver = (r.ver % Cycle) + 1, !.st = st, !.late = FALSE]
         /\ Advance(r, st) \in Row
         /\ Advance(r, st).st = st
         /\ \A f \in {"appt", "editing", "date", "cat", "category", "service", "staff", "slot", "range"} :
              Advance(r, st)[f] = r[f]
<1>1. Advance(r, st) = [r EXCEPT !.ver = (r.ver % Cycle) + 1, !.st = st, !.late = FALSE]
  BY DEF Advance, Bumped, Row, Session
<1>2. (r.ver % Cycle) + 1 \in 1 .. Cycle
  BY CatalogueAssumption DEF Row, Session
<1> QED BY <1>1, <1>2 DEF Row, Session

\* Closing a session changes its state and nothing else.
LEMMA CloseFields ==
  ASSUME NEW r \in Row, NEW st \in {"CANCELLED", "EXPIRED"}
  PROVE  /\ Close(r, st) \in Row /\ ~Open(Close(r, st)) /\ Close(r, st).st = st
         /\ Close(r, st).appt = r.appt /\ Close(r, st).editing = r.editing
         /\ Sound(r) => Sound(Close(r, st))
BY DEF Close, Open, Row, Session, Sound, Terminal

-----------------------------------------------------------------------------
(* The screens *)

\* A list of options always carries the way out.
LEMMA ListOffers ==
  ASSUME NEW r, NEW content, NEW room, NEW extra
  PROVE  /\ WithCancel(r, content, room, extra).row = r
         /\ Cancel \in WithCancel(r, content, room, extra).answers
         /\ WithCancel(r, content, room, extra).answers \subseteq content \cup extra \cup {Cancel, More}
BY DEF WithCancel, Screen

\* A session on a list of answers that its step may offer is suited.
LEMMA ListSuits ==
  ASSUME NEW r \in Row, NEW content, NEW room, NEW extra, r.st # "COMPLETED",
         content \cup extra \subseteq Answers
  PROVE  /\ Follows(WithCancel(r, content, room, extra), r)
         /\ Sound(r) /\ r.st # "CONFIRM" /\ content \cup extra \subseteq Offered(r) =>
              Suited(WithCancel(r, content, room, extra))
<1>1. Cancel \in Answers /\ More \in Answers
  BY AnswersTyped
<1>2. Follows(WithCancel(r, content, room, extra), r)
  BY <1>1, ListOffers DEF Follows
<1>3. r.st # "CONFIRM" => Cancel \in Offered(r) /\ More \in Offered(r)
  BY <1>1 DEF Offered
<1>4. Sound(r) /\ r.st # "CONFIRM" /\ content \cup extra \subseteq Offered(r) =>
        Suited(WithCancel(r, content, room, extra))
  BY <1>3, ListOffers DEF Suited
<1> QED BY <1>2, <1>4

\* A dead end closes the session.
LEMMA DeadEndSuits ==
  ASSUME NEW r \in Row, r.st # "COMPLETED"
  PROVE  Follows(DeadEnd(r), r) /\ (Sound(r) => Suited(DeadEnd(r)))
BY CloseFields DEF DeadEnd, Screen, Follows, Suited

\* A screen without answers leaves the session as it was.
LEMMA NoExitFollows ==
  ASSUME NEW r \in Row, r.st # "COMPLETED"
  PROVE  Follows(NoExit(r), r)
BY DEF NoExit, Screen, Follows

\* The categories of the services a customer may choose.
LEMMA CategoryScreenSuits ==
  ASSUME NEW r \in Row, r.st # "COMPLETED", NEW act \in SUBSET Services
  PROVE  /\ Follows(CategoryScreen(r, act), r)
         /\ Sound(r) /\ r.st = "ASK_CATEGORY" => Suited(CategoryScreen(r, act))
<1> DEFINE content == As("category", Groups(act) \ {None})
                        \cup IF None \in Groups(act) THEN {Uncategorized} ELSE {}
<1>1. Groups(act) \ {None} \in SUBSET Nat
  BY CatalogueAssumption DEF Groups
<1>2. content \subseteq Answers
  BY <1>1, AnswersTyped
<1>3. \A a \in content : a.k \in {"category", "nocategory"}
  BY AnswersOf DEF Uncategorized, Answer
<1>4. r.st = "ASK_CATEGORY" => content \subseteq Offered(r)
  BY <1>2, <1>3 DEF Offered
<1> HIDE DEF content
<1>5. /\ Follows(WithCancel(r, content, ListRoom, {}), r)
      /\ Sound(r) /\ r.st = "ASK_CATEGORY" => Suited(WithCancel(r, content, ListRoom, {}))
  BY <1>2, <1>4, ListSuits
<1> QED BY <1>5 DEF CategoryScreen, content

\* The services of a category, or all of them.
LEMMA ServiceScreenSuits ==
  ASSUME NEW r \in Row, r.st # "COMPLETED", NEW offered \in SUBSET Services
  PROVE  /\ Follows(ServiceScreen(r, offered), r)
         /\ Sound(r) /\ r.st \in {"ASK_CATEGORY", "ASK_SERVICE"} => Suited(ServiceScreen(r, offered))
<1> DEFINE content == As("service", offered)
           extra == IF r.cat = "NULL" THEN {} ELSE {Back}
<1>1. content \cup extra \subseteq Answers
  BY AnswersTyped
<1>2. \A a \in content \cup extra : a.k = "service" \/ a = Back
  BY AnswersOf
<1>3. Back.k = "back"
  BY DEF Back, Answer
<1>4. r.st \in {"ASK_CATEGORY", "ASK_SERVICE"} => content \cup extra \subseteq Offered(r)
  BY <1>1, <1>2, <1>3 DEF Offered
<1> HIDE DEF content, extra
<1>5. /\ Follows(WithCancel(r, content, ListRoom, extra), r)
      /\ Sound(r) /\ r.st \in {"ASK_CATEGORY", "ASK_SERVICE"} => Suited(WithCancel(r, content, ListRoom, extra))
  BY <1>1, <1>4, ListSuits
<1> QED BY <1>5, DeadEndSuits DEF ServiceScreen, content, extra

\* The services a customer sees are among those there are.
LEMMA ServicesOffered ==
  ASSUME NEW r, NEW act \in SUBSET Services
  PROVE  ServicesForSession(r, act) \in SUBSET Services
BY DEF ServicesForSession

\* The categories, unless the catalogue has shrunk.
LEMMA AskCategorySuits ==
  ASSUME NEW r \in Row, r.st # "COMPLETED", NEW act \in SUBSET Services
  PROVE  /\ Follows(AskCategory(r, act), r)
         /\ Sound(r) /\ r.st = "ASK_CATEGORY" => Suited(AskCategory(r, act))
BY CategoryScreenSuits, ServiceScreenSuits DEF AskCategory

\* The professionals of the service, or anybody.
LEMMA AskStaffSuits ==
  ASSUME NEW r \in Row, r.st # "COMPLETED", NEW team \in SUBSET Nat
  PROVE  /\ Follows(AskStaff(r, team), r)
         /\ Sound(r) /\ r.st = "ASK_STAFF" /\ team = TeamOf[r.service] => Suited(AskStaff(r, team))
<1> DEFINE content == As("staff", team) \cup {AnyStaff}
<1>1. content \cup {} \subseteq Answers
  BY AnswersTyped
<1>2. \A a \in content : a = AnyStaff \/ (a.k = "staff" /\ a.v \in team)
  BY AnswersOf
<1>3. r.st = "ASK_STAFF" /\ team = TeamOf[r.service] => content \cup {} \subseteq Offered(r)
  BY <1>1, <1>2 DEF Offered
<1> HIDE DEF content
<1>4. /\ Follows(WithCancel(r, content, ListRoom, {}), r)
      /\ Sound(r) /\ r.st = "ASK_STAFF" /\ team = TeamOf[r.service] => Suited(WithCancel(r, content, ListRoom, {}))
  BY <1>1, <1>3, ListSuits
<1> QED BY <1>4 DEF AskStaff, content

\* The next days the business opens.
LEMMA AskDateSuits ==
  ASSUME NEW r \in Row, r.st # "COMPLETED", NEW days \in SUBSET (Nat \ {0})
  PROVE  /\ Follows(AskDate(r, days), r)
         /\ Sound(r) /\ r.st = "ASK_DATE" => Suited(AskDate(r, days))
<1> DEFINE content == As("date", days \ {Today})
<1>1. content \cup {} \subseteq Answers
  BY AnswersTyped
<1>2. \A a \in content : a.k = "date" /\ a.v # None
  BY AnswersOf DEF None
<1>3. r.st = "ASK_DATE" => content \cup {} \subseteq Offered(r)
  BY <1>1, <1>2 DEF Offered
<1> HIDE DEF content
<1>4. /\ Follows(WithCancel(r, content, ListRoom, {}), r)
      /\ Sound(r) /\ r.st = "ASK_DATE" => Suited(WithCancel(r, content, ListRoom, {}))
  BY <1>1, <1>3, ListSuits
<1> QED BY <1>4 DEF AskDate, content

\* The slots of a day, or its ranges when they do not fit.
LEMMA DayScreenSuits ==
  ASSUME NEW r \in Row, r.st # "COMPLETED", NEW all \in SUBSET Slots
  PROVE  /\ Follows(DayScreen(r, all), r)
         /\ Sound(r) /\ r.st = "ASK_SLOT" /\ (\A x \in all : DateOf[x] = r.date) => Suited(DayScreen(r, all))
<1>1. /\ As("slot", all) \subseteq Answers /\ As("range", RangesOf(all)) \subseteq Answers
      /\ OtherDays \in Answers /\ Cancel \in Answers
  BY AnswersTyped, CatalogueAssumption DEF RangesOf
<1>2. /\ \A a \in As("slot", all) : a.k = "slot" /\ a.v \in all
      /\ \A a \in As("range", RangesOf(all)) : a.k = "range"
  BY AnswersOf
<1>3. r.st = "ASK_SLOT" /\ (\A x \in all : DateOf[x] = r.date) =>
        As("slot", all) \cup As("range", RangesOf(all)) \cup {OtherDays, Cancel} \subseteq Offered(r)
  BY <1>1, <1>2 DEF Offered
<1>4. CASE Cardinality(all) <= SlotRoom
  <2>1. /\ Follows(WithCancel(r, As("slot", all), SlotRoom, {OtherDays}), r)
        /\ Sound(r) /\ r.st = "ASK_SLOT" /\ (\A x \in all : DateOf[x] = r.date)
             => Suited(WithCancel(r, As("slot", all), SlotRoom, {OtherDays}))
    BY <1>1, <1>3, ListSuits
  <2> QED BY <1>4, <2>1 DEF DayScreen
<1>5. CASE ~(Cardinality(all) <= SlotRoom)
  BY <1>1, <1>3, <1>5 DEF DayScreen, Screen, Follows, Suited
<1> QED BY <1>4, <1>5

\* The hours of the day of the session: they all are of that day.
LEMMA AskSlotSuits ==
  ASSUME NEW r \in Row, r.st # "COMPLETED", NEW w
  PROVE  Follows(AskSlot(r, w), r) /\ (Sound(r) /\ r.st = "ASK_SLOT" => Suited(AskSlot(r, w)))
<1> DEFINE all == SlotsOf(r, w)
           chosen == {x \in all : InRange(x, r.range)}
           back == [Reissue(r) EXCEPT !.range = None]
<1>1. all \in SUBSET Slots /\ \A x \in all : DateOf[x] = r.date
  BY DEF SlotsOf
<1>2. /\ back \in Row /\ back.st = r.st /\ back.date = r.date /\ back.appt = r.appt /\ back.editing = r.editing
      /\ Sound(r) => Sound(back)
  <2>1. /\ Reissue(r) \in Row /\ Reissue(r).st = r.st
        /\ \A f \in {"appt", "editing", "date", "cat", "category", "service", "staff", "slot", "range"} : Reissue(r)[f] = r[f]
    <3>1. r.st \in Steps \cup Terminal
      BY DEF Row, Session
    <3> QED BY <3>1, AdvanceFields DEF Reissue
  <2> QED BY <2>1 DEF Row, Session, Sound, None
<1> HIDE DEF all, back
<1>3. CASE all = {}
  <2>1. AskSlot(r, w) = Screen(r, {OtherDays, Cancel})
    BY <1>3 DEF AskSlot, all
  <2>2. {OtherDays, Cancel} \subseteq Answers
    BY AnswersTyped
  <2>3. r.st = "ASK_SLOT" => {OtherDays, Cancel} \subseteq Offered(r)
    BY <2>2 DEF Offered
  <2> QED BY <2>1, <2>2, <2>3 DEF Screen, Follows, Suited
<1>4. CASE all # {} /\ r.range # None /\ chosen = {}
  <2>1. AskSlot(r, w) = DayScreen(back, all)
    BY <1>4 DEF AskSlot, all, back
  <2> QED BY <1>1, <1>2, <2>1, DayScreenSuits DEF Follows
<1>5. CASE all # {} /\ r.range # None /\ chosen # {}
  <2>1. AskSlot(r, w) = WithCancel(r, As("slot", chosen), SlotRoom, {AllTimes})
    BY <1>5 DEF AskSlot, all
  <2>2. As("slot", chosen) \cup {AllTimes} \subseteq Answers
    BY <1>1, AnswersTyped, CatalogueAssumption
  <2>3. r.st = "ASK_SLOT" => As("slot", chosen) \cup {AllTimes} \subseteq Offered(r)
    <3>1. \A a \in As("slot", chosen) : a.k = "slot" /\ a.v \in chosen
      BY AnswersOf
    <3> QED BY <1>1, <2>2, <3>1 DEF Offered
  <2> HIDE DEF chosen
  <2> QED BY <2>1, <2>2, <2>3, ListSuits
<1>6. CASE all # {} /\ r.range = None
  <2>1. AskSlot(r, w) = DayScreen(r, all)
    BY <1>6 DEF AskSlot, all
  <2> QED BY <1>1, <2>1, DayScreenSuits
<1> QED BY <1>3, <1>4, <1>5, <1>6

\* With its day, its hour and its service a session can be confirmed.
LEMMA AskConfirmSuits ==
  ASSUME NEW r \in Row, r.st # "COMPLETED"
  PROVE  Follows(AskConfirm(r), r) /\ (Sound(r) /\ r.st = "CONFIRM" => Suited(AskConfirm(r)))
<1>1. {Confirm, Cancel} \subseteq Answers
  BY AnswersTyped
<1>2. r.st = "CONFIRM" => {Confirm, Cancel} \subseteq Offered(r)
  BY <1>1 DEF Offered
<1>3. Sound(r) /\ r.st = "CONFIRM" => HasSummary(r)
  BY CatalogueAssumption DEF Sound, HasSummary, None
<1>4. Follows(Screen(r, {Confirm, Cancel}), r) /\ Follows(NoExit(r), r)
  BY <1>1, NoExitFollows DEF Screen, Follows
<1> QED BY <1>2, <1>3, <1>4 DEF AskConfirm, Screen, Suited

\* A slot lost at the last moment sends the customer back to the hours of that day.
LEMMA SlotTakenSuits ==
  ASSUME NEW r \in Row, NEW w
  PROVE  Follows(SlotTaken(r, w), r) /\ (Sound(r) /\ r.service # None => Suited(SlotTaken(r, w)))
<1> DEFINE again == [Advance(r, "ASK_SLOT") EXCEPT !.slot = None]
<1>1. "ASK_SLOT" \in Steps \cup Terminal
  BY DEF Steps
<1>2. /\ again \in Row /\ again.st = "ASK_SLOT" /\ again.appt = r.appt /\ again.editing = r.editing
      /\ Sound(r) /\ r.service # None => Sound(again)
  <2> DEFINE moved == Advance(r, "ASK_SLOT")
  <2>1. /\ moved \in Row /\ moved.st = "ASK_SLOT"
        /\ \A f \in {"appt", "editing", "date", "cat", "category", "service", "staff", "slot", "range"} : moved[f] = r[f]
    BY <1>1, AdvanceFields
  <2> HIDE DEF moved
  <2>2. again = [moved EXCEPT !.slot = None]
    BY DEF moved
  <2> HIDE DEF again
  <2> QED BY <2>1, <2>2 DEF Row, Session, Sound, None
<1> HIDE DEF again
<1>3. SlotsOf(again, w) \in SUBSET Slots /\ \A x \in SlotsOf(again, w) : DateOf[x] = again.date
  BY DEF SlotsOf
<1>4. As("slot", SlotsOf(again, w)) \cup {} \subseteq Answers
  BY <1>3, AnswersTyped, CatalogueAssumption
<1>5. As("slot", SlotsOf(again, w)) \cup {} \subseteq Offered(again)
  <2>1. \A a \in As("slot", SlotsOf(again, w)) : a.k = "slot" /\ a.v \in SlotsOf(again, w)
    BY AnswersOf
  <2> QED BY <1>2, <1>3, <1>4, <2>1 DEF Offered
<1>6. /\ Follows(WithCancel(again, As("slot", SlotsOf(again, w)), SlotRoom, {}), again)
      /\ Sound(again) => Suited(WithCancel(again, As("slot", SlotsOf(again, w)), SlotRoom, {}))
  BY <1>2, <1>4, <1>5, ListSuits
<1>7. SlotTaken(r, w) = WithCancel(again, As("slot", SlotsOf(again, w)), SlotRoom, {})
  BY DEF SlotTaken, again
<1> QED BY <1>2, <1>6, <1>7 DEF Follows

\* The step of a session, sent again.
LEMMA CurrentScreenSuits ==
  ASSUME NEW r \in Row, r.st # "COMPLETED", NEW w, w.active \in SUBSET Services, w.days \in SUBSET (Nat \ {0})
  PROVE  Follows(CurrentScreen(r, w), r) /\ (Sound(r) /\ Open(r) => Suited(CurrentScreen(r, w)))
<1>1. CASE r.st = "ASK_DATE"
  BY <1>1, AskDateSuits DEF CurrentScreen
<1>2. CASE r.st = "ASK_CATEGORY"
  BY <1>2, AskCategorySuits DEF CurrentScreen
<1>3. CASE r.st = "ASK_SERVICE"
  BY <1>3, ServiceScreenSuits, ServicesOffered DEF CurrentScreen
<1>4. CASE r.st = "ASK_STAFF"
  <2> DEFINE team == IF r.service = None THEN {} ELSE TeamOf[r.service]
  <2>1. team \in SUBSET Nat
    BY CatalogueAssumption DEF Row
  <2>2. Sound(r) => team = TeamOf[r.service]
    BY <1>4 DEF Sound
  <2> HIDE DEF team
  <2>3. CurrentScreen(r, w) = AskStaff(r, team)
    BY <1>4 DEF CurrentScreen, team
  <2> QED BY <1>4, <2>1, <2>2, <2>3, AskStaffSuits
<1>5. CASE r.st = "ASK_SLOT"
  BY <1>5, AskSlotSuits DEF CurrentScreen
<1>6. CASE r.st = "CONFIRM"
  BY <1>6, AskConfirmSuits DEF CurrentScreen
<1>7. CASE r.st \in Terminal
  <2>1. CurrentScreen(r, w) = NoExit(r)
    BY <1>7 DEF CurrentScreen, Terminal
  <2> QED BY <1>7, <2>1, NoExitFollows DEF Open
<1>8. r.st \in Steps \cup Terminal
  BY DEF Row, Session
<1> QED BY <1>1, <1>2, <1>3, <1>4, <1>5, <1>6, <1>7, <1>8 DEF Steps
-----------------------------------------------------------------------------
(* What an accepted answer does *)

\* A session moved to another step, with some of its answers changed.
LEMMA Moving ==
  ASSUME NEW r \in Row, NEW st \in Steps \cup Terminal
  PROVE  /\ Advance(r, st) \in Row /\ Advance(r, st).st = st
         /\ Advance(r, st).appt = r.appt /\ Advance(r, st).editing = r.editing
         /\ Advance(r, st).date = r.date /\ Advance(r, st).service = r.service
         /\ Advance(r, st).staff = r.staff /\ Advance(r, st).slot = r.slot /\ Advance(r, st).late = FALSE
<1> DEFINE on == Advance(r, st)
<1>1. on = [r EXCEPT !.ver = (r.ver % Cycle) + 1, !.st = st, !.late = FALSE] /\ on \in Row
  BY AdvanceFields
<1> HIDE DEF on
<1>2. /\ on.st = st /\ on.appt = r.appt /\ on.editing = r.editing /\ on.date = r.date
      /\ on.service = r.service /\ on.staff = r.staff /\ on.slot = r.slot /\ on.late = FALSE
  BY <1>1 DEF Row, Session
<1> QED BY <1>1, <1>2 DEF on

\* A category chosen, or none: the services of it, or all of them.
LEMMA AfterCategorySuits ==
  ASSUME NEW r \in Row, NEW a \in Answers, NEW w, w.active \in SUBSET Services
  PROVE  /\ Follows(AfterCategory(r, a, w), r)
         /\ Sound(r) /\ r.st = "ASK_CATEGORY" => Suited(AfterCategory(r, a, w))
<1> DEFINE on == Advance(r, NextStateAfter("ASK_CATEGORY", FALSE))
           moved == [on EXCEPT !.cat = IF a = Uncategorized THEN "UNCATEGORIZED" ELSE "SPECIFIC",
                               !.category = IF a = Uncategorized THEN None ELSE a.v]
<1>1. NextStateAfter("ASK_CATEGORY", FALSE) = "ASK_SERVICE" /\ "ASK_SERVICE" \in Steps \cup Terminal
  BY DEF NextStateAfter, Steps
<1>2. /\ on \in Row /\ on.st = "ASK_SERVICE" /\ on.appt = r.appt /\ on.editing = r.editing
      /\ on.date = r.date /\ on.service = r.service /\ on.staff = r.staff
  BY <1>1, Moving
<1> HIDE DEF on
<1>3. a.v \in Nat
  BY DEF Answers
<1>4. /\ moved \in Row /\ moved.st = "ASK_SERVICE" /\ moved.appt = r.appt /\ moved.editing = r.editing
      /\ Sound(r) /\ r.st = "ASK_CATEGORY" => Sound(moved)
  BY ZenonT(60), <1>2, <1>3 DEF Row, Session, Sound, None
<1>5. AfterCategory(r, a, w) = ServiceScreen(moved, ServicesForSession(moved, w.active))
  BY DEF AfterCategory, on
<1> HIDE DEF moved
<1>6. /\ Follows(ServiceScreen(moved, ServicesForSession(moved, w.active)), moved)
      /\ Sound(moved) => Suited(ServiceScreen(moved, ServicesForSession(moved, w.active)))
  BY <1>4, ServicesOffered, ServiceScreenSuits
<1> QED BY <1>4, <1>5, <1>6 DEF Follows

\* Back to the categories.
LEMMA BackSuits ==
  ASSUME NEW r \in Row, NEW w, w.active \in SUBSET Services
  PROVE  /\ Follows(BackToCategories(r, w), r)
         /\ Sound(r) /\ r.st = "ASK_SERVICE" => Suited(BackToCategories(r, w))
<1> DEFINE on == Advance(r, "ASK_CATEGORY")
           moved == [on EXCEPT !.cat = "NULL", !.category = None]
<1>1. "ASK_CATEGORY" \in Steps \cup Terminal
  BY DEF Steps
<1>2. /\ on \in Row /\ on.st = "ASK_CATEGORY" /\ on.appt = r.appt /\ on.editing = r.editing
      /\ on.date = r.date /\ on.service = r.service /\ on.staff = r.staff
  BY <1>1, Moving
<1>3. BackToCategories(r, w) = AskCategory(moved, w.active)
  BY DEF BackToCategories
<1> HIDE DEF on
<1>4. /\ moved \in Row /\ moved.st = "ASK_CATEGORY" /\ moved.appt = r.appt /\ moved.editing = r.editing
      /\ Sound(r) /\ r.st = "ASK_SERVICE" => Sound(moved)
  BY <1>2 DEF Row, Session, Sound, None
<1> HIDE DEF moved
<1> QED BY <1>3, <1>4, AskCategorySuits DEF Follows

\* A service chosen: its only professional, or the question of who.
LEMMA AfterServiceSuits ==
  ASSUME NEW r \in Row, r.st # "COMPLETED", NEW s \in Services, NEW w
  PROVE  /\ Follows(AfterService(r, s, w), r)
         /\ Sound(r) /\ r.st = "ASK_SERVICE" => Suited(AfterService(r, s, w))
<1> DEFINE team == TeamOf[s]
<1>1. /\ team \in SUBSET (Nat \ {0}) /\ s \in Nat \ {0}
      /\ {"ASK_SLOT", "ASK_STAFF"} \subseteq Steps \cup Terminal
      /\ NextStateAfter("ASK_SERVICE", TRUE) = "ASK_SLOT" /\ NextStateAfter("ASK_SERVICE", FALSE) = "ASK_STAFF"
  <2>1. team \in SUBSET (Nat \ {0}) /\ s \in Nat \ {0}
    BY CatalogueAssumption
  <2>2. /\ {"ASK_SLOT", "ASK_STAFF"} \subseteq Steps \cup Terminal
        /\ NextStateAfter("ASK_SERVICE", TRUE) = "ASK_SLOT" /\ NextStateAfter("ASK_SERVICE", FALSE) = "ASK_STAFF"
    <3>1. {"ASK_SLOT", "ASK_STAFF"} \subseteq Steps
      BY DEF Steps
    <3>2. NextStateAfter("ASK_SERVICE", TRUE) = "ASK_SLOT"
      BY DEF NextStateAfter
    <3>3. NextStateAfter("ASK_SERVICE", FALSE) = "ASK_STAFF"
      BY DEF NextStateAfter
    <3> QED BY <3>1, <3>2, <3>3
  <2> QED BY <2>1, <2>2
<1>2. CASE team = {}
  <2>1. Cardinality(team) = 0
    BY <1>2, FS_EmptySet
  <2>2. AfterService(r, s, w) = DeadEnd(r)
    BY <1>2, <2>1 DEF AfterService
  <2> QED BY <2>2, DeadEndSuits
<1>3. CASE team # {} /\ Cardinality(team) = 1
  <2> DEFINE on == Advance(r, "ASK_SLOT")
             who == CHOOSE p \in team : TRUE
             moved == [on EXCEPT !.service = s, !.staff = who]
  <2>1. AfterService(r, s, w) = AskSlot(moved, w)
    BY <1>1, <1>3 DEF AfterService
  <2>2. who \in team
    BY <1>3
  <2>3. /\ on \in Row /\ on.st = "ASK_SLOT" /\ on.appt = r.appt /\ on.editing = r.editing /\ on.date = r.date
    BY <1>1, Moving
  <2> HIDE DEF on, who
  <2>4. /\ moved \in Row /\ moved.st = "ASK_SLOT" /\ moved.appt = r.appt /\ moved.editing = r.editing
        /\ Sound(r) => Sound(moved)
    BY <1>1, <2>2, <2>3 DEF Row, Session, Sound, None
  <2> HIDE DEF moved
  <2> QED BY <2>1, <2>4, AskSlotSuits DEF Follows
<1>4. CASE team # {} /\ Cardinality(team) # 1
  <2> DEFINE on == Advance(r, "ASK_STAFF")
             moved == [on EXCEPT !.service = s]
  <2>1. AfterService(r, s, w) = AskStaff(moved, team)
    BY <1>1, <1>4 DEF AfterService
  <2>2. /\ on \in Row /\ on.st = "ASK_STAFF" /\ on.appt = r.appt /\ on.editing = r.editing
        /\ on.date = r.date /\ on.staff = r.staff
    BY <1>1, Moving
  <2> HIDE DEF on
  <2>3. /\ moved \in Row /\ moved.st = "ASK_STAFF" /\ moved.appt = r.appt /\ moved.editing = r.editing
        /\ moved.service = s
        /\ Sound(r) /\ r.st = "ASK_SERVICE" => Sound(moved)
    BY <1>1, <2>2 DEF Row, Session, Sound, None
  <2> HIDE DEF moved
  <2> QED BY <1>1, <2>1, <2>3, AskStaffSuits DEF Follows
<1> QED BY <1>2, <1>3, <1>4

\* Who will attend, or anybody.
LEMMA AfterStaffSuits ==
  ASSUME NEW r \in Row, NEW a \in Answers, NEW w
  PROVE  /\ Follows(AfterStaff(r, a, w), r)
         /\ Sound(r) /\ r.st = "ASK_STAFF" /\ (a = AnyStaff \/ a.v \in TeamOf[r.service]) => Suited(AfterStaff(r, a, w))
<1> DEFINE on == Advance(r, "ASK_SLOT")
           moved == [on EXCEPT !.staff = IF a = AnyStaff THEN None ELSE a.v]
<1>1. "ASK_SLOT" \in Steps \cup Terminal /\ NextStateAfter("ASK_STAFF", FALSE) = "ASK_SLOT" /\ a.v \in Nat
  BY DEF Steps, NextStateAfter, Answers
<1>2. /\ on \in Row /\ on.st = "ASK_SLOT" /\ on.appt = r.appt /\ on.editing = r.editing
      /\ on.date = r.date /\ on.service = r.service
  BY <1>1, Moving
<1>3. AfterStaff(r, a, w) = AskSlot(moved, w)
  BY <1>1 DEF AfterStaff
<1> HIDE DEF on
<1>4. /\ moved \in Row /\ moved.st = "ASK_SLOT" /\ moved.appt = r.appt /\ moved.editing = r.editing
      /\ Sound(r) /\ r.st = "ASK_STAFF" /\ (a = AnyStaff \/ a.v \in TeamOf[r.service]) => Sound(moved)
  BY <1>1, <1>2 DEF Row, Session, Sound, None
<1> HIDE DEF moved
<1> QED BY <1>3, <1>4, AskSlotSuits DEF Follows

\* A slot of the day, or a range to look into.
LEMMA AfterSlotSuits ==
  ASSUME NEW r \in Row, r.st = "ASK_SLOT", NEW a \in Answers, NEW w
  PROVE  /\ Follows(AfterSlot(r, a, w), r)
         /\ Sound(r) /\ (a.k = "range" \/ (a.v \in Slots /\ DateOf[a.v] = r.date)) => Suited(AfterSlot(r, a, w))
<1>1. /\ {"ASK_SLOT", "CONFIRM"} \subseteq Steps \cup Terminal
      /\ NextStateAfter("ASK_SLOT", FALSE) = "CONFIRM" /\ a.v \in Nat
  BY DEF Steps, NextStateAfter, Answers
<1>2. CASE a.k = "range"
  <2> DEFINE on == Reissue(r)
             moved == [on EXCEPT !.range = a.v]
  <2>1. AfterSlot(r, a, w) = AskSlot(moved, w)
    BY <1>2 DEF AfterSlot
  <2>2. /\ on \in Row /\ on.st = "ASK_SLOT" /\ on.appt = r.appt /\ on.editing = r.editing
        /\ on.date = r.date /\ on.service = r.service /\ on.staff = r.staff
    BY <1>1, Moving DEF Reissue
  <2> HIDE DEF on
  <2>3. /\ moved \in Row /\ moved.st = "ASK_SLOT" /\ moved.appt = r.appt /\ moved.editing = r.editing
        /\ Sound(r) => Sound(moved)
    BY <1>1, <2>2 DEF Row, Session, Sound, None
  <2> HIDE DEF moved
  <2> QED BY <2>1, <2>3, AskSlotSuits DEF Follows
<1>3. CASE a.k # "range"
  <2> DEFINE on == Advance(r, "CONFIRM")
             moved == [on EXCEPT !.slot = a.v]
  <2>1. AfterSlot(r, a, w) = AskConfirm(moved)
    BY <1>1, <1>3 DEF AfterSlot
  <2>2. /\ on \in Row /\ on.st = "CONFIRM" /\ on.appt = r.appt /\ on.editing = r.editing
        /\ on.date = r.date /\ on.service = r.service /\ on.staff = r.staff
    BY <1>1, Moving
  <2> HIDE DEF on
  <2>3. /\ moved \in Row /\ moved.st = "CONFIRM" /\ moved.appt = r.appt /\ moved.editing = r.editing
        /\ Sound(r) /\ a.v \in Slots /\ DateOf[a.v] = r.date => Sound(moved)
    BY <1>1, <2>2 DEF Row, Session, Sound, None
  <2> HIDE DEF moved
  <2> QED BY <1>3, <2>1, <2>3, AskConfirmSuits DEF Follows
<1> QED BY <1>2, <1>3

\* Answers of different kinds are different answers.
LEMMA KindsDiffer ==
  /\ More.k = "more" /\ AllTimes.k = "alltimes" /\ OtherDays.k = "otherdays" /\ Back.k = "back"
  /\ AnyStaff.k = "any" /\ Confirm.k = "confirm" /\ Cancel.k = "cancel" /\ Uncategorized.k = "nocategory"
BY DEF More, AllTimes, OtherDays, Back, AnyStaff, Confirm, Cancel, Uncategorized, Answer

\* An accepted answer moves the session; if its step offered it, to a step that offers a way
\* out of it and nothing but what it may.
LEMMA SelectionSuits ==
  ASSUME NEW r \in Row, r.st # "COMPLETED", NEW a \in Answers,
         NEW w, w.active \in SUBSET Services, w.days \in SUBSET (Nat \ {0})
  PROVE  /\ Follows(ApplySelection(r, a, w), r)
         /\ Sound(r) /\ Open(r) /\ r.st # "CONFIRM" /\ a # Cancel /\ a \in Offered(r) =>
              Suited(ApplySelection(r, a, w))
<1> DEFINE Offers == Sound(r) /\ Open(r) /\ r.st # "CONFIRM" /\ a # Cancel /\ a \in Offered(r)
<1> USE KindsDiffer
<1>1. r.st \in Steps \cup Terminal /\ a.v \in Nat
  BY DEF Row, Session, Answers
<1>2. /\ Reissue(r) \in Row /\ Reissue(r).st = r.st /\ Reissue(r).appt = r.appt /\ Reissue(r).editing = r.editing
      /\ Reissue(r).date = r.date /\ Reissue(r).service = r.service
      /\ Reissue(r).staff = r.staff /\ Reissue(r).slot = r.slot
  BY <1>1, Moving DEF Reissue
<1>3. Sound(r) => Sound(Reissue(r))
  BY <1>2 DEF Sound
<1>4. CASE a = More
  <2>1. ApplySelection(r, a, w) = CurrentScreen(Reissue(r), w)
    BY <1>4 DEF ApplySelection
  <2>2. Open(r) => Open(Reissue(r))
    BY <1>2 DEF Open
  <2> QED BY <1>2, <1>3, <2>1, <2>2, CurrentScreenSuits DEF Follows
<1>5. CASE a = AllTimes
  <2> DEFINE moved == [Reissue(r) EXCEPT !.range = None]
  <2>1. ApplySelection(r, a, w) = AskSlot(moved, w)
    BY <1>5 DEF ApplySelection
  <2>2. /\ moved \in Row /\ moved.st = r.st /\ moved.appt = r.appt /\ moved.editing = r.editing
        /\ Sound(r) => Sound(moved)
    BY <1>2 DEF Row, Session, Sound, None
  <2>3. Offers => r.st = "ASK_SLOT"
    BY <1>5 DEF Offered
  <2> HIDE DEF moved
  <2> QED BY <2>1, <2>2, <2>3, AskSlotSuits DEF Follows
<1>6. CASE a = OtherDays
  <2> DEFINE on == Advance(r, "ASK_DATE")
             moved == [on EXCEPT !.range = None]
  <2>1. ApplySelection(r, a, w) = AskDate(moved, w.days)
    BY <1>6 DEF ApplySelection
  <2>2. /\ on \in Row /\ on.st = "ASK_DATE" /\ on.appt = r.appt /\ on.editing = r.editing
        /\ on.date = r.date /\ on.service = r.service /\ on.staff = r.staff
    BY Moving DEF Steps
  <2>3. Offers => r.st = "ASK_SLOT"
    BY <1>6 DEF Offered
  <2> HIDE DEF on
  <2>4. /\ moved \in Row /\ moved.st = "ASK_DATE" /\ moved.appt = r.appt /\ moved.editing = r.editing
        /\ Sound(r) /\ r.st = "ASK_SLOT" => Sound(moved)
    BY <2>2 DEF Row, Session, Sound, None
  <2> HIDE DEF moved
  <2> QED BY <2>1, <2>3, <2>4, AskDateSuits DEF Follows
<1>7. CASE r.st = "ASK_DATE" /\ a.k = "date"
  <2> DEFINE on == Advance(r, "ASK_SLOT")
             moved == [on EXCEPT !.date = a.v]
  <2>1. ApplySelection(r, a, w) = AskSlot(moved, w)
    BY <1>7 DEF ApplySelection, NextStateAfter
  <2>2. /\ on \in Row /\ on.st = "ASK_SLOT" /\ on.appt = r.appt /\ on.editing = r.editing
        /\ on.service = r.service /\ on.staff = r.staff
    BY Moving DEF Steps
  <2>3. Offers => a.v # None
    BY <1>7 DEF Offered
  <2> HIDE DEF on
  <2>4. /\ moved \in Row /\ moved.st = "ASK_SLOT" /\ moved.appt = r.appt /\ moved.editing = r.editing
        /\ Offers => Sound(moved)
    BY <1>1, <1>7, <2>2, <2>3 DEF Row, Session, Sound, None
  <2> HIDE DEF moved
  <2> QED BY <2>1, <2>4, AskSlotSuits DEF Follows
<1>8. CASE r.st = "ASK_CATEGORY" /\ a \notin {More, AllTimes, OtherDays}
  <2>1. ApplySelection(r, a, w) = AfterCategory(r, a, w)
    BY <1>8 DEF ApplySelection
  <2> QED BY <1>8, <2>1, AfterCategorySuits
<1>9. CASE r.st = "ASK_SERVICE" /\ a = Back
  <2>1. ApplySelection(r, a, w) = BackToCategories(r, w)
    BY <1>9 DEF ApplySelection
  <2> QED BY <1>9, <2>1, BackSuits
<1>10. CASE r.st = "ASK_SERVICE" /\ a.k = "service"
  <2>1. ApplySelection(r, a, w) = AfterService(r, a.v, w)
    BY <1>10 DEF ApplySelection
  <2>2. a.v \in Services
    BY <1>10 DEF Answers
  <2> QED BY <1>10, <2>1, <2>2, AfterServiceSuits
<1>11. CASE r.st = "ASK_STAFF" /\ a.k \in {"staff", "any"}
  <2>1. ApplySelection(r, a, w) = AfterStaff(r, a, w)
    BY <1>11 DEF ApplySelection
  <2>2. Offers => a = AnyStaff \/ a.v \in TeamOf[r.service]
    BY <1>11 DEF Offered
  <2> QED BY <1>11, <2>1, <2>2, AfterStaffSuits
<1>12. CASE r.st = "ASK_SLOT" /\ a.k \in {"range", "slot"}
  <2>1. ApplySelection(r, a, w) = AfterSlot(r, a, w)
    BY <1>12 DEF ApplySelection
  <2>2. Offers => a.k = "range" \/ (a.v \in Slots /\ DateOf[a.v] = r.date)
    BY <1>12 DEF Offered
  <2> QED BY <1>12, <2>1, <2>2, AfterSlotSuits
<1> DEFINE Else == /\ a \notin {More, AllTimes, OtherDays} /\ r.st # "ASK_CATEGORY"
                   /\ ~(r.st = "ASK_DATE" /\ a.k = "date")
                   /\ ~(r.st = "ASK_SERVICE" /\ (a = Back \/ a.k = "service"))
                   /\ ~(r.st = "ASK_STAFF" /\ a.k \in {"staff", "any"})
                   /\ ~(r.st = "ASK_SLOT" /\ a.k \in {"range", "slot"})
<1>13. CASE Else
  <2>1. ApplySelection(r, a, w) = NoExit(r)
    BY <1>13 DEF ApplySelection
  <2>2. ~Offers
    BY <1>1, <1>13 DEF Offered, Open, Steps, Terminal
  <2> QED BY <2>1, <2>2, NoExitFollows
<1> QED BY <1>4, <1>5, <1>6, <1>7, <1>8, <1>9, <1>10, <1>11, <1>12, <1>13

\* The first screen of a session: it has no appointment yet, and the one to be moved if any.
LEMMA FirstScreenSuits ==
  ASSUME NEW editing \in Appts \cup {None}, active \in SUBSET Services
  PROVE  LET scr == FirstScreen(editing)
         IN /\ scr.row \in Row /\ scr.answers \subseteq Answers
            /\ scr.row.st # "COMPLETED" /\ scr.row.appt = None /\ scr.row.editing = editing
            /\ Suited(scr)
<1> DEFINE byCat == ~scene.flow /\ AsksCategory(active)
           st == IF byCat THEN "ASK_CATEGORY" ELSE "ASK_SERVICE"
           on == Advance(NewSession(editing), st)
           moved == [on EXCEPT !.date = Today]
<1>1. NewSession(editing) \in Row /\ st \in Steps \cup Terminal
  BY CatalogueAssumption, CustomerAssumption DEF NewSession, Row, Session, None, Steps
<1>2. /\ on \in Row /\ on.st = st /\ on.appt = None /\ on.editing = editing
      /\ on.service = None /\ on.staff = None
  BY <1>1, Moving DEF NewSession
<1>3. FirstScreen(editing) = IF byCat THEN CategoryScreen(moved, active) ELSE ServiceScreen(moved, active)
  BY DEF FirstScreen
<1> HIDE DEF on
<1>4. moved \in Row /\ moved.st = st /\ moved.appt = None /\ moved.editing = editing /\ Sound(moved)
  BY <1>2 DEF Row, Session, Sound, None, Today
<1> HIDE DEF moved, byCat
<1>5. CASE byCat
  BY <1>3, <1>4, <1>5, CategoryScreenSuits DEF Follows
<1>6. CASE ~byCat
  BY <1>3, <1>4, <1>6, ServiceScreenSuits DEF Follows
<1> QED BY <1>5, <1>6
-----------------------------------------------------------------------------
(* The inductive invariant: what the handlers keep of the sessions, however many run at once *)

\* A set of numbers that has a bound has a greatest one.
LEMMA GreatestOf ==
  ASSUME NEW n \in Nat, NEW S \in SUBSET (1 .. n), S # {}
  PROVE  \E m \in S : \A i \in S : i <= m
<1> DEFINE Less == {ss \in Nat \X Nat : ss[1] < ss[2]}
           Left == {n - i : i \in S}
<1>1. IsWellFoundedOn(Less, Nat)
  BY NatLessThanWellFounded, Zenon DEF OpToRel
<1>2. \A i \in S : i \in 1 .. n /\ n - i \in Nat
  OBVIOUS
<1> HIDE DEF Less
<1>3. Left \subseteq Nat /\ Left # {}
  <2>1. PICK i \in S : TRUE
    OBVIOUS
  <2>2. n - i \in Left
    BY <2>1
  <2> QED BY <1>2, <2>2
<1> HIDE DEF Left
<1>4. PICK u \in Left : \A y \in Left : <<y, u>> \notin Less
  BY <1>1, <1>3, WFMin
<1>5. \A y \in Left : ~(y < u)
  BY <1>3, <1>4 DEF Less
<1>6. PICK m \in S : u = n - m
  BY DEF Left
<1>7. \A i \in S : n - i \in Left
  BY DEF Left
<1> QED BY <1>2, <1>5, <1>6, <1>7

\* What was last shown of a session, and what a handler has in memory.
Posted == [ver : Nat, st : Steps \cup Terminal, answers : SUBSET Answers]
Memory == [pc : {"idle", "read", "mark", "form", "open", "write", "complete"}, s : Nat, snap : Row,
           staff : Nat, slot : Nat, app : Appts \cup {None}, flow : BOOLEAN, screen : Posted]

Typed ==
  /\ sessions \in Seq(Row) /\ Len(sessions) <= scene.sessions
  /\ shown \in Seq(Posted) /\ Len(shown) = Len(sessions)
  /\ flows \subseteq Ids
  /\ hs \in [Handlers -> Memory]
  /\ appts \in [Appts -> Appointment]
  /\ active \in SUBSET Services /\ scene \in Scenes
  /\ \A h \in Handlers : /\ hs[h].s \in Ids \cup {None}
                         /\ hs[h].pc \notin {"idle", "open"} => hs[h].s # None
                         /\ hs[h].pc = "complete" => hs[h].app # None
                         /\ hs[h].pc # "idle" => h \in scene.requests
  /\ \A a \in Appts : appts[a].by \in Ids \cup {None}
  /\ ~scene.flow => flows = {}

\* A screen of the step of an open session, unless it is an older one, offers what the step may.
Fits(r, screen) ==
  Open(r) /\ screen.ver = r.ver => Cancel \in screen.answers /\ screen.answers \subseteq Offered(r)

\* A session of the chat knows what it was told, and its last screen is of its step.
Fitting(s) == Sound(sessions[s]) /\ Fits(sessions[s], shown[s])

\* An appointment is what a session asked for, unless it closed or somebody moves it.
Suits(r, a) ==
  /\ appts[a].slot = r.slot /\ DateOf[r.slot] = r.date
  /\ appts[a].staff \in TeamOf[r.service]
  /\ r.staff # None => appts[a].staff = r.staff
Chose(r, a) ==
  /\ a \in Appts /\ appts[a].st # "none"
  /\ appts[a].st = "open" /\ (\A t \in Ids : sessions[t].editing # a) => Suits(r, a)

\* The chat of a customer whose messages are answered one by one.
Alone == ~scene.flow /\ OneAtATime

SessionInv(s) ==
  /\ sessions[s].editing # None => appts[sessions[s].editing].st # "none"
  /\ ~scene.flow /\ sessions[s].editing # None /\ appts[sessions[s].editing].st = "open" =>
       \A a \in BookedBy(s) : appts[a].st # "open"
  /\ Alone => /\ Fitting(s)
              /\ sessions[s].st = "COMPLETED" => Chose(sessions[s], sessions[s].appt)

\* A handler of the chat holds a session that was open; one that writes a new appointment found
\* that there was none to move, or that it had closed.
HandlerInv(h) ==
  /\ hs[h].pc = "open" /\ hs[h].app # None => appts[hs[h].app].st # "none"
  /\ hs[h].pc # "idle" /\ hs[h].s # None => hs[h].snap.editing = sessions[hs[h].s].editing
  /\ (hs[h].pc = "form" => hs[h].flow) /\ (hs[h].pc \in {"read", "mark"} => ~hs[h].flow)
  /\ hs[h].flow => scene.flow
  /\ hs[h].pc # "idle" /\ hs[h].s # None /\ ~hs[h].flow => Open(hs[h].snap)
  /\ ~scene.flow /\ hs[h].pc = "write" =>
       /\ hs[h].app # None => hs[h].app = hs[h].snap.editing
       /\ hs[h].app = None /\ hs[h].snap.editing # None => appts[hs[h].snap.editing].st = "closed"
  /\ Alone =>
       /\ hs[h].pc # "idle" /\ hs[h].s # None => Sound(hs[h].snap)
       /\ hs[h].pc = "read" => Fits(hs[h].snap, hs[h].screen)
       /\ hs[h].pc = "mark" => Fits(hs[h].snap, shown[hs[h].s])
       /\ hs[h].pc \in {"write", "complete"} => hs[h].snap.st = "CONFIRM"
       /\ hs[h].pc = "write" =>
            /\ hs[h].slot = hs[h].snap.slot /\ hs[h].staff \in TeamOf[hs[h].snap.service]
            /\ hs[h].snap.staff # None => hs[h].staff = hs[h].snap.staff
       /\ hs[h].pc = "complete" => Chose(hs[h].snap, hs[h].app)

BookingInv == Typed /\ (\A s \in Ids : SessionInv(s)) /\ (\A h \in Handlers : HandlerInv(h))

-----------------------------------------------------------------------------
(* What the steps are made of *)

\* The session FindActive finds is open, and when it finds none there is none.
LEMMA ActiveIsOpen ==
  ASSUME NEW rows \in Seq(Row)
  PROVE  /\ LatestOpen(rows) \in DOMAIN rows \cup {None}
         /\ LatestOpen(rows) # None => LatestOpen(rows) \in DOMAIN rows /\ Open(rows[LatestOpen(rows)])
         /\ LatestOpen(rows) = None => \A s \in DOMAIN rows : ~Open(rows[s])
<1> DEFINE open == {s \in DOMAIN rows : Open(rows[s])}
<1>1. DOMAIN rows = 1 .. Len(rows) /\ Len(rows) \in Nat /\ None \notin DOMAIN rows
  BY DEF None
<1>2. CASE open = {}
  <2>1. LatestOpen(rows) = None
    BY <1>2 DEF LatestOpen
  <2> QED BY <1>2, <2>1
<1>3. CASE open # {}
  <2> DEFINE m == CHOOSE s \in open : \A t \in open : t <= s
  <2>1. LatestOpen(rows) = m
    BY <1>3 DEF LatestOpen
  <2>2. open \in SUBSET (1 .. Len(rows))
    BY <1>1
  <2> HIDE DEF open
  <2>3. m \in open
    BY <1>1, <1>3, <2>2, GreatestOf
  <2> HIDE DEF m
  <2> QED BY <1>1, <2>1, <2>3 DEF open
<1> QED BY <1>2, <1>3

\* The rows of the table.
LEMMA RowsAre ==
  ASSUME Typed
  PROVE  /\ Ids = 1 .. Len(sessions) /\ DOMAIN shown = Ids /\ Len(sessions) \in Nat
         /\ \A s \in Ids : s \in Nat /\ s # None /\ sessions[s] \in Row /\ sessions[s].ver \in Nat \ {0} /\ shown[s] \in Posted
         /\ FindActive \in Ids \cup {None}
         /\ FindActive # None => FindActive \in Ids /\ Open(sessions[FindActive])
         /\ FindActive = None => \A s \in Ids : ~Open(sessions[s])
<1>1. Ids = 1 .. Len(sessions) /\ DOMAIN shown = Ids /\ Len(sessions) \in Nat
  BY DEF Typed, Ids
<1>2. ASSUME NEW s \in Ids
      PROVE  s \in Nat /\ s # None /\ sessions[s] \in Row /\ sessions[s].ver \in Nat \ {0} /\ shown[s] \in Posted
  <2>1. s \in Nat /\ s # None /\ sessions[s] \in Row /\ shown[s] \in Posted
    BY <1>1 DEF Typed, Ids, None
  <2> QED BY <2>1, CatalogueAssumption DEF Row, Session
<1>3. sessions \in Seq(Row)
  BY DEF Typed
<1> QED BY <1>1, <1>2, <1>3, ActiveIsOpen DEF FindActive, Ids

\* A row written in a table of the same length.
LEMMA RowWritten ==
  ASSUME NEW S, NEW f \in Seq(S), NEW s \in DOMAIN f, NEW x \in S
  PROVE  /\ [f EXCEPT ![s] = x] \in Seq(S) /\ Len([f EXCEPT ![s] = x]) = Len(f)
         /\ DOMAIN [f EXCEPT ![s] = x] = DOMAIN f
         /\ \A t \in DOMAIN f : [f EXCEPT ![s] = x][t] = IF t = s THEN x ELSE f[t]
OBVIOUS

\* A copy that is kept, or one that only ages.
SameCopy(m, n) ==
  \/ n = m
  \/ /\ m.pc = "mark" /\ n.pc = "mark" /\ n.s = m.s /\ n.flow = m.flow
     /\ n.snap.st = m.snap.st /\ n.snap.ver = m.snap.ver /\ n.snap.appt = m.snap.appt
     /\ n.snap.editing = m.snap.editing /\ n.snap.date = m.snap.date /\ n.snap.service = m.snap.service
     /\ n.snap.staff = m.snap.staff /\ n.snap.slot = m.snap.slot

\* A step without a handler: the jobs and time close or age the open sessions, and appointments
\* only close.
Tended ==
  /\ UNCHANGED <<shown, flows, scene>>
  /\ sessions' \in Seq(Row) /\ Len(sessions') = Len(sessions)
  /\ hs' \in [Handlers -> Memory] /\ \A h \in Handlers : SameCopy(hs[h], hs'[h])
  /\ \A s \in Ids :
       /\ sessions'[s].appt = sessions[s].appt /\ sessions'[s].editing = sessions[s].editing
       /\ Fitting(s) => Fitting(s)'
       /\ sessions'[s] = sessions[s] \/ (Open(sessions[s]) /\ sessions'[s].st # "COMPLETED")
Eased ==
  /\ appts' \in [Appts -> Appointment] /\ active' \in SUBSET Services
  /\ \A a \in Appts : appts'[a] = appts[a] \/ (appts'[a].st = "closed" /\ appts'[a].by = appts[a].by)

\* What a session asked for stands while its appointment does, or closes, or is moved.
LEMMA ChoseStays ==
  ASSUME NEW r, NEW a, Chose(r, a),
         \A t \in Ids : t \in Ids' /\ sessions'[t].editing = sessions[t].editing,
         \/ appts'[a] = appts[a] \/ appts'[a].st = "closed"
         \/ (appts'[a].st # "none" /\ \E t \in Ids : sessions[t].editing = a)
  PROVE  Chose(r, a)'
<1>1. a \in Appts /\ appts'[a].st # "none"
  BY DEF Chose
<1>2. ASSUME appts'[a].st = "open", \A t \in Ids' : sessions'[t].editing # a
      PROVE  Suits(r, a)'
  <2>1. \A t \in Ids : sessions[t].editing # a
    BY <1>2
  <2>2. appts'[a] = appts[a]
    BY <1>2, <2>1
  <2>3. Suits(r, a)
    BY <1>2, <2>1, <2>2 DEF Chose
  <2> QED BY <2>2, <2>3 DEF Suits
<1> QED BY <1>1, <1>2 DEF Chose

\* A row is stored whole.
Stored(s, row) ==
  /\ sessions' \in Seq(Row) /\ Len(sessions') = Len(sessions) /\ sessions'[s] = row
  /\ shown' \in Seq(Posted) /\ Len(shown') = Len(shown)
  /\ \A t \in Ids \ {s} : sessions'[t] = sessions[t] /\ shown'[t] = shown[t]

\* A screen saved and shown: the session is where the screen left it, and its last screen is
\* that one or one of no step.
LEMMA ShownFits ==
  ASSUME Typed, NEW s \in Ids, NEW scr, scr.row \in Row, scr.answers \subseteq Answers, SaveAndShow(s, scr)
  PROVE  Stored(s, scr.row) /\ (Suited(scr) => Fitting(s)')
<1>1. PICK screen \in Delivered(scr.row, scr.answers) : shown' = [shown EXCEPT ![s] = screen]
  BY DEF SaveAndShow, Show
<1>2. sessions' = [sessions EXCEPT ![s] = scr.row]
  BY DEF SaveAndShow, Save
<1>3. screen = Blank \/ screen = [ver |-> scr.row.ver, st |-> scr.row.st, answers |-> scr.answers]
  BY DEF Delivered
<1>4. scr.row.ver \in Nat \ {0} /\ scr.row.st \in Steps \cup Terminal
  BY CatalogueAssumption DEF Row, Session
<1>5. screen \in Posted /\ (screen.ver = scr.row.ver => screen.answers = scr.answers)
  <2>1. CASE screen = Blank
    BY <1>4, <2>1 DEF Blank, Posted, Steps
  <2>2. CASE screen = [ver |-> scr.row.ver, st |-> scr.row.st, answers |-> scr.answers]
    BY <1>4, <2>2 DEF Posted
  <2> QED BY <1>3, <2>1, <2>2
<1>6. DOMAIN sessions = Ids /\ DOMAIN shown = Ids /\ sessions \in Seq(Row) /\ shown \in Seq(Posted)
  BY RowsAre DEF Typed, Ids
<1>7. /\ sessions' \in Seq(Row) /\ Len(sessions') = Len(sessions) /\ sessions'[s] = scr.row
      /\ \A t \in Ids \ {s} : sessions'[t] = sessions[t]
  BY <1>2, <1>6, RowWritten
<1>8. /\ shown' \in Seq(Posted) /\ Len(shown') = Len(shown) /\ shown'[s] = screen
      /\ \A t \in Ids \ {s} : shown'[t] = shown[t]
  BY <1>1, <1>5, <1>6, RowWritten
<1>9. Suited(scr) => Fitting(s)'
  BY <1>5, <1>7, <1>8 DEF Suited, Fitting, Fits
<1> QED BY <1>7, <1>8, <1>9 DEF Stored

\* A row saved without a screen.
LEMMA SavedFits ==
  ASSUME Typed, NEW s \in Ids, NEW row \in Row, Save(s, row), shown' = shown
  PROVE  Stored(s, row) /\ (Sound(row) /\ Fits(row, shown[s]) => Fitting(s)')
<1>1. sessions \in Seq(Row) /\ DOMAIN sessions = Ids /\ shown \in Seq(Posted)
  BY RowsAre DEF Typed, Ids
<1>2. /\ sessions' \in Seq(Row) /\ Len(sessions') = Len(sessions) /\ sessions'[s] = row
      /\ \A t \in Ids \ {s} : sessions'[t] = sessions[t]
  BY <1>1, RowWritten DEF Save
<1> QED BY <1>1, <1>2 DEF Fitting, Fits, Stored

\* The world of a screen is of services and days.
LEMMA WorldTyped ==
  ASSUME Typed, NEW r, NEW taken
  PROVE  World(r, taken).active \in SUBSET Services /\ World(r, taken).days \in SUBSET (Nat \ {0})
BY CatalogueAssumption DEF World, Typed, Dates

\* A copy that is to be saved as it was ages with its row.
LEMMA CopyAges ==
  ASSUME NEW m \in Memory
  PROVE  AgedCopy(m) \in Memory /\ SameCopy(m, AgedCopy(m))
<1>1. CASE m.pc = "mark" /\ Open(m.snap)
  <2> DEFINE r == [m.snap EXCEPT !.late = TRUE]
             n == [m EXCEPT !.snap = r]
  <2>1. m.snap \in Row
    BY DEF Memory
  <2>2. /\ r \in Row /\ r.st = m.snap.st /\ r.ver = m.snap.ver /\ r.appt = m.snap.appt /\ r.editing = m.snap.editing
        /\ r.date = m.snap.date /\ r.service = m.snap.service /\ r.staff = m.snap.staff /\ r.slot = m.snap.slot
    BY <2>1 DEF Row, Session
  <2>3. AgedCopy(m) = n
    BY <1>1 DEF AgedCopy, Aged
  <2> HIDE DEF r
  <2>4. n \in Memory /\ n.pc = m.pc /\ n.s = m.s /\ n.flow = m.flow /\ n.snap = r
    BY <2>2 DEF Memory
  <2> QED BY <1>1, <2>2, <2>3, <2>4 DEF SameCopy
<1>2. CASE ~(m.pc = "mark" /\ Open(m.snap))
  <2>1. AgedCopy(m) = m
    BY <1>2 DEF AgedCopy, Aged, Memory
  <2> QED BY <2>1 DEF SameCopy
<1> QED BY <1>1, <1>2

\* A sweep over the sessions: each is left as it was, or closed, or late.
LEMMA SweepTends ==
  ASSUME Typed, ExpireStale \/ CancelOpenByTenant \/ Tick
  PROVE  Tended
<1>1. /\ Ids = 1 .. Len(sessions) /\ Len(sessions) \in Nat /\ \A s \in Ids : sessions[s] \in Row
      /\ UNCHANGED <<shown, flows, scene>> /\ hs \in [Handlers -> Memory]
  BY RowsAre DEF ExpireStale, CancelOpenByTenant, Tick, Typed
<1>2. \A s \in Ids : Aged(sessions[s]) \in Row
  BY ZenonT(60), <1>1 DEF Aged, Row, Session
<1>3. /\ DOMAIN sessions' = 1 .. Len(sessions)
      /\ \A s \in Ids : \/ sessions'[s] = sessions[s]
                        \/ Open(sessions[s]) /\ \E st \in {"CANCELLED", "EXPIRED"} : sessions'[s] = Close(sessions[s], st)
                        \/ Open(sessions[s]) /\ sessions'[s] = [sessions[s] EXCEPT !.late = TRUE]
      /\ sessions' = [s \in 1 .. Len(sessions) |-> sessions'[s]]
  BY <1>1 DEF ExpireStale, CancelOpenByTenant, Tick, Sweepable, Aged
<1>4. ASSUME NEW s \in Ids
      PROVE  /\ sessions'[s] \in Row
             /\ sessions'[s].appt = sessions[s].appt /\ sessions'[s].editing = sessions[s].editing
             /\ Fitting(s) => Fitting(s)'
             /\ sessions'[s] = sessions[s] \/ (Open(sessions[s]) /\ sessions'[s].st # "COMPLETED")
  <2>1. CASE sessions'[s] = sessions[s]
    BY <1>1, <2>1 DEF Fitting, Fits
  <2>2. ASSUME Open(sessions[s]), NEW st \in {"CANCELLED", "EXPIRED"}, sessions'[s] = Close(sessions[s], st)
        PROVE  /\ sessions'[s] \in Row
               /\ sessions'[s].appt = sessions[s].appt /\ sessions'[s].editing = sessions[s].editing
               /\ Fitting(s) => Fitting(s)'
               /\ sessions'[s].st # "COMPLETED"
    <3>1. /\ Close(sessions[s], st) \in Row /\ ~Open(Close(sessions[s], st)) /\ Close(sessions[s], st).st = st
          /\ Close(sessions[s], st).appt = sessions[s].appt /\ Close(sessions[s], st).editing = sessions[s].editing
          /\ Sound(sessions[s]) => Sound(Close(sessions[s], st))
      BY <1>1, CloseFields
    <3> QED BY <2>2, <3>1 DEF Fitting, Fits
  <2>3. CASE Open(sessions[s]) /\ sessions'[s] = [sessions[s] EXCEPT !.late = TRUE]
    <3>1. /\ sessions'[s] \in Row /\ sessions'[s].st = sessions[s].st /\ sessions'[s].ver = sessions[s].ver
          /\ sessions'[s].appt = sessions[s].appt /\ sessions'[s].editing = sessions[s].editing
          /\ sessions'[s].date = sessions[s].date /\ sessions'[s].service = sessions[s].service
          /\ sessions'[s].staff = sessions[s].staff /\ sessions'[s].slot = sessions[s].slot
      BY <1>1, <2>3 DEF Row, Session
    <3>2. Fitting(s) => Fitting(s)'
      BY <1>1, <3>1 DEF Fitting, Fits, Sound, Open, Offered
    <3> QED BY <2>3, <3>1, <3>2 DEF Open, Terminal
  <2> QED BY <1>3, <2>1, <2>2, <2>3
<1>5. sessions' \in Seq(Row) /\ Len(sessions') = Len(sessions)
  <2>1. sessions' \in [1 .. Len(sessions) -> Row]
    BY <1>1, <1>3, <1>4
  <2> QED BY <1>1, <2>1
<1>6. hs' \in [Handlers -> Memory] /\ \A h \in Handlers : SameCopy(hs[h], hs'[h])
  <2>1. CASE hs' = hs
    BY <1>1, <2>1 DEF SameCopy
  <2>2. CASE hs' = [h \in Handlers |-> AgedCopy(hs[h])]
    BY <1>1, <2>2, CopyAges
  <2> QED BY <2>1, <2>2 DEF ExpireStale, CancelOpenByTenant, Tick
<1> QED BY <1>1, <1>4, <1>5, <1>6 DEF Tended
-----------------------------------------------------------------------------
(* Every step keeps the invariant *)

\* The table and the agenda are read the same by everybody.
LEMMA TypedSame ==
  ASSUME Typed, sessions' \in Seq(Row), Len(sessions') = Len(sessions),
         shown' \in Seq(Posted), Len(shown') = Len(shown), UNCHANGED <<flows, scene>>,
         hs' \in [Handlers -> Memory],
         \A h \in Handlers : /\ hs'[h].s \in Ids \cup {None}
                             /\ hs'[h].pc \notin {"idle", "open"} => hs'[h].s # None
                             /\ hs'[h].pc = "complete" => hs'[h].app # None
                             /\ hs'[h].pc # "idle" => h \in scene.requests,
         appts' \in [Appts -> Appointment], \A a \in Appts : appts'[a].by \in Ids \cup {None},
         active' \in SUBSET Services
  PROVE  Typed' /\ Ids' = Ids
<1>1. Ids' = Ids
  BY DEF Typed, Ids
<1> QED BY <1>1 DEF Typed

\* A step without a handler keeps it.
LEMMA TendedKeeps ==
  ASSUME BookingInv, Tended, Eased
  PROVE  BookingInv'
<1>1. Typed' /\ Ids' = Ids
  <2>1. \A a \in Appts : appts'[a].by \in Ids \cup {None}
    BY DEF BookingInv, Typed, Eased
  <2>2. \A h \in Handlers : /\ hs'[h].s \in Ids \cup {None}
                            /\ hs'[h].pc \notin {"idle", "open"} => hs'[h].s # None
                            /\ hs'[h].pc = "complete" => hs'[h].app # None
                            /\ hs'[h].pc # "idle" => h \in scene.requests
    BY DEF Tended, SameCopy, BookingInv, Typed
  <2> QED BY <2>1, <2>2, TypedSame DEF BookingInv, Tended, Eased, Typed
<1>2. ASSUME NEW r, NEW a, Chose(r, a) PROVE Chose(r, a)'
  <2>1. a \in Appts
    BY <1>2 DEF Chose
  <2> QED BY <1>1, <1>2, <2>1, ChoseStays DEF Tended, Eased
<1>3. ASSUME NEW s \in Ids PROVE SessionInv(s)'
  <2>1. SessionInv(s) /\ sessions'[s].editing = sessions[s].editing /\ sessions[s].editing \in Appts \cup {None}
    BY RowsAre DEF BookingInv, Tended, Row
  <2>2. sessions[s].editing # None => appts'[sessions[s].editing].st # "none"
    BY <2>1 DEF SessionInv, Eased
  <2>3. ASSUME ~scene.flow, sessions[s].editing # None, appts'[sessions[s].editing].st = "open", NEW a \in Appts, appts'[a].by = s
        PROVE  appts'[a].st # "open"
    <3>1. appts[sessions[s].editing].st = "open"
      BY <2>1, <2>3 DEF Eased
    <3>2. a \in BookedBy(s)
      BY <2>3 DEF Eased, BookedBy
    <3>3. appts[a].st # "open"
      BY <2>1, <2>3, <3>1, <3>2 DEF SessionInv
    <3> QED BY <3>3 DEF Eased
  <2>4. ASSUME Alone, sessions'[s].st = "COMPLETED" PROVE Chose(sessions[s], sessions[s].appt)'
    <3>1. sessions'[s] = sessions[s] /\ Chose(sessions[s], sessions[s].appt)
      BY <2>1, <2>4 DEF SessionInv, Tended
    <3>2. PICK r : r = sessions[s]
      OBVIOUS
    <3>3. Chose(r, r.appt)'
      BY <1>2, <2>4, <3>1, <3>2
    <3> QED BY <3>1, <3>2, <3>3 DEF Chose, Suits
  <2>5. Alone => Fitting(s)'
    BY <2>1 DEF SessionInv, Tended
  <2>6. scene' = scene
    BY DEF Tended
  <2> QED BY <2>1, <2>2, <2>3, <2>4, <2>5, <2>6 DEF SessionInv, BookedBy, Alone, OneAtATime
<1>4. ASSUME NEW h \in Handlers PROVE HandlerInv(h)'
  <2>1. HandlerInv(h) /\ SameCopy(hs[h], hs'[h]) /\ scene' = scene /\ shown' = shown
    BY DEF BookingInv, Tended
  <2>2. /\ hs[h].app \in Appts \cup {None} /\ hs[h].snap.editing \in Appts \cup {None}
        /\ hs[h].s \in Ids \cup {None}
    BY DEF BookingInv, Typed, Memory, Row
  <2>3. CASE hs'[h] = hs[h]
    <3>1. hs[h].pc = "open" /\ hs[h].app # None => appts'[hs[h].app].st # "none"
      BY <2>1, <2>2 DEF HandlerInv, Eased
    <3>2. hs[h].pc # "idle" /\ hs[h].s # None => hs[h].snap.editing = sessions'[hs[h].s].editing
      BY <2>1, <2>2 DEF HandlerInv, Tended
    <3>3. ~scene.flow /\ hs[h].pc = "write" /\ hs[h].app = None /\ hs[h].snap.editing # None
            => appts'[hs[h].snap.editing].st = "closed"
      BY <2>1, <2>2 DEF HandlerInv, Eased
    <3>4. ASSUME Alone, hs[h].pc = "complete" PROVE Chose(hs[h].snap, hs[h].app)'
      <4>1. PICK m : m = hs[h]
        OBVIOUS
      <4>2. Chose(m.snap, m.app)'
        BY <1>2, <2>1, <3>4, <4>1 DEF HandlerInv
      <4> QED BY <2>3, <4>1, <4>2 DEF Chose, Suits
    <3> QED BY <2>1, <2>3, <3>1, <3>2, <3>3, <3>4 DEF HandlerInv, Alone, OneAtATime, Fits
  <2>4. CASE hs'[h] # hs[h]
    <3>1. PICK m : m = hs[h]
      OBVIOUS
    <3>2. PICK n : n = hs'[h]
      OBVIOUS
    <3>3. /\ m.pc = "mark" /\ n.pc = "mark" /\ n.s = m.s /\ n.flow = m.flow
          /\ n.snap.st = m.snap.st /\ n.snap.ver = m.snap.ver /\ n.snap.appt = m.snap.appt
          /\ n.snap.editing = m.snap.editing /\ n.snap.date = m.snap.date /\ n.snap.service = m.snap.service
          /\ n.snap.staff = m.snap.staff /\ n.snap.slot = m.snap.slot
      BY <2>1, <2>4, <3>1, <3>2 DEF SameCopy
    <3>4. m.s # None => n.snap.editing = sessions'[n.s].editing
      BY <2>1, <2>2, <3>1, <3>3 DEF HandlerInv, Tended
    <3>5. ~m.flow /\ (m.s # None => Open(n.snap))
      BY <2>1, <3>1, <3>3 DEF HandlerInv, Open
    <3>6. Alone => (m.s # None => Sound(n.snap)) /\ Fits(n.snap, shown'[n.s])
      <4>1. Alone => (m.s # None => Sound(m.snap)) /\ Fits(m.snap, shown[m.s])
        BY <2>1, <3>1, <3>3 DEF HandlerInv
      <4>2. Sound(m.snap) => Sound(n.snap)
        BY <3>3 DEF Sound
      <4>3. Fits(m.snap, shown[m.s]) => Fits(n.snap, shown'[n.s])
        BY <2>1, <3>3 DEF Fits, Offered, Open
      <4> QED BY <4>1, <4>2, <4>3
    <3> QED BY <2>1, <3>2, <3>3, <3>4, <3>5, <3>6 DEF HandlerInv, Alone, OneAtATime
  <2> QED BY <2>3, <2>4
<1> QED BY <1>1, <1>3, <1>4 DEF BookingInv

\* A handler at rest remembers nothing.
LEMMA IdleIs ==
  /\ Idle \in Memory /\ Idle.pc = "idle" /\ Idle.s = None /\ Idle.app = None
  /\ Idle.flow = FALSE /\ Idle.snap.appt = None /\ Idle.screen = Blank
<1>1. NewSession(None) \in Row
  BY CatalogueAssumption DEF NewSession, Row, Session, None, Steps
<1>2. Blank \in Posted
  BY DEF Blank, Posted, Steps
<1> QED BY <1>1, <1>2 DEF Idle, Memory, None, NewSession

\* A step of a handler that only changes its memory: it comes to rest, it reads a session, or
\* it goes on to write with the copy it holds.
Turned(h) ==
  /\ UNCHANGED <<sessions, shown, flows, appts, active, scene>>
  /\ HandlerInv(h)'
  /\ \E m \in Memory :
       /\ Goto(h, m) /\ m.s \in Ids \cup {None}
       /\ m.pc \notin {"idle", "open"} => m.s # None
       /\ \/ m = Idle /\ (hs[h].pc = "complete" => MayFail)
          \/ /\ hs[h].pc = "idle" /\ h \in scene.requests /\ m.pc \in {"read", "mark", "form", "open"}
             /\ m.s # None => m.snap = sessions[m.s]
             /\ ~scene.flow => m.s = FindActive
          \/ /\ hs[h].pc \in {"read", "form"} /\ m.pc = "write"
             /\ m.s = hs[h].s /\ m.snap = hs[h].snap /\ m.snap.appt = None

\* It keeps the invariant.
LEMMA TurnedKeeps == ASSUME BookingInv, NEW h \in Handlers, Turned(h) PROVE BookingInv'
<1>1. PICK m \in Memory :
        /\ Goto(h, m) /\ m.s \in Ids \cup {None} /\ (m.pc \notin {"idle", "open"} => m.s # None)
        /\ m.pc # "complete" /\ (m.pc # "idle" => h \in scene.requests)
  BY IdleIs DEF Turned, BookingInv, Typed
<1>2. hs' = [hs EXCEPT ![h] = m] /\ hs \in [Handlers -> Memory]
  BY <1>1 DEF Goto, BookingInv, Typed
<1>3. hs' \in [Handlers -> Memory] /\ hs'[h] = m /\ \A g \in Handlers \ {h} : hs'[g] = hs[g]
  BY <1>2
<1>4. \A g \in Handlers : /\ hs'[g].s \in Ids \cup {None}
                          /\ hs'[g].pc \notin {"idle", "open"} => hs'[g].s # None
                          /\ hs'[g].pc = "complete" => hs'[g].app # None
                          /\ hs'[g].pc # "idle" => g \in scene.requests
  BY <1>1, <1>3 DEF BookingInv, Typed
<1>5. UNCHANGED <<sessions, shown, flows, appts, active, scene>> /\ HandlerInv(h)'
  BY DEF Turned
<1>6. Typed' /\ Ids' = Ids
  BY <1>3, <1>4, <1>5, TypedSame DEF BookingInv, Typed
<1>7. ASSUME NEW s \in Ids PROVE SessionInv(s)'
  BY <1>5, <1>6 DEF BookingInv, SessionInv, Fitting, BookedBy, Chose, Suits, Alone, OneAtATime
<1>8. ASSUME NEW g \in Handlers \ {h} PROVE HandlerInv(g)'
  BY <1>3, <1>5, <1>6 DEF BookingInv, HandlerInv, Alone, OneAtATime, Chose, Suits, Fits
<1> QED BY <1>5, <1>6, <1>7, <1>8 DEF BookingInv

\* A handler that comes to rest.
LEMMA RestTurns ==
  ASSUME BookingInv, NEW h \in Handlers, Done(h), hs[h].pc = "complete" => MayFail,
         UNCHANGED <<sessions, shown, flows, appts, active, scene>>
  PROVE  Turned(h)
<1>1. hs'[h] = Idle
  BY DEF Done, Goto, BookingInv, Typed
<1>2. HandlerInv(h)'
  BY <1>1, IdleIs DEF HandlerInv
<1> QED BY <1>2, IdleIs DEF Turned, Done

\* A request that opens a session reads the one open and changes nothing.
LEMMA StartTurns ==
  ASSUME BookingInv, NEW h \in Handlers, h \in scene.requests, NEW e \in Appts \cup {None}, Start(h, e),
         e # None => appts[e].st # "none"
  PROVE  Turned(h)
<1> DEFINE m == [Idle EXCEPT !.pc = "open", !.s = FindActive, !.app = e,
                             !.snap = IF FindActive = None THEN @ ELSE sessions[FindActive]]
<1>1. /\ FindActive \in Ids \cup {None}
      /\ FindActive # None => FindActive \in Ids /\ sessions[FindActive] \in Row /\ Open(sessions[FindActive])
  BY RowsAre DEF BookingInv
<1>2. m \in Memory /\ m.pc = "open" /\ m.s = FindActive /\ m.app = e /\ m.flow = FALSE
      /\ (m.s # None => m.snap = sessions[m.s])
  BY <1>1, IdleIs, RowsAre DEF Idle, Memory, BookingInv
<1>3. Goto(h, m) /\ hs[h].pc = "idle" /\ UNCHANGED <<sessions, shown, flows, appts, active, scene>>
  BY DEF Start
<1> HIDE DEF m
<1>4. hs'[h] = m
  BY <1>3 DEF Goto, BookingInv, Typed
<1>5. Alone /\ m.s # None => Sound(m.snap)
  BY <1>1, <1>2 DEF BookingInv, SessionInv, Fitting
<1>6. HandlerInv(h)'
  BY <1>1, <1>2, <1>3, <1>4, <1>5 DEF HandlerInv, Alone, OneAtATime
<1> QED BY <1>1, <1>2, <1>3, <1>6 DEF Turned

\* A tap and a text read the open session, and the screen it last showed.
LEMMA ReadTurns ==
  ASSUME BookingInv, NEW h \in Handlers, h \in scene.requests, Read(h) \/ ReadRefused(h)
  PROVE  Turned(h)
<1>1. FindActive # None
  BY DEF Read, ReadRefused
<1>2. PICK s \in Ids : s = FindActive
  BY <1>1, RowsAre DEF BookingInv
<1>3. /\ s \in Nat /\ s # None /\ sessions[s] \in Row /\ shown[s] \in Posted /\ Open(sessions[s])
      /\ sessions[s].editing = sessions[s].editing
  BY <1>1, <1>2, RowsAre DEF BookingInv
<1>4. PICK m : /\ Goto(h, m) /\ hs[h].pc = "idle" /\ UNCHANGED <<sessions, shown, flows, appts, active, scene>>
               /\ \/ m = [Idle EXCEPT !.pc = "read", !.s = s, !.snap = sessions[s], !.screen = shown[s]]
                  \/ m = [Idle EXCEPT !.pc = "mark", !.s = s, !.snap = sessions[s]]
  BY <1>2 DEF Read, ReadRefused
<1>5. /\ m \in Memory /\ m.pc \in {"read", "mark"} /\ m.s = s /\ m.snap = sessions[s] /\ m.flow = FALSE
      /\ m.pc = "read" => m.screen = shown[s]
  BY <1>3, <1>4, IdleIs DEF Idle, Memory
<1>6. hs'[h] = m
  BY <1>4 DEF Goto, BookingInv, Typed
<1>7. Alone => Sound(sessions[s]) /\ Fits(sessions[s], shown[s])
  BY DEF BookingInv, SessionInv, Fitting
<1>8. HandlerInv(h)'
  BY <1>3, <1>4, <1>5, <1>6, <1>7 DEF HandlerInv, Alone, OneAtATime, Fits
<1> QED BY <1>2, <1>3, <1>4, <1>5, <1>8 DEF Turned

\* The form reads the session its token names: without a Flow there is none.
LEMMA ReadFormTurns ==
  ASSUME BookingInv, NEW h \in Handlers, h \in scene.requests, ReadForm(h)
  PROVE  Turned(h)
<1>1. PICK s \in flows : \E m : m = [Idle EXCEPT !.pc = "form", !.s = s, !.snap = sessions[s], !.flow = TRUE] /\ Goto(h, m)
  BY Zenon DEF ReadForm
<1>2. /\ s \in Ids /\ s \in Nat /\ s # None /\ sessions[s] \in Row /\ scene.flow
      /\ hs[h].pc = "idle" /\ UNCHANGED <<sessions, shown, flows, appts, active, scene>>
  BY RowsAre DEF BookingInv, Typed, ReadForm
<1>3. PICK m : m = [Idle EXCEPT !.pc = "form", !.s = s, !.snap = sessions[s], !.flow = TRUE] /\ Goto(h, m)
  BY <1>1
<1>4. m \in Memory /\ m.pc = "form" /\ m.s = s /\ m.snap = sessions[s] /\ m.flow = TRUE
  BY <1>2, <1>3, IdleIs DEF Idle, Memory
<1>5. hs'[h] = m
  BY <1>3 DEF Goto, BookingInv, Typed
<1>6. HandlerInv(h)'
  BY <1>2, <1>4, <1>5 DEF HandlerInv, Alone, OneAtATime
<1> QED BY <1>2, <1>3, <1>4, <1>6 DEF Turned

\* Who can take a slot is one of the team of its service, and the one asked for if any.
LEMMA ConfirmableOf ==
  ASSUME active \in SUBSET Services, NEW service, NEW staff, NEW x, NEW edit, NEW taken,
         NEW p \in Confirmable(service, staff, x, edit, taken)
  PROVE  /\ service \in Services
         /\ staff # None => p = staff
         /\ staff = None => p \in TeamOf[service]
BY DEF Confirmable, Candidates

\* What a handler holds of a session.
LEMMA HeldIs ==
  ASSUME BookingInv, NEW h \in Handlers, hs[h].pc \notin {"idle", "open"}
  PROVE  /\ Typed /\ HandlerInv(h) /\ hs[h] \in Memory
         /\ hs[h].s \in Ids /\ hs[h].s # None /\ hs[h].s \in Nat /\ hs[h].snap \in Row
         /\ hs[h].snap.editing = sessions[hs[h].s].editing
         /\ ~hs[h].flow => Open(hs[h].snap) /\ hs[h].snap.st # "COMPLETED"
         /\ Alone => ~hs[h].flow /\ Sound(hs[h].snap)
<1>1. Typed /\ HandlerInv(h) /\ hs[h] \in Memory /\ hs[h].s \in Ids /\ hs[h].s # None
  BY DEF BookingInv, Typed
<1>2. hs[h].s \in Nat /\ hs[h].snap \in Row
  BY <1>1 DEF Memory
<1>3. ~hs[h].flow => Open(hs[h].snap)
  BY <1>1 DEF HandlerInv
<1> QED BY <1>1, <1>2, <1>3 DEF HandlerInv, Alone, OneAtATime, Open, Terminal

\* A handler writes the session it holds, from its copy, and rests.
Rewrote(h) ==
  /\ hs[h].pc \notin {"idle", "open", "complete"} /\ Done(h) /\ UNCHANGED <<flows, appts, active, scene>>
  /\ \E row \in Row : /\ Stored(hs[h].s, row) /\ row.st # "COMPLETED"
                      /\ row.appt = hs[h].snap.appt /\ row.editing = hs[h].snap.editing
  /\ \A s \in Ids : Alone /\ s = hs[h].s => Fitting(s)'

\* One session is written and its handler rests.
LEMMA StoreKeeps ==
  ASSUME BookingInv, UNCHANGED <<flows, appts, active, scene>>, NEW h \in Handlers, hs[h].pc # "idle", Done(h), NEW s \in Ids,
         NEW row, Stored(s, row), row.editing = sessions[s].editing,
         Alone => Fitting(s)',
         Alone /\ row.st = "COMPLETED" => Chose(sessions[s], sessions[s].appt)'
  PROVE  BookingInv'
<1>1. hs' \in [Handlers -> Memory] /\ hs'[h] = Idle /\ \A g \in Handlers \ {h} : hs'[g] = hs[g]
  BY IdleIs DEF Done, Goto, BookingInv, Typed
<1>2. \A g \in Handlers : /\ hs'[g].s \in Ids \cup {None}
                          /\ hs'[g].pc \notin {"idle", "open"} => hs'[g].s # None
                          /\ hs'[g].pc = "complete" => hs'[g].app # None
                          /\ hs'[g].pc # "idle" => g \in scene.requests
  BY <1>1, IdleIs DEF BookingInv, Typed
<1>3. Typed' /\ Ids' = Ids
  BY <1>1, <1>2, TypedSame DEF BookingInv, Typed, Stored
<1>4. \A t \in Ids : sessions'[t].editing = sessions[t].editing
  BY DEF Stored
<1>5. ASSUME NEW r, NEW a, Chose(r, a) PROVE Chose(r, a)'
  BY <1>3, <1>4, <1>5, ChoseStays
<1>6. ASSUME NEW t \in Ids \ {s} PROVE SessionInv(t)'
  <2>1. sessions'[t] = sessions[t] /\ shown'[t] = shown[t] /\ SessionInv(t)
    BY DEF BookingInv, Stored
  <2>2. PICK r : r = sessions[t]
    OBVIOUS
  <2>3. Alone /\ r.st = "COMPLETED" => Chose(r, r.appt)'
    BY <1>5, <2>1, <2>2 DEF SessionInv
  <2>4. Alone /\ sessions'[t].st = "COMPLETED" => Chose(sessions[t], sessions[t].appt)'
    BY <2>1, <2>2, <2>3 DEF Chose, Suits
  <2>5. Fitting(t) => Fitting(t)'
    BY <2>1 DEF Fitting, Fits
  <2> QED BY <2>1, <2>4, <2>5 DEF SessionInv, BookedBy, Alone, OneAtATime
<1>7. SessionInv(s)'
  <2>1. SessionInv(s) /\ sessions'[s] = row
    BY DEF BookingInv, Stored
  <2> QED BY <1>4, <2>1 DEF SessionInv, BookedBy, Alone, OneAtATime
<1>8. HandlerInv(h)'
  BY <1>1, IdleIs DEF HandlerInv
<1>9. ASSUME NEW g \in Handlers \ {h} PROVE HandlerInv(g)'
  <2>1. /\ hs'[g] = hs[g] /\ HandlerInv(g) /\ hs[g].s \in Ids \cup {None}
        /\ hs[g].pc # "idle" => ~Alone
    BY <1>1 DEF BookingInv, Typed, Alone, OneAtATime
  <2>2. hs[g].s # None => sessions'[hs[g].s].editing = sessions[hs[g].s].editing
    BY <1>4, <2>1
  <2> QED BY <2>1, <2>2 DEF HandlerInv, Alone, OneAtATime
<1> QED BY <1>3, <1>6, <1>7, <1>8, <1>9 DEF BookingInv

\* Writing the session back keeps the invariant.
LEMMA RewroteKeeps == ASSUME BookingInv, NEW h \in Handlers, Rewrote(h) PROVE BookingInv'
<1>1. PICK row \in Row : Stored(hs[h].s, row) /\ row.st # "COMPLETED" /\ row.editing = hs[h].snap.editing
  BY DEF Rewrote
<1>2. hs[h].s \in Ids /\ hs[h].snap.editing = sessions[hs[h].s].editing
  BY HeldIs DEF Rewrote
<1>3. PICK s \in Ids : s = hs[h].s
  BY <1>2
<1>4. Stored(s, row)
  BY <1>1, <1>3 DEF Stored
<1>5. Alone => Fitting(s)'
  BY <1>3 DEF Rewrote
<1>6. hs[h].pc # "idle" /\ Done(h) /\ UNCHANGED <<flows, appts, active, scene>>
  BY DEF Rewrote
<1> QED BY <1>1, <1>2, <1>3, <1>4, <1>5, <1>6, StoreKeeps

\* A screen made from the copy, saved and shown.
LEMMA ScreenRewrites ==
  ASSUME BookingInv, NEW h \in Handlers, hs[h].pc \notin {"idle", "open", "complete"}, Done(h),
         UNCHANGED <<flows, appts, active, scene>>, NEW scr, SaveAndShow(hs[h].s, scr),
         Follows(scr, hs[h].snap), Alone => Suited(scr)
  PROVE  Rewrote(h)
<1>1. PICK s \in Ids : s = hs[h].s
  BY HeldIs
<1>2. Stored(s, scr.row) /\ (Suited(scr) => Fitting(s)')
  <2>1. SaveAndShow(s, scr)
    BY <1>1
  <2> QED BY <2>1, HeldIs, ShownFits DEF Follows
<1>3. Stored(hs[h].s, scr.row)
  BY <1>1, <1>2 DEF Stored
<1> QED BY <1>1, <1>2, <1>3 DEF Rewrote, Follows

\* A row made from the copy, saved without a screen.
LEMMA RowRewrites ==
  ASSUME BookingInv, NEW h \in Handlers, hs[h].pc \notin {"idle", "open", "complete"}, Done(h),
         UNCHANGED <<shown, flows, appts, active, scene>>, NEW row \in Row, Save(hs[h].s, row),
         row.st # "COMPLETED", row.appt = hs[h].snap.appt, row.editing = hs[h].snap.editing,
         Alone => Sound(row) /\ Fits(row, shown[hs[h].s])
  PROVE  Rewrote(h)
<1>1. PICK s \in Ids : s = hs[h].s
  BY HeldIs
<1>2. Stored(s, row) /\ (Sound(row) /\ Fits(row, shown[s]) => Fitting(s)')
  BY <1>1, HeldIs, SavedFits
<1>3. Stored(hs[h].s, row)
  BY <1>1, <1>2 DEF Stored
<1> QED BY <1>1, <1>2, <1>3 DEF Rewrote

\* A session closed from the copy.
LEMMA CloseRewrites ==
  ASSUME BookingInv, NEW h \in Handlers, hs[h].pc = "read", Done(h),
         UNCHANGED <<shown, flows, appts, active, scene>>,
         NEW st \in {"CANCELLED", "EXPIRED"}, Save(hs[h].s, Close(hs[h].snap, st))
  PROVE  Rewrote(h)
<1>1. hs[h].snap \in Row /\ (Alone => Sound(hs[h].snap))
  BY HeldIs
<1>2. PICK row \in Row : row = Close(hs[h].snap, st)
  BY <1>1, CloseFields
<1>3. /\ ~Open(row) /\ row.st # "COMPLETED" /\ row.appt = hs[h].snap.appt /\ row.editing = hs[h].snap.editing
      /\ Alone => Sound(row)
  BY <1>1, <1>2, CloseFields
<1> QED BY <1>2, <1>3, RowRewrites DEF Fits

\* A tap accepted was of the screen the request read.
LEMMA AcceptedIsShown ==
  ASSUME BookingInv, NEW h \in Handlers, hs[h].pc = "read", NEW tap \in TapsOn(hs[h]),
         Verdict(hs[h].snap, hs[h].s, tap) = "ACCEPT"
  PROVE  /\ tap.a \in hs[h].screen.answers /\ tap.a # Cancel /\ tap.a \in Answers
         /\ hs[h].screen.ver = hs[h].snap.ver
<1>1. tap.a # Cancel /\ tap.ver = hs[h].snap.ver
  BY DEF Verdict
<1>2. tap \in LastTaps(hs[h].s, hs[h].screen)
  <2>1. hs[h].snap.ver \in 1..Cycle
    BY HeldIs DEF Row, Session
  <2>2. tap.ver # 0
    BY <1>1, <2>1
  <2> QED BY <2>2 DEF TapsOn, OldTaps
<1>3. tap.a \in hs[h].screen.answers /\ tap.ver = hs[h].screen.ver
  BY <1>2 DEF LastTaps
<1>4. hs[h].screen \in Posted
  BY HeldIs DEF Memory
<1> QED BY <1>1, <1>3, <1>4 DEF Posted

\* A tap.
LEMMA TapRewrites == ASSUME BookingInv, NEW h \in Handlers, Tap(h) PROVE Rewrote(h)
<1>1. hs[h].pc = "read" /\ Done(h) /\ UNCHANGED <<flows, appts, active, scene>>
  BY DEF Tap
<1>2. PICK tap \in TapsOn(hs[h]) :
        \/ Save(hs[h].s, Close(hs[h].snap, "CANCELLED")) /\ UNCHANGED shown
        \/ Save(hs[h].s, Close(hs[h].snap, "EXPIRED")) /\ UNCHANGED shown
        \/ /\ Verdict(hs[h].snap, hs[h].s, tap) = "ACCEPT" /\ hs[h].snap.st # "CONFIRM"
           /\ \E taken \in Occupations :
                SaveAndShow(hs[h].s, ApplySelection(hs[h].snap, tap.a, World(hs[h].snap, taken)))
  BY DEF Tap
<1>3. /\ Typed /\ hs[h].snap \in Row /\ Open(hs[h].snap) /\ hs[h].snap.st # "COMPLETED"
      /\ Alone => Sound(hs[h].snap) /\ Fits(hs[h].snap, hs[h].screen)
  BY <1>1, HeldIs DEF HandlerInv
<1>4. ASSUME Verdict(hs[h].snap, hs[h].s, tap) = "ACCEPT", hs[h].snap.st # "CONFIRM", NEW taken \in Occupations,
             SaveAndShow(hs[h].s, ApplySelection(hs[h].snap, tap.a, World(hs[h].snap, taken)))
      PROVE  Rewrote(h)
  <2> DEFINE scr == ApplySelection(hs[h].snap, tap.a, World(hs[h].snap, taken))
  <2>1. /\ tap.a \in hs[h].screen.answers /\ tap.a # Cancel /\ tap.a \in Answers
        /\ hs[h].screen.ver = hs[h].snap.ver
    BY <1>1, <1>4, AcceptedIsShown
  <2>2. /\ Follows(scr, hs[h].snap)
        /\ Sound(hs[h].snap) /\ tap.a \in Offered(hs[h].snap) => Suited(scr)
    BY <1>3, <1>4, <2>1, SelectionSuits, WorldTyped
  <2>3. Alone => Suited(scr)
    BY <1>3, <2>1, <2>2 DEF Fits
  <2>4. SaveAndShow(hs[h].s, scr)
    BY <1>4
  <2> HIDE DEF scr
  <2> QED BY <1>1, <2>2, <2>3, <2>4, ScreenRewrites
<1> QED BY <1>1, <1>2, <1>4, CloseRewrites

\* A text: the step is sent again, or the booking has expired.
LEMMA TextRewrites == ASSUME BookingInv, NEW h \in Handlers, Text(h) PROVE Rewrote(h)
<1>1. hs[h].pc = "read" /\ Done(h) /\ UNCHANGED <<flows, appts, active, scene>>
  BY DEF Text
<1>2. CASE hs[h].snap.late
  <2>1. Save(hs[h].s, Close(hs[h].snap, "EXPIRED")) /\ UNCHANGED shown
    BY <1>2 DEF Text
  <2> QED BY <1>1, <2>1, CloseRewrites
<1>3. CASE ~hs[h].snap.late
  <2>1. PICK r \in Row : r = hs[h].snap
    BY <1>1, HeldIs
  <2>2. PICK again : again = Reissue(r)
    OBVIOUS
  <2>3. PICK taken \in Occupations : SaveAndShow(hs[h].s, CurrentScreen(again, World(again, taken)))
    BY <1>3, <2>1, <2>2 DEF Text
  <2>4. Typed /\ Open(r) /\ (Alone => Sound(r)) /\ r.st # "COMPLETED" /\ r.st \in Steps \cup Terminal
    BY <1>1, <2>1, HeldIs DEF HandlerInv, Row, Session
  <2>5. /\ again \in Row /\ again.st = r.st /\ again.appt = r.appt /\ again.editing = r.editing
        /\ again.date = r.date /\ again.service = r.service /\ again.staff = r.staff /\ again.slot = r.slot
    BY <2>2, <2>4, Moving DEF Reissue
  <2>6. Open(again) /\ (Alone => Sound(again)) /\ again.st # "COMPLETED"
    BY <2>4, <2>5 DEF Open, Sound
  <2>7. PICK scr : scr = CurrentScreen(again, World(again, taken))
    OBVIOUS
  <2>8. Follows(scr, again) /\ (Alone => Suited(scr))
    BY <2>4, <2>5, <2>6, <2>7, CurrentScreenSuits, WorldTyped
  <2>9. Follows(scr, hs[h].snap)
    BY <2>1, <2>5, <2>8 DEF Follows
  <2>10. SaveAndShow(hs[h].s, scr)
    BY <2>3, <2>7
  <2> QED BY <1>1, <2>8, <2>9, <2>10, ScreenRewrites
<1> QED BY <1>2, <1>3

\* The id of a message noted in a copy that is otherwise as it was read.
LEMMA MarkRewrites == ASSUME BookingInv, NEW h \in Handlers, Mark(h) PROVE Rewrote(h)
<1>1. /\ hs[h].pc = "mark" /\ Done(h) /\ Save(hs[h].s, hs[h].snap)
      /\ UNCHANGED <<shown, flows, appts, active, scene>>
  BY DEF Mark
<1>2. /\ hs[h].snap \in Row /\ hs[h].snap.st # "COMPLETED"
      /\ Alone => Sound(hs[h].snap) /\ Fits(hs[h].snap, shown[hs[h].s])
  BY <1>1, HeldIs DEF HandlerInv
<1> QED BY <1>1, <1>2, RowRewrites

\* A choice in the Flow: there is none without one.
LEMMA FlowChoiceRewrites == ASSUME BookingInv, NEW h \in Handlers, FlowChoice(h) PROVE Rewrote(h)
<1>1. /\ hs[h].pc = "form" /\ Done(h) /\ UNCHANGED <<shown, flows, appts, active, scene>>
      /\ hs[h].snap \in Row /\ Typed /\ ~Alone
  BY HeldIs DEF FlowChoice, HandlerInv, Alone, OneAtATime
<1>2. PICK trigger \in FormTriggers, service \in active, x \in Slots :
        \E p \in TeamOf[service] \cup {None} :
          Save(hs[h].s, FlowSelection(Remember(hs[h].snap), trigger, service, p, x))
  BY DEF FlowChoice
<1>3. PICK p \in TeamOf[service] \cup {None} :
        Save(hs[h].s, FlowSelection(Remember(hs[h].snap), trigger, service, p, x))
  BY <1>2
<1>4. PICK r \in Row : r = hs[h].snap
  BY <1>1
<1> DEFINE on == Advance(r, "ASK_SLOT")
           row == FlowSelection(on, trigger, service, p, x)
<1>5. on \in Row /\ on.st = "ASK_SLOT" /\ on.appt = r.appt /\ on.editing = r.editing
  BY Moving DEF Steps
<1>6. /\ service \in Services /\ p \in Nat /\ x \in Nat /\ DateOf[x] \in Nat /\ TeamOf[service] \in SUBSET Nat
      /\ service \in Nat
  <2>1. service \in Services
    BY <1>1 DEF Typed
  <2> QED BY <2>1, CatalogueAssumption DEF None
<1>7. (IF Cardinality(TeamOf[service]) = 1 THEN CHOOSE q \in TeamOf[service] : TRUE ELSE None) \in Nat
  <2>1. CASE Cardinality(TeamOf[service]) = 1
    <3>1. TeamOf[service] # {}
      BY <2>1, FS_EmptySet
    <3> QED BY <1>6, <2>1, <3>1
  <2>2. CASE Cardinality(TeamOf[service]) # 1
    BY <2>2 DEF None
  <2> QED BY <2>1, <2>2
<1> HIDE DEF on
<1>8. row \in Row /\ row.st = on.st /\ row.appt = on.appt /\ row.editing = on.editing
  <2>1. CASE trigger = "service"
    BY <1>5, <1>6, <1>7, <2>1 DEF FlowSelection, Row, Session, Today, None
  <2>2. CASE trigger = "staff"
    BY <1>5, <1>6, <2>2 DEF FlowSelection, Row, Session
  <2>3. CASE trigger = "date"
    BY <1>5, <1>6, <2>3 DEF FlowSelection, Row, Session, None
  <2>4. CASE trigger = "review"
    BY <1>5, <1>6, <2>4 DEF FlowSelection, Row, Session
  <2> QED BY <2>1, <2>2, <2>3, <2>4 DEF FormTriggers
<1>9. Save(hs[h].s, row)
  BY <1>3, <1>4 DEF Remember, on
<1> HIDE DEF row
<1>10. PICK q \in Row : q = row
  BY <1>8
<1> QED BY <1>1, <1>4, <1>5, <1>8, <1>9, <1>10, RowRewrites

\* The slot has been taken: the customer is sent back to choose.
LEMMA RefusedRewrites ==
  ASSUME BookingInv, NEW h \in Handlers, hs[h].pc \notin {"idle", "open", "complete"}, ~hs[h].flow,
         Alone => hs[h].snap.st = "CONFIRM", Done(h), UNCHANGED <<flows, appts, active, scene>>,
         NEW taken, SaveAndShow(hs[h].s, SlotTaken(hs[h].snap, World(hs[h].snap, taken)))
  PROVE  Rewrote(h)
<1>1. /\ hs[h].snap \in Row /\ hs[h].snap.st # "COMPLETED"
      /\ Alone => Sound(hs[h].snap) /\ hs[h].snap.service # None
  BY HeldIs DEF Sound
<1>2. PICK scr : scr = SlotTaken(hs[h].snap, World(hs[h].snap, taken))
  OBVIOUS
<1>3. Follows(scr, hs[h].snap) /\ (Alone => Suited(scr))
  BY <1>1, <1>2, SlotTakenSuits
<1>4. SaveAndShow(hs[h].s, scr)
  BY <1>2
<1> QED BY <1>3, <1>4, ScreenRewrites

\* What a handler takes to the write.
LEMMA ToWriteIs ==
  ASSUME NEW m \in Memory, NEW p \in Nat, NEW x \in Nat, NEW e \in Appts \cup {None}
  PROVE  /\ ToWrite(m, p, x, e) \in Memory /\ ToWrite(m, p, x, e).pc = "write"
         /\ ToWrite(m, p, x, e).s = m.s /\ ToWrite(m, p, x, e).snap = m.snap /\ ToWrite(m, p, x, e).flow = m.flow
         /\ ToWrite(m, p, x, e).staff = p /\ ToWrite(m, p, x, e).slot = x /\ ToWrite(m, p, x, e).app = e
BY IdleIs DEF ToWrite, Memory

\* The slot is checked again: it can be taken, or the customer is sent back to choose, or there
\* is nothing to confirm.
LEMMA CheckDoes == ASSUME BookingInv, NEW h \in Handlers, Check(h) PROVE Turned(h) \/ Rewrote(h)
<1>1. /\ hs[h].pc = "read" /\ hs[h].snap.st = "CONFIRM" /\ UNCHANGED <<flows, appts, active, scene>>
  BY DEF Check
<1>2. /\ Typed /\ HandlerInv(h) /\ ~hs[h].flow
      /\ hs \in [Handlers -> Memory] /\ active \in SUBSET Services
  BY <1>1, HeldIs DEF HandlerInv, Typed
<1>3. PICK m \in Memory : m = hs[h]
  BY <1>1, HeldIs
<1>4. PICK r \in Row : r = m.snap
  BY <1>1, <1>3, HeldIs
<1>5. /\ m.s \in Ids /\ m.s # None /\ r.editing = sessions[m.s].editing /\ Open(r) /\ (Alone => Sound(r))
  BY <1>1, <1>2, <1>3, <1>4, HeldIs
<1>6. CASE Done(h) /\ UNCHANGED <<sessions, shown>>
  BY <1>1, <1>6, RestTurns
<1>7. ASSUME NEW taken \in Occupations, SaveAndShow(m.s, SlotTaken(r, World(r, taken))), Done(h)
      PROVE  Rewrote(h)
  <2>1. SaveAndShow(hs[h].s, SlotTaken(hs[h].snap, World(hs[h].snap, taken)))
    BY <1>3, <1>4, <1>7
  <2> QED BY <1>1, <1>2, <1>7, <2>1, RefusedRewrites
<1>8. ASSUME r.appt = None, NEW taken \in Occupations,
             NEW p \in Confirmable(r.service, r.staff, r.slot, Editing(r), taken),
             Goto(h, ToWrite(m, p, r.slot, Editing(r))), UNCHANGED <<sessions, shown>>
      PROVE  Turned(h)
  <2>1. /\ r.service \in Services
        /\ r.staff # None => p = r.staff
        /\ r.staff = None => p \in TeamOf[r.service]
    BY <1>2, <1>8, ConfirmableOf
  <2>2. p \in Nat /\ r.slot \in Nat
    BY <2>1, CatalogueAssumption DEF Row, Session
  <2>3. /\ Editing(r) \in Appts \cup {None}
        /\ Editing(r) # None => Editing(r) = r.editing
        /\ Editing(r) = None /\ r.editing # None => appts[r.editing].st # "open"
    BY DEF Editing, Row
  <2>4. PICK e \in Appts \cup {None} : e = Editing(r)
    BY <2>3
  <2>5. PICK n \in Memory :
          /\ Goto(h, n) /\ n.pc = "write" /\ n.s = m.s /\ n.snap = r /\ n.staff = p
          /\ n.slot = r.slot /\ n.app = e /\ ~n.flow
    <3>1. /\ ToWrite(m, p, r.slot, e) \in Memory /\ ToWrite(m, p, r.slot, e).pc = "write"
          /\ ToWrite(m, p, r.slot, e).s = m.s /\ ToWrite(m, p, r.slot, e).snap = m.snap
          /\ ToWrite(m, p, r.slot, e).flow = m.flow /\ ToWrite(m, p, r.slot, e).staff = p
          /\ ToWrite(m, p, r.slot, e).slot = r.slot /\ ToWrite(m, p, r.slot, e).app = e
      BY <2>2, ToWriteIs
    <3>2. Goto(h, ToWrite(m, p, r.slot, e)) /\ ~m.flow
      BY <1>2, <1>3, <1>8, <2>4
    <3> QED BY <1>4, <3>1, <3>2
  <2>6. hs'[h] = n
    BY <1>2, <2>5 DEF Goto
  <2>7. Alone => p \in TeamOf[r.service]
    BY <1>5, <2>1 DEF Sound
  <2>8. r.editing # None => appts[r.editing].st \in {"open", "closed"}
    <3>1. PICK s \in Ids : s = m.s
      BY <1>5
    <3>2. SessionInv(s)
      BY DEF BookingInv
    <3> QED BY <1>2, <1>5, <3>1, <3>2 DEF SessionInv, Typed, Row, Appointment
  <2>9. r.st = "CONFIRM"
    BY <1>1, <1>3, <1>4
  <2>10. HandlerInv(h)'
    BY <1>1, <1>5, <1>8, <2>1, <2>3, <2>4, <2>5, <2>6, <2>7, <2>8, <2>9 DEF HandlerInv, Alone, OneAtATime
  <2> QED BY <1>1, <1>3, <1>4, <1>5, <1>8, <2>5, <2>10 DEF Turned
<1>9. CASE \E taken \in Occupations :
             \/ SaveAndShow(m.s, SlotTaken(r, World(r, taken))) /\ Done(h)
             \/ /\ \E p \in Confirmable(r.service, r.staff, r.slot, Editing(r), taken) :
                     Goto(h, ToWrite(m, p, r.slot, Editing(r)))
                /\ r.appt = None /\ UNCHANGED <<sessions, shown>>
  BY <1>7, <1>8, <1>9
<1> QED BY <1>3, <1>4, <1>6, <1>9 DEF Check

\* Without a Flow nobody confirms in one.
LEMMA FlowConfirmTurns == ASSUME BookingInv, NEW h \in Handlers, FlowConfirm(h) PROVE Turned(h)
<1>1. PICK m0 \in Memory : m0 = hs[h]
  BY DEF BookingInv, Typed
<1>2. /\ m0.pc = "form" /\ m0.snap.appt = None /\ m0.s \in Ids /\ m0.s # None /\ m0.flow /\ scene.flow
      /\ m0.snap.editing = sessions[m0.s].editing
      /\ UNCHANGED <<sessions, shown, flows, appts, active, scene>> /\ active \in SUBSET Services
      /\ hs \in [Handlers -> Memory]
  BY <1>1, HeldIs DEF FlowConfirm, HandlerInv, Typed
<1>3. PICK service \in active, x \in Slots, taken \in Occupations :
        \E choice \in TeamOf[service] \cup {None} :
          LET staff == IF Cardinality(TeamOf[service]) = 1 THEN CHOOSE q \in TeamOf[service] : TRUE ELSE choice
          IN \E p \in Confirmable(service, staff, x, None, taken) : Goto(h, ToWrite(m0, p, x, None))
  BY <1>1 DEF FlowConfirm
<1>4. PICK choice \in TeamOf[service] \cup {None} :
        \E p \in Confirmable(service, IF Cardinality(TeamOf[service]) = 1 THEN CHOOSE q \in TeamOf[service] : TRUE ELSE choice,
                             x, None, taken) : Goto(h, ToWrite(m0, p, x, None))
  BY <1>3
<1> DEFINE staff == IF Cardinality(TeamOf[service]) = 1 THEN CHOOSE q \in TeamOf[service] : TRUE ELSE choice
<1>5. PICK p \in Confirmable(service, staff, x, None, taken) : Goto(h, ToWrite(m0, p, x, None))
  BY <1>4
<1>6. service \in Services /\ TeamOf[service] \in SUBSET Nat /\ x \in Nat
  BY <1>2, CatalogueAssumption
<1>7. staff \in TeamOf[service] \cup {None}
  <2>1. CASE Cardinality(TeamOf[service]) = 1
    <3>1. TeamOf[service] # {}
      BY <2>1, FS_EmptySet
    <3> QED BY <2>1, <3>1
  <2>2. CASE Cardinality(TeamOf[service]) # 1
    BY <2>2
  <2> QED BY <2>1, <2>2
<1> HIDE DEF staff
<1>8. p \in Nat
  BY <1>2, <1>5, <1>6, <1>7, ConfirmableOf DEF None
<1>9. PICK e \in Appts \cup {None} : e = None
  OBVIOUS
<1>10. PICK m : m = ToWrite(m0, p, x, e) /\ Goto(h, m)
  BY <1>5, <1>9
<1>11. m \in Memory /\ m.pc = "write" /\ m.s = m0.s /\ m.snap = m0.snap /\ m.flow = m0.flow /\ hs'[h] = m
  <2>1. m0 \in Memory /\ p \in Nat /\ x \in Nat /\ e \in Appts \cup {None}
    BY <1>6, <1>8
  <2>2. /\ ToWrite(m0, p, x, e) \in Memory /\ ToWrite(m0, p, x, e).pc = "write" /\ ToWrite(m0, p, x, e).s = m0.s
        /\ ToWrite(m0, p, x, e).snap = m0.snap /\ ToWrite(m0, p, x, e).flow = m0.flow
    BY <2>1, ToWriteIs
  <2>3. m \in Memory /\ m.pc = "write" /\ m.s = m0.s /\ m.snap = m0.snap /\ m.flow = m0.flow
    BY <1>10, <2>2, Zenon
  <2> QED BY <1>2, <1>10, <2>3 DEF Goto
<1>12. HandlerInv(h)'
  BY <1>2, <1>11 DEF HandlerInv, Alone, OneAtATime
<1> QED BY <1>1, <1>2, <1>10, <1>11, <1>12 DEF Turned

\* The slot is lost: the customer is sent back to the hours, from the copy the handler holds.
LEMMA LoseDoes == ASSUME BookingInv, NEW h \in Handlers, Lose(h) PROVE Turned(h) \/ Rewrote(h)
<1>1. hs[h].pc = "write" /\ Done(h) /\ UNCHANGED <<flows, appts, active, scene>>
  BY DEF Lose
<1>2. CASE hs[h].flow
  BY <1>1, <1>2, RestTurns DEF Lose
<1>3. CASE ~hs[h].flow
  <2>1. PICK taken \in Occupations : SaveAndShow(hs[h].s, SlotTaken(hs[h].snap, World(hs[h].snap, taken)))
    BY <1>3 DEF Lose
  <2>2. Alone => hs[h].snap.st = "CONFIRM"
    BY <1>1, HeldIs DEF HandlerInv
  <2> QED BY <1>1, <1>3, <2>1, <2>2, RefusedRewrites
<1> QED BY <1>2, <1>3

\* A request cut short forgets what it had, and so does a form that only asked.
LEMMA RestKeeps ==
  ASSUME BookingInv, NEW h \in Handlers, Fail(h) \/ FlowAnswer(h)
  PROVE  Turned(h)
BY RestTurns DEF Fail, FlowAnswer

\* A session learns its appointment, from the copy the handler holds.
LEMMA FinishKeeps == ASSUME BookingInv, NEW h \in Handlers, Finish(h) PROVE BookingInv'
<1>1. /\ hs[h].pc = "complete" /\ Done(h) /\ UNCHANGED <<shown, flows, appts, active, scene>>
      /\ Save(hs[h].s, Complete(hs[h].snap, hs[h].app))
  BY DEF Finish
<1>2. PICK s \in Ids : s = hs[h].s
  BY <1>1, HeldIs
<1>3. PICK r \in Row : r = hs[h].snap
  BY <1>1, HeldIs
<1>4. PICK a \in Appts : a = hs[h].app
  BY <1>1, HeldIs DEF Typed, Memory
<1>5. /\ Typed /\ a \in Nat /\ r.editing = sessions[s].editing
      /\ Alone => Sound(r) /\ r.st = "CONFIRM" /\ Chose(r, a)
  BY <1>1, <1>2, <1>3, <1>4, HeldIs, CustomerAssumption DEF HandlerInv
<1>6. PICK row : row = Complete(r, a)
  OBVIOUS
<1>7. /\ row \in Row /\ row.st = "COMPLETED" /\ row.appt = a /\ row.editing = r.editing
      /\ row.date = r.date /\ row.service = r.service /\ row.staff = r.staff /\ row.slot = r.slot
  <2>1. (r.ver % Cycle) + 1 \in 1 .. Cycle
    <3>1. r.ver \in Nat /\ Cycle \in Nat \ {0}
      BY CatalogueAssumption DEF Row, Session
    <3> QED BY <3>1
  <2> QED BY <1>5, <1>6, <2>1 DEF Complete, Bumped, Row, Session, Terminal
<1>8. Save(s, row)
  BY <1>1, <1>2, <1>3, <1>4, <1>6
<1>9. Stored(s, row) /\ (Sound(row) /\ Fits(row, shown[s]) => Fitting(s)')
  BY <1>1, <1>5, <1>7, <1>8, SavedFits
<1>10. Alone => Fitting(s)'
  BY <1>5, <1>7, <1>9 DEF Sound, Fits, Open, Terminal
<1>11. Alone => Chose(sessions[s], sessions[s].appt)'
  <2>1. \A t \in Ids : sessions'[t].editing = sessions[t].editing
    BY <1>5, <1>7, <1>9 DEF Stored
  <2>2. Ids' = Ids
    BY <1>5, <1>9 DEF Stored, Typed, Ids
  <2>3. Alone => Chose(r, a)'
    BY <1>1, <1>5, <2>1, <2>2, ChoseStays
  <2> QED BY <1>7, <1>9, <2>3 DEF Chose, Suits, Stored
<1> QED BY <1>1, <1>5, <1>7, <1>9, <1>10, <1>11, StoreKeeps

\* The agenda: the panel and the buttons close an appointment, the panel switches services.
LEMMA AgendaTends ==
  ASSUME Typed, (\E a \in Appts : CloseAppointment(a)) \/ (\E v \in Services : SwitchService(v)) \/ UNCHANGED booking
  PROVE  Tended /\ Eased
<1>1. UNCHANGED <<sessions, shown, flows, hs, scene>>
  BY Zenon DEF CloseAppointment, SwitchService, booking
<1>2. Tended
  BY <1>1 DEF Tended, Typed, Fitting, Fits, SameCopy
<1>3. ASSUME (\E v \in Services : SwitchService(v)) \/ UNCHANGED booking PROVE Eased
  <2>1. appts' = appts
    BY Zenon, <1>3 DEF SwitchService, booking
  <2>2. active' \in SUBSET Services
    <3>1. CASE UNCHANGED booking
      BY <3>1 DEF booking, Typed
    <3>2. ASSUME NEW v \in Services, SwitchService(v) PROVE active' \in SUBSET Services
      BY <3>2 DEF SwitchService, Typed
    <3> QED BY <1>3, <3>1, <3>2
  <2>3. appts' \in [Appts -> Appointment]
    BY <2>1 DEF Typed
  <2>4. \A a \in Appts : appts'[a] = appts[a]
    BY <2>1
  <2> QED BY <2>2, <2>3, <2>4 DEF Eased
<1>4. ASSUME NEW a \in Appts, CloseAppointment(a) PROVE Eased
  <2>1. appts[a] \in Appointment /\ appts \in [Appts -> Appointment] /\ active \in SUBSET Services
    BY DEF Typed
  <2> DEFINE closed == [NoAppointment EXCEPT !.st = "closed", !.by = appts[a].by]
  <2>2. closed \in Appointment /\ closed.st = "closed" /\ closed.by = appts[a].by
    BY <2>1 DEF NoAppointment, Appointment, None
  <2>3. appts' = [appts EXCEPT ![a] = closed] /\ active' = active
    BY ZenonT(30), <1>4 DEF CloseAppointment
  <2> HIDE DEF closed
  <2> QED BY <2>1, <2>2, <2>3 DEF Eased
<1> QED BY <1>2, <1>3, <1>4

\* The session a request read is closed before its own is inserted.
LEMMA ClosedFirstIs ==
  ASSUME BookingInv, NEW h \in Handlers, hs[h].pc = "open"
  PROVE  /\ ClosedFirst(hs[h]) \in Seq(Row) /\ Len(ClosedFirst(hs[h])) = Len(sessions)
         /\ \A t \in Ids : \/ ClosedFirst(hs[h])[t] = sessions[t]
                           \/ /\ t = hs[h].s /\ ClosedFirst(hs[h])[t] = Close(hs[h].snap, "CANCELLED")
                              /\ ~Open(ClosedFirst(hs[h])[t]) /\ ClosedFirst(hs[h])[t].st = "CANCELLED"
                              /\ ClosedFirst(hs[h])[t].editing = sessions[t].editing
                              /\ Alone => Sound(ClosedFirst(hs[h])[t])
<1>1. /\ sessions \in Seq(Row) /\ hs[h].s \in Ids \cup {None} /\ hs[h].snap \in Row /\ HandlerInv(h)
      /\ DOMAIN sessions = Ids
  BY DEF BookingInv, Typed, Memory, Ids
<1>2. CASE hs[h].s = None
  BY <1>1, <1>2 DEF ClosedFirst
<1>3. CASE hs[h].s # None
  <2>1. PICK s \in Ids : s = hs[h].s
    BY <1>1, <1>3
  <2> DEFINE row == Close(hs[h].snap, "CANCELLED")
  <2>2. /\ row \in Row /\ ~Open(row) /\ row.st = "CANCELLED" /\ row.editing = sessions[s].editing
        /\ Alone => Sound(row)
    BY <1>1, <1>3, <2>1, CloseFields DEF HandlerInv
  <2>3. ClosedFirst(hs[h]) = [sessions EXCEPT ![s] = row]
    BY <1>3, <2>1 DEF ClosedFirst
  <2>4. row = Close(hs[h].snap, "CANCELLED")
    OBVIOUS
  <2> HIDE DEF row
  <2> QED BY <1>1, <2>1, <2>2, <2>3, <2>4, RowWritten
<1> QED BY <1>2, <1>3

\* A session is opened.
LEMMA InsertKeeps == ASSUME BookingInv, NEW h \in Handlers, Insert(h) PROVE BookingInv'
<1> DEFINE rows == ClosedFirst(hs[h])
           scr  == FirstScreen(hs[h].app)
<1>1. /\ hs[h].pc = "open" /\ Len(sessions) < scene.sessions /\ Done(h)
      /\ sessions' = Append(rows, scr.row) /\ UNCHANGED <<appts, active, scene>>
  BY DEF Insert
<1>2. /\ Typed /\ Ids = 1 .. Len(sessions) /\ Len(sessions) \in Nat /\ shown \in Seq(Posted) /\ Len(shown) = Len(sessions)
      /\ hs[h].app \in Appts \cup {None} /\ active \in SUBSET Services
  BY RowsAre DEF BookingInv, Typed, Memory
<1> PICK n \in Nat : n = Len(sessions) + 1
  BY <1>2
<1>3. /\ scr.row \in Row /\ scr.answers \subseteq Answers
      /\ scr.row.st # "COMPLETED" /\ scr.row.appt = None /\ scr.row.editing = hs[h].app
      /\ Suited(scr)
  BY <1>2, FirstScreenSuits
<1>4. /\ rows \in Seq(Row) /\ Len(rows) = Len(sessions)
      /\ \A t \in Ids : \/ rows[t] = sessions[t]
                        \/ /\ t = hs[h].s /\ ~Open(rows[t]) /\ rows[t].st = "CANCELLED"
                           /\ rows[t].editing = sessions[t].editing
                           /\ Alone => Sound(rows[t])
  BY <1>1, ClosedFirstIs
<1>5. PICK screen \in {Blank} \cup Delivered(scr.row, scr.answers) :
        /\ shown' = Append(shown, screen)
        /\ \/ UNCHANGED flows
           \/ scene.flow /\ LatestOpen(Append(rows, scr.row)) # None
              /\ flows' = flows \cup {LatestOpen(Append(rows, scr.row))}
  BY DEF Insert
<1>6. PICK row \in Row : row = scr.row
  BY <1>3
<1>7. screen \in Posted /\ (screen.ver = row.ver => screen.answers = scr.answers)
  <2>1. row.ver \in Nat \ {0} /\ row.st \in Steps \cup Terminal
    BY CatalogueAssumption DEF Row, Session
  <2>2. CASE screen = Blank
    BY <2>1, <2>2 DEF Blank, Posted, Steps
  <2>3. CASE screen = [ver |-> row.ver, st |-> row.st, answers |-> scr.answers]
    BY <1>3, <2>1, <2>3 DEF Posted
  <2> QED BY <1>6, <2>2, <2>3 DEF Delivered
<1> HIDE DEF rows, scr
<1>8. sessions' = Append(rows, row)
  BY <1>1, <1>6
<1>9. /\ sessions' \in Seq(Row) /\ Len(sessions') = n /\ sessions'[n] = row
      /\ \A t \in Ids : sessions'[t] = rows[t]
      /\ shown' \in Seq(Posted) /\ Len(shown') = n /\ shown'[n] = screen
      /\ \A t \in Ids : shown'[t] = shown[t]
      /\ Ids' = Ids \cup {n} /\ n \notin Ids /\ n \in Nat
  <2>1. /\ sessions' \in Seq(Row) /\ Len(sessions') = n /\ sessions'[n] = row
        /\ \A t \in Ids : sessions'[t] = rows[t]
    BY <1>2, <1>4, <1>8
  <2>2. /\ shown' \in Seq(Posted) /\ Len(shown') = n /\ shown'[n] = screen
        /\ \A t \in Ids : shown'[t] = shown[t]
    BY <1>2, <1>5, <1>7
  <2>3. Ids' = 1 .. n
    BY <1>2, <2>1 DEF Ids
  <2> QED BY <1>2, <2>1, <2>2, <2>3
<1>10. \A t \in Ids : sessions'[t].editing = sessions[t].editing /\ (sessions'[t].st = "COMPLETED" => sessions'[t] = sessions[t])
  BY <1>4, <1>9
<1>11. hs' \in [Handlers -> Memory] /\ hs'[h] = Idle /\ \A g \in Handlers \ {h} : hs'[g] = hs[g]
  BY <1>1, <1>2, IdleIs DEF Done, Goto, Typed
<1>12. Typed'
  <2>1. flows' \subseteq Ids' /\ (~scene.flow => flows' = {})
    <3>1. flows \subseteq Ids /\ (~scene.flow => flows = {})
      BY <1>2 DEF Typed
    <3>2. LatestOpen(sessions') # None => LatestOpen(sessions') \in Ids'
      BY <1>9, ActiveIsOpen DEF Ids
    <3> QED BY <1>5, <1>6, <1>8, <1>9, <3>1, <3>2
  <2>2. \A g \in Handlers : /\ hs'[g].s \in Ids' \cup {None}
                            /\ hs'[g].pc \notin {"idle", "open"} => hs'[g].s # None
                            /\ hs'[g].pc = "complete" => hs'[g].app # None
                            /\ hs'[g].pc # "idle" => g \in scene.requests
    BY <1>2, <1>9, <1>11, IdleIs DEF Typed
  <2>3. \A a \in Appts : appts'[a].by \in Ids' \cup {None}
    BY <1>1, <1>2, <1>9 DEF Typed
  <2>4. Len(sessions') <= scene.sessions
    <3>1. scene.sessions \in Nat
      BY <1>2, CustomerAssumption DEF Typed, Scene
    <3> QED BY <1>1, <1>2, <1>9, <3>1
  <2> QED BY <1>1, <1>2, <1>9, <1>11, <2>1, <2>2, <2>3, <2>4 DEF Typed
<1>13. ASSUME NEW r, NEW a, Chose(r, a) PROVE Chose(r, a)'
  BY <1>1, <1>9, <1>10, <1>13, ChoseStays
<1>14. ASSUME NEW t \in Ids PROVE SessionInv(t)'
  <2>1. SessionInv(t)
    BY DEF BookingInv
  <2>2. PICK r : r = sessions[t]
    OBVIOUS
  <2>3. Alone /\ r.st = "COMPLETED" => Chose(r, r.appt)'
    BY <1>13, <2>1, <2>2 DEF SessionInv
  <2>4. Alone /\ sessions'[t].st = "COMPLETED" => Chose(sessions[t], sessions[t].appt)'
    BY <1>10, <2>2, <2>3 DEF Chose, Suits
  <2>5. Alone => Fitting(t)'
    <3>1. CASE sessions'[t] = sessions[t]
      BY <1>9, <2>1, <3>1 DEF SessionInv, Fitting, Fits
    <3>2. CASE sessions'[t] # sessions[t]
      BY <1>4, <1>9, <3>2 DEF Fitting, Fits
    <3> QED BY <3>1, <3>2
  <2> QED BY <1>1, <1>10, <2>1, <2>4, <2>5 DEF SessionInv, BookedBy, Alone, OneAtATime
<1>15. SessionInv(n)'
  <2>1. row.editing # None => appts[row.editing].st # "none"
    BY <1>1, <1>3, <1>6 DEF BookingInv, HandlerInv
  <2>2. \A a \in Appts : appts'[a].by # n
    BY <1>1, <1>2, <1>9 DEF Typed, None
  <2>3. BookedBy(n)' = {}
    BY <2>2 DEF BookedBy
  <2>4. Fitting(n)'
    BY <1>3, <1>6, <1>7, <1>9 DEF Suited, Fitting, Fits
  <2> QED BY <1>1, <1>3, <1>6, <1>9, <2>1, <2>3, <2>4 DEF SessionInv, Alone, OneAtATime
<1>16. HandlerInv(h)'
  BY <1>11, IdleIs DEF HandlerInv
<1>17. ASSUME NEW g \in Handlers \ {h} PROVE HandlerInv(g)'
  <2>1. /\ hs'[g] = hs[g] /\ HandlerInv(g) /\ hs[g].s \in Ids \cup {None}
        /\ hs[g].pc # "idle" => ~Alone
    BY <1>1, <1>2, <1>11 DEF BookingInv, Typed, Alone, OneAtATime
  <2>2. hs[g].s # None => sessions'[hs[g].s].editing = sessions[hs[g].s].editing
    BY <1>10, <2>1
  <2> QED BY <1>1, <2>1, <2>2 DEF HandlerInv, Alone, OneAtATime
<1> QED BY <1>9, <1>12, <1>14, <1>15, <1>16, <1>17 DEF BookingInv

\* An appointment is written, new or moved.
LEMMA WriteKeeps == ASSUME BookingInv, NEW h \in Handlers, Write(h) PROVE BookingInv'
<1>1. hs[h].pc = "write" /\ UNCHANGED <<sessions, shown, flows, active, scene>>
  BY DEF Write
<1>2. PICK m \in Memory : m = hs[h]
  BY DEF BookingInv, Typed
<1>0. scene.appts \in SUBSET Appts
  BY CustomerAssumption DEF Scene, BookingInv, Typed
<1>3. PICK a \in Appts :
        /\ IF m.app = None THEN appts[a].st = "none" ELSE a = m.app /\ appts[a].st = "open"
        /\ appts' = [appts EXCEPT ![a] = [st |-> "open", staff |-> m.staff, slot |-> m.slot,
                                          by |-> IF m.app = None THEN m.s ELSE @.by]]
        /\ Goto(h, [m EXCEPT !.pc = "complete", !.app = a])
  BY ZenonT(30), <1>0, <1>2 DEF Write
<1>4. /\ Typed /\ HandlerInv(h) /\ appts \in [Appts -> Appointment] /\ hs \in [Handlers -> Memory]
      /\ m.s \in Ids /\ m.s # None /\ m.snap \in Row /\ m.snap.editing = sessions[m.s].editing /\ a # None
      /\ ~m.flow => Open(m.snap)
      /\ m.flow => scene.flow
      /\ Alone => /\ Sound(m.snap) /\ m.snap.st = "CONFIRM"
                  /\ m.slot = m.snap.slot /\ m.staff \in TeamOf[m.snap.service]
                  /\ m.snap.staff # None => m.staff = m.snap.staff
      /\ ~scene.flow => /\ m.app # None => m.app = m.snap.editing
                        /\ m.app = None /\ m.snap.editing # None => appts[m.snap.editing].st = "closed"
  <2>1. Typed /\ HandlerInv(h) /\ m.s \in Ids /\ m.s # None /\ a # None
    BY <1>1, <1>2, CustomerAssumption DEF BookingInv, Typed, None
  <2> QED BY <1>1, <1>2, <2>1 DEF HandlerInv, Typed, Memory
<1> DEFINE k == [m EXCEPT !.pc = "complete", !.app = a]
<1>5. /\ k \in Memory /\ k.pc = "complete" /\ k.app = a /\ k.s = m.s /\ k.snap = m.snap /\ k.flow = m.flow
  BY DEF Memory
<1>6. Goto(h, k)
  BY <1>3
<1> HIDE DEF k
<1>7. hs' \in [Handlers -> Memory] /\ hs'[h] = k /\ \A g \in Handlers \ {h} : hs'[g] = hs[g]
  BY <1>4, <1>5, <1>6 DEF Goto
<1> DEFINE booked == [st |-> "open", staff |-> m.staff, slot |-> m.slot, by |-> IF m.app = None THEN m.s ELSE appts[a].by]
<1>8. /\ booked \in Appointment /\ booked.st = "open" /\ booked.staff = m.staff /\ booked.slot = m.slot
      /\ booked.by = IF m.app = None THEN m.s ELSE appts[a].by
      /\ booked.by \in Ids \cup {None}
  <2>1. m.s \in Nat /\ appts[a].by \in Nat /\ appts[a].by \in Ids \cup {None}
    BY <1>4 DEF Memory, Typed, Appointment
  <2> QED BY <1>4, <2>1 DEF Appointment, Memory
<1>9. appts' = [appts EXCEPT ![a] = booked]
  BY <1>3, <1>4
<1> HIDE DEF booked
<1>10. /\ appts' \in [Appts -> Appointment] /\ appts'[a] = booked
       /\ \A b \in Appts \ {a} : appts'[b] = appts[b]
  BY <1>4, <1>8, <1>9
<1>11. Typed' /\ Ids' = Ids
  <2>1. \A g \in Handlers : /\ hs'[g].s \in Ids \cup {None}
                            /\ hs'[g].pc \notin {"idle", "open"} => hs'[g].s # None
                            /\ hs'[g].pc = "complete" => hs'[g].app # None
                            /\ hs'[g].pc # "idle" => g \in scene.requests
    BY <1>1, <1>2, <1>4, <1>5, <1>7 DEF Typed
  <2>2. \A b \in Appts : appts'[b].by \in Ids \cup {None}
    BY <1>4, <1>8, <1>10 DEF Typed
  <2> QED BY <1>1, <1>4, <1>7, <1>10, <2>1, <2>2, TypedSame DEF Typed
<1>12. ASSUME NEW b \in Appts PROVE /\ appts[b].st # "none" => appts'[b].st # "none"
                                    /\ appts[b].st = "closed" => appts'[b] = appts[b]
                                    /\ appts[b].st = "none" /\ b # a => appts'[b].st = "none"
                                    /\ appts'[b].st = "open" => b = a \/ appts[b].st = "open"
  BY <1>3, <1>8, <1>10
<1>13. ASSUME NEW r, NEW b, Chose(r, b), ~scene.flow PROVE Chose(r, b)'
  <2>1. b \in Appts /\ appts[b].st # "none"
    BY <1>13 DEF Chose
  <2>2. CASE b # a
    BY <1>1, <1>10, <1>11, <1>13, <2>1, <2>2, ChoseStays
  <2>3. CASE b = a
    <3>1. m.app = b /\ sessions[m.s].editing = b
      BY <1>3, <1>4, <1>13, <2>1, <2>3
    <3>2. appts'[b].st # "none"
      BY <1>12, <2>1
    <3> QED BY <1>1, <1>4, <1>11, <1>13, <3>1, <3>2, ChoseStays
  <2> QED BY <2>2, <2>3
<1>14. ASSUME NEW t \in Ids PROVE SessionInv(t)'
  <2>1. SessionInv(t) /\ sessions[t].editing \in Appts \cup {None} /\ t # None
    BY <1>4, RowsAre DEF BookingInv, Row
  <2>2. sessions[t].editing # None => appts'[sessions[t].editing].st # "none"
    BY <1>12, <2>1 DEF SessionInv
  <2>3. ASSUME ~scene.flow, sessions[t].editing # None, appts'[sessions[t].editing].st = "open", NEW b \in Appts, appts'[b].by = t
        PROVE  appts'[b].st # "open"
    <3>1. appts[sessions[t].editing].st = "open"
      BY <1>3, <1>12, <2>1, <2>3 DEF SessionInv
    <3>2. \A c \in Appts : appts[c].by = t => appts[c].st # "open"
      BY <2>1, <2>3, <3>1 DEF SessionInv, BookedBy
    <3>3. CASE b # a
      BY <1>10, <2>3, <3>2, <3>3
    <3>4. CASE b = a /\ m.app # None
      BY <1>3, <1>8, <1>10, <2>3, <3>2, <3>4
    <3>5. CASE b = a /\ m.app = None
      <4>1. t = m.s
        BY <1>8, <1>10, <2>3, <3>5
      <4> QED BY <1>4, <2>3, <3>1, <3>5, <4>1
    <3> QED BY <3>3, <3>4, <3>5
  <2>4. PICK r : r = sessions[t]
    OBVIOUS
  <2>5. Alone /\ r.st = "COMPLETED" => Chose(r, r.appt)'
    BY <1>13, <2>1, <2>4 DEF SessionInv, Alone, OneAtATime
  <2>6. Alone /\ sessions[t].st = "COMPLETED" => Chose(sessions[t], sessions[t].appt)'
    BY <1>1, <2>4, <2>5 DEF Chose, Suits
  <2>7. Alone => Fitting(t)'
    BY <1>1, <2>1 DEF SessionInv, Fitting, Fits
  <2> QED BY <1>1, <2>2, <2>3, <2>6, <2>7 DEF SessionInv, BookedBy, Alone, OneAtATime
<1>15. HandlerInv(h)'
  <2>1. ASSUME Alone PROVE Chose(m.snap, a)'
    <3>1. appts'[a].st = "open"
      BY <1>8, <1>10
    <3>2. ASSUME \A t \in Ids' : sessions'[t].editing # a PROVE Suits(m.snap, a)'
      <4>1. m.app = None
        BY <1>1, <1>3, <1>4, <1>11, <2>1, <3>2 DEF Alone, OneAtATime
      <4>2. DateOf[m.snap.slot] = m.snap.date
        BY <1>4, <2>1 DEF Sound
      <4> QED BY <1>4, <1>8, <1>10, <2>1, <4>2 DEF Suits
    <3> QED BY <3>1, <3>2 DEF Chose
  <2>2. Alone => Chose(hs[h].snap, hs[h].app)'
    BY <1>5, <1>7, <2>1 DEF Chose, Suits
  <2> QED BY <1>1, <1>4, <1>5, <1>7, <2>2 DEF HandlerInv, Alone, OneAtATime
<1>16. ASSUME NEW g \in Handlers \ {h} PROVE HandlerInv(g)'
  <2>1. /\ hs'[g] = hs[g] /\ HandlerInv(g) /\ hs[g].app \in Appts \cup {None} /\ hs[g].snap.editing \in Appts \cup {None}
    BY <1>4, <1>7 DEF BookingInv, Memory, Row
  <2>2. hs[g].pc = "open" /\ hs[g].app # None => appts'[hs[g].app].st # "none"
    BY <1>12, <2>1 DEF HandlerInv
  <2>3. ~scene.flow /\ hs[g].pc = "write" /\ hs[g].app = None /\ hs[g].snap.editing # None
          => appts'[hs[g].snap.editing].st = "closed"
    BY <1>12, <2>1 DEF HandlerInv
  <2>4. hs[g].pc # "idle" => ~Alone
    BY <1>1 DEF BookingInv, Typed, Alone, OneAtATime
  <2> QED BY <1>1, <2>1, <2>2, <2>3, <2>4 DEF HandlerInv, Alone, OneAtATime
<1> QED BY <1>11, <1>14, <1>15, <1>16 DEF BookingInv

\* What a step of the whole does to the bookings.
LEMMA NextSteps ==
  ASSUME BookingInv, [Next]_vars
  PROVE  \/ (\E a \in Appts : CloseAppointment(a)) \/ (\E v \in Services : SwitchService(v)) \/ UNCHANGED booking
         \/ ExpireStale \/ CancelOpenByTenant \/ Tick
         \/ \E h \in Handlers : h \in scene.requests /\
              \/ \E e \in Appts \cup {None} : Start(h, e) /\ (e # None => appts[e].st # "none")
              \/ Read(h) \/ ReadRefused(h) \/ ReadForm(h)
              \/ Tap(h) \/ Text(h) \/ Mark(h) \/ FlowChoice(h) \/ FlowAnswer(h)
              \/ Insert(h) \/ Check(h) \/ FlowConfirm(h) \/ Write(h) \/ Lose(h) \/ Finish(h) \/ Fail(h)
<1>0. scene.requests \subseteq Handlers
  BY CustomerAssumption DEF BookingInv, Typed, Scene
<1>1. CASE UNCHANGED vars
  BY <1>1 DEF vars
<1>2. CASE \E h \in scene.requests : Message(h)
  <2>1. PICK h \in scene.requests : Message(h)
    BY <1>2
  <2> QED BY <1>0, <2>1 DEF Message, WhileBooking, AskInWords, TapBook, TapReschedule, StartBooking
<1>3. CASE \E h \in scene.requests : Progress(h) \/ (Fail(h) /\ UNCHANGED chat)
  BY <1>0, <1>3 DEF Progress
<1>4. CASE Business \/ Jobs
  BY <1>4 DEF Business, Jobs, TapCancelAppointment, TapTalkToHuman, PanelResumes, PanelSwitchesBot,
              PanelSwitchesMode, PanelSwitchesService, LosesWhatsApp, ResumeStale
<1>5. CASE SessionsAge \/ HandoffAges
  BY <1>5 DEF SessionsAge, HandoffAges
<1> QED BY <1>1, <1>2, <1>3, <1>4, <1>5 DEF Next

\* The steps by what they write: those without a request; and, of a request, those that write
\* no row, those that write the row they read, the insertion, the appointment and its note.
LEMMA StepKinds ==
  ASSUME BookingInv, [Next]_vars
  PROVE  \/ Tended /\ Eased
         \/ \E h \in Handlers : h \in scene.requests /\ (Turned(h) \/ Rewrote(h) \/ Insert(h) \/ Write(h) \/ Finish(h))
<1>1. Typed
  BY DEF BookingInv
<1>2. CASE (\E a \in Appts : CloseAppointment(a)) \/ (\E v \in Services : SwitchService(v)) \/ UNCHANGED booking
  BY <1>1, <1>2, AgendaTends
<1>3. CASE ExpireStale \/ CancelOpenByTenant \/ Tick
  <2>1. Tended /\ appts' = appts /\ active' = active
    BY <1>1, <1>3, SweepTends DEF ExpireStale, CancelOpenByTenant, Tick
  <2> QED BY <1>1, <2>1 DEF Eased, Typed
<1>4. ASSUME NEW h \in Handlers, h \in scene.requests,
             \/ \E e \in Appts \cup {None} : Start(h, e) /\ (e # None => appts[e].st # "none")
             \/ Read(h) \/ ReadRefused(h) \/ ReadForm(h)
      PROVE  Turned(h)
  BY <1>4, StartTurns, ReadTurns, ReadFormTurns
<1>5. ASSUME NEW h \in Handlers, Tap(h) \/ Text(h) \/ Mark(h) \/ FlowChoice(h) PROVE Rewrote(h)
  BY <1>5, TapRewrites, TextRewrites, MarkRewrites, FlowChoiceRewrites
<1>6. ASSUME NEW h \in Handlers, Check(h) \/ FlowConfirm(h) \/ Lose(h) \/ Fail(h) \/ FlowAnswer(h)
      PROVE  Turned(h) \/ Rewrote(h)
  BY <1>6, CheckDoes, FlowConfirmTurns, LoseDoes, RestKeeps
<1> QED BY <1>2, <1>3, <1>4, <1>5, <1>6, NextSteps

\* The invariant holds when the customer arrives.
LEMMA BookingInit == Init => BookingInv
<1> SUFFICES ASSUME Init PROVE BookingInv
  OBVIOUS
<1>1. Ids = {} /\ Len(sessions) = 0 /\ sessions = <<>> /\ shown = <<>> /\ flows = {}
  BY DEF Init, Ids
<1>2. hs = [h \in Handlers |-> Idle] /\ \A h \in Handlers : hs[h] = Idle
  BY DEF Init
<1>3. appts \in [Appts -> Appointment] /\ \A a \in Appts : appts[a].by = None
  BY ArrivalAssumption DEF Init
<1>4. active \in SUBSET Services /\ scene \in Scenes /\ scene.sessions \in Nat
  BY CustomerAssumption DEF Init, Scene
<1>5. sessions \in Seq(Row) /\ shown \in Seq(Posted) /\ Len(shown) = 0
  BY <1>1
<1>6. Typed
  BY <1>1, <1>2, <1>3, <1>4, <1>5, IdleIs DEF Typed
<1>7. \A h \in Handlers : HandlerInv(h)
  BY <1>2, IdleIs DEF HandlerInv
<1> QED BY <1>1, <1>6, <1>7 DEF BookingInv

\* Every step keeps it.
LEMMA BookingNext == BookingInv /\ [Next]_vars => BookingInv'
BY StepKinds, TendedKeeps, TurnedKeeps, RewroteKeeps, InsertKeeps, WriteKeeps, FinishKeeps

\* The bookings of a customer, however many requests run at once and whatever fails.
LEMMA BookingAlways == Spec => []BookingInv
<1> QED BY BookingInit, BookingNext, PTL DEF Spec

\* The conversation and the settings of the business.
ChatTyped ==
  /\ conv \in Conversation /\ aiEnabled \in BOOLEAN /\ mode \in {"GUIDED_FLOW", "BOOKING_LINK"}
  /\ changes \in 0 .. MaxChanges

\* They keep their type.
LEMMA ChatAlways == Spec => []ChatTyped
<1>1. Init => ChatTyped
  BY ArrivalAssumption DEF Init, ChatTyped, Conversation, NewConversation
<1>2. ASSUME ChatTyped, [Next]_vars PROVE ChatTyped'
  <2>1. CASE UNCHANGED chat
    BY <1>2, <2>1 DEF chat, ChatTyped
  <2>2. CASE UNCHANGED <<aiEnabled, mode, changes>> /\ conv' \in Conversation
    BY <1>2, <2>2 DEF ChatTyped
  <2>3. CASE Change /\ conv' = conv /\ aiEnabled' \in BOOLEAN /\ mode' \in {"GUIDED_FLOW", "BOOKING_LINK"}
    BY <1>2, <2>3, ArrivalAssumption DEF Change, ChatTyped
  <2>4. CASE UNCHANGED vars
    BY <2>1, <2>4 DEF vars
  <2>5. ASSUME NEW h \in scene.requests, Message(h) \/ Progress(h) \/ (Fail(h) /\ UNCHANGED chat) PROVE UNCHANGED chat
    BY <2>5 DEF Message, Progress, WhileBooking, AskInWords, TapBook, TapReschedule, StartBooking
  <2>6. CASE TapTalkToHuman \/ PanelResumes \/ ResumeStale \/ HandoffAges
    <3>1. conv' \in Conversation
      BY <1>2, <2>6 DEF TapTalkToHuman, PanelResumes, ResumeStale, HandoffAges, HandedOff, Resumed,
                        AgedConversation, Conversation, ChatTyped
    <3> QED BY <2>2, <2>6, <3>1 DEF TapTalkToHuman, PanelResumes, ResumeStale, HandoffAges
  <2>7. CASE PanelSwitchesBot \/ PanelSwitchesMode \/ PanelSwitchesService \/ LosesWhatsApp
    BY <1>2, <2>3, <2>7 DEF PanelSwitchesBot, PanelSwitchesMode, PanelSwitchesService, LosesWhatsApp, ChatTyped
  <2>8. CASE TapCancelAppointment \/ ((\E a \in Appts : CloseAppointment(a)) /\ UNCHANGED chat)
             \/ (ExpireStale /\ UNCHANGED chat) \/ SessionsAge
    BY <2>1, <2>8 DEF TapCancelAppointment, SessionsAge
  <2> QED BY <1>2, <2>1, <2>4, <2>5, <2>6, <2>7, <2>8 DEF Next, Business, Jobs
<1> QED BY <1>1, <1>2, PTL DEF Spec

-----------------------------------------------------------------------------
(* What it gives, for any number of requests at once *)

\* The state keeps its type: a request only ever holds a session of the table, and a Flow is
\* only ever sent for one.
THEOREM StateIsTyped == Spec => []TypeOK
<1>1. BookingInv /\ ChatTyped => TypeOK
  <2> SUFFICES ASSUME BookingInv, ChatTyped PROVE TypeOK
    OBVIOUS
  <2>1. Typed
    BY DEF BookingInv
  <2>2. sessions \in Seq(Session)
    <3>1. Row \subseteq Session
      BY DEF Row
    <3>2. sessions \in Seq(Row)
      BY <2>1 DEF Typed
    <3> QED BY <3>1, <3>2
  <2>3. DOMAIN shown = Ids
    BY <2>1, RowsAre
  <2>4. \A h \in Handlers : hs[h].snap \in Session
    BY <2>1 DEF Typed, Memory, Row
  <2> QED BY <2>1, <2>2, <2>3, <2>4 DEF Typed, ChatTyped, TypeOK
<1> QED BY <1>1, BookingAlways, ChatAlways, PTL

\* In the chat, moving an appointment never leaves the customer with two, however many requests
\* confirm it at once and whichever of them fail between the appointment and the session.
THEOREM MovesInPlace == Spec => []ReschedulesInPlace
<1>1. BookingInv => ReschedulesInPlace
  BY DEF BookingInv, SessionInv, ReschedulesInPlace, MovesNotDuplicates
<1> QED BY <1>1, BookingAlways, PTL

\* What a chat session books is the slot of its last screen, of the day it asked for, with a
\* professional of its service and the one asked for if any, however the jobs, time and the panel
\* run between the queries of each message, while messages are answered one by one.
THEOREM WhatWasChosenIsBooked == Spec => []BooksWhatWasChosen
<1>1. BookingInv => BooksWhatWasChosen
  BY DEF BookingInv, SessionInv, Chose, Suits, BooksWhatWasChosen, Alone
<1> QED BY <1>1, BookingAlways, PTL

\* While no business has a Flow, whoever has a booking open and looks at its last screen has a
\* way out of it: however the sweep and the panel interleave with each message.
THEOREM ThereIsAWayOut ==
  ASSUME \A c \in Scenes : ~c.flow
  PROVE  Spec => []ExitOffered
<1>1. BookingInv => ExitOffered
  BY DEF BookingInv, Typed, SessionInv, Fitting, Fits, ExitOffered, Alone
<1> QED BY <1>1, BookingAlways, PTL

\* What opening a session does to the table.
LEMMA InsertDoes ==
  ASSUME BookingInv, NEW h \in Handlers, Insert(h)
  PROVE  /\ hs'[h] = Idle /\ UNCHANGED <<appts, scene>>
         /\ \E n \in Ids' : /\ Ids' = Ids \cup {n} /\ n \notin Ids /\ sessions'[n].appt = None
         /\ \A t \in Ids : \/ sessions'[t] = sessions[t]
                           \/ t = hs[h].s /\ ~Open(sessions'[t]) /\ sessions'[t].appt = hs[h].snap.appt
         /\ \A t \in Ids : t = hs[h].s => ~Open(sessions'[t])
<1> DEFINE rows == ClosedFirst(hs[h])
           row == FirstScreen(hs[h].app).row
<1>1. /\ hs[h].pc = "open" /\ Done(h) /\ sessions' = Append(rows, row) /\ UNCHANGED <<appts, scene>>
  BY DEF Insert
<1>2. /\ Typed /\ Ids = 1 .. Len(sessions) /\ Len(sessions) \in Nat /\ hs[h] \in Memory /\ active \in SUBSET Services
      /\ DOMAIN sessions = Ids /\ hs \in [Handlers -> Memory] /\ sessions \in Seq(Row)
  BY RowsAre DEF BookingInv, Typed, Ids
<1>3. row \in Row /\ row.appt = None
  BY <1>2, FirstScreenSuits DEF Memory
<1>4. rows \in Seq(Row) /\ Len(rows) = Len(sessions)
  BY <1>1, ClosedFirstIs
<1>5. ASSUME NEW t \in Ids
      PROVE  /\ rows[t] = sessions[t] \/ (t = hs[h].s /\ ~Open(rows[t]) /\ rows[t].appt = hs[h].snap.appt)
             /\ t = hs[h].s => ~Open(rows[t])
  <2>1. hs[h].snap \in Row /\ t # None
    BY <1>2, RowsAre DEF Memory
  <2>2. /\ ~Open(Close(hs[h].snap, "CANCELLED")) /\ Close(hs[h].snap, "CANCELLED").appt = hs[h].snap.appt
        /\ Close(hs[h].snap, "CANCELLED") \in Row
    BY <2>1, CloseFields
  <2>3. CASE t = hs[h].s
    <3>1. rows = [sessions EXCEPT ![t] = Close(hs[h].snap, "CANCELLED")]
      BY <2>1, <2>3 DEF ClosedFirst
    <3> QED BY <1>2, <2>2, <2>3, <3>1
  <2>4. CASE t # hs[h].s
    BY <1>1, <2>4, ClosedFirstIs
  <2> QED BY <2>3, <2>4
<1> HIDE DEF rows, row
<1>6. hs'[h] = Idle
  BY <1>1, <1>2 DEF Done, Goto
<1>7. /\ Len(sessions') = Len(sessions) + 1 /\ sessions'[Len(sessions) + 1] = row
      /\ \A t \in Ids : sessions'[t] = rows[t]
      /\ sessions' \in Seq(Row)
  BY <1>1, <1>2, <1>3, <1>4
<1>8. Ids' = 1 .. (Len(sessions) + 1)
  BY <1>7 DEF Ids
<1>9. Ids' = Ids \cup {Len(sessions) + 1} /\ Len(sessions) + 1 \notin Ids /\ Len(sessions) + 1 \in Ids'
  BY <1>2, <1>8
<1> QED BY <1>1, <1>3, <1>5, <1>6, <1>7, <1>9

\* What noting the appointment does to the table.
LEMMA FinishDoes ==
  ASSUME BookingInv, NEW h \in Handlers, Finish(h)
  PROVE  /\ hs[h].pc = "complete" /\ hs'[h] = Idle /\ UNCHANGED <<appts, scene>> /\ Ids' = Ids
         /\ hs[h].s \in Ids /\ sessions'[hs[h].s].st = "COMPLETED" /\ sessions'[hs[h].s].appt # None
         /\ \A t \in Ids \ {hs[h].s} : sessions'[t] = sessions[t]
<1>1. /\ hs[h].pc = "complete" /\ Done(h) /\ UNCHANGED <<appts, scene>> /\ Typed /\ hs[h] \in Memory
      /\ hs \in [Handlers -> Memory] /\ sessions \in Seq(Row) /\ DOMAIN sessions = Ids
      /\ Save(hs[h].s, Complete(hs[h].snap, hs[h].app))
  BY DEF Finish, BookingInv, Typed, Ids
<1>2. hs[h].s \in Ids /\ hs[h].snap \in Row /\ hs[h].app # None /\ hs'[h] = Idle
  BY <1>1 DEF Typed, Memory, Done, Goto
<1> DEFINE row == Complete(hs[h].snap, hs[h].app)
<1>3. row.st = "COMPLETED" /\ row.appt = hs[h].app
  BY <1>2 DEF Complete, Bumped, Row, Session
<1>4. sessions' = [sessions EXCEPT ![hs[h].s] = row]
  BY <1>1 DEF Save
<1> HIDE DEF row
<1> QED BY <1>1, <1>2, <1>3, <1>4 DEF Ids

\* What writing an appointment does.
LEMMA WriteDoes ==
  ASSUME BookingInv, NEW h \in Handlers, Write(h)
  PROVE  /\ hs[h].pc = "write" /\ hs'[h].pc = "complete" /\ hs'[h].s = hs[h].s /\ hs'[h].snap = hs[h].snap
         /\ hs[h].s \in Ids /\ UNCHANGED <<sessions, scene>>
         /\ \E a \in Appts : /\ appts'[a].by \in {hs[h].s, appts[a].by}
                             /\ \A b \in Appts \ {a} : appts'[b] = appts[b]
<1>1. /\ hs[h].pc = "write" /\ UNCHANGED <<sessions, scene>> /\ hs[h] \in Memory
      /\ hs \in [Handlers -> Memory] /\ hs[h].s \in Ids /\ appts \in [Appts -> Appointment]
  BY DEF Write, BookingInv, Typed
<1>0. scene.appts \in SUBSET Appts
  BY CustomerAssumption DEF Scene, BookingInv, Typed
<1>2. PICK a \in Appts :
        /\ appts' = [appts EXCEPT ![a] = [st |-> "open", staff |-> hs[h].staff, slot |-> hs[h].slot,
                                          by |-> IF hs[h].app = None THEN hs[h].s ELSE @.by]]
        /\ Goto(h, [hs[h] EXCEPT !.pc = "complete", !.app = a])
  BY ZenonT(30), <1>0 DEF Write
<1>3. hs'[h].pc = "complete" /\ hs'[h].s = hs[h].s /\ hs'[h].snap = hs[h].snap
  BY <1>1, <1>2 DEF Goto, Memory
<1>4. appts'[a].by \in {hs[h].s, appts[a].by} /\ \A b \in Appts \ {a} : appts'[b] = appts[b]
  BY <1>1, <1>2
<1> QED BY <1>1, <1>3, <1>4

\* What writing the row it read does to the table.
LEMMA RewroteDoes ==
  ASSUME BookingInv, NEW h \in Handlers, Rewrote(h)
  PROVE  /\ hs[h].pc \notin {"idle", "open", "complete"} /\ hs'[h] = Idle /\ UNCHANGED <<appts, scene>> /\ Ids' = Ids
         /\ hs[h].s \in Ids /\ sessions'[hs[h].s].st # "COMPLETED" /\ sessions'[hs[h].s].appt = hs[h].snap.appt
         /\ \A t \in Ids \ {hs[h].s} : sessions'[t] = sessions[t]
<1>1. PICK row \in Row : Stored(hs[h].s, row) /\ row.st # "COMPLETED" /\ row.appt = hs[h].snap.appt
  BY DEF Rewrote
<1>2. hs[h].pc \notin {"idle", "open", "complete"} /\ Done(h) /\ UNCHANGED <<appts, scene>>
  BY DEF Rewrote
<1>3. hs[h].s \in Ids /\ hs'[h] = Idle
  BY <1>2, HeldIs DEF Done, Goto, BookingInv, Typed
<1>4. Ids' = Ids
  BY <1>1 DEF Stored, BookingInv, Typed, Ids
<1> QED BY <1>1, <1>2, <1>3, <1>4 DEF Stored

\* In the chat a finished booking is undone by nothing that reads it afterwards, however many
\* requests run at once: what a late tap or text finds is a session that is not open, and the
\* sweep and the disconnection pass it over.  Only a request that read it before it was finished
\* can write its copy over it.
THEOREM FinishedStays == Spec => CompletedStays
<1>1. ASSUME BookingInv, Tended /\ Eased, NEW s \in Ids, sessions[s].st = "COMPLETED" PROVE sessions'[s] = sessions[s]
  BY <1>1 DEF Tended, Open, Terminal
<1>2. ASSUME BookingInv, NEW h \in Handlers, ~scene.flow, hs[h].pc # "idle",
             NEW s \in Ids, s = hs[h].s, sessions[s].st = "COMPLETED"
      PROVE  Overtaken(h)
  <2>1. s # None /\ Open(hs[h].snap) /\ ~Open(sessions[s])
    BY <1>2, RowsAre DEF BookingInv, HandlerInv, Open, Terminal
  <2> QED BY <1>2, <2>1 DEF Overtaken
<1>3. ASSUME BookingInv, NEW h \in Handlers, ~scene.flow, Turned(h) \/ Rewrote(h) \/ Insert(h) \/ Write(h) \/ Finish(h),
             NEW s \in Ids, sessions[s].st = "COMPLETED"
      PROVE  sessions'[s] = sessions[s] \/ (hs[h].s = s /\ Overtaken(h) /\ hs'[h] = Idle)
  <2>1. CASE Turned(h)
    BY <2>1 DEF Turned
  <2>2. CASE Write(h)
    BY <2>2 DEF Write
  <2>3. CASE Rewrote(h)
    BY <1>2, <1>3, <2>3, RewroteDoes
  <2>4. CASE Insert(h)
    <3>1. hs[h].pc # "idle"
      BY <2>4 DEF Insert
    <3> QED BY <1>2, <1>3, <2>4, <3>1, InsertDoes
  <2>5. CASE Finish(h)
    BY <1>2, <1>3, <2>5, FinishDoes
  <2> QED BY <1>3, <2>1, <2>2, <2>3, <2>4, <2>5
<1>4. BookingInv /\ [Next]_vars =>
        [~scene.flow => \A s \in Ids : sessions[s].st = "COMPLETED" =>
           \/ sessions'[s] = sessions[s]
           \/ \E h \in Handlers : hs[h].s = s /\ Overtaken(h) /\ hs'[h] = Idle]_vars
  BY <1>1, <1>3, StepKinds
<1> QED BY <1>4, BookingAlways, PTL DEF Spec, CompletedStays

-----------------------------------------------------------------------------
(* Messages answered one by one *)

\* In the chat there is one booking open, and it is the one a request holds.
OneInv ==
  Alone =>
    /\ \A s, t \in Ids : Open(sessions[s]) /\ Open(sessions[t]) => s = t
    /\ \A h \in Handlers : hs[h].pc # "idle" => \A t \in Ids : Open(sessions[t]) => t = hs[h].s

\* A session without its appointment has created none, unless the request that will note it
\* has just written it.
OnceInv ==
  OneAtATime =>
    /\ \A h \in Handlers :
         /\ hs[h].pc # "idle" /\ hs[h].s # None => hs[h].snap.appt = sessions[hs[h].s].appt
         /\ hs[h].pc \in {"write", "complete"} => sessions[hs[h].s].appt = None
    /\ \A s \in Ids :
         /\ \A a, b \in BookedBy(s) : a = b
         /\ sessions[s].appt = None /\ BookedBy(s) # {} => \E h \in Handlers : hs[h].pc = "complete" /\ hs[h].s = s

\* The other requests are at rest while one that may run is not.
LEMMA OthersRest ==
  ASSUME BookingInv, OneAtATime, NEW h \in Handlers, h \in scene.requests, NEW g \in Handlers \ {h}
  PROVE  hs[g].pc = "idle"
BY DEF BookingInv, Typed, OneAtATime

\* What changing its memory does to a request, and to the others nothing.
LEMMA TurnedDoes ==
  ASSUME BookingInv, NEW h \in Handlers, Turned(h)
  PROVE  /\ UNCHANGED <<sessions, appts, scene>> /\ Ids' = Ids
         /\ \A g \in Handlers \ {h} : hs'[g] = hs[g]
         /\ hs'[h].s \in Ids \cup {None}
         /\ \/ hs'[h].pc = "idle" /\ (hs[h].pc = "complete" => MayFail)
            \/ /\ hs[h].pc = "idle" /\ hs'[h].pc \in {"read", "mark", "form", "open"}
               /\ hs'[h].s # None => hs'[h].snap = sessions[hs'[h].s]
               /\ ~scene.flow => hs'[h].s = FindActive
            \/ /\ hs[h].pc \in {"read", "form"} /\ hs'[h].pc = "write"
               /\ hs'[h].s = hs[h].s /\ hs'[h].snap = hs[h].snap /\ hs[h].snap.appt = None /\ hs[h].s # None
<1>1. PICK m \in Memory :
        /\ Goto(h, m) /\ m.s \in Ids \cup {None} /\ (m.pc \notin {"idle", "open"} => m.s # None)
        /\ \/ m = Idle /\ (hs[h].pc = "complete" => MayFail)
           \/ /\ hs[h].pc = "idle" /\ h \in scene.requests /\ m.pc \in {"read", "mark", "form", "open"}
              /\ m.s # None => m.snap = sessions[m.s]
              /\ ~scene.flow => m.s = FindActive
           \/ /\ hs[h].pc \in {"read", "form"} /\ m.pc = "write"
              /\ m.s = hs[h].s /\ m.snap = hs[h].snap /\ m.snap.appt = None
  BY DEF Turned
<1>2. hs'[h] = m /\ \A g \in Handlers \ {h} : hs'[g] = hs[g]
  BY <1>1 DEF Goto, BookingInv, Typed
<1>3. UNCHANGED <<sessions, appts, scene>>
  BY DEF Turned
<1>4. Ids' = Ids
  BY <1>3 DEF Ids
<1> QED BY <1>1, <1>2, <1>3, <1>4, IdleIs

\* A request changes no other request, nor the scene.
LEMMA OnlyOne ==
  ASSUME BookingInv, NEW h \in Handlers, Turned(h) \/ Rewrote(h) \/ Insert(h) \/ Write(h) \/ Finish(h)
  PROVE  scene' = scene /\ \A g \in Handlers \ {h} : hs'[g] = hs[g]
<1>1. hs \in [Handlers -> Memory]
  BY DEF BookingInv, Typed
<1>2. scene' = scene /\ \E m : hs' = [hs EXCEPT ![h] = m]
  BY Zenon DEF Turned, Rewrote, Insert, Write, Finish, Done, Goto
<1> QED BY <1>1, <1>2

\* The one open booking, step by step.
LEMMA OneNext == ASSUME BookingInv, OneInv, [Next]_vars PROVE OneInv'
<1>1. /\ Typed
      /\ FindActive # None => FindActive \in Ids /\ Open(sessions[FindActive])
      /\ FindActive = None => \A s \in Ids : ~Open(sessions[s])
      /\ \A s \in Ids : s # None
  BY RowsAre DEF BookingInv
<1>2. CASE Tended /\ Eased
  <2>1. /\ Ids' = Ids /\ scene' = scene
        /\ \A h \in Handlers : (hs'[h].pc # "idle" => hs[h].pc # "idle" /\ hs'[h].s = hs[h].s)
    BY <1>1, <1>2 DEF Tended, Typed, Ids, SameCopy
  <2>2. \A s \in Ids : Open(sessions'[s]) => Open(sessions[s])
    BY <1>2 DEF Tended
  <2> QED BY <2>1, <2>2 DEF OneInv, Alone, OneAtATime
<1>3. ASSUME Alone, NEW h \in Handlers, h \in scene.requests,
             Turned(h) \/ Rewrote(h) \/ Insert(h) \/ Write(h) \/ Finish(h)
      PROVE  /\ \A s, t \in Ids' : Open(sessions'[s]) /\ Open(sessions'[t]) => s = t
             /\ \A g \in Handlers : hs'[g].pc # "idle" => \A t \in Ids' : Open(sessions'[t]) => t = hs'[g].s
  <2>1. /\ \A g \in Handlers \ {h} : hs[g].pc = "idle" /\ hs'[g] = hs[g]
        /\ \A s, t \in Ids : Open(sessions[s]) /\ Open(sessions[t]) => s = t
        /\ hs[h].pc # "idle" => \A t \in Ids : Open(sessions[t]) => t = hs[h].s
        /\ ~scene.flow
    <3>1. \A g \in Handlers \ {h} : hs[g].pc = "idle"
      BY <1>3, OthersRest DEF Alone
    <3>2. \A g \in Handlers \ {h} : hs'[g] = hs[g]
      BY <1>3, OnlyOne
    <3> QED BY <1>3, <3>1, <3>2 DEF OneInv, Alone
  <2>2. CASE Turned(h)
    <3>1. UNCHANGED sessions /\ Ids' = Ids
      BY <2>2, TurnedDoes
    <3>2. hs'[h].pc # "idle" => \A t \in Ids : Open(sessions[t]) => t = hs'[h].s
      <4>1. CASE hs[h].pc = "idle" /\ hs'[h].s = FindActive
        <5>1. ASSUME NEW t \in Ids, Open(sessions[t]) PROVE t = FindActive
          <6>1. FindActive # None
            BY <1>1, <5>1
          <6> QED BY <1>1, <2>1, <5>1, <6>1
        <5> QED BY <4>1, <5>1
      <4>2. CASE hs[h].pc # "idle" /\ hs'[h].s = hs[h].s
        BY <2>1, <4>2
      <4> QED BY <2>1, <2>2, <4>1, <4>2, TurnedDoes
    <3> QED BY <2>1, <3>1, <3>2
  <2>3. CASE Rewrote(h)
    <3>1. /\ hs[h].pc # "idle" /\ hs'[h] = Idle /\ Ids' = Ids
          /\ \A t \in Ids \ {hs[h].s} : sessions'[t] = sessions[t]
      BY <2>3, RewroteDoes
    <3> QED BY <2>1, <3>1, IdleIs
  <2>4. CASE Insert(h)
    <3>1. /\ hs[h].pc # "idle" /\ hs'[h] = Idle
          /\ \A t \in Ids : sessions'[t] = sessions[t] \/ (t = hs[h].s /\ ~Open(sessions'[t]))
          /\ \A t \in Ids : t = hs[h].s => ~Open(sessions'[t])
      BY <2>4, InsertDoes DEF Insert
    <3>2. PICK n \in Ids' : Ids' = Ids \cup {n} /\ n \notin Ids
      BY <2>4, InsertDoes
    <3>3. \A t \in Ids : ~Open(sessions'[t])
      BY <2>1, <3>1
    <3> QED BY <2>1, <3>1, <3>2, <3>3, IdleIs
  <2>5. CASE Write(h)
    <3>1. hs[h].pc = "write" /\ hs'[h].s = hs[h].s /\ UNCHANGED sessions
      BY <2>5, WriteDoes
    <3>2. Ids' = Ids
      BY <3>1 DEF Ids
    <3> QED BY <2>1, <3>1, <3>2
  <2>6. CASE Finish(h)
    <3>1. /\ hs[h].pc # "idle" /\ hs'[h] = Idle /\ Ids' = Ids
          /\ \A t \in Ids \ {hs[h].s} : sessions'[t] = sessions[t]
      BY <2>6, FinishDoes
    <3> QED BY <2>1, <3>1, IdleIs
  <2> QED BY <1>3, <2>2, <2>3, <2>4, <2>5, <2>6
<1>4. scene' = scene
  BY StepKinds, OnlyOne DEF Tended
<1> QED BY <1>2, <1>3, <1>4, StepKinds DEF OneInv, Alone, OneAtATime

\* The appointment of a session, step by step, while no request is cut short.
LEMMA OnceNext ==
  ASSUME ~MayFail, BookingInv, OnceInv, [Next]_vars
  PROVE  OnceInv'
<1>1. /\ Typed /\ \A s \in Ids : s # None
      /\ \A a \in Appts : appts[a].by \in Ids \cup {None}
      /\ \A h \in Handlers : /\ hs[h].s \in Ids \cup {None}
                             /\ hs[h].pc \notin {"idle", "open"} => hs[h].s # None
  BY RowsAre DEF BookingInv, Typed
<1>2. CASE Tended /\ Eased
  <2>1. /\ Ids' = Ids /\ scene' = scene /\ \A s \in Ids : sessions'[s].appt = sessions[s].appt
        /\ \A a \in Appts : appts'[a].by = appts[a].by
    BY <1>1, <1>2 DEF Tended, Eased, Typed, Ids
  <2>2. \A s \in Ids : BookedBy(s)' = BookedBy(s)
    BY <2>1 DEF BookedBy
  <2>3. \A h \in Handlers : hs'[h].pc = hs[h].pc /\ hs'[h].s = hs[h].s /\ hs'[h].snap.appt = hs[h].snap.appt
    BY <1>2 DEF Tended, SameCopy
  <2> QED BY <1>1, <2>1, <2>2, <2>3 DEF OnceInv, OneAtATime
<1>3. ASSUME OneAtATime, NEW h \in Handlers, h \in scene.requests,
             Turned(h) \/ Rewrote(h) \/ Insert(h) \/ Write(h) \/ Finish(h)
      PROVE  OnceInv'
  <2>1. \A g \in Handlers \ {h} : hs[g].pc = "idle" /\ hs'[g] = hs[g]
    <3>1. \A g \in Handlers \ {h} : hs[g].pc = "idle"
      BY <1>3, OthersRest
    <3>2. \A g \in Handlers \ {h} : hs'[g] = hs[g]
      BY <1>3, OnlyOne
    <3> QED BY <3>1, <3>2
  <2>2. /\ hs[h].pc # "idle" /\ hs[h].s # None => hs[h].snap.appt = sessions[hs[h].s].appt
        /\ hs[h].pc \in {"write", "complete"} => sessions[hs[h].s].appt = None
        /\ \A s \in Ids : \A a, b \in BookedBy(s) : a = b
        /\ hs[h].pc # "complete" => \A s \in Ids : sessions[s].appt = None => BookedBy(s) = {}
        /\ \A s \in Ids : s # hs[h].s /\ sessions[s].appt = None => BookedBy(s) = {}
    BY <1>3, <2>1 DEF OnceInv
  <2>3. CASE Turned(h)
    <3>1. UNCHANGED <<sessions, appts>> /\ Ids' = Ids
      BY <2>3, TurnedDoes
    <3>2. \A s \in Ids : BookedBy(s)' = BookedBy(s)
      BY <3>1 DEF BookedBy
    <3>3. hs[h].pc # "complete"
      BY <2>3, TurnedDoes DEF Turned
    <3>4. /\ hs'[h].pc # "idle" /\ hs'[h].s # None => hs'[h].snap.appt = sessions[hs'[h].s].appt
          /\ hs'[h].pc \in {"write", "complete"} => sessions[hs'[h].s].appt = None
      BY <2>2, <2>3, TurnedDoes
    <3> QED BY <2>1, <2>2, <3>1, <3>2, <3>3, <3>4 DEF OnceInv
  <2>4. CASE Rewrote(h) \/ Insert(h) \/ Finish(h)
    <3>1. hs'[h] = Idle /\ UNCHANGED appts
      BY <2>4, RewroteDoes, InsertDoes, FinishDoes
    <3>2. \A g \in Handlers : hs'[g].pc = "idle"
      BY <2>1, <3>1, IdleIs
    <3>3. \A s : BookedBy(s)' = BookedBy(s)
      BY <3>1 DEF BookedBy
    <3>4. CASE Rewrote(h)
      <4>1. /\ hs[h].pc \notin {"idle", "complete"} /\ Ids' = Ids /\ hs[h].s \in Ids
            /\ sessions'[hs[h].s].appt = hs[h].snap.appt
            /\ \A t \in Ids \ {hs[h].s} : sessions'[t] = sessions[t]
        BY <3>4, RewroteDoes
      <4>2. \A t \in Ids : sessions'[t].appt = sessions[t].appt
        BY <1>1, <2>2, <4>1
      <4> QED BY <2>2, <3>2, <3>3, <4>1, <4>2 DEF OnceInv
    <3>5. CASE Insert(h)
      <4>1. /\ hs[h].pc = "open"
            /\ \A t \in Ids : sessions'[t] = sessions[t] \/ (t = hs[h].s /\ sessions'[t].appt = hs[h].snap.appt)
        BY <3>5, InsertDoes DEF Insert
      <4>2. PICK n \in Ids' : Ids' = Ids \cup {n} /\ n \notin Ids
        BY <3>5, InsertDoes
      <4>3. \A t \in Ids : sessions'[t].appt = sessions[t].appt
        BY <1>1, <2>2, <4>1
      <4>4. BookedBy(n) = {}
        <5>1. n # None
          BY BookingNext, RowsAre, <4>2 DEF BookingInv, Typed, Ids, None
        <5> QED BY <1>1, <4>2, <5>1 DEF BookedBy
      <4> QED BY <2>2, <3>2, <3>3, <4>1, <4>2, <4>3, <4>4 DEF OnceInv
    <3>6. CASE Finish(h)
      <4>1. /\ Ids' = Ids /\ hs[h].s \in Ids /\ sessions'[hs[h].s].appt # None
            /\ \A t \in Ids \ {hs[h].s} : sessions'[t] = sessions[t]
        BY <3>6, FinishDoes
      <4> QED BY <2>2, <3>2, <3>3, <4>1 DEF OnceInv
    <3> QED BY <2>4, <3>4, <3>5, <3>6
  <2>5. CASE Write(h)
    <3>1. /\ hs[h].pc = "write" /\ hs'[h].pc = "complete" /\ hs'[h].s = hs[h].s /\ hs'[h].snap = hs[h].snap
          /\ hs[h].s \in Ids /\ UNCHANGED sessions
      BY <2>5, WriteDoes
    <3>2. PICK a \in Appts : /\ appts'[a].by \in {hs[h].s, appts[a].by}
                             /\ \A b \in Appts \ {a} : appts'[b] = appts[b]
      BY <2>5, WriteDoes
    <3>3. Ids' = Ids
      BY <3>1 DEF Ids
    <3>4. BookedBy(hs[h].s) = {}
      BY <2>2, <3>1
    <3>5. ASSUME NEW s \in Ids, s # hs[h].s PROVE BookedBy(s)' \subseteq BookedBy(s)
      BY <3>2, <3>5 DEF BookedBy
    <3>6. ASSUME NEW s \in Ids, s = hs[h].s PROVE BookedBy(s)' \subseteq {a}
      BY <3>2, <3>4, <3>6 DEF BookedBy
    <3>7. \A s \in Ids : \A b, c \in BookedBy(s)' : b = c
      BY <2>2, <3>5, <3>6
    <3>8. \A s \in Ids : sessions[s].appt = None /\ BookedBy(s)' # {} => s = hs[h].s
      BY <2>2, <3>5
    <3>9. \A g \in Handlers : hs'[g].pc # "idle" => g = h
      BY <2>1
    <3> QED BY <1>1, <2>2, <3>1, <3>3, <3>7, <3>8, <3>9 DEF OnceInv
  <2> QED BY <1>3, <2>3, <2>4, <2>5
<1>4. scene' = scene
  BY StepKinds, OnlyOne DEF Tended
<1>5. ~OneAtATime => OnceInv'
  BY <1>4 DEF OnceInv, OneAtATime
<1> QED BY <1>2, <1>3, <1>5, StepKinds

\* In the chat a customer whose messages are answered one by one has one booking open at most,
\* whatever the sweep, the panel and the failures do between the queries of each message.
THEOREM OneBookingOpen == Spec => []OneOpenInChat
<1>1. Init => OneInv
  BY IdleIs DEF Init, OneInv, Ids
<1>2. BookingInv /\ OneInv /\ [Next]_vars => OneInv'
  BY OneNext
<1>3. BookingInv /\ OneInv => OneOpenInChat
  <2> SUFFICES ASSUME BookingInv, OneInv, Alone PROVE Cardinality({s \in Ids : Open(sessions[s])}) <= 1
    BY DEF OneOpenInChat, Alone
  <2> DEFINE open == {s \in Ids : Open(sessions[s])}
  <2>1. CASE open = {}
    BY <2>1, FS_EmptySet
  <2>2. CASE open # {}
    <3>1. PICK s \in open : TRUE
      BY <2>2
    <3>2. open = {s}
      BY <3>1 DEF OneInv
    <3> QED BY <3>2, FS_Singleton
  <2> QED BY <2>1, <2>2
<1> QED BY <1>1, <1>2, <1>3, BookingAlways, PTL DEF Spec

\* However often a session is confirmed, in the chat and in the Flow, it creates one appointment,
\* as long as each confirmation is answered before the next and none is cut short between
\* writing it and noting it.
THEOREM BookedOnce ==
  ASSUME ~MayFail
  PROVE  Spec => []BooksOnce
<1>1. Init => OnceInv
  BY IdleIs DEF Init, OnceInv, Ids
<1>2. BookingInv /\ OnceInv /\ [Next]_vars => OnceInv'
  BY OnceNext
<1>3. OnceInv => BooksOnce
  <2> SUFFICES ASSUME OnceInv, OneAtATime, NEW s \in Ids PROVE Cardinality(BookedBy(s)) <= 1
    BY DEF BooksOnce
  <2>1. CASE BookedBy(s) = {}
    BY <2>1, FS_EmptySet
  <2>2. CASE BookedBy(s) # {}
    <3>1. PICK a \in BookedBy(s) : TRUE
      BY <2>2
    <3>2. BookedBy(s) = {a}
      BY <3>1 DEF OnceInv
    <3>3. Cardinality({a}) = 1
      BY FS_Singleton
    <3> QED BY <3>2, <3>3
  <2> QED BY <2>1, <2>2
<1> QED BY <1>1, <1>2, <1>3, BookingAlways, PTL DEF Spec
====

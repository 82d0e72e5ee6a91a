---- MODULE OfficeProofs ----
(***************************************************************************)
(* Theorems about the parts of the office.  A behaviour of the office is   *)
(* one of the part that is on: what is proved of the alerts, of the cards, *)
(* of the day and of the reports in their own modules holds of it, and     *)
(* the others are proved here.                                             *)
(***************************************************************************)
EXTENDS Office, FiniteSetTheorems, SequenceTheorems, TLAPS

-----------------------------------------------------------------------------
(* The office is the part that is on *)

\* The office begins as the part that is on begins.
LEMMA PartInit ==
  ASSUME Init
  PROVE  /\ part = "alerts" => Alerts!Init
         /\ part = "team" => Team!Init
         /\ part = "times" => Times!Init
         /\ part = "cards" => Cards!Init
         /\ part = "owners" => Owners!Init
         /\ part = "link" => Link!Init
         /\ part = "money" => Money!Init
         /\ part = "desk" => Desk!Init
         /\ part = "screens" => Screens!Init
         /\ part = "images" => Images!Init
BY Zenon DEF Init

\* A step of the office is one of the part that is on, or leaves it as it was.
LEMMA PartNext ==
  ASSUME [Next]_vars
  PROVE  /\ part' = part
         /\ part = "alerts" => [Alerts!Next]_(Alerts!vars)
         /\ part = "team" => [Team!Next]_(Team!vars)
         /\ part = "times" => [Times!Next]_(Times!vars)
         /\ part = "cards" => [Cards!Next]_(Cards!vars)
         /\ part = "owners" => [Owners!Next]_(Owners!vars)
         /\ part = "link" => [Link!Next]_(Link!vars)
         /\ part = "money" => [Money!Next]_(Money!vars)
         /\ part = "desk" => [Desk!Next]_(Desk!vars)
         /\ part = "screens" => [Screens!Next]_(Screens!vars)
         /\ part = "images" => [Images!Next]_(Images!vars)
<1>1. CASE UNCHANGED vars
  BY <1>1 DEF vars, alertsVars, teamVars, timesVars, cardsVars, ownersVars, linkVars, moneyVars, deskVars, screensVars, imagesVars,
              Alerts!vars, Team!vars, Times!vars, Cards!vars, Owners!vars, Link!vars, Money!vars, Desk!vars, Screens!vars, Images!vars
<1>2. CASE OnlyAlerts /\ Alerts!Next
  BY <1>2 DEF OnlyAlerts
<1>3. CASE OnlyTeam /\ Team!Next
  BY <1>3 DEF OnlyTeam
<1>4. CASE OnlyTimes /\ Times!Next
  BY <1>4 DEF OnlyTimes
<1>5. CASE OnlyCards /\ Cards!Next
  BY <1>5 DEF OnlyCards
<1>6. CASE OnlyOwners /\ Owners!Next
  BY <1>6 DEF OnlyOwners
<1>7. CASE OnlyLink /\ Link!Next
  BY <1>7 DEF OnlyLink
<1>8. CASE OnlyMoney /\ Money!Next
  BY <1>8 DEF OnlyMoney
<1>9. CASE OnlyDesk /\ Desk!Next
  BY <1>9 DEF OnlyDesk
<1>10. CASE OnlyScreens /\ Screens!Next
  BY <1>10 DEF OnlyScreens
<1>11. CASE OnlyImages /\ Images!Next
  BY <1>11 DEF OnlyImages
<1> QED BY <1>1, <1>2, <1>3, <1>4, <1>5, <1>6, <1>7, <1>8, <1>9, <1>10, <1>11 DEF Next

-----------------------------------------------------------------------------
(* What is proved of the parts with their modules *)

\* However many flushes run over the rows, with sends nobody knows the outcome of and crashes in
\* the middle, no professional is told a fact twice.
THEOREM NobodyToldTwice == Spec => []ToldOnce
<1> DEFINE I == part = "alerts" => Alerts!AlertsInv
<1>1. Init => I
  BY PartInit, PartsAssumption, Alerts!AlertsInit
<1>2. I /\ [Next]_vars => I'
  BY PartNext, PartsAssumption, Alerts!AlertsSteps
<1>3. I => ToldOnce
  BY Alerts!TellsOnce DEF ToldOnce
<1> QED BY <1>1, <1>2, <1>3, PTL DEF Spec

\* Unless a change went untold, whoever has a segment of an open appointment was told of it with
\* its time, and whoever lost one was told so, whatever flushes, crashes and is deleted meanwhile.
THEOREM EveryChangeIsAnnounced == Spec => []AgendaIsAnnounced
<1> DEFINE I == part = "alerts" => Alerts!AlertsInv /\ Alerts!AnnouncedInv
<1>1. Init => I
  BY PartInit, PartsAssumption, Alerts!AlertsInit, Alerts!AnnouncedInit
<1>2. I /\ [Next]_vars => I'
  BY PartNext, PartsAssumption, Alerts!AlertsSteps, Alerts!AnnouncedSteps
<1>3. I => AgendaIsAnnounced
  BY Alerts!AnnouncedTells DEF AgendaIsAnnounced
<1> QED BY <1>1, <1>2, <1>3, PTL DEF Spec

-----------------------------------------------------------------------------
(* The team: whoever had work stays, and with one request at a time whoever is let in
   is who was invited *)

Who == Accounts \cup {Nothing}
Tenant == [on : BOOLEAN, email : Who, google : Who]
JoinRequest == [biz : TeamBusinesses, acc : Accounts, st : {"pending", "approved", "rejected"}]
Fields == {"pc", "card", "snap", "req", "answer"}
Stages == {"idle", "grant", "save", "mark", "link"}

\* What a request holds: the copy of a card is never of one that was deleted.
Carries(m, known, asked) ==
  /\ DOMAIN m = Fields /\ m.pc \in Stages
  /\ m.snap \in Team!Card /\ m.snap.st # "gone"
  /\ m.pc \in {"grant", "save", "link"} => m.card \in known
  /\ m.pc \in {"grant", "mark"} \/ (m.pc = "save" /\ m.req # 0) => m.req \in asked
  /\ m.answer \in {"pending", "approved", "rejected"}

TablesTyped == tenants \in [TeamBusinesses -> Tenant] /\ requests \in Seq(JoinRequest) /\ signup \subseteq Accounts
CardsTyped == cards \in Seq(Team!Card)
HandsTyped ==
  hs = [h \in OneHandler |-> hs[h]] /\ \A h \in OneHandler : Carries(hs[h], DOMAIN cards, DOMAIN requests)
  
TeamInv == TablesTyped /\ CardsTyped /\ HandsTyped /\ Team!HistorySurvives

-----------------------------------------------------------------------------
(* Requests *)

\* A request that ends carries nothing.
LEMMA IdleCarries ==
  ASSUME Team!TeamAssumption, NEW known, NEW asked
  PROVE  Carries(Team!Idle, known, asked)
<1>1. (CHOOSE b \in TeamBusinesses : TRUE) \in TeamBusinesses
  BY DEF Team!TeamAssumption
<1>2. Team!NewCard(CHOOSE b \in TeamBusinesses : TRUE) \in Team!Card /\ Team!NewCard(CHOOSE b \in TeamBusinesses : TRUE).st # "gone"
  BY <1>1 DEF Team!NewCard, Team!Card
<1> QED BY <1>2 DEF Team!Idle, Carries, Fields, Stages

\* A request that is replaced by one that carries what it needs leaves the others as they were.
LEMMA RequestMoves ==
  ASSUME HandsTyped, DOMAIN cards \subseteq DOMAIN cards', DOMAIN requests \subseteq DOMAIN requests',
         NEW h \in OneHandler, NEW m, Team!Goto(h, m), Carries(m, DOMAIN cards', DOMAIN requests')
  PROVE  HandsTyped'
BY DEF HandsTyped, Carries, Team!Goto

\* Tables that grow leave the requests in order.
LEMMA RequestsStand ==
  ASSUME HandsTyped, DOMAIN cards \subseteq DOMAIN cards', DOMAIN requests \subseteq DOMAIN requests', hs' = hs
  PROVE  HandsTyped'
BY DEF HandsTyped, Carries

\* Only the request moves.
LEMMA OnlyRequestKeeps ==
  ASSUME TeamInv, NEW h \in OneHandler, NEW m, Team!Goto(h, m), Carries(m, DOMAIN cards, DOMAIN requests),
         UNCHANGED <<tenants, cards, requests, signup>>
  PROVE  TeamInv'
<1>1. HandsTyped'
  BY RequestMoves DEF TeamInv
<1> QED BY <1>1 DEF TeamInv, TablesTyped, CardsTyped, Team!HistorySurvives

\* One card changes, without being deleted if it has work.
LEMMA CardChanges ==
  ASSUME CardsTyped, Team!HistorySurvives, NEW c \in DOMAIN cards, NEW r \in Team!Card, r.work # "none" => r.st # "gone",
         cards' = [cards EXCEPT ![c] = r]
  PROVE  CardsTyped' /\ Team!HistorySurvives' /\ DOMAIN cards' = DOMAIN cards
<1>1. /\ cards' \in Seq(Team!Card) /\ DOMAIN cards' = DOMAIN cards
      /\ \A d \in DOMAIN cards : cards'[d] = IF d = c THEN r ELSE cards[d]
  BY DEF CardsTyped
<1> QED BY <1>1 DEF CardsTyped, Team!HistorySurvives

\* A new card has no work yet.
LEMMA CardAppended ==
  ASSUME CardsTyped, Team!HistorySurvives, NEW b \in TeamBusinesses, cards' = Append(cards, Team!NewCard(b))
  PROVE  CardsTyped' /\ Team!HistorySurvives' /\ DOMAIN cards' = 1 .. Len(cards) + 1 /\ DOMAIN cards \subseteq DOMAIN cards'
<1>1. Team!NewCard(b) \in Team!Card /\ Team!NewCard(b).work = "none"
  BY DEF Team!NewCard, Team!Card
<1>2. /\ cards' \in Seq(Team!Card) /\ DOMAIN cards' = 1 .. Len(cards) + 1 /\ DOMAIN cards \subseteq DOMAIN cards'
      /\ \A d \in DOMAIN cards' : cards'[d] = Team!NewCard(b) \/ (d \in DOMAIN cards /\ cards'[d] = cards[d])
  BY <1>1 DEF CardsTyped
<1> QED BY <1>1, <1>2 DEF CardsTyped, Team!HistorySurvives

\* The panel and the entrance take copies of cards that can be found.
LEMMA CopiesAreTyped ==
  ASSUME CardsTyped, NEW c \in DOMAIN cards, Team!Found(c)
  PROVE  /\ cards[c] \in Team!Card /\ cards[c].st # "gone"
         /\ \A e \in Accounts : Team!Granted(cards[c], e) \in Team!Card /\ Team!Granted(cards[c], e).st # "gone"
         /\ \A st \in {"active", "inactive"} : [cards[c] EXCEPT !.st = st] \in Team!Card
                                               /\ [cards[c] EXCEPT !.st = st].st # "gone"
         /\ \A a \in Accounts : [cards[c] EXCEPT !.google = a] \in Team!Card /\ [cards[c] EXCEPT !.google = a].st # "gone"
         /\ [cards[c] EXCEPT !.email = Nothing, !.google = Nothing] \in Team!Card
         /\ [cards[c] EXCEPT !.email = Nothing, !.google = Nothing].st # "gone"
<1>1. cards[c] \in Team!Card /\ cards[c].st # "gone"
  BY DEF CardsTyped, Team!Found
<1>2. ASSUME NEW e \in Accounts
      PROVE  Team!Granted(cards[c], e) \in Team!Card /\ Team!Granted(cards[c], e).st # "gone"
  BY <1>1 DEF Team!Granted, Team!Card
<1>3. ASSUME NEW st \in {"active", "inactive"}
      PROVE  [cards[c] EXCEPT !.st = st] \in Team!Card /\ [cards[c] EXCEPT !.st = st].st # "gone"
  BY <1>1 DEF Team!Card
<1>4. ASSUME NEW a \in Accounts
      PROVE  [cards[c] EXCEPT !.google = a] \in Team!Card /\ [cards[c] EXCEPT !.google = a].st # "gone"
  BY <1>1 DEF Team!Card
<1>5. /\ [cards[c] EXCEPT !.email = Nothing, !.google = Nothing] \in Team!Card
      /\ [cards[c] EXCEPT !.email = Nothing, !.google = Nothing].st # "gone"
  BY <1>1 DEF Team!Card
<1> QED BY <1>1, <1>2, <1>3, <1>4, <1>5

-----------------------------------------------------------------------------
(* The steps *)

\* A copy is taken to be saved.
LEMMA PanelKeeps ==
  ASSUME Team!TeamAssumption, TeamInv, NEW h \in OneHandler, Team!Panel(h)
  PROVE  TeamInv'
<1>1. ASSUME NEW c \in DOMAIN cards, NEW snap \in Team!Card, snap.st # "gone",
             Team!Goto(h, [Team!Idle EXCEPT !.pc = "save", !.card = c, !.snap = snap]),
             UNCHANGED <<tenants, cards, requests, signup>>
      PROVE  TeamInv'
  <2> DEFINE m == [Team!Idle EXCEPT !.pc = "save", !.card = c, !.snap = snap]
  <2>1. Carries(m, DOMAIN cards, DOMAIN requests)
    BY <1>1 DEF Team!Idle, Carries, Fields, Stages
  <2> HIDE DEF m
  <2> QED BY <1>1, <2>1, OnlyRequestKeeps DEF m
<1>2. ASSUME NEW c \in DOMAIN cards, Team!Revoke(h, c)
      PROVE  TeamInv'
  BY <1>1, <1>2, CopiesAreTyped DEF Team!Revoke, TeamInv
<1>3. ASSUME NEW c \in DOMAIN cards, Team!Update(h, c)
      PROVE  TeamInv'
  <2>1. PICK st \in {"active", "inactive"} : Team!Goto(h, [Team!Idle EXCEPT !.pc = "save", !.card = c, !.snap = [cards[c] EXCEPT !.st = st]])
    BY <1>3 DEF Team!Update
  <2> QED BY <1>1, <1>3, <2>1, CopiesAreTyped DEF Team!Update, TeamInv
<1>4. ASSUME NEW c \in DOMAIN cards, NEW e \in Accounts, Team!Grant(h, c, e)
      PROVE  TeamInv'
  BY <1>1, <1>4, CopiesAreTyped DEF Team!Grant, Team!Grantable, TeamInv
<1>5. ASSUME NEW r \in DOMAIN requests, Team!Approve(h, r)
      PROVE  TeamInv'
  <2> DEFINE m == [Team!Idle EXCEPT !.pc = "grant", !.card = Len(cards) + 1, !.req = r]
  <2>1. requests[r].biz \in TeamBusinesses /\ Len(cards) \in Nat
    <3>1. requests \in Seq(JoinRequest) /\ cards \in Seq(Team!Card)
      BY DEF TeamInv, TablesTyped, CardsTyped
    <3>2. requests[r] \in JoinRequest
      BY <3>1
    <3> QED BY <3>1, <3>2 DEF JoinRequest
  <2>2. CardsTyped' /\ Team!HistorySurvives' /\ DOMAIN cards' = 1 .. Len(cards) + 1 /\ DOMAIN cards \subseteq DOMAIN cards'
    BY <1>5, <2>1, CardAppended DEF Team!Approve, TeamInv
  <2>3. Len(cards) + 1 \in DOMAIN cards'
    BY <2>1, <2>2
  <2>4. Team!Goto(h, m) /\ UNCHANGED <<tenants, requests, signup>>
    BY <1>5 DEF Team!Approve
  <2>5. Carries(m, DOMAIN cards', DOMAIN requests')
    BY <2>3, <2>4, IdleCarries DEF Team!Idle, Carries, Fields, Stages
  <2> HIDE DEF m
  <2>6. HandsTyped'
    BY <2>2, <2>4, <2>5, RequestMoves DEF TeamInv
  <2> QED BY <2>2, <2>4, <2>6 DEF TeamInv, TablesTyped
<1>6. ASSUME NEW r \in DOMAIN requests, Team!Reject(h, r)
      PROVE  TeamInv'
  <2> DEFINE m == [Team!Idle EXCEPT !.pc = "mark", !.req = r, !.answer = "rejected"]
  <2>1. Carries(m, DOMAIN cards, DOMAIN requests)
    BY IdleCarries DEF Team!Idle, Carries, Fields, Stages
  <2>2. Team!Goto(h, m) /\ UNCHANGED <<tenants, cards, requests, signup>>
    BY <1>6 DEF Team!Reject
  <2> HIDE DEF m
  <2> QED BY <2>1, <2>2, OnlyRequestKeeps
<1> QED BY <1>2, <1>3, <1>4, <1>5, <1>6 DEF Team!Panel

\* A copy is saved over the row, whatever that is by now, except for its work.
LEMMA SaveKeeps ==
  ASSUME Team!TeamAssumption, TeamInv, NEW h \in OneHandler, Team!SaveCard(h)
  PROVE  TeamInv'
<1> DEFINE m == hs[h]
           c == m.card
           r == [m.snap EXCEPT !.work = cards[c].work]
           marking == [m EXCEPT !.pc = "mark", !.answer = "approved"]
<1>1. DOMAIN m = Fields /\ m.snap \in Team!Card /\ m.snap.st # "gone" /\ c \in DOMAIN cards
  BY DEF Team!SaveCard, TeamInv, HandsTyped, Carries
<1>2. m.req # 0 => m.req \in DOMAIN requests
  BY DEF Team!SaveCard, TeamInv, HandsTyped, Carries
<1>3. UNCHANGED <<tenants, requests, signup>>
  BY DEF Team!SaveCard
<1>4. m.req # 0 => Carries(marking, DOMAIN cards, DOMAIN requests)
  BY <1>1, <1>2 DEF Carries, Fields, Stages
<1> HIDE DEF marking
<1>5. CASE cards' = cards /\ Team!Goto(h, Team!Idle)
  BY <1>3, <1>5, IdleCarries, OnlyRequestKeeps
<1>6. CASE cards' = [cards EXCEPT ![c] = r] /\ (Team!Goto(h, Team!Idle) \/ (m.req # 0 /\ Team!Goto(h, marking)))
  <2>1. cards[c] \in Team!Card
    BY <1>1 DEF TeamInv, CardsTyped
  <2>2. r \in Team!Card /\ r.st # "gone"
    BY <1>1, <2>1 DEF Team!Card
  <2> HIDE DEF r
  <2>3. CardsTyped' /\ Team!HistorySurvives' /\ DOMAIN cards' = DOMAIN cards
    BY <1>1, <1>6, <2>2, CardChanges DEF TeamInv
  <2>4. HandsTyped'
    BY <1>3, <1>4, <1>6, <2>3, IdleCarries, RequestMoves DEF TeamInv
  <2> QED BY <1>3, <2>3, <2>4 DEF TeamInv, TablesTyped
<1> QED BY <1>5, <1>6 DEF Team!SaveCard, Team!Done, marking

\* An approval goes on to the card it created, or ends half way.
LEMMA GrantKeeps ==
  ASSUME Team!TeamAssumption, TeamInv, NEW h \in OneHandler, Team!ApproveGrant(h)
  PROVE  TeamInv'
<1> DEFINE m == hs[h]
           e == requests[m.req].acc
           snap == Team!Granted(cards[m.card], e)
           saving == [m EXCEPT !.pc = "save", !.snap = snap]
<1>1. /\ DOMAIN m = Fields /\ m.card \in DOMAIN cards /\ m.req \in DOMAIN requests
      /\ m.answer \in {"pending", "approved", "rejected"}
  BY DEF Team!ApproveGrant, TeamInv, HandsTyped, Carries
<1>2. e \in Accounts
  <2>1. requests[m.req] \in JoinRequest
    BY <1>1 DEF TeamInv, TablesTyped
  <2> QED BY <2>1 DEF JoinRequest
<1>3. UNCHANGED <<tenants, cards, requests, signup>>
  BY DEF Team!ApproveGrant
<1>4. CASE Team!Goto(h, Team!Idle)
  BY <1>3, <1>4, IdleCarries, OnlyRequestKeeps
<1>5. CASE Team!Grantable(m.card, e) /\ Team!Goto(h, saving)
  <2>1. snap \in Team!Card /\ snap.st # "gone"
    BY <1>1, <1>2, <1>5, CopiesAreTyped DEF Team!Grantable, TeamInv
  <2> HIDE DEF snap
  <2>2. Carries(saving, DOMAIN cards, DOMAIN requests)
    BY <1>1, <2>1 DEF Carries, Fields, Stages
  <2> HIDE DEF saving
  <2> QED BY <1>3, <1>5, <2>2, OnlyRequestKeeps
<1> QED BY <1>4, <1>5 DEF Team!ApproveGrant, Team!Done

\* The answer to a request to join, unless there is one like it.
LEMMA MarkKeeps ==
  ASSUME Team!TeamAssumption, TeamInv, NEW h \in OneHandler, Team!Mark(h)
  PROVE  TeamInv'
<1> DEFINE m == hs[h]
           answered == [requests[m.req] EXCEPT !.st = m.answer]
<1>1. m.req \in DOMAIN requests /\ m.answer \in {"pending", "approved", "rejected"}
  BY DEF Team!Mark, TeamInv, HandsTyped, Carries
<1>2. requests \in Seq(JoinRequest)
  BY DEF TeamInv, TablesTyped
<1>3. answered \in JoinRequest
  <2>1. requests[m.req] \in JoinRequest
    BY <1>1, <1>2
  <2> QED BY <1>1, <2>1 DEF JoinRequest
<1>4. requests' \in {requests, [requests EXCEPT ![m.req] = answered]}
  BY DEF Team!Mark
<1> HIDE DEF answered
<1>5. requests' \in Seq(JoinRequest) /\ DOMAIN requests' = DOMAIN requests
  BY <1>1, <1>2, <1>3, <1>4
<1>6. Team!Goto(h, Team!Idle) /\ UNCHANGED <<tenants, cards, signup>>
  BY DEF Team!Mark, Team!Done
<1>7. HandsTyped'
  BY <1>5, <1>6, IdleCarries, RequestMoves DEF TeamInv
<1> QED BY <1>5, <1>6, <1>7 DEF TeamInv, TablesTyped, CardsTyped, Team!HistorySurvives

\* Entering links the card that was found, one column of it.
LEMMA LinkKeeps ==
  ASSUME Team!TeamAssumption, TeamInv, NEW h \in OneHandler, Team!Link(h)
  PROVE  TeamInv'
<1> DEFINE m == hs[h]
           c == m.card
           r == [cards[c] EXCEPT !.google = m.snap.google]
<1>1. c \in DOMAIN cards /\ m.snap \in Team!Card
  BY DEF Team!Link, TeamInv, HandsTyped, Carries
<1>2. cards[c] \in Team!Card /\ (cards[c].work # "none" => cards[c].st # "gone")
  BY <1>1 DEF TeamInv, CardsTyped, Team!HistorySurvives
<1>3. r \in Team!Card /\ (r.work # "none" => r.st # "gone")
  BY <1>1, <1>2 DEF Team!Card
<1>4. Team!Goto(h, Team!Idle) /\ UNCHANGED <<tenants, requests, signup>>
  BY DEF Team!Link, Team!Done
<1>5. CASE cards' = cards
  BY <1>4, <1>5, IdleCarries, OnlyRequestKeeps
<1>6. CASE cards' = [cards EXCEPT ![c] = r]
  <2> HIDE DEF r
  <2>1. CardsTyped' /\ Team!HistorySurvives' /\ DOMAIN cards' = DOMAIN cards
    BY <1>1, <1>3, <1>6, CardChanges DEF TeamInv
  <2>2. HandsTyped'
    BY <1>4, <2>1, IdleCarries, RequestMoves DEF TeamInv
  <2> QED BY <1>4, <2>1, <2>2 DEF TeamInv, TablesTyped
<1> QED BY <1>5, <1>6 DEF Team!Link

\* Who comes in is taken to their card, to their business or to the sign-up page.
LEMMA LoginKeeps ==
  ASSUME Team!TeamAssumption, TeamInv, NEW h \in OneHandler, NEW a \in Accounts, Team!Login(h, a)
  PROVE  TeamInv'
<1>1. ASSUME NEW c \in Team!CardsOf(a), Team!Goto(h, [Team!Idle EXCEPT !.pc = "link", !.card = c, !.snap = [cards[c] EXCEPT !.google = a]]),
             UNCHANGED <<tenants, cards, requests, signup>>
      PROVE  TeamInv'
  <2> DEFINE snap == [cards[c] EXCEPT !.google = a]
             m == [Team!Idle EXCEPT !.pc = "link", !.card = c, !.snap = snap]
  <2>1. c \in DOMAIN cards /\ Team!Found(c)
    BY DEF Team!CardsOf, Team!Found
  <2>2. snap \in Team!Card /\ snap.st # "gone"
    BY <2>1, CopiesAreTyped DEF TeamInv
  <2>3. Team!Goto(h, m)
    BY <1>1
  <2> HIDE DEF snap
  <2>4. Carries(m, DOMAIN cards, DOMAIN requests)
    BY <2>1, <2>2 DEF Team!Idle, Carries, Fields, Stages
  <2> HIDE DEF m
  <2> QED BY <1>1, <2>3, <2>4, OnlyRequestKeeps
<1>2. ASSUME NEW b \in Team!TenantsOf(a), tenants' = Team!Linked(a, b), UNCHANGED <<signup, hs, cards, requests>>
      PROVE  TeamInv'
  <2>1. tenants' \in [TeamBusinesses -> Tenant]
    <3>1. b \in TeamBusinesses /\ tenants[b] \in Tenant
      BY DEF Team!TenantsOf, TeamInv, TablesTyped
    <3>2. [tenants[b] EXCEPT !.google = IF @ = Nothing THEN a ELSE @] \in Tenant
      BY <3>1 DEF Tenant, Who
    <3> QED BY <1>2, <3>1, <3>2 DEF Team!Linked, TeamInv, TablesTyped
  <2> QED BY <1>2, <2>1 DEF TeamInv, TablesTyped, CardsTyped, HandsTyped, Team!HistorySurvives
<1>3. ASSUME signup' = signup \cup {a}, UNCHANGED <<tenants, hs, cards, requests>>
      PROVE  TeamInv'
  BY <1>3 DEF TeamInv, TablesTyped, CardsTyped, HandsTyped, Team!HistorySurvives
<1> QED BY <1>1, <1>2, <1>3 DEF Team!Login

\* A card with work is not deleted, only taken out of the team.
LEMMA RemoveKeeps ==
  ASSUME TeamInv, NEW c \in DOMAIN cards, Team!RemoveCard(c)
  PROVE  TeamInv'
<1> DEFINE r == IF Team!Deletion(cards[c].work) = "HARD" THEN [cards[c] EXCEPT !.st = "gone"]
                ELSE [cards[c] EXCEPT !.st = "removed"]
<1>1. cards[c] \in Team!Card
  BY DEF TeamInv, CardsTyped
<1>2. r \in Team!Card /\ (r.work # "none" => r.st # "gone")
  <2>1. cards[c].work \in {"none", "past", "future"} /\ cards[c].work # "future"
    BY <1>1 DEF Team!RemoveCard, Team!Deletion, Team!Card
  <2> QED BY <1>1, <2>1 DEF Team!Deletion, Team!Card
<1>3. cards' = [cards EXCEPT ![c] = r] /\ UNCHANGED <<tenants, requests, signup, hs>>
  BY DEF Team!RemoveCard
<1> HIDE DEF r
<1>4. CardsTyped' /\ Team!HistorySurvives' /\ DOMAIN cards' = DOMAIN cards
  BY <1>2, <1>3, CardChanges DEF TeamInv
<1>5. HandsTyped'
  BY <1>3, <1>4, RequestsStand DEF TeamInv
<1> QED BY <1>3, <1>4, <1>5 DEF TeamInv, TablesTyped

\* The agenda gives work to who is in the team, and what was ahead is behind.
LEMMA AgendaKeeps ==
  ASSUME TeamInv, Team!TimePasses \/ \E c \in DOMAIN cards : Team!Book(c)
  PROVE  TeamInv'
<1>1. cards \in Seq(Team!Card) /\ Len(cards) \in Nat /\ DOMAIN cards = 1 .. Len(cards)
  BY DEF TeamInv, CardsTyped
<1>2. ASSUME NEW c \in DOMAIN cards, Team!Book(c)
      PROVE  TeamInv'
  <2> DEFINE r == [cards[c] EXCEPT !.work = "future"]
  <2>1. r \in Team!Card /\ r.st # "gone"
    <3>1. cards[c] \in Team!Card /\ cards[c].st = "active"
      BY <1>1, <1>2 DEF Team!Book
    <3> QED BY <3>1 DEF Team!Card
  <2>2. cards' = [cards EXCEPT ![c] = r] /\ UNCHANGED <<tenants, requests, signup, hs>>
    BY <1>2 DEF Team!Book
  <2> HIDE DEF r
  <2>3. CardsTyped' /\ Team!HistorySurvives' /\ DOMAIN cards' = DOMAIN cards
    BY <2>1, <2>2, CardChanges DEF TeamInv
  <2>4. HandsTyped'
    BY <2>2, <2>3, RequestsStand DEF TeamInv
  <2> QED BY <2>2, <2>3, <2>4 DEF TeamInv, TablesTyped
<1>3. CASE Team!TimePasses
  <2>1. ASSUME NEW c \in DOMAIN cards
        PROVE  cards'[c] \in Team!Card /\ (cards'[c].work # "none" => cards'[c].st # "gone")
    <3>1. cards[c] \in Team!Card /\ (cards[c].work # "none" => cards[c].st # "gone")
      BY <1>1 DEF TeamInv, Team!HistorySurvives
    <3>2. cards'[c] = [cards[c] EXCEPT !.work = IF @ = "future" THEN "past" ELSE @]
      BY <1>3 DEF Team!TimePasses
    <3> QED BY <3>1, <3>2 DEF Team!Card
  <2>2. cards' \in [1 .. Len(cards) -> Team!Card]
    BY <1>1, <1>3, <2>1 DEF Team!TimePasses
  <2>3. CardsTyped' /\ DOMAIN cards' = DOMAIN cards
    BY <1>1, <2>2 DEF CardsTyped
  <2>4. UNCHANGED <<tenants, requests, signup, hs>>
    BY <1>3 DEF Team!TimePasses
  <2>5. HandsTyped'
    BY <2>3, <2>4, RequestsStand DEF TeamInv
  <2> QED BY <2>1, <2>3, <2>4, <2>5 DEF TeamInv, TablesTyped, Team!HistorySurvives
<1> QED BY <1>2, <1>3

\* Cards, requests to join and businesses are created.
LEMMA CreationKeeps ==
  ASSUME Team!TeamAssumption, TeamInv,
         \/ \E b \in TeamBusinesses : \/ Team!Create(b)
                                      \/ \E a \in Accounts : Team!Request(a, b)
                                      \/ \E e \in Founders : Team!SupportCreates(b, e)
         \/ \E a \in Founders : Team!CreateBusiness(a)
  PROVE  TeamInv'
<1>1. ASSUME NEW b \in TeamBusinesses, Team!Create(b)
      PROVE  TeamInv'
  <2>1. CardsTyped' /\ Team!HistorySurvives' /\ DOMAIN cards \subseteq DOMAIN cards'
    BY <1>1, CardAppended DEF Team!Create, TeamInv
  <2>2. HandsTyped'
    BY <1>1, <2>1, RequestsStand DEF Team!Create, TeamInv
  <2> QED BY <1>1, <2>1, <2>2 DEF Team!Create, TeamInv, TablesTyped
<1>2. ASSUME NEW b \in TeamBusinesses, NEW a \in Accounts, Team!Request(a, b)
      PROVE  TeamInv'
  <2>1. [biz |-> b, acc |-> a, st |-> "pending"] \in JoinRequest
    BY DEF JoinRequest
  <2>2. requests \in Seq(JoinRequest) /\ requests' = Append(requests, [biz |-> b, acc |-> a, st |-> "pending"])
    BY <1>2 DEF Team!Request, TeamInv, TablesTyped
  <2>3. requests' \in Seq(JoinRequest) /\ DOMAIN requests \subseteq DOMAIN requests'
    BY <2>1, <2>2
  <2>4. UNCHANGED <<tenants, cards, signup, hs>>
    BY <1>2 DEF Team!Request
  <2>5. HandsTyped'
    BY <2>3, <2>4, RequestsStand DEF TeamInv
  <2> QED BY <2>3, <2>4, <2>5 DEF TeamInv, TablesTyped, CardsTyped, Team!HistorySurvives
<1>3. ASSUME tenants' \in [TeamBusinesses -> Tenant], signup' \subseteq signup, UNCHANGED <<cards, requests, hs>>
      PROVE  TeamInv'
  BY <1>3 DEF TeamInv, TablesTyped, CardsTyped, HandsTyped, Team!HistorySurvives
<1>4. ASSUME NEW b \in TeamBusinesses, NEW e \in Founders, Team!SupportCreates(b, e)
      PROVE  TeamInv'
  <2>1. [on |-> TRUE, email |-> e, google |-> Nothing] \in Tenant
    BY DEF Tenant, Who, Team!TeamAssumption
  <2> QED BY <1>3, <1>4, <2>1 DEF Team!SupportCreates, TeamInv, TablesTyped
<1>5. ASSUME NEW a \in Founders, Team!CreateBusiness(a)
      PROVE  TeamInv'
  <2>1. [on |-> TRUE, email |-> a, google |-> a] \in Tenant
    BY DEF Tenant, Who, Team!TeamAssumption
  <2>2. ASSUME NEW b \in TeamBusinesses
        PROVE  Team!Linked(a, b) \in [TeamBusinesses -> Tenant]
    <3>1. tenants \in [TeamBusinesses -> Tenant] /\ tenants[b] \in Tenant
      BY DEF TeamInv, TablesTyped
    <3>2. [tenants[b] EXCEPT !.google = IF @ = Nothing THEN a ELSE @] \in Tenant
      BY <3>1 DEF Tenant, Who, Team!TeamAssumption
    <3> QED BY <3>1, <3>2 DEF Team!Linked
  <2>3. tenants' \in [TeamBusinesses -> Tenant]
    BY <1>5, <2>1, <2>2 DEF Team!CreateBusiness, Team!TenantsOf, TeamInv, TablesTyped
  <2> QED BY <1>3, <1>5, <2>3 DEF Team!CreateBusiness
<1> QED BY <1>1, <1>2, <1>4, <1>5

\* Every step keeps the invariant.
LEMMA TeamNext ==
  ASSUME Team!TeamAssumption, TeamInv, [Team!Next]_(Team!vars)
  PROVE  TeamInv'
<1>1. ASSUME NEW h \in OneHandler, Team!Fail(h)
      PROVE  TeamInv'
  BY <1>1, IdleCarries, OnlyRequestKeeps DEF Team!Fail, Team!Done
<1>2. CASE UNCHANGED Team!vars
  BY <1>2 DEF Team!vars, TeamInv, TablesTyped, CardsTyped, HandsTyped, Team!HistorySurvives
<1>3. CASE Team!Next
  BY <1>1, <1>3, PanelKeeps, SaveKeeps, GrantKeeps, MarkKeeps, LinkKeeps, LoginKeeps, RemoveKeeps, AgendaKeeps, CreationKeeps
  DEF Team!Next, Team!Progress
<1> QED BY <1>2, <1>3

\* The empty team is in order.
LEMMA TeamInit ==
  ASSUME Team!TeamAssumption, Team!Init
  PROVE  TeamInv
<1>1. Team!Absent \in Tenant /\ [Team!Absent EXCEPT !.on = TRUE] \in Tenant
  BY DEF Team!Absent, Tenant, Who
<1>2. TablesTyped
  <2>1. tenants \in [TeamBusinesses -> Tenant]
    BY <1>1 DEF Team!Init
  <2>2. requests \in Seq(JoinRequest) /\ signup \subseteq Accounts
    BY DEF Team!Init
  <2> QED BY <2>1, <2>2 DEF TablesTyped
<1>3. HandsTyped
  BY IdleCarries DEF Team!Init, HandsTyped
<1> QED BY <1>2, <1>3 DEF Team!Init, TeamInv, CardsTyped, Team!HistorySurvives

\* What the invariant says of the columns is their type.
LEMMA TeamIsTyped == TeamInv => Team!TypeOK
<1> SUFFICES ASSUME TeamInv PROVE Team!TypeOK
  OBVIOUS
<1>1. tenants \in [TeamBusinesses -> [on : BOOLEAN, email : Accounts \cup {Nothing}, google : Accounts \cup {Nothing}]]
  BY DEF TeamInv, TablesTyped, Tenant, Who
<1>2. \A c \in DOMAIN cards : cards[c] \in Team!Card
  BY DEF TeamInv, CardsTyped
<1>3. \A r \in DOMAIN requests : requests[r] \in JoinRequest
  BY DEF TeamInv, TablesTyped
<1>4. \A h \in OneHandler : hs[h].pc \in {"idle", "grant", "save", "mark", "link"} /\ hs[h].snap \in Team!Card
  BY DEF TeamInv, HandsTyped, Carries, Stages
<1>5. signup \subseteq Accounts
  BY DEF TeamInv, TablesTyped
<1> QED BY <1>1, <1>2, <1>3, <1>4, <1>5 DEF Team!TypeOK, JoinRequest

-----------------------------------------------------------------------------
(* Who is let in *)

\* One request of the panel, or one entrance, at a time.
OneRequest == \A g, h \in OneHandler : g = h

\* The copy about to be saved links whom it invites, and the link about to be written is of whom
\* the card still invites.
Invited(r) == r.google # Nothing => r.google = r.email
CopyInvites(h) ==
  /\ hs[h].pc = "save" => Invited(hs[h].snap)
  /\ hs[h].pc = "link" => cards[hs[h].card].email = hs[h].snap.google
AccessInv == Team!LinkedIsInvited /\ \A h \in OneHandler : CopyInvites(h)
     
\* Cards that keep whom they invite and link, and new ones that link nobody, let in the same ones.
LEMMA AccessStays ==
  ASSUME TeamInv, AccessInv,
         DOMAIN cards \subseteq DOMAIN cards',
         \A c \in DOMAIN cards' : IF c \in DOMAIN cards
                                  THEN cards'[c].email = cards[c].email /\ cards'[c].google = cards[c].google
                                  ELSE cards'[c].google = Nothing,
         \A h \in OneHandler : \/ hs'[h] = hs[h]
                               \/ hs'[h].pc \notin {"save", "link"}
                               \/ hs'[h].pc = "save" /\ Invited(hs'[h].snap)
                               \/ hs'[h].pc = "link" /\ hs'[h].card \in DOMAIN cards
                                    /\ cards[hs'[h].card].email = hs'[h].snap.google
  PROVE  AccessInv'
<1>1. Team!LinkedIsInvited'
  BY DEF AccessInv, Team!LinkedIsInvited
<1>2. ASSUME NEW h \in OneHandler
      PROVE  CopyInvites(h)'
  BY <1>2 DEF AccessInv, CopyInvites, TeamInv, HandsTyped, Carries
<1> QED BY <1>1, <1>2 DEF AccessInv

\* A request that moves, with what it moves to.
LEMMA Moved ==
  ASSUME TeamInv, NEW h \in OneHandler, NEW m, Team!Goto(h, m)
  PROVE  hs'[h] = m /\ \A g \in OneHandler : g # h => hs'[g] = hs[g]
BY DEF TeamInv, HandsTyped, Team!Goto

\* The copies that the panel takes invite whom they link.
LEMMA GrantedInvites ==
  ASSUME TeamInv, AccessInv, NEW c \in DOMAIN cards
  PROVE  /\ \A e \in Accounts : Invited(Team!Granted(cards[c], e))
         /\ \A st \in {"active", "inactive"} : Invited([cards[c] EXCEPT !.st = st])
         /\ Invited([cards[c] EXCEPT !.email = Nothing, !.google = Nothing])
<1>1. cards[c] \in Team!Card /\ (cards[c].google # Nothing => cards[c].google = cards[c].email)
  BY DEF TeamInv, CardsTyped, AccessInv, Team!LinkedIsInvited
<1>2. \A e \in Accounts : Invited(Team!Granted(cards[c], e))
  BY <1>1 DEF Invited, Team!Granted, Team!Card
<1>3. \A st \in {"active", "inactive"} : Invited([cards[c] EXCEPT !.st = st])
  BY <1>1 DEF Invited, Team!Card
<1>4. Invited([cards[c] EXCEPT !.email = Nothing, !.google = Nothing])
  BY <1>1 DEF Invited, Team!Card
<1> QED BY <1>2, <1>3, <1>4

\* Every step lets in who was invited, with one request at a time.
LEMMA AccessNext ==
  ASSUME Team!TeamAssumption, OneRequest, TeamInv, AccessInv, [Team!Next]_(Team!vars)
  PROVE  AccessInv'
<1>1. ASSUME cards' = cards, NEW h \in OneHandler, NEW m, Team!Goto(h, m),
             \/ m.pc \notin {"save", "link"}
             \/ m.pc = "save" /\ Invited(m.snap)
             \/ m.pc = "link" /\ m.card \in DOMAIN cards /\ cards[m.card].email = m.snap.google
      PROVE  AccessInv'
  BY <1>1, AccessStays, Moved
<1>2. ASSUME NEW h \in OneHandler, NEW c \in DOMAIN cards, NEW snap, Invited(snap), cards' = cards,
             Team!Goto(h, [Team!Idle EXCEPT !.pc = "save", !.card = c, !.snap = snap])
      PROVE  AccessInv'
  <2> DEFINE m == [Team!Idle EXCEPT !.pc = "save", !.card = c, !.snap = snap]
  <2>1. m.pc = "save" /\ m.snap = snap
    BY DEF Team!Idle
  <2> HIDE DEF m
  <2> QED BY <1>1, <1>2, <2>1 DEF m
<1>3. Team!Idle.pc = "idle"
  BY DEF Team!Idle
<1>4. ASSUME NEW b \in TeamBusinesses, cards' = Append(cards, Team!NewCard(b)),
             \A h \in OneHandler : hs'[h] = hs[h] \/ hs'[h].pc = "grant"
      PROVE  AccessInv'
  <2>1. cards \in Seq(Team!Card) /\ Team!NewCard(b).google = Nothing
    BY DEF TeamInv, CardsTyped, Team!NewCard
  <2>2. /\ DOMAIN cards \subseteq DOMAIN cards'
        /\ \A c \in DOMAIN cards' : IF c \in DOMAIN cards THEN cards'[c] = cards[c] ELSE cards'[c] = Team!NewCard(b)
    BY <1>4, <2>1
  <2> QED BY <1>4, <2>1, <2>2, AccessStays
<1>5. ASSUME NEW h \in OneHandler, Team!Panel(h)
      PROVE  AccessInv'
  <2>1. ASSUME NEW c \in DOMAIN cards, Team!Revoke(h, c) PROVE AccessInv'
    BY <1>2, <2>1, GrantedInvites DEF Team!Revoke
  <2>2. ASSUME NEW c \in DOMAIN cards, Team!Update(h, c) PROVE AccessInv'
    BY <1>2, <2>2, GrantedInvites DEF Team!Update
  <2>3. ASSUME NEW c \in DOMAIN cards, NEW e \in Accounts, Team!Grant(h, c, e) PROVE AccessInv'
    BY <1>2, <2>3, GrantedInvites DEF Team!Grant
  <2>4. ASSUME NEW r \in DOMAIN requests, Team!Approve(h, r) PROVE AccessInv'
    <3> DEFINE m == [Team!Idle EXCEPT !.pc = "grant", !.card = Len(cards) + 1, !.req = r]
    <3>1. m.pc = "grant"
      BY DEF Team!Idle
    <3>2. Team!Goto(h, m) /\ cards' = Append(cards, Team!NewCard(requests[r].biz))
      BY <2>4 DEF Team!Approve
    <3> HIDE DEF m
    <3>3. requests[r] \in JoinRequest
      BY DEF TeamInv, TablesTyped
    <3>4. requests[r].biz \in TeamBusinesses
      BY <3>3 DEF JoinRequest
    <3> QED BY <1>4, <3>1, <3>2, <3>4, Moved
  <2>5. ASSUME NEW r \in DOMAIN requests, Team!Reject(h, r) PROVE AccessInv'
    <3> DEFINE m == [Team!Idle EXCEPT !.pc = "mark", !.req = r, !.answer = "rejected"]
    <3>1. m.pc = "mark"
      BY DEF Team!Idle
    <3>2. Team!Goto(h, m) /\ cards' = cards
      BY <2>5 DEF Team!Reject
    <3> HIDE DEF m
    <3> QED BY <1>1, <3>1, <3>2
  <2> QED BY <1>5, <2>1, <2>2, <2>3, <2>4, <2>5 DEF Team!Panel
<1>6. ASSUME NEW h \in OneHandler, Team!SaveCard(h)
      PROVE  AccessInv'
  <2> DEFINE m == hs[h]
             c == m.card
             r == [m.snap EXCEPT !.work = cards[c].work]
             marking == [m EXCEPT !.pc = "mark", !.answer = "approved"]
  <2>1. c \in DOMAIN cards /\ m.snap \in Team!Card /\ Invited(m.snap) /\ DOMAIN m = Fields
    BY <1>6 DEF Team!SaveCard, TeamInv, HandsTyped, Carries, AccessInv, CopyInvites
  <2>2. marking.pc = "mark"
    BY <2>1 DEF Fields
  <2> HIDE DEF marking
  <2>3. CASE cards' = cards /\ Team!Goto(h, Team!Idle)
    BY <1>1, <1>3, <2>3
  <2>4. CASE cards' = [cards EXCEPT ![c] = r] /\ (Team!Goto(h, Team!Idle) \/ Team!Goto(h, marking))
    <3>1. r \in Team!Card /\ Invited(r)
      <4>1. cards[c] \in Team!Card
        BY <2>1 DEF TeamInv, CardsTyped
      <4> QED BY <2>1, <4>1 DEF Team!Card, Invited
    <3> HIDE DEF r
    <3>2. DOMAIN cards' = DOMAIN cards /\ \A d \in DOMAIN cards : cards'[d] = IF d = c THEN r ELSE cards[d]
      BY <2>1, <2>4, <3>1 DEF TeamInv, CardsTyped
    <3>3. Team!LinkedIsInvited'
      BY <3>1, <3>2 DEF Team!LinkedIsInvited, Invited, AccessInv
    <3>4. \A g \in OneHandler : hs'[g].pc \notin {"save", "link"}
      BY <1>3, <2>2, <2>4, Moved DEF OneRequest
    <3>5. \A g \in OneHandler : CopyInvites(g)'
      BY <3>4 DEF CopyInvites
    <3> QED BY <3>3, <3>5 DEF AccessInv
  <2> QED BY <1>6, <2>3, <2>4 DEF Team!SaveCard, Team!Done, marking
<1>7. ASSUME NEW h \in OneHandler, Team!ApproveGrant(h)
      PROVE  AccessInv'
  <2> DEFINE m == hs[h]
             snap == Team!Granted(cards[m.card], requests[m.req].acc)
             saving == [m EXCEPT !.pc = "save", !.snap = snap]
  <2>1. m.card \in DOMAIN cards /\ m.req \in DOMAIN requests /\ DOMAIN m = Fields
    BY <1>7 DEF Team!ApproveGrant, TeamInv, HandsTyped, Carries
  <2>2. requests[m.req].acc \in Accounts
    <3>1. requests[m.req] \in JoinRequest
      BY <2>1 DEF TeamInv, TablesTyped
    <3> QED BY <3>1 DEF JoinRequest
  <2>3. Invited(snap)
    BY <2>1, <2>2, GrantedInvites
  <2> HIDE DEF snap
  <2>4. saving.pc = "save" /\ saving.snap = snap
    BY <2>1 DEF Fields
  <2> HIDE DEF saving
  <2>5. cards' = cards /\ (Team!Goto(h, saving) \/ Team!Goto(h, Team!Idle))
    BY <1>7 DEF Team!ApproveGrant, Team!Done, saving, snap
  <2> QED BY <1>1, <1>3, <2>3, <2>4, <2>5
<1>8. ASSUME NEW h \in OneHandler, Team!Link(h)
      PROVE  AccessInv'
  <2> DEFINE m == hs[h]
             c == m.card
             r == [cards[c] EXCEPT !.google = m.snap.google]
  <2>1. c \in DOMAIN cards /\ cards[c].email = m.snap.google
    BY <1>8 DEF Team!Link, TeamInv, HandsTyped, Carries, AccessInv, CopyInvites
  <2>2. cards[c] \in Team!Card
    BY <2>1 DEF TeamInv, CardsTyped
  <2>3. r.email = cards[c].email /\ r.google = m.snap.google
    BY <2>2 DEF Team!Card
  <2>4. cards' \in {cards, [cards EXCEPT ![c] = r]} /\ Team!Goto(h, Team!Idle)
    BY <1>8 DEF Team!Link, Team!Done
  <2> HIDE DEF r
  <2>5. CASE cards' = cards
    BY <1>1, <1>3, <2>4, <2>5
  <2>6. CASE cards' = [cards EXCEPT ![c] = r]
    <3>1. DOMAIN cards' = DOMAIN cards /\ \A d \in DOMAIN cards : cards'[d] = IF d = c THEN r ELSE cards[d]
      BY <2>1, <2>6 DEF TeamInv, CardsTyped
    <3>2. Team!LinkedIsInvited'
      BY <2>1, <2>3, <3>1 DEF Team!LinkedIsInvited, AccessInv
    <3>3. \A g \in OneHandler : CopyInvites(g)'
      BY <1>3, <2>4, Moved DEF CopyInvites, OneRequest
    <3> QED BY <3>2, <3>3 DEF AccessInv
  <2> QED BY <2>4, <2>5, <2>6
<1>9. ASSUME NEW h \in OneHandler, NEW a \in Accounts, Team!Login(h, a)
      PROVE  AccessInv'
  <2>1. ASSUME NEW c \in Team!CardsOf(a), cards[c].google = Nothing, cards' = cards,
               Team!Goto(h, [Team!Idle EXCEPT !.pc = "link", !.card = c, !.snap = [cards[c] EXCEPT !.google = a]])
        PROVE  AccessInv'
    <3> DEFINE snap == [cards[c] EXCEPT !.google = a]
               m == [Team!Idle EXCEPT !.pc = "link", !.card = c, !.snap = snap]
    <3>1. c \in DOMAIN cards /\ cards[c].email = a
      BY <2>1 DEF Team!CardsOf, Team!TeamAssumption
    <3>2. snap.google = a
      <4>1. cards[c] \in Team!Card
        BY <3>1 DEF TeamInv, CardsTyped
      <4> QED BY <4>1 DEF Team!Card
    <3>3. Team!Goto(h, m)
      BY <2>1
    <3> HIDE DEF snap
    <3>4. m.pc = "link" /\ m.card = c /\ m.snap = snap
      BY DEF Team!Idle
    <3> HIDE DEF m
    <3> QED BY <1>1, <2>1, <3>1, <3>2, <3>3, <3>4
  <2>2. ASSUME cards' = cards, hs' = hs
        PROVE  AccessInv'
    BY <2>2, AccessStays
  <2> QED BY <1>9, <2>1, <2>2 DEF Team!Login
<1>10. ASSUME NEW h \in OneHandler, Team!Mark(h) \/ Team!Fail(h)
       PROVE  AccessInv'
  BY <1>1, <1>3, <1>10 DEF Team!Mark, Team!Fail, Team!Done
<1>11. ASSUME NEW b \in TeamBusinesses, Team!Create(b)
       PROVE  AccessInv'
  BY <1>4, <1>11 DEF Team!Create
<1>12. ASSUME cards' = [c \in DOMAIN cards |-> cards'[c]], hs' = hs,
              \A c \in DOMAIN cards : cards'[c].email = cards[c].email /\ cards'[c].google = cards[c].google
       PROVE  AccessInv'
  BY <1>12, AccessStays
<1>13. ASSUME NEW c \in DOMAIN cards, Team!RemoveCard(c) \/ Team!Book(c)
       PROVE  AccessInv'
  <2>1. cards \in Seq(Team!Card) /\ cards[c] \in Team!Card
    BY DEF TeamInv, CardsTyped
  <2>2. \E r : cards' = [cards EXCEPT ![c] = r] /\ r.email = cards[c].email /\ r.google = cards[c].google
    <3>1. \A st : [cards[c] EXCEPT !.st = st].email = cards[c].email /\ [cards[c] EXCEPT !.st = st].google = cards[c].google
      BY <2>1 DEF Team!Card
    <3>2. \A w : [cards[c] EXCEPT !.work = w].email = cards[c].email /\ [cards[c] EXCEPT !.work = w].google = cards[c].google
      BY <2>1 DEF Team!Card
    <3>3. CASE Team!RemoveCard(c)
      <4> DEFINE st == IF Team!Deletion(cards[c].work) = "HARD" THEN "gone" ELSE "removed"
                 r == [cards[c] EXCEPT !.st = st]
      <4>1. cards' = [cards EXCEPT ![c] = r]
        BY <3>3 DEF Team!RemoveCard
      <4> QED BY <3>1, <4>1
    <3>4. CASE Team!Book(c)
      <4> DEFINE r == [cards[c] EXCEPT !.work = "future"]
      <4>1. cards' = [cards EXCEPT ![c] = r]
        BY <3>4 DEF Team!Book
      <4> QED BY <3>2, <4>1
    <3> QED BY <1>13, <3>3, <3>4
  <2>3. hs' = hs
    BY <1>13 DEF Team!RemoveCard, Team!Book
  <2> QED BY <1>12, <2>1, <2>2, <2>3
<1>14. ASSUME Team!TimePasses
       PROVE  AccessInv'
  <2>1. \A c \in DOMAIN cards : cards[c] \in Team!Card
    BY DEF TeamInv, CardsTyped
  <2>2. ASSUME NEW c \in DOMAIN cards
        PROVE  cards'[c].email = cards[c].email /\ cards'[c].google = cards[c].google
    BY <1>14, <2>1 DEF Team!TimePasses, Team!Card
  <2> QED BY <1>12, <1>14, <2>2 DEF Team!TimePasses
<1>15. ASSUME cards' = cards, hs' = hs
       PROVE  AccessInv'
  BY <1>15, AccessStays
<1>16. CASE UNCHANGED Team!vars
  BY <1>15, <1>16 DEF Team!vars
<1>17. CASE Team!Next
  <2>1. (\E b \in TeamBusinesses : (\E a \in Accounts : Team!Request(a, b)) \/ \E a \in Founders : Team!SupportCreates(b, a)) => AccessInv'
    BY <1>15 DEF Team!Request, Team!SupportCreates
  <2>2. (\E a \in Founders : Team!CreateBusiness(a)) => AccessInv'
    BY <1>15 DEF Team!CreateBusiness
  <2> QED BY <1>5, <1>6, <1>7, <1>8, <1>9, <1>10, <1>11, <1>13, <1>14, <1>17, <2>1, <2>2 DEF Team!Next, Team!Progress
<1> QED BY <1>16, <1>17

\* Nobody is invited before the first card.
LEMMA AccessInit ==
  ASSUME Team!Init
  PROVE  AccessInv
BY DEF Team!Init, AccessInv, Team!LinkedIsInvited, CopyInvites, Team!Idle

-----------------------------------------------------------------------------
(* The cards of the clients: for any people, files and requests in course, whoever comes has
   one card, and no appointment goes with its client *)

ClientsAssumption == Cards!NumberAssumption /\ Cards!FilesAssumption

CardStates == {"live", "removed", "gone"}
Card == [phone : Cards!Phones, st : CardStates, who : Cards!People]
Booking == [card : Nat, st : {"next", "past", "cancelled", "gone"}]
ClientFields == {"pc", "card", "who", "phone", "books", "todo"}
ClientStages == {"idle", "insert", "restore", "write", "correct", "batch", "rows"}
Entry == [who : Cards!People, phone : Cards!Phones]

\* A card, or a contact about to be one, has the number of whom it is of.
OwnNumber(x) == x.phone = Number[x.who]
IsEntry(x) == x \in Entry /\ OwnNumber(x)

\* The unique index, over what was not deleted.
IndexUnique == \A c, d \in DOMAIN clients : Cards!Exists(c) /\ Cards!Exists(d) /\ clients[c].phone = clients[d].phone => c = d

ClientsTyped ==
  /\ clients \in Seq(Card)
  /\ \A c \in DOMAIN clients : OwnNumber(clients[c])

\* What is booked is of a card that is still in its table.
BookedFor(booking) == booking.st # "gone" /\ booking.card \in DOMAIN clients /\ Cards!Exists(booking.card)
ApptsTyped ==
  /\ bookings \in Seq(Booking)
  /\ \A a \in DOMAIN bookings : BookedFor(bookings[a])

\* What a request holds, by where it is; known are the cards there are.
ClientCarries(m, known) ==
  /\ DOMAIN m = ClientFields /\ m.pc \in ClientStages
  /\ m.pc \in {"insert", "correct"} => m.who \in Cards!People /\ m.phone = Number[m.who]
  /\ m.pc \in {"restore", "write", "correct"} => m.card \in known
  /\ m.pc \in {"batch", "rows"} => m.todo \in Seq({x \in Entry : OwnNumber(x)}) /\ m.todo # <<>>
  /\ m.pc = "batch" => \A i, j \in DOMAIN m.todo : m.todo[i].phone = m.todo[j].phone => i = j

ClientRequestsTyped == inCourse = [h \in Handlers |-> inCourse[h]] /\ \A h \in Handlers : ClientCarries(inCourse[h], DOMAIN clients)

CardsInv == ClientsTyped /\ IndexUnique /\ ApptsTyped /\ ClientRequestsTyped

-----------------------------------------------------------------------------
(* Telephones *)

\* However somebody writes down their number, it is resolved to it.
LEMMA TypedIsNumber ==
  ASSUME Cards!NumberAssumption, NEW p \in Cards!People, NEW t \in Cards!Typed(p)
  PROVE  t.who = p /\ Cards!ResolveClientPhone("typed", t.n, t.plus) = Number[p]
<1>1. Number[p] \in Seq(Int) /\ Len(Number[p]) > 1 /\ Number[p][2] # Dial
  BY DEF Cards!NumberAssumption, Cards!People
<1>2. t.who = p
  BY DEF Cards!Typed
<1>3. CASE t.plus
  BY <1>3 DEF Cards!Typed, Cards!ResolveClientPhone
<1>4. CASE ~t.plus
  <2>1. Head(Number[p]) = Dial /\ t.n \in {Number[p], Tail(Number[p])}
    BY <1>4 DEF Cards!Typed
  <2>2. CASE t.n = Number[p]
    BY <1>2, <2>1, <2>2 DEF Cards!ResolveClientPhone
  <2>3. CASE t.n = Tail(Number[p])
    <3>1. Head(Tail(Number[p])) = Number[p][2]
      BY <1>1
    <3>2. <<Head(Number[p])>> \o Tail(Number[p]) = Number[p]
      BY <1>1
    <3> QED BY <1>1, <1>2, <1>4, <2>1, <2>3, <3>1, <3>2 DEF Cards!ResolveClientPhone
  <2> QED BY <2>1, <2>2, <2>3
<1> QED BY <1>2, <1>3, <1>4

\* Whichever the door, a person comes with their number.
LEMMA DoorsAreNumber ==
  ASSUME Cards!NumberAssumption, NEW p \in Cards!People, NEW phone \in Cards!Doors(p)
  PROVE  phone = Number[p]
<1>1. CASE \E t \in Cards!Typed(p) : phone = Cards!ResolveClientPhone("typed", t.n, t.plus)
  BY <1>1, TypedIsNumber
<1>2. CASE phone \in {Cards!ResolveClientPhone("whatsapp", Number[p], FALSE), Cards!ResolveClientPhone("account", Number[p], FALSE)}
  BY <1>2 DEF Cards!ResolveClientPhone
<1> QED BY <1>1, <1>2 DEF Cards!Doors

\* A number is a telephone.
LEMMA NumbersArePhones ==
  ASSUME NEW p \in Cards!People
  PROVE  Number[p] \in Cards!Phones
BY DEF Cards!Phones

\* The contacts of a file are of people with their numbers.
LEMMA ContactsAreEntries ==
  ASSUME ClientsAssumption, NEW file \in Files, NEW i \in DOMAIN file
  PROVE  IsEntry(Cards!Contact(file[i]))
<1> DEFINE T == UNION {Cards!Typed(p) : p \in Cards!People}
<1>1. PICK p \in Cards!People : file[i] \in Cards!Typed(p)
  <2>1. file \in Seq(T)
    BY DEF ClientsAssumption, Cards!FilesAssumption
  <2> HIDE DEF T
  <2>2. file[i] \in T
    BY <2>1
  <2> QED BY <2>2 DEF T
<1>2. Cards!Contact(file[i]) = [who |-> p, phone |-> Number[p]]
  BY <1>1, TypedIsNumber DEF Cards!Contact, ClientsAssumption
<1> QED BY <1>2, NumbersArePhones DEF IsEntry, Entry, OwnNumber

\* The members of a set are counted alike in both modules.
LEMMA SameCardsCount == \A S : Cards!Cardinality(S) = Cardinality(S)
BY Zenon DEF Cards!Cardinality, Cardinality

\* What is kept of a file is inserted as a list without repetition.
LEMMA ListOfSet ==
  ASSUME NEW S, IsFiniteSet(S)
  PROVE  /\ Cards!SetToSeq(S) \in Seq(S)
         /\ DOMAIN Cards!SetToSeq(S) = 1 .. Len(Cards!SetToSeq(S))
         /\ \A i, j \in DOMAIN Cards!SetToSeq(S) : Cards!SetToSeq(S)[i] = Cards!SetToSeq(S)[j] => i = j
<1>1. PICK n \in Nat : ExistsBijection(1 .. n, S) /\ n = Cardinality(S)
  BY FS_CardinalityType
<1>2. \E g \in [1 .. n -> S] : IsInjective(g)
  BY <1>1 DEF ExistsBijection, Bijection, Injection, IsInjective
<1>3. Cards!SetToSeq(S) \in [1 .. n -> S] /\ IsInjective(Cards!SetToSeq(S))
  <2>1. Cards!Cardinality(S) = n
    BY <1>1, SameCardsCount
  <2>2. \A g : Cards!IsInjective(g) <=> IsInjective(g)
    BY DEF Cards!IsInjective, IsInjective
  <2> QED BY <1>2, <2>1, <2>2 DEF Cards!SetToSeq
<1>4. Cards!SetToSeq(S) \in Seq(S) /\ DOMAIN Cards!SetToSeq(S) = 1 .. Len(Cards!SetToSeq(S))
  BY <1>3
<1> QED BY <1>3, <1>4 DEF IsInjective

\* The rows of one statement go behind the rows that there were.
LEMMA Concatenated ==
  ASSUME NEW S, NEW s \in Seq(S), NEW t \in Seq(S)
  PROVE  /\ s \o t \in Seq(S)
         /\ DOMAIN (s \o t) = 1 .. Len(s) + Len(t)
         /\ \A i \in DOMAIN s : i \in DOMAIN (s \o t) /\ (s \o t)[i] = s[i]
         /\ \A i \in DOMAIN (s \o t) : i \notin DOMAIN s =>
              i - Len(s) \in DOMAIN t /\ (s \o t)[i] = t[i - Len(s)]
<1>1. /\ DOMAIN s = 1 .. Len(s) /\ Len(s) \in Nat
      /\ DOMAIN t = 1 .. Len(t) /\ Len(t) \in Nat
  OBVIOUS
<1>2. s \o t \in Seq(S) /\ DOMAIN (s \o t) = 1 .. Len(s) + Len(t)
  BY <1>1
<1>3. \A i \in DOMAIN s : i \in DOMAIN (s \o t) /\ (s \o t)[i] = s[i]
  BY <1>1, <1>2
<1>4. ASSUME NEW i \in DOMAIN (s \o t), i \notin DOMAIN s
      PROVE  i - Len(s) \in DOMAIN t /\ (s \o t)[i] = t[i - Len(s)]
  BY <1>1, <1>2, <1>4
<1> QED BY <1>2, <1>3, <1>4

\* A function of the first n numbers is a list of n.
LEMMA FunctionIsList ==
  ASSUME NEW S, NEW n \in Nat, NEW f \in [1 .. n -> S]
  PROVE  f \in Seq(S) /\ Len(f) = n
OBVIOUS

\* After the first of several contacts there is still one to insert.
LEMMA TailOfSeveral ==
  ASSUME NEW S, NEW s \in Seq(S), s # <<>>, Len(s) # 1
  PROVE  Tail(s) \in Seq(S) /\ Tail(s) # <<>>
<1>1. Len(s) \in Nat /\ Len(s) # 0
  BY EmptySeq
<1>2. Tail(s) \in Seq(S) /\ Len(Tail(s)) = Len(s) - 1
  BY <1>1
<1>3. Len(Tail(s)) # 0
  BY <1>1, <1>2
<1> QED BY <1>2, <1>3, EmptySeq

\* What is left of a file to insert has each telephone once.
LEMMA NewRowsAreEntries ==
  ASSUME ClientsAssumption, NEW file \in Files
  PROVE  /\ Cards!NewRows(file) \in Seq({x \in Entry : OwnNumber(x)})
         /\ \A i, j \in DOMAIN Cards!NewRows(file) : Cards!NewRows(file)[i].phone = Cards!NewRows(file)[j].phone => i = j
<1> DEFINE at == {i \in DOMAIN file : ~Cards!Repeated(file, i) /\ Cards!Holding(Cards!Contact(file[i]).phone) = {}}
           f == [i \in at |-> Cards!Contact(file[i])]
           S == {Cards!Contact(file[i]) : i \in at}
<1>1. DOMAIN file = 1 .. Len(file) /\ Len(file) \in Nat
  BY DEF ClientsAssumption, Cards!FilesAssumption
<1>2. IsFiniteSet(at)
  <2>1. IsFiniteSet(1 .. Len(file))
    BY <1>1, FS_Interval
  <2>2. at \in SUBSET (1 .. Len(file))
    BY <1>1
  <2> HIDE DEF at
  <2> QED BY <2>1, <2>2, FS_Subset
<1>3. \A i, j \in at : Cards!Contact(file[i]).phone = Cards!Contact(file[j]).phone => i = j
  BY <1>1 DEF Cards!Repeated
<1>4. at \subseteq DOMAIN file
  OBVIOUS
<1> HIDE DEF at
<1>5. IsFiniteSet({f[i] : i \in at}) /\ S = {f[i] : i \in at}
  <2>1. f \in Surjection(at, S)
    BY DEF Surjection
  <2>2. S = {f[i] : i \in at}
    OBVIOUS
  <2> HIDE DEF f, S
  <2> QED BY <1>2, <2>1, <2>2, FS_Surjection
<1>6. S \subseteq {x \in Entry : OwnNumber(x)}
  BY <1>4, ContactsAreEntries DEF IsEntry
<1>7. \A x, y \in S : x.phone = y.phone => x = y
  BY <1>3
<1>8. Cards!NewRows(file) = Cards!SetToSeq(S)
  BY DEF Cards!NewRows, at
<1>9. IsFiniteSet(S)
  BY <1>5
<1> HIDE DEF S
<1>10. /\ Cards!SetToSeq(S) \in Seq(S)
       /\ DOMAIN Cards!SetToSeq(S) = 1 .. Len(Cards!SetToSeq(S))
       /\ \A i, j \in DOMAIN Cards!SetToSeq(S) : Cards!SetToSeq(S)[i] = Cards!SetToSeq(S)[j] => i = j
  BY <1>9, ListOfSet
<1>11. \A i \in DOMAIN Cards!SetToSeq(S) : Cards!SetToSeq(S)[i] \in S
  BY <1>10
<1>12. Cards!SetToSeq(S) \in Seq({x \in Entry : OwnNumber(x)})
  BY <1>6, <1>10
<1> QED BY <1>7, <1>8, <1>10, <1>11, <1>12

-----------------------------------------------------------------------------
(* The tables *)

\* The table of cards only grows, and what is not deleted from it stays.
CardsStand ==
  /\ DOMAIN clients \subseteq DOMAIN clients'
  /\ \A c \in DOMAIN clients : (clients[c].st # "gone" /\ \E a \in DOMAIN bookings : bookings[a].card = c) => clients'[c].st # "gone"

\* Bookings that do not change follow cards that stand.
LEMMA ApptsFollow ==
  ASSUME CardsInv, CardsStand, bookings' = bookings
  PROVE  ApptsTyped'
BY DEF CardsInv, ApptsTyped, BookedFor, Cards!Exists, CardsStand

\* A request that is replaced by one that carries what it needs leaves the others as they were.
LEMMA ClientRequestMoves ==
  ASSUME ClientRequestsTyped, DOMAIN clients \subseteq DOMAIN clients', NEW h \in Handlers, NEW m, Cards!Goto(h, m),
         ClientCarries(m, DOMAIN clients')
  PROVE  ClientRequestsTyped'
BY ZenonT(60) DEF ClientRequestsTyped, ClientCarries, Cards!Goto

\* A request that ends carries nothing.
LEMMA ClientIdleCarries ==
  ASSUME NEW known
  PROVE  ClientCarries(Cards!Idle, known)
BY DEF ClientCarries, Cards!Idle, ClientFields, ClientStages

\* A request goes on to the card that was found or made, or ends.
LEMMA ClientResolvedCarries ==
  ASSUME NEW m, DOMAIN m = ClientFields, NEW known, NEW c \in known
  PROVE  ClientCarries(Cards!Resolved(m, c), known)
<1>1. CASE m.books
  BY <1>1 DEF Cards!Resolved, ClientCarries, ClientFields, ClientStages
<1>2. CASE ~m.books
  BY <1>2, ClientIdleCarries DEF Cards!Resolved
<1> QED BY <1>1, <1>2

\* Cards that are the same ones, with another state, are in order.
LEMMA CardsRestated ==
  ASSUME ClientsTyped, IndexUnique, NEW c \in DOMAIN clients, NEW st \in CardStates,
         clients[c].st # "gone" \/ st = "gone", clients' = [clients EXCEPT ![c].st = st]
  PROVE  /\ ClientsTyped' /\ IndexUnique' /\ DOMAIN clients' = DOMAIN clients
         /\ clients'[c].st = st /\ \A d \in DOMAIN clients : d # c => clients'[d] = clients[d]
<1>1. clients \in Seq(Card) /\ clients[c] \in Card /\ OwnNumber(clients[c])
  BY DEF ClientsTyped
<1> DEFINE r == [clients[c] EXCEPT !.st = st]
<1>2. r \in Card /\ r.phone = clients[c].phone /\ r.who = clients[c].who /\ r.st = st
  BY <1>1 DEF Card
<1>3. clients' = [clients EXCEPT ![c] = r]
  BY <1>1 DEF Card
<1> HIDE DEF r
<1>4. /\ clients' \in Seq(Card) /\ DOMAIN clients' = DOMAIN clients /\ clients'[c] = r
      /\ \A d \in DOMAIN clients : d # c => clients'[d] = clients[d]
  BY <1>1, <1>2, <1>3
<1>5. ClientsTyped'
  BY <1>1, <1>2, <1>4 DEF ClientsTyped, OwnNumber
<1>6. IndexUnique'
  BY <1>2, <1>4 DEF IndexUnique, Cards!Exists
<1> QED BY <1>2, <1>4, <1>5, <1>6

\* Cards are added whose telephones are new and different.
LEMMA CardsAdded ==
  ASSUME ClientsTyped, IndexUnique, NEW new \in Seq({x \in Entry : OwnNumber(x)}),
         \A i, j \in DOMAIN new : new[i].phone = new[j].phone => i = j,
         \A i \in DOMAIN new : Cards!Holding(new[i].phone) = {},
         clients' = clients \o [i \in DOMAIN new |-> Cards!NewCard(new[i].phone, new[i].who)]
  PROVE  /\ ClientsTyped' /\ IndexUnique'
         /\ DOMAIN clients' = 1 .. Len(clients) + Len(new)
         /\ \A c \in DOMAIN clients : clients'[c] = clients[c]
<1> DEFINE fresh == [i \in DOMAIN new |-> Cards!NewCard(new[i].phone, new[i].who)]
<1>1. /\ clients \in Seq(Card) /\ DOMAIN clients = 1 .. Len(clients) /\ Len(clients) \in Nat
      /\ DOMAIN new = 1 .. Len(new) /\ Len(new) \in Nat
  BY DEF ClientsTyped
<1>2. \A i \in DOMAIN new : /\ Cards!NewCard(new[i].phone, new[i].who) \in Card
                            /\ OwnNumber(Cards!NewCard(new[i].phone, new[i].who))
  <2> SUFFICES ASSUME NEW i \in DOMAIN new
               PROVE  /\ Cards!NewCard(new[i].phone, new[i].who) \in Card
                      /\ OwnNumber(Cards!NewCard(new[i].phone, new[i].who))
    OBVIOUS
  <2>1. new[i] \in Entry /\ OwnNumber(new[i])
    OBVIOUS
  <2> QED BY <2>1 DEF Cards!NewCard, Card, CardStates, OwnNumber, Entry
<1>3. fresh \in Seq(Card) /\ Len(fresh) = Len(new)
  <2>1. fresh \in [1 .. Len(new) -> Card]
    BY <1>1, <1>2
  <2> HIDE DEF fresh
  <2> HIDE DEF fresh
  <2> QED BY <1>1, <2>1, FunctionIsList
<1>4. \A i \in DOMAIN new : fresh[i].phone = new[i].phone /\ OwnNumber(fresh[i]) /\ fresh[i] \in Card
  BY <1>2 DEF Cards!NewCard
<1>5. clients' = clients \o fresh
  OBVIOUS
<1> HIDE DEF fresh
<1>6. /\ clients' \in Seq(Card) /\ DOMAIN clients' = 1 .. Len(clients) + Len(new)
      /\ \A c \in DOMAIN clients : clients'[c] = clients[c]
      /\ \A c \in DOMAIN clients' \ DOMAIN clients : /\ c - Len(clients) \in DOMAIN new
                                                 /\ clients'[c] = fresh[c - Len(clients)]
  <2>1. DOMAIN fresh = DOMAIN new
    BY <1>1, <1>3
  <2> QED BY <1>1, <1>3, <1>5, <2>1, Concatenated
<1>7. ClientsTyped'
  BY <1>4, <1>6 DEF ClientsTyped
<1>8. ASSUME NEW c \in DOMAIN clients', NEW d \in DOMAIN clients', Cards!Exists(c)', Cards!Exists(d)',
             clients'[c].phone = clients'[d].phone
      PROVE  c = d
  <2>1. CASE c \in DOMAIN clients /\ d \in DOMAIN clients
    BY <1>6, <1>8, <2>1 DEF IndexUnique, Cards!Exists
  <2>2. ASSUME NEW x \in DOMAIN clients, NEW y \in DOMAIN clients' \ DOMAIN clients,
               clients'[x].st # "gone", clients'[x].phone = clients'[y].phone
        PROVE  FALSE
    <3>1. x \in Cards!Holding(clients'[y].phone)
      BY <1>6, <2>2 DEF Cards!Holding, Cards!Exists
    <3>2. Cards!Holding(clients'[y].phone) = {}
      <4>1. y - Len(clients) \in DOMAIN new /\ clients'[y].phone = new[y - Len(clients)].phone
        BY <1>4, <1>6, <2>2
      <4> QED BY <4>1
    <3> QED BY <3>1, <3>2
  <2>3. CASE c \notin DOMAIN clients /\ d \notin DOMAIN clients
    <3> DEFINE i == c - Len(clients)
               j == d - Len(clients)
    <3>1. i \in DOMAIN new /\ j \in DOMAIN new /\ new[i].phone = new[j].phone
      BY <1>4, <1>6, <1>8, <2>3
    <3>2. i = j
      BY <3>1
    <3>3. c \in Int /\ d \in Int
      BY <1>1, <1>6
    <3> QED BY <1>1, <3>2, <3>3
  <2> QED BY <1>8, <2>1, <2>2, <2>3 DEF Cards!Exists
<1>9. IndexUnique'
  BY <1>8 DEF IndexUnique
<1> QED BY <1>6, <1>7, <1>9

-----------------------------------------------------------------------------
(* The steps of a request *)

\* Somebody who comes in is looked for by their number.
LEMMA ArriveKeeps ==
  ASSUME ClientsAssumption, CardsInv, NEW h \in Handlers, NEW p \in Cards!People, NEW books \in BOOLEAN,
         NEW phone \in Cards!Doors(p), Cards!Arrive(h, p, phone, books)
  PROVE  CardsInv'
<1> DEFINE m == [Cards!Idle EXCEPT !.who = p, !.phone = phone, !.books = books]
           found == Cards!Found(m)
<1>1. DOMAIN m = ClientFields /\ m.who = p /\ m.phone = Number[p] /\ m.pc = "idle" /\ m.books = books
  BY DoorsAreNumber DEF Cards!Idle, ClientFields, ClientsAssumption
<1> HIDE DEF m
<1>2. ClientCarries(found, DOMAIN clients) \/ found.pc = "idle"
  <2>1. CASE Cards!Holding(m.phone) = {}
    BY <1>1, <2>1 DEF Cards!Found, ClientCarries, ClientFields, ClientStages
  <2>2. CASE Cards!Holding(m.phone) # {}
    <3> DEFINE c == CHOOSE d \in Cards!Holding(m.phone) : TRUE
               pc == IF ~Cards!Live(c) THEN "restore" ELSE IF m.books THEN "write" ELSE "idle"
    <3>1. c \in DOMAIN clients
      BY <2>2 DEF Cards!Holding
    <3>2. found = [m EXCEPT !.card = c, !.pc = pc]
      BY <2>2 DEF Cards!Found
    <3>3. pc \in {"restore", "write", "idle"}
      OBVIOUS
    <3> HIDE DEF c, pc
    <3> QED BY <1>1, <3>1, <3>2, <3>3 DEF ClientCarries, ClientFields, ClientStages
  <2> QED BY <2>1, <2>2
<1> HIDE DEF found
<1>3. Cards!Goto(h, IF found.pc = "idle" THEN Cards!Idle ELSE found) /\ UNCHANGED <<clients, bookings>>
  BY DEF Cards!Arrive, found, m
<1>4. ClientRequestsTyped'
  BY <1>2, <1>3, ClientIdleCarries, ClientRequestMoves DEF CardsInv
<1> QED BY <1>3, <1>4 DEF CardsInv, ClientsTyped, IndexUnique, ApptsTyped, BookedFor, Cards!Exists

\* A removed card comes back, if it is still there.
LEMMA RestoreKeeps ==
  ASSUME CardsInv, NEW h \in Handlers, Cards!Restore(h)
  PROVE  CardsInv'
<1> DEFINE c == inCourse[h].card
<1>1. c \in DOMAIN clients /\ DOMAIN inCourse[h] = ClientFields
  BY DEF Cards!Restore, CardsInv, ClientRequestsTyped, ClientCarries
<1>2. Cards!Goto(h, Cards!Resolved(inCourse[h], c)) /\ bookings' = bookings
  BY DEF Cards!Restore
<1>3. ClientsTyped' /\ IndexUnique' /\ CardsStand /\ DOMAIN clients' = DOMAIN clients
  <2>1. CASE Cards!Exists(c)
    <3>1. clients' = [clients EXCEPT ![c].st = "live"] /\ clients[c].st # "gone"
      BY <2>1 DEF Cards!Restore, Cards!Exists
    <3>2. "live" \in CardStates
      BY DEF CardStates
    <3> HIDE DEF c
    <3> QED BY <1>1, <3>1, <3>2, CardsRestated DEF CardsInv, CardsStand
  <2>2. CASE ~Cards!Exists(c)
    <3>1. clients' = clients
      BY <2>2 DEF Cards!Restore
    <3> QED BY <3>1 DEF CardsInv, ClientsTyped, IndexUnique, CardsStand, Cards!Exists
  <2> QED BY <2>1, <2>2
<1>4. ApptsTyped'
  BY <1>2, <1>3, ApptsFollow
<1>5. ClientRequestsTyped'
  BY <1>1, <1>2, <1>3, ClientResolvedCarries, ClientRequestMoves DEF CardsInv
<1> QED BY <1>3, <1>4, <1>5 DEF CardsInv

\* A card is made, unless somebody made it first.
LEMMA InsertKeeps ==
  ASSUME CardsInv, NEW h \in Handlers, Cards!Insert(h)
  PROVE  CardsInv'
<1> DEFINE m == inCourse[h]
           held == Cards!Holding(m.phone)
<1>1. DOMAIN m = ClientFields /\ m.who \in Cards!People /\ m.phone = Number[m.who]
  BY DEF Cards!Insert, CardsInv, ClientRequestsTyped, ClientCarries
<1>2. bookings' = bookings
  BY DEF Cards!Insert
<1>3. CASE held = {} /\ clients' = Append(clients, Cards!NewCard(m.phone, m.who)) /\ Cards!Goto(h, Cards!Resolved(m, Len(clients) + 1))
  <2> DEFINE x == [who |-> m.who, phone |-> m.phone]
             new == <<x>>
  <2>1. x \in {y \in Entry : OwnNumber(y)}
    BY <1>1, NumbersArePhones DEF Entry, OwnNumber
  <2>2. new \in Seq({y \in Entry : OwnNumber(y)}) /\ DOMAIN new = {1} /\ new[1] = x /\ Len(new) = 1
    BY <2>1
  <2>3. clients \in Seq(Card) /\ Len(clients) \in Nat /\ DOMAIN clients = 1 .. Len(clients)
    BY DEF CardsInv, ClientsTyped
  <2>4. [i \in DOMAIN new |-> Cards!NewCard(new[i].phone, new[i].who)] = <<Cards!NewCard(m.phone, m.who)>>
    BY <2>2
  <2>5. clients' = clients \o [i \in DOMAIN new |-> Cards!NewCard(new[i].phone, new[i].who)]
    BY <1>3, <2>3, <2>4
  <2>6. (\A i, j \in DOMAIN new : new[i].phone = new[j].phone => i = j) /\ \A i \in DOMAIN new : Cards!Holding(new[i].phone) = {}
    BY <1>3, <2>2
  <2> HIDE DEF new
  <2>7. /\ ClientsTyped' /\ IndexUnique' /\ DOMAIN clients' = 1 .. Len(clients) + 1
        /\ \A c \in DOMAIN clients : clients'[c] = clients[c]
    BY <2>2, <2>5, <2>6, CardsAdded DEF CardsInv
  <2>8. CardsStand /\ Len(clients) + 1 \in DOMAIN clients'
    BY <2>3, <2>7 DEF CardsStand
  <2>9. ApptsTyped'
    BY <1>2, <2>8, ApptsFollow
  <2>10. ClientRequestsTyped'
    BY <1>1, <1>3, <2>8, ClientResolvedCarries, ClientRequestMoves DEF CardsInv, CardsStand
  <2> QED BY <2>7, <2>9, <2>10 DEF CardsInv
<1>4. CASE held # {} /\ clients' = clients /\
           Cards!Goto(h, IF \E c \in held : Cards!Live(c) THEN Cards!Resolved(m, CHOOSE c \in held : Cards!Live(c)) ELSE Cards!Idle)
  <2>1. (\E c \in held : Cards!Live(c)) => (CHOOSE c \in held : Cards!Live(c)) \in DOMAIN clients
    BY DEF Cards!Holding
  <2>2. ClientRequestsTyped'
    BY <1>1, <1>4, <2>1, ClientResolvedCarries, ClientIdleCarries, ClientRequestMoves DEF CardsInv
  <2> QED BY <1>2, <1>4, <2>2 DEF CardsInv, ClientsTyped, IndexUnique, ApptsTyped, BookedFor, Cards!Exists
<1> QED BY <1>3, <1>4 DEF Cards!Insert

\* The foreign key keeps a booking from being of nobody.
LEMMA WriteKeeps ==
  ASSUME CardsInv, NEW h \in Handlers, Cards!Write(h)
  PROVE  CardsInv'
<1> DEFINE c == inCourse[h].card
           b == [card |-> c, st |-> "next"]
<1>1. c \in DOMAIN clients /\ clients \in Seq(Card)
  BY DEF Cards!Write, CardsInv, ClientRequestsTyped, ClientCarries, ClientsTyped
<1>2. clients' = clients /\ Cards!Goto(h, Cards!Idle)
  BY DEF Cards!Write, Cards!Done
<1>3. ClientRequestsTyped'
  BY <1>2, ClientIdleCarries, ClientRequestMoves DEF CardsInv
<1>4. ApptsTyped'
  <2>1. CASE Cards!Exists(c)
    <3>1. b \in Booking /\ BookedFor(b)
      BY <1>1, <2>1 DEF Booking, BookedFor
    <3>2. bookings' = Append(bookings, b) /\ bookings \in Seq(Booking)
      BY <2>1 DEF Cards!Write, CardsInv, ApptsTyped
    <3> HIDE DEF b
    <3>3. /\ bookings' \in Seq(Booking)
          /\ \A a \in DOMAIN bookings' : bookings'[a] = b \/ (a \in DOMAIN bookings /\ bookings'[a] = bookings[a])
      BY <3>1, <3>2
    <3> QED BY <1>2, <3>1, <3>3 DEF CardsInv, ApptsTyped, BookedFor, Cards!Exists
  <2>2. CASE ~Cards!Exists(c)
    BY <1>2, <2>2 DEF Cards!Write, CardsInv, ApptsTyped, BookedFor, Cards!Exists
  <2> QED BY <2>1, <2>2
<1> QED BY <1>2, <1>3, <1>4 DEF CardsInv, ClientsTyped, IndexUnique, Cards!Exists

\* A request whose stage is another, with the tables as they were.
LEMMA ClientOnlyRequestKeeps ==
  ASSUME CardsInv, NEW h \in Handlers, NEW m, Cards!Goto(h, m), ClientCarries(m, DOMAIN clients), UNCHANGED <<clients, bookings>>
  PROVE  CardsInv'
<1>1. ClientRequestsTyped'
  BY ClientRequestMoves DEF CardsInv
<1> QED BY <1>1 DEF CardsInv, ClientsTyped, IndexUnique, ApptsTyped, BookedFor, Cards!Exists

\* The panel chooses a card, or is about to correct it, or analyses a file.
LEMMA ClientPanelKeeps ==
  ASSUME ClientsAssumption, CardsInv, NEW h \in Handlers,
         \/ \E c \in DOMAIN clients : Cards!Choose(h, c) \/ \E p \in Cards!People : \E t \in Cards!Typed(p) : Cards!Correct(h, c, t)
         \/ \E file \in Files : Cards!Analyze(h, file)
  PROVE  CardsInv'
<1>1. ASSUME NEW c \in DOMAIN clients, Cards!Choose(h, c)
      PROVE  CardsInv'
  <2> DEFINE m == [Cards!Idle EXCEPT !.pc = "write", !.card = c]
  <2>1. ClientCarries(m, DOMAIN clients)
    BY DEF Cards!Idle, ClientCarries, ClientFields, ClientStages
  <2> QED BY <1>1, <2>1, ClientOnlyRequestKeeps DEF Cards!Choose
<1>2. ASSUME NEW c \in DOMAIN clients, NEW p \in Cards!People, NEW t \in Cards!Typed(p), Cards!Correct(h, c, t)
      PROVE  CardsInv'
  <2> DEFINE phone == Cards!ResolveClientPhone("typed", t.n, t.plus)
             m == [Cards!Idle EXCEPT !.pc = "correct", !.card = c, !.who = t.who, !.phone = phone]
  <2>1. t.who = p /\ phone = Number[p]
    BY TypedIsNumber DEF ClientsAssumption
  <2> HIDE DEF phone
  <2>2. ClientCarries(m, DOMAIN clients)
    BY <2>1 DEF Cards!Idle, ClientCarries, ClientFields, ClientStages
  <2>3. Cards!Goto(h, m) /\ UNCHANGED <<clients, bookings>>
    BY <1>2 DEF Cards!Correct, phone
  <2> HIDE DEF m
  <2> QED BY <2>2, <2>3, ClientOnlyRequestKeeps
<1>3. ASSUME NEW file \in Files, Cards!Analyze(h, file)
      PROVE  CardsInv'
  <2> DEFINE new == Cards!NewRows(file)
             m == [Cards!Idle EXCEPT !.pc = "batch", !.todo = new]
  <2>1. /\ new \in Seq({x \in Entry : OwnNumber(x)}) /\ new # <<>>
        /\ \A i, j \in DOMAIN new : new[i].phone = new[j].phone => i = j
    BY <1>3, NewRowsAreEntries DEF Cards!Analyze
  <2> HIDE DEF new
  <2>2. ClientCarries(m, DOMAIN clients)
    BY <2>1 DEF Cards!Idle, ClientCarries, ClientFields, ClientStages
  <2>3. Cards!Goto(h, m) /\ UNCHANGED <<clients, bookings>>
    BY <1>3 DEF Cards!Analyze, new
  <2> HIDE DEF m
  <2> QED BY <2>2, <2>3, ClientOnlyRequestKeeps
<1> QED BY <1>1, <1>2, <1>3

\* A corrected telephone is refused by the index when it is of another card.
LEMMA UpdateKeeps ==
  ASSUME CardsInv, NEW h \in Handlers, Cards!UpdateByTenant(h)
  PROVE  CardsInv'
<1> DEFINE m == inCourse[h]
           c == m.card
           r == [clients[c] EXCEPT !.phone = m.phone, !.who = m.who]
<1>1. c \in DOMAIN clients /\ m.who \in Cards!People /\ m.phone = Number[m.who]
  BY DEF Cards!UpdateByTenant, CardsInv, ClientRequestsTyped, ClientCarries
<1>2. bookings' = bookings /\ Cards!Goto(h, Cards!Idle)
  BY DEF Cards!UpdateByTenant, Cards!Done
<1>3. CASE clients' = clients
  BY <1>2, <1>3, ClientIdleCarries, ClientOnlyRequestKeeps
<1>4. CASE Cards!Exists(c) /\ Cards!Holding(m.phone) \subseteq {c} /\
           clients' = [clients EXCEPT ![c].phone = m.phone, ![c].who = m.who]
  <2>1. clients \in Seq(Card) /\ clients[c] \in Card
    BY <1>1 DEF CardsInv, ClientsTyped
  <2>2. r \in Card /\ r.phone = m.phone /\ r.who = m.who /\ r.st = clients[c].st
    BY <1>1, <2>1, NumbersArePhones DEF Card
  <2>3. clients' = [clients EXCEPT ![c] = r]
    BY <1>1, <1>4, <2>1 DEF Card
  <2> HIDE DEF r
  <2>4. /\ clients' \in Seq(Card) /\ DOMAIN clients' = DOMAIN clients /\ clients'[c] = r
        /\ \A d \in DOMAIN clients : d # c => clients'[d] = clients[d]
    BY <1>1, <2>1, <2>2, <2>3
  <2>5. ClientsTyped'
    BY <1>1, <2>2, <2>4 DEF CardsInv, ClientsTyped, OwnNumber
  <2>6. \A d \in DOMAIN clients : d # c /\ clients[d].st # "gone" => clients[d].phone # m.phone
    BY <1>4 DEF Cards!Holding, Cards!Exists
  <2>7. IndexUnique'
    BY <2>2, <2>4, <2>6 DEF CardsInv, IndexUnique, Cards!Exists
  <2>8. CardsStand
    BY <2>2, <2>4 DEF CardsStand
  <2>9. ApptsTyped'
    BY <1>2, <2>8, ApptsFollow
  <2>10. ClientRequestsTyped'
    BY <1>2, <2>4, ClientIdleCarries, ClientRequestMoves DEF CardsInv
  <2> QED BY <2>5, <2>7, <2>9, <2>10 DEF CardsInv
<1> QED BY <1>3, <1>4 DEF Cards!UpdateByTenant

\* A file is written at once, or left to be written row by row.
LEMMA ChunkKeeps ==
  ASSUME CardsInv, NEW h \in Handlers, Cards!InsertChunk(h)
  PROVE  CardsInv'
<1> DEFINE new == inCourse[h].todo
           m == [inCourse[h] EXCEPT !.pc = "rows"]
<1>1. /\ DOMAIN inCourse[h] = ClientFields /\ new # <<>> /\ new \in Seq({x \in Entry : OwnNumber(x)})
      /\ \A i, j \in DOMAIN new : new[i].phone = new[j].phone => i = j
  BY DEF Cards!InsertChunk, CardsInv, ClientRequestsTyped, ClientCarries
<1>2. bookings' = bookings
  BY DEF Cards!InsertChunk
<1>3. CASE /\ \A i \in DOMAIN new : Cards!Holding(new[i].phone) = {}
           /\ clients' = clients \o [i \in DOMAIN new |-> Cards!NewCard(new[i].phone, new[i].who)]
           /\ Cards!Goto(h, Cards!Idle)
  <2> HIDE DEF new
  <2>1. /\ ClientsTyped' /\ IndexUnique' /\ DOMAIN clients' = 1 .. Len(clients) + Len(new)
        /\ \A c \in DOMAIN clients : clients'[c] = clients[c]
    BY <1>1, <1>3, CardsAdded DEF CardsInv
  <2>2. DOMAIN clients = 1 .. Len(clients) /\ Len(clients) \in Nat /\ Len(new) \in Nat
    BY <1>1 DEF CardsInv, ClientsTyped
  <2>3. CardsStand
    BY <2>1, <2>2 DEF CardsStand
  <2>4. ApptsTyped'
    BY <1>2, <2>3, ApptsFollow
  <2>5. ClientRequestsTyped'
    BY <1>3, <2>3, ClientIdleCarries, ClientRequestMoves DEF CardsInv, CardsStand
  <2> QED BY <2>1, <2>4, <2>5 DEF CardsInv
<1>4. CASE Cards!Goto(h, m) /\ clients' = clients
  <2>1. ClientCarries(m, DOMAIN clients)
    BY <1>1 DEF ClientCarries, ClientFields, ClientStages
  <2> HIDE DEF m
  <2> QED BY <1>2, <1>4, <2>1, ClientOnlyRequestKeeps
<1> QED BY <1>3, <1>4 DEF Cards!InsertChunk, Cards!Done

\* Row by row, what somebody else made meanwhile is skipped.
LEMMA RowKeeps ==
  ASSUME CardsInv, NEW h \in Handlers, Cards!InsertRow(h)
  PROVE  CardsInv'
<1> DEFINE todo == inCourse[h].todo
           x == Head(todo)
           m == IF Len(todo) = 1 THEN Cards!Idle ELSE [inCourse[h] EXCEPT !.todo = Tail(@)]
<1>1. DOMAIN inCourse[h] = ClientFields /\ inCourse[h].pc = "rows" /\ todo # <<>> /\ todo \in Seq({y \in Entry : OwnNumber(y)})
  BY DEF Cards!InsertRow, CardsInv, ClientRequestsTyped, ClientCarries
<1>2. bookings' = bookings /\ Cards!Goto(h, m)
  BY DEF Cards!InsertRow, Cards!Done
<1>3. \A known : ClientCarries(m, known)
  <2>1. CASE Len(todo) = 1
    BY <2>1, ClientIdleCarries
  <2>2. CASE Len(todo) # 1
    <3>1. Tail(todo) \in Seq({y \in Entry : OwnNumber(y)}) /\ Tail(todo) # <<>>
      BY <1>1, <2>2, TailOfSeveral
    <3> QED BY <1>1, <2>2, <3>1 DEF ClientCarries, ClientFields, ClientStages
  <2> QED BY <2>1, <2>2
<1> HIDE DEF m
<1>4. CASE clients' = clients
  BY <1>2, <1>3, <1>4, ClientOnlyRequestKeeps
<1>5. CASE Cards!Holding(x.phone) = {} /\ clients' = Append(clients, Cards!NewCard(x.phone, x.who))
  <2> DEFINE new == <<x>>
  <2>1. x \in {y \in Entry : OwnNumber(y)}
    BY <1>1
  <2> HIDE DEF x
  <2>2. new \in Seq({y \in Entry : OwnNumber(y)}) /\ DOMAIN new = {1} /\ new[1] = x /\ Len(new) = 1
    BY <2>1
  <2>3. clients \in Seq(Card) /\ Len(clients) \in Nat /\ DOMAIN clients = 1 .. Len(clients)
    BY DEF CardsInv, ClientsTyped
  <2>4. [i \in DOMAIN new |-> Cards!NewCard(new[i].phone, new[i].who)] = <<Cards!NewCard(x.phone, x.who)>>
    BY <2>2
  <2>5. clients' = clients \o [i \in DOMAIN new |-> Cards!NewCard(new[i].phone, new[i].who)]
    BY <1>5, <2>3, <2>4
  <2>6. (\A i, j \in DOMAIN new : new[i].phone = new[j].phone => i = j) /\ \A i \in DOMAIN new : Cards!Holding(new[i].phone) = {}
    BY <1>5, <2>2
  <2> HIDE DEF new
  <2>7. /\ ClientsTyped' /\ IndexUnique' /\ DOMAIN clients' = 1 .. Len(clients) + 1
        /\ \A c \in DOMAIN clients : clients'[c] = clients[c]
    BY <2>2, <2>5, <2>6, CardsAdded DEF CardsInv
  <2>8. CardsStand
    BY <2>3, <2>7 DEF CardsStand
  <2>9. ApptsTyped'
    BY <1>2, <2>8, ApptsFollow
  <2>10. ClientRequestsTyped'
    BY <1>2, <1>3, <2>8, ClientRequestMoves DEF CardsInv, CardsStand
  <2> QED BY <2>7, <2>9, <2>10 DEF CardsInv
<1> QED BY <1>4, <1>5 DEF Cards!InsertRow

-----------------------------------------------------------------------------
(* The panel and the agenda *)

\* A card is deleted only when it has no appointments, counted in the same transaction.
LEMMA ClientRemoveKeeps ==
  ASSUME CardsInv, NEW c \in DOMAIN clients, Cards!RemoveByTenant(c)
  PROVE  CardsInv'
<1> DEFINE next == {a \in Cards!Of(c) : bookings[a].st = "next"}
           outcome == Cards!ClientDeletion(Cardinality(Cards!Of(c)), Cardinality(next))
           st == IF outcome = "HARD" THEN "gone" ELSE "removed"
<1>1. bookings \in Seq(Booking) /\ DOMAIN bookings = 1 .. Len(bookings) /\ Len(bookings) \in Nat
  BY DEF CardsInv, ApptsTyped
<1>2. IsFiniteSet(Cards!Of(c))
  <2>1. IsFiniteSet(1 .. Len(bookings)) /\ Cards!Of(c) \in SUBSET (1 .. Len(bookings))
    BY <1>1, FS_Interval DEF Cards!Of
  <2> QED BY <2>1, FS_Subset
<1>3. outcome = "HARD" => Cards!Of(c) = {}
  <2>1. IsFiniteSet(next) /\ Cardinality(next) \in Nat /\ Cardinality(Cards!Of(c)) \in Nat
    BY <1>2, FS_Subset, FS_CardinalityType
  <2>2. outcome = "HARD" => Cardinality(Cards!Of(c)) = 0
    BY <2>1 DEF Cards!ClientDeletion
  <2> QED BY <1>2, <2>2, FS_EmptySet
<1> DEFINE counted == Cards!ClientDeletion(Cards!Cardinality(Cards!Of(c)), Cards!Cardinality(next))
<1>4. counted = outcome
  BY Zenon, SameCardsCount
<1>5. /\ clients' = [clients EXCEPT ![c].st = st] /\ clients[c].st # "gone" /\ inCourse' = inCourse
      /\ bookings' = bookings
  <2>1. /\ clients' = [clients EXCEPT ![c].st = IF counted = "HARD" THEN "gone" ELSE "removed"]
        /\ clients[c].st = "live" /\ inCourse' = inCourse
        /\ bookings' = IF counted = "HARD" THEN [a \in DOMAIN bookings |-> IF a \in Cards!Of(c) THEN [bookings[a] EXCEPT !.st = "gone"] ELSE bookings[a]]
                       ELSE bookings
    BY DEF Cards!RemoveByTenant, Cards!Live
  <2> HIDE DEF counted, outcome
  <2> QED BY <1>1, <1>3, <1>4, <2>1
<1> HIDE DEF outcome
<1>6. st \in CardStates
  BY DEF CardStates
<1>7. st = "gone" => Cards!Of(c) = {}
  BY <1>3
<1> HIDE DEF st
<1>8. /\ ClientsTyped' /\ IndexUnique' /\ DOMAIN clients' = DOMAIN clients
      /\ clients'[c].st = st /\ \A d \in DOMAIN clients : d # c => clients'[d] = clients[d]
  BY <1>5, <1>6, CardsRestated DEF CardsInv
<1>9. CardsStand
  BY <1>7, <1>8 DEF CardsStand, Cards!Of
<1>10. ApptsTyped'
  BY <1>5, <1>9, ApptsFollow
<1>11. ClientRequestsTyped'
  BY <1>5, <1>8 DEF CardsInv, ClientRequestsTyped
<1> QED BY <1>8, <1>10, <1>11 DEF CardsInv

\* An appointment that is over stays in its table.
LEMMA SettleKeeps ==
  ASSUME CardsInv, NEW a \in DOMAIN bookings, Cards!Settle(a)
  PROVE  CardsInv'
<1>1. PICK st \in {"past", "cancelled"} : bookings' = [bookings EXCEPT ![a].st = st]
  BY DEF Cards!Settle
<1>2. bookings \in Seq(Booking) /\ bookings[a] \in Booking
  BY DEF CardsInv, ApptsTyped
<1> DEFINE b == [bookings[a] EXCEPT !.st = st]
<1>3. b \in Booking /\ b.card = bookings[a].card /\ b.st # "gone"
  BY <1>2 DEF Booking
<1>4. bookings' = [bookings EXCEPT ![a] = b]
  BY <1>1, <1>2 DEF Booking
<1> HIDE DEF b
<1>5. bookings' \in Seq(Booking) /\ \A d \in DOMAIN bookings' : d \in DOMAIN bookings /\ (bookings'[d] = bookings[d] \/ (d = a /\ bookings'[d] = b))
  BY <1>2, <1>3, <1>4
<1>6. UNCHANGED <<clients, inCourse>>
  BY DEF Cards!Settle
<1>7. ApptsTyped'
  BY <1>3, <1>5, <1>6 DEF CardsInv, ApptsTyped, BookedFor, Cards!Exists
<1> QED BY <1>6, <1>7 DEF CardsInv, ClientsTyped, IndexUnique, ClientRequestsTyped, Cards!Exists

-----------------------------------------------------------------------------

\* Every step keeps the invariant.
LEMMA CardsNext ==
  ASSUME ClientsAssumption, CardsInv, [Cards!Next]_(Cards!vars)
  PROVE  CardsInv'
<1>1. ASSUME NEW h \in Handlers, Cards!Crash(h)
      PROVE  CardsInv'
  BY <1>1, ClientIdleCarries, ClientOnlyRequestKeeps DEF Cards!Crash, Cards!Done
<1>2. CASE UNCHANGED Cards!vars
  BY <1>2 DEF Cards!vars, CardsInv, ClientsTyped, IndexUnique, ApptsTyped, BookedFor, ClientRequestsTyped, Cards!Exists
<1>3. CASE Cards!Next
  BY <1>1, <1>3, ArriveKeeps, ClientPanelKeeps, RestoreKeeps, InsertKeeps, WriteKeeps, UpdateKeeps, ChunkKeeps, RowKeeps,
     ClientRemoveKeeps, SettleKeeps DEF Cards!Next
<1> QED BY <1>2, <1>3

\* The empty list of clients is in order.
LEMMA CardsInit ==
  ASSUME Cards!Init
  PROVE  CardsInv
BY ClientIdleCarries DEF Cards!Init, CardsInv, ClientsTyped, IndexUnique, ApptsTyped, ClientRequestsTyped

\* One card per phone in a business is one card per person.
LEMMA CardsAreOne ==
  ASSUME CardsInv
  PROVE  Cards!OnePersonOneCard
BY DEF CardsInv, ClientsTyped, IndexUnique, Cards!OnePersonOneCard, OwnNumber

\* What was booked stays booked for a card that exists.
LEMMA CardsKeepHistory ==
  ASSUME CardsInv
  PROVE  Cards!ClientHistoryStays
BY DEF CardsInv, ApptsTyped, BookedFor, Cards!ClientHistoryStays

\* What the invariant says of the cards, the bookings and the requests is their type.
LEMMA CardsAreTyped == CardsInv => Cards!TypeOK
<1> SUFFICES ASSUME CardsInv PROVE Cards!TypeOK
  OBVIOUS
<1>1. clients \in Seq([phone : Cards!Phones, st : {"live", "removed", "gone"}, who : Cards!People])
  BY DEF CardsInv, ClientsTyped, Card, CardStates
<1>2. \A h \in Handlers : inCourse[h].pc \in {"idle", "insert", "restore", "write", "correct", "batch", "rows"}
  BY DEF CardsInv, ClientRequestsTyped, ClientCarries, ClientStages
<1> DEFINE T == [card : DOMAIN clients, st : {"next", "past", "cancelled", "gone"}]
<1>3. bookings \in Seq(Booking) /\ \A a \in DOMAIN bookings : bookings[a] \in T
  <2>1. bookings \in Seq(Booking)
    BY DEF CardsInv, ApptsTyped
  <2>2. ASSUME NEW a \in DOMAIN bookings
        PROVE  bookings[a] \in T
    <3>1. bookings[a] \in Booking
      BY <2>1
    <3>2. bookings[a].card \in DOMAIN clients
      BY DEF CardsInv, ApptsTyped, BookedFor
    <3> QED BY <3>1, <3>2 DEF Booking
  <2> QED BY <2>1, <2>2
<1> HIDE DEF T
<1>4. bookings \in Seq(T)
  BY <1>3
<1> QED BY <1>1, <1>2, <1>4 DEF Cards!TypeOK, T

-----------------------------------------------------------------------------
(* History, cards and access *)

\* No appointment that was ever written goes with the professional who did it nor with the
\* client it was for, whatever is saved, removed or booked at once.
THEOREM HistoryStays == Spec => []HistorySurvives
<1> DEFINE I == (part = "team" => TeamInv) /\ (part = "cards" => CardsInv)
<1>0. Team!TeamAssumption /\ ClientsAssumption
  BY PartsAssumption DEF ClientsAssumption
<1>1. Init => I
  BY <1>0, PartInit, TeamInit, CardsInit
<1>2. I /\ [Next]_vars => I'
  BY <1>0, PartNext, TeamNext, CardsNext
<1>3. I => HistorySurvives
  BY CardsKeepHistory DEF HistorySurvives, TeamInv
<1> QED BY <1>1, <1>2, <1>3, PTL DEF Spec

\* Whatever comes by whichever doors, at once or with a card removed in between, nobody has two
\* cards in a business.
THEOREM OneCardEach == Spec => []OnePersonOneCard
<1> DEFINE I == part = "cards" => CardsInv
<1>0. ClientsAssumption
  BY PartsAssumption DEF ClientsAssumption
<1>1. Init => I
  BY <1>0, PartInit, CardsInit
<1>2. I /\ [Next]_vars => I'
  BY <1>0, PartNext, CardsNext
<1>3. I => OnePersonOneCard
  BY CardsAreOne DEF OnePersonOneCard
<1> QED BY <1>1, <1>2, <1>3, PTL DEF Spec

\* The account a card lets in is the one it was last invited with, while one request of the team
\* is taken at a time; with two, the copy that one saves may undo the invitation of the other.
THEOREM OnlyTheInvitedEnter ==
  ASSUME OneRequest
  PROVE  Spec => []LinkedIsInvited
<1> DEFINE I == part = "team" => TeamInv /\ AccessInv
<1>0. Team!TeamAssumption
  BY PartsAssumption
<1>1. Init => I
  BY <1>0, PartInit, TeamInit, AccessInit
<1>2. I /\ [Next]_vars => I'
  BY <1>0, PartNext, TeamNext, AccessNext
<1>3. I => LinkedIsInvited
  BY DEF LinkedIsInvited, AccessInv
<1> QED BY <1>1, <1>2, <1>3, PTL DEF Spec

-----------------------------------------------------------------------------
(* Whose an appointment is *)

Holders == Accounts \cup {Nothing}
Appointment == [owner : Holders, ahead : BOOLEAN]

\* Who is signed in, who asks and who owns are accounts or nobody.  Nothing is needed of what the
\* cookies and the links name: any appointment, of the past or not booked yet.
OwnersInv ==
  /\ owned \in Seq(Appointment)
  /\ session \in [Browsers -> Holders]
  /\ visits = [h \in Handlers |-> visits[h]] /\ \A h \in Handlers : visits[h].account \in Holders

\* A request that comes or goes leaves the others as they were.
LEMMA RequestsTyped ==
  ASSUME OwnersInv, NEW h \in Handlers, NEW m, m.account \in Holders, visits' = [visits EXCEPT ![h] = m]
  PROVE  visits' = [k \in Handlers |-> visits'[k]] /\ \A k \in Handlers : visits'[k].account \in Holders
BY DEF OwnersInv

\* A request that ends leaves the others as they were.
LEMMA DoneTyped ==
  ASSUME OwnersInv, NEW h \in Handlers, Owners!Done(h)
  PROVE  visits' = [k \in Handlers |-> visits'[k]] /\ \A k \in Handlers : visits'[k].account \in Holders
<1>1. Owners!Idle.account \in Holders
  BY DEF Owners!Idle, Holders
<1> QED BY <1>1, RequestsTyped DEF Owners!Done

\* A booking is added behind the others.
LEMMA BookedKeeps ==
  ASSUME owned \in Seq(Appointment), NEW o \in Holders, owned' = Owners!Booked(o)
  PROVE  owned' \in Seq(Appointment) /\ Owners!Kept
<1>1. [owner |-> o, ahead |-> TRUE] \in Appointment
  BY DEF Appointment
<1> QED BY <1>1 DEF Owners!Booked, Owners!Kept

\* Linking touches only what is nobody's.
LEMMA LinkedKeeps ==
  ASSUME owned \in Seq(Appointment), NEW ids, NEW account \in Holders, owned' = Owners!Linked(ids, account)
  PROVE  owned' \in Seq(Appointment) /\ Owners!Kept
<1>1. Len(owned) \in Nat /\ DOMAIN owned = 1 .. Len(owned)
  OBVIOUS
<1>2. ASSUME NEW a \in DOMAIN owned
      PROVE  /\ owned'[a] \in {owned[a], [owned[a] EXCEPT !.owner = account]}
             /\ owned[a].owner # Nothing => owned'[a] = owned[a]
             /\ owned'[a] \in Appointment
  <2>1. owned[a] \in Appointment
    BY <1>1
  <2>2. [owned[a] EXCEPT !.owner = account] \in Appointment
    BY <2>1 DEF Appointment
  <2>3. /\ owned'[a] \in {owned[a], [owned[a] EXCEPT !.owner = account]}
        /\ owned[a].owner # Nothing => owned'[a] = owned[a]
    BY DEF Owners!Linked, Owners!Unclaimed
  <2> QED BY <2>1, <2>2, <2>3
<1>3. DOMAIN owned' = 1 .. Len(owned) /\ owned' = [a \in 1 .. Len(owned) |-> owned'[a]]
  BY <1>1 DEF Owners!Linked
<1>4. owned' \in Seq(Appointment)
  BY <1>1, <1>2, <1>3
<1> QED BY <1>2, <1>4 DEF Owners!Kept

\* Every step keeps the types, and every owner.
LEMMA OwnersStep ==
  ASSUME OwnersInv, [Owners!Next]_(Owners!vars)
  PROVE  OwnersInv' /\ (Owners!Kept \/ UNCHANGED Owners!vars)
<1> USE DEF OwnersInv
<1>0. owned \in Seq(Appointment) /\ session \in [Browsers -> Holders] /\ Nothing \in Holders
  BY DEF Holders
<1>1. ASSUME NEW h \in Handlers, NEW b \in Browsers, Owners!Book(h, b) PROVE OwnersInv' /\ Owners!Kept
  <2>1. session[b] \in Holders
    BY <1>0
  <2> QED BY <1>1, <2>1, RequestsTyped DEF Owners!Book, Owners!Kept
<1>2. ASSUME NEW h \in Handlers, NEW b \in Browsers, NEW account \in Accounts, Owners!SignIn(h, b, account)
      PROVE  OwnersInv' /\ Owners!Kept
  BY <1>2, RequestsTyped DEF Owners!SignIn, Owners!Kept, Holders
<1>3. ASSUME NEW h \in Handlers, Owners!CreateBooking(h) PROVE OwnersInv' /\ Owners!Kept
  <2>1. Owners!Done(h) /\ owned' = Owners!Booked(visits[h].account) /\ session' = session
    BY <1>3 DEF Owners!CreateBooking
  <2> QED BY <2>1, BookedKeeps, DoneTyped
<1>4. ASSUME NEW h \in Handlers, Owners!GoogleCallback(h) PROVE OwnersInv' /\ Owners!Kept
  <2>1. Owners!Done(h) /\ owned' \in {owned, Owners!Linked(visits[h].ids, visits[h].account)}
    BY <1>4 DEF Owners!GoogleCallback
  <2>2. session' \in [Browsers -> Holders]
    BY <1>0, <1>4 DEF Owners!GoogleCallback
  <2>3. owned' \in Seq(Appointment) /\ Owners!Kept
    BY <2>1, LinkedKeeps DEF Owners!Kept
  <2> QED BY <2>1, <2>2, <2>3, DoneTyped
<1>5. ASSUME NEW h \in Handlers, Owners!Refused(h) PROVE OwnersInv' /\ Owners!Kept
  BY <1>5, DoneTyped DEF Owners!Refused, Owners!Kept
<1>6. ASSUME NEW b \in Browsers, Owners!Logout(b) \/ Owners!Expire(b) PROVE OwnersInv' /\ Owners!Kept
  BY <1>0, <1>6 DEF Owners!Logout, Owners!Expire, Owners!Kept
<1>7. ASSUME NEW b \in Browsers, NEW ids \in links, Owners!ClaimFromLink(b, ids) PROVE OwnersInv' /\ Owners!Kept
  <2>1. session[b] \in Holders /\ owned' = Owners!Linked(ids, session[b])
    BY <1>0, <1>7 DEF Owners!ClaimFromLink
  <2> QED BY <1>7, <2>1, LinkedKeeps DEF Owners!ClaimFromLink
<1>8. CASE Owners!BookByWhatsapp
  BY <1>0, <1>8, BookedKeeps DEF Owners!BookByWhatsapp
<1>9. CASE Owners!SendLink
  BY <1>9 DEF Owners!SendLink, Owners!Kept
<1>10. ASSUME NEW a \in DOMAIN owned, Owners!Pass(a) PROVE OwnersInv' /\ Owners!Kept
  <2>1. owned' = [owned EXCEPT ![a] = [owned[a] EXCEPT !.ahead = FALSE]] /\ session' = session /\ visits' = visits
    BY <1>10 DEF Owners!Pass
  <2>2. owned[a] \in Appointment
    BY <1>0
  <2>3. [owned[a] EXCEPT !.ahead = FALSE] \in Appointment
        /\ [owned[a] EXCEPT !.ahead = FALSE].owner = owned[a].owner
    BY <2>2 DEF Appointment
  <2> QED BY <1>0, <2>1, <2>3 DEF Owners!Kept
<1>11. CASE UNCHANGED Owners!vars
  BY <1>11 DEF Owners!vars
<1> QED BY <1>1, <1>2, <1>3, <1>4, <1>5, <1>6, <1>7, <1>8, <1>9, <1>10, <1>11 DEF Owners!Next

\* Nobody owns anything before the first booking.
LEMMA OwnersStart == Owners!Init => OwnersInv
BY DEF Owners!Init, OwnersInv, Holders, Owners!Idle

\* Whatever cookies and links name, and in whatever order requests end, an appointment that has
\* an owner keeps it.
THEOREM OwnersStay == Spec => OwnerIsKept
<1> DEFINE I == part = "owners" => OwnersInv
<1>1. Init => I
  BY PartInit, OwnersStart
<1>2. I /\ [Next]_vars => I' /\ [part = "owners" => Owners!Kept]_vars
  <2> SUFFICES ASSUME I, [Next]_vars PROVE I' /\ ((part = "owners" => Owners!Kept) \/ UNCHANGED vars)
    OBVIOUS
  <2>1. CASE part = "owners"
    <3>1. [Owners!Next]_(Owners!vars) /\ part' = part
      BY <2>1, PartNext
    <3>2. OwnersInv' /\ (Owners!Kept \/ UNCHANGED Owners!vars)
      BY <2>1, <3>1, OwnersStep
    <3>3. UNCHANGED Owners!vars => Owners!Kept
      BY DEF Owners!vars, Owners!Kept
    <3> QED BY <3>2, <3>3
  <2>2. CASE part # "owners"
    BY <2>2, PartNext
  <2> QED BY <2>1, <2>2
<1> QED BY <1>1, <1>2, PTL DEF Spec, OwnerIsKept

-----------------------------------------------------------------------------
(* What a business pays *)

MoneyAssumptions == Money!ClockAssumption /\ Money!ExtensionsAssumption /\ Money!TermsAssumption /\ Money!CalendarAssumption

\* A day is of one month only.
LEMMA OneMonth ==
  ASSUME Money!CalendarAssumption, NEW d \in Int, NEW i \in Money!Months, NEW j \in Money!Months,
         Money!InMonth(d, i), Money!InMonth(d, j)
  PROVE  i <= j
<1>1. FirstDay \in Seq(Nat) /\ Len(FirstDay) \in Nat
  BY DEF Money!CalendarAssumption
<1>2. i \in Int /\ j \in Int /\ i \in 1 .. Len(FirstDay) /\ j \in 1 .. Len(FirstDay) /\ j + 1 \in 1 .. Len(FirstDay)
  BY <1>1 DEF Money!Months
<1>3. FirstDay[i] \in Nat /\ FirstDay[j + 1] \in Nat
  BY <1>1, <1>2
<1>4. FirstDay[i] <= d /\ d < FirstDay[j + 1]
  BY DEF Money!InMonth
<1>5. SUFFICES ASSUME j < i PROVE FALSE
  BY <1>2
<1>6. \A k, l \in 1 .. Len(FirstDay) : k < l => FirstDay[k] < FirstDay[l]
  BY DEF Money!CalendarAssumption
<1>7. j + 1 = i \/ FirstDay[j + 1] < FirstDay[i]
  BY <1>2, <1>5, <1>6
<1> QED BY <1>3, <1>4, <1>7

\* A month later is a day, as long as the calendar reaches it.
LEMMA MonthsAreDays ==
  ASSUME Money!CalendarAssumption, NEW d \in Int, NEW n \in Nat, Money!InCalendar(d, n)
  PROVE  Money!AddMonths(d, n) \in Int
<1> DEFINE from == CHOOSE m \in Money!Months : Money!InMonth(d, m)
<1>1. PICK m \in Money!Months : Money!InMonth(d, m) /\ m + n \in Money!Months
  BY DEF Money!InCalendar
<1>2. from \in Money!Months /\ Money!InMonth(d, from)
  BY <1>1
<1>3. Money!AddMonths(d, n) \in {FirstDay[from + n] + (d - FirstDay[from]), FirstDay[from + n + 1] - 1}
  BY DEF Money!AddMonths
<1> HIDE DEF from
<1>4. from = m
  <2>1. from <= m /\ m <= from
    BY <1>1, <1>2, OneMonth
  <2> QED BY <2>1, <1>1, <1>2 DEF Money!Months
<1>5. FirstDay \in Seq(Nat) /\ Len(FirstDay) \in Nat
  BY DEF Money!CalendarAssumption
<1>6. m + n \in 1 .. Len(FirstDay) /\ m + n + 1 \in 1 .. Len(FirstDay) /\ m \in 1 .. Len(FirstDay)
  BY <1>1, <1>5 DEF Money!Months
<1>7. FirstDay[m + n] \in Nat /\ FirstDay[m + n + 1] \in Nat /\ FirstDay[m] \in Nat
  BY <1>5, <1>6
<1> QED BY <1>3, <1>4, <1>7

\* A business that has just signed up is well typed.
LEMMA MoneyTypeInit == MoneyAssumptions => (Money!Init => Money!TypeOK)
BY DEF MoneyAssumptions, Money!ClockAssumption, Money!Init, Money!TypeOK, Money!Statuses, Money!Idle, Money!Null

\* Every write of support and of the connection leaves dates and a state the row can hold.
LEMMA MoneyTypeNext ==
  ASSUME MoneyAssumptions, Money!TypeOK, [Money!Next]_(Money!vars)
  PROVE  Money!TypeOK'
<1> USE DEF Money!TypeOK, Money!Statuses
<1>1. CASE Money!StartTrial
  BY <1>1 DEF Money!StartTrial, MoneyAssumptions, Money!ClockAssumption
<1>2. ASSUME NEW h \in Handlers, NEW n \in Extensions, Money!Read(h, "extend", n) PROVE Money!TypeOK'
  BY <1>2 DEF Money!Read, MoneyAssumptions, Money!ExtensionsAssumption
<1>3. ASSUME NEW h \in Handlers, NEW n \in Terms, Money!Read(h, "pay", n) PROVE Money!TypeOK'
  BY <1>3 DEF Money!Read, MoneyAssumptions, Money!TermsAssumption
<1>4. ASSUME NEW h \in Handlers, Money!ExtendTrial(h) PROVE Money!TypeOK'
  <2>1. desk[h].amount \in Nat /\ desk[h].now \in Nat /\ desk[h].start \in Nat /\ desk[h].trial \in Nat
    OBVIOUS
  <2>2. Money!ExtendedEnd(desk[h], desk[h].amount) \in Nat
    BY <2>1 DEF Money!ExtendedEnd
  <2>3. desk' = [desk EXCEPT ![h] = Money!Idle] /\ paidTo' = paidTo /\ day' = day
    BY <1>4 DEF Money!ExtendTrial, Money!Done
  <2>4. plan' \in Money!Statuses /\ trialStart' \in Nat /\ trialEnd' \in Nat
    BY <1>4, <2>1, <2>2 DEF Money!ExtendTrial
  <2> QED BY <2>3, <2>4 DEF Money!Idle, Money!Null
<1>5. ASSUME NEW h \in Handlers, Money!PaySubscription(h) PROVE Money!TypeOK'
  <2>1. Money!PaidFrom(desk[h]) \in Int
    BY DEF Money!PaidFrom, MoneyAssumptions, Money!ClockAssumption
  <2>2. Money!AddMonths(Money!PaidFrom(desk[h]), desk[h].amount) \in Int
    BY <1>5, <2>1, MonthsAreDays DEF Money!PaySubscription, MoneyAssumptions
  <2> QED BY <1>5, <2>2 DEF Money!PaySubscription, Money!Done, Money!Idle, Money!Null
<1>6. ASSUME NEW h \in Handlers, Money!Lost(h) PROVE Money!TypeOK'
  BY <1>6 DEF Money!Lost, Money!Done, Money!Idle, Money!Null
<1>7. CASE Money!Dawn
  BY <1>7 DEF Money!Dawn, MoneyAssumptions, Money!ClockAssumption
<1>8. CASE UNCHANGED Money!vars
  BY <1>8 DEF Money!vars
<1> QED BY <1>1, <1>2, <1>3, <1>4, <1>5, <1>6, <1>7, <1>8 DEF Money!Next

-----------------------------------------------------------------------------
(* The clock of the trial *)

\* A request holds a row that was once the row, and the moment it began.
Copied(m) ==
  /\ m.op # "idle" => m.now # Money!Null
  /\ m.op = "extend" => m.amount \in Extensions
TrialInv ==
  /\ Money!TypeOK
  /\ trialStart # Money!Null => plan \in {"TRIAL", "ACTIVE"}
  /\ \A h \in Handlers :
       Copied(desk[h]) /\ (desk[h].start # Money!Null => desk[h].status \in {"TRIAL", "ACTIVE"})

\* What nobody holds is in order.
LEMMA NoCopy == Copied(Money!Idle) /\ Money!Idle.start = Money!Null /\ Money!Idle.op = "idle"
BY DEF Copied, Money!Idle, Money!Null

\* An extension that nothing overtook keeps the day the trial began, and adds.
LEMMA ExtensionAdds ==
  ASSUME MoneyAssumptions, TrialInv, NEW h \in Handlers, Money!ExtendTrial(h)
  PROVE  (trialStart' # Money!Null => plan' \in {"TRIAL", "ACTIVE"}) /\ Money!TrialClock
<1> DEFINE m == desk[h]
<1>1. /\ Money!TypeOK /\ m.op = "extend" /\ m.amount \in Nat /\ m.amount >= TrialDays /\ m.now \in Nat
      /\ trialStart \in Nat /\ trialEnd \in Nat /\ TrialDays \in Nat
  BY DEF Money!ExtendTrial, TrialInv, Copied, Money!TypeOK, MoneyAssumptions, Money!ExtensionsAssumption, Money!ClockAssumption
<1>2. CASE UNCHANGED <<plan, trialStart, trialEnd>>
  BY <1>1, <1>2 DEF TrialInv, Money!TrialClock
<1>3. CASE /\ Money!CanExtendTrial(m.status) /\ plan' = "TRIAL"
           /\ trialStart' = (IF m.start = Money!Null THEN m.now ELSE m.start)
           /\ trialEnd' = Money!ExtendedEnd(m, m.amount)
  <2>1. CASE Money!Overtaken(h)
    <3>1. desk'[h] = Money!Idle
      BY <1>1 DEF Money!ExtendTrial, Money!Done, Money!TypeOK
    <3> QED BY <1>3, <2>1, <3>1 DEF Money!TrialClock
  <2>2. CASE ~Money!Overtaken(h)
    <3>1. m.start = trialStart /\ m.trial = trialEnd
      BY <1>1, <2>2 DEF Money!Overtaken
    <3>2. ASSUME trialStart # Money!Null PROVE trialStart' = trialStart /\ trialEnd' >= trialEnd
      <4>1. m.status = "TRIAL" /\ trialStart' = trialStart
        BY <1>3, <3>1, <3>2 DEF TrialInv, Money!CanExtendTrial
      <4>2. trialEnd' = (IF trialEnd # Money!Null /\ trialEnd > m.now THEN trialEnd ELSE m.now) + m.amount
        BY <1>3, <3>1, <4>1 DEF Money!ExtendedEnd, Money!Ongoing
      <4> QED BY <1>1, <4>1, <4>2 DEF Money!Null
    <3> QED BY <1>3, <3>2 DEF Money!TrialClock
  <2> QED BY <2>1, <2>2
<1> QED BY <1>2, <1>3 DEF Money!ExtendTrial

\* A step in which a request ends holds no more copies than there were.
LEMMA CopiesEnd ==
  ASSUME TrialInv, NEW h \in Handlers, Money!Done(h)
  PROVE  \A g \in Handlers :
           Copied(desk'[g]) /\ (desk'[g].start # Money!Null => desk'[g].status \in {"TRIAL", "ACTIVE"})
BY NoCopy DEF Money!Done, TrialInv, Money!TypeOK

\* A request that begins holds the row as it is.
LEMMA CopyIsTaken ==
  ASSUME MoneyAssumptions, TrialInv, NEW h \in Handlers, NEW op \in {"extend", "pay"}, NEW n \in Nat,
         op = "extend" => n \in Extensions, Money!Read(h, op, n)
  PROVE  \A g \in Handlers :
           Copied(desk'[g]) /\ (desk'[g].start # Money!Null => desk'[g].status \in {"TRIAL", "ACTIVE"})
<1> DEFINE m == [op |-> op, amount |-> n, now |-> day, status |-> plan, start |-> trialStart, trial |-> trialEnd, paid |-> paidTo]
<1>1. desk' = [desk EXCEPT ![h] = m]
  BY DEF Money!Read
<1>2. Copied(m) /\ (m.start # Money!Null => m.status \in {"TRIAL", "ACTIVE"})
  BY DEF Copied, TrialInv, Money!TypeOK, Money!Null, MoneyAssumptions, Money!ClockAssumption
<1> HIDE DEF m
<1> QED BY <1>1, <1>2 DEF TrialInv, Money!TypeOK

\* Every step keeps a started trial in its states and the copies what they were, and moves the
\* clock of the trial only as it may.
LEMMA TrialInvNext ==
  ASSUME MoneyAssumptions, TrialInv, [Money!Next]_(Money!vars)
  PROVE  TrialInv' /\ (Money!TrialClock \/ UNCHANGED Money!vars)
<1>1. Money!TypeOK' /\ trialEnd \in Nat
  BY MoneyTypeNext DEF TrialInv, Money!TypeOK
<1>2. CASE Money!StartTrial
  BY <1>1, <1>2 DEF Money!StartTrial, Money!Unstarted, TrialInv, Money!TrialClock
<1>3. ASSUME NEW h \in Handlers, NEW n \in Extensions, Money!Read(h, "extend", n) PROVE TrialInv' /\ Money!TrialClock
  <2>1. n \in Nat
    BY DEF MoneyAssumptions, Money!ExtensionsAssumption
  <2>2. \A g \in Handlers :
          Copied(desk'[g]) /\ (desk'[g].start # Money!Null => desk'[g].status \in {"TRIAL", "ACTIVE"})
    BY <1>3, <2>1, CopyIsTaken
  <2> QED BY <1>1, <1>3, <2>2 DEF Money!Read, TrialInv, Money!TrialClock, Copied
<1>4. ASSUME NEW h \in Handlers, NEW n \in Terms, Money!Read(h, "pay", n) PROVE TrialInv' /\ Money!TrialClock
  <2>1. n \in Nat
    BY DEF MoneyAssumptions, Money!TermsAssumption
  <2>2. \A g \in Handlers :
          Copied(desk'[g]) /\ (desk'[g].start # Money!Null => desk'[g].status \in {"TRIAL", "ACTIVE"})
    BY <1>4, <2>1, CopyIsTaken
  <2> QED BY <1>1, <1>4, <2>2 DEF Money!Read, TrialInv, Money!TrialClock, Copied
<1>5. ASSUME NEW h \in Handlers, Money!ExtendTrial(h) PROVE TrialInv' /\ Money!TrialClock
  <2>1. \A g \in Handlers :
          Copied(desk'[g]) /\ (desk'[g].start # Money!Null => desk'[g].status \in {"TRIAL", "ACTIVE"})
    BY <1>5, CopiesEnd DEF Money!ExtendTrial
  <2> QED BY <1>1, <1>5, <2>1, ExtensionAdds DEF TrialInv, Copied
<1>6. ASSUME NEW h \in Handlers, Money!PaySubscription(h) PROVE TrialInv' /\ Money!TrialClock
  <2>1. \A g \in Handlers :
          Copied(desk'[g]) /\ (desk'[g].start # Money!Null => desk'[g].status \in {"TRIAL", "ACTIVE"})
    BY <1>6, CopiesEnd DEF Money!PaySubscription
  <2> QED BY <1>1, <1>6, <2>1 DEF Money!PaySubscription, TrialInv, Money!TrialClock, Copied
<1>7. ASSUME NEW h \in Handlers, Money!Lost(h) PROVE TrialInv' /\ Money!TrialClock
  <2>1. \A g \in Handlers :
          Copied(desk'[g]) /\ (desk'[g].start # Money!Null => desk'[g].status \in {"TRIAL", "ACTIVE"})
    BY <1>7, CopiesEnd DEF Money!Lost
  <2> QED BY <1>1, <1>7, <2>1 DEF Money!Lost, TrialInv, Money!TrialClock, Copied
<1>8. CASE Money!Dawn
  BY <1>1, <1>8 DEF Money!Dawn, TrialInv, Money!TrialClock, Copied
<1>9. CASE UNCHANGED Money!vars
  BY <1>1, <1>9 DEF Money!vars, TrialInv, Copied
<1> QED BY <1>2, <1>3, <1>4, <1>5, <1>6, <1>7, <1>8, <1>9 DEF Money!Next

\* Before the first connection there is no trial.
LEMMA TrialInvInit == MoneyAssumptions /\ Money!Init => TrialInv
BY MoneyTypeInit, NoCopy DEF Money!Init, TrialInv

\* Whatever the trial, the terms and the calendar, and however many requests of support are in
\* course, the day the trial began is written once and no step takes back what was granted of
\* it, unless it is an extension whose row another write of the clock overtook before it wrote.
THEOREM TrialIsDatedOnce == Spec => TrialClockRunsOnce
<1> DEFINE I == part = "money" => TrialInv
<1>0. MoneyAssumptions
  BY PartsAssumption DEF MoneyAssumptions
<1>1. Init => I
  BY <1>0, PartInit, TrialInvInit
<1>2. I /\ [Next]_vars => I' /\ [part = "money" => Money!TrialClock]_vars
  <2> SUFFICES ASSUME I, [Next]_vars PROVE I' /\ ((part = "money" => Money!TrialClock) \/ UNCHANGED vars)
    OBVIOUS
  <2>1. CASE part = "money"
    <3>1. [Money!Next]_(Money!vars) /\ part' = part
      BY <2>1, PartNext
    <3>2. TrialInv' /\ (Money!TrialClock \/ UNCHANGED Money!vars)
      BY <1>0, <2>1, <3>1, TrialInvNext
    <3>3. UNCHANGED Money!vars => Money!TrialClock
      <4>1. TrialInv
        BY <2>1
      <4> QED BY <4>1 DEF Money!vars, Money!TrialClock, TrialInv, Money!TypeOK
    <3> QED BY <3>2, <3>3
  <2>2. CASE part # "money"
    BY <2>2, PartNext
  <2> QED BY <2>1, <2>2
<1> QED BY <1>1, <1>2, PTL DEF Spec, TrialClockRunsOnce

-----------------------------------------------------------------------------
(* The reports *)

\* The desk begins, and goes on, with what its reports count on; and what was agreed stands at
\* each of its steps.
LEMMA DeskGoesOn ==
  /\ Init => (part = "desk" => Desk!DeskInv)
  /\ (part = "desk" => Desk!DeskInv) /\ [Next]_vars =>
       /\ (part = "desk" => Desk!DeskInv)'
       /\ (part = "desk" => Desk!Agreed)
<1> DEFINE I == part = "desk" => Desk!DeskInv
<1>1. Init => I
  BY PartInit, PartsAssumption, Desk!DeskInvInit
<1>2. ASSUME I, [Next]_vars PROVE I' /\ (part = "desk" => Desk!Agreed)
  <2>1. CASE part = "desk"
    <3>1. [Desk!Next]_(Desk!vars) /\ part' = part
      BY <1>2, <2>1, PartNext
    <3> QED BY <1>2, <2>1, <3>1, PartsAssumption, Desk!DeskInvNext
  <2>2. CASE part # "desk"
    BY <1>2, <2>2, PartNext
  <2> QED BY <2>1, <2>2
<1> QED BY <1>1, <1>2

\* "What was agreed stands": for any catalogue, team, bookings and clock and any requests of the
\* panel at once, the price a service was booked at changes only by writing it, and its currency
\* never does, however often the appointment is edited and whatever becomes of the catalogue;
\* but for an edit or a change of status that another request overtook between its queries,
\* which writes back what it had read.
THEOREM WhatWasAgreedStands == Spec => AgreedStands
<1> DEFINE I == part = "desk" => Desk!DeskInv
<1>1. Init => I
  BY DeskGoesOn
<1>2. I /\ [Next]_vars => I' /\ [part = "desk" => Desk!Agreed]_vars
  BY DeskGoesOn
<1> QED BY <1>1, <1>2, PTL DEF Spec, AgreedStands

\* "Every report agrees": for any catalogue, team, bookings, calendar and clock, and whatever was
\* booked, moved, priced or removed, the summary, the curve, the rankings and what each
\* professional is shown add up to the same money and the same work, and no list leaves an
\* appointment out.
THEOREM ReportsAlwaysAgree == Spec => []ReportsAgree
<1> DEFINE I == part = "desk" => Desk!DeskInv
<1>1. Init => I
  BY DeskGoesOn
<1>2. I /\ [Next]_vars => I'
  BY DeskGoesOn
<1>3. I => ReportsAgree
  BY PartsAssumption, Desk!AgreeFromInv DEF ReportsAgree
<1> QED BY <1>1, <1>2, <1>3, PTL DEF Spec

-----------------------------------------------------------------------------
(* The day *)

\* The office keeps what the day needs.
LEMMA DayGoesOn ==
  /\ Init => (part = "times" => Times!DayInv)
  /\ (part = "times" => Times!DayInv) /\ [Next]_vars => (part = "times" => Times!DayInv)'
<1>0. Times!TimesAssumption
  BY PartsAssumption
<1>1. Init => (part = "times" => Times!DayInv)
  BY <1>0, PartInit, Times!DayStarts
<1>2. (part = "times" => Times!DayInv) /\ [Next]_vars => (part = "times" => Times!DayInv)'
  BY <1>0, PartNext, Times!DayKeeps
<1> QED BY <1>1, <1>2

\* And what the bookings of the day count on.
LEMMA LedgerGoesOn ==
  /\ Init => (part = "times" => Times!Ledger /\ Times!BookedIsServable)
  /\ (part = "times" => Times!DayInv /\ Times!Ledger) /\ [Next]_vars => (part = "times" => Times!Ledger)'
  /\ Times!FewServices /\ (part = "times" => Times!DayInv /\ Times!Ledger /\ Times!BookedIsServable) /\ [Next]_vars =>
       (part = "times" => Times!BookedIsServable)'
<1>0. Times!TimesAssumption
  BY PartsAssumption
<1>1. Init => (part = "times" => Times!Ledger /\ Times!BookedIsServable)
  BY <1>0, PartInit, Times!LedgerStarts
<1>2. (part = "times" => Times!DayInv /\ Times!Ledger) /\ [Next]_vars => (part = "times" => Times!Ledger)'
  BY <1>0, PartNext, Times!LedgerKeeps
<1>3. Times!FewServices /\ (part = "times" => Times!DayInv /\ Times!Ledger /\ Times!BookedIsServable) /\ [Next]_vars =>
        (part = "times" => Times!BookedIsServable)'
  BY <1>0, PartNext, Times!BookedKeeps
<1> QED BY <1>1, <1>2, <1>3

\* The times offered: for any hours, shifts, blocks, bookings and services, as long as a visit
\* asks for no more services than are planned one with another (the requests' validation lets
\* through fewer), what is offered is exactly when somebody free and at work can attend, and
\* what is shortest of it.
THEOREM OfferIsAlwaysExact == Times!FewServices => (Spec => []OfferIsExact)
<1> SUFFICES ASSUME Times!FewServices PROVE Spec => []OfferIsExact
  OBVIOUS
<1> DEFINE I == part = "times" => Times!DayInv
<1>1. Init => I
  BY DayGoesOn
<1>2. I /\ [Next]_vars => I'
  BY DayGoesOn
<1>3. I => OfferIsExact
  BY PartsAssumption, Times!OfferIs DEF OfferIsExact
<1> QED BY <1>1, <1>2, <1>3, PTL DEF Spec

\* What is written on confirming: whoever it was written for is at work and free all along, and
\* nobody is in two places, until the hours, the blocks or the bookings change.
THEOREM BookedIsAlwaysServable == Times!FewServices => (Spec => []BookedIsServable)
<1> SUFFICES ASSUME Times!FewServices PROVE Spec => []BookedIsServable
  OBVIOUS
<1> DEFINE I == part = "times" => Times!DayInv /\ Times!Ledger /\ Times!BookedIsServable
<1>1. Init => I
  BY DayGoesOn, LedgerGoesOn
<1>2. I /\ [Next]_vars => I'
  BY DayGoesOn, LedgerGoesOn
<1>3. I => BookedIsServable
  BY DEF BookedIsServable
<1> QED BY <1>1, <1>2, <1>3, PTL DEF Spec

\* A booking that the panel insists on: for any hours, shifts, blocks, bookings and services, the
\* panel is warned exactly when somebody in it is not at work or not free at some minute of it,
\* and what it asks never has one person in two places.
THEOREM PanelIsAlwaysWarned == Spec => []PanelIsWarned
<1> DEFINE I == part = "times" => Times!DayInv
<1>1. Init => I
  BY DayGoesOn
<1>2. I /\ [Next]_vars => I'
  BY DayGoesOn
<1>3. I => PanelIsWarned
  BY PartsAssumption, Times!WarnedIsRight DEF PanelIsWarned
<1> QED BY <1>1, <1>2, <1>3, PTL DEF Spec

\* What the assistant suggests in words, for one person or for several in a row, is whole in the
\* hours of people who have nothing else meanwhile.
THEOREM SuggestionsAlwaysHold == Spec => []SuggestionsHold
<1> DEFINE I == part = "times" => Times!DayInv
<1>1. Init => I
  BY DayGoesOn
<1>2. I /\ [Next]_vars => I'
  BY DayGoesOn
<1>3. I => SuggestionsHold
  BY PartsAssumption, Times!SuggestedAreWhole DEF SuggestionsHold
<1> QED BY <1>1, <1>2, <1>3, PTL DEF Spec

-----------------------------------------------------------------------------
(* The images *)

\* How many there are is the same whoever counts.
LEMMA SameCount == \A S : Images!Cardinality(S) = Cardinality(S)
BY Zenon DEF Images!Cardinality, Cardinality

\* The photos are finitely many.
LEMMA PhotosFinite ==
  ASSUME Images!TypeOK, NEW kind
  PROVE  /\ IsFiniteSet(DOMAIN photos) /\ IsFiniteSet(Images!Of(kind))
         /\ Cardinality(Images!Of(kind)) \in Nat
<1>1. DOMAIN photos \in SUBSET (1 .. uploads) /\ uploads \in Int
  BY DEF Images!TypeOK
<1>2. IsFiniteSet(1 .. uploads)
  BY <1>1, FS_Interval
<1>3. IsFiniteSet(DOMAIN photos)
  BY <1>1, <1>2, FS_Subset
<1>4. Images!Of(kind) \in SUBSET (DOMAIN photos)
  BY DEF Images!Of
<1>5. IsFiniteSet(Images!Of(kind))
  BY <1>3, <1>4, FS_Subset
<1> QED BY <1>3, <1>5, FS_CardinalityType

\* A list of those of a set, without repeating any, has them all.
LEMMA ListHasAll ==
  ASSUME NEW S, IsFiniteSet(S), NEW s \in Images!SetToSeqs(S)
  PROVE  Images!Enumerated(s, S) /\ s \in Seq(S)
<1>1. PICK n : n = Cardinality(S)
  OBVIOUS
<1>2. n \in Nat
  BY <1>1, FS_CardinalityType
<1>3. s \in [1 .. n -> S] /\ \A i, j \in 1 .. n : i # j => s[i] # s[j]
  BY <1>1, SameCount DEF Images!SetToSeqs
<1>4. s \in Injection(1 .. n, S)
  BY <1>3 DEF Injection, IsInjective
<1>5. Cardinality(1 .. n) = n
  BY <1>2, FS_Interval
<1>6. s \in Surjection(1 .. n, S)
  BY <1>1, <1>4, <1>5, FS_Injection
<1>7. \A x \in S : \E k \in 1 .. n : s[k] = x
  BY <1>6 DEF Surjection
<1> QED BY <1>1, <1>2, <1>3, <1>7, SameCount DEF Images!Enumerated

\* A request that goes on from what it was to m: no other is touched.
Moves(h, m) ==
  /\ pages' = [pages EXCEPT ![h] = m]
  /\ calm' => calm /\ (Images!Quiet \/ pages[h].pc # "idle")

\* What the step of a request owes to the files.
FilesMove(h, m) ==
  /\ m.pc = "save" => m.file \in files' /\ m.file \notin DOMAIN photos'
  /\ \A g \in Handlers \ {h} : pages[g].pc = "save" => pages[g].file \in files' /\ pages[g].file \notin DOMAIN photos'
  /\ \A g \in Handlers \ {h} : Images!Apart(m, pages[g]) /\ Images!Apart(pages[g], m)
  /\ \A i \in DOMAIN photos' :
       \/ i \in files' \cup cut' \/ Images!TakingAway(m, i)
       \/ \E g \in Handlers \ {h} : Images!TakingAway(pages[g], i)

\* What is typed stays so when there are more uploads.
LEMMA RequestsGrow ==
  ASSUME uploads \in Nat, uploads' \in {uploads, uploads + 1}
  PROVE  \A e \in Images!Request : e \in Images!Request' /\ (Images!Holds(e) => Images!Holds(e)')
<1>1. uploads' \in Nat /\ 1 .. uploads \subseteq 1 .. uploads' /\ 0 .. uploads \subseteq 0 .. uploads'
  OBVIOUS
<1>2. Seq(1 .. uploads) \subseteq Seq(1 .. uploads')
  BY <1>1, SeqMonotonic
<1> QED BY <1>1, <1>2 DEF Images!Request, Images!Holds

\* A step that keeps what it owes keeps the invariant.
LEMMA ImagesMove ==
  ASSUME Images!ImagesInv, NEW h \in Handlers, NEW m, Moves(h, m), Images!TypeOK',
         uploads' \in {uploads, uploads + 1}, m \in Images!Request', Images!Holds(m)',
         FilesMove(h, m), m.pc = "idle" => m = Images!Idle,
         calm' /\ Images!AloneWith(pages[h]) => Images!AloneWith(m)'
  PROVE  Images!ImagesInv'
<1>1. /\ pages' = [pages EXCEPT ![h] = m] /\ pages \in [Handlers -> Images!Request] /\ DOMAIN pages' = Handlers
      /\ pages'[h] = m /\ \A g \in Handlers \ {h} : pages'[g] = pages[g]
  BY DEF Moves, Images!ImagesInv, Images!RequestsTyped
<1>2. Images!RequestsTyped'
  <2>1. uploads \in Nat
    BY DEF Images!ImagesInv, Images!TypeOK
  <2>2. ASSUME NEW g \in Handlers PROVE pages'[g] \in Images!Request' /\ Images!Holds(pages[g])'
    <3>1. CASE g = h
      BY <1>1, <3>1 DEF Images!Holds, Images!Removing, Images!Adding
    <3>2. CASE g # h
      <4>1. PICK e : e = pages[g]
        OBVIOUS
      <4>2. e \in Images!Request /\ Images!Holds(e)
        BY <4>1 DEF Images!ImagesInv, Images!RequestsTyped
      <4>3. e \in Images!Request' /\ Images!Holds(e)'
        BY <2>1, <4>2, RequestsGrow
      <4> QED BY <1>1, <3>2, <4>1, <4>3 DEF Images!Holds, Images!Removing, Images!Adding
    <3> QED BY <3>1, <3>2
  <2> QED BY <1>1, <2>2 DEF Images!RequestsTyped
<1>3. Images!FilesStand'
  <2>1. \A g, k \in Handlers : g # k => Images!Apart(pages[g], pages[k])
    BY DEF Images!ImagesInv, Images!FilesStand
  <2>2. \A g, k \in Handlers : g # k => Images!Apart(pages'[g], pages'[k])
    BY <1>1, <2>1 DEF FilesMove
  <2>3. \A g \in Handlers : pages'[g].pc = "save" => pages'[g].file \in files' /\ pages'[g].file \notin DOMAIN photos'
    BY <1>1 DEF FilesMove
  <2>4. \A i \in DOMAIN photos' : i \in files' \cup cut' \/ \E g \in Handlers : Images!TakingAway(pages'[g], i)
    BY <1>1 DEF FilesMove
  <2> QED BY <2>2, <2>3, <2>4 DEF Images!FilesStand, Images!Apart, Images!TakingAway, Images!Removing
<1>4. ASSUME calm'
      PROVE  /\ \A g, k \in Handlers : pages'[g].pc # "idle" /\ pages'[k].pc # "idle" => g = k
             /\ \A g \in Handlers : pages'[g].pc # "idle" => Images!AloneWith(pages[g])'
             /\ Images!Quiet' => Images!AloneWith(Images!Idle)'
  <2>1. \A g \in Handlers \ {h} : pages[g].pc = "idle"
    BY <1>4 DEF Moves, Images!ImagesInv, Images!Quiet
  <2>2. Images!AloneWith(pages[h])
    <3>1. CASE pages[h].pc # "idle"
      BY <1>4, <3>1 DEF Moves, Images!ImagesInv
    <3>2. CASE pages[h].pc = "idle"
      <4>1. Images!AloneWith(Images!Idle)
        BY <1>4, <3>2 DEF Moves, Images!ImagesInv
      <4> QED BY <3>2, <4>1 DEF Images!AloneWith, Images!Idle, Images!Steady, Images!Adding, Images!Numbering, Images!TakingAway, Images!Removing
    <3> QED BY <3>1, <3>2
  <2>3. Images!AloneWith(m)'
    BY <1>4, <2>2
  <2>4. \A g \in Handlers : pages'[g].pc # "idle" => g = h
    BY <1>1, <2>1
  <2>5. Images!Quiet' => m = Images!Idle
    BY <1>1 DEF Images!Quiet
  <2>6. Images!Quiet' => Images!AloneWith(Images!Idle)'
    BY <2>3, <2>5
  <2>7. \A g \in Handlers : pages'[g].pc # "idle" => Images!AloneWith(pages[g])'
    <3> SUFFICES ASSUME NEW g \in Handlers, pages'[g].pc # "idle" PROVE Images!AloneWith(pages[g])'
      OBVIOUS
    <3>1. pages'[g] = m
      BY <1>1, <2>4
    <3> QED BY <2>3, <3>1 DEF Images!AloneWith, Images!Steady, Images!Adding, Images!Numbering, Images!TakingAway, Images!Removing
  <2> QED BY <2>4, <2>6, <2>7
<1> QED BY <1>2, <1>3, <1>4 DEF Images!ImagesInv

\* A request that touches no photo and no file owes nothing else.
LEMMA StillFiles ==
  ASSUME Images!ImagesInv, NEW h \in Handlers, NEW m, photos' = photos, files' = files, cut' = cut,
         m.pc # "save", Images!Removing(m) => m.file \in DOMAIN photos,
         \A i \in DOMAIN photos : ~ Images!TakingAway(pages[h], i)
  PROVE  FilesMove(h, m)
<1>1. Images!FilesStand
  BY DEF Images!ImagesInv
<1> QED BY <1>1 DEF FilesMove, Images!FilesStand, Images!Apart, Images!Removing

\* The places are as they were while no photo changes.
LEMMA StillPlaces ==
  ASSUME photos' = photos
  PROVE  /\ \A kind : Images!Of(kind)' = Images!Of(kind)
         /\ Images!PlacesStand => Images!PlacesStand'
         /\ Images!Compact => Images!Compact'
<1>1. \A kind : Images!Of(kind)' = Images!Of(kind)
  BY DEF Images!Of
<1> QED BY <1>1 DEF Images!PlacesStand, Images!Compact

\* A request that only begins, or only answers.
LEMMA ImagesStill ==
  ASSUME Images!ImagesInv, NEW h \in Handlers, NEW m, Moves(h, m), m \in Images!Request, Images!Holds(m),
         photos' = photos, files' = files, uploads' = uploads, cut' = cut, column' = column, calm' \in BOOLEAN,
         m.pc # "save", Images!Removing(m) => m.file \in DOMAIN photos,
         \A i : ~ Images!TakingAway(pages[h], i),
         m.pc = "idle" => m = Images!Idle,
         calm' /\ Images!AloneWith(pages[h]) => Images!Steady(m) /\ (Images!Numbering(m) \/ Images!Compact)
  PROVE  Images!ImagesInv'
<1>1. Images!TypeOK'
  BY DEF Images!ImagesInv, Images!TypeOK
<1>2. m \in Images!Request' /\ Images!Holds(m)'
  BY DEF Images!Request, Images!Holds
<1>3. FilesMove(h, m)
  BY StillFiles
<1>4. ASSUME calm', Images!AloneWith(pages[h]) PROVE Images!AloneWith(m)'
  <2>1. Images!Steady(m) => Images!Steady(m)'
    BY StillPlaces DEF Images!Steady, Images!Adding, Images!Removing
  <2>2. Images!PlacesStand' /\ (Images!Numbering(m) \/ Images!Compact')
    BY <1>4, StillPlaces DEF Images!AloneWith
  <2> QED BY <1>4, <2>1, <2>2 DEF Images!AloneWith, Images!Numbering, Images!TakingAway
<1>5. uploads' \in {uploads, uploads + 1}
  OBVIOUS
<1> QED BY <1>1, <1>2, <1>3, <1>4, <1>5, ImagesMove

\* What begins finds its handler idle, and what goes on is of a request in course.
LEMMA StartMoves ==
  ASSUME Images!ImagesInv, NEW h \in Handlers, NEW m, Images!Start(h, m)
  PROVE  Moves(h, m) /\ calm' \in BOOLEAN /\ pages[h].pc = "idle" /\ \A i : ~ Images!TakingAway(pages[h], i)
BY DEF Images!Start, Moves, Images!TakingAway, Images!ImagesInv, Images!TypeOK

\* A request that goes on, or ends.
LEMMA GotoMoves ==
  ASSUME Images!ImagesInv, NEW h \in Handlers, NEW m, Images!Goto(h, m), pages[h].pc # "idle"
  PROVE  Moves(h, m) /\ calm' \in BOOLEAN /\ calm' = calm
BY DEF Images!Goto, Moves, Images!ImagesInv, Images!TypeOK

\* The request that is done is a request.
LEMMA IdleTyped ==
  ASSUME uploads \in Nat
  PROVE  /\ Images!Idle \in Images!Request /\ Images!Holds(Images!Idle) /\ Images!Idle.pc = "idle"
         /\ ~ Images!Removing(Images!Idle) /\ ~ Images!Adding(Images!Idle) /\ Images!Steady(Images!Idle)
         /\ ~ Images!Numbering(Images!Idle) /\ \A i : ~ Images!TakingAway(Images!Idle, i)
BY DEF Images!Idle, Images!Request, Images!Holds, Images!Removing, Images!Adding, Images!Kinds, Images!Steady,
       Images!TakingAway, Images!Numbering

\* The batch fits, and its places begin where the photos end or are made for it.
LEMMA AddManyKeeps ==
  ASSUME Images!PhotosAssumption, Images!ImagesInv, NEW h \in Handlers, NEW kind \in Images!Kinds,
         NEW n \in 1 .. MaxPhotos[kind], Images!AddMany(h, kind, n)
  PROVE  Images!ImagesInv'
<1>1. PICK c : c = Cardinality(Images!Of(kind))
  OBVIOUS
<1>2. c \in Nat /\ Images!Cardinality(Images!Of(kind)) = c /\ IsFiniteSet(Images!Of(kind))
  BY <1>1, PhotosFinite, SameCount DEF Images!ImagesInv
<1>3. PICK m : m = [Images!Idle EXCEPT !.pc = IF kind = "portfolio" /\ c > 0 THEN "increment" ELSE "upload",
                                       !.kind = kind, !.left = n, !.pos = IF kind = "portfolio" THEN 0 ELSE c]
  OBVIOUS
<1>4. /\ m.pc = (IF kind = "portfolio" /\ c > 0 THEN "increment" ELSE "upload")
      /\ m.kind = kind /\ m.left = n /\ m.pos = IF kind = "portfolio" THEN 0 ELSE c
  BY <1>3 DEF Images!Idle
<1>5. n \in Nat \ {0} /\ uploads \in Nat /\ MaxPhotos[kind] \in Nat
  BY DEF Images!PhotosAssumption, Images!ImagesInv, Images!TypeOK
<1>6. m \in Images!Request
  BY <1>2, <1>3, <1>5, IdleTyped DEF Images!Request, Images!Kinds
<1>7. /\ c + n <= MaxPhotos[kind] /\ Images!Start(h, m)
      /\ UNCHANGED <<photos, files, uploads, column, cut>>
  BY <1>2, <1>3, <1>5 DEF Images!AddMany
<1>8. Images!Holds(m)
  BY <1>4, <1>5 DEF Images!Holds, Images!Removing, Images!Adding
<1>9. Images!Steady(m)
  <2>1. kind = "portfolio" /\ c = 0 => Images!Of("portfolio") = {}
    BY <1>1, <1>2, FS_EmptySet
  <2>2. Images!Adding(m) => Images!Cardinality(Images!Of(m.kind)) + m.left <= MaxPhotos[m.kind]
    BY <1>2, <1>4, <1>7
  <2> QED BY <1>2, <1>4, <2>1, <2>2 DEF Images!Steady, Images!Kinds, Images!Removing
<1>10. Moves(h, m) /\ calm' \in BOOLEAN /\ \A i : ~ Images!TakingAway(pages[h], i)
  BY <1>7, StartMoves
<1>11. m.pc \notin {"idle", "save"} /\ ~ Images!Removing(m)
  BY <1>4 DEF Images!Removing
<1>12. Images!AloneWith(pages[h]) => Images!Compact
  BY <1>7, StartMoves DEF Images!AloneWith, Images!Numbering
<1> QED BY <1>6, <1>7, <1>8, <1>9, <1>10, <1>11, <1>12, ImagesStill

\* An upload that fails leaves what was saved of the batch.
LEMMA UploadFailsKeeps ==
  ASSUME Images!ImagesInv, NEW h \in Handlers, Images!UploadFails(h)
  PROVE  Images!ImagesInv'
<1>1. pages[h].pc \in {"upload", "replace"} /\ Images!Goto(h, Images!Idle) /\ UNCHANGED <<photos, files, uploads, column, cut>>
  BY DEF Images!UploadFails, Images!Done
<1>2. Moves(h, Images!Idle) /\ calm' \in BOOLEAN
  BY <1>1, GotoMoves
<1>3. \A i : ~ Images!TakingAway(pages[h], i)
  BY <1>1 DEF Images!TakingAway
<1>4. uploads \in Nat
  BY DEF Images!ImagesInv, Images!TypeOK
<1>5. Images!AloneWith(pages[h]) => Images!Compact
  BY <1>1 DEF Images!AloneWith, Images!Numbering
<1> QED BY <1>1, <1>2, <1>3, <1>4, <1>5, IdleTyped, ImagesStill

\* A photo to remove is one there is: nobody is saving it.
LEMMA RemovePhotoKeeps ==
  ASSUME Images!ImagesInv, NEW h \in Handlers, NEW i \in DOMAIN photos, Images!RemovePhoto(h, i)
  PROVE  Images!ImagesInv'
<1>1. PICK m : m = [Images!Idle EXCEPT !.pc = "destroy", !.kind = photos[i].kind, !.file = i]
  OBVIOUS
<1>2. Images!Start(h, m) /\ UNCHANGED <<photos, files, uploads, column, cut>>
  BY <1>1 DEF Images!RemovePhoto
<1>3. i \in 1 .. uploads /\ photos[i].kind \in Images!Kinds /\ uploads \in Nat
  BY DEF Images!ImagesInv, Images!TypeOK, Images!Photo
<1>4. m.pc = "destroy" /\ m.file = i /\ m \in Images!Request
  <2>1. PICK kind : kind = photos[i].kind
    OBVIOUS
  <2>2. kind \in Images!Kinds /\ i \in 0 .. uploads
    BY <1>3, <2>1
  <2>3. m = [Images!Idle EXCEPT !.pc = "destroy", !.kind = kind, !.file = i]
    BY <1>1, <2>1
  <2> QED BY <1>3, <2>2, <2>3, IdleTyped DEF Images!Request
<1>5. Images!Holds(m) /\ Images!Steady(m)
  <2>1. m.kind = photos[i].kind
    BY <1>1, IdleTyped DEF Images!Request
  <2> QED BY <1>3, <1>4, <2>1 DEF Images!Holds, Images!Adding, Images!Steady, Images!Removing, Images!Of
<1>6. Moves(h, m) /\ calm' \in BOOLEAN /\ \A x : ~ Images!TakingAway(pages[h], x)
  BY <1>2, StartMoves
<1>7. Images!AloneWith(pages[h]) => Images!Compact
  BY <1>2, StartMoves DEF Images!AloneWith, Images!Numbering
<1> QED BY <1>2, <1>4, <1>5, <1>6, <1>7, ImagesStill

\* What is left is put in order ...
LEMMA ReindexKeeps ==
  ASSUME Images!ImagesInv, NEW h \in Handlers, Images!Reindex(h)
  PROVE  Images!ImagesInv'
<1>1. PICK e : e = pages[h]
  OBVIOUS
<1>2. e \in Images!Request /\ e.pc = "reindex" /\ Images!Holds(e)
  BY <1>1 DEF Images!Reindex, Images!ImagesInv, Images!RequestsTyped
<1>3. PICK s \in Images!InOrder(e.kind, {}) : Images!Goto(h, [e EXCEPT !.pc = "renumber", !.list = s])
  BY <1>1 DEF Images!Reindex, Images!Reindexed
<1>4. PICK m : m = [e EXCEPT !.pc = "renumber", !.list = s]
  OBVIOUS
<1>5. s \in Images!SetToSeqs(Images!Of(e.kind))
  BY DEF Images!InOrder
<1>6. Images!Enumerated(s, Images!Of(e.kind)) /\ s \in Seq(Images!Of(e.kind))
  BY <1>5, PhotosFinite, ListHasAll DEF Images!ImagesInv
<1>7. Images!Of(e.kind) \subseteq 1 .. uploads
  BY DEF Images!Of, Images!ImagesInv, Images!TypeOK
<1>8. s \in Seq(1 .. uploads)
  BY <1>6, <1>7, SeqMonotonic
<1>9. m \in Images!Request /\ m.pc = "renumber" /\ m.kind = e.kind /\ m.list = s
  BY <1>2, <1>4, <1>8 DEF Images!Request
<1>10. Images!Holds(m) /\ Images!Steady(m) /\ ~ Images!Removing(m)
  BY <1>6, <1>9 DEF Images!Holds, Images!Adding, Images!Removing, Images!Steady
<1>11. Moves(h, m) /\ calm' \in BOOLEAN
  BY <1>1, <1>2, <1>3, <1>4, GotoMoves
<1>12. \A i : ~ Images!TakingAway(pages[h], i)
  BY <1>1, <1>2 DEF Images!TakingAway
<1>13. Images!AloneWith(pages[h]) => Images!Numbering(m) \/ Images!Compact
  BY <1>1, <1>2, <1>9 DEF Images!AloneWith, Images!Numbering
<1>14. UNCHANGED <<photos, files, uploads, column, cut>>
  BY DEF Images!Reindex
<1> QED BY <1>9, <1>10, <1>11, <1>12, <1>13, <1>14, ImagesStill

\* ... and so is what goes behind the one that is moved ahead of all.
LEMMA MoveToFrontKeeps ==
  ASSUME Images!ImagesInv, NEW h \in Handlers, NEW i \in DOMAIN photos, Images!MoveToFront(h, i)
  PROVE  Images!ImagesInv'
<1>1. PICK kind : kind = photos[i].kind
  OBVIOUS
<1>2. kind \in Images!Kinds /\ uploads \in Nat
  BY <1>1 DEF Images!ImagesInv, Images!TypeOK, Images!Photo
<1>3. PICK s \in Images!InOrder(kind, {i}) : Images!Start(h, [Images!Idle EXCEPT !.pc = "renumber", !.kind = kind, !.list = s])
  BY <1>1 DEF Images!MoveToFront
<1>4. PICK m : m = [Images!Idle EXCEPT !.pc = "renumber", !.kind = kind, !.list = s]
  OBVIOUS
<1>5. s \in Images!SetToSeqs(Images!Of(kind))
  BY DEF Images!InOrder
<1>6. Images!Enumerated(s, Images!Of(kind)) /\ s \in Seq(Images!Of(kind))
  BY <1>5, PhotosFinite, ListHasAll DEF Images!ImagesInv
<1>7. Images!Of(kind) \subseteq 1 .. uploads
  BY DEF Images!Of, Images!ImagesInv, Images!TypeOK
<1>8. s \in Seq(1 .. uploads)
  BY <1>6, <1>7, SeqMonotonic
<1>9. m \in Images!Request /\ m.pc = "renumber" /\ m.kind = kind /\ m.list = s
  BY <1>2, <1>4, <1>8, IdleTyped DEF Images!Request
<1>10. Images!Holds(m) /\ Images!Steady(m) /\ ~ Images!Removing(m)
  BY <1>6, <1>9 DEF Images!Holds, Images!Adding, Images!Removing, Images!Steady
<1>11. Moves(h, m) /\ calm' \in BOOLEAN /\ \A x : ~ Images!TakingAway(pages[h], x)
  BY <1>3, <1>4, StartMoves
<1>12. Images!AloneWith(pages[h]) => Images!Compact
  BY <1>3, StartMoves DEF Images!AloneWith, Images!Numbering
<1>13. UNCHANGED <<photos, files, uploads, column, cut>>
  BY DEF Images!MoveToFront
<1> QED BY <1>9, <1>10, <1>11, <1>12, <1>13, ImagesStill

\* A request about an image there is one of says which.
LEMMA SingleStarts ==
  ASSUME Images!ImagesInv, NEW h \in Handlers, NEW s \in Images!Singles,
         Images!UpdateSingle(h, s) \/ Images!RemoveSingle(h, s)
  PROVE  Images!ImagesInv'
<1>1. PICK pc \in {"replace", "destroySingle"} : Images!Start(h, [Images!Idle EXCEPT !.pc = pc, !.file = s])
  BY DEF Images!UpdateSingle, Images!RemoveSingle
<1>2. PICK m : m = [Images!Idle EXCEPT !.pc = pc, !.file = s]
  OBVIOUS
<1>3. uploads \in Nat
  BY DEF Images!ImagesInv, Images!TypeOK
<1>4. m \in Images!Request /\ m.pc = pc /\ m.file = s
  BY <1>2, <1>3, IdleTyped DEF Images!Request
<1>5. Images!Holds(m) /\ Images!Steady(m) /\ ~ Images!Removing(m)
  BY <1>4 DEF Images!Holds, Images!Adding, Images!Removing, Images!Steady
<1>6. Moves(h, m) /\ calm' \in BOOLEAN /\ \A x : ~ Images!TakingAway(pages[h], x)
  BY <1>1, <1>2, StartMoves
<1>7. Images!AloneWith(pages[h]) => Images!Compact
  BY <1>1, StartMoves DEF Images!AloneWith, Images!Numbering
<1>8. UNCHANGED <<photos, files, uploads, column, cut>>
  BY DEF Images!UpdateSingle, Images!RemoveSingle
<1> QED BY <1>4, <1>5, <1>6, <1>7, <1>8, ImagesStill

\* A request alone, when no photo changes.
LEMMA StillAlone ==
  ASSUME photos' = photos, NEW e, Images!AloneWith(e), ~ Images!Numbering(e), NEW m, Images!Steady(m)',
         \A s \in Images!Singles : column'[s] = "set" => s \in files' \/ Images!TakingAway(m, s)
  PROVE  Images!AloneWith(m)'
<1>1. Images!PlacesStand' /\ Images!Compact'
  BY StillPlaces DEF Images!AloneWith
<1> QED BY <1>1 DEF Images!AloneWith, Images!TakingAway

\* What a request has read, at the step it takes.
LEMMA RequestRead ==
  ASSUME Images!ImagesInv, NEW h \in Handlers
  PROVE  \E e : e = pages[h] /\ e \in Images!Request /\ Images!Holds(e)
BY DEF Images!ImagesInv, Images!RequestsTyped

\* The column of who leaves goes with them, and the file of nobody else.
LEMMA RemoveStaffKeeps ==
  ASSUME Images!ImagesInv, NEW h \in Handlers, Images!RemoveStaff(h)
  PROVE  Images!ImagesInv'
<1>1. PICK m : m = IF column[Images!Avatar] = "set" THEN [Images!Idle EXCEPT !.pc = "sweep"] ELSE Images!Idle
  OBVIOUS
<1>2. Images!Start(h, m) /\ column' = [column EXCEPT ![Images!Avatar] = "left"] /\ UNCHANGED <<photos, files, uploads, cut>>
  BY <1>1 DEF Images!RemoveStaff
<1>3. uploads \in Nat /\ column \in [Images!Singles -> {"none", "set", "left"}] /\ Images!Avatar \in Images!Singles
  BY DEF Images!ImagesInv, Images!TypeOK, Images!Singles
<1>4. m \in Images!Request /\ m.pc \in {"idle", "sweep"} /\ (m.pc = "idle" => m = Images!Idle)
  <2>1. [Images!Idle EXCEPT !.pc = "sweep"] \in Images!Request /\ [Images!Idle EXCEPT !.pc = "sweep"].pc = "sweep"
    BY <1>3, IdleTyped DEF Images!Request
  <2> QED BY <1>1, <1>3, <2>1, IdleTyped
<1>5. m \in Images!Request' /\ Images!Holds(m)' /\ ~ Images!Removing(m) /\ \A i : ~ Images!TakingAway(m, i)
  BY <1>2, <1>4 DEF Images!Holds, Images!Adding, Images!Removing, Images!Request, Images!TakingAway
<1>6. Moves(h, m) /\ calm' \in BOOLEAN /\ pages[h].pc = "idle" /\ \A i : ~ Images!TakingAway(pages[h], i)
  BY <1>2, StartMoves
<1>7. Images!TypeOK'
  BY <1>2, <1>3, <1>6 DEF Images!ImagesInv, Images!TypeOK
<1>8. FilesMove(h, m)
  BY <1>2, <1>4, <1>5, StillFiles, <1>6
<1>9. ASSUME Images!AloneWith(pages[h]) PROVE Images!AloneWith(m)'
  <2>1. column'[Images!Avatar] = "left" /\ \A s \in Images!Singles : column'[s] = "set" => column[s] = "set"
    BY <1>2, <1>3
  <2>2. Images!Steady(m)'
    BY <1>4, <2>1 DEF Images!Steady, Images!Adding, Images!Removing
  <2>3. ~ Images!Numbering(pages[h])
    BY <1>6 DEF Images!Numbering
  <2>4. \A s \in Images!Singles : column'[s] = "set" => s \in files'
    BY <1>2, <1>6, <1>9, <2>1 DEF Images!AloneWith
  <2> QED BY <1>2, <1>9, <2>2, <2>3, <2>4, StillAlone
<1>10. uploads' \in {uploads, uploads + 1}
  BY <1>2
<1> QED BY <1>4, <1>5, <1>6, <1>7, <1>8, <1>9, <1>10, ImagesMove

\* The column says there is an image when the file has been replaced, and that there is none
\* when it has been destroyed.
LEMMA WriteColumnKeeps ==
  ASSUME Images!ImagesInv, NEW h \in Handlers, Images!WriteColumn(h)
  PROVE  Images!ImagesInv'
<1>1. PICK e : e = pages[h] /\ e \in Images!Request /\ Images!Holds(e)
  BY RequestRead
<1>2. PICK m : m = Images!Idle
  OBVIOUS
<1>3. /\ e.pc \in {"show", "clear"} /\ Images!Goto(h, m) /\ UNCHANGED <<photos, files, uploads, cut>>
      /\ column' = [column EXCEPT ![e.file] = IF @ = "left" THEN @ ELSE IF e.pc = "show" THEN "set" ELSE "none"]
  BY <1>1, <1>2 DEF Images!WriteColumn, Images!Done
<1>4. uploads \in Nat /\ column \in [Images!Singles -> {"none", "set", "left"}] /\ DOMAIN photos \subseteq 1 .. uploads
  BY DEF Images!ImagesInv, Images!TypeOK
<1>5. e.file \in Images!Singles /\ e.file \notin DOMAIN photos
  BY <1>1, <1>3, <1>4 DEF Images!Holds, Images!Singles, Images!Logo, Images!Avatar
<1>6. /\ m \in Images!Request' /\ Images!Holds(m)' /\ ~ Images!Removing(m) /\ Images!Steady(m) /\ m.pc = "idle"
      /\ \A i : ~ Images!TakingAway(m, i)
  BY <1>2, <1>3, <1>4, IdleTyped DEF Images!Request, Images!Holds
<1>7. Moves(h, m) /\ calm' \in BOOLEAN
  BY <1>1, <1>3, GotoMoves
<1>8. Images!TypeOK'
  BY <1>3, <1>4, <1>7 DEF Images!ImagesInv, Images!TypeOK
<1>9. FilesMove(h, m)
  <2>1. \A i \in DOMAIN photos : ~ Images!TakingAway(pages[h], i)
    BY <1>1, <1>5 DEF Images!TakingAway
  <2> QED BY <1>3, <1>6, <2>1, StillFiles
<1>10. ASSUME Images!AloneWith(pages[h]) PROVE Images!AloneWith(m)'
  <2>1. ~ Images!Numbering(pages[h])
    BY <1>1, <1>3 DEF Images!Numbering
  <2>2. e.pc = "show" => e.file \in files
    BY <1>1, <1>10 DEF Images!AloneWith, Images!Steady, Images!Removing
  <2>3. ASSUME NEW s \in Images!Singles, column'[s] = "set" PROVE s \in files'
    <3>1. CASE s = e.file
      <4>1. e.pc = "show"
        BY <1>3, <1>4, <1>5, <2>3, <3>1
      <4> QED BY <1>3, <2>2, <3>1, <4>1
    <3>2. CASE s # e.file
      <4>1. column[s] = "set"
        BY <1>3, <1>4, <2>3, <3>2
      <4> QED BY <1>1, <1>3, <1>10, <3>2, <4>1 DEF Images!AloneWith, Images!TakingAway
    <3> QED BY <3>1, <3>2
  <2>4. Images!Steady(m)'
    BY <1>6 DEF Images!Steady, Images!Adding, Images!Removing
  <2> QED BY <1>3, <1>10, <2>1, <2>3, <2>4, StillAlone
<1>11. uploads' \in {uploads, uploads + 1}
  BY <1>3
<1> QED BY <1>2, <1>6, <1>7, <1>8, <1>9, <1>10, <1>11, ImagesMove

\* The file of an image is there before the column says so.
LEMMA ReplaceKeeps ==
  ASSUME Images!ImagesInv, NEW h \in Handlers, Images!Replace(h)
  PROVE  Images!ImagesInv'
<1>1. PICK e : e = pages[h] /\ e \in Images!Request /\ Images!Holds(e)
  BY RequestRead
<1>2. PICK m : m = [e EXCEPT !.pc = "show"]
  OBVIOUS
<1>3. /\ e.pc = "replace" /\ Images!Goto(h, m) /\ files' = files \cup {e.file}
      /\ UNCHANGED <<photos, uploads, column, cut>>
  BY <1>1, <1>2 DEF Images!Replace
<1>4. m \in Images!Request /\ m.pc = "show" /\ m.file = e.file /\ e.file \in Images!Singles
  BY <1>1, <1>2, <1>3 DEF Images!Request, Images!Holds
<1>5. m \in Images!Request' /\ Images!Holds(m)' /\ \A i : ~ Images!TakingAway(m, i)
  BY <1>3, <1>4 DEF Images!Request, Images!Holds, Images!Removing, Images!Adding, Images!TakingAway
<1>6. Moves(h, m) /\ calm' \in BOOLEAN
  BY <1>1, <1>3, GotoMoves
<1>7. Images!TypeOK'
  BY <1>3, <1>4, <1>6 DEF Images!ImagesInv, Images!TypeOK
<1>8. FilesMove(h, m)
  <2>1. Images!FilesStand
    BY DEF Images!ImagesInv
  <2>2. \A i : ~ Images!TakingAway(pages[h], i)
    BY <1>1, <1>3 DEF Images!TakingAway
  <2> QED BY <1>3, <1>4, <2>1, <2>2 DEF FilesMove, Images!FilesStand, Images!Apart, Images!Removing
<1>9. ASSUME Images!AloneWith(pages[h]) PROVE Images!AloneWith(m)'
  <2>1. ~ Images!Numbering(pages[h]) /\ \A i : ~ Images!TakingAway(pages[h], i)
    BY <1>1, <1>3 DEF Images!Numbering, Images!TakingAway
  <2>2. Images!Steady(m)'
    BY <1>3, <1>4 DEF Images!Steady, Images!Adding, Images!Removing
  <2>3. \A s \in Images!Singles : column'[s] = "set" => s \in files'
    BY <1>3, <1>9, <2>1 DEF Images!AloneWith
  <2> QED BY <1>3, <1>9, <2>1, <2>2, <2>3, StillAlone
<1>10. uploads' \in {uploads, uploads + 1}
  BY <1>3
<1> QED BY <1>4, <1>5, <1>6, <1>7, <1>8, <1>9, <1>10, ImagesMove

\* A request that ends without having changed anything.
LEMMA DoneKeeps ==
  ASSUME Images!ImagesInv, NEW h \in Handlers, Images!Done(h), pages[h].pc \in {"destroy", "destroySingle"},
         UNCHANGED <<photos, files, uploads, column, cut>>
  PROVE  Images!ImagesInv'
<1>1. Moves(h, Images!Idle) /\ calm' \in BOOLEAN
  BY GotoMoves DEF Images!Done
<1>2. \A i : ~ Images!TakingAway(pages[h], i)
  BY DEF Images!TakingAway
<1>3. uploads \in Nat
  BY DEF Images!ImagesInv, Images!TypeOK
<1>4. Images!AloneWith(pages[h]) => Images!Compact
  BY DEF Images!AloneWith, Images!Numbering
<1> QED BY <1>1, <1>2, <1>3, <1>4, IdleTyped, ImagesStill

\* The file goes while the request that takes it away is there to delete its row.
LEMMA DestroyPhotoKeeps ==
  ASSUME Images!ImagesInv, NEW h \in Handlers, Images!DestroyPhoto(h)
  PROVE  Images!ImagesInv'
<1>1. PICK e : e = pages[h] /\ e \in Images!Request /\ Images!Holds(e)
  BY RequestRead
<1>2. PICK m : m = [e EXCEPT !.pc = "delete"]
  OBVIOUS
<1>3. e.pc = "destroy" /\ UNCHANGED <<photos, uploads, column, cut>> /\ Images!Destroyed(e.file, m, h)
  BY <1>1, <1>2 DEF Images!DestroyPhoto
<1>4. CASE UNCHANGED files /\ Images!Done(h)
  BY <1>1, <1>3, <1>4, DoneKeeps
<1>5. CASE files' \in {files, files \ {e.file}} /\ Images!Goto(h, m)
  <2>1. m \in Images!Request /\ m.pc = "delete" /\ m.file = e.file /\ m.kind = e.kind /\ e.file \in 1 .. uploads
    BY <1>1, <1>2, <1>3 DEF Images!Request, Images!Holds, Images!Removing
  <2>2. m \in Images!Request' /\ Images!Holds(m)' /\ Images!TakingAway(m, e.file)
    BY <1>3, <2>1 DEF Images!Request, Images!Holds, Images!Removing, Images!Adding, Images!TakingAway
  <2>3. Moves(h, m) /\ calm' \in BOOLEAN
    BY <1>1, <1>3, <1>5, GotoMoves
  <2>4. Images!TypeOK'
    BY <1>3, <1>5, <2>3 DEF Images!ImagesInv, Images!TypeOK
  <2>5. FilesMove(h, m)
    <3>1. Images!FilesStand
      BY DEF Images!ImagesInv
    <3>2. \A i : ~ Images!TakingAway(pages[h], i)
      BY <1>1, <1>3 DEF Images!TakingAway
    <3>3. ASSUME NEW g \in Handlers \ {h} PROVE Images!Apart(m, pages[g]) /\ Images!Apart(pages[g], m)
      BY <1>1, <1>3, <2>1, <3>1 DEF Images!FilesStand, Images!Apart, Images!Removing
    <3>4. ASSUME NEW g \in Handlers \ {h}, pages[g].pc = "save"
          PROVE  pages[g].file \in files' /\ pages[g].file \notin DOMAIN photos'
      <4>1. pages[g].file # e.file
        BY <2>1, <3>3, <3>4 DEF Images!Apart, Images!Removing
      <4> QED BY <1>3, <1>5, <3>1, <3>4, <4>1 DEF Images!FilesStand
    <3>5. ASSUME NEW i \in DOMAIN photos'
          PROVE  \/ i \in files' \cup cut' \/ Images!TakingAway(m, i)
                 \/ \E g \in Handlers \ {h} : Images!TakingAway(pages[g], i)
      <4>1. i \in files \cup cut \/ \E g \in Handlers \ {h} : Images!TakingAway(pages[g], i)
        BY <1>3, <3>1, <3>2 DEF Images!FilesStand
      <4> QED BY <1>3, <1>5, <2>2, <4>1
    <3> QED BY <2>1, <3>3, <3>4, <3>5 DEF FilesMove
  <2>6. ASSUME Images!AloneWith(pages[h]) PROVE Images!AloneWith(m)'
    <3>1. ~ Images!Numbering(pages[h]) /\ \A i : ~ Images!TakingAway(pages[h], i)
      BY <1>1, <1>3 DEF Images!Numbering, Images!TakingAway
    <3>2. Images!Steady(m)'
      <4>1. e.file \in Images!Of(e.kind)
        BY <1>1, <1>3, <2>6 DEF Images!AloneWith, Images!Steady, Images!Removing
      <4>2. Images!Of(e.kind)' = Images!Of(e.kind)
        BY <1>3, StillPlaces
      <4> QED BY <2>1, <4>1, <4>2 DEF Images!Steady, Images!Adding, Images!Removing
    <3>3. e.file \notin Images!Singles
      BY <2>1 DEF Images!Singles, Images!Logo, Images!Avatar
    <3>4. \A s \in Images!Singles : column'[s] = "set" => s \in files'
      BY <1>3, <1>5, <2>6, <3>1, <3>3 DEF Images!AloneWith
    <3> QED BY <1>3, <2>6, <3>1, <3>2, <3>4, StillAlone
  <2>7. uploads' \in {uploads, uploads + 1}
    BY <1>3
  <2> QED BY <2>1, <2>2, <2>3, <2>4, <2>5, <2>6, <2>7, ImagesMove
<1> QED BY <1>3, <1>4, <1>5 DEF Images!Destroyed

\* The image there is one of goes in the same way.
LEMMA DestroySingleKeeps ==
  ASSUME Images!ImagesInv, NEW h \in Handlers, Images!DestroySingle(h)
  PROVE  Images!ImagesInv'
<1>1. PICK e : e = pages[h] /\ e \in Images!Request /\ Images!Holds(e)
  BY RequestRead
<1>2. PICK m : m = [e EXCEPT !.pc = "clear"]
  OBVIOUS
<1>3. e.pc = "destroySingle" /\ UNCHANGED <<photos, uploads, column, cut>> /\ Images!Destroyed(e.file, m, h)
  BY <1>1, <1>2 DEF Images!DestroySingle
<1>4. CASE UNCHANGED files /\ Images!Done(h)
  BY <1>1, <1>3, <1>4, DoneKeeps
<1>5. CASE files' \in {files, files \ {e.file}} /\ Images!Goto(h, m)
  <2>1. m \in Images!Request /\ m.pc = "clear" /\ m.file = e.file /\ e.file \in Images!Singles
    BY <1>1, <1>2, <1>3 DEF Images!Request, Images!Holds
  <2>2. m \in Images!Request' /\ Images!Holds(m)' /\ Images!TakingAway(m, e.file)
    BY <1>3, <2>1 DEF Images!Request, Images!Holds, Images!Removing, Images!Adding, Images!TakingAway
  <2>3. Moves(h, m) /\ calm' \in BOOLEAN
    BY <1>1, <1>3, <1>5, GotoMoves
  <2>4. Images!TypeOK'
    BY <1>3, <1>5, <2>3 DEF Images!ImagesInv, Images!TypeOK
  <2>5. FilesMove(h, m)
    <3>1. Images!FilesStand /\ Images!RequestsTyped /\ DOMAIN photos \subseteq 1 .. uploads
      BY DEF Images!ImagesInv, Images!TypeOK
    <3>2. \A i : i \in 1 .. uploads => i # e.file
      BY <2>1 DEF Images!Singles, Images!Logo, Images!Avatar
    <3>3. ASSUME NEW g \in Handlers \ {h} PROVE Images!Apart(m, pages[g]) /\ Images!Apart(pages[g], m)
      BY <2>1 DEF Images!Apart, Images!Removing
    <3>4. ASSUME NEW g \in Handlers \ {h}, pages[g].pc = "save"
          PROVE  pages[g].file \in files' /\ pages[g].file \notin DOMAIN photos'
      <4>1. pages[g].file \in 1 .. uploads
        BY <3>1, <3>4 DEF Images!RequestsTyped, Images!Holds
      <4> QED BY <1>3, <1>5, <3>1, <3>2, <3>4, <4>1 DEF Images!FilesStand
    <3>5. ASSUME NEW i \in DOMAIN photos'
          PROVE  \/ i \in files' \cup cut' \/ Images!TakingAway(m, i)
                 \/ \E g \in Handlers \ {h} : Images!TakingAway(pages[g], i)
      <4>1. \A x : ~ Images!TakingAway(pages[h], x)
        BY <1>1, <1>3 DEF Images!TakingAway
      <4>2. i \in files \cup cut \/ \E g \in Handlers \ {h} : Images!TakingAway(pages[g], i)
        BY <1>3, <3>1, <4>1 DEF Images!FilesStand
      <4>3. i # e.file
        BY <1>3, <3>1, <3>2
      <4> QED BY <1>3, <1>5, <4>2, <4>3
    <3> QED BY <2>1, <3>3, <3>4, <3>5 DEF FilesMove
  <2>6. ASSUME Images!AloneWith(pages[h]) PROVE Images!AloneWith(m)'
    <3>1. ~ Images!Numbering(pages[h]) /\ \A i : ~ Images!TakingAway(pages[h], i)
      BY <1>1, <1>3 DEF Images!Numbering, Images!TakingAway
    <3>2. Images!Steady(m)'
      BY <2>1 DEF Images!Steady, Images!Adding, Images!Removing
    <3>3. \A s \in Images!Singles : column'[s] = "set" => s \in files' \/ Images!TakingAway(m, s)
      BY <1>3, <1>5, <2>2, <2>6, <3>1 DEF Images!AloneWith
    <3> QED BY <1>3, <2>6, <3>1, <3>2, <3>3, StillAlone
  <2>7. uploads' \in {uploads, uploads + 1}
    BY <1>3
  <2> QED BY <2>1, <2>2, <2>3, <2>4, <2>5, <2>6, <2>7, ImagesMove
<1> QED BY <1>3, <1>4, <1>5 DEF Images!Destroyed

\* Nobody shows the photo of who left.
LEMMA SweepKeeps ==
  ASSUME Images!ImagesInv, NEW h \in Handlers, Images!Sweep(h)
  PROVE  Images!ImagesInv'
<1>1. PICK m : m = Images!Idle
  OBVIOUS
<1>2. /\ pages[h].pc = "sweep" /\ Images!Goto(h, m) /\ files' \in {files, files \ {Images!Avatar}}
      /\ UNCHANGED <<photos, uploads, column, cut>>
  BY <1>1 DEF Images!Sweep, Images!Done
<1>3. uploads \in Nat
  BY DEF Images!ImagesInv, Images!TypeOK
<1>4. /\ m \in Images!Request' /\ Images!Holds(m)' /\ ~ Images!Removing(m) /\ m.pc = "idle" /\ Images!Steady(m)
      /\ \A i : ~ Images!TakingAway(m, i)
  BY <1>1, <1>2, <1>3, IdleTyped DEF Images!Request, Images!Holds
<1>5. Moves(h, m) /\ calm' \in BOOLEAN
  BY <1>2, GotoMoves
<1>6. Images!TypeOK'
  BY <1>2, <1>5 DEF Images!ImagesInv, Images!TypeOK
<1>7. FilesMove(h, m)
  <2>1. Images!FilesStand /\ Images!RequestsTyped /\ DOMAIN photos \subseteq 1 .. uploads
    BY DEF Images!ImagesInv, Images!TypeOK
  <2>2. \A i : i \in 1 .. uploads => i # Images!Avatar
    BY DEF Images!Avatar
  <2>3. ASSUME NEW g \in Handlers \ {h}, pages[g].pc = "save"
        PROVE  pages[g].file \in files' /\ pages[g].file \notin DOMAIN photos'
    <3>1. pages[g].file \in 1 .. uploads
      BY <2>1, <2>3 DEF Images!RequestsTyped, Images!Holds
    <3> QED BY <1>2, <2>1, <2>2, <2>3, <3>1 DEF Images!FilesStand
  <2>4. ASSUME NEW i \in DOMAIN photos'
        PROVE  i \in files' \cup cut' \/ \E g \in Handlers \ {h} : Images!TakingAway(pages[g], i)
    <3>1. \A x : ~ Images!TakingAway(pages[h], x)
      BY <1>2 DEF Images!TakingAway
    <3>2. i \in files \cup cut \/ \E g \in Handlers \ {h} : Images!TakingAway(pages[g], i)
      BY <1>2, <2>1, <3>1 DEF Images!FilesStand
    <3>3. i # Images!Avatar
      BY <1>2, <2>1, <2>2
    <3> QED BY <1>2, <3>2, <3>3
  <2> QED BY <1>4, <2>3, <2>4 DEF FilesMove, Images!Apart
<1>8. ASSUME Images!AloneWith(pages[h]) PROVE Images!AloneWith(m)'
  <2>1. ~ Images!Numbering(pages[h]) /\ \A i : ~ Images!TakingAway(pages[h], i)
    BY <1>2 DEF Images!Numbering, Images!TakingAway
  <2>2. Images!Steady(m)'
    BY <1>4 DEF Images!Steady, Images!Adding, Images!Removing
  <2>3. column[Images!Avatar] = "left"
    BY <1>2, <1>8 DEF Images!AloneWith, Images!Steady, Images!Removing
  <2>4. \A s \in Images!Singles : column'[s] = "set" => s \in files'
    BY <1>2, <1>8, <2>1, <2>3 DEF Images!AloneWith
  <2> QED BY <1>2, <1>8, <2>1, <2>2, <2>4, StillAlone
<1>9. uploads' \in {uploads, uploads + 1}
  BY <1>2
<1> QED BY <1>1, <1>4, <1>5, <1>6, <1>7, <1>8, <1>9, ImagesMove

\* What a crash interrupts leaves its file where it was, and if it was removing a photo that is
\* one of those cut short.
LEMMA ImagesCrashKeeps ==
  ASSUME Images!ImagesInv, NEW h \in Handlers, Images!Crash(h)
  PROVE  Images!ImagesInv'
<1>1. PICK e : e = pages[h] /\ e \in Images!Request /\ Images!Holds(e)
  BY RequestRead
<1>2. PICK m : m = Images!Idle
  OBVIOUS
<1>3. /\ pages' = [pages EXCEPT ![h] = m] /\ calm' = FALSE /\ UNCHANGED <<photos, files, uploads, column>>
      /\ cut \subseteq cut' /\ (e.pc = "delete" => e.file \in cut')
  BY <1>1, <1>2 DEF Images!Crash
<1>4. uploads \in Nat
  BY DEF Images!ImagesInv, Images!TypeOK
<1>5. /\ m \in Images!Request' /\ Images!Holds(m)' /\ ~ Images!Removing(m) /\ m.pc = "idle"
      /\ \A i : ~ Images!TakingAway(m, i)
  BY <1>2, <1>3, <1>4, IdleTyped DEF Images!Request, Images!Holds
<1>6. Moves(h, m)
  BY <1>3 DEF Moves
<1>7. Images!TypeOK'
  BY <1>3 DEF Images!ImagesInv, Images!TypeOK
<1>8. FilesMove(h, m)
  <2>1. Images!FilesStand /\ DOMAIN photos \subseteq 1 .. uploads
    BY DEF Images!ImagesInv, Images!TypeOK
  <2>2. ASSUME NEW i \in DOMAIN photos, Images!TakingAway(e, i) PROVE i \in cut'
    BY <1>1, <1>3, <2>1, <2>2 DEF Images!TakingAway, Images!Holds, Images!Singles, Images!Logo, Images!Avatar
  <2>3. ASSUME NEW i \in DOMAIN photos'
        PROVE  i \in files' \cup cut' \/ \E g \in Handlers \ {h} : Images!TakingAway(pages[g], i)
    <3>1. i \in files \cup cut \/ \E g \in Handlers : Images!TakingAway(pages[g], i)
      BY <1>3, <2>1 DEF Images!FilesStand
    <3> QED BY <1>1, <1>3, <2>2, <3>1
  <2> QED BY <1>3, <1>5, <2>1, <2>3 DEF FilesMove, Images!FilesStand, Images!Apart
<1>9. uploads' \in {uploads, uploads + 1} /\ ~ calm'
  BY <1>3
<1> QED BY <1>2, <1>5, <1>6, <1>7, <1>8, <1>9, ImagesMove

\* Nobody else has what is uploaded now.
LEMMA UploadKeeps ==
  ASSUME Images!PhotosAssumption, Images!ImagesInv, NEW h \in Handlers, Images!Upload(h)
  PROVE  Images!ImagesInv'
<1>1. PICK e : e = pages[h] /\ e \in Images!Request /\ Images!Holds(e)
  BY RequestRead
<1>2. PICK m : m = [e EXCEPT !.pc = "save", !.file = uploads + 1]
  OBVIOUS
<1>3. /\ e.pc = "upload" /\ Images!Goto(h, m) /\ uploads < MaxUploads /\ uploads' = uploads + 1
      /\ files' = files \cup {uploads + 1} /\ UNCHANGED <<photos, column, cut>>
  BY <1>1, <1>2 DEF Images!Upload
<1>4. uploads \in Nat /\ MaxUploads \in Nat /\ DOMAIN photos \subseteq 1 .. uploads
  BY DEF Images!ImagesInv, Images!TypeOK, Images!PhotosAssumption
<1>5. e \in Images!Request' /\ uploads' \in {uploads, uploads + 1}
  BY <1>1, <1>3, <1>4, RequestsGrow
<1>6. /\ m.pc = "save" /\ m.file = uploads + 1 /\ m.kind = e.kind /\ m.left = e.left /\ m.pos = e.pos
      /\ m \in Images!Request'
  <2>1. PICK u : u = uploads + 1
    OBVIOUS
  <2>2. u \in 0 .. uploads' /\ m = [e EXCEPT !.pc = "save", !.file = u]
    BY <1>2, <1>3, <1>4, <2>1
  <2> QED BY <1>5, <2>1, <2>2 DEF Images!Request
<1>7. Images!Holds(m)' /\ \A i : ~ Images!TakingAway(m, i)
  BY <1>1, <1>3, <1>4, <1>6 DEF Images!Holds, Images!Removing, Images!Adding, Images!TakingAway
<1>8. Moves(h, m) /\ calm' \in BOOLEAN
  BY <1>1, <1>3, GotoMoves
<1>9. Images!TypeOK'
  BY <1>3, <1>4, <1>8 DEF Images!ImagesInv, Images!TypeOK
<1>10. FilesMove(h, m)
  <2>1. Images!FilesStand /\ Images!RequestsTyped
    BY DEF Images!ImagesInv
  <2>2. \A i : ~ Images!TakingAway(pages[h], i)
    BY <1>1, <1>3 DEF Images!TakingAway
  <2>3. ASSUME NEW g \in Handlers \ {h}, pages[g].pc = "save" \/ Images!Removing(pages[g])
        PROVE  pages[g].file # uploads + 1
    BY <1>4, <2>1, <2>3 DEF Images!RequestsTyped, Images!Holds
  <2>4. \A g \in Handlers \ {h} : Images!Apart(m, pages[g]) /\ Images!Apart(pages[g], m)
    BY <1>6, <2>3 DEF Images!Apart, Images!Removing
  <2>5. m.file \in files' /\ m.file \notin DOMAIN photos'
    BY <1>3, <1>4, <1>6
  <2> QED BY <1>3, <2>1, <2>2, <2>4, <2>5 DEF FilesMove, Images!FilesStand
<1>11. ASSUME Images!AloneWith(pages[h]) PROVE Images!AloneWith(m)'
  <2>1. ~ Images!Numbering(pages[h]) /\ \A i : ~ Images!TakingAway(pages[h], i)
    BY <1>1, <1>3 DEF Images!Numbering, Images!TakingAway
  <2>2. Images!Steady(e)
    BY <1>1, <1>11 DEF Images!AloneWith
  <2>3. Images!Steady(m)'
    <3>1. \A kind : Images!Of(kind)' = Images!Of(kind)
      BY <1>3, StillPlaces
    <3> QED BY <1>3, <1>6, <2>2, <3>1 DEF Images!Steady, Images!Adding, Images!Removing
  <2>4. \A s \in Images!Singles : column'[s] = "set" => s \in files'
    BY <1>3, <1>11, <2>1 DEF Images!AloneWith
  <2> QED BY <1>3, <1>11, <2>1, <2>3, <2>4, StillAlone
<1> QED BY <1>5, <1>6, <1>7, <1>8, <1>9, <1>10, <1>11, ImagesMove

\* A photo more: it is of its kind, and what was known of the others stays.
LEMMA PhotoAdded ==
  ASSUME Images!TypeOK, NEW f, f \notin DOMAIN photos, NEW kind, NEW pos,
         photos' = [i \in DOMAIN photos \cup {f} |-> IF i = f THEN [kind |-> kind, pos |-> pos] ELSE photos[i]]
  PROVE  /\ DOMAIN photos' = DOMAIN photos \cup {f} /\ photos'[f] = [kind |-> kind, pos |-> pos]
         /\ \A i \in DOMAIN photos : photos'[i] = photos[i]
         /\ Images!Of(kind)' = Images!Of(kind) \cup {f}
         /\ \A k : k # kind => Images!Of(k)' = Images!Of(k)
         /\ Cardinality(Images!Of(kind)') = Cardinality(Images!Of(kind)) + 1
<1>1. /\ DOMAIN photos' = DOMAIN photos \cup {f} /\ photos'[f] = [kind |-> kind, pos |-> pos]
      /\ \A i \in DOMAIN photos : photos'[i] = photos[i]
  OBVIOUS
<1>2. Images!Of(kind)' = Images!Of(kind) \cup {f} /\ \A k : k # kind => Images!Of(k)' = Images!Of(k)
  BY <1>1 DEF Images!Of
<1>3. f \notin Images!Of(kind) /\ IsFiniteSet(Images!Of(kind))
  BY PhotosFinite DEF Images!Of
<1>4. Cardinality(Images!Of(kind) \cup {f}) = Cardinality(Images!Of(kind)) + 1
  BY <1>3, FS_AddElement
<1> QED BY <1>1, <1>2, <1>4

\* The photo goes in a place that nobody has, and the next one goes after it.
LEMMA SavePhotoKeeps ==
  ASSUME Images!PhotosAssumption, Images!ImagesInv, NEW h \in Handlers, Images!SavePhoto(h)
  PROVE  Images!ImagesInv'
<1>1. PICK e : e = pages[h] /\ e \in Images!Request /\ Images!Holds(e)
  BY RequestRead
<1>2. PICK m : m = IF e.left = 1 THEN Images!Idle ELSE [e EXCEPT !.pc = "upload", !.left = @ - 1, !.pos = @ + 1]
  OBVIOUS
<1>3. PICK f : f = e.file
  OBVIOUS
<1>4. /\ e.pc = "save" /\ Images!Goto(h, m) /\ UNCHANGED <<files, uploads, column, cut>>
      /\ photos' = [i \in DOMAIN photos \cup {f} |-> IF i = f THEN [kind |-> e.kind, pos |-> e.pos] ELSE photos[i]]
  BY <1>1, <1>2, <1>3 DEF Images!SavePhoto, Images!Done
<1>5. /\ Images!FilesStand /\ Images!TypeOK /\ uploads \in Nat /\ DOMAIN photos \subseteq 1 .. uploads
      /\ photos \in [DOMAIN photos -> Images!Photo]
  BY DEF Images!ImagesInv, Images!TypeOK
<1>6. f \in 1 .. uploads /\ f \in files /\ f \notin DOMAIN photos /\ e.left \in Nat \ {0} /\ e.pos \in Nat /\ e.kind \in Images!Kinds
  BY <1>1, <1>3, <1>4, <1>5 DEF Images!FilesStand, Images!Holds, Images!Adding, Images!Request
<1>7. /\ DOMAIN photos' = DOMAIN photos \cup {f} /\ photos'[f] = [kind |-> e.kind, pos |-> e.pos]
      /\ \A i \in DOMAIN photos : photos'[i] = photos[i]
      /\ Images!Of(e.kind)' = Images!Of(e.kind) \cup {f}
      /\ \A k : k # e.kind => Images!Of(k)' = Images!Of(k)
      /\ Cardinality(Images!Of(e.kind)') = Cardinality(Images!Of(e.kind)) + 1
  BY <1>4, <1>5, <1>6, PhotoAdded
<1>9. /\ m \in Images!Request' /\ m.pc \in {"idle", "upload"} /\ (m.pc = "idle" => m = Images!Idle)
      /\ m.pc = "upload" => m.left = e.left - 1 /\ m.pos = e.pos + 1 /\ m.kind = e.kind /\ m.left \in Nat \ {0}
  <2>1. CASE e.left = 1
    BY <1>2, <1>4, <1>5, <2>1, IdleTyped DEF Images!Request
  <2>2. CASE e.left # 1
    <3>1. PICK l, p : l = e.left - 1 /\ p = e.pos + 1
      OBVIOUS
    <3>2. l \in Nat \ {0} /\ p \in Nat /\ m = [e EXCEPT !.pc = "upload", !.left = l, !.pos = p]
      BY <1>2, <1>6, <2>2, <3>1
    <3>3. m \in Images!Request /\ m.pc = "upload" /\ m.left = l /\ m.pos = p /\ m.kind = e.kind
      BY <1>1, <3>2 DEF Images!Request
    <3> QED BY <1>4, <3>1, <3>2, <3>3 DEF Images!Request
  <2> QED BY <2>1, <2>2
<1>10. Images!Holds(m)' /\ ~ Images!Removing(m) /\ \A i : ~ Images!TakingAway(m, i)
  BY <1>9 DEF Images!Holds, Images!Removing, Images!Adding, Images!TakingAway
<1>11. Moves(h, m) /\ calm' \in BOOLEAN
  BY <1>1, <1>4, GotoMoves
<1>12. Images!TypeOK'
  <2>1. \A i \in DOMAIN photos' : photos'[i] \in Images!Photo
    BY <1>5, <1>6, <1>7 DEF Images!Photo
  <2>2. photos' \in [DOMAIN photos' -> Images!Photo]
    BY <1>4, <2>1
  <2> QED BY <1>4, <1>5, <1>6, <1>7, <1>11, <2>2 DEF Images!TypeOK
<1>13. FilesMove(h, m)
  <2>1. \A i : ~ Images!TakingAway(pages[h], i)
    BY <1>1, <1>4 DEF Images!TakingAway
  <2>2. ASSUME NEW g \in Handlers \ {h}, pages[g].pc = "save" PROVE pages[g].file # f
    BY <1>1, <1>3, <1>4, <1>5, <2>2 DEF Images!FilesStand, Images!Apart
  <2>3. \A g \in Handlers \ {h} : Images!Apart(m, pages[g]) /\ Images!Apart(pages[g], m)
    BY <1>9, <1>10 DEF Images!Apart
  <2>4. ASSUME NEW i \in DOMAIN photos'
        PROVE  i \in files' \cup cut' \/ \E g \in Handlers \ {h} : Images!TakingAway(pages[g], i)
    BY <1>4, <1>5, <1>6, <1>7, <2>1 DEF Images!FilesStand
  <2>5. m.pc # "save"
    BY <1>9
  <2> QED BY <1>4, <1>5, <1>7, <2>2, <2>3, <2>4, <2>5 DEF FilesMove, Images!FilesStand
<1>14. ASSUME Images!AloneWith(pages[h]) PROVE Images!AloneWith(m)'
  <2>1. PICK c : c = Cardinality(Images!Of(e.kind))
    OBVIOUS
  <2>2. /\ c \in Nat /\ Images!Cardinality(Images!Of(e.kind)) = c
        /\ Images!Cardinality(Images!Of(e.kind))' = c + 1
    BY <1>5, <1>7, <2>1, PhotosFinite, SameCount
  <2>3. Images!Steady(e) /\ Images!PlacesStand /\ Images!Compact
    BY <1>1, <1>4, <1>14 DEF Images!AloneWith, Images!Numbering
  <2>4. c + e.left <= MaxPhotos[e.kind] /\ MaxPhotos[e.kind] \in Nat
    BY <1>4, <1>6, <2>2, <2>3 DEF Images!Steady, Images!Adding, Images!PhotosAssumption
  <2>5. e.kind = "gallery" => e.pos = c
    BY <1>4, <2>2, <2>3 DEF Images!Steady
  <2>6. e.kind = "portfolio" => \A i \in Images!Of("portfolio") : photos[i].pos \notin e.pos .. e.pos + e.left - 1
    BY <1>4, <2>3 DEF Images!Steady
  <2>7. \A i \in Images!Of(e.kind) : photos[i].pos # e.pos
    <3>1. CASE e.kind = "gallery"
      BY <2>2, <2>3, <2>5, <3>1 DEF Images!Compact
    <3>2. CASE e.kind = "portfolio"
      BY <1>6, <2>6, <3>2
    <3> QED BY <1>6, <3>1, <3>2 DEF Images!Kinds
  <2>8. Images!PlacesStand'
    <3>1. ASSUME NEW i \in DOMAIN photos', NEW j \in DOMAIN photos', photos'[i] = photos'[j] PROVE i = j
      <4>1. \A x \in DOMAIN photos : photos'[x] # photos'[f]
        <5>1. ASSUME NEW x \in DOMAIN photos, photos[x] = [kind |-> e.kind, pos |-> e.pos] PROVE FALSE
          BY <2>7, <5>1 DEF Images!Of
        <5> QED BY <1>7, <5>1
      <4> QED BY <1>7, <2>3, <3>1, <4>1 DEF Images!PlacesStand
    <3>2. ASSUME NEW k \in Images!Kinds PROVE Images!Cardinality(Images!Of(k))' <= MaxPhotos[k]
      <4>1. CASE k = e.kind
        BY <1>6, <2>2, <2>4, <4>1
      <4>2. CASE k # e.kind
        BY <1>7, <2>3, <4>2 DEF Images!PlacesStand
      <4> QED BY <4>1, <4>2
    <3> QED BY <3>1, <3>2 DEF Images!PlacesStand
  <2>9. Images!Compact'
    <3>1. CASE e.kind = "gallery"
      <4>1. {photos'[i].pos : i \in Images!Of("gallery")'} = {photos[i].pos : i \in Images!Of("gallery")} \cup {c}
        BY <1>7, <2>5, <3>1 DEF Images!Of
      <4>2. {photos[i].pos : i \in Images!Of("gallery")} = 0 .. c - 1
        BY <2>2, <2>3, <3>1 DEF Images!Compact
      <4>3. (0 .. c - 1) \cup {c} = 0 .. c
        BY <2>2
      <4>4. Images!Cardinality(Images!Of("gallery"))' = c + 1
        BY <2>2, <3>1
      <4>5. {photos'[i].pos : i \in Images!Of("gallery")'} = 0 .. c
        BY <4>1, <4>2, <4>3
      <4>6. 0 .. c = 0 .. (Images!Cardinality(Images!Of("gallery"))' - 1)
        BY <2>2, <4>4
      <4> QED BY Zenon, <4>5, <4>6 DEF Images!Compact
    <3>2. CASE e.kind # "gallery"
      <4>1. Images!Of("gallery")' = Images!Of("gallery")
        BY <1>7, <3>2
      <4>2. \A i \in Images!Of("gallery") : photos'[i] = photos[i]
        BY <1>7 DEF Images!Of
      <4>3. {photos'[i].pos : i \in Images!Of("gallery")'} = {photos[i].pos : i \in Images!Of("gallery")}
        BY <4>1, <4>2
      <4> QED BY <2>3, <4>1, <4>3 DEF Images!Compact
    <3> QED BY <3>1, <3>2
  <2>10. Images!Steady(m)'
    <3>1. CASE m.pc = "idle"
      BY <3>1 DEF Images!Steady, Images!Adding, Images!Removing
    <3>2. CASE m.pc = "upload"
      <4>1. Images!Cardinality(Images!Of(m.kind))' + m.left <= MaxPhotos[m.kind]
        BY <1>6, <1>9, <2>2, <2>4, <3>2
      <4>2. m.kind = "gallery" => m.pos = Images!Cardinality(Images!Of("gallery"))'
        BY <1>9, <2>2, <2>5, <3>2
      <4>3. ASSUME m.kind = "portfolio", NEW i \in Images!Of("portfolio")' PROVE photos'[i].pos \notin m.pos .. m.pos + m.left - 1
        <5>1. m.pos = e.pos + 1 /\ m.left = e.left - 1 /\ e.kind = "portfolio"
          BY <1>9, <3>2, <4>3
        <5>2. CASE i = f
          BY <1>6, <1>7, <5>1, <5>2
        <5>3. CASE i # f
          <6>1. i \in Images!Of("portfolio") /\ photos'[i] = photos[i]
            BY <1>7, <4>3, <5>1, <5>3 DEF Images!Of
          <6>2. photos[i].pos \notin e.pos .. e.pos + e.left - 1 /\ photos[i].pos \in Nat
            BY <1>5, <2>6, <5>1, <6>1 DEF Images!Of, Images!Photo
          <6> QED BY <1>6, <5>1, <6>1, <6>2
        <5> QED BY <5>2, <5>3
      <4> QED BY <3>2, <4>1, <4>2, <4>3 DEF Images!Steady, Images!Adding, Images!Removing
    <3> QED BY <1>9, <3>1, <3>2
  <2>11. \A s \in Images!Singles : column'[s] = "set" => s \in files'
    BY <1>1, <1>4, <1>14 DEF Images!AloneWith, Images!TakingAway
  <2> QED BY <2>8, <2>9, <2>10, <2>11 DEF Images!AloneWith
<1>15. uploads' \in {uploads, uploads + 1}
  BY <1>4
<1> QED BY <1>9, <1>10, <1>11, <1>12, <1>13, <1>14, <1>15, ImagesMove

\* Making room ahead of the portfolio moves all of it, and nothing else.
LEMMA IncrementKeeps ==
  ASSUME Images!ImagesInv, NEW h \in Handlers, Images!Increment(h)
  PROVE  Images!ImagesInv'
<1>1. PICK e : e = pages[h] /\ e \in Images!Request /\ Images!Holds(e)
  BY RequestRead
<1>2. PICK m : m = [e EXCEPT !.pc = "upload"]
  OBVIOUS
<1>3. /\ e.pc = "increment" /\ Images!Goto(h, m) /\ UNCHANGED <<files, uploads, column, cut>>
      /\ photos' = [i \in DOMAIN photos |-> IF photos[i].kind = e.kind THEN [photos[i] EXCEPT !.pos = @ + e.left] ELSE photos[i]]
  BY <1>1, <1>2 DEF Images!Increment
<1>4. /\ Images!FilesStand /\ Images!TypeOK /\ uploads \in Nat /\ DOMAIN photos \subseteq 1 .. uploads
      /\ photos \in [DOMAIN photos -> Images!Photo]
  BY DEF Images!ImagesInv, Images!TypeOK
<1>5. e.left \in Nat \ {0} /\ e.kind \in Images!Kinds
  BY <1>1, <1>3 DEF Images!Holds, Images!Adding, Images!Request
<1>6. m \in Images!Request' /\ m.pc = "upload" /\ m.kind = e.kind /\ m.left = e.left /\ m.pos = e.pos
  BY <1>1, <1>2, <1>3 DEF Images!Request
<1>7. Images!Holds(m)' /\ ~ Images!Removing(m) /\ \A i : ~ Images!TakingAway(m, i)
  BY <1>5, <1>6 DEF Images!Holds, Images!Removing, Images!Adding, Images!TakingAway
<1>8. Moves(h, m) /\ calm' \in BOOLEAN
  BY <1>1, <1>3, GotoMoves
<1>9. ASSUME NEW i \in DOMAIN photos
      PROVE  /\ photos'[i] \in Images!Photo /\ photos'[i].kind = photos[i].kind
             /\ photos[i].kind = e.kind => photos'[i].pos = photos[i].pos + e.left
             /\ photos[i].kind # e.kind => photos'[i] = photos[i]
  <2>1. PICK x : x = photos[i] /\ x \in Images!Photo
    BY <1>4
  <2>2. photos'[i] = IF x.kind = e.kind THEN [x EXCEPT !.pos = x.pos + e.left] ELSE x
    BY <1>3, <2>1
  <2>3. PICK p : p = x.pos + e.left
    OBVIOUS
  <2>4. p \in Nat
    BY <1>5, <2>1, <2>3 DEF Images!Photo
  <2>5. [x EXCEPT !.pos = p] \in Images!Photo /\ [x EXCEPT !.pos = p].kind = x.kind /\ [x EXCEPT !.pos = p].pos = p
    BY <2>1, <2>4 DEF Images!Photo
  <2> QED BY <2>1, <2>2, <2>3, <2>5
<1>10. DOMAIN photos' = DOMAIN photos /\ photos' \in [DOMAIN photos' -> Images!Photo]
  BY <1>3, <1>9
<1>11. Images!TypeOK'
  BY <1>3, <1>4, <1>8, <1>10 DEF Images!TypeOK
<1>12. FilesMove(h, m)
  <2>1. \A i : ~ Images!TakingAway(pages[h], i)
    BY <1>1, <1>3 DEF Images!TakingAway
  <2>2. \A g \in Handlers \ {h} : Images!Apart(m, pages[g]) /\ Images!Apart(pages[g], m)
    BY <1>6, <1>7 DEF Images!Apart
  <2> QED BY <1>3, <1>4, <1>6, <1>10, <2>1, <2>2 DEF FilesMove, Images!FilesStand
<1>13. ASSUME Images!AloneWith(pages[h]) PROVE Images!AloneWith(m)'
  <2>1. Images!Steady(e) /\ Images!PlacesStand /\ Images!Compact /\ e.kind = "portfolio" /\ e.pos = 0
    BY <1>1, <1>3, <1>13 DEF Images!AloneWith, Images!Numbering, Images!Steady
  <2>2. \A k : Images!Of(k)' = Images!Of(k)
    BY <1>9, <1>10 DEF Images!Of
  <2>3. Images!PlacesStand'
    <3>1. ASSUME NEW i \in DOMAIN photos', NEW j \in DOMAIN photos', photos'[i] = photos'[j] PROVE i = j
      <4>1. PICK x, y : x = photos[i] /\ y = photos[j]
        OBVIOUS
      <4>2. x \in Images!Photo /\ y \in Images!Photo
        BY <1>4, <1>10, <4>1
      <4>3. x.kind = y.kind
        BY <1>9, <1>10, <3>1, <4>1
      <4>4. x.pos = y.pos
        BY SMTT(60), <1>5, <1>9, <1>10, <3>1, <4>1, <4>2, <4>3 DEF Images!Photo
      <4>5. x = y
        BY <4>2, <4>3, <4>4 DEF Images!Photo
      <4> QED BY <1>10, <2>1, <4>1, <4>5 DEF Images!PlacesStand
    <3> QED BY <2>1, <2>2, <3>1 DEF Images!PlacesStand
  <2>4. Images!Compact'
    <3>1. \A i \in Images!Of("gallery") : photos'[i] = photos[i]
      BY <1>9, <2>1 DEF Images!Of
    <3>2. {photos'[i].pos : i \in Images!Of("gallery")'} = {photos[i].pos : i \in Images!Of("gallery")}
      BY <2>2, <3>1
    <3> QED BY <2>1, <2>2, <3>2 DEF Images!Compact
  <2>5. Images!Steady(m)'
    <3>1. ASSUME NEW i \in Images!Of("portfolio")' PROVE photos'[i].pos \notin m.pos .. m.pos + m.left - 1
      <4>1. i \in DOMAIN photos /\ photos[i].kind = e.kind /\ photos[i].pos \in Nat
        BY <1>4, <2>1, <2>2 DEF Images!Of, Images!Photo
      <4> QED BY <1>5, <1>6, <1>9, <2>1, <4>1
    <3> QED BY <1>3, <1>6, <2>1, <2>2, <3>1 DEF Images!Steady, Images!Adding, Images!Removing
  <2>6. \A s \in Images!Singles : column'[s] = "set" => s \in files'
    BY <1>1, <1>3, <1>13 DEF Images!AloneWith, Images!TakingAway
  <2> QED BY <2>3, <2>4, <2>5, <2>6 DEF Images!AloneWith
<1>14. uploads' \in {uploads, uploads + 1}
  BY <1>3
<1> QED BY <1>6, <1>7, <1>8, <1>11, <1>12, <1>13, <1>14, ImagesMove

\* The row goes behind its file.  What is left of the gallery is to be put in order.
LEMMA DeletePhotoKeeps ==
  ASSUME Images!PhotosAssumption, Images!ImagesInv, NEW h \in Handlers, Images!DeletePhoto(h)
  PROVE  Images!ImagesInv'
<1>1. PICK e : e = pages[h] /\ e \in Images!Request /\ Images!Holds(e)
  BY RequestRead
<1>2. PICK m : m = [e EXCEPT !.pc = "reindex"]
  OBVIOUS
<1>3. /\ e.pc = "delete" /\ Images!Goto(h, m) /\ UNCHANGED <<files, uploads, column, cut>>
      /\ photos' = [i \in DOMAIN photos \ {e.file} |-> photos[i]]
  BY <1>1, <1>2 DEF Images!DeletePhoto
<1>4. /\ Images!FilesStand /\ Images!TypeOK /\ uploads \in Nat /\ DOMAIN photos \subseteq 1 .. uploads
      /\ photos \in [DOMAIN photos -> Images!Photo]
  BY DEF Images!ImagesInv, Images!TypeOK
<1>5. m \in Images!Request' /\ m.pc = "reindex" /\ m.kind = e.kind /\ e.kind \in Images!Kinds
  BY <1>1, <1>2, <1>3 DEF Images!Request
<1>6. Images!Holds(m)' /\ ~ Images!Removing(m)
  BY <1>5 DEF Images!Holds, Images!Removing, Images!Adding
<1>7. Moves(h, m) /\ calm' \in BOOLEAN
  BY <1>1, <1>3, GotoMoves
<1>8. DOMAIN photos' = DOMAIN photos \ {e.file} /\ \A i \in DOMAIN photos' : photos'[i] = photos[i]
  BY <1>3
<1>9. Images!TypeOK'
  <2>1. photos' \in [DOMAIN photos' -> Images!Photo]
    BY <1>3, <1>4, <1>8
  <2> QED BY <1>3, <1>4, <1>7, <1>8, <2>1 DEF Images!TypeOK
<1>10. FilesMove(h, m)
  <2>1. \A i \in DOMAIN photos' : ~ Images!TakingAway(pages[h], i)
    BY <1>1, <1>8 DEF Images!TakingAway
  <2>2. \A g \in Handlers \ {h} : Images!Apart(m, pages[g]) /\ Images!Apart(pages[g], m)
    BY <1>5, <1>6 DEF Images!Apart
  <2> QED BY <1>3, <1>4, <1>5, <1>8, <2>1, <2>2 DEF FilesMove, Images!FilesStand
<1>11. ASSUME Images!AloneWith(pages[h]) PROVE Images!AloneWith(m)'
  <2>1. Images!Steady(e) /\ Images!PlacesStand /\ Images!Compact /\ e.file \in Images!Of(e.kind)
    BY <1>1, <1>3, <1>11 DEF Images!AloneWith, Images!Numbering, Images!Steady, Images!Removing
  <2>2. /\ \A k : Images!Of(k)' \in SUBSET Images!Of(k)
        /\ \A k : k # e.kind => Images!Of(k)' = Images!Of(k)
    BY <1>8, <2>1 DEF Images!Of
  <2>3. Images!PlacesStand'
    <3>1. ASSUME NEW i \in DOMAIN photos', NEW j \in DOMAIN photos', photos'[i] = photos'[j] PROVE i = j
      BY <1>8, <2>1, <3>1 DEF Images!PlacesStand
    <3>2. ASSUME NEW k \in Images!Kinds PROVE Images!Cardinality(Images!Of(k))' <= MaxPhotos[k]
      <4>1. PICK T : T = Images!Of(k)'
        OBVIOUS
      <4>2. Cardinality(T) <= Cardinality(Images!Of(k)) /\ IsFiniteSet(T)
        BY <1>4, <2>2, <4>1, PhotosFinite, FS_Subset
      <4>3. Images!Cardinality(Images!Of(k))' = Cardinality(T)
        BY <4>1, SameCount
      <4>4. Cardinality(Images!Of(k)) <= MaxPhotos[k]
        BY <2>1, SameCount DEF Images!PlacesStand
      <4>5. Cardinality(T) \in Nat /\ Cardinality(Images!Of(k)) \in Nat /\ MaxPhotos[k] \in Nat
        BY <1>4, <4>2, PhotosFinite, FS_CardinalityType DEF Images!PhotosAssumption
      <4> QED BY <4>2, <4>3, <4>4, <4>5
    <3> QED BY <3>1, <3>2 DEF Images!PlacesStand
  <2>4. Images!Numbering(m) \/ Images!Compact'
    <3>1. CASE e.kind = "gallery"
      BY <1>5, <3>1 DEF Images!Numbering
    <3>2. CASE e.kind # "gallery"
      <4>1. Images!Of("gallery")' = Images!Of("gallery")
        BY <2>2, <3>2
      <4>2. \A i \in Images!Of("gallery")' : photos'[i] = photos[i]
        BY <1>8 DEF Images!Of
      <4>3. {photos'[i].pos : i \in Images!Of("gallery")'} = {photos[i].pos : i \in Images!Of("gallery")}
        BY <4>1, <4>2
      <4> QED BY <2>1, <4>1, <4>3 DEF Images!Compact
    <3> QED BY <3>1, <3>2
  <2>5. Images!Steady(m)'
    BY <1>5 DEF Images!Steady, Images!Adding, Images!Removing
  <2>6. \A s \in Images!Singles : column'[s] = "set" => s \in files'
    <3>1. \A s \in Images!Singles : s # e.file
      BY <1>4, <2>1 DEF Images!Of, Images!Singles, Images!Logo, Images!Avatar
    <3> QED BY <1>1, <1>3, <1>11, <3>1 DEF Images!AloneWith, Images!TakingAway
  <2> QED BY <2>3, <2>4, <2>5, <2>6 DEF Images!AloneWith, Images!Numbering
<1>12. uploads' \in {uploads, uploads + 1}
  BY <1>3
<1> QED BY <1>5, <1>6, <1>7, <1>9, <1>10, <1>11, <1>12, ImagesMove

\* The place of one that is in the list, from 0 on.
LEMMA PlaceIs ==
  ASSUME NEW T, NEW list \in Seq(T), NEW i, Images!Contains(list, i)
  PROVE  /\ Images!PlaceIn(list, i) + 1 \in DOMAIN list /\ list[Images!PlaceIn(list, i) + 1] = i
         /\ Images!PlaceIn(list, i) \in 0 .. Len(list) - 1
<1>1. Len(list) \in Nat /\ DOMAIN list = 1 .. Len(list)
  OBVIOUS
<1>2. \E k \in DOMAIN list : list[k] = i
  BY <1>1 DEF Images!Contains
<1>3. PICK k : k = CHOOSE n \in DOMAIN list : list[n] = i
  OBVIOUS
<1>4. k \in DOMAIN list /\ list[k] = i
  BY <1>2, <1>3
<1>5. Images!PlaceIn(list, i) = k - 1
  BY <1>3 DEF Images!PlaceIn
<1> QED BY <1>1, <1>4, <1>5

\* Two intervals that begin at 1 and are the same end at the same number.
LEMMA SameInterval ==
  ASSUME NEW a \in Nat, NEW b \in Nat, 1 .. a = 1 .. b
  PROVE  a = b
<1>1. a > 0 => a \in 1 .. b
  OBVIOUS
<1>2. b > 0 => b \in 1 .. a
  OBVIOUS
<1> QED BY <1>1, <1>2

\* The photos of the list take their places in it, all of them in one transaction.
LEMMA RenumberKeeps ==
  ASSUME Images!ImagesInv, NEW h \in Handlers, Images!Renumber(h)
  PROVE  Images!ImagesInv'
<1>1. PICK e : e = pages[h] /\ e \in Images!Request /\ Images!Holds(e)
  BY RequestRead
<1>2. PICK m : m = Images!Idle
  OBVIOUS
<1>3. PICK list : list = e.list
  OBVIOUS
<1>4. /\ e.pc = "renumber" /\ Images!Goto(h, m) /\ UNCHANGED <<files, uploads, column, cut>>
      /\ photos' = [i \in DOMAIN photos |->
                      IF Images!Contains(list, i) THEN [photos[i] EXCEPT !.pos = Images!PlaceIn(list, i)] ELSE photos[i]]
  BY <1>1, <1>2, <1>3 DEF Images!Renumber, Images!Done
<1>5. /\ Images!FilesStand /\ Images!TypeOK /\ uploads \in Nat /\ photos \in [DOMAIN photos -> Images!Photo]
  BY DEF Images!ImagesInv, Images!TypeOK
<1>6. list \in Seq(1 .. uploads) /\ Len(list) \in Nat /\ DOMAIN list = 1 .. Len(list)
  BY <1>1, <1>3 DEF Images!Request
<1>7. /\ m \in Images!Request' /\ Images!Holds(m)' /\ ~ Images!Removing(m) /\ m.pc = "idle"
      /\ \A i : ~ Images!TakingAway(m, i)
  BY <1>2, <1>4, <1>5, IdleTyped DEF Images!Request, Images!Holds
<1>8. Moves(h, m) /\ calm' \in BOOLEAN
  BY <1>1, <1>4, GotoMoves
<1>9. ASSUME NEW i \in DOMAIN photos
      PROVE  /\ photos'[i] \in Images!Photo /\ photos'[i].kind = photos[i].kind
             /\ Images!Contains(list, i) => photos'[i].pos = Images!PlaceIn(list, i)
             /\ ~ Images!Contains(list, i) => photos'[i] = photos[i]
  <2>1. PICK x : x = photos[i] /\ x \in Images!Photo
    BY <1>5
  <2>2. photos'[i] = IF Images!Contains(list, i) THEN [x EXCEPT !.pos = Images!PlaceIn(list, i)] ELSE x
    BY <1>4, <2>1
  <2>3. CASE Images!Contains(list, i)
    <3>1. PICK p : p = Images!PlaceIn(list, i)
      OBVIOUS
    <3>2. p \in Nat
      BY <1>6, <2>3, <3>1, PlaceIs
    <3>3. [x EXCEPT !.pos = p] \in Images!Photo /\ [x EXCEPT !.pos = p].kind = x.kind /\ [x EXCEPT !.pos = p].pos = p
      BY <2>1, <3>2 DEF Images!Photo
    <3> QED BY <2>1, <2>2, <2>3, <3>1, <3>3
  <2>4. CASE ~ Images!Contains(list, i)
    BY <2>1, <2>2, <2>4
  <2> QED BY <2>3, <2>4
<1>10. DOMAIN photos' = DOMAIN photos /\ photos' \in [DOMAIN photos' -> Images!Photo]
  BY <1>4, <1>9
<1>11. Images!TypeOK'
  BY <1>4, <1>5, <1>8, <1>10 DEF Images!TypeOK
<1>12. FilesMove(h, m)
  <2>1. \A i : ~ Images!TakingAway(pages[h], i)
    BY <1>1, <1>4 DEF Images!TakingAway
  <2> QED BY <1>4, <1>5, <1>7, <1>10, <2>1 DEF FilesMove, Images!FilesStand, Images!Apart
<1>13. ASSUME Images!AloneWith(pages[h]) PROVE Images!AloneWith(m)'
  <2>1. Images!Enumerated(list, Images!Of(e.kind)) /\ Images!PlacesStand
    BY <1>1, <1>3, <1>4, <1>13 DEF Images!AloneWith, Images!Steady
  <2>2. \A k : Images!Of(k)' = Images!Of(k)
    BY <1>9, <1>10 DEF Images!Of
  <2>3. \A i : Images!Contains(list, i) <=> i \in Images!Of(e.kind)
    BY <1>6, <2>1 DEF Images!Contains, Images!Enumerated
  <2>4. PICK n : n = Images!Cardinality(Images!Of(e.kind))
    OBVIOUS
  <2>5. n \in Nat /\ Len(list) = n
    <3>1. n \in Nat
      BY <1>5, <2>4, PhotosFinite, SameCount
    <3>2. 1 .. Len(list) = 1 .. n
      BY <1>6, <2>1, <2>4 DEF Images!Enumerated
    <3> QED BY <1>6, <3>1, <3>2, SameInterval
  <2>6. Images!PlacesStand'
    <3>1. ASSUME NEW i \in DOMAIN photos', NEW j \in DOMAIN photos', photos'[i] = photos'[j] PROVE i = j
      <4>1. i \in DOMAIN photos /\ j \in DOMAIN photos /\ photos[i].kind = photos[j].kind
        BY <1>9, <1>10, <3>1
      <4>2. CASE photos[i].kind = e.kind
        <5>1. Images!Contains(list, i) /\ Images!Contains(list, j)
          BY <2>3, <4>1, <4>2 DEF Images!Of
        <5>2. Images!PlaceIn(list, i) = Images!PlaceIn(list, j)
          BY <1>9, <3>1, <4>1, <5>1
        <5> QED BY <1>6, <5>1, <5>2, PlaceIs
      <4>3. CASE photos[i].kind # e.kind
        BY <1>9, <2>1, <2>3, <3>1, <4>1, <4>3 DEF Images!Of, Images!PlacesStand
      <4> QED BY <4>2, <4>3
    <3> QED BY <2>1, <2>2, <3>1 DEF Images!PlacesStand
  <2>7. Images!Compact'
    <3>1. CASE e.kind = "gallery"
      <4>1. ASSUME NEW i \in Images!Of("gallery") PROVE photos'[i].pos = Images!PlaceIn(list, i) /\ photos'[i].pos \in 0 .. n - 1
        <5>1. i \in DOMAIN photos /\ Images!Contains(list, i)
          BY <2>3, <3>1, <4>1 DEF Images!Of
        <5> QED BY <1>6, <1>9, <2>5, <5>1, PlaceIs
      <4>2. ASSUME NEW p \in 0 .. n - 1 PROVE \E i \in Images!Of("gallery") : photos'[i].pos = p
        <5>1. p + 1 \in DOMAIN list
          BY <1>6, <2>5
        <5>2. PICK i : i = list[p + 1]
          OBVIOUS
        <5>3. i \in Images!Of("gallery") /\ Images!Contains(list, i)
          BY <1>6, <2>1, <2>3, <3>1, <5>1, <5>2 DEF Images!Enumerated
        <5>4. PICK q : q = Images!PlaceIn(list, i)
          OBVIOUS
        <5>5. q + 1 \in DOMAIN list /\ list[q + 1] = i /\ q \in 0 .. Len(list) - 1
          BY <1>6, <5>3, <5>4, PlaceIs
        <5>6. q + 1 = p + 1
          BY <2>1, <5>1, <5>2, <5>5 DEF Images!Enumerated
        <5>7. q = p
          BY <2>5, <5>5, <5>6
        <5> QED BY <4>1, <5>3, <5>4, <5>7
      <4>3. {photos'[i].pos : i \in Images!Of("gallery")'} = 0 .. n - 1
        BY <2>2, <4>1, <4>2
      <4>4. Images!Cardinality(Images!Of("gallery"))' = n
        BY <2>2, <2>4, <3>1, SameCount
      <4> QED BY Zenon, <4>3, <4>4 DEF Images!Compact
    <3>2. CASE e.kind # "gallery"
      <4>1. Images!Compact
        BY <1>1, <1>13, <3>2 DEF Images!AloneWith, Images!Numbering
      <4>2. \A i \in Images!Of("gallery") : photos'[i] = photos[i]
        BY <1>9, <2>3, <3>2 DEF Images!Of
      <4>3. {photos'[i].pos : i \in Images!Of("gallery")'} = {photos[i].pos : i \in Images!Of("gallery")}
        BY <2>2, <4>2
      <4> QED BY <2>2, <4>1, <4>3 DEF Images!Compact
    <3> QED BY <3>1, <3>2
  <2>8. Images!Steady(m)'
    BY <1>7 DEF Images!Steady, Images!Adding, Images!Removing
  <2>9. \A s \in Images!Singles : column'[s] = "set" => s \in files'
    BY <1>1, <1>4, <1>13 DEF Images!AloneWith, Images!TakingAway
  <2> QED BY <2>6, <2>7, <2>8, <2>9 DEF Images!AloneWith
<1>14. uploads' \in {uploads, uploads + 1}
  BY <1>4
<1> QED BY <1>2, <1>7, <1>8, <1>11, <1>12, <1>13, <1>14, ImagesMove

\* Every step of the images keeps the invariant.
LEMMA ImagesStep ==
  ASSUME Images!PhotosAssumption, Images!ImagesInv, [Images!Next]_(Images!vars)
  PROVE  Images!ImagesInv'
<1>1. CASE UNCHANGED Images!vars
  <2>1. UNCHANGED <<photos, files, uploads, column, pages, calm, cut, served>>
    BY <1>1 DEF Images!vars
  <2>2. \A kind : Images!Of(kind)' = Images!Of(kind)
    BY <2>1 DEF Images!Of
  <2>3. Images!TypeOK' /\ Images!RequestsTyped' /\ Images!FilesStand'
    BY <2>1 DEF Images!ImagesInv, Images!TypeOK, Images!RequestsTyped, Images!FilesStand, Images!Request, Images!Holds
  <2>4. \A e : Images!AloneWith(e) => Images!AloneWith(e)'
    BY <2>1, <2>2 DEF Images!AloneWith, Images!Steady, Images!PlacesStand, Images!Compact
  <2>5. Images!Quiet' => Images!Quiet
    BY <2>1 DEF Images!Quiet
  <2>6. ASSUME NEW h \in Handlers, calm, pages[h].pc # "idle" PROVE Images!AloneWith(pages[h])'
    BY <2>1, <2>4, <2>6 DEF Images!ImagesInv, Images!AloneWith
  <2>7. ASSUME calm' PROVE Images!Quiet' => Images!AloneWith(Images!Idle)'
    BY <2>1, <2>4, <2>5, <2>7 DEF Images!ImagesInv
  <2> QED BY <2>1, <2>3, <2>6, <2>7 DEF Images!ImagesInv
<1>2. CASE Images!Next
  <2>1. PICK h \in Handlers :
          \/ \E kind \in Images!Kinds : \E n \in 1 .. MaxPhotos[kind] : Images!AddMany(h, kind, n)
          \/ \E i \in DOMAIN photos : Images!RemovePhoto(h, i) \/ Images!MoveToFront(h, i)
          \/ \E s \in Images!Singles : Images!UpdateSingle(h, s) \/ Images!RemoveSingle(h, s)
          \/ Images!Increment(h) \/ Images!Upload(h) \/ Images!UploadFails(h) \/ Images!SavePhoto(h)
          \/ Images!DestroyPhoto(h) \/ Images!DeletePhoto(h) \/ Images!Reindex(h) \/ Images!Renumber(h)
          \/ Images!Replace(h) \/ Images!DestroySingle(h) \/ Images!WriteColumn(h) \/ Images!RemoveStaff(h)
          \/ Images!Sweep(h) \/ Images!Crash(h)
    BY <1>2 DEF Images!Next
  <2> QED BY <2>1, AddManyKeeps, RemovePhotoKeeps, MoveToFrontKeeps, SingleStarts, IncrementKeeps, UploadKeeps,
             UploadFailsKeeps, SavePhotoKeeps, DestroyPhotoKeeps, DeletePhotoKeeps, ReindexKeeps, RenumberKeeps,
             ReplaceKeeps, DestroySingleKeeps, WriteColumnKeeps, RemoveStaffKeeps, SweepKeeps, ImagesCrashKeeps
<1> QED BY <1>1, <1>2

\* Before the first photo there is nothing out of place.
LEMMA ImagesStart == Images!PhotosAssumption /\ Images!Init => Images!ImagesInv
<1> SUFFICES ASSUME Images!PhotosAssumption, Images!Init PROVE Images!ImagesInv
  OBVIOUS
<1>1. /\ photos = <<>> /\ files = {} /\ uploads = 0 /\ cut = {} /\ column = [s \in Images!Singles |-> "none"]
      /\ pages = [h \in Handlers |-> Images!Idle] /\ calm = TRUE
  BY DEF Images!Init
<1>2. DOMAIN photos = {} /\ photos \in [DOMAIN photos -> Images!Photo] /\ \A kind : Images!Of(kind) = {}
  BY <1>1 DEF Images!Of
<1>3. Images!TypeOK
  BY <1>1, <1>2 DEF Images!TypeOK, Images!PhotosAssumption
<1>4. Images!RequestsTyped /\ Images!FilesStand
  BY <1>1, <1>2, IdleTyped DEF Images!RequestsTyped, Images!FilesStand, Images!Apart
<1>5. Images!Cardinality({}) = 0
  BY SameCount, FS_EmptySet
<1>6. Images!PlacesStand /\ Images!Compact
  <2>1. Images!PlacesStand
    <3>1. ASSUME NEW kind \in Images!Kinds PROVE Images!Cardinality(Images!Of(kind)) <= MaxPhotos[kind]
      <4>1. MaxPhotos[kind] \in Nat
        BY DEF Images!PhotosAssumption
      <4>2. Images!Cardinality(Images!Of(kind)) = 0
        BY <1>2, <1>5
      <4> QED BY <4>1, <4>2
    <3> QED BY <1>2, <3>1 DEF Images!PlacesStand
  <2>2. {photos[i].pos : i \in Images!Of("gallery")} = {} /\ 0 .. 0 - 1 = {}
    BY <1>2
  <2> QED BY <1>2, <1>5, <2>1, <2>2 DEF Images!Compact
<1>7. Images!AloneWith(Images!Idle)
  BY <1>1, <1>6, IdleTyped DEF Images!AloneWith
<1> QED BY <1>1, <1>3, <1>4, <1>7, IdleTyped DEF Images!ImagesInv

\* A photo whose row is being deleted is on its way out of the page.
LEMMA PageFromInv == Images!ImagesInv => Images!PageStands
<1> SUFFICES ASSUME Images!ImagesInv PROVE Images!PageStands
  OBVIOUS
<1>1. \A i : (\E h \in Handlers : Images!TakingAway(pages[h], i)) <=> Images!GoingAway(i)
  BY DEF Images!TakingAway, Images!GoingAway
<1>2. \A i \in DOMAIN photos : i \in files \cup cut \/ Images!GoingAway(i)
  BY <1>1 DEF Images!ImagesInv, Images!FilesStand
<1>3. ASSUME calm, NEW s \in Images!Singles, column[s] = "set" PROVE s \in files \/ Images!GoingAway(s)
  <2>1. CASE Images!Quiet
    BY <1>3, <2>1, IdleTyped DEF Images!ImagesInv, Images!AloneWith, Images!TypeOK
  <2>2. CASE ~ Images!Quiet
    <3>1. PICK h \in Handlers : pages[h].pc # "idle"
      BY <2>2 DEF Images!Quiet
    <3>2. s \in files \/ Images!TakingAway(pages[h], s)
      BY <1>3, <3>1 DEF Images!ImagesInv, Images!AloneWith
    <3> QED BY <1>1, <3>2
  <2> QED BY <2>1, <2>2
<1>4. ASSUME calm, Images!Quiet PROVE Images!PlacesStand /\ Images!Compact
  BY <1>4 DEF Images!ImagesInv, Images!AloneWith, Images!Numbering, Images!Idle
<1> QED BY <1>2, <1>3, <1>4 DEF Images!PageStands, Images!PlacesStand, Images!Compact

\* However many photos, uploads and requests: a photo of the page without its file is one whose
\* removal is between its two writes or stopped there (such a row points to nothing until it is
\* removed again), whoever adds and removes at the same time; and of requests that come one after
\* the other, an image that is shown has its file, no kind has more than its most, no two photos
\* are in one place, and the gallery has its cover.
THEOREM PhotosStand == Spec => []PageStands
<1> DEFINE I == part = "images" => Images!ImagesInv
<1>0. Images!PhotosAssumption
  BY PartsAssumption
<1>1. Init => I
  BY <1>0, PartInit, ImagesStart
<1>2. I /\ [Next]_vars => I'
  <2> SUFFICES ASSUME I, [Next]_vars PROVE I'
    OBVIOUS
  <2>1. CASE part = "images"
    <3>1. [Images!Next]_(Images!vars) /\ part' = part
      BY <2>1, PartNext
    <3> QED BY <1>0, <2>1, <3>1, ImagesStep
  <2>2. CASE part # "images"
    BY <2>2, PartNext
  <2> QED BY <2>1, <2>2
<1>3. I => PageStands
  BY PageFromInv DEF PageStands
<1> QED BY <1>1, <1>2, <1>3, PTL DEF Spec

-----------------------------------------------------------------------------
(* The hours of a day *)

\* Every hour of the day is offered: whatever the hours, the rows of a list and the page, no list of
\* a screen is one WhatsApp refuses; the ranges hold each hour in one of them or loose, never in
\* both; and who pages through a list to its end, while the agenda stands still, has seen all of it.
THEOREM EveryTimeAlwaysOffered == Spec => []EveryTimeOffered
<1> DEFINE I == part = "screens" => Screens!ScreensInv
<1>1. Init => I
  BY PartInit, PartsAssumption, Screens!ScreensInit
<1>2. I /\ [Next]_vars => I'
  BY PartNext, PartsAssumption, Screens!ScreensSteps
<1>3. I => EveryTimeOffered
  BY PartsAssumption, Screens!ScreensOffer DEF EveryTimeOffered
<1> QED BY <1>1, <1>2, <1>3, PTL DEF Spec

-----------------------------------------------------------------------------
(* The types of the parts *)

\* The tables and the requests of every part hold what their columns can, for every value of the
\* constants; the rows of the alerts are no more than the changes had to tell.
THEOREM PartsAreTyped == Spec => []TypeOK
<1> DEFINE I == /\ part = "alerts" => Alerts!AlertsInv /\ Alerts!AnnouncedInv /\ Alerts!AlertsTyped
                /\ part = "team" => TeamInv
                /\ part = "times" => Times!DayInv /\ Times!Ledger
                /\ part = "cards" => CardsInv
                /\ part = "money" => TrialInv
                /\ part = "desk" => Desk!DeskInv
                /\ part = "images" => Images!ImagesInv
<1>0. Alerts!AlertsAssumption /\ Times!TimesAssumption /\ Team!TeamAssumption /\ ClientsAssumption /\ MoneyAssumptions /\ Desk!ReportsAssumption /\ Images!PhotosAssumption
  BY PartsAssumption DEF ClientsAssumption, MoneyAssumptions
<1>1. Init => I
  <2>1. Init => /\ part = "alerts" => Alerts!AlertsInv /\ Alerts!AnnouncedInv /\ Alerts!AlertsTyped
                /\ part = "times" => Times!DayInv /\ Times!Ledger
    BY <1>0, PartInit, Alerts!AlertsInit, Alerts!AnnouncedInit, Alerts!TypedInit, DayGoesOn, LedgerGoesOn
  <2> QED BY <1>0, <2>1, PartInit, TeamInit, CardsInit, TrialInvInit, DeskGoesOn, ImagesStart
<1>2. I /\ [Next]_vars => I'
  <2>1. I /\ [Next]_vars =>
           (part = "alerts" => Alerts!AlertsInv /\ Alerts!AnnouncedInv /\ Alerts!AlertsTyped)'
    BY <1>0, PartNext, Alerts!AlertsSteps, Alerts!AnnouncedSteps, Alerts!TypedSteps
  <2>2. I /\ [Next]_vars => (part = "times" => Times!DayInv /\ Times!Ledger)'
    BY DayGoesOn, LedgerGoesOn
  <2> QED BY <1>0, <2>1, <2>2, PartNext, TeamNext, CardsNext, TrialInvNext, DeskGoesOn, ImagesStep
<1>3. I => TypeOK
  <2>1. I => (part = "alerts" => Alerts!TypeOK) /\ (part = "times" => Times!TypeOK)
    BY <1>0, Alerts!AlertsAreTyped, Times!TypedIs
  <2> QED BY <2>1, TeamIsTyped, CardsAreTyped DEF TypeOK, TrialInv, Desk!DeskInv, Images!ImagesInv
<1> QED BY <1>1, <1>2, <1>3, PTL DEF Spec
====

---- MODULE TeamAccess ----
(***************************************************************************)
(* Who may enter a business: the cards of its team (staff/), the requests  *)
(* to join it (staff-join-requests/), the sign-up of a Google account and  *)
(* its first entry (auth/, tenants/).  A request of the panel reads a row, *)
(* works with its copy and saves the copy whole, so that what happens in   *)
(* between may be undone; the unique indexes are the last barrier.         *)
(***************************************************************************)
EXTENDS Integers, Sequences, FiniteSets

CONSTANTS
  Accounts,       \* Google accounts, which are also the e-mails they bring
  Businesses,
  Founders,       \* the accounts that may found one
  Handlers,       \* requests in course
  MaxPending,     \* MAX_PENDING_PER_ACCOUNT
  MaxRows,        \* bound: cards and join requests ever created
  MaxBooked       \* bound: cards that are ever given work

CONSTANT None     \* no e-mail, no account
TeamAssumption == None \notin Accounts /\ Businesses # {} /\ Founders \subseteq Accounts /\ MaxPending \in Nat

VARIABLES
  tenants,        \* [Businesses -> Tenant]
  cards,          \* Seq(Card), the staff rows
  requests,       \* Seq of join requests
  signup,         \* the accounts that hold a sign-up token
  hs              \* [Handlers -> what a request holds in memory]

vars == <<tenants, cards, requests, signup, hs>>

Room == Len(cards) + Len(requests) < MaxRows

Card == [biz : Businesses, st : {"active", "inactive", "removed", "gone"},
         email : Accounts \cup {None}, google : Accounts \cup {None}, work : {"none", "past", "future"}]
NewCard(b) == [biz |-> b, st |-> "active", email |-> None, google |-> None, work |-> "none"]
Absent == [on |-> FALSE, email |-> None, google |-> None]
Idle == [pc |-> "idle", card |-> 0, snap |-> NewCard(CHOOSE b \in Businesses : TRUE), req |-> 0, answer |-> "pending"]

Goto(h, m) == hs' = [hs EXCEPT ![h] = m]
Done(h) == Goto(h, Idle)

\* What a query sees: a card that was removed is still a row, and holds its e-mail in
\* the index, but no find returns it.
Found(c) == cards[c].st \in {"active", "inactive"}
Owned(e) == \E b \in Businesses : tenants[b].on /\ tenants[b].email = e

Duplicate(c, r) ==
  \E d \in DOMAIN cards \ {c} : /\ cards[d].st # "gone"
                                /\ \/ r.email # None /\ cards[d].email = r.email
                                   \/ r.google # None /\ cards[d].google = r.google

-----------------------------------------------------------------------------
(* The team in the panel *)

Create(b) ==
  /\ tenants[b].on /\ Room
  /\ cards' = Append(cards, NewCard(b))
  /\ UNCHANGED <<tenants, requests, signup, hs>>

\* Another e-mail unlinks the account that entered with the last one.
GrantedKeepingAccount(r, e) == [r EXCEPT !.email = e]   \* mutant: the link stays
Granted(r, e) == [r EXCEPT !.email = e, !.google = IF r.email = e THEN @ ELSE None]

\* An e-mail of an owner, or of another card that can be found, is refused.
Grantable(c, e) == Found(c) /\ ~Owned(e) /\ ~\E d \in DOMAIN cards \ {c} : Found(d) /\ cards[d].email = e

Grant(h, c, e) ==
  /\ hs[h].pc = "idle" /\ Grantable(c, e)
  /\ Goto(h, [Idle EXCEPT !.pc = "save", !.card = c, !.snap = Granted(cards[c], e)])
  /\ UNCHANGED <<tenants, cards, requests, signup>>

Revoke(h, c) ==
  /\ hs[h].pc = "idle" /\ Found(c)
  /\ Goto(h, [Idle EXCEPT !.pc = "save", !.card = c, !.snap = [cards[c] EXCEPT !.email = None, !.google = None]])
  /\ UNCHANGED <<tenants, cards, requests, signup>>

\* The rest of the card: of it, only whether the person is active matters here.
Update(h, c) ==
  /\ hs[h].pc = "idle" /\ Found(c)
  /\ \E st \in {"active", "inactive"} :
       Goto(h, [Idle EXCEPT !.pc = "save", !.card = c, !.snap = [cards[c] EXCEPT !.st = st]])
  /\ UNCHANGED <<tenants, cards, requests, signup>>

\* The copy is saved whole, over whatever the row is now, even deleted: but the
\* appointments are not a column of it.
SaveCard(h) ==
  LET m == hs[h] IN
  /\ m.pc = "save"
  /\ IF Duplicate(m.card, m.snap)
     THEN UNCHANGED cards /\ Done(h)
     ELSE /\ cards' = [cards EXCEPT ![m.card] = [m.snap EXCEPT !.work = cards[m.card].work]]
          /\ IF m.req = 0 THEN Done(h) ELSE Goto(h, [m EXCEPT !.pc = "mark", !.answer = "approved"])
  /\ UNCHANGED <<tenants, requests, signup>>

\* resolveStaffDeletion: who has appointments ahead stays, and who has any at all stays
\* as history.
DeletionByFuture(work) == IF work = "future" THEN "BLOCKED" ELSE "HARD"   \* mutant: the past is not history
Deletion(work) == CASE work = "future" -> "BLOCKED" [] work = "past" -> "SOFT" [] OTHER -> "HARD"

\* One transaction that takes the row first.
RemoveCard(c) ==
  /\ Found(c) /\ Deletion(cards[c].work) # "BLOCKED"
  /\ cards' = [cards EXCEPT ![c] = IF Deletion(@.work) = "HARD" THEN [@ EXCEPT !.st = "gone"]
                                   ELSE [@ EXCEPT !.st = "removed"]]
  /\ UNCHANGED <<tenants, requests, signup, hs>>

-----------------------------------------------------------------------------
(* Requests to join *)

Pending(a) == {r \in DOMAIN requests : requests[r].acc = a /\ requests[r].st = "pending"}
HasCard(a) == \E c \in DOMAIN cards : cards[c].st = "active" /\ a \in {cards[c].google, cards[c].email}

\* A request that is already there is the one that was wanted.
Request(a, b) ==
  /\ a \in signup /\ tenants[b].on /\ ~HasCard(a)
  /\ Cardinality(Pending(a)) < MaxPending /\ Room
  /\ ~\E r \in Pending(a) : requests[r].biz = b
  /\ requests' = Append(requests, [biz |-> b, acc |-> a, st |-> "pending"])
  /\ UNCHANGED <<tenants, cards, signup, hs>>

\* The card is created before its e-mail is looked at.
Approve(h, r) ==
  /\ hs[h].pc = "idle" /\ requests[r].st = "pending" /\ Room
  /\ cards' = Append(cards, NewCard(requests[r].biz))
  /\ Goto(h, [Idle EXCEPT !.pc = "grant", !.card = Len(cards) + 1, !.req = r])
  /\ UNCHANGED <<tenants, requests, signup>>

ApproveGrant(h) ==
  LET m == hs[h]
      e == requests[m.req].acc
  IN /\ m.pc = "grant"
     /\ IF Grantable(m.card, e) THEN Goto(h, [m EXCEPT !.pc = "save", !.snap = Granted(cards[m.card], e)]) ELSE Done(h)
     /\ UNCHANGED <<tenants, cards, requests, signup>>

Reject(h, r) ==
  /\ hs[h].pc = "idle" /\ requests[r].st = "pending"
  /\ Goto(h, [Idle EXCEPT !.pc = "mark", !.req = r, !.answer = "rejected"])
  /\ UNCHANGED <<tenants, cards, requests, signup>>

\* The index of the table is over (business, account, status), whatever the status.
Mark(h) ==
  LET m == hs[h]
      answered == [requests[m.req] EXCEPT !.st = m.answer]
  IN /\ m.pc = "mark"
     /\ IF \E q \in DOMAIN requests \ {m.req} : requests[q] = answered
        THEN UNCHANGED requests
        ELSE requests' = [requests EXCEPT ![m.req] = answered]
     /\ Done(h)
     /\ UNCHANGED <<tenants, cards, signup>>

-----------------------------------------------------------------------------
(* Entering with Google *)

CardsOf(a) ==
  LET linked == {c \in DOMAIN cards : cards[c].st = "active" /\ cards[c].google = a}
  IN IF linked # {} THEN linked ELSE {c \in DOMAIN cards : cards[c].st = "active" /\ cards[c].email = a}

TenantsOf(a) ==
  LET linked == {b \in Businesses : tenants[b].on /\ tenants[b].google = a}
  IN IF linked # {} THEN linked ELSE {b \in Businesses : tenants[b].on /\ tenants[b].email = a}

\* A business that support created with an e-mail is linked by the first to enter with it.
Linked(a, b) == [tenants EXCEPT ![b].google = IF @ = None THEN a ELSE @]

\* The team first, then the owners; who is neither has to say what it wants.
Login(h, a) ==
  /\ hs[h].pc = "idle"
  /\ \/ \E c \in CardsOf(a) :
          /\ cards[c].google = None
          /\ Goto(h, [Idle EXCEPT !.pc = "link", !.card = c, !.snap = [cards[c] EXCEPT !.google = a]])
          /\ UNCHANGED <<tenants, signup>>
     \/ CardsOf(a) = {} /\ (\E b \in TenantsOf(a) : tenants' = Linked(a, b)) /\ UNCHANGED <<signup, hs>>
     \/ CardsOf(a) = {} /\ TenantsOf(a) = {} /\ signup' = signup \cup {a} /\ UNCHANGED <<tenants, hs>>
  /\ UNCHANGED <<cards, requests>>

\* Entering accepts the invitation: one column, if the index allows it.
Link(h) ==
  LET m == hs[h] IN
  /\ m.pc = "link"
  /\ cards' = IF cards[m.card].st = "gone" \/ Duplicate(m.card, [cards[m.card] EXCEPT !.google = m.snap.google])
              THEN cards ELSE [cards EXCEPT ![m.card].google = m.snap.google]
  /\ Done(h)
  /\ UNCHANGED <<tenants, requests, signup>>

\* The sign-up page, which looks for a business of the account and not for a card of it.
CreateBusiness(a) ==
  /\ a \in signup /\ signup' = signup \ {a}
  /\ IF TenantsOf(a) # {} THEN \E b \in TenantsOf(a) : tenants' = Linked(a, b)
     ELSE \E b \in Businesses : ~tenants[b].on /\ tenants' = [tenants EXCEPT ![b] = [on |-> TRUE, email |-> a, google |-> a]]
  /\ UNCHANGED <<cards, requests, hs>>

SupportCreates(b, e) ==
  /\ ~tenants[b].on /\ ~Owned(e)
  /\ tenants' = [tenants EXCEPT ![b] = [on |-> TRUE, email |-> e, google |-> None]]
  /\ UNCHANGED <<cards, requests, signup, hs>>

-----------------------------------------------------------------------------
(* Around *)

\* The agenda gives work to who is in the team, and time passes.
Book(c) ==
  /\ cards[c].st = "active" /\ Cardinality({d \in DOMAIN cards \ {c} : cards[d].work # "none"}) < MaxBooked
  /\ cards' = [cards EXCEPT ![c].work = "future"]
  /\ UNCHANGED <<tenants, requests, signup, hs>>
TimePasses ==
  /\ \E c \in DOMAIN cards : cards[c].work = "future"
  /\ cards' = [c \in DOMAIN cards |-> [cards[c] EXCEPT !.work = IF @ = "future" THEN "past" ELSE @]]
  /\ UNCHANGED <<tenants, requests, signup, hs>>

Fail(h) == hs[h].pc # "idle" /\ Done(h) /\ UNCHANGED <<tenants, cards, requests, signup>>

\* The owner of what is already open is none of the accounts.
Init ==
  /\ tenants \in [Businesses -> {Absent, [Absent EXCEPT !.on = TRUE]}]
  /\ cards = <<>> /\ requests = <<>> /\ signup = {} /\ hs = [h \in Handlers |-> Idle]

Panel(h) ==
  \/ \E c \in DOMAIN cards : Revoke(h, c) \/ Update(h, c) \/ \E e \in Accounts : Grant(h, c, e)
  \/ \E r \in DOMAIN requests : Approve(h, r) \/ Reject(h, r)

Progress(h) == SaveCard(h) \/ ApproveGrant(h) \/ Mark(h) \/ Link(h) \/ Fail(h)

Next ==
  \/ \E h \in Handlers : Panel(h) \/ Progress(h) \/ \E a \in Accounts : Login(h, a)
  \/ \E b \in Businesses : Create(b) \/ (\E a \in Accounts : Request(a, b)) \/ \E a \in Founders : SupportCreates(b, a)
  \/ \E c \in DOMAIN cards : RemoveCard(c) \/ Book(c)
  \/ \E a \in Founders : CreateBusiness(a)
  \/ TimePasses

Spec == Init /\ [][Next]_vars

-----------------------------------------------------------------------------
(* Properties *)

TypeOK ==
  /\ tenants \in [Businesses -> [on : BOOLEAN, email : Accounts \cup {None}, google : Accounts \cup {None}]]
  /\ \A c \in DOMAIN cards : cards[c] \in Card
  /\ \A r \in DOMAIN requests : requests[r] \in [biz : Businesses, acc : Accounts, st : {"pending", "approved", "rejected"}]
  /\ signup \subseteq Accounts
  /\ \A h \in Handlers : hs[h].pc \in {"idle", "grant", "save", "mark", "link"} /\ hs[h].snap \in Card

\* Nobody who ever had an appointment is deleted for good, whatever is saved over the
\* card and whenever the appointments come: their invoiced segments would go along.
HistorySurvives == \A c \in DOMAIN cards : cards[c].work # "none" => cards[c].st # "gone"

\* The account a card lets in is the one it was last invited with: correcting the e-mail,
\* taking the access away and giving it again never leave a former account inside.
LinkedIsInvited == \A c \in DOMAIN cards : cards[c].google # None => cards[c].google = cards[c].email
====

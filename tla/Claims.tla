---- MODULE Claims ----
(***************************************************************************)
(* Whose an appointment is: one that was booked without an account passes  *)
(* to the account that signs in on the browser that booked it, or that     *)
(* opens the link WhatsApp sent (customer-accounts/).  A request carries   *)
(* the cookies of the moment it was sent; the answer sets them when it     *)
(* arrives, if it does.                                                    *)
(***************************************************************************)
EXTENDS Integers, Sequences, FiniteSets

CONSTANTS
  Accounts, Browsers,
  Handlers,    \* requests in course
  MaxClaims,   \* MAX_CLAIMS
  MaxAppts,    \* bound: appointments ever booked
  Nobody

ClaimsAssumption == Nobody \notin Accounts /\ MaxClaims \in Nat \ {0}

VARIABLES
  appts,       \* Seq of appointments: the account each is of, and whether it is ahead
  session,     \* [Browsers -> the account signed in]
  jar,         \* [Browsers -> the claims in the signed cookie]
  links,       \* the claims of the links sent
  hs           \* [Handlers -> request]

vars == <<appts, session, jar, links, hs>>

Idle == [pc |-> "idle", browser |-> CHOOSE b \in Browsers : TRUE, account |-> Nobody, ids |-> <<>>]

Init ==
  /\ appts = <<>>
  /\ session = [b \in Browsers |-> Nobody] /\ jar = [b \in Browsers |-> <<>>]
  /\ links = {} /\ hs = [h \in Handlers |-> Idle]

Done(h) == hs' = [hs EXCEPT ![h] = Idle]
Booked(owner) == Append(appts, [owner |-> owner, ahead |-> TRUE])
First(s) == SubSeq(s, 1, IF Len(s) < MaxClaims THEN Len(s) ELSE MaxClaims)
Last(s) == IF Len(s) <= MaxClaims THEN s ELSE SubSeq(s, Len(s) - MaxClaims + 1, Len(s))

-----------------------------------------------------------------------------
(* Whose it becomes *)

\* The condition is in the UPDATE.
AnyClaim(a) == TRUE   \* mutant: it is not
Unclaimed(a) == appts[a].owner = Nobody
Linked(ids, account) ==
  [a \in DOMAIN appts |-> IF (\E i \in DOMAIN ids : ids[i] = a) /\ Unclaimed(a)
                          THEN [appts[a] EXCEPT !.owner = account] ELSE appts[a]]

\* The request for /bookings leaves with the session and the claims of the browser.
Book(h, b) ==
  /\ hs[h].pc = "idle" /\ Len(appts) < MaxAppts
  /\ hs' = [hs EXCEPT ![h] = [pc |-> "book", browser |-> b, account |-> session[b], ids |-> jar[b]]]
  /\ UNCHANGED <<appts, session, jar, links>>

\* With a session it is born with an owner; without one, the browser is told, if the answer
\* reaches it.
CreateBooking(h) ==
  LET m == hs[h] IN
  /\ m.pc = "book" /\ Len(appts) < MaxAppts
  /\ appts' = Booked(m.account)
  /\ \/ m.account = Nobody /\ jar' = [jar EXCEPT ![m.browser] = Last(Append(m.ids, Len(appts) + 1))]
     \/ UNCHANGED jar
  /\ Done(h)
  /\ UNCHANGED <<session, links>>

\* A request that fails before it wrote anything.
Refused(h) == hs[h].pc # "idle" /\ Done(h) /\ UNCHANGED <<appts, session, jar, links>>

\* The way back from Google.
SignIn(h, b, account) ==
  /\ hs[h].pc = "idle"
  /\ hs' = [hs EXCEPT ![h] = [pc |-> "claim", browser |-> b, account |-> account, ids |-> jar[b]]]
  /\ UNCHANGED <<appts, session, jar, links>>

\* A failure to link costs the claims, not the entry.
GoogleCallback(h) ==
  LET m == hs[h] IN
  /\ m.pc = "claim"
  /\ appts' \in {appts, Linked(m.ids, m.account)}
  /\ \/ session' = [session EXCEPT ![m.browser] = m.account] /\ jar' = [jar EXCEPT ![m.browser] = <<>>]
     \/ UNCHANGED <<session, jar>>
  /\ Done(h)
  /\ UNCHANGED links

Logout(b) ==
  /\ session[b] # Nobody /\ session' = [session EXCEPT ![b] = Nobody]
  /\ UNCHANGED <<appts, jar, links, hs>>

\* An hour since the last booking.
Expire(b) ==
  /\ jar[b] # <<>> /\ jar' = [jar EXCEPT ![b] = <<>>]
  /\ UNCHANGED <<appts, session, links, hs>>

-----------------------------------------------------------------------------
(* The link of WhatsApp *)

BookByWhatsapp ==
  /\ Len(appts) < MaxAppts /\ appts' = Booked(Nobody)
  /\ UNCHANGED <<session, jar, links, hs>>

\* The appointments the client has ahead, with an owner or not.
SendLink ==
  LET ahead == SelectSeq([i \in DOMAIN appts |-> i], LAMBDA a : appts[a].ahead) IN
  /\ ahead # <<>> /\ links' = links \cup {First(ahead)}
  /\ UNCHANGED <<appts, session, jar, hs>>

ClaimFromLink(b, ids) ==
  /\ session[b] # Nobody
  /\ appts' = Linked(ids, session[b])
  /\ UNCHANGED <<session, jar, links, hs>>

\* Its time comes.
Pass(a) ==
  /\ appts[a].ahead /\ appts' = [appts EXCEPT ![a].ahead = FALSE]
  /\ UNCHANGED <<session, jar, links, hs>>

Next ==
  \/ \E h \in Handlers :
       \/ \E b \in Browsers : Book(h, b) \/ \E account \in Accounts : SignIn(h, b, account)
       \/ CreateBooking(h) \/ GoogleCallback(h) \/ Refused(h)
  \/ \E b \in Browsers : Logout(b) \/ Expire(b) \/ \E ids \in links : ClaimFromLink(b, ids)
  \/ BookByWhatsapp \/ SendLink
  \/ \E a \in DOMAIN appts : Pass(a)

Spec == Init /\ [][Next]_vars

-----------------------------------------------------------------------------

\* An appointment with an owner keeps it, whatever cookie or link names it afterwards and
\* whoever opens it, and it is not taken back to having none.
Kept == \A a \in DOMAIN appts : appts[a].owner # Nobody => appts'[a].owner = appts[a].owner
OwnerIsKept == [][Kept]_vars
====

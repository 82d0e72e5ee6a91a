---- MODULE Clients ----
(***************************************************************************)
(* The clients of a business (clients/): one card per telephone, whichever *)
(* the door they come in by.  A booking finds its card or makes one and is *)
(* written afterwards; a file of contacts is analysed and then written;    *)
(* the panel corrects a telephone, or removes a card.  The unique index on *)
(* (business, telephone) also holds the cards that were removed.           *)
(***************************************************************************)
EXTENDS Integers, Sequences, FiniteSets, SequencesExt

CONSTANTS
  Number,      \* [person -> telephone], its country's code first
  Dial,        \* the code deduced from the time zone of the business
  Files,       \* files to import: sequences of contacts [who, n, plus]
  Handlers,    \* requests in course
  MaxCards, MaxAppts   \* bounds: cards and appointments ever created

\* A local number does not begin with the code of the business: typed without a + it would be
\* taken for one that has it already.
NumberAssumption == \A p \in DOMAIN Number : Number[p] \in Seq(Int) /\ Len(Number[p]) > 1 /\ Number[p][2] # Dial

VARIABLES
  cards,       \* Seq of the rows of clients
  appts,       \* Seq of the appointments, each with its card
  hs           \* [Handlers -> what a request holds in memory]

vars == <<cards, appts, hs>>

People == DOMAIN Number
Idle == [pc |-> "idle", card |-> 0, who |-> 0, phone |-> <<>>, books |-> FALSE, todo |-> <<>>]

Init == cards = <<>> /\ appts = <<>> /\ hs = [h \in Handlers |-> Idle]

Goto(h, m) == hs' = [hs EXCEPT ![h] = m]
Done(h) == Goto(h, Idle)

-----------------------------------------------------------------------------
(* Telephones *)

\* Only what somebody typed, without a + and without the code of the business, is local.
ResolvedAsTyped(kind, n, plus) == IF ~plus /\ Head(n) # Dial THEN <<Dial>> \o n ELSE n   \* mutant: whatever the door
ResolveClientPhone(kind, n, plus) ==
  IF kind = "typed" /\ ~plus /\ Head(n) # Dial THEN <<Dial>> \o n ELSE n

\* How a person writes down their number: whoever is from elsewhere writes the +.
Typed(p) ==
  {[who |-> p, n |-> Number[p], plus |-> TRUE]}
    \cup (IF Head(Number[p]) = Dial THEN {[who |-> p, n |-> n, plus |-> FALSE] : n \in {Number[p], Tail(Number[p])}} ELSE {})

\* A file has numbers as people write them down.
FilesAssumption == \A file \in Files : file \in Seq(UNION {Typed(p) : p \in People})

\* WhatsApp gives the number; an account keeps the one that was resolved when typed.
Doors(p) == {ResolveClientPhone("typed", t.n, t.plus) : t \in Typed(p)}
              \cup {ResolveClientPhone("whatsapp", Number[p], FALSE), ResolveClientPhone("account", Number[p], FALSE)}

-----------------------------------------------------------------------------
(* Cards *)

Exists(c) == cards[c].st # "gone"
Live(c) == cards[c].st = "live"
Holding(phone) == {c \in DOMAIN cards : Exists(c) /\ cards[c].phone = phone}
NewCard(phone, p) == [phone |-> phone, st |-> "live", who |-> p]

\* resolveByPhone looks among the removed ones too: theirs is a place in the index.
Found(m) ==
  LET held == Holding(m.phone) IN
  IF held = {} THEN [m EXCEPT !.pc = "insert"]
  ELSE LET c == CHOOSE d \in held : TRUE
       IN [m EXCEPT !.card = c, !.pc = IF ~Live(c) THEN "restore" ELSE IF m.books THEN "write" ELSE "idle"]
Resolved(m, c) == IF m.books THEN [m EXCEPT !.pc = "write", !.card = c] ELSE Idle

Arrive(h, p, phone, books) ==
  /\ hs[h].pc = "idle"
  /\ LET m == Found([Idle EXCEPT !.who = p, !.phone = phone, !.books = books])
     IN Goto(h, IF m.pc = "idle" THEN Idle ELSE m)
  /\ UNCHANGED <<cards, appts>>

\* The row may have gone by now: the request goes on with the copy it read.
Restore(h) ==
  LET m == hs[h] IN
  /\ m.pc = "restore"
  /\ cards' = IF Exists(m.card) THEN [cards EXCEPT ![m.card].st = "live"] ELSE cards
  /\ Goto(h, Resolved(m, m.card))
  /\ UNCHANGED appts

\* Whoever loses the race keeps the card of the winner, unless it was removed since.
Insert(h) ==
  LET m == hs[h]
      held == Holding(m.phone)
  IN /\ m.pc = "insert"
     /\ \/ /\ held = {} /\ Len(cards) < MaxCards
           /\ cards' = Append(cards, NewCard(m.phone, m.who))
           /\ Goto(h, Resolved(m, Len(cards) + 1))
        \/ /\ held # {}
           /\ Goto(h, IF \E c \in held : Live(c) THEN Resolved(m, CHOOSE c \in held : Live(c)) ELSE Idle)
           /\ UNCHANGED cards
     /\ UNCHANGED appts

\* The panel books for a card of its list.
Choose(h, c) ==
  /\ hs[h].pc = "idle" /\ Live(c)
  /\ Goto(h, [Idle EXCEPT !.pc = "write", !.card = c])
  /\ UNCHANGED <<cards, appts>>

\* The foreign key refuses an appointment of nobody.
Write(h) ==
  LET m == hs[h] IN
  /\ m.pc = "write" /\ Len(appts) < MaxAppts
  /\ appts' = IF Exists(m.card) THEN Append(appts, [card |-> m.card, st |-> "next"]) ELSE appts
  /\ Done(h)
  /\ UNCHANGED cards

-----------------------------------------------------------------------------
(* The panel *)

Of(c) == {a \in DOMAIN appts : appts[a].card = c}

\* resolveClientDeletion
DeletionByFuture(total, future) == IF future > 0 THEN "BLOCKED" ELSE "HARD"   \* mutant: the past is not history
ClientDeletion(total, future) == IF future > 0 THEN "BLOCKED" ELSE IF total > 0 THEN "SOFT" ELSE "HARD"

\* One transaction that takes the row, so that no appointment is written meanwhile.
\* A row that is deleted takes its appointments with it.
RemoveByTenant(c) ==
  LET plan == ClientDeletion(Cardinality(Of(c)), Cardinality({a \in Of(c) : appts[a].st = "next"})) IN
  /\ Live(c) /\ plan # "BLOCKED"
  /\ cards' = [cards EXCEPT ![c].st = IF plan = "HARD" THEN "gone" ELSE "removed"]
  /\ appts' = IF plan = "HARD" THEN [a \in DOMAIN appts |-> IF a \in Of(c) THEN [appts[a] EXCEPT !.st = "gone"] ELSE appts[a]]
              ELSE appts
  /\ UNCHANGED hs

\* The card is looked for, and what was typed is written on the row afterwards.
Correct(h, c, t) ==
  /\ hs[h].pc = "idle" /\ Live(c)
  /\ Goto(h, [Idle EXCEPT !.pc = "correct", !.card = c, !.who = t.who, !.phone = ResolveClientPhone("typed", t.n, t.plus)])
  /\ UNCHANGED <<cards, appts>>

UpdateByTenant(h) ==
  LET m == hs[h] IN
  /\ m.pc = "correct"
  /\ cards' = IF Exists(m.card) /\ Holding(m.phone) \subseteq {m.card}
              THEN [cards EXCEPT ![m.card].phone = m.phone, ![m.card].who = m.who] ELSE cards
  /\ Done(h)
  /\ UNCHANGED appts

-----------------------------------------------------------------------------
(* A file of contacts *)

\* Neither a number twice, nor one that a card has, removed or not; in no order that matters, as
\* no two are of the same number.
Contact(t) == [who |-> t.who, phone |-> ResolveClientPhone("typed", t.n, t.plus)]
Repeated(file, i) == \E j \in 1 .. i - 1 : Contact(file[j]).phone = Contact(file[i]).phone
NewRows(file) ==
  SetToSeq({Contact(file[i]) : i \in {i \in DOMAIN file : ~Repeated(file, i) /\ Holding(Contact(file[i]).phone) = {}}})

Analyze(h, file) ==
  /\ hs[h].pc = "idle" /\ NewRows(file) # <<>>
  /\ Goto(h, [Idle EXCEPT !.pc = "batch", !.todo = NewRows(file)])
  /\ UNCHANGED <<cards, appts>>

\* All at once, or row by row when the index refuses one of them.
InsertChunk(h) ==
  LET todo == hs[h].todo IN
  /\ hs[h].pc = "batch"
  /\ \/ /\ \A i \in DOMAIN todo : Holding(todo[i].phone) = {}
        /\ Len(cards) + Len(todo) <= MaxCards
        /\ cards' = cards \o [i \in DOMAIN todo |-> NewCard(todo[i].phone, todo[i].who)]
        /\ Done(h)
     \/ /\ \E i \in DOMAIN todo : Holding(todo[i].phone) # {}
        /\ Goto(h, [hs[h] EXCEPT !.pc = "rows"])
        /\ UNCHANGED cards
  /\ UNCHANGED appts

InsertRow(h) ==
  LET row == Head(hs[h].todo) IN
  /\ hs[h].pc = "rows"
  /\ \/ Holding(row.phone) # {} /\ UNCHANGED cards
     \/ /\ Holding(row.phone) = {} /\ Len(cards) < MaxCards
        /\ cards' = Append(cards, NewCard(row.phone, row.who))
  /\ IF Len(hs[h].todo) = 1 THEN Done(h) ELSE Goto(h, [hs[h] EXCEPT !.todo = Tail(@)])
  /\ UNCHANGED appts

-----------------------------------------------------------------------------

\* What else happens to an appointment: its time comes, or it is cancelled.
Settle(a) ==
  /\ appts[a].st = "next"
  /\ \E st \in {"past", "cancelled"} : appts' = [appts EXCEPT ![a].st = st]
  /\ UNCHANGED <<cards, hs>>

\* A process that stops loses what it had in memory.
Crash(h) == hs[h].pc # "idle" /\ Done(h) /\ UNCHANGED <<cards, appts>>

Next ==
  \/ \E h \in Handlers :
       \/ \E p \in People, books \in BOOLEAN : \E phone \in Doors(p) : Arrive(h, p, phone, books)
       \/ \E c \in DOMAIN cards : Choose(h, c) \/ \E p \in People : \E t \in Typed(p) : Correct(h, c, t)
       \/ \E file \in Files : Analyze(h, file)
       \/ Restore(h) \/ Insert(h) \/ Write(h) \/ UpdateByTenant(h) \/ InsertChunk(h) \/ InsertRow(h) \/ Crash(h)
  \/ \E c \in DOMAIN cards : RemoveByTenant(c)
  \/ \E a \in DOMAIN appts : Settle(a)

Spec == Init /\ [][Next]_vars

-----------------------------------------------------------------------------

Phones == {Number[p] : p \in People} \cup UNION {{<<Dial>> \o Number[p], <<Dial>> \o Tail(Number[p])} : p \in People}

TypeOK ==
  /\ cards \in Seq([phone : Phones, st : {"live", "removed", "gone"}, who : People])
  /\ appts \in Seq([card : DOMAIN cards, st : {"next", "past", "cancelled", "gone"}])
  /\ \A h \in Handlers : hs[h].pc \in {"idle", "insert", "restore", "write", "correct", "batch", "rows"}

\* "Negocio + telefono normalizado = un cliente": by whichever doors somebody comes, at once or
\* with their card removed in between, they are on one card of the business and no more.
OnePersonOneCard ==
  \A c, d \in DOMAIN cards : c # d /\ Exists(c) /\ Exists(d) => cards[c].who # cards[d].who

\* No appointment that was ever written disappears with its client (removeByTenant counts
\* and deletes in one transaction, while bookings of the same card are in course).
ClientHistoryStays == \A a \in DOMAIN appts : appts[a].st # "gone" /\ Exists(appts[a].card)
====

---- MODULE Reports ----
(***************************************************************************)
(* What a business reads of its appointments (reports/, and the lists of   *)
(* appointments/ and customer-accounts/).  Every reading is a query of its *)
(* own over the same rows; there is no history table, so each service of   *)
(* an appointment freezes the price and the currency it was agreed at.     *)
(* Whoever edits an appointment, prices it or changes its status reads its *)
(* segments some queries before writing them, and holds the copy meanwhile.*)
(* Instants are long enough for one appointment; the day of an instant is  *)
(* the one of the business, Zone instants behind UTC.  Money is in cents.  *)
(***************************************************************************)
EXTENDS Integers, Sequences, FiniteSets, FiniteSetsExt, Functions

CONSTANTS
  Handlers,            \* requests of the panel over appointments that exist
  Staff, Clients, Accounts,
  Catalogue0,          \* [service -> [price, cur, active]] the business starts with
  Prices, Currencies,  \* what the panel may write; a price may be Null: the service is quoted
  Rates,               \* commissions, Null among them: nobody works on commission
  Plans,               \* the bookings asked for: sequences of [service, staff]
  Starts,               \* instants appointments start at
  DayLength, Zone,     \* instants of a day, and how far behind UTC the business is
  FirstDay,            \* the day each month starts, the last one only as an end
  Week, MaxDaily,      \* days of a week; longest period drawn day by day
  Days,                \* the days somebody asks the reports of
  FirstNow, MaxNow, MaxAppts, MaxWrites,   \* bounds: the clock, the appointments, the writes
  Null

ReportsAssumption ==
  /\ DayLength \in Nat \ {0} /\ Zone \in Nat /\ Week \in Nat \ {0} /\ MaxDaily \in Nat \ {0}
  /\ IsFiniteSet(Staff) /\ Null \notin Staff \cup Accounts /\ Null \in Rates /\ Prices \subseteq Int \cup {Null}
  /\ Catalogue0 \in [DOMAIN Catalogue0 -> [price : Prices, cur : Currencies, active : BOOLEAN]]
  /\ Plans \subseteq Seq([service : DOMAIN Catalogue0, staff : Staff]) \ {<<>>}
  /\ FirstNow \in Int /\ MaxNow \in Int /\ FirstNow <= MaxNow /\ MaxAppts \in Nat /\ MaxWrites \in Nat

VARIABLES
  catalogue,   \* [service -> [price, cur, active]]
  team,        \* [Staff -> [rate, former]]
  appts,       \* the appointments by id: [at, status, client, account, segs]
  clock,       \* the instant it is
  writes,      \* writes made so far
  copies       \* [Handlers -> request], with the segments as it read them

vars == <<catalogue, team, appts, clock, writes, copies>>

Services == DOMAIN Catalogue0
Statuses == {"pending", "confirmed", "completed", "cancelled"}
Open == {"pending", "confirmed"}       \* the blocking ones are the same

\* A row of appointment_services.  Its id stands as how often its appointment had been edited
\* when it was inserted, and in which place.
Seg(id, service, staff, price, cur) ==
  [id |-> id, service |-> service, staff |-> staff, price |-> price, cur |-> cur]
Idle == [op |-> "idle", i |-> 0, segs |-> <<>>]

Init ==
  /\ catalogue = Catalogue0
  /\ team \in [Staff -> [rate : {Null}, former : {FALSE}]]
  /\ appts = <<>> /\ clock = FirstNow /\ writes = 0
  /\ copies = [h \in Handlers |-> Idle]

SegmentRows == Seq([id : Nat \X Nat, service : Services, staff : Staff, price : Prices, cur : Currencies])

TypeOK ==
  /\ catalogue \in [Services -> [price : Prices, cur : Currencies, active : BOOLEAN]]
  /\ team \in [Staff -> [rate : Rates, former : BOOLEAN]]
  /\ DOMAIN appts \subseteq 1 .. MaxAppts
  /\ appts \in [DOMAIN appts ->
       [at : Starts, status : Statuses, client : Clients, account : Accounts \cup {Null}, edits : Nat, segs : SegmentRows]]
  /\ clock \in FirstNow .. MaxNow /\ writes \in 0 .. MaxWrites
  /\ copies \in [Handlers -> [op : {"idle", "edit", "price", "find", "save"}, i : 0 .. MaxAppts, segs : SegmentRows]]

-----------------------------------------------------------------------------
(* Writing: what is agreed, and what may change it *)

\* A service keeps what was agreed for it, though what was agreed be no price yet.
PlannedAtNull(items, agreed, edits) ==    \* mutant: a price that is missing is filled from the catalogue
  [k \in DOMAIN items |->
     LET v == items[k].service
         now == catalogue[v]
     IN IF v \notin DOMAIN agreed THEN Seg(<<edits, k>>, v, items[k].staff, now.price, now.cur)
        ELSE Seg(<<edits, k>>, v, items[k].staff, IF agreed[v].price = Null THEN now.price ELSE agreed[v].price, agreed[v].cur)]
PlanBookingSegments(items, agreed, edits) ==
  [k \in DOMAIN items |->
     LET v == items[k].service
         from == IF v \in DOMAIN agreed THEN agreed[v] ELSE catalogue[v]
     IN Seg(<<edits, k>>, v, items[k].staff, from.price, from.cur)]

\* Per service: of one that is there twice, what its last segment says.
AgreedPrices(segs) ==
  [v \in {segs[k].service : k \in DOMAIN segs} |-> segs[Max({k \in DOMAIN segs : segs[k].service = v})]]

Bookable(items) ==
  \A k \in DOMAIN items : catalogue[items[k].service].active /\ ~team[items[k].staff].former

\* An id is not used again while somebody holds a copy of what had it: ids are never repeated.
Write == writes < MaxWrites /\ writes' = writes + 1
Book(a) ==
  /\ Cardinality(DOMAIN appts) < MaxAppts
  /\ LET free == (1 .. MaxAppts) \ (DOMAIN appts \cup {copies[h].i : h \in Handlers})
     IN /\ free # {}
        /\ appts' = [i \in DOMAIN appts \cup {Min(free)} |-> IF i = Min(free) THEN a ELSE appts[i]]
  /\ Write /\ UNCHANGED <<catalogue, team, clock, copies>>
Put(i, a) == appts' = [appts EXCEPT ![i] = a] /\ UNCHANGED <<catalogue, team, clock>>

\* What is over when it is written down was attended: nobody books the past.
Create ==
  \E items \in Plans, t \in Starts, c \in Clients :
    /\ Bookable(items)
    /\ Book([at |-> t, status |-> IF t < clock THEN "completed" ELSE "pending", client |-> c,
             account |-> Null, edits |-> 0, segs |-> PlanBookingSegments(items, <<>>, 0)])

\* The channels of the customer offer only what is still to come.
CreateFromBookingFlow ==
  \E items \in Plans, t \in Starts, c \in Clients, acc \in Accounts \cup {Null} :
    /\ t > clock /\ Bookable(items)
    /\ Book([at |-> t, status |-> "confirmed", client |-> c, account |-> acc, edits |-> 0,
             segs |-> PlanBookingSegments(items, <<>>, 0)])

Goto(h, m) == copies' = [copies EXCEPT ![h] = m]
Leave(h) == Goto(h, Idle)
Hold(h, op, i) == Goto(h, [op |-> op, i |-> i, segs |-> appts[i].segs])

\* Editing and pricing begin by reading the segments.  Bound: there is a write left for each.
Read(h, op, i) ==
  /\ copies[h] = Idle /\ writes + Cardinality({g \in Handlers : copies[g].op \in {"edit", "price"}}) < MaxWrites
  /\ op = "edit" => appts[i].status \in Open
  /\ Hold(h, op, i)
  /\ UNCHANGED <<catalogue, team, appts, clock, writes>>

\* All the segments are replaced, at the prices that were agreed when it read them.
Edited(a, t, segs) == [a EXCEPT !.at = t, !.edits = @ + 1, !.segs = segs]
EditBooking(h) ==
  LET m == copies[h] IN
  /\ m.op = "edit" /\ m.i \in DOMAIN appts
  /\ \E items \in Plans, t \in Starts :
       /\ Bookable(items)
       /\ Put(m.i, Edited(appts[m.i], t, PlanBookingSegments(items, AgreedPrices(m.segs), appts[m.i].edits + 1)))
  /\ Write /\ Leave(h)

\* By service and in any status: what was quoted gets its price when the work is done.  The
\* rows are saved by id, and one that is not there any more makes the whole save fail.
RowIds(segs) == {segs[k].id : k \in DOMAIN segs}
OfService(segs, v) == {segs[k].id : k \in {l \in DOMAIN segs : segs[l].service = v}}
Priced(segs, ids, p) == [k \in DOMAIN segs |-> IF segs[k].id \in ids THEN [segs[k] EXCEPT !.price = p] ELSE segs[k]]
SetSegmentPrices(h) ==
  LET m == copies[h] IN
  /\ m.op = "price" /\ m.i \in DOMAIN appts
  /\ \E v \in {m.segs[k].service : k \in DOMAIN m.segs}, p \in Prices :
       /\ OfService(m.segs, v) \subseteq RowIds(appts[m.i].segs)
       /\ Put(m.i, [appts[m.i] EXCEPT !.segs = Priced(@, OfService(m.segs, v), p)])
  /\ Write /\ Leave(h)

\* The status first; then its segments are read and saved whole, to let the slot go or claim it.
UpdateStatus(h, i) ==
  /\ copies[h] = Idle
  /\ \E st \in Statuses \ {appts[i].status} : Put(i, [appts[i] EXCEPT !.status = st])
  /\ Write /\ Goto(h, [op |-> "find", i |-> i, segs |-> <<>>])

FindSegments(h) ==
  LET i == copies[h].i IN
  /\ copies[h].op = "find" /\ i \in DOMAIN appts
  /\ Hold(h, "save", i)
  /\ UNCHANGED <<catalogue, team, appts, clock, writes>>

\* What is there is written over with the copy, and what is not there any more is inserted:
\* in what order it is read afterwards, MySQL says.
Lost(segs, copy) == {k \in DOMAIN copy : copy[k].id \notin RowIds(segs)}
Orders(ks) == {o \in [1 .. Cardinality(ks) -> ks] : \A k, l \in DOMAIN o : o[k] = o[l] => k = l}
Saved(segs, copy) ==
  LET kept == [k \in DOMAIN segs |->
                 IF segs[k].id \in RowIds(copy) THEN copy[CHOOSE l \in DOMAIN copy : copy[l].id = segs[k].id] ELSE segs[k]]
  IN {kept \o [k \in DOMAIN o |-> copy[o[k]]] : o \in Orders(Lost(segs, copy))}
SaveSegments(h) ==
  LET m == copies[h] IN
  /\ m.op = "save" /\ m.i \in DOMAIN appts
  /\ \E segs \in Saved(appts[m.i].segs, m.segs) : Put(m.i, [appts[m.i] EXCEPT !.segs = segs])
  /\ Leave(h) /\ UNCHANGED writes

\* A request that stops or is refused: the appointment, a row of it or the slot is gone.
Stop(h) == copies[h] # Idle /\ Leave(h) /\ UNCHANGED <<catalogue, team, appts, clock, writes>>

Remove(i) ==
  /\ appts' = [j \in DOMAIN appts \ {i} |-> appts[j]]
  /\ Write /\ UNCHANGED <<catalogue, team, clock, copies>>

UpdateService(v) ==
  /\ \E p \in Prices, c \in Currencies, on \in BOOLEAN :
       catalogue' = [catalogue EXCEPT ![v] = [price |-> p, cur |-> c, active |-> on]]
  /\ Write /\ UNCHANGED <<team, appts, clock, copies>>

\* Whoever has appointments is only marked as gone; nothing is read of who has none.
UpdateStaff(p) ==
  /\ ~team[p].former
  /\ \E r \in Rates, gone \in BOOLEAN : team' = [team EXCEPT ![p] = [rate |-> r, former |-> gone]]
  /\ Write /\ UNCHANGED <<catalogue, appts, clock, copies>>

Tick == clock < MaxNow /\ clock' = clock + 1 /\ UNCHANGED <<catalogue, team, appts, writes, copies>>

Next ==
  \/ Create \/ CreateFromBookingFlow \/ Tick
  \/ \E i \in DOMAIN appts : Remove(i)
  \/ \E h \in Handlers :
       \/ \E i \in DOMAIN appts : Read(h, "edit", i) \/ Read(h, "price", i) \/ UpdateStatus(h, i)
       \/ EditBooking(h) \/ SetSegmentPrices(h) \/ FindSegments(h) \/ SaveSegments(h) \/ Stop(h)
  \/ \E v \in Services : UpdateService(v)
  \/ \E p \in Staff : UpdateStaff(p)

Spec == Init /\ [][Next]_vars

-----------------------------------------------------------------------------
(* Days and periods *)

UtcDay(t) == t \div DayLength          \* mutant: the day of the server
Day(t) == (t - Zone) \div DayLength
Midnight(d) == d * DayLength + Zone
Today == Day(clock)

\* The calendar has the month before any that is asked for, and somebody asks for every day.
CalendarAssumption ==
  /\ Days \subseteq Int /\ Starts \subseteq Int
  /\ \A t \in Starts : \E d \in Days : Midnight(d) <= t /\ t < Midnight(d + 1)
  /\ FirstDay \in Seq(Int) /\ \A m, n \in DOMAIN FirstDay : m < n => FirstDay[m] < FirstDay[n]
  /\ \A t \in FirstNow .. MaxNow :
       \E m \in 2 .. Len(FirstDay) - 1 : Midnight(FirstDay[m]) <= t /\ t < Midnight(FirstDay[m + 1])

Month(d) == CHOOSE m \in 1 .. Len(FirstDay) - 1 : FirstDay[m] <= d /\ d < FirstDay[m + 1]
BuildRange(from, to) == [from |-> from, to |-> to, start |-> Midnight(from), end |-> Midnight(to + 1)]
MonthRange(m) == BuildRange(FirstDay[m], FirstDay[m + 1] - 1)

\* The three presets take in the whole period, not only what has passed of it.
ResolveDays(preset, today) ==
  CASE preset = "today" -> BuildRange(today, today)
    [] preset = "week"  -> LET monday == today - (today % Week) IN BuildRange(monday, monday + Week - 1)
    [] preset = "month" -> MonthRange(Month(today))

DayCount(r) == r.to - r.from + 1

\* As many days just before; of a month, the month before, however long.
PreviousReportRange(r, preset) ==
  IF preset = "month" THEN MonthRange(Month(r.from) - 1)
  ELSE BuildRange(r.from - DayCount(r), r.from - 1)

Presets == {"today", "week", "month"}
Custom == {BuildRange(d[1], d[2]) : d \in {e \in Days \X Days : e[1] <= e[2]}}
ReportRanges == Custom \cup {ResolveDays(q, Today) : q \in Presets}

-----------------------------------------------------------------------------
(* The queries.  A row is an appointment and the place of one of its segments. *)

AppointmentsInRange(r) == {i \in DOMAIN appts : r.start <= appts[i].at /\ appts[i].at < r.end}
RowsOf(ids) == UNION {{i} \X DOMAIN appts[i].segs : i \in ids}
BilledSegments(r) == RowsOf({i \in AppointmentsInRange(r) : appts[i].status = "completed"})
BilledSegmentsForStaff(p, r) == {x \in BilledSegments(r) : appts[x[1]].segs[x[2]].staff = p}

At(x) == appts[x[1]].segs[x[2]]
Appointments(rows) == {x[1] : x \in rows}
Amount(rows) == SumFunction([x \in rows |-> IF At(x).price = Null THEN 0 ELSE At(x).price])
InCurrency(rows, c) == {x \in rows : At(x).cur = c}
CurrenciesOf(rows) == {At(x).cur : x \in rows}

\* Rounded to the cent; the divisor is the appointments that touched the currency.
Rounded(n, d) == (2 * n + d) \div (2 * d)
RevenueByCurrency(rows) ==
  [c \in CurrenciesOf(rows) |->
     LET mine == InCurrency(rows, c)
     IN [amount |-> Amount(mine), ticket |-> Rounded(Amount(mine), Cardinality(Appointments(mine)))]]

EstimateCommission(amount, rate) == IF rate = Null THEN Null ELSE Rounded(amount * rate, 100)
CurrencyEarnings(rows, rate) ==
  LET revenue == RevenueByCurrency(rows)
  IN [c \in DOMAIN revenue |-> [amount |-> revenue[c].amount, ticket |-> revenue[c].ticket,
                                commission |-> EstimateCommission(revenue[c].amount, rate)]]

CountOf(ids, sts) == Cardinality({i \in ids : appts[i].status \in sts})
Summary(r) ==
  LET ids == AppointmentsInRange(r)
  IN [revenue |-> RevenueByCurrency(BilledSegments(r)), completed |-> CountOf(ids, {"completed"}),
      cancelled |-> CountOf(ids, {"cancelled"}), pending |-> CountOf(ids, Open)]

Takings(rows) == [c \in CurrenciesOf(rows) |-> [amount |-> Amount(InCurrency(rows, c))]]

\* A single day has no timeline; a long period is drawn by months.
NoTimeline == <<>>
Key(d, r) == IF DayCount(r) <= MaxDaily THEN d ELSE Month(d)
BuildReportTimeline(r, rows) ==
  LET keys == {Key(d, r) : d \in r.from .. r.to}
      In(key) == {x \in rows : Key(Day(appts[x[1]].at), r) = key}
  IN IF DayCount(r) = 1 THEN NoTimeline
     ELSE [key \in keys |-> [revenue |-> Takings(In(key)), completed |-> Cardinality(Appointments(In(key)))]]

\* Whoever left stays in the ranking of what they did.  An appointment in two currencies
\* counts once in each.
StaffRanking(r) ==
  LET rows == BilledSegments(r)
      Of(p) == {x \in rows : At(x).staff = p}
  IN [p \in {At(x).staff : x \in rows} |->
        [former |-> team[p].former, earnings |-> CurrencyEarnings(Of(p), team[p].rate),
         completed |-> SumFunction([c \in CurrenciesOf(Of(p)) |-> Cardinality(Appointments(InCurrency(Of(p), c)))])]]

ServiceRanking(rows) ==
  [e \in {<<At(x).service, At(x).cur>> : x \in rows} |->
     LET mine == {x \in rows : At(x).service = e[1] /\ At(x).cur = e[2]}
     IN [times |-> Cardinality(mine), revenue |-> Amount(mine)]]

StaffSummary(p, r) ==
  LET billed == BilledSegmentsForStaff(p, r)
      ids    == {i \in AppointmentsInRange(r) : \E k \in DOMAIN appts[i].segs : appts[i].segs[k].staff = p}
  IN [earnings |-> CurrencyEarnings(billed, team[p].rate),
      completed |-> CountOf(ids, {"completed"}), cancelled |-> CountOf(ids, {"cancelled"}), pending |-> CountOf(ids, Open),
      clients |-> Cardinality({appts[i].client : i \in {j \in ids : appts[j].status = "completed"}}),
      services |-> Cardinality(billed)]

\* What a professional is shown: the period, the one before at the rate of today, the curve,
\* the services, and the month whatever the period.
Comparison(p, r, preset) == StaffSummary(p, PreviousReportRange(r, preset))
StaffTimeline(p, r) == BuildReportTimeline(r, BilledSegmentsForStaff(p, r))
StaffServiceRanking(p, r) == ServiceRanking(BilledSegmentsForStaff(p, r))
StaffCurrentMonth(p) == CurrencyEarnings(BilledSegmentsForStaff(p, ResolveDays("month", Today)), team[p].rate)

-----------------------------------------------------------------------------
(* The lists *)

\* The panel's: an appointment belongs to the days it starts in, whoever attends it.
FindRange(from, to) == AppointmentsInRange(BuildRange(from, to))
AppointmentIdsForStaff(p, from, to) ==
  {i \in FindRange(from, to) : \E k \in DOMAIN appts[i].segs : appts[i].segs[k].staff = p}

\* Still open when its day was over.  What ended a while ago may be going on.
FindUnresolved == {i \in DOMAIN appts : appts[i].status \in Open /\ appts[i].at < Midnight(Today)}

\* The customer's: what is ahead, by their card or by their account, and everything else.
Ahead(i) == appts[i].status \in Open /\ appts[i].at >= clock
OfAccount(acc) == {i \in DOMAIN appts : appts[i].account = acc}
FindUpcomingByClient(c) == {i \in DOMAIN appts : appts[i].client = c /\ Ahead(i)}
FindUpcoming(acc) == {i \in OfAccount(acc) : Ahead(i)}
FindPast(acc) == {i \in OfAccount(acc) : appts[i].at < clock \/ appts[i].status \in {"completed", "cancelled"}}

\* The card of a client shows all of theirs, and the counters all of the business.
ClientHistory(c) == {i \in DOMAIN appts : appts[i].client = c}
Counters == [st \in Statuses |-> CountOf(DOMAIN appts, {st})]

\* What an appointment costs: to the panel, what has a price, by currency; to the customer,
\* nothing at all while one of its services has none.
SumByCurrency(rows) ==
  LET priced == {x \in rows : At(x).price # Null}
  IN [c \in CurrenciesOf(priced) |-> Amount(InCurrency(priced, c))]
DetailTotals(i) == SumByCurrency(RowsOf({i}))
CustomerTotal(i) == IF \E x \in RowsOf({i}) : At(x).price = Null THEN Null ELSE Amount(RowsOf({i}))

-----------------------------------------------------------------------------
(* Properties *)

MoneyOf(revenue, c) == IF c \in DOMAIN revenue THEN revenue[c].amount ELSE 0

\* Every report of a period tells the same money, by currency, and the same work: the summary,
\* the curve, the ranking of the team, the ranking of services, and what each professional is
\* shown of themselves (reports.service.ts:424-434, commission.util.ts:3-11).
ReportAddsUp(r) ==
  LET rows    == BilledSegments(r)
      summary == Summary(r)
      curve   == BuildReportTimeline(r, rows)
      ranking == StaffRanking(r)
      done    == ServiceRanking(rows)
      Done(e, x) == IF e \in DOMAIN x THEN x[e].times ELSE 0
  IN /\ \A c \in Currencies :
          LET money == MoneyOf(summary.revenue, c)
          IN /\ money = SumFunction([p \in DOMAIN ranking |-> MoneyOf(ranking[p].earnings, c)])
             /\ money = SumFunction([p \in Staff |-> MoneyOf(StaffSummary(p, r).earnings, c)])
             /\ money = SumFunction([e \in DOMAIN done |-> IF e[2] = c THEN done[e].revenue ELSE 0])
             /\ curve # NoTimeline => money = SumFunction([k \in DOMAIN curve |-> MoneyOf(curve[k].revenue, c)])
             /\ \A k \in DOMAIN curve :
                  MoneyOf(curve[k].revenue, c) = SumFunction([p \in Staff |-> MoneyOf(StaffTimeline(p, r)[k].revenue, c)])
     /\ curve # NoTimeline => summary.completed = SumFunction([k \in DOMAIN curve |-> curve[k].completed])
     /\ \A p \in DOMAIN ranking :
          ranking[p].earnings = StaffSummary(p, r).earnings /\ ranking[p].completed >= StaffSummary(p, r).completed
     /\ \A e \in DOMAIN done : done[e].times = SumFunction([p \in Staff |-> Done(e, StaffServiceRanking(p, r))])
     /\ Cardinality(rows) = SumFunction([p \in Staff |-> StaffSummary(p, r).services])
     /\ r.to < Today => summary.pending = Cardinality(FindUnresolved \cap AppointmentsInRange(r))
     /\ \A p \in Staff : StaffSummary(p, r).clients <= StaffSummary(p, r).completed

\* A period and the one it is compared with leave no day between them and share none, so that
\* no work is in both or in neither; and the month of today is the same in any report.
PreviousIsNext ==
  /\ \A r \in Custom : PreviousReportRange(r, "custom").end = r.start
  /\ \A q \in Presets, p \in Staff :
       LET r == ResolveDays(q, Today)
           both == BilledSegmentsForStaff(p, BuildRange(PreviousReportRange(r, q).from, r.to))
       IN Comparison(p, r, q).services = Cardinality(both \ BilledSegmentsForStaff(p, r))
  /\ \A p \in Staff : StaffCurrentMonth(p) = StaffSummary(p, ResolveDays("month", Today)).earnings

\* No list leaves an appointment out: of an account, it is ahead or past and never both; of a
\* day that is over, it was attended, cancelled or is waiting to be resolved; and it is in the
\* agenda of one day (appointments.service.ts:645-664, :899-904).
NothingFallsBetween ==
  /\ \A acc \in Accounts :
       FindUpcoming(acc) \cup FindPast(acc) = OfAccount(acc) /\ FindUpcoming(acc) \cap FindPast(acc) = {}
  /\ \A c \in Clients : FindUpcomingByClient(c) \subseteq ClientHistory(c)
  /\ \A i \in DOMAIN appts :
       Day(appts[i].at) < Today => i \in FindUnresolved \/ appts[i].status \in {"completed", "cancelled"}
  /\ \A i \in DOMAIN appts : Cardinality({d \in Days : i \in FindRange(d, d)}) = 1
  /\ \A d \in Days : UNION {AppointmentIdsForStaff(p, d, d) : p \in Staff} = FindRange(d, d)

\* An appointment costs the same wherever it is read, when it is all in one currency.
TotalsAgree ==
  \A i \in DOMAIN appts :
    LET cs == CurrenciesOf(RowsOf({i}))
    IN Cardinality(cs) = 1 /\ CustomerTotal(i) # Null => \A c \in cs : DetailTotals(i)[c] = CustomerTotal(i)

ReportsAgree == (\A r \in ReportRanges : ReportAddsUp(r)) /\ PreviousIsNext /\ NothingFallsBetween /\ TotalsAgree

\* Somebody wrote the segments of the appointment after this request read them.
Overtaken(h) ==
  /\ copies[h].op \in {"edit", "save"} /\ copies[h].i \in DOMAIN appts
  /\ copies[h].segs # appts[copies[h].i].segs

\* What was agreed stands: the price a service of an appointment was booked at changes only by
\* writing that price, with nothing else of the appointment and nothing of the catalogue, and its
\* currency never does (booking-plan.ts:104-110, reports.service.ts:80-87).  With one exception:
\* an edit or a change of status that another write of the same segments overtook between its
\* own queries writes back the prices it had read.
Agreed ==
  \A i \in DOMAIN appts \cap DOMAIN appts' :
    LET before == AgreedPrices(appts[i].segs)
        after  == AgreedPrices(appts'[i].segs)
    IN \/ \E h \in Handlers : Overtaken(h) /\ copies[h].i = i /\ copies'[h] = Idle
       \/ \A v \in DOMAIN before \cap DOMAIN after :
            /\ after[v].cur = before[v].cur
            /\ after[v].price # before[v].price =>
                 /\ catalogue' = catalogue /\ appts'[i].at = appts[i].at
                 /\ DOMAIN after = DOMAIN before
                 /\ \A w \in DOMAIN before \ {v} : after[w].price = before[w].price
AgreedStands == [][Agreed]_vars
====

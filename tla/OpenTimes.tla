---- MODULE OpenTimes ----
(***************************************************************************)
(* The times of one day that a business can offer (availability/,          *)
(* scheduling-rules/, schedule-blocks/): the hours of the business and of  *)
(* each professional less what is blocked and what is booked, the ways of  *)
(* fitting several services together, who attends each one, and the        *)
(* warnings that the panel gets instead of a refusal.                      *)
(*                                                                         *)
(* Time is counted in steps of the finest grid, from the opening.  Writing *)
(* the appointment belongs to Agenda: here a booking becomes busy time.    *)
(***************************************************************************)
EXTENDS Integers, Sequences, FiniteSets, SequencesExt

CONSTANTS
  Staff,          \* the bookable professionals; their order is that of their ids
  Services,       \* [name -> [length, category, self, by]]: by whom, and whether a client may book it
  Parallel,       \* the pairs of categories that run at the same time, as sets
  Hours,          \* the rows business_hours may have for the day
  Shifts,         \* what a professional may have: [custom, rows]
  BlockRows,      \* the blocks somebody may mark: [who, from, to]
  Requests,       \* what may be asked for: [items, single, panel], the items being [service, staff]
  Step,           \* the grid of the channel
  Lead,           \* MIN_LEAD_TIME_MINUTES
  MaxNow, MaxChanges, MaxBookings   \* bounds: the clock, changes of the hours and blocks, bookings

MaxTime == Max({r.to : r \in UNION Hours})   \* the latest closing

CONSTANT Anyone   \* no preference, a block of the whole business, a service without category
TimesAssumption ==
  /\ IsFiniteSet(Staff) /\ Staff \subseteq Nat /\ Anyone \notin Staff
  /\ Step \in Nat \ {0} /\ Lead \in Nat /\ MaxNow \in Nat /\ MaxChanges \in Nat /\ MaxBookings \in Nat
  /\ \A s \in DOMAIN Services : Services[s].by \subseteq Staff /\ Services[s].length \in Nat \ {0}
  /\ \A rows \in Hours \cup {own.rows : own \in Shifts} : IsFiniteSet(rows) /\ rows \subseteq [from : Int, to : Int]
  /\ IsFiniteSet(UNION Hours) /\ \A r \in UNION Hours : r.from >= 0
  /\ \A own \in Shifts : own.custom \in BOOLEAN
  /\ [custom |-> FALSE, rows |-> {}] \in Shifts
  /\ IsFiniteSet(BlockRows) /\ BlockRows \subseteq [who : Staff \cup {Anyone}, from : Int, to : Int]
  /\ \A b \in BlockRows : b.from < b.to
  /\ \A r \in Requests : /\ r = [items |-> r.items, single |-> r.single, panel |-> r.panel]
                         /\ r.items \in Seq([service : DOMAIN Services, staff : Staff \cup {Anyone}]) \ {<<>>}

MaxPlanned == 6   \* MAX_PLANNED_SERVICES

VARIABLES
  hours, shift, blocks,  \* the calendar of the day: rows, [Staff -> Shifts], SUBSET BlockRows
  busy,           \* the segments booked: [appt, staff, from, to]
  now,            \* steps since the opening
  query,          \* what is on a screen: [items, single, panel, moving]
  wrote,          \* the segments the last confirmation wrote, while nothing has changed
  changed

vars == <<hours, shift, blocks, busy, now, query, wrote, changed>>

Period(a, b) == [from |-> a, to |-> b]
Overlaps(a, b) == a.from < b.to /\ a.to > b.from

-----------------------------------------------------------------------------
(* Ranges of the day (working-hours.resolver.ts): ordered sequences, apart *)

\* The members of S as a list, each after those that go before it: before is a set of pairs.
Ordered(S, before) ==
  FoldSet(LAMBDA x, seq : InsertAt(seq, Cardinality({i \in DOMAIN seq : <<seq[i], x>> \in before}) + 1, x), <<>>, S)
Sorted(ranges) == Ordered(ranges, {p \in ranges \X ranges : p[1].from < p[2].from})

Joined(merged, r) ==
  IF merged # <<>> /\ r.from <= Last(merged).to
  THEN [merged EXCEPT ![Len(merged)].to = Max({@, r.to})]
  ELSE Append(merged, r)
MergeRanges(ranges) == FoldLeft(Joined, <<>>, Sorted(ranges))

IntersectRanges(a, b) ==
  Sorted({r \in {Period(Max({a[i].from, b[j].from}), Min({a[i].to, b[j].to})) : i \in DOMAIN a, j \in DOMAIN b} :
            r.to > r.from})

Cut(range, holes) ==
  LET Hole(left, h) == IF h.to <= left.at \/ h.from >= range.to THEN left
                       ELSE [at |-> h.to, out |-> IF h.from > left.at THEN Append(left.out, Period(left.at, h.from))
                                                                      ELSE left.out]
      end == FoldLeft(Hole, [at |-> range.from, out |-> <<>>], holes)
  IN IF end.at < range.to THEN Append(end.out, Period(end.at, range.to)) ELSE end.out
SubtractRanges(base, holes) ==
  LET merged == MergeRanges(holes) IN FoldLeft(LAMBDA left, range : left \o Cut(range, merged), <<>>, base)

\* A row that ends before it begins is a broken one.
OfDay(rows) == MergeRanges({r \in rows : r.to > r.from})
BlocksOf(s) == {Period(b.from, b.to) : b \in {b \in blocks : b.who \in {s, Anyone}}}

RangesLess(s, holes) ==
  LET business == OfDay(hours)
      own == OfDay(shift[s].rows)
  IN SubtractRanges(IF shift[s].custom THEN IntersectRanges(business, own) ELSE business, holes)
WorkingRanges(s) == RangesLess(s, BlocksOf(s))

Within(ranges, w) == \E i \in DOMAIN ranges : w.from >= ranges[i].from /\ w.to <= ranges[i].to
StartsWithin(ranges, w) == \E i \in DOMAIN ranges : ranges[i].from <= w.from /\ w.from < ranges[i].to

-----------------------------------------------------------------------------
(* Ways of fitting the services together (execution-plan.ts): which round each is in *)

Length(item) == Services[item.service].length
Category(item) == Services[item.service].category

Compatible(a, b) ==
  /\ Anyone \notin {Category(a), Category(b)} /\ Category(a) # Category(b)
  /\ {Category(a), Category(b)} \in Parallel

InRound(plan, r) == {i \in DOMAIN plan : plan[i] = r}
Rounds(plan) == Max(ToSet(plan))
RoundLength(items, plan, r) == Max({Length(items[i]) : i \in InRound(plan, r)})
Total(items, plan, r) == FoldLeft(+, 0, [q \in 1 .. r |-> RoundLength(items, plan, q)])
Offset(items, plan, i) == Total(items, plan, plan[i] - 1)
TotalLength(items, plan) == Total(items, plan, Rounds(plan))
Concurrency(plan) == Max({Cardinality(InRound(plan, r)) : r \in ToSet(plan)})

Sequential(items) == [i \in DOMAIN items |-> i]
\* The rounds are numbered as they appear, and all in a round go with one another.
Groupings(items) ==
  {plan \in [DOMAIN items -> DOMAIN items] :
     /\ \A i \in DOMAIN items : plan[i] <= Max({plan[j] : j \in 1 .. i - 1} \cup {0}) + 1
     /\ \A i, j \in DOMAIN items : i # j /\ plan[i] = plan[j] => Compatible(items[i], items[j])}

Precedes(a, b) == \E i \in DOMAIN a : a[i] < b[i] /\ \A j \in 1 .. i - 1 : a[j] = b[j]
\* Shortest first, then whoever needs fewer people at once.
Rank(items, plan) == <<TotalLength(items, plan), Concurrency(plan), Rounds(plan)>> \o plan
ExecutionPlans(items) ==
  IF Len(items) = 1 \/ Len(items) > MaxPlanned THEN <<Sequential(items)>>
  ELSE LET plans == Groupings(items)
       IN Ordered(plans, {p \in plans \X plans : Precedes(Rank(items, p[1]), Rank(items, p[2]))})

PlanShortest(items) == ExecutionPlans(items)[1]   \* mutant: whoever was asked for
\* The first that does not need one person in two places.
PlanForAssignment(items) ==
  LET plans == ExecutionPlans(items)
      Fits(plan) == \A i, j \in DOMAIN items :
        i # j /\ plan[i] = plan[j] /\ items[i].staff # Anyone => items[i].staff # items[j].staff
  IN plans[Min({p \in DOMAIN plans : Fits(plans[p])})]

Window(items, plan, i, t) == Period(t + Offset(items, plan, i), t + Offset(items, plan, i) + Length(items[i]))

-----------------------------------------------------------------------------
(* People apart for what happens at once (staff-matching.ts): augmenting paths *)

\* The first of an item's candidates that are in S, if any is.
Offers(cands, i, S) == {k \in DOMAIN cands[i] : cands[i][k] \in S}
First(cands, i, S) == cands[i][Min(Offers(cands, i, S))]

\* A place for an item among whom nobody has asked yet, moving whoever has it.
Seat(cands, taken) ==
  LET seat[c \in [item : DOMAIN cands, left : SUBSET Staff]] ==
        LET s == First(cands, c.item, c.left)
            left == c.left \ {s}
            freed == IF taken[s] = 0 THEN [ok |-> TRUE, taken |-> taken, left |-> left]
                     ELSE seat[[item |-> taken[s], left |-> left]]
        IN IF Offers(cands, c.item, c.left) = {} THEN [ok |-> FALSE, taken |-> taken, left |-> c.left]
           ELSE IF freed.ok THEN [freed EXCEPT !.taken[s] = c.item]
           ELSE seat[[item |-> c.item, left |-> freed.left]]
  IN seat

\* To each the first who is free, and then a place for whoever was left without one.
DistinctStaff(cands) ==
  LET items == [i \in DOMAIN cands |-> i]
      Take(taken, i) ==
        LET free == {s \in Staff : taken[s] = 0}
        IN IF Offers(cands, i, free) = {} THEN taken ELSE [taken EXCEPT ![First(cands, i, free)] = i]
      greedy == FoldLeft(Take, [s \in Staff |-> 0], items)
      Move(m, i) == IF m.ok /\ ~\E s \in Staff : greedy[s] = i
                    THEN Seat(cands, m.taken)[[item |-> i, left |-> Staff]] ELSE m
      seated == FoldLeft(Move, [ok |-> TRUE, taken |-> greedy, left |-> Staff], items)
  IN IF seated.ok THEN [i \in DOMAIN cands |-> CHOOSE s \in Staff : seated.taken[s] = i] ELSE <<>>

-----------------------------------------------------------------------------
(* The times of a query (booking-availability.service.ts, slot-builder.ts) *)

ById(S) == Ordered(S, {p \in S \X S : p[1] < p[2]})
WorkingToday(s) == WorkingRanges(s) # <<>>

\* Whoever can do the item, or the one that was asked for if that person can.
StaffFor(item) == {s \in Services[item.service].by : item.staff \in {s, Anyone}}
Working(item) == {s \in StaffFor(item) : WorkingToday(s)}

Others(q) == {b \in busy : b.appt # q.moving}
Free(q, s, w) == ~\E b \in Others(q) : b.staff = s /\ Overlaps(b, w)
Lasting(segs) == FoldSet(LAMBDA b, sum : sum + b.to - b.from, 0, segs)
Workload(q, s) == Lasting({b \in Others(q) : b.staff = s})

\* Why a query may have no times at all.
Viable(q) == \A i \in DOMAIN q.items : /\ Working(q.items[i]) # {}
                                       /\ q.panel \/ Services[q.items[i].service].self

Team(q) == UNION {Working(q.items[i]) : i \in DOMAIN q.items}
Coverage(staff) == MergeRanges(UNION {ToSet(WorkingRanges(s)) : s \in staff})

\* A function, which TLC works out once to compare it.
Tabled(f) == CHOOSE g \in {f} : g = f

\* What a query needs, loaded once (loadContext).
Context(q) ==
  [q |-> q, plans |-> ExecutionPlans(q.items), ranges |-> Tabled([s \in Staff |-> WorkingRanges(s)]),
   staff |-> Tabled([i \in DOMAIN q.items |-> Working(q.items[i])]), busy |-> Others(q)]

\* The grid, the last time that ends at the closing, and where each booking ends.
Grid(range, length, step, overflow) ==
  {t \in range.from .. range.to - 1 : (t - range.from) % step = 0 /\ (overflow \/ t + length <= range.to)}
AnchorsNone(c) == {}   \* mutant: only the grid
Anchors(c) == {b.to : b \in {b \in c.busy : b.staff \in Team(c.q)}}
CandidateTimes(c) ==
  LET length == TotalLength(c.q.items, c.plans[1])
      anchors == Anchors(c)
  IN UNION {Grid(r, length, Step, TRUE)
              \cup {t \in {r.to - length} : t >= r.from}
              \cup {t \in anchors : r.from <= t /\ t < r.to} : r \in ToSet(Coverage(Team(c.q)))}

MinStart(q) == IF q.panel THEN 0 ELSE now + Lead

\* Everyone has someone, and what is at once has people apart.
CoveredOneByOne(plan, cands) == \A i \in DOMAIN plan : cands[i] # <<>>   \* mutant: no matching
OfRound(plan, r, lists) == [n \in DOMAIN ById(InRound(plan, r)) |-> lists[ById(InRound(plan, r))[n]]]
Covered(plan, cands) == \A r \in ToSet(plan) : DistinctStaff(OfRound(plan, r, cands)) # <<>>

IsParallel(plan) == Concurrency(plan) > 1
Alone(plan, cands) == IF IsParallel(plan) THEN {} ELSE {s \in Staff : \A i \in DOMAIN plan : Contains(cands[i], s)}

\* Who could attend each item.
Candidates(c, t, plan, entire) ==
  LET Can(i, s) == LET w == Window(c.q.items, plan, i, t)
                   IN /\ IF entire THEN Within(c.ranges[s], w) ELSE StartsWithin(c.ranges[s], w)
                      /\ ~\E b \in c.busy : b.staff = s /\ Overlaps(b, w)
  IN Tabled([i \in DOMAIN plan |-> ById({s \in c.staff[i] : Can(i, s)})])

SlotOf(c, t, p, entire) ==
  LET plan == c.plans[p]
      cands == Candidates(c, t, plan, entire)
      alone == Alone(plan, cands)
  IN IF /\ \A i \in DOMAIN plan : cands[i] # <<>>
        /\ Covered(plan, cands)
        /\ c.q.single /\ Len(plan) > 1 /\ ~IsParallel(plan) => alone # {}
     THEN {[start |-> t, plan |-> plan, alone |-> alone, cands |-> cands]} ELSE {}

\* Whole in the hours of somebody if it can be, or else at least begun in them.
Evaluated(c, t, p) ==
  LET whole == SlotOf(c, t, p, TRUE) IN IF whole # {} THEN whole ELSE SlotOf(c, t, p, FALSE)

\* The first plan that someone can attend at that time.
FirstSlot(c, t) ==
  FoldLeft(LAMBDA slot, p : IF slot # {} THEN slot ELSE Evaluated(c, t, p), {}, [p \in DOMAIN c.plans |-> p])

Slots(q) ==
  LET c == Context(q)
  IN IF Viable(q) THEN UNION {FirstSlot(c, t) : t \in {t \in CandidateTimes(c) : t >= MinStart(q)}} ELSE {}

\* A day is offered if somebody for every item has hours left.
Serviceable(q) ==
  \A i \in DOMAIN q.items : \E s \in StaffFor(q.items[i]) : \E r \in ToSet(WorkingRanges(s)) : r.to > now + Lead

-----------------------------------------------------------------------------
(* Confirming: the same calculation again, and who attends (staff-assignment.ts) *)

ByLeastWork(q, staff) ==
  LET work(s) == Workload(q, s)
  IN Ordered(staff, {p \in staff \X staff : work(p[1]) < work(p[2]) \/ (work(p[1]) = work(p[2]) /\ p[1] < p[2])})

StaffOneByOne(q, plan, cands) == [i \in DOMAIN plan |-> ByLeastWork(q, ToSet(cands[i]))[1]]   \* mutant: no matching
StaffForPlan(q, plan, cands) ==
  LET Chosen(r) == DistinctStaff(OfRound(plan, r, [i \in DOMAIN plan |-> ByLeastWork(q, ToSet(cands[i]))]))
      Place(i) == CHOOSE n \in DOMAIN ById(InRound(plan, plan[i])) : ById(InRound(plan, plan[i]))[n] = i
  IN [i \in DOMAIN plan |-> Chosen(plan[i])[Place(i)]]

Segments(appt, items, plan, t, who) ==
  {[appt |-> appt, staff |-> who[i], from |-> Window(items, plan, i, t).from, to |-> Window(items, plan, i, t).to] :
     i \in DOMAIN items}

Confirmed(q, slot, appt) ==
  LET plan == slot.plan
      who == IF slot.alone # {} THEN [i \in DOMAIN plan |-> ByLeastWork(q, slot.alone)[1]]
             ELSE StaffForPlan(q, plan, slot.cands)
  IN Segments(appt, q.items, plan, slot.start, who)

-----------------------------------------------------------------------------
(* What is odd about a booking the panel insists on (booking-warnings.ts) *)

Warnings(q, segs) ==
  LET business == OfDay(hours)
      late == \E s \in segs : s.from < now /\ \A o \in segs : s.from <= o.from
      taken == {s \in segs : ~Free(q, s.staff, s)}
      blocked == {s \in segs : \E b \in BlocksOf(s.staff) : Overlaps(s, b)}
      outside == {s \in segs : ~Within(business, s)}
      off == {s \in segs : ~Within(RangesLess(s.staff, {}), s)}
  IN (IF late THEN {"PAST_TIME"} ELSE {})
     \cup (IF taken # {} THEN {"STAFF_BUSY"} ELSE {})
     \cup (IF blocked # {} THEN {"TIME_BLOCKED"} ELSE {})
     \cup CASE business = <<>> -> {"CLOSED_DAY"}
            [] business # <<>> /\ outside # {} -> {"OUTSIDE_BUSINESS_HOURS"}
            [] business # <<>> /\ outside = {} /\ off # {} -> {"STAFF_OFF_SHIFT"}
            [] OTHER -> {}

-----------------------------------------------------------------------------
(* What the assistant suggests in words (availability.service.ts) *)

SuggestedLength(q) == FoldLeft(+, 0, [i \in DOMAIN q.items |-> Length(q.items[i])])
CanAll(q) == {s \in Staff : \A i \in DOMAIN q.items : s \in StaffFor(q.items[i])}
SuggestedTimes(q, staff) == UNION {Grid(r, SuggestedLength(q), 1, FALSE) : r \in ToSet(Coverage(staff))}

\* Mutant: everything is looked for at the beginning.
ChainAtOnce(q, t) ==
  LET plan == Sequential(q.items)
      Able(i) == LET w == Period(t, t + Length(q.items[i]))
                 IN {s \in Services[q.items[i].service].by : Within(WorkingRanges(s), w) /\ Free(q, s, w)}
  IN IF \A i \in DOMAIN plan : Able(i) # {} THEN {Segments(0, q.items, plan, t, [i \in DOMAIN plan |-> Min(Able(i))])}
     ELSE {}
\* One after the other, each with the first who can.
Chain(q, t) ==
  LET plan == Sequential(q.items)
      Able(i) == LET w == Window(q.items, plan, i, t)
                 IN {s \in Services[q.items[i].service].by : Within(WorkingRanges(s), w) /\ Free(q, s, w)}
  IN IF \A i \in DOMAIN plan : Able(i) # {} THEN {Segments(0, q.items, plan, t, [i \in DOMAIN plan |-> Min(Able(i))])}
     ELSE {}

\* Whoever can do it all, or otherwise several, unless one person was asked for.
Suggestions(q) ==
  LET w(t) == Period(t, t + SuggestedLength(q))
      plan == Sequential(q.items)
      can(t) == {s \in CanAll(q) : Within(WorkingRanges(s), w(t)) /\ Free(q, s, w(t))}
      named == \E i \in DOMAIN q.items : q.items[i].staff # Anyone
  IN {segs \in IF CanAll(q) # {}
               THEN UNION {{Segments(0, q.items, plan, t, [i \in DOMAIN plan |-> s]) : s \in can(t)} :
                             t \in SuggestedTimes(q, CanAll(q))}
               ELSE IF named \/ Len(q.items) = 1 THEN {}
               ELSE UNION {Chain(q, t) : t \in SuggestedTimes(q, Staff)} :
        \A s \in segs : s.from >= now + Lead}

-----------------------------------------------------------------------------
(* The day goes on *)

Appts == {b.appt : b \in busy}
NextAppt == Max(Appts \cup {0}) + 1
NoQuery == [items |-> <<>>, single |-> FALSE, panel |-> FALSE, moving |-> 0]
Stay == UNCHANGED <<hours, shift, blocks, now>>

Ask ==
  /\ \E r \in Requests, moving \in {0} \cup Appts :
       query' = [items |-> r.items, single |-> r.single, panel |-> r.panel, moving |-> moving]
  /\ wrote' = {} /\ UNCHANGED <<busy, changed>> /\ Stay

\* Between the list and the answer the world may have moved: the list is made again.
Confirm ==
  /\ query # NoQuery /\ ~query.panel /\ query.moving \in {0} \cup Appts
  /\ query.moving = 0 => NextAppt <= MaxBookings
  /\ \E slot \in Slots(query) :
       LET segs == Confirmed(query, slot, IF query.moving = 0 THEN NextAppt ELSE query.moving)
       IN wrote' = segs /\ busy' = Others(query) \cup segs
  /\ UNCHANGED <<query, changed>> /\ Stay

\* The panel writes what it asked for, warned or not; one person cannot begin two things at once.
Insist ==
  /\ query.panel /\ query.moving = 0 /\ NextAppt <= MaxBookings
  /\ \A i \in DOMAIN query.items : query.items[i].staff # Anyone
  /\ \E t \in 0 .. MaxNow :
       LET segs == Segments(NextAppt, query.items, PlanForAssignment(query.items), t,
                            [i \in DOMAIN query.items |-> query.items[i].staff])
       IN /\ ~\E s \in segs, b \in busy : s.staff = b.staff /\ s.from = b.from
          /\ wrote' = {} /\ busy' = busy \cup segs
  /\ UNCHANGED <<query, changed>> /\ Stay

Change == changed < MaxChanges /\ changed' = changed + 1 /\ wrote' = {} /\ UNCHANGED <<busy, now, query>>
SetHours == Change /\ hours' \in Hours /\ UNCHANGED <<shift, blocks>>
SetShift == Change /\ (\E s \in Staff, own \in Shifts : shift' = [shift EXCEPT ![s] = own]) /\ UNCHANGED <<hours, blocks>>
Block == Change /\ (\E b \in BlockRows \ blocks : blocks' = blocks \cup {b}) /\ UNCHANGED <<hours, shift>>
Unblock == Change /\ (\E b \in blocks : blocks' = blocks \ {b}) /\ UNCHANGED <<hours, shift>>
Tick == now < MaxNow /\ now' = now + 1 /\ wrote' = {} /\ UNCHANGED <<hours, shift, blocks, busy, query, changed>>

Init ==
  /\ hours \in Hours /\ shift = [s \in Staff |-> [custom |-> FALSE, rows |-> {}]] /\ blocks = {} /\ busy = {}
  /\ now = 0 /\ query = NoQuery /\ wrote = {} /\ changed = 0

Next == Ask \/ Confirm \/ Insist \/ SetHours \/ SetShift \/ Block \/ Unblock \/ Tick

Spec == Init /\ [][Next]_vars

-----------------------------------------------------------------------------
(* Properties, against the day told minute by minute *)

Minutes(w) == w.from .. w.to - 1
In(rows, t) == \E r \in rows : r.from <= t /\ t < r.to
Available(s, t) == In(hours, t) /\ (shift[s].custom => In(shift[s].rows, t)) /\ ~In(BlocksOf(s), t)
Idle(q, s, w) == \A t \in Minutes(w) : ~\E b \in Others(q) : b.staff = s /\ t \in Minutes(b)
Whole(s, w) == \A t \in Minutes(w) : Available(s, t)

\* Somebody attends every item from that moment, nobody two at once.
Feasible(q, plan, t) ==
  LET w(i) == Window(q.items, plan, i, t) IN
  \E who \in [DOMAIN q.items -> Staff] :
    /\ \A i \in DOMAIN who : who[i] \in StaffFor(q.items[i])
    /\ q.single /\ ~IsParallel(plan) => \A i \in DOMAIN who : who[i] = who[1]
    /\ \A i, j \in DOMAIN who : i # j /\ Overlaps(w(i), w(j)) => who[i] # who[j]
    /\ \A i \in DOMAIN who : Available(who[i], w(i).from) /\ Idle(q, who[i], w(i))
\* The moments that are possible, with what it would all take.
Possible(q, times) ==
  {<<pt[2], TotalLength(q.items, pt[1])>> : pt \in {pt \in Groupings(q.items) \X times : Feasible(q, pt[1], pt[2])}}
Shortest(possible, t) == Min({p[2] : p \in {p \in possible : p[1] = t}})

TypeOK ==
  /\ hours \in Hours /\ shift \in [Staff -> Shifts] /\ blocks \subseteq BlockRows
  /\ \A b \in busy : b.appt \in 1 .. MaxBookings /\ b.staff \in Staff /\ b.from < b.to
  /\ query = NoQuery \/ [items |-> query.items, single |-> query.single, panel |-> query.panel] \in Requests
  /\ wrote \subseteq busy /\ now \in 0 .. MaxNow /\ changed \in 0 .. MaxChanges

\* When a stretch of work of whoever may attend begins, every so many steps while it
\* lasts, or when one of them ends with another client.
Worth(q) ==
  LET team == UNION {StaffFor(q.items[i]) : i \in DOMAIN q.items}
      on == {u \in 0 .. MaxTime : \E s \in team : Available(s, u)}
      begins == {u \in on : u - 1 \notin on}
  IN {b.to : b \in {b \in Others(q) : b.staff \in team /\ \E u \in 0 .. b.to : Available(b.staff, u)}}
     \cup {t \in on : \E o \in begins : (t - o) % Step = 0 /\ o <= t /\ o .. t \subseteq on}

Exact(q, slots, possible) ==
  LET times == {p[1] : p \in possible} IN
  /\ \A slot \in slots : slot.start \in times /\ TotalLength(q.items, slot.plan) = Shortest(possible, slot.start)
  /\ Viable(q) => times \cap Worth(q) \subseteq {slot.start : slot \in slots}
  /\ ~q.panel /\ slots # {} => Serviceable(q)

\* The times offered are those that somebody can attend: none without a person apart for
\* each thing done at once, none missing that the grid or the end of a booking suggests,
\* each with the shortest way of fitting the services, and none on a day not offered.
OfferIsExact == query # NoQuery => Exact(query, Slots(query), Possible(query, MinStart(query) .. MaxTime))

\* What is written on confirming is attended by people who are there when it begins and
\* have nothing else meanwhile, lasts as little as it can, and goes to whoever has the
\* least work of those who could do it as well.
Served(q, segs) ==
  LET start == Min({s.from : s \in segs})
      can(p, s) == p \in StaffFor(q.items[1]) /\ Available(p, s.from) /\ Idle(q, p, s)
  IN /\ \A s \in segs : Available(s.staff, s.from) /\ Idle(q, s.staff, s)
     /\ \A s, o \in segs : s # o /\ s.staff = o.staff => ~Overlaps(s, o)
     /\ Cardinality(segs) = Len(q.items) /\ start >= now + Lead
     /\ Max({s.to : s \in segs}) - start = Shortest(Possible(q, {start}), start)
     /\ Len(q.items) = 1 => \A s \in segs : ~\E p \in Staff :
          can(p, s) /\ (Whole(s.staff, s) => Whole(p, s)) /\ Workload(q, p) < Workload(q, s.staff)
BookedIsServable == wrote # {} => Served([query EXCEPT !.moving = (CHOOSE s \in wrote : TRUE).appt], wrote)

\* The panel is warned of a booking exactly when somebody in it is not free and at work
\* all along, and what it asks never has one person in two places.
PanelIsWarned ==
  query.panel /\ (\A i \in DOMAIN query.items : query.items[i].staff # Anyone) =>
    \A t \in 0 .. MaxTime :
      LET segs == Segments(0, query.items, PlanForAssignment(query.items), t,
                           [i \in DOMAIN query.items |-> query.items[i].staff])
      IN /\ \A s, o \in segs : s # o /\ s.staff = o.staff => ~Overlaps(s, o)
         /\ Warnings(query, segs) \subseteq {"PAST_TIME"}
              <=> \A s \in segs : Whole(s.staff, s) /\ Idle(query, s.staff, s)

\* What the assistant suggests could be booked: whole in the hours of people who do it.
SuggestionsHold ==
  LET q == [query EXCEPT !.moving = 0] IN
  query # NoQuery => \A segs \in Suggestions(q) : \A s \in segs : Whole(s.staff, s) /\ Idle(q, s.staff, s)
====

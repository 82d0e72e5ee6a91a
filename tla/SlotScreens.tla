---- MODULE SlotScreens ----
(***************************************************************************)
(* The hours of a day on WhatsApp, whose lists have Rows rows.  A day that *)
(* takes more than two pages is offered in ranges, a short one or a range  *)
(* page by page.  The hours are read again for every screen, so they may   *)
(* have changed since the one before (booking-flow/slot-ranges.ts,         *)
(* option-window.ts, and the step of the hours in booking-flow.service.ts).*)
(* A screen goes out as one or two messages, and WhatsApp's limits are     *)
(* enforced before a list is sent (booking-prompt.plan.ts,                 *)
(* booking-prompt.renderer.ts, outgoing-message.builder.ts).               *)
(***************************************************************************)
EXTENDS Integers, Sequences, FiniteSets, SequencesExt

CONSTANTS
  LastHour,      \* the hours of the day are numbered up to this one
  Rows,          \* the rows a list has
  MaxNext,       \* hours offered loose above the ranges: the flow asks for none
  MinNext,       \* fewer than these are not worth a block
  CutTolerance,  \* how far a cut moves to fall on a gap
  MaxChanges     \* bound: hours taken or given back

ScreensAssumption ==
  /\ LastHour \in Nat /\ Rows \in Nat /\ Rows > 3 /\ MaxNext \in Nat /\ MinNext \in Nat /\ CutTolerance \in Nat

VARIABLES
  free,      \* the hours somebody has free
  session,   \* what the session remembers of the step: [range, offset]
  screen,    \* the screen in the chat: [prompt, kind, hours, next, ranges, more, extra]
  seen,      \* the hours shown since the list began
  same,      \* is it still the list that was begun?
  changes

vars == <<free, session, screen, seen, same, changes>>

-----------------------------------------------------------------------------
(* Ranges *)

SmallerOf(a, b) == IF a < b THEN a ELSE b
LargerOf(a, b) == IF a < b THEN b ELSE a
Ceil(n, d) == (n + d - 1) \div d
Round(n, d) == (2 * n + d) \div (2 * d)

\* The items of s in those places, as they come.
Where(s, places) ==
  LET kept[i \in 0 .. Len(s)] ==
        IF i = 0 THEN <<>> ELSE IF i \in places THEN Append(kept[i - 1], s[i]) ELSE kept[i - 1]
  IN kept[Len(s)]

\* The slices of s that end at each of ends; one that would be empty is no slice.
Slices(s, ends) ==
  LET slices == [k \in DOMAIN ends |-> SubSeq(s, IF k = 1 THEN 1 ELSE ends[k - 1] + 1, ends[k])]
  IN Where(slices, {k \in DOMAIN ends : slices[k] # <<>>})

Gap(s, i) == s[i + 1] - s[i]
Gaps(s) == [i \in 1 .. Len(s) - 1 |-> Gap(s, i)]

\* The day breaks where a gap is twice the usual one.
Median(gaps) == SortSeq(gaps, <)[(Len(gaps) \div 2) + 1]
Breaks(s) == {i \in DOMAIN s : i = Len(s) \/ Gap(s, i) >= 2 * Median(Gaps(s))}
SplitByDayGaps(s) == IF Len(s) < 3 THEN <<s>> ELSE Slices(s, Where([i \in DOMAIN s |-> i], Breaks(s)))

\* The k-th cut leaves pieces alike, moved a little onto a gap, but never so far that a piece or
\* what is left of the day no longer fits.
NextCut(s, parts, capacity, k, previous) ==
  LET ideal == Round(k * Len(s), parts)
      left  == parts - k
      lo    == LargerOf(previous + 1, LargerOf(ideal - CutTolerance, Len(s) - left * capacity))
      hi    == SmallerOf(previous + capacity, SmallerOf(Len(s) - left, ideal + CutTolerance))
      Off(i) == LargerOf(i - ideal, ideal - i)
  IN IF lo > hi THEN LargerOf(1, SmallerOf(previous + capacity, Len(s) - left))
     ELSE CHOOSE i \in lo .. hi : \A j \in lo .. hi \ {i} :
            \/ Gap(s, i) > Gap(s, j)
            \/ Gap(s, i) = Gap(s, j) /\ (Off(i) < Off(j) \/ (Off(i) = Off(j) /\ i < j))

ChooseCuts(s, parts, capacity) ==
  LET cut[k \in 0 .. parts - 1] == IF k = 0 THEN 0 ELSE NextCut(s, parts, capacity, k, cut[k - 1])
  IN [k \in 1 .. parts - 1 |-> cut[k]]

SplitByCount(s, capacity) ==
  LET parts == LargerOf(1, Ceil(Len(s), capacity))
  IN IF parts = 1 THEN <<s>> ELSE Slices(s, Append(ChooseCuts(s, parts, capacity), Len(s)))

\* The smallest two neighbours become one.
MergeOnce(ranges) ==
  LET Both(i) == Len(ranges[i]) + Len(ranges[i + 1])
      best == CHOOSE i \in 1 .. Len(ranges) - 1 : \A j \in 1 .. Len(ranges) - 1 : Both(i) < Both(j) \/ (Both(i) = Both(j) /\ i <= j)
  IN SubSeq(ranges, 1, best - 1) \o <<ranges[best] \o ranges[best + 1]>> \o SubSeq(ranges, best + 2, Len(ranges))
MergeUntil(ranges, maxRanges) ==
  LET merged[n \in 0 .. Len(ranges) - maxRanges] == IF n = 0 THEN ranges ELSE MergeOnce(merged[n - 1])
  IN IF Len(ranges) <= maxRanges THEN ranges ELSE merged[Len(ranges) - maxRanges]

EachSplit(pieces, capacity) == [k \in DOMAIN pieces |-> SplitByCount(pieces[k], capacity)]
SplitIntoRanges(s, capacity, maxRanges) ==
  IF s = <<>> THEN <<>> ELSE MergeUntil(FlattenSeq(EachSplit(SplitByDayGaps(s), capacity)), maxRanges)

\* The plan with most loose hours of those whose ranges fit; none of them loose, however long
\* the ranges, if no plan does.
Chosen(plans, capacity) ==
  LET fitting == {p \in plans : \A k \in DOMAIN p.ranges : Len(p.ranges[k]) <= capacity}
  IN IF fitting = {} THEN CHOOSE p \in plans : p.next = <<>>
     ELSE CHOOSE p \in fitting : \A q \in fitting : Len(q.next) <= Len(p.next)

PlanSlotScreen(s, screenRows, rangeCapacity) ==
  LET loose == {n \in (MinNext .. SmallerOf(MaxNext, Len(s))) \cup {0} : n < screenRows}
      Plan(n) == [kind |-> "grouped", next |-> SubSeq(s, 1, n),
                  ranges |-> SplitIntoRanges(SubSeq(s, n + 1, Len(s)), rangeCapacity, screenRows - n)]
  IN IF Len(s) < 2 * screenRows THEN [kind |-> "all", next |-> <<>>, ranges |-> <<>>]
     ELSE Chosen({Plan(n) : n \in loose}, rangeCapacity)

-----------------------------------------------------------------------------
(* Pages *)

\* An offset out of range is of a list that has shrunk: back to its beginning.
ComputeOptionWindow(total, offset, reserved) ==
  LET from   == IF offset > 0 /\ offset < total THEN offset ELSE 0
      budget == LargerOf(1, Rows - reserved)
      to     == from + LargerOf(1, budget - 1)
  IN CASE total = 0 -> [start |-> 0, end |-> 0, more |-> FALSE]
       [] total > 0 /\ total - from <= budget -> [start |-> from, end |-> total, more |-> FALSE]
       [] OTHER -> [start |-> from, end |-> to, more |-> to < total]

Cancel == 1           \* the row every screen reserves
NoExtraOption == 0    \* mutant: the jump forgets the row the step adds
ExtraOptionCount == 1 \* "other days", or "other hours" inside a range

Shown(kind, hours, next, ranges, more, extra) ==
  [prompt |-> "ASK_SLOT", kind |-> kind, hours |-> hours, next |-> next, ranges |-> ranges, more |-> more, extra |-> extra]

\* extra is the rows the screen adds to the hours, besides the one that cancels.
Paginate(content, offset, extra) ==
  LET w == ComputeOptionWindow(Len(content), offset, Cancel + extra)
  IN Shown("hours", SubSeq(content, w.start + 1, w.end), <<>>, <<>>, w.more, extra)

\* By instant and not by place: the ranges may have been worked out again.
InChosenRange(range, hours) == Where(hours, {i \in DOMAIN hours : hours[i] >= range[1] /\ hours[i] <= range[2]})
RangeOption(hours) == <<hours[1], Last(hours)>>

Hours(f) == Where([t \in 1 .. LastHour |-> t], f)
NoRange == <<>>

\* Both kinds of screen of a day keep a row for "other days".
DayScreen(hours, plan, offset) ==
  IF plan.kind = "all" THEN Paginate(hours, offset, 1)
  ELSE Shown("grouped", <<>>, plan.next, [k \in DOMAIN plan.ranges |-> RangeOption(plan.ranges[k])], FALSE, 1)

\* A range that filled up while it was looked at sends back to the day, on the same page.
AskSlot(hours, s) ==
  LET room   == Rows - Cancel - 1
      chosen == IF s.range = NoRange THEN <<>> ELSE InChosenRange(s.range, hours)
  IN CASE hours = <<>> -> [row |-> s, screen |-> Shown("none", <<>>, <<>>, <<>>, FALSE, 1)]
       [] chosen # <<>> -> [row |-> s, screen |-> Paginate(chosen, s.offset, 1)]
       [] OTHER -> [row |-> [s EXCEPT !.range = NoRange],
                    screen |-> DayScreen(hours, PlanSlotScreen(hours, room, room), s.offset)]

-----------------------------------------------------------------------------
(* What is sent *)

\* In the order of the options; the value of a row is its id, the same in the whole screen.
Options(scr) ==
  [k \in DOMAIN scr.hours |-> <<"hour", scr.hours[k]>>]
  \o [k \in DOMAIN scr.next |-> <<"hour", scr.next[k]>>]
  \o [k \in DOMAIN scr.ranges |-> <<"range", scr.ranges[k][1], scr.ranges[k][2]>>]
  \o (IF scr.more THEN <<<<"more">>>> ELSE <<>>)
  \o (IF scr.extra > 0 THEN <<<<"other">>>> ELSE <<>>)
  \o <<<<"cancel">>>>

Text == [component |-> "text"]
List(rows) == IF rows = <<>> THEN Text ELSE [component |-> "list", rows |-> rows]

\* The notice and the list are messages of their own.
PlanBookingPrompt(scr) ==
  IF scr.prompt = "ASK_SLOT" THEN <<List(Options(scr))>> ELSE <<Text, List(Options(scr))>>

\* A list WhatsApp would refuse is an error before it leaves.
BuildListPayload(rows) == Len(rows) \in 1 .. Rows /\ IsInjective(rows)
Send(plan) == plan.component = "list" => BuildListPayload(plan.rows)

\* An error stops what is left of the screen.
Render(scr) ==
  LET plans == PlanBookingPrompt(scr)
      sent  == {k \in DOMAIN plans : \A j \in 1 .. k : Send(plans[j])}
  IN SubSeq(plans, 1, Cardinality(sent))

-----------------------------------------------------------------------------

Fresh == [range |-> NoRange, offset |-> 0]
Listed == {screen'.hours[k] : k \in DOMAIN screen'.hours}

\* A list begins on its first page, and goes on with the pages after it.
Show(s, prompt, begins) ==
  \E r \in {AskSlot(Hours(free), s)} :
     /\ session' = r.row /\ screen' = [r.screen EXCEPT !.prompt = prompt]
     /\ same' = (begins \/ same)
     /\ seen' = IF begins THEN Listed ELSE IF same THEN seen \cup Listed ELSE {}
     /\ UNCHANGED <<free, changes>>

Init ==
  /\ free \in SUBSET (1 .. LastHour) /\ changes = 0
  /\ session = Fresh /\ screen = AskSlot(Hours(free), Fresh).screen
  /\ same = TRUE /\ seen = {screen.hours[k] : k \in DOMAIN screen.hours}

\* "See more": from where the page that was shown ended, of the hours of the whole day.
NextPage ==
  /\ screen.more
  /\ LET w == ComputeOptionWindow(Cardinality(free), session.offset, Cancel + ExtraOptionCount)
     IN Show([session EXCEPT !.offset = IF w.more THEN w.end ELSE 0], "ASK_SLOT", FALSE)

ChooseRange ==
  /\ screen.kind = "grouped"
  /\ \E k \in DOMAIN screen.ranges : Show([range |-> screen.ranges[k], offset |-> 0], "ASK_SLOT", TRUE)

AllTimes == session.range # NoRange /\ screen.kind = "hours" /\ Show(Fresh, "ASK_SLOT", TRUE)

\* Another day and back: the step changed, and with it the page.
OtherDays == (session # Fresh \/ ~same) /\ Show(Fresh, "ASK_SLOT", TRUE)

\* The hour chosen was taken: the whole day is listed, the range still noted.
SlotTaken ==
  /\ \E k \in DOMAIN screen.hours : screen.hours[k] \notin free
  /\ session' = [session EXCEPT !.offset = 0]
  /\ screen' = [Paginate(Hours(free), 0, 0) EXCEPT !.prompt = "SLOT_TAKEN"]
  /\ same' = FALSE /\ seen' = {}
  /\ UNCHANGED <<free, changes>>

\* A text is not read: the step is sent again, on the page it was.
FreeText == screen.prompt # "FROZEN" /\ Show(session, "FROZEN", FALSE)

\* Meanwhile, somebody books an hour or gives one back.
Change ==
  /\ changes < MaxChanges /\ changes' = changes + 1
  /\ \E t \in 1 .. LastHour : free' = IF t \in free THEN free \ {t} ELSE free \cup {t}
  /\ same' = FALSE /\ seen' = {} /\ UNCHANGED <<session, screen>>

Next == NextPage \/ ChooseRange \/ AllTimes \/ OtherDays \/ SlotTaken \/ FreeText \/ Change

Spec == Init /\ [][Next]_vars

-----------------------------------------------------------------------------
(* Properties *)

InSome(t) == {k \in DOMAIN screen.ranges : screen.ranges[k][1] <= t /\ t <= screen.ranges[k][2]}
LooseHours == {screen.next[k] : k \in DOMAIN screen.next}
ListOf(range) == IF range = NoRange THEN free ELSE {t \in free : range[1] <= t /\ t <= range[2]}

\* Every hour of the day is offered: no list of a screen is one WhatsApp refuses; the ranges hold
\* each hour in one of them or loose, never in both; and who pages through a list to its end,
\* while the agenda stands still, has seen all of it (slot-ranges.ts:38-44,
\* booking-flow.service.ts:1389-1397, outgoing-message.builder.ts:375-399).
EveryTimeOffered ==
  /\ Render(screen) = PlanBookingPrompt(screen)
  /\ screen.kind = "grouped" /\ same =>
       /\ \A t \in free : Cardinality(InSome(t)) + (IF t \in LooseHours THEN 1 ELSE 0) = 1
       /\ \A k \in DOMAIN screen.ranges : screen.ranges[k][1] \in free /\ screen.ranges[k][2] \in free
  /\ screen.kind = "hours" /\ ~screen.more /\ same => seen = ListOf(session.range)
====

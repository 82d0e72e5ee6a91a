---- MODULE AlertsProofs ----
(***************************************************************************)
(* Theorems about StaffAlerts: for any team, any bookings and any number   *)
(* of flushes over the same rows, whatever crashes or is lost, nobody is   *)
(* told the same fact twice.                                               *)
(***************************************************************************)
EXTENDS StaffAlerts, FiniteSetTheorems, SequenceTheorems, TLAPS

Facts == {Key(e, s) : e \in Events, s \in Staffed(UNION Plans)}
Notification == [key : Facts, st : States, old : BOOLEAN, told : Nat]

\* What is written is of the bookings there may be.
RowsTyped ==
  /\ rows \in Seq(Notification)
  /\ segs \in Plans \cup {{}}
  /\ status = "deleted" => rows = <<>>

Fields == {"pc", "todo", "deleting"}
FlushesTyped ==
  /\ fs = [f \in Flushers |-> fs[f]]
  /\ \A f \in Flushers : DOMAIN fs[f] = Fields

\* Nothing that waits was ever told.
WaitingIsUntold == \A i \in DOMAIN rows : rows[i].told = 0 \/ (rows[i].told = 1 /\ rows[i].st # "PENDING")

\* A flush sends a row that is no longer there, or one that it took and that nobody told.
Holds(f, i) == fs[f].pc = "send" /\ Head1(f).row = i
HandsUntold ==
  \A f \in Flushers : fs[f].pc = "send" =>
    LET i == Head1(f).row IN
    \/ status = "deleted"
    \/ i \in DOMAIN rows /\ rows[i].st # "PENDING" /\ rows[i].told = 0

\* No two flushes have the same row in hand: the claim is conditional.
OneHandEach ==
  status # "deleted" => \A f, g \in Flushers : \A i : Holds(f, i) /\ Holds(g, i) => f = g

AlertsInv == RowsTyped /\ FlushesTyped /\ WaitingIsUntold /\ HandsUntold /\ OneHandEach

-----------------------------------------------------------------------------
(* The rows that a change writes *)

\* The image of a finite set under a function is finite, and no larger.
LEMMA ImageFinite ==
  ASSUME NEW S, IsFiniteSet(S), NEW f, DOMAIN f = S
  PROVE  IsFiniteSet({f[x] : x \in S}) /\ Cardinality({f[x] : x \in S}) <= Cardinality(S)
<1> DEFINE g == [x \in S |-> f[x]]
<1>1. g \in Surjection(S, {f[x] : x \in S})
  BY DEF Surjection
<1> QED BY <1>1, FS_Surjection

\* The rows of a finite set are inserted as a list of all of them.
LEMMA ListOfSet ==
  ASSUME NEW S, IsFiniteSet(S)
  PROVE  /\ SetToSeq(S) \in Seq(S)
         /\ DOMAIN SetToSeq(S) = 1 .. Len(SetToSeq(S))
         /\ Len(SetToSeq(S)) = Cardinality(S)
         /\ \A x \in S : \E i \in DOMAIN SetToSeq(S) : SetToSeq(S)[i] = x
<1>1. Cardinality(S) \in Nat /\ ExistsBijection(1 .. Cardinality(S), S)
  BY FS_CardinalityType
<1>2. PICK g \in Bijection(1 .. Cardinality(S), S) : TRUE
  BY <1>1 DEF ExistsBijection
<1>3. g \in [1 .. Cardinality(S) -> S] /\ IsInjective(g)
  BY <1>2 DEF Bijection, Injection
<1>4. SetToSeq(S) \in [1 .. Cardinality(S) -> S] /\ IsInjective(SetToSeq(S))
  BY <1>3 DEF SetToSeq
<1>5. SetToSeq(S) \in Injection(1 .. Cardinality(S), S)
  BY <1>4 DEF Injection, IsInjective
<1>6. IsFiniteSet(1 .. Cardinality(S)) /\ Cardinality(1 .. Cardinality(S)) = Cardinality(S)
  BY <1>1, FS_Interval
<1>7. SetToSeq(S) \in Surjection(1 .. Cardinality(S), S)
  BY <1>5, <1>6, FS_Injection
<1> QED BY <1>1, <1>4, <1>7 DEF Surjection

\* A finite set of segments gives a finite set of facts.
LEMMA KeysFinite ==
  ASSUME NEW S, IsFiniteSet(S), NEW e
  PROVE  IsFiniteSet({Key(e, s) : s \in S}) /\ Cardinality({Key(e, s) : s \in S}) <= Cardinality(S)
<1> DEFINE f == [s \in S |-> Key(e, s)]
<1>1. IsFiniteSet({f[s] : s \in S}) /\ Cardinality({f[s] : s \in S}) <= Cardinality(S)
  BY ImageFinite
<1>2. {f[s] : s \in S} = {Key(e, s) : s \in S}
  OBVIOUS
<1> QED BY <1>1, <1>2

\* How many of a booking's segments have a professional.
LEMMA SegmentsCount ==
  ASSUME AlertsAssumption, NEW plan \in Plans \cup {{}}
  PROVE  IsFiniteSet(Staffed(plan)) /\ Cardinality(Staffed(plan)) <= MaxSegments
<1>1. CASE plan = {}
  BY <1>1, FS_EmptySet DEF AlertsAssumption, Staffed
<1>2. CASE plan \in Plans
  <2>1. Staffed(plan) \in SUBSET plan /\ IsFiniteSet(plan)
    BY <1>2 DEF AlertsAssumption, Staffed
  <2> QED BY <1>2, <2>1, FS_Subset DEF AlertsAssumption, Staffed
<1> QED BY <1>1, <1>2

\* Two finite sets together.
LEMMA AtMostBoth ==
  ASSUME NEW S, IsFiniteSet(S), NEW T, IsFiniteSet(T)
  PROVE  IsFiniteSet(S \cup T) /\ Cardinality(S \cup T) <= Cardinality(S) + Cardinality(T)
<1>1. IsFiniteSet(S \cup T) /\ Cardinality(S \cup T) = Cardinality(S) + Cardinality(T) - Cardinality(S \cap T)
  BY FS_Union
<1>2. IsFiniteSet(S \cap T) /\ Cardinality(S \cap T) \in Nat /\ Cardinality(S) \in Nat /\ Cardinality(T) \in Nat
  BY FS_Intersection, FS_CardinalityType
<1> QED BY <1>1, <1>2

\* So does any part of a booking.
LEMMA KeysOfPart ==
  ASSUME AlertsAssumption, NEW plan \in Plans \cup {{}}, NEW part \in SUBSET Staffed(plan), NEW e \in Events
  PROVE  /\ IsFiniteSet({Key(e, s) : s \in part})
         /\ {Key(e, s) : s \in part} \subseteq Facts
         /\ Cardinality({Key(e, s) : s \in part}) <= MaxSegments
<1>2. IsFiniteSet(Staffed(plan)) /\ Cardinality(Staffed(plan)) <= MaxSegments
  BY SegmentsCount
<1>3. IsFiniteSet(part) /\ Cardinality(part) <= Cardinality(Staffed(plan))
  BY <1>2, FS_Subset
<1>4. IsFiniteSet({Key(e, s) : s \in part}) /\ Cardinality({Key(e, s) : s \in part}) <= Cardinality(part)
  BY <1>3, KeysFinite
<1>5. part \subseteq Staffed(UNION Plans)
  BY DEF Staffed
<1>6. /\ Cardinality({Key(e, s) : s \in part}) \in Nat /\ Cardinality(part) \in Nat
      /\ Cardinality(Staffed(plan)) \in Nat /\ MaxSegments \in Nat
  BY <1>2, <1>3, <1>4, FS_CardinalityType DEF AlertsAssumption
<1>7. Cardinality({Key(e, s) : s \in part}) <= MaxSegments
  BY <1>2, <1>3, <1>4, <1>6
<1>8. {Key(e, s) : s \in part} \subseteq Facts
  <2> SUFFICES ASSUME NEW s \in part PROVE Key(e, s) \in Facts
    OBVIOUS
  <2>1. s \in Staffed(UNION Plans)
    BY <1>5
  <2> QED BY <2>1 DEF Facts
<1> QED BY <1>4, <1>7, <1>8

\* What there is to tell of a change of bookings.
LEMMA KeysOfEdit ==
  ASSUME AlertsAssumption, NEW before \in Plans \cup {{}}, NEW after \in Plans \cup {{}}
  PROVE  /\ IsFiniteSet(PlanEdited(before, after)) /\ PlanEdited(before, after) \subseteq Facts
         /\ Cardinality(PlanEdited(before, after)) <= 2 * MaxSegments
<1> DEFINE new == {s \in Staffed(after) : ~Within(s, before)}
           moved == {s \in Staffed(after) : \E t \in Staffed(before) : Same(s, t) /\ t.start # s.start}
           lost == {s \in Staffed(before) : ~Within(s, after)}
<1>1. new \in SUBSET Staffed(after) /\ moved \in SUBSET Staffed(after) /\ lost \in SUBSET Staffed(before)
  OBVIOUS
<1>2. "CREATED" \in Events /\ "RESCHEDULED" \in Events /\ "CANCELLED" \in Events
  BY DEF Events
<1> DEFINE news == {Key("CREATED", s) : s \in new}
           moves == {Key("RESCHEDULED", s) : s \in moved}
           losses == {Key("CANCELLED", s) : s \in lost}
<1>6. new \cap moved = {}
  BY DEF Within
<1> HIDE DEF new, moved, lost
<1>3. /\ IsFiniteSet(news) /\ news \subseteq Facts
      /\ IsFiniteSet(moves) /\ moves \subseteq Facts
      /\ IsFiniteSet(losses) /\ losses \subseteq Facts
  BY <1>1, <1>2, KeysOfPart
<1>4. PlanEdited(before, after) = (news \cup moves) \cup losses
  BY DEF PlanEdited, new, moved, lost
<1>7. IsFiniteSet(new) /\ IsFiniteSet(moved) /\ Cardinality(new) + Cardinality(moved) <= MaxSegments
  <2>1. IsFiniteSet(Staffed(after)) /\ Cardinality(Staffed(after)) <= MaxSegments
    BY SegmentsCount
  <2>2. IsFiniteSet(new) /\ IsFiniteSet(moved)
    BY <1>1, <2>1, FS_Subset
  <2>3. IsFiniteSet(new \cup moved) /\ Cardinality(new \cup moved) = Cardinality(new) + Cardinality(moved)
    <3>1. /\ IsFiniteSet(new \cup moved)
          /\ Cardinality(new \cup moved) = Cardinality(new) + Cardinality(moved) - Cardinality(new \cap moved)
      BY <2>2, FS_Union
    <3>2. Cardinality(new \cap moved) = 0
      BY <1>6, FS_EmptySet
    <3>3. Cardinality(new) \in Nat /\ Cardinality(moved) \in Nat
      BY <2>2, FS_CardinalityType
    <3> QED BY <3>1, <3>2, <3>3
  <2>4. (new \cup moved) \in SUBSET Staffed(after)
    BY <1>1
  <2>5. Cardinality(new \cup moved) <= Cardinality(Staffed(after))
    BY <2>1, <2>4, FS_Subset
  <2>6. Cardinality(new) \in Nat /\ Cardinality(moved) \in Nat /\ Cardinality(Staffed(after)) \in Nat /\ MaxSegments \in Nat
    BY <2>1, <2>2, FS_CardinalityType DEF AlertsAssumption
  <2> QED BY <2>1, <2>2, <2>3, <2>5, <2>6
<1>8. Cardinality(news) <= Cardinality(new) /\ Cardinality(moves) <= Cardinality(moved) /\ Cardinality(losses) <= MaxSegments
  BY <1>1, <1>2, <1>7, KeysFinite, KeysOfPart
<1> HIDE DEF news, moves, losses
<1>5. /\ IsFiniteSet(news \cup moves) /\ IsFiniteSet((news \cup moves) \cup losses)
      /\ Cardinality(news \cup moves) <= Cardinality(news) + Cardinality(moves)
      /\ Cardinality((news \cup moves) \cup losses) <= Cardinality(news \cup moves) + Cardinality(losses)
  BY <1>3, AtMostBoth
<1>9. /\ Cardinality(new) \in Nat /\ Cardinality(moved) \in Nat /\ Cardinality(news) \in Nat /\ Cardinality(moves) \in Nat
      /\ Cardinality(losses) \in Nat /\ Cardinality(news \cup moves) \in Nat /\ MaxSegments \in Nat
      /\ Cardinality((news \cup moves) \cup losses) \in Nat
  BY <1>3, <1>5, <1>7, FS_CardinalityType DEF AlertsAssumption
<1>10. Cardinality((news \cup moves) \cup losses) <= 2 * MaxSegments
  BY <1>5, <1>7, <1>8, <1>9
<1> QED BY <1>3, <1>4, <1>5, <1>10

\* Inserting facts adds rows behind the others, that nobody was told of.
LEMMA EnqueuedAdds ==
  ASSUME RowsTyped, NEW keys, IsFiniteSet(keys), keys \subseteq Facts, rows' = Enqueued(keys)
  PROVE  /\ rows' \in Seq(Notification)
         /\ DOMAIN rows \subseteq DOMAIN rows'
         /\ Len(rows') <= Len(rows) + Cardinality(keys)
         /\ \A i \in DOMAIN rows' : IF i \in DOMAIN rows THEN rows'[i] = rows[i] ELSE rows'[i].told = 0
<1> DEFINE new == keys \ Keys
           f == [k \in new |-> Row(k)]
           fresh == {Row(k) : k \in new}
           list == SetToSeq(fresh)
<1>1. IsFiniteSet(new)
  BY FS_Subset
<1>2. IsFiniteSet({f[k] : k \in new}) /\ fresh = {f[k] : k \in new}
  BY <1>1, ImageFinite
<1>3. IsFiniteSet(fresh)
  BY <1>2
<1>4. \A r \in fresh : r \in Notification /\ r.told = 0
  <2> SUFFICES ASSUME NEW k \in new PROVE Row(k) \in Notification /\ Row(k).told = 0
    OBVIOUS
  <2> QED BY DEF Row, Notification, States
<1>5. rows' = rows \o list
  BY DEF Enqueued
<1> HIDE DEF fresh
<1>6. list \in Seq(fresh) /\ DOMAIN list = 1 .. Len(list)
  BY <1>3, ListOfSet
<1> HIDE DEF list
<1>7. rows \in Seq(Notification) /\ list \in Seq(Notification)
  BY <1>4, <1>6 DEF RowsTyped
<1>8. /\ DOMAIN rows = 1 .. Len(rows) /\ Len(rows) \in Nat
      /\ DOMAIN rows' = 1 .. Len(rows) + Len(list) /\ Len(list) \in Nat
  BY <1>5, <1>7
<1>9. ASSUME NEW i \in DOMAIN rows', i \notin DOMAIN rows PROVE rows'[i].told = 0
  <2>1. i - Len(rows) \in 1 .. Len(list) /\ rows'[i] = list[i - Len(rows)]
    BY <1>5, <1>7, <1>8, <1>9
  <2> QED BY <1>4, <1>6, <2>1
<1>10. \A i \in DOMAIN rows : rows'[i] = rows[i]
  BY <1>5, <1>7, <1>8
<1>11. rows' \in Seq(Notification)
  BY <1>5, <1>7
<1>12. Len(rows') <= Len(rows) + Cardinality(keys)
  <2>1. Cardinality(fresh) <= Cardinality(new) /\ Cardinality(new) <= Cardinality(keys) /\ Len(list) = Cardinality(fresh)
    <3>1. Cardinality(fresh) <= Cardinality(new)
      BY <1>1, <1>2, ImageFinite
    <3>2. Cardinality(new) <= Cardinality(keys)
      <4>1. new \in SUBSET keys
        OBVIOUS
      <4> QED BY <4>1, FS_Subset
    <3>3. Len(list) = Cardinality(fresh)
      BY <1>3, ListOfSet DEF list
    <3> QED BY <3>1, <3>2, <3>3
  <2>2. Cardinality(fresh) \in Nat /\ Cardinality(new) \in Nat /\ Cardinality(keys) \in Nat
    BY <1>1, <1>3, FS_CardinalityType
  <2>3. Len(rows') = Len(rows) + Len(list)
    BY <1>5, <1>7
  <2> QED BY <1>8, <2>1, <2>2, <2>3
<1> QED BY <1>8, <1>9, <1>10, <1>11, <1>12

-----------------------------------------------------------------------------
(* The steps *)

\* A step that takes no row and tells none: rows keep what was told and do not wait again, and
\* no flush gets to send.
Harmless ==
  /\ status = "deleted" => status' = "deleted"
  /\ status' # "deleted" => DOMAIN rows \subseteq DOMAIN rows'
  /\ \A i \in DOMAIN rows' :
       IF i \in DOMAIN rows THEN rows'[i].told = rows[i].told /\ (rows'[i].st = "PENDING" => rows[i].st = "PENDING")
       ELSE rows'[i].told = 0
  /\ \A f \in Flushers : fs'[f].pc = "send" => fs'[f] = fs[f]

\* A harmless step keeps the whole invariant: most actions are one.
LEMMA HarmlessKeeps ==
  ASSUME AlertsInv, Harmless, RowsTyped', FlushesTyped'
  PROVE  AlertsInv'
<1>1. WaitingIsUntold'
  <2> SUFFICES ASSUME NEW i \in DOMAIN rows'
               PROVE  rows'[i].told = 0 \/ (rows'[i].told = 1 /\ rows'[i].st # "PENDING")
    BY DEF WaitingIsUntold
  <2> QED BY DEF AlertsInv, WaitingIsUntold, Harmless
<1>2. HandsUntold'
  <2> SUFFICES ASSUME NEW f \in Flushers, fs'[f].pc = "send", status' # "deleted"
               PROVE  LET i == Head(fs'[f].todo).row IN
                      i \in DOMAIN rows' /\ rows'[i].st # "PENDING" /\ rows'[i].told = 0
    BY DEF HandsUntold, Head1
  <2> QED BY DEF AlertsInv, HandsUntold, Head1, Harmless
<1>3. OneHandEach'
  <2> SUFFICES ASSUME status' # "deleted", NEW f \in Flushers, NEW g \in Flushers, NEW i,
                      Holds(f, i)', Holds(g, i)'
               PROVE  f = g
    BY DEF OneHandEach
  <2> QED BY DEF AlertsInv, OneHandEach, Holds, Head1, Harmless
<1> QED BY <1>1, <1>2, <1>3 DEF AlertsInv

\* What a flush holds is replaced by what it holds next.
LEMMA FlushMoves ==
  ASSUME FlushesTyped, NEW f \in Flushers, NEW m, Goto(f, m),
         DOMAIN m = Fields
  PROVE  FlushesTyped' /\ fs'[f] = m /\ \A g \in Flushers : g # f => fs'[g] = fs[g]
BY DEF FlushesTyped, Goto

\* After a row a flush does not send: it looks at the next one, or ends.
LEMMA PopMoves ==
  ASSUME FlushesTyped, NEW f \in Flushers, Pop(f)
  PROVE  FlushesTyped' /\ \A g \in Flushers : fs'[g].pc = "send" => fs'[g] = fs[g]
<1> DEFINE m == IF Len(fs[f].todo) > 1 \/ fs[f].deleting
                THEN [fs[f] EXCEPT !.pc = "loop", !.todo = Tail(@)] ELSE Idle
<1>1. DOMAIN m = Fields /\ m.pc # "send"
  <2>1. DOMAIN Idle = Fields /\ Idle.pc # "send"
    BY DEF Idle, Fields
  <2>2. CASE m = Idle
    BY <2>1, <2>2
  <2>3. CASE m = [fs[f] EXCEPT !.pc = "loop", !.todo = Tail(@)]
    <3>1. DOMAIN fs[f] = Fields
      BY DEF FlushesTyped
    <3> QED BY <2>3, <3>1 DEF Fields
  <2> QED BY <2>2, <2>3
<1>2. Goto(f, m)
  BY DEF Pop
<1> HIDE DEF m
<1> QED BY <1>1, <1>2, FlushMoves

\* Marking a row, if it is still there, neither tells it nor makes it wait.
LEMMA UpdatedKeeps ==
  ASSUME RowsTyped, NEW i, NEW st \in States \ {"PENDING"}, rows' = Updated(i, st)
  PROVE  /\ rows' \in Seq(Notification)
         /\ DOMAIN rows' = DOMAIN rows
         /\ \A j \in DOMAIN rows : /\ rows'[j].told = rows[j].told
                                   /\ rows'[j].st = "PENDING" => rows[j].st = "PENDING"
                                   /\ j # i => rows'[j] = rows[j]
                                   /\ j = i => rows'[j].st = st
                                   /\ rows'[j].key = rows[j].key
         /\ rows = <<>> => rows' = <<>>
<1>1. rows \in Seq(Notification)
  BY DEF RowsTyped
<1>2. CASE i \notin DOMAIN rows
  BY <1>1, <1>2 DEF Updated
<1>3. CASE i \in DOMAIN rows
  <2>1. rows[i] \in Notification
    BY <1>1, <1>3
  <2> DEFINE r == [rows[i] EXCEPT !.st = st, !.old = FALSE]
  <2>2. r \in Notification /\ r.told = rows[i].told /\ r.st = st /\ r.key = rows[i].key
    BY <2>1 DEF Notification
  <2>3. rows' = [rows EXCEPT ![i] = r]
    BY <1>1, <1>3, <2>1 DEF Updated, Notification
  <2> HIDE DEF r
  <2> QED BY <1>1, <1>3, <2>2, <2>3
<1> QED BY <1>2, <1>3

\* Every step keeps the invariant.
LEMMA AlertsNext ==
  ASSUME AlertsAssumption, AlertsInv, Next
  PROVE  AlertsInv'
<1>1. RowsTyped /\ FlushesTyped
  BY DEF AlertsInv
<1> USE <1>1
<1>2. ASSUME NEW keys, IsFiniteSet(keys), keys \subseteq Facts, Enqueue(keys),
             status # "deleted", status' # "deleted", segs' \in Plans \cup {{}}, FlushesTyped',
             \A f \in Flushers : fs'[f].pc = "send" => fs'[f] = fs[f]
      PROVE  AlertsInv'
  <2>1. CASE rows' = Enqueued(keys)
    <3>1. /\ rows' \in Seq(Notification)
          /\ DOMAIN rows \subseteq DOMAIN rows'
          /\ \A i \in DOMAIN rows' : IF i \in DOMAIN rows THEN rows'[i] = rows[i] ELSE rows'[i].told = 0
      BY <1>2, <2>1, EnqueuedAdds
    <3>2. RowsTyped' /\ Harmless
      BY <1>2, <3>1 DEF RowsTyped, Harmless
    <3> QED BY <1>2, <3>2, HarmlessKeeps
  <2>2. CASE rows' = rows
    <3>1. RowsTyped' /\ Harmless
      BY <1>2, <2>2 DEF RowsTyped, Harmless
    <3> QED BY <1>2, <3>1, HarmlessKeeps
  <2> QED BY <1>2, <2>1, <2>2 DEF Enqueue
<1>3. ASSUME rows' = rows, fs' = fs, status' # "deleted", status # "deleted", segs' \in Plans \cup {{}}
      PROVE  AlertsInv'
  <2>1. RowsTyped' /\ FlushesTyped' /\ Harmless
    BY <1>3 DEF RowsTyped, FlushesTyped, Harmless
  <2> QED BY <2>1, HarmlessKeeps
<1>4. ASSUME rows' = rows, UNCHANGED appointment, FlushesTyped',
             \A f \in Flushers : fs'[f].pc = "send" => fs'[f] = fs[f]
      PROVE  AlertsInv'
  <2>1. RowsTyped' /\ Harmless
    BY <1>4 DEF RowsTyped, Harmless, appointment
  <2> QED BY <1>4, <2>1, HarmlessKeeps
<1>5. CASE Book
  <2>1. PICK plan \in Plans : segs' = plan /\ Enqueue(PlanCreated(plan))
    BY <1>5 DEF Book
  <2>2. IsFiniteSet(PlanCreated(plan)) /\ PlanCreated(plan) \subseteq Facts
    BY KeysOfPart DEF PlanCreated, Events
  <2>3. /\ status # "deleted" /\ status' # "deleted" /\ segs' \in Plans \cup {{}} /\ FlushesTyped'
        /\ \A f \in Flushers : fs'[f].pc = "send" => fs'[f] = fs[f]
    BY <1>5, <2>1 DEF Book, Elsewhere, FlushesTyped
  <2> QED BY <1>2, <2>1, <2>2, <2>3
<1>6. CASE BookPast
  BY <1>3, <1>6 DEF BookPast, Elsewhere
<1>7. CASE Edit
  <2>1. PICK plan \in Plans : segs' = plan /\ Enqueue(PlanEdited(segs, plan))
    BY <1>7 DEF Edit
  <2>2. IsFiniteSet(PlanEdited(segs, plan)) /\ PlanEdited(segs, plan) \subseteq Facts
    BY KeysOfEdit DEF RowsTyped
  <2>3. /\ status # "deleted" /\ status' # "deleted" /\ segs' \in Plans \cup {{}} /\ FlushesTyped'
        /\ \A f \in Flushers : fs'[f].pc = "send" => fs'[f] = fs[f]
    BY <1>7, <2>1 DEF Edit, Elsewhere, FlushesTyped
  <2> QED BY <1>2, <2>1, <2>2, <2>3
<1>8. CASE ChangeStatus
  <2>1. /\ status # "deleted" /\ status' # "deleted" /\ segs' \in Plans \cup {{}} /\ FlushesTyped'
        /\ fs' = fs /\ \A f \in Flushers : fs'[f].pc = "send" => fs'[f] = fs[f]
    BY <1>8 DEF ChangeStatus, Elsewhere, FlushesTyped, RowsTyped
  <2>2. CASE rows' = rows
    BY <1>3, <2>1, <2>2
  <2>3. CASE Enqueue(PlanCancelled(segs))
    <3>1. IsFiniteSet(PlanCancelled(segs)) /\ PlanCancelled(segs) \subseteq Facts
      BY KeysOfPart DEF PlanCancelled, Events, RowsTyped
    <3> QED BY <1>2, <2>1, <2>3, <3>1
  <2>4. CASE Enqueue({})
    BY <1>2, <2>1, <2>4, FS_EmptySet
  <2> QED BY <1>8, <2>2, <2>3, <2>4 DEF ChangeStatus
<1>9. ASSUME NEW f \in Flushers, FindPending(f)
      PROVE  AlertsInv'
  <2>1. PICK todo : Goto(f, [fs[f] EXCEPT !.pc = "loop", !.todo = todo])
    BY <1>9 DEF FindPending
  <2> DEFINE m == [fs[f] EXCEPT !.pc = "loop", !.todo = todo]
  <2>2. Goto(f, m) /\ DOMAIN m = Fields /\ m.pc # "send"
    BY <2>1 DEF FlushesTyped, Fields
  <2> HIDE DEF m
  <2>3. FlushesTyped' /\ \A g \in Flushers : fs'[g].pc = "send" => fs'[g] = fs[g]
    BY <2>2, FlushMoves
  <2> QED BY <1>4, <1>9, <2>3 DEF FindPending
<1>10. ASSUME NEW f \in Flushers, Skip(f)
       PROVE  AlertsInv'
  <2>1. "SKIPPED" \in States \ {"PENDING"} /\ rows' = Updated(Head1(f).row, "SKIPPED")
    BY <1>10 DEF States, Skip
  <2>2. RowsTyped'
    BY <1>10, <2>1, UpdatedKeeps DEF RowsTyped, Skip, appointment
  <2>3. FlushesTyped' /\ Harmless
    BY <1>10, <2>1, UpdatedKeeps, PopMoves DEF Harmless, Skip, appointment
  <2> QED BY <2>2, <2>3, HarmlessKeeps
<1>11. ASSUME NEW f \in Flushers, Mark(f)
       PROVE  AlertsInv'
  <2>1. fs[f].pc \in States \ {"PENDING"} /\ rows' = Updated(Head1(f).row, fs[f].pc)
    BY <1>11 DEF States, Mark
  <2>2. RowsTyped'
    BY <1>11, <2>1, UpdatedKeeps DEF RowsTyped, Mark, appointment
  <2>3. FlushesTyped' /\ Harmless
    BY <1>11, <2>1, UpdatedKeeps, PopMoves DEF Harmless, Mark, appointment
  <2> QED BY <2>2, <2>3, HarmlessKeeps
<1>12. ASSUME NEW f \in Flushers, Wait(f)
       PROVE  AlertsInv'
  BY <1>4, <1>12, PopMoves DEF Wait
<1>13. ASSUME NEW f \in Flushers, Claim(f)
       PROVE  AlertsInv'
  <2> DEFINE i == Head1(f).row
             m == [fs[f] EXCEPT !.pc = "send"]
  <2>1. i \in DOMAIN rows /\ rows[i].st = "PENDING" /\ rows[i].told = 0
    BY <1>13 DEF Claim, Sendable, Claimable, AlertsInv, WaitingIsUntold
  <2>2. "SENDING" \in States \ {"PENDING"} /\ rows' = Updated(i, "SENDING")
    BY <1>13 DEF States, Claim
  <2>3. DOMAIN m = Fields /\ m.pc = "send" /\ m.todo = fs[f].todo
    BY DEF FlushesTyped, Fields
  <2>4. Goto(f, m) /\ UNCHANGED appointment
    BY <1>13 DEF Claim
  <2> HIDE DEF m
  <2>5. FlushesTyped' /\ fs'[f] = m /\ \A g \in Flushers : g # f => fs'[g] = fs[g]
    BY <2>3, <2>4, FlushMoves
  <2>6. Head(fs'[f].todo).row = i
    BY <2>3, <2>5 DEF Head1
  <2>7. status # "deleted" /\ status' = status /\ segs' = segs
    BY <2>1, <2>4 DEF RowsTyped, appointment
  <2> HIDE DEF i
  <2>8. /\ rows' \in Seq(Notification) /\ DOMAIN rows' = DOMAIN rows
        /\ \A j \in DOMAIN rows : /\ rows'[j].told = rows[j].told
                                  /\ rows'[j].st = "PENDING" => rows[j].st = "PENDING"
                                  /\ j = i => rows'[j].st = "SENDING"
    BY <2>2, UpdatedKeeps
  <2>9. RowsTyped'
    BY <2>7, <2>8 DEF RowsTyped
  <2>10. WaitingIsUntold'
    BY <2>8 DEF AlertsInv, WaitingIsUntold
  <2>11. HandsUntold'
    BY <2>1, <2>5, <2>6, <2>7, <2>8 DEF AlertsInv, HandsUntold, Head1
  <2>12. OneHandEach'
    <3>1. \A g \in Flushers : g # f /\ fs[g].pc = "send" => Head(fs[g].todo).row # i
      BY <2>1, <2>7 DEF AlertsInv, HandsUntold, Head1
    <3>2. \A g \in Flushers : g # f /\ fs'[g].pc = "send" => Head(fs'[g].todo).row # i
      BY <2>5, <3>1
    <3> QED BY <2>5, <2>6, <2>7, <3>2 DEF AlertsInv, OneHandEach, Holds, Head1
  <2> QED BY <2>5, <2>9, <2>10, <2>11, <2>12 DEF AlertsInv
<1>14. ASSUME NEW f \in Flushers, Send(f)
       PROVE  AlertsInv'
  <2> DEFINE i == Head1(f).row
  <2>1. PICK answer \in {"SENT", "FAILED"} : Goto(f, [fs[f] EXCEPT !.pc = answer])
    BY <1>14 DEF Send
  <2> DEFINE m == [fs[f] EXCEPT !.pc = answer]
  <2>2. DOMAIN m = Fields /\ m.pc # "send"
    BY DEF FlushesTyped, Fields
  <2>3. Goto(f, m) /\ UNCHANGED appointment /\ fs[f].pc = "send"
    BY <1>14, <2>1 DEF Send
  <2> HIDE DEF m
  <2>4. FlushesTyped' /\ \A g \in Flushers : fs'[g].pc = "send" => g # f /\ fs'[g] = fs[g]
    BY <2>2, <2>3, FlushMoves
  <2>5. rows \in Seq(Notification)
    BY DEF RowsTyped
  <2>6. CASE i \notin DOMAIN rows
    <3>1. rows' = rows
      BY <1>14, <2>6 DEF Send
    <3> QED BY <1>4, <2>3, <2>4, <3>1
  <2>7. CASE i \in DOMAIN rows
    <3> DEFINE r == [rows[i] EXCEPT !.told = @ + 1]
    <3>1. rows[i] \in Notification
      BY <2>5, <2>7
    <3>2. status # "deleted" /\ status' = status /\ segs' = segs
      BY <2>3, <2>7 DEF RowsTyped, appointment
    <3>3. rows[i].st # "PENDING" /\ rows[i].told = 0
      BY <2>3, <3>2 DEF AlertsInv, HandsUntold
    <3>4. r \in Notification /\ r.told = 1 /\ r.st # "PENDING"
      BY <3>1, <3>3 DEF Notification
    <3>5. rows' = [rows EXCEPT ![i] = r]
      BY <1>14, <2>5, <2>7, <3>1 DEF Send, Notification
    <3> HIDE DEF r
    <3>6. /\ rows' \in Seq(Notification) /\ DOMAIN rows' = DOMAIN rows /\ rows'[i] = r
          /\ \A j \in DOMAIN rows : j # i => rows'[j] = rows[j]
      BY <2>5, <2>7, <3>4, <3>5
    <3>7. \A g \in Flushers : g # f /\ fs[g].pc = "send" => Head(fs[g].todo).row # i
      BY <2>3, <3>2 DEF AlertsInv, OneHandEach, Holds, Head1
    <3> HIDE DEF i
    <3>8. RowsTyped'
      BY <3>2, <3>6 DEF RowsTyped
    <3>9. WaitingIsUntold'
      BY <3>4, <3>6 DEF AlertsInv, WaitingIsUntold
    <3>10. HandsUntold'
      BY <2>4, <3>2, <3>6, <3>7 DEF AlertsInv, HandsUntold, Head1
    <3>11. OneHandEach'
      BY <2>4, <3>2 DEF AlertsInv, OneHandEach, Holds, Head1
    <3> QED BY <2>4, <3>8, <3>9, <3>10, <3>11 DEF AlertsInv
  <2> QED BY <2>6, <2>7
<1>15. ASSUME NEW f \in Flushers, Delete(f)
       PROVE  AlertsInv'
  <2> DEFINE part == {s \in segs : s.staff \in Informed}
             gone == {s \in part : s.staff # NoStaff}
  <2>1. PICK pc \in {"find", "loop"} : Goto(f, [Idle EXCEPT !.pc = pc, !.deleting = TRUE])
    BY <1>15 DEF Delete
  <2> DEFINE m == [Idle EXCEPT !.pc = pc, !.deleting = TRUE]
  <2>2. DOMAIN m = Fields /\ m.pc # "send"
    BY DEF Idle, Fields
  <2>3. Goto(f, m)
    BY <2>1
  <2> HIDE DEF m
  <2>8. FlushesTyped' /\ \A g \in Flushers : fs'[g].pc = "send" => fs'[g] = fs[g]
    BY <2>2, <2>3, FlushMoves
  <2>4. gone \in SUBSET Staffed(segs) /\ PlanCancelled(part) = {Key("CANCELLED", s) : s \in gone}
    BY DEF PlanCancelled, Staffed
  <2>5. Enqueue(PlanCancelled(part)) /\ status # "deleted" /\ status' = status /\ segs' = segs
    BY <1>15 DEF Delete
  <2>6. "CANCELLED" \in Events /\ segs \in Plans \cup {{}}
    BY DEF Events, RowsTyped
  <2> HIDE DEF part, gone
  <2>7. IsFiniteSet(PlanCancelled(part)) /\ PlanCancelled(part) \subseteq Facts
    BY <2>4, <2>6, KeysOfPart
  <2> QED BY <1>2, <2>5, <2>6, <2>7, <2>8
<1>16. ASSUME NEW f \in Flushers, DeleteNow(f)
       PROVE  AlertsInv'
  <2>1. DOMAIN Idle = Fields /\ Goto(f, Idle)
    BY <1>16 DEF Idle, Fields, DeleteNow
  <2>2. FlushesTyped' /\ status' = "deleted" /\ segs' = {} /\ rows' = <<>>
    BY <1>16, <2>1, FlushMoves DEF DeleteNow
  <2> QED BY <2>2 DEF AlertsInv, RowsTyped, WaitingIsUntold, HandsUntold, OneHandEach
<1>17. ASSUME NEW f \in Flushers, Crash(f)
       PROVE  AlertsInv'
  <2>1. DOMAIN Idle = Fields /\ Idle.pc # "send"
    BY DEF Idle, Fields
  <2>2. FlushesTyped' /\ \A g \in Flushers : fs'[g].pc = "send" => fs'[g] = fs[g]
    BY <1>17, <2>1, FlushMoves DEF Crash
  <2> QED BY <1>4, <1>17, <2>2 DEF Crash, Around
<1>18. ASSUME rows' = [i \in DOMAIN rows |-> rows'[i]], UNCHANGED <<appointment, fs>>,
              \A i \in DOMAIN rows : /\ rows'[i] \in Notification /\ rows'[i].told = rows[i].told
                                     /\ rows'[i].st = "PENDING" => rows[i].st = "PENDING"
       PROVE  AlertsInv'
  <2>1. rows \in Seq(Notification) /\ DOMAIN rows = 1 .. Len(rows) /\ Len(rows) \in Nat
    BY DEF RowsTyped
  <2>2. rows' \in [1 .. Len(rows) -> Notification]
    BY <1>18, <2>1
  <2>3. rows' \in Seq(Notification) /\ DOMAIN rows' = DOMAIN rows
    BY <2>1, <2>2
  <2>4. rows = <<>> => rows' = <<>>
    BY <1>18
  <2>5. RowsTyped' /\ FlushesTyped' /\ Harmless
    BY <1>18, <2>3, <2>4 DEF RowsTyped, FlushesTyped, Harmless, appointment
  <2> QED BY <2>5, HarmlessKeeps
<1>19. CASE FailStale
  <2>1. ASSUME NEW i \in DOMAIN rows
        PROVE  /\ rows'[i] \in Notification /\ rows'[i].told = rows[i].told
               /\ rows'[i].st = "PENDING" => rows[i].st = "PENDING"
    <3>1. rows[i] \in Notification
      BY DEF RowsTyped
    <3>2. rows'[i] \in {rows[i], [rows[i] EXCEPT !.st = "FAILED", !.old = FALSE]}
      BY <1>19 DEF FailStale
    <3> QED BY <3>1, <3>2 DEF Notification, States
  <2> QED BY <1>18, <1>19, <2>1 DEF FailStale
<1>20. CASE Age
  <2>1. ASSUME NEW i \in DOMAIN rows
        PROVE  /\ rows'[i] \in Notification /\ rows'[i].told = rows[i].told
               /\ rows'[i].st = "PENDING" => rows[i].st = "PENDING"
    <3>1. rows[i] \in Notification
      BY DEF RowsTyped
    <3>2. PICK old \in BOOLEAN : rows'[i] = [rows[i] EXCEPT !.old = old]
      BY <1>20 DEF Age
    <3> QED BY <3>1, <3>2 DEF Notification
  <2> QED BY <1>18, <1>20, <2>1 DEF Age
<1>21. ASSUME SwitchStaff \/ SwitchBusiness \/ SwitchTemplate
       PROVE  AlertsInv'
  <2>1. UNCHANGED <<appointment, rows, fs>>
    BY <1>21 DEF SwitchStaff, SwitchBusiness, SwitchTemplate, Around
  <2> QED BY <1>4, <2>1 DEF FlushesTyped
<1> QED
  BY <1>5, <1>6, <1>7, <1>8, <1>9, <1>10, <1>11, <1>12, <1>13, <1>14, <1>15, <1>16, <1>17, <1>19, <1>20, <1>21
  DEF Next, Dispatch

-----------------------------------------------------------------------------

\* The empty table is in order.
LEMMA AlertsInit ==
  ASSUME Init
  PROVE  AlertsInv
BY DEF Init, AlertsInv, RowsTyped, FlushesTyped, WaitingIsUntold, HandsUntold, OneHandEach, Holds, Idle, Fields

\* Every step, and standing still, keeps the invariant.
LEMMA AlertsSteps ==
  ASSUME AlertsAssumption, AlertsInv, [Next]_vars
  PROVE  AlertsInv'
<1>1. CASE UNCHANGED vars
  BY <1>1 DEF vars, AlertsInv, RowsTyped, FlushesTyped, WaitingIsUntold, HandsUntold, OneHandEach, Holds, Head1
<1> QED BY <1>1, AlertsNext

\* What waits is untold, and what is in one hand is told by that hand only.
LEMMA TellsOnce ==
  ASSUME AlertsInv
  PROVE  ToldOnce
<1> SUFFICES ASSUME NEW i \in DOMAIN rows PROVE rows[i].told <= 1
  BY DEF ToldOnce
<1> QED BY DEF AlertsInv, WaitingIsUntold

\* No fact is told twice, however many flushes run over the same rows, with sends whose outcome
\* nobody knows, crashes in the middle and rows closed as interrupted.
THEOREM NobodyToldTwice ==
  ASSUME AlertsAssumption
  PROVE  Spec => []ToldOnce
BY AlertsInit, AlertsSteps, TellsOnce, PTL DEF Spec

-----------------------------------------------------------------------------
(* What the rows say of the agenda *)

\* As long as no change went untold, every segment was announced with its time, and whatever was
\* announced is still in the appointment or was called off.  What a cancelled appointment had is
\* kept as announced, for it may be reopened.
Announced(s) == {Key("CREATED", s), Key("RESCHEDULED", s)} \cap Keys # {}
CalledOff(k) == \E c \in Keys : c.event = "CANCELLED" /\ Same(c, k)
AnnouncedInv ==
  /\ status = "none" => rows = <<>>
  /\ ~untold /\ status \in {"open", "cancelled"} =>
       /\ \A s \in Staffed(segs) : Announced(s)
       /\ \A k \in Keys : (status = "open" /\ Within(k, segs)) \/ CalledOff(k)

\* Inserting facts adds them to those there are, and repeats none.
LEMMA EnqueuedKeys ==
  ASSUME RowsTyped, NEW keys, IsFiniteSet(keys), keys \subseteq Facts, rows' = Enqueued(keys)
  PROVE  Keys' = Keys \cup keys
<1> DEFINE new == keys \ Keys
           f == [k \in new |-> Row(k)]
           fresh == {Row(k) : k \in new}
           list == SetToSeq(fresh)
<1>1. IsFiniteSet(new)
  BY FS_Subset
<1>2. IsFiniteSet({f[k] : k \in new}) /\ fresh = {f[k] : k \in new}
  BY <1>1, ImageFinite
<1>3. IsFiniteSet(fresh)
  BY <1>2
<1>4. \A k \in new : Row(k) \in fresh /\ Row(k) \in Notification /\ Row(k).key = k
  <2> SUFFICES ASSUME NEW k \in new PROVE Row(k) \in Notification /\ Row(k).key = k
    OBVIOUS
  <2> QED BY DEF Row, Notification, States
<1>5. \A r \in fresh : r.key \in new /\ r \in Notification
  BY <1>4
<1>6. rows' = rows \o list
  BY DEF Enqueued
<1> HIDE DEF fresh
<1>7. list \in Seq(fresh) /\ DOMAIN list = 1 .. Len(list) /\ \A r \in fresh : \E i \in DOMAIN list : list[i] = r
  BY <1>3, ListOfSet
<1> HIDE DEF list
<1>8. rows \in Seq(Notification) /\ list \in Seq(Notification)
  BY <1>5, <1>7 DEF RowsTyped
<1>9. /\ DOMAIN rows = 1 .. Len(rows) /\ Len(rows) \in Nat
      /\ DOMAIN rows' = 1 .. Len(rows) + Len(list) /\ Len(list) \in Nat
      /\ \A i \in DOMAIN rows : i \in DOMAIN rows' /\ rows'[i] = rows[i]
  BY <1>6, <1>8
<1>10. ASSUME NEW i \in DOMAIN rows' PROVE rows'[i].key \in Keys \cup keys
  <2>1. CASE i \in DOMAIN rows
    BY <1>9, <2>1 DEF Keys
  <2>2. CASE i \notin DOMAIN rows
    <3>1. i - Len(rows) \in DOMAIN list /\ rows'[i] = list[i - Len(rows)]
      BY <1>6, <1>8, <1>9, <2>2
    <3> QED BY <1>5, <1>7, <3>1
  <2> QED BY <2>1, <2>2
<1>11. ASSUME NEW k \in Keys PROVE k \in Keys'
  BY <1>9, <1>11 DEF Keys
<1>12. ASSUME NEW k \in new PROVE k \in Keys'
  <2>1. PICK i \in DOMAIN list : list[i] = Row(k)
    BY <1>4, <1>7
  <2>2. Len(rows) + i \in DOMAIN rows' /\ rows'[Len(rows) + i] = list[i]
    BY <1>6, <1>7, <1>8, <1>9, <2>1
  <2> QED BY <1>4, <2>1, <2>2 DEF Keys
<1>13. Keys' \subseteq Keys \cup keys
  BY <1>10 DEF Keys
<1> QED BY <1>11, <1>12, <1>13

\* A step that marks rows, or none, says the same of the same appointment.
LEMMA AnnouncedStands ==
  ASSUME AnnouncedInv, UNCHANGED <<status, segs, untold>>, DOMAIN rows' = DOMAIN rows, rows = <<>> => rows' = <<>>,
         \A i \in DOMAIN rows : rows'[i].key = rows[i].key
  PROVE  AnnouncedInv'
<1>1. Keys' = Keys
  BY DEF Keys
<1> QED BY <1>1 DEF AnnouncedInv, Announced, CalledOff, Within, Staffed

\* A change that is not told silences the promise.
LEMMA SilencedStands ==
  ASSUME status' # "none", untold'
  PROVE  AnnouncedInv'
BY DEF AnnouncedInv

\* What there is to tell of an edit is what the appointment it leaves needs.
LEMMA EditAnnounces ==
  ASSUME NEW plan, AnnouncedInv, status = "open", ~untold, status' = "open", segs' = plan,
         Keys' = Keys \cup PlanEdited(segs, plan)
  PROVE  AnnouncedInv'
<1>1. ASSUME NEW s \in Staffed(plan) PROVE Announced(s)'
  <2>1. CASE ~Within(s, segs)
    <3>1. Key("CREATED", s) \in Keys'
      BY <2>1 DEF PlanEdited
    <3> QED BY <3>1 DEF Announced
  <2>2. CASE \E t \in Staffed(segs) : Same(s, t) /\ t.start # s.start
    <3>1. Key("RESCHEDULED", s) \in Keys'
      BY <2>2 DEF PlanEdited
    <3> QED BY <3>1 DEF Announced
  <2>3. CASE \E t \in Staffed(segs) : Same(s, t) /\ t.start = s.start
    <3>1. PICK t \in Staffed(segs) : Same(s, t) /\ t.start = s.start
      BY <2>3
    <3>2. Key("CREATED", s) = Key("CREATED", t) /\ Key("RESCHEDULED", s) = Key("RESCHEDULED", t)
      BY <3>1 DEF Key, Same
    <3>3. Announced(t)
      BY DEF AnnouncedInv
    <3> QED BY <3>2, <3>3 DEF Announced
  <2> QED BY <2>1, <2>2, <2>3 DEF Within
<1>2. ASSUME NEW k \in Keys PROVE Within(k, plan) \/ CalledOff(k)'
  <2>1. CASE CalledOff(k)
    BY <2>1 DEF CalledOff
  <2>2. CASE Within(k, segs) /\ ~Within(k, plan)
    <3>1. PICK t \in Staffed(segs) : Same(k, t)
      BY <2>2 DEF Within
    <3>2. ~Within(t, plan)
      BY <2>2, <3>1 DEF Within, Same
    <3>3. Key("CANCELLED", t) \in Keys'
      BY <3>2 DEF PlanEdited
    <3>4. Key("CANCELLED", t).event = "CANCELLED" /\ Same(Key("CANCELLED", t), k)
      BY <3>1 DEF Key, Same
    <3> QED BY <3>3, <3>4 DEF CalledOff
  <2> QED BY <2>1, <2>2 DEF AnnouncedInv
<1>3. ASSUME NEW k \in PlanEdited(segs, plan) PROVE Within(k, plan) \/ CalledOff(k)'
  <2>1. CASE \E s \in Staffed(plan) : k \in {Key("CREATED", s), Key("RESCHEDULED", s)}
    BY <2>1 DEF Within, Key, Same
  <2>2. CASE \E s \in Staffed(segs) : k = Key("CANCELLED", s)
    <3>1. k \in Keys' /\ k.event = "CANCELLED" /\ Same(k, k)
      BY <2>2 DEF Key, Same
    <3> QED BY <3>1 DEF CalledOff
  <2> QED BY <2>1, <2>2 DEF PlanEdited
<1> QED BY <1>1, <1>2, <1>3 DEF AnnouncedInv, Within, Staffed

\* Every step keeps what the rows say of the agenda.
LEMMA AnnouncedSteps ==
  ASSUME AlertsAssumption, AlertsInv, AnnouncedInv, [Next]_vars
  PROVE  AnnouncedInv'
<1>0. RowsTyped
  BY DEF AlertsInv
<1>1. CASE Book
  <2>1. PICK plan \in Plans : segs' = plan /\ Enqueue(PlanCreated(plan))
    BY <1>1 DEF Book
  <2>2. CASE rows' = Enqueued(PlanCreated(plan)) /\ untold' = untold
    <3>1. IsFiniteSet(PlanCreated(plan)) /\ PlanCreated(plan) \subseteq Facts
      BY KeysOfPart DEF PlanCreated, Events
    <3>2. Keys' = Keys \cup PlanCreated(plan)
      BY <1>0, <2>2, <3>1, EnqueuedKeys
    <3>3. Keys = {}
      BY <1>1 DEF Book, AnnouncedInv, Keys
    <3>4. \A s \in Staffed(plan) : Key("CREATED", s) \in Keys'
      BY <3>2 DEF PlanCreated
    <3>5. \A k \in Keys' : Within(k, plan)
      BY <3>2, <3>3 DEF PlanCreated, Within, Same, Key
    <3> QED BY <1>1, <2>1, <3>4, <3>5 DEF Book, AnnouncedInv, Announced, Within, Staffed
  <2>3. CASE untold'
    BY <1>1, <2>3, SilencedStands DEF Book
  <2> QED BY <2>1, <2>2, <2>3 DEF Enqueue
<1>2. CASE BookPast
  BY <1>2, SilencedStands DEF BookPast
<1>3. CASE Edit
  <2>1. PICK plan \in Plans : segs' = plan /\ Enqueue(PlanEdited(segs, plan))
    BY <1>3 DEF Edit
  <2>2. status = "open" /\ status' = "open"
    BY <1>3 DEF Edit
  <2>3. CASE rows' = Enqueued(PlanEdited(segs, plan)) /\ untold' = untold /\ ~untold
    <3>1. IsFiniteSet(PlanEdited(segs, plan)) /\ PlanEdited(segs, plan) \subseteq Facts
      BY <1>0, KeysOfEdit DEF RowsTyped
    <3> QED BY <1>0, <2>1, <2>2, <2>3, <3>1, EnqueuedKeys, EditAnnounces
  <2>4. CASE untold' \/ (untold /\ untold' = untold)
    BY <2>2, <2>4, SilencedStands
  <2> QED BY <2>1, <2>3, <2>4 DEF Enqueue
<1>4. ASSUME NEW keys, IsFiniteSet(keys), keys \subseteq Facts, Enqueue(keys), segs' = segs,
             status \in {"open", "cancelled"}, status' \in {"open", "cancelled", "completed"},
             \A k \in keys : k.event = "CANCELLED",
             status' = "cancelled" => keys = PlanCancelled(segs)
                                   \/ status = "cancelled"
      PROVE  AnnouncedInv'
  <2>1. CASE rows' = Enqueued(keys) /\ untold' = untold
    <3>1. Keys' = Keys \cup keys
      BY <1>0, <1>4, <2>1, EnqueuedKeys
    <3>2. SUFFICES ASSUME ~untold, status' \in {"open", "cancelled"}
                   PROVE  /\ \A s \in Staffed(segs) : Announced(s)'
                          /\ \A k \in Keys' : (status' = "open" /\ Within(k, segs)) \/ CalledOff(k)'
      BY <1>4, <2>1 DEF AnnouncedInv, Within, Staffed
    <3>3. \A s \in Staffed(segs) : Announced(s)'
      BY <1>4, <3>1, <3>2 DEF AnnouncedInv, Announced
    <3>4. ASSUME NEW k \in Keys PROVE (status' = "open" /\ Within(k, segs)) \/ CalledOff(k)'
      <4>1. CASE CalledOff(k)
        BY <3>1, <4>1 DEF CalledOff
      <4>2. CASE status = "open" /\ Within(k, segs) /\ status' # "open"
        <5>1. keys = PlanCancelled(segs)
          BY <1>4, <3>2, <4>2
        <5>2. PICK t \in Staffed(segs) : Same(k, t)
          BY <4>2 DEF Within
        <5>3. Key("CANCELLED", t) \in Keys' /\ Key("CANCELLED", t).event = "CANCELLED" /\ Same(Key("CANCELLED", t), k)
          BY <3>1, <5>1, <5>2 DEF PlanCancelled, Key, Same
        <5> QED BY <5>3 DEF CalledOff
      <4> QED BY <1>4, <3>2, <4>1, <4>2 DEF AnnouncedInv
    <3>5. \A k \in keys : CalledOff(k)'
      BY <1>4, <3>1 DEF CalledOff, Same
    <3> QED BY <3>1, <3>3, <3>4, <3>5
  <2>2. CASE untold'
    BY <1>4, <2>2, SilencedStands
  <2> QED BY <1>4, <2>1, <2>2 DEF Enqueue
<1>5. \A s \in SUBSET segs : IsFiniteSet(PlanCancelled(s)) /\ PlanCancelled(s) \subseteq Facts
  <2> SUFFICES ASSUME NEW s \in SUBSET segs PROVE IsFiniteSet(PlanCancelled(s)) /\ PlanCancelled(s) \subseteq Facts
    OBVIOUS
  <2> DEFINE gone == {t \in s : t.staff # NoStaff}
  <2>1. gone \in SUBSET Staffed(segs) /\ PlanCancelled(s) = {Key("CANCELLED", t) : t \in gone}
    BY DEF PlanCancelled, Staffed
  <2>2. "CANCELLED" \in Events /\ segs \in Plans \cup {{}}
    BY <1>0 DEF Events, RowsTyped
  <2> HIDE DEF gone
  <2> QED BY <2>1, <2>2, KeysOfPart
<1>6. \A s : \A k \in PlanCancelled(s) : k.event = "CANCELLED"
  BY DEF PlanCancelled, Key
<1>7. CASE ChangeStatus
  <2>1. /\ status \in {"open", "completed", "cancelled"} /\ status' \in {"open", "completed", "cancelled"}
        /\ segs' = segs
    BY <1>7 DEF ChangeStatus
  <2>2. CASE status = "completed"
    BY <1>7, <2>1, <2>2, SilencedStands DEF ChangeStatus
  <2>3. CASE status # "completed" /\ status' = "cancelled"
    BY <1>4, <1>5, <1>6, <1>7, <2>1, <2>3 DEF ChangeStatus
  <2>4. CASE status # "completed" /\ status' # "cancelled"
    <3>1. Enqueue({})
      BY <1>7, <2>4 DEF ChangeStatus
    <3> QED BY <1>4, <2>1, <2>4, <3>1, FS_EmptySet
  <2> QED BY <2>2, <2>3, <2>4
<1>8. ASSUME NEW f \in Flushers, Delete(f) PROVE AnnouncedInv'
  <2> DEFINE told == {s \in segs : s.staff \in Informed}
  <2>1. Enqueue(PlanCancelled(told)) /\ status' = status /\ segs' = segs /\ status # "none"
    BY <1>8 DEF Delete
  <2>2. told \in SUBSET segs
    OBVIOUS
  <2> HIDE DEF told
  <2>3. CASE status \in {"open", "cancelled"}
    BY <1>4, <1>5, <1>6, <2>1, <2>2, <2>3
  <2>4. CASE status \notin {"open", "cancelled"}
    BY <2>1, <2>4 DEF AnnouncedInv
  <2> QED BY <2>3, <2>4
<1>9. ASSUME NEW f \in Flushers, DeleteNow(f) PROVE AnnouncedInv'
  BY <1>9 DEF DeleteNow, AnnouncedInv
<1>10. ASSUME UNCHANGED <<appointment, rows, untold>> PROVE AnnouncedInv'
  BY <1>10, AnnouncedStands DEF appointment
<1>11. ASSUME NEW f \in Flushers, Skip(f) PROVE AnnouncedInv'
  <2>1. "SKIPPED" \in States \ {"PENDING"} /\ rows' = Updated(Head1(f).row, "SKIPPED")
    BY <1>11 DEF States, Skip
  <2> QED BY <1>0, <1>11, <2>1, UpdatedKeeps, AnnouncedStands DEF Skip, appointment
<1>12. ASSUME NEW f \in Flushers, Mark(f) PROVE AnnouncedInv'
  <2>1. fs[f].pc \in States \ {"PENDING"} /\ rows' = Updated(Head1(f).row, fs[f].pc)
    BY <1>12 DEF States, Mark
  <2> QED BY <1>0, <1>12, <2>1, UpdatedKeeps, AnnouncedStands DEF Mark, appointment
<1>13. ASSUME NEW f \in Flushers, Claim(f) PROVE AnnouncedInv'
  <2>1. "SENDING" \in States \ {"PENDING"} /\ rows' = Updated(Head1(f).row, "SENDING")
    BY <1>13 DEF States, Claim
  <2> QED BY <1>0, <1>13, <2>1, UpdatedKeeps, AnnouncedStands DEF Claim, appointment
<1>14. ASSUME NEW f \in Flushers, Send(f) PROVE AnnouncedInv'
  <2>1. CASE Head1(f).row \notin DOMAIN rows
    BY <1>10, <1>14, <2>1 DEF Send
  <2>2. CASE Head1(f).row \in DOMAIN rows
    <3> DEFINE i == Head1(f).row
               r == [rows[i] EXCEPT !.told = @ + 1]
    <3>1. rows \in Seq(Notification) /\ rows[i] \in Notification
      BY <1>0, <2>2 DEF RowsTyped
    <3>2. rows' = [rows EXCEPT ![i] = r] /\ r.key = rows[i].key
      BY <1>14, <2>2, <3>1 DEF Send, Notification
    <3> HIDE DEF r, i
    <3>3. DOMAIN rows' = DOMAIN rows /\ \A j \in DOMAIN rows : rows'[j].key = rows[j].key
      BY <3>1, <3>2
    <3>4. rows = <<>> => rows' = <<>>
      BY <2>2, <3>1 DEF i
    <3> QED BY <1>14, <3>3, <3>4, AnnouncedStands DEF Send, appointment
  <2> QED BY <2>1, <2>2
<1>15. ASSUME FailStale \/ Age PROVE AnnouncedInv'
  <2>1. DOMAIN rows' = DOMAIN rows /\ UNCHANGED <<appointment, untold>>
    BY <1>15 DEF FailStale, Age
  <2>2. ASSUME NEW i \in DOMAIN rows PROVE rows'[i].key = rows[i].key
    <3>1. rows[i] \in Notification
      BY <1>0 DEF RowsTyped
    <3>2. \/ rows'[i] \in {rows[i], [rows[i] EXCEPT !.st = "FAILED", !.old = FALSE]}
          \/ \E old \in BOOLEAN : rows'[i] = [rows[i] EXCEPT !.old = old]
      BY <1>15 DEF FailStale, Age
    <3> QED BY <3>1, <3>2 DEF Notification
  <2>3. rows = <<>> => rows' = <<>>
    BY <1>15 DEF FailStale, Age
  <2> QED BY <2>1, <2>2, <2>3, AnnouncedStands DEF appointment
<1>16. ASSUME NEW f \in Flushers, FindPending(f) \/ Wait(f) \/ Crash(f) PROVE AnnouncedInv'
  BY <1>10, <1>16 DEF FindPending, Wait, Crash, Around
<1>17. ASSUME SwitchStaff \/ SwitchBusiness \/ SwitchTemplate PROVE AnnouncedInv'
  BY <1>10, <1>17 DEF SwitchStaff, SwitchBusiness, SwitchTemplate, Around
<1>18. CASE UNCHANGED vars
  BY <1>10, <1>18 DEF vars, appointment
<1> QED
  BY <1>1, <1>2, <1>3, <1>7, <1>8, <1>9, <1>11, <1>12, <1>13, <1>14, <1>15, <1>16, <1>17, <1>18
  DEF Next, Dispatch

\* Nothing was announced before there was an appointment.
LEMMA AnnouncedInit ==
  ASSUME Init
  PROVE  AnnouncedInv
BY DEF Init, AnnouncedInv

\* What the invariant says of both states holds of each.
LEMMA AnnouncedTells ==
  ASSUME AnnouncedInv
  PROVE  AgendaIsAnnounced
BY DEF AnnouncedInv, AgendaIsAnnounced, Announced, CalledOff

-----------------------------------------------------------------------------
(* The type *)

Phases == {"idle", "find", "loop", "send", "SENT", "FAILED"}

\* There are no more rows than the changes so far had to tell.
AlertsTyped ==
  /\ status \in {"none", "open", "completed", "cancelled", "deleted"}
  /\ Len(rows) <= MaxSegments * (2 * edits + 1)
  /\ \A f \in Flushers : fs[f].pc \in Phases
  /\ reachable \subseteq Staff /\ approved \subseteq Events
  /\ edits \in 0 .. MaxEdits /\ changes \in 0 .. MaxChanges /\ untold \in BOOLEAN

\* What leaves the rows that there are leaves their number.
LEMMA AsManyRows ==
  ASSUME RowsTyped, rows' \in Seq(Notification), DOMAIN rows' = DOMAIN rows
  PROVE  Len(rows') = Len(rows)
<1>1. rows \in Seq(Notification)
  BY DEF RowsTyped
<1> QED BY <1>1

\* A change adds to the rows what it has to tell, if it is written.
LEMMA ChangeAdds ==
  ASSUME AlertsAssumption, RowsTyped, NEW keys, IsFiniteSet(keys), keys \subseteq Facts, Enqueue(keys),
         NEW n \in Nat, Cardinality(keys) <= n, untold \in BOOLEAN
  PROVE  Len(rows') <= Len(rows) + n /\ untold' \in BOOLEAN
<1>1. Cardinality(keys) \in Nat
  BY FS_CardinalityType
<1>2. rows \in Seq(Notification) /\ Len(rows) \in Nat
  BY DEF RowsTyped
<1>3. CASE rows' = Enqueued(keys) /\ UNCHANGED untold
  <2>1. rows' \in Seq(Notification) /\ Len(rows') <= Len(rows) + Cardinality(keys)
    BY <1>3, EnqueuedAdds
  <2>2. Len(rows') \in Nat
    BY <2>1
  <2> QED BY <1>1, <1>2, <1>3, <2>1, <2>2
<1>4. CASE untold' = TRUE /\ rows' = rows
  BY <1>2, <1>4
<1> QED BY <1>3, <1>4 DEF Enqueue

\* Room for what one more change has to tell.
LEMMA RoomForChange ==
  ASSUME NEW m \in Nat, NEW e \in Nat, NEW n \in Nat, n <= m * (2 * e + 1), NEW k \in Nat, k <= n + 2 * m
  PROVE  k <= m * (2 * (e + 1) + 1)
<1>1. m * (2 * (e + 1) + 1) = m * (2 * e + 1) + 2 * m
  OBVIOUS
<1>2. m * (2 * e + 1) \in Nat
  OBVIOUS
<1> QED BY <1>1, <1>2

\* Another phase of a flush.
LEMMA PhaseMoves ==
  ASSUME FlushesTyped, \A f \in Flushers : fs[f].pc \in Phases, NEW g \in Flushers, NEW m, Goto(g, m), m.pc \in Phases
  PROVE  \A f \in Flushers : fs'[f].pc \in Phases
<1>1. fs' = [fs EXCEPT ![g] = m] /\ DOMAIN fs = Flushers
  BY DEF Goto, FlushesTyped
<1> QED BY <1>1

\* Taking the next row is a phase.
LEMMA PopPhase ==
  ASSUME FlushesTyped, \A f \in Flushers : fs[f].pc \in Phases, NEW g \in Flushers, Pop(g)
  PROVE  \A f \in Flushers : fs'[f].pc \in Phases
<1> DEFINE m == IF Len(fs[g].todo) > 1 \/ fs[g].deleting THEN [fs[g] EXCEPT !.pc = "loop", !.todo = Tail(@)] ELSE Idle
<1>1. DOMAIN fs[g] = Fields
  BY DEF FlushesTyped
<1>2. m.pc \in Phases
  BY <1>1 DEF Fields, Idle, Phases
<1>3. Goto(g, m)
  BY DEF Pop
<1> HIDE DEF m
<1> QED BY <1>2, <1>3, PhaseMoves

\* Every step keeps the types.
LEMMA TypedSteps ==
  ASSUME AlertsAssumption, AlertsInv, AnnouncedInv, AlertsTyped, [Next]_vars
  PROVE  AlertsTyped'
<1>0. /\ RowsTyped /\ FlushesTyped /\ rows \in Seq(Notification) /\ Len(rows) \in Nat
      /\ MaxSegments \in Nat /\ MaxEdits \in Nat /\ MaxChanges \in Nat /\ edits \in Nat
      /\ segs \in Plans \cup {{}} /\ untold \in BOOLEAN
  BY DEF AlertsInv, RowsTyped, AlertsTyped, AlertsAssumption
<1>1. RowsTyped' /\ rows' \in Seq(Notification) /\ Len(rows') \in Nat
  BY AlertsSteps DEF AlertsInv, RowsTyped
\* A change of the appointment that tells no more than all of before and after.
<1>2. ASSUME Editing, Len(rows') <= Len(rows) + 2 * MaxSegments, untold' \in BOOLEAN, UNCHANGED world,
             status' \in {"none", "open", "completed", "cancelled", "deleted"},
             \A f \in Flushers : fs'[f].pc \in Phases
      PROVE  AlertsTyped'
  <2>1. edits' = edits + 1 /\ edits' \in 0 .. MaxEdits
    BY <1>0, <1>2 DEF Editing
  <2>2. Len(rows') <= MaxSegments * (2 * (edits + 1) + 1)
    BY <1>0, <1>1, <1>2, RoomForChange DEF AlertsTyped
  <2>3. reachable' \subseteq Staff /\ approved' \subseteq Events /\ changes' \in 0 .. MaxChanges
    BY <1>2 DEF AlertsTyped, world
  <2> QED BY <1>2, <2>1, <2>2, <2>3 DEF AlertsTyped
\* A step of a flush or of the job.
<1>3. ASSUME UNCHANGED <<appointment, untold, world>>, DOMAIN rows' = DOMAIN rows, \A f \in Flushers : fs'[f].pc \in Phases
      PROVE  AlertsTyped'
  <2>1. Len(rows') = Len(rows)
    BY <1>0, <1>1, <1>3, AsManyRows
  <2> QED BY <1>3, <2>1 DEF AlertsTyped, appointment, world
\* A step of the world around.
<1>4. ASSUME Change, Around, reachable' \subseteq Staff, approved' \subseteq Events, \A f \in Flushers : fs'[f].pc \in Phases
      PROVE  AlertsTyped'
  <2>1. changes' \in 0 .. MaxChanges
    BY <1>0, <1>4 DEF Change, AlertsTyped
  <2> QED BY <1>4, <2>1 DEF AlertsTyped, Around, appointment
<1>5. CASE Book
  <2>1. PICK plan \in Plans : segs' = plan /\ Enqueue(PlanCreated(plan))
    BY <1>5 DEF Book
  <2>2. /\ IsFiniteSet(PlanCreated(plan)) /\ PlanCreated(plan) \subseteq Facts
        /\ Cardinality(PlanCreated(plan)) <= MaxSegments
    BY KeysOfPart DEF PlanCreated, Events
  <2>3. Len(rows') <= Len(rows) + MaxSegments /\ untold' \in BOOLEAN
    BY <1>0, <2>1, <2>2, ChangeAdds
  <2>4. Len(rows) = 0
    BY <1>5 DEF Book, AnnouncedInv
  <2>5. MaxSegments <= MaxSegments * (2 * edits + 1)
    <3>1. MaxSegments * (2 * edits + 1) = MaxSegments + 2 * (MaxSegments * edits) /\ MaxSegments * edits \in Nat
      BY <1>0
    <3> QED BY <1>0, <3>1
  <2>6. Len(rows') <= MaxSegments * (2 * edits + 1)
    <3>1. MaxSegments * (2 * edits + 1) \in Nat
      BY <1>0
    <3> QED BY <1>0, <1>1, <2>3, <2>4, <2>5, <3>1
  <2> QED BY <1>5, <2>3, <2>6 DEF Book, Elsewhere, world, AlertsTyped
<1>6. CASE BookPast
  BY <1>6 DEF BookPast, Elsewhere, world, AlertsTyped
<1>7. CASE Edit
  <2>1. PICK plan \in Plans : segs' = plan /\ Enqueue(PlanEdited(segs, plan))
    BY <1>7 DEF Edit
  <2>2. /\ IsFiniteSet(PlanEdited(segs, plan)) /\ PlanEdited(segs, plan) \subseteq Facts
        /\ Cardinality(PlanEdited(segs, plan)) <= 2 * MaxSegments
    BY <1>0, KeysOfEdit
  <2>3. 2 * MaxSegments \in Nat
    BY <1>0
  <2>4. Len(rows') <= Len(rows) + 2 * MaxSegments /\ untold' \in BOOLEAN
    BY <1>0, <2>1, <2>2, <2>3, ChangeAdds
  <2> QED BY <1>2, <1>7, <2>4 DEF Edit, Elsewhere, AlertsTyped
\* What a cancellation tells.
<1>8. ASSUME NEW part \in SUBSET segs, Enqueue(PlanCancelled(part))
      PROVE  Len(rows') <= Len(rows) + 2 * MaxSegments /\ untold' \in BOOLEAN
  <2>1. Staffed(part) \in SUBSET Staffed(segs) /\ "CANCELLED" \in Events
    BY DEF Staffed, Events
  <2>2. /\ IsFiniteSet(PlanCancelled(part)) /\ PlanCancelled(part) \subseteq Facts
        /\ Cardinality(PlanCancelled(part)) <= MaxSegments
    BY <1>0, <2>1, KeysOfPart DEF PlanCancelled
  <2>3. Len(rows') <= Len(rows) + MaxSegments /\ untold' \in BOOLEAN
    BY <1>0, <1>8, <2>2, ChangeAdds
  <2> QED BY <1>0, <1>1, <2>3
<1>9. CASE ChangeStatus
  <2>1. CASE rows' = rows /\ untold' = TRUE
    <3>1. Len(rows') <= Len(rows) + 2 * MaxSegments
      BY <1>0, <2>1
    <3> QED BY <1>2, <1>9, <2>1, <3>1 DEF ChangeStatus, Elsewhere, AlertsTyped
  <2>2. CASE Enqueue(PlanCancelled(segs))
    BY <1>2, <1>8, <1>9, <2>2 DEF ChangeStatus, Elsewhere, AlertsTyped
  <2>3. CASE Enqueue({})
    <3>1. Len(rows') <= Len(rows) + 0 /\ untold' \in BOOLEAN
      BY <1>0, <2>3, ChangeAdds, FS_EmptySet
    <3>2. Len(rows') <= Len(rows) + 2 * MaxSegments
      BY <1>0, <1>1, <3>1
    <3> QED BY <1>2, <1>9, <3>1, <3>2 DEF ChangeStatus, Elsewhere, AlertsTyped
  <2> QED BY <1>9, <2>1, <2>2, <2>3 DEF ChangeStatus
<1>10. ASSUME NEW f \in Flushers, Delete(f) PROVE AlertsTyped'
  <2> DEFINE part == {s \in segs : s.staff \in Informed}
  <2>1. PICK pc \in {"find", "loop"} : Goto(f, [Idle EXCEPT !.pc = pc, !.deleting = TRUE])
    BY <1>10 DEF Delete
  <2> DEFINE m == [Idle EXCEPT !.pc = pc, !.deleting = TRUE]
  <2>2. m.pc \in Phases
    BY DEF Idle, Phases
  <2> HIDE DEF m
  <2>3. \A g \in Flushers : fs'[g].pc \in Phases
    BY <1>0, <2>1, <2>2, PhaseMoves DEF m, AlertsTyped
  <2>4. part \in SUBSET segs /\ Enqueue(PlanCancelled(part))
    BY <1>10 DEF Delete
  <2> HIDE DEF part
  <2> QED BY <1>2, <1>8, <1>10, <2>3, <2>4 DEF Delete, AlertsTyped
<1>11. ASSUME NEW f \in Flushers, DeleteNow(f) PROVE AlertsTyped'
  <2>1. Idle.pc \in Phases /\ Goto(f, Idle)
    BY <1>11 DEF Idle, Phases, DeleteNow
  <2>2. \A g \in Flushers : fs'[g].pc \in Phases
    BY <1>0, <2>1, PhaseMoves DEF AlertsTyped
  <2>3. Len(rows') = 0 /\ 0 <= MaxSegments * (2 * edits + 1)
    <3>1. MaxSegments * (2 * edits + 1) \in Nat
      BY <1>0
    <3> QED BY <1>11, <3>1 DEF DeleteNow
  <2> QED BY <1>11, <2>2, <2>3 DEF DeleteNow, AlertsTyped, world
<1>12. ASSUME NEW f \in Flushers, Crash(f) PROVE AlertsTyped'
  <2>1. Idle.pc \in Phases /\ Goto(f, Idle)
    BY <1>12 DEF Idle, Phases, Crash
  <2>2. \A g \in Flushers : fs'[g].pc \in Phases
    BY <1>0, <2>1, PhaseMoves DEF AlertsTyped
  <2> QED BY <1>4, <1>12, <2>2 DEF Crash, AlertsTyped
<1>13. ASSUME NEW f \in Flushers, FindPending(f) PROVE AlertsTyped'
  <2>1. PICK todo : Goto(f, [fs[f] EXCEPT !.pc = "loop", !.todo = todo])
    BY <1>13 DEF FindPending
  <2> DEFINE m == [fs[f] EXCEPT !.pc = "loop", !.todo = todo]
  <2>2. m.pc \in Phases
    BY <1>0 DEF FlushesTyped, Fields, Phases
  <2> HIDE DEF m
  <2>3. \A g \in Flushers : fs'[g].pc \in Phases
    BY <1>0, <2>1, <2>2, PhaseMoves DEF m, AlertsTyped
  <2> QED BY <1>3, <1>13, <2>3 DEF FindPending
<1>14. ASSUME NEW f \in Flushers, Skip(f) PROVE AlertsTyped'
  <2>1. "SKIPPED" \in States \ {"PENDING"} /\ rows' = Updated(Head1(f).row, "SKIPPED")
    BY <1>14 DEF States, Skip
  <2>2. DOMAIN rows' = DOMAIN rows
    BY <1>0, <2>1, UpdatedKeeps
  <2>3. \A g \in Flushers : fs'[g].pc \in Phases
    BY <1>0, <1>14, PopPhase DEF Skip, AlertsTyped
  <2> QED BY <1>3, <1>14, <2>2, <2>3 DEF Skip
<1>15. ASSUME NEW f \in Flushers, Mark(f) PROVE AlertsTyped'
  <2>1. fs[f].pc \in States \ {"PENDING"} /\ rows' = Updated(Head1(f).row, fs[f].pc)
    BY <1>15 DEF States, Mark
  <2>2. DOMAIN rows' = DOMAIN rows
    BY <1>0, <2>1, UpdatedKeeps
  <2>3. \A g \in Flushers : fs'[g].pc \in Phases
    BY <1>0, <1>15, PopPhase DEF Mark, AlertsTyped
  <2> QED BY <1>3, <1>15, <2>2, <2>3 DEF Mark
<1>16. ASSUME NEW f \in Flushers, Wait(f) PROVE AlertsTyped'
  <2>1. \A g \in Flushers : fs'[g].pc \in Phases
    BY <1>0, <1>16, PopPhase DEF Wait, AlertsTyped
  <2> QED BY <1>3, <1>16, <2>1 DEF Wait
<1>17. ASSUME NEW f \in Flushers, Claim(f) PROVE AlertsTyped'
  <2>1. "SENDING" \in States \ {"PENDING"} /\ rows' = Updated(Head1(f).row, "SENDING")
    BY <1>17 DEF States, Claim
  <2>2. DOMAIN rows' = DOMAIN rows
    BY <1>0, <2>1, UpdatedKeeps
  <2> DEFINE m == [fs[f] EXCEPT !.pc = "send"]
  <2>3. m.pc \in Phases
    BY <1>0 DEF FlushesTyped, Fields, Phases
  <2>4. Goto(f, m)
    BY <1>17 DEF Claim
  <2> HIDE DEF m
  <2>5. \A g \in Flushers : fs'[g].pc \in Phases
    BY <1>0, <2>3, <2>4, PhaseMoves DEF AlertsTyped
  <2> QED BY <1>3, <1>17, <2>2, <2>5 DEF Claim
<1>18. ASSUME NEW f \in Flushers, Send(f) PROVE AlertsTyped'
  <2>1. PICK answer \in {"SENT", "FAILED"} : Goto(f, [fs[f] EXCEPT !.pc = answer])
    BY <1>18 DEF Send
  <2> DEFINE m == [fs[f] EXCEPT !.pc = answer]
  <2>2. m.pc \in Phases
    BY <1>0 DEF FlushesTyped, Fields, Phases
  <2> HIDE DEF m
  <2>3. \A g \in Flushers : fs'[g].pc \in Phases
    BY <1>0, <2>1, <2>2, PhaseMoves DEF m, AlertsTyped
  <2>4. DOMAIN rows' = DOMAIN rows
    BY <1>18 DEF Send
  <2> QED BY <1>3, <1>18, <2>3, <2>4 DEF Send
<1>19. CASE FailStale \/ Age
  <2>1. DOMAIN rows' = DOMAIN rows /\ fs' = fs
    BY <1>19 DEF FailStale, Age
  <2> QED BY <1>3, <1>19, <2>1 DEF FailStale, Age, AlertsTyped
<1>20. CASE SwitchStaff \/ SwitchBusiness \/ SwitchTemplate
  <2>1. reachable' \subseteq Staff /\ approved' \subseteq Events
    BY <1>20 DEF SwitchStaff, SwitchBusiness, SwitchTemplate, SymDiff, AlertsTyped
  <2> QED BY <1>4, <1>20, <2>1 DEF SwitchStaff, SwitchBusiness, SwitchTemplate, AlertsTyped
<1>21. CASE UNCHANGED vars
  BY <1>21 DEF vars, AlertsTyped
<1> QED
  BY <1>5, <1>6, <1>7, <1>9, <1>10, <1>11, <1>12, <1>13, <1>14, <1>15, <1>16, <1>17, <1>18, <1>19, <1>20, <1>21
  DEF Next, Dispatch

\* The types hold from the beginning.
LEMMA TypedInit ==
  ASSUME AlertsAssumption, Init
  PROVE  AlertsTyped
<1>1. MaxSegments * (2 * 0 + 1) = MaxSegments /\ Len(<<>>) = 0 /\ MaxSegments \in Nat
  BY DEF AlertsAssumption
<1>2. Len(rows) <= MaxSegments * (2 * edits + 1)
  BY <1>1 DEF Init
<1>3. \A f \in Flushers : fs[f].pc \in Phases
  BY DEF Init, Idle, Phases
<1>4. edits \in 0 .. MaxEdits /\ changes \in 0 .. MaxChanges
  BY DEF Init, AlertsAssumption
<1> QED BY <1>2, <1>3, <1>4 DEF Init, AlertsTyped

\* The types of the rows and of the rest are the type invariant.
LEMMA AlertsAreTyped ==
  ASSUME AlertsAssumption, AlertsInv, AlertsTyped
  PROVE  TypeOK
<1>1. rows \in Seq(Notification) /\ segs \in Plans \cup {{}} /\ Len(rows) \in Nat
  BY DEF AlertsInv, RowsTyped
<1>2. Len(rows) <= MaxRows
  <2>1. edits \in Nat /\ MaxEdits \in Nat /\ MaxSegments \in Nat /\ edits <= MaxEdits
    BY DEF AlertsTyped, AlertsAssumption
  <2>2. PICK d \in Nat : MaxEdits = edits + d
    <3>1. MaxEdits - edits \in Nat /\ MaxEdits = edits + (MaxEdits - edits)
      BY <2>1
    <3> QED BY <3>1
  <2>3. MaxSegments * (2 * MaxEdits + 1) = MaxSegments * (2 * edits + 1) + 2 * (MaxSegments * d)
    BY <2>1, <2>2
  <2>4. MaxSegments * d \in Nat /\ MaxSegments * (2 * edits + 1) \in Nat
    BY <2>1, <2>2
  <2>5. Len(rows) <= MaxSegments * (2 * edits + 1)
    BY DEF AlertsTyped
  <2> QED BY <1>1, <2>3, <2>4, <2>5 DEF MaxRows
<1>3. ASSUME NEW i \in DOMAIN rows
      PROVE  rows[i].key.event \in Events /\ rows[i].key.staff \in Staff /\ rows[i].st \in States
  <2>1. rows[i] \in Notification
    BY <1>1
  <2>2. PICK e \in Events, s \in Staffed(UNION Plans) : rows[i].key = Key(e, s)
    BY <2>1 DEF Notification, Facts
  <2>3. s.staff \in Staff
    BY <2>2 DEF Staffed, AlertsAssumption
  <2> QED BY <2>1, <2>2, <2>3 DEF Notification, Key
<1> QED BY <1>1, <1>2, <1>3 DEF AlertsTyped, TypeOK, Phases

====

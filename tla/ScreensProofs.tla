---- MODULE ScreensProofs ----
(***************************************************************************)
(* Theorems about SlotScreens: for any hours and any list, the ranges tile *)
(* the day, the pages of a list tile it too, no list of a screen has more  *)
(* rows than WhatsApp takes, and so every hour of the day can be chosen.   *)
(***************************************************************************)
EXTENDS SlotScreens, FiniteSetTheorems, SequenceTheorems, WellFoundedInduction, TLAPS

-----------------------------------------------------------------------------
(* What is built step by step *)

Smaller == {p \in Nat \X Nat : p[1] < p[2]}

\* Naturals cannot go down for ever.
LEMMA SmallerWF == IsWellFoundedOn(Smaller, Nat)
BY Zenon, NatLessThanWellFounded DEF OpToRel, Smaller

\* What holds of 0, and of a number when it holds of the one before, holds up to n.
LEMMA ByNumber ==
  ASSUME NEW n \in Nat, NEW good, 0 \in good, \A k \in 1 .. n : k - 1 \in good => k \in good
  PROVE  \A k \in 0 .. n : k \in good
<1> SUFFICES ASSUME NEW m \in 0 .. n, m \notin good PROVE FALSE
  OBVIOUS
<1> DEFINE bad == {k \in 0 .. n : k \notin good}
<1>1. bad \subseteq Nat /\ bad # {}
  OBVIOUS
<1>2. PICK k \in bad : \A j \in bad : ~ (<<j, k>> \in Smaller)
  BY <1>1, WFMin, SmallerWF
<1>3. k \in 1 .. n
  <2>1. k # 0
    OBVIOUS
  <2> QED BY <2>1
<1>4. k - 1 \notin bad
  <2>1. k - 1 \in Nat /\ k \in Nat /\ k - 1 < k
    BY <1>3
  <2>2. <<k - 1, k>> \in Smaller
    BY <2>1 DEF Smaller
  <2> QED BY <1>2, <2>2
<1>5. k - 1 \in good
  BY <1>3, <1>4
<1> QED BY <1>3, <1>5

\* A table that begins with base, and goes on from each place to the next.
Chained(f, n, base, step) == f = [i \in 0 .. n |-> IF i = 0 THEN base ELSE step[<<i, f[i - 1]>>]]

\* There is such a table.
LEMMA ChainExists ==
  ASSUME NEW n \in Nat, NEW X, NEW base \in X, NEW step \in [(1 .. n) \X X -> X]
  PROVE  \E f \in [0 .. n -> X] : Chained(f, n, base, step)
<1> DEFINE good == {k \in 0 .. n : \E f \in [0 .. k -> X] : Chained(f, k, base, step)}
<1>1. 0 \in good
  <2>1. [i \in 0 .. 0 |-> base] \in [0 .. 0 -> X]
    OBVIOUS
  <2>2. Chained([i \in 0 .. 0 |-> base], 0, base, step)
    BY DEF Chained
  <2> QED BY <2>1, <2>2
<1>2. ASSUME NEW k \in 1 .. n, k - 1 \in good PROVE k \in good
  <2>1. PICK f \in [0 .. k - 1 -> X] : Chained(f, k - 1, base, step)
    BY <1>2
  <2> DEFINE g == [i \in 0 .. k |-> IF i = k THEN step[<<k, f[k - 1]>>] ELSE f[i]]
  <2>2. \A i \in 0 .. k - 1 : f[i] = IF i = 0 THEN base ELSE step[<<i, f[i - 1]>>]
    BY <2>1 DEF Chained
  <2>3. step[<<k, f[k - 1]>>] \in X
    <3>1. <<k, f[k - 1]>> \in (1 .. n) \X X
      BY <2>1
    <3> QED BY <3>1
  <2>4. g \in [0 .. k -> X]
    BY <2>3
  <2>5. \A i \in 0 .. k : g[i] = IF i = 0 THEN base ELSE step[<<i, g[i - 1]>>]
    <3> SUFFICES ASSUME NEW i \in 0 .. k PROVE g[i] = IF i = 0 THEN base ELSE step[<<i, g[i - 1]>>]
      OBVIOUS
    <3>1. CASE i = k
      <4>1. k - 1 \in 0 .. k /\ k - 1 # k /\ k # 0
        OBVIOUS
      <4> QED BY <3>1, <4>1
    <3>2. CASE i # k /\ i # 0
      <4>1. i - 1 \in 0 .. k /\ i - 1 # k /\ i \in 0 .. k - 1
        BY <3>2
      <4> QED BY <2>2, <3>2, <4>1
    <3>3. CASE i # k /\ i = 0
      <4>1. 0 \in 0 .. k - 1 /\ g[0] = f[0]
        BY <3>3
      <4> HIDE DEF g
      <4> QED BY <2>2, <3>3, <4>1
    <3> QED BY <3>1, <3>2, <3>3
  <2>6. g = [i \in 0 .. k |-> IF i = 0 THEN base ELSE step[<<i, g[i - 1]>>]]
    <3>1. g = [i \in 0 .. k |-> g[i]]
      OBVIOUS
    <3> HIDE DEF g
    <3> QED BY <2>5, <3>1
  <2> HIDE DEF g
  <2>7. k \in 0 .. n /\ Chained(g, k, base, step)
    BY <2>6 DEF Chained
  <2> QED BY <2>4, <2>7
<1>3. \A k \in 0 .. n : k \in good
  <2> HIDE DEF good
  <2> QED BY <1>1, <1>2, ByNumber
<1>4. n \in good
  <2> HIDE DEF good
  <2> QED BY <1>3
<1> QED BY <1>4

-----------------------------------------------------------------------------
(* Some items of a list *)

Rising(p, m) == \A i, j \in 1 .. m : i < j => p[i] < p[j]

\* t is what s has in those of the first n places.
Picks(s, places, n, t) ==
  \E m \in Nat : \E pick \in [1 .. m -> 1 .. n] :
     /\ Rising(pick, m)
     /\ \A i \in 1 .. n : i \in places <=> \E k \in 1 .. m : pick[k] = i
     /\ t = [k \in 1 .. m |-> s[pick[k]]]

\* One more place.
LEMMA PickMore ==
  ASSUME NEW S, NEW s \in Seq(S), NEW places, NEW n \in 1 .. Len(s), NEW t \in Seq(S), Picks(s, places, n - 1, t)
  PROVE  Picks(s, places, n, IF n \in places THEN Append(t, s[n]) ELSE t)
<1>0. PICK m \in Nat : \E pick \in [1 .. m -> 1 .. n - 1] :
        /\ Rising(pick, m)
        /\ \A i \in 1 .. n - 1 : i \in places <=> \E k \in 1 .. m : pick[k] = i
        /\ t = [k \in 1 .. m |-> s[pick[k]]]
  BY DEF Picks
<1>1. PICK pick \in [1 .. m -> 1 .. n - 1] :
        /\ Rising(pick, m)
        /\ \A i \in 1 .. n - 1 : i \in places <=> \E k \in 1 .. m : pick[k] = i
        /\ t = [k \in 1 .. m |-> s[pick[k]]]
  BY <1>0
<1>2. \A k \in 1 .. m : pick[k] \in 1 .. n - 1
  OBVIOUS
<1>3. CASE n \in places
  <2> DEFINE more == [k \in 1 .. m + 1 |-> IF k = m + 1 THEN n ELSE pick[k]]
  <2>1. more \in [1 .. m + 1 -> 1 .. n]
    BY <1>2
  <2>2. more[m + 1] = n /\ \A k \in 1 .. m : more[k] = pick[k]
    OBVIOUS
  <2> HIDE DEF more
  <2>3. Rising(more, m + 1)
    <3> SUFFICES ASSUME NEW i \in 1 .. m + 1, NEW j \in 1 .. m + 1, i < j PROVE more[i] < more[j]
      BY DEF Rising
    <3>1. i \in 1 .. m
      OBVIOUS
    <3>2. CASE j = m + 1
      BY <1>2, <2>2, <3>1, <3>2
    <3>3. CASE j # m + 1
      <4>1. j \in 1 .. m
        BY <3>3
      <4> QED BY <1>1, <2>2, <3>1, <4>1 DEF Rising
    <3> QED BY <3>2, <3>3
  <2>4. \A i \in 1 .. n : i \in places <=> \E k \in 1 .. m + 1 : more[k] = i
    <3> SUFFICES ASSUME NEW i \in 1 .. n PROVE i \in places <=> \E k \in 1 .. m + 1 : more[k] = i
      OBVIOUS
    <3>1. CASE i = n
      <4>1. m + 1 \in 1 .. m + 1
        OBVIOUS
      <4> QED BY <1>3, <2>2, <3>1, <4>1
    <3>2. CASE i # n
      <4>1. i \in 1 .. n - 1
        BY <3>2
      <4>2. ASSUME NEW k \in 1 .. m + 1, more[k] = i PROVE \E l \in 1 .. m : pick[l] = i
        <5>1. k # m + 1
          BY <2>2, <3>2, <4>2
        <5>2. k \in 1 .. m
          BY <5>1
        <5> QED BY <2>2, <4>2, <5>2
      <4>3. ASSUME NEW l \in 1 .. m, pick[l] = i PROVE \E k \in 1 .. m + 1 : more[k] = i
        <5>1. l \in 1 .. m + 1
          OBVIOUS
        <5> QED BY <2>2, <4>3, <5>1
      <4> QED BY <1>1, <4>1, <4>2, <4>3
    <3> QED BY <3>1, <3>2
  <2>5. Append(t, s[n]) = [k \in 1 .. m + 1 |-> s[more[k]]]
    <3>1. Len(t) = m
      BY <1>1
    <3>2. Append(t, s[n]) = [k \in 1 .. m + 1 |-> IF k = m + 1 THEN s[n] ELSE t[k]]
      BY <3>1
    <3>3. \A k \in 1 .. m + 1 : (IF k = m + 1 THEN s[n] ELSE t[k]) = s[more[k]]
      <4> SUFFICES ASSUME NEW k \in 1 .. m + 1 PROVE (IF k = m + 1 THEN s[n] ELSE t[k]) = s[more[k]]
        OBVIOUS
      <4>1. CASE k = m + 1
        BY <2>2, <4>1
      <4>2. CASE k # m + 1
        <5>1. k \in 1 .. m
          BY <4>2
        <5> QED BY <1>1, <2>2, <4>2, <5>1
      <4> QED BY <4>1, <4>2
    <3> QED BY <3>2, <3>3
  <2>6. m + 1 \in Nat
    OBVIOUS
  <2>7. Picks(s, places, n, Append(t, s[n]))
    BY <2>1, <2>3, <2>4, <2>5, <2>6 DEF Picks
  <2> QED BY <1>3, <2>7
<1>4. CASE n \notin places
  <2>1. pick \in [1 .. m -> 1 .. n]
    BY <1>2
  <2>2. \A i \in 1 .. n : i \in places <=> \E k \in 1 .. m : pick[k] = i
    <3> SUFFICES ASSUME NEW i \in 1 .. n PROVE i \in places <=> \E k \in 1 .. m : pick[k] = i
      OBVIOUS
    <3>1. CASE i = n
      BY <1>2, <1>4, <3>1
    <3>2. CASE i # n
      <4>1. i \in 1 .. n - 1
        BY <3>2
      <4> QED BY <1>1, <4>1
    <3> QED BY <3>1, <3>2
  <2>3. Picks(s, places, n, t)
    BY <1>1, <2>1, <2>2 DEF Picks
  <2> QED BY <1>4, <2>3
<1> QED BY <1>3, <1>4

\* What is in some places of a list comes from its beginning, place by place.
LEMMA WhereSteps ==
  ASSUME NEW S, NEW s \in Seq(S), NEW places
  PROVE  \E kept : /\ Where(s, places) = kept[Len(s)] /\ kept[0] = <<>>
                   /\ \A i \in 1 .. Len(s) :
                        kept[i] = IF i \in places THEN Append(kept[i - 1], s[i]) ELSE kept[i - 1]
<1> DEFINE n == Len(s)
           step == [c \in (1 .. n) \X Seq(S) |-> IF c[1] \in places THEN Append(c[2], s[c[1]]) ELSE c[2]]
<1>1. n \in Nat /\ \A i \in 1 .. n : s[i] \in S
  OBVIOUS
<1>2. step \in [(1 .. n) \X Seq(S) -> Seq(S)]
  BY <1>1
<1>3. \A i \in 1 .. n : \A t \in Seq(S) : step[<<i, t>>] = IF i \in places THEN Append(t, s[i]) ELSE t
  OBVIOUS
<1>4. <<>> \in Seq(S)
  OBVIOUS
<1> HIDE DEF step
<1>5. PICK f \in [0 .. n -> Seq(S)] : Chained(f, n, <<>>, step)
  BY <1>1, <1>2, <1>4, ChainExists
<1>6. \A i \in 0 .. n : f[i] = IF i = 0 THEN <<>> ELSE IF i \in places THEN Append(f[i - 1], s[i]) ELSE f[i - 1]
  <2> SUFFICES ASSUME NEW i \in 0 .. n, i # 0 PROVE f[i] = IF i \in places THEN Append(f[i - 1], s[i]) ELSE f[i - 1]
    BY <1>5 DEF Chained
  <2>1. i \in 1 .. n /\ i - 1 \in 0 .. n
    OBVIOUS
  <2> QED BY <1>3, <1>5, <2>1 DEF Chained
<1> DEFINE Kept(t) == t = [i \in 0 .. Len(s) |-> IF i = 0 THEN <<>> ELSE IF i \in places THEN Append(t[i - 1], s[i]) ELSE t[i - 1]]
           kept == CHOOSE t : Kept(t)
<1>7. Kept(f)
  BY <1>6
<1>8. Kept(kept)
  <2> HIDE DEF Kept
  <2> QED BY <1>7
<1>9. Where(s, places) = kept[n]
  BY DEF Where
<1> HIDE DEF kept
<1>10. \A i \in 0 .. n : kept[i] = IF i = 0 THEN <<>> ELSE IF i \in places THEN Append(kept[i - 1], s[i]) ELSE kept[i - 1]
  BY <1>8
<1>11. 0 \in 0 .. n /\ \A i \in 1 .. n : i \in 0 .. n /\ i # 0
  BY <1>1
<1>12. kept[0] = <<>> /\ \A i \in 1 .. n : kept[i] = IF i \in places THEN Append(kept[i - 1], s[i]) ELSE kept[i - 1]
  <2> HIDE DEF Kept, n
  <2> QED BY <1>10, <1>11
<1> QED BY <1>9, <1>12

\* What is in some places of a list is what they have, in order.
LEMMA WhereIs ==
  ASSUME NEW S, NEW s \in Seq(S), NEW places
  PROVE  Picks(s, places, Len(s), Where(s, places)) /\ Where(s, places) \in Seq(S)
<1> DEFINE n == Len(s)
<1>1. n \in Nat /\ \A i \in 1 .. n : s[i] \in S
  OBVIOUS
<1>2. PICK kept : /\ Where(s, places) = kept[n] /\ kept[0] = <<>>
                  /\ \A i \in 1 .. n : kept[i] = IF i \in places THEN Append(kept[i - 1], s[i]) ELSE kept[i - 1]
  BY WhereSteps
<1> DEFINE good == {i \in 0 .. n : kept[i] \in Seq(S) /\ Picks(s, places, i, kept[i])}
<1>3. 0 \in good
  <2>1. 0 \in 0 .. n /\ kept[0] \in Seq(S)
    BY <1>1, <1>2
  <2> DEFINE none == [k \in 1 .. 0 |-> 0]
  <2>2. none \in [1 .. 0 -> 1 .. 0] /\ Rising(none, 0) /\ <<>> = [k \in 1 .. 0 |-> s[none[k]]]
    BY DEF Rising
  <2>3. Picks(s, places, 0, <<>>)
    <3> HIDE DEF none
    <3>1. 0 \in Nat /\ \A i \in 1 .. 0 : i \in places <=> \E k \in 1 .. 0 : none[k] = i
      OBVIOUS
    <3> QED BY <2>2, <3>1 DEF Picks
  <2> QED BY <1>2, <2>1, <2>3
<1>4. ASSUME NEW i \in 1 .. n, i - 1 \in good PROVE i \in good
  <2>1. kept[i] = IF i \in places THEN Append(kept[i - 1], s[i]) ELSE kept[i - 1]
    BY <1>2
  <2>2. kept[i - 1] \in Seq(S) /\ Picks(s, places, i - 1, kept[i - 1])
    BY <1>4
  <2>3. Picks(s, places, i, kept[i])
    BY <2>1, <2>2, PickMore
  <2>4. kept[i] \in Seq(S)
    BY <1>1, <2>1, <2>2
  <2> QED BY <2>3, <2>4
<1>5. \A i \in 0 .. n : i \in good
  <2> HIDE DEF good
  <2> QED BY <1>1, <1>3, <1>4, ByNumber
<1>6. n \in good
  <2> HIDE DEF good
  <2> QED BY <1>1, <1>5
<1> QED BY <1>2, <1>6

\* What is in all the places of a list is the list.
LEMMA WhereAll ==
  ASSUME NEW S, NEW s \in Seq(S), NEW places, 1 .. Len(s) \subseteq places
  PROVE  Where(s, places) = s
<1> DEFINE n == Len(s)
<1>1. PICK kept : /\ Where(s, places) = kept[n] /\ kept[0] = <<>>
                  /\ \A i \in 1 .. n : kept[i] = IF i \in places THEN Append(kept[i - 1], s[i]) ELSE kept[i - 1]
  BY WhereSteps
<1> DEFINE good == {i \in 0 .. n : kept[i] = SubSeq(s, 1, i)}
<1>2. n \in Nat
  OBVIOUS
<1>3. 0 \in good
  <2>1. SubSeq(s, 1, 0) = <<>>
    BY SubSeqEmpty
  <2>2. 0 \in 0 .. n
    BY <1>2
  <2> QED BY <1>1, <2>1, <2>2
<1>4. ASSUME NEW i \in 1 .. n, i - 1 \in good PROVE i \in good
  <2>1. kept[i] = Append(SubSeq(s, 1, i - 1), s[i])
    BY <1>1, <1>4
  <2>2. Append(SubSeq(s, 1, i - 1), s[i]) = SubSeq(s, 1, i)
    OBVIOUS
  <2> QED BY <2>1, <2>2
<1>5. \A i \in 0 .. n : i \in good
  <2> HIDE DEF good
  <2> QED BY <1>2, <1>3, <1>4, ByNumber
<1>6. n \in good
  <2> HIDE DEF good
  <2> QED BY <1>2, <1>5
<1>7. SubSeq(s, 1, n) = s
  OBVIOUS
<1> QED BY <1>1, <1>6, <1>7

\* A rising list of places is not longer than the places there are.
LEMMA RisingShort ==
  ASSUME NEW m \in Nat, NEW n \in Nat, NEW p \in [1 .. m -> 1 .. n], Rising(p, m)
  PROVE  m <= n
<1> DEFINE good == {k \in 0 .. m : k > 0 => p[k] >= k}
<1>1. 0 \in good
  OBVIOUS
<1>2. ASSUME NEW k \in 1 .. m, k - 1 \in good PROVE k \in good
  <2>1. p[k] \in 1 .. n
    OBVIOUS
  <2>2. CASE k = 1
    BY <2>1, <2>2
  <2>3. CASE k # 1
    <3>1. k - 1 \in 1 .. m /\ k - 1 < k
      BY <2>3
    <3>2. p[k - 1] < p[k] /\ p[k - 1] \in 1 .. n
      BY <3>1 DEF Rising
    <3>3. p[k - 1] >= k - 1
      BY <1>2, <3>1
    <3>4. p[k] >= k
      BY <2>1, <3>2, <3>3
    <3> QED BY <3>4
  <2> QED BY <2>2, <2>3
<1>3. \A k \in 0 .. m : k \in good
  <2> HIDE DEF good
  <2> QED BY <1>1, <1>2, ByNumber
<1>4. m > 0 => p[m] >= m /\ p[m] \in 1 .. n
  <2>1. m \in good
    <3> HIDE DEF good
    <3> QED BY <1>3
  <2> QED BY <2>1
<1> QED BY <1>4

\* w rises, and has what s has in some places.
Sifted(w, s, places) ==
  /\ w \in Seq(Int) /\ Rising(w, Len(w)) /\ Len(w) <= Len(s)
  /\ \A k \in 1 .. Len(w) : \E i \in 1 .. Len(s) : i \in places /\ w[k] = s[i]
  /\ \A i \in 1 .. Len(s) : i \in places => \E k \in 1 .. Len(w) : w[k] = s[i]

\* What is in some places of a rising list rises too, and it is what they have.
LEMMA WhereRises ==
  ASSUME NEW s \in Seq(Int), NEW places, Rising(s, Len(s))
  PROVE  Sifted(Where(s, places), s, places)
<1> DEFINE n == Len(s)
           w == Where(s, places)
<1>1. n \in Nat /\ \A i \in 1 .. n : s[i] \in Int
  OBVIOUS
<1>2. w \in Seq(Int)
  BY WhereIs
<1>3. Picks(s, places, n, w)
  BY WhereIs
<1> HIDE DEF w, n
<1>4. PICK m \in Nat : \E pick \in [1 .. m -> 1 .. n] :
        /\ Rising(pick, m)
        /\ \A i \in 1 .. n : i \in places <=> \E k \in 1 .. m : pick[k] = i
        /\ w = [k \in 1 .. m |-> s[pick[k]]]
  BY <1>3 DEF Picks
<1>5. PICK pick \in [1 .. m -> 1 .. n] :
        /\ Rising(pick, m)
        /\ \A i \in 1 .. n : i \in places <=> \E k \in 1 .. m : pick[k] = i
        /\ w = [k \in 1 .. m |-> s[pick[k]]]
  BY <1>4
<1>6. Len(w) = m
  BY <1>2, <1>5
<1>7. m <= n
  BY <1>1, <1>5, RisingShort
<1>8. \A k \in 1 .. m : pick[k] \in 1 .. n /\ w[k] = s[pick[k]]
  BY <1>5
<1>9. Rising(w, m)
  BY <1>5, <1>8 DEF Rising, n
<1>10. /\ \A k \in 1 .. Len(w) : \E i \in 1 .. n : i \in places /\ w[k] = s[i]
       /\ \A i \in 1 .. n : i \in places => \E k \in 1 .. Len(w) : w[k] = s[i]
  BY <1>5, <1>6, <1>8
<1>11. Sifted(w, s, places)
  BY <1>2, <1>6, <1>7, <1>9, <1>10 DEF Sifted, n
<1> QED BY <1>11 DEF w

-----------------------------------------------------------------------------
(* Ranges that tile a list *)

\* b marks where each of the ranges from one place of s to another ends.
Marks(b, s, R, from, to) ==
  /\ b \in [0 .. Len(R) -> Nat] /\ b[0] = from /\ b[Len(R)] = to
  /\ \A k \in 1 .. Len(R) : b[k - 1] < b[k] /\ R[k] = SubSeq(s, b[k - 1] + 1, b[k])

Tiles(s, R, from, to) == R \in Seq(Seq(Int)) /\ \E b : Marks(b, s, R, from, to)

\* Later ranges end later.
LEMMA MarksRise ==
  ASSUME NEW s, NEW R \in Seq(Seq(Int)), NEW from, NEW to, NEW b, Marks(b, s, R, from, to)
  PROVE  /\ \A k \in 0 .. Len(R) : b[k] \in Nat
         /\ \A i, j \in 0 .. Len(R) : i < j => b[i] < b[j]
<1>1. Len(R) \in Nat /\ \A k \in 0 .. Len(R) : b[k] \in Nat
  <2>1. b \in [0 .. Len(R) -> Nat]
    BY DEF Marks
  <2>2. Len(R) \in Nat
    OBVIOUS
  <2> QED BY <2>1, <2>2
<1> SUFFICES ASSUME NEW i \in 0 .. Len(R) PROVE \A j \in 0 .. Len(R) : i < j => b[i] < b[j]
  BY <1>1
<1> DEFINE good == {j \in 0 .. Len(R) : i < j => b[i] < b[j]}
<1>2. 0 \in good
  BY <1>1
<1>3. ASSUME NEW j \in 1 .. Len(R), j - 1 \in good PROVE j \in good
  <2>1. b[j - 1] < b[j]
    BY DEF Marks
  <2>2. j \in 0 .. Len(R) /\ j - 1 \in 0 .. Len(R)
    OBVIOUS
  <2>3. CASE i < j - 1
    <3>1. b[i] < b[j - 1]
      BY <1>3, <2>3
    <3>2. b[i] \in Nat /\ b[j - 1] \in Nat /\ b[j] \in Nat
      BY <1>1, <2>2
    <3>3. b[i] < b[j]
      BY <2>1, <3>1, <3>2
    <3> QED BY <2>2, <3>3
  <2>4. CASE i = j - 1
    BY <2>1, <2>2, <2>4
  <2>5. CASE i > j - 1
    BY <2>2, <2>5
  <2> QED BY <2>3, <2>4, <2>5
<1>4. \A j \in 0 .. Len(R) : j \in good
  <2> HIDE DEF good
  <2> QED BY <1>1, <1>2, <1>3, ByNumber
<1> QED BY <1>4

\* A range tiles itself.
LEMMA TilesOne ==
  ASSUME NEW s \in Seq(Int), s # <<>>
  PROVE  Tiles(s, <<s>>, 0, Len(s)) /\ Len(<<s>>) = 1
<1>1. Len(s) \in Nat /\ 0 < Len(s)
  OBVIOUS
<1> DEFINE b == [k \in 0 .. 1 |-> IF k = 0 THEN 0 ELSE Len(s)]
<1>2. b \in [0 .. 1 -> Nat] /\ b[0] = 0 /\ b[1] = Len(s)
  BY <1>1
<1>3. SubSeq(s, 0 + 1, Len(s)) = s
  OBVIOUS
<1>4. Len(<<s>>) = 1 /\ <<s>>[1] = s /\ <<s>> \in Seq(Seq(Int))
  OBVIOUS
<1> HIDE DEF b
<1>5. ASSUME NEW k \in 1 .. 1 PROVE b[k - 1] < b[k] /\ <<s>>[k] = SubSeq(s, b[k - 1] + 1, b[k])
  <2>1. k = 1 /\ k - 1 = 0
    OBVIOUS
  <2> QED BY <1>1, <1>2, <1>3, <1>4, <2>1
<1>6. Marks(b, s, <<s>>, 0, Len(s))
  BY <1>2, <1>4, <1>5 DEF Marks
<1> QED BY <1>4, <1>6 DEF Tiles

\* Ranges up to a place and ranges from it on.
LEMMA TilesJoin ==
  ASSUME NEW s, NEW P, NEW Q, NEW from, NEW mid, NEW to, Tiles(s, P, from, mid), Tiles(s, Q, mid, to)
  PROVE  Tiles(s, P \o Q, from, to) /\ Len(P \o Q) = Len(P) + Len(Q)
<1>1. P \in Seq(Seq(Int)) /\ Q \in Seq(Seq(Int))
  BY DEF Tiles
<1>2. PICK b : Marks(b, s, P, from, mid)
  BY DEF Tiles
<1>3. PICK c : Marks(c, s, Q, mid, to)
  BY DEF Tiles
<1> DEFINE m == Len(P)
           n == Len(Q)
           d == [k \in 0 .. m + n |-> IF k <= m THEN b[k] ELSE c[k - m]]
<1>4. /\ m \in Nat /\ n \in Nat /\ P \o Q \in Seq(Seq(Int)) /\ Len(P \o Q) = m + n
      /\ \A k \in 1 .. m : (P \o Q)[k] = P[k]
      /\ \A k \in m + 1 .. m + n : (P \o Q)[k] = Q[k - m]
  BY <1>1
<1>5. /\ b \in [0 .. m -> Nat] /\ b[0] = from /\ b[m] = mid
      /\ \A k \in 1 .. m : b[k - 1] < b[k] /\ P[k] = SubSeq(s, b[k - 1] + 1, b[k])
  BY <1>2 DEF Marks
<1>6. /\ c \in [0 .. n -> Nat] /\ c[0] = mid /\ c[n] = to
      /\ \A k \in 1 .. n : c[k - 1] < c[k] /\ Q[k] = SubSeq(s, c[k - 1] + 1, c[k])
  BY <1>3 DEF Marks
<1> HIDE DEF m, n
<1>7. d \in [0 .. m + n -> Nat]
  <2> SUFFICES ASSUME NEW k \in 0 .. m + n PROVE (IF k <= m THEN b[k] ELSE c[k - m]) \in Nat
    OBVIOUS
  <2>1. k <= m => k \in 0 .. m
    BY <1>4
  <2>2. ~(k <= m) => k - m \in 0 .. n
    BY <1>4
  <2> QED BY <1>5, <1>6, <2>1, <2>2
<1>8. /\ \A k \in 0 .. m : d[k] = b[k]
      /\ \A k \in 0 .. n : d[m + k] = c[k]
  <2>1. \A k \in 0 .. m : k \in 0 .. m + n /\ k <= m
    BY <1>4
  <2>2. ASSUME NEW k \in 0 .. n PROVE d[m + k] = c[k]
    <3>1. CASE k = 0
      <4>1. m \in 0 .. m + n /\ m <= m /\ m + k = m
        BY <1>4, <3>1
      <4> QED BY <1>5, <1>6, <3>1, <4>1
    <3>2. CASE k # 0
      <4>1. m + k \in 0 .. m + n /\ ~(m + k <= m) /\ (m + k) - m = k
        BY <1>4, <3>2
      <4> QED BY <4>1
    <3> QED BY <3>1, <3>2
  <2> QED BY <2>1, <2>2
<1> HIDE DEF d
<1>9. d[0] = from /\ d[m + n] = to
  <2>1. 0 \in 0 .. m /\ n \in 0 .. n
    BY <1>4
  <2> QED BY <1>5, <1>6, <1>8, <2>1
<1>10. ASSUME NEW k \in 1 .. m + n
       PROVE  d[k - 1] < d[k] /\ (P \o Q)[k] = SubSeq(s, d[k - 1] + 1, d[k])
  <2>1. CASE k <= m
    <3>1. k \in 1 .. m /\ k - 1 \in 0 .. m /\ k \in 0 .. m
      BY <1>4, <2>1
    <3> QED BY <1>4, <1>5, <1>8, <3>1
  <2>2. CASE ~(k <= m)
    <3> DEFINE i == k - m
    <3>1. i \in 1 .. n /\ i - 1 \in 0 .. n /\ i \in 0 .. n /\ k \in m + 1 .. m + n /\ m + i = k /\ m + (i - 1) = k - 1
      BY <1>4, <2>2
    <3>2. (P \o Q)[k] = Q[i]
      BY <1>4, <3>1
    <3> HIDE DEF i
    <3>3. d[k] = c[i] /\ d[k - 1] = c[i - 1]
      BY <1>8, <3>1
    <3> QED BY <1>6, <3>1, <3>2, <3>3
  <2> QED BY <2>1, <2>2
<1>11. Marks(d, s, P \o Q, from, to)
  BY <1>4, <1>7, <1>9, <1>10 DEF Marks
<1> QED BY <1>4, <1>11 DEF Tiles, m, n

\* A stretch of a stretch.
LEMMA SubSub ==
  ASSUME NEW S, NEW s \in Seq(S), NEW from \in Nat, NEW to \in Nat, to <= Len(s),
         NEW x \in Nat, NEW y \in Nat, x < y, y <= to - from
  PROVE  SubSeq(SubSeq(s, from + 1, to), x + 1, y) = SubSeq(s, (x + from) + 1, y + from)
<1>1. ASSUME NEW i \in 1 .. Len(s), NEW j \in 1 .. Len(s), NEW m \in 1 .. j - i + 1, NEW n \in 1 .. j - i + 1
      PROVE  SubSeq(SubSeq(s, i, j), m, n) = SubSeq(s, i + m - 1, i + n - 1)
  BY SubSeqOfSubSeq
<1> DEFINE i == from + 1
           m == x + 1
<1>2. i \in 1 .. Len(s) /\ to \in 1 .. Len(s) /\ m \in 1 .. to - i + 1 /\ y \in 1 .. to - i + 1
  OBVIOUS
<1>3. i + m - 1 = (x + from) + 1 /\ i + y - 1 = y + from
  OBVIOUS
<1> HIDE DEF i, m
<1>4. SubSeq(SubSeq(s, i, to), m, y) = SubSeq(s, i + m - 1, i + y - 1)
  BY <1>1, <1>2
<1> QED BY <1>3, <1>4 DEF i, m

\* The ranges of a stretch of a list are ranges of the list.
LEMMA TilesInside ==
  ASSUME NEW s \in Seq(Int), NEW from \in Nat, NEW to \in Nat, from <= to, to <= Len(s), NEW R,
         Tiles(SubSeq(s, from + 1, to), R, 0, to - from)
  PROVE  Tiles(s, R, from, to)
<1> DEFINE p == SubSeq(s, from + 1, to)
           n == Len(R)
<1>1. R \in Seq(Seq(Int)) /\ n \in Nat
  BY DEF Tiles
<1>2. PICK b : Marks(b, p, R, 0, to - from)
  BY DEF Tiles
<1>3. /\ b \in [0 .. n -> Nat] /\ b[0] = 0 /\ b[n] = to - from
      /\ \A k \in 1 .. n : b[k - 1] < b[k] /\ R[k] = SubSeq(p, b[k - 1] + 1, b[k])
  BY <1>2 DEF Marks
<1>4. /\ \A k \in 0 .. n : b[k] \in Nat
      /\ \A i, j \in 0 .. n : i < j => b[i] < b[j]
  BY <1>1, <1>2, MarksRise
<1>5. \A k \in 0 .. n : b[k] <= to - from
  <2> SUFFICES ASSUME NEW k \in 0 .. n PROVE b[k] <= to - from
    OBVIOUS
  <2>1. CASE k = n
    BY <1>3, <2>1
  <2>2. CASE k # n
    <3>1. k < n /\ n \in 0 .. n
      BY <1>1, <2>2
    <3>2. b[k] < b[n]
      BY <1>4, <3>1
    <3> QED BY <1>3, <1>4, <3>2
  <2> QED BY <2>1, <2>2
<1> DEFINE c == [k \in 0 .. n |-> b[k] + from]
<1>6. c \in [0 .. n -> Nat]
  BY <1>4
<1>7. \A k \in 0 .. n : c[k] = b[k] + from
  OBVIOUS
<1> HIDE DEF c, n
<1>8. c[0] = from /\ c[n] = to
  <2>1. 0 \in 0 .. n /\ n \in 0 .. n
    BY <1>1
  <2> QED BY <1>3, <1>7, <2>1
<1>9. ASSUME NEW k \in 1 .. n PROVE c[k - 1] < c[k] /\ R[k] = SubSeq(s, c[k - 1] + 1, c[k])
  <2>1. k \in 0 .. n /\ k - 1 \in 0 .. n
    BY <1>1
  <2>2. b[k - 1] < b[k] /\ b[k - 1] \in Nat /\ b[k] \in Nat /\ b[k] <= to - from /\ R[k] = SubSeq(p, b[k - 1] + 1, b[k])
    BY <1>3, <1>4, <1>5, <2>1
  <2> DEFINE x == b[k - 1]
             y == b[k]
  <2>3. x < y /\ x \in Nat /\ y \in Nat /\ y <= to - from /\ R[k] = SubSeq(p, x + 1, y) /\ c[k - 1] = x + from /\ c[k] = y + from
    BY <1>7, <2>1, <2>2
  <2> HIDE DEF x, y
  <2>4. SubSeq(p, x + 1, y) = SubSeq(s, (x + from) + 1, y + from)
    BY <2>3, SubSub
  <2> HIDE DEF p
  <2> QED BY <2>3, <2>4
<1>10. Marks(c, s, R, from, to)
  BY <1>6, <1>8, <1>9 DEF Marks, n
<1> QED BY <1>1, <1>10 DEF Tiles

\* Ends that rise up to the end of a list cut it in as many ranges.
Cutting(ends, s) ==
  /\ ends \in Seq(Int) /\ Rising(ends, Len(ends)) /\ Len(ends) >= 1 /\ ends[1] >= 1 /\ ends[Len(ends)] = Len(s)

LEMMA SlicesTile ==
  ASSUME NEW s \in Seq(Int), NEW ends, Cutting(ends, s)
  PROVE  Tiles(s, Slices(s, ends), 0, Len(s)) /\ Len(Slices(s, ends)) = Len(ends)
<1> DEFINE m == Len(ends)
           n == Len(s)
           slices == [k \in DOMAIN ends |-> SubSeq(s, IF k = 1 THEN 1 ELSE ends[k - 1] + 1, ends[k])]
           b == [k \in 0 .. m |-> IF k = 0 THEN 0 ELSE ends[k]]
<1>1. m \in Nat /\ m >= 1 /\ n \in Nat /\ DOMAIN ends = 1 .. m /\ \A k \in 1 .. m : ends[k] \in Int
  BY DEF Cutting
<1>2. /\ ends[1] >= 1 /\ ends[m] = n /\ \A i, j \in 1 .. m : i < j => ends[i] < ends[j]
  BY DEF Cutting, Rising
<1> HIDE DEF m, n
<1>3. \A k \in 1 .. m : ends[k] >= 1 /\ ends[k] <= n
  <2> SUFFICES ASSUME NEW k \in 1 .. m PROVE ends[k] >= 1 /\ ends[k] <= n
    OBVIOUS
  <2>1. 1 \in 1 .. m /\ m \in 1 .. m /\ ends[1] \in Int /\ ends[k] \in Int /\ ends[m] \in Int
    BY <1>1
  <2>2. ends[k] >= 1
    <3>1. CASE k = 1
      BY <1>2, <3>1
    <3>2. CASE k # 1
      <4>1. 1 < k
        BY <3>2
      <4>2. ends[1] < ends[k]
        BY <1>2, <2>1, <4>1
      <4> QED BY <1>2, <2>1, <4>2
    <3> QED BY <3>1, <3>2
  <2>3. ends[k] <= n
    <3>1. CASE k = m
      BY <1>1, <1>2, <3>1
    <3>2. CASE k # m
      <4>1. k < m
        BY <1>1, <3>2
      <4>2. ends[k] < ends[m]
        BY <1>2, <2>1, <4>1
      <4> QED BY <1>1, <1>2, <2>1, <4>2
    <3> QED BY <3>1, <3>2
  <2> QED BY <2>2, <2>3
<1>4. b \in [0 .. m -> Nat] /\ b[0] = 0 /\ \A k \in 1 .. m : b[k] = ends[k]
  <2>1. \A k \in 0 .. m : (IF k = 0 THEN 0 ELSE ends[k]) \in Nat
    BY <1>1, <1>3
  <2>2. 0 \in 0 .. m /\ \A k \in 1 .. m : k \in 0 .. m /\ k # 0
    BY <1>1
  <2> QED BY <2>1, <2>2
<1> HIDE DEF b
<1>5. ASSUME NEW k \in 1 .. m
      PROVE  /\ b[k - 1] < b[k] /\ b[k] <= n /\ b[k - 1] \in Nat /\ b[k] \in Nat
             /\ slices[k] = SubSeq(s, b[k - 1] + 1, b[k])
  <2>1. slices[k] = SubSeq(s, IF k = 1 THEN 1 ELSE ends[k - 1] + 1, ends[k])
    BY <1>1
  <2> HIDE DEF slices
  <2>2. CASE k = 1
    BY <1>1, <1>3, <1>4, <2>1, <2>2
  <2>3. CASE k # 1
    <3>1. k - 1 \in 1 .. m /\ k - 1 < k
      BY <1>1, <2>3
    <3>2. b[k] = ends[k] /\ b[k - 1] = ends[k - 1]
      BY <1>4, <3>1
    <3>3. ends[k - 1] < ends[k]
      BY <1>2, <3>1
    <3>4. ends[k] \in Nat /\ ends[k - 1] \in Nat /\ ends[k] <= n
      BY <1>1, <1>3, <3>1
    <3>5. slices[k] = SubSeq(s, ends[k - 1] + 1, ends[k])
      BY <2>1, <2>3
    <3> QED BY <3>2, <3>3, <3>4, <3>5
  <2> QED BY <2>2, <2>3
<1>6. \A k \in 1 .. m : slices[k] \in Seq(Int) /\ slices[k] # <<>>
  <2> SUFFICES ASSUME NEW k \in 1 .. m PROVE slices[k] \in Seq(Int) /\ slices[k] # <<>>
    OBVIOUS
  <2> DEFINE x == b[k - 1]
             y == b[k]
  <2>1. x \in Nat /\ y \in Nat /\ x < y /\ y <= n /\ slices[k] = SubSeq(s, x + 1, y)
    BY <1>5
  <2> HIDE DEF x, y, slices
  <2>2. SubSeq(s, x + 1, y) \in Seq(Int) /\ Len(SubSeq(s, x + 1, y)) = y - x
    BY <2>1 DEF n
  <2>3. Len(slices[k]) > 0
    BY <2>1, <2>2
  <2>4. slices[k] # <<>>
    BY <2>3
  <2> QED BY <2>1, <2>2, <2>4
<1>7. slices \in Seq(Seq(Int)) /\ Len(slices) = m /\ DOMAIN ends = 1 .. Len(slices)
  <2>1. slices = [k \in 1 .. m |-> slices[k]]
    BY <1>1
  <2> HIDE DEF slices
  <2> QED BY SMTT(60), <1>1, <1>6, <2>1
<1>8. Slices(s, ends) = Where(slices, {k \in DOMAIN ends : slices[k] # <<>>})
  BY DEF Slices
<1> HIDE DEF slices
<1>9. Slices(s, ends) = slices
  <2>1. 1 .. Len(slices) \subseteq {k \in DOMAIN ends : slices[k] # <<>>}
    BY <1>1, <1>6, <1>7
  <2> QED BY <1>7, <1>8, <2>1, WhereAll
<1>10. b[m] = n
  BY <1>1, <1>2, <1>4
<1>11. Marks(b, s, slices, 0, n)
  BY <1>4, <1>5, <1>7, <1>10 DEF Marks
<1> QED BY <1>7, <1>9, <1>11 DEF Tiles, m, n

\* The places where a day breaks, in order, cut it.
LEMMA DayBreaksCut ==
  ASSUME NEW s \in Seq(Int), Len(s) >= 1
  PROVE  Cutting(Where([i \in DOMAIN s |-> i], Breaks(s)), s)
<1> DEFINE n == Len(s)
           id == [i \in DOMAIN s |-> i]
           w == Where(id, Breaks(s))
<1>1. n \in Nat /\ n >= 1 /\ DOMAIN s = 1 .. n
  OBVIOUS
<1>2. id \in Seq(Int) /\ Len(id) = n /\ \A i \in 1 .. n : id[i] = i
  <2>1. id = [i \in 1 .. n |-> i]
    BY <1>1
  <2> HIDE DEF id
  <2> QED BY <1>1, <2>1
<1> HIDE DEF id, n
<1>3. Rising(id, Len(id))
  BY <1>2 DEF Rising
<1>4. Sifted(w, id, Breaks(s))
  BY <1>2, <1>3, WhereRises
<1>5. n \in Breaks(s)
  BY <1>1 DEF Breaks, n
<1> HIDE DEF w
<1>6. w \in Seq(Int) /\ Len(w) \in Nat /\ \A k \in 1 .. Len(w) : w[k] \in 1 .. n
  <2>1. w \in Seq(Int)
    BY <1>4 DEF Sifted
  <2>2. \A k \in 1 .. Len(w) : \E i \in 1 .. n : w[k] = i
    BY <1>2, <1>4 DEF Sifted
  <2> QED BY <2>1, <2>2
<1>7. PICK k \in 1 .. Len(w) : w[k] = n
  <2>1. n \in 1 .. Len(id) /\ id[n] = n
    BY <1>1, <1>2
  <2> QED BY <1>4, <1>5, <2>1 DEF Sifted
<1>8. Rising(w, Len(w))
  BY <1>4 DEF Sifted
<1>9. w[Len(w)] = n
  <2>1. Len(w) \in 1 .. Len(w)
    BY <1>6
  <2>2. CASE k = Len(w)
    BY <1>7, <2>2
  <2>3. CASE k # Len(w)
    <3>1. k < Len(w)
      BY <1>6, <2>3
    <3>2. w[k] < w[Len(w)]
      BY <1>8, <2>1, <3>1 DEF Rising
    <3> QED BY <1>1, <1>6, <1>7, <2>1, <3>2
  <2> QED BY <2>2, <2>3
<1>10. Len(w) >= 1 /\ w[1] >= 1
  <2>1. 1 \in 1 .. Len(w)
    BY <1>6
  <2> QED BY <1>6, <2>1
<1>11. Cutting(w, s)
  BY <1>6, <1>8, <1>9, <1>10 DEF Cutting, n
<1> QED BY <1>11 DEF w, id

\* A day is cut in its breaks.
LEMMA DayGapsTile ==
  ASSUME NEW s \in Seq(Int), s # <<>>
  PROVE  Tiles(s, SplitByDayGaps(s), 0, Len(s))
<1>1. CASE Len(s) < 3
  BY <1>1, TilesOne DEF SplitByDayGaps
<1>2. CASE ~(Len(s) < 3)
  <2>1. Len(s) >= 1
    OBVIOUS
  <2>2. Cutting(Where([i \in DOMAIN s |-> i], Breaks(s)), s)
    BY <2>1, DayBreaksCut
  <2>3. Tiles(s, Slices(s, Where([i \in DOMAIN s |-> i], Breaks(s))), 0, Len(s))
    BY <2>2, SlicesTile
  <2> QED BY <1>2, <2>3 DEF SplitByDayGaps
<1> QED BY <1>1, <1>2

-----------------------------------------------------------------------------
(* Cuts *)

\* What holds of a set whenever it holds of it without any one of its members, holds of every
\* finite set.
LEMMA BySmaller ==
  ASSUME NEW S, IsFiniteSet(S), NEW good,
         \A T \in SUBSET S : (\A x \in T : T \ {x} \in good) => T \in good
  PROVE  S \in good
<1> SUFFICES ASSUME S \notin good PROVE FALSE
  OBVIOUS
<1>1. \A T \in SUBSET S : IsFiniteSet(T) /\ Cardinality(T) \in Nat
  BY FS_Subset, FS_CardinalityType
<1> DEFINE bad == {T \in SUBSET S : T \notin good}
           sizes == {Cardinality(T) : T \in bad}
<1>2. sizes \subseteq Nat /\ Cardinality(S) \in sizes
  BY <1>1
<1>3. PICK n \in sizes : \A m \in sizes : ~ (<<m, n>> \in Smaller)
  BY <1>2, WFMin, SmallerWF
<1>4. PICK T \in bad : n = Cardinality(T)
  BY <1>3
<1>5. PICK x \in T : T \ {x} \in bad
  BY <1>4
<1>6. Cardinality(T \ {x}) = Cardinality(T) - 1
  BY <1>1, <1>4, <1>5, FS_RemoveElement
<1>7. Cardinality(T \ {x}) \in sizes /\ Cardinality(T) \in Nat /\ Cardinality(T \ {x}) \in Nat
  BY <1>1, <1>4, <1>5
<1>8. <<Cardinality(T \ {x}), Cardinality(T)>> \in Smaller
  BY <1>6, <1>7 DEF Smaller
<1> QED BY <1>3, <1>4, <1>7, <1>8

\* Of finitely many, one comes to the most.
LEMMA Largest ==
  ASSUME NEW S, IsFiniteSet(S), S # {}, NEW f, \A x \in S : f[x] \in Int
  PROVE  \E x \in S : \A y \in S : f[x] >= f[y]
<1> DEFINE good == {T \in SUBSET S : T # {} => \E x \in T : \A y \in T : f[x] >= f[y]}
<1>1. ASSUME NEW T \in SUBSET S, \A x \in T : T \ {x} \in good PROVE T \in good
  <2> SUFFICES ASSUME T # {} PROVE \E x \in T : \A y \in T : f[x] >= f[y]
    OBVIOUS
  <2>1. PICK x : x \in T
    OBVIOUS
  <2>2. f[x] \in Int /\ \A y \in T : f[y] \in Int
    BY <2>1
  <2>3. CASE T \ {x} = {}
    <3>1. \A y \in T : y = x
      BY <2>3
    <3> QED BY <2>1, <2>2, <3>1
  <2>4. CASE T \ {x} # {}
    <3>1. PICK z \in T \ {x} : \A y \in T \ {x} : f[z] >= f[y]
      BY <1>1, <2>1, <2>4
    <3>2. CASE f[z] >= f[x]
      BY <2>2, <3>1, <3>2
    <3>3. CASE ~(f[z] >= f[x])
      <4>1. \A y \in T : f[x] >= f[y]
        BY <2>2, <3>1, <3>3
      <4> QED BY <2>1, <4>1
    <3> QED BY <3>2, <3>3
  <2> QED BY <2>3, <2>4
<1> HIDE DEF good
<1>2. S \in good
  BY <1>1, BySmaller
<1> QED BY <1>2 DEF good

\* i comes to more of f than j, or to as much and less of g, or to as much of both and is before.
Better(f, g, i, j) == f[i] > f[j] \/ (f[i] = f[j] /\ (g[i] < g[j] \/ (g[i] = g[j] /\ i < j)))

\* Of finitely many numbers, one is better than the others.
LEMMA BestExists ==
  ASSUME NEW S, IsFiniteSet(S), S # {}, S \subseteq Int, NEW f, NEW g, \A x \in S : f[x] \in Int /\ g[x] \in Int
  PROVE  \E i \in S : \A j \in S \ {i} : Better(f, g, i, j)
<1>1. PICK x \in S : \A y \in S : f[x] >= f[y]
  BY Largest
<1> DEFINE most == {y \in S : f[y] = f[x]}
           h == [y \in S |-> - g[y]]
<1>2. PICK z \in most : \A y \in most : h[z] >= h[y]
  <2>1. IsFiniteSet(most)
    BY FS_Subset
  <2>2. x \in most /\ \A y \in most : h[y] \in Int
    OBVIOUS
  <2> HIDE DEF most, h
  <2> QED BY <2>1, <2>2, Largest
<1>3. \A y \in most : g[z] <= g[y]
  BY <1>2
<1> DEFINE near == {y \in most : g[y] = g[z]}
           c == [y \in S |-> - y]
<1>4. PICK i \in near : \A y \in near : c[i] >= c[y]
  <2>1. IsFiniteSet(near)
    BY FS_Subset
  <2>2. z \in near /\ \A y \in near : c[y] \in Int
    OBVIOUS
  <2> HIDE DEF near, c
  <2> QED BY <2>1, <2>2, Largest
<1>5. \A y \in near : i <= y
  BY <1>4
<1>6. ASSUME NEW j \in S \ {i} PROVE Better(f, g, i, j)
  <2>1. f[i] = f[x] /\ g[i] = g[z] /\ i \in S /\ f[x] >= f[j] /\ f[j] \in Int /\ f[x] \in Int /\ g[j] \in Int /\ g[z] \in Int
    BY <1>1
  <2>2. CASE f[j] # f[x]
    BY <2>1, <2>2 DEF Better
  <2>3. CASE f[j] = f[x] /\ g[j] # g[z]
    <3>1. g[z] <= g[j]
      BY <1>3, <2>3
    <3> QED BY <2>1, <2>3, <3>1 DEF Better
  <2>4. CASE f[j] = f[x] /\ g[j] = g[z]
    <3>1. i <= j /\ i # j
      BY <1>5, <2>4
    <3> QED BY <2>1, <2>4, <3>1 DEF Better
  <2> QED BY <2>2, <2>3, <2>4
<1> QED BY <1>6

\* The next cut comes after the one before, and leaves something for each of the pieces left.
LEMMA NextCutFits ==
  ASSUME ScreensAssumption, NEW s \in Seq(Int), NEW parts \in Nat, NEW capacity \in Nat \ {0},
         NEW k \in 1 .. parts - 1, NEW previous \in 0 .. Len(s) - (parts - k + 1)
  PROVE  NextCut(s, parts, capacity, k, previous) \in previous + 1 .. Len(s) - (parts - k)
<1> DEFINE n == Len(s)
           left == parts - k
           ideal == Round(k * n, parts)
<1>1. n \in Nat /\ left \in Nat /\ left >= 1 /\ left * capacity \in Int /\ previous \in Nat /\ previous < n - left /\ k * n \in Nat
  <2>1. \A a, b \in Nat : a * b \in Nat
    OBVIOUS
  <2>2. n \in Nat /\ left \in Nat /\ left >= 1 /\ previous \in Nat /\ previous < n - left /\ k \in Nat
    OBVIOUS
  <2> HIDE DEF n, left
  <2> QED BY <2>1, <2>2
<1>2. ideal \in Int
  <2>1. (2 * (k * n) + parts) \in Nat /\ 2 * parts \in Nat \ {0}
    BY <1>1
  <2> HIDE DEF n
  <2>2. (2 * (k * n) + parts) \div (2 * parts) \in Int
    BY <2>1
  <2> QED BY <2>2 DEF Round
<1> HIDE DEF n, left, ideal
<1> DEFINE off == [i \in Int |-> LargerOf(i - ideal, ideal - i)]
           gap == [i \in Int |-> Gap(s, i)]
           lo == LargerOf(previous + 1, LargerOf(ideal - CutTolerance, n - left * capacity))
           hi == SmallerOf(previous + capacity, SmallerOf(n - left, ideal + CutTolerance))
           Best(i) == \A j \in lo .. hi \ {i} :
                        \/ Gap(s, i) > Gap(s, j)
                        \/ /\ Gap(s, i) = Gap(s, j)
                           /\ \/ LargerOf(i - ideal, ideal - i) < LargerOf(j - ideal, ideal - j)
                              \/ LargerOf(i - ideal, ideal - i) = LargerOf(j - ideal, ideal - j) /\ i < j
<1>3. NextCut(s, parts, capacity, k, previous) =
        IF lo > hi THEN LargerOf(1, SmallerOf(previous + capacity, n - left)) ELSE CHOOSE i \in lo .. hi : Best(i)
  BY Zenon DEF NextCut, n, left, ideal
<1>4. lo \in Int /\ hi \in Int /\ lo >= previous + 1 /\ hi <= n - left
  BY <1>1, <1>2 DEF SmallerOf, LargerOf, ScreensAssumption
<1>5. LargerOf(1, SmallerOf(previous + capacity, n - left)) \in previous + 1 .. n - left
  BY <1>1 DEF SmallerOf, LargerOf
<1>6. ASSUME ~(lo > hi) PROVE \E i \in lo .. hi : Best(i)
  <2>1. \A i \in lo .. hi : off[i] \in Int /\ gap[i] \in Int /\ off[i] = LargerOf(i - ideal, ideal - i) /\ gap[i] = Gap(s, i)
    <3> HIDE DEF lo, hi
    <3> SUFFICES ASSUME NEW i \in lo .. hi PROVE off[i] \in Int /\ gap[i] \in Int /\ off[i] = LargerOf(i - ideal, ideal - i) /\ gap[i] = Gap(s, i)
      OBVIOUS
    <3>1. i \in Int /\ i >= 1 /\ i + 1 <= n
      BY <1>1, <1>4
    <3>2. s[i] \in Int /\ s[i + 1] \in Int
      BY <1>1, <3>1 DEF n
    <3>3. Gap(s, i) \in Int
      BY <3>2 DEF Gap
    <3>4. LargerOf(i - ideal, ideal - i) \in Int
      BY <1>2, <3>1 DEF LargerOf
    <3> QED BY <3>1, <3>3, <3>4
  <2> HIDE DEF lo, hi
  <2>2. IsFiniteSet(lo .. hi) /\ lo .. hi # {} /\ lo .. hi \subseteq Int
    <3>1. IsFiniteSet(lo .. hi)
      BY <1>4, FS_Interval
    <3>2. lo \in lo .. hi
      BY <1>4, <1>6
    <3>3. lo .. hi # {}
      BY <3>2
    <3> QED BY <3>1, <3>3
  <2> HIDE DEF off, gap
  <2>3. \A i \in lo .. hi : gap[i] \in Int /\ off[i] \in Int
    BY <2>1
  <2>4. PICK i \in lo .. hi : \A j \in lo .. hi \ {i} : Better(gap, off, i, j)
    BY <2>2, <2>3, BestExists
  <2>5. Best(i)
    BY <2>1, <2>4 DEF Better
  <2> QED BY <2>5
<1> HIDE DEF lo, hi, Best
<1>7. CASE lo > hi
  BY <1>3, <1>5, <1>7 DEF n, left
<1>8. CASE ~(lo > hi)
  <2>1. (CHOOSE i \in lo .. hi : Best(i)) \in lo .. hi
    BY <1>6, <1>8
  <2>2. NextCut(s, parts, capacity, k, previous) \in lo .. hi
    BY <1>3, <1>8, <2>1
  <2> QED BY <1>1, <1>4, <2>2 DEF n, left
<1> QED BY <1>7, <1>8

\* A list in which each number is greater than the one before rises.
LEMMA StepsRise ==
  ASSUME NEW m \in Nat, NEW p, \A k \in 1 .. m : p[k] \in Int, \A k \in 2 .. m : p[k - 1] < p[k]
  PROVE  Rising(p, m)
<1> SUFFICES ASSUME NEW i \in 1 .. m PROVE \A j \in 1 .. m : i < j => p[i] < p[j]
  BY DEF Rising
<1> DEFINE good == {j \in 0 .. m : i < j => p[i] < p[j]}
<1>1. 0 \in good
  OBVIOUS
<1>2. ASSUME NEW j \in 1 .. m, j - 1 \in good PROVE j \in good
  <2>1. j \in 0 .. m
    OBVIOUS
  <2>2. CASE i < j - 1
    <3>1. p[i] < p[j - 1]
      BY <1>2, <2>2
    <3>2. p[j - 1] < p[j] /\ p[i] \in Int /\ p[j - 1] \in Int /\ p[j] \in Int
      BY <2>2
    <3>3. p[i] < p[j]
      BY <3>1, <3>2
    <3> QED BY <2>1, <3>3
  <2>3. CASE i = j - 1
    <3>1. j \in 2 .. m
      BY <2>3
    <3>2. p[i] < p[j]
      BY <2>3, <3>1
    <3> QED BY <2>1, <3>2
  <2>4. CASE i > j - 1
    BY <2>1, <2>4
  <2> QED BY <2>2, <2>3, <2>4
<1>3. \A j \in 0 .. m : j \in good
  <2> HIDE DEF good
  <2> QED BY <1>1, <1>2, ByNumber
<1> QED BY <1>3

\* Each cut comes from the one before.
LEMMA CutSteps ==
  ASSUME ScreensAssumption, NEW s \in Seq(Int), NEW capacity \in Nat \ {0}, NEW parts \in 2 .. Len(s)
  PROVE  \E cut : /\ ChooseCuts(s, parts, capacity) = [k \in 1 .. parts - 1 |-> cut[k]] /\ cut[0] = 0
                  /\ \A k \in 1 .. parts - 1 : cut[k] = NextCut(s, parts, capacity, k, cut[k - 1])
<1> DEFINE n == parts - 1
           Fits(k) == 0 .. Len(s) - (parts - k)
           step == [c \in (1 .. n) \X Int |-> IF c[2] \in Fits(c[1] - 1) THEN NextCut(s, parts, capacity, c[1], c[2]) ELSE 0]
<1>1. n \in Nat /\ parts \in Nat /\ Len(s) \in Nat /\ parts <= Len(s)
  OBVIOUS
<1>2. ASSUME NEW k \in 1 .. n, NEW c \in Fits(k - 1)
      PROVE  NextCut(s, parts, capacity, k, c) \in Int /\ NextCut(s, parts, capacity, k, c) \in Fits(k)
  <2>1. c \in 0 .. Len(s) - (parts - k + 1)
    BY <1>1
  <2>2. NextCut(s, parts, capacity, k, c) \in c + 1 .. Len(s) - (parts - k)
    BY <1>1, <2>1, NextCutFits
  <2> QED BY <1>1, <2>1, <2>2
<1>3. step \in [(1 .. n) \X Int -> Int]
  <2> SUFFICES ASSUME NEW c \in (1 .. n) \X Int
               PROVE (IF c[2] \in Fits(c[1] - 1) THEN NextCut(s, parts, capacity, c[1], c[2]) ELSE 0) \in Int
    OBVIOUS
  <2>1. c[1] \in 1 .. n
    OBVIOUS
  <2> HIDE DEF Fits, n
  <2> QED BY <1>2, <2>1
<1>4. \A k \in 1 .. n : \A c \in Int : c \in Fits(k - 1) => step[<<k, c>>] = NextCut(s, parts, capacity, k, c)
  <2> HIDE DEF Fits, n
  <2> QED OBVIOUS
<1> HIDE DEF step
<1>5. PICK f \in [0 .. n -> Int] : Chained(f, n, 0, step)
  <2>1. 0 \in Int /\ n \in Nat
    BY <1>1
  <2> HIDE DEF n
  <2> QED BY <1>3, <2>1, ChainExists
<1>6. f[0] = 0 /\ \A k \in 1 .. n : f[k] = step[<<k, f[k - 1]>>]
  <2>1. \A k \in 0 .. n : f[k] = IF k = 0 THEN 0 ELSE step[<<k, f[k - 1]>>]
    BY <1>5 DEF Chained
  <2>2. 0 \in 0 .. n /\ \A k \in 1 .. n : k \in 0 .. n /\ k # 0
    BY <1>1
  <2> HIDE DEF n
  <2> QED BY <2>1, <2>2
<1> DEFINE good == {k \in 0 .. n : f[k] \in Fits(k)}
<1>7. 0 \in good
  BY <1>1, <1>6
<1>8. ASSUME NEW k \in 1 .. n, k - 1 \in good PROVE k \in good /\ f[k] = NextCut(s, parts, capacity, k, f[k - 1])
  <2>1. k \in 0 .. n /\ k - 1 \in 0 .. n /\ f[k - 1] \in Int /\ f[k - 1] \in Fits(k - 1)
    BY <1>1, <1>5, <1>8
  <2> HIDE DEF n, Fits
  <2>2. f[k] = NextCut(s, parts, capacity, k, f[k - 1])
    BY <1>4, <1>6, <2>1
  <2>3. f[k] \in Fits(k)
    BY <1>2, <2>1, <2>2
  <2> QED BY <2>1, <2>2, <2>3
<1>9. \A k \in 0 .. n : k \in good
  <2> HIDE DEF good, n
  <2> QED BY <1>1, <1>7, <1>8, ByNumber
<1>10. \A k \in 1 .. n : f[k] = NextCut(s, parts, capacity, k, f[k - 1])
  <2>1. \A k \in 1 .. n : k - 1 \in 0 .. n
    BY <1>1
  <2> HIDE DEF good, n
  <2> QED BY <1>8, <1>9, <2>1
<1> DEFINE Cuts(t) == t = [k \in 0 .. parts - 1 |-> IF k = 0 THEN 0 ELSE NextCut(s, parts, capacity, k, t[k - 1])]
           cut == CHOOSE t : Cuts(t)
<1>11. Cuts(f)
  <2>1. \A k \in 0 .. n : f[k] = IF k = 0 THEN 0 ELSE NextCut(s, parts, capacity, k, f[k - 1])
    <3>1. \A k \in 0 .. n : k # 0 => k \in 1 .. n
      BY <1>1
    <3> HIDE DEF n
    <3> QED BY <1>6, <1>10, <3>1
  <2> QED BY <1>5, <2>1
<1>12. Cuts(cut)
  <2> HIDE DEF Cuts
  <2> QED BY <1>11
<1>13. ChooseCuts(s, parts, capacity) = [k \in 1 .. parts - 1 |-> cut[k]]
  BY DEF ChooseCuts
<1> HIDE DEF cut
<1>14. \A k \in 0 .. n : cut[k] = IF k = 0 THEN 0 ELSE NextCut(s, parts, capacity, k, cut[k - 1])
  BY <1>12
<1>15. 0 \in 0 .. n /\ \A k \in 1 .. n : k \in 0 .. n /\ k # 0
  BY <1>1
<1>16. cut[0] = 0 /\ \A k \in 1 .. n : cut[k] = NextCut(s, parts, capacity, k, cut[k - 1])
  <2> HIDE DEF n, Cuts
  <2> QED BY <1>14, <1>15
<1> QED BY <1>13, <1>16

\* The cuts of a stretch rise, and leave something on both sides.
LEMMA CutsCut ==
  ASSUME ScreensAssumption, NEW s \in Seq(Int), NEW capacity \in Nat \ {0}, NEW parts \in 2 .. Len(s)
  PROVE  Cutting(Append(ChooseCuts(s, parts, capacity), Len(s)), s)
<1> DEFINE n == parts - 1
           cuts == ChooseCuts(s, parts, capacity)
           ends == Append(cuts, Len(s))
<1>1. n \in Nat /\ n >= 1 /\ parts = n + 1 /\ Len(s) \in Nat /\ parts <= Len(s)
  OBVIOUS
<1>2. PICK cut : /\ cuts = [k \in 1 .. n |-> cut[k]] /\ cut[0] = 0
                 /\ \A k \in 1 .. n : cut[k] = NextCut(s, parts, capacity, k, cut[k - 1])
  BY CutSteps
<1> DEFINE good == {k \in 0 .. n : cut[k] \in 0 .. Len(s) - (parts - k)}
<1>3. 0 \in good
  BY <1>1, <1>2
<1>4. ASSUME NEW k \in 1 .. n, k - 1 \in good PROVE k \in good /\ cut[k - 1] < cut[k]
  <2>1. k \in 0 .. n /\ cut[k - 1] \in 0 .. Len(s) - (parts - k + 1)
    BY <1>1, <1>4
  <2>2. NextCut(s, parts, capacity, k, cut[k - 1]) \in cut[k - 1] + 1 .. Len(s) - (parts - k)
    BY <1>1, <2>1, NextCutFits
  <2>3. cut[k] = NextCut(s, parts, capacity, k, cut[k - 1])
    BY <1>2
  <2>4. cut[k] \in 0 .. Len(s) - (parts - k) /\ cut[k - 1] < cut[k]
    BY <1>1, <2>1, <2>2, <2>3
  <2> QED BY <2>1, <2>4
<1>5. \A k \in 0 .. n : k \in good
  <2> HIDE DEF good, n
  <2> QED BY <1>1, <1>3, <1>4, ByNumber
<1>6. \A k \in 0 .. n : cut[k] \in Nat /\ cut[k] <= Len(s) - (parts - k)
  BY <1>1, <1>5
<1>7. \A k \in 1 .. n : cut[k - 1] < cut[k]
  <2>1. \A k \in 1 .. n : k - 1 \in 0 .. n
    BY <1>1
  <2> HIDE DEF good, n
  <2> QED BY <1>4, <1>5, <2>1
<1> HIDE DEF n, cuts, good
<1>8. cuts \in Seq(Int) /\ Len(cuts) = n /\ \A k \in 1 .. n : cuts[k] = cut[k]
  <2>1. \A k \in 1 .. n : cut[k] \in Int
    BY <1>1, <1>6
  <2> QED BY <1>1, <1>2, <2>1
<1>9. /\ ends \in Seq(Int) /\ Len(ends) = n + 1 /\ ends[n + 1] = Len(s)
      /\ \A k \in 1 .. n : ends[k] = cut[k]
  BY <1>1, <1>8
<1> HIDE DEF ends
<1>10. \A k \in 2 .. n + 1 : ends[k - 1] < ends[k]
  <2> SUFFICES ASSUME NEW k \in 2 .. n + 1 PROVE ends[k - 1] < ends[k]
    OBVIOUS
  <2>1. CASE k = n + 1
    <3>1. n \in 1 .. n /\ k - 1 = n /\ n \in 0 .. n
      BY <1>1, <2>1
    <3>2. ends[k - 1] = cut[n] /\ cut[n] \in Nat /\ cut[n] <= Len(s) - 1
      BY <1>1, <1>6, <1>9, <3>1
    <3> QED BY <1>1, <1>9, <2>1, <3>2
  <2>2. CASE k # n + 1
    <3>1. k \in 1 .. n /\ k - 1 \in 1 .. n
      BY <1>1, <2>2
    <3> QED BY <1>7, <1>9, <3>1
  <2> QED BY <2>1, <2>2
<1>11. Rising(ends, n + 1)
  <2>1. \A k \in 1 .. n + 1 : ends[k] \in Int
    BY <1>1, <1>9
  <2>2. n + 1 \in Nat
    BY <1>1
  <2> QED BY <1>10, <2>1, <2>2, StepsRise
<1>12. ends[1] >= 1
  <2>1. 1 \in 1 .. n /\ 0 \in 0 .. n /\ 1 \in 0 .. n /\ 1 - 1 = 0
    BY <1>1
  <2>2. ends[1] = cut[1] /\ cut[0] < cut[1] /\ cut[1] \in Nat
    BY <1>6, <1>7, <1>9, <2>1
  <2> QED BY <1>2, <2>2
<1>13. Cutting(ends, s)
  BY <1>1, <1>9, <1>11, <1>12 DEF Cutting
<1> QED BY <1>13 DEF ends, cuts

\* A stretch is cut in pieces that tile it.
LEMMA CountTiles ==
  ASSUME ScreensAssumption, NEW s \in Seq(Int), s # <<>>, NEW capacity \in Nat \ {0}
  PROVE  Tiles(s, SplitByCount(s, capacity), 0, Len(s))
<1> DEFINE parts == LargerOf(1, Ceil(Len(s), capacity))
           n == Len(s)
<1>1. n \in Nat /\ n >= 1
  OBVIOUS
<1>2. Ceil(n, capacity) \in Int /\ Ceil(n, capacity) <= n
  <2>1. n + capacity - 1 \in Nat /\ (n + capacity - 1) \div capacity \in Nat
    BY <1>1
  <2>2. \A c \in Nat \ {0} : (n + 1) * c >= n + c
    BY <1>1
  <2> QED BY <1>1, <2>1, <2>2 DEF Ceil
<1>3. parts \in 1 .. n
  BY <1>1, <1>2 DEF LargerOf
<1>4. CASE parts = 1
  BY <1>4, TilesOne DEF SplitByCount
<1>5. CASE parts # 1
  <2>1. parts \in 2 .. Len(s)
    BY <1>3, <1>5
  <2> HIDE DEF parts
  <2>2. Cutting(Append(ChooseCuts(s, parts, capacity), Len(s)), s)
    BY <2>1, CutsCut
  <2>3. Tiles(s, Slices(s, Append(ChooseCuts(s, parts, capacity), Len(s))), 0, Len(s))
    BY <2>2, SlicesTile
  <2> QED BY <1>5, <2>3 DEF SplitByCount, parts
<1> QED BY <1>4, <1>5

-----------------------------------------------------------------------------
(* Pieces of pieces, and neighbours that become one *)

\* Pieces of the pieces of a list, one list after the other, tile it.
LEMMA FlattenTiles ==
  ASSUME NEW s \in Seq(Int), NEW pieces, Tiles(s, pieces, 0, Len(s)), Len(pieces) >= 1,
         NEW R, R \in Seq(Seq(Seq(Int))), Len(R) = Len(pieces),
         \A k \in 1 .. Len(pieces) : Tiles(pieces[k], R[k], 0, Len(pieces[k]))
  PROVE  Tiles(s, FlattenSeq(R), 0, Len(s))
<1> DEFINE m == Len(pieces)
           n == Len(s)
           step == [c \in (1 .. m) \X Seq(Seq(Int)) |-> IF c[1] = 1 THEN R[1] ELSE c[2] \o R[c[1]]]
           Flat(t) == t = [i \in 1 .. Len(R) |-> IF i = 1 THEN R[i] ELSE t[i - 1] \o R[i]]
           flatten == CHOOSE t : Flat(t)
<1>1. pieces \in Seq(Seq(Int)) /\ m \in Nat /\ m >= 1 /\ n \in Nat /\ \A k \in 1 .. m : R[k] \in Seq(Seq(Int))
  BY DEF Tiles
<1>2. PICK b : Marks(b, s, pieces, 0, n)
  BY DEF Tiles
<1>3. /\ b \in [0 .. m -> Nat] /\ b[0] = 0 /\ b[m] = n
      /\ \A k \in 1 .. m : b[k - 1] < b[k] /\ pieces[k] = SubSeq(s, b[k - 1] + 1, b[k])
  BY <1>2 DEF Marks
<1>4. /\ \A k \in 0 .. m : b[k] \in Nat
      /\ \A i, j \in 0 .. m : i < j => b[i] < b[j]
  BY <1>1, <1>2, MarksRise
<1> HIDE DEF m, n
<1>5. \A k \in 0 .. m : b[k] <= n
  <2> SUFFICES ASSUME NEW k \in 0 .. m, k # m PROVE b[k] <= n
    BY <1>1, <1>3
  <2>1. k < m /\ m \in 0 .. m
    BY <1>1
  <2>2. b[k] < b[m]
    BY <1>4, <2>1
  <2> QED BY <1>1, <1>3, <1>4, <2>2
<1>6. ASSUME NEW k \in 1 .. m PROVE Tiles(s, R[k], b[k - 1], b[k])
  <2> DEFINE x == b[k - 1]
             y == b[k]
  <2>1. k - 1 \in 0 .. m /\ k \in 0 .. m
    BY <1>1
  <2>2. x \in Nat /\ y \in Nat /\ x < y /\ y <= n /\ pieces[k] = SubSeq(s, x + 1, y)
    BY <1>3, <1>4, <1>5, <2>1
  <2> HIDE DEF x, y
  <2>3. Len(SubSeq(s, x + 1, y)) = y - x
    BY <2>2 DEF n
  <2>4. Tiles(SubSeq(s, x + 1, y), R[k], 0, y - x)
    BY <2>2, <2>3 DEF m
  <2>5. Tiles(s, R[k], x, y)
    <3> DEFINE r == R[k]
    <3> HIDE DEF r, m
    <3>1. Tiles(SubSeq(s, x + 1, y), r, 0, y - x) /\ x <= y /\ y <= Len(s)
      BY <2>2, <2>4 DEF r, n
    <3>2. Tiles(s, r, x, y)
      BY <2>2, <3>1, TilesInside
    <3> QED BY <3>2 DEF r
  <2> QED BY <2>5 DEF x, y
<1>7. step \in [(1 .. m) \X Seq(Seq(Int)) -> Seq(Seq(Int))]
  BY <1>1
<1>8. <<>> \in Seq(Seq(Int))
  OBVIOUS
<1>9. \A i \in 1 .. m : \A t \in Seq(Seq(Int)) : step[<<i, t>>] = IF i = 1 THEN R[1] ELSE t \o R[i]
  OBVIOUS
<1> HIDE DEF step
<1>10. PICK f \in [0 .. m -> Seq(Seq(Int))] : Chained(f, m, <<>>, step)
  BY <1>1, <1>7, <1>8, ChainExists
<1>11. \A i \in 1 .. m : f[i] = IF i = 1 THEN R[i] ELSE f[i - 1] \o R[i]
  <2> SUFFICES ASSUME NEW i \in 1 .. m PROVE f[i] = IF i = 1 THEN R[i] ELSE f[i - 1] \o R[i]
    OBVIOUS
  <2>1. i \in 0 .. m /\ i # 0 /\ i - 1 \in 0 .. m
    BY <1>1
  <2>2. f[i] = step[<<i, f[i - 1]>>]
    BY <1>10, <2>1 DEF Chained
  <2> QED BY <1>9, <1>10, <2>1, <2>2
<1>12. Flat([i \in 1 .. m |-> f[i]])
  <2> DEFINE g == [i \in 1 .. m |-> f[i]]
  <2>1. \A i \in 1 .. m : i # 1 => i - 1 \in 1 .. m
    BY <1>1
  <2>2. \A i \in 1 .. m : g[i] = f[i]
    OBVIOUS
  <2>3. g = [i \in 1 .. m |-> g[i]]
    OBVIOUS
  <2> HIDE DEF g
  <2>4. g = [i \in 1 .. m |-> IF i = 1 THEN R[i] ELSE g[i - 1] \o R[i]]
    BY ZenonT(60), <1>11, <2>1, <2>2, <2>3
  <2> QED BY <2>4 DEF m, g
<1>13. Flat(flatten)
  <2> HIDE DEF Flat
  <2> QED BY <1>12
<1>14. FlattenSeq(R) = flatten[m]
  <2>1. ~(Len(R) = 0)
    BY <1>1 DEF m
  <2> QED BY <2>1 DEF FlattenSeq, m
<1> HIDE DEF flatten
<1>15. \A i \in 1 .. m : flatten[i] = IF i = 1 THEN R[i] ELSE flatten[i - 1] \o R[i]
  BY <1>13 DEF m
<1> DEFINE good == {i \in 0 .. m : i > 0 => Tiles(s, flatten[i], 0, b[i])}
<1>16. 0 \in good
  BY <1>1
<1>17. ASSUME NEW i \in 1 .. m, i - 1 \in good PROVE i \in good
  <2>0. i \in 0 .. m
    BY <1>1
  <2>1. Tiles(s, R[i], b[i - 1], b[i])
    BY <1>6
  <2>2. CASE i = 1
    <3>1. flatten[i] = R[i] /\ b[i - 1] = 0
      BY <1>3, <1>15, <2>2
    <3> QED BY <2>0, <2>1, <3>1
  <2>3. CASE i # 1
    <3>1. flatten[i] = flatten[i - 1] \o R[i]
      BY <1>15, <2>3
    <3>2. Tiles(s, flatten[i - 1], 0, b[i - 1])
      BY <1>17, <2>3
    <3>3. Tiles(s, flatten[i - 1] \o R[i], 0, b[i])
      BY <2>1, <3>2, TilesJoin
    <3> QED BY <2>0, <3>1, <3>3
  <2> QED BY <2>2, <2>3
<1>18. \A i \in 0 .. m : i \in good
  <2> HIDE DEF good
  <2> QED BY <1>1, <1>16, <1>17, ByNumber
<1>19. Tiles(s, flatten[m], 0, b[m])
  <2>1. m \in good
    <3> HIDE DEF good
    <3> QED BY <1>1, <1>18
  <2> QED BY <1>1, <2>1
<1> QED BY <1>3, <1>14, <1>19 DEF n

\* Some consecutive ranges tile what lies between their ends.
LEMMA TilesPart ==
  ASSUME NEW s, NEW R \in Seq(Seq(Int)), NEW from, NEW to, NEW b, Marks(b, s, R, from, to),
         NEW i \in 0 .. Len(R), NEW j \in i .. Len(R)
  PROVE  Tiles(s, SubSeq(R, i + 1, j), b[i], b[j]) /\ Len(SubSeq(R, i + 1, j)) = j - i
<1> DEFINE n == Len(R)
           Q == SubSeq(R, i + 1, j)
           c == [k \in 0 .. j - i |-> b[k + i]]
<1>1. n \in Nat /\ i \in Nat /\ j \in Nat /\ i <= j /\ j <= n
  OBVIOUS
<1>2. /\ b \in [0 .. n -> Nat]
      /\ \A k \in 1 .. n : b[k - 1] < b[k] /\ R[k] = SubSeq(s, b[k - 1] + 1, b[k])
  BY DEF Marks
<1>3. Q \in Seq(Seq(Int)) /\ Len(Q) = j - i /\ \A k \in 1 .. j - i : Q[k] = R[k + i]
  OBVIOUS
<1> HIDE DEF Q, n
<1>4. \A k \in 0 .. j - i : k + i \in 0 .. n
  BY <1>1
<1>5. c \in [0 .. j - i -> Nat]
  BY <1>2, <1>4
<1>6. \A k \in 0 .. j - i : c[k] = b[k + i]
  OBVIOUS
<1> HIDE DEF c
<1>7. c[0] = b[i] /\ c[j - i] = b[j]
  <2>1. 0 \in 0 .. j - i /\ j - i \in 0 .. j - i /\ 0 + i = i /\ j - i + i = j
    BY <1>1
  <2> QED BY <1>6, <2>1
<1>8. ASSUME NEW k \in 1 .. j - i PROVE c[k - 1] < c[k] /\ Q[k] = SubSeq(s, c[k - 1] + 1, c[k])
  <2>1. k \in 0 .. j - i /\ k - 1 \in 0 .. j - i /\ k + i \in 1 .. n /\ k - 1 + i = k + i - 1
    BY <1>1
  <2>2. c[k] = b[k + i] /\ c[k - 1] = b[k + i - 1]
    BY <1>6, <2>1
  <2> DEFINE l == k + i
  <2>3. l \in 1 .. n /\ c[k] = b[l] /\ c[k - 1] = b[l - 1] /\ Q[k] = R[l]
    BY <1>3, <2>1, <2>2
  <2> HIDE DEF l
  <2> QED BY <1>2, <2>3
<1>9. Marks(c, s, Q, b[i], b[j])
  BY <1>3, <1>5, <1>7, <1>8 DEF Marks
<1> QED BY <1>3, <1>9 DEF Tiles, Q

\* A stretch is a range.
LEMMA TilesSingle ==
  ASSUME NEW s, NEW x \in Nat, NEW y \in Nat, x < y, NEW r \in Seq(Int), r = SubSeq(s, x + 1, y)
  PROVE  Tiles(s, <<r>>, x, y) /\ Len(<<r>>) = 1
<1> DEFINE b == [k \in 0 .. 1 |-> IF k = 0 THEN x ELSE y]
<1>1. b \in [0 .. 1 -> Nat] /\ b[0] = x /\ b[1] = y
  OBVIOUS
<1>2. Len(<<r>>) = 1 /\ <<r>>[1] = r /\ <<r>> \in Seq(Seq(Int))
  OBVIOUS
<1> HIDE DEF b
<1>3. ASSUME NEW k \in 1 .. 1 PROVE b[k - 1] < b[k] /\ <<r>>[k] = SubSeq(s, b[k - 1] + 1, b[k])
  <2>1. k = 1 /\ k - 1 = 0
    OBVIOUS
  <2> QED BY <1>1, <1>2, <2>1
<1>4. Marks(b, s, <<r>>, x, y)
  BY <1>1, <1>2, <1>3 DEF Marks
<1> QED BY <1>2, <1>4 DEF Tiles

\* Two neighbours that become one leave ranges that tile the same.
LEMMA MergeTiles ==
  ASSUME NEW s \in Seq(Int), NEW R, Tiles(s, R, 0, Len(s)), Len(R) >= 2
  PROVE  Tiles(s, MergeOnce(R), 0, Len(s)) /\ Len(MergeOnce(R)) = Len(R) - 1
<1> DEFINE n == Len(R)
           Both(i) == Len(R[i]) + Len(R[i + 1])
           Least(i) == \A j \in 1 .. n - 1 : Both(i) < Both(j) \/ (Both(i) = Both(j) /\ i <= j)
           best == CHOOSE i \in 1 .. n - 1 : Least(i)
<1>1. R \in Seq(Seq(Int)) /\ n \in Nat /\ n >= 2
  BY DEF Tiles
<1>2. PICK b : Marks(b, s, R, 0, Len(s))
  BY DEF Tiles
<1>3. \E i \in 1 .. n - 1 : Least(i)
  <2> DEFINE f == [i \in 1 .. n - 1 |-> 0]
             g == [i \in 1 .. n - 1 |-> Both(i)]
  <2>1. \A i \in 1 .. n - 1 : Both(i) \in Int
    BY <1>1
  <2>2. \A i \in 1 .. n - 1 : f[i] = 0 /\ g[i] = Both(i) /\ f[i] \in Int /\ g[i] \in Int
    BY <2>1
  <2>3. IsFiniteSet(1 .. n - 1) /\ 1 \in 1 .. n - 1
    <3>1. n - 1 \in Int /\ 1 \in Int
      BY <1>1
    <3>2. IsFiniteSet(1 .. n - 1)
      BY <3>1, FS_Interval
    <3> QED BY <1>1, <3>2
  <2>4. 1 .. n - 1 # {} /\ 1 .. n - 1 \subseteq Int
    <3>1. 1 .. n - 1 # {}
      BY <2>3
    <3>2. 1 .. n - 1 \subseteq Int
      OBVIOUS
    <3> QED BY <3>1, <3>2
  <2> HIDE DEF f, g, Both
  <2>5. PICK i \in 1 .. n - 1 : \A j \in (1 .. n - 1) \ {i} : Better(f, g, i, j)
    BY <2>2, <2>3, <2>4, BestExists
  <2>6. ASSUME NEW j \in 1 .. n - 1 PROVE Both(i) < Both(j) \/ (Both(i) = Both(j) /\ i <= j)
    <3>1. CASE j = i
      BY <3>1
    <3>2. CASE j # i
      <4>1. Better(f, g, i, j)
        BY <2>5, <3>2
      <4> QED BY <2>2, <4>1 DEF Better
    <3> QED BY <3>1, <3>2
  <2> QED BY <2>6
<1> HIDE DEF Least
<1>4. best \in 1 .. n - 1
  BY <1>3
<1>5. MergeOnce(R) = SubSeq(R, 1, best - 1) \o <<R[best] \o R[best + 1]>> \o SubSeq(R, best + 2, n)
  BY DEF MergeOnce, Least
<1> HIDE DEF best
<1> DEFINE x == b[best - 1]
           y == b[best]
           z == b[best + 1]
<1>6. /\ \A k \in 0 .. n : b[k] \in Nat
      /\ \A i, j \in 0 .. n : i < j => b[i] < b[j]
  BY <1>1, <1>2, MarksRise
<1>7. best - 1 \in 0 .. n /\ best \in 0 .. n /\ best + 1 \in 0 .. n /\ best \in 1 .. n /\ best + 1 \in 1 .. n /\ n \in 0 .. n
  BY <1>1, <1>4
<1>8. /\ \A k \in 1 .. n : b[k - 1] < b[k] /\ R[k] = SubSeq(s, b[k - 1] + 1, b[k])
      /\ b[0] = 0 /\ b[n] = Len(s)
  BY <1>2 DEF Marks
<1>9. R[best] = SubSeq(s, x + 1, y) /\ R[best + 1] = SubSeq(s, y + 1, z) /\ x < y /\ y < z
  <2>1. best + 1 - 1 = best
    BY <1>7
  <2> QED BY <1>7, <1>8, <2>1
<1>10. x \in Nat /\ y \in Nat /\ z \in Nat /\ z <= Len(s)
  <2>1. x \in Nat /\ y \in Nat /\ z \in Nat
    BY <1>6, <1>7
  <2>2. CASE best + 1 = n
    BY <1>8, <2>1, <2>2
  <2>3. CASE best + 1 # n
    <3>1. best + 1 < n
      BY <1>7, <2>3
    <3>2. z < b[n]
      BY <1>6, <1>7, <3>1
    <3> QED BY <1>8, <2>1, <3>2
  <2> QED BY <2>1, <2>2, <2>3
<1>11. Tiles(s, SubSeq(R, 1, best - 1), 0, x) /\ Len(SubSeq(R, 1, best - 1)) = best - 1
  <2>1. 0 \in 0 .. n /\ best - 1 \in 0 .. n
    BY <1>1, <1>7
  <2>2. Tiles(s, SubSeq(R, 0 + 1, best - 1), b[0], b[best - 1]) /\ Len(SubSeq(R, 0 + 1, best - 1)) = best - 1 - 0
    <3> HIDE DEF n
    <3> QED BY <1>1, <1>2, <2>1, TilesPart DEF n
  <2>3. 0 + 1 = 1 /\ best - 1 - 0 = best - 1
    BY <1>7
  <2> QED BY <1>8, <2>2, <2>3
<1>12. Tiles(s, SubSeq(R, best + 2, n), z, Len(s)) /\ Len(SubSeq(R, best + 2, n)) = n - best - 1
  <2>1. n \in best + 1 .. n
    BY <1>1, <1>7
  <2>2. Tiles(s, SubSeq(R, (best + 1) + 1, n), b[best + 1], b[n]) /\ Len(SubSeq(R, (best + 1) + 1, n)) = n - (best + 1)
    BY ZenonT(60), <1>1, <1>2, <1>7, <2>1, TilesPart
  <2>3. (best + 1) + 1 = best + 2 /\ n - (best + 1) = n - best - 1
    BY <1>1, <1>7
  <2> QED BY <1>8, <2>2, <2>3
<1>13. Tiles(s, <<R[best] \o R[best + 1]>>, x, z) /\ Len(<<R[best] \o R[best + 1]>>) = 1
  <2> HIDE DEF x, y, z
  <2>1. x + 1 \in 1 .. Len(s) + 1 /\ y \in (x + 1) - 1 .. Len(s) /\ z \in y .. Len(s)
    BY <1>9, <1>10
  <2>2. SubSeq(s, x + 1, y) \o SubSeq(s, y + 1, z) = SubSeq(s, x + 1, z)
    BY <2>1, ConcatAdjacentSubSeq
  <2>3. SubSeq(s, x + 1, z) \in Seq(Int) /\ x < z
    BY <1>9, <1>10
  <2> QED BY <1>9, <1>10, <2>2, <2>3, TilesSingle
<1> HIDE DEF x, y, z
<1> DEFINE before == SubSeq(R, 1, best - 1)
           one == <<R[best] \o R[best + 1]>>
           after == SubSeq(R, best + 2, n)
<1>14. /\ Tiles(s, before, 0, x) /\ Len(before) = best - 1 /\ Tiles(s, one, x, z) /\ Len(one) = 1
       /\ Tiles(s, after, z, Len(s)) /\ Len(after) = n - best - 1
  BY <1>11, <1>12, <1>13
<1>15. MergeOnce(R) = (before \o one) \o after
  BY <1>5
<1> HIDE DEF before, one, after, n
<1>16. Tiles(s, before \o one, 0, z) /\ Len(before \o one) = best
  <2>1. Tiles(s, before \o one, 0, z) /\ Len(before \o one) = Len(before) + Len(one)
    BY <1>14, TilesJoin
  <2> QED BY <1>7, <1>14, <2>1
<1>17. Tiles(s, (before \o one) \o after, 0, Len(s)) /\ Len((before \o one) \o after) = best + (n - best - 1)
  BY <1>14, <1>16, TilesJoin
<1>18. best + (n - best - 1) = n - 1
  BY <1>1, <1>7
<1> QED BY <1>15, <1>17, <1>18 DEF n

\* Neighbours become one until there are few enough.
LEMMA MergedTile ==
  ASSUME NEW s \in Seq(Int), NEW R, Tiles(s, R, 0, Len(s)), NEW maxRanges \in Nat \ {0}
  PROVE  Tiles(s, MergeUntil(R, maxRanges), 0, Len(s)) /\ Len(MergeUntil(R, maxRanges)) <= maxRanges
<1>1. R \in Seq(Seq(Int)) /\ Len(R) \in Nat
  BY DEF Tiles
<1>2. CASE Len(R) <= maxRanges
  BY <1>2 DEF MergeUntil
<1>3. CASE ~(Len(R) <= maxRanges)
  <2> DEFINE n == Len(R) - maxRanges
             Whole(t) == Tiles(s, t, 0, Len(s)) /\ Len(t) >= 2
             step == [c \in (1 .. n) \X Seq(Seq(Int)) |-> IF Whole(c[2]) THEN MergeOnce(c[2]) ELSE <<>>]
             Merged(t) == t = [k \in 0 .. Len(R) - maxRanges |-> IF k = 0 THEN R ELSE MergeOnce(t[k - 1])]
             merged == CHOOSE t : Merged(t)
             Fits(t, k) == Tiles(s, t, 0, Len(s)) /\ Len(t) = Len(R) - k
  <2>1. n \in Nat /\ n >= 1 /\ n < Len(R) /\ maxRanges \in Nat
    BY <1>1, <1>3
  <2>2. ASSUME NEW k \in 1 .. n, NEW t, Fits(t, k - 1) PROVE Whole(t) /\ Fits(MergeOnce(t), k)
    <3>1. Whole(t)
      BY <1>1, <2>1, <2>2
    <3>2. Tiles(s, MergeOnce(t), 0, Len(s)) /\ Len(MergeOnce(t)) = Len(t) - 1
      BY <3>1, MergeTiles
    <3>3. Len(R) - (k - 1) - 1 = Len(R) - k
      BY <1>1, <2>1
    <3> QED BY <2>2, <3>1, <3>2, <3>3
  <2>3. step \in [(1 .. n) \X Seq(Seq(Int)) -> Seq(Seq(Int))]
    <3> SUFFICES ASSUME NEW t \in Seq(Seq(Int)) PROVE (IF Whole(t) THEN MergeOnce(t) ELSE <<>>) \in Seq(Seq(Int))
      OBVIOUS
    <3>1. Whole(t) => MergeOnce(t) \in Seq(Seq(Int))
      BY MergeTiles DEF Tiles
    <3> QED BY <3>1
  <2>4. \A k \in 1 .. n : \A t \in Seq(Seq(Int)) : Whole(t) => step[<<k, t>>] = MergeOnce(t)
    <3> HIDE DEF Whole, n
    <3> QED OBVIOUS
  <2> HIDE DEF step
  <2>5. PICK f \in [0 .. n -> Seq(Seq(Int))] : Chained(f, n, R, step)
    <3> HIDE DEF n
    <3> QED BY <1>1, <2>1, <2>3, ChainExists
  <2>6. 0 \in 0 .. n /\ \A k \in 1 .. n : k \in 0 .. n /\ k # 0 /\ k - 1 \in 0 .. n
    BY <2>1
  <2> HIDE DEF n, Whole
  <2>7. f[0] = R /\ \A k \in 1 .. n : f[k] = step[<<k, f[k - 1]>>]
    <3>1. \A k \in 0 .. n : f[k] = IF k = 0 THEN R ELSE step[<<k, f[k - 1]>>]
      BY <2>5 DEF Chained
    <3> QED BY <2>6, <3>1
  <2> DEFINE good == {k \in 0 .. n : Fits(f[k], k)}
  <2>8. 0 \in good
    BY <1>1, <2>6, <2>7
  <2>9. ASSUME NEW k \in 1 .. n, k - 1 \in good PROVE k \in good /\ f[k] = MergeOnce(f[k - 1])
    <3>1. Fits(f[k - 1], k - 1) /\ f[k - 1] \in Seq(Seq(Int))
      BY <2>5, <2>6, <2>9
    <3> HIDE DEF Fits
    <3>2. Whole(f[k - 1]) /\ Fits(MergeOnce(f[k - 1]), k)
      BY <2>2, <3>1
    <3>3. f[k] = MergeOnce(f[k - 1])
      BY <2>4, <2>7, <3>1, <3>2
    <3> QED BY <2>6, <3>2, <3>3
  <2>10. \A k \in 0 .. n : k \in good
    <3> HIDE DEF good
    <3> QED BY <2>1, <2>8, <2>9, ByNumber
  <2>11. \A k \in 1 .. n : f[k] = MergeOnce(f[k - 1])
    <3> HIDE DEF good
    <3> QED BY <2>6, <2>9, <2>10
  <2>12. Merged(f)
    <3>1. \A k \in 0 .. n : f[k] = IF k = 0 THEN R ELSE MergeOnce(f[k - 1])
      <4>1. \A k \in 0 .. n : k # 0 => k \in 1 .. n
        BY <2>1
      <4> QED BY <2>7, <2>11, <4>1
    <3> QED BY <2>5, <3>1 DEF n
  <2>13. Merged(merged)
    <3> HIDE DEF Merged
    <3> QED BY <2>12
  <2>14. MergeUntil(R, maxRanges) = merged[n]
    BY <1>3 DEF MergeUntil, n
  <2> HIDE DEF merged
  <2>15. merged[0] = R /\ \A k \in 1 .. n : merged[k] = MergeOnce(merged[k - 1])
    <3>1. \A k \in 0 .. n : merged[k] = IF k = 0 THEN R ELSE MergeOnce(merged[k - 1])
      BY <2>13 DEF n
    <3> HIDE DEF Merged
    <3> QED BY <2>6, <3>1
  <2> DEFINE fine == {k \in 0 .. n : Fits(merged[k], k)}
  <2>16. 0 \in fine
    BY <1>1, <2>6, <2>15
  <2>17. ASSUME NEW k \in 1 .. n, k - 1 \in fine PROVE k \in fine
    <3>1. Fits(merged[k - 1], k - 1)
      BY <2>17
    <3> HIDE DEF Fits
    <3>2. Fits(MergeOnce(merged[k - 1]), k)
      BY <2>2, <3>1
    <3> QED BY <2>6, <2>15, <3>2
  <2>18. \A k \in 0 .. n : k \in fine
    <3> HIDE DEF fine
    <3> QED BY <2>1, <2>16, <2>17, ByNumber
  <2>19. Fits(merged[n], n)
    <3>1. n \in 0 .. n
      BY <2>1
    <3> HIDE DEF Fits
    <3> QED BY <2>18, <3>1
  <2> QED BY <1>1, <2>1, <2>14, <2>19 DEF n
<1> QED BY <1>2, <1>3

\* What tiles a list has no empty range, and there is one if the list is not empty.
LEMMA TilesAre ==
  ASSUME NEW s \in Seq(Int), s # <<>>, NEW R, Tiles(s, R, 0, Len(s))
  PROVE  /\ R \in Seq(Seq(Int)) /\ Len(R) \in Nat /\ Len(R) >= 1
         /\ \A k \in 1 .. Len(R) : R[k] \in Seq(Int) /\ R[k] # <<>>
<1>1. R \in Seq(Seq(Int)) /\ Len(R) \in Nat /\ Len(s) >= 1
  BY DEF Tiles
<1>2. PICK b : Marks(b, s, R, 0, Len(s))
  BY DEF Tiles
<1>3. b[0] = 0 /\ b[Len(R)] = Len(s)
  BY <1>2 DEF Marks
<1>4. Len(R) >= 1
  <2>1. Len(R) # 0
    BY <1>1, <1>3
  <2> QED BY <1>1, <2>1
<1>5. ASSUME NEW k \in 1 .. Len(R) PROVE R[k] \in Seq(Int) /\ R[k] # <<>>
  <2>1. R[k] \in Seq(Int)
    BY <1>1
  <2> DEFINE x == b[k - 1]
             y == b[k]
  <2>2. x < y /\ R[k] = SubSeq(s, x + 1, y)
    BY <1>2 DEF Marks
  <2>3. x \in Nat /\ y \in Nat
    <3>1. \A i \in 0 .. Len(R) : b[i] \in Nat
      BY <1>1, <1>2, MarksRise
    <3> QED BY <1>1, <3>1
  <2> HIDE DEF x, y
  <2>4. Len(SubSeq(s, x + 1, y)) = y - x
    BY <2>1, <2>2, <2>3
  <2>5. Len(R[k]) > 0
    BY <2>2, <2>3, <2>4
  <2> QED BY <2>1, <2>5
<1> QED BY <1>1, <1>4, <1>5

\* The ranges of some hours tile them, and are no more than there is room for.
LEMMA RangesTile ==
  ASSUME ScreensAssumption, NEW s \in Seq(Int), s # <<>>, NEW capacity \in Nat \ {0}, NEW maxRanges \in Nat \ {0}
  PROVE  LET R == SplitIntoRanges(s, capacity, maxRanges) IN Tiles(s, R, 0, Len(s)) /\ Len(R) <= maxRanges
<1> DEFINE pieces == SplitByDayGaps(s)
           each == EachSplit(pieces, capacity)
<1>1. Tiles(s, pieces, 0, Len(s))
  BY DayGapsTile
<1> HIDE DEF pieces
<1>2. /\ pieces \in Seq(Seq(Int)) /\ Len(pieces) \in Nat /\ Len(pieces) >= 1
      /\ \A k \in 1 .. Len(pieces) : pieces[k] \in Seq(Int) /\ pieces[k] # <<>>
  BY <1>1, TilesAre
<1>3. \A k \in 1 .. Len(pieces) : Tiles(pieces[k], SplitByCount(pieces[k], capacity), 0, Len(pieces[k]))
  BY <1>2, CountTiles
<1>4. each = [k \in 1 .. Len(pieces) |-> SplitByCount(pieces[k], capacity)]
  BY <1>2 DEF EachSplit
<1>5. /\ each \in Seq(Seq(Seq(Int))) /\ Len(each) = Len(pieces)
      /\ \A k \in 1 .. Len(pieces) : Tiles(pieces[k], each[k], 0, Len(pieces[k]))
  <2>1. \A k \in 1 .. Len(pieces) : SplitByCount(pieces[k], capacity) \in Seq(Seq(Int))
    BY <1>3 DEF Tiles
  <2> HIDE DEF each
  <2> QED BY <1>2, <1>3, <1>4, <2>1
<1> HIDE DEF each
<1>6. Tiles(s, FlattenSeq(each), 0, Len(s))
  BY <1>1, <1>2, <1>5, FlattenTiles
<1>7. Tiles(s, MergeUntil(FlattenSeq(each), maxRanges), 0, Len(s)) /\ Len(MergeUntil(FlattenSeq(each), maxRanges)) <= maxRanges
  BY <1>6, MergedTile
<1> QED BY <1>7 DEF SplitIntoRanges, each, pieces

-----------------------------------------------------------------------------
(* What a day is shown as *)

\* The plan has the first n hours loose and the others in ranges, and there is room for all.
Laid(p, s, screenRows, n) ==
  /\ p.kind = "grouped" /\ p.next = SubSeq(s, 1, n) /\ Tiles(s, p.ranges, n, Len(s)) /\ Len(p.ranges) + n <= screenRows

\* A day of two pages is listed; one that takes more is laid out.
LEMMA PlanIs ==
  ASSUME ScreensAssumption, NEW s \in Seq(Int), NEW screenRows \in Nat \ {0}, NEW rangeCapacity \in Nat \ {0}
  PROVE  LET p == PlanSlotScreen(s, screenRows, rangeCapacity)
         IN IF Len(s) < 2 * screenRows THEN p.kind = "all" ELSE \E n \in 0 .. Len(s) : Laid(p, s, screenRows, n)
<1>1. CASE Len(s) < 2 * screenRows
  BY <1>1 DEF PlanSlotScreen
<1>2. CASE ~(Len(s) < 2 * screenRows)
  <2> DEFINE loose == {n \in (MinNext .. SmallerOf(MaxNext, Len(s))) \cup {0} : n < screenRows}
             Plan(n) == [kind |-> "grouped", next |-> SubSeq(s, 1, n),
                         ranges |-> SplitIntoRanges(SubSeq(s, n + 1, Len(s)), rangeCapacity, screenRows - n)]
             plans == {Plan(n) : n \in loose}
  <2>0. PlanSlotScreen(s, screenRows, rangeCapacity) = Chosen(plans, rangeCapacity)
    BY <1>2 DEF PlanSlotScreen
  <2>1. Len(s) \in Nat /\ Len(s) >= 2 * screenRows
    BY <1>2
  <2>2. loose \subseteq Nat /\ 0 \in loose /\ \A n \in loose : n < screenRows /\ n <= Len(s)
    BY <2>1 DEF ScreensAssumption, SmallerOf
  <2>3. IsFiniteSet(loose)
    <3>1. MinNext \in Int /\ SmallerOf(MaxNext, Len(s)) \in Int
      BY <2>1 DEF ScreensAssumption, SmallerOf
    <3>2. IsFiniteSet(MinNext .. SmallerOf(MaxNext, Len(s)))
      BY <3>1, FS_Interval
    <3>3. IsFiniteSet((MinNext .. SmallerOf(MaxNext, Len(s))) \cup {0})
      BY <3>2, FS_AddElement
    <3> QED BY <3>3, FS_Subset
  <2>4. ASSUME NEW n \in loose PROVE Laid(Plan(n), s, screenRows, n)
    <3> DEFINE p == SubSeq(s, n + 1, Len(s))
               R == SplitIntoRanges(p, rangeCapacity, screenRows - n)
    <3>1. n \in Nat /\ n < screenRows /\ n < Len(s) /\ screenRows - n \in Nat \ {0}
      BY <2>1, <2>2
    <3>2. p \in Seq(Int) /\ Len(p) = Len(s) - n
      BY <2>1, <3>1
    <3>3. p # <<>>
      <4>1. Len(p) > 0
        BY <2>1, <3>1, <3>2
      <4> HIDE DEF p
      <4> QED BY <4>1
    <3> HIDE DEF p, loose
    <3>4. Tiles(p, R, 0, Len(p)) /\ Len(R) <= screenRows - n
      BY <3>1, <3>2, <3>3, RangesTile
    <3> HIDE DEF R
    <3>5. Tiles(s, R, n, Len(s))
      <4>1. Tiles(SubSeq(s, n + 1, Len(s)), R, 0, Len(s) - n)
        BY <3>2, <3>4 DEF p
      <4>2. Len(s) \in Nat /\ n <= Len(s) /\ Len(s) <= Len(s) /\ n \in Nat
        BY <2>1, <3>1
      <4> QED BY <4>1, <4>2, TilesInside
    <3>6. Len(R) \in Nat
      BY <3>5 DEF Tiles
    <3>7. Plan(n).kind = "grouped" /\ Plan(n).next = SubSeq(s, 1, n) /\ Plan(n).ranges = R
      BY DEF R, p
    <3> HIDE DEF Plan
    <3> QED BY <3>1, <3>4, <3>5, <3>6, <3>7 DEF Laid
  <2> DEFINE fitting == {p \in plans : \A k \in DOMAIN p.ranges : Len(p.ranges[k]) <= rangeCapacity}
  <2>5. Chosen(plans, rangeCapacity) \in plans
    <3>1. CASE fitting = {}
      <4>1. Plan(0) \in plans /\ Plan(0).next = <<>>
        <5>1. SubSeq(s, 1, 0) = <<>>
          BY SubSeqEmpty
        <5> QED BY <2>2, <5>1
      <4>2. Chosen(plans, rangeCapacity) = CHOOSE p \in plans : p.next = <<>>
        BY <3>1 DEF Chosen
      <4> HIDE DEF plans, Plan
      <4> QED BY <4>1, <4>2
    <3>2. CASE fitting # {}
      <4>1. Chosen(plans, rangeCapacity) = CHOOSE p \in fitting : \A q \in fitting : Len(q.next) <= Len(p.next)
        BY <3>2 DEF Chosen
      <4>2. IsFiniteSet(fitting)
        <5>1. IsFiniteSet(plans)
          <6> DEFINE g == [n \in loose |-> Plan(n)]
          <6> HIDE DEF loose, Plan
          <6>1. \A n \in loose : g[n] = Plan(n)
            OBVIOUS
          <6>2. g \in Surjection(loose, plans)
            <7>1. g \in [loose -> plans]
              OBVIOUS
            <7>2. \A p \in plans : \E n \in loose : g[n] = p
              BY <6>1
            <7> QED BY <7>1, <7>2 DEF Surjection
          <6> QED BY <2>3, <6>2, FS_Surjection
        <5> HIDE DEF plans
        <5> QED BY <5>1, FS_Subset
      <4> DEFINE f == [p \in fitting |-> Len(p.next)]
      <4>3. \A p \in fitting : f[p] = Len(p.next) /\ f[p] \in Int
        <5>1. ASSUME NEW p \in plans PROVE Len(p.next) \in Int
          <6>1. PICK n \in loose : p = Plan(n)
            OBVIOUS
          <6>2. p.next = SubSeq(s, 1, n)
            BY <6>1
          <6>3. n \in Nat /\ n <= Len(s)
            BY <2>2
          <6>4. Len(SubSeq(s, 1, n)) \in Int
            BY <2>1, <6>3
          <6> HIDE DEF plans, loose, Plan
          <6> QED BY <6>2, <6>4, Zenon
        <5> HIDE DEF plans
        <5> QED BY <5>1
      <4> HIDE DEF f, fitting
      <4>4. \E p \in fitting : \A q \in fitting : f[p] >= f[q]
        BY <3>2, <4>2, <4>3, Largest
      <4>5. \E p \in fitting : \A q \in fitting : Len(q.next) <= Len(p.next)
        BY <4>3, <4>4
      <4>6. Chosen(plans, rangeCapacity) \in fitting
        <5> HIDE DEF plans
        <5> QED BY <4>1, <4>5
      <4> QED BY <4>6 DEF fitting
    <3> QED BY <3>1, <3>2
  <2>6. PICK n \in loose : PlanSlotScreen(s, screenRows, rangeCapacity) = Plan(n)
    <3> HIDE DEF Plan, loose
    <3> QED BY <2>0, <2>5
  <2>7. n \in 0 .. Len(s)
    BY <2>1, <2>2
  <2>8. Laid(PlanSlotScreen(s, screenRows, rangeCapacity), s, screenRows, n)
    <3> HIDE DEF Plan, loose
    <3> QED BY <2>4, <2>6
  <2> HIDE DEF Plan, loose
  <2> QED BY <1>2, <2>7, <2>8
<1> QED BY <1>1, <1>2

\* How the hours of a rising list compare is how their places do.
LEMMA RisingOrder ==
  ASSUME NEW h \in Seq(Int), Rising(h, Len(h)), NEW i \in 1 .. Len(h), NEW j \in 1 .. Len(h)
  PROVE  /\ h[i] \in Int /\ h[j] \in Int
         /\ h[i] <= h[j] <=> i <= j
         /\ h[i] = h[j] <=> i = j
<1>1. h[i] \in Int /\ h[j] \in Int /\ i \in Nat /\ j \in Nat
  OBVIOUS
<1>2. CASE i < j
  BY <1>1, <1>2 DEF Rising
<1>3. CASE i = j
  BY <1>1, <1>3
<1>4. CASE i > j
  BY <1>1, <1>4 DEF Rising
<1> QED BY <1>1, <1>2, <1>3, <1>4

\* Every hour that is not loose is in one range, and in no other; the loose ones are in none.
InOne(h, n, o) ==
  /\ \A k \in 1 .. Len(o) : \E i, j \in 1 .. Len(h) : o[k] = <<h[i], h[j]>>
  /\ \A k, l \in 1 .. Len(o) : k < l => o[k][1] < o[l][1]
  /\ \A i \in 1 .. n : \A k \in 1 .. Len(o) : ~(o[k][1] <= h[i])
  /\ \A i \in n + 1 .. Len(h) : \E k \in 1 .. Len(o) : \A l \in 1 .. Len(o) : (o[l][1] <= h[i] /\ h[i] <= o[l][2]) <=> l = k

LEMMA RangesHold ==
  ASSUME NEW h \in Seq(Int), Rising(h, Len(h)), NEW n \in 0 .. Len(h), NEW R, Tiles(h, R, n, Len(h))
  PROVE  LET o == [k \in DOMAIN R |-> RangeOption(R[k])]
         IN o \in Seq(Int \X Int) /\ Len(o) = Len(R) /\ InOne(h, n, o)
<1> DEFINE o == [k \in DOMAIN R |-> RangeOption(R[k])]
           m == Len(R)
           N == Len(h)
<1>1. R \in Seq(Seq(Int)) /\ m \in Nat /\ DOMAIN R = 1 .. m /\ N \in Nat /\ n \in Nat
  BY DEF Tiles
<1>2. PICK b : Marks(b, h, R, n, N)
  BY DEF Tiles
<1>3. /\ b \in [0 .. m -> Nat] /\ b[0] = n /\ b[m] = N
      /\ \A k \in 1 .. m : b[k - 1] < b[k] /\ R[k] = SubSeq(h, b[k - 1] + 1, b[k])
  BY <1>2 DEF Marks
<1>4. /\ \A k \in 0 .. m : b[k] \in Nat
      /\ \A i, j \in 0 .. m : i < j => b[i] < b[j]
  BY <1>1, <1>2, MarksRise
<1> HIDE DEF m, N
<1>5. \A i, j \in 0 .. m : i <= j => b[i] <= b[j]
  <2> SUFFICES ASSUME NEW i \in 0 .. m, NEW j \in 0 .. m, i <= j PROVE b[i] <= b[j]
    OBVIOUS
  <2>1. CASE i = j
    BY <1>4, <2>1
  <2>2. CASE i # j
    <3>1. i < j
      BY <2>2
    <3>2. b[i] < b[j] /\ b[i] \in Nat /\ b[j] \in Nat
      BY <1>4, <3>1
    <3> QED BY <3>2
  <2> QED BY <2>1, <2>2
<1>6. \A k \in 0 .. m : b[k] <= N /\ n <= b[k]
  <2> SUFFICES ASSUME NEW k \in 0 .. m PROVE b[k] <= N /\ n <= b[k]
    OBVIOUS
  <2>1. m \in 0 .. m /\ k <= m /\ 0 \in 0 .. m /\ 0 <= k
    BY <1>1
  <2> QED BY <1>3, <1>5, <2>1
<1>7. ASSUME NEW k \in 1 .. m
      PROVE  /\ k - 1 \in 0 .. m /\ k \in 0 .. m /\ b[k - 1] + 1 \in 1 .. N /\ b[k] \in 1 .. N /\ b[k - 1] \in Nat
             /\ RangeOption(R[k]) = <<h[b[k - 1] + 1], h[b[k]]>>
  <2> DEFINE x == b[k - 1]
             y == b[k]
  <2>1. k - 1 \in 0 .. m /\ k \in 0 .. m
    BY <1>1
  <2>2. x \in Nat /\ y \in Nat /\ x < y /\ y <= N /\ R[k] = SubSeq(h, x + 1, y)
    BY <1>3, <1>4, <1>6, <2>1
  <2> HIDE DEF x, y
  <2>3. Len(SubSeq(h, x + 1, y)) = y - x /\ SubSeq(h, x + 1, y)[1] = h[x + 1] /\ SubSeq(h, x + 1, y)[y - x] = h[y]
    BY <1>1, <2>2 DEF N
  <2>4. RangeOption(R[k]) = <<h[x + 1], h[y]>>
    BY <2>2, <2>3 DEF RangeOption, Last
  <2>5. x + 1 \in 1 .. N /\ y \in 1 .. N
    BY <1>1, <2>2
  <2> QED BY <2>1, <2>2, <2>4, <2>5 DEF x, y
<1>8. \A k \in 1 .. m : o[k] = <<h[b[k - 1] + 1], h[b[k]]>>
  BY <1>1, <1>7
<1>9. o \in Seq(Int \X Int) /\ Len(o) = m
  <2>1. \A k \in 1 .. m : o[k] \in Int \X Int
    <3> SUFFICES ASSUME NEW k \in 1 .. m PROVE <<h[b[k - 1] + 1], h[b[k]]>> \in Int \X Int
      BY <1>8
    <3>1. b[k - 1] + 1 \in 1 .. N /\ b[k] \in 1 .. N
      BY <1>7
    <3>2. \A i \in 1 .. N : h[i] \in Int
      BY DEF N
    <3> QED BY <3>1, <3>2
  <2>2. o = [k \in 1 .. m |-> o[k]]
    BY <1>1
  <2> HIDE DEF o
  <2> DEFINE S == Int \X Int
  <2>3. \A k \in 1 .. m : o[k] \in S
    BY <2>1
  <2> HIDE DEF S
  <2>4. o \in [1 .. m -> S]
    BY <2>2, <2>3
  <2>5. o \in Seq(S) /\ Len(o) = m
    BY <1>1, <2>4
  <2> QED BY <2>5 DEF S
<1> HIDE DEF o
<1>10. \A i, j \in 1 .. N : h[i] \in Int /\ h[j] \in Int /\ (h[i] <= h[j] <=> i <= j) /\ (h[i] = h[j] <=> i = j)
  BY RisingOrder DEF N
<1>11. \A k \in 1 .. m : \E i, j \in 1 .. N : o[k] = <<h[i], h[j]>>
  BY <1>7, <1>8
<1>12. ASSUME NEW k \in 1 .. m, NEW i \in 1 .. N
       PROVE  (o[k][1] <= h[i] <=> b[k - 1] < i) /\ (h[i] <= o[k][2] <=> i <= b[k])
  <2>1. o[k][1] = h[b[k - 1] + 1] /\ o[k][2] = h[b[k]]
    BY <1>8
  <2>2. b[k - 1] + 1 \in 1 .. N /\ b[k] \in 1 .. N /\ b[k - 1] \in Nat
    BY <1>7
  <2>3. b[k - 1] + 1 <= i <=> b[k - 1] < i
    BY <2>2
  <2> QED BY <1>10, <2>1, <2>2, <2>3
<1>13. ASSUME NEW k \in 1 .. m, NEW l \in 1 .. m, k < l PROVE o[k][1] < o[l][1]
  <2>1. o[k][1] = h[b[k - 1] + 1] /\ o[l][1] = h[b[l - 1] + 1]
    BY <1>8
  <2>2. /\ b[k - 1] + 1 \in 1 .. N /\ b[k - 1] \in Nat /\ k - 1 \in 0 .. m
        /\ b[l - 1] + 1 \in 1 .. N /\ b[l - 1] \in Nat /\ l - 1 \in 0 .. m
    BY <1>7
  <2>3. b[k - 1] < b[l - 1]
    BY <1>4, <1>13, <2>2
  <2>4. b[k - 1] + 1 < b[l - 1] + 1
    BY <2>2, <2>3
  <2> QED BY <2>1, <2>2, <2>4 DEF Rising, N
<1>14. ASSUME NEW i \in 1 .. n, NEW k \in 1 .. m PROVE ~(o[k][1] <= h[i])
  <2>1. i \in 1 .. N /\ n <= b[k - 1] /\ b[k - 1] \in Nat
    BY <1>1, <1>6, <1>7 DEF N
  <2>2. ~(b[k - 1] < i)
    BY <1>1, <2>1
  <2> QED BY <1>12, <2>1, <2>2
<1>15. ASSUME NEW i \in n + 1 .. N
       PROVE  \E k \in 1 .. m : \A l \in 1 .. m : (o[l][1] <= h[i] /\ h[i] <= o[l][2]) <=> l = k
  <2>0. i \in 1 .. N /\ n < i
    BY <1>1
  <2> DEFINE good == {k \in 0 .. m : i <= b[k] => \E l \in 1 .. m : b[l - 1] < i /\ i <= b[l]}
  <2>1. 0 \in good
    BY <1>1, <1>3, <2>0
  <2>2. ASSUME NEW k \in 1 .. m, k - 1 \in good PROVE k \in good
    <3>1. k \in 0 .. m
      BY <1>1
    <3>2. CASE i <= b[k - 1]
      BY <2>2, <3>1, <3>2
    <3>3. CASE ~(i <= b[k - 1])
      <4>1. b[k - 1] < i
        BY <1>7, <2>0, <3>3
      <4> QED BY <3>1, <4>1
    <3> QED BY <3>2, <3>3
  <2>3. \A k \in 0 .. m : k \in good
    <3> HIDE DEF good
    <3> QED BY <1>1, <2>1, <2>2, ByNumber
  <2>4. m \in good /\ i <= b[m]
    <3>1. m \in 0 .. m
      BY <1>1
    <3> HIDE DEF good
    <3> QED BY <1>3, <2>0, <2>3, <3>1
  <2>5. PICK k \in 1 .. m : b[k - 1] < i /\ i <= b[k]
    BY <2>4
  <2>6. ASSUME NEW l \in 1 .. m PROVE (b[l - 1] < i /\ i <= b[l]) <=> l = k
    <3>1. k \in 0 .. m /\ k - 1 \in 0 .. m /\ l \in 0 .. m /\ l - 1 \in 0 .. m
      BY <1>1
    <3>2. b[k] \in Nat /\ b[k - 1] \in Nat /\ b[l] \in Nat /\ b[l - 1] \in Nat /\ i \in Nat
      BY <1>4, <2>0, <3>1
    <3>3. CASE l = k
      BY <2>5, <3>3
    <3>4. CASE l < k
      <4>1. l <= k - 1
        BY <3>4
      <4>2. b[l] <= b[k - 1]
        BY <1>5, <3>1, <4>1
      <4> QED BY <2>5, <3>2, <3>4, <4>2
    <3>5. CASE l > k
      <4>1. k <= l - 1
        BY <3>5
      <4>2. b[k] <= b[l - 1]
        BY <1>5, <3>1, <4>1
      <4> QED BY <2>5, <3>2, <3>5, <4>2
    <3> QED BY <3>3, <3>4, <3>5
  <2> QED BY <1>12, <2>0, <2>6
<1>16. InOne(h, n, o)
  BY <1>9, <1>11, <1>13, <1>14, <1>15 DEF InOne, N
<1> QED BY <1>9, <1>16 DEF o, m

-----------------------------------------------------------------------------
(* Hours and lists of them *)

\* The hours of a day are those that are free, in order.
LEMMA HoursAre ==
  ASSUME ScreensAssumption, NEW f \in SUBSET (1 .. LastHour)
  PROVE  /\ Hours(f) \in Seq(Int) /\ Rising(Hours(f), Len(Hours(f))) /\ Len(Hours(f)) = Cardinality(f)
         /\ \A k \in 1 .. Len(Hours(f)) : Hours(f)[k] \in f
         /\ \A t \in f : \E k \in 1 .. Len(Hours(f)) : Hours(f)[k] = t
<1> DEFINE id == [t \in 1 .. LastHour |-> t]
           h == Where(id, f)
           m == Len(h)
<1>1. LastHour \in Nat
  BY DEF ScreensAssumption
<1>2. id \in Seq(Int) /\ Len(id) = LastHour /\ \A i \in 1 .. LastHour : id[i] = i
  BY <1>1
<1> HIDE DEF id
<1>3. Rising(id, Len(id))
  BY <1>2 DEF Rising
<1>4. Sifted(h, id, f)
  BY <1>2, <1>3, WhereRises
<1>5. Hours(f) = h
  BY DEF Hours, id
<1> HIDE DEF h
<1>6. h \in Seq(Int) /\ m \in Nat /\ Rising(h, m)
  BY <1>4 DEF Sifted
<1>7. \A k \in 1 .. m : h[k] \in f
  BY SMTT(60), <1>2, <1>4 DEF Sifted
<1>8. \A t \in f : \E k \in 1 .. m : h[k] = t
  BY <1>2, <1>4 DEF Sifted
<1> HIDE DEF m
<1>9. m = Cardinality(f)
  <2> DEFINE g == [k \in 1 .. m |-> h[k]]
  <2>1. g \in [1 .. m -> f]
    BY <1>7
  <2>2. \A k, l \in 1 .. m : g[k] = g[l] => k = l
    BY <1>6, RisingOrder DEF m
  <2>3. \A t \in f : \E k \in 1 .. m : g[k] = t
    BY <1>8
  <2> HIDE DEF g
  <2>4. g \in Bijection(1 .. m, f)
    BY <2>1, <2>2, <2>3 DEF Bijection, Injection, Surjection, IsInjective
  <2>5. ExistsBijection(1 .. m, f)
    BY <2>4 DEF ExistsBijection
  <2>6. IsFiniteSet(1 .. m) /\ Cardinality(1 .. m) = m
    <3>1. 1 \in Int /\ m \in Int
      BY <1>6
    <3>2. IsFiniteSet(1 .. m) /\ Cardinality(1 .. m) = IF 1 > m THEN 0 ELSE m - 1 + 1
      BY <3>1, FS_Interval
    <3> QED BY <1>6, <3>2
  <2> QED BY <2>5, <2>6, FS_Bijection
<1> QED BY <1>5, <1>6, <1>7, <1>8, <1>9 DEF m

\* The list that is paged through: that of the day, or of a range of it.
Paged(f, range) == IF range = NoRange THEN Hours(f) ELSE InChosenRange(range, Hours(f))
InRange(f, range) == IF range = NoRange THEN f ELSE {t \in f : range[1] <= t /\ t <= range[2]}

LEMMA PagedIs ==
  ASSUME ScreensAssumption, NEW f \in SUBSET (1 .. LastHour), NEW range
  PROVE  /\ Paged(f, range) \in Seq(Int) /\ Rising(Paged(f, range), Len(Paged(f, range)))
         /\ Len(Paged(f, range)) <= Cardinality(f) /\ Cardinality(f) \in Nat
         /\ {Paged(f, range)[k] : k \in 1 .. Len(Paged(f, range))} = InRange(f, range)
<1> DEFINE h == Hours(f)
           L == Paged(f, range)
<1>1. /\ h \in Seq(Int) /\ Rising(h, Len(h)) /\ Len(h) = Cardinality(f)
      /\ \A k \in 1 .. Len(h) : h[k] \in f
      /\ \A t \in f : \E k \in 1 .. Len(h) : h[k] = t
  BY HoursAre
<1> HIDE DEF h
<1>2. Len(h) \in Nat /\ Cardinality(f) \in Nat
  BY <1>1
<1>3. CASE range = NoRange
  <2>1. L = h
    BY <1>3 DEF Paged, h
  <2> HIDE DEF L
  <2>2. {h[k] : k \in 1 .. Len(h)} = f
    BY <1>1
  <2> QED BY <1>1, <1>2, <1>3, <2>1, <2>2 DEF InRange, L
<1>4. CASE range # NoRange
  <2> DEFINE places == {i \in DOMAIN h : h[i] >= range[1] /\ h[i] <= range[2]}
  <2>1. L = Where(h, places)
    BY <1>4 DEF Paged, InChosenRange, h
  <2> HIDE DEF L
  <2>2. Sifted(L, h, places)
    BY <1>1, <2>1, WhereRises
  <2>3. L \in Seq(Int) /\ Rising(L, Len(L)) /\ Len(L) <= Len(h)
    BY <2>2 DEF Sifted
  <2>4. ASSUME NEW k \in 1 .. Len(L) PROVE L[k] \in InRange(f, range)
    <3>1. PICK i \in 1 .. Len(h) : i \in places /\ L[k] = h[i]
      BY <2>2 DEF Sifted
    <3>2. h[i] \in f /\ h[i] >= range[1] /\ h[i] <= range[2]
      BY <1>1, <3>1
    <3>3. range[1] <= h[i]
      BY <3>2
    <3> QED BY <1>4, <3>1, <3>2, <3>3 DEF InRange
  <2>5. ASSUME NEW t \in InRange(f, range) PROVE \E k \in 1 .. Len(L) : L[k] = t
    <3>1. t \in f /\ range[1] <= t /\ t <= range[2]
      BY <1>4 DEF InRange
    <3>2. PICK i \in 1 .. Len(h) : h[i] = t
      BY <1>1, <3>1
    <3>3. h[i] >= range[1] /\ h[i] <= range[2]
      BY <3>1, <3>2
    <3>4. i \in places
      BY <1>1, <3>2, <3>3
    <3> HIDE DEF places
    <3> QED BY <2>2, <3>2, <3>4 DEF Sifted
  <2>6. {L[k] : k \in 1 .. Len(L)} = InRange(f, range)
    BY <2>4, <2>5
  <2>7. Len(L) <= Cardinality(f)
    BY <1>1, <2>3
  <2> QED BY <1>2, <2>3, <2>6, <2>7 DEF L
<1> QED BY <1>3, <1>4
-----------------------------------------------------------------------------
(* Pages *)

\* Whatever the hours, the page asked for and the rows the screen keeps, a page is of the list
\* and has its rows; it shows something if there is anything; "see more" is there exactly when
\* something is left; and the page that it asks for begins where this one ends.
THEOREM PagesTile ==
  ASSUME ScreensAssumption, NEW total \in Nat, NEW offset \in Nat, NEW reserved \in Nat, reserved + 2 <= Rows
  PROVE  LET w == ComputeOptionWindow(total, offset, reserved)
             rest == ComputeOptionWindow(total, w.end, reserved)
         IN /\ w.start \in 0 .. total /\ w.end \in w.start .. total /\ (offset < total => w.start = offset)
            /\ (w.end - w.start) + (IF w.more THEN 1 ELSE 0) + reserved <= Rows
            /\ total > 0 => w.start < w.end
            /\ w.more <=> w.end < total
            /\ w.more \in BOOLEAN
            /\ w.more => rest.start = w.end
<1>1. PICK from : from = IF offset > 0 /\ offset < total THEN offset ELSE 0
  OBVIOUS
<1>2. PICK w : w = ComputeOptionWindow(total, offset, reserved)
  OBVIOUS
<1>3. from \in Nat /\ (total > 0 => from < total) /\ (offset < total => from = offset) /\ Rows \in Nat
  BY <1>1 DEF ScreensAssumption
<1>4. LargerOf(1, Rows - reserved) = Rows - reserved /\ LargerOf(1, Rows - reserved - 1) = Rows - reserved - 1
  BY <1>3 DEF LargerOf
<1>5. CASE total = 0
  <2>1. w = [start |-> 0, end |-> 0, more |-> FALSE]
    BY <1>2, <1>5 DEF ComputeOptionWindow
  <2>2. w.start = 0 /\ w.end = 0 /\ w.more = FALSE
    BY <2>1
  <2>3. (w.end - w.start) + (IF w.more THEN 1 ELSE 0) + reserved <= Rows
    BY <1>3, <2>2
  <2>4. w.more \in BOOLEAN /\ ~w.more /\ ~(w.end < total)
    <3>1. w.more \in BOOLEAN /\ ~w.more
      BY Zenon, <2>2
    <3> QED BY <1>5, <2>2, <3>1
  <2>5. w.start \in 0 .. total /\ w.end \in w.start .. total /\ (offset < total => w.start = offset)
    BY <1>5, <2>2
  <2> QED BY Zenon, <1>2, <1>5, <2>2, <2>3, <2>4, <2>5
<1>6. CASE total > 0 /\ total - from <= Rows - reserved
  <2>1. w = [start |-> from, end |-> total, more |-> FALSE]
    BY <1>1, <1>2, <1>4, <1>6 DEF ComputeOptionWindow
  <2> QED BY <1>2, <1>3, <1>6, <2>1
<1>7. CASE total > 0 /\ total - from > Rows - reserved
  <2>1. PICK to : to = from + (Rows - reserved - 1)
    OBVIOUS
  <2>2. to \in Nat /\ from < to /\ to < total
    BY <1>3, <1>7, <2>1
  <2>3. PICK budget : budget = LargerOf(1, Rows - reserved)
    OBVIOUS
  <2>4. ~ (total = 0) /\ ~ (total > 0 /\ total - from <= budget) /\ LargerOf(1, budget - 1) = Rows - reserved - 1
    BY <1>3, <1>4, <1>7, <2>3
  <2>5. w = [start |-> from, end |-> from + LargerOf(1, budget - 1),
             more |-> from + LargerOf(1, budget - 1) < total]
    BY Zenon, <1>1, <1>2, <2>3, <2>4 DEF ComputeOptionWindow
  <2>6. w.start = from /\ w.end = to /\ w.more = (to < total)
    BY <1>3, <2>1, <2>4, <2>5
  <2>7. ComputeOptionWindow(total, to, reserved).start = to
    BY <1>3, <1>4, <1>7, <2>2 DEF ComputeOptionWindow
  <2>8. w.more = TRUE /\ w.end < total /\ w.start < w.end /\ w.end - w.start = Rows - reserved - 1
    <3>1. (to < total) = TRUE
      BY <2>2
    <3>2. w.more = TRUE
      BY Zenon, <2>6, <3>1
    <3>3. w.end < total /\ w.start < w.end /\ w.end - w.start = Rows - reserved - 1
      BY <1>3, <2>1, <2>2, <2>6
    <3> QED BY <3>2, <3>3
  <2>9. ComputeOptionWindow(total, w.end, reserved).start = w.end
    BY <2>6, <2>7
  <2>10. w.start \in 0 .. total /\ w.end \in w.start .. total /\ (offset < total => w.start = offset)
    BY <1>3, <2>2, <2>6
  <2>11. (w.end - w.start) + (IF w.more THEN 1 ELSE 0) + reserved <= Rows
    BY <1>3, <2>8
  <2> QED BY <1>2, <2>8, <2>9, <2>10, <2>11
<1> QED BY <1>3, <1>5, <1>6, <1>7

-----------------------------------------------------------------------------
(* What is sent *)

\* The rows a list can have.
Entries ==
  {<<"hour", t>> : t \in Int} \cup {<<"range", r[1], r[2]>> : r \in Int \X Int} \cup {<<"more">>, <<"other">>, <<"cancel">>}

\* A list of rows, none twice, of some kinds.
Apart(rows, kinds) ==
  /\ rows \in Seq(Entries) /\ \A k \in 1 .. Len(rows) : rows[k][1] \in kinds
  /\ \A k, l \in 1 .. Len(rows) : rows[k] = rows[l] => k = l

\* Two lists of rows of other kinds are such a list.
LEMMA ApartJoin ==
  ASSUME NEW a, NEW b, NEW S, NEW T, Apart(a, S), Apart(b, T), S \cap T = {}
  PROVE  Apart(a \o b, S \cup T) /\ Len(a \o b) = Len(a) + Len(b)
<1> DEFINE m == Len(a)
           n == Len(b)
           c == a \o b
<1>1. /\ a \in Seq(Entries) /\ (\A k \in 1 .. m : a[k][1] \in S) /\ (\A k, l \in 1 .. m : a[k] = a[l] => k = l)
      /\ b \in Seq(Entries) /\ (\A k \in 1 .. n : b[k][1] \in T) /\ (\A k, l \in 1 .. n : b[k] = b[l] => k = l)
  BY DEF Apart
<1>2. /\ c \in Seq(Entries) /\ Len(c) = m + n /\ m \in Nat /\ n \in Nat
      /\ \A k \in 1 .. m : c[k] = a[k]
      /\ \A k \in m + 1 .. m + n : c[k] = b[k - m]
  <2> HIDE DEF Entries
  <2> QED BY <1>1
<1> HIDE DEF c, m, n
<1>3. \A k \in 1 .. m + n : k \in 1 .. m \/ (k \in m + 1 .. m + n /\ k - m \in 1 .. n)
  BY <1>2
<1>4. \A k \in 1 .. m + n : c[k][1] \in S \cup T
  BY <1>1, <1>2, <1>3
<1>5. ASSUME NEW k \in 1 .. m + n, NEW l \in 1 .. m + n, c[k] = c[l] PROVE k = l
  <2>1. CASE k \in 1 .. m /\ l \in 1 .. m
    BY <1>1, <1>2, <1>5, <2>1
  <2>2. CASE k \in m + 1 .. m + n /\ l \in m + 1 .. m + n
    <3>1. k - m \in 1 .. n /\ l - m \in 1 .. n /\ b[k - m] = b[l - m]
      BY <1>2, <1>5, <2>2
    <3>2. k - m = l - m
      BY <1>1, <3>1
    <3> QED BY <1>2, <3>2
  <2>3. CASE k \in 1 .. m /\ l \in m + 1 .. m + n
    <3>1. l - m \in 1 .. n /\ c[k] = a[k] /\ c[l] = b[l - m]
      BY <1>2, <2>3
    <3>2. c[k][1] \in S /\ c[l][1] \in T
      BY <1>1, <2>3, <3>1
    <3> QED BY <1>5, <3>2
  <2>4. CASE l \in 1 .. m /\ k \in m + 1 .. m + n
    <3>1. k - m \in 1 .. n /\ c[l] = a[l] /\ c[k] = b[k - m]
      BY <1>2, <2>4
    <3>2. c[l][1] \in S /\ c[k][1] \in T
      BY <1>1, <2>4, <3>1
    <3> QED BY <1>5, <3>2
  <2> QED BY <1>3, <2>1, <2>2, <2>3, <2>4
<1>6. Apart(c, S \cup T)
  BY <1>2, <1>4, <1>5 DEF Apart
<1> QED BY <1>2, <1>6 DEF c, m, n

\* Hours, none twice, make rows of theirs.
LEMMA HourRows ==
  ASSUME NEW s \in Seq(Int), \A k, l \in 1 .. Len(s) : s[k] = s[l] => k = l
  PROVE  Apart([k \in DOMAIN s |-> <<"hour", s[k]>>], {"hour"}) /\ Len([k \in DOMAIN s |-> <<"hour", s[k]>>]) = Len(s)
<1> DEFINE rows == [k \in DOMAIN s |-> <<"hour", s[k]>>]
           n == Len(s)
<1>1. n \in Nat /\ DOMAIN s = 1 .. n /\ \A k \in 1 .. n : s[k] \in Int
  OBVIOUS
<1>2. rows = [k \in 1 .. n |-> rows[k]] /\ \A k \in 1 .. n : rows[k] = <<"hour", s[k]>>
  BY <1>1
<1> HIDE DEF rows, n
<1>3. \A k \in 1 .. n : rows[k] \in Entries
  BY <1>1, <1>2 DEF Entries
<1>4. rows \in Seq(Entries) /\ Len(rows) = n
  <2> HIDE DEF Entries
  <2> QED BY <1>1, <1>2, <1>3
<1>5. \A k \in 1 .. n : rows[k][1] = "hour" /\ rows[k][2] = s[k]
  BY <1>2
<1>6. \A k, l \in 1 .. n : rows[k] = rows[l] => k = l
  BY <1>5 DEF n
<1> QED BY <1>4, <1>5, <1>6 DEF Apart, rows, n

\* Ranges that begin one after another make rows of theirs.
LEMMA RangeRows ==
  ASSUME NEW o \in Seq(Int \X Int), \A k, l \in 1 .. Len(o) : k < l => o[k][1] < o[l][1]
  PROVE  /\ Apart([k \in DOMAIN o |-> <<"range", o[k][1], o[k][2]>>], {"range"})
         /\ Len([k \in DOMAIN o |-> <<"range", o[k][1], o[k][2]>>]) = Len(o)
<1> DEFINE rows == [k \in DOMAIN o |-> <<"range", o[k][1], o[k][2]>>]
           n == Len(o)
<1>1. n \in Nat /\ DOMAIN o = 1 .. n /\ \A k \in 1 .. n : o[k] \in Int \X Int
  <2> DEFINE S == Int \X Int
  <2>1. o \in Seq(S)
    OBVIOUS
  <2> HIDE DEF S
  <2>2. n \in Nat /\ DOMAIN o = 1 .. n /\ \A k \in 1 .. n : o[k] \in S
    BY <2>1
  <2> QED BY <2>2 DEF S
<1>2. rows = [k \in 1 .. n |-> rows[k]] /\ \A k \in 1 .. n : rows[k] = <<"range", o[k][1], o[k][2]>>
  BY <1>1
<1> HIDE DEF rows, n
<1>3. \A k \in 1 .. n : rows[k] \in Entries
  BY <1>1, <1>2 DEF Entries
<1>4. rows \in Seq(Entries) /\ Len(rows) = n
  <2> HIDE DEF Entries
  <2> QED BY <1>1, <1>2, <1>3
<1>5. \A k \in 1 .. n : rows[k][1] = "range" /\ rows[k][2] = o[k][1] /\ o[k][1] \in Int
  BY <1>1, <1>2
<1>6. ASSUME NEW k \in 1 .. n, NEW l \in 1 .. n, rows[k] = rows[l] PROVE k = l
  <2>1. o[k][1] = o[l][1] /\ o[k][1] \in Int /\ o[l][1] \in Int
    BY <1>5, <1>6
  <2>2. ~(k < l) /\ ~(l < k)
    BY <2>1 DEF n
  <2> QED BY <2>2
<1> QED BY <1>4, <1>5, <1>6 DEF Apart, rows, n

\* One row more, or none.
LEMMA OneRow ==
  ASSUME NEW kind \in {"more", "other", "cancel"}, NEW P \in BOOLEAN
  PROVE  /\ Apart(IF P THEN <<<<kind>>>> ELSE <<>>, {kind})
         /\ Len(IF P THEN <<<<kind>>>> ELSE <<>>) = IF P THEN 1 ELSE 0
<1> DEFINE rows == IF P THEN <<<<kind>>>> ELSE <<>>
<1>1. <<kind>> \in Entries /\ <<kind>>[1] = kind
  BY DEF Entries
<1>2. CASE P
  <2> DEFINE x == <<kind>>
  <2>1. x \in Entries /\ x[1] = kind
    BY <1>1
  <2> HIDE DEF x, Entries
  <2>2. <<x>> \in Seq(Entries) /\ Len(<<x>>) = 1 /\ \A k \in 1 .. 1 : <<x>>[k] = x
    BY <2>1
  <2>3. Apart(<<x>>, {kind})
    BY <2>1, <2>2 DEF Apart
  <2> QED BY <1>2, <2>2, <2>3 DEF x
<1>3. CASE ~P
  <2>1. <<>> \in Seq(Entries) /\ Len(<<>>) = 0
    OBVIOUS
  <2>2. Apart(<<>>, {kind})
    BY <2>1 DEF Apart
  <2> QED BY <1>3, <2>1, <2>2
<1> QED BY <1>2, <1>3

Distinct(s) == \A k, l \in 1 .. Len(s) : s[k] = s[l] => k = l

\* A screen of hours or of ranges with room for its rows is a list WhatsApp takes.
LEMMA OptionsFit ==
  ASSUME NEW scr, scr.hours \in Seq(Int), Distinct(scr.hours), scr.next \in Seq(Int), Distinct(scr.next),
         scr.hours = <<>> \/ scr.next = <<>>, scr.ranges \in Seq(Int \X Int),
         \A k, l \in 1 .. Len(scr.ranges) : k < l => scr.ranges[k][1] < scr.ranges[l][1],
         scr.more \in BOOLEAN, scr.extra \in Nat, Rows \in Nat,
         Len(scr.hours) + Len(scr.next) + Len(scr.ranges) + (IF scr.more THEN 1 ELSE 0) + (IF scr.extra > 0 THEN 1 ELSE 0) + 1 <= Rows
  PROVE  BuildListPayload(Options(scr))
<1> DEFINE a == [k \in DOMAIN scr.hours |-> <<"hour", scr.hours[k]>>]
           b == [k \in DOMAIN scr.next |-> <<"hour", scr.next[k]>>]
           c == [k \in DOMAIN scr.ranges |-> <<"range", scr.ranges[k][1], scr.ranges[k][2]>>]
           d == IF scr.more THEN <<<<"more">>>> ELSE <<>>
           e == IF scr.extra > 0 THEN <<<<"other">>>> ELSE <<>>
           f == <<<<"cancel">>>>
           p == Len(scr.hours)
           q == Len(scr.next)
           r == Len(scr.ranges)
           x == IF scr.more THEN 1 ELSE 0
           y == IF scr.extra > 0 THEN 1 ELSE 0
<1>1. Options(scr) = ((((a \o b) \o c) \o d) \o e) \o f
  BY DEF Options
<1>2. Apart(a, {"hour"}) /\ Len(a) = p /\ Apart(b, {"hour"}) /\ Len(b) = q
  BY HourRows DEF Distinct
<1>3. Apart(c, {"range"}) /\ Len(c) = r
  BY RangeRows
<1>4. Apart(d, {"more"}) /\ Len(d) = x
  BY OneRow
<1>5. Apart(e, {"other"}) /\ Len(e) = y
  <2> DEFINE P == scr.extra > 0
  <2>1. P \in BOOLEAN
    OBVIOUS
  <2> HIDE DEF P
  <2>2. Apart(IF P THEN <<<<"other">>>> ELSE <<>>, {"other"}) /\ Len(IF P THEN <<<<"other">>>> ELSE <<>>) = IF P THEN 1 ELSE 0
    BY <2>1, OneRow
  <2> QED BY <2>2 DEF P
<1>6. Apart(f, {"cancel"}) /\ Len(f) = 1
  <2>1. Apart(IF TRUE THEN <<<<"cancel">>>> ELSE <<>>, {"cancel"}) /\ Len(IF TRUE THEN <<<<"cancel">>>> ELSE <<>>) = IF TRUE THEN 1 ELSE 0
    BY OneRow
  <2> QED BY <2>1
<1>7. p \in Nat /\ q \in Nat /\ r \in Nat /\ x \in Nat /\ y \in Nat /\ p + q + r + x + y + 1 <= Rows
  <2>1. p \in Nat /\ q \in Nat
    OBVIOUS
  <2>2. r \in Nat
    <3> DEFINE S == Int \X Int
    <3>1. scr.ranges \in Seq(S)
      OBVIOUS
    <3> HIDE DEF S
    <3> QED BY <3>1
  <2> QED BY <2>1, <2>2
<1>8. Apart(a \o b, {"hour"}) /\ Len(a \o b) = p + q
  <2>1. a \in Seq(Entries) /\ b \in Seq(Entries)
    BY <1>2 DEF Apart
  <2>2. CASE scr.hours = <<>>
    <3>1. p = 0
      BY <2>2
    <3> HIDE DEF a, b, p, q, Entries
    <3>2. a = <<>>
      BY <1>2, <2>1, <3>1
    <3>3. a \o b = b
      BY <2>1, <3>2
    <3> QED BY <1>2, <1>7, <3>1, <3>3
  <2>3. CASE scr.next = <<>>
    <3>1. q = 0
      BY <2>3
    <3> HIDE DEF a, b, p, q, Entries
    <3>2. b = <<>>
      BY <1>2, <2>1, <3>1
    <3>3. a \o b = a
      BY <2>1, <3>2
    <3> QED BY <1>2, <1>7, <3>1, <3>3
  <2> QED BY <2>2, <2>3
<1> HIDE DEF a, b, c, d, e, f, p, q, r, x, y
<1> DEFINE ab == a \o b
<1>9. Apart(ab \o c, {"hour"} \cup {"range"}) /\ Len(ab \o c) = Len(ab) + Len(c)
  <2>1. {"hour"} \cap {"range"} = {}
    OBVIOUS
  <2> QED BY <1>3, <1>8, <2>1, ApartJoin
<1> DEFINE abc == ab \o c
<1>10. Apart(abc \o d, {"hour"} \cup {"range"} \cup {"more"}) /\ Len(abc \o d) = Len(abc) + Len(d)
  <2>1. ({"hour"} \cup {"range"}) \cap {"more"} = {}
    OBVIOUS
  <2> HIDE DEF ab
  <2> QED BY <1>4, <1>9, <2>1, ApartJoin
<1> DEFINE abcd == abc \o d
<1>11. Apart(abcd \o e, {"hour"} \cup {"range"} \cup {"more"} \cup {"other"}) /\ Len(abcd \o e) = Len(abcd) + Len(e)
  <2>1. ({"hour"} \cup {"range"} \cup {"more"}) \cap {"other"} = {}
    OBVIOUS
  <2> HIDE DEF ab, abc
  <2> QED BY <1>5, <1>10, <2>1, ApartJoin
<1> DEFINE abcde == abcd \o e
<1>12. /\ Apart(abcde \o f, {"hour"} \cup {"range"} \cup {"more"} \cup {"other"} \cup {"cancel"})
       /\ Len(abcde \o f) = Len(abcde) + Len(f)
  <2>1. ({"hour"} \cup {"range"} \cup {"more"} \cup {"other"}) \cap {"cancel"} = {}
    OBVIOUS
  <2> HIDE DEF ab, abc, abcd
  <2> QED BY ZenonT(60), <1>6, <1>11, <2>1, ApartJoin
<1> DEFINE all == abcde \o f
<1>13. Options(scr) = all
  BY <1>1
<1>14. Len(all) = p + q + r + x + y + 1
  <2>1. Len(ab) = p + q
    BY <1>8
  <2> HIDE DEF ab
  <2>2. Len(abc) = p + q + r
    BY <1>3, <1>9, <2>1
  <2> HIDE DEF abc
  <2>3. Len(abcd) = p + q + r + x
    BY <1>4, <1>10, <2>2
  <2> HIDE DEF abcd
  <2>4. Len(abcde) = p + q + r + x + y
    BY <1>5, <1>11, <2>3
  <2> HIDE DEF abcde
  <2> QED BY <1>6, <1>12, <2>4
<1> HIDE DEF all
<1>15. all \in Seq(Entries) /\ \A k, l \in 1 .. Len(all) : all[k] = all[l] => k = l
  BY <1>12 DEF Apart, all
<1>16. Len(all) \in 1 .. Rows /\ DOMAIN all = 1 .. Len(all)
  <2> HIDE DEF Entries
  <2> QED BY <1>7, <1>14, <1>15
<1> QED BY <1>13, <1>15, <1>16 DEF BuildListPayload, IsInjective

\* Nothing of a screen is kept back when its list is one WhatsApp takes.
LEMMA RenderAll ==
  ASSUME NEW scr, BuildListPayload(Options(scr))
  PROVE  Render(scr) = PlanBookingPrompt(scr)
<1> DEFINE rows == Options(scr)
           plans == PlanBookingPrompt(scr)
           sent == {k \in DOMAIN plans : \A j \in 1 .. k : Send(plans[j])}
<1>1. rows # <<>>
  <2>1. Len(rows) \in 1 .. Rows
    BY DEF BuildListPayload
  <2> HIDE DEF rows
  <2> QED BY <2>1
<1>2. Send(List(rows)) /\ Send(Text)
  <2>1. List(rows) = [component |-> "list", rows |-> rows]
    BY <1>1 DEF List
  <2>2. Send(List(rows))
    <3> HIDE DEF rows
    <3> QED BY <2>1 DEF Send, rows
  <2>3. Text.component = "text"
    BY DEF Text
  <2> QED BY <2>2, <2>3 DEF Send
<1> DEFINE l == List(rows)
<1>3. plans = <<l>> \/ plans = <<Text, l>>
  BY DEF PlanBookingPrompt
<1> HIDE DEF l, plans
<1>4. PICK n \in 1 .. 2 : DOMAIN plans = 1 .. n /\ Len(plans) = n /\ \A j \in 1 .. n : plans[j] \in {Text, l}
  <2>1. CASE plans = <<l>>
    <3>1. DOMAIN plans = 1 .. 1 /\ Len(plans) = 1 /\ \A j \in 1 .. 1 : plans[j] \in {Text, l}
      BY <2>1
    <3> QED BY <3>1
  <2>2. CASE plans = <<Text, l>>
    <3>1. DOMAIN plans = 1 .. 2 /\ Len(plans) = 2 /\ \A j \in 1 .. 2 : plans[j] \in {Text, l}
      BY <2>2
    <3> QED BY <3>1
  <2> QED BY <1>3, <2>1, <2>2
<1>5. sent = 1 .. n
  BY <1>2, <1>4 DEF l
<1>6. Cardinality(1 .. n) = n
  <2>1. 1 \in Int /\ n \in Int /\ 1 <= n
    BY <1>4
  <2>2. Cardinality(1 .. n) = IF 1 > n THEN 0 ELSE n - 1 + 1
    BY <2>1, FS_Interval
  <2> QED BY <2>1, <2>2
<1>7. SubSeq(plans, 1, n) = plans
  <2> DEFINE S == {Text, l}
  <2>1. Text \in S /\ l \in S
    OBVIOUS
  <2> HIDE DEF S
  <2>2. <<l>> \in Seq(S) /\ <<Text, l>> \in Seq(S)
    BY <2>1
  <2>3. plans \in Seq(S)
    BY <1>3, <2>2
  <2> QED BY <1>4, <2>3, SubSeqFull
<1>8. Render(scr) = SubSeq(plans, 1, Cardinality(sent))
  BY DEF Render, plans
<1> QED BY <1>5, <1>6, <1>7, <1>8 DEF plans

-----------------------------------------------------------------------------
(* Screens *)

\* A list that can be sent, whatever is asked above it.
Sound(scr) == BuildListPayload(Options(scr))

\* A stretch of a list.
LEMMA Stretch ==
  ASSUME NEW L \in Seq(Int), NEW a \in Nat, NEW z \in Nat, a <= z, z <= Len(L)
  PROVE  LET t == SubSeq(L, a + 1, z)
         IN t \in Seq(Int) /\ Len(t) = z - a /\ DOMAIN t = 1 .. z - a /\ \A k \in 1 .. z - a : t[k] = L[k + a]
<1>1. CASE a = z
  <2>1. SubSeq(L, a + 1, z) = <<>>
    <3>1. a + 1 > z
      BY <1>1
    <3> QED BY <3>1, SubSeqEmpty
  <2>2. <<>> \in Seq(Int) /\ Len(<<>>) = 0 /\ DOMAIN <<>> = {} /\ 1 .. 0 = {}
    OBVIOUS
  <2> QED BY <1>1, <2>1, <2>2
<1>2. CASE a < z
  <2> DEFINE m == a + 1
             t == SubSeq(L, m, z)
  <2>1. m \in 1 .. z /\ m \in 1 .. Len(L) + 1 /\ z \in m - 1 .. Len(L) /\ m <= z
    BY <1>2
  <2>2. /\ t \in Seq(Int) /\ Len(t) = IF m <= z THEN z - m + 1 ELSE 0
        /\ \A i \in 1 .. z - m + 1 : t[i] = L[m + i - 1]
    <3> HIDE DEF m
    <3> QED BY <2>1, SubSeqProperties
  <2>3. z - m + 1 = z - a /\ \A i \in 1 .. z - a : m + i - 1 = i + a
    BY <2>1
  <2>4. DOMAIN t = 1 .. Len(t)
    <3> HIDE DEF t
    <3> QED BY <2>2
  <2> QED BY <2>1, <2>2, <2>3, <2>4
<1> QED BY SMTT(60), <1>1, <1>2

\* A page of a list of hours is sound, and goes from where it starts to where it ends.
LEMMA PageSound ==
  ASSUME ScreensAssumption, NEW L \in Seq(Int), Rising(L, Len(L)), NEW offset \in Nat, NEW extra \in {0, 1}
  PROVE  LET w == ComputeOptionWindow(Len(L), offset, Cancel + extra)
         IN /\ Sound(Paginate(L, offset, extra))
            /\ Paginate(L, offset, extra) = Shown("hours", SubSeq(L, w.start + 1, w.end), <<>>, <<>>, w.more, extra)
<1> DEFINE w == ComputeOptionWindow(Len(L), offset, Cancel + extra)
           h == SubSeq(L, w.start + 1, w.end)
           scr == Shown("hours", h, <<>>, <<>>, w.more, extra)
<1>1. Paginate(L, offset, extra) = scr
  BY DEF Paginate
<1>2. /\ w.start \in 0 .. Len(L) /\ w.end \in w.start .. Len(L)
      /\ (w.end - w.start) + (IF w.more THEN 1 ELSE 0) + (Cancel + extra) <= Rows
      /\ w.more \in BOOLEAN
  <2>1. Len(L) \in Nat /\ Cancel + extra \in Nat /\ Cancel + extra + 2 <= Rows
    BY DEF ScreensAssumption, Cancel
  <2> QED BY <2>1, PagesTile
<1> HIDE DEF w
<1>4. h \in Seq(Int) /\ Len(h) = w.end - w.start /\ \A k \in 1 .. w.end - w.start : h[k] = L[k + w.start]
  <2> DEFINE a == w.start
             z == w.end
  <2>1. a \in Nat /\ z \in Nat /\ a <= z /\ z <= Len(L)
    BY <1>2
  <2> HIDE DEF a, z
  <2>2. LET t == SubSeq(L, a + 1, z) IN t \in Seq(Int) /\ Len(t) = z - a /\ \A k \in 1 .. z - a : t[k] = L[k + a]
    BY <2>1, Stretch
  <2> QED BY <2>2 DEF a, z
<1> HIDE DEF h
<1>5. Distinct(h)
  <2> SUFFICES ASSUME NEW k \in 1 .. Len(h), NEW l \in 1 .. Len(h), h[k] = h[l] PROVE k = l
    BY DEF Distinct
  <2>1. h[k] = h[l]
    OBVIOUS
  <2> DEFINE a == w.start
             z == w.end
  <2>0. a \in Nat /\ z \in Nat /\ a <= z /\ z <= Len(L)
    BY <1>2
  <2>2. Len(h) = z - a /\ \A i \in 1 .. z - a : h[i] = L[i + a]
    BY <1>4
  <2> HIDE DEF a, z
  <2>3. k + a \in 1 .. Len(L) /\ l + a \in 1 .. Len(L) /\ L[k + a] = L[l + a]
    BY <2>0, <2>1, <2>2
  <2>4. k + a = l + a
    BY <2>3, RisingOrder
  <2> QED BY <2>0, <2>4 DEF a
<1>6. /\ scr.hours = h /\ scr.next = <<>> /\ scr.ranges = <<>> /\ scr.more = w.more /\ scr.extra = extra
  BY DEF Shown
<1> HIDE DEF scr
<1>7. BuildListPayload(Options(scr))
  <2>1. <<>> \in Seq(Int) /\ <<>> \in Seq(Int \X Int) /\ Len(<<>>) = 0 /\ Distinct(<<>>)
    BY DEF Distinct
  <2>2. Rows \in Nat
    BY DEF ScreensAssumption
  <2>3. Len(h) + 0 + 0 + (IF w.more THEN 1 ELSE 0) + (IF extra > 0 THEN 1 ELSE 0) + 1 <= Rows
    BY <1>2, <1>4, <2>2 DEF Cancel
  <2>4. scr.hours \in Seq(Int) /\ Distinct(scr.hours) /\ scr.next \in Seq(Int) /\ Distinct(scr.next) /\ scr.next = <<>>
    BY <1>4, <1>5, <1>6, <2>1
  <2>5. scr.ranges \in Seq(Int \X Int) /\ scr.more \in BOOLEAN /\ scr.extra \in Nat
    BY <1>2, <1>6, <2>1
  <2>6. \A k, l \in 1 .. Len(scr.ranges) : k < l => scr.ranges[k][1] < scr.ranges[l][1]
    BY <1>6, <2>1
  <2>7. Len(scr.hours) + Len(scr.next) + Len(scr.ranges) + (IF scr.more THEN 1 ELSE 0) + (IF scr.extra > 0 THEN 1 ELSE 0) + 1 <= Rows
    <3>1. Len(scr.hours) = Len(h) /\ Len(scr.next) = 0 /\ Len(scr.ranges) = 0
      BY <1>6, <2>1
    <3>2. Len(h) \in Nat
      BY <1>4
    <3> QED BY <1>6, <2>3, <3>1, <3>2
  <2> QED BY <2>2, <2>4, <2>5, <2>6, <2>7, OptionsFit
<1> QED BY <1>1, <1>7 DEF Sound, w, h, scr

\* The rows of a grouped day, and that each hour is in one of its ranges or loose.
Grouped(f, scr) ==
  /\ \A t \in f : Cardinality({k \in DOMAIN scr.ranges : scr.ranges[k][1] <= t /\ t <= scr.ranges[k][2]})
                   + (IF t \in {scr.next[k] : k \in DOMAIN scr.next} THEN 1 ELSE 0) = 1
  /\ \A k \in DOMAIN scr.ranges : scr.ranges[k][1] \in f /\ scr.ranges[k][2] \in f

LEMMA GroupedSound ==
  ASSUME ScreensAssumption, NEW f \in SUBSET (1 .. LastHour), NEW n \in 0 .. Len(Hours(f)), NEW p,
         Laid(p, Hours(f), Rows - 2, n)
  PROVE  LET scr == Shown("grouped", <<>>, p.next, [k \in DOMAIN p.ranges |-> RangeOption(p.ranges[k])], FALSE, 1)
         IN Sound(scr) /\ Grouped(f, scr)
<1> DEFINE h == Hours(f)
           o == [k \in DOMAIN p.ranges |-> RangeOption(p.ranges[k])]
           scr == Shown("grouped", <<>>, p.next, o, FALSE, 1)
<1>1. /\ h \in Seq(Int) /\ Rising(h, Len(h))
      /\ \A k \in 1 .. Len(h) : h[k] \in f
      /\ \A t \in f : \E k \in 1 .. Len(h) : h[k] = t
  BY HoursAre
<1> HIDE DEF h
<1>2. o \in Seq(Int \X Int) /\ Len(o) = Len(p.ranges) /\ InOne(h, n, o)
  <2>1. Tiles(h, p.ranges, n, Len(h)) /\ n \in 0 .. Len(h)
    BY DEF Laid, h
  <2> QED BY <1>1, <2>1, RangesHold
<1>3. p.next = SubSeq(h, 1, n) /\ Len(p.ranges) + n <= Rows - 2
  BY DEF Laid, h
<1> DEFINE e == p.next
<1>4. e \in Seq(Int) /\ Len(e) = n /\ n \in Nat /\ n <= Len(h) /\ Len(h) \in Nat /\ \A k \in 1 .. n : e[k] = h[k]
  <2>1. n \in 0 .. Len(h)
    BY DEF h
  <2>2. n \in Nat /\ n <= Len(h) /\ Len(h) \in Nat
    BY <1>1, <2>1
  <2>3. LET t == SubSeq(h, 1, n) IN t \in Seq(Int) /\ Len(t) = n /\ \A k \in 1 .. n : t[k] = h[k]
    BY <1>1, <2>2
  <2> QED BY <1>3, <2>2, <2>3
<1> HIDE DEF o, e
<1>5. scr.hours = <<>> /\ scr.next = e /\ scr.ranges = o /\ scr.more = FALSE /\ scr.extra = 1
  BY DEF Shown, e
<1> HIDE DEF scr
<1>6. Len(o) \in Nat /\ DOMAIN o = 1 .. Len(o) /\ DOMAIN e = 1 .. n /\ \A k \in 1 .. Len(o) : o[k] \in Int \X Int
  <2> DEFINE S == Int \X Int
  <2>1. o \in Seq(S)
    BY <1>2
  <2> HIDE DEF S
  <2>2. Len(o) \in Nat /\ DOMAIN o = 1 .. Len(o) /\ \A k \in 1 .. Len(o) : o[k] \in S
    BY <2>1
  <2> QED BY <1>4, <2>2 DEF S
<1>7. Sound(scr)
  <2>1. Distinct(e)
    <3> SUFFICES ASSUME NEW k \in 1 .. n, NEW l \in 1 .. n, e[k] = e[l] PROVE k = l
      BY <1>4 DEF Distinct
    <3>1. k \in 1 .. Len(h) /\ l \in 1 .. Len(h) /\ h[k] = h[l]
      BY <1>4
    <3> QED BY <1>1, <3>1, RisingOrder
  <2>2. <<>> \in Seq(Int) /\ Len(<<>>) = 0 /\ Distinct(<<>>)
    BY DEF Distinct
  <2>3. \A k, l \in 1 .. Len(o) : k < l => o[k][1] < o[l][1]
    BY <1>2 DEF InOne
  <2>4. Rows \in Nat /\ 0 + Len(e) + Len(o) + (IF FALSE THEN 1 ELSE 0) + (IF 1 > 0 THEN 1 ELSE 0) + 1 <= Rows
    <3>1. Rows \in Nat
      BY DEF ScreensAssumption
    <3> QED BY <1>2, <1>3, <1>4, <1>6, <3>1
  <2>5. scr.hours \in Seq(Int) /\ Distinct(scr.hours) /\ scr.next \in Seq(Int) /\ Distinct(scr.next) /\ scr.hours = <<>>
    BY <1>4, <1>5, <2>1, <2>2
  <2>6. scr.ranges \in Seq(Int \X Int) /\ scr.more \in BOOLEAN /\ scr.extra \in Nat
    <3>1. scr.ranges \in Seq(Int \X Int)
      BY Zenon, <1>2, <1>5
    <3>2. scr.more \in BOOLEAN
      BY Zenon, <1>5
    <3>3. scr.extra \in Nat
      BY <1>5
    <3> QED BY <3>1, <3>2, <3>3
  <2>7. \A k, l \in 1 .. Len(scr.ranges) : k < l => scr.ranges[k][1] < scr.ranges[l][1]
    BY <1>5, <2>3
  <2>8. Len(scr.hours) + Len(scr.next) + Len(scr.ranges) + (IF scr.more THEN 1 ELSE 0) + (IF scr.extra > 0 THEN 1 ELSE 0) + 1 <= Rows
    BY <1>5, <2>2, <2>4
  <2> QED BY <2>4, <2>5, <2>6, <2>7, <2>8, OptionsFit DEF Sound
<1>8. ASSUME NEW k \in DOMAIN o PROVE o[k][1] \in f /\ o[k][2] \in f
  <2>1. PICK i \in 1 .. Len(h), j \in 1 .. Len(h) : o[k] = <<h[i], h[j]>>
    BY <1>2, <1>6, <1>8 DEF InOne
  <2> QED BY <1>1, <2>1
<1>9. ASSUME NEW t \in f
      PROVE  Cardinality({k \in DOMAIN o : o[k][1] <= t /\ t <= o[k][2]}) + (IF t \in {e[k] : k \in DOMAIN e} THEN 1 ELSE 0) = 1
  <2> DEFINE inside == {k \in DOMAIN o : o[k][1] <= t /\ t <= o[k][2]}
             loose == {e[k] : k \in DOMAIN e}
  <2>1. PICK i \in 1 .. Len(h) : h[i] = t
    BY <1>1
  <2>2. i \in 1 .. n \/ i \in n + 1 .. Len(h)
    BY <1>4, <2>1
  <2>3. CASE i \in 1 .. n
    <3>1. inside = {}
      BY <1>2, <1>6, <2>1, <2>3 DEF InOne
    <3>2. t \in loose
      BY <1>4, <1>6, <2>1, <2>3
    <3>3. Cardinality({}) = 0
      BY FS_EmptySet
    <3> HIDE DEF inside, loose
    <3>4. Cardinality(inside) + (IF t \in loose THEN 1 ELSE 0) = 1
      BY <3>1, <3>2, <3>3
    <3> QED BY <3>4 DEF inside, loose
  <2>4. CASE i \in n + 1 .. Len(h)
    <3>1. PICK k \in 1 .. Len(o) : \A l \in 1 .. Len(o) : (o[l][1] <= h[i] /\ h[i] <= o[l][2]) <=> l = k
      BY <1>2, <2>4 DEF InOne
    <3>2. inside = {k}
      BY <1>6, <2>1, <3>1
    <3>3. t \notin loose
      <4> SUFFICES ASSUME NEW l \in 1 .. n, e[l] = t PROVE FALSE
        BY <1>6
      <4>1. l \in 1 .. Len(h) /\ h[l] = h[i]
        BY <1>4, <2>1
      <4>2. l = i
        BY <1>1, <4>1, RisingOrder
      <4> QED BY <1>4, <2>4, <4>2
    <3>4. Cardinality({k}) = 1
      BY FS_Singleton
    <3> HIDE DEF inside, loose
    <3>5. Cardinality(inside) + (IF t \in loose THEN 1 ELSE 0) = 1
      BY <3>2, <3>3, <3>4
    <3> QED BY <3>5 DEF inside, loose
  <2> QED BY <2>2, <2>3, <2>4
<1>10. Grouped(f, scr)
  BY <1>5, <1>8, <1>9 DEF Grouped
<1> QED BY <1>7, <1>10 DEF scr, o, e

\* A screen without hours keeps its rows.
LEMMA NoneSound ==
  ASSUME ScreensAssumption
  PROVE  Sound(Shown("none", <<>>, <<>>, <<>>, FALSE, 1))
<1> DEFINE scr == Shown("none", <<>>, <<>>, <<>>, FALSE, 1)
<1>1. scr.hours = <<>> /\ scr.next = <<>> /\ scr.ranges = <<>> /\ scr.more = FALSE /\ scr.extra = 1
  BY DEF Shown
<1> HIDE DEF scr
<1>2. <<>> \in Seq(Int) /\ <<>> \in Seq(Int \X Int) /\ Len(<<>>) = 0 /\ Distinct(<<>>)
  BY DEF Distinct
<1>3. scr.hours \in Seq(Int) /\ Distinct(scr.hours) /\ scr.next \in Seq(Int) /\ Distinct(scr.next) /\ scr.hours = <<>>
  BY <1>1, <1>2
<1>4. scr.ranges \in Seq(Int \X Int) /\ scr.extra \in Nat
  BY <1>1, <1>2
<1>5. scr.more \in BOOLEAN
  BY Zenon, <1>1
<1>6. \A k, l \in 1 .. Len(scr.ranges) : k < l => scr.ranges[k][1] < scr.ranges[l][1]
  BY <1>1, <1>2
<1>7. /\ Rows \in Nat
      /\ Len(scr.hours) + Len(scr.next) + Len(scr.ranges) + (IF scr.more THEN 1 ELSE 0) + (IF scr.extra > 0 THEN 1 ELSE 0) + 1 <= Rows
  <2>1. Rows \in Nat /\ Rows > 3
    BY DEF ScreensAssumption
  <2> QED BY <1>1, <1>2, <2>1
<1>8. BuildListPayload(Options(scr))
  BY <1>3, <1>4, <1>5, <1>6, <1>7, OptionsFit
<1> QED BY <1>8 DEF Sound, scr

\* The rows of a screen are made of these parts of it.
RowsOf(hours, next, ranges, more, extra) ==
  [k \in DOMAIN hours |-> <<"hour", hours[k]>>]
  \o [k \in DOMAIN next |-> <<"hour", next[k]>>]
  \o [k \in DOMAIN ranges |-> <<"range", ranges[k][1], ranges[k][2]>>]
  \o (IF more THEN <<<<"more">>>> ELSE <<>>)
  \o (IF extra > 0 THEN <<<<"other">>>> ELSE <<>>)
  \o <<<<"cancel">>>>

\* The question above a list changes nothing of it.
LEMMA Asked ==
  ASSUME NEW old, \E kind, hours, next, ranges, more, extra : old = Shown(kind, hours, next, ranges, more, extra),
         NEW prompt
  PROVE  LET scr == [old EXCEPT !.prompt = prompt]
         IN /\ scr.kind = old.kind /\ scr.hours = old.hours /\ scr.next = old.next /\ scr.ranges = old.ranges
            /\ scr.more = old.more
            /\ Sound(scr) <=> Sound(old)
<1> DEFINE scr == [old EXCEPT !.prompt = prompt]
<1>1. PICK kind, hours, next, ranges, more, extra : old = Shown(kind, hours, next, ranges, more, extra)
  OBVIOUS
<1>2. /\ scr.kind = old.kind /\ scr.hours = old.hours /\ scr.next = old.next /\ scr.ranges = old.ranges
      /\ scr.more = old.more /\ scr.extra = old.extra
  BY <1>1 DEF Shown
<1>3. /\ Options(scr) = RowsOf(scr.hours, scr.next, scr.ranges, scr.more, scr.extra)
      /\ Options(old) = RowsOf(old.hours, old.next, old.ranges, old.more, old.extra)
  BY Zenon DEF Options, RowsOf
<1> HIDE DEF scr
<1>4. Options(scr) = Options(old)
  BY Zenon, <1>2, <1>3
<1> QED BY Zenon, <1>2, <1>4 DEF Sound, scr

\* What the session remembers of the step.
IsSession(s) == s = [range |-> s.range, offset |-> s.offset] /\ s.offset \in Nat

\* Is the step of the hours a list of them, with this range noted?
Room == Rows - Cancel - 1
ListsHours(f, range) ==
  /\ Hours(f) # <<>> /\ Paged(f, range) # <<>>
  /\ range = NoRange => PlanSlotScreen(Hours(f), Room, Room).kind = "all"
PageOf(f, range, offset) == Paginate(Paged(f, range), offset, 1)

LEMMA ListsAre ==
  ASSUME NEW f, NEW s, IsSession(s), ListsHours(f, s.range)
  PROVE  AskSlot(Hours(f), s) = [row |-> s, screen |-> PageOf(f, s.range, s.offset)]
<1>1. CASE s.range = NoRange
  <2>1. /\ Hours(f) # <<>> /\ PlanSlotScreen(Hours(f), Rows - Cancel - 1, Rows - Cancel - 1).kind = "all"
        /\ Paged(f, s.range) = Hours(f)
    BY <1>1 DEF ListsHours, Paged, Room
  <2>2. AskSlot(Hours(f), s) = [row |-> [s EXCEPT !.range = NoRange], screen |-> PageOf(f, s.range, s.offset)]
    BY <1>1, <2>1 DEF AskSlot, DayScreen, PageOf
  <2>3. [s EXCEPT !.range = NoRange] = s
    BY <1>1 DEF IsSession
  <2> QED BY Zenon, <2>2, <2>3
<1>2. CASE s.range # NoRange
  <2>1. Hours(f) # <<>> /\ InChosenRange(s.range, Hours(f)) # <<>> /\ Paged(f, s.range) = InChosenRange(s.range, Hours(f))
    BY <1>2 DEF ListsHours, Paged
  <2> QED BY <1>2, <2>1 DEF AskSlot, PageOf
<1> QED BY <1>1, <1>2

\* The screens of the step, and what is noted for the next one.
LEMMA AskSlotIs ==
  ASSUME ScreensAssumption, NEW f \in SUBSET (1 .. LastHour), NEW s, IsSession(s)
  PROVE  LET r == AskSlot(Hours(f), s)
         IN /\ IsSession(r.row) /\ r.row.offset = s.offset
            /\ AskSlot(Hours(f), r.row) = r
            /\ Sound(r.screen)
            /\ \E kind, hours, next, ranges, more, extra : r.screen = Shown(kind, hours, next, ranges, more, extra)
            /\ \/ r.screen.kind = "none" /\ r.screen.more = FALSE
               \/ r.screen.kind = "grouped" /\ r.screen.more = FALSE /\ Grouped(f, r.screen)
               \/ r.screen.kind = "hours" /\ ListsHours(f, r.row.range) /\ r.screen = PageOf(f, r.row.range, s.offset)
<1> DEFINE r == AskSlot(Hours(f), s)
           plan == PlanSlotScreen(Hours(f), Room, Room)
<1>1. s.offset \in Nat /\ s = [range |-> s.range, offset |-> s.offset]
  BY DEF IsSession
<1>2. CASE Hours(f) = <<>>
  <2> DEFINE scr == Shown("none", <<>>, <<>>, <<>>, FALSE, 1)
  <2>1. r = [row |-> s, screen |-> scr]
    <3>1. Where(<<>>, {i \in DOMAIN <<>> : <<>>[i] >= s.range[1] /\ <<>>[i] <= s.range[2]}) = <<>>
      <4> DEFINE places == {i \in DOMAIN <<>> : <<>>[i] >= s.range[1] /\ <<>>[i] <= s.range[2]}
      <4>1. <<>> \in Seq(Int) /\ 1 .. Len(<<>>) = {}
        OBVIOUS
      <4> HIDE DEF places
      <4>2. 1 .. Len(<<>>) \subseteq places
        BY <4>1
      <4>3. Where(<<>>, places) = <<>>
        BY <4>1, <4>2, WhereAll
      <4> QED BY <4>3 DEF places
    <3>2. InChosenRange(s.range, Hours(f)) = <<>>
      BY Zenon, <1>2, <3>1 DEF InChosenRange
    <3>3. ~(IF s.range = NoRange THEN <<>> ELSE InChosenRange(s.range, Hours(f))) # <<>>
      BY <3>2
    <3> QED BY <1>2, <3>3 DEF AskSlot
  <2>2. scr.kind = "none" /\ scr.more = FALSE
    BY DEF Shown
  <2>3. Sound(scr)
    BY NoneSound
  <2>4. \E kind, hours, next, ranges, more, extra : scr = Shown(kind, hours, next, ranges, more, extra)
    BY Zenon
  <2>5. r.row = s /\ r.screen = scr
    BY <2>1
  <2> HIDE DEF scr
  <2> QED BY Zenon, <2>2, <2>3, <2>4, <2>5
<1>3. ASSUME NEW q, IsSession(q), ListsHours(f, q.range), q.offset = s.offset, r = AskSlot(Hours(f), q)
      PROVE  /\ r.row = q /\ AskSlot(Hours(f), r.row) = r /\ Sound(r.screen)
             /\ \E kind, hours, next, ranges, more, extra : r.screen = Shown(kind, hours, next, ranges, more, extra)
             /\ r.screen.kind = "hours" /\ ListsHours(f, r.row.range) /\ r.screen = PageOf(f, r.row.range, s.offset)
  <2> DEFINE L == Paged(f, q.range)
             w == ComputeOptionWindow(Len(L), s.offset, Cancel + 1)
             scr == Shown("hours", SubSeq(L, w.start + 1, w.end), <<>>, <<>>, w.more, 1)
  <2>1. r = [row |-> q, screen |-> PageOf(f, q.range, s.offset)]
    BY Zenon, <1>3, ListsAre
  <2>2. L \in Seq(Int) /\ Rising(L, Len(L))
    BY PagedIs
  <2>3. Sound(PageOf(f, q.range, s.offset)) /\ PageOf(f, q.range, s.offset) = scr
    <3> HIDE DEF L
    <3>1. 1 \in {0, 1}
      OBVIOUS
    <3>2. Sound(Paginate(L, s.offset, 1)) /\ Paginate(L, s.offset, 1) = scr
      BY <1>1, <2>2, <3>1, PageSound
    <3> QED BY <3>2 DEF PageOf, L
  <2>4. scr.kind = "hours"
    BY DEF Shown
  <2>5. \E kind, hours, next, ranges, more, extra : scr = Shown(kind, hours, next, ranges, more, extra)
    BY Zenon
  <2>6. r.row = q /\ r.screen = PageOf(f, q.range, s.offset)
    BY <2>1
  <2> HIDE DEF scr, r
  <2> QED BY Zenon, <1>3, <2>3, <2>4, <2>5, <2>6
<1>4. CASE Hours(f) # <<>> /\ s.range # NoRange /\ InChosenRange(s.range, Hours(f)) # <<>>
  <2>1. ListsHours(f, s.range)
    BY <1>4 DEF ListsHours, Paged
  <2> HIDE DEF r
  <2> QED BY Zenon, <1>3, <2>1 DEF r
<1>5. CASE Hours(f) # <<>> /\ ~(s.range # NoRange /\ InChosenRange(s.range, Hours(f)) # <<>>)
  <2> DEFINE q == [s EXCEPT !.range = NoRange]
  <2>1. IsSession(q) /\ q.range = NoRange /\ q.offset = s.offset
    BY <1>1 DEF IsSession
  <2>2. r = [row |-> q, screen |-> DayScreen(Hours(f), plan, s.offset)]
    BY <1>5 DEF AskSlot, Room
  <2>3. AskSlot(Hours(f), q) = [row |-> [q EXCEPT !.range = NoRange], screen |-> DayScreen(Hours(f), plan, q.offset)]
    <3> HIDE DEF q
    <3> QED BY <1>5, <2>1 DEF AskSlot, Room
  <2>4. [q EXCEPT !.range = NoRange] = q
    BY <1>1
  <2> HIDE DEF q
  <2>5. AskSlot(Hours(f), q) = r /\ r.row = q /\ r.screen = DayScreen(Hours(f), plan, s.offset)
    <3>1. AskSlot(Hours(f), q) = r
      BY Zenon, <2>1, <2>2, <2>3, <2>4
    <3>2. r.row = q /\ r.screen = DayScreen(Hours(f), plan, s.offset)
      <4> HIDE DEF r
      <4> QED BY <2>2
    <3> QED BY <3>1, <3>2
  <2>6. CASE plan.kind = "all"
    <3>1. ListsHours(f, q.range)
      BY <1>5, <2>1, <2>6 DEF ListsHours, Paged
    <3>2. q.offset = s.offset /\ r.row.offset = s.offset
      BY Zenon, <2>1, <2>5
    <3> QED BY Zenon, <1>3, <2>1, <2>5, <3>1, <3>2
  <2>7. CASE plan.kind # "all"
    <3> DEFINE scr == Shown("grouped", <<>>, plan.next, [k \in DOMAIN plan.ranges |-> RangeOption(plan.ranges[k])], FALSE, 1)
    <3>1. r.screen = scr
      BY <2>5, <2>7 DEF DayScreen
    <3>2. PICK n \in 0 .. Len(Hours(f)) : Laid(plan, Hours(f), Room, n)
      <4>1. Room \in Nat \ {0} /\ Room = Rows - 2
        BY DEF Room, ScreensAssumption, Cancel
      <4>2. Hours(f) \in Seq(Int)
        BY HoursAre
      <4> QED BY <2>7, <4>1, <4>2, PlanIs
    <3>3. Laid(plan, Hours(f), Rows - 2, n)
      <4>1. Room = Rows - 2
        BY DEF Room, ScreensAssumption, Cancel
      <4> QED BY <3>2, <4>1
    <3>4. Sound(scr) /\ Grouped(f, scr)
      <4> HIDE DEF plan
      <4> QED BY <3>3, GroupedSound
    <3>5. scr.kind = "grouped" /\ scr.more = FALSE
      BY DEF Shown
    <3>6. \E kind, hours, next, ranges, more, extra : scr = Shown(kind, hours, next, ranges, more, extra)
      BY Zenon
    <3> HIDE DEF scr
    <3> QED BY Zenon, <2>1, <2>5, <3>1, <3>4, <3>5, <3>6
  <2> QED BY <2>6, <2>7
<1> QED BY <1>2, <1>4, <1>5

-----------------------------------------------------------------------------
(* The step of the hours *)

\* Up to where a list has been shown, on the page that begins at that offset.
Reached(f, range, offset) == ComputeOptionWindow(Len(Paged(f, range)), offset, Cancel + 1).end
UpTo(f, range, n) == {Paged(f, range)[k] : k \in 1 .. n}
ShownHours(scr) == {scr.hours[k] : k \in DOMAIN scr.hours}

\* The list that was begun is on the screen of the session, and was seen from its beginning to
\* the end of that page.
OnItsPage ==
  /\ AskSlot(Hours(free), session).row = session
  /\ \E prompt : screen = [AskSlot(Hours(free), session).screen EXCEPT !.prompt = prompt]
SeenSoFar ==
  screen.kind = "hours" =>
    /\ session.offset = 0 \/ session.offset < Len(Paged(free, session.range))
    /\ seen = UpTo(free, session.range, Reached(free, session.range, session.offset))
ScreensInv ==
  /\ free \in SUBSET (1 .. LastHour) /\ IsSession(session) /\ Sound(screen) /\ same \in BOOLEAN
  /\ same => OnItsPage /\ SeenSoFar

\* A page of a list: its hours, and those seen when the pages before it were.
LEMMA PageIs ==
  ASSUME ScreensAssumption, NEW f \in SUBSET (1 .. LastHour), NEW range, NEW offset \in Nat,
         offset = 0 \/ offset < Len(Paged(f, range)), Paged(f, range) # <<>>
  PROVE  LET scr == PageOf(f, range, offset)
             end == Reached(f, range, offset)
         IN /\ end \in Nat /\ offset <= end /\ end <= Len(Paged(f, range)) /\ Len(Paged(f, range)) \in Nat
            /\ scr.kind = "hours" /\ scr.more \in BOOLEAN /\ (scr.more <=> end < Len(Paged(f, range)))
            /\ UpTo(f, range, offset) \cup ShownHours(scr) = UpTo(f, range, end)
<1> DEFINE L == Paged(f, range)
           w == ComputeOptionWindow(Len(L), offset, Cancel + 1)
           scr == PageOf(f, range, offset)
           h == SubSeq(L, w.start + 1, w.end)
<1>1. L \in Seq(Int) /\ Rising(L, Len(L))
  BY PagedIs
<1>2. Len(L) \in Nat /\ Len(L) > 0 /\ (offset = 0 \/ offset < Len(L)) /\ L # <<>>
  <2>1. L # <<>> /\ (offset = 0 \/ offset < Len(L))
    OBVIOUS
  <2> HIDE DEF L
  <2> QED BY <1>1, <2>1
<1> HIDE DEF L
<1>3. scr = Shown("hours", h, <<>>, <<>>, w.more, 1)
  <2>1. 1 \in {0, 1}
    OBVIOUS
  <2>2. Paginate(L, offset, 1) = Shown("hours", h, <<>>, <<>>, w.more, 1)
    BY <1>1, <2>1, PageSound
  <2> QED BY <2>2 DEF PageOf, L
<1>4. /\ w.start \in 0 .. Len(L) /\ w.end \in w.start .. Len(L) /\ (offset < Len(L) => w.start = offset)
      /\ w.more <=> w.end < Len(L)
      /\ w.more \in BOOLEAN
  <2>1. Cancel + 1 \in Nat /\ Cancel + 1 + 2 <= Rows
    BY DEF ScreensAssumption, Cancel
  <2> QED BY <1>2, <2>1, PagesTile
<1> DEFINE a == w.start
           z == w.end
<1>5. a \in Nat /\ z \in Nat /\ a <= z /\ z <= Len(L) /\ a = offset
  BY <1>2, <1>4
<1>6. scr.kind = "hours" /\ scr.more = w.more /\ scr.hours = h
  <2> HIDE DEF scr, w, h
  <2> QED BY <1>3 DEF Shown
<1> HIDE DEF scr
<1>7. DOMAIN h = 1 .. z - a /\ \A k \in 1 .. z - a : h[k] = L[k + a]
  <2> HIDE DEF a, z
  <2>1. LET t == SubSeq(L, a + 1, z) IN DOMAIN t = 1 .. z - a /\ \A k \in 1 .. z - a : t[k] = L[k + a]
    BY <1>1, <1>5, Stretch
  <2> QED BY <2>1 DEF a, z
<1> HIDE DEF h, a, z
<1>8. {L[k] : k \in 1 .. a} \cup {h[k] : k \in DOMAIN h} = {L[k] : k \in 1 .. z}
  <2>1. ASSUME NEW k \in DOMAIN h PROVE \E i \in 1 .. z : h[k] = L[i]
    <3>1. k \in 1 .. z - a /\ k + a \in 1 .. z
      BY <1>5, <1>7
    <3> QED BY <1>7, <3>1
  <2>2. ASSUME NEW i \in 1 .. z PROVE i \in 1 .. a \/ \E k \in DOMAIN h : h[k] = L[i]
    <3>1. CASE i <= a
      BY <1>5, <3>1
    <3>2. CASE i > a
      <4>1. i - a \in 1 .. z - a /\ (i - a) + a = i
        BY <1>5, <3>2
      <4> QED BY <1>7, <4>1
    <3> QED BY <1>5, <3>1, <3>2
  <2>3. 1 .. a \subseteq 1 .. z
    BY <1>5
  <2> QED BY <2>1, <2>2, <2>3
<1>9. /\ Reached(f, range, offset) = z /\ UpTo(f, range, offset) = {L[k] : k \in 1 .. a}
      /\ UpTo(f, range, z) = {L[k] : k \in 1 .. z} /\ ShownHours(scr) = {h[k] : k \in DOMAIN h}
  BY <1>5, <1>6 DEF Reached, UpTo, ShownHours, L, w, z
<1>10. UpTo(f, range, offset) \cup ShownHours(scr) = UpTo(f, range, z)
  BY Zenon, <1>8, <1>9
<1>11. scr.more \in BOOLEAN /\ (scr.more <=> z < Len(L))
  BY Zenon, <1>4, <1>6 DEF z
<1> QED BY Zenon, <1>2, <1>5, <1>6, <1>9, <1>10, <1>11 DEF scr, L

\* A list that begins is on its first page; one that goes on, on a page of which all before it was seen.
LEMMA ShowHolds ==
  ASSUME ScreensAssumption, ScreensInv, NEW s, IsSession(s), NEW prompt, NEW begins \in BOOLEAN, Show(s, prompt, begins),
         begins => s.offset = 0,
         ~begins /\ same /\ screen'.kind = "hours" =>
           /\ s.offset = 0 \/ s.offset < Len(Paged(free, session'.range))
           /\ \E m \in s.offset .. Reached(free, session'.range, s.offset) : seen = UpTo(free, session'.range, m)
  PROVE  ScreensInv'
<1> DEFINE r == AskSlot(Hours(free), s)
<1>1. /\ session' = r.row /\ screen' = [r.screen EXCEPT !.prompt = prompt] /\ same' = (begins \/ same) /\ free' = free
      /\ seen' = IF begins THEN ShownHours(screen') ELSE IF same THEN seen \cup ShownHours(screen') ELSE {}
  BY DEF Show, Listed, ShownHours
<1>2. free \in SUBSET (1 .. LastHour) /\ same \in BOOLEAN
  BY DEF ScreensInv
<1>3. /\ IsSession(r.row) /\ r.row.offset = s.offset
      /\ AskSlot(Hours(free), r.row) = r
      /\ Sound(r.screen)
      /\ \E kind, hours, next, ranges, more, extra : r.screen = Shown(kind, hours, next, ranges, more, extra)
      /\ r.screen.kind = "hours" => ListsHours(free, r.row.range) /\ r.screen = PageOf(free, r.row.range, s.offset)
  <2>1. \/ r.screen.kind = "none"
        \/ r.screen.kind = "grouped"
        \/ r.screen.kind = "hours" /\ ListsHours(free, r.row.range) /\ r.screen = PageOf(free, r.row.range, s.offset)
    BY Zenon, <1>2, AskSlotIs
  <2>2. r.screen.kind = "hours" => ListsHours(free, r.row.range) /\ r.screen = PageOf(free, r.row.range, s.offset)
    <3> HIDE DEF r
    <3> QED BY <2>1
  <2> QED BY Zenon, <1>2, <2>2, AskSlotIs
<1> HIDE DEF r
<1>4. screen'.kind = r.screen.kind /\ screen'.hours = r.screen.hours /\ Sound(screen')
  <2> DEFINE old == r.screen
             scr == [old EXCEPT !.prompt = prompt]
  <2>1. \E kind, hours, next, ranges, more, extra : old = Shown(kind, hours, next, ranges, more, extra)
    BY Zenon, <1>3
  <2> HIDE DEF old
  <2>2. scr.kind = old.kind /\ scr.hours = old.hours /\ (Sound(scr) <=> Sound(old))
    BY Zenon, <2>1, Asked
  <2> QED BY Zenon, <1>1, <1>3, <2>2 DEF old
<1>5. OnItsPage'
  <2>1. AskSlot(Hours(free'), session') = r
    BY Zenon, <1>1, <1>3
  <2> QED BY Zenon, <1>1, <2>1 DEF OnItsPage
<1>6. ASSUME same' PROVE SeenSoFar'
  <2> SUFFICES ASSUME screen'.kind = "hours"
               PROVE  /\ s.offset = 0 \/ s.offset < Len(Paged(free, session'.range))
                      /\ seen' = UpTo(free, session'.range, Reached(free, session'.range, s.offset))
    BY Zenon, <1>1, <1>3 DEF SeenSoFar
  <2> DEFINE g == session'.range
             end == Reached(free, g, s.offset)
  <2>1. r.screen = PageOf(free, g, s.offset) /\ Paged(free, g) # <<>> /\ s.offset \in Nat
    BY Zenon, <1>1, <1>3, <1>4 DEF ListsHours, IsSession
  <2>2. ShownHours(screen') = ShownHours(PageOf(free, g, s.offset))
    BY Zenon, <1>4, <2>1 DEF ShownHours
  <2>3. ASSUME s.offset = 0 \/ s.offset < Len(Paged(free, g))
        PROVE  /\ end \in Nat /\ s.offset <= end
               /\ UpTo(free, g, s.offset) \cup ShownHours(screen') = UpTo(free, g, end)
    <3> HIDE DEF g
    <3>1. LET scr == PageOf(free, g, s.offset)
              z == Reached(free, g, s.offset)
          IN /\ z \in Nat /\ s.offset <= z
             /\ UpTo(free, g, s.offset) \cup ShownHours(scr) = UpTo(free, g, z)
      BY SMTT(60), <1>2, <2>1, <2>3, PageIs
    <3> QED BY Zenon, <2>2, <3>1
  <2>4. CASE begins
    <3>1. s.offset = 0 /\ seen' = ShownHours(screen')
      BY <1>1, <2>4
    <3>2. UpTo(free, g, 0) = {}
      BY DEF UpTo
    <3>3. seen' = UpTo(free, g, end)
      <4> HIDE DEF end, g
      <4> QED BY <2>3, <3>1, <3>2
    <3> QED BY <3>1, <3>3
  <2>5. CASE ~begins
    <3>1. same /\ seen' = seen \cup ShownHours(screen')
      BY <1>1, <1>6, <2>5
    <3>2. s.offset = 0 \/ s.offset < Len(Paged(free, g))
      BY Zenon, <2>5, <3>1
    <3>3. PICK m \in s.offset .. end : seen = UpTo(free, g, m)
      BY Zenon, <2>5, <3>1
    <3>4. end \in Nat /\ UpTo(free, g, s.offset) \cup ShownHours(screen') = UpTo(free, g, end)
      BY <2>3, <3>2
    <3>5. UpTo(free, g, s.offset) \subseteq UpTo(free, g, m) /\ UpTo(free, g, m) \subseteq UpTo(free, g, end)
      <4>1. 1 .. s.offset \subseteq 1 .. m /\ 1 .. m \subseteq 1 .. end
        <5> HIDE DEF end, g
        <5> QED BY <2>1, <3>3, <3>4
      <4> QED BY Zenon, <4>1 DEF UpTo
    <3>6. seen' = UpTo(free, g, end)
      <4> HIDE DEF end, g
      <4> QED BY <3>1, <3>3, <3>4, <3>5
    <3> QED BY <3>2, <3>6
  <2> QED BY <2>4, <2>5
<1>7. IsSession(session') /\ (free \in SUBSET (1 .. LastHour))' /\ (same \in BOOLEAN)'
  BY <1>1, <1>2, <1>3
<1> QED BY Zenon, <1>4, <1>5, <1>6, <1>7 DEF ScreensInv

\* What the screen of a list that goes on says of the session.
LEMMA OnPage ==
  ASSUME ScreensAssumption, ScreensInv, same
  PROVE  /\ screen.kind = "hours" \/ screen.more = FALSE
         /\ screen.kind = "grouped" => Grouped(free, screen)
         /\ screen.kind = "hours" =>
              /\ ListsHours(free, session.range) /\ Paged(free, session.range) # <<>>
              /\ session.offset = 0 \/ session.offset < Len(Paged(free, session.range))
              /\ Reached(free, session.range, session.offset) \in session.offset .. Len(Paged(free, session.range))
              /\ seen = UpTo(free, session.range, Reached(free, session.range, session.offset))
              /\ screen.more <=> Reached(free, session.range, session.offset) < Len(Paged(free, session.range))
<1> DEFINE r == AskSlot(Hours(free), session)
<1>1. free \in SUBSET (1 .. LastHour) /\ IsSession(session) /\ session.offset \in Nat /\ r.row = session /\ SeenSoFar
  BY DEF ScreensInv, OnItsPage, IsSession
<1>2. PICK prompt : screen = [r.screen EXCEPT !.prompt = prompt]
  BY DEF ScreensInv, OnItsPage
<1>3. /\ \E kind, hours, next, ranges, more, extra : r.screen = Shown(kind, hours, next, ranges, more, extra)
      /\ \/ r.screen.kind = "none" /\ r.screen.more = FALSE
         \/ r.screen.kind = "grouped" /\ r.screen.more = FALSE /\ Grouped(free, r.screen)
         \/ r.screen.kind = "hours" /\ ListsHours(free, r.row.range) /\ r.screen = PageOf(free, r.row.range, session.offset)
  BY Zenon, <1>1, AskSlotIs
<1> DEFINE old == r.screen
           scr == [old EXCEPT !.prompt = prompt]
<1>4. \E kind, hours, next, ranges, more, extra : old = Shown(kind, hours, next, ranges, more, extra)
  BY Zenon, <1>3
<1>5. scr.kind = old.kind /\ scr.next = old.next /\ scr.ranges = old.ranges /\ scr.more = old.more
  <2> HIDE DEF old
  <2> QED BY Zenon, <1>4, Asked
<1>6. screen = scr
  BY <1>2
<1> HIDE DEF scr, r
<1>7. screen.kind = "grouped" => Grouped(free, screen)
  <2> SUFFICES ASSUME screen.kind = "grouped" PROVE Grouped(free, screen)
    OBVIOUS
  <2>1. Grouped(free, old)
    BY <1>3, <1>5, <1>6
  <2> QED BY ZenonT(60), <1>5, <1>6, <2>1 DEF Grouped
<1>8. screen.kind = "hours" \/ screen.more = FALSE
  <2>1. r.screen.kind = "hours" \/ r.screen.more = FALSE
    BY Zenon, <1>3
  <2> QED BY Zenon, <1>5, <1>6, <2>1
<1>9. ASSUME screen.kind = "hours"
      PROVE  /\ ListsHours(free, session.range) /\ Paged(free, session.range) # <<>>
             /\ session.offset = 0 \/ session.offset < Len(Paged(free, session.range))
             /\ Reached(free, session.range, session.offset) \in session.offset .. Len(Paged(free, session.range))
             /\ seen = UpTo(free, session.range, Reached(free, session.range, session.offset))
             /\ screen.more <=> Reached(free, session.range, session.offset) < Len(Paged(free, session.range))
  <2> DEFINE g == session.range
  <2>1. ListsHours(free, g) /\ old = PageOf(free, g, session.offset)
    <3>1. r.screen.kind = "hours"
      BY Zenon, <1>5, <1>6, <1>9
    <3>2. ListsHours(free, r.row.range) /\ r.screen = PageOf(free, r.row.range, session.offset)
      BY <1>3, <3>1
    <3> QED BY Zenon, <1>1, <3>2
  <2>2. Paged(free, g) # <<>>
    BY <2>1 DEF ListsHours
  <2>3. /\ session.offset = 0 \/ session.offset < Len(Paged(free, g))
        /\ seen = UpTo(free, g, Reached(free, g, session.offset))
    BY <1>1, <1>9 DEF SeenSoFar
  <2> HIDE DEF g
  <2>4. LET page == PageOf(free, g, session.offset)
            z == Reached(free, g, session.offset)
        IN /\ z \in Nat /\ session.offset <= z /\ z <= Len(Paged(free, g)) /\ Len(Paged(free, g)) \in Nat
           /\ page.more <=> z < Len(Paged(free, g))
    BY <1>1, <2>2, <2>3, PageIs
  <2>5. Reached(free, g, session.offset) \in session.offset .. Len(Paged(free, g))
    BY <1>1, <2>4
  <2>6. screen.more <=> Reached(free, g, session.offset) < Len(Paged(free, g))
    BY Zenon, <1>5, <1>6, <2>1, <2>4
  <2> QED BY Zenon, <2>1, <2>2, <2>3, <2>5, <2>6 DEF g
<1> QED BY Zenon, <1>7, <1>8, <1>9

\* The step of the hours begins with a list, or with its ranges.
LEMMA ScreensInit == ScreensAssumption /\ Init => ScreensInv
<1> SUFFICES ASSUME ScreensAssumption, Init PROVE ScreensInv
  OBVIOUS
<1> DEFINE r == AskSlot(Hours(free), Fresh)
<1>1. /\ free \in SUBSET (1 .. LastHour) /\ session = Fresh /\ screen = r.screen /\ same = TRUE /\ seen = ShownHours(screen)
  BY DEF Init, ShownHours
<1>2. IsSession(Fresh) /\ Fresh.offset = 0 /\ Fresh.range = NoRange
  BY DEF IsSession, Fresh
<1>3. /\ r.row.offset = 0 /\ IsSession(r.row) /\ Sound(r.screen)
      /\ \E kind, hours, next, ranges, more, extra : r.screen = Shown(kind, hours, next, ranges, more, extra)
      /\ \/ r.screen.kind = "none" /\ r.screen.more = FALSE
         \/ r.screen.kind = "grouped" /\ r.screen.more = FALSE /\ Grouped(free, r.screen)
         \/ r.screen.kind = "hours" /\ ListsHours(free, r.row.range) /\ r.screen = PageOf(free, r.row.range, Fresh.offset)
  BY Zenon, <1>1, <1>2, AskSlotIs
<1>4. r.row = Fresh
  <2>1. r.row.range = NoRange
    <3> HIDE DEF r
    <3>1. r = AskSlot(Hours(free), Fresh)
      BY DEF r
    <3>2. \/ r.row = Fresh
          \/ r.row = [Fresh EXCEPT !.range = NoRange]
      BY <1>2, <3>1 DEF AskSlot
    <3> QED BY <1>2, <3>2 DEF Fresh
  <2> QED BY <1>2, <1>3, <2>1 DEF IsSession, Fresh
<1> HIDE DEF r
<1>5. screen = [r.screen EXCEPT !.prompt = "ASK_SLOT"]
  <2>1. PICK kind, hours, next, ranges, more, extra : r.screen = Shown(kind, hours, next, ranges, more, extra)
    BY <1>3
  <2> QED BY <1>1, <2>1 DEF Shown
<1>6. OnItsPage
  BY Zenon, <1>1, <1>4, <1>5 DEF OnItsPage, r
<1>7. SeenSoFar
  <2> SUFFICES ASSUME screen.kind = "hours"
               PROVE  seen = UpTo(free, NoRange, Reached(free, NoRange, 0))
    BY Zenon, <1>1, <1>2 DEF SeenSoFar
  <2>1. r.screen.kind = "hours"
    BY Zenon, <1>1
  <2>2. ListsHours(free, NoRange) /\ r.screen = PageOf(free, NoRange, 0)
    <3>1. ListsHours(free, r.row.range) /\ r.screen = PageOf(free, r.row.range, Fresh.offset)
      BY <1>3, <2>1
    <3> QED BY Zenon, <1>2, <1>4, <3>1
  <2>3. Paged(free, NoRange) # <<>> /\ 0 \in Nat
    BY <2>2 DEF ListsHours
  <2>4. UpTo(free, NoRange, 0) \cup ShownHours(PageOf(free, NoRange, 0)) = UpTo(free, NoRange, Reached(free, NoRange, 0))
    BY Zenon, <1>1, <2>3, PageIs
  <2>5. UpTo(free, NoRange, 0) = {}
    BY DEF UpTo
  <2> QED BY <1>1, <2>2, <2>4, <2>5
<1> QED BY Zenon, <1>1, <1>2, <1>3, <1>6, <1>7 DEF ScreensInv

\* A list that is part of another is paged alike up to its end.
LEMMA LongerWindow ==
  ASSUME ScreensAssumption, NEW n \in Nat, NEW m \in Nat, n <= m, NEW offset \in Nat, offset = 0 \/ offset < n,
         NEW reserved \in Nat, reserved + 2 <= Rows, ComputeOptionWindow(n, offset, reserved).end < n
  PROVE  /\ ComputeOptionWindow(m, offset, reserved).more
         /\ ComputeOptionWindow(m, offset, reserved).end = ComputeOptionWindow(n, offset, reserved).end
<1> DEFINE budget == LargerOf(1, Rows - reserved)
           to == offset + LargerOf(1, budget - 1)
           page == [start |-> offset, end |-> to, more |-> TRUE]
<1>1. n > 0 /\ m > 0 /\ Rows \in Nat
  <2>1. n # 0
    <3> SUFFICES ASSUME n = 0 PROVE FALSE
      OBVIOUS
    <3>1. ComputeOptionWindow(n, offset, reserved).end \in 0 .. 0
      <4>1. LET w == ComputeOptionWindow(0, offset, reserved) IN w.start \in 0 .. 0 /\ w.end \in w.start .. 0
        BY PagesTile
      <4> QED BY <4>1
    <3> QED BY <3>1
  <2> QED BY <2>1 DEF ScreensAssumption
<1>2. budget = Rows - reserved /\ to = offset + (Rows - reserved - 1) /\ to \in Nat
  BY <1>1 DEF LargerOf
<1>3. (IF offset > 0 /\ offset < n THEN offset ELSE 0) = offset /\ (IF offset > 0 /\ offset < m THEN offset ELSE 0) = offset
  BY <1>1
<1>4. ~(n - offset <= budget)
  <2> SUFFICES ASSUME n - offset <= budget PROVE FALSE
    OBVIOUS
  <2>1. ComputeOptionWindow(n, offset, reserved) = [start |-> offset, end |-> n, more |-> FALSE]
    BY <1>1, <1>3 DEF ComputeOptionWindow
  <2> QED BY <2>1
<1>5. ~(m - offset <= budget) /\ (to < n) = TRUE /\ (to < m) = TRUE
  BY <1>1, <1>2, <1>4
<1>6. ASSUME NEW l \in {n, m} PROVE ComputeOptionWindow(l, offset, reserved) = page
  <2>1. l > 0 /\ l # 0 /\ ~(l - offset <= budget) /\ (to < l) = TRUE /\ (IF offset > 0 /\ offset < l THEN offset ELSE 0) = offset
    BY <1>1, <1>3, <1>4, <1>5
  <2>2. ComputeOptionWindow(l, offset, reserved) = [start |-> offset, end |-> to, more |-> to < l]
    <3> HIDE DEF budget
    <3>1. LargerOf(1, budget - 1) = LargerOf(1, LargerOf(1, Rows - reserved) - 1)
      BY DEF budget
    <3> QED BY Zenon, <2>1 DEF ComputeOptionWindow, budget
  <2> QED BY Zenon, <2>1, <2>2
<1>7. page.more = TRUE /\ page.end = to
  OBVIOUS
<1> HIDE DEF page
<1> QED BY Zenon, <1>6, <1>7

\* The list goes on where the page ended, of a day whose hours are counted.
LEMMA NextPageHolds == ScreensAssumption /\ ScreensInv /\ NextPage => ScreensInv'
<1> SUFFICES ASSUME ScreensAssumption, ScreensInv, NextPage PROVE ScreensInv'
  OBVIOUS
<1> DEFINE w == ComputeOptionWindow(Cardinality(free), session.offset, Cancel + ExtraOptionCount)
           s == [session EXCEPT !.offset = IF w.more THEN w.end ELSE 0]
           g == session.range
           n == Len(Paged(free, g))
           end == Reached(free, g, session.offset)
<1>1. screen.more /\ Show(s, "ASK_SLOT", FALSE)
  BY DEF NextPage
<1>2. /\ free \in SUBSET (1 .. LastHour) /\ session.offset \in Nat /\ session = [range |-> g, offset |-> session.offset]
      /\ same \in BOOLEAN
  BY DEF ScreensInv, IsSession
<1>3. n \in Nat /\ n <= Cardinality(free) /\ Cardinality(free) \in Nat
  <2>1. Paged(free, g) \in Seq(Int) /\ n <= Cardinality(free) /\ Cardinality(free) \in Nat
    BY <1>2, PagedIs
  <2> HIDE DEF g
  <2> QED BY <2>1
<1>4. Cancel + ExtraOptionCount \in Nat /\ Cancel + ExtraOptionCount + 2 <= Rows /\ Cancel + 1 = Cancel + ExtraOptionCount
  BY DEF ScreensAssumption, Cancel, ExtraOptionCount
<1>5. w.end \in Nat
  <2>1. w.start \in 0 .. Cardinality(free) /\ w.end \in w.start .. Cardinality(free)
    BY <1>2, <1>3, <1>4, PagesTile
  <2> HIDE DEF w
  <2> QED BY <1>3, <2>1
<1>6. IsSession(s) /\ s.range = g /\ s.offset = IF w.more THEN w.end ELSE 0
  <2> HIDE DEF w
  <2> QED BY <1>2, <1>5 DEF IsSession
<1>7. ASSUME same, screen'.kind = "hours"
      PROVE  /\ s.offset = 0 \/ s.offset < Len(Paged(free, session'.range))
             /\ \E m \in s.offset .. Reached(free, session'.range, s.offset) : seen = UpTo(free, session'.range, m)
  <2>1. screen.kind = "hours"
    BY Zenon, <1>1, <1>7, OnPage
  <2>2. /\ ListsHours(free, g) /\ Paged(free, g) # <<>>
        /\ session.offset = 0 \/ session.offset < n
        /\ end \in session.offset .. n /\ seen = UpTo(free, g, end) /\ end < n
    BY <1>1, <1>7, <2>1, OnPage
  <2>3. w.more /\ w.end = end
    <3>1. end = ComputeOptionWindow(n, session.offset, Cancel + ExtraOptionCount).end
      BY Zenon, <1>4 DEF Reached
    <3> HIDE DEF n, end
    <3> QED BY <1>2, <1>3, <1>4, <2>2, <3>1, LongerWindow
  <2>4. s.offset = end
    BY Zenon, <1>6, <2>3
  <2>5. session' = s
    <3>1. session' = AskSlot(Hours(free), s).row
      BY <1>1 DEF Show
    <3>2. AskSlot(Hours(free), s) = [row |-> s, screen |-> PageOf(free, s.range, s.offset)]
      BY Zenon, <1>6, <2>2, ListsAre
    <3> HIDE DEF s
    <3> QED BY <3>1, <3>2
  <2>6. session'.range = g
    BY Zenon, <1>6, <2>5
  <2>7. end \in Nat
    <3> HIDE DEF end, n
    <3> QED BY <1>2, <1>3, <2>2
  <2>8. end <= Reached(free, g, end) /\ Reached(free, g, end) \in Nat
    <3> HIDE DEF end
    <3>1. LET z == Reached(free, g, end) IN z \in Nat /\ end <= z
      BY <1>2, <2>2, <2>7, PageIs
    <3> QED BY <3>1
  <2>9. end \in end .. Reached(free, g, end)
    <3> HIDE DEF end
    <3> QED BY <2>7, <2>8
  <2> HIDE DEF end, s, g
  <2> QED BY Zenon, <2>2, <2>4, <2>6, <2>9
<1> HIDE DEF s
<1>8. FALSE \in BOOLEAN /\ (FALSE => s.offset = 0)
  OBVIOUS
<1> QED BY <1>1, <1>6, <1>7, <1>8, ShowHolds

\* A text is answered with the same page.
LEMMA FreeTextHolds == ScreensAssumption /\ ScreensInv /\ FreeText => ScreensInv'
<1> SUFFICES ASSUME ScreensAssumption, ScreensInv, FreeText PROVE ScreensInv'
  OBVIOUS
<1> DEFINE g == session.range
           end == Reached(free, g, session.offset)
           r == AskSlot(Hours(free), session)
<1>1. Show(session, "FROZEN", FALSE)
  BY DEF FreeText
<1>2. free \in SUBSET (1 .. LastHour) /\ IsSession(session) /\ same \in BOOLEAN
  BY DEF ScreensInv
<1>3. session' = r.row /\ screen' = [r.screen EXCEPT !.prompt = "FROZEN"]
  BY <1>1 DEF Show
<1>4. ASSUME same, screen'.kind = "hours"
      PROVE  /\ session.offset = 0 \/ session.offset < Len(Paged(free, session'.range))
             /\ \E m \in session.offset .. Reached(free, session'.range, session.offset) : seen = UpTo(free, session'.range, m)
  <2>1. r.row = session /\ \E prompt : screen = [r.screen EXCEPT !.prompt = prompt]
    BY <1>4 DEF ScreensInv, OnItsPage
  <2>2. \E kind, hours, next, ranges, more, extra : r.screen = Shown(kind, hours, next, ranges, more, extra)
    BY Zenon, <1>2, AskSlotIs
  <2> DEFINE old == r.screen
  <2>3. \A prompt : [old EXCEPT !.prompt = prompt].kind = old.kind
    BY Zenon, <2>2, Asked
  <2>4. screen.kind = "hours"
    <3> HIDE DEF r
    <3> QED BY Zenon, <1>3, <1>4, <2>1, <2>3
  <2>5. /\ session.offset = 0 \/ session.offset < Len(Paged(free, g))
        /\ end \in session.offset .. Len(Paged(free, g)) /\ seen = UpTo(free, g, end)
    BY <1>4, <2>4, OnPage
  <2>6. session'.range = g
    BY Zenon, <1>3, <2>1
  <2>7. end \in session.offset .. end
    <3>1. session.offset \in Nat
      BY <1>2 DEF IsSession
    <3> HIDE DEF end
    <3> QED BY <2>5, <3>1
  <2> HIDE DEF end, g
  <2> QED BY Zenon, <2>5, <2>6, <2>7 DEF end
<1>5. FALSE \in BOOLEAN /\ (FALSE => session.offset = 0)
  OBVIOUS
<1> QED BY <1>1, <1>2, <1>4, <1>5, ShowHolds

\* A list that begins does so on its first page: of a range, or of the day.
LEMMA BeginsHolds ==
  ASSUME ScreensAssumption, ScreensInv, NEW range, Show([range |-> range, offset |-> 0], "ASK_SLOT", TRUE)
  PROVE  ScreensInv'
<1> DEFINE s == [range |-> range, offset |-> 0]
<1>1. IsSession(s) /\ s.offset = 0 /\ Show(s, "ASK_SLOT", TRUE)
  BY DEF IsSession
<1> HIDE DEF s
<1>2. TRUE \in BOOLEAN /\ (TRUE => s.offset = 0)
  BY <1>1
<1>3. ~TRUE /\ same /\ screen'.kind = "hours" =>
        /\ s.offset = 0 \/ s.offset < Len(Paged(free, session'.range))
        /\ \E m \in s.offset .. Reached(free, session'.range, s.offset) : seen = UpTo(free, session'.range, m)
  OBVIOUS
<1> QED BY <1>1, <1>2, <1>3, ShowHolds

\* The day listed because the hour chosen was taken can be sent too.
LEMMA SlotTakenHolds == ScreensAssumption /\ ScreensInv /\ SlotTaken => ScreensInv'
<1> SUFFICES ASSUME ScreensAssumption, ScreensInv, SlotTaken PROVE ScreensInv'
  OBVIOUS
<1>1. /\ session' = [session EXCEPT !.offset = 0] /\ screen' = [Paginate(Hours(free), 0, 0) EXCEPT !.prompt = "SLOT_TAKEN"]
      /\ same' = FALSE /\ free' = free
  BY DEF SlotTaken
<1>2. free \in SUBSET (1 .. LastHour) /\ IsSession(session)
  BY DEF ScreensInv
<1>3. IsSession(session')
  BY <1>1, <1>2 DEF IsSession
<1>4. Sound(screen')
  <2> DEFINE old == Paginate(Hours(free), 0, 0)
             w == ComputeOptionWindow(Len(Hours(free)), 0, Cancel + 0)
  <2>1. Hours(free) \in Seq(Int) /\ Rising(Hours(free), Len(Hours(free))) /\ 0 \in Nat /\ 0 \in {0, 1}
    BY <1>2, HoursAre
  <2>2. Sound(old) /\ old = Shown("hours", SubSeq(Hours(free), w.start + 1, w.end), <<>>, <<>>, w.more, 0)
    BY <2>1, PageSound
  <2>3. \E kind, hours, next, ranges, more, extra : old = Shown(kind, hours, next, ranges, more, extra)
    BY Zenon, <2>2
  <2> HIDE DEF old
  <2>4. Sound([old EXCEPT !.prompt = "SLOT_TAKEN"])
    BY Zenon, <2>2, <2>3, Asked
  <2> QED BY Zenon, <1>1, <2>4 DEF old
<1>5. (free \in SUBSET (1 .. LastHour))' /\ same' \in BOOLEAN /\ ~same'
  BY <1>1, <1>2
<1> QED BY Zenon, <1>3, <1>4, <1>5 DEF ScreensInv

\* An hour taken or given back ends the list that was begun.
LEMMA ChangeHolds == ScreensAssumption /\ ScreensInv /\ Change => ScreensInv'
<1> SUFFICES ASSUME ScreensAssumption, ScreensInv, Change PROVE ScreensInv'
  OBVIOUS
<1>1. free \in SUBSET (1 .. LastHour) /\ IsSession(session) /\ Sound(screen)
  BY DEF ScreensInv
<1>2. /\ \E t \in 1 .. LastHour : free' = IF t \in free THEN free \ {t} ELSE free \cup {t}
      /\ same' = FALSE /\ session' = session /\ screen' = screen
  BY DEF Change
<1>3. free' \in SUBSET (1 .. LastHour)
  BY <1>1, <1>2
<1>4. same' \in BOOLEAN /\ ~same'
  BY <1>2
<1>5. IsSession(session') /\ Sound(screen')
  BY Zenon, <1>1, <1>2
<1> QED BY Zenon, <1>3, <1>4, <1>5 DEF ScreensInv

\* Whatever is done in the step, what is on the screen can be sent and is the page it says.
LEMMA ScreensSteps == ScreensAssumption /\ ScreensInv /\ [Next]_vars => ScreensInv'
<1> SUFFICES ASSUME ScreensAssumption, ScreensInv, [Next]_vars PROVE ScreensInv'
  OBVIOUS
<1>1. CASE NextPage
  BY <1>1, NextPageHolds
<1>2. CASE ChooseRange
  <2>1. PICK k \in DOMAIN screen.ranges : Show([range |-> screen.ranges[k], offset |-> 0], "ASK_SLOT", TRUE)
    BY <1>2 DEF ChooseRange
  <2> QED BY <2>1, BeginsHolds
<1>3. CASE AllTimes
  BY <1>3, BeginsHolds DEF AllTimes, Fresh
<1>4. CASE OtherDays
  BY <1>4, BeginsHolds DEF OtherDays, Fresh
<1>5. CASE SlotTaken
  BY <1>5, SlotTakenHolds
<1>6. CASE FreeText
  BY <1>6, FreeTextHolds
<1>7. CASE Change
  BY <1>7, ChangeHolds
<1>8. CASE UNCHANGED vars
  <2>1. free' = free /\ session' = session /\ screen' = screen /\ seen' = seen /\ same' = same
    BY <1>8 DEF vars
  <2> QED BY Zenon, <2>1 DEF ScreensInv, OnItsPage, SeenSoFar
<1> QED BY <1>1, <1>2, <1>3, <1>4, <1>5, <1>6, <1>7, <1>8 DEF Next

\* Nothing of such a screen is kept back, its ranges hold the day, and its last page ends the list.
LEMMA ScreensOffer == ScreensAssumption /\ ScreensInv => EveryTimeOffered
<1> SUFFICES ASSUME ScreensAssumption, ScreensInv PROVE EveryTimeOffered
  OBVIOUS
<1>1. Render(screen) = PlanBookingPrompt(screen)
  <2>1. BuildListPayload(Options(screen))
    BY DEF ScreensInv, Sound
  <2> QED BY <2>1, RenderAll
<1>2. ASSUME screen.kind = "grouped", same
      PROVE  /\ \A t \in free : Cardinality(InSome(t)) + (IF t \in LooseHours THEN 1 ELSE 0) = 1
             /\ \A k \in DOMAIN screen.ranges : screen.ranges[k][1] \in free /\ screen.ranges[k][2] \in free
  <2>1. Grouped(free, screen)
    BY <1>2, OnPage
  <2> QED BY <2>1 DEF Grouped, InSome, LooseHours
<1>3. ASSUME screen.kind = "hours", ~screen.more, same PROVE seen = ListOf(session.range)
  <2> DEFINE L == Paged(free, session.range)
             end == Reached(free, session.range, session.offset)
  <2>1. end \in session.offset .. Len(L) /\ seen = UpTo(free, session.range, end) /\ ~(end < Len(L))
    BY <1>3, OnPage
  <2>2. free \in SUBSET (1 .. LastHour) /\ session.offset \in Nat
    BY DEF ScreensInv, IsSession
  <2>3. L \in Seq(Int) /\ {L[k] : k \in 1 .. Len(L)} = InRange(free, session.range)
    BY <2>2, PagedIs
  <2>4. end = Len(L)
    <3> HIDE DEF L, end
    <3> QED BY <2>1, <2>2, <2>3
  <2>5. seen = {L[k] : k \in 1 .. Len(L)}
    BY Zenon, <2>1, <2>4 DEF UpTo
  <2>6. InRange(free, session.range) = ListOf(session.range)
    BY Zenon DEF InRange, ListOf
  <2> QED BY Zenon, <2>3, <2>5, <2>6
<1> QED BY Zenon, <1>1, <1>2, <1>3 DEF EveryTimeOffered

\* Every hour of the day is offered: no list of a screen is one WhatsApp refuses, the ranges hold
\* each hour once, and who pages to the end of a list has seen all of it.
THEOREM ScreensOfferEveryTime == ASSUME ScreensAssumption PROVE Spec => []EveryTimeOffered
<1>1. Init => ScreensInv
  BY ScreensInit
<1>2. ScreensInv /\ [Next]_vars => ScreensInv'
  BY ScreensSteps
<1>3. ScreensInv => EveryTimeOffered
  BY ScreensOffer
<1> QED BY <1>1, <1>2, <1>3, PTL DEF Spec

====

---- MODULE TimesProofs ----
(***************************************************************************)
(* Theorems about OpenTimes: for any hours, shifts, blocks and bookings,   *)
(* the ranges in which somebody works are exactly the minutes they have,   *)
(* and what the panel is warned of and what the assistant suggests are     *)
(* right because of that; services at once are matched to people whenever  *)
(* they can be, and so what is offered is exactly what can be attended,    *)
(* and what is confirmed is attended by who it was written for.            *)
(***************************************************************************)
EXTENDS OpenTimes, FiniteSetTheorems, SequenceTheorems, WellFoundedInduction, TLAPS

-----------------------------------------------------------------------------
(* Finite sets, positions, and what is built step by step *)

Smaller == {p \in Nat \X Nat : p[1] < p[2]}

\* Naturals cannot go down for ever.
LEMMA SmallerWF == IsWellFoundedOn(Smaller, Nat)
BY Zenon, NatLessThanWellFounded DEF OpToRel, Smaller

\* What holds of 0, and of a number when it holds of the one before, holds up to n.
LEMMA ByNumber ==
  ASSUME NEW n \in Nat, NEW good, 0 \in good, \A k \in 1 .. n : k - 1 \in good => k \in good
  PROVE  \A k \in 0 .. n : k \in good
<1> SUFFICES ASSUME NEW m \in 0 .. n, m \notin good PROVE FALSE
  OBVIOUS
<1> DEFINE bad == {k \in 0 .. n : k \notin good}
<1>1. bad \subseteq Nat /\ bad # {}
  OBVIOUS
<1>2. PICK k \in bad : \A j \in bad : ~ (<<j, k>> \in Smaller)
  BY <1>1, WFMin, SmallerWF
<1>3. k \in 1 .. n
  <2>1. k # 0
    OBVIOUS
  <2> QED BY <2>1
<1>4. k - 1 \notin bad
  <2>1. k - 1 \in Nat /\ k \in Nat /\ k - 1 < k
    BY <1>3
  <2>2. <<k - 1, k>> \in Smaller
    BY <2>1 DEF Smaller
  <2> QED BY <1>2, <2>2
<1>5. k - 1 \in good
  BY <1>3, <1>4
<1> QED BY <1>3, <1>5

\* What holds of a set whenever it holds of it without any one of its members, holds of every
\* finite set.
LEMMA BySmaller ==
  ASSUME NEW S, IsFiniteSet(S), NEW good,
         \A T \in SUBSET S : (\A x \in T : T \ {x} \in good) => T \in good
  PROVE  S \in good
<1> SUFFICES ASSUME S \notin good PROVE FALSE
  OBVIOUS
<1>1. \A T \in SUBSET S : IsFiniteSet(T) /\ Cardinality(T) \in Nat
  BY FS_Subset, FS_CardinalityType
<1> DEFINE bad == {T \in SUBSET S : T \notin good}
           sizes == {Cardinality(T) : T \in bad}
<1>2. sizes \subseteq Nat /\ Cardinality(S) \in sizes
  BY <1>1
<1>3. PICK n \in sizes : \A m \in sizes : ~ (<<m, n>> \in Smaller)
  BY <1>2, WFMin, SmallerWF
<1>4. PICK T \in bad : n = Cardinality(T)
  BY <1>3
<1>5. PICK x \in T : T \ {x} \in bad
  BY <1>4
<1>6. Cardinality(T \ {x}) = Cardinality(T) - 1
  BY <1>1, <1>4, <1>5, FS_RemoveElement
<1>7. Cardinality(T \ {x}) \in sizes /\ Cardinality(T) \in Nat /\ Cardinality(T \ {x}) \in Nat
  BY <1>1, <1>4, <1>5
<1>8. <<Cardinality(T \ {x}), Cardinality(T)>> \in Smaller
  BY <1>6, <1>7 DEF Smaller
<1> QED BY <1>3, <1>4, <1>7, <1>8

\* A finite set of integers has a greatest member, and a least one.
LEMMA Extremes ==
  ASSUME NEW S, IsFiniteSet(S), S # {}, S \subseteq Int
  PROVE  /\ Max(S) \in S /\ \A y \in S : Max(S) >= y
         /\ Min(S) \in S /\ \A y \in S : Min(S) =< y
<1> DEFINE good == {T \in SUBSET S : T # {} => (\E x \in T : \A y \in T : x >= y) /\ (\E x \in T : \A y \in T : x =< y)}
<1>1. ASSUME NEW T \in SUBSET S, \A x \in T : T \ {x} \in good PROVE T \in good
  <2>1. CASE T = {}
    BY <2>1
  <2>2. CASE \E x \in T : T = {x}
    BY <2>2
  <2>3. CASE T # {} /\ ~ \E x \in T : T = {x}
    <3>0. PICK x \in T : T \ {x} # {}
      <4>1. PICK x : x \in T
        BY <2>3
      <4>2. T # {x}
        BY <2>3, <4>1
      <4> HIDE DEF good
      <4> QED BY <4>1, <4>2
    <3>1. T \ {x} # {} /\ T \ {x} \in good
      <4> HIDE DEF good
      <4> QED BY <1>1, <3>0
    <3>2. PICK a \in T \ {x} : \A y \in T \ {x} : a >= y
      BY <3>1
    <3>3. PICK b \in T \ {x} : \A y \in T \ {x} : b =< y
      BY <3>1
    <3>4. \E m \in T : \A y \in T : m >= y
      <4>1. CASE a >= x
        BY <3>2, <4>1
      <4>2. CASE ~(a >= x)
        BY <3>1, <3>2, <4>2
      <4> QED BY <4>1, <4>2
    <3>5. \E m \in T : \A y \in T : m =< y
      <4>1. CASE b =< x
        BY <3>3, <4>1
      <4>2. CASE ~(b =< x)
        BY <3>1, <3>3, <4>2
      <4> QED BY <4>1, <4>2
    <3> QED BY <3>4, <3>5
  <2> QED BY <2>1, <2>2, <2>3
<1> HIDE DEF good
<1>2. S \in good
  BY <1>1, BySmaller
<1>3. (\E x \in S : \A y \in S : x >= y) /\ (\E x \in S : \A y \in S : x =< y)
  BY <1>2 DEF good
<1> QED BY <1>3, Zenon DEF Max, Min

\* The greatest of the first n numbers.
LEMMA MaxOfFirst ==
  ASSUME NEW n \in Nat, n # 0
  PROVE  Max(1 .. n) = n
<1>0. 1 \in Int /\ n \in Int
  OBVIOUS
<1>1. IsFiniteSet(1 .. n)
  BY <1>0, FS_Interval
<1>2. n \in 1 .. n /\ \A k \in 1 .. n : k \in Int /\ k <= n
  OBVIOUS
<1>3. Max(1 .. n) \in 1 .. n /\ \A k \in 1 .. n : Max(1 .. n) >= k
  BY <1>1, <1>2, Extremes
<1> QED BY <1>2, <1>3

\* How a table over part of a set comes from smaller ones: base for nothing, and otherwise a
\* step from what the rest comes to.
Built(base, step, pick, table, s) == IF s = {} THEN base ELSE step[<<table[s \ {pick[s]}], pick[s]>>]

Solves(table, S, base, step, pick) == table = [s \in SUBSET S |-> Built(base, step, pick, table, s)]

\* There is such a table, built from the smallest sets to the largest.
LEMMA TableExists ==
  ASSUME NEW S, IsFiniteSet(S), NEW V, NEW base \in V, NEW step \in [V \X S -> V],
         NEW pick, \A s \in SUBSET S : s # {} => pick[s] \in s
  PROVE  \E table \in [SUBSET S -> V] : Solves(table, S, base, step, pick)
<1> DEFINE Upto(n) == {s \in SUBSET S : Cardinality(s) <= n}
           done == {n \in Nat : \E t \in [Upto(n) -> V] : t = [s \in Upto(n) |-> Built(base, step, pick, t, s)]}
<1>1. \A s \in SUBSET S : IsFiniteSet(s) /\ Cardinality(s) \in Nat
  BY FS_Subset, FS_CardinalityType
<1>2. \A s \in SUBSET S : s # {} => /\ s \ {pick[s]} \in SUBSET S /\ pick[s] \in S
                                    /\ Cardinality(s \ {pick[s]}) = Cardinality(s) - 1
  BY <1>1, FS_RemoveElement
<1>3. 0 \in done
  <2>1. \A s \in Upto(0) : s = {}
    BY <1>1, FS_EmptySet
  <2>2. [s \in Upto(0) |-> base] = [s \in Upto(0) |-> Built(base, step, pick, [t \in Upto(0) |-> base], s)]
    BY <2>1 DEF Built
  <2>3. [s \in Upto(0) |-> base] \in [Upto(0) -> V]
    OBVIOUS
  <2> QED BY <2>2, <2>3
<1>4. ASSUME NEW n \in 1 .. Cardinality(S), n - 1 \in done PROVE n \in done
  <2>0. n \in Nat /\ n - 1 \in Nat
    BY <1>1
  <2>1. PICK t \in [Upto(n - 1) -> V] : t = [s \in Upto(n - 1) |-> Built(base, step, pick, t, s)]
    BY <1>4
  <2> DEFINE more == [s \in Upto(n) |-> Built(base, step, pick, t, s)]
  <2>2. \A s \in Upto(n - 1) : s \in Upto(n) /\ more[s] = t[s]
    <3>1. \A s \in Upto(n - 1) : s \in Upto(n)
      BY <1>1, <2>0
    <3> QED BY <2>1, <3>1
  <2>3. \A s \in Upto(n) : s # {} => s \ {pick[s]} \in Upto(n - 1) /\ pick[s] \in S
    BY <1>1, <1>2, <2>0
  <2>4. \A s \in Upto(n) : Built(base, step, pick, t, s) = Built(base, step, pick, more, s)
    <3> HIDE DEF more
    <3> QED BY <2>2, <2>3 DEF Built
  <2>5. more = [s \in Upto(n) |-> Built(base, step, pick, more, s)]
    <3>1. more = [s \in Upto(n) |-> Built(base, step, pick, t, s)]
      OBVIOUS
    <3> HIDE DEF more
    <3> QED BY <2>4, <3>1
  <2>6. \A s \in Upto(n) : Built(base, step, pick, t, s) \in V
    <3> SUFFICES ASSUME NEW s \in Upto(n), s # {} PROVE step[<<t[s \ {pick[s]}], pick[s]>>] \in V
      BY DEF Built
    <3>1. s \ {pick[s]} \in Upto(n - 1) /\ pick[s] \in S
      BY <2>3
    <3>2. <<t[s \ {pick[s]}], pick[s]>> \in V \X S
      BY <2>1, <3>1
    <3> QED BY <3>2
  <2>7. more \in [Upto(n) -> V]
    BY <2>6
  <2> HIDE DEF more
  <2> QED BY <2>0, <2>5, <2>7
<1>5. \A k \in 0 .. Cardinality(S) : k \in done
  <2> HIDE DEF done
  <2> QED BY <1>1, <1>3, <1>4, ByNumber
<1>6. Upto(Cardinality(S)) = SUBSET S
  <2>1. ASSUME NEW s \in SUBSET S PROVE Cardinality(s) <= Cardinality(S)
    BY FS_Subset
  <2> QED BY <2>1
<1>7. Cardinality(S) \in done
  <2> HIDE DEF done
  <2> QED BY <1>1, <1>5
<1>8. PICK n : n = Cardinality(S)
  OBVIOUS
<1>9. \E t \in [Upto(n) -> V] : t = [s \in Upto(n) |-> Built(base, step, pick, t, s)]
  <2>1. n \in done
    <3> HIDE DEF done
    <3> QED BY <1>7, <1>8
  <2> HIDE DEF Upto
  <2> QED BY <2>1
<1>10. Upto(n) = SUBSET S
  BY <1>6, <1>8
<1> HIDE DEF Upto
<1> QED BY <1>9, <1>10 DEF Solves

\* A left fold takes the numbers of a list one after the other.
Backwards(n) == [s \in SUBSET (1 .. n) |-> Max(s)]

\* ... from what the part without the greatest one comes to.
Runs(table, n, base, step) ==
  /\ table[{}] = base
  /\ \A s \in SUBSET (1 .. n) :
       s # {} => Max(s) \in s /\ table[s] = step[<<table[s \ {Max(s)}], Max(s)>>]
  /\ table[1 .. 0] = base
  /\ \A k \in 1 .. n : table[1 .. k] = step[<<table[1 .. k - 1], k>>]

\* There is such a table for a list of n, and it goes over the list from its beginning.
LEMMA RunExists ==
  ASSUME NEW n \in Nat, NEW V, NEW base \in V, NEW step \in [V \X (1 .. n) -> V]
  PROVE  \E table \in [SUBSET (1 .. n) -> V] : Runs(table, n, base, step)
<1>1. 0 \in Int /\ 1 \in Int /\ n \in Int
  OBVIOUS
<1>2. IsFiniteSet(1 .. n)
  BY <1>1, FS_Interval
<1>3. ASSUME NEW s \in SUBSET (1 .. n), s # {} PROVE Max(s) \in s
  <2>1. IsFiniteSet(s)
    BY <1>2, FS_Subset
  <2>2. s \subseteq Int
    OBVIOUS
  <2> QED BY <1>3, <2>1, <2>2, Extremes
<1>4. \A s \in SUBSET (1 .. n) : s # {} => Backwards(n)[s] \in s
  BY <1>3 DEF Backwards
<1>5. PICK table \in [SUBSET (1 .. n) -> V] : Solves(table, 1 .. n, base, step, Backwards(n))
  BY <1>2, <1>4, TableExists
<1>6. table[1 .. 0] = base
  <2>1. 1 .. 0 = {} /\ 1 .. 0 \in SUBSET (1 .. n)
    OBVIOUS
  <2> QED BY <1>5, <2>1 DEF Built, Solves
<1>7. ASSUME NEW k \in 1 .. n PROVE table[1 .. k] = step[<<table[1 .. k - 1], k>>]
  <2>1. 1 .. k \in SUBSET (1 .. n) /\ 1 .. k # {} /\ k \in Nat /\ k # 0
    OBVIOUS
  <2>2. Backwards(n)[1 .. k] = k
    BY <2>1, MaxOfFirst DEF Backwards
  <2>3. (1 .. k) \ {k} = 1 .. k - 1
    OBVIOUS
  <2>4. table[1 .. k] = Built(base, step, Backwards(n), table, 1 .. k)
    BY <1>5, <2>1 DEF Solves
  <2> QED BY <2>1, <2>2, <2>3, <2>4 DEF Built
<1>8. ASSUME NEW s \in SUBSET (1 .. n), s # {} PROVE table[s] = step[<<table[s \ {Max(s)}], Max(s)>>]
  <2>1. table[s] = Built(base, step, Backwards(n), table, s) /\ Backwards(n)[s] = Max(s)
    BY <1>5 DEF Solves, Backwards
  <2> QED BY <1>8, <2>1 DEF Built
<1>9. table[{}] = base
  BY <1>5 DEF Solves, Built
<1> QED BY <1>3, <1>5, <1>6, <1>7, <1>8, <1>9 DEF Runs

-----------------------------------------------------------------------------
(* Lists made of a set *)

\* A member put in a list is in it with what there was, before whatever was from its place on.
LEMMA InsertedIn ==
  ASSUME NEW S, NEW seq \in Seq(S), NEW x \in S, NEW k \in 1 .. Len(seq) + 1
  PROVE  /\ InsertAt(seq, k, x) \in Seq(S) /\ Len(InsertAt(seq, k, x)) = Len(seq) + 1
         /\ \A i \in 1 .. Len(seq) + 1 :
              InsertAt(seq, k, x)[i] = IF i < k THEN seq[i] ELSE IF i = k THEN x ELSE seq[i - 1]
<1> DEFINE a == SubSeq(seq, 1, k - 1)
           b == SubSeq(seq, k, Len(seq))
<1>1. a \in Seq(S) /\ Len(a) = k - 1 /\ \A i \in 1 .. k - 1 : a[i] = seq[i]
  OBVIOUS
<1>2. b \in Seq(S) /\ Len(b) = Len(seq) - k + 1 /\ \A i \in 1 .. Len(seq) - k + 1 : b[i] = seq[k + i - 1]
  OBVIOUS
<1>3. InsertAt(seq, k, x) = a \o <<x>> \o b
  BY DEF InsertAt
<1> HIDE DEF a, b
<1> DEFINE c == a \o <<x>>
<1>4. c \in Seq(S) /\ Len(c) = k /\ \A i \in 1 .. k : c[i] = IF i < k THEN seq[i] ELSE x
  BY <1>1
<1>5. InsertAt(seq, k, x) = c \o b
  BY <1>3
<1> HIDE DEF c
<1>6. /\ c \o b \in Seq(S) /\ Len(c \o b) = Len(seq) + 1
      /\ \A i \in 1 .. Len(seq) + 1 : (c \o b)[i] = IF i <= k THEN c[i] ELSE b[i - k]
  BY <1>2, <1>4
<1> QED BY <1>2, <1>4, <1>5, <1>6

\* A list of the members of a set, each put where the relation says.
Put(seq, x, before) == InsertAt(seq, Cardinality({i \in DOMAIN seq : <<seq[i], x>> \in before}) + 1, x)
Some(S) == [s \in SUBSET S |-> CHOOSE x \in s : TRUE]

LEMMA PutIn ==
  ASSUME NEW S, NEW seq \in Seq(S), NEW x \in S, NEW before
  PROVE  /\ Put(seq, x, before) \in Seq(S) /\ Len(Put(seq, x, before)) = Len(seq) + 1
         /\ ToSet(Put(seq, x, before)) = ToSet(seq) \cup {x}
<1> DEFINE less == {i \in DOMAIN seq : <<seq[i], x>> \in before}
           k == Cardinality(less) + 1
<1>1. k \in 1 .. Len(seq) + 1
  <2>1. DOMAIN seq = 1 .. Len(seq) /\ Len(seq) \in Nat
    OBVIOUS
  <2>2. IsFiniteSet(1 .. Len(seq)) /\ Cardinality(1 .. Len(seq)) = Len(seq)
    <3>1. 1 \in Int /\ Len(seq) \in Int
      BY <2>1
    <3>2. Cardinality(1 .. Len(seq)) = IF 1 > Len(seq) THEN 0 ELSE Len(seq) - 1 + 1
      BY <3>1, FS_Interval
    <3> QED BY <2>1, <3>1, <3>2, FS_Interval
  <2>3. Cardinality(less) \in Nat /\ Cardinality(less) <= Len(seq)
    <3>1. less \subseteq 1 .. Len(seq)
      BY <2>1
    <3> HIDE DEF less
    <3> QED BY <2>2, <3>1, FS_Subset, FS_CardinalityType
  <2> HIDE DEF less
  <2> QED BY <2>1, <2>3
<1> HIDE DEF k
<1>2. Put(seq, x, before) = InsertAt(seq, k, x)
  BY DEF Put, k
<1>3. /\ InsertAt(seq, k, x) \in Seq(S) /\ Len(InsertAt(seq, k, x)) = Len(seq) + 1
      /\ \A i \in 1 .. Len(seq) + 1 :
           InsertAt(seq, k, x)[i] = IF i < k THEN seq[i] ELSE IF i = k THEN x ELSE seq[i - 1]
  BY <1>1, InsertedIn
<1> DEFINE new == InsertAt(seq, k, x)
<1> HIDE DEF new
<1>4. new \in Seq(S) /\ DOMAIN new = 1 .. Len(seq) + 1 /\ DOMAIN seq = 1 .. Len(seq) /\ Len(seq) \in Nat
  BY <1>3 DEF new
<1>5. \A i \in 1 .. Len(seq) + 1 : new[i] = IF i < k THEN seq[i] ELSE IF i = k THEN x ELSE seq[i - 1]
  BY <1>3 DEF new
<1>6. ASSUME NEW y \in ToSet(new) PROVE y \in ToSet(seq) \cup {x}
  <2>1. PICK i \in 1 .. Len(seq) + 1 : y = new[i]
    BY <1>4 DEF ToSet
  <2>2. i < k => i \in DOMAIN seq
    BY <1>1, <1>4
  <2>3. i > k => i - 1 \in DOMAIN seq
    BY <1>1, <1>4
  <2> QED BY <1>1, <1>5, <2>1, <2>2, <2>3 DEF ToSet
<1>7. ASSUME NEW y \in ToSet(seq) PROVE y \in ToSet(new)
  <2>1. PICK i \in 1 .. Len(seq) : y = seq[i]
    BY <1>4 DEF ToSet
  <2>2. CASE i < k
    BY <1>4, <1>5, <2>1, <2>2 DEF ToSet
  <2>3. CASE ~(i < k)
    <3>1. i + 1 \in 1 .. Len(seq) + 1 /\ i + 1 > k /\ (i + 1) - 1 = i
      BY <1>1, <1>4, <2>3
    <3>2. new[i + 1] = y
      BY <1>1, <1>5, <2>1, <3>1
    <3> QED BY <1>4, <3>1, <3>2 DEF ToSet
  <2> QED BY <2>2, <2>3
<1>8. x \in ToSet(new)
  BY <1>1, <1>4, <1>5 DEF ToSet
<1> QED BY <1>2, <1>3, <1>6, <1>7, <1>8 DEF new

\* A relation by which things can be put in order, and a list in which nothing goes before an
\* earlier one.
Weak(S, before) ==
  \A x, y, z \in S : <<x, y>> \in before => <<y, x>> \notin before /\ (<<x, z>> \in before \/ <<z, y>> \in before)
Ranked(seq, before) == \A i, j \in DOMAIN seq : i < j => <<seq[j], seq[i]>> \notin before

\* A member put after all that go before it leaves the list in order.
LEMMA PutRanks ==
  ASSUME NEW S, NEW before, Weak(S, before), NEW seq \in Seq(S), Ranked(seq, before), NEW x \in S
  PROVE  Ranked(Put(seq, x, before), before)
<1> DEFINE less == {i \in DOMAIN seq : <<seq[i], x>> \in before}
           n == Len(seq)
           m == IF less = {} THEN 0 ELSE Max(less)
<1>1. n \in Nat /\ DOMAIN seq = 1 .. n /\ \A i \in 1 .. n : seq[i] \in S
  OBVIOUS
<1>2. \A i \in 1 .. n : i \in less <=> <<seq[i], x>> \in before
  BY <1>1
<1>3. IsFiniteSet(1 .. n)
  <2>1. 1 \in Int /\ n \in Int
    BY <1>1
  <2> QED BY <2>1, FS_Interval
<1>4. m \in 0 .. n /\ \A i \in 1 .. n : i \in less <=> i <= m
  <2>0. less \subseteq 1 .. n
    BY <1>1
  <2>1. CASE less = {}
    <3>1. m = 0 /\ \A i \in 1 .. n : i \notin less
      BY <2>1
    <3> HIDE DEF m, less
    <3> QED BY <1>1, <3>1
  <2>2. CASE less # {}
    <3>1. IsFiniteSet(less) /\ less \subseteq Int
      <4>1. IsFiniteSet(less)
        BY <1>3, <2>0, FS_Subset
      <4> QED BY <2>0, <4>1
    <3> HIDE DEF less
    <3>2. Max(less) \in less /\ \A y \in less : Max(less) >= y
      BY <2>2, <3>1, Extremes
    <3>3. m = Max(less) /\ m \in 1 .. n /\ m \in less /\ \A y \in less : m >= y
      BY <2>0, <2>2, <3>2
    <3> HIDE DEF m
    <3>4. <<seq[m], x>> \in before /\ seq[m] \in S
      BY <1>1, <1>2, <3>3
    <3>5. ASSUME NEW i \in 1 .. n, i <= m PROVE i \in less
      <4>1. CASE i = m
        BY <3>3, <4>1
      <4>2. CASE i # m
        <5>1. i < m /\ seq[i] \in S
          BY <1>1, <3>3, <3>5, <4>2
        <5>2. <<seq[m], seq[i]>> \notin before
          BY <1>1, <3>3, <5>1 DEF Ranked
        <5>3. <<seq[i], x>> \in before
          BY <3>4, <5>1, <5>2 DEF Weak
        <5> QED BY <1>2, <5>3
      <4> QED BY <4>1, <4>2
    <3>6. \A i \in less : i <= m
      BY <2>0, <3>3
    <3> QED BY <1>1, <3>3, <3>5, <3>6
  <2> QED BY <2>1, <2>2
<1> HIDE DEF m
<1>5. less = 1 .. m
  <2>1. less \subseteq 1 .. n
    BY <1>1
  <2> HIDE DEF less
  <2>2. ASSUME NEW i \in less PROVE i \in 1 .. m
    BY <1>1, <1>4, <2>1
  <2>3. ASSUME NEW i \in 1 .. m PROVE i \in less
    <3>1. i \in 1 .. n /\ i <= m
      BY <1>1, <1>4
    <3> QED BY <1>4, <3>1
  <2> QED BY <2>2, <2>3
<1> HIDE DEF less
<1>6. Cardinality(less) = m
  <2>1. 1 \in Int /\ m \in Int /\ m \in Nat
    BY <1>1, <1>4
  <2>2. Cardinality(1 .. m) = IF 1 > m THEN 0 ELSE m - 1 + 1
    BY <2>1, FS_Interval
  <2> QED BY <1>5, <2>1, <2>2
<1> DEFINE new == InsertAt(seq, m + 1, x)
<1>7. Put(seq, x, before) = new
  BY <1>6 DEF Put, less
<1>8. /\ new \in Seq(S) /\ Len(new) = n + 1
      /\ \A i \in 1 .. n + 1 : new[i] = IF i < m + 1 THEN seq[i] ELSE IF i = m + 1 THEN x ELSE seq[i - 1]
  <2>1. PICK k : k = m + 1 /\ k \in 1 .. Len(seq) + 1
    BY <1>1, <1>4
  <2>2. /\ InsertAt(seq, k, x) \in Seq(S) /\ Len(InsertAt(seq, k, x)) = Len(seq) + 1
        /\ \A i \in 1 .. Len(seq) + 1 :
             InsertAt(seq, k, x)[i] = IF i < k THEN seq[i] ELSE IF i = k THEN x ELSE seq[i - 1]
    <3>1. k \in 1 .. Len(seq) + 1
      BY <2>1
    <3> HIDE DEF new, n
    <3> QED BY <3>1, InsertedIn
  <2> QED BY <2>1, <2>2
<1> HIDE DEF new
<1>9. DOMAIN new = 1 .. n + 1
  BY <1>1, <1>8
<1>10. ASSUME NEW i \in 1 .. n + 1, NEW j \in 1 .. n + 1, i < j PROVE <<new[j], new[i]>> \notin before
  <2>0. \A a, b \in 1 .. n : a < b => <<seq[b], seq[a]>> \notin before
    BY <1>1 DEF Ranked
  <2>1. CASE j <= m
    <3>1. new[i] = seq[i] /\ new[j] = seq[j] /\ i \in 1 .. n /\ j \in 1 .. n
      BY <1>1, <1>4, <1>8, <1>10, <2>1
    <3> QED BY <1>10, <2>0, <3>1
  <2>2. CASE j = m + 1
    <3>1. new[i] = seq[i] /\ new[j] = x /\ i \in 1 .. n /\ i <= m
      BY <1>1, <1>4, <1>8, <1>10, <2>2
    <3>2. <<seq[i], x>> \in before /\ seq[i] \in S
      BY <1>1, <1>2, <1>4, <3>1
    <3> QED BY <3>1, <3>2 DEF Weak
  <2>3. CASE j > m + 1 /\ i = m + 1
    <3>1. new[i] = x /\ new[j] = seq[j - 1] /\ j - 1 \in 1 .. n /\ ~(j - 1 <= m)
      BY <1>1, <1>4, <1>8, <1>10, <2>3
    <3> QED BY <1>2, <1>4, <3>1
  <2>4. CASE j > m + 1 /\ i <= m
    <3>1. new[i] = seq[i] /\ new[j] = seq[j - 1] /\ i \in 1 .. n /\ j - 1 \in 1 .. n /\ i < j - 1
      BY <1>1, <1>4, <1>8, <1>10, <2>4
    <3> QED BY <2>0, <3>1
  <2>5. CASE i > m + 1
    <3>1. new[i] = seq[i - 1] /\ new[j] = seq[j - 1] /\ i - 1 \in 1 .. n /\ j - 1 \in 1 .. n /\ i - 1 < j - 1
      BY <1>1, <1>4, <1>8, <1>10, <2>5
    <3> QED BY <2>0, <3>1
  <2> QED BY <1>1, <1>4, <2>1, <2>2, <2>3, <2>4, <2>5
<1> QED BY <1>7, <1>9, <1>10 DEF Ranked

\* How the list of part of a set comes from that of a smaller part.
Lists(table, S, before) ==
  table = [s \in SUBSET S |->
             IF s = {} THEN <<>> ELSE Put(table[s \ {CHOOSE x \in s : TRUE}], CHOOSE x \in s : TRUE, before)]

\* A finite set can be listed by any relation, each member once, and in order when it orders them.
LEMMA ListExists ==
  ASSUME NEW S, IsFiniteSet(S), NEW before
  PROVE  \E table \in [SUBSET S -> Seq(S)] :
           /\ Lists(table, S, before)
           /\ ToSet(table[S]) = S /\ Len(table[S]) = Cardinality(S)
           /\ Weak(S, before) => Ranked(table[S], before)
<1> DEFINE step == [p \in Seq(S) \X S |-> Put(p[1], p[2], before)]
           none == <<>>
<1>1. \A seq \in Seq(S), x \in S : /\ Put(seq, x, before) \in Seq(S) /\ Len(Put(seq, x, before)) = Len(seq) + 1
                                  /\ ToSet(Put(seq, x, before)) = ToSet(seq) \cup {x}
  BY PutIn
<1>2. none \in Seq(S) /\ step \in [Seq(S) \X S -> Seq(S)]
  <2>1. \A p \in Seq(S) \X S : Put(p[1], p[2], before) \in Seq(S)
    BY <1>1
  <2> QED BY <2>1
<1>3. \A s \in SUBSET S : s # {} => Some(S)[s] \in s /\ Some(S)[s] = CHOOSE x \in s : TRUE
  BY DEF Some
<1>3a. \A s \in SUBSET S : s # {} => Some(S)[s] \in s
  BY <1>3
<1>4. \E table \in [SUBSET S -> Seq(S)] : Solves(table, S, none, step, Some(S))
  <2> HIDE DEF step, none
  <2> QED BY <1>2, <1>3a, TableExists
<1>4a. PICK table \in [SUBSET S -> Seq(S)] : Solves(table, S, none, step, Some(S))
  BY <1>4
<1>5. ASSUME NEW s \in SUBSET S, s # {}
      PROVE  /\ (CHOOSE x \in s : TRUE) \in s /\ s \ {CHOOSE x \in s : TRUE} \in SUBSET S
             /\ table[s] = Put(table[s \ {CHOOSE x \in s : TRUE}], CHOOSE x \in s : TRUE, before)
  <2> DEFINE x == CHOOSE x \in s : TRUE
  <2>1. x \in s /\ x \in S /\ Some(S)[s] = x
    BY <1>3, <1>5
  <2> HIDE DEF x
  <2>2. table[s] = step[<<table[s \ {x}], x>>]
    BY <1>4a, <1>5, <2>1 DEF Solves, Built
  <2>3. <<table[s \ {x}], x>> \in Seq(S) \X S
    BY <2>1
  <2>4. table[s] = Put(table[s \ {x}], x, before)
    BY <2>2, <2>3
  <2> QED BY <2>1, <2>4 DEF x
<1>6. table[{}] = <<>>
  BY <1>4a DEF Solves, Built
<1>7. Lists(table, S, before)
  <2>1. \A s \in SUBSET S : table[s] =
          IF s = {} THEN <<>> ELSE Put(table[s \ {CHOOSE x \in s : TRUE}], CHOOSE x \in s : TRUE, before)
    BY <1>5, <1>6, Zenon
  <2>2. DOMAIN table = SUBSET S
    OBVIOUS
  <2> QED BY <2>1, <2>2 DEF Lists
<1>7a. \A s \in SUBSET S : IsFiniteSet(s) /\ Cardinality(s) \in Nat
  BY FS_Subset, FS_CardinalityType
<1> DEFINE full == {s \in SUBSET S : ToSet(table[s]) = s /\ Len(table[s]) = Cardinality(s)}
           inOrder == {s \in SUBSET S : Weak(S, before) => Ranked(table[s], before)}
<1>8. ASSUME NEW s \in SUBSET S, \A x \in s : s \ {x} \in full PROVE s \in full
  <2>1. CASE s = {}
    <3>1. ToSet(table[s]) = s /\ Len(table[s]) = 0
      BY <1>6, <2>1 DEF ToSet
    <3>2. Cardinality(s) = 0
      BY <2>1, FS_EmptySet
    <3> QED BY <3>1, <3>2
  <2>2. CASE s # {}
    <3> DEFINE x == CHOOSE x \in s : TRUE
    <3>1. x \in s /\ s \ {x} \in SUBSET S /\ table[s] = Put(table[s \ {x}], x, before)
      BY <1>5, <2>2
    <3> HIDE DEF x
    <3>2. ToSet(table[s]) = ToSet(table[s \ {x}]) \cup {x} /\ Len(table[s]) = Len(table[s \ {x}]) + 1
      BY <1>1, <3>1
    <3>3. ToSet(table[s \ {x}]) = s \ {x} /\ Len(table[s \ {x}]) = Cardinality(s \ {x})
      BY <1>8, <3>1
    <3>3a. Cardinality(s \ {x}) = Cardinality(s) - 1 /\ Cardinality(s) \in Nat
      BY <1>7a, <3>1, FS_RemoveElement
    <3>4. ToSet(table[s]) = s /\ Len(table[s]) = Cardinality(s)
      BY <3>1, <3>2, <3>3, <3>3a
    <3> QED BY <3>4
  <2> QED BY <2>1, <2>2
<1>9. ASSUME NEW s \in SUBSET S, \A x \in s : s \ {x} \in inOrder PROVE s \in inOrder
  <2> SUFFICES ASSUME Weak(S, before) PROVE Ranked(table[s], before)
    OBVIOUS
  <2>1. CASE s = {}
    BY <1>6, <2>1 DEF Ranked
  <2>2. CASE s # {}
    <3> DEFINE x == CHOOSE x \in s : TRUE
    <3>1. x \in s /\ s \ {x} \in SUBSET S /\ table[s] = Put(table[s \ {x}], x, before)
      BY <1>5, <2>2
    <3> HIDE DEF x
    <3>2. Ranked(table[s \ {x}], before)
      BY <1>9, <3>1
    <3>3. table[s \ {x}] \in Seq(S) /\ x \in S
      BY <3>1
    <3>4. Ranked(Put(table[s \ {x}], x, before), before)
      BY <3>2, <3>3, PutRanks
    <3> QED BY <3>1, <3>4
  <2> QED BY <2>1, <2>2
<1> HIDE DEF full, inOrder
<1>10. S \in full /\ S \in inOrder
  BY <1>8, <1>9, BySmaller
<1> QED BY <1>7, <1>10 DEF full, inOrder

\* A list that has as many places as members has each once.
LEMMA OnceEach ==
  ASSUME NEW S, IsFiniteSet(S), NEW seq \in Seq(S), ToSet(seq) = S, Len(seq) = Cardinality(S)
  PROVE  \A i, j \in DOMAIN seq : seq[i] = seq[j] => i = j
<1> DEFINE n == Len(seq)
           D == 1 .. n
           g == [i \in D |-> seq[i]]
<1>1. n \in Nat /\ DOMAIN seq = D
  OBVIOUS
<1>2. IsFiniteSet(D) /\ Cardinality(D) = Cardinality(S)
  <2>1. 1 \in Int /\ n \in Int
    BY <1>1
  <2>2. Cardinality(D) = IF 1 > n THEN 0 ELSE n - 1 + 1
    BY <2>1, FS_Interval
  <2> QED BY <1>1, <2>1, <2>2, FS_Interval
<1>3. g \in Surjection(D, S)
  <2>1. \A i \in D : seq[i] \in S
    BY <1>1
  <2>2. \A x \in S : \E i \in D : g[i] = x
    BY <1>1 DEF ToSet
  <2>3. g \in [D -> S]
    BY <2>1
  <2> QED BY <2>2, <2>3 DEF Surjection
<1>4. g \in Injection(D, S)
  <2> HIDE DEF g, D
  <2> QED BY <1>2, <1>3, FS_SurjSameCardinalityImpliesInj
<1>5. \A i, j \in D : g[i] = g[j] => i = j
  <2> HIDE DEF g, D
  <2> QED BY <1>4 DEF Injection, IsInjective
<1> QED BY <1>1, <1>5

\* What a set is listed as: each member once, and in order when the relation orders them.
LEMMA OrderedIs ==
  ASSUME NEW S, IsFiniteSet(S), NEW before
  PROVE  /\ Ordered(S, before) \in Seq(S) /\ ToSet(Ordered(S, before)) = S /\ Len(Ordered(S, before)) = Cardinality(S)
         /\ \A i, j \in DOMAIN Ordered(S, before) : Ordered(S, before)[i] = Ordered(S, before)[j] => i = j
         /\ Weak(S, before) => Ranked(Ordered(S, before), before)
<1> DEFINE Earlier(seq, x) == InsertAt(seq, Cardinality({i \in DOMAIN seq : <<seq[i], x>> \in before}) + 1, x)
           IsList(t) == t = [s \in SUBSET S |->
             IF s = {} THEN <<>> ELSE Earlier(t[s \ {CHOOSE x \in s : TRUE}], CHOOSE x \in s : TRUE)]
           list == CHOOSE t : IsList(t)
<1>1. Ordered(S, before) = list[S]
  BY DEF Ordered, FoldSet, MapThenFoldSet
<1>2. PICK table \in [SUBSET S -> Seq(S)] :
        /\ Lists(table, S, before) /\ ToSet(table[S]) = S /\ Len(table[S]) = Cardinality(S)
        /\ Weak(S, before) => Ranked(table[S], before)
  BY ListExists
<1>3. IsList(table)
  BY <1>2 DEF Lists, Put
<1>4. IsList(list)
  <2> HIDE DEF IsList
  <2> QED BY <1>3
<1>5. list[S] = table[S]
  <2> DEFINE same == {s \in SUBSET S : list[s] = table[s]}
  <2> HIDE DEF list, Earlier
  <2>1. ASSUME NEW s \in SUBSET S, \A x \in s : s \ {x} \in same PROVE s \in same
    <3>1. CASE s = {}
      BY <1>3, <1>4, <3>1
    <3>2. CASE s # {}
      <4> DEFINE x == CHOOSE x \in s : TRUE
      <4>1. list[s \ {x}] = table[s \ {x}]
        BY <2>1, <3>2
      <4>2. list[s] = Earlier(list[s \ {x}], x) /\ table[s] = Earlier(table[s \ {x}], x)
        BY <1>3, <1>4, <3>2
      <4> QED BY <4>1, <4>2
    <3> QED BY <3>1, <3>2
  <2> HIDE DEF same
  <2>2. S \in same
    BY <2>1, BySmaller
  <2> QED BY <2>2 DEF same
<1> HIDE DEF list
<1>6. Ordered(S, before) = table[S] /\ table[S] \in Seq(S)
  BY <1>1, <1>5
<1>7. \A i, j \in DOMAIN table[S] : table[S][i] = table[S][j] => i = j
  BY <1>2, <1>6, OnceEach
<1> QED BY <1>2, <1>6, <1>7

Spans == [from : Int, to : Int]

\* Every range of a set is in its ordered list, and nothing else; none begins before an earlier one.
LEMMA SortedIs ==
  ASSUME NEW S, IsFiniteSet(S), S \subseteq Spans
  PROVE  /\ Sorted(S) \in Seq(S) /\ ToSet(Sorted(S)) = S
         /\ \A i, j \in DOMAIN Sorted(S) : i < j => Sorted(S)[i].from <= Sorted(S)[j].from
<1> DEFINE before == {p \in S \X S : p[1].from < p[2].from}
           list == Sorted(S)
<1>1. list = Ordered(S, before)
  BY DEF Sorted
<1>2. \A x \in S : x.from \in Int
  BY DEF Spans
<1>3. \A x, y \in S : <<x, y>> \in before <=> x.from < y.from
  OBVIOUS
<1> HIDE DEF before, list
<1>4. Weak(S, before)
  BY <1>2, <1>3 DEF Weak
<1>5. list \in Seq(S) /\ ToSet(list) = S /\ Ranked(list, before)
  BY <1>1, <1>4, OrderedIs
<1>6. \A i \in DOMAIN list : list[i] \in S
  BY <1>5
<1>7. ASSUME NEW i \in DOMAIN list, NEW j \in DOMAIN list, i < j PROVE list[i].from <= list[j].from
  <2>1. <<list[j], list[i]>> \notin before
    BY <1>5, <1>7 DEF Ranked
  <2>2. list[i] \in S /\ list[j] \in S
    BY <1>6
  <2>3. ~(list[j].from < list[i].from)
    BY <1>3, <2>1, <2>2
  <2> QED BY <1>2, <2>2, <2>3
<1> QED BY <1>5, <1>7 DEF list

\* Two tables that begin alike, and go on alike from what they have alike, end alike.
LEMMA SameRuns ==
  ASSUME NEW n \in Nat, NEW one, NEW other, one[{}] = other[{}],
         \A s \in SUBSET (1 .. n) :
           s # {} /\ one[s \ {Max(s)}] = other[s \ {Max(s)}] => one[s] = other[s]
  PROVE  one[1 .. n] = other[1 .. n]
<1> DEFINE D == 1 .. n
           same == {s \in SUBSET D : one[s] = other[s]}
<1>1. 0 \in Int /\ 1 \in Int /\ n \in Int
  OBVIOUS
<1>2. IsFiniteSet(D)
  BY <1>1, FS_Interval
<1>3. ASSUME NEW s \in SUBSET D, \A x \in s : s \ {x} \in same PROVE s \in same
  <2>1. CASE s = {}
    BY <2>1
  <2>2. CASE s # {}
    <3>1. IsFiniteSet(s)
      BY <1>2, FS_Subset
    <3>2. s \subseteq Int
      OBVIOUS
    <3>3. Max(s) \in s
      BY <2>2, <3>1, <3>2, Extremes
    <3>4. one[s \ {Max(s)}] = other[s \ {Max(s)}]
      BY <1>3, <3>3
    <3> QED BY <2>2, <3>4
  <2> QED BY <2>1, <2>2
<1> HIDE DEF D, same
<1>4. D \in same
  BY <1>2, <1>3, BySmaller
<1> QED BY <1>4 DEF D, same

-----------------------------------------------------------------------------
(* Ranges that are merged *)

Proper == {r \in Spans : r.from < r.to}
InOrder(seq) == \A i, j \in DOMAIN seq : i < j => seq[i].to < seq[j].from
Holds(r, t) == r.from <= t /\ t < r.to

LEMMA MaxOfTwo ==
  ASSUME NEW a \in Int, NEW b \in Int
  PROVE  Max({a, b}) = IF a >= b THEN a ELSE b
<1>1. IsFiniteSet({a, b})
  <2>1. IsFiniteSet({a}) /\ IsFiniteSet({b}) /\ {a, b} = {a} \cup {b}
    BY FS_Singleton
  <2> QED BY <2>1, FS_Union
<1>2. Max({a, b}) \in {a, b} /\ \A y \in {a, b} : Max({a, b}) >= y
  BY <1>1, Extremes
<1> QED BY <1>2

LEMMA MinOfTwo ==
  ASSUME NEW a \in Int, NEW b \in Int
  PROVE  Min({a, b}) = IF a <= b THEN a ELSE b
<1>1. IsFiniteSet({a, b})
  <2>1. IsFiniteSet({a}) /\ IsFiniteSet({b}) /\ {a, b} = {a} \cup {b}
    BY FS_Singleton
  <2> QED BY <2>1, FS_Union
<1>2. Min({a, b}) \in {a, b} /\ \A y \in {a, b} : Min({a, b}) <= y
  BY <1>1, Extremes
<1> QED BY <1>2

\* A range that is taken in leaves proper ranges: the last longer, or one more.
LEMMA JoinedIs ==
  ASSUME NEW merged \in Seq(Proper), NEW r \in Proper
  PROVE  \/ /\ Joined(merged, r) = Append(merged, r) /\ Joined(merged, r) \in Seq(Proper)
            /\ merged # <<>> => Last(merged).to < r.from
         \/ /\ merged # <<>> /\ r.from <= Last(merged).to
            /\ Joined(merged, r) \in Seq(Proper) /\ Len(Joined(merged, r)) = Len(merged)
            /\ \A i \in DOMAIN merged : Joined(merged, r)[i] = IF i < Len(merged) THEN merged[i]
                 ELSE Period(merged[i].from, IF merged[i].to >= r.to THEN merged[i].to ELSE r.to)
<1>0. r.from \in Int /\ r.to \in Int /\ r.from < r.to
  BY DEF Proper, Spans
<1>1. CASE merged = <<>>
  BY <1>1 DEF Joined
<1>2. CASE merged # <<>>
  <2> DEFINE n == Len(merged)
             last == merged[n]
             to == IF last.to >= r.to THEN last.to ELSE r.to
  <2>1. n \in Nat /\ n # 0 /\ DOMAIN merged = 1 .. n /\ Last(merged) = last /\ last \in Proper
    BY <1>2 DEF Last
  <2>2. last = [from |-> last.from, to |-> last.to] /\ last.from \in Int /\ last.to \in Int /\ last.from < last.to
    BY <2>1 DEF Proper, Spans
  <2>3. CASE ~(r.from <= last.to)
    <3>1. Joined(merged, r) = Append(merged, r)
      BY <2>1, <2>3 DEF Joined
    <3>2. Append(merged, r) \in Seq(Proper)
      OBVIOUS
    <3>3. Last(merged).to < r.from
      BY <1>0, <2>1, <2>2, <2>3
    <3> HIDE DEF n, last, to
    <3> QED BY <3>1, <3>2, <3>3
  <2>4. CASE r.from <= last.to
    <3>1. Max({last.to, r.to}) = to
      BY <1>0, <2>2, MaxOfTwo
    <3> DEFINE new == [merged EXCEPT ![n] = Period(last.from, to)]
    <3>2. Joined(merged, r) = new
      <4>1. [last EXCEPT !.to = to] = Period(last.from, to)
        BY <2>2 DEF Period
      <4>2. [merged EXCEPT ![n].to = Max({@, r.to})] = [merged EXCEPT ![n] = [last EXCEPT !.to = Max({last.to, r.to})]]
        OBVIOUS
      <4>3. Joined(merged, r) = [merged EXCEPT ![n].to = Max({@, r.to})]
        BY <1>2, <2>1, <2>4 DEF Joined
      <4> QED BY <3>1, <4>1, <4>2, <4>3
    <3>3. to \in Int /\ last.from < to
      BY <1>0, <2>2
    <3>4. Period(last.from, to) \in Proper
      BY <2>2, <3>3 DEF Period, Proper, Spans
    <3>5. new \in Seq(Proper) /\ Len(new) = n
      BY <2>1, <3>4
    <3>6. \A i \in 1 .. n : new[i] = IF i < n THEN merged[i] ELSE Period(last.from, to)
      BY <2>1
    <3> HIDE DEF new, n, last, to
    <3>7. \A i \in 1 .. n : ~(i < n) => i = n
      BY <2>1
    <3> USE DEF n, last, to
    <3> QED BY <1>2, <2>1, <2>4, <3>2, <3>5, <3>6, <3>7
  <2> QED BY <2>3, <2>4
<1> QED BY <1>1, <1>2

\* A moment is in a list of ranges when one of them holds it.
LEMMA InList ==
  ASSUME NEW seq \in Seq(Proper), NEW t \in Int
  PROVE  In(ToSet(seq), t) <=> \E i \in 1 .. Len(seq) : Holds(seq[i], t)
<1>1. DOMAIN seq = 1 .. Len(seq)
  OBVIOUS
<1> QED BY <1>1 DEF In, ToSet, Holds

\* One range more, which begins no earlier than the others: still in order and apart, with its
\* moments added.
LEMMA JoinedKeeps ==
  ASSUME NEW merged \in Seq(Proper), NEW r \in Proper, InOrder(merged),
         \A i \in DOMAIN merged : merged[i].from <= r.from
  PROVE  /\ Joined(merged, r) \in Seq(Proper) /\ InOrder(Joined(merged, r))
         /\ \A i \in DOMAIN Joined(merged, r) : Joined(merged, r)[i].from <= r.from
         /\ \A t \in Int : In(ToSet(Joined(merged, r)), t) <=> In(ToSet(merged), t) \/ Holds(r, t)
<1> DEFINE new == Joined(merged, r)
           n == Len(merged)
<1>0. n \in Nat /\ DOMAIN merged = 1 .. n /\ \A i \in 1 .. n :
        /\ merged[i] \in Proper /\ merged[i].from \in Int /\ merged[i].to \in Int /\ merged[i].from < merged[i].to
        /\ merged[i].from <= r.from
  <2>1. n \in Nat /\ DOMAIN merged = 1 .. n /\ \A i \in 1 .. n : merged[i] \in Proper
    OBVIOUS
  <2> QED BY <2>1 DEF Proper, Spans
<1>0a. n = Len(merged)
  OBVIOUS
<1> HIDE DEF n
<1>1. r.from \in Int /\ r.to \in Int /\ r.from < r.to
  BY DEF Proper, Spans
<1>2. CASE /\ new = Append(merged, r) /\ new \in Seq(Proper)
           /\ merged # <<>> => Last(merged).to < r.from
  <2>1. Len(new) = n + 1 /\ DOMAIN new = 1 .. n + 1 /\ (\A i \in 1 .. n : new[i] = merged[i]) /\ new[n + 1] = r
    <3> HIDE DEF new
    <3> QED BY <1>0, <1>0a, <1>2
  <2>2. ASSUME NEW i \in 1 .. n PROVE merged[i].to < r.from
    <3>1. merged # <<>> /\ Last(merged) = merged[n] /\ n \in 1 .. n
      BY <1>0, <1>0a DEF Last
    <3>2. merged[n].to < r.from
      BY <1>2, <3>1
    <3>3. i = n \/ merged[i].to < merged[n].from
      BY <1>0, <3>1 DEF InOrder
    <3> QED BY <1>0, <1>1, <3>1, <3>2, <3>3
  <2> HIDE DEF new
  <2>3. ASSUME NEW i \in 1 .. n + 1, NEW j \in 1 .. n + 1, i < j PROVE new[i].to < new[j].from
    <3>1. i \in 1 .. n
      BY <1>0, <2>3
    <3>2. CASE j \in 1 .. n
      BY <1>0, <2>1, <2>3, <3>1, <3>2 DEF InOrder
    <3>3. CASE j = n + 1
      BY <2>1, <2>2, <3>1, <3>3
    <3> QED BY <1>0, <3>2, <3>3
  <2>4. \A i \in 1 .. n + 1 : i \in 1 .. n \/ i = n + 1
    BY <1>0
  <2>5. \A i \in 1 .. n + 1 : new[i].from <= r.from
    BY <1>0, <1>1, <2>1, <2>4
  <2>6. \A t \in Int : In(ToSet(new), t) <=> In(ToSet(merged), t) \/ Holds(r, t)
    <3> SUFFICES ASSUME NEW t \in Int PROVE In(ToSet(new), t) <=> In(ToSet(merged), t) \/ Holds(r, t)
      OBVIOUS
    <3>1. In(ToSet(new), t) <=> \E i \in 1 .. n + 1 : Holds(new[i], t)
      BY <1>2, <2>1, InList
    <3>2. In(ToSet(merged), t) <=> \E i \in 1 .. n : Holds(merged[i], t)
      BY <1>0a, InList
    <3>3. \A i \in 1 .. n : i \in 1 .. n + 1
      BY <1>0
    <3>4. n + 1 \in 1 .. n + 1
      BY <1>0
    <3> QED BY <2>1, <2>4, <3>1, <3>2, <3>3, <3>4
  <2> QED BY <1>2, <2>1, <2>3, <2>5, <2>6 DEF InOrder, new
<1>3. CASE /\ merged # <<>> /\ r.from <= Last(merged).to
           /\ new \in Seq(Proper) /\ Len(new) = Len(merged)
           /\ \A i \in DOMAIN merged : new[i] = IF i < Len(merged) THEN merged[i]
                 ELSE Period(merged[i].from, IF merged[i].to >= r.to THEN merged[i].to ELSE r.to)
  <2>0. n \in 1 .. n /\ Last(merged) = merged[n] /\ DOMAIN new = 1 .. n /\ Len(new) = n
    <3> HIDE DEF new
    <3>1. n # 0
      BY <1>0, <1>0a, <1>3
    <3> QED BY <1>0, <1>0a, <1>3, <3>1 DEF Last
  <2> HIDE DEF new
  <2>1. ASSUME NEW i \in 1 .. n, i # n PROVE new[i] = merged[i] /\ i < n
    <3>1. i < n
      BY <1>0, <2>1
    <3> QED BY <1>0, <1>0a, <1>3, <3>1
  <2>2. new[n] = Period(merged[n].from, IF merged[n].to >= r.to THEN merged[n].to ELSE r.to)
    BY <1>0, <1>0a, <1>3, <2>0
  <2>3. /\ new[n].from = merged[n].from
        /\ new[n].to = IF merged[n].to >= r.to THEN merged[n].to ELSE r.to
    BY <2>2 DEF Period
  <2>4. ASSUME NEW i \in 1 .. n, NEW j \in 1 .. n, i < j PROVE new[i].to < new[j].from
    <3>1. i # n
      BY <1>0, <2>4
    <3>2. new[i] = merged[i] /\ new[j].from = merged[j].from
      BY <2>1, <2>3, <3>1
    <3>3. merged[i].to < merged[j].from
      BY <1>0, <2>4 DEF InOrder
    <3> QED BY <3>2, <3>3
  <2>5. \A i \in 1 .. n : new[i].from <= r.from
    BY <1>0, <2>1, <2>3
  <2>6. \A t \in Int : In(ToSet(new), t) <=> In(ToSet(merged), t) \/ Holds(r, t)
    <3> SUFFICES ASSUME NEW t \in Int PROVE In(ToSet(new), t) <=> In(ToSet(merged), t) \/ Holds(r, t)
      OBVIOUS
    <3>1. In(ToSet(new), t) <=> \E i \in 1 .. n : Holds(new[i], t)
      BY <1>3, <2>0, InList
    <3>2. In(ToSet(merged), t) <=> \E i \in 1 .. n : Holds(merged[i], t)
      BY <1>0a, InList
    <3>3. r.from <= merged[n].to
      BY <1>3, <2>0
    <3>4. Holds(new[n], t) <=> Holds(merged[n], t) \/ Holds(r, t)
      <4>1. /\ merged[n].from \in Int /\ merged[n].to \in Int /\ merged[n].from < merged[n].to
            /\ merged[n].from <= r.from
        BY <1>0, <2>0
      <4> QED BY <1>1, <2>3, <3>3, <4>1 DEF Holds
    <3> QED BY <2>0, <2>1, <3>1, <3>2, <3>4
  <2> QED BY <1>3, <2>0, <2>4, <2>5, <2>6 DEF InOrder, new
<1> QED BY <1>2, <1>3, JoinedIs

\* Merged, the ranges are in order and apart, and hold the moments they held.
LEMMA MergedIs ==
  ASSUME NEW S, IsFiniteSet(S), S \subseteq Proper
  PROVE  /\ MergeRanges(S) \in Seq(Proper) /\ InOrder(MergeRanges(S))
         /\ \A t \in Int : In(ToSet(MergeRanges(S)), t) <=> In(S, t)
<1> DEFINE seq == Sorted(S)
           n == Len(seq)
           IsRun(t) == t = [s \in SUBSET DOMAIN seq |->
                              IF s = {} THEN <<>> ELSE Joined(t[s \ {Max(s)}], seq[Max(s)])]
           run == CHOOSE t : IsRun(t)
<1>1. MergeRanges(S) = run[DOMAIN seq]
  BY DEF MergeRanges, FoldLeft, MapThenFoldSet
<1>2. /\ seq \in Seq(Proper) /\ ToSet(seq) = S
      /\ \A i, j \in DOMAIN seq : i < j => seq[i].from <= seq[j].from
  <2>1. S \subseteq Spans
    BY DEF Proper
  <2>2. Sorted(S) \in Seq(S)
    BY <2>1, SortedIs
  <2> QED BY <2>1, <2>2, SortedIs
<1> HIDE DEF seq
<1>3. n \in Nat /\ DOMAIN seq = 1 .. n /\ \A i \in 1 .. n : seq[i] \in Proper
  BY <1>2
<1> HIDE DEF n
<1> DEFINE V == Seq(Proper)
           none == <<>>
           step == [p \in V \X (1 .. n) |-> Joined(p[1], seq[p[2]])]
<1>4. \A merged \in V, i \in 1 .. n : Joined(merged, seq[i]) \in V
  <2> SUFFICES ASSUME NEW merged \in V, NEW i \in 1 .. n PROVE Joined(merged, seq[i]) \in V
    OBVIOUS
  <2>1. PICK r \in Proper : r = seq[i]
    BY <1>3
  <2>2. Joined(merged, r) \in V
    BY JoinedIs
  <2> QED BY <2>1, <2>2
<1>5. PICK table \in [SUBSET (1 .. n) -> V] : Runs(table, n, none, step)
  <2>1. none \in V /\ step \in [V \X (1 .. n) -> V]
    BY <1>4
  <2> HIDE DEF none, V, step
  <2> QED BY <1>3, <2>1, RunExists
<1>6. \A s \in SUBSET (1 .. n) : s # {} => Max(s) \in 1 .. n /\ s \ {Max(s)} \in SUBSET (1 .. n)
  BY <1>5 DEF Runs
<1>7. \A s \in SUBSET (1 .. n) :
        table[s] = IF s = {} THEN <<>> ELSE Joined(table[s \ {Max(s)}], seq[Max(s)])
  <2> SUFFICES ASSUME NEW s \in SUBSET (1 .. n)
               PROVE  table[s] = IF s = {} THEN <<>> ELSE Joined(table[s \ {Max(s)}], seq[Max(s)])
    OBVIOUS
  <2>1. table[s] = IF s = {} THEN none ELSE step[<<table[s \ {Max(s)}], Max(s)>>]
    BY <1>5 DEF Runs
  <2>2. s # {} => <<table[s \ {Max(s)}], Max(s)>> \in V \X (1 .. n)
    <3> HIDE DEF V
    <3> QED BY <1>6
  <2> QED BY <2>1, <2>2
<1>8. IsRun(table)
  <2>1. table = [s \in SUBSET (1 .. n) |-> table[s]]
    OBVIOUS
  <2> QED BY <1>3, <1>7, <2>1
<1>9. IsRun(run)
  <2> HIDE DEF IsRun
  <2> QED BY <1>8
<1>10. run[1 .. n] = table[1 .. n]
  <2> HIDE DEF run
  <2>1. run[{}] = table[{}]
    BY <1>8, <1>9
  <2>2. ASSUME NEW s \in SUBSET (1 .. n), s # {}, run[s \ {Max(s)}] = table[s \ {Max(s)}] PROVE run[s] = table[s]
    BY <1>3, <1>8, <1>9, <2>2
  <2> QED BY <1>3, <2>1, <2>2, SameRuns
<1> HIDE DEF run, IsRun
<1>11. \A k \in 1 .. n : table[1 .. k] = Joined(table[1 .. k - 1], seq[k])
  <2> SUFFICES ASSUME NEW k \in 1 .. n PROVE table[1 .. k] = Joined(table[1 .. k - 1], seq[k])
    OBVIOUS
  <2>1. 1 .. k - 1 \in SUBSET (1 .. n)
    BY <1>3
  <2>2. <<table[1 .. k - 1], k>> \in V \X (1 .. n)
    <3> HIDE DEF V
    <3> QED BY <2>1
  <2> QED BY <1>5, <2>2 DEF Runs
<1>11a. table[1 .. 0] = <<>>
  BY <1>5 DEF Runs
<1> DEFINE Good(k) == /\ table[1 .. k] \in Seq(Proper) /\ InOrder(table[1 .. k])
                      /\ k # 0 => \A i \in DOMAIN table[1 .. k] : table[1 .. k][i].from <= seq[k].from
                      /\ k = 0 => table[1 .. k] = <<>>
                      /\ \A t \in Int : In(ToSet(table[1 .. k]), t) <=> \E i \in 1 .. k : Holds(seq[i], t)
           good == {k \in 0 .. n : Good(k)}
<1>12. Good(0)
  BY <1>11a DEF InOrder, In, ToSet
<1>13. ASSUME NEW k \in 1 .. n, Good(k - 1) PROVE Good(k)
  <2> DEFINE merged == table[1 .. k - 1]
             r == seq[k]
  <2>1. r \in Proper /\ merged \in Seq(Proper) /\ InOrder(merged) /\ table[1 .. k] = Joined(merged, r)
    BY <1>3, <1>11, <1>13
  <2>2. \A i \in DOMAIN merged : merged[i].from <= r.from
    <3>1. CASE k = 1
      BY <1>13, <3>1
    <3>2. CASE k # 1
      <4>1. k - 1 \in 1 .. n /\ k - 1 # 0 /\ k - 1 < k
        BY <1>3, <3>2
      <4>2. seq[k - 1].from <= r.from /\ seq[k - 1].from \in Int /\ r.from \in Int
        <5>1. seq[k - 1] \in Spans /\ r \in Spans
          BY <1>3, <4>1 DEF Proper
        <5> QED BY <1>2, <1>3, <4>1, <5>1 DEF Spans
      <4>3. \A i \in DOMAIN merged : merged[i].from <= seq[k - 1].from /\ merged[i].from \in Int
        <5>1. \A i \in DOMAIN merged : merged[i] \in Spans
          BY <2>1 DEF Proper
        <5> QED BY <1>13, <4>1, <5>1 DEF Spans
      <4> QED BY <4>2, <4>3
    <3> QED BY <3>1, <3>2
  <2> HIDE DEF merged, r
  <2>3. /\ Joined(merged, r) \in Seq(Proper) /\ InOrder(Joined(merged, r))
        /\ \A i \in DOMAIN Joined(merged, r) : Joined(merged, r)[i].from <= r.from
        /\ \A t \in Int : In(ToSet(Joined(merged, r)), t) <=> In(ToSet(merged), t) \/ Holds(r, t)
    BY <2>1, <2>2, JoinedKeeps
  <2>4. ASSUME NEW t \in Int PROVE In(ToSet(table[1 .. k]), t) <=> \E i \in 1 .. k : Holds(seq[i], t)
    <3>1. In(ToSet(merged), t) <=> \E i \in 1 .. k - 1 : Holds(seq[i], t)
      BY <1>13 DEF merged
    <3>2. \A i : i \in 1 .. k <=> i \in 1 .. k - 1 \/ i = k
      BY <1>3
    <3> QED BY <2>1, <2>3, <3>1, <3>2 DEF r
  <2>5. k # 0
    OBVIOUS
  <2> QED BY <2>1, <2>3, <2>4, <2>5 DEF r
<1> HIDE DEF Good
<1>14. 0 \in good /\ \A k \in 1 .. n : k - 1 \in good => k \in good
  BY <1>3, <1>12, <1>13
<1> HIDE DEF good
<1>15. n \in good
  BY SMTT(60), <1>3, <1>14, ByNumber
<1>16. Good(n)
  BY <1>15 DEF good
<1>17. ASSUME NEW t \in Int PROVE In(S, t) <=> \E i \in 1 .. n : Holds(seq[i], t)
  BY <1>2, <1>3, InList DEF n
<1>18. MergeRanges(S) = table[1 .. n]
  BY <1>1, <1>3, <1>10
<1> QED BY <1>16, <1>17, <1>18 DEF Good

-----------------------------------------------------------------------------
(* Ranges with holes *)

Apart(S) == \A a, b \in S : a # b => a.to < b.from \/ b.to < a.from

\* What a hole leaves of a range: where what follows begins, and the pieces so far.
Opened(range, left, h) ==
  IF h.to <= left.at \/ h.from >= range.to THEN left
  ELSE [at |-> h.to, out |-> IF h.from > left.at THEN Append(left.out, Period(left.at, h.from)) ELSE left.out]

Lefts == [at : Int, out : Seq(Proper)]

\* The pieces of a range, and where what follows begins, when the first k holes are made.
CutSoFar(range, holes, k, left) ==
  /\ left.at >= range.from /\ (left.at = range.from \/ (k # 0 /\ left.at <= holes[k].to))
  /\ \A p \in ToSet(left.out) : range.from <= p.from /\ p.to <= range.to /\ p.to < left.at
  /\ Apart(ToSet(left.out))
  /\ \A t \in Int : Holds(range, t) =>
       /\ t < left.at => (In(ToSet(left.out), t) <=> ~ \E i \in 1 .. k : Holds(holes[i], t))
       /\ t >= left.at => ~ \E i \in 1 .. k : Holds(holes[i], t)

LEMMA OpenedTyped ==
  ASSUME NEW range \in Proper, NEW left \in Lefts, NEW h \in Proper
  PROVE  Opened(range, left, h) \in Lefts
<1>1. h.from \in Int /\ h.to \in Int /\ left.at \in Int /\ left.out \in Seq(Proper)
  BY DEF Proper, Spans, Lefts
<1>2. h.from > left.at => Period(left.at, h.from) \in Proper
  BY <1>1 DEF Period, Proper, Spans
<1>3. h.from > left.at => Append(left.out, Period(left.at, h.from)) \in Seq(Proper)
  BY <1>1, <1>2
<1> QED BY <1>1, <1>3 DEF Opened, Lefts

\* A list with one more has its members and that one.
LEMMA OneMore ==
  ASSUME NEW S, NEW seq \in Seq(S), NEW x
  PROVE  ToSet(Append(seq, x)) = ToSet(seq) \cup {x}
<1>1. /\ DOMAIN seq = 1 .. Len(seq) /\ Len(seq) \in Nat /\ DOMAIN Append(seq, x) = 1 .. Len(seq) + 1
      /\ \A i \in 1 .. Len(seq) : Append(seq, x)[i] = seq[i]
      /\ Append(seq, x)[Len(seq) + 1] = x
  OBVIOUS
<1> DEFINE n == Len(seq)
<1>2. n \in Nat /\ \A i : i \in 1 .. n + 1 <=> i \in 1 .. n \/ i = n + 1
  <2> HIDE DEF n
  <2>1. n \in Nat
    BY <1>1 DEF n
  <2> QED BY <2>1
<1> QED BY <1>1, <1>2 DEF ToSet

\* One hole more, which begins after the others.
LEMMA OpenedKeeps ==
  ASSUME NEW range \in Proper, NEW holes \in Seq(Proper), InOrder(holes), NEW k \in 1 .. Len(holes),
         NEW left \in Lefts, CutSoFar(range, holes, k - 1, left)
  PROVE  CutSoFar(range, holes, k, Opened(range, left, holes[k]))
<1> DEFINE h == holes[k]
           at == left.at
           out == left.out
<1>1. /\ range.from \in Int /\ range.to \in Int /\ range.from < range.to
      /\ h \in Proper /\ h.from \in Int /\ h.to \in Int /\ h.from < h.to
      /\ at \in Int /\ out \in Seq(Proper)
  BY DEF Proper, Spans, Lefts
<1>2. k \in Int /\ Len(holes) \in Nat /\ 1 <= k
  OBVIOUS
<1>3. at = range.from \/ at < h.from
  <2>1. CASE k - 1 # 0 /\ at <= holes[k - 1].to
    <3>1. k - 1 \in 1 .. Len(holes) /\ k - 1 < k /\ DOMAIN holes = 1 .. Len(holes)
      BY <2>1
    <3>2. holes[k - 1].to < h.from
      BY <3>1 DEF InOrder
    <3>3. holes[k - 1].to \in Int
      <4>1. holes[k - 1] \in Proper
        BY <3>1
      <4> QED BY <4>1 DEF Proper, Spans
    <3> QED BY <1>1, <2>1, <3>2, <3>3
  <2> QED BY <2>1 DEF CutSoFar
<1>4. /\ at >= range.from
      /\ \A p \in ToSet(out) : range.from <= p.from /\ p.to <= range.to /\ p.to < at
      /\ Apart(ToSet(out))
  BY DEF CutSoFar
<1>5. \A p \in ToSet(out) : p.from \in Int /\ p.to \in Int
  <2>1. \A p \in ToSet(out) : p \in Proper
    BY <1>1 DEF ToSet
  <2> QED BY <2>1 DEF Proper, Spans
<1> DEFINE Hit(t) == \E i \in 1 .. k - 1 : Holds(holes[i], t)
<1>6. \A t \in Int : Holds(range, t) =>
        /\ t < at => (In(ToSet(out), t) <=> ~Hit(t))
        /\ t >= at => ~Hit(t)
  BY DEF CutSoFar
<1>7. \A t : (\E i \in 1 .. k : Holds(holes[i], t)) <=> Hit(t) \/ Holds(h, t)
  <2>1. \A i : i \in 1 .. k <=> i \in 1 .. k - 1 \/ i = k
    BY <1>2
  <2> QED BY <2>1
<1>8. k # 0
  BY <1>2
<1> HIDE DEF h, at, out, Hit
<1> DEFINE new == Opened(range, left, h)
<1> SUFFICES
      /\ new.at >= range.from /\ (new.at = range.from \/ new.at <= h.to)
      /\ \A p \in ToSet(new.out) : range.from <= p.from /\ p.to <= range.to /\ p.to < new.at
      /\ Apart(ToSet(new.out))
      /\ \A t \in Int : Holds(range, t) =>
           /\ t < new.at => (In(ToSet(new.out), t) <=> ~(Hit(t) \/ Holds(h, t)))
           /\ t >= new.at => ~(Hit(t) \/ Holds(h, t))
  <2> HIDE DEF new
  <2> QED BY <1>7, <1>8 DEF CutSoFar, h, new
<1>9. CASE h.to <= at \/ h.from >= range.to
  <2>1. new = left
    BY <1>9 DEF Opened, at
  <2>2. new.at = at /\ new.out = out
    BY <2>1 DEF at, out
  <2>3. new.at = range.from \/ new.at <= h.to
    BY <1>1, <1>3, <2>2
  <2>4. ASSUME NEW t \in Int, Holds(range, t) PROVE ~Holds(h, t)
    BY <1>1, <1>3, <1>9, <2>4 DEF Holds
  <2> HIDE DEF new
  <2>5. ASSUME NEW t \in Int, Holds(range, t)
        PROVE  /\ t < new.at => (In(ToSet(new.out), t) <=> ~(Hit(t) \/ Holds(h, t)))
               /\ t >= new.at => ~(Hit(t) \/ Holds(h, t))
    <3>1. /\ t < at => (In(ToSet(out), t) <=> ~Hit(t))
          /\ t >= at => ~Hit(t)
      BY <1>6, <2>5
    <3> HIDE DEF Hit
    <3> QED BY <2>2, <2>4, <2>5, <3>1
  <2> QED BY <1>4, <2>2, <2>3, <2>5
<1>10. CASE ~(h.to <= at \/ h.from >= range.to)
  <2>1. new.at = h.to /\ h.to > at /\ h.from < range.to
    BY <1>1, <1>10 DEF Opened, at
  <2>2. CASE h.from > at
    <3> DEFINE q == Period(at, h.from)
    <3>1. new.out = Append(out, q)
      BY <1>10, <2>2 DEF Opened, at, out
    <3>2. ToSet(new.out) = ToSet(out) \cup {q}
      <4> HIDE DEF q, new
      <4> QED BY <1>1, <3>1, OneMore
    <3>3. q.from = at /\ q.to = h.from
      BY DEF Period
    <3> HIDE DEF q, new
    <3>4. new.at >= range.from /\ new.at <= h.to
      BY <1>1, <1>4, <2>1
    <3>5. \A p \in ToSet(new.out) : range.from <= p.from /\ p.to <= range.to /\ p.to < new.at
      BY <1>1, <1>4, <1>5, <2>1, <3>2, <3>3
    <3>6. Apart(ToSet(new.out))
      BY <1>1, <1>4, <1>5, <3>2, <3>3 DEF Apart
    <3>7. ASSUME NEW t \in Int, Holds(range, t)
          PROVE  /\ t < new.at => (In(ToSet(new.out), t) <=> ~(Hit(t) \/ Holds(h, t)))
                 /\ t >= new.at => ~(Hit(t) \/ Holds(h, t))
      <4>1. In(ToSet(new.out), t) <=> In(ToSet(out), t) \/ (at <= t /\ t < h.from)
        BY <3>2, <3>3 DEF In
      <4>2. t >= at => ~In(ToSet(out), t)
        BY <1>1, <1>4, <1>5 DEF In
      <4>3. Holds(h, t) <=> h.from <= t /\ t < h.to
        BY DEF Holds
      <4>4. /\ t < at => (In(ToSet(out), t) <=> ~Hit(t))
            /\ t >= at => ~Hit(t)
        BY <1>6, <3>7
      <4>5. t < at => ~Holds(h, t)
        BY <1>1, <2>2, <4>3
      <4>6. new.at = h.to
        BY <2>1
      <4> HIDE DEF Hit
      <4> QED BY <1>1, <2>1, <2>2, <4>1, <4>2, <4>3, <4>4, <4>5, <4>6
    <3> QED BY <3>4, <3>5, <3>6, <3>7
  <2>3. CASE ~(h.from > at)
    <3>1. new.out = out
      BY <1>10, <2>3 DEF Opened, at, out
    <3> HIDE DEF new
    <3>2. new.at >= range.from /\ new.at <= h.to
      BY <1>1, <1>4, <2>1
    <3>3. \A p \in ToSet(new.out) : range.from <= p.from /\ p.to <= range.to /\ p.to < new.at
      BY <1>1, <1>4, <1>5, <2>1, <3>1
    <3>4. ASSUME NEW t \in Int, Holds(range, t)
          PROVE  /\ t < new.at => (In(ToSet(new.out), t) <=> ~(Hit(t) \/ Holds(h, t)))
                 /\ t >= new.at => ~(Hit(t) \/ Holds(h, t))
      <4>1. t >= at => ~In(ToSet(out), t)
        BY <1>1, <1>4, <1>5 DEF In
      <4>2. Holds(h, t) <=> h.from <= t /\ t < h.to
        BY DEF Holds
      <4>3. Holds(range, t) <=> range.from <= t /\ t < range.to
        BY DEF Holds
      <4> QED BY <1>1, <1>3, <1>6, <2>1, <2>3, <3>1, <3>4, <4>1, <4>2, <4>3
    <3> QED BY <1>4, <3>1, <3>2, <3>3, <3>4
  <2> QED BY <2>2, <2>3
<1> QED BY <1>9, <1>10

\* A range less what is blocked or booked: proper pieces of it, apart, with the moments that
\* no hole takes.
LEMMA CutIs ==
  ASSUME NEW range \in Proper, NEW holes \in Seq(Proper), InOrder(holes)
  PROVE  /\ Cut(range, holes) \in Seq(Proper) /\ Apart(ToSet(Cut(range, holes)))
         /\ \A p \in ToSet(Cut(range, holes)) : range.from <= p.from /\ p.to <= range.to
         /\ \A t \in Int : In(ToSet(Cut(range, holes)), t) <=> Holds(range, t) /\ ~In(ToSet(holes), t)
<1> DEFINE n == Len(holes)
           start == [at |-> range.from, out |-> <<>>]
           IsRun(t) == t = [s \in SUBSET DOMAIN holes |->
                              IF s = {} THEN start ELSE Opened(range, t[s \ {Max(s)}], holes[Max(s)])]
           run == CHOOSE t : IsRun(t)
           end == run[DOMAIN holes]
<1>1. /\ end = run[DOMAIN holes]
      /\ Cut(range, holes) = IF end.at < range.to THEN Append(end.out, Period(end.at, range.to)) ELSE end.out
  BY DEF Cut, FoldLeft, MapThenFoldSet, Opened
<1>2. n \in Nat /\ DOMAIN holes = 1 .. n /\ \A i \in 1 .. n : holes[i] \in Proper
  OBVIOUS
<1>2a. n = Len(holes)
  OBVIOUS
<1> HIDE DEF n
<1>2b. range.from \in Int /\ range.to \in Int /\ range.from < range.to
  BY DEF Proper, Spans
<1> DEFINE V == Lefts
           step == [p \in V \X (1 .. n) |-> Opened(range, p[1], holes[p[2]])]
<1>3. start \in V /\ step \in [V \X (1 .. n) -> V]
  <2>1. start \in V
    BY <1>2b DEF Lefts
  <2>2. ASSUME NEW p \in V \X (1 .. n) PROVE Opened(range, p[1], holes[p[2]]) \in V
    <3>1. p[1] \in Lefts /\ holes[p[2]] \in Proper
      BY <1>2
    <3> QED BY <3>1, OpenedTyped
  <2> HIDE DEF V, start
  <2> QED BY <2>1, <2>2
<1>4. PICK table \in [SUBSET (1 .. n) -> V] : Runs(table, n, start, step)
  <2>1. start \in V /\ step \in [V \X (1 .. n) -> V]
    BY <1>3
  <2> HIDE DEF start, V, step
  <2> QED BY <1>2, <2>1, RunExists
<1>5. \A s \in SUBSET (1 .. n) :
        table[s] = IF s = {} THEN start ELSE Opened(range, table[s \ {Max(s)}], holes[Max(s)])
  <2> SUFFICES ASSUME NEW s \in SUBSET (1 .. n)
               PROVE  table[s] = IF s = {} THEN start ELSE Opened(range, table[s \ {Max(s)}], holes[Max(s)])
    OBVIOUS
  <2>1. table[s] = IF s = {} THEN start ELSE step[<<table[s \ {Max(s)}], Max(s)>>]
    BY <1>4 DEF Runs
  <2>2. s # {} => <<table[s \ {Max(s)}], Max(s)>> \in V \X (1 .. n)
    <3>1. s # {} => Max(s) \in s
      BY <1>4 DEF Runs
    <3> HIDE DEF V
    <3> QED BY <3>1
  <2> HIDE DEF start
  <2> QED BY <2>1, <2>2
<1>6. IsRun(table)
  <2>1. table = [s \in SUBSET (1 .. n) |-> table[s]]
    OBVIOUS
  <2> QED BY <1>2, <1>5, <2>1
<1>7. IsRun(run)
  <2> HIDE DEF IsRun
  <2> QED BY <1>6
<1>8. run[1 .. n] = table[1 .. n]
  <2> HIDE DEF run
  <2>1. run[{}] = table[{}]
    BY <1>6, <1>7
  <2>2. ASSUME NEW s \in SUBSET (1 .. n), s # {}, run[s \ {Max(s)}] = table[s \ {Max(s)}] PROVE run[s] = table[s]
    BY <1>2, <1>6, <1>7, <2>2
  <2> QED BY <1>2, <2>1, <2>2, SameRuns
<1> HIDE DEF run, IsRun
<1>9. table[1 .. 0] = start
  BY <1>4 DEF Runs
<1>10. \A k \in 1 .. n : table[1 .. k] = Opened(range, table[1 .. k - 1], holes[k])
  <2> SUFFICES ASSUME NEW k \in 1 .. n PROVE table[1 .. k] = Opened(range, table[1 .. k - 1], holes[k])
    OBVIOUS
  <2>1. 1 .. k - 1 \in SUBSET (1 .. n)
    BY <1>2
  <2>2. <<table[1 .. k - 1], k>> \in V \X (1 .. n)
    <3> HIDE DEF V
    <3> QED BY <2>1
  <2> QED BY <1>4, <2>2 DEF Runs
<1>11. end = table[1 .. n]
  BY <1>1, <1>2, <1>8
<1> HIDE DEF end, start
<1> DEFINE good == {k \in 0 .. n : CutSoFar(range, holes, k, table[1 .. k])}
<1>12. CutSoFar(range, holes, 0, table[1 .. 0])
  <2>1. table[1 .. 0].at = range.from /\ table[1 .. 0].out = <<>>
    BY <1>9 DEF start
  <2>2. ToSet(table[1 .. 0].out) = {}
    BY <2>1 DEF ToSet
  <2>3. \A t \in Int : Holds(range, t) => range.from <= t
    BY DEF Holds
  <2> QED BY <1>2b, <2>1, <2>2, <2>3 DEF CutSoFar, Apart, In
<1>13. ASSUME NEW k \in 1 .. n, CutSoFar(range, holes, k - 1, table[1 .. k - 1])
       PROVE  CutSoFar(range, holes, k, table[1 .. k])
  <2>1. table[1 .. k - 1] \in Lefts /\ k \in 1 .. Len(holes)
    <3>1. 1 .. k - 1 \in SUBSET (1 .. n)
      BY <1>2
    <3> QED BY <1>2a, <3>1
  <2>2. CutSoFar(range, holes, k, Opened(range, table[1 .. k - 1], holes[k]))
    BY <1>13, <2>1, OpenedKeeps
  <2> QED BY <1>10, <2>2
<1>14. 0 \in good /\ \A k \in 1 .. n : k - 1 \in good => k \in good
  BY <1>2, <1>12, <1>13
<1> HIDE DEF good
<1>15. n \in good
  BY <1>2, <1>14, ByNumber
<1>16. CutSoFar(range, holes, n, end)
  BY <1>11, <1>15 DEF good
<1>17. end \in Lefts
  <2>1. 1 .. n \in SUBSET (1 .. n)
    OBVIOUS
  <2> QED BY <1>11, <2>1
<1> DEFINE at == end.at
           out == end.out
           pieces == Cut(range, holes)
<1>18. at \in Int /\ out \in Seq(Proper)
  BY <1>17 DEF Lefts
<1>19. /\ at >= range.from
       /\ \A p \in ToSet(out) : range.from <= p.from /\ p.to <= range.to /\ p.to < at
       /\ Apart(ToSet(out))
  BY <1>16 DEF CutSoFar
<1>20. \A p \in ToSet(out) : p.from \in Int /\ p.to \in Int
  <2>1. \A p \in ToSet(out) : p \in Proper
    BY <1>18 DEF ToSet
  <2> QED BY <2>1 DEF Proper, Spans
<1>21. ASSUME NEW t \in Int
       PROVE  /\ Holds(range, t) /\ t < at => (In(ToSet(out), t) <=> ~In(ToSet(holes), t))
              /\ Holds(range, t) /\ t >= at => ~In(ToSet(holes), t)
  <2>1. In(ToSet(holes), t) <=> \E i \in 1 .. n : Holds(holes[i], t)
    BY <1>2a, InList
  <2> QED BY <1>16, <2>1 DEF CutSoFar
<1>22. ASSUME NEW t \in Int
       PROVE  /\ In(ToSet(out), t) => Holds(range, t)
              /\ t >= at => ~In(ToSet(out), t)
  BY <1>2b, <1>18, <1>19, <1>20 DEF In, Holds
<1>23. CASE at < range.to
  <2> DEFINE q == Period(at, range.to)
  <2>1. pieces = Append(out, q)
    BY <1>1, <1>23
  <2>2. q \in Proper /\ q.from = at /\ q.to = range.to
    BY <1>2b, <1>18, <1>23 DEF Period, Proper, Spans
  <2> HIDE DEF q, at, out, pieces
  <2>3. pieces \in Seq(Proper)
    BY <1>18, <2>1, <2>2
  <2>4. ToSet(pieces) = ToSet(out) \cup {q}
    BY <1>18, <2>1, OneMore
  <2>5. \A p \in ToSet(pieces) : range.from <= p.from /\ p.to <= range.to
    BY <1>2b, <1>18, <1>19, <2>2, <2>4
  <2>6. Apart(ToSet(pieces))
    BY <1>2b, <1>18, <1>19, <1>20, <2>2, <2>4 DEF Apart
  <2>7. ASSUME NEW t \in Int PROVE In(ToSet(pieces), t) <=> Holds(range, t) /\ ~In(ToSet(holes), t)
    <3>1. In(ToSet(pieces), t) <=> In(ToSet(out), t) \/ (at <= t /\ t < range.to)
      BY <2>2, <2>4 DEF In
    <3>2. Holds(range, t) <=> range.from <= t /\ t < range.to
      BY DEF Holds
    <3> QED BY <1>2b, <1>18, <1>19, <1>21, <1>22, <3>1, <3>2
  <2> QED BY <2>3, <2>5, <2>6, <2>7 DEF pieces
<1>24. CASE ~(at < range.to)
  <2>1. pieces = out
    BY <1>1, <1>24
  <2> HIDE DEF at, out, pieces
  <2>2. ASSUME NEW t \in Int PROVE In(ToSet(pieces), t) <=> Holds(range, t) /\ ~In(ToSet(holes), t)
    <3>1. Holds(range, t) <=> range.from <= t /\ t < range.to
      BY DEF Holds
    <3> QED BY <1>2b, <1>18, <1>21, <1>22, <1>24, <2>1, <3>1
  <2> QED BY <1>18, <1>19, <2>1, <2>2 DEF pieces
<1> QED BY <1>23, <1>24

\* Two lists together have the members of both.
LEMMA BothLists ==
  ASSUME NEW S, NEW a \in Seq(S), NEW b \in Seq(S)
  PROVE  a \o b \in Seq(S) /\ ToSet(a \o b) = ToSet(a) \cup ToSet(b)
<1>0. Len(a) \in Nat /\ Len(b) \in Nat
  OBVIOUS
<1>1. PICK m \in Nat, n \in Nat : m = Len(a) /\ n = Len(b)
  BY <1>0, Zenon
<1>2. /\ DOMAIN a = 1 .. m /\ DOMAIN b = 1 .. n /\ DOMAIN (a \o b) = 1 .. m + n /\ a \o b \in Seq(S)
      /\ \A i \in 1 .. m + n : (a \o b)[i] = IF i <= m THEN a[i] ELSE b[i - m]
  BY <1>1
<1> DEFINE c == a \o b
<1> HIDE DEF c
<1>3. ASSUME NEW x \in ToSet(c) PROVE x \in ToSet(a) \cup ToSet(b)
  <2>1. PICK i \in 1 .. m + n : x = IF i <= m THEN a[i] ELSE b[i - m]
    BY <1>2 DEF ToSet, c
  <2>2. i <= m => i \in 1 .. m
    BY <1>1
  <2>3. ~(i <= m) => i - m \in 1 .. n
    BY <1>1
  <2> QED BY <1>2, <2>1, <2>2, <2>3 DEF ToSet
<1>4. ASSUME NEW x \in ToSet(a) PROVE x \in ToSet(c)
  <2>1. PICK i \in 1 .. m : x = a[i]
    BY <1>2 DEF ToSet
  <2>2. i \in 1 .. m + n /\ i <= m
    BY <1>1
  <2> QED BY <1>2, <2>1, <2>2 DEF ToSet, c
<1>5. ASSUME NEW x \in ToSet(b) PROVE x \in ToSet(c)
  <2>1. PICK i \in 1 .. n : x = b[i]
    BY <1>2 DEF ToSet
  <2>2. i + m \in 1 .. m + n /\ ~(i + m <= m) /\ (i + m) - m = i
    BY <1>1
  <2>3. c[i + m] = b[i]
    BY <1>2, <2>2 DEF c
  <2> QED BY <1>2, <2>1, <2>2, <2>3 DEF ToSet, c
<1> QED BY <1>2, <1>3, <1>4, <1>5 DEF c

\* What is left of several ranges is what is left of each.
LEMMA LeftOfEach ==
  ASSUME NEW base \in Seq(Proper), NEW holes, IsFiniteSet(holes), holes \subseteq Proper
  PROVE  /\ SubtractRanges(base, holes) \in Seq(Proper)
         /\ ToSet(SubtractRanges(base, holes)) = UNION {ToSet(Cut(r, MergeRanges(holes))) : r \in ToSet(base)}
<1> DEFINE merged == MergeRanges(holes)
           n == Len(base)
           start == <<>>
           IsRun(t) == t = [s \in SUBSET DOMAIN base |->
                              IF s = {} THEN start ELSE t[s \ {Max(s)}] \o Cut(base[Max(s)], merged)]
           run == CHOOSE t : IsRun(t)
           whole == SubtractRanges(base, holes)
<1>1. whole = run[DOMAIN base]
  BY DEF SubtractRanges, FoldLeft, MapThenFoldSet
<1> HIDE DEF whole
<1>2. n \in Nat /\ DOMAIN base = 1 .. n /\ \A i \in 1 .. n : base[i] \in Proper
  OBVIOUS
<1> HIDE DEF n
<1>2a. merged \in Seq(Proper) /\ InOrder(merged)
  BY MergedIs
<1> HIDE DEF merged
<1> DEFINE V == Seq(Proper)
           step == [p \in V \X (1 .. n) |-> p[1] \o Cut(base[p[2]], merged)]
<1>2b. \A i \in 1 .. n : Cut(base[i], merged) \in Seq(Proper)
  BY <1>2, <1>2a, CutIs
<1>3. start \in V /\ step \in [V \X (1 .. n) -> V]
  <2>1. start \in V
    OBVIOUS
  <2>2. ASSUME NEW p \in V \X (1 .. n) PROVE p[1] \o Cut(base[p[2]], merged) \in V
    <3>1. p[1] \in Seq(Proper) /\ Cut(base[p[2]], merged) \in Seq(Proper)
      BY <1>2b
    <3> QED BY <3>1
  <2> HIDE DEF V, start
  <2> QED BY <2>1, <2>2
<1>4. PICK table \in [SUBSET (1 .. n) -> V] : Runs(table, n, start, step)
  <2>1. start \in V /\ step \in [V \X (1 .. n) -> V]
    BY <1>3
  <2> HIDE DEF start, V, step
  <2> QED BY <1>2, <2>1, RunExists
<1>5. \A s \in SUBSET (1 .. n) :
        table[s] = IF s = {} THEN start ELSE table[s \ {Max(s)}] \o Cut(base[Max(s)], merged)
  <2> SUFFICES ASSUME NEW s \in SUBSET (1 .. n)
               PROVE  table[s] = IF s = {} THEN start ELSE table[s \ {Max(s)}] \o Cut(base[Max(s)], merged)
    OBVIOUS
  <2>1. table[s] = IF s = {} THEN start ELSE step[<<table[s \ {Max(s)}], Max(s)>>]
    BY <1>4 DEF Runs
  <2>2. s # {} => <<table[s \ {Max(s)}], Max(s)>> \in V \X (1 .. n)
    <3>1. s # {} => Max(s) \in s
      BY <1>4 DEF Runs
    <3> HIDE DEF V
    <3> QED BY <3>1
  <2> HIDE DEF start
  <2> QED BY <2>1, <2>2
<1>6. IsRun(table)
  <2>1. table = [s \in SUBSET (1 .. n) |-> table[s]]
    OBVIOUS
  <2> QED BY <1>2, <1>5, <2>1
<1>7. IsRun(run)
  <2> HIDE DEF IsRun
  <2> QED BY <1>6
<1>8. run[1 .. n] = table[1 .. n]
  <2> HIDE DEF run
  <2>1. run[{}] = table[{}]
    BY <1>6, <1>7
  <2>2. ASSUME NEW s \in SUBSET (1 .. n), s # {}, run[s \ {Max(s)}] = table[s \ {Max(s)}] PROVE run[s] = table[s]
    BY <1>2, <1>6, <1>7, <2>2
  <2> QED BY <1>2, <2>1, <2>2, SameRuns
<1> HIDE DEF run, IsRun
<1>9. table[1 .. 0] = start
  BY <1>4 DEF Runs
<1>10. \A k \in 1 .. n : table[1 .. k] = table[1 .. k - 1] \o Cut(base[k], merged)
  <2> SUFFICES ASSUME NEW k \in 1 .. n PROVE table[1 .. k] = table[1 .. k - 1] \o Cut(base[k], merged)
    OBVIOUS
  <2>1. 1 .. k - 1 \in SUBSET (1 .. n)
    BY <1>2
  <2>2. <<table[1 .. k - 1], k>> \in V \X (1 .. n)
    <3> HIDE DEF V
    <3> QED BY <2>1
  <2> QED BY <1>4, <2>2 DEF Runs
<1>11. whole = table[1 .. n]
  BY <1>1, <1>2, <1>8
<1> DEFINE Pieces(k) == UNION {ToSet(Cut(base[i], merged)) : i \in 1 .. k}
           good == {k \in 0 .. n : ToSet(table[1 .. k]) = Pieces(k)}
<1>12. 0 \in good
  <2>1. ToSet(table[1 .. 0]) = {}
    BY <1>9 DEF ToSet
  <2>2. Pieces(0) = {}
    OBVIOUS
  <2>3. 0 \in 0 .. n
    BY <1>2
  <2> QED BY <2>1, <2>2, <2>3
<1>13. ASSUME NEW k \in 1 .. n, k - 1 \in good PROVE k \in good
  <2>1. table[1 .. k - 1] \in Seq(Proper)
    <3>1. 1 .. k - 1 \in SUBSET (1 .. n)
      BY <1>2
    <3> QED BY <3>1
  <2>2. ToSet(table[1 .. k]) = ToSet(table[1 .. k - 1]) \cup ToSet(Cut(base[k], merged))
    <3> DEFINE a == table[1 .. k - 1]
               b == Cut(base[k], merged)
    <3>1. a \in Seq(Proper) /\ b \in Seq(Proper) /\ table[1 .. k] = a \o b
      BY <1>2b, <1>10, <2>1
    <3> HIDE DEF a, b
    <3>2. ToSet(a \o b) = ToSet(a) \cup ToSet(b)
      BY <3>1, BothLists
    <3> QED BY <3>1, <3>2 DEF a, b
  <2>3. \A i : i \in 1 .. k <=> i \in 1 .. k - 1 \/ i = k
    BY <1>2
  <2>4. Pieces(k) = Pieces(k - 1) \cup ToSet(Cut(base[k], merged))
    BY <2>3
  <2>5. k \in 0 .. n
    BY <1>2
  <2> HIDE DEF Pieces
  <2> QED BY <1>13, <2>2, <2>4, <2>5
<1> HIDE DEF good
<1>14. n \in good
  <2>1. \A k \in 1 .. n : k - 1 \in good => k \in good
    BY <1>13
  <2>2. n \in Nat /\ n \in 0 .. n
    BY <1>2
  <2> HIDE DEF V, start, step, Pieces
  <2>3. \A k \in 0 .. n : k \in good
    BY <1>12, <2>1, <2>2, ByNumber
  <2> QED BY <2>2, <2>3
<1>15. ToSet(whole) = Pieces(n)
  BY <1>11, <1>14 DEF good
<1>16. Pieces(n) = UNION {ToSet(Cut(r, merged)) : r \in ToSet(base)}
  <2> DEFINE F(r) == ToSet(Cut(r, merged))
  <2>1. ToSet(base) = {base[i] : i \in 1 .. n}
    BY <1>2 DEF ToSet
  <2> HIDE DEF F
  <2>2. UNION {F(base[i]) : i \in 1 .. n} = UNION {F(r) : r \in ToSet(base)}
    BY <2>1
  <2> QED BY <2>2 DEF F
<1>17. whole \in Seq(Proper)
  <2>1. 1 .. n \in SUBSET (1 .. n)
    OBVIOUS
  <2> QED BY <1>11, <2>1
<1> HIDE DEF Pieces
<1> QED BY <1>15, <1>16, <1>17 DEF whole, merged

\* What is left of ranges that are apart is apart, and has the moments that no hole takes.
LEMMA SubtractIs ==
  ASSUME NEW base \in Seq(Proper), Apart(ToSet(base)), NEW holes, IsFiniteSet(holes), holes \subseteq Proper
  PROVE  /\ SubtractRanges(base, holes) \in Seq(Proper) /\ Apart(ToSet(SubtractRanges(base, holes)))
         /\ \A t \in Int : In(ToSet(SubtractRanges(base, holes)), t) <=> In(ToSet(base), t) /\ ~In(holes, t)
<1> DEFINE merged == MergeRanges(holes)
           left == ToSet(SubtractRanges(base, holes))
<1>1. merged \in Seq(Proper) /\ InOrder(merged) /\ \A t \in Int : In(ToSet(merged), t) <=> In(holes, t)
  BY MergedIs
<1> HIDE DEF merged
<1>2. \A r \in ToSet(base) : r \in Proper
  BY DEF ToSet
<1>3. ASSUME NEW r \in Proper
      PROVE  /\ Cut(r, merged) \in Seq(Proper) /\ Apart(ToSet(Cut(r, merged)))
             /\ \A p \in ToSet(Cut(r, merged)) : r.from <= p.from /\ p.to <= r.to
             /\ \A t \in Int : In(ToSet(Cut(r, merged)), t) <=> Holds(r, t) /\ ~In(ToSet(merged), t)
  BY <1>1, CutIs
<1>4. SubtractRanges(base, holes) \in Seq(Proper) /\ left = UNION {ToSet(Cut(r, merged)) : r \in ToSet(base)}
  BY LeftOfEach DEF merged
<1> HIDE DEF left
<1>5. \A p \in left : p.from \in Int /\ p.to \in Int /\ p \in Proper
  <2>1. \A p \in left : p \in Proper
    BY <1>4 DEF ToSet, left
  <2> QED BY <2>1 DEF Proper, Spans
<1>6. Apart(left)
  <2> SUFFICES ASSUME NEW a \in left, NEW b \in left, a # b PROVE a.to < b.from \/ b.to < a.from
    BY DEF Apart
  <2>1. PICK r \in ToSet(base) : a \in ToSet(Cut(r, merged))
    BY <1>4
  <2>2. PICK o \in ToSet(base) : b \in ToSet(Cut(o, merged))
    BY <1>4
  <2>3. r.from <= a.from /\ a.to <= r.to /\ o.from <= b.from /\ b.to <= o.to
    BY <1>2, <1>3, <2>1, <2>2
  <2>4. CASE r = o
    BY <1>2, <1>3, <2>1, <2>2, <2>4 DEF Apart
  <2>5. CASE r # o
    <3>1. r.to < o.from \/ o.to < r.from
      BY <2>5 DEF Apart
    <3>2. r.from \in Int /\ r.to \in Int /\ o.from \in Int /\ o.to \in Int
      BY <1>2 DEF Proper, Spans
    <3>3. a.from \in Int /\ a.to \in Int /\ b.from \in Int /\ b.to \in Int
      BY <1>5
    <3> QED BY <2>3, <3>1, <3>2, <3>3
  <2> QED BY <2>4, <2>5
<1>7. ASSUME NEW t \in Int PROVE In(left, t) <=> In(ToSet(base), t) /\ ~In(holes, t)
  <2>1. In(left, t) <=> \E r \in ToSet(base) : In(ToSet(Cut(r, merged)), t)
    BY <1>4 DEF In
  <2>2. \A r \in ToSet(base) : In(ToSet(Cut(r, merged)), t) <=> Holds(r, t) /\ ~In(holes, t)
    BY <1>1, <1>2, <1>3
  <2>3. In(ToSet(base), t) <=> \E r \in ToSet(base) : Holds(r, t)
    BY DEF In, Holds
  <2> QED BY <2>1, <2>2, <2>3
<1> QED BY <1>4, <1>6, <1>7 DEF left

-----------------------------------------------------------------------------
(* The minutes of a professional *)

\* Ranges in order are apart.
LEMMA OrderedApart ==
  ASSUME NEW seq \in Seq(Proper), InOrder(seq)
  PROVE  Apart(ToSet(seq))
<1> SUFFICES ASSUME NEW i \in DOMAIN seq, NEW j \in DOMAIN seq, seq[i] # seq[j]
             PROVE  seq[i].to < seq[j].from \/ seq[j].to < seq[i].from
  BY DEF Apart, ToSet
<1>1. i \in Int /\ j \in Int /\ i # j
  OBVIOUS
<1>2. i < j \/ j < i
  BY <1>1
<1> QED BY <1>2 DEF InOrder

\* The hours of a day: the rows that are not broken, merged.
LEMMA OfDayIs ==
  ASSUME NEW rows, IsFiniteSet(rows), rows \subseteq Spans
  PROVE  /\ OfDay(rows) \in Seq(Proper) /\ InOrder(OfDay(rows))
         /\ \A t \in Int : In(ToSet(OfDay(rows)), t) <=> In(rows, t)
<1> DEFINE whole == {r \in rows : r.to > r.from}
<1>1. whole \subseteq Proper /\ IsFiniteSet(whole)
  <2>1. IsFiniteSet(whole)
    BY FS_Subset
  <2> QED BY <2>1 DEF Proper, Spans
<1>2. \A t \in Int : In(whole, t) <=> In(rows, t)
  BY DEF In, Spans
<1>3. OfDay(rows) = MergeRanges(whole)
  BY DEF OfDay
<1> HIDE DEF whole
<1> QED BY <1>1, <1>2, <1>3, MergedIs

\* What two lists of ranges have in common: proper ranges, apart, with the moments of both.
LEMMA IntersectIs ==
  ASSUME NEW a \in Seq(Proper), NEW b \in Seq(Proper), InOrder(a), InOrder(b)
  PROVE  /\ IntersectRanges(a, b) \in Seq(Proper) /\ Apart(ToSet(IntersectRanges(a, b)))
         /\ \A t \in Int : In(ToSet(IntersectRanges(a, b)), t) <=> In(ToSet(a), t) /\ In(ToSet(b), t)
<1> DEFINE Both(i, j) == Period(Max({a[i].from, b[j].from}), Min({a[i].to, b[j].to}))
           all == {Both(i, j) : i \in DOMAIN a, j \in DOMAIN b}
           common == {r \in all : r.to > r.from}
<1>1. IntersectRanges(a, b) = Sorted(common)
  BY DEF IntersectRanges
<1>2. /\ \A i \in DOMAIN a : a[i].from \in Int /\ a[i].to \in Int /\ a[i].from < a[i].to
      /\ \A j \in DOMAIN b : b[j].from \in Int /\ b[j].to \in Int /\ b[j].from < b[j].to
  <2>1. (\A i \in DOMAIN a : a[i] \in Proper) /\ (\A j \in DOMAIN b : b[j] \in Proper)
    OBVIOUS
  <2> QED BY <2>1 DEF Proper, Spans
<1>3. ASSUME NEW i \in DOMAIN a, NEW j \in DOMAIN b
      PROVE  /\ Both(i, j) \in Spans
             /\ Both(i, j).from = IF a[i].from >= b[j].from THEN a[i].from ELSE b[j].from
             /\ Both(i, j).to = IF a[i].to <= b[j].to THEN a[i].to ELSE b[j].to
  <2>1. Max({a[i].from, b[j].from}) = IF a[i].from >= b[j].from THEN a[i].from ELSE b[j].from
    BY <1>2, MaxOfTwo
  <2>2. Min({a[i].to, b[j].to}) = IF a[i].to <= b[j].to THEN a[i].to ELSE b[j].to
    BY <1>2, MinOfTwo
  <2> QED BY <1>2, <2>1, <2>2 DEF Period, Spans
<1> HIDE DEF Both
<1>4. IsFiniteSet(all)
  <2> DEFINE pairs == (DOMAIN a) \X (DOMAIN b)
             f == [p \in pairs |-> Both(p[1], p[2])]
  <2>1. IsFiniteSet(DOMAIN a) /\ IsFiniteSet(DOMAIN b)
    <3>1. DOMAIN a = 1 .. Len(a) /\ DOMAIN b = 1 .. Len(b) /\ Len(a) \in Int /\ Len(b) \in Int /\ 1 \in Int
      OBVIOUS
    <3> QED BY <3>1, FS_Interval
  <2>2. IsFiniteSet(pairs)
    BY <2>1, FS_Product
  <2>3. f \in Surjection(pairs, all)
    <3>1. \A p \in pairs : f[p] \in all
      OBVIOUS
    <3>2. \A r \in all : \E p \in pairs : f[p] = r
      <4> SUFFICES ASSUME NEW i \in DOMAIN a, NEW j \in DOMAIN b PROVE \E p \in pairs : f[p] = Both(i, j)
        OBVIOUS
      <4>1. <<i, j>> \in pairs /\ f[<<i, j>>] = Both(i, j)
        OBVIOUS
      <4> QED BY <4>1
    <3> HIDE DEF pairs, all
    <3>3. DOMAIN f = pairs
      OBVIOUS
    <3>4. f = [p \in pairs |-> f[p]]
      OBVIOUS
    <3> HIDE DEF f
    <3> QED BY <3>1, <3>2, <3>3, <3>4 DEF Surjection
  <2> HIDE DEF pairs, f, all
  <2> QED BY <2>2, <2>3, FS_Surjection
<1>5. IsFiniteSet(common) /\ common \subseteq Proper
  <2>1. IsFiniteSet(common)
    BY <1>4, FS_Subset
  <2> QED BY <1>3, <2>1 DEF Proper
<1>6. ASSUME NEW p \in common
      PROVE  \E i \in DOMAIN a, j \in DOMAIN b : p = Both(i, j) /\ p.to > p.from
  OBVIOUS
<1>7. ASSUME NEW i \in DOMAIN a, NEW j \in DOMAIN b, Both(i, j).to > Both(i, j).from
      PROVE  Both(i, j) \in common
  BY <1>7
<1> HIDE DEF all, common
<1>8. common \subseteq Spans
  BY <1>5 DEF Proper
<1>9. Sorted(common) \in Seq(common) /\ ToSet(Sorted(common)) = common
  BY <1>5, <1>8, SortedIs
<1>10. Sorted(common) \in Seq(Proper)
  BY <1>5, <1>9
<1>11. Apart(common)
  <2> SUFFICES ASSUME NEW p \in common, NEW q \in common, p # q PROVE p.to < q.from \/ q.to < p.from
    BY DEF Apart
  <2>1. PICK i \in DOMAIN a, j \in DOMAIN b : p = Both(i, j)
    BY <1>6
  <2>2. PICK k \in DOMAIN a, l \in DOMAIN b : q = Both(k, l)
    BY <1>6
  <2>3. p.from >= a[i].from /\ p.from >= b[j].from /\ p.to <= a[i].to /\ p.to <= b[j].to /\ p.from \in Int /\ p.to \in Int
    BY <1>2, <1>3, <2>1
  <2>4. q.from >= a[k].from /\ q.from >= b[l].from /\ q.to <= a[k].to /\ q.to <= b[l].to /\ q.from \in Int /\ q.to \in Int
    BY <1>2, <1>3, <2>2
  <2>5. i \in Int /\ j \in Int /\ k \in Int /\ l \in Int /\ (i # k \/ j # l)
    BY <2>1, <2>2
  <2>6. CASE i # k
    <3>1. a[i].to < a[k].from \/ a[k].to < a[i].from
      BY <2>5, <2>6 DEF InOrder
    <3> QED BY SMTT(60), <1>2, <2>3, <2>4, <3>1
  <2>7. CASE j # l
    <3>1. b[j].to < b[l].from \/ b[l].to < b[j].from
      BY <2>5, <2>7 DEF InOrder
    <3> QED BY SMTT(60), <1>2, <2>3, <2>4, <3>1
  <2> QED BY <2>5, <2>6, <2>7
<1>12. ASSUME NEW t \in Int PROVE In(common, t) <=> In(ToSet(a), t) /\ In(ToSet(b), t)
  <2>1. ASSUME NEW i \in DOMAIN a, NEW j \in DOMAIN b
        PROVE  Holds(Both(i, j), t) <=> Holds(a[i], t) /\ Holds(b[j], t)
    BY <1>2, <1>3 DEF Holds
  <2>2. ASSUME NEW i \in DOMAIN a, NEW j \in DOMAIN b, Holds(Both(i, j), t) PROVE Both(i, j) \in common
    <3>1. Both(i, j).from \in Int /\ Both(i, j).to \in Int
      BY <1>3 DEF Spans
    <3>2. Both(i, j).to > Both(i, j).from
      BY <2>2, <3>1 DEF Holds
    <3> QED BY <1>7, <3>2
  <2>3. In(common, t) <=> \E p \in common : Holds(p, t)
    BY DEF In, Holds
  <2>4. In(ToSet(a), t) <=> \E i \in DOMAIN a : Holds(a[i], t)
    BY DEF In, ToSet, Holds
  <2>5. In(ToSet(b), t) <=> \E j \in DOMAIN b : Holds(b[j], t)
    BY DEF In, ToSet, Holds
  <2> QED BY <1>6, <2>1, <2>2, <2>3, <2>4, <2>5
<1> QED BY <1>1, <1>9, <1>10, <1>11, <1>12

\* The calendar of the day as any change of it leaves it.
Calendar == hours \in Hours /\ shift \in [Staff -> Shifts] /\ blocks \subseteq BlockRows

\* The ranges of a professional less some holes: apart, and exactly the moments when the
\* business opens, the professional is on and no hole takes.
LEMMA RangesLessIs ==
  ASSUME TimesAssumption, Calendar, NEW s \in Staff, NEW holes, IsFiniteSet(holes), holes \subseteq Proper
  PROVE  /\ RangesLess(s, holes) \in Seq(Proper) /\ Apart(ToSet(RangesLess(s, holes)))
         /\ \A t \in Int : In(ToSet(RangesLess(s, holes)), t)
                <=> In(hours, t) /\ (shift[s].custom => In(shift[s].rows, t)) /\ ~In(holes, t)
<1> DEFINE business == OfDay(hours)
           own == OfDay(shift[s].rows)
           base == IF shift[s].custom THEN IntersectRanges(business, own) ELSE business
<1>1. /\ IsFiniteSet(hours) /\ hours \subseteq Spans
      /\ IsFiniteSet(shift[s].rows) /\ shift[s].rows \subseteq Spans
  <2>1. hours \in Hours \cup {w.rows : w \in Shifts} /\ shift[s].rows \in Hours \cup {w.rows : w \in Shifts}
    BY DEF Calendar
  <2> QED BY <2>1 DEF TimesAssumption, Spans
<1>2. business \in Seq(Proper) /\ InOrder(business) /\ \A t \in Int : In(ToSet(business), t) <=> In(hours, t)
  BY <1>1, OfDayIs
<1>3. own \in Seq(Proper) /\ InOrder(own) /\ \A t \in Int : In(ToSet(own), t) <=> In(shift[s].rows, t)
  BY <1>1, OfDayIs
<1>4. RangesLess(s, holes) = SubtractRanges(base, holes)
  BY DEF RangesLess
<1> HIDE DEF business, own
<1>5. /\ IntersectRanges(business, own) \in Seq(Proper) /\ Apart(ToSet(IntersectRanges(business, own)))
      /\ \A t \in Int : In(ToSet(IntersectRanges(business, own)), t) <=> In(ToSet(business), t) /\ In(ToSet(own), t)
  BY <1>2, <1>3, IntersectIs
<1>6. Apart(ToSet(business))
  BY <1>2, OrderedApart
<1>7. /\ base \in Seq(Proper) /\ Apart(ToSet(base))
      /\ \A t \in Int : In(ToSet(base), t) <=> In(hours, t) /\ (shift[s].custom => In(shift[s].rows, t))
  BY <1>2, <1>3, <1>5, <1>6
<1> HIDE DEF base
<1> QED BY <1>4, <1>7, SubtractIs

\* A period is in ranges that are apart when all its moments are: no two of them meet.
LEMMA WithinIs ==
  ASSUME NEW seq \in Seq(Proper), Apart(ToSet(seq)), NEW w, w.from \in Int, w.to \in Int, w.from < w.to
  PROVE  Within(seq, w) <=> \A t \in Minutes(w) : In(ToSet(seq), t)
<1> DEFINE S == ToSet(seq)
<1>1. \A r \in S : r.from \in Int /\ r.to \in Int
  <2>1. \A r \in S : r \in Proper
    BY DEF ToSet
  <2> QED BY <2>1 DEF Proper, Spans
<1>2. Within(seq, w) <=> \E r \in S : w.from >= r.from /\ w.to <= r.to
  BY DEF Within, ToSet
<1> HIDE DEF S
<1>3. ASSUME NEW r \in S, w.from >= r.from, w.to <= r.to PROVE \A t \in Minutes(w) : In(S, t)
  BY <1>1, <1>3 DEF In, Minutes
<1>4. ASSUME \A t \in Minutes(w) : In(S, t) PROVE \E r \in S : w.from >= r.from /\ w.to <= r.to
  <2>1. w.from \in Minutes(w)
    BY DEF Minutes
  <2>2. PICK r \in S : Holds(r, w.from)
    BY <1>4, <2>1 DEF In, Holds
  <2> DEFINE last == w.to - 1 - w.from
             good == {k \in 0 .. last : Holds(r, w.from + k)}
  <2>3. last \in Nat
    OBVIOUS
  <2>4. 0 \in good
    BY <2>2, <2>3
  <2>5. ASSUME NEW k \in 1 .. last, k - 1 \in good PROVE k \in good
    <3> DEFINE t == w.from + k
    <3>1. t \in Int /\ t \in Minutes(w) /\ t - 1 = w.from + (k - 1) /\ k \in 0 .. last
      BY <2>3 DEF Minutes
    <3>2. Holds(r, t - 1)
      BY <2>5, <3>1
    <3>3. PICK o \in S : Holds(o, t)
      BY <1>4, <3>1 DEF In, Holds
    <3> HIDE DEF t
    <3>4. r = o
      <4>1. r # o => r.to < o.from \/ o.to < r.from
        BY DEF Apart, S
      <4> QED BY <1>1, <3>1, <3>2, <3>3, <4>1 DEF Holds
    <3> QED BY <3>1, <3>3, <3>4 DEF t
  <2> HIDE DEF good
  <2>6. \A k \in 0 .. last : k \in good
    <3> HIDE DEF last
    <3> QED BY <2>3, <2>4, <2>5, ByNumber
  <2>7. last \in good
    BY <2>3, <2>6
  <2>8. Holds(r, w.from + last) /\ w.from + last = w.to - 1
    BY <2>3, <2>7 DEF good
  <2> QED BY <1>1, <2>2, <2>8 DEF Holds
<1> QED BY <1>2, <1>3, <1>4 DEF S

\* What is blocked for somebody is a finite set of proper ranges.
LEMMA BlocksAre ==
  ASSUME TimesAssumption, Calendar, NEW s
  PROVE  IsFiniteSet(BlocksOf(s)) /\ BlocksOf(s) \subseteq Proper
<1> DEFINE own == {b \in blocks : b.who \in {s, Anyone}}
           f == [b \in own |-> Period(b.from, b.to)]
<1>1. IsFiniteSet(own)
  <2>1. IsFiniteSet(BlockRows) /\ own \subseteq BlockRows
    BY DEF TimesAssumption, Calendar
  <2> QED BY <2>1, FS_Subset
<1>2. f \in Surjection(own, BlocksOf(s))
  BY DEF Surjection, BlocksOf
<1>3. IsFiniteSet(BlocksOf(s))
  <2> HIDE DEF f, own
  <2> QED BY <1>1, <1>2, FS_Surjection
<1>4. ASSUME NEW b \in blocks PROVE Period(b.from, b.to) \in Proper
  <2>1. b.from \in Int /\ b.to \in Int /\ b.from < b.to
    BY DEF TimesAssumption, Calendar
  <2> QED BY <2>1 DEF Period, Proper, Spans
<1> QED BY <1>3, <1>4 DEF BlocksOf

\* The working ranges of a professional hold exactly the minutes they have, and a period fits
\* in one of them when they have all of it.
THEOREM WorkingRangesExact ==
  ASSUME TimesAssumption, Calendar, NEW s \in Staff
  PROVE  /\ \A t \in Int : In(ToSet(WorkingRanges(s)), t) <=> Available(s, t)
         /\ \A w : w.from \in Int /\ w.to \in Int /\ w.from < w.to => (Within(WorkingRanges(s), w) <=> Whole(s, w))
<1> DEFINE ranges == WorkingRanges(s)
<1>1. /\ ranges \in Seq(Proper) /\ Apart(ToSet(ranges))
      /\ \A t \in Int : In(ToSet(ranges), t) <=>
            In(hours, t) /\ (shift[s].custom => In(shift[s].rows, t)) /\ ~In(BlocksOf(s), t)
  BY BlocksAre, RangesLessIs DEF WorkingRanges
<1> HIDE DEF ranges
<1>2. \A t \in Int : In(ToSet(ranges), t) <=> Available(s, t)
  BY <1>1 DEF Available
<1>3. ASSUME NEW w, w.from \in Int, w.to \in Int, w.from < w.to PROVE Within(ranges, w) <=> Whole(s, w)
  <2>1. Within(ranges, w) <=> \A t \in Minutes(w) : In(ToSet(ranges), t)
    BY <1>1, <1>3, WithinIs
  <2>2. \A t \in Minutes(w) : t \in Int
    BY <1>3 DEF Minutes
  <2> QED BY <1>2, <2>1, <2>2 DEF Whole
<1> QED BY <1>2, <1>3 DEF ranges

\* Two periods overlap when they have a moment in common.
LEMMA OverlapIsMeeting ==
  ASSUME NEW a, a.from \in Int, a.to \in Int, a.from < a.to, NEW b, b.from \in Int, b.to \in Int, b.from < b.to
  PROVE  Overlaps(a, b) <=> \E t \in Minutes(a) : t \in Minutes(b)
<1>1. ASSUME Overlaps(a, b) PROVE \E t \in Minutes(a) : t \in Minutes(b)
  <2>1. CASE a.from >= b.from
    <3>1. a.from \in Minutes(a) /\ a.from \in Minutes(b)
      BY <1>1, <2>1 DEF Overlaps, Minutes
    <3> QED BY <3>1
  <2>2. CASE ~(a.from >= b.from)
    <3>1. b.from \in Minutes(a) /\ b.from \in Minutes(b)
      BY <1>1, <2>2 DEF Overlaps, Minutes
    <3> QED BY <3>1
  <2> QED BY <2>1, <2>2
<1>2. ASSUME NEW t \in Minutes(a), t \in Minutes(b) PROVE Overlaps(a, b)
  BY <1>2 DEF Overlaps, Minutes
<1> QED BY <1>1, <1>2

\* What is booked has a beginning and a later end.
Booked == \A b \in busy : b.from \in Int /\ b.to \in Int /\ b.from < b.to

\* Somebody is free for a period when they have nothing at any moment of it.
LEMMA FreeIsIdle ==
  ASSUME Booked, NEW q, NEW s, NEW w, w.from \in Int, w.to \in Int, w.from < w.to
  PROVE  Free(q, s, w) <=> Idle(q, s, w)
<1>1. \A b \in Others(q) : b.from \in Int /\ b.to \in Int /\ b.from < b.to
  BY DEF Booked, Others
<1>2. \A b \in Others(q) : Overlaps(b, w) <=> \E t \in Minutes(b) : t \in Minutes(w)
  BY <1>1, OverlapIsMeeting
<1> QED BY <1>2 DEF Free, Idle

-----------------------------------------------------------------------------
(* Sums *)

SumOf(a) == FoldLeft(+, 0, a)
FirstOf(a, m) == [k \in 1 .. m |-> a[k]]

\* A sum has its partial sums.
LEMMA SumTable ==
  ASSUME NEW n \in Nat, NEW a \in [1 .. n -> Int]
  PROVE  \E sums \in [0 .. n -> Int] : /\ sums[0] = 0 /\ SumOf(a) = sums[n]
                                       /\ \A k \in 1 .. n : sums[k] = sums[k - 1] + a[k]
<1> DEFINE start == 0
           IsRun(t) == t = [s \in SUBSET DOMAIN a |->
                              IF s = {} THEN start ELSE t[s \ {Max(s)}] + a[Max(s)]]
           run == CHOOSE t : IsRun(t)
           whole == SumOf(a)
<1>1. whole = run[DOMAIN a]
  BY DEF SumOf, FoldLeft, MapThenFoldSet
<1> HIDE DEF whole
<1>2. n \in Nat /\ DOMAIN a = 1 .. n
  OBVIOUS
<1> DEFINE V == Int
           step == [p \in V \X (1 .. n) |-> p[1] + a[p[2]]]
<1>3. start \in V /\ step \in [V \X (1 .. n) -> V]
  OBVIOUS
<1>4. PICK table \in [SUBSET (1 .. n) -> V] : Runs(table, n, start, step)
  <2>1. start \in V /\ step \in [V \X (1 .. n) -> V]
    BY <1>3
  <2> HIDE DEF start, V, step
  <2> QED BY <1>2, <2>1, RunExists
<1>5. \A s \in SUBSET (1 .. n) :
        table[s] = IF s = {} THEN start ELSE table[s \ {Max(s)}] + a[Max(s)]
  <2> SUFFICES ASSUME NEW s \in SUBSET (1 .. n)
               PROVE  table[s] = IF s = {} THEN start ELSE table[s \ {Max(s)}] + a[Max(s)]
    OBVIOUS
  <2>1. table[s] = IF s = {} THEN start ELSE step[<<table[s \ {Max(s)}], Max(s)>>]
    BY <1>4 DEF Runs
  <2>2. s # {} => <<table[s \ {Max(s)}], Max(s)>> \in V \X (1 .. n)
    <3>1. s # {} => Max(s) \in s
      BY <1>4 DEF Runs
    <3> HIDE DEF V
    <3> QED BY <3>1
  <2> HIDE DEF start
  <2> QED BY <2>1, <2>2
<1>6. IsRun(table)
  <2>1. table = [s \in SUBSET (1 .. n) |-> table[s]]
    OBVIOUS
  <2> QED BY <1>2, <1>5, <2>1
<1>7. IsRun(run)
  <2> HIDE DEF IsRun
  <2> QED BY <1>6
<1>8. run[1 .. n] = table[1 .. n]
  <2> HIDE DEF run
  <2>1. run[{}] = table[{}]
    BY <1>6, <1>7
  <2>2. ASSUME NEW s \in SUBSET (1 .. n), s # {}, run[s \ {Max(s)}] = table[s \ {Max(s)}] PROVE run[s] = table[s]
    BY <1>2, <1>6, <1>7, <2>2
  <2> QED BY <1>2, <2>1, <2>2, SameRuns
<1> HIDE DEF run, IsRun
<1>9. table[1 .. 0] = start
  BY <1>4 DEF Runs
<1>10. \A k \in 1 .. n : table[1 .. k] = table[1 .. k - 1] + a[k]
  <2> SUFFICES ASSUME NEW k \in 1 .. n PROVE table[1 .. k] = table[1 .. k - 1] + a[k]
    OBVIOUS
  <2>1. 1 .. k - 1 \in SUBSET (1 .. n)
    BY <1>2
  <2>2. <<table[1 .. k - 1], k>> \in V \X (1 .. n)
    <3> HIDE DEF V
    <3> QED BY <2>1
  <2> QED BY <1>4, <2>2 DEF Runs
<1>11. whole = table[1 .. n]
  BY <1>1, <1>2, <1>8
<1> DEFINE sums == [k \in 0 .. n |-> table[1 .. k]]
<1>12. \A k \in 0 .. n : 1 .. k \in SUBSET (1 .. n)
  OBVIOUS
<1>13. sums \in [0 .. n -> Int]
  BY <1>12
<1>14. sums[0] = 0 /\ whole = sums[n]
  BY <1>9, <1>11
<1>15. ASSUME NEW k \in 1 .. n PROVE sums[k] = sums[k - 1] + a[k]
  <2>1. k \in 0 .. n /\ k - 1 \in 0 .. n
    OBVIOUS
  <2> QED BY <1>10, <2>1
<1> HIDE DEF sums
<1> QED BY <1>13, <1>14, <1>15 DEF whole

\* The sum of a list is that of all but the last, and the last.
LEMMA SumGrows ==
  ASSUME NEW n \in Nat, NEW a \in [1 .. n -> Int]
  PROVE  /\ \A m \in 0 .. n : SumOf(FirstOf(a, m)) \in Int
         /\ SumOf(FirstOf(a, 0)) = 0 /\ SumOf(FirstOf(a, n)) = SumOf(a)
         /\ \A m \in 1 .. n : SumOf(FirstOf(a, m)) = SumOf(FirstOf(a, m - 1)) + a[m]
<1>1. PICK sums \in [0 .. n -> Int] : /\ sums[0] = 0 /\ SumOf(a) = sums[n]
                                      /\ \A k \in 1 .. n : sums[k] = sums[k - 1] + a[k]
  BY SumTable
<1>2. ASSUME NEW m \in 0 .. n PROVE SumOf(FirstOf(a, m)) = sums[m]
  <2> DEFINE b == FirstOf(a, m)
  <2>1. m \in Nat /\ b \in [1 .. m -> Int] /\ \A k \in 1 .. m : b[k] = a[k]
    BY DEF FirstOf
  <2> HIDE DEF b
  <2>2. PICK part \in [0 .. m -> Int] : /\ part[0] = 0 /\ SumOf(b) = part[m]
                                        /\ \A k \in 1 .. m : part[k] = part[k - 1] + b[k]
    BY <2>1, SumTable
  <2> DEFINE same == {k \in 0 .. m : part[k] = sums[k]}
  <2>3. 0 \in same
    BY <1>1, <2>1, <2>2
  <2>4. ASSUME NEW k \in 1 .. m, k - 1 \in same PROVE k \in same
    <3>1. k \in 1 .. n /\ k \in 0 .. m
      BY <2>1
    <3>2. part[k] = part[k - 1] + b[k] /\ sums[k] = sums[k - 1] + a[k] /\ b[k] = a[k]
      BY <1>1, <2>1, <2>2, <3>1
    <3>3. part[k - 1] = sums[k - 1]
      BY <2>4
    <3> QED BY <3>1, <3>2, <3>3
  <2> HIDE DEF same
  <2>5. \A k \in 0 .. m : k \in same
    BY <2>1, <2>3, <2>4, ByNumber
  <2>6. m \in same
    BY <2>1, <2>5
  <2> QED BY <2>2, <2>6 DEF same, b
<1>3. FirstOf(a, n) = a
  BY DEF FirstOf
<1>4. ASSUME NEW m \in 1 .. n PROVE SumOf(FirstOf(a, m)) = SumOf(FirstOf(a, m - 1)) + a[m]
  <2>1. m \in 0 .. n /\ m - 1 \in 0 .. n
    OBVIOUS
  <2> QED BY <1>1, <1>2, <2>1
<1>5. 0 \in 0 .. n
  OBVIOUS
<1> QED BY <1>1, <1>2, <1>3, <1>4, <1>5

\* A sum of numbers that are not negative does not go down.
LEMMA SumClimbs ==
  ASSUME NEW n \in Nat, NEW a \in [1 .. n -> Nat], NEW l \in 0 .. n, NEW m \in l .. n
  PROVE  SumOf(FirstOf(a, l)) <= SumOf(FirstOf(a, m)) /\ SumOf(FirstOf(a, l)) \in Nat
<1>0. a \in [1 .. n -> Int]
  OBVIOUS
<1> DEFINE S(k) == SumOf(FirstOf(a, k))
<1>1. (\A k \in 0 .. n : S(k) \in Int) /\ S(0) = 0 /\ \A k \in 1 .. n : S(k) = S(k - 1) + a[k]
  BY <1>0, SumGrows
<1> HIDE DEF S
<1> DEFINE up == {k \in 0 .. n : S(k) \in Nat}
           good == {k \in 0 .. n : k >= l => S(l) <= S(k)}
<1>2. 0 \in up
  BY <1>1
<1>3. ASSUME NEW k \in 1 .. n, k - 1 \in up PROVE k \in up
  <2>1. k \in 0 .. n /\ S(k) = S(k - 1) + a[k] /\ a[k] \in Nat /\ S(k - 1) \in Nat
    BY <1>1, <1>3
  <2> QED BY <2>1
<1>4. 0 \in good
  BY <1>1
<1>5. ASSUME NEW k \in 1 .. n, k - 1 \in good PROVE k \in good
  <2>1. k \in 0 .. n /\ k - 1 \in 0 .. n /\ S(k) = S(k - 1) + a[k] /\ a[k] \in Nat /\ S(k - 1) \in Int /\ S(l) \in Int /\ S(k) \in Int
    BY <1>1
  <2>2. CASE k - 1 >= l
    BY <1>5, <2>1, <2>2
  <2>3. CASE k = l
    BY <2>1, <2>3
  <2>4. CASE k < l
    BY <2>1, <2>4
  <2> QED BY <2>2, <2>3, <2>4
<1> HIDE DEF up, good
<1>6. l \in up
  <2>1. \A k \in 0 .. n : k \in up
    BY <1>2, <1>3, ByNumber
  <2> QED BY <2>1
<1>7. m \in good
  <2>1. \A k \in 0 .. n : k \in good
    BY <1>4, <1>5, ByNumber
  <2> QED BY <2>1
<1> QED BY <1>6, <1>7 DEF up, good, S

-----------------------------------------------------------------------------
(* Ways of fitting services together *)

Items == [service : DOMAIN Services, staff : Staff \cup {Anyone}]

\* What is asked for takes some time.
LEMMA LengthIs ==
  ASSUME TimesAssumption, NEW items \in Seq(Items), NEW i \in DOMAIN items
  PROVE  Length(items[i]) \in Nat \ {0}
<1>1. items[i] \in Items
  OBVIOUS
<1>2. items[i].service \in DOMAIN Services
  BY <1>1 DEF Items
<1> QED BY <1>2 DEF TimesAssumption, Length

\* A finite set of numbers taken from positions of a list.
LEMMA NumbersOf ==
  ASSUME NEW n \in Nat, NEW S \in SUBSET (1 .. n), NEW f, \A i \in S : f[i] \in Int
  PROVE  IsFiniteSet({f[i] : i \in S}) /\ {f[i] : i \in S} \subseteq Int
<1> DEFINE g == [i \in S |-> f[i]]
           T == {f[i] : i \in S}
<1>1. IsFiniteSet(S)
  <2>1. 1 \in Int /\ n \in Int
    OBVIOUS
  <2>2. IsFiniteSet(1 .. n)
    BY <2>1, FS_Interval
  <2> QED BY <2>2, FS_Subset
<1>2. g \in Surjection(S, T)
  BY DEF Surjection
<1>3. IsFiniteSet(T)
  <2> HIDE DEF g, T
  <2> QED BY <1>1, <1>2, FS_Surjection
<1> QED BY <1>3

\* A round lasts as long as the longest of it.
LEMMA RoundIs ==
  ASSUME TimesAssumption, NEW items \in Seq(Items), NEW plan, DOMAIN plan = DOMAIN items,
         NEW r, NEW i \in DOMAIN items, plan[i] = r
  PROVE  /\ RoundLength(items, plan, r) \in Nat \ {0} /\ Length(items[i]) <= RoundLength(items, plan, r)
         /\ \E k \in DOMAIN items : plan[k] = r /\ Length(items[k]) = RoundLength(items, plan, r)
<1> DEFINE n == Len(items)
           S == InRound(plan, r)
           f == [k \in 1 .. n |-> Length(items[k])]
           T == {f[k] : k \in S}
<1>1. n \in Nat /\ DOMAIN items = 1 .. n
  OBVIOUS
<1> HIDE DEF n
<1>2. \A k \in 1 .. n : f[k] \in Nat \ {0}
  BY <1>1, LengthIs
<1>3. S \in SUBSET (1 .. n) /\ i \in S
  BY <1>1 DEF InRound
<1>4. RoundLength(items, plan, r) = Max(T)
  <2>1. T = {Length(items[k]) : k \in S}
    BY <1>3
  <2> QED BY <2>1 DEF RoundLength
<1>5. f[i] = Length(items[i]) /\ \A k \in S : k \in DOMAIN items /\ plan[k] = r /\ f[k] = Length(items[k])
  BY <1>1, <1>3 DEF InRound
<1> HIDE DEF S, f
<1>6. \A k \in S : f[k] \in Int /\ f[k] \in Nat \ {0}
  BY <1>2, <1>3
<1>7. IsFiniteSet(T) /\ T \subseteq Int
  BY <1>1, <1>3, <1>6, NumbersOf
<1>8. T # {} /\ f[i] \in T /\ \A x \in T : x \in Nat \ {0} /\ \E k \in S : x = f[k]
  BY <1>3, <1>6
<1> HIDE DEF T
<1>9. Max(T) \in T /\ \A x \in T : Max(T) >= x
  BY <1>7, <1>8, Extremes
<1> QED BY <1>4, <1>5, <1>8, <1>9

\* The rounds of a way of fitting them are numbered without gaps.
LEMMA RoundsFollow ==
  ASSUME NEW items \in Seq(Items), NEW plan \in Groupings(items), NEW i \in DOMAIN items, NEW r \in 1 .. plan[i]
  PROVE  \E j \in DOMAIN items : plan[j] = r
<1> DEFINE n == Len(items)
           good == {k \in 0 .. n : \A l \in 1 .. k : \A q \in 1 .. plan[l] : \E j \in 1 .. n : plan[j] = q}
<1>1. n \in Nat /\ DOMAIN items = 1 .. n
  OBVIOUS
<1> HIDE DEF n
<1>2. /\ \A k \in 1 .. n : plan[k] \in 1 .. n
      /\ \A k \in 1 .. n : plan[k] <= Max({plan[j] : j \in 1 .. k - 1} \cup {0}) + 1
  BY <1>1 DEF Groupings
<1>3. 0 \in good
  BY <1>1
<1>4. ASSUME NEW k \in 1 .. n, k - 1 \in good PROVE k \in good
  <2> DEFINE before == {plan[j] : j \in 1 .. k - 1}
             T == before \cup {0}
  <2>0. 1 .. k - 1 \in SUBSET (1 .. n) /\ \A j \in 1 .. k - 1 : plan[j] \in Int
    BY <1>1, <1>2
  <2>1. IsFiniteSet(before) /\ before \subseteq Int
    BY <1>1, <2>0, NumbersOf
  <2>2. IsFiniteSet(T) /\ T \subseteq Int /\ T # {}
    <3> HIDE DEF before
    <3>1. IsFiniteSet({0})
      BY FS_Singleton
    <3>2. IsFiniteSet(before \cup {0})
      BY <2>1, <3>1, FS_Union
    <3> QED BY <2>1, <3>2
  <2>3. Max(T) \in T /\ plan[k] <= Max(T) + 1
    <3>1. plan[k] <= Max(T) + 1
      BY <1>2
    <3> HIDE DEF T
    <3> QED BY <2>2, <3>1, Extremes
  <2> SUFFICES ASSUME NEW q \in 1 .. plan[k] PROVE \E j \in 1 .. n : plan[j] = q
    <3>1. \A l \in 1 .. k : l \in 1 .. k - 1 \/ l = k
      BY <1>1
    <3>2. k \in 0 .. n
      BY <1>1
    <3> QED BY <1>4, <3>1, <3>2
  <2>4. CASE q = plan[k]
    BY <2>4
  <2>5. CASE q # plan[k]
    <3>1. q <= Max(T) /\ q >= 1 /\ plan[k] \in Int
      <4>1. plan[k] \in Int /\ Max(T) \in Int
        BY <1>2, <2>2, <2>3
      <4> HIDE DEF T
      <4> QED BY <2>3, <2>5, <4>1
    <3>2. Max(T) \in before
      <4>1. Max(T) # 0
        <5> HIDE DEF T
        <5> QED BY <3>1
      <4> QED BY <2>3, <4>1
    <3>3. PICK j \in 1 .. k - 1 : plan[j] = Max(T)
      BY <3>2
    <3>4. q \in 1 .. plan[j]
      <4> HIDE DEF T
      <4>1. plan[j] \in Int
        BY <2>0
      <4> QED BY <3>1, <3>3, <4>1
    <3> QED BY <1>4, <3>3, <3>4
  <2> QED BY <2>4, <2>5
<1>5. \A k \in 0 .. n : k \in good
  <2> HIDE DEF good
  <2> QED BY <1>1, <1>3, <1>4, ByNumber
<1>6. n \in good
  BY <1>1, <1>5
<1> QED BY <1>1, <1>6

\* What begins in a later round begins when everything of the earlier ones is over.
LEMMA RoundsApart ==
  ASSUME TimesAssumption, NEW items \in Seq(Items), NEW plan \in Groupings(items)
  PROVE  \A j \in DOMAIN items :
           /\ Offset(items, plan, j) \in Nat /\ Total(items, plan, plan[j]) \in Nat
           /\ Total(items, plan, plan[j]) = Offset(items, plan, j) + RoundLength(items, plan, plan[j])
           /\ \A i \in DOMAIN items : plan[i] < plan[j] =>
                Offset(items, plan, i) + Length(items[i]) <= Offset(items, plan, j)
<1> SUFFICES ASSUME NEW j \in DOMAIN items
             PROVE  /\ Offset(items, plan, j) \in Nat /\ Total(items, plan, plan[j]) \in Nat
                    /\ Total(items, plan, plan[j]) = Offset(items, plan, j) + RoundLength(items, plan, plan[j])
                    /\ \A i \in DOMAIN items : plan[i] < plan[j] =>
                         Offset(items, plan, i) + Length(items[i]) <= Offset(items, plan, j)
  OBVIOUS
<1>1. DOMAIN plan = DOMAIN items /\ \A i \in DOMAIN items : plan[i] \in Nat \ {0}
  <2>1. DOMAIN items \subseteq Nat \ {0}
    OBVIOUS
  <2> QED BY <2>1 DEF Groupings
<1> DEFINE n == plan[j]
           a == [q \in 1 .. n |-> RoundLength(items, plan, q)]
           S(m) == SumOf(FirstOf(a, m))
<1>2. n \in Nat /\ n # 0
  BY <1>1
<1>3. \A q \in 1 .. n : RoundLength(items, plan, q) \in Nat
  <2> SUFFICES ASSUME NEW q \in 1 .. n PROVE RoundLength(items, plan, q) \in Nat
    OBVIOUS
  <2>1. PICK k \in DOMAIN items : plan[k] = q
    BY RoundsFollow
  <2> QED BY <1>1, <2>1, RoundIs
<1>4. a \in [1 .. n -> Nat]
  BY <1>3
<1>5. \A m \in 0 .. n : Total(items, plan, m) = S(m)
  <2> SUFFICES ASSUME NEW m \in 0 .. n PROVE Total(items, plan, m) = S(m)
    OBVIOUS
  <2>1. FirstOf(a, m) = [q \in 1 .. m |-> RoundLength(items, plan, q)]
    BY <1>2 DEF FirstOf
  <2> QED BY <2>1 DEF Total, SumOf
<1>6. \A m \in 1 .. n : a[m] = RoundLength(items, plan, m)
  OBVIOUS
<1> HIDE DEF a
<1>7. a \in [1 .. n -> Int]
  BY <1>4
<1> HIDE DEF n
<1>8. (\A m \in 0 .. n : S(m) \in Int) /\ \A m \in 1 .. n : S(m) = S(m - 1) + a[m]
  BY <1>2, <1>7, SumGrows
<1>9. \A l \in 0 .. n : \A m \in l .. n : S(l) <= S(m) /\ S(l) \in Nat
  BY <1>2, <1>4, SumClimbs
<1> HIDE DEF S
<1>10. Offset(items, plan, j) = S(n - 1) /\ n - 1 \in 0 .. n
  BY <1>2, <1>5 DEF Offset, n
<1>11. S(n - 1) \in Nat
  <2>1. n - 1 \in (n - 1) .. n
    BY <1>2
  <2> QED BY <1>9, <1>10, <2>1
<1>11a. Total(items, plan, plan[j]) \in Nat
  <2>1. n \in 0 .. n /\ n \in n .. n
    BY <1>2
  <2> QED BY <1>5, <1>9, <2>1 DEF n
<1>11b. Total(items, plan, plan[j]) = Offset(items, plan, j) + RoundLength(items, plan, plan[j])
  <2>1. n \in 0 .. n /\ n \in 1 .. n
    BY <1>2
  <2>2. Total(items, plan, n) = S(n) /\ S(n) = S(n - 1) + a[n] /\ a[n] = RoundLength(items, plan, n)
    BY <1>5, <1>6, <1>8, <2>1
  <2> QED BY <1>10, <2>2 DEF n
<1>12. ASSUME NEW i \in DOMAIN items, plan[i] < plan[j]
       PROVE  Offset(items, plan, i) + Length(items[i]) <= Offset(items, plan, j)
  <2>1. PICK m \in Nat : m = plan[i] /\ m # 0 /\ m < n
    BY <1>1, <1>12 DEF n
  <2>2. m \in 1 .. n /\ m - 1 \in 0 .. n /\ m \in 0 .. n /\ n - 1 \in m .. n
    BY <1>2, <2>1
  <2>3. Offset(items, plan, i) = S(m - 1)
    BY <1>5, <2>1, <2>2 DEF Offset
  <2>4. S(m) = S(m - 1) + a[m] /\ S(m - 1) \in Int /\ S(m) \in Int
    BY <1>8, <2>2
  <2>5. S(m) <= S(n - 1)
    BY <1>9, <2>2
  <2>6. Length(items[i]) <= a[m] /\ a[m] \in Nat
    <3>1. a[m] = RoundLength(items, plan, m) /\ plan[i] = m
      BY <1>6, <2>1, <2>2
    <3>2. RoundLength(items, plan, m) \in Nat \ {0} /\ Length(items[i]) <= RoundLength(items, plan, m)
      BY <1>1, <3>1, RoundIs
    <3> QED BY <3>1, <3>2
  <2>7. Length(items[i]) \in Nat
    BY LengthIs
  <2> QED BY <1>10, <1>11, <2>3, <2>4, <2>5, <2>6, <2>7
<1> QED BY <1>10, <1>11, <1>11a, <1>11b, <1>12

\* One after the other is a way of fitting them.
LEMMA SequentialFits ==
  ASSUME NEW items \in Seq(Items)
  PROVE  Sequential(items) \in Groupings(items)
<1> DEFINE n == Len(items)
           plan == Sequential(items)
<1>1. n \in Nat /\ DOMAIN items = 1 .. n
  OBVIOUS
<1>2. plan \in [DOMAIN items -> DOMAIN items] /\ \A i \in DOMAIN items : plan[i] = i
  BY DEF Sequential
<1> HIDE DEF n, plan
<1>3. ASSUME NEW i \in DOMAIN items PROVE plan[i] <= Max({plan[j] : j \in 1 .. i - 1} \cup {0}) + 1
  <2> DEFINE before == {plan[j] : j \in 1 .. i - 1}
             T == before \cup {0}
  <2>0. i \in 1 .. n /\ 1 .. i - 1 \in SUBSET (1 .. n) /\ \A j \in 1 .. i - 1 : plan[j] = j /\ plan[j] \in Int
    BY <1>1, <1>2
  <2>1. IsFiniteSet(before) /\ before \subseteq Int
    BY <1>1, <2>0, NumbersOf
  <2>2. i # 1 => i - 1 \in T
    <3>1. i # 1 => i - 1 \in 1 .. i - 1
      BY <1>1, <2>0
    <3>2. i # 1 => plan[i - 1] = i - 1
      BY <2>0, <3>1
    <3> QED BY <3>1, <3>2
  <2>3. 0 \in T
    OBVIOUS
  <2>4. IsFiniteSet(T) /\ T \subseteq Int /\ T # {}
    <3> HIDE DEF before
    <3>1. IsFiniteSet({0})
      BY FS_Singleton
    <3>2. IsFiniteSet(before \cup {0})
      BY <2>1, <3>1, FS_Union
    <3> QED BY <2>1, <3>2
  <2> HIDE DEF T
  <2>5. \A x \in T : Max(T) >= x /\ Max(T) \in Int
    BY <2>4, Extremes
  <2>6. i - 1 <= Max(T) /\ Max(T) \in Int
    BY <2>0, <2>2, <2>3, <2>5
  <2>7. plan[i] <= Max(T) + 1
    BY <1>2, <2>0, <2>6
  <2> QED BY <2>7 DEF T
<1> QED BY <1>2, <1>3 DEF Groupings, plan

\* There are finitely many ways of fitting them.
LEMMA FewGroupings ==
  ASSUME NEW items \in Seq(Items)
  PROVE  IsFiniteSet(Groupings(items))
<1> DEFINE D == DOMAIN items
           T == SUBSET (D \X D)
           f == [plan \in Groupings(items) |-> {<<i, plan[i]>> : i \in D}]
<1>1. IsFiniteSet(T)
  <2>1. D = 1 .. Len(items) /\ Len(items) \in Int /\ 1 \in Int
    OBVIOUS
  <2>2. IsFiniteSet(D)
    BY <2>1, FS_Interval
  <2> HIDE DEF D
  <2>3. IsFiniteSet(D \X D)
    BY <2>2, FS_Product
  <2> QED BY <2>3, FS_SUBSET
<1>2. \A plan \in Groupings(items) : plan \in [D -> D]
  BY DEF Groupings
<1> HIDE DEF D
<1>3. \A plan \in Groupings(items) : f[plan] \in T
  <2> SUFFICES ASSUME NEW plan \in Groupings(items) PROVE {<<i, plan[i]>> : i \in D} \in T
    OBVIOUS
  <2> QED BY <1>2
<1>4. ASSUME NEW p \in Groupings(items), NEW q \in Groupings(items), f[p] = f[q] PROVE p = q
  <2>1. {<<i, p[i]>> : i \in D} = {<<i, q[i]>> : i \in D}
    BY <1>4
  <2>2. ASSUME NEW i \in D PROVE p[i] = q[i]
    <3>1. <<i, p[i]>> \in {<<k, q[k]>> : k \in D}
      BY <2>1
    <3> QED BY <3>1
  <2>3. p \in [D -> D] /\ q \in [D -> D]
    BY <1>2
  <2> QED BY <2>2, <2>3
<1>5. f \in [Groupings(items) -> T]
  <2> HIDE DEF T
  <2> QED BY <1>3
<1> HIDE DEF f, T
<1>6. f \in Injection(Groupings(items), T)
  BY <1>4, <1>5 DEF Injection, IsInjective
<1> QED BY <1>1, <1>6, FS_Injection

\* Every way of fitting them is listed, and nothing else.
LEMMA PlansAre ==
  ASSUME NEW items \in Seq(Items)
  PROVE  /\ ExecutionPlans(items) \in Seq(Groupings(items))
         /\ Sequential(items) \in ToSet(ExecutionPlans(items))
<1> DEFINE plans == ExecutionPlans(items)
           S == Groupings(items)
<1>1. Sequential(items) \in S
  BY SequentialFits
<1>2. CASE Len(items) = 1 \/ Len(items) > MaxPlanned
  <2>1. plans = <<Sequential(items)>>
    BY <1>2 DEF ExecutionPlans
  <2> HIDE DEF S, plans
  <2>2. plans \in Seq(S) /\ Sequential(items) \in ToSet(plans)
    BY <1>1, <2>1 DEF ToSet
  <2> QED BY <2>2 DEF S, plans
<1>3. CASE ~(Len(items) = 1 \/ Len(items) > MaxPlanned)
  <2> DEFINE before == {p \in S \X S : Precedes(Rank(items, p[1]), Rank(items, p[2]))}
  <2>1. plans = Ordered(S, before)
    BY <1>3 DEF ExecutionPlans
  <2>2. IsFiniteSet(S)
    BY FewGroupings
  <2> HIDE DEF S, plans, before
  <2>3. plans \in Seq(S) /\ ToSet(plans) = S
    BY <2>1, <2>2, OrderedIs
  <2> QED BY <1>1, <2>3 DEF plans, S
<1> QED BY <1>2, <1>3

\* The plan of what the panel insists on is one of them, and asks nobody for two things at once.
LEMMA AssignmentFits ==
  ASSUME NEW items \in Seq(Items), \A i \in DOMAIN items : items[i].staff # Anyone
  PROVE  /\ PlanForAssignment(items) \in Groupings(items)
         /\ \A i, j \in DOMAIN items :
              i # j /\ PlanForAssignment(items)[i] = PlanForAssignment(items)[j] => items[i].staff # items[j].staff
<1> DEFINE plans == ExecutionPlans(items)
           Fits(plan) == \A i, j \in DOMAIN items :
             i # j /\ plan[i] = plan[j] /\ items[i].staff # Anyone => items[i].staff # items[j].staff
           fitting == {p \in DOMAIN plans : Fits(plans[p])}
<1>1. PlanForAssignment(items) = plans[Min(fitting)]
  BY DEF PlanForAssignment
<1>2. plans \in Seq(Groupings(items)) /\ Sequential(items) \in ToSet(plans)
  BY PlansAre
<1> HIDE DEF plans
<1>3. Fits(Sequential(items))
  BY DEF Sequential
<1>4. fitting # {}
  <2>1. PICK p \in DOMAIN plans : plans[p] = Sequential(items)
    BY <1>2 DEF ToSet
  <2> HIDE DEF Fits
  <2> QED BY <1>3, <2>1
<1>5. IsFiniteSet(fitting) /\ fitting \subseteq Int
  <2> HIDE DEF Fits
  <2>1. DOMAIN plans = 1 .. Len(plans) /\ Len(plans) \in Int /\ 1 \in Int
    BY <1>2
  <2>2. IsFiniteSet(DOMAIN plans)
    BY <2>1, FS_Interval
  <2>3. IsFiniteSet(fitting)
    BY <2>2, FS_Subset
  <2> QED BY <2>1, <2>3
<1>6. Min(fitting) \in fitting
  <2> HIDE DEF fitting
  <2> QED BY <1>4, <1>5, Extremes
<1>7. plans[Min(fitting)] \in Groupings(items) /\ Fits(plans[Min(fitting)])
  <2> DEFINE p == Min(fitting)
  <2>1. p \in DOMAIN plans /\ Fits(plans[p])
    BY <1>6
  <2> HIDE DEF p, Fits
  <2> QED BY <1>2, <2>1 DEF p, Fits
<1> QED BY <1>1, <1>7

\* One after the other, everything is within the sum of what each takes.
LEMMA SequentialEnds ==
  ASSUME TimesAssumption, NEW q, NEW items \in Seq(Items) \ {<<>>}, q.items = items
  PROVE  /\ SuggestedLength(q) \in Nat \ {0}
         /\ \A i \in DOMAIN items : Offset(items, Sequential(items), i) + Length(items[i]) <= SuggestedLength(q)
<1> DEFINE n == Len(items)
           plan == Sequential(items)
           a == [k \in 1 .. n |-> Length(items[k])]
           S(m) == SumOf(FirstOf(a, m))
<1>1. n \in Nat /\ n # 0 /\ DOMAIN items = 1 .. n
  OBVIOUS
<1> HIDE DEF n
<1>2. \A k \in 1 .. n : Length(items[k]) \in Nat \ {0}
  BY <1>1, LengthIs
<1>3. a \in [1 .. n -> Nat] /\ a \in [1 .. n -> Int]
  BY <1>2
<1>4. plan \in Groupings(items) /\ \A k \in 1 .. n : plan[k] = k
  BY <1>1, SequentialFits DEF Sequential
<1>5. \A k \in 1 .. n : RoundLength(items, plan, k) = a[k]
  <2> SUFFICES ASSUME NEW k \in 1 .. n PROVE RoundLength(items, plan, k) = a[k]
    OBVIOUS
  <2>1. DOMAIN plan = 1 .. n
    BY <1>1 DEF Sequential
  <2>2. InRound(plan, k) = {k}
    BY <1>4, <2>1 DEF InRound
  <2>3. {Length(items[i]) : i \in InRound(plan, k)} = {a[k]}
    BY <2>2
  <2>4. a[k] \in Int /\ IsFiniteSet({a[k]})
    BY <1>3, FS_Singleton
  <2> DEFINE x == a[k]
  <2> HIDE DEF x
  <2>5. Max({x}) = x
    <3>1. x \in Int /\ IsFiniteSet({x})
      BY <2>4 DEF x
    <3>2. Max({x}) \in {x}
      BY <3>1, Extremes
    <3> QED BY <3>2
  <2> QED BY <2>3, <2>5 DEF RoundLength, x
<1>6. \A m \in 0 .. n : Total(items, plan, m) = S(m)
  <2> SUFFICES ASSUME NEW m \in 0 .. n PROVE Total(items, plan, m) = S(m)
    OBVIOUS
  <2> HIDE DEF plan, a
  <2>1. FirstOf(a, m) = [q_ \in 1 .. m |-> RoundLength(items, plan, q_)]
    BY <1>1, <1>5 DEF FirstOf
  <2> QED BY <2>1 DEF Total, SumOf
<1>7. SuggestedLength(q) = SumOf(a)
  BY <1>1 DEF SuggestedLength, SumOf
<1> HIDE DEF a
<1>8. SumOf(a) = S(n) /\ (\A m \in 0 .. n : S(m) \in Int) /\ \A m \in 1 .. n : S(m) = S(m - 1) + a[m]
  BY <1>1, <1>3, SumGrows
<1>9. \A l \in 0 .. n : \A m \in l .. n : S(l) <= S(m) /\ S(l) \in Nat
  BY <1>1, <1>3, SumClimbs
<1> HIDE DEF S
<1>10. ASSUME NEW i \in 1 .. n
       PROVE  /\ Offset(items, plan, i) + Length(items[i]) <= SuggestedLength(q)
              /\ Length(items[i]) <= SuggestedLength(q)
  <2>1. i - 1 \in 0 .. n /\ i \in 0 .. n /\ n \in i .. n /\ n \in (i - 1) .. n
    BY <1>1
  <2>2. Offset(items, plan, i) = S(i - 1)
    BY <1>4, <1>6, <2>1 DEF Offset
  <2>3. a[i] = Length(items[i]) /\ a[i] \in Nat
    BY <1>3 DEF a
  <2>4. S(i) = S(i - 1) + a[i] /\ S(i) <= S(n) /\ S(i - 1) \in Nat /\ S(n) \in Int /\ S(i) \in Int
    BY <1>8, <1>9, <2>1
  <2> QED BY <1>7, <1>8, <2>2, <2>3, <2>4
<1>11. SuggestedLength(q) \in Nat \ {0}
  <2>1. 1 \in 1 .. n /\ n \in 0 .. n
    BY <1>1
  <2>2. SuggestedLength(q) \in Int /\ Length(items[1]) <= SuggestedLength(q) /\ Length(items[1]) \in Nat \ {0}
    BY <1>2, <1>7, <1>8, <1>10, <2>1
  <2> QED BY <2>2
<1> QED BY <1>1, <1>10, <1>11

\* What is written of some items has a beginning and a later end.
LEMMA SegmentsAre ==
  ASSUME TimesAssumption, NEW items \in Seq(Items), NEW plan \in Groupings(items), NEW t \in Int, NEW appt, NEW who
  PROVE  \A s \in Segments(appt, items, plan, t, who) : \E i \in DOMAIN items :
           /\ s.staff = who[i] /\ s.from = t + Offset(items, plan, i) /\ s.to = s.from + Length(items[i])
           /\ s.from \in Int /\ s.to \in Int /\ s.from < s.to
           /\ s = [appt |-> appt, staff |-> who[i], from |-> Window(items, plan, i, t).from, to |-> Window(items, plan, i, t).to]
<1> SUFFICES ASSUME NEW i \in DOMAIN items,
                    NEW s, s = [appt |-> appt, staff |-> who[i], from |-> Window(items, plan, i, t).from,
                                to |-> Window(items, plan, i, t).to]
             PROVE  /\ s.staff = who[i] /\ s.from = t + Offset(items, plan, i) /\ s.to = s.from + Length(items[i])
                    /\ s.from \in Int /\ s.to \in Int /\ s.from < s.to
  BY DEF Segments
<1>1. Offset(items, plan, i) \in Nat /\ Length(items[i]) \in Nat \ {0}
  BY RoundsApart, LengthIs
<1>2. s.staff = who[i] /\ s.from = t + Offset(items, plan, i) /\ s.to = t + Offset(items, plan, i) + Length(items[i])
  BY DEF Window, Period
<1> QED BY <1>1, <1>2

-----------------------------------------------------------------------------
(* The day *)

\* What is on a screen was asked for.
Asked ==
  \/ query = NoQuery
  \/ /\ query = [items |-> query.items, single |-> query.single, panel |-> query.panel, moving |-> query.moving]
     /\ query.items \in Seq(Items) \ {<<>>}
     /\ [items |-> query.items, single |-> query.single, panel |-> query.panel] \in Requests

DayInv == Calendar /\ Booked /\ Asked /\ now \in 0 .. MaxNow

\* The panel is warned of a booking exactly when somebody in it is not free and at work all
\* along, and nobody is in two places.
LEMMA WarnedIsRight == TimesAssumption /\ DayInv => PanelIsWarned
<1> SUFFICES ASSUME TimesAssumption, DayInv, query.panel, \A i \in DOMAIN query.items : query.items[i].staff # Anyone,
                    NEW t \in 0 .. MaxTime
             PROVE  LET segs == Segments(0, query.items, PlanForAssignment(query.items), t,
                                         [i \in DOMAIN query.items |-> query.items[i].staff])
                    IN /\ \A s, o \in segs : s # o /\ s.staff = o.staff => ~Overlaps(s, o)
                       /\ Warnings(query, segs) \subseteq {"PAST_TIME"}
                            <=> \A s \in segs : Whole(s.staff, s) /\ Idle(query, s.staff, s)
  BY DEF PanelIsWarned
<1> DEFINE items == query.items
           plan == PlanForAssignment(items)
           who == [i \in DOMAIN items |-> items[i].staff]
           segs == Segments(0, items, plan, t, who)
<1>1. t \in Int
  OBVIOUS
<1>2. items \in Seq(Items) \ {<<>>}
  <2>1. query # NoQuery
    BY DEF NoQuery
  <2> QED BY <2>1 DEF DayInv, Asked
<1>3. \A i \in DOMAIN items : items[i].staff \in Staff
  <2>1. \A i \in DOMAIN items : items[i] \in Items
    BY <1>2
  <2> QED BY <2>1 DEF Items
<1> HIDE DEF items
<1>4. /\ plan \in Groupings(items)
      /\ \A i, j \in DOMAIN items : i # j /\ plan[i] = plan[j] => items[i].staff # items[j].staff
  <2>1. \A i \in DOMAIN items : items[i].staff # Anyone
    BY DEF items
  <2> QED BY <1>2, <2>1, AssignmentFits
<1> HIDE DEF plan
<1>5. \A s \in segs : \E i \in DOMAIN items :
        /\ s.staff = who[i] /\ s.from = t + Offset(items, plan, i) /\ s.to = s.from + Length(items[i])
        /\ s.from \in Int /\ s.to \in Int /\ s.from < s.to
        /\ s = [appt |-> 0, staff |-> who[i], from |-> Window(items, plan, i, t).from, to |-> Window(items, plan, i, t).to]
  <2>1. items \in Seq(Items) /\ plan \in Groupings(items)
    BY <1>2, <1>4
  <2> HIDE DEF who
  <2>2. \A s \in Segments(0, items, plan, t, who) : \E i \in DOMAIN items :
          /\ s.staff = who[i] /\ s.from = t + Offset(items, plan, i) /\ s.to = s.from + Length(items[i])
          /\ s.from \in Int /\ s.to \in Int /\ s.from < s.to
          /\ s = [appt |-> 0, staff |-> who[i], from |-> Window(items, plan, i, t).from, to |-> Window(items, plan, i, t).to]
    <3> HIDE DEF segs
    <3> SUFFICES ASSUME NEW s \in Segments(0, items, plan, t, who)
                 PROVE  \E i \in DOMAIN items :
                          /\ s.staff = who[i] /\ s.from = t + Offset(items, plan, i) /\ s.to = s.from + Length(items[i])
                          /\ s.from \in Int /\ s.to \in Int /\ s.from < s.to
                          /\ s = [appt |-> 0, staff |-> who[i], from |-> Window(items, plan, i, t).from,
                                 to |-> Window(items, plan, i, t).to]
      OBVIOUS
    <3> QED BY <1>1, <2>1, SegmentsAre
  <2> QED BY <2>2
<1>6. segs # {}
  <2>1. 1 \in DOMAIN items
    BY <1>2
  <2> QED BY <2>1 DEF Segments
<1>7. \A i \in DOMAIN items : who[i] = items[i].staff
  OBVIOUS
<1> HIDE DEF segs, who
<1>8. ASSUME NEW s \in segs, NEW o \in segs, s # o, s.staff = o.staff PROVE ~Overlaps(s, o)
  <2>1. PICK i \in DOMAIN items :
          /\ s.staff = who[i] /\ s.from = t + Offset(items, plan, i) /\ s.to = s.from + Length(items[i])
          /\ s.from \in Int /\ s.to \in Int /\ s.from < s.to
          /\ s = [appt |-> 0, staff |-> who[i], from |-> Window(items, plan, i, t).from, to |-> Window(items, plan, i, t).to]
    BY <1>5
  <2>2. PICK j \in DOMAIN items :
          /\ o.staff = who[j] /\ o.from = t + Offset(items, plan, j) /\ o.to = o.from + Length(items[j])
          /\ o.from \in Int /\ o.to \in Int /\ o.from < o.to
          /\ o = [appt |-> 0, staff |-> who[j], from |-> Window(items, plan, j, t).from, to |-> Window(items, plan, j, t).to]
    BY <1>5
  <2>3. i # j
    BY <1>8, <2>1, <2>2
  <2>4. plan[i] # plan[j]
    BY <1>4, <1>7, <1>8, <2>1, <2>2, <2>3
  <2>5. plan[i] \in Nat /\ plan[j] \in Nat
    <3>1. DOMAIN items \subseteq Nat
      BY <1>2
    <3> QED BY <1>4, <3>1 DEF Groupings
  <2>6. /\ Offset(items, plan, i) \in Nat /\ Offset(items, plan, j) \in Nat
        /\ plan[i] < plan[j] => Offset(items, plan, i) + Length(items[i]) <= Offset(items, plan, j)
        /\ plan[j] < plan[i] => Offset(items, plan, j) + Length(items[j]) <= Offset(items, plan, i)
    BY <1>2, <1>4, RoundsApart
  <2>7. Length(items[i]) \in Nat /\ Length(items[j]) \in Nat
    BY <1>2, LengthIs
  <2> DEFINE a == Offset(items, plan, i)
             b == Offset(items, plan, j)
             c == Length(items[i])
             d == Length(items[j])
  <2> HIDE DEF a, b, c, d
  <2>8. a \in Nat /\ b \in Nat /\ c \in Nat /\ d \in Nat /\ (a + c <= b \/ b + d <= a)
    BY <2>4, <2>5, <2>6, <2>7 DEF a, b, c, d
  <2>9. s.from = t + a /\ s.to = (t + a) + c /\ o.from = t + b /\ o.to = (t + b) + d
    BY <2>1, <2>2 DEF a, b, c, d
  <2> QED BY <1>1, <2>8, <2>9 DEF Overlaps
<1>9. ASSUME NEW s \in segs
      PROVE  s.staff \in Staff /\ s.from \in Int /\ s.to \in Int /\ s.from < s.to
  BY <1>3, <1>5, <1>7
<1> DEFINE business == OfDay(hours)
           taken == {s \in segs : ~Free(query, s.staff, s)}
           blocked == {s \in segs : \E b \in BlocksOf(s.staff) : Overlaps(s, b)}
           outside == {s \in segs : ~Within(business, s)}
           off == {s \in segs : ~Within(RangesLess(s.staff, {}), s)}
           clear == taken = {} /\ blocked = {} /\ business # <<>> /\ outside = {} /\ off = {}
<1>10. Calendar /\ Booked
  BY DEF DayInv
<1>11. Warnings(query, segs) \subseteq {"PAST_TIME"} <=> clear
  <2> DEFINE late == \E s \in segs : s.from < now /\ \A o \in segs : s.from <= o.from
  <2>1. Warnings(query, segs) =
          (IF late THEN {"PAST_TIME"} ELSE {})
            \cup (IF taken # {} THEN {"STAFF_BUSY"} ELSE {})
            \cup (IF blocked # {} THEN {"TIME_BLOCKED"} ELSE {})
            \cup CASE business = <<>> -> {"CLOSED_DAY"}
                   [] business # <<>> /\ outside # {} -> {"OUTSIDE_BUSINESS_HOURS"}
                   [] business # <<>> /\ outside = {} /\ off # {} -> {"STAFF_OFF_SHIFT"}
                   [] OTHER -> {}
    BY DEF Warnings
  <2> DEFINE first == IF late THEN {"PAST_TIME"} ELSE {}
             second == IF taken # {} THEN {"STAFF_BUSY"} ELSE {}
             third == IF blocked # {} THEN {"TIME_BLOCKED"} ELSE {}
             fourth == CASE business = <<>> -> {"CLOSED_DAY"}
                         [] business # <<>> /\ outside # {} -> {"OUTSIDE_BUSINESS_HOURS"}
                         [] business # <<>> /\ outside = {} /\ off # {} -> {"STAFF_OFF_SHIFT"}
                         [] OTHER -> {}
  <2> HIDE DEF late, taken, blocked, business, outside, off
  <2>2. first \subseteq {"PAST_TIME"}
    OBVIOUS
  <2>3. second \subseteq {"PAST_TIME"} <=> taken = {}
    OBVIOUS
  <2>4. third \subseteq {"PAST_TIME"} <=> blocked = {}
    OBVIOUS
  <2>5. fourth \subseteq {"PAST_TIME"} <=> business # <<>> /\ outside = {} /\ off = {}
    <3>1. CASE business = <<>>
      BY <3>1
    <3>2. CASE business # <<>> /\ outside # {}
      BY <3>2
    <3>3. CASE business # <<>> /\ outside = {} /\ off # {}
      BY <3>3
    <3>4. CASE business # <<>> /\ outside = {} /\ off = {}
      BY <3>4
    <3> QED BY <3>1, <3>2, <3>3, <3>4
  <2>6. Warnings(query, segs) = first \cup second \cup third \cup fourth
    BY <2>1
  <2> HIDE DEF first, second, third, fourth
  <2> QED BY <2>2, <2>3, <2>4, <2>5, <2>6
<1>12. /\ business \in Seq(Proper) /\ InOrder(business)
       /\ \A u \in Int : In(ToSet(business), u) <=> In(hours, u)
  <2>1. IsFiniteSet(hours) /\ hours \subseteq Spans
    BY <1>10 DEF TimesAssumption, Calendar, Spans
  <2> QED BY <2>1, OfDayIs
<1> HIDE DEF business
<1>13. ASSUME NEW s \in segs
       PROVE  /\ Free(query, s.staff, s) <=> Idle(query, s.staff, s)
              /\ (~\E b \in BlocksOf(s.staff) : Overlaps(s, b)) <=> \A u \in Minutes(s) : ~In(BlocksOf(s.staff), u)
              /\ Within(business, s) <=> \A u \in Minutes(s) : In(hours, u)
              /\ Within(RangesLess(s.staff, {}), s) <=>
                   \A u \in Minutes(s) : In(hours, u) /\ (shift[s.staff].custom => In(shift[s.staff].rows, u))
  <2>1. Free(query, s.staff, s) <=> Idle(query, s.staff, s)
    BY <1>9, <1>10, FreeIsIdle
  <2>2. \A u \in Minutes(s) : u \in Int
    BY <1>9 DEF Minutes
  <2>3. (~\E b \in BlocksOf(s.staff) : Overlaps(s, b)) <=> \A u \in Minutes(s) : ~In(BlocksOf(s.staff), u)
    <3>1. \A b \in BlocksOf(s.staff) : b.from \in Int /\ b.to \in Int /\ b.from < b.to
      <4>1. BlocksOf(s.staff) \subseteq Proper
        BY <1>10, BlocksAre
      <4> QED BY <4>1 DEF Proper, Spans
    <3>2. \A b \in BlocksOf(s.staff) : Overlaps(s, b) <=> \E u \in Minutes(s) : u \in Minutes(b)
      BY <1>9, <3>1, OverlapIsMeeting
    <3>3. \A b \in BlocksOf(s.staff) : \A u \in Minutes(s) : u \in Minutes(b) <=> b.from <= u /\ u < b.to
      BY <2>2, <3>1 DEF Minutes
    <3> QED BY <3>2, <3>3 DEF In
  <2>4. Within(business, s) <=> \A u \in Minutes(s) : In(hours, u)
    <3>1. Within(business, s) <=> \A u \in Minutes(s) : In(ToSet(business), u)
      BY <1>9, <1>12, OrderedApart, WithinIs
    <3> QED BY <1>12, <2>2, <3>1
  <2>5. Within(RangesLess(s.staff, {}), s) <=>
          \A u \in Minutes(s) : In(hours, u) /\ (shift[s.staff].custom => In(shift[s.staff].rows, u))
    <3> DEFINE ranges == RangesLess(s.staff, {})
    <3>0. IsFiniteSet({}) /\ {} \subseteq Proper
      BY FS_EmptySet
    <3>1. /\ ranges \in Seq(Proper) /\ Apart(ToSet(ranges))
          /\ \A u \in Int : In(ToSet(ranges), u)
                <=> In(hours, u) /\ (shift[s.staff].custom => In(shift[s.staff].rows, u)) /\ ~In({}, u)
      BY <1>9, <1>10, <3>0, RangesLessIs
    <3>2. \A u : ~In({}, u)
      BY DEF In
    <3> HIDE DEF ranges
    <3>3. Within(ranges, s) <=> \A u \in Minutes(s) : In(ToSet(ranges), u)
      BY <1>9, <3>1, WithinIs
    <3> QED BY <2>2, <3>1, <3>2, <3>3 DEF ranges
  <2> QED BY <2>1, <2>3, <2>4, <2>5
<1>14. ASSUME NEW s \in segs
       PROVE  Whole(s.staff, s) <=>
                /\ \A u \in Minutes(s) : In(hours, u) /\ (shift[s.staff].custom => In(shift[s.staff].rows, u))
                /\ \A u \in Minutes(s) : ~In(BlocksOf(s.staff), u)
  BY DEF Whole, Available
<1>15. ASSUME business = <<>>, NEW s \in segs PROVE ~Whole(s.staff, s)
  <2>1. s.from \in Minutes(s) /\ s.from \in Int
    BY <1>9 DEF Minutes
  <2>2. ~In(ToSet(business), s.from)
    BY <1>15 DEF In, ToSet
  <2> QED BY <1>12, <2>1, <2>2 DEF Whole, Available
<1>16. clear <=> \A s \in segs : Whole(s.staff, s) /\ Idle(query, s.staff, s)
  <2>1. ASSUME clear, NEW s \in segs PROVE Whole(s.staff, s) /\ Idle(query, s.staff, s)
    <3>1. /\ Free(query, s.staff, s) /\ (~\E b \in BlocksOf(s.staff) : Overlaps(s, b))
          /\ Within(RangesLess(s.staff, {}), s)
      BY <2>1
    <3> QED BY <1>13, <1>14, <3>1
  <2>2. ASSUME \A s \in segs : Whole(s.staff, s) /\ Idle(query, s.staff, s) PROVE clear
    <3>1. business # <<>>
      BY <1>6, <1>15, <2>2
    <3>2. ASSUME NEW s \in segs
          PROVE  /\ Free(query, s.staff, s) /\ (~\E b \in BlocksOf(s.staff) : Overlaps(s, b))
                 /\ Within(business, s) /\ Within(RangesLess(s.staff, {}), s)
      BY <1>13, <1>14, <2>2
    <3> QED BY <3>1, <3>2
  <2> QED BY <2>1, <2>2
<1> HIDE DEF clear
<1>17. /\ \A s, o \in segs : s # o /\ s.staff = o.staff => ~Overlaps(s, o)
       /\ Warnings(query, segs) \subseteq {"PAST_TIME"}
            <=> \A s \in segs : Whole(s.staff, s) /\ Idle(query, s.staff, s)
  BY <1>8, <1>11, <1>16
<1> QED BY <1>17 DEF segs, items, plan, who

\* What somebody covers is a list of proper ranges, apart, of the minutes that any of them has.
LEMMA CoverageIs ==
  ASSUME TimesAssumption, Calendar, NEW staff, staff \subseteq Staff
  PROVE  /\ Coverage(staff) \in Seq(Proper) /\ Apart(ToSet(Coverage(staff)))
         /\ \A t \in Int : In(ToSet(Coverage(staff)), t) <=> \E s \in staff : Available(s, t)
<1> DEFINE sets == {ToSet(WorkingRanges(s)) : s \in staff}
           f == [s \in staff |-> ToSet(WorkingRanges(s))]
<1>1. IsFiniteSet(sets)
  <2>1. IsFiniteSet(staff)
    BY FS_Subset DEF TimesAssumption
  <2>2. f \in Surjection(staff, sets)
    BY DEF Surjection
  <2> HIDE DEF f, sets
  <2> QED BY <2>1, <2>2, FS_Surjection
<1>2. ASSUME NEW T \in sets PROVE IsFiniteSet(T) /\ T \subseteq Proper
  <2>1. PICK s \in staff : T = ToSet(WorkingRanges(s))
    OBVIOUS
  <2> DEFINE seq == WorkingRanges(s)
  <2>2. seq \in Seq(Proper)
    BY BlocksAre, RangesLessIs DEF WorkingRanges
  <2> HIDE DEF seq
  <2>3. seq \in Surjection(1 .. Len(seq), ToSet(seq))
    BY <2>2 DEF Surjection, ToSet
  <2>4. IsFiniteSet(1 .. Len(seq))
    <3>1. 1 \in Int /\ Len(seq) \in Int
      BY <2>2
    <3> QED BY <3>1, FS_Interval
  <2>5. ToSet(seq) \subseteq Proper
    BY <2>2 DEF ToSet
  <2> QED BY <2>1, <2>3, <2>4, <2>5, FS_Surjection DEF seq
<1>3. IsFiniteSet(UNION sets) /\ UNION sets \subseteq Proper
  <2> HIDE DEF sets
  <2> QED BY <1>1, <1>2, FS_UNION
<1>4. Coverage(staff) = MergeRanges(UNION sets)
  BY DEF Coverage
<1>5. \A t \in Int : In(UNION sets, t) <=> \E s \in staff : Available(s, t)
  <2>1. \A t \in Int : \A s \in staff : In(ToSet(WorkingRanges(s)), t) <=> Available(s, t)
    BY WorkingRangesExact
  <2>2. \A t \in Int : In(UNION sets, t) <=> \E s \in staff : In(ToSet(WorkingRanges(s)), t)
    BY DEF In
  <2> QED BY <2>1, <2>2
<1> HIDE DEF sets, f
<1>6. /\ Coverage(staff) \in Seq(Proper) /\ InOrder(Coverage(staff))
      /\ \A t \in Int : In(ToSet(Coverage(staff)), t) <=> In(UNION sets, t)
  BY <1>3, <1>4, MergedIs
<1>7. Apart(ToSet(Coverage(staff)))
  BY <1>6, OrderedApart
<1> QED BY <1>5, <1>6, <1>7

\* What the assistant suggests is whole in the hours of people who have nothing else.
LEMMA SuggestedAreWhole == TimesAssumption /\ DayInv => SuggestionsHold
<1> DEFINE q == [query EXCEPT !.moving = 0]
<1> SUFFICES ASSUME TimesAssumption, DayInv, query # NoQuery, NEW segs \in Suggestions(q), NEW s \in segs
             PROVE  Whole(s.staff, s) /\ Idle(q, s.staff, s)
  BY DEF SuggestionsHold
<1> DEFINE items == query.items
<1>1. Calendar /\ Booked /\ items \in Seq(Items) \ {<<>>} /\ q.items = items
  BY DEF DayInv, Asked
<1> HIDE DEF q, items
<1> DEFINE plan == Sequential(items)
           length == SuggestedLength(q)
<1>2. /\ length \in Nat \ {0}
      /\ \A i \in DOMAIN items : Offset(items, plan, i) + Length(items[i]) <= length
  BY <1>1, SequentialEnds
<1>3. plan \in Groupings(items) /\ DOMAIN plan = DOMAIN items
  BY <1>1, SequentialFits DEF Sequential
<1>4. ASSUME NEW staff, staff \subseteq Staff, NEW t \in SuggestedTimes(q, staff) PROVE t \in Int
  <2>1. PICK r \in ToSet(Coverage(staff)) : t \in Grid(r, length, 1, FALSE)
    BY <1>4 DEF SuggestedTimes
  <2>2. r \in Proper
    <3> DEFINE seq == Coverage(staff)
    <3>1. seq \in Seq(Proper)
      BY <1>1, <1>4, CoverageIs
    <3>2. r \in ToSet(seq)
      BY <2>1
    <3> HIDE DEF seq
    <3> QED BY <3>1, <3>2 DEF ToSet
  <2>3. t \in r.from .. r.to - 1 /\ r.from \in Int /\ r.to \in Int
    BY <2>1, <2>2 DEF Grid, Proper, Spans
  <2> QED BY <2>3
<1> HIDE DEF plan, length
<1>5. ASSUME NEW who, NEW t \in Int, segs = Segments(0, items, plan, t, who)
      PROVE  \E i \in DOMAIN items :
               /\ s.staff = who[i] /\ s.from = t + Offset(items, plan, i) /\ s.to = s.from + Length(items[i])
               /\ s.from \in Int /\ s.to \in Int /\ s.from < s.to
               /\ s.from = Window(items, plan, i, t).from /\ s.to = Window(items, plan, i, t).to
  BY <1>1, <1>3, <1>5, SegmentsAre
<1>6. ASSUME NEW p \in Staff, NEW w, w.from \in Int, w.to \in Int, w.from < w.to,
             Within(WorkingRanges(p), w), Free(q, p, w)
      PROVE  Whole(p, w) /\ Idle(q, p, w)
  BY <1>1, <1>6, WorkingRangesExact, FreeIsIdle
<1> DEFINE w(t) == Period(t, t + length)
<1>7. ASSUME NEW t \in SuggestedTimes(q, CanAll(q)), NEW p \in CanAll(q), Within(WorkingRanges(p), w(t)), Free(q, p, w(t)),
             segs = Segments(0, items, plan, t, [i \in DOMAIN plan |-> p])
      PROVE  Whole(s.staff, s) /\ Idle(q, s.staff, s)
  <2>1. t \in Int /\ p \in Staff
    BY <1>4 DEF CanAll
  <2>2. w(t).from = t /\ w(t).to = t + length /\ w(t).to \in Int /\ w(t).from < w(t).to
    BY <1>2, <2>1 DEF Period
  <2>3. PICK i \in DOMAIN items :
          /\ s.staff = [k \in DOMAIN plan |-> p][i] /\ s.from = t + Offset(items, plan, i) /\ s.to = s.from + Length(items[i])
          /\ s.from \in Int /\ s.to \in Int /\ s.from < s.to
    BY <1>5, <1>7, <2>1
  <2>4. s.staff = p
    BY <1>3, <2>3
  <2>5. Whole(p, w(t)) /\ Idle(q, p, w(t))
    BY <1>6, <1>7, <2>1, <2>2
  <2>6. Offset(items, plan, i) \in Nat /\ Length(items[i]) \in Nat
    BY <1>1, <1>3, RoundsApart, LengthIs
  <2>7. s.from >= t /\ s.to <= t + length
    <3> DEFINE a == Offset(items, plan, i)
               b == Length(items[i])
    <3>1. a \in Nat /\ b \in Nat /\ a + b <= length /\ s.from = t + a /\ s.to = s.from + b
      BY <1>2, <2>3, <2>6 DEF plan
    <3> HIDE DEF a, b
    <3> QED BY <1>2, <2>1, <3>1
  <2>8. \A u \in Minutes(s) : u \in Minutes(w(t))
    BY <1>2, <2>1, <2>2, <2>3, <2>7 DEF Minutes
  <2> QED BY <2>4, <2>5, <2>8 DEF Whole, Idle
<1> DEFINE Able(t, i) == {p \in Services[items[i].service].by :
                            Within(WorkingRanges(p), Window(items, plan, i, t)) /\ Free(q, p, Window(items, plan, i, t))}
<1>8. ASSUME NEW t \in SuggestedTimes(q, Staff), \A i \in DOMAIN plan : Able(t, i) # {},
             segs = Segments(0, items, plan, t, [i \in DOMAIN plan |-> Min(Able(t, i))])
      PROVE  Whole(s.staff, s) /\ Idle(q, s.staff, s)
  <2>1. t \in Int
    BY <1>4
  <2>2. PICK i \in DOMAIN items :
          /\ s.staff = [k \in DOMAIN plan |-> Min(Able(t, k))][i]
          /\ s.from \in Int /\ s.to \in Int /\ s.from < s.to
          /\ s.from = Window(items, plan, i, t).from /\ s.to = Window(items, plan, i, t).to
    BY <1>5, <1>8, <2>1
  <2>3. s.staff = Min(Able(t, i)) /\ Able(t, i) # {}
    BY <1>3, <1>8, <2>2
  <2>4. Able(t, i) \subseteq Staff
    <3>1. items[i] \in Items
      BY <1>1, <2>2
    <3>2. items[i].service \in DOMAIN Services
      BY <3>1 DEF Items
    <3> QED BY <3>2 DEF TimesAssumption
  <2> DEFINE p == s.staff
             v == Window(items, plan, i, t)
  <2>5. p \in Able(t, i)
    <3>1. IsFiniteSet(Able(t, i)) /\ Able(t, i) \subseteq Int
      <4>1. IsFiniteSet(Staff) /\ Staff \subseteq Int
        BY DEF TimesAssumption
      <4> HIDE DEF Able
      <4> QED BY <2>4, <4>1, FS_Subset
    <3> HIDE DEF Able
    <3> QED BY <2>3, <3>1, Extremes
  <2>6. Within(WorkingRanges(p), v) /\ Free(q, p, v) /\ p \in Staff
    BY <2>4, <2>5
  <2>7. Whole(p, v) /\ Idle(q, p, v)
    BY <1>6, <2>2, <2>6
  <2>8. Minutes(v) = Minutes(s)
    BY <2>2 DEF Minutes
  <2> QED BY <2>7, <2>8 DEF Whole, Idle
<1>9. \/ \E t \in SuggestedTimes(q, CanAll(q)) : \E p \in CanAll(q) :
           /\ Within(WorkingRanges(p), w(t)) /\ Free(q, p, w(t))
           /\ segs = Segments(0, items, plan, t, [i \in DOMAIN plan |-> p])
      \/ \E t \in SuggestedTimes(q, Staff) : segs \in Chain(q, t)
  <2>1. CASE CanAll(q) # {}
    BY <1>1, <2>1 DEF Suggestions, plan, length
  <2>2. CASE CanAll(q) = {}
    BY <1>1, <2>2 DEF Suggestions
  <2> QED BY <2>1, <2>2
<1>10. ASSUME NEW t, segs \in Chain(q, t)
       PROVE  /\ \A i \in DOMAIN plan : Able(t, i) # {}
              /\ segs = Segments(0, items, plan, t, [i \in DOMAIN plan |-> Min(Able(t, i))])
  BY <1>1, <1>10 DEF Chain, plan
<1> HIDE DEF w, Able
<1> QED BY <1>7, <1>8, <1>9, <1>10

Later(c, time, slot, p) == IF slot # {} THEN slot ELSE Evaluated(c, time, p)

\* What is found at a moment is what the first plan with something finds.
LEMMA FirstOfPlans ==
  ASSUME NEW c, NEW n \in Nat, DOMAIN c.plans = 1 .. n, NEW time
  PROVE  \/ FirstSlot(c, time) = {} /\ \A p \in 1 .. n : Evaluated(c, time, p) = {}
         \/ \E p \in 1 .. n : /\ FirstSlot(c, time) = Evaluated(c, time, p) /\ Evaluated(c, time, p) # {}
                             /\ \A o \in 1 .. p - 1 : Evaluated(c, time, o) = {}
<1> DEFINE start == {}
           a == [p \in DOMAIN c.plans |-> p]
           IsRun(t) == t = [s \in SUBSET DOMAIN a |->
                              IF s = {} THEN start ELSE Later(c, time, t[s \ {Max(s)}], a[Max(s)])]
           run == CHOOSE t : IsRun(t)
           whole == FirstSlot(c, time)
<1>1. whole = run[DOMAIN a]
  BY DEF FirstSlot, FoldLeft, MapThenFoldSet, Later
<1> HIDE DEF whole
<1>2. n \in Nat /\ DOMAIN a = 1 .. n /\ \A k \in 1 .. n : a[k] = k
  OBVIOUS
<1> HIDE DEF a
<1> DEFINE V == {{}} \cup {Evaluated(c, time, p) : p \in 1 .. n}
           step == [p \in V \X (1 .. n) |-> Later(c, time, p[1], a[p[2]])]
<1>3. start \in V /\ step \in [V \X (1 .. n) -> V]
  BY <1>2 DEF Later
<1>4. PICK table \in [SUBSET (1 .. n) -> V] : Runs(table, n, start, step)
  <2>1. start \in V /\ step \in [V \X (1 .. n) -> V]
    BY <1>3
  <2> HIDE DEF start, V, step
  <2> QED BY <1>2, <2>1, RunExists
<1>5. \A s \in SUBSET (1 .. n) :
        table[s] = IF s = {} THEN start ELSE Later(c, time, table[s \ {Max(s)}], a[Max(s)])
  <2> SUFFICES ASSUME NEW s \in SUBSET (1 .. n)
               PROVE  table[s] = IF s = {} THEN start ELSE Later(c, time, table[s \ {Max(s)}], a[Max(s)])
    OBVIOUS
  <2>1. table[s] = IF s = {} THEN start ELSE step[<<table[s \ {Max(s)}], Max(s)>>]
    BY <1>4 DEF Runs
  <2>2. s # {} => <<table[s \ {Max(s)}], Max(s)>> \in V \X (1 .. n)
    <3>1. s # {} => Max(s) \in s
      BY <1>4 DEF Runs
    <3> HIDE DEF V
    <3> QED BY <3>1
  <2> HIDE DEF start
  <2> QED BY <2>1, <2>2
<1>6. IsRun(table)
  <2>1. table = [s \in SUBSET (1 .. n) |-> table[s]]
    OBVIOUS
  <2> QED BY <1>2, <1>5, <2>1
<1>7. IsRun(run)
  <2> HIDE DEF IsRun
  <2> QED BY <1>6
<1>8. run[1 .. n] = table[1 .. n]
  <2> HIDE DEF run
  <2>1. run[{}] = table[{}]
    BY <1>6, <1>7
  <2>2. ASSUME NEW s \in SUBSET (1 .. n), s # {}, run[s \ {Max(s)}] = table[s \ {Max(s)}] PROVE run[s] = table[s]
    <3> HIDE DEF start
    <3>1. run[s] = Later(c, time, run[s \ {Max(s)}], a[Max(s)])
      BY <1>2, <1>7, <2>2
    <3>2. table[s] = Later(c, time, table[s \ {Max(s)}], a[Max(s)])
      BY <1>5, <2>2
    <3> QED BY <2>2, <3>1, <3>2
  <2> QED BY <1>2, <2>1, <2>2, SameRuns
<1> HIDE DEF run, IsRun
<1>9. table[1 .. 0] = start
  BY <1>4 DEF Runs
<1>10. \A k \in 1 .. n : table[1 .. k] = Later(c, time, table[1 .. k - 1], a[k])
  <2> SUFFICES ASSUME NEW k \in 1 .. n PROVE table[1 .. k] = Later(c, time, table[1 .. k - 1], a[k])
    OBVIOUS
  <2>1. 1 .. k - 1 \in SUBSET (1 .. n)
    BY <1>2
  <2>2. <<table[1 .. k - 1], k>> \in V \X (1 .. n)
    <3> HIDE DEF V
    <3> QED BY <2>1
  <2> QED BY <1>4, <2>2 DEF Runs
<1>11. whole = table[1 .. n]
  BY <1>1, <1>2, <1>8
<1> DEFINE Found(k) ==
             \/ table[1 .. k] = {} /\ \A p \in 1 .. k : Evaluated(c, time, p) = {}
             \/ \E p \in 1 .. k : /\ table[1 .. k] = Evaluated(c, time, p) /\ Evaluated(c, time, p) # {}
                                 /\ \A o \in 1 .. p - 1 : Evaluated(c, time, o) = {}
           good == {k \in 0 .. n : Found(k)}
<1>12. 0 \in good
  BY <1>9
<1>13. ASSUME NEW k \in 1 .. n, k - 1 \in good PROVE k \in good
  <2>0. PICK t : t = table[1 .. k - 1]
    OBVIOUS
  <2>1. table[1 .. k] = Later(c, time, t, k)
    BY <1>2, <1>10, <2>0
  <2>2. CASE t = {}
    <3>1. \A p \in 1 .. k - 1 : Evaluated(c, time, p) = {}
      BY <1>13, <2>0, <2>2
    <3>2. table[1 .. k] = Evaluated(c, time, k)
      BY <2>1, <2>2 DEF Later
    <3>3. k \in 1 .. k /\ \A p \in 1 .. k : p = k \/ p \in 1 .. k - 1
      OBVIOUS
    <3> QED BY <3>1, <3>2, <3>3
  <2>3. CASE t # {}
    <3>1. PICK p \in 1 .. k - 1 : /\ t = Evaluated(c, time, p) /\ Evaluated(c, time, p) # {}
                                  /\ \A o \in 1 .. p - 1 : Evaluated(c, time, o) = {}
      BY <1>13, <2>0, <2>3
    <3>2. table[1 .. k] = t /\ p \in 1 .. k
      BY <2>1, <2>3 DEF Later
    <3> QED BY <3>1, <3>2
  <2> QED BY <2>2, <2>3
<1>14. \A k \in 0 .. n : k \in good
  <2> HIDE DEF good
  <2> QED BY <1>12, <1>13, ByNumber
<1>15. Found(n)
  <2>1. n \in 0 .. n
    OBVIOUS
  <2> HIDE DEF Found
  <2> QED BY <1>14, <2>1
<1> QED BY <1>11, <1>15 DEF whole

\* A slot has one of the ways of fitting the services, at the moment it was looked for.
LEMMA EvaluatedIs ==
  ASSUME NEW c, NEW time, NEW p, NEW slot \in Evaluated(c, time, p)
  PROVE  slot.start = time /\ slot.plan = c.plans[p]
<1>1. PICK entire \in BOOLEAN : slot \in SlotOf(c, time, p, entire)
  BY DEF Evaluated
<1> QED BY <1>1 DEF SlotOf

\* What all of it takes is a number.
LEMMA TotalIs ==
  ASSUME TimesAssumption, NEW items \in Seq(Items) \ {<<>>}, NEW plan \in Groupings(items)
  PROVE  TotalLength(items, plan) \in Nat
<1> DEFINE n == Len(items)
<1>1. n \in Nat /\ n # 0 /\ DOMAIN items = 1 .. n
  OBVIOUS
<1> HIDE DEF n
<1>2. DOMAIN plan = 1 .. n /\ \A i \in 1 .. n : plan[i] \in Int
  BY <1>1 DEF Groupings
<1>3. ToSet(plan) = {plan[i] : i \in 1 .. n}
  BY <1>2 DEF ToSet
<1>4. IsFiniteSet(ToSet(plan)) /\ ToSet(plan) \subseteq Int
  <2>1. 1 .. n \in SUBSET (1 .. n)
    OBVIOUS
  <2> DEFINE T == {plan[i] : i \in 1 .. n}
  <2>2. IsFiniteSet(T) /\ T \subseteq Int
    BY <1>1, <1>2, <2>1, NumbersOf
  <2> QED BY <1>3, <2>2
<1>5. ToSet(plan) # {}
  <2>1. 1 \in DOMAIN plan
    BY <1>1, <1>2
  <2> QED BY <2>1 DEF ToSet
<1>6. Rounds(plan) \in ToSet(plan)
  BY <1>4, <1>5, Extremes DEF Rounds
<1>7. PICK i \in DOMAIN items : Rounds(plan) = plan[i]
  BY <1>1, <1>3, <1>6
<1>8. Total(items, plan, plan[i]) \in Nat
  BY RoundsApart
<1> QED BY <1>7, <1>8 DEF TotalLength

\* What may attend is staff.
LEMMA TeamIs ==
  ASSUME TimesAssumption, NEW q, q.items \in Seq(Items)
  PROVE  Team(q) \subseteq Staff
<1> SUFFICES ASSUME NEW i \in DOMAIN q.items PROVE Working(q.items[i]) \subseteq Staff
  BY DEF Team
<1>1. q.items[i] \in Items
  OBVIOUS
<1>2. q.items[i].service \in DOMAIN Services
  BY <1>1 DEF Items
<1>3. Services[q.items[i].service].by \subseteq Staff
  BY <1>2 DEF TimesAssumption
<1> QED BY <1>3 DEF Working, StaffFor

\* What a query looks through are moments of the day.
LEMMA TimesAre ==
  ASSUME TimesAssumption, Calendar, Booked, NEW q, q.items \in Seq(Items) \ {<<>>}
  PROVE  CandidateTimes(Context(q)) \subseteq Int
<1> DEFINE c == Context(q)
           items == q.items
           plans == ExecutionPlans(items)
           length == TotalLength(items, plans[1])
<1> SUFFICES ASSUME NEW t \in CandidateTimes(c) PROVE t \in Int
  OBVIOUS
<1>1. items \in Seq(Items) /\ items # <<>>
  OBVIOUS
<1>2. c.q = q /\ c.plans = plans /\ c.busy = Others(q)
  BY DEF Context
<1> HIDE DEF c
<1>3. length \in Nat
  <2>1. plans \in Seq(Groupings(items)) /\ Sequential(items) \in ToSet(plans)
    BY <1>1, PlansAre
  <2>2. plans[1] \in Groupings(items)
    <3> HIDE DEF plans
    <3> QED BY <2>1 DEF ToSet
  <2> HIDE DEF plans, items
  <2> QED BY <1>1, <2>2, TotalIs
<1> HIDE DEF plans
<1>4. PICK r \in ToSet(Coverage(Team(q))) :
        t \in Grid(r, length, Step, TRUE) \cup {u \in {r.to - length} : u >= r.from}
                \cup {u \in Anchors(c) : r.from <= u /\ u < r.to}
  BY <1>2 DEF CandidateTimes
<1> HIDE DEF length
<1>5. r.from \in Int /\ r.to \in Int
  <2>1. Team(q) \subseteq Staff
    BY <1>1, TeamIs
  <2>2. r \in Proper
    <3> DEFINE seq == Coverage(Team(q))
    <3>1. seq \in Seq(Proper)
      BY <2>1, CoverageIs
    <3>2. r \in ToSet(seq)
      BY <1>4
    <3> HIDE DEF seq
    <3> QED BY <3>1, <3>2 DEF ToSet
  <2> QED BY <2>2 DEF Proper, Spans
<1>6. \A u \in Anchors(c) : u \in Int
  BY <1>2 DEF Anchors, Others, Booked
<1>7. \A u \in Grid(r, length, Step, TRUE) : u \in Int
  BY <1>5 DEF Grid
<1>8. r.to - length \in Int
  BY <1>3, <1>5
<1> QED BY <1>4, <1>6, <1>7, <1>8

\* What is offered begins at some time, with one of the ways of fitting the services.
LEMMA SlotsAre ==
  ASSUME TimesAssumption, Calendar, Booked, NEW q, q.items \in Seq(Items) \ {<<>>}, NEW slot \in Slots(q)
  PROVE  slot.start \in Int /\ slot.plan \in Groupings(q.items)
<1> DEFINE c == Context(q)
           items == q.items
           plans == ExecutionPlans(items)
           n == Len(plans)
<1>1. items \in Seq(Items) /\ items # <<>>
  OBVIOUS
<1>2. c.plans = plans
  BY DEF Context
<1>3. PICK t \in CandidateTimes(c) : slot \in FirstSlot(c, t)
  <2> HIDE DEF c
  <2> QED BY DEF Slots, c
<1>3a. t \in Int
  BY TimesAre
<1> HIDE DEF c
<1>4. plans \in Seq(Groupings(items)) /\ Sequential(items) \in ToSet(plans)
  BY <1>1, PlansAre
<1>5. n \in Nat /\ DOMAIN plans = 1 .. n /\ n # 0
  <2> HIDE DEF plans
  <2> QED BY <1>4 DEF ToSet
<1>6. \A p \in 1 .. n : plans[p] \in Groupings(items)
  <2> HIDE DEF plans
  <2> QED BY <1>4, <1>5
<1> HIDE DEF items, plans, n
<1>7. PICK p \in 1 .. n : slot \in Evaluated(c, t, p)
  <2> DEFINE first == FirstSlot(c, t)
  <2>1. \/ first = {}
        \/ \E p \in 1 .. n : first = Evaluated(c, t, p)
    BY <1>2, <1>5, FirstOfPlans
  <2>2. first # {} /\ slot \in first
    BY <1>3
  <2> HIDE DEF first
  <2> QED BY <2>1, <2>2
<1>8. slot.start = t /\ slot.plan = plans[p]
  BY <1>2, <1>7, EvaluatedIs
<1> QED BY <1>3a, <1>6, <1>8 DEF items

-----------------------------------------------------------------------------
(* People apart for what happens at once *)

\* What may be asked of a search, and what it comes to.
Searches(cands) == [item : DOMAIN cands, left : SUBSET Staff]
Takings(cands) == [Staff -> {0} \cup DOMAIN cands]
Outcomes(cands) == [ok : BOOLEAN, taken : Takings(cands), left : SUBSET Staff]

\* What one step of a search comes to, from what others do.
Asking(cands, taken, seat, c) ==
  LET s == First(cands, c.item, c.left)
      left == c.left \ {s}
      freed == IF taken[s] = 0 THEN [ok |-> TRUE, taken |-> taken, left |-> left]
               ELSE seat[[item |-> taken[s], left |-> left]]
  IN IF Offers(cands, c.item, c.left) = {} THEN [ok |-> FALSE, taken |-> taken, left |-> c.left]
     ELSE IF freed.ok THEN [freed EXCEPT !.taken[s] = c.item]
     ELSE seat[[item |-> c.item, left |-> freed.left]]

CandLists(cands) == \A i \in DOMAIN cands : i \in Nat \ {0} /\ cands[i] \in Seq(Staff)

\* The first of those who can is one of them, when there is one.
LEMMA FirstIs ==
  ASSUME NEW cands, CandLists(cands), NEW i \in DOMAIN cands, NEW S
  PROVE  /\ Offers(cands, i, S) = {} <=> ToSet(cands[i]) \cap S = {}
         /\ Offers(cands, i, S) # {} => First(cands, i, S) \in S /\ First(cands, i, S) \in ToSet(cands[i])
<1> DEFINE D == Offers(cands, i, S)
           list == cands[i]
<1>1. list \in Seq(Staff) /\ DOMAIN list = 1 .. Len(list) /\ Len(list) \in Nat
  BY DEF CandLists
<1>2. D = {k \in DOMAIN list : list[k] \in S}
  BY DEF Offers
<1>3. D = {} <=> ToSet(list) \cap S = {}
  BY <1>2 DEF ToSet
<1>4. IsFiniteSet(D) /\ D \subseteq Int
  <2>1. 1 \in Int /\ Len(list) \in Int
    BY <1>1
  <2>2. IsFiniteSet(DOMAIN list)
    BY <1>1, <2>1, FS_Interval
  <2>3. D \subseteq DOMAIN list
    BY <1>2
  <2>4. IsFiniteSet(D)
    BY <2>2, <2>3, FS_Subset
  <2> QED BY <1>1, <2>3, <2>4
<1>5. ASSUME D # {} PROVE Min(D) \in D
  <2> HIDE DEF D
  <2> QED BY <1>4, <1>5, Extremes
<1>6. First(cands, i, S) = list[Min(D)]
  BY DEF First
<1>7. ASSUME D # {} PROVE list[Min(D)] \in S /\ list[Min(D)] \in ToSet(list)
  <2>1. PICK k : k = Min(D) /\ k \in D
    BY <1>5, <1>7
  <2>2. k \in DOMAIN list /\ list[k] \in S
    BY <2>1 DEF Offers
  <2>3. list[k] \in S /\ list[k] \in ToSet(list)
    BY <2>2 DEF ToSet
  <2> HIDE DEF D, list
  <2> QED BY <2>1, <2>3
<1> QED BY <1>3, <1>6, <1>7

\* A step of a search asks only of fewer people.
LEMMA AskingIs ==
  ASSUME NEW cands, CandLists(cands), NEW taken \in Takings(cands),
         NEW f \in [Searches(cands) -> Outcomes(cands)], NEW c \in Searches(cands),
         \A d \in Searches(cands) : d.left \subseteq c.left /\ d.left # c.left => f[d].left \subseteq d.left
  PROVE  /\ Asking(cands, taken, f, c) \in Outcomes(cands)
         /\ Asking(cands, taken, f, c).left \subseteq c.left
         /\ \A g : (\A d \in Searches(cands) : d.left \subseteq c.left /\ d.left # c.left => g[d] = f[d])
              => Asking(cands, taken, g, c) = Asking(cands, taken, f, c)
<1> DEFINE s == First(cands, c.item, c.left)
           left == c.left \ {s}
           d == [item |-> taken[s], left |-> left]
           freed(h) == IF taken[s] = 0 THEN [ok |-> TRUE, taken |-> taken, left |-> left] ELSE h[d]
           e(h) == [item |-> c.item, left |-> freed(h).left]
           none == Offers(cands, c.item, c.left) = {}
           failed == [ok |-> FALSE, taken |-> taken, left |-> c.left]
           moved(h) == [freed(h) EXCEPT !.taken[s] = c.item]
<1>1. c.item \in DOMAIN cands /\ c.left \subseteq Staff
  BY DEF Searches
<1>2. \A h : Asking(cands, taken, h, c) = IF none THEN failed ELSE IF freed(h).ok THEN moved(h) ELSE h[e(h)]
  BY DEF Asking
<1>3. CASE none
  <2>1. failed \in Outcomes(cands) /\ failed.left = c.left
    BY <1>1 DEF Outcomes
  <2> HIDE DEF failed, none, moved, e, freed
  <2> QED BY <1>2, <1>3, <2>1
<1>4. CASE ~none
  <2>1. s \in c.left /\ s \in Staff
    BY <1>1, <1>4, FirstIs
  <2> HIDE DEF s, none
  <2>2. taken[s] \in {0} \cup DOMAIN cands
    BY <2>1 DEF Takings
  <2>3. left \subseteq c.left /\ left # c.left /\ left \in SUBSET Staff
    BY <1>1, <2>1
  <2>4. taken[s] # 0 => d \in Searches(cands) /\ d.left = left
    BY <2>2, <2>3 DEF Searches
  <2>5. freed(f) \in Outcomes(cands) /\ freed(f).left \subseteq left
    <3>1. CASE taken[s] = 0
      BY <2>3, <3>1 DEF Outcomes
    <3>2. CASE taken[s] # 0
      <4>1. d \in Searches(cands) /\ d.left = left
        BY <2>4, <3>2
      <4> HIDE DEF left, d
      <4>2. f[d] \in Outcomes(cands) /\ f[d].left \subseteq left
        BY <2>3, <4>1
      <4> QED BY <3>2, <4>2
    <3> QED BY <3>1, <3>2
  <2>6. \A g : (\A b \in Searches(cands) : b.left \subseteq c.left /\ b.left # c.left => g[b] = f[b]) => freed(g) = freed(f)
    <3> HIDE DEF left, d
    <3> QED BY <2>3, <2>4
  <2> HIDE DEF freed
  <2>7. e(f) \in Searches(cands) /\ e(f).left \subseteq c.left /\ e(f).left # c.left /\ e(f).left \subseteq left
    <3>1. freed(f).left \in SUBSET Staff
      BY <2>5 DEF Outcomes
    <3> QED BY <1>1, <2>1, <2>3, <2>5, <3>1 DEF Searches
  <2>8. moved(f) \in Outcomes(cands) /\ moved(f).left = freed(f).left
    <3>1. PICK r \in Outcomes(cands) : r = freed(f)
      BY <2>5
    <3>2. [r EXCEPT !.taken[s] = c.item] \in Outcomes(cands) /\ [r EXCEPT !.taken[s] = c.item].left = r.left
      <4>1. r.taken \in Takings(cands)
        BY DEF Outcomes
      <4>2. [r.taken EXCEPT ![s] = c.item] \in Takings(cands)
        BY <1>1, <4>1 DEF Takings
      <4> QED BY <4>2 DEF Outcomes
    <3> QED BY <3>1, <3>2
  <2>9. f[e(f)] \in Outcomes(cands) /\ f[e(f)].left \subseteq e(f).left
    <3> HIDE DEF e
    <3> QED BY <2>7
  <2>10. Asking(cands, taken, f, c) \in Outcomes(cands) /\ Asking(cands, taken, f, c).left \subseteq c.left
    <3> HIDE DEF moved, left, failed
    <3>1. e(f).left = freed(f).left
      OBVIOUS
    <3> HIDE DEF e
    <3> QED BY <1>2, <1>4, <2>3, <2>5, <2>7, <2>8, <2>9, <3>1
  <2>11. ASSUME NEW g, \A b \in Searches(cands) : b.left \subseteq c.left /\ b.left # c.left => g[b] = f[b]
         PROVE  Asking(cands, taken, g, c) = Asking(cands, taken, f, c)
    <3>1. freed(g) = freed(f)
      BY <2>6, <2>11
    <3>2. e(g) = e(f) /\ moved(g) = moved(f)
      BY <3>1
    <3> HIDE DEF e, moved, failed
    <3>3. g[e(g)] = f[e(f)]
      BY <2>7, <2>11, <3>2
    <3> QED BY <1>2, <3>1, <3>2, <3>3
  <2> QED BY <2>10, <2>11
<1> QED BY <1>3, <1>4

\* There is such a search, and it asks nobody that it could not.
LEMMA SeatIs ==
  ASSUME IsFiniteSet(Staff), NEW cands, CandLists(cands), NEW taken \in Takings(cands)
  PROVE  /\ Seat(cands, taken) \in [Searches(cands) -> Outcomes(cands)]
         /\ \A c \in Searches(cands) : /\ Seat(cands, taken)[c] = Asking(cands, taken, Seat(cands, taken), c)
                                       /\ Seat(cands, taken)[c].left \subseteq c.left
<1> DEFINE S == Searches(cands)
           O == Outcomes(cands)
           Right(f, c) == f[c] = Asking(cands, taken, f, c) /\ f[c].left \subseteq c.left
           done == {n \in Nat : \E f \in [S -> O] : \A c \in S : Cardinality(c.left) < n => Right(f, c)}
           N == Cardinality(Staff) + 1
           IsSeat(f) == f = [c \in S |-> Asking(cands, taken, f, c)]
           seat == CHOOSE f : IsSeat(f)
<1>1. \A c \in S : c.left \subseteq Staff /\ IsFiniteSet(c.left) /\ Cardinality(c.left) \in Nat /\ Cardinality(c.left) < N
  <2>1. \A T \in SUBSET Staff : IsFiniteSet(T) /\ Cardinality(T) \in Nat /\ Cardinality(T) <= Cardinality(Staff)
    BY FS_Subset, FS_CardinalityType
  <2>2. Cardinality(Staff) \in Nat
    BY FS_CardinalityType
  <2>3. \A c \in S : c.left \in SUBSET Staff
    BY DEF Searches
  <2> QED BY <2>1, <2>2, <2>3
<1>1a. N \in Nat
  BY FS_CardinalityType
<1>2. \A c, d \in S : d.left \subseteq c.left /\ d.left # c.left => Cardinality(d.left) < Cardinality(c.left)
  BY <1>1, FS_Subset
<1>3. 0 \in done
  <2> DEFINE f == [c \in S |-> [ok |-> FALSE, taken |-> taken, left |-> c.left]]
  <2>1. f \in [S -> O]
    <3>1. \A c \in S : [ok |-> FALSE, taken |-> taken, left |-> c.left] \in O
      BY <1>1 DEF Outcomes
    <3> QED BY <3>1
  <2>2. \A c \in S : ~(Cardinality(c.left) < 0)
    BY <1>1
  <2> HIDE DEF f, S, O, Right
  <2> QED BY <2>1, <2>2
<1>4. ASSUME NEW n \in 1 .. N, n - 1 \in done PROVE n \in done
  <2>0. n \in Nat
    OBVIOUS
  <2>1. PICK f \in [S -> O] : \A c \in S : Cardinality(c.left) < n - 1 => Right(f, c)
    BY <1>4
  <2> DEFINE g == [c \in S |-> IF Cardinality(c.left) < n THEN Asking(cands, taken, f, c) ELSE f[c]]
  <2>2. ASSUME NEW c \in S, Cardinality(c.left) < n
        PROVE  \A d \in S : d.left \subseteq c.left /\ d.left # c.left => Right(f, d)
    <3> SUFFICES ASSUME NEW d \in S, d.left \subseteq c.left, d.left # c.left PROVE Right(f, d)
      OBVIOUS
    <3>1. Cardinality(d.left) < n - 1
      BY <1>1, <1>2, <2>0, <2>2
    <3> QED BY <2>1, <3>1
  <2>3. ASSUME NEW c \in S, Cardinality(c.left) < n
        PROVE  /\ Asking(cands, taken, f, c) \in O
               /\ Asking(cands, taken, f, c).left \subseteq c.left
               /\ \A h : (\A d \in S : d.left \subseteq c.left /\ d.left # c.left => h[d] = f[d])
                            => Asking(cands, taken, h, c) = Asking(cands, taken, f, c)
    BY <2>2, <2>3, AskingIs
  <2>4. g \in [S -> O]
    <3> HIDE DEF S, O
    <3> QED BY <2>3
  <2>5. ASSUME NEW c \in S, Cardinality(c.left) < n PROVE Right(g, c)
    <3>1. \A d \in S : d.left \subseteq c.left /\ d.left # c.left => g[d] = f[d]
      <4> SUFFICES ASSUME NEW d \in S, d.left \subseteq c.left, d.left # c.left PROVE g[d] = f[d]
        OBVIOUS
      <4>1. Right(f, d)
        BY <2>2, <2>5
      <4> HIDE DEF S, O
      <4> QED BY <4>1
    <3>2. g[c] = Asking(cands, taken, f, c)
      <4> HIDE DEF S, O
      <4> QED BY <2>5
    <3> HIDE DEF g
    <3>3. Asking(cands, taken, g, c) = Asking(cands, taken, f, c)
      BY <2>3, <2>5, <3>1
    <3> QED BY <2>3, <2>5, <3>2, <3>3
  <2> HIDE DEF g, S, O, Right
  <2> QED BY <2>0, <2>4, <2>5
<1>5. \A k \in 0 .. N : k \in done
  <2> HIDE DEF done, N
  <2> QED BY <1>1a, <1>3, <1>4, ByNumber
<1>6. PICK f \in [S -> O] : \A c \in S : Right(f, c)
  <2>1. N \in done
    <3> HIDE DEF done
    <3> QED BY <1>1a, <1>5
  <2> HIDE DEF S, O, Right
  <2> QED BY <1>1, <2>1
<1>7. IsSeat(f)
  <2>1. f = [c \in S |-> f[c]]
    OBVIOUS
  <2> HIDE DEF S
  <2> QED BY <1>6, <2>1
<1>8. IsSeat(seat)
  <2> HIDE DEF IsSeat
  <2> QED BY <1>7
<1>9. Seat(cands, taken) = seat
  BY DEF Seat, Asking, Searches
<1> HIDE DEF seat
<1>10. \A c \in S : seat[c] = f[c]
  <2> DEFINE same == {n \in Nat : \A c \in S : Cardinality(c.left) < n => seat[c] = f[c]}
  <2>1. 0 \in same
    BY <1>1
  <2>2. ASSUME NEW n \in 1 .. N, n - 1 \in same PROVE n \in same
    <3> SUFFICES ASSUME NEW c \in S, Cardinality(c.left) < n PROVE seat[c] = f[c]
      OBVIOUS
    <3>1. \A d \in S : d.left \subseteq c.left /\ d.left # c.left => seat[d] = f[d]
      <4> SUFFICES ASSUME NEW d \in S, d.left \subseteq c.left, d.left # c.left PROVE seat[d] = f[d]
        OBVIOUS
      <4>1. Cardinality(d.left) < n - 1
        BY <1>1, <1>2
      <4> QED BY <2>2, <4>1
    <3>2. Asking(cands, taken, seat, c) = Asking(cands, taken, f, c)
      <4>1. \A d \in S : d.left \subseteq c.left /\ d.left # c.left => f[d].left \subseteq d.left
        BY <1>6
      <4> QED BY <3>1, <4>1, AskingIs
    <3>3. seat[c] = Asking(cands, taken, seat, c)
      BY <1>8
    <3>4. f[c] = Asking(cands, taken, f, c)
      BY <1>6
    <3> QED BY <3>2, <3>3, <3>4
  <2>3. \A k \in 0 .. N : k \in same
    <3> HIDE DEF same, N
    <3> QED BY <1>1a, <2>1, <2>2, ByNumber
  <2>4. N \in same
    <3> HIDE DEF same
    <3> QED BY <1>1a, <2>3
  <2> HIDE DEF S
  <2> QED BY <1>1, <2>4
<1>11. seat = f
  <2>1. DOMAIN seat = S /\ seat = [c \in S |-> seat[c]]
    BY <1>8
  <2>2. f = [c \in S |-> f[c]]
    OBVIOUS
  <2> HIDE DEF S
  <2> QED BY <1>10, <2>1, <2>2
<1> QED BY <1>6, <1>9, <1>11

\* Who has what is one who can, and nobody shares.
Fitting(cands, taken, S) ==
  /\ \A s \in S : taken[s] # 0 => s \in ToSet(cands[taken[s]])
  /\ \A s, o \in S : taken[s] # 0 /\ taken[s] = taken[o] => s = o

\* What a search that ends well leaves, among those it could ask, and what one that does not.
Placed(cands, taken, c, r) ==
  /\ \A s \in Staff \ c.left : r.taken[s] = taken[s]
  /\ Fitting(cands, r.taken, c.left)
  /\ \A j \in DOMAIN cands : (\E s \in c.left : r.taken[s] = j) <=> (j = c.item \/ \E s \in c.left : taken[s] = j)
Stuck(cands, taken, c, r) ==
  /\ ToSet(cands[c.item]) \cap r.left = {}
  /\ \A s \in c.left \ r.left : taken[s] # 0 /\ ToSet(cands[taken[s]]) \cap r.left = {}

\* A step of a search that goes on from what smaller ones came to comes to as much.
LEMMA AskingPlaces ==
  ASSUME NEW cands, CandLists(cands), NEW taken \in Takings(cands), Fitting(cands, taken, Staff),
         NEW f \in [Searches(cands) -> Outcomes(cands)], NEW c \in Searches(cands),
         \A d \in Searches(cands) :
           d.left \subseteq c.left /\ d.left # c.left =>
             /\ f[d].left \subseteq d.left
             /\ ~f[d].ok => Stuck(cands, taken, d, f[d])
             /\ f[d].ok /\ (\A s \in d.left : taken[s] # d.item) => Placed(cands, taken, d, f[d]),
         NEW r, r = Asking(cands, taken, f, c)
  PROVE  /\ ~r.ok => Stuck(cands, taken, c, r)
         /\ r.ok /\ (\A s \in c.left : taken[s] # c.item) => Placed(cands, taken, c, r)
<1> DEFINE Wanting == \A o \in c.left : taken[o] # c.item
           s == First(cands, c.item, c.left)
           left == c.left \ {s}
           d == [item |-> taken[s], left |-> left]
           none == Offers(cands, c.item, c.left) = {}
           free == [ok |-> TRUE, taken |-> taken, left |-> left]
           freed == IF taken[s] = 0 THEN free ELSE f[d]
           e == [item |-> c.item, left |-> freed.left]
           moved == [freed EXCEPT !.taken[s] = c.item]
<1>1. c.item \in DOMAIN cands /\ c.left \subseteq Staff /\ c.item # 0
  BY DEF Searches, CandLists
<1>2. r = IF none THEN [ok |-> FALSE, taken |-> taken, left |-> c.left] ELSE IF freed.ok THEN moved ELSE f[e]
  BY DEF Asking
<1>3. CASE none
  <2>1. ToSet(cands[c.item]) \cap c.left = {}
    BY <1>1, <1>3, FirstIs
  <2>2. ~r.ok /\ r.left = c.left
    BY <1>2, <1>3
  <2> QED BY <2>1, <2>2 DEF Stuck
<1>4. CASE ~none
  <2>1. s \in c.left /\ s \in Staff /\ s \in ToSet(cands[c.item])
    BY <1>1, <1>4, FirstIs
  <2> HIDE DEF s, none
  <2>2. taken[s] \in {0} \cup DOMAIN cands
    BY <2>1 DEF Takings
  <2>3. left \subseteq c.left /\ left # c.left /\ left \in SUBSET Staff /\ s \notin left /\ c.left = left \cup {s}
    BY <1>1, <2>1
  <2>4. taken[s] # 0 => d \in Searches(cands) /\ d.left = left /\ d.item = taken[s]
    BY <2>2, <2>3 DEF Searches
  <2> HIDE DEF left, d
  <2>5. ASSUME taken[s] # 0
        PROVE  /\ freed = f[d] /\ freed.left \subseteq left /\ freed \in Outcomes(cands)
               /\ freed.ok => Placed(cands, taken, d, freed)
               /\ ~freed.ok => Stuck(cands, taken, d, freed)
    <3>1. \A o \in left : taken[o] # taken[s]
      BY <2>1, <2>3, <2>5 DEF Fitting
    <3> QED BY <2>3, <2>4, <2>5, <3>1
  <2>6. CASE freed.ok
    <3>1. r = moved
      BY <1>2, <1>4, <2>6
    <3>2. freed \in Outcomes(cands)
      <4>1. CASE taken[s] = 0
        BY <2>3, <4>1 DEF Outcomes
      <4>2. CASE taken[s] # 0
        BY <2>5, <4>2
      <4> QED BY <4>1, <4>2
    <3>3. /\ \A o \in Staff \ left : freed.taken[o] = taken[o]
          /\ Fitting(cands, freed.taken, left)
          /\ \A j \in DOMAIN cands : (\E o \in left : freed.taken[o] = j) <=> (j = taken[s] \/ \E o \in left : taken[o] = j)
      <4>1. CASE taken[s] = 0
        <5>1. freed.taken = taken
          BY <4>1
        <5>2. Fitting(cands, taken, left)
          BY <2>3 DEF Fitting
        <5>3. \A j \in DOMAIN cands : j # 0
          BY DEF CandLists
        <5> HIDE DEF freed
        <5> QED BY <4>1, <5>1, <5>2, <5>3
      <4>2. CASE taken[s] # 0
        <5>1. Placed(cands, taken, d, freed)
          BY <2>5, <2>6, <4>2
        <5> HIDE DEF freed
        <5> QED BY <2>4, <4>2, <5>1 DEF Placed
      <4> QED BY <4>1, <4>2
    <3> HIDE DEF freed
    <3>4. freed.taken \in Takings(cands)
      BY <3>2 DEF Outcomes
    <3>5. PICK t : t = freed.taken
      OBVIOUS
    <3>6. r.ok /\ r.taken = [t EXCEPT ![s] = c.item]
      <4>1. freed = [ok |-> freed.ok, taken |-> freed.taken, left |-> freed.left]
        BY <3>2 DEF Outcomes
      <4> QED BY <2>6, <3>1, <3>5, <4>1
    <3>7. \A o \in Staff : r.taken[o] = IF o = s THEN c.item ELSE t[o]
      BY <3>4, <3>5, <3>6 DEF Takings
    <3>8. \A o \in Staff \ c.left : r.taken[o] = taken[o]
      BY <2>1, <2>3, <3>3, <3>5, <3>7
    <3>9. ASSUME Wanting PROVE \A o \in left : t[o] # c.item
      <4> SUFFICES ASSUME NEW o \in left, t[o] = c.item PROVE FALSE
        OBVIOUS
      <4>1. c.item = taken[s] \/ \E x \in left : taken[x] = c.item
        BY <1>1, <3>3, <3>5
      <4> QED BY <2>1, <2>3, <3>9, <4>1
    <3>10. ASSUME Wanting PROVE Fitting(cands, r.taken, c.left)
      <4>1. ASSUME NEW o \in c.left, r.taken[o] # 0 PROVE o \in ToSet(cands[r.taken[o]])
        BY <1>1, <2>1, <2>3, <3>3, <3>5, <3>7, <4>1 DEF Fitting
      <4>2. ASSUME NEW o \in c.left, NEW x \in c.left, r.taken[o] # 0, r.taken[o] = r.taken[x] PROVE o = x
        BY <1>1, <2>3, <3>3, <3>5, <3>7, <3>9, <3>10, <4>2 DEF Fitting
      <4> QED BY <4>1, <4>2 DEF Fitting
    <3>11. ASSUME NEW j \in DOMAIN cands
           PROVE  (\E o \in c.left : r.taken[o] = j) <=> (j = c.item \/ \E o \in c.left : taken[o] = j)
      <4>1. (\E o \in c.left : r.taken[o] = j) <=> (j = c.item \/ \E o \in left : t[o] = j)
        BY <1>1, <2>1, <2>3, <3>7
      <4>2. (\E o \in c.left : taken[o] = j) <=> (j = taken[s] \/ \E o \in left : taken[o] = j)
        BY <2>1, <2>3
      <4> QED BY <3>3, <3>5, <4>1, <4>2
    <3> QED BY <3>6, <3>8, <3>10, <3>11 DEF Placed
  <2>7. CASE ~freed.ok
    <3>1. taken[s] # 0 /\ r = f[e]
      BY <1>2, <1>4, <2>7
    <3>2. freed.left \subseteq left /\ Stuck(cands, taken, d, freed) /\ freed.left \in SUBSET Staff
      BY <2>5, <2>7, <3>1 DEF Outcomes
    <3> HIDE DEF freed
    <3>3. e \in Searches(cands) /\ e.left = freed.left /\ e.item = c.item
      BY <1>1, <3>2 DEF Searches
    <3> HIDE DEF e
    <3>4. e.left \subseteq c.left /\ e.left # c.left
      BY <2>3, <3>2, <3>3
    <3>5. r.left \subseteq e.left /\ ~r.ok => Stuck(cands, taken, e, r)
      BY <3>1, <3>3, <3>4
    <3>5a. r.left \subseteq e.left
      BY <3>1, <3>3, <3>4
    <3>6. ASSUME r.ok, Wanting PROVE Placed(cands, taken, e, r)
      <4>1. \A o \in e.left : taken[o] # e.item
        BY <3>3, <3>4, <3>6
      <4> QED BY <3>1, <3>3, <3>4, <3>6, <4>1
    <3>7. ASSUME ~r.ok PROVE Stuck(cands, taken, c, r)
      <4>1. Stuck(cands, taken, e, r)
        BY <3>1, <3>3, <3>4, <3>7
      <4>2. ToSet(cands[c.item]) \cap r.left = {}
        BY <3>3, <4>1 DEF Stuck
      <4>3. ASSUME NEW o \in c.left \ r.left PROVE taken[o] # 0 /\ ToSet(cands[taken[o]]) \cap r.left = {}
        <5>1. CASE o \in e.left
          BY <4>1, <5>1 DEF Stuck
        <5>2. CASE o \in left \ e.left
          <6>1. taken[o] # 0 /\ ToSet(cands[taken[o]]) \cap freed.left = {}
            BY <2>4, <3>1, <3>2, <3>3, <5>2 DEF Stuck
          <6> QED BY <3>3, <3>5a, <6>1
        <5>3. CASE o = s
          <6>1. ToSet(cands[taken[s]]) \cap freed.left = {}
            BY <2>4, <3>1, <3>2 DEF Stuck
          <6> QED BY <3>1, <3>3, <3>5a, <5>3, <6>1
        <5> QED BY <2>3, <5>1, <5>2, <5>3
      <4> QED BY <4>2, <4>3 DEF Stuck
    <3>8. ASSUME r.ok, Wanting PROVE Placed(cands, taken, c, r)
      <4>1. /\ \A o \in Staff \ e.left : r.taken[o] = taken[o]
            /\ Fitting(cands, r.taken, e.left)
            /\ \A j \in DOMAIN cands : (\E o \in e.left : r.taken[o] = j) <=> (j = c.item \/ \E o \in e.left : taken[o] = j)
        BY <3>3, <3>6, <3>8 DEF Placed
      <4>2. \A o \in Staff \ c.left : r.taken[o] = taken[o]
        BY <3>4, <4>1
      <4>3. Fitting(cands, taken, Staff)
        OBVIOUS
      <4>4. ASSUME NEW o \in c.left, r.taken[o] # 0 PROVE o \in ToSet(cands[r.taken[o]])
        BY <1>1, <4>1, <4>3, <4>4 DEF Fitting
      <4>5. ASSUME NEW o \in e.left, NEW x \in c.left \ e.left, r.taken[o] # 0, r.taken[o] = r.taken[x] PROVE FALSE
        <5>1. r.taken[x] = taken[x] /\ x \in Staff /\ o \in Staff
          BY <1>1, <3>4, <4>1, <4>5
        <5>2. taken[x] \in DOMAIN cands
          BY <4>5, <5>1 DEF Takings
        <5>3. taken[x] = c.item \/ \E y \in e.left : taken[y] = taken[x]
          BY <4>1, <4>5, <5>1, <5>2
        <5>4. PICK y \in e.left : taken[y] = taken[x]
          BY <3>8, <4>5, <5>3
        <5> QED BY <1>1, <3>4, <4>3, <4>5, <5>1, <5>4 DEF Fitting
      <4>6. ASSUME NEW o \in c.left, NEW x \in c.left, r.taken[o] # 0, r.taken[o] = r.taken[x] PROVE o = x
        <5>1. CASE o \in e.left /\ x \in e.left
          BY <4>1, <4>6, <5>1 DEF Fitting
        <5>2. CASE o \notin e.left /\ x \notin e.left
          BY <1>1, <4>1, <4>3, <4>6, <5>2 DEF Fitting
        <5>3. CASE o \in e.left /\ x \notin e.left
          BY <4>5, <4>6, <5>3
        <5>4. CASE o \notin e.left /\ x \in e.left
          BY <4>5, <4>6, <5>4
        <5> QED BY <5>1, <5>2, <5>3, <5>4
      <4>7. ASSUME NEW j \in DOMAIN cands
            PROVE  (\E o \in c.left : r.taken[o] = j) <=> (j = c.item \/ \E o \in c.left : taken[o] = j)
        BY <1>1, <3>4, <4>1
      <4> QED BY <4>2, <4>4, <4>6, <4>7 DEF Placed, Fitting
    <3> QED BY <3>7, <3>8
  <2> QED BY <2>6, <2>7
<1> QED BY <1>3, <1>4

\* A search ends with a place for the item among those it could ask, or with nobody else to ask.
LEMMA SeatPlaces ==
  ASSUME IsFiniteSet(Staff), NEW cands, CandLists(cands), NEW taken \in Takings(cands), Fitting(cands, taken, Staff),
         NEW c \in Searches(cands)
  PROVE  LET r == Seat(cands, taken)[c]
         IN /\ r \in Outcomes(cands)
            /\ ~r.ok => Stuck(cands, taken, c, r)
            /\ r.ok /\ (\A s \in c.left : taken[s] # c.item) => Placed(cands, taken, c, r)
<1> DEFINE S == Searches(cands)
           seat == Seat(cands, taken)
           Right(d) == /\ ~seat[d].ok => Stuck(cands, taken, d, seat[d])
                       /\ seat[d].ok /\ (\A s \in d.left : taken[s] # d.item) => Placed(cands, taken, d, seat[d])
           N == Cardinality(Staff) + 1
           good == {n \in Nat : \A d \in S : Cardinality(d.left) < n => Right(d)}
<1>1. \A d \in S : d.left \subseteq Staff /\ IsFiniteSet(d.left) /\ Cardinality(d.left) \in Nat /\ Cardinality(d.left) < N
  <2>1. \A T \in SUBSET Staff : IsFiniteSet(T) /\ Cardinality(T) \in Nat /\ Cardinality(T) <= Cardinality(Staff)
    BY FS_Subset, FS_CardinalityType
  <2>2. Cardinality(Staff) \in Nat
    BY FS_CardinalityType
  <2>3. \A d \in S : d.left \in SUBSET Staff
    BY DEF Searches
  <2> QED BY <2>1, <2>2, <2>3
<1>2. \A b, d \in S : d.left \subseteq b.left /\ d.left # b.left => Cardinality(d.left) < Cardinality(b.left)
  BY <1>1, FS_Subset
<1>3. N \in Nat
  BY FS_CardinalityType
<1>4. seat \in [S -> Outcomes(cands)] /\ \A d \in S : seat[d] = Asking(cands, taken, seat, d) /\ seat[d].left \subseteq d.left
  BY SeatIs
<1> HIDE DEF seat
<1>5. 0 \in good
  BY <1>1
<1>6. ASSUME NEW n \in 1 .. N, n - 1 \in good PROVE n \in good
  <2> SUFFICES ASSUME NEW b \in S, Cardinality(b.left) < n PROVE Right(b)
    OBVIOUS
  <2>1. \A d \in S : d.left \subseteq b.left /\ d.left # b.left => Right(d)
    <3> SUFFICES ASSUME NEW d \in S, d.left \subseteq b.left, d.left # b.left PROVE Right(d)
      OBVIOUS
    <3>1. Cardinality(d.left) < n - 1
      BY <1>1, <1>2
    <3> HIDE DEF Right
    <3> QED BY <1>6, <3>1
  <2>2. \A d \in Searches(cands) :
           d.left \subseteq b.left /\ d.left # b.left =>
             /\ seat[d].left \subseteq d.left
             /\ ~seat[d].ok => Stuck(cands, taken, d, seat[d])
             /\ seat[d].ok /\ (\A s \in d.left : taken[s] # d.item) => Placed(cands, taken, d, seat[d])
    BY <1>4, <2>1
  <2>3. seat[b] = Asking(cands, taken, seat, b) /\ b \in Searches(cands) /\ seat \in [Searches(cands) -> Outcomes(cands)]
    BY <1>4
  <2>4. /\ ~seat[b].ok => Stuck(cands, taken, b, seat[b])
        /\ seat[b].ok /\ (\A s \in b.left : taken[s] # b.item) => Placed(cands, taken, b, seat[b])
    <3> HIDE DEF S, Right
    <3> QED BY <2>2, <2>3, AskingPlaces
  <2> QED BY <2>4
<1>7. \A k \in 0 .. N : k \in good
  <2> HIDE DEF good, N
  <2> QED BY <1>3, <1>5, <1>6, ByNumber
<1>8. N \in good
  <2> HIDE DEF good
  <2> QED BY <1>3, <1>7
<1>9. Right(c)
  BY <1>1, <1>8
<1> QED BY <1>4, <1>9 DEF seat

\* Who is free and first is given to an item.
Greedily(cands, taken, i) ==
  LET free == {s \in Staff : taken[s] = 0}
  IN IF Offers(cands, i, free) = {} THEN taken ELSE [taken EXCEPT ![First(cands, i, free)] = i]
Greedy(cands) == FoldLeft(LAMBDA taken, i : Greedily(cands, taken, i), [s \in Staff |-> 0], [i \in DOMAIN cands |-> i])

\* Whoever was left without one is sought a place, while everyone before found theirs.
Moved(cands, greedy, m, i) ==
  IF m.ok /\ ~\E s \in Staff : greedy[s] = i THEN Seat(cands, m.taken)[[item |-> i, left |-> Staff]] ELSE m
Seated(cands) ==
  FoldLeft(LAMBDA m, i : Moved(cands, Greedy(cands), m, i), [ok |-> TRUE, taken |-> Greedy(cands), left |-> Staff],
           [i \in DOMAIN cands |-> i])

LEMMA MatchingIs ==
  ASSUME NEW cands
  PROVE  DistinctStaff(cands) =
           IF Seated(cands).ok THEN [i \in DOMAIN cands |-> CHOOSE s \in Staff : Seated(cands).taken[s] = i] ELSE <<>>
BY DEF DistinctStaff, Seated, Greedy, Greedily, Moved

\* The first who is free leaves everything else as it was.
LEMMA GreedilyIs ==
  ASSUME NEW cands, CandLists(cands), NEW taken \in Takings(cands), NEW i \in DOMAIN cands
  PROVE  /\ Greedily(cands, taken, i) \in Takings(cands)
         /\ \/ Greedily(cands, taken, i) = taken
            \/ \E s \in ToSet(cands[i]) \cap Staff :
                  taken[s] = 0 /\ Greedily(cands, taken, i) = [taken EXCEPT ![s] = i]
<1> DEFINE free == {s \in Staff : taken[s] = 0}
           s == First(cands, i, free)
<1>1. CASE Offers(cands, i, free) = {}
  BY <1>1 DEF Greedily
<1>2. CASE Offers(cands, i, free) # {}
  <2>1. s \in free /\ s \in ToSet(cands[i])
    BY <1>2, FirstIs
  <2>2. Greedily(cands, taken, i) = [taken EXCEPT ![s] = i]
    BY <1>2 DEF Greedily
  <2>3. s \in Staff /\ taken[s] = 0
    BY <2>1
  <2> HIDE DEF s
  <2> QED BY <2>1, <2>2, <2>3 DEF Takings
<1> QED BY <1>1, <1>2

\* What the first pass goes through.
LEMMA GreedyStates ==
  ASSUME NEW cands, CandLists(cands), NEW n \in Nat, DOMAIN cands = 1 .. n
  PROVE  \E st \in [0 .. n -> Takings(cands)] :
           /\ st[0] = [s \in Staff |-> 0] /\ Greedy(cands) = st[n]
           /\ \A k \in 1 .. n : st[k] = Greedily(cands, st[k - 1], k)
<1> DEFINE start == [s \in Staff |-> 0]
           a == [i \in DOMAIN cands |-> i]
           IsRun(t) == t = [s \in SUBSET DOMAIN a |->
                              IF s = {} THEN start ELSE Greedily(cands, t[s \ {Max(s)}], a[Max(s)])]
           run == CHOOSE t : IsRun(t)
           whole == Greedy(cands)
<1>1. whole = run[DOMAIN a]
  BY DEF Greedy, FoldLeft, MapThenFoldSet
<1> HIDE DEF whole
<1>2. n \in Nat /\ DOMAIN a = 1 .. n /\ \A k \in 1 .. n : a[k] = k
  OBVIOUS
<1> HIDE DEF a
<1> DEFINE V == Takings(cands)
           step == [p \in V \X (1 .. n) |-> Greedily(cands, p[1], a[p[2]])]
<1>3. start \in V /\ step \in [V \X (1 .. n) -> V]
  <2>1. start \in V
    BY DEF Takings
  <2>2. \A p \in V \X (1 .. n) : Greedily(cands, p[1], a[p[2]]) \in V
    <3> SUFFICES ASSUME NEW p \in V \X (1 .. n) PROVE Greedily(cands, p[1], a[p[2]]) \in V
      OBVIOUS
    <3>1. p[1] \in Takings(cands) /\ a[p[2]] \in DOMAIN cands
      BY <1>2
    <3> QED BY <3>1, GreedilyIs
  <2> QED BY <2>1, <2>2
<1>4. PICK table \in [SUBSET (1 .. n) -> V] : Runs(table, n, start, step)
  <2>1. start \in V /\ step \in [V \X (1 .. n) -> V]
    BY <1>3
  <2> HIDE DEF start, V, step
  <2> QED BY <1>2, <2>1, RunExists
<1>5. \A s \in SUBSET (1 .. n) :
        table[s] = IF s = {} THEN start ELSE Greedily(cands, table[s \ {Max(s)}], a[Max(s)])
  <2> SUFFICES ASSUME NEW s \in SUBSET (1 .. n)
               PROVE  table[s] = IF s = {} THEN start ELSE Greedily(cands, table[s \ {Max(s)}], a[Max(s)])
    OBVIOUS
  <2>1. table[s] = IF s = {} THEN start ELSE step[<<table[s \ {Max(s)}], Max(s)>>]
    BY <1>4 DEF Runs
  <2>2. s # {} => <<table[s \ {Max(s)}], Max(s)>> \in V \X (1 .. n)
    <3>1. s # {} => Max(s) \in s
      BY <1>4 DEF Runs
    <3> HIDE DEF V
    <3> QED BY <3>1
  <2> HIDE DEF start, V
  <2> QED BY <2>1, <2>2
<1>6. IsRun(table)
  <2>1. table = [s \in SUBSET (1 .. n) |-> table[s]]
    OBVIOUS
  <2> HIDE DEF start, V
  <2> QED BY <1>2, <1>5, <2>1
<1>7. IsRun(run)
  <2> HIDE DEF IsRun
  <2> QED BY <1>6
<1>8. run[1 .. n] = table[1 .. n]
  <2> HIDE DEF run
  <2>1. run[{}] = table[{}]
    BY <1>6, <1>7
  <2>2. ASSUME NEW s \in SUBSET (1 .. n), s # {}, run[s \ {Max(s)}] = table[s \ {Max(s)}] PROVE run[s] = table[s]
    <3> HIDE DEF start
    <3>1. run[s] = Greedily(cands, run[s \ {Max(s)}], a[Max(s)])
      BY <1>2, <1>7, <2>2
    <3>2. table[s] = Greedily(cands, table[s \ {Max(s)}], a[Max(s)])
      BY <1>5, <2>2
    <3> QED BY <2>2, <3>1, <3>2
  <2> QED BY <1>2, <2>1, <2>2, SameRuns
<1> HIDE DEF run, IsRun
<1>9. table[1 .. 0] = start
  BY <1>4 DEF Runs
<1>10. \A k \in 1 .. n : table[1 .. k] = Greedily(cands, table[1 .. k - 1], k)
  <2> SUFFICES ASSUME NEW k \in 1 .. n PROVE table[1 .. k] = Greedily(cands, table[1 .. k - 1], k)
    OBVIOUS
  <2>1. 1 .. k - 1 \in SUBSET (1 .. n)
    BY <1>2
  <2>2. <<table[1 .. k - 1], k>> \in V \X (1 .. n)
    <3> HIDE DEF V
    <3> QED BY <2>1
  <2>3. a[k] = k
    BY <1>2
  <2> HIDE DEF V
  <2> QED BY <1>4, <2>2, <2>3 DEF Runs
<1>11. whole = table[1 .. n]
  BY <1>1, <1>2, <1>8
<1> DEFINE st == [k \in 0 .. n |-> table[1 .. k]]
<1>12. st \in [0 .. n -> V]
  <2>1. \A k \in 0 .. n : 1 .. k \in SUBSET (1 .. n)
    BY <1>2
  <2> HIDE DEF V
  <2> QED BY <2>1
<1>13. st[0] = start /\ whole = st[n]
  BY <1>2, <1>9, <1>11
<1>14. \A k \in 1 .. n : st[k] = Greedily(cands, st[k - 1], k)
  <2>1. \A k \in 1 .. n : k \in 0 .. n /\ k - 1 \in 0 .. n
    BY <1>2
  <2>2. \A k \in 1 .. n : st[k] = table[1 .. k] /\ st[k - 1] = table[1 .. k - 1]
    BY <2>1
  <2> HIDE DEF st
  <2> QED BY <1>10, <2>2
<1> HIDE DEF st, start, whole
<1> QED BY <1>12, <1>13, <1>14 DEF start, whole

\* What the second pass goes through.
LEMMA SeatedStates ==
  ASSUME IsFiniteSet(Staff), NEW cands, CandLists(cands), NEW n \in Nat, DOMAIN cands = 1 .. n,
         Greedy(cands) \in Takings(cands)
  PROVE  \E st \in [0 .. n -> Outcomes(cands)] :
           /\ st[0] = [ok |-> TRUE, taken |-> Greedy(cands), left |-> Staff] /\ Seated(cands) = st[n]
           /\ \A k \in 1 .. n : st[k] = Moved(cands, Greedy(cands), st[k - 1], k)
<1> DEFINE start == [ok |-> TRUE, taken |-> Greedy(cands), left |-> Staff]
           a == [i \in DOMAIN cands |-> i]
           IsRun(t) == t = [s \in SUBSET DOMAIN a |->
                              IF s = {} THEN start ELSE Moved(cands, Greedy(cands), t[s \ {Max(s)}], a[Max(s)])]
           run == CHOOSE t : IsRun(t)
           whole == Seated(cands)
<1>1. whole = run[DOMAIN a]
  BY DEF Seated, FoldLeft, MapThenFoldSet
<1> HIDE DEF whole
<1>2. n \in Nat /\ DOMAIN a = 1 .. n /\ \A k \in 1 .. n : a[k] = k
  OBVIOUS
<1> HIDE DEF a
<1> DEFINE V == Outcomes(cands)
           step == [p \in V \X (1 .. n) |-> Moved(cands, Greedy(cands), p[1], a[p[2]])]
<1>3. start \in V /\ step \in [V \X (1 .. n) -> V]
  <2>1. start \in V
    BY DEF Outcomes
  <2>2. \A p \in V \X (1 .. n) : Moved(cands, Greedy(cands), p[1], a[p[2]]) \in V
    <3> SUFFICES ASSUME NEW p \in V \X (1 .. n) PROVE Moved(cands, Greedy(cands), p[1], a[p[2]]) \in V
      OBVIOUS
    <3>1. p[1] \in Outcomes(cands) /\ a[p[2]] \in DOMAIN cands /\ p[1].taken \in Takings(cands)
      BY <1>2 DEF Outcomes
    <3>2. PICK c : c = [item |-> a[p[2]], left |-> Staff]
      OBVIOUS
    <3>3. c \in Searches(cands)
      BY <3>1, <3>2 DEF Searches
    <3>4. Seat(cands, p[1].taken)[c] \in Outcomes(cands)
      BY <3>1, <3>3, SeatIs
    <3> QED BY <3>1, <3>2, <3>4 DEF Moved
  <2> QED BY <2>1, <2>2
<1>4. PICK table \in [SUBSET (1 .. n) -> V] : Runs(table, n, start, step)
  <2>1. start \in V /\ step \in [V \X (1 .. n) -> V]
    BY <1>3
  <2> HIDE DEF start, V, step
  <2> QED BY <1>2, <2>1, RunExists
<1>5. \A s \in SUBSET (1 .. n) :
        table[s] = IF s = {} THEN start ELSE Moved(cands, Greedy(cands), table[s \ {Max(s)}], a[Max(s)])
  <2> SUFFICES ASSUME NEW s \in SUBSET (1 .. n)
               PROVE  table[s] = IF s = {} THEN start ELSE Moved(cands, Greedy(cands), table[s \ {Max(s)}], a[Max(s)])
    OBVIOUS
  <2>1. table[s] = IF s = {} THEN start ELSE step[<<table[s \ {Max(s)}], Max(s)>>]
    BY <1>4 DEF Runs
  <2>2. s # {} => <<table[s \ {Max(s)}], Max(s)>> \in V \X (1 .. n)
    <3>1. s # {} => Max(s) \in s
      BY <1>4 DEF Runs
    <3> HIDE DEF V
    <3> QED BY <3>1
  <2> HIDE DEF start, V
  <2> QED BY <2>1, <2>2
<1>6. IsRun(table)
  <2>1. table = [s \in SUBSET (1 .. n) |-> table[s]]
    OBVIOUS
  <2> HIDE DEF start, V
  <2> QED BY <1>2, <1>5, <2>1
<1>7. IsRun(run)
  <2> HIDE DEF IsRun
  <2> QED BY <1>6
<1>8. run[1 .. n] = table[1 .. n]
  <2> HIDE DEF run
  <2>1. run[{}] = table[{}]
    BY <1>6, <1>7
  <2>2. ASSUME NEW s \in SUBSET (1 .. n), s # {}, run[s \ {Max(s)}] = table[s \ {Max(s)}] PROVE run[s] = table[s]
    <3> HIDE DEF start
    <3>1. run[s] = Moved(cands, Greedy(cands), run[s \ {Max(s)}], a[Max(s)])
      BY <1>2, <1>7, <2>2
    <3>2. table[s] = Moved(cands, Greedy(cands), table[s \ {Max(s)}], a[Max(s)])
      BY <1>5, <2>2
    <3> QED BY <2>2, <3>1, <3>2
  <2> QED BY <1>2, <2>1, <2>2, SameRuns
<1> HIDE DEF run, IsRun
<1>9. table[1 .. 0] = start
  BY <1>4 DEF Runs
<1>10. \A k \in 1 .. n : table[1 .. k] = Moved(cands, Greedy(cands), table[1 .. k - 1], k)
  <2> SUFFICES ASSUME NEW k \in 1 .. n PROVE table[1 .. k] = Moved(cands, Greedy(cands), table[1 .. k - 1], k)
    OBVIOUS
  <2>1. 1 .. k - 1 \in SUBSET (1 .. n)
    BY <1>2
  <2>2. <<table[1 .. k - 1], k>> \in V \X (1 .. n)
    <3> HIDE DEF V
    <3> QED BY <2>1
  <2>3. a[k] = k
    BY <1>2
  <2> HIDE DEF V
  <2> QED BY <1>4, <2>2, <2>3 DEF Runs
<1>11. whole = table[1 .. n]
  BY <1>1, <1>2, <1>8
<1> DEFINE st == [k \in 0 .. n |-> table[1 .. k]]
<1>12. st \in [0 .. n -> V]
  <2>1. \A k \in 0 .. n : 1 .. k \in SUBSET (1 .. n)
    BY <1>2
  <2> HIDE DEF V
  <2> QED BY <2>1
<1>13. st[0] = start /\ whole = st[n]
  BY <1>2, <1>9, <1>11
<1>14. \A k \in 1 .. n : st[k] = Moved(cands, Greedy(cands), st[k - 1], k)
  <2>1. \A k \in 1 .. n : k \in 0 .. n /\ k - 1 \in 0 .. n
    BY <1>2
  <2>2. \A k \in 1 .. n : st[k] = table[1 .. k] /\ st[k - 1] = table[1 .. k - 1]
    BY <2>1
  <2> HIDE DEF st
  <2> QED BY <1>10, <2>2
<1> HIDE DEF st, start, whole
<1> QED BY <1>12, <1>13, <1>14 DEF start, whole

\* What the first pass gives, it gives to those who can, and to each one thing.
LEMMA GreedyFits ==
  ASSUME NEW cands, CandLists(cands), NEW n \in Nat, DOMAIN cands = 1 .. n
  PROVE  Greedy(cands) \in Takings(cands) /\ Fitting(cands, Greedy(cands), Staff)
<1>1. PICK st \in [0 .. n -> Takings(cands)] :
        /\ st[0] = [s \in Staff |-> 0] /\ Greedy(cands) = st[n]
        /\ \A k \in 1 .. n : st[k] = Greedily(cands, st[k - 1], k)
  BY GreedyStates
<1> DEFINE good == {k \in 0 .. n : Fitting(cands, st[k], Staff) /\ \A s \in Staff : st[k][s] \in 0 .. k}
<1>2. 0 \in good
  BY <1>1 DEF Fitting
<1>3. ASSUME NEW k \in 1 .. n, k - 1 \in good PROVE k \in good
  <2>0. k - 1 \in 0 .. n /\ k \in 0 .. n /\ k # 0 /\ k \in DOMAIN cands
    OBVIOUS
  <2>1. PICK taken \in Takings(cands) : taken = st[k - 1]
    BY <2>0
  <2>2. Fitting(cands, taken, Staff) /\ \A s \in Staff : taken[s] \in 0 .. k - 1
    BY <1>3, <2>1
  <2>3. st[k] = Greedily(cands, taken, k)
    BY <1>1, <2>1
  <2>4. CASE st[k] = taken
    <3>1. \A s \in Staff : taken[s] \in 0 .. k
      BY <2>2
    <3> QED BY <2>0, <2>2, <2>4, <3>1
  <2>5. ASSUME NEW s \in ToSet(cands[k]) \cap Staff, taken[s] = 0, st[k] = [taken EXCEPT ![s] = k] PROVE k \in good
    <3>1. \A o \in Staff : st[k][o] = IF o = s THEN k ELSE taken[o]
      BY <2>5 DEF Takings
    <3>2. \A o \in Staff : st[k][o] \in 0 .. k
      BY <2>2, <3>1
    <3>3. \A o \in Staff : taken[o] # k
      BY <2>2
    <3>4. \A o \in Staff : st[k][o] # 0 => o \in ToSet(cands[st[k][o]])
      BY <2>2, <3>1 DEF Fitting
    <3>5. ASSUME NEW o \in Staff, NEW x \in Staff, st[k][o] # 0, st[k][o] = st[k][x] PROVE o = x
      BY <2>2, <3>1, <3>3, <3>5 DEF Fitting
    <3>6. Fitting(cands, st[k], Staff)
      BY <3>4, <3>5 DEF Fitting
    <3> QED BY <2>0, <3>2, <3>6
  <2> HIDE DEF good
  <2> QED BY <2>0, <2>3, <2>4, <2>5, GreedilyIs
<1>4. \A k \in 0 .. n : k \in good
  <2> HIDE DEF good
  <2> QED BY <1>2, <1>3, ByNumber
<1>5. n \in 0 .. n /\ n \in good
  <2>1. n \in 0 .. n
    OBVIOUS
  <2> HIDE DEF good
  <2> QED BY <1>4, <2>1
<1> QED BY <1>1, <1>5

\* One of those who can for each, and nobody for two.
Choosings(cands) ==
  {f \in [DOMAIN cands -> Staff] : /\ \A i \in DOMAIN cands : f[i] \in ToSet(cands[i])
                                   /\ \A i, j \in DOMAIN cands : i # j => f[i] # f[j]}

\* When nobody else can be asked, there is one person fewer than things for them.
LEMMA NobodyLeft ==
  ASSUME IsFiniteSet(Staff), NEW cands, CandLists(cands), NEW taken \in Takings(cands), Fitting(cands, taken, Staff),
         NEW c \in Searches(cands), c.left = Staff, \A s \in Staff : taken[s] # c.item,
         NEW r \in Outcomes(cands), Stuck(cands, taken, c, r)
  PROVE  Choosings(cands) = {}
<1> SUFFICES ASSUME NEW f \in Choosings(cands) PROVE FALSE
  OBVIOUS
<1> DEFINE Y == Staff \ r.left
           X == {taken[s] : s \in Y}
           k == c.item
           Z == X \cup {k}
           t == [s \in Y |-> taken[s]]
           g == [i \in Z |-> f[i]]
<1>1. k \in DOMAIN cands
  BY DEF Searches
<1>2. f \in [DOMAIN cands -> Staff] /\ (\A i \in DOMAIN cands : f[i] \in ToSet(cands[i]))
      /\ (\A i, j \in DOMAIN cands : i # j => f[i] # f[j])
  BY DEF Choosings
<1>3. \A s \in Y : taken[s] \in DOMAIN cands /\ taken[s] # 0 /\ ToSet(cands[taken[s]]) \cap r.left = {}
  BY DEF Stuck, Takings
<1>4. X \subseteq DOMAIN cands /\ k \notin X
  BY <1>3
<1>5. \A i \in Z : f[i] \in Y
  <2>1. \A i \in X : ToSet(cands[i]) \cap r.left = {}
    BY <1>3
  <2>2. ToSet(cands[k]) \cap r.left = {}
    BY DEF Stuck
  <2> QED BY <1>1, <1>2, <1>4, <2>1, <2>2
<1>6. IsFiniteSet(Y) /\ Cardinality(Y) \in Nat
  BY FS_Subset, FS_CardinalityType
<1>7. t \in Bijection(Y, X)
  <2>1. t \in [Y -> X] /\ \A a, b \in Y : t[a] = t[b] => a = b
    BY <1>3 DEF Fitting
  <2>2. \A x \in X : \E s \in Y : t[s] = x
    OBVIOUS
  <2> HIDE DEF t, X, Y
  <2> QED BY <2>1, <2>2 DEF Bijection, Injection, Surjection, IsInjective
<1>8. IsFiniteSet(X) /\ Cardinality(X) = Cardinality(Y)
  <2>1. ExistsBijection(Y, X)
    BY <1>7 DEF ExistsBijection
  <2> HIDE DEF X, Y
  <2> QED BY <1>6, <2>1, FS_Bijection
<1>9. IsFiniteSet(Z) /\ Cardinality(Z) = Cardinality(Y) + 1
  <2> HIDE DEF X, Y, k
  <2> QED BY <1>4, <1>8, FS_AddElement
<1>10. g \in [Z -> Y] /\ \A i, j \in Z : i # j => g[i] # g[j]
  <2>1. Z \subseteq DOMAIN cands
    BY <1>1, <1>4
  <2> HIDE DEF Z, Y
  <2> QED BY <1>2, <1>5, <2>1
<1> HIDE DEF g, Z, Y
<1>11. Cardinality(Y) < Cardinality(Z)
  BY <1>6, <1>9
<1>12. \E x, y \in Z : x # y /\ g[x] = g[y]
  BY <1>6, <1>9, <1>10, <1>11, FS_PigeonHole
<1> QED BY <1>10, <1>12

\* The second pass finds a place for everything, or there is none.
LEMMA SeatedFits ==
  ASSUME IsFiniteSet(Staff), NEW cands, CandLists(cands), NEW n \in Nat, DOMAIN cands = 1 .. n
  PROVE  /\ Seated(cands) \in Outcomes(cands)
         /\ ~Seated(cands).ok => Choosings(cands) = {}
         /\ Seated(cands).ok => /\ Fitting(cands, Seated(cands).taken, Staff)
                                /\ \A j \in 1 .. n : \E s \in Staff : Seated(cands).taken[s] = j
<1> DEFINE greedy == Greedy(cands)
<1>1. greedy \in Takings(cands) /\ Fitting(cands, greedy, Staff)
  BY GreedyFits
<1>2. PICK st \in [0 .. n -> Outcomes(cands)] :
        /\ st[0] = [ok |-> TRUE, taken |-> greedy, left |-> Staff] /\ Seated(cands) = st[n]
        /\ \A k \in 1 .. n : st[k] = Moved(cands, greedy, st[k - 1], k)
  BY <1>1, SeatedStates
<1> HIDE DEF greedy
<1> DEFINE Has(j) == \E s \in Staff : greedy[s] = j
           Good(m, k) == /\ ~m.ok => Choosings(cands) = {}
                         /\ m.ok => /\ Fitting(cands, m.taken, Staff)
                                    /\ \A j \in 1 .. n : (\E s \in Staff : m.taken[s] = j) <=> (Has(j) \/ j <= k)
           good == {k \in 0 .. n : Good(st[k], k)}
<1>3. 0 \in good
  BY <1>1, <1>2
<1>4. ASSUME NEW k \in 1 .. n, k - 1 \in good PROVE k \in good
  <2>0. k - 1 \in 0 .. n /\ k \in 0 .. n /\ k # 0 /\ k \in DOMAIN cands
    OBVIOUS
  <2>1. PICK m \in Outcomes(cands) : m = st[k - 1]
    BY <2>0
  <2>2. Good(m, k - 1)
    BY <1>4, <2>1
  <2>3. st[k] = Moved(cands, greedy, m, k)
    BY <1>2, <2>1
  <2> SUFFICES Good(st[k], k)
    BY <2>0
  <2>4. CASE ~m.ok
    BY <2>2, <2>3, <2>4 DEF Moved
  <2>5. CASE m.ok /\ Has(k)
    <3>1. st[k] = m
      BY <2>3, <2>5 DEF Moved
    <3>2. \A j \in 1 .. n : (Has(j) \/ j <= k) <=> (Has(j) \/ j <= k - 1)
      <4> HIDE DEF Has
      <4> QED BY <2>5
    <3> HIDE DEF Has
    <3> QED BY <2>2, <2>5, <3>1, <3>2
  <2>6. CASE m.ok /\ ~Has(k)
    <3>1. PICK c : c = [item |-> k, left |-> Staff]
      OBVIOUS
    <3>2. c \in Searches(cands) /\ c.left = Staff /\ c.item = k
      BY <2>0, <3>1 DEF Searches
    <3>3. st[k] = Seat(cands, m.taken)[c]
      BY <2>3, <2>6, <3>1 DEF Moved
    <3>4. m.taken \in Takings(cands) /\ Fitting(cands, m.taken, Staff)
      BY <2>2, <2>6 DEF Outcomes
    <3>5. \A s \in Staff : m.taken[s] # k
      <4>1. ~(Has(k) \/ k <= k - 1)
        BY <2>6
      <4>2. ~\E s \in Staff : m.taken[s] = k
        <5> HIDE DEF Has
        <5> QED BY <2>2, <2>6, <4>1
      <4> QED BY <4>2
    <3>6. PICK r \in Outcomes(cands) : /\ r = st[k]
                                       /\ ~r.ok => Stuck(cands, m.taken, c, r)
                                       /\ r.ok => Placed(cands, m.taken, c, r)
      BY <3>2, <3>3, <3>4, <3>5, SeatPlaces
    <3>7. ASSUME ~r.ok PROVE Choosings(cands) = {}
      BY <3>2, <3>4, <3>5, <3>6, <3>7, NobodyLeft
    <3>8. ASSUME r.ok
          PROVE  /\ Fitting(cands, r.taken, Staff)
                 /\ \A j \in 1 .. n : (\E s \in Staff : r.taken[s] = j) <=> (Has(j) \/ j <= k)
      <4>1. Fitting(cands, r.taken, Staff)
        BY <3>2, <3>6, <3>8 DEF Placed
      <4>2. \A j \in 1 .. n : (\E s \in Staff : r.taken[s] = j) <=> (j = k \/ \E s \in Staff : m.taken[s] = j)
        BY <3>2, <3>6, <3>8 DEF Placed
      <4>3. \A j \in 1 .. n : (Has(j) \/ j <= k) <=> (j = k \/ Has(j) \/ j <= k - 1)
        <5> HIDE DEF Has
        <5> QED OBVIOUS
      <4> HIDE DEF Has
      <4> QED BY <2>2, <2>6, <4>1, <4>2, <4>3
    <3> HIDE DEF Has
    <3> QED BY <3>6, <3>7, <3>8
  <2> QED BY <2>4, <2>5, <2>6
<1>5. \A k \in 0 .. n : k \in good
  <2> HIDE DEF good
  <2> QED BY <1>3, <1>4, ByNumber
<1>6. Good(st[n], n) /\ st[n] \in Outcomes(cands)
  <2>1. n \in 0 .. n
    OBVIOUS
  <2> HIDE DEF Good
  <2> QED BY <1>5, <2>1
<1> HIDE DEF Has
<1> QED BY <1>2, <1>6

\* People are found for what happens at once exactly when there are, and never one for two.
THEOREM MatchingExact ==
  ASSUME IsFiniteSet(Staff), NEW cands, CandLists(cands), NEW n \in Nat, n # 0, DOMAIN cands = 1 .. n
  PROVE  /\ DistinctStaff(cands) # <<>> <=> Choosings(cands) # {}
         /\ DistinctStaff(cands) # <<>> => DistinctStaff(cands) \in Choosings(cands)
<1> DEFINE m == Seated(cands)
           who == [i \in DOMAIN cands |-> CHOOSE s \in Staff : m.taken[s] = i]
<1>1. /\ m \in Outcomes(cands)
      /\ ~m.ok => Choosings(cands) = {}
      /\ m.ok => /\ Fitting(cands, m.taken, Staff)
                 /\ \A j \in 1 .. n : \E s \in Staff : m.taken[s] = j
  BY SeatedFits
<1>2. DistinctStaff(cands) = IF m.ok THEN who ELSE <<>>
  BY MatchingIs
<1> HIDE DEF m
<1>3. ASSUME m.ok PROVE who \in Choosings(cands) /\ who # <<>>
  <2>1. \A j \in DOMAIN cands : who[j] \in Staff /\ m.taken[who[j]] = j /\ j # 0
    BY <1>1, <1>3
  <2>2. \A j \in DOMAIN cands : who[j] \in ToSet(cands[j])
    <3> HIDE DEF who
    <3> QED BY <1>1, <1>3, <2>1 DEF Fitting
  <2>3. who \in [DOMAIN cands -> Staff]
    BY <2>1
  <2>4. 1 \in DOMAIN who
    OBVIOUS
  <2> HIDE DEF who
  <2>5. who # <<>>
    BY <2>4
  <2> QED BY <2>1, <2>2, <2>3, <2>5 DEF Choosings
<1> HIDE DEF who
<1> QED BY <1>1, <1>2, <1>3

\* When there is one thing, whoever comes first gets it.
LEMMA MatchingOfOne ==
  ASSUME IsFiniteSet(Staff), NEW cands, CandLists(cands), DOMAIN cands = {1}, cands[1] # <<>>
  PROVE  DistinctStaff(cands) = <<cands[1][1]>>
<1> DEFINE zero == [s \in Staff |-> 0]
           free == {s \in Staff : zero[s] = 0}
           D == Offers(cands, 1, free)
           first == cands[1][1]
<1>0. PICK n \in Nat : n = 1 /\ DOMAIN cands = 1 .. n /\ n # 0 /\ 1 \in 1 .. n /\ 0 \in 0 .. n
  OBVIOUS
<1>0a. DOMAIN cands = 1 .. n
  BY <1>0
<1>1. PICK st \in [0 .. n -> Takings(cands)] :
        /\ st[0] = zero /\ Greedy(cands) = st[n]
        /\ \A k \in 1 .. n : st[k] = Greedily(cands, st[k - 1], k)
  BY <1>0a, GreedyStates
<1>2. cands[1] \in Seq(Staff) /\ 1 \in DOMAIN cands[1] /\ first \in Staff
  BY DEF CandLists
<1>3. free = Staff
  OBVIOUS
<1>4. D = DOMAIN cands[1]
  BY <1>2, <1>3 DEF Offers
<1>5. Min(D) = 1
  <2>1. Len(cands[1]) \in Int /\ DOMAIN cands[1] = 1 .. Len(cands[1]) /\ 1 \in Int
    BY <1>2
  <2>2. IsFiniteSet(DOMAIN cands[1]) /\ DOMAIN cands[1] \subseteq Int
    BY <2>1, FS_Interval
  <2>3. Min(D) \in D /\ \A y \in D : Min(D) =< y
    <3> HIDE DEF D
    <3> QED BY <1>2, <1>4, <2>2, Extremes
  <2>4. \A y \in DOMAIN cands[1] : 1 =< y /\ y \in Int
    BY <2>1
  <2> HIDE DEF D
  <2> QED BY <1>2, <1>4, <2>3, <2>4
<1>6. Greedily(cands, zero, 1) = [zero EXCEPT ![first] = 1]
  <2>1. First(cands, 1, free) = first /\ D # {}
    BY <1>2, <1>4, <1>5 DEF First
  <2> HIDE DEF first, D
  <2> QED BY <2>1 DEF Greedily, D
<1>7. Greedy(cands) = [zero EXCEPT ![first] = 1]
  BY <1>0, <1>1, <1>6
<1>8. Greedy(cands)[first] = 1 /\ \A s \in Staff : Greedy(cands)[s] = 1 => s = first
  BY <1>2, <1>7
<1>9. Greedy(cands) \in Takings(cands)
  BY <1>0, GreedyFits
<1>10. PICK ms \in [0 .. n -> Outcomes(cands)] :
        /\ ms[0] = [ok |-> TRUE, taken |-> Greedy(cands), left |-> Staff] /\ Seated(cands) = ms[n]
        /\ \A k \in 1 .. n : ms[k] = Moved(cands, Greedy(cands), ms[k - 1], k)
  BY <1>0a, <1>9, SeatedStates
<1>11. Seated(cands) = [ok |-> TRUE, taken |-> Greedy(cands), left |-> Staff]
  <2>1. Seated(cands) = Moved(cands, Greedy(cands), ms[0], 1)
    <3>1. n - 1 = 0
      BY <1>0
    <3> QED BY <1>0, <1>10, <3>1
  <2> QED BY <1>2, <1>8, <1>10, <2>1 DEF Moved
<1>12. DistinctStaff(cands) = [i \in {1} |-> CHOOSE s \in Staff : Greedy(cands)[s] = i]
  BY <1>11, MatchingIs
<1>13. (CHOOSE s \in Staff : Greedy(cands)[s] = 1) = first
  BY <1>2, <1>8
<1> HIDE DEF first
<1>14. DistinctStaff(cands) = [i \in {1} |-> first]
  BY <1>12, <1>13
<1>15. [i \in {1} |-> first] = <<first>>
  OBVIOUS
<1> QED BY <1>14, <1>15 DEF first

-----------------------------------------------------------------------------
(* Who could attend *)

\* A function that is worked out once is the same function.
LEMMA TabledIs ==
  ASSUME NEW f
  PROVE  Tabled(f) = f
BY DEF Tabled

\* Some of the numbers of a list of n, in their order.
LEMMA ByIdIs ==
  ASSUME NEW S, IsFiniteSet(S)
  PROVE  /\ ById(S) \in Seq(S) /\ DOMAIN ById(S) = 1 .. Cardinality(S) /\ Cardinality(S) \in Nat
         /\ \A x : x \in S <=> \E k \in DOMAIN ById(S) : ById(S)[k] = x
         /\ \A i, j \in DOMAIN ById(S) : ById(S)[i] = ById(S)[j] => i = j
<1> DEFINE before == {p \in S \X S : p[1] < p[2]}
           seq == ById(S)
<1>1. seq = Ordered(S, before)
  BY DEF ById
<1> HIDE DEF seq, before
<1>2. /\ seq \in Seq(S) /\ ToSet(seq) = S /\ Len(seq) = Cardinality(S)
      /\ \A i, j \in DOMAIN seq : seq[i] = seq[j] => i = j
  BY <1>1, OrderedIs
<1>3. DOMAIN seq = 1 .. Cardinality(S) /\ Cardinality(S) \in Nat
  BY <1>2
<1> QED BY <1>2, <1>3 DEF seq, ToSet

\* Those in a round, by their place in it.
LEMMA InRoundIs ==
  ASSUME NEW n \in Nat, NEW plan, DOMAIN plan = 1 .. n, NEW r
  PROVE  /\ IsFiniteSet(InRound(plan, r)) /\ Cardinality(InRound(plan, r)) \in Nat
         /\ DOMAIN ById(InRound(plan, r)) = 1 .. Cardinality(InRound(plan, r))
         /\ \A i : i \in 1 .. n /\ plan[i] = r <=> \E k \in DOMAIN ById(InRound(plan, r)) : ById(InRound(plan, r))[k] = i
         /\ \A i, j \in DOMAIN ById(InRound(plan, r)) : ById(InRound(plan, r))[i] = ById(InRound(plan, r))[j] => i = j
<1> DEFINE S == InRound(plan, r)
<1>1. S \in SUBSET (1 .. n) /\ \A i : i \in S <=> i \in 1 .. n /\ plan[i] = r
  BY DEF InRound
<1>2. IsFiniteSet(S)
  <2>1. 1 \in Int /\ n \in Int
    OBVIOUS
  <2> HIDE DEF S
  <2> QED BY <1>1, <2>1, FS_Interval, FS_Subset
<1> HIDE DEF S
<1>3. /\ ById(S) \in Seq(S) /\ DOMAIN ById(S) = 1 .. Cardinality(S) /\ Cardinality(S) \in Nat
      /\ \A x : x \in S <=> \E k \in DOMAIN ById(S) : ById(S)[k] = x
      /\ \A i, j \in DOMAIN ById(S) : ById(S)[i] = ById(S)[j] => i = j
  BY <1>2, ByIdIs
<1> QED BY <1>1, <1>2, <1>3 DEF S

\* People apart in each round.
Apiece(plan, lists) ==
  {who \in [DOMAIN plan -> Staff] :
     /\ \A i \in DOMAIN plan : who[i] \in ToSet(lists[i])
     /\ \A i, j \in DOMAIN plan : i # j /\ plan[i] = plan[j] => who[i] # who[j]}

\* Whom the matching of its round gives to each.
Attended(plan, lists) ==
  [i \in DOMAIN plan |->
     DistinctStaff(OfRound(plan, plan[i], lists))[CHOOSE k \in DOMAIN ById(InRound(plan, plan[i])) : ById(InRound(plan, plan[i]))[k] = i]]

\* Rounds are covered when there are people apart for each of them, and those are the ones the
\* matching gives.
LEMMA CoveredIs ==
  ASSUME IsFiniteSet(Staff), NEW n \in Nat, NEW plan, DOMAIN plan = 1 .. n, NEW lists, DOMAIN lists = 1 .. n, CandLists(lists)
  PROVE  /\ Covered(plan, lists) <=> Apiece(plan, lists) # {}
         /\ Covered(plan, lists) => Attended(plan, lists) \in Apiece(plan, lists)
<1> DEFINE ids(r) == ById(InRound(plan, r))
           of(r) == OfRound(plan, r, lists)
           m(r) == Cardinality(InRound(plan, r))
<1>1. ASSUME NEW r \in ToSet(plan)
      PROVE  /\ DOMAIN ids(r) = 1 .. m(r) /\ m(r) \in Nat /\ m(r) # 0
             /\ \A i : i \in 1 .. n /\ plan[i] = r <=> \E k \in DOMAIN ids(r) : ids(r)[k] = i
             /\ \A i, j \in DOMAIN ids(r) : ids(r)[i] = ids(r)[j] => i = j
  <2>1. PICK i \in 1 .. n : plan[i] = r
    BY DEF ToSet
  <2>2. /\ DOMAIN ids(r) = 1 .. m(r) /\ m(r) \in Nat
        /\ \A k : k \in 1 .. n /\ plan[k] = r <=> \E l \in DOMAIN ids(r) : ids(r)[l] = k
        /\ \A k, j \in DOMAIN ids(r) : ids(r)[k] = ids(r)[j] => k = j
    BY InRoundIs
  <2>3. PICK k \in DOMAIN ids(r) : ids(r)[k] = i
    <3> HIDE DEF ids
    <3> QED BY <2>1, <2>2
  <2>4. m(r) # 0
    <3> HIDE DEF ids, m
    <3> QED BY <2>2, <2>3
  <2> QED BY <2>2, <2>4
<1>2. \A r : of(r) = [k \in DOMAIN ids(r) |-> lists[ids(r)[k]]]
  BY DEF OfRound
<1> HIDE DEF ids, of, m
<1>3. ASSUME NEW r \in ToSet(plan)
      PROVE  DOMAIN of(r) = 1 .. m(r) /\ CandLists(of(r)) /\ \A k \in 1 .. m(r) : of(r)[k] = lists[ids(r)[k]] /\ ids(r)[k] \in 1 .. n
  <2>1. DOMAIN of(r) = 1 .. m(r) /\ \A k \in 1 .. m(r) : of(r)[k] = lists[ids(r)[k]]
    BY <1>1, <1>2
  <2>2. \A k \in 1 .. m(r) : ids(r)[k] \in 1 .. n
    BY <1>1
  <2>3. CandLists(of(r))
    <3>1. \A k \in 1 .. m(r) : of(r)[k] \in Seq(Staff)
      BY <2>1, <2>2 DEF CandLists
    <3>2. \A k \in 1 .. m(r) : k \in Nat \ {0}
      BY <1>1
    <3> QED BY <2>1, <3>1, <3>2 DEF CandLists
  <2> QED BY <2>1, <2>2, <2>3
<1>4. ASSUME NEW r \in ToSet(plan)
      PROVE  /\ DistinctStaff(of(r)) # <<>> <=> Choosings(of(r)) # {}
             /\ DistinctStaff(of(r)) # <<>> => DistinctStaff(of(r)) \in Choosings(of(r))
  BY <1>1, <1>3, MatchingExact
<1>5. Covered(plan, lists) <=> \A r \in ToSet(plan) : DistinctStaff(of(r)) # <<>>
  BY DEF Covered, of
<1>6. ASSUME NEW who \in Apiece(plan, lists), NEW r \in ToSet(plan) PROVE DistinctStaff(of(r)) # <<>>
  <2> DEFINE f == [k \in 1 .. m(r) |-> who[ids(r)[k]]]
  <2>1. /\ \A i \in 1 .. n : who[i] \in Staff /\ who[i] \in ToSet(lists[i])
        /\ \A i, j \in 1 .. n : i # j /\ plan[i] = plan[j] => who[i] # who[j]
    BY DEF Apiece
  <2>2. \A k \in 1 .. m(r) : ids(r)[k] \in 1 .. n /\ plan[ids(r)[k]] = r
    BY <1>1
  <2>3. f \in [1 .. m(r) -> Staff] /\ \A k \in 1 .. m(r) : f[k] \in ToSet(of(r)[k])
    BY <1>3, <2>1, <2>2
  <2>4. ASSUME NEW i \in 1 .. m(r), NEW j \in 1 .. m(r), i # j PROVE f[i] # f[j]
    <3>1. ids(r)[i] # ids(r)[j]
      BY <1>1, <2>4
    <3> QED BY <2>1, <2>2, <3>1
  <2> HIDE DEF f
  <2>5. f \in Choosings(of(r))
    BY <1>3, <2>3, <2>4 DEF Choosings
  <2> QED BY <1>4, <2>5
<1>7. ASSUME \A r \in ToSet(plan) : DistinctStaff(of(r)) # <<>> PROVE Attended(plan, lists) \in Apiece(plan, lists)
  <2> DEFINE place(i) == CHOOSE k \in DOMAIN ids(plan[i]) : ids(plan[i])[k] = i
             who == Attended(plan, lists)
  <2>1. \A i \in 1 .. n : plan[i] \in ToSet(plan)
    BY DEF ToSet
  <2>2. \A i \in 1 .. n : place(i) \in DOMAIN ids(plan[i]) /\ ids(plan[i])[place(i)] = i
    BY <1>1, <2>1
  <2>3. who = [i \in 1 .. n |-> DistinctStaff(of(plan[i]))[place(i)]]
    BY DEF Attended, of, ids
  <2> HIDE DEF place, who
  <2>4. \A i \in 1 .. n : who[i] = DistinctStaff(of(plan[i]))[place(i)]
    BY <2>3
  <2>5. \A i \in 1 .. n : DistinctStaff(of(plan[i])) \in Choosings(of(plan[i])) /\ DOMAIN of(plan[i]) = DOMAIN ids(plan[i])
    BY <1>1, <1>3, <1>4, <1>7, <2>1
  <2>6. ASSUME NEW i \in 1 .. n PROVE who[i] \in Staff /\ who[i] \in ToSet(lists[i])
    <3>1. PICK g \in Choosings(of(plan[i])) : g = DistinctStaff(of(plan[i]))
      BY <2>5
    <3>2. PICK k \in DOMAIN of(plan[i]) : k = place(i) /\ ids(plan[i])[k] = i
      BY <2>2, <2>5
    <3>3. g[k] \in Staff /\ g[k] \in ToSet(of(plan[i])[k])
      BY DEF Choosings
    <3>4. of(plan[i])[k] = lists[i]
      BY <1>3, <2>1, <3>2
    <3> QED BY <2>4, <3>1, <3>2, <3>3, <3>4
  <2>7. ASSUME NEW i \in 1 .. n, NEW j \in 1 .. n, i # j, plan[i] = plan[j] PROVE who[i] # who[j]
    <3>1. PICK g \in Choosings(of(plan[i])) : g = DistinctStaff(of(plan[i]))
      BY <2>5
    <3>2. place(i) \in DOMAIN of(plan[i]) /\ place(j) \in DOMAIN of(plan[i]) /\ place(i) # place(j)
      BY <2>2, <2>5, <2>7
    <3>3. g[place(i)] # g[place(j)]
      BY <3>2 DEF Choosings
    <3> QED BY <2>4, <2>7, <3>1, <3>3
  <2>8. who \in [1 .. n -> Staff]
    BY <2>3, <2>6
  <2> QED BY <2>6, <2>7, <2>8 DEF Apiece, who
<1> QED BY <1>5, <1>6, <1>7

\* A query is about things that are asked for.
IsQuery(q) == q.items \in Seq(Items) \ {<<>>}

\* A period of some length.
LEMMA WindowIs ==
  ASSUME TimesAssumption, NEW items \in Seq(Items), NEW plan \in Groupings(items), NEW t \in Int, NEW i \in DOMAIN items
  PROVE  LET w == Window(items, plan, i, t)
         IN w.from = t + Offset(items, plan, i) /\ w.to = w.from + Length(items[i])
            /\ w.from \in Int /\ w.to \in Int /\ w.from < w.to /\ t <= w.from
<1>1. Offset(items, plan, i) \in Nat /\ Length(items[i]) \in Nat \ {0}
  BY RoundsApart, LengthIs
<1> QED BY <1>1 DEF Window, Period

\* Who works at some time of the day.
LEMMA WorkingIs ==
  ASSUME TimesAssumption, Calendar, NEW s \in Staff, NEW t \in Int
  PROVE  /\ Available(s, t) => WorkingToday(s) /\ \E r \in ToSet(WorkingRanges(s)) : r.from <= t /\ t < r.to
         /\ \A w : w.from = t => (StartsWithin(WorkingRanges(s), w) <=> Available(s, t))
<1> DEFINE ranges == WorkingRanges(s)
<1>1. In(ToSet(ranges), t) <=> Available(s, t)
  BY WorkingRangesExact
<1>2. In(ToSet(ranges), t) => ranges # <<>> /\ \E r \in ToSet(ranges) : r.from <= t /\ t < r.to
  BY DEF In, ToSet
<1>3. \A w : w.from = t => (StartsWithin(ranges, w) <=> In(ToSet(ranges), t))
  BY DEF In, ToSet, StartsWithin
<1> HIDE DEF ranges
<1> QED BY <1>1, <1>2, <1>3 DEF WorkingToday, ranges

\* Who may do it is staff.
LEMMA StaffForIs ==
  ASSUME TimesAssumption, NEW items \in Seq(Items), NEW i \in DOMAIN items
  PROVE  StaffFor(items[i]) \subseteq Staff /\ Working(items[i]) \subseteq Staff
<1>1. items[i] \in Items
  OBVIOUS
<1>2. items[i].service \in DOMAIN Services
  BY <1>1 DEF Items
<1>3. Services[items[i].service].by \subseteq Staff
  BY <1>2 DEF TimesAssumption
<1> QED BY <1>3 DEF Working, StaffFor

\* Who could attend something of a plan from some moment.
Able(q, plan, i, t, entire) ==
  {s \in StaffFor(q.items[i]) : LET w == Window(q.items, plan, i, t)
                                IN /\ IF entire THEN Whole(s, w) ELSE Available(s, w.from)
                                   /\ Idle(q, s, w)}

\* The lists of who could are of them.
LEMMA CandidatesAre ==
  ASSUME TimesAssumption, Calendar, Booked, NEW q, IsQuery(q), NEW plan \in Groupings(q.items), NEW t \in Int,
         NEW entire \in BOOLEAN
  PROVE  /\ CandLists(Candidates(Context(q), t, plan, entire))
         /\ DOMAIN Candidates(Context(q), t, plan, entire) = DOMAIN q.items
         /\ \A i \in DOMAIN q.items : ToSet(Candidates(Context(q), t, plan, entire)[i]) = Able(q, plan, i, t, entire)
<1> DEFINE c == Context(q)
           items == q.items
           D == DOMAIN items
           w(i) == Window(items, plan, i, t)
           Can(i, s) == /\ IF entire THEN Within(c.ranges[s], w(i)) ELSE StartsWithin(c.ranges[s], w(i))
                        /\ ~\E b \in c.busy : b.staff = s /\ Overlaps(b, w(i))
           cands == Candidates(c, t, plan, entire)
<1>0. items \in Seq(Items) /\ items # <<>> /\ D = DOMAIN plan /\ \A i \in D : i \in Nat \ {0}
  BY DEF IsQuery, Groupings
<1>1. c.q = q /\ c.busy = Others(q) /\ (\A s \in Staff : c.ranges[s] = WorkingRanges(s)) /\ \A i \in D : c.staff[i] = Working(items[i])
  <2>1. c = [q |-> q, plans |-> ExecutionPlans(q.items), ranges |-> [s \in Staff |-> WorkingRanges(s)],
             staff |-> [i \in DOMAIN q.items |-> Working(q.items[i])], busy |-> Others(q)]
    BY TabledIs DEF Context
  <2> HIDE DEF c
  <2> QED BY <2>1
<1> HIDE DEF c
<1>2. cands = [i \in D |-> ById({s \in c.staff[i] : Can(i, s)})]
  BY <1>0, <1>1, TabledIs DEF Candidates
<1>3. ASSUME NEW i \in D PROVE {s \in c.staff[i] : Can(i, s)} = Able(q, plan, i, t, entire)
  <2>1. StaffFor(items[i]) \subseteq Staff /\ Working(items[i]) \subseteq Staff
    BY <1>0, StaffForIs
  <2>2. w(i).from \in Int /\ w(i).to \in Int /\ w(i).from < w(i).to
    BY <1>0, WindowIs
  <2> HIDE DEF w
  <2>3. PICK v : v = w(i)
    OBVIOUS
  <2>4. ASSUME NEW s \in Staff PROVE Free(q, s, v) <=> Idle(q, s, v)
    BY <2>2, <2>3, FreeIsIdle
  <2>5. ASSUME NEW s \in Staff PROVE Within(WorkingRanges(s), v) <=> Whole(s, v)
    BY <2>2, <2>3, WorkingRangesExact
  <2>6. ASSUME NEW s \in Staff
        PROVE  /\ StartsWithin(WorkingRanges(s), v) <=> Available(s, v.from)
               /\ Available(s, v.from) => WorkingToday(s)
    BY <2>2, <2>3, WorkingIs
  <2>7. ASSUME NEW s \in Staff PROVE Whole(s, v) => Available(s, v.from)
    BY <2>2, <2>3 DEF Whole, Minutes
  <2>8. \A s \in Staff : Can(i, s) <=> (IF entire THEN Whole(s, v) ELSE Available(s, v.from)) /\ Idle(q, s, v)
    <3> SUFFICES ASSUME NEW s \in Staff
                 PROVE  Can(i, s) <=> (IF entire THEN Whole(s, v) ELSE Available(s, v.from)) /\ Idle(q, s, v)
      OBVIOUS
    <3>1. (~\E b \in c.busy : b.staff = s /\ Overlaps(b, v)) <=> Idle(q, s, v)
      BY <1>1, <2>4 DEF Free
    <3>2. c.ranges[s] = WorkingRanges(s)
      BY <1>1
    <3> QED BY <2>3, <2>5, <2>6, <3>1, <3>2
  <2> HIDE DEF Can
  <2>9. \A s : s \in Working(items[i]) <=> s \in StaffFor(items[i]) /\ WorkingToday(s)
    BY DEF Working
  <2>10. Able(q, plan, i, t, entire) = {s \in StaffFor(items[i]) : (IF entire THEN Whole(s, v) ELSE Available(s, v.from)) /\ Idle(q, s, v)}
    BY <2>3 DEF Able, w
  <2>11. c.staff[i] = Working(items[i])
    BY <1>1
  <2>12. \A s \in Staff : (IF entire THEN Whole(s, v) ELSE Available(s, v.from)) => WorkingToday(s)
    BY <2>6, <2>7
  <2> QED BY <2>1, <2>8, <2>9, <2>10, <2>11, <2>12
<1> HIDE DEF Can, w
<1>4. ASSUME NEW i \in D
      PROVE  cands[i] \in Seq(Staff) /\ ToSet(cands[i]) = Able(q, plan, i, t, entire)
  <2>1. cands[i] = ById(Able(q, plan, i, t, entire))
    BY <1>2, <1>3
  <2>2. Able(q, plan, i, t, entire) \subseteq Staff
    BY <1>0, StaffForIs DEF Able
  <2>3. PICK S \in SUBSET Staff : S = Able(q, plan, i, t, entire)
    BY <2>2
  <2>4. IsFiniteSet(S)
    BY FS_Subset DEF TimesAssumption
  <2>5. ById(S) \in Seq(S) /\ \A x : x \in S <=> \E k \in DOMAIN ById(S) : ById(S)[k] = x
    BY <2>4, ByIdIs
  <2>6. ToSet(ById(S)) = S
    BY <2>5 DEF ToSet
  <2>7. ById(S) \in Seq(Staff)
    BY <2>5
  <2> QED BY <2>1, <2>3, <2>6, <2>7
<1>5. DOMAIN cands = D
  BY <1>2
<1> HIDE DEF cands
<1> QED BY <1>0, <1>4, <1>5 DEF CandLists, cands, c

\* How many are at once is a number, and when it is one every round has one thing.
LEMMA ConcurrencyIs ==
  ASSUME NEW n \in Nat, n # 0, NEW plan, DOMAIN plan = 1 .. n
  PROVE  /\ Concurrency(plan) \in Int
         /\ ~IsParallel(plan) => \A i, j \in 1 .. n : plan[i] = plan[j] => i = j
<1> DEFINE f == [i \in 1 .. n |-> Cardinality(InRound(plan, plan[i]))]
           D == 1 .. n
           T == {f[i] : i \in D}
<1>1. \A i \in D : f[i] \in Int /\ f[i] = Cardinality(InRound(plan, plan[i])) /\ IsFiniteSet(InRound(plan, plan[i]))
  BY InRoundIs
<1>2. T = {Cardinality(InRound(plan, r)) : r \in ToSet(plan)}
  BY DEF ToSet
<1> HIDE DEF f
<1>3. IsFiniteSet(T) /\ T \subseteq Int
  <2>1. D \in SUBSET (1 .. n)
    OBVIOUS
  <2> HIDE DEF D
  <2> QED BY <1>1, <2>1, NumbersOf
<1>4. T # {} /\ \A i \in D : f[i] \in T
  <2>1. 1 \in D
    OBVIOUS
  <2> QED BY <2>1
<1>5. Concurrency(plan) = Max(T)
  BY <1>2 DEF Concurrency
<1> HIDE DEF T
<1>6. Max(T) \in Int /\ \A x \in T : Max(T) >= x
  BY <1>3, <1>4, Extremes
<1>7. ASSUME ~IsParallel(plan), NEW i \in D, NEW j \in D, plan[i] = plan[j], i # j PROVE FALSE
  <2> DEFINE S == InRound(plan, plan[i])
  <2>1. {i, j} \subseteq S
    BY <1>7 DEF InRound
  <2>2. IsFiniteSet(S)
    BY <1>1
  <2> HIDE DEF S
  <2>3. Cardinality({i, j}) <= Cardinality(S)
    BY <2>1, <2>2, FS_Subset
  <2>4. Cardinality({i, j}) = 2
    <3>1. IsFiniteSet({i}) /\ Cardinality({i}) = 1
      BY FS_Singleton
    <3>2. Cardinality({i} \cup {j}) = Cardinality({i}) + 1
      <4>1. j \notin {i}
        BY <1>7
      <4> QED BY <3>1, <4>1, FS_AddElement
    <3>3. {i} \cup {j} = {i, j}
      OBVIOUS
    <3> QED BY <3>1, <3>2, <3>3
  <2>5. f[i] >= 2
    BY <1>1, <2>3, <2>4 DEF S
  <2>6. Max(T) >= f[i]
    BY <1>4, <1>6
  <2>7. ~(Max(T) > 1)
    BY <1>5, <1>7 DEF IsParallel
  <2> QED BY <1>1, <1>6, <2>5, <2>6, <2>7
<1> QED BY <1>5, <1>6, <1>7

\* Two things of a plan are done at once when they are in the same round.
LEMMA AtOnceIs ==
  ASSUME TimesAssumption, NEW items \in Seq(Items), NEW plan \in Groupings(items), NEW t \in Int,
         NEW i \in DOMAIN items, NEW j \in DOMAIN items
  PROVE  Overlaps(Window(items, plan, i, t), Window(items, plan, j, t)) <=> plan[i] = plan[j]
<1> DEFINE v == Window(items, plan, i, t)
           w == Window(items, plan, j, t)
<1> SUFFICES Overlaps(v, w) <=> plan[i] = plan[j]
  OBVIOUS
<1>1. /\ v.from = t + Offset(items, plan, i) /\ v.to = v.from + Length(items[i])
      /\ w.from = t + Offset(items, plan, j) /\ w.to = w.from + Length(items[j])
      /\ v.from \in Int /\ v.to \in Int /\ w.from \in Int /\ w.to \in Int
  BY WindowIs
<1> HIDE DEF v, w
<1>2. /\ Offset(items, plan, i) \in Nat /\ Offset(items, plan, j) \in Nat
      /\ plan[i] < plan[j] => Offset(items, plan, i) + Length(items[i]) <= Offset(items, plan, j)
      /\ plan[j] < plan[i] => Offset(items, plan, j) + Length(items[j]) <= Offset(items, plan, i)
  BY RoundsApart
<1>3. Length(items[i]) \in Nat \ {0} /\ Length(items[j]) \in Nat \ {0}
  BY LengthIs
<1>4. plan[i] = plan[j] => Offset(items, plan, i) = Offset(items, plan, j)
  BY DEF Offset
<1>5. plan[i] \in Int /\ plan[j] \in Int
  BY DEF Groupings
<1>6. CASE plan[i] = plan[j]
  BY <1>1, <1>2, <1>3, <1>4, <1>6 DEF Overlaps
<1>7. CASE plan[i] < plan[j]
  BY SMTT(60), <1>1, <1>2, <1>3, <1>7 DEF Overlaps
<1>8. CASE plan[j] < plan[i]
  BY SMTT(60), <1>1, <1>2, <1>3, <1>8 DEF Overlaps
<1> QED BY <1>5, <1>6, <1>7, <1>8

\* People apart for what is at once, with one for everything when that is what was asked for.
Attendable(q, plan, lists) ==
  /\ Apiece(plan, lists) # {}
  /\ q.single /\ ~IsParallel(plan) => \E s \in Staff : \A i \in DOMAIN plan : s \in ToSet(lists[i])

\* A moment is possible with a plan exactly when there are people for it among those who
\* would have begun.
LEMMA FeasibleIs ==
  ASSUME TimesAssumption, NEW q, IsQuery(q), NEW plan \in Groupings(q.items), NEW t \in Int,
         NEW lists, DOMAIN lists = DOMAIN q.items,
         \A i \in DOMAIN q.items : ToSet(lists[i]) = Able(q, plan, i, t, FALSE)
  PROVE  Feasible(q, plan, t) <=> Attendable(q, plan, lists)
<1> DEFINE items == q.items
           D == DOMAIN items
           w(i) == Window(items, plan, i, t)
           Here(i, s) == s \in StaffFor(items[i]) /\ Available(s, w(i).from) /\ Idle(q, s, w(i))
<1>1. items \in Seq(Items) /\ items # <<>> /\ DOMAIN plan = D /\ 1 \in D
  BY DEF IsQuery, Groupings
<1>2. \A i \in D : \A s : s \in ToSet(lists[i]) <=> Here(i, s)
  BY DEF Able
<1>3. \A i, j \in D : Overlaps(w(i), w(j)) <=> plan[i] = plan[j]
  BY <1>1, AtOnceIs
<1>4. Feasible(q, plan, t) <=>
        \E who \in [D -> Staff] :
          /\ \A i \in D : Here(i, who[i])
          /\ q.single /\ ~IsParallel(plan) => \A i \in D : who[i] = who[1]
          /\ \A i, j \in D : i # j /\ Overlaps(w(i), w(j)) => who[i] # who[j]
  <2>1. \A who \in [D -> Staff] : DOMAIN who = D
    OBVIOUS
  <2> HIDE DEF w
  <2> QED BY <2>1 DEF Feasible, w
<1>5. \A i \in D : \A s : Here(i, s) => s \in Staff
  BY <1>1, StaffForIs
<1>6. ~IsParallel(plan) => \A i, j \in D : plan[i] = plan[j] => i = j
  <2>1. PICK n \in Nat : D = 1 .. n /\ n # 0
    BY <1>1
  <2> QED BY <1>1, <2>1, ConcurrencyIs
<1> HIDE DEF Here, w
<1>7. ASSUME NEW who \in [D -> Staff], \A i \in D : Here(i, who[i]),
             q.single /\ ~IsParallel(plan) => \A i \in D : who[i] = who[1],
             \A i, j \in D : i # j /\ Overlaps(w(i), w(j)) => who[i] # who[j]
      PROVE  Attendable(q, plan, lists)
  <2>1. who \in Apiece(plan, lists)
    BY <1>1, <1>2, <1>3, <1>7 DEF Apiece
  <2>2. ASSUME q.single, ~IsParallel(plan) PROVE \A i \in DOMAIN plan : who[1] \in ToSet(lists[i])
    BY <1>1, <1>2, <1>7, <2>2
  <2>3. who[1] \in Staff
    BY <1>1
  <2> QED BY <2>1, <2>2, <2>3 DEF Attendable
<1>8. ASSUME Attendable(q, plan, lists)
      PROVE  \E who \in [D -> Staff] :
               /\ \A i \in D : Here(i, who[i])
               /\ q.single /\ ~IsParallel(plan) => \A i \in D : who[i] = who[1]
               /\ \A i, j \in D : i # j /\ Overlaps(w(i), w(j)) => who[i] # who[j]
  <2>1. CASE q.single /\ ~IsParallel(plan)
    <3>1. PICK s \in Staff : \A i \in D : s \in ToSet(lists[i])
      BY <1>1, <1>8, <2>1 DEF Attendable
    <3>2. PICK who : who = [i \in D |-> s]
      OBVIOUS
    <3>3. who \in [D -> Staff] /\ (\A i \in D : who[i] = s) /\ who[1] = s
      BY <1>1, <3>2
    <3>4. \A i \in D : Here(i, who[i])
      BY <1>2, <3>1, <3>3
    <3>5. \A i, j \in D : i # j => ~Overlaps(w(i), w(j))
      BY <1>3, <1>6, <2>1
    <3> QED BY <3>3, <3>4, <3>5
  <2>2. CASE ~(q.single /\ ~IsParallel(plan))
    <3>1. PICK who \in Apiece(plan, lists) : TRUE
      BY <1>8 DEF Attendable
    <3>2. who \in [D -> Staff] /\ (\A i \in D : who[i] \in ToSet(lists[i]))
          /\ \A i, j \in D : i # j /\ plan[i] = plan[j] => who[i] # who[j]
      BY <1>1 DEF Apiece
    <3> QED BY <1>2, <1>3, <2>2, <3>2
  <2> QED BY <2>1, <2>2
<1> QED BY <1>4, <1>7, <1>8

\* Who could do it all alone, when nothing is at once.
LEMMA AloneIs ==
  ASSUME NEW plan, NEW cands, CandLists(cands), DOMAIN cands = DOMAIN plan
  PROVE  Alone(plan, cands) = IF IsParallel(plan) THEN {} ELSE {s \in Staff : \A i \in DOMAIN plan : s \in ToSet(cands[i])}
<1>1. \A i \in DOMAIN plan : \A s : Contains(cands[i], s) <=> s \in ToSet(cands[i])
  <2> SUFFICES ASSUME NEW i \in DOMAIN plan PROVE \A s : Contains(cands[i], s) <=> s \in ToSet(cands[i])
    OBVIOUS
  <2>1. cands[i] \in Seq(Staff)
    BY DEF CandLists
  <2>2. DOMAIN cands[i] = 1 .. Len(cands[i])
    BY <2>1
  <2> QED BY <2>2 DEF Contains, ToSet
<1> QED BY <1>1 DEF Alone

\* What a search at one moment with one plan finds.
LEMMA SlotOfIs ==
  ASSUME TimesAssumption, Calendar, Booked, NEW q, IsQuery(q), NEW p, NEW plan \in Groupings(q.items),
         Context(q).plans[p] = plan, NEW t \in Int, NEW entire \in BOOLEAN,
         NEW cands, cands = Candidates(Context(q), t, plan, entire)
  PROVE  /\ SlotOf(Context(q), t, p, entire) # {} <=> Attendable(q, plan, cands)
         /\ \A slot \in SlotOf(Context(q), t, p, entire) :
              /\ slot = [start |-> t, plan |-> plan, alone |-> Alone(plan, cands), cands |-> cands]
              /\ Apiece(plan, cands) # {} /\ Covered(plan, cands)
<1> DEFINE c == Context(q)
           items == q.items
           D == DOMAIN items
           alone == Alone(plan, cands)
<1>0. items \in Seq(Items) /\ items # <<>> /\ D = DOMAIN plan /\ c.q = q
  BY DEF IsQuery, Groupings, Context
<1>1. PICK n \in Nat : D = 1 .. n /\ n # 0 /\ n = Len(plan) /\ plan \in Seq(Int)
  <2>1. PICK n \in Nat : D = 1 .. n /\ n # 0
    BY <1>0
  <2>2. plan \in [1 .. n -> Int]
    BY <1>0, <2>1 DEF Groupings
  <2>3. plan \in Seq(Int) /\ Len(plan) = n
    BY <2>1, <2>2
  <2> QED BY <2>1, <2>3
<1>2. CandLists(cands) /\ DOMAIN cands = D
  BY CandidatesAre
<1> HIDE DEF c, items, D
<1>3. /\ Covered(plan, cands) <=> Apiece(plan, cands) # {}
  BY <1>0, <1>1, <1>2, CoveredIs DEF TimesAssumption
<1>4. SlotOf(c, t, p, entire) =
        IF /\ \A i \in D : cands[i] # <<>>
           /\ Covered(plan, cands)
           /\ q.single /\ n > 1 /\ ~IsParallel(plan) => alone # {}
        THEN {[start |-> t, plan |-> plan, alone |-> alone, cands |-> cands]} ELSE {}
  BY <1>0, <1>1 DEF SlotOf, c
<1>5. Apiece(plan, cands) # {} => \A i \in D : cands[i] # <<>>
  BY <1>0, <1>2 DEF Apiece, ToSet, CandLists
<1>6. ~IsParallel(plan) => (alone # {} <=> \E s \in Staff : \A i \in D : s \in ToSet(cands[i]))
  <2>1. alone = IF IsParallel(plan) THEN {} ELSE {s \in Staff : \A i \in D : s \in ToSet(cands[i])}
    BY <1>0, <1>2, AloneIs
  <2> HIDE DEF alone
  <2> QED BY <2>1
<1>7. n = 1 /\ Apiece(plan, cands) # {} => \E s \in Staff : \A i \in D : s \in ToSet(cands[i])
  <2> SUFFICES ASSUME n = 1, NEW who \in Apiece(plan, cands) PROVE \E s \in Staff : \A i \in D : s \in ToSet(cands[i])
    OBVIOUS
  <2>1. who[1] \in Staff /\ \A i \in D : i = 1 /\ who[i] \in ToSet(cands[i])
    BY <1>0, <1>1 DEF Apiece
  <2> QED BY <2>1
<1> HIDE DEF alone
<1>8. SlotOf(c, t, p, entire) # {} <=> Attendable(q, plan, cands)
  <2>1. SlotOf(c, t, p, entire) # {} <=>
          (\A i \in D : cands[i] # <<>>) /\ Covered(plan, cands) /\ (q.single /\ n > 1 /\ ~IsParallel(plan) => alone # {})
    BY <1>4
  <2>2. SlotOf(c, t, p, entire) # {} <=> Apiece(plan, cands) # {} /\ (q.single /\ n > 1 /\ ~IsParallel(plan) => alone # {})
    BY <1>3, <1>5, <2>1
  <2>3. Attendable(q, plan, cands) <=>
          Apiece(plan, cands) # {} /\ (q.single /\ ~IsParallel(plan) => \E s \in Staff : \A i \in D : s \in ToSet(cands[i]))
    BY <1>0 DEF Attendable
  <2>4. CASE n = 1
    BY <1>7, <2>2, <2>3, <2>4
  <2>5. CASE n > 1
    BY <1>6, <2>2, <2>3, <2>5
  <2>6. n = 1 \/ n > 1
    BY <1>1
  <2> QED BY <2>4, <2>5, <2>6
<1> QED BY <1>3, <1>4, <1>8 DEF c, alone

\* Who is there all along is there at the beginning.
LEMMA AbleBegin ==
  ASSUME TimesAssumption, NEW q, IsQuery(q), NEW plan \in Groupings(q.items), NEW t \in Int, NEW i \in DOMAIN q.items
  PROVE  Able(q, plan, i, t, TRUE) \subseteq Able(q, plan, i, t, FALSE)
<1> SUFFICES ASSUME NEW s, Whole(s, Window(q.items, plan, i, t))
             PROVE  Available(s, Window(q.items, plan, i, t).from)
  BY DEF Able
<1>1. q.items \in Seq(Items)
  BY DEF IsQuery
<1> DEFINE w == Window(q.items, plan, i, t)
<1>2. w.from \in Int /\ w.to \in Int /\ w.from < w.to
  BY <1>1, WindowIs
<1> HIDE DEF w
<1>3. w.from \in Minutes(w)
  BY <1>2 DEF Minutes
<1> QED BY <1>3 DEF Whole, w

\* At one moment with one plan something is found exactly when that is possible.
LEMMA EvaluatedExact ==
  ASSUME TimesAssumption, Calendar, Booked, NEW q, IsQuery(q), NEW p, Context(q).plans[p] \in Groupings(q.items), NEW t \in Int
  PROVE  Evaluated(Context(q), t, p) # {} <=> Feasible(q, Context(q).plans[p], t)
<1> DEFINE c == Context(q)
<1>1. PICK plan \in Groupings(q.items) : c.plans[p] = plan
  OBVIOUS
<1> DEFINE whole == Candidates(c, t, plan, TRUE)
           begun == Candidates(c, t, plan, FALSE)
<1>2. /\ DOMAIN whole = DOMAIN q.items /\ \A i \in DOMAIN q.items : ToSet(whole[i]) = Able(q, plan, i, t, TRUE)
      /\ DOMAIN begun = DOMAIN q.items /\ \A i \in DOMAIN q.items : ToSet(begun[i]) = Able(q, plan, i, t, FALSE)
  BY CandidatesAre
<1>3. SlotOf(c, t, p, TRUE) # {} <=> Attendable(q, plan, whole)
  BY <1>1, SlotOfIs
<1>4. SlotOf(c, t, p, FALSE) # {} <=> Attendable(q, plan, begun)
  BY <1>1, SlotOfIs
<1> HIDE DEF whole, begun, c
<1>5. \A i \in DOMAIN q.items : Able(q, plan, i, t, TRUE) \subseteq Able(q, plan, i, t, FALSE)
  BY AbleBegin
<1>6. DOMAIN plan = DOMAIN q.items
  BY DEF Groupings
<1>7. Attendable(q, plan, whole) => Attendable(q, plan, begun)
  <2>1. \A i \in DOMAIN plan : ToSet(whole[i]) \subseteq ToSet(begun[i])
    BY <1>2, <1>5, <1>6
  <2>2. Apiece(plan, whole) \subseteq Apiece(plan, begun)
    BY <2>1 DEF Apiece
  <2> QED BY <2>1, <2>2 DEF Attendable
<1>8. Feasible(q, plan, t) <=> Attendable(q, plan, begun)
  BY <1>2, FeasibleIs
<1>9. Evaluated(c, t, p) # {} <=> SlotOf(c, t, p, TRUE) # {} \/ SlotOf(c, t, p, FALSE) # {}
  BY DEF Evaluated
<1> QED BY <1>1, <1>3, <1>4, <1>7, <1>8, <1>9 DEF c

-----------------------------------------------------------------------------
(* The order of the plans *)

\* Ranks of the same form can be put in order.
LEMMA PrecedesIs ==
  ASSUME NEW S, NEW rank, NEW m \in Nat, \A x \in S : DOMAIN rank[x] = 1 .. m /\ \A i \in 1 .. m : rank[x][i] \in Int
  PROVE  Weak(S, {p \in S \X S : Precedes(rank[p[1]], rank[p[2]])})
<1> DEFINE before == {p \in S \X S : Precedes(rank[p[1]], rank[p[2]])}
<1>1. \A x, y \in S : <<x, y>> \in before <=> \E i \in 1 .. m : rank[x][i] < rank[y][i] /\ \A j \in 1 .. i - 1 : rank[x][j] = rank[y][j]
  BY DEF Precedes
<1> HIDE DEF before
<1> SUFFICES ASSUME NEW x \in S, NEW y \in S, NEW z \in S, <<x, y>> \in before
             PROVE  <<y, x>> \notin before /\ (<<x, z>> \in before \/ <<z, y>> \in before)
  BY DEF Weak, before
<1>2. PICK i \in 1 .. m : rank[x][i] < rank[y][i] /\ \A j \in 1 .. i - 1 : rank[x][j] = rank[y][j]
  BY <1>1
<1>3. \A k \in 1 .. m : rank[x][k] \in Int /\ rank[y][k] \in Int /\ rank[z][k] \in Int
  OBVIOUS
<1>4. <<y, x>> \notin before
  <2> SUFFICES ASSUME NEW k \in 1 .. m, rank[y][k] < rank[x][k], \A j \in 1 .. k - 1 : rank[y][j] = rank[x][j] PROVE FALSE
    BY <1>1
  <2>1. k < i \/ k = i \/ i < k
    OBVIOUS
  <2>2. CASE k < i
    <3>1. k \in 1 .. i - 1
      BY <2>2
    <3> QED BY <1>2, <1>3, <3>1
  <2>3. CASE k = i
    BY <1>2, <1>3, <2>3
  <2>4. CASE i < k
    <3>1. i \in 1 .. k - 1
      BY <2>4
    <3> QED BY <1>2, <1>3, <3>1
  <2> QED BY <2>1, <2>2, <2>3, <2>4
<1>5. <<x, z>> \in before \/ <<z, y>> \in before
  <2> DEFINE Same(k) == rank[x][k] = rank[z][k]
  <2>1. CASE \A k \in 1 .. i : Same(k)
    <3>1. rank[z][i] < rank[y][i]
      BY <1>2, <1>3, <2>1
    <3>2. \A j \in 1 .. i - 1 : rank[z][j] = rank[y][j]
      BY <1>2, <2>1
    <3> QED BY <1>1, <3>1, <3>2
  <2>2. CASE \E k \in 1 .. i : ~Same(k)
    <3> DEFINE bad == {k \in 1 .. i : ~Same(k)}
    <3>1. bad \subseteq Nat /\ bad # {}
      BY <2>2
    <3>2. PICK k \in bad : \A j \in bad : ~ (<<j, k>> \in Smaller)
      <4> HIDE DEF bad
      <4> QED BY <3>1, WFMin, SmallerWF
    <3>3. \A j \in 1 .. k - 1 : Same(j)
      <4> SUFFICES ASSUME NEW j \in 1 .. k - 1, ~Same(j) PROVE FALSE
        OBVIOUS
      <4>1. j \in bad /\ j \in Nat /\ k \in Nat /\ j < k
        OBVIOUS
      <4>2. <<j, k>> \in Smaller
        BY <4>1 DEF Smaller
      <4> QED BY <3>2, <4>1, <4>2
    <3>4. k \in 1 .. i /\ k \in 1 .. m /\ rank[x][k] # rank[z][k]
      OBVIOUS
    <3>5. CASE rank[x][k] < rank[z][k]
      BY <1>1, <3>3, <3>4, <3>5
    <3>6. CASE rank[z][k] < rank[x][k]
      <4>1. \A j \in 1 .. k - 1 : rank[z][j] = rank[y][j]
        <5>1. \A j \in 1 .. k - 1 : j \in 1 .. i - 1
          BY <3>4
        <5> QED BY <1>2, <3>3, <5>1
      <4>2. rank[z][k] < rank[y][k]
        <5>1. k = i \/ k \in 1 .. i - 1
          BY <3>4
        <5> QED BY <1>2, <1>3, <3>4, <3>6, <5>1
      <4> QED BY <1>1, <3>4, <4>1, <4>2
    <3> QED BY <1>3, <3>4, <3>5, <3>6
  <2> QED BY <2>1, <2>2
<1> QED BY <1>4, <1>5

\* One list of numbers after another.
LEMMA LongerIs ==
  ASSUME NEW m \in Nat, NEW n \in Nat, NEW a \in Seq(Int), NEW b \in Seq(Int), Len(a) = m, Len(b) = n, m # 0
  PROVE  /\ DOMAIN (a \o b) = 1 .. n + m
         /\ \A i \in 1 .. n + m : (a \o b)[i] \in Int
         /\ (a \o b)[1] = a[1]
<1>1. a \o b \in Seq(Int) /\ DOMAIN (a \o b) = 1 .. m + n /\ m + n = n + m
  OBVIOUS
<1>2. (a \o b)[1] = a[1]
  OBVIOUS
<1>3. \A i \in DOMAIN (a \o b) : (a \o b)[i] \in Int
  BY <1>1
<1> QED BY <1>1, <1>2, <1>3

\* How many rounds there are.
LEMMA RoundsIs ==
  ASSUME NEW items \in Seq(Items) \ {<<>>}, NEW plan \in Groupings(items)
  PROVE  Rounds(plan) \in Int
<1>1. PICK n \in Nat : DOMAIN items = 1 .. n /\ n # 0
  OBVIOUS
<1>2. DOMAIN plan = 1 .. n /\ \A i \in 1 .. n : plan[i] \in Int
  BY <1>1 DEF Groupings
<1> DEFINE T == {plan[i] : i \in 1 .. n}
<1>3. ToSet(plan) = T
  BY <1>2 DEF ToSet
<1>4. 1 .. n \in SUBSET (1 .. n)
  OBVIOUS
<1>5. IsFiniteSet(T) /\ T \subseteq Int
  BY <1>2, <1>4, NumbersOf
<1>6. T # {}
  <2>1. 1 \in 1 .. n
    BY <1>1
  <2> QED BY <2>1
<1> HIDE DEF T
<1> QED BY <1>3, <1>5, <1>6, Extremes DEF Rounds

\* All the ways of fitting them are listed, none after one that takes longer.
LEMMA PlansInOrder ==
  ASSUME TimesAssumption, NEW items \in Seq(Items) \ {<<>>}, Len(items) <= MaxPlanned
  PROVE  /\ ToSet(ExecutionPlans(items)) = Groupings(items)
         /\ \A i, j \in DOMAIN ExecutionPlans(items) :
              i < j => TotalLength(items, ExecutionPlans(items)[i]) <= TotalLength(items, ExecutionPlans(items)[j])
<1> DEFINE plans == ExecutionPlans(items)
           S == Groupings(items)
<1>1. PICK n \in Nat : DOMAIN items = 1 .. n /\ n # 0 /\ n = Len(items)
  OBVIOUS
<1>2. CASE n = 1
  <2>1. plans = <<Sequential(items)>>
    BY <1>1, <1>2 DEF ExecutionPlans
  <2>2. ToSet(plans) = {Sequential(items)} /\ \A i, j \in DOMAIN plans : ~(i < j)
    BY <2>1 DEF ToSet
  <2>3. S = {Sequential(items)}
    <3>1. Sequential(items) \in S
      BY SequentialFits
    <3>2. ASSUME NEW plan \in S PROVE plan = Sequential(items)
      <4>1. plan \in [{1} -> {1}]
        BY <1>1, <1>2 DEF Groupings
      <4>2. plan = [i \in {1} |-> 1]
        BY <4>1
      <4>3. DOMAIN items = {1}
        BY <1>1, <1>2
      <4> QED BY <4>2, <4>3 DEF Sequential
    <3> QED BY <3>1, <3>2
  <2> QED BY <2>2, <2>3
<1>3. CASE n # 1
  <2> DEFINE rank == [plan \in S |-> Rank(items, plan)]
             before == {p \in S \X S : Precedes(rank[p[1]], rank[p[2]])}
  <2>1. plans = Ordered(S, before)
    <3>1. ~(Len(items) = 1 \/ Len(items) > MaxPlanned)
      BY <1>1, <1>3 DEF MaxPlanned
    <3>2. before = {p \in S \X S : Precedes(Rank(items, p[1]), Rank(items, p[2]))}
      OBVIOUS
    <3> QED BY <3>1, <3>2 DEF ExecutionPlans
  <2>2. ASSUME NEW plan \in S
        PROVE  /\ DOMAIN rank[plan] = 1 .. n + 3 /\ \A i \in 1 .. n + 3 : rank[plan][i] \in Int
               /\ rank[plan][1] = TotalLength(items, plan)
    <3>1. TotalLength(items, plan) \in Int /\ Rounds(plan) \in Int
      BY TotalIs, RoundsIs
    <3>2. plan \in [1 .. n -> Int]
      BY <1>1 DEF Groupings
    <3>3. Concurrency(plan) \in Int
      BY <1>1, <3>2, ConcurrencyIs
    <3>4. plan \in Seq(Int) /\ Len(plan) = n
      BY <1>1, <3>2
    <3> DEFINE head == <<TotalLength(items, plan), Concurrency(plan), Rounds(plan)>>
    <3>5. head \in Seq(Int) /\ Len(head) = 3 /\ head[1] = TotalLength(items, plan)
      BY <3>1, <3>3
    <3>6. rank[plan] = head \o plan
      BY DEF Rank
    <3> HIDE DEF head, rank
    <3>7. /\ DOMAIN (head \o plan) = 1 .. n + 3
          /\ \A i \in 1 .. n + 3 : (head \o plan)[i] \in Int
          /\ (head \o plan)[1] = head[1]
      <4>1. PICK m \in Nat : m = 3
        OBVIOUS
      <4>2. Len(head) = m /\ m # 0 /\ n + m = n + 3
        BY <3>5, <4>1
      <4>3. /\ DOMAIN (head \o plan) = 1 .. n + m
            /\ \A i \in 1 .. n + m : (head \o plan)[i] \in Int
            /\ (head \o plan)[1] = head[1]
        BY <3>4, <3>5, <4>2, LongerIs
      <4> QED BY <4>2, <4>3
    <3> QED BY <3>5, <3>6, <3>7
  <2>3. IsFiniteSet(S)
    BY FewGroupings
  <2> HIDE DEF rank
  <2>4. Weak(S, before)
    <3>1. n + 3 \in Nat
      BY <1>1
    <3> HIDE DEF S
    <3> QED BY <2>2, <3>1, PrecedesIs
  <2> HIDE DEF before, plans
  <2>5. plans \in Seq(S) /\ ToSet(plans) = S /\ Ranked(plans, before)
    <3> HIDE DEF S
    <3> QED BY <2>1, <2>3, <2>4, OrderedIs
  <2>6. ASSUME NEW i \in DOMAIN plans, NEW j \in DOMAIN plans, i < j
        PROVE  TotalLength(items, plans[i]) <= TotalLength(items, plans[j])
    <3>1. plans[i] \in S /\ plans[j] \in S
      <4> HIDE DEF S
      <4> QED BY <2>5
    <3>2. <<plans[j], plans[i]>> \notin before
      BY <2>5, <2>6 DEF Ranked
    <3>3. ~Precedes(rank[plans[j]], rank[plans[i]])
      BY <3>1, <3>2 DEF before
    <3>4. ~(rank[plans[j]][1] < rank[plans[i]][1])
      <4>1. 1 \in DOMAIN rank[plans[j]] /\ \A k \in 1 .. 1 - 1 : FALSE
        BY <1>1, <2>2, <3>1
      <4> QED BY <3>3, <4>1 DEF Precedes
    <3>5. rank[plans[i]][1] = TotalLength(items, plans[i]) /\ rank[plans[j]][1] = TotalLength(items, plans[j])
      BY <2>2, <3>1
    <3>6. TotalLength(items, plans[i]) \in Int /\ TotalLength(items, plans[j]) \in Int
      BY <3>1, TotalIs
    <3> QED BY <3>4, <3>5, <3>6
  <2> QED BY <2>5, <2>6 DEF plans
<1> QED BY <1>2, <1>3

-----------------------------------------------------------------------------
(* What is offered is what can be attended *)

\* The first plan that can be attended at a time is the shortest that can.
LEMMA FirstSlotIs ==
  ASSUME TimesAssumption, Calendar, Booked, NEW q, IsQuery(q), Len(q.items) <= MaxPlanned, NEW t \in Int
  PROVE  /\ FirstSlot(Context(q), t) # {} <=> \E plan \in Groupings(q.items) : Feasible(q, plan, t)
         /\ \A slot \in FirstSlot(Context(q), t) :
              /\ slot.start = t /\ slot.plan \in Groupings(q.items) /\ Feasible(q, slot.plan, t)
              /\ \A plan \in Groupings(q.items) :
                   Feasible(q, plan, t) => TotalLength(q.items, slot.plan) <= TotalLength(q.items, plan)
<1> DEFINE c == Context(q)
           items == q.items
           plans == ExecutionPlans(items)
           n == Len(plans)
<1>1. items \in Seq(Items) \ {<<>>} /\ items \in Seq(Items)
  BY DEF IsQuery
<1>2. c.plans = plans
  BY DEF Context
<1>3. /\ ToSet(plans) = Groupings(items)
      /\ \A i, j \in DOMAIN plans : i < j => TotalLength(items, plans[i]) <= TotalLength(items, plans[j])
  BY <1>1, PlansInOrder
<1>4. plans \in Seq(Groupings(items))
  BY <1>1, PlansAre
<1>5. n \in Nat /\ DOMAIN plans = 1 .. n
  <2> HIDE DEF plans
  <2> QED BY <1>4
<1>6. /\ \A p \in 1 .. n : plans[p] \in Groupings(items)
      /\ \A plan \in Groupings(items) : \E p \in 1 .. n : plans[p] = plan
  <2> HIDE DEF plans
  <2> QED BY <1>3, <1>5 DEF ToSet
<1> HIDE DEF plans, n
<1>7. \A p \in 1 .. n : Evaluated(c, t, p) # {} <=> Feasible(q, plans[p], t)
  BY <1>2, <1>6, EvaluatedExact
<1>8. \/ FirstSlot(c, t) = {} /\ \A p \in 1 .. n : Evaluated(c, t, p) = {}
      \/ \E p \in 1 .. n : /\ FirstSlot(c, t) = Evaluated(c, t, p) /\ Evaluated(c, t, p) # {}
                          /\ \A o \in 1 .. p - 1 : Evaluated(c, t, o) = {}
  <2>1. DOMAIN c.plans = 1 .. n
    BY <1>2, <1>5
  <2> HIDE DEF c
  <2> QED BY <2>1, <1>5, FirstOfPlans
<1> HIDE DEF c
<1>9. FirstSlot(c, t) # {} <=> \E plan \in Groupings(items) : Feasible(q, plan, t)
  BY <1>6, <1>7, <1>8
<1>10. ASSUME NEW slot \in FirstSlot(c, t)
       PROVE  /\ slot.start = t /\ slot.plan \in Groupings(items) /\ Feasible(q, slot.plan, t)
              /\ \A plan \in Groupings(items) :
                   Feasible(q, plan, t) => TotalLength(items, slot.plan) <= TotalLength(items, plan)
  <2>1. PICK p \in 1 .. n : /\ slot \in Evaluated(c, t, p) /\ Evaluated(c, t, p) # {}
                            /\ \A o \in 1 .. p - 1 : Evaluated(c, t, o) = {}
    BY <1>8, <1>10
  <2>2. slot.start = t /\ slot.plan = plans[p]
    BY <2>1, <1>2, EvaluatedIs
  <2>3. slot.plan \in Groupings(items) /\ Feasible(q, slot.plan, t)
    BY <2>1, <2>2, <1>6, <1>7
  <2>4. ASSUME NEW plan \in Groupings(items), Feasible(q, plan, t)
        PROVE  TotalLength(items, slot.plan) <= TotalLength(items, plan)
    <3>1. PICK o \in 1 .. n : plans[o] = plan
      BY <1>6
    <3>2. ~(o \in 1 .. p - 1)
      BY <3>1, <2>1, <2>4, <1>7
    <3>3. o = p \/ p < o
      BY <3>2, <1>5
    <3>4. CASE p < o
      BY <3>1, <3>4, <2>2, <1>3, <1>5
    <3>5. CASE o = p
      <4>1. TotalLength(items, plan) \in Nat
        BY <1>1, TotalIs
      <4> QED BY <4>1, <3>1, <3>5, <2>2
    <3> QED BY <3>3, <3>4, <3>5
  <2> QED BY <2>2, <2>3, <2>4
<1> QED BY <1>9, <1>10 DEF c

\* The shortest way is the one that no other beats.
LEMMA ShortestIs ==
  ASSUME TimesAssumption, NEW q, IsQuery(q), NEW times, NEW t \in times, NEW plan \in Groupings(q.items), Feasible(q, plan, t),
         \A other \in Groupings(q.items) : Feasible(q, other, t) => TotalLength(q.items, plan) <= TotalLength(q.items, other)
  PROVE  Shortest(Possible(q, times), t) = TotalLength(q.items, plan)
<1> DEFINE S == {p[2] : p \in {p \in Possible(q, times) : p[1] = t}}
           least == TotalLength(q.items, plan)
<1>0. \A other \in Groupings(q.items) : TotalLength(q.items, other) \in Nat
  BY TotalIs DEF IsQuery
<1>1. \A x : x \in S <=> \E other \in Groupings(q.items) : Feasible(q, other, t) /\ x = TotalLength(q.items, other)
  <2> SUFFICES ASSUME NEW x
               PROVE  x \in S <=> \E other \in Groupings(q.items) : Feasible(q, other, t) /\ x = TotalLength(q.items, other)
    OBVIOUS
  <2>1. ASSUME NEW other \in Groupings(q.items), Feasible(q, other, t), x = TotalLength(q.items, other)
        PROVE  x \in S
    <3>1. <<other, t>> \in {pt \in Groupings(q.items) \X times : Feasible(q, pt[1], pt[2])}
      BY <2>1
    <3>2. <<t, x>> \in Possible(q, times)
      BY <2>1, <3>1 DEF Possible
    <3> QED BY <3>2
  <2>2. ASSUME x \in S
        PROVE  \E other \in Groupings(q.items) : Feasible(q, other, t) /\ x = TotalLength(q.items, other)
    <3>1. PICK p \in Possible(q, times) : p[1] = t /\ x = p[2]
      BY <2>2
    <3>2. PICK pt \in Groupings(q.items) \X times : Feasible(q, pt[1], pt[2]) /\ p = <<pt[2], TotalLength(q.items, pt[1])>>
      BY DEF Possible
    <3>3. p[1] = pt[2] /\ p[2] = TotalLength(q.items, pt[1])
      BY <3>2
    <3> QED BY <3>1, <3>2, <3>3
  <2> QED BY <2>1, <2>2
<1>2. least \in S /\ \A y \in S : least <= y /\ y \in Nat
  BY <1>0, <1>1
<1>3. Shortest(Possible(q, times), t) = Min(S)
  BY DEF Shortest
<1> HIDE DEF S, least
<1>4. Min(S) = least
  BY <1>2 DEF Min
<1> QED BY <1>3, <1>4 DEF least

\* The items of the first round start with the visit.
LEMMA StartsAtOnce ==
  ASSUME TimesAssumption, NEW items \in Seq(Items) \ {<<>>}, NEW plan \in Groupings(items), NEW t \in Int
  PROVE  1 \in DOMAIN items /\ Window(items, plan, 1, t).from = t
<1>1. 1 \in DOMAIN items
  OBVIOUS
<1>2. plan[1] = 1
  <2>1. plan[1] \in DOMAIN items /\ plan[1] <= Max({plan[j] : j \in 1 .. 1 - 1} \cup {0}) + 1
    BY <1>1 DEF Groupings
  <2>2. {plan[j] : j \in 1 .. 1 - 1} \cup {0} = {0}
    <3>1. 1 .. 1 - 1 = {}
      OBVIOUS
    <3> QED BY <3>1
  <2>3. Max({0}) = 0
    BY DEF Max
  <2>4. plan[1] \in Nat \ {0}
    <3>1. DOMAIN items = 1 .. Len(items) /\ Len(items) \in Nat
      OBVIOUS
    <3> QED BY <2>1, <3>1
  <2> DEFINE before == {plan[j] : j \in 1 .. 1 - 1} \cup {0}
  <2>5. plan[1] <= Max(before) + 1 /\ before = {0}
    BY <2>1, <2>2
  <2> HIDE DEF before
  <2>6. plan[1] <= Max({0}) + 1
    BY <2>5
  <2> QED BY <2>3, <2>4, <2>6
<1>3. Offset(items, plan, 1) = 0
  <2> DEFINE a == [k \in 1 .. 0 |-> RoundLength(items, plan, k)]
  <2>1. Offset(items, plan, 1) = SumOf(a)
    <3>1. Offset(items, plan, 1) = Total(items, plan, 0)
      BY <1>2 DEF Offset
    <3> QED BY <3>1 DEF Total, SumOf
  <2>2. a \in [1 .. 0 -> Int] /\ 0 \in Nat
    OBVIOUS
  <2> HIDE DEF a
  <2>3. SumOf(FirstOf(a, 0)) = 0 /\ SumOf(FirstOf(a, 0)) = SumOf(a)
    BY <2>2, SumGrows
  <2> QED BY <2>1, <2>3
<1> QED BY <1>1, <1>3 DEF Window, Period

\* The latest closing is a number whenever the business may open.
LEMMA LastIsNumber ==
  ASSUME TimesAssumption, UNION Hours # {}
  PROVE  MaxTime \in Int /\ \A r \in UNION Hours : r.to <= MaxTime /\ r.to \in Int
<1> DEFINE ends == {x.to : x \in UNION Hours}
<1>1. IsFiniteSet(UNION Hours) /\ \A x \in UNION Hours : x.to \in Int
  BY DEF TimesAssumption
<1>2. IsFiniteSet(ends)
  <2> DEFINE f == [x \in UNION Hours |-> x.to]
  <2>1. f \in Surjection(UNION Hours, ends)
    BY DEF Surjection
  <2> HIDE DEF f, ends
  <2> QED BY <1>1, <2>1, FS_Surjection
<1>3. ends \subseteq Int /\ ends # {} /\ \A r \in UNION Hours : r.to \in ends
  BY <1>1
<1>4. MaxTime = Max(ends)
  BY DEF MaxTime
<1> HIDE DEF ends
<1>5. Max(ends) \in Int /\ \A y \in ends : Max(ends) >= y
  BY <1>2, <1>3, Extremes
<1> QED BY <1>1, <1>3, <1>4, <1>5

\* Whatever can be attended begins with somebody of the team at work, before the last closing.
LEMMA FeasibleHere ==
  ASSUME TimesAssumption, Calendar, NEW q, IsQuery(q), NEW plan \in Groupings(q.items), NEW t \in Int, Feasible(q, plan, t)
  PROVE  /\ \E s \in StaffFor(q.items[1]) : Available(s, t)
         /\ t \in 0 .. MaxTime
         /\ \A i \in DOMAIN q.items : \E s \in StaffFor(q.items[i]) : \E u \in Int : u >= t /\ Available(s, u)
<1>1. q.items \in Seq(Items) \ {<<>>} /\ q.items \in Seq(Items) /\ 1 \in DOMAIN q.items
  BY DEF IsQuery
<1>2. PICK who \in [DOMAIN q.items -> Staff] :
        \A i \in DOMAIN q.items : who[i] \in StaffFor(q.items[i]) /\ Available(who[i], Window(q.items, plan, i, t).from)
  BY DEF Feasible
<1>3. who[1] \in StaffFor(q.items[1]) /\ Available(who[1], t)
  BY <1>1, <1>2, StartsAtOnce
<1>4. t \in 0 .. MaxTime
  <2>1. PICK r \in hours : r.from <= t /\ t < r.to
    BY <1>3 DEF Available, In
  <2>2. r \in UNION Hours /\ r.from >= 0 /\ r.from \in Int /\ r.to \in Int
    BY <2>1 DEF Calendar, TimesAssumption
  <2>3. MaxTime \in Int /\ r.to <= MaxTime
    BY <2>2, LastIsNumber
  <2> QED BY <2>1, <2>2, <2>3
<1>5. ASSUME NEW i \in DOMAIN q.items
      PROVE  \E s \in StaffFor(q.items[i]) : \E u \in Int : u >= t /\ Available(s, u)
  <2>1. Window(q.items, plan, i, t).from \in Int /\ t <= Window(q.items, plan, i, t).from
    BY <1>1, WindowIs
  <2> QED BY <2>1, <1>2
<1> QED BY <1>3, <1>4, <1>5

\* The ranges somebody works have numbers for their ends.
LEMMA RangesOf ==
  ASSUME TimesAssumption, Calendar, NEW s \in Staff, NEW r \in ToSet(WorkingRanges(s))
  PROVE  r.from \in Int /\ r.to \in Int
<1> DEFINE seq == WorkingRanges(s)
<1>1. seq \in Seq(Proper)
  BY BlocksAre, RangesLessIs DEF WorkingRanges
<1> HIDE DEF seq
<1>2. r \in Proper
  BY <1>1 DEF ToSet, seq
<1> QED BY <1>2 DEF Proper, Spans

\* The moments that are possible.
LEMMA PossibleTimes ==
  ASSUME NEW q, NEW times
  PROVE  \A t : t \in {p[1] : p \in Possible(q, times)} <=> t \in times /\ \E plan \in Groupings(q.items) : Feasible(q, plan, t)
<1> SUFFICES ASSUME NEW t
             PROVE  t \in {p[1] : p \in Possible(q, times)} <=> t \in times /\ \E plan \in Groupings(q.items) : Feasible(q, plan, t)
  OBVIOUS
<1>1. ASSUME t \in times, NEW plan \in Groupings(q.items), Feasible(q, plan, t)
      PROVE  t \in {p[1] : p \in Possible(q, times)}
  <2>1. <<plan, t>> \in {pt \in Groupings(q.items) \X times : Feasible(q, pt[1], pt[2])}
    BY <1>1
  <2>2. <<t, TotalLength(q.items, plan)>> \in Possible(q, times)
    BY <2>1 DEF Possible
  <2> QED BY <2>2
<1>2. ASSUME t \in {p[1] : p \in Possible(q, times)}
      PROVE  t \in times /\ \E plan \in Groupings(q.items) : Feasible(q, plan, t)
  <2>1. PICK p \in Possible(q, times) : p[1] = t
    BY <1>2
  <2>2. PICK pt \in Groupings(q.items) \X times : Feasible(q, pt[1], pt[2]) /\ p = <<pt[2], TotalLength(q.items, pt[1])>>
    BY DEF Possible
  <2>3. p[1] = pt[2]
    BY <2>2
  <2> QED BY <2>1, <2>2, <2>3
<1> QED BY <1>1, <1>2

\* A moment worth offering at which somebody is at work is one of those tried.
LEMMA WorthIsTried ==
  ASSUME TimesAssumption, Calendar, Booked, NEW q, IsQuery(q), NEW t \in Worth(q), t \in Int,
         \E s \in StaffFor(q.items[1]) : Available(s, t)
  PROVE  t \in CandidateTimes(Context(q))
<1> DEFINE c == Context(q)
           team == UNION {StaffFor(q.items[i]) : i \in DOMAIN q.items}
           on == {u \in 0 .. MaxTime : \E s \in team : Available(s, u)}
           begins == {u \in on : u - 1 \notin on}
           ranges == ToSet(Coverage(Team(q)))
           length == TotalLength(q.items, c.plans[1])
           anchors == Anchors(c)
           Tried(r) == Grid(r, length, Step, TRUE) \cup {u \in {r.to - length} : u >= r.from}
                         \cup {u \in anchors : r.from <= u /\ u < r.to}
<1>1. q.items \in Seq(Items) /\ 1 \in DOMAIN q.items
  BY DEF IsQuery
<1>2. c.q = q /\ c.plans = ExecutionPlans(q.items) /\ c.busy = Others(q)
  BY DEF Context
<1>3. CandidateTimes(c) = UNION {Tried(r) : r \in ranges}
  BY <1>2 DEF CandidateTimes
<1>4. team \subseteq Staff /\ Team(q) \subseteq Staff
  BY <1>1, StaffForIs, TeamIs
<1>5. \A s \in team : \A u \in Int : Available(s, u) => s \in Team(q)
  <2> SUFFICES ASSUME NEW i \in DOMAIN q.items, NEW s \in StaffFor(q.items[i]), NEW u \in Int, Available(s, u)
               PROVE  s \in Team(q)
    OBVIOUS
  <2>1. s \in Staff
    BY <1>4
  <2>2. WorkingToday(s)
    BY <2>1, WorkingIs
  <2> QED BY <2>2 DEF Team, Working
<1>6. Team(q) \subseteq team
  BY DEF Team, Working
<1>7. /\ Coverage(Team(q)) \in Seq(Proper) /\ Apart(ranges)
      /\ \A u \in Int : In(ranges, u) <=> \E s \in Team(q) : Available(s, u)
  BY <1>4, CoverageIs
<1>8. \A r \in ranges : r.from \in Int /\ r.to \in Int /\ r.from < r.to
  <2> DEFINE seq == Coverage(Team(q))
  <2>1. seq \in Seq(Proper) /\ ranges = ToSet(seq)
    BY <1>7
  <2> HIDE DEF seq, ranges
  <2> QED BY <2>1 DEF ToSet, Proper, Spans
<1>9. \A u \in Int : In(ranges, u) <=> \E s \in team : Available(s, u)
  BY <1>5, <1>6, <1>7
<1>10. PICK r \in ranges : r.from <= t /\ t < r.to
  BY <1>1, <1>9 DEF In
<1>11. \/ \E b \in Others(q) : b.to = t /\ b.staff \in team /\ \E u \in 0 .. b.to : Available(b.staff, u)
       \/ t \in on /\ \E o \in begins : (t - o) % Step = 0 /\ o <= t /\ o .. t \subseteq on
  BY DEF Worth
<1> HIDE DEF c, team, ranges
<1>12. CASE \E b \in Others(q) : b.to = t /\ b.staff \in team /\ \E u \in 0 .. b.to : Available(b.staff, u)
  <2>1. PICK b \in Others(q) : b.to = t /\ b.staff \in team /\ \E u \in 0 .. b.to : Available(b.staff, u)
    BY <1>12
  <2>2. b.staff \in Team(q)
    BY <2>1, <1>5
  <2>3. t \in anchors
    BY <2>1, <2>2, <1>2 DEF Anchors
  <2>4. t \in Tried(r)
    BY <2>3, <1>10
  <2> HIDE DEF Tried
  <2> QED BY <2>4, <1>3 DEF c
<1>13. CASE t \in on /\ \E o \in begins : (t - o) % Step = 0 /\ o <= t /\ o .. t \subseteq on
  <2>1. PICK o \in begins : (t - o) % Step = 0 /\ o <= t /\ o .. t \subseteq on
    BY <1>13
  <2>2. MaxTime \in Int
    <3>1. hours \subseteq UNION Hours /\ hours # {}
      BY DEF Calendar, Available, In
    <3> QED BY <3>1, LastIsNumber
  <2>3. o \in Int /\ \E s \in team : Available(s, o)
    BY <2>1
  <2>4. PICK x \in ranges : x.from <= o /\ o < x.to
    BY <2>3, <1>9 DEF In
  <2>5. x.from = o
    <3> SUFFICES ASSUME x.from < o PROVE FALSE
      BY <2>3, <2>4, <1>8
    <3>1. In(ranges, o - 1)
      BY <2>3, <2>4, <1>8 DEF In
    <3>2. PICK s \in team : Available(s, o - 1)
      BY <3>1, <2>3, <1>9
    <3>3. o - 1 >= 0
      <4>1. PICK row \in hours : row.from <= o - 1
        BY <3>2 DEF Available, In
      <4>2. row.from >= 0 /\ row.from \in Int
        BY DEF Calendar, TimesAssumption
      <4> QED BY <4>1, <4>2, <2>3
    <3>4. o \in 0 .. MaxTime /\ o - 1 \notin on
      BY <2>1
    <3>5. o - 1 \in 0 .. MaxTime
      BY <3>3, <3>4, <2>2
    <3> QED BY <3>2, <3>4, <3>5
  <2>6. t < x.to
    <3> SUFFICES ASSUME x.to <= t PROVE FALSE
      BY <1>8
    <3>1. x.to \in o .. t /\ x.to \in Int
      BY <2>3, <2>4, <1>8
    <3>2. x.to \in on
      BY <3>1, <2>1
    <3>3. PICK s \in team : Available(s, x.to)
      BY <3>2
    <3>4. In(ranges, x.to)
      BY <3>1, <3>3, <1>9
    <3>5. PICK y \in ranges : y.from <= x.to /\ x.to < y.to
      BY <3>4 DEF In
    <3>6. x # y
      BY <3>5, <1>8
    <3>7. x.to < y.from \/ y.to < x.from
      BY <3>6, <1>7 DEF Apart
    <3> QED BY <3>5, <3>7, <2>4, <2>3, <1>8
  <2>7. t \in x.from .. x.to - 1 /\ (t - x.from) % Step = 0
    BY <2>1, <2>3, <2>5, <2>6, <1>8
  <2>8. t \in Tried(x)
    BY <2>7 DEF Grid
  <2> HIDE DEF Tried
  <2> QED BY <2>8, <1>3 DEF c
<1> HIDE DEF on, begins
<1> QED BY <1>11, <1>12, <1>13 DEF c

\* The times offered are exactly those that somebody can attend.
LEMMA OfferedExactly ==
  ASSUME TimesAssumption, Calendar, Booked, now \in Nat, NEW q, IsQuery(q), Len(q.items) <= MaxPlanned
  PROVE  Exact(q, Slots(q), Possible(q, MinStart(q) .. MaxTime))
<1> DEFINE c == Context(q)
           from == MinStart(q)
           span == from .. MaxTime
           possible == Possible(q, span)
           times == {p[1] : p \in possible}
<1>1. from \in Nat /\ (~q.panel => from = now + Lead)
  BY DEF MinStart, TimesAssumption
<1>2. q.items \in Seq(Items) \ {<<>>} /\ q.items \in Seq(Items)
  BY DEF IsQuery
<1>3. CandidateTimes(c) \subseteq Int
  BY <1>2, TimesAre
<1>4. \A t : t \in times <=> t \in span /\ \E plan \in Groupings(q.items) : Feasible(q, plan, t)
  <2> HIDE DEF span
  <2> QED BY PossibleTimes
<1> HIDE DEF c
<1>5. ASSUME NEW slot \in Slots(q)
      PROVE  /\ slot.start \in times /\ slot.start \in Int /\ slot.start >= from
             /\ slot.plan \in Groupings(q.items) /\ Feasible(q, slot.plan, slot.start)
             /\ TotalLength(q.items, slot.plan) = Shortest(possible, slot.start)
  <2>1. PICK t \in CandidateTimes(c) : t >= from /\ slot \in FirstSlot(c, t)
    BY <1>5 DEF Slots, c
  <2>2. t \in Int
    BY <1>3
  <2>3. /\ slot.start = t /\ slot.plan \in Groupings(q.items) /\ Feasible(q, slot.plan, t)
        /\ \A plan \in Groupings(q.items) :
             Feasible(q, plan, t) => TotalLength(q.items, slot.plan) <= TotalLength(q.items, plan)
    BY <2>1, <2>2, FirstSlotIs DEF c
  <2>4. t \in 0 .. MaxTime
    BY <2>2, <2>3, FeasibleHere
  <2>5. t \in span
    BY <2>1, <2>2, <2>4, <1>1
  <2>6. Shortest(possible, t) = TotalLength(q.items, slot.plan)
    <3> HIDE DEF span
    <3> QED BY <2>3, <2>5, ShortestIs
  <2> HIDE DEF times, span, possible, from
  <2> QED BY <2>1, <2>2, <2>3, <2>5, <2>6, <1>4
<1>6. ASSUME Viable(q), NEW t \in times \cap Worth(q)
      PROVE  \E slot \in Slots(q) : slot.start = t
  <2> HIDE DEF times
  <2>1. PICK plan \in Groupings(q.items) : Feasible(q, plan, t) /\ t \in span
    BY <1>4, <1>6
  <2>2. t \in Int /\ t >= from
    BY <2>1, <1>1
  <2>3. \E s \in StaffFor(q.items[1]) : Available(s, t)
    BY <2>1, <2>2, FeasibleHere
  <2>4. t \in CandidateTimes(c)
    BY <2>2, <2>3, <1>6, WorthIsTried DEF c
  <2>5. PICK slot \in FirstSlot(c, t) : slot.start = t
    BY <2>1, <2>2, FirstSlotIs DEF c
  <2>6. slot \in Slots(q)
    BY <2>2, <2>4, <2>5, <1>6 DEF Slots, c
  <2> QED BY <2>5, <2>6
<1>7. ASSUME ~q.panel, Slots(q) # {}
      PROVE  Serviceable(q)
  <2>1. PICK slot \in Slots(q) : TRUE
    BY <1>7
  <2>2. slot.start \in Int /\ slot.start >= now + Lead /\ slot.plan \in Groupings(q.items) /\ Feasible(q, slot.plan, slot.start)
    <3> HIDE DEF times, from, possible
    <3> QED BY <1>1, <1>5, <1>7
  <2>3. now + Lead \in Int
    BY DEF TimesAssumption
  <2>4. ASSUME NEW i \in DOMAIN q.items
        PROVE  \E s \in StaffFor(q.items[i]) : \E r \in ToSet(WorkingRanges(s)) : r.to > now + Lead
    <3>1. PICK s \in StaffFor(q.items[i]), u \in Int : u >= slot.start /\ Available(s, u)
      BY <2>2, FeasibleHere
    <3>2. s \in Staff
      BY <1>2, StaffForIs
    <3>3. PICK r \in ToSet(WorkingRanges(s)) : r.from <= u /\ u < r.to
      BY <3>1, <3>2, WorkingIs
    <3>4. r.to \in Int
      BY <3>2, <3>3, RangesOf
    <3> QED BY <2>2, <2>3, <3>1, <3>3, <3>4
  <2> QED BY <2>4 DEF Serviceable
<1>8. Exact(q, Slots(q), possible)
  <2> HIDE DEF possible
  <2> QED BY <1>5, <1>6, <1>7 DEF Exact
<1> QED BY <1>8

-----------------------------------------------------------------------------
(* What is written on confirming *)

\* A slot that is offered, with whom it was worked out for.
LEMMA SlotHas ==
  ASSUME TimesAssumption, Calendar, Booked, NEW q, IsQuery(q), NEW slot \in Slots(q)
  PROVE  \E t \in Int, plan \in Groupings(q.items), entire \in BOOLEAN :
           /\ t >= MinStart(q) /\ slot \in FirstSlot(Context(q), t) /\ slot.start = t /\ slot.plan = plan
           /\ slot.cands = Candidates(Context(q), t, plan, entire)
           /\ slot.alone = Alone(plan, slot.cands)
           /\ Apiece(plan, slot.cands) # {} /\ Covered(plan, slot.cands)
<1> DEFINE c == Context(q)
           items == q.items
           plans == ExecutionPlans(items)
           n == Len(plans)
<1>1. items \in Seq(Items) \ {<<>>} /\ items \in Seq(Items)
  BY DEF IsQuery
<1>2. c.plans = plans
  BY DEF Context
<1>3. PICK t \in CandidateTimes(c) : t >= MinStart(q) /\ slot \in FirstSlot(c, t)
  <2> HIDE DEF c
  <2> QED BY DEF Slots, c
<1>4. t \in Int
  BY <1>1, TimesAre
<1>5. plans \in Seq(Groupings(items))
  BY <1>1, PlansAre
<1>6. n \in Nat /\ DOMAIN plans = 1 .. n /\ \A p \in 1 .. n : plans[p] \in Groupings(items)
  <2> HIDE DEF plans
  <2> QED BY <1>5
<1> HIDE DEF plans, n
<1>7. PICK p \in 1 .. n : slot \in Evaluated(c, t, p)
  <2> DEFINE first == FirstSlot(c, t)
  <2>1. DOMAIN c.plans = 1 .. n
    BY <1>2, <1>6
  <2>2. first = {} \/ \E p \in 1 .. n : first = Evaluated(c, t, p)
    <3> HIDE DEF c
    <3> QED BY <2>1, <1>6, FirstOfPlans
  <2>3. slot \in first
    BY <1>3
  <2> HIDE DEF first
  <2> QED BY <2>2, <2>3
<1>8. PICK entire \in BOOLEAN : slot \in SlotOf(c, t, p, entire)
  <2> HIDE DEF c
  <2>1. slot \in SlotOf(c, t, p, TRUE) \/ slot \in SlotOf(c, t, p, FALSE)
    BY <1>7 DEF Evaluated
  <2> QED BY <2>1
<1> DEFINE plan == plans[p]
           cands == Candidates(c, t, plan, entire)
<1>9. plan \in Groupings(items) /\ c.plans[p] = plan
  BY <1>2, <1>6
<1>10. /\ slot = [start |-> t, plan |-> plan, alone |-> Alone(plan, cands), cands |-> cands]
       /\ Apiece(plan, cands) # {} /\ Covered(plan, cands)
  <2> HIDE DEF plan
  <2> QED BY <1>4, <1>8, <1>9, SlotOfIs
<1> HIDE DEF cands, plan
<1>11. slot.start = t /\ slot.plan = plan /\ slot.alone = Alone(plan, cands) /\ slot.cands = cands
  BY <1>10
<1> QED BY <1>3, <1>4, <1>9, <1>10, <1>11 DEF c, cands

\* What some segments last in all is a number.
LEMMA LastingIs ==
  ASSUME NEW S, IsFiniteSet(S), \A b \in S : b.from \in Int /\ b.to \in Int
  PROVE  Lasting(S) \in Int
<1> DEFINE step == [p \in Int \X S |-> p[1] + p[2].to - p[2].from]
           Solved(t) == t = [s \in SUBSET S |->
             IF s = {} THEN 0
             ELSE t[s \ {CHOOSE x \in s : TRUE}] + (CHOOSE x \in s : TRUE).to - (CHOOSE x \in s : TRUE).from]
           list == CHOOSE t : Solved(t)
<1>1. Lasting(S) = list[S]
  BY DEF Lasting, FoldSet, MapThenFoldSet
<1>2. step \in [Int \X S -> Int] /\ 0 \in Int
  OBVIOUS
<1>3. \A s \in SUBSET S : s # {} => Some(S)[s] \in s /\ Some(S)[s] = CHOOSE x \in s : TRUE
  BY DEF Some
<1>4. \A s \in SUBSET S : s # {} => Some(S)[s] \in s
  BY <1>3
<1>5. PICK table \in [SUBSET S -> Int] : Solves(table, S, 0, step, Some(S))
  <2> HIDE DEF step
  <2> QED BY <1>2, <1>4, TableExists
<1>6. Solved(table)
  <2>1. ASSUME NEW s \in SUBSET S
        PROVE  table[s] = IF s = {} THEN 0
                 ELSE table[s \ {CHOOSE x \in s : TRUE}] + (CHOOSE x \in s : TRUE).to - (CHOOSE x \in s : TRUE).from
    <3>1. table[s] = Built(0, step, Some(S), table, s)
      BY <1>5 DEF Solves
    <3>2. CASE s = {}
      BY <3>1, <3>2 DEF Built
    <3>3. CASE s # {}
      <4> DEFINE x == CHOOSE x \in s : TRUE
      <4>1. x \in s /\ x \in S /\ Some(S)[s] = x
        BY <1>3, <3>3
      <4> HIDE DEF x
      <4>2. table[s] = step[<<table[s \ {x}], x>>]
        BY <3>1, <3>3, <4>1 DEF Built
      <4>3. s \ {x} \in SUBSET S
        OBVIOUS
      <4>4. <<table[s \ {x}], x>> \in Int \X S
        BY <4>1, <4>3
      <4>5. table[s] = table[s \ {x}] + x.to - x.from
        BY <4>2, <4>4
      <4> QED BY <3>3, <4>5 DEF x
    <3> QED BY <3>2, <3>3
  <2>2. DOMAIN table = SUBSET S
    OBVIOUS
  <2> QED BY <2>1, <2>2
<1>7. Solved(list)
  <2> HIDE DEF Solved
  <2> QED BY <1>6
<1>8. list[S] = table[S]
  <2> DEFINE same == {s \in SUBSET S : list[s] = table[s]}
  <2> HIDE DEF list
  <2>1. ASSUME NEW s \in SUBSET S, \A x \in s : s \ {x} \in same PROVE s \in same
    <3>1. CASE s = {}
      BY <1>6, <1>7, <3>1
    <3>2. CASE s # {}
      <4> DEFINE x == CHOOSE x \in s : TRUE
      <4>1. list[s \ {x}] = table[s \ {x}]
        BY <2>1, <3>2
      <4>2. list[s] = list[s \ {x}] + x.to - x.from /\ table[s] = table[s \ {x}] + x.to - x.from
        BY <1>6, <1>7, <3>2
      <4> QED BY <4>1, <4>2
    <3> QED BY <3>1, <3>2
  <2> HIDE DEF same
  <2>2. S \in same
    BY <2>1, BySmaller
  <2> QED BY <2>2 DEF same
<1> HIDE DEF list
<1> QED BY <1>1, <1>8

\* The work of somebody is a number.
LEMMA WorkloadIs ==
  ASSUME Booked, IsFiniteSet(busy), NEW q, NEW s
  PROVE  Workload(q, s) \in Int
<1> DEFINE S == {b \in Others(q) : b.staff = s}
<1>1. S \subseteq busy /\ IsFiniteSet(S)
  <2>1. S \subseteq busy
    BY DEF Others
  <2> HIDE DEF S
  <2> QED BY <2>1, FS_Subset
<1>2. \A b \in S : b.from \in Int /\ b.to \in Int
  BY <1>1 DEF Booked
<1>3. Workload(q, s) = Lasting(S)
  BY DEF Workload
<1> HIDE DEF S
<1> QED BY <1>1, <1>2, <1>3, LastingIs

\* In order of work, nobody before has more.
LEMMA LeastWorkIs ==
  ASSUME IsFiniteSet(Staff), Staff \subseteq Nat, Booked, IsFiniteSet(busy), NEW q, NEW staff, staff \subseteq Staff
  PROVE  /\ ByLeastWork(q, staff) \in Seq(Staff) /\ ToSet(ByLeastWork(q, staff)) = staff
         /\ \A s \in staff : ~(Workload(q, s) < Workload(q, ByLeastWork(q, staff)[1]))
         /\ staff # {} => ByLeastWork(q, staff)[1] \in staff
<1> DEFINE before == {p \in staff \X staff : Workload(q, p[1]) < Workload(q, p[2])
                                             \/ (Workload(q, p[1]) = Workload(q, p[2]) /\ p[1] < p[2])}
           seq == ByLeastWork(q, staff)
<1>1. seq = Ordered(staff, before)
  BY DEF ByLeastWork
<1>2. IsFiniteSet(staff)
  BY FS_Subset
<1>3. \A s \in staff : Workload(q, s) \in Int /\ s \in Int
  BY WorkloadIs
<1>4. Weak(staff, before)
  <2> DEFINE work == [s \in staff |-> Workload(q, s)]
  <2>1. before = {p \in staff \X staff : work[p[1]] < work[p[2]] \/ (work[p[1]] = work[p[2]] /\ p[1] < p[2])}
    OBVIOUS
  <2>2. \A s \in staff : work[s] \in Int
    BY <1>3
  <2> HIDE DEF work, before
  <2>3. \A x, y \in staff : <<x, y>> \in before <=> work[x] < work[y] \/ (work[x] = work[y] /\ x < y)
    BY <2>1
  <2> QED BY <1>3, <2>2, <2>3 DEF Weak
<1> HIDE DEF before, seq
<1>5. /\ seq \in Seq(staff) /\ ToSet(seq) = staff /\ Ranked(seq, before)
  BY <1>1, <1>2, <1>4, OrderedIs
<1>6. seq \in Seq(Staff)
  <2>1. Len(seq) \in Nat /\ seq \in [1 .. Len(seq) -> Staff]
    <3>1. Len(seq) \in Nat /\ DOMAIN seq = 1 .. Len(seq) /\ \A i \in 1 .. Len(seq) : seq[i] \in staff
      BY <1>5
    <3>2. seq = [i \in 1 .. Len(seq) |-> seq[i]]
      BY <1>5
    <3> QED BY <3>1, <3>2
  <2> QED BY <2>1
<1>7. ASSUME staff # {} PROVE 1 \in DOMAIN seq /\ seq[1] \in staff
  BY <1>5, <1>7 DEF ToSet
<1>8. ASSUME NEW s \in staff, Workload(q, s) < Workload(q, seq[1]) PROVE FALSE
  <2>1. 1 \in DOMAIN seq /\ seq[1] \in staff
    BY <1>7
  <2>2. PICK i \in DOMAIN seq : seq[i] = s
    BY <1>5 DEF ToSet
  <2>3. <<s, seq[1]>> \in before
    BY <1>8, <2>1 DEF before
  <2>4. i = 1 \/ 1 < i
    BY <1>5
  <2>5. CASE i = 1
    BY <1>3, <1>8, <2>2, <2>5
  <2>6. CASE 1 < i
    BY <1>5, <2>1, <2>2, <2>3, <2>6 DEF Ranked
  <2> QED BY <2>4, <2>5, <2>6
<1> QED BY <1>5, <1>6, <1>7, <1>8 DEF seq

\* Something lasts until the end, and nothing longer.
LEMMA EndsIs ==
  ASSUME TimesAssumption, NEW items \in Seq(Items) \ {<<>>}, NEW plan \in Groupings(items)
  PROVE  /\ \A i \in DOMAIN items : Offset(items, plan, i) + Length(items[i]) <= TotalLength(items, plan)
         /\ \E i \in DOMAIN items : Offset(items, plan, i) + Length(items[i]) = TotalLength(items, plan)
<1> DEFINE n == Len(items)
           R == Rounds(plan)
<1>1. n \in Nat /\ DOMAIN items = 1 .. n /\ 1 \in DOMAIN items /\ items \in Seq(Items)
  OBVIOUS
<1>2. plan \in [1 .. n -> 1 .. n] /\ DOMAIN plan = 1 .. n
  BY <1>1 DEF Groupings
<1>3. \A i \in 1 .. n : plan[i] \in Int
  BY <1>1, <1>2
<1> HIDE DEF n
<1>4. ToSet(plan) = {plan[i] : i \in 1 .. n}
  BY <1>2 DEF ToSet
<1>5. IsFiniteSet(ToSet(plan)) /\ ToSet(plan) \subseteq Int
  <2>1. 1 .. n \in SUBSET (1 .. n)
    OBVIOUS
  <2>2. IsFiniteSet({plan[i] : i \in 1 .. n}) /\ {plan[i] : i \in 1 .. n} \subseteq Int
    BY <1>1, <1>3, <2>1, NumbersOf
  <2> QED BY <1>4, <2>2
<1>6. R \in ToSet(plan) /\ \A r \in ToSet(plan) : R >= r
  <2>1. ToSet(plan) # {}
    BY <1>1, <1>4
  <2> QED BY <1>5, <2>1, Extremes DEF Rounds
<1> HIDE DEF R
<1>7. PICK j \in DOMAIN items : plan[j] = R
  BY <1>1, <1>4, <1>6
<1>8. TotalLength(items, plan) = Offset(items, plan, j) + RoundLength(items, plan, R) /\ Offset(items, plan, j) \in Nat
      /\ \A i \in DOMAIN items : plan[i] < R => Offset(items, plan, i) + Length(items[i]) <= Offset(items, plan, j)
  <2>1. TotalLength(items, plan) = Total(items, plan, plan[j])
    BY <1>7 DEF TotalLength, R
  <2> QED BY <1>1, <1>7, <2>1, RoundsApart
<1>9. \A i \in DOMAIN items : plan[i] = R => Offset(items, plan, i) = Offset(items, plan, j)
  BY <1>7 DEF Offset
<1>10. \A i \in DOMAIN items : plan[i] < R \/ plan[i] = R
  <2>1. R \in Int
    BY <1>5, <1>6
  <2> SUFFICES ASSUME NEW i \in 1 .. n PROVE plan[i] < R \/ plan[i] = R
    BY <1>1
  <2>2. R >= plan[i] /\ plan[i] \in Int
    BY <1>3, <1>4, <1>6
  <2> QED BY <2>1, <2>2
<1>11. DOMAIN plan = DOMAIN items
  BY <1>1, <1>2
<1>12. ASSUME NEW i \in DOMAIN items
       PROVE  Offset(items, plan, i) + Length(items[i]) <= TotalLength(items, plan)
  <2>1. RoundLength(items, plan, R) \in Nat
    BY <1>1, <1>7, <1>11, RoundIs
  <2>2. Length(items[i]) \in Nat /\ Offset(items, plan, i) \in Nat
    BY <1>1, LengthIs, RoundsApart
  <2>3. CASE plan[i] < R
    BY <1>8, <2>1, <2>2, <2>3
  <2>4. CASE plan[i] = R
    <3>1. Length(items[i]) <= RoundLength(items, plan, R)
      BY <1>1, <1>11, <2>4, RoundIs
    <3> QED BY <1>8, <1>9, <2>1, <2>2, <2>4, <3>1
  <2> QED BY <1>10, <2>3, <2>4
<1>13. PICK k \in DOMAIN items : plan[k] = R /\ Length(items[k]) = RoundLength(items, plan, R)
  BY <1>1, <1>7, <1>11, RoundIs
<1>14. Offset(items, plan, k) + Length(items[k]) = TotalLength(items, plan)
  BY <1>8, <1>9, <1>13
<1> QED BY <1>12, <1>14

\* With one thing to do, whoever could do it could do it alone.
LEMMA OneIsAlone ==
  ASSUME NEW plan \in [1 .. 1 -> 1 .. 1]
  PROVE  ~IsParallel(plan)
<1>1. DOMAIN plan = {1} /\ plan[1] = 1
  <2>1. 1 .. 1 = {1}
    OBVIOUS
  <2> QED BY <2>1
<1>2. ToSet(plan) = {1} /\ InRound(plan, 1) = {1}
  BY <1>1 DEF ToSet, InRound
<1>3. Cardinality({1}) = 1
  BY FS_Singleton
<1>4. {Cardinality(InRound(plan, r)) : r \in ToSet(plan)} = {1}
  BY <1>2, <1>3
<1>5. Concurrency(plan) = Max({1})
  BY <1>4 DEF Concurrency
<1>6. Max({1}) = 1
  BY DEF Max
<1> QED BY <1>5, <1>6 DEF IsParallel

\* What is written is attended by people who can, apart when at once, and a single thing
\* by whoever has the least work of those who could do it as well.
LEMMA ConfirmedIs ==
  ASSUME TimesAssumption, Calendar, Booked, IsFiniteSet(busy), NEW q, IsQuery(q), NEW slot \in Slots(q), NEW appt
  PROVE  \E who \in [DOMAIN q.items -> Staff] :
           /\ Confirmed(q, slot, appt) = Segments(appt, q.items, slot.plan, slot.start, who)
           /\ \A i \in DOMAIN q.items : who[i] \in Able(q, slot.plan, i, slot.start, FALSE)
           /\ \A i, j \in DOMAIN q.items : i # j /\ slot.plan[i] = slot.plan[j] => who[i] # who[j]
           /\ Len(q.items) = 1 =>
                \A s \in Able(q, slot.plan, 1, slot.start, FALSE) :
                  LET w == Window(q.items, slot.plan, 1, slot.start)
                  IN (Whole(who[1], w) => Whole(s, w)) => ~(Workload(q, s) < Workload(q, who[1]))
<1>1. PICK t \in Int, plan \in Groupings(q.items), entire \in BOOLEAN :
        /\ slot.start = t /\ slot.plan = plan
        /\ slot.cands = Candidates(Context(q), t, plan, entire)
        /\ slot.alone = Alone(plan, slot.cands)
        /\ Apiece(plan, slot.cands) # {} /\ Covered(plan, slot.cands)
  BY SlotHas
<1> DEFINE cands == slot.cands
           alone == slot.alone
           D == DOMAIN q.items
           Has(i) == Able(q, plan, i, t, FALSE)
<1>2. CandLists(cands) /\ DOMAIN cands = D /\ \A i \in D : ToSet(cands[i]) = Able(q, plan, i, t, entire)
  BY <1>1, CandidatesAre
<1>3. \A i \in D : ToSet(cands[i]) \subseteq Has(i)
  BY <1>2, AbleBegin
<1>4. PICK n \in Nat : D = 1 .. n /\ n # 0 /\ n = Len(q.items)
  BY DEF IsQuery
<1>5. DOMAIN plan = D
  BY DEF Groupings
<1>6. alone = IF IsParallel(plan) THEN {} ELSE {s \in Staff : \A i \in D : s \in ToSet(cands[i])}
  BY <1>1, <1>2, <1>5, AloneIs
<1>7. ~IsParallel(plan) => \A i, j \in D : plan[i] = plan[j] => i = j
  BY <1>4, <1>5, ConcurrencyIs
<1>8. IsFiniteSet(Staff) /\ Staff \subseteq Nat
  BY DEF TimesAssumption
<1> HIDE DEF cands, alone, D
<1>9. ASSUME alone # {}
      PROVE  \E who \in [D -> Staff] :
               /\ Confirmed(q, slot, appt) = Segments(appt, q.items, plan, t, who)
               /\ \A i \in D : who[i] \in Has(i)
               /\ \A i, j \in D : i # j /\ plan[i] = plan[j] => who[i] # who[j]
               /\ n = 1 => \A s \in Has(1) :
                    (Whole(who[1], Window(q.items, plan, 1, t)) => Whole(s, Window(q.items, plan, 1, t)))
                      => ~(Workload(q, s) < Workload(q, who[1]))
  <2> DEFINE one == ByLeastWork(q, alone)[1]
             who == [i \in D |-> one]
  <2>1. alone \subseteq Staff /\ ~IsParallel(plan) /\ \A s \in alone : \A i \in D : s \in ToSet(cands[i])
    BY <1>6, <1>9
  <2>2. one \in alone /\ \A s \in alone : ~(Workload(q, s) < Workload(q, one))
    BY <1>8, <1>9, <2>1, LeastWorkIs
  <2>3. Confirmed(q, slot, appt) = Segments(appt, q.items, plan, t, who)
    BY <1>1, <1>5, <1>9 DEF Confirmed, alone
  <2> HIDE DEF one
  <2>4. who \in [D -> Staff] /\ \A i \in D : who[i] = one
    BY <2>1, <2>2
  <2> HIDE DEF who
  <2>5. \A i \in D : who[i] \in Has(i)
    BY <1>3, <2>1, <2>2, <2>4
  <2>6. \A i, j \in D : i # j /\ plan[i] = plan[j] => who[i] # who[j]
    BY <1>7, <2>1
  <2>7. ASSUME n = 1, NEW s \in Has(1),
               Whole(who[1], Window(q.items, plan, 1, t)) => Whole(s, Window(q.items, plan, 1, t))
        PROVE  ~(Workload(q, s) < Workload(q, who[1]))
    <3>1. D = {1}
      BY <1>4, <2>7
    <3>2. one \in ToSet(cands[1]) /\ who[1] = one
      BY <2>1, <2>2, <2>4, <3>1
    <3>3. s \in Able(q, plan, 1, t, entire)
      BY <1>2, <2>7, <3>1, <3>2 DEF Able
    <3>4. s \in Staff
      <4>1. q.items \in Seq(Items)
        BY DEF IsQuery
      <4> QED BY <2>7, <3>1, <4>1, StaffForIs DEF Able, D
    <3>5. s \in alone
      BY <1>2, <1>6, <2>1, <3>1, <3>3, <3>4
    <3> QED BY <2>2, <3>2, <3>5
  <2> QED BY <2>3, <2>4, <2>5, <2>6, <2>7
<1>10. ASSUME alone = {}
       PROVE  n # 1 /\ \E who \in [D -> Staff] :
                /\ Confirmed(q, slot, appt) = Segments(appt, q.items, plan, t, who)
                /\ \A i \in D : who[i] \in Has(i)
                /\ \A i, j \in D : i # j /\ plan[i] = plan[j] => who[i] # who[j]
  <2>1. n # 1
    <3> SUFFICES ASSUME n = 1 PROVE FALSE
      OBVIOUS
    <3>1. D = {1} /\ plan \in [1 .. 1 -> 1 .. 1]
      BY <1>4 DEF Groupings, D
    <3>2. ~IsParallel(plan)
      BY <3>1, OneIsAlone
    <3>3. PICK who \in Apiece(plan, cands) : TRUE
      BY <1>1 DEF cands
    <3>4. who[1] \in Staff /\ who[1] \in ToSet(cands[1])
      BY <1>5, <3>1, <3>3 DEF Apiece
    <3> QED BY <1>6, <1>10, <3>1, <3>2, <3>4
  <2> DEFINE lists == [i \in DOMAIN plan |-> ByLeastWork(q, ToSet(cands[i]))]
  <2>2. \A i \in D : ToSet(cands[i]) \subseteq Staff
    BY <1>2 DEF CandLists, ToSet
  <2>3. DOMAIN lists = D /\ \A i \in D : lists[i] \in Seq(Staff) /\ ToSet(lists[i]) = ToSet(cands[i])
    BY <1>5, <1>8, <2>2, LeastWorkIs
  <2>4. Confirmed(q, slot, appt) = Segments(appt, q.items, plan, t, Attended(plan, lists))
    <3>1. StaffForPlan(q, plan, cands) = Attended(plan, lists)
      BY DEF StaffForPlan, Attended
    <3>2. Confirmed(q, slot, appt) = Segments(appt, q.items, plan, t, StaffForPlan(q, plan, cands))
      BY <1>1, <1>10 DEF Confirmed, alone, cands
    <3> QED BY <3>1, <3>2
  <2> HIDE DEF lists
  <2>5. CandLists(lists)
    BY <1>4, <2>3 DEF CandLists
  <2>6. Apiece(plan, lists) = Apiece(plan, cands)
    BY <1>5, <2>3 DEF Apiece
  <2>7. Attended(plan, lists) \in Apiece(plan, lists)
    <3>1. Apiece(plan, lists) # {}
      BY <1>1, <2>6 DEF cands
    <3> QED BY <1>4, <1>5, <1>8, <2>3, <2>5, <3>1, CoveredIs
  <2>8. PICK who : who = Attended(plan, lists)
    OBVIOUS
  <2>9. who \in [D -> Staff] /\ (\A i \in D : who[i] \in ToSet(cands[i]))
        /\ \A i, j \in D : i # j /\ plan[i] = plan[j] => who[i] # who[j]
    BY <1>5, <2>6, <2>7, <2>8 DEF Apiece
  <2> QED BY <1>3, <2>1, <2>4, <2>8, <2>9
<1>11. \E who \in [D -> Staff] :
         /\ Confirmed(q, slot, appt) = Segments(appt, q.items, plan, t, who)
         /\ \A i \in D : who[i] \in Has(i)
         /\ \A i, j \in D : i # j /\ plan[i] = plan[j] => who[i] # who[j]
         /\ n = 1 => \A s \in Has(1) :
              (Whole(who[1], Window(q.items, plan, 1, t)) => Whole(s, Window(q.items, plan, 1, t)))
                => ~(Workload(q, s) < Workload(q, who[1]))
  BY <1>9, <1>10
<1> QED BY <1>1, <1>4, <1>11 DEF D

\* A confirmation writes one segment for each thing to do, each well served.
LEMMA ServedIs ==
  ASSUME TimesAssumption, Calendar, Booked, IsFiniteSet(busy), now \in Nat, NEW q, IsQuery(q), ~q.panel,
         Len(q.items) <= MaxPlanned, NEW slot \in Slots(q), NEW appt
  PROVE  Served(q, Confirmed(q, slot, appt))
<1> DEFINE items == q.items
           D == DOMAIN items
           segs == Confirmed(q, slot, appt)
<1>1. PICK t \in Int, plan \in Groupings(items) :
        t >= MinStart(q) /\ slot \in FirstSlot(Context(q), t) /\ slot.start = t /\ slot.plan = plan
  BY SlotHas
<1>2. PICK who \in [D -> Staff] :
        /\ segs = Segments(appt, items, plan, t, who)
        /\ \A i \in D : who[i] \in Able(q, plan, i, t, FALSE)
        /\ \A i, j \in D : i # j /\ plan[i] = plan[j] => who[i] # who[j]
        /\ Len(items) = 1 =>
             \A s \in Able(q, plan, 1, t, FALSE) :
               (Whole(who[1], Window(items, plan, 1, t)) => Whole(s, Window(items, plan, 1, t)))
                 => ~(Workload(q, s) < Workload(q, who[1]))
  <2>1. \E who \in [D -> Staff] :
          /\ segs = Segments(appt, items, slot.plan, slot.start, who)
          /\ \A i \in D : who[i] \in Able(q, slot.plan, i, slot.start, FALSE)
          /\ \A i, j \in D : i # j /\ slot.plan[i] = slot.plan[j] => who[i] # who[j]
          /\ Len(items) = 1 =>
               \A s \in Able(q, slot.plan, 1, slot.start, FALSE) :
                 LET z == Window(items, slot.plan, 1, slot.start)
                 IN (Whole(who[1], z) => Whole(s, z)) => ~(Workload(q, s) < Workload(q, who[1]))
    BY ConfirmedIs
  <2>2. slot.plan = plan /\ slot.start = t
    BY <1>1
  <2> HIDE DEF segs, items, D
  <2> QED BY <2>1, <2>2
<1>3. items \in Seq(Items) \ {<<>>} /\ items \in Seq(Items)
  BY DEF IsQuery
<1>4. PICK n \in Nat : D = 1 .. n /\ n # 0 /\ n = Len(items)
  BY <1>3
<1> DEFINE w(i) == Window(items, plan, i, t)
           f == [i \in D |-> [appt |-> appt, staff |-> who[i], from |-> w(i).from, to |-> w(i).to]]
<1>5. segs = {f[i] : i \in D}
  BY <1>2 DEF Segments
<1>6. \A i \in D : /\ f[i].staff = who[i] /\ f[i].from = w(i).from /\ f[i].to = w(i).to
                   /\ w(i) = Period(w(i).from, w(i).to)
                   /\ w(i).from = t + Offset(items, plan, i) /\ w(i).to = w(i).from + Length(items[i])
                   /\ w(i).from \in Int /\ w(i).to \in Int /\ w(i).from < w(i).to /\ t <= w(i).from
  <2> SUFFICES ASSUME NEW i \in D
               PROVE  /\ f[i].staff = who[i] /\ f[i].from = w(i).from /\ f[i].to = w(i).to
                      /\ w(i) = Period(w(i).from, w(i).to)
                      /\ w(i).from = t + Offset(items, plan, i) /\ w(i).to = w(i).from + Length(items[i])
                      /\ w(i).from \in Int /\ w(i).to \in Int /\ w(i).from < w(i).to /\ t <= w(i).from
    OBVIOUS
  <2>1. w(i) = Period(w(i).from, w(i).to)
    BY DEF Window, Period
  <2>2. /\ w(i).from = t + Offset(items, plan, i) /\ w(i).to = w(i).from + Length(items[i])
        /\ w(i).from \in Int /\ w(i).to \in Int /\ w(i).from < w(i).to /\ t <= w(i).from
    <3> HIDE DEF items
    <3> QED BY <1>3, WindowIs DEF items
  <2> QED BY <2>1, <2>2
<1>7. DOMAIN f = D /\ f = [i \in D |-> f[i]]
  OBVIOUS
<1>8. \A i, j \in D : Overlaps(w(i), w(j)) <=> plan[i] = plan[j]
  BY <1>3, AtOnceIs
<1>9. \A i \in D : /\ who[i] \in StaffFor(items[i]) /\ Available(who[i], f[i].from) /\ Idle(q, who[i], f[i])
  <2> SUFFICES ASSUME NEW i \in D
               PROVE  who[i] \in StaffFor(items[i]) /\ Available(who[i], f[i].from) /\ Idle(q, who[i], f[i])
    OBVIOUS
  <2>1. who[i] \in StaffFor(items[i]) /\ Available(who[i], w(i).from) /\ Idle(q, who[i], w(i))
    BY <1>2 DEF Able
  <2>2. Minutes(f[i]) = Minutes(w(i)) /\ f[i].from = w(i).from
    <3> HIDE DEF w, f
    <3> QED BY <1>6 DEF Minutes
  <2> HIDE DEF w, f
  <2> QED BY <2>1, <2>2 DEF Idle
<1>10. \A i \in D : Minutes(f[i]) = Minutes(w(i))
  <2> HIDE DEF w, f
  <2> QED BY <1>6 DEF Minutes
<1>11. ASSUME NEW i \in D, NEW j \in D, i # j, f[i].staff = f[j].staff
       PROVE  ~Overlaps(f[i], f[j])
  <2>1. plan[i] # plan[j]
    <3> HIDE DEF w, f
    <3> QED BY <1>2, <1>6, <1>11
  <2>2. ~Overlaps(w(i), w(j))
    BY <1>8, <2>1
  <2> HIDE DEF w, f
  <2> QED BY <1>6, <2>2 DEF Overlaps
<1>12. \A i, j \in D : f[i] = f[j] => i = j
  <2> SUFFICES ASSUME NEW i \in D, NEW j \in D, f[i] = f[j], i # j PROVE FALSE
    OBVIOUS
  <2>1. ~Overlaps(f[i], f[j])
    BY <1>11
  <2> HIDE DEF w, f
  <2> QED BY <1>6, <2>1 DEF Overlaps
<1>13. 1 \in D /\ w(1).from = t
  <2>1. 1 \in D
    BY <1>4
  <2>2. Window(items, plan, 1, t).from = t
    <3> HIDE DEF items
    <3> QED BY <1>3, StartsAtOnce
  <2> QED BY <2>1, <2>2
<1> HIDE DEF f, w, segs
<1>14. Cardinality(segs) = n
  <2>1. f \in Bijection(1 .. n, segs)
    BY <1>4, <1>5, <1>7, <1>12 DEF Bijection, Injection, Surjection, IsInjective
  <2>2. ExistsBijection(1 .. n, segs)
    BY <2>1 DEF ExistsBijection
  <2> QED BY <2>2, FS_CountingElements
<1> DEFINE froms == {s.from : s \in segs}
           tos == {s.to : s \in segs}
           length == TotalLength(items, plan)
<1>15. \A x : x \in froms <=> \E i \in D : x = w(i).from
  BY <1>5, <1>6
<1>16. \A x : x \in tos <=> \E i \in D : x = w(i).to
  BY <1>5, <1>6
<1>17. Min(froms) = t
  <2> HIDE DEF froms
  <2>1. t \in froms /\ \A x \in froms : t <= x /\ x \in Int
    BY <1>6, <1>13, <1>15
  <2>2. ASSUME NEW x PROVE (x \in froms /\ \A y \in froms : x <= y) <=> x = t
    <3>1. ASSUME x \in froms, \A y \in froms : x <= y PROVE x = t
      <4>1. x <= t /\ t <= x /\ x \in Int
        BY <2>1, <3>1
      <4> QED BY <4>1
    <3>2. ASSUME x = t PROVE x \in froms /\ \A y \in froms : x <= y
      BY <2>1, <3>2
    <3> QED BY <3>1, <3>2
  <2>3. Min(froms) = CHOOSE x : x \in froms /\ \A y \in froms : x <= y
    BY Zenon DEF Min
  <2> QED BY <2>2, <2>3
<1>18. Max(tos) = t + length
  <2>1. length \in Nat
    BY <1>3, TotalIs
  <2>2. \A i \in D : Offset(items, plan, i) + Length(items[i]) <= length
    BY <1>3, EndsIs
  <2>3. \E i \in D : Offset(items, plan, i) + Length(items[i]) = length
    BY <1>3, EndsIs
  <2>4. \A i \in D : Offset(items, plan, i) \in Nat /\ Length(items[i]) \in Nat
    BY <1>3, RoundsApart, LengthIs
  <2> HIDE DEF length
  <2>5. \A i \in D : w(i).to = t + (Offset(items, plan, i) + Length(items[i]))
    BY <1>6, <2>4
  <2>6. \A i \in D : w(i).to <= t + length /\ w(i).to \in Int
    BY <2>1, <2>2, <2>4, <2>5
  <2>7. t + length \in tos
    BY <1>16, <2>3, <2>5
  <2>8. \A x \in tos : t + length >= x /\ x \in Int
    BY <1>16, <2>1, <2>6
  <2> HIDE DEF tos
  <2>9. t + length \in Int
    BY <2>1
  <2> QED BY <2>7, <2>8, <2>9 DEF Max
<1>19. length = Shortest(Possible(q, {t}), t)
  <2>1. /\ Feasible(q, plan, t)
        /\ \A other \in Groupings(items) : Feasible(q, other, t) => length <= TotalLength(items, other)
    BY <1>1, FirstSlotIs
  <2> QED BY <2>1, ShortestIs
<1>20. t >= now + Lead
  BY <1>1 DEF MinStart
<1>21. ASSUME n = 1, NEW s \in segs, NEW p \in Staff, p \in StaffFor(items[1]), Available(p, s.from), Idle(q, p, s),
              Whole(s.staff, s) => Whole(p, s), Workload(q, p) < Workload(q, s.staff)
       PROVE  FALSE
  <2>1. s = f[1]
    BY <1>4, <1>5, <1>21
  <2>2. s.staff = who[1] /\ s.from = w(1).from /\ Minutes(s) = Minutes(w(1))
    BY <1>6, <1>10, <1>13, <2>1
  <2>3. p \in Able(q, plan, 1, t, FALSE)
    BY <1>21, <2>2 DEF Able, Idle, w
  <2>4. Whole(who[1], w(1)) => Whole(p, w(1))
    BY <1>21, <2>2 DEF Whole
  <2> QED BY <1>2, <1>4, <1>21, <2>2, <2>3, <2>4 DEF w
<1> DEFINE start == Min({s.from : s \in segs})
<1>22. start = t /\ Max({s.to : s \in segs}) - start = length
  <2>1. Max({s.to : s \in segs}) = t + length /\ start = t
    BY <1>17, <1>18
  <2>2. length \in Nat
    BY <1>3, TotalIs
  <2> HIDE DEF length, start
  <2> QED BY <2>1, <2>2
<1>23. \A s \in segs : Available(s.staff, s.from) /\ Idle(q, s.staff, s)
  BY <1>5, <1>6, <1>9
<1>24. \A s, o \in segs : s # o /\ s.staff = o.staff => ~Overlaps(s, o)
  BY <1>5, <1>11
<1>25. Cardinality(segs) = Len(q.items) /\ start >= now + Lead
  BY <1>4, <1>14, <1>20, <1>22
<1>26. Max({s.to : s \in segs}) - start = Shortest(Possible(q, {start}), start)
  BY <1>19, <1>22
<1>27. Len(q.items) = 1 => \A s \in segs : ~\E p \in Staff :
         /\ p \in StaffFor(q.items[1]) /\ Available(p, s.from) /\ Idle(q, p, s)
         /\ (Whole(s.staff, s) => Whole(p, s)) /\ Workload(q, p) < Workload(q, s.staff)
  BY <1>4, <1>21
<1>28. Served(q, segs)
  <2> HIDE DEF froms, tos, length
  <2> QED BY <1>23, <1>24, <1>25, <1>26, <1>27 DEF Served
<1> QED BY <1>28 DEF segs

-----------------------------------------------------------------------------
(* Every day *)

\* The day begins with what it needs.
LEMMA DayStarts == TimesAssumption /\ Init => DayInv
<1> SUFFICES ASSUME TimesAssumption, Init PROVE DayInv
  OBVIOUS
<1>1. Calendar
  BY DEF Init, Calendar, TimesAssumption
<1>2. Booked /\ Asked /\ now \in 0 .. MaxNow
  BY DEF Init, Booked, Asked, TimesAssumption
<1> QED BY <1>1, <1>2 DEF DayInv

\* What is written has a beginning and a later end.
LEMMA WrittenIs ==
  ASSUME TimesAssumption, Booked, NEW items \in Seq(Items), NEW plan \in Groupings(items), NEW t \in Int, NEW appt, NEW who
  PROVE  \A b \in Segments(appt, items, plan, t, who) : b.from \in Int /\ b.to \in Int /\ b.from < b.to
BY SegmentsAre

\* Every step of the day keeps it.
LEMMA DayKeeps == TimesAssumption /\ DayInv /\ [Next]_vars => DayInv'
<1> SUFFICES ASSUME TimesAssumption, Calendar, Booked, Asked, now \in 0 .. MaxNow, [Next]_vars
             PROVE  Calendar' /\ Booked' /\ Asked' /\ (now \in 0 .. MaxNow)'
  BY DEF DayInv
<1>1. CASE Ask
  <2>1. Calendar' /\ Booked'
    BY <1>1 DEF Ask, Stay, Calendar, Booked
  <2>2. PICK r \in Requests, moving \in {0} \cup Appts :
          query' = [items |-> r.items, single |-> r.single, panel |-> r.panel, moving |-> moving]
    BY <1>1 DEF Ask
  <2>3. r.items \in Seq(Items) \ {<<>>} /\ r = [items |-> r.items, single |-> r.single, panel |-> r.panel]
    BY DEF TimesAssumption, Items
  <2> QED BY <1>1, <2>1, <2>2, <2>3 DEF Asked, Ask, Stay
<1>2. CASE Confirm
  <2>1. Calendar' /\ Asked' /\ now' = now
    BY <1>2 DEF Confirm, Stay, Calendar, Asked
  <2>2. PICK slot \in Slots(query) :
          busy' = Others(query) \cup Confirmed(query, slot, IF query.moving = 0 THEN NextAppt ELSE query.moving)
    BY <1>2 DEF Confirm
  <2>3. query.items \in Seq(Items) \ {<<>>}
    BY <1>2 DEF Confirm, Asked
  <2>4. slot.start \in Int /\ slot.plan \in Groupings(query.items)
    BY <2>3, SlotsAre
  <2>5. PICK appt, who : busy' = Others(query) \cup Segments(appt, query.items, slot.plan, slot.start, who)
    BY <2>2 DEF Confirmed
  <2>6. \A b \in Segments(appt, query.items, slot.plan, slot.start, who) : b.from \in Int /\ b.to \in Int /\ b.from < b.to
    BY <2>3, <2>4, WrittenIs
  <2> QED BY <2>1, <2>5, <2>6 DEF Booked, Others
<1>3. CASE Insist
  <2>1. Calendar' /\ Asked' /\ now' = now
    BY <1>3 DEF Insist, Stay, Calendar, Asked
  <2>2. query.items \in Seq(Items) \ {<<>>} /\ \A i \in DOMAIN query.items : query.items[i].staff # Anyone
    BY <1>3 DEF Insist, Asked, NoQuery
  <2>3. PICK t \in 0 .. MaxNow :
          \E appt, who : busy' = busy \cup Segments(appt, query.items, PlanForAssignment(query.items), t, who)
    BY <1>3 DEF Insist
  <2>4. PlanForAssignment(query.items) \in Groupings(query.items) /\ t \in Int
    BY <2>2, AssignmentFits
  <2>5. PICK appt, who : busy' = busy \cup Segments(appt, query.items, PlanForAssignment(query.items), t, who)
    BY <2>3
  <2>6. \A b \in Segments(appt, query.items, PlanForAssignment(query.items), t, who) :
           b.from \in Int /\ b.to \in Int /\ b.from < b.to
    BY <2>2, <2>4, WrittenIs
  <2> QED BY <2>1, <2>5, <2>6 DEF Booked
<1>4. CASE SetHours
  BY <1>4 DEF SetHours, Change, Calendar, Booked, Asked
<1>5. CASE SetShift
  BY <1>5 DEF SetShift, Change, Calendar, Booked, Asked
<1>6. CASE Block
  BY <1>6 DEF Block, Change, Calendar, Booked, Asked
<1>7. CASE Unblock
  BY <1>7 DEF Unblock, Change, Calendar, Booked, Asked
<1>8. CASE Tick
  <2>1. Calendar' /\ Booked' /\ Asked'
    BY <1>8 DEF Tick, Calendar, Booked, Asked
  <2>2. (now \in 0 .. MaxNow)'
    BY <1>8 DEF Tick, TimesAssumption
  <2> QED BY <2>1, <2>2
<1>9. CASE UNCHANGED vars
  BY <1>9 DEF vars, Calendar, Booked, Asked
<1> QED BY <1>1, <1>2, <1>3, <1>4, <1>5, <1>6, <1>7, <1>8, <1>9 DEF Next

\* The panel is always warned rightly, and what the assistant suggests always holds.
THEOREM DayHolds == TimesAssumption => (Spec => [](PanelIsWarned /\ SuggestionsHold))
<1> SUFFICES ASSUME TimesAssumption PROVE Spec => [](PanelIsWarned /\ SuggestionsHold)
  OBVIOUS
<1>1. Init => DayInv
  BY DayStarts
<1>2. DayInv /\ [Next]_vars => DayInv'
  BY DayKeeps
<1>3. DayInv => PanelIsWarned /\ SuggestionsHold
  BY WarnedIsRight, SuggestedAreWhole
<1> QED BY <1>1, <1>2, <1>3, PTL DEF Spec

-----------------------------------------------------------------------------
(* What the day keeps *)

\* What is booked: some of the appointments, each with somebody of the team.
Ledger ==
  /\ IsFiniteSet(busy) /\ \A b \in busy : b.appt \in 1 .. MaxBookings /\ b.staff \in Staff
  /\ wrote \subseteq busy /\ changed \in 0 .. MaxChanges

\* What a visit takes is a handful of segments, all of one appointment.
LEMMA SegmentsFew ==
  ASSUME NEW items \in Seq(Items), NEW plan, NEW t, NEW appt, NEW who \in [DOMAIN items -> Staff]
  PROVE  /\ IsFiniteSet(Segments(appt, items, plan, t, who))
         /\ \A s \in Segments(appt, items, plan, t, who) : s.appt = appt /\ s.staff \in Staff
         /\ items # <<>> => Segments(appt, items, plan, t, who) # {}
<1> DEFINE f == [i \in DOMAIN items |-> [appt |-> appt, staff |-> who[i], from |-> Window(items, plan, i, t).from,
                                         to |-> Window(items, plan, i, t).to]]
           S == Segments(appt, items, plan, t, who)
<1>1. DOMAIN items = 1 .. Len(items) /\ 1 \in Int /\ Len(items) \in Int
  OBVIOUS
<1>2. IsFiniteSet(DOMAIN items)
  BY <1>1, FS_Interval
<1>3. f \in Surjection(DOMAIN items, S)
  BY DEF Surjection, Segments
<1>4. IsFiniteSet(S)
  <2> HIDE DEF f, S
  <2> QED BY <1>2, <1>3, FS_Surjection
<1>5. \A s \in S : s.appt = appt /\ s.staff \in Staff
  BY DEF Segments
<1>6. ASSUME items # <<>> PROVE S # {}
  <2>1. 1 \in DOMAIN items
    BY <1>1, <1>6
  <2>2. f[1] \in S
    BY <2>1 DEF Segments
  <2> QED BY <2>2
<1> QED BY <1>4, <1>5, <1>6

\* The next appointment is a new one.
LEMMA NextIsNew ==
  ASSUME TimesAssumption, Ledger
  PROVE  NextAppt \in Nat \ {0} /\ NextAppt \notin Appts
<1> DEFINE S == Appts \cup {0}
<1>1. IsFiniteSet(Appts)
  <2> DEFINE f == [b \in busy |-> b.appt]
  <2>1. f \in Surjection(busy, Appts)
    BY DEF Surjection, Appts
  <2> HIDE DEF f
  <2> QED BY <2>1, FS_Surjection DEF Ledger
<1>2. Appts \subseteq Nat
  BY DEF Ledger, Appts
<1>3. IsFiniteSet(S) /\ S # {} /\ S \subseteq Int /\ 0 \in S
  <2>1. IsFiniteSet(S)
    BY <1>1, FS_AddElement
  <2> QED BY <1>2, <2>1
<1>4. NextAppt = Max(S) + 1
  BY DEF NextAppt
<1> HIDE DEF S
<1>5. Max(S) \in Int /\ \A y \in S : Max(S) >= y
  BY <1>3, Extremes
<1>6. Appts \subseteq S
  BY DEF S
<1>7. NextAppt \notin Appts
  <2> SUFFICES ASSUME NextAppt \in Appts PROVE FALSE
    OBVIOUS
  <2>1. Max(S) >= Max(S) + 1
    BY <1>4, <1>5, <1>6
  <2> QED BY <1>5, <2>1
<1>8. Max(S) >= 0
  BY <1>3, <1>5
<1> QED BY <1>4, <1>5, <1>7, <1>8

\* A confirmation replaces what was being moved, or adds a new appointment.
LEMMA ConfirmKeeps ==
  ASSUME TimesAssumption, DayInv, Ledger, Confirm
  PROVE  \E slot \in Slots(query), appt \in 1 .. MaxBookings :
           /\ IsQuery(query) /\ ~query.panel
           /\ wrote' = Confirmed(query, slot, appt) /\ busy' = Others(query) \cup Confirmed(query, slot, appt)
           /\ {b \in Others(query) : b.appt # appt} = Others(query)
           /\ UNCHANGED <<hours, shift, blocks, now, query, changed>>
           /\ IsFiniteSet(wrote') /\ (\A s \in wrote' : s.appt = appt /\ s.staff \in Staff) /\ wrote' # {}
<1> DEFINE appt == IF query.moving = 0 THEN NextAppt ELSE query.moving
<1>1. PICK slot \in Slots(query) : wrote' = Confirmed(query, slot, appt) /\ busy' = Others(query) \cup Confirmed(query, slot, appt)
  BY DEF Confirm
<1>2. /\ query # NoQuery /\ ~query.panel /\ query.moving \in {0} \cup Appts
      /\ query.moving = 0 => NextAppt <= MaxBookings
      /\ UNCHANGED <<hours, shift, blocks, now, query, changed>>
  BY DEF Confirm, Stay
<1>3. IsQuery(query)
  BY <1>2 DEF DayInv, Asked, IsQuery
<1>4. MaxBookings \in Nat
  BY DEF TimesAssumption
<1>5. NextAppt \in Nat \ {0} /\ NextAppt \notin Appts
  BY NextIsNew
<1>6. Appts \subseteq 1 .. MaxBookings
  BY DEF Ledger, Appts
<1>7. appt \in 1 .. MaxBookings
  <2>1. CASE query.moving = 0
    <3>1. NextAppt \in 1 .. MaxBookings
      BY <1>2, <1>4, <1>5, <2>1
    <3> QED BY <2>1, <3>1
  <2>2. CASE query.moving # 0
    BY <1>2, <1>6, <2>2
  <2> QED BY <2>1, <2>2
<1>8. \A b \in Others(query) : b.appt # appt
  BY <1>5 DEF Others, Appts
<1> HIDE DEF appt
<1>9. Calendar /\ Booked /\ IsFiniteSet(busy)
  BY DEF DayInv, Ledger
<1>10. PICK who \in [DOMAIN query.items -> Staff] :
         Confirmed(query, slot, appt) = Segments(appt, query.items, slot.plan, slot.start, who)
  BY <1>3, <1>9, ConfirmedIs
<1>11. IsFiniteSet(wrote') /\ (\A s \in wrote' : s.appt = appt /\ s.staff \in Staff) /\ wrote' # {}
  BY <1>1, <1>3, <1>10, SegmentsFew DEF IsQuery
<1> QED BY <1>1, <1>2, <1>3, <1>7, <1>8, <1>11

\* Every step keeps what is booked in order.
LEMMA LedgerKeeps == TimesAssumption /\ DayInv /\ Ledger /\ [Next]_vars => Ledger'
<1> SUFFICES ASSUME TimesAssumption, DayInv, Ledger, [Next]_vars PROVE Ledger'
  OBVIOUS
<1>1. CASE Ask
  BY <1>1 DEF Ask, Stay, Ledger
<1>2. CASE Confirm
  <2>1. PICK slot \in Slots(query), appt \in 1 .. MaxBookings :
          /\ busy' = Others(query) \cup wrote' /\ UNCHANGED changed
          /\ IsFiniteSet(wrote') /\ \A s \in wrote' : s.appt = appt /\ s.staff \in Staff
    BY <1>2, ConfirmKeeps
  <2>2. Others(query) \subseteq busy /\ IsFiniteSet(Others(query))
    <3>1. Others(query) \subseteq busy
      BY DEF Others
    <3> QED BY <3>1, FS_Subset DEF Ledger
  <2>3. IsFiniteSet(busy')
    BY <2>1, <2>2, FS_Union
  <2> QED BY <2>1, <2>2, <2>3 DEF Ledger
<1>3. CASE Insist
  <2> DEFINE plan == PlanForAssignment(query.items)
             who == [i \in DOMAIN query.items |-> query.items[i].staff]
  <2>1. /\ query.panel /\ NextAppt <= MaxBookings /\ \A i \in DOMAIN query.items : query.items[i].staff # Anyone
        /\ changed' = changed
    BY <1>3 DEF Insist
  <2>2. query.items \in Seq(Items)
    BY <2>1 DEF DayInv, Asked, NoQuery
  <2>3. PICK t \in 0 .. MaxNow : wrote' = {} /\ busy' = busy \cup Segments(NextAppt, query.items, plan, t, who)
    BY <1>3 DEF Insist
  <2>4. who \in [DOMAIN query.items -> Staff]
    <3>1. \A i \in DOMAIN query.items : query.items[i] \in Items
      BY <2>2
    <3> QED BY <2>1, <3>1 DEF Items
  <2> HIDE DEF who, plan
  <2> DEFINE segs == Segments(NextAppt, query.items, plan, t, who)
  <2>5. IsFiniteSet(segs) /\ \A s \in segs : s.appt = NextAppt /\ s.staff \in Staff
    BY <2>2, <2>4, SegmentsFew
  <2>6. NextAppt \in 1 .. MaxBookings
    <3>1. MaxBookings \in Nat
      BY DEF TimesAssumption
    <3>2. NextAppt \in Nat \ {0}
      BY NextIsNew
    <3> QED BY <2>1, <3>1, <3>2
  <2> HIDE DEF segs
  <2>7. IsFiniteSet(busy) /\ busy' = busy \cup segs
    BY <2>3 DEF Ledger, segs
  <2>8. IsFiniteSet(busy')
    BY <2>5, <2>7, FS_Union
  <2> QED BY <2>1, <2>3, <2>5, <2>6, <2>7, <2>8 DEF Ledger
<1>4. ASSUME Change PROVE Ledger'
  BY <1>4 DEF Change, Ledger, TimesAssumption
<1>5. CASE Tick
  BY <1>5 DEF Tick, Ledger
<1>6. CASE UNCHANGED vars
  BY <1>6 DEF vars, Ledger
<1> QED BY <1>1, <1>2, <1>3, <1>4, <1>5, <1>6 DEF Next, SetHours, SetShift, Block, Unblock

\* What is served does not change with what has no say in it.
LEMMA ServedStays ==
  ASSUME NEW q, NEW r, r.items = q.items, r.single = q.single, Others(r)' = Others(q),
         UNCHANGED <<hours, shift, blocks, now>>, NEW segs
  PROVE  Served(r, segs)' <=> Served(q, segs)
<1>1. \A s, u : Available(s, u)' <=> Available(s, u)
  BY DEF Available, In, BlocksOf
<1>2. \A s, w : Idle(r, s, w)' <=> Idle(q, s, w)
  BY DEF Idle
<1>3. \A s, w : Whole(s, w)' <=> Whole(s, w)
  BY <1>1 DEF Whole
<1>4. \A plan, t : Feasible(r, plan, t)' <=> Feasible(q, plan, t)
  BY <1>1, <1>2 DEF Feasible
<1>5. \A times : Possible(r, times)' = Possible(q, times)
  BY <1>4 DEF Possible
<1>6. \A s : Workload(r, s)' = Workload(q, s)
  BY DEF Workload
<1> QED BY <1>1, <1>2, <1>3, <1>5, <1>6 DEF Served, Shortest

FewServices == \A r \in Requests : Len(r.items) <= MaxPlanned

\* What was written on confirming stays well served until something changes.
LEMMA BookedKeeps ==
  TimesAssumption /\ FewServices /\ DayInv /\ Ledger /\ BookedIsServable /\ [Next]_vars => BookedIsServable'
<1> SUFFICES ASSUME TimesAssumption, FewServices, DayInv, Ledger, BookedIsServable, [Next]_vars PROVE BookedIsServable'
  OBVIOUS
<1>1. CASE Confirm
  <2>1. PICK slot \in Slots(query), appt \in 1 .. MaxBookings :
          /\ IsQuery(query) /\ ~query.panel
          /\ wrote' = Confirmed(query, slot, appt) /\ busy' = Others(query) \cup Confirmed(query, slot, appt)
          /\ {b \in Others(query) : b.appt # appt} = Others(query)
          /\ UNCHANGED <<hours, shift, blocks, now, query, changed>>
          /\ (\A s \in wrote' : s.appt = appt) /\ wrote' # {}
    BY <1>1, ConfirmKeeps
  <2>2. Len(query.items) <= MaxPlanned
    BY <1>1 DEF Confirm, DayInv, Asked, FewServices
  <2>3. Calendar /\ Booked /\ IsFiniteSet(busy) /\ now \in Nat
    BY DEF DayInv, Ledger, TimesAssumption
  <2>4. Served(query, Confirmed(query, slot, appt))
    BY <2>1, <2>2, <2>3, ServedIs
  <2>5. PICK q : q = query
    OBVIOUS
  <2>6. PICK r : r = [q EXCEPT !.moving = appt]
    OBVIOUS
  <2>7. r.items = q.items /\ r.single = q.single /\ r.moving = appt
    <3>1. q = [items |-> q.items, single |-> q.single, panel |-> q.panel, moving |-> q.moving]
      BY <1>1, <2>5 DEF Confirm, DayInv, Asked
    <3>2. r = [items |-> q.items, single |-> q.single, panel |-> q.panel, moving |-> appt]
      BY <2>6, <3>1
    <3> QED BY <3>2
  <2>8. PICK segs : segs = Confirmed(query, slot, appt)
    OBVIOUS
  <2>9. Others(r)' = Others(q)
    <3>1. \A s \in segs : s.appt = appt
      BY <2>1, <2>8
    <3>2. {b \in Others(query) \cup segs : b.appt # appt} = Others(query)
      BY <2>1, <3>1
    <3>3. Others(r)' = {b \in busy' : b.appt # appt}
      BY <2>7 DEF Others
    <3> QED BY <2>1, <2>5, <2>8, <3>2, <3>3
  <2>10. Served(r, segs)' <=> Served(q, segs)
    BY <2>1, <2>7, <2>9, ServedStays
  <2>11. Served(r, segs)'
    BY <2>4, <2>5, <2>8, <2>10
  <2>12. [query EXCEPT !.moving = (CHOOSE s \in wrote : TRUE).appt]' = r
    <3>1. (CHOOSE s \in wrote' : TRUE).appt = appt
      BY <2>1
    <3> QED BY <2>1, <2>5, <2>6, <3>1
  <2> QED BY <2>1, <2>8, <2>11, <2>12 DEF BookedIsServable
<1>2. CASE UNCHANGED vars
  <2>1. PICK q : q = [query EXCEPT !.moving = (CHOOSE s \in wrote : TRUE).appt]
    OBVIOUS
  <2>2. PICK segs : segs = wrote
    OBVIOUS
  <2>3. UNCHANGED <<hours, shift, blocks, busy, now, query, wrote>>
    BY <1>2 DEF vars
  <2>4. Others(q)' = Others(q)
    BY <2>3 DEF Others
  <2>5. Served(q, segs)' <=> Served(q, segs)
    BY <2>3, <2>4, ServedStays
  <2> QED BY <2>1, <2>2, <2>3, <2>5 DEF BookedIsServable
<1>3. CASE ~Confirm /\ ~UNCHANGED vars
  <2>1. wrote' = {}
    BY <1>3 DEF Next, Ask, Insist, SetHours, SetShift, Block, Unblock, Change, Tick
  <2> QED BY <2>1 DEF BookedIsServable
<1> QED BY <1>1, <1>2, <1>3

\* What is in a state of the day is what its type says.
LEMMA TypedIs == TimesAssumption /\ DayInv /\ Ledger => TypeOK
BY DEF DayInv, Ledger, TypeOK, Calendar, Booked, Asked

\* What is on a screen is offered exactly.
LEMMA OfferIs == TimesAssumption /\ FewServices /\ DayInv => OfferIsExact
<1> SUFFICES ASSUME TimesAssumption, FewServices, DayInv, query # NoQuery
             PROVE  Exact(query, Slots(query), Possible(query, MinStart(query) .. MaxTime))
  BY DEF OfferIsExact
<1>1. IsQuery(query) /\ Len(query.items) <= MaxPlanned
  BY DEF DayInv, Asked, FewServices, IsQuery
<1>2. Calendar /\ Booked /\ now \in Nat
  BY DEF DayInv, TimesAssumption
<1> QED BY <1>1, <1>2, OfferedExactly

\* The first day has nothing booked and nothing written.
LEMMA LedgerStarts == TimesAssumption /\ Init => Ledger /\ BookedIsServable
<1> SUFFICES ASSUME TimesAssumption, Init PROVE Ledger /\ BookedIsServable
  OBVIOUS
<1>1. wrote = {} /\ busy = {} /\ changed = 0
  BY DEF Init
<1>2. IsFiniteSet({})
  BY FS_EmptySet
<1> QED BY <1>1, <1>2 DEF Ledger, BookedIsServable, TimesAssumption

\* Every state of every day is of its type.
THEOREM DayTyped == TimesAssumption => (Spec => []TypeOK)
<1> SUFFICES ASSUME TimesAssumption PROVE Spec => []TypeOK
  OBVIOUS
<1>1. Init => DayInv /\ Ledger
  BY DayStarts, LedgerStarts
<1>2. DayInv /\ Ledger /\ [Next]_vars => (DayInv /\ Ledger)'
  BY DayKeeps, LedgerKeeps
<1>3. DayInv /\ Ledger => TypeOK
  BY TypedIs
<1> QED BY <1>1, <1>2, <1>3, PTL DEF Spec

\* While nobody asks for more things than are planned at once, the times offered are exactly
\* those that somebody can attend, and what is written on confirming is well served.
THEOREM DayServed == TimesAssumption /\ FewServices => (Spec => [](OfferIsExact /\ BookedIsServable))
<1> SUFFICES ASSUME TimesAssumption, FewServices PROVE Spec => [](OfferIsExact /\ BookedIsServable)
  OBVIOUS
<1>1. Init => DayInv /\ Ledger /\ BookedIsServable
  BY DayStarts, LedgerStarts
<1>2. DayInv /\ Ledger /\ BookedIsServable /\ [Next]_vars => (DayInv /\ Ledger /\ BookedIsServable)'
  BY DayKeeps, LedgerKeeps, BookedKeeps
<1>3. DayInv => OfferIsExact
  BY OfferIs
<1> QED BY <1>1, <1>2, <1>3, PTL DEF Spec

====

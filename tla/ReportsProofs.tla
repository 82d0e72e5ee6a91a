---- MODULE ReportsProofs ----
(***************************************************************************)
(* Theorems about what a business reads of its appointments: what was      *)
(* agreed with a client stands, and every report and every list of the     *)
(* same days says the same.  A report is a sum over the rows of a period,  *)
(* so the file begins with what is true of sums over finite sets.          *)
(***************************************************************************)
EXTENDS Reports, FiniteSetTheorems, SequenceTheorems, WellFoundedInduction, TLAPS

-----------------------------------------------------------------------------
(* Finite sets and lists *)

\* What a finite set is taken to is finite, and no larger.
LEMMA ImageFinite ==
  ASSUME NEW S, IsFiniteSet(S), NEW f, DOMAIN f = S
  PROVE  IsFiniteSet({f[x] : x \in S}) /\ Cardinality({f[x] : x \in S}) <= Cardinality(S)
<1> DEFINE T == {f[x] : x \in S}
           g == [x \in S |-> f[x]]
<1>1. g \in Surjection(S, T)
  BY DEF Surjection
<1> QED BY <1>1, FS_Surjection

\* ... whatever else the function is of.
LEMMA TakenTo ==
  ASSUME NEW S, IsFiniteSet(S), NEW g
  PROVE  IsFiniteSet({g[x] : x \in S})
<1> DEFINE f == [x \in S |-> g[x]]
<1>1. DOMAIN f = S /\ {f[x] : x \in S} = {g[x] : x \in S}
  OBVIOUS
<1> HIDE DEF f
<1> QED BY <1>1, ImageFinite

\* A function of the first n numbers is a list of n.
LEMMA FunctionIsList ==
  ASSUME NEW S, NEW n \in Nat, NEW f \in [1 .. n -> S]
  PROVE  f \in Seq(S) /\ Len(f) = n /\ DOMAIN f = 1 .. n
OBVIOUS

Smaller == {p \in Nat \X Nat : p[1] < p[2]}

\* Naturals cannot go down for ever.
LEMMA SmallerWF == IsWellFoundedOn(Smaller, Nat)
BY Zenon, NatLessThanWellFounded DEF OpToRel, Smaller

\* A set of positions has a last one ...
LEMMA MaxIn ==
  ASSUME NEW n \in Nat, NEW S \in SUBSET (1 .. n), S # {}
  PROVE  Max(S) \in S /\ \A y \in S : Max(S) >= y
<1> DEFINE T == {n - k : k \in S}
<1>0. \A k \in S : k \in Nat /\ n - k \in Nat
  OBVIOUS
<1>1. T \subseteq Nat /\ T # {}
  BY <1>0
<1>2. PICK x \in T : \A y \in T : ~ (<<y, x>> \in Smaller)
  BY <1>1, WFMin, SmallerWF
<1>3. \A y \in T : x \in Nat /\ y \in Nat /\ ~(y < x)
  BY <1>1, <1>2 DEF Smaller
<1>4. PICK k \in S : x = n - k
  BY <1>2
<1>5. ASSUME NEW y \in S PROVE k >= y
  BY <1>0, <1>3, <1>4
<1>6. \E k1 \in S : \A y \in S : k1 >= y
  BY <1>5
<1> QED BY <1>6, Zenon DEF Max

\* ... and a set of naturals a least one.
LEMMA MinIn ==
  ASSUME NEW S \in SUBSET Nat, S # {}
  PROVE  Min(S) \in S /\ \A y \in S : Min(S) =< y
<1>1. PICK x \in S : \A y \in S : ~ (<<y, x>> \in Smaller)
  BY WFMin, SmallerWF
<1>2. \A y \in S : x \in Nat /\ y \in Nat /\ ~(y < x)
  BY <1>1 DEF Smaller
<1>3. \E k \in S : \A y \in S : k =< y
  BY <1>2
<1> QED BY <1>3, Zenon DEF Min

-----------------------------------------------------------------------------
(* Sums over finite sets *)

\* What holds of a set whenever it holds of it without any one of its members, holds of every
\* finite set: good is where it holds.
LEMMA BySmaller ==
  ASSUME NEW S, IsFiniteSet(S), NEW good,
         \A T \in SUBSET S : (\A x \in T : T \ {x} \in good) => T \in good
  PROVE  S \in good
<1> SUFFICES ASSUME S \notin good PROVE FALSE
  OBVIOUS
<1>1. \A T \in SUBSET S : IsFiniteSet(T) /\ Cardinality(T) \in Nat
  BY FS_Subset, FS_CardinalityType
<1> DEFINE bad == {T \in SUBSET S : T \notin good}
           sizes == {Cardinality(T) : T \in bad}
<1>2. sizes \subseteq Nat /\ Cardinality(S) \in sizes
  BY <1>1
<1>3. PICK n \in sizes : \A m \in sizes : ~ (<<m, n>> \in Smaller)
  BY <1>2, WFMin, SmallerWF
<1>4. PICK T \in bad : n = Cardinality(T)
  BY <1>3
<1>5. PICK x \in T : T \ {x} \in bad
  BY <1>4
<1>6. Cardinality(T \ {x}) = Cardinality(T) - 1
  BY <1>1, <1>4, <1>5, FS_RemoveElement
<1>7. Cardinality(T \ {x}) \in sizes /\ Cardinality(T) \in Nat /\ Cardinality(T \ {x}) \in Nat
  BY <1>1, <1>4, <1>5
<1>8. <<Cardinality(T \ {x}), Cardinality(T)>> \in Smaller
  BY <1>6, <1>7 DEF Smaller
<1> QED BY <1>3, <1>4, <1>7, <1>8

\* The member of a set that a sum takes first.
First(s) == CHOOSE x \in s : TRUE
\* How a sum over part of a set comes from smaller ones.
Summed(f, s, less) == IF s = {} THEN 0 ELSE f[First(s)] + less[s \ {First(s)}]
Sums(f, S) == CHOOSE sum : sum = [s \in SUBSET S |-> Summed(f, s, sum)]

\* That is what the sum of a function on a set is.
LEMMA SumIs ==
  ASSUME NEW f, NEW S
  PROVE  SumFunctionOnSet(f, S) = Sums(f, S)[S]
BY DEF SumFunctionOnSet, FoldFunctionOnSet, MapThenFoldSet, First, Summed, Sums

\* There is such a table of sums, built from the smallest sets to the largest.
LEMMA SumsExist ==
  ASSUME NEW f, NEW S, IsFiniteSet(S)
  PROVE  Sums(f, S) = [s \in SUBSET S |-> Summed(f, s, Sums(f, S))]
<1> DEFINE Upto(n) == {s \in SUBSET S : Cardinality(s) <= n}
           Done(n) == \E sum : sum = [s \in Upto(n) |-> Summed(f, s, sum)]
           undone == {n \in Nat : ~ Done(n)}
<1>1. \A s \in SUBSET S : IsFiniteSet(s) /\ Cardinality(s) \in Nat
  BY FS_Subset, FS_CardinalityType
<1>2. \A s \in SUBSET S : s # {} => /\ s \ {First(s)} \in SUBSET S
                                    /\ Cardinality(s \ {First(s)}) = Cardinality(s) - 1
  <2> SUFFICES ASSUME NEW s \in SUBSET S, s # {} PROVE First(s) \in s /\ Cardinality(s \ {First(s)}) = Cardinality(s) - 1
    OBVIOUS
  <2>1. First(s) \in s
    BY DEF First
  <2> QED BY <2>1, <1>1, FS_RemoveElement
<1>3. undone = {}
  <2> SUFFICES ASSUME undone # {} PROVE FALSE
    OBVIOUS
  <2>1. PICK n \in undone : \A m \in undone : ~ (<<m, n>> \in Smaller)
    BY WFMin, SmallerWF
  <2>2. n \in Nat /\ ~ Done(n)
    BY <2>1
  <2> HIDE DEF Done
  <2>3. CASE n = 0
    <3>1. \A s \in Upto(n) : s = {}
      BY <1>1, <2>3, FS_EmptySet
    <3>2. [s \in Upto(n) |-> 0] = [s \in Upto(n) |-> Summed(f, s, [t \in Upto(n) |-> 0])]
      BY <3>1 DEF Summed
    <3> QED BY <2>2, <3>2 DEF Done
  <2>4. CASE n # 0
    <3>1. n - 1 \in Nat /\ <<n - 1, n>> \in Smaller
      BY <2>2, <2>4 DEF Smaller
    <3>2. Done(n - 1)
      BY <2>1, <3>1
    <3>3. PICK sum : sum = [s \in Upto(n - 1) |-> Summed(f, s, sum)]
      BY <3>2 DEF Done
    <3> DEFINE more == [s \in Upto(n) |-> Summed(f, s, sum)]
    <3>4. \A s \in Upto(n - 1) : s \in Upto(n) /\ more[s] = sum[s]
      <4>1. \A s \in Upto(n - 1) : s \in Upto(n)
        BY <1>1, <2>2, <3>1
      <4> QED BY <3>3, <4>1
    <3>5. \A s \in Upto(n) : s # {} => s \ {First(s)} \in Upto(n - 1)
      BY <1>1, <1>2, <2>2
    <3>6. \A s \in Upto(n) : Summed(f, s, sum) = Summed(f, s, more)
      <4> HIDE DEF more
      <4> QED BY <3>4, <3>5 DEF Summed
    <3>7. more = [s \in Upto(n) |-> Summed(f, s, more)]
      <4>1. more = [s \in Upto(n) |-> Summed(f, s, sum)]
        OBVIOUS
      <4> HIDE DEF more
      <4> QED BY <3>6, <4>1
    <3> HIDE DEF more
    <3> QED BY <2>2, <3>7 DEF Done
  <2> QED BY <2>3, <2>4
<1>4. Upto(Cardinality(S)) = SUBSET S
  <2>1. ASSUME NEW s \in SUBSET S PROVE Cardinality(s) <= Cardinality(S)
    BY FS_Subset
  <2> QED BY <2>1
<1>5. Done(Cardinality(S))
  BY <1>1, <1>3
<1>6. \E sum : sum = [s \in SUBSET S |-> Summed(f, s, sum)]
  BY <1>4, <1>5
<1> QED BY <1>6 DEF Sums

\* The first member is a member.
LEMMA FirstIn == \A s : s # {} => First(s) \in s
BY DEF First

\* The table of a part of a set agrees with the table of the whole.
LEMMA SumsAgree ==
  ASSUME NEW f, NEW S, IsFiniteSet(S), NEW T \in SUBSET S
  PROVE  SumFunctionOnSet(f, T) = Sums(f, S)[T]
<1>1. IsFiniteSet(T)
  BY FS_Subset
<1> DEFINE good == {s \in SUBSET T : Sums(f, T)[s] = Sums(f, S)[s]}
<1>2. \A s \in SUBSET T : Sums(f, T)[s] = Summed(f, s, Sums(f, T)) /\ Sums(f, S)[s] = Summed(f, s, Sums(f, S))
  <2>1. Sums(f, T) = [s \in SUBSET T |-> Summed(f, s, Sums(f, T))]
    BY <1>1, SumsExist
  <2>2. Sums(f, S) = [s \in SUBSET S |-> Summed(f, s, Sums(f, S))]
    BY SumsExist
  <2>3. \A s \in SUBSET T : Sums(f, T)[s] = Summed(f, s, Sums(f, T))
    BY <2>1
  <2>4. \A s \in SUBSET S : Sums(f, S)[s] = Summed(f, s, Sums(f, S))
    BY <2>2
  <2> QED BY <2>3, <2>4
<1>3. ASSUME NEW s \in SUBSET T, \A x \in s : s \ {x} \in good PROVE s \in good
  <2>1. s # {} => s \ {First(s)} \in good
    BY <1>3, FirstIn
  <2>2. Summed(f, s, Sums(f, T)) = Summed(f, s, Sums(f, S))
    BY <2>1 DEF Summed
  <2> QED BY <1>2, <2>2
<1> HIDE DEF good
<1>4. T \in good
  BY <1>1, <1>3, BySmaller
<1> QED BY <1>4, SumIs DEF good

\* A sum takes one, and goes on with the rest.
LEMMA SumFirst ==
  ASSUME NEW f, NEW S, IsFiniteSet(S)
  PROVE  SumFunctionOnSet(f, S) = IF S = {} THEN 0 ELSE f[First(S)] + SumFunctionOnSet(f, S \ {First(S)})
<1>1. Sums(f, S)[S] = Summed(f, S, Sums(f, S))
  <2>1. Sums(f, S) = [s \in SUBSET S |-> Summed(f, s, Sums(f, S))]
    BY SumsExist
  <2> QED BY <2>1
<1>2. SumFunctionOnSet(f, S) = Sums(f, S)[S] /\ SumFunctionOnSet(f, S \ {First(S)}) = Sums(f, S)[S \ {First(S)}]
  BY SumsAgree
<1> QED BY <1>1, <1>2 DEF Summed

\* A sum of integers is one, and of naturals a natural.
LEMMA SumType ==
  ASSUME NEW f, NEW S, IsFiniteSet(S), \A x \in S : f[x] \in Int
  PROVE  SumFunctionOnSet(f, S) \in Int /\ ((\A x \in S : f[x] >= 0) => SumFunctionOnSet(f, S) >= 0)
<1> DEFINE good == {s \in SUBSET S : SumFunctionOnSet(f, s) \in Int /\ ((\A x \in s : f[x] >= 0) => SumFunctionOnSet(f, s) >= 0)}
<1>1. ASSUME NEW s \in SUBSET S, \A x \in s : s \ {x} \in good PROVE s \in good
  <2>1. IsFiniteSet(s)
    BY FS_Subset
  <2>2. CASE s = {}
    <3>1. SumFunctionOnSet(f, s) = 0
      BY <2>1, <2>2, SumFirst
    <3> QED BY <3>1
  <2>3. CASE s # {}
    <3>1. First(s) \in s /\ SumFunctionOnSet(f, s) = f[First(s)] + SumFunctionOnSet(f, s \ {First(s)})
      BY <2>1, <2>3, FirstIn, SumFirst
    <3>2. s \ {First(s)} \in good
      BY <1>1, <3>1
    <3> QED BY <3>1, <3>2
  <2> QED BY <2>2, <2>3
<1> HIDE DEF good
<1>2. S \in good
  BY <1>1, BySmaller
<1> QED BY <1>2 DEF good

\* Whichever is taken first.
LEMMA SumAny ==
  ASSUME NEW f, NEW S, IsFiniteSet(S), \A x \in S : f[x] \in Int, NEW y \in S
  PROVE  SumFunctionOnSet(f, S) = f[y] + SumFunctionOnSet(f, S \ {y})
<1> DEFINE good == {s \in SUBSET S : \A x \in s : SumFunctionOnSet(f, s) = f[x] + SumFunctionOnSet(f, s \ {x})}
<1>1. ASSUME NEW s \in SUBSET S, \A x \in s : s \ {x} \in good PROVE s \in good
  <2> SUFFICES ASSUME NEW x \in s PROVE SumFunctionOnSet(f, s) = f[x] + SumFunctionOnSet(f, s \ {x})
    OBVIOUS
  <2>1. PICK z : z = First(s) /\ z \in s
    BY FirstIn
  <2>2. IsFiniteSet(s)
    BY FS_Subset
  <2>3. SumFunctionOnSet(f, s) = f[z] + SumFunctionOnSet(f, s \ {z})
    BY <2>1, <2>2, SumFirst
  <2>4. CASE x # z
    <3>1. SumFunctionOnSet(f, s \ {z}) = f[x] + SumFunctionOnSet(f, (s \ {z}) \ {x})
      BY <1>1, <2>1, <2>4
    <3>2. SumFunctionOnSet(f, s \ {x}) = f[z] + SumFunctionOnSet(f, (s \ {x}) \ {z})
      BY <1>1, <2>1, <2>4
    <3>3. PICK rest : rest = SumFunctionOnSet(f, (s \ {x}) \ {z})
      OBVIOUS
    <3>4. IsFiniteSet((s \ {x}) \ {z}) /\ \A w \in (s \ {x}) \ {z} : f[w] \in Int
      BY <2>2, FS_Subset
    <3>5. rest \in Int /\ f[x] \in Int /\ f[z] \in Int
      BY <2>1, <3>3, <3>4, SumType
    <3>6. (s \ {z}) \ {x} = (s \ {x}) \ {z}
      OBVIOUS
    <3>7. SumFunctionOnSet(f, s) = f[z] + (f[x] + rest) /\ SumFunctionOnSet(f, s \ {x}) = f[z] + rest
      BY <2>3, <3>1, <3>2, <3>3, <3>6
    <3>8. f[z] + (f[x] + rest) = f[x] + (f[z] + rest)
      BY <3>5
    <3> QED BY <3>7, <3>8
  <2> QED BY <2>3, <2>4
<1> HIDE DEF good
<1>2. S \in good
  BY <1>1, BySmaller
<1> QED BY <1>2 DEF good

\* Functions that agree on a set have one sum on it.
LEMMA SumSame ==
  ASSUME NEW f, NEW g, NEW S, IsFiniteSet(S), \A x \in S : f[x] = g[x]
  PROVE  SumFunctionOnSet(f, S) = SumFunctionOnSet(g, S)
<1> DEFINE good == {s \in SUBSET S : SumFunctionOnSet(f, s) = SumFunctionOnSet(g, s)}
<1>1. ASSUME NEW s \in SUBSET S, \A x \in s : s \ {x} \in good PROVE s \in good
  <2>1. IsFiniteSet(s)
    BY FS_Subset
  <2>2. /\ SumFunctionOnSet(f, s) = IF s = {} THEN 0 ELSE f[First(s)] + SumFunctionOnSet(f, s \ {First(s)})
        /\ SumFunctionOnSet(g, s) = IF s = {} THEN 0 ELSE g[First(s)] + SumFunctionOnSet(g, s \ {First(s)})
    BY <2>1, SumFirst
  <2>3. s # {} => First(s) \in s
    BY FirstIn
  <2> QED BY <1>1, <2>2, <2>3
<1> HIDE DEF good
<1>2. S \in good
  BY <1>1, BySmaller
<1> QED BY <1>2 DEF good

\* The sum on nothing, and on one.
LEMMA SumNone == \A f : SumFunctionOnSet(f, {}) = 0
BY SumFirst, FS_EmptySet

\* Two parts that share nothing add up to the whole.
LEMMA SumApart ==
  ASSUME NEW f, NEW S, NEW T, IsFiniteSet(S), IsFiniteSet(T), S \cap T = {}, \A x \in S \cup T : f[x] \in Int
  PROVE  SumFunctionOnSet(f, S \cup T) = SumFunctionOnSet(f, S) + SumFunctionOnSet(f, T)
<1> DEFINE good == {s \in SUBSET S : SumFunctionOnSet(f, s \cup T) = SumFunctionOnSet(f, s) + SumFunctionOnSet(f, T)}
<1>0. SumFunctionOnSet(f, T) \in Int
  BY SumType
<1>1. ASSUME NEW s \in SUBSET S, \A x \in s : s \ {x} \in good PROVE s \in good
  <2>1. IsFiniteSet(s) /\ IsFiniteSet(s \cup T)
    BY FS_Subset, FS_Union
  <2>2. CASE s = {}
    <3>1. SumFunctionOnSet(f, s) = 0 /\ s \cup T = T
      BY <2>2, SumNone
    <3>2. SumFunctionOnSet(f, s \cup T) = SumFunctionOnSet(f, T)
      BY <3>1
    <3> HIDE DEF good
    <3>3. SumFunctionOnSet(f, s \cup T) = SumFunctionOnSet(f, s) + SumFunctionOnSet(f, T)
      BY <1>0, <3>1, <3>2
    <3> QED BY <3>3 DEF good
  <2>3. CASE s # {}
    <3>1. PICK y : y \in s
      BY <2>3
    <3>2. SumFunctionOnSet(f, s) = f[y] + SumFunctionOnSet(f, s \ {y})
      BY <2>1, <3>1, SumAny
    <3>3. SumFunctionOnSet(f, s \cup T) = f[y] + SumFunctionOnSet(f, (s \cup T) \ {y})
      BY <2>1, <3>1, SumAny
    <3>4. (s \cup T) \ {y} = (s \ {y}) \cup T
      BY <3>1
    <3>5. SumFunctionOnSet(f, (s \ {y}) \cup T) = SumFunctionOnSet(f, s \ {y}) + SumFunctionOnSet(f, T)
      BY <1>1, <3>1
    <3>6. IsFiniteSet(s \ {y}) /\ \A x \in s \ {y} : f[x] \in Int
      BY <2>1, FS_Subset
    <3>7. SumFunctionOnSet(f, s \ {y}) \in Int /\ f[y] \in Int
      BY <3>1, <3>6, SumType
    <3>8. PICK a, b : a = SumFunctionOnSet(f, s \ {y}) /\ b = SumFunctionOnSet(f, T)
      OBVIOUS
    <3>9. SumFunctionOnSet(f, s \cup T) = f[y] + (a + b) /\ SumFunctionOnSet(f, s) = f[y] + a
      BY <3>2, <3>3, <3>4, <3>5, <3>8
    <3>10. f[y] + (a + b) = (f[y] + a) + b
      BY <1>0, <3>7, <3>8
    <3> QED BY <3>8, <3>9, <3>10
  <2> QED BY <2>2, <2>3
<1> HIDE DEF good
<1>2. S \in good
  BY <1>1, BySmaller
<1> QED BY <1>2 DEF good

\* What does not count for anything may be left out.
LEMMA SumRest ==
  ASSUME NEW f, NEW S, IsFiniteSet(S), NEW T \in SUBSET S, \A x \in S : f[x] \in Int, \A x \in S \ T : f[x] = 0
  PROVE  SumFunctionOnSet(f, S) = SumFunctionOnSet(f, T)
<1>0. PICK rest : rest = S \ T
  OBVIOUS
<1>1. IsFiniteSet(T) /\ IsFiniteSet(rest) /\ S = T \cup rest /\ T \cap rest = {}
  BY <1>0, FS_Subset
<1> DEFINE good == {s \in SUBSET rest : SumFunctionOnSet(f, s) = 0}
<1>2. ASSUME NEW s \in SUBSET rest, \A x \in s : s \ {x} \in good PROVE s \in good
  <2>1. IsFiniteSet(s)
    BY <1>1, FS_Subset
  <2>2. SumFunctionOnSet(f, s) = IF s = {} THEN 0 ELSE f[First(s)] + SumFunctionOnSet(f, s \ {First(s)})
    BY <2>1, SumFirst
  <2>3. s # {} => First(s) \in s
    BY FirstIn
  <2> QED BY <1>0, <1>2, <2>2, <2>3
<1> HIDE DEF good
<1>3. SumFunctionOnSet(f, rest) = 0
  <2>1. rest \in good
    BY <1>1, <1>2, BySmaller
  <2> QED BY <2>1 DEF good
<1>4. SumFunctionOnSet(f, S) = SumFunctionOnSet(f, T) + SumFunctionOnSet(f, rest)
  BY <1>1, SumApart
<1>5. SumFunctionOnSet(f, T) \in Int
  BY <1>1, SumType
<1> QED BY <1>3, <1>4, <1>5

\* What is summed by groups is summed.
LEMMA SumGroups ==
  ASSUME NEW f, NEW S, IsFiniteSet(S), \A x \in S : f[x] \in Int, NEW K, IsFiniteSet(K), NEW key, \A x \in S : key[x] \in K
  PROVE  SumFunctionOnSet(f, S) = SumFunctionOnSet([k \in K |-> SumFunctionOnSet(f, {x \in S : key[x] = k})], K)
<1> DEFINE part(k) == {x \in S : key[x] = k}
           group == [k \in K |-> SumFunctionOnSet(f, part(k))]
           within(L) == {x \in S : key[x] \in L}
           good == {L \in SUBSET K : SumFunctionOnSet(f, within(L)) = SumFunctionOnSet(group, L)}
<1>1. \A k \in K : IsFiniteSet(part(k)) /\ group[k] \in Int /\ group[k] = SumFunctionOnSet(f, part(k))
  <2> SUFFICES ASSUME NEW k \in K PROVE IsFiniteSet(part(k)) /\ SumFunctionOnSet(f, part(k)) \in Int
    OBVIOUS
  <2>1. IsFiniteSet(part(k)) /\ \A x \in part(k) : f[x] \in Int
    BY FS_Subset
  <2> HIDE DEF part
  <2> QED BY <2>1, SumType
<1> HIDE DEF group
<1>2. ASSUME NEW L \in SUBSET K, \A k \in L : L \ {k} \in good PROVE L \in good
  <2>1. IsFiniteSet(L)
    BY FS_Subset
  <2>2. CASE L = {}
    <3>1. within(L) = {}
      BY <2>2
    <3> QED BY <2>2, <3>1, SumNone
  <2>3. CASE L # {}
    <3>1. PICK k : k \in L
      BY <2>3
    <3>2. \A l \in L : group[l] \in Int
      BY <1>1
    <3>3. SumFunctionOnSet(group, L) = group[k] + SumFunctionOnSet(group, L \ {k})
      BY <2>1, <3>1, <3>2, SumAny
    <3>4. within(L) = part(k) \cup within(L \ {k}) /\ part(k) \cap within(L \ {k}) = {}
      BY <3>1
    <3>5. IsFiniteSet(within(L \ {k})) /\ \A x \in part(k) \cup within(L \ {k}) : f[x] \in Int
      BY FS_Subset
    <3>6. SumFunctionOnSet(f, within(L \ {k})) = SumFunctionOnSet(group, L \ {k})
      BY <1>2, <3>1
    <3>7. IsFiniteSet(part(k)) /\ group[k] = SumFunctionOnSet(f, part(k))
      BY <1>1, <3>1
    <3>8. PICK P, R : P = part(k) /\ R = within(L \ {k})
      OBVIOUS
    <3> HIDE DEF part, within, good
    <3>9. IsFiniteSet(P) /\ IsFiniteSet(R) /\ P \cap R = {} /\ \A x \in P \cup R : f[x] \in Int
      BY <3>4, <3>5, <3>7, <3>8
    <3>10. SumFunctionOnSet(f, P \cup R) = SumFunctionOnSet(f, P) + SumFunctionOnSet(f, R)
      BY <3>9, SumApart
    <3>11. SumFunctionOnSet(f, within(L)) = SumFunctionOnSet(group, L)
      BY <3>3, <3>4, <3>6, <3>7, <3>8, <3>10
    <3> QED BY <3>11 DEF good
  <2> QED BY <2>2, <2>3
<1> HIDE DEF good
<1>3. K \in good
  BY <1>2, BySmaller
<1>4. within(K) = S
  OBVIOUS
<1> QED BY <1>3, <1>4 DEF good, group

\* A greater function has a greater sum.
LEMMA SumMonotone ==
  ASSUME NEW f, NEW g, NEW S, IsFiniteSet(S), \A x \in S : f[x] \in Int /\ g[x] \in Int /\ f[x] <= g[x]
  PROVE  SumFunctionOnSet(f, S) <= SumFunctionOnSet(g, S)
<1> DEFINE good == {s \in SUBSET S : SumFunctionOnSet(f, s) <= SumFunctionOnSet(g, s)}
<1>1. ASSUME NEW s \in SUBSET S, \A x \in s : s \ {x} \in good PROVE s \in good
  <2>1. IsFiniteSet(s)
    BY FS_Subset
  <2>2. CASE s = {}
    BY <2>2, SumNone
  <2>3. CASE s # {}
    <3>1. PICK y : y \in s
      BY <2>3
    <3>2. /\ SumFunctionOnSet(f, s) = f[y] + SumFunctionOnSet(f, s \ {y})
          /\ SumFunctionOnSet(g, s) = g[y] + SumFunctionOnSet(g, s \ {y})
      BY <2>1, <3>1, SumAny
    <3>3. IsFiniteSet(s \ {y}) /\ \A x \in s \ {y} : f[x] \in Int /\ g[x] \in Int
      BY <2>1, FS_Subset
    <3>4. SumFunctionOnSet(f, s \ {y}) \in Int /\ SumFunctionOnSet(g, s \ {y}) \in Int
      BY <3>3, SumType
    <3>5. SumFunctionOnSet(f, s \ {y}) <= SumFunctionOnSet(g, s \ {y})
      BY <1>1, <3>1
    <3>6. f[y] \in Int /\ g[y] \in Int /\ f[y] <= g[y]
      BY <3>1
    <3> HIDE DEF good
    <3>7. SumFunctionOnSet(f, s) <= SumFunctionOnSet(g, s)
      BY <3>2, <3>4, <3>5, <3>6
    <3> QED BY <3>7 DEF good
  <2> QED BY <2>2, <2>3
<1> HIDE DEF good
<1>2. S \in good
  BY <1>1, BySmaller
<1> QED BY <1>2 DEF good

\* To count is to sum ones.
LEMMA SumOnes ==
  ASSUME NEW f, NEW S, IsFiniteSet(S), \A x \in S : f[x] = 1
  PROVE  SumFunctionOnSet(f, S) = Cardinality(S)
<1> DEFINE good == {s \in SUBSET S : SumFunctionOnSet(f, s) = Cardinality(s)}
<1>1. ASSUME NEW s \in SUBSET S, \A x \in s : s \ {x} \in good PROVE s \in good
  <2>1. IsFiniteSet(s)
    BY FS_Subset
  <2>2. SumFunctionOnSet(f, s) = IF s = {} THEN 0 ELSE f[First(s)] + SumFunctionOnSet(f, s \ {First(s)})
    BY <2>1, SumFirst
  <2>3. CASE s = {}
    BY <2>2, <2>3, FS_EmptySet
  <2>4. CASE s # {}
    <3>1. First(s) \in s
      BY <2>4, FirstIn
    <3>2. Cardinality(s \ {First(s)}) = Cardinality(s) - 1 /\ Cardinality(s) \in Nat
      BY <2>1, <3>1, FS_RemoveElement, FS_CardinalityType
    <3> QED BY <1>1, <2>2, <2>4, <3>1, <3>2
  <2> QED BY <2>3, <2>4
<1> HIDE DEF good
<1>2. S \in good
  BY <1>1, BySmaller
<1> QED BY <1>2 DEF good

\* What is counted by groups is counted.
LEMMA CountGroups ==
  ASSUME NEW S, IsFiniteSet(S), NEW K, IsFiniteSet(K), NEW key, \A x \in S : key[x] \in K
  PROVE  Cardinality(S) = SumFunctionOnSet([k \in K |-> Cardinality({x \in S : key[x] = k})], K)
<1> DEFINE one == [x \in S |-> 1]
           part(k) == {x \in S : key[x] = k}
<1>1. \A k \in K : SumFunctionOnSet(one, part(k)) = Cardinality(part(k))
  <2> SUFFICES ASSUME NEW k \in K PROVE SumFunctionOnSet(one, part(k)) = Cardinality(part(k))
    OBVIOUS
  <2>1. IsFiniteSet(part(k)) /\ \A x \in part(k) : one[x] = 1
    BY FS_Subset
  <2> HIDE DEF part, one
  <2> QED BY <2>1, SumOnes
<1>2. \A x \in S : one[x] = 1
  OBVIOUS
<1> HIDE DEF one
<1>3. SumFunctionOnSet(one, S) = Cardinality(S)
  BY <1>2, SumOnes
<1>4. SumFunctionOnSet(one, S) = SumFunctionOnSet([k \in K |-> SumFunctionOnSet(one, part(k))], K)
  BY <1>2, SumGroups
<1>5. [k \in K |-> SumFunctionOnSet(one, part(k))] = [k \in K |-> Cardinality(part(k))]
  BY <1>1
<1> QED BY <1>3, <1>4, <1>5

-----------------------------------------------------------------------------
(* What is agreed with a client *)

Segments == [id : Nat \X Nat, service : Services, staff : Staff, price : Prices, cur : Currencies]
Offers == [price : Prices, cur : Currencies, active : BOOLEAN]
LastOf(list, v) == Max({k \in DOMAIN list : list[k].service = v})

\* No two rows of the list are the same one, and none is of a later edit.
Apart(list) == \A k, l \in DOMAIN list : list[k].id = list[l].id => k = l
Dated(list, edits) == \A k \in DOMAIN list : list[k].id[1] \in Nat /\ list[k].id[1] <= edits

\* A row is of one service, whoever has a copy of it.
Alike(list, other) == \A k \in DOMAIN list, l \in DOMAIN other : list[k].id = other[l].id => list[k].service = other[l].service

\* A list of rows, place by place.
LEMMA ListIs ==
  ASSUME NEW list \in Seq(Segments)
  PROVE  Len(list) \in Nat /\ DOMAIN list = 1 .. Len(list) /\ \A k \in DOMAIN list : list[k] \in Segments
<1>1. Len(list) \in Nat /\ DOMAIN list = 1 .. Len(list)
  OBVIOUS
<1> QED BY <1>1, ElementOfSeq

\* What was agreed for a service is what the last of its segments says.
LEMMA LastIsOne ==
  ASSUME NEW list \in Seq(Segments), NEW v, NEW n \in DOMAIN list, list[n].service = v
  PROVE  LastOf(list, v) \in DOMAIN list /\ list[LastOf(list, v)].service = v
<1> DEFINE S == {k \in DOMAIN list : list[k].service = v}
<1>1. Len(list) \in Nat /\ DOMAIN list = 1 .. Len(list)
  OBVIOUS
<1>2. S \in SUBSET (1 .. Len(list)) /\ S # {}
  BY <1>1
<1>3. Max(S) \in S
  BY <1>1, <1>2, MaxIn
<1> QED BY <1>3 DEF LastOf

\* ... by service, of those there are.
LEMMA AgreedIs ==
  ASSUME NEW list \in Seq(Segments)
  PROVE  /\ DOMAIN AgreedPrices(list) = {list[k].service : k \in DOMAIN list}
         /\ \A v \in DOMAIN AgreedPrices(list) :
              /\ AgreedPrices(list)[v] = list[LastOf(list, v)]
              /\ LastOf(list, v) \in DOMAIN list /\ list[LastOf(list, v)].service = v
<1>2. DOMAIN AgreedPrices(list) = {list[k].service : k \in DOMAIN list}
  BY DEF AgreedPrices
<1>3. ASSUME NEW v \in DOMAIN AgreedPrices(list) PROVE AgreedPrices(list)[v] = list[LastOf(list, v)]
  BY <1>2, <1>3 DEF AgreedPrices, LastOf
<1> QED BY <1>2, <1>3, LastIsOne

\* Planning a booking makes new rows, and keeps for each service what had been agreed.
LEMMA Planned ==
  ASSUME ReportsAssumption, NEW items \in Plans, NEW agreed, NEW edits \in Nat,
         \A v \in DOMAIN agreed : agreed[v] \in Segments, catalogue \in [Services -> Offers]
  PROVE  /\ PlanBookingSegments(items, agreed, edits) \in Seq(Segments)
         /\ DOMAIN PlanBookingSegments(items, agreed, edits) # {}
         /\ Apart(PlanBookingSegments(items, agreed, edits))
         /\ \A k \in DOMAIN PlanBookingSegments(items, agreed, edits) :
              LET x == PlanBookingSegments(items, agreed, edits)[k]
              IN /\ x.id[1] = edits
                 /\ x.service \in DOMAIN agreed => x.price = agreed[x.service].price /\ x.cur = agreed[x.service].cur
<1> DEFINE list == PlanBookingSegments(items, agreed, edits)
           From(v) == IF v \in DOMAIN agreed THEN agreed[v] ELSE catalogue[v]
<1> HIDE DEF list, From
<1>1. items \in Seq([service : Services, staff : Staff]) /\ items # <<>>
  BY DEF ReportsAssumption, Services
<1>2. /\ Len(items) \in Nat /\ DOMAIN items = 1 .. Len(items) /\ 1 \in DOMAIN items
      /\ \A k \in DOMAIN items : items[k].service \in Services /\ items[k].staff \in Staff
  <2>1. Len(items) \in Nat /\ DOMAIN items = 1 .. Len(items) /\ Len(items) # 0
    BY <1>1, EmptySeq
  <2>2. ASSUME NEW k \in DOMAIN items PROVE items[k] \in [service : Services, staff : Staff]
    BY <1>1, <2>1, ElementOfSeq
  <2> QED BY <2>1, <2>2
<1>3. \A k \in DOMAIN items : From(items[k].service).price \in Prices /\ From(items[k].service).cur \in Currencies
  BY <1>2 DEF From, Segments, Offers
<1>4. /\ DOMAIN list = 1 .. Len(items)
      /\ \A k \in DOMAIN items :
           list[k] = [id |-> <<edits, k>>, service |-> items[k].service, staff |-> items[k].staff,
                      price |-> From(items[k].service).price, cur |-> From(items[k].service).cur]
  <2>1. DOMAIN list = DOMAIN items
    BY DEF list, PlanBookingSegments
  <2>2. ASSUME NEW k \in DOMAIN items
        PROVE  list[k] = [id |-> <<edits, k>>, service |-> items[k].service, staff |-> items[k].staff,
                          price |-> From(items[k].service).price, cur |-> From(items[k].service).cur]
    BY <2>2, Zenon DEF list, From, PlanBookingSegments, Seg
  <2> QED BY <1>2, <2>1, <2>2
<1> HIDE DEF list, From
<1>5. \A k \in 1 .. Len(items) : list[k] \in Segments
  BY <1>2, <1>3, <1>4 DEF Segments
<1>6. list = [k \in 1 .. Len(items) |-> list[k]]
  BY <1>4 DEF list, PlanBookingSegments
<1>7. list \in [1 .. Len(items) -> Segments]
  BY <1>5, <1>6
<1>8. list \in Seq(Segments)
  BY <1>2, <1>7, FunctionIsList
<1>9. \A k \in DOMAIN list : list[k].service \in DOMAIN agreed =>
        list[k].price = agreed[list[k].service].price /\ list[k].cur = agreed[list[k].service].cur
  BY <1>2, <1>4 DEF From
<1>10. \A k \in DOMAIN list : list[k].id = <<edits, k>>
  BY <1>2, <1>4
<1>11. Apart(list) /\ \A k \in DOMAIN list : list[k].id[1] = edits
  BY <1>10 DEF Apart
<1>12. DOMAIN list # {}
  BY <1>2, <1>4
<1> QED BY <1>8, <1>9, <1>11, <1>12 DEF list

\* Saving a copy over the rows writes over those that are there and inserts the others: every row
\* is one of the two, no row is there twice, and over the rows it was taken from it changes none.
LEMMA SavedIs ==
  ASSUME NEW segs \in Seq(Segments), NEW copy \in Seq(Segments), Apart(segs), Apart(copy), DOMAIN segs # {},
         NEW list \in Saved(segs, copy)
  PROVE  /\ list \in Seq(Segments) /\ DOMAIN list # {} /\ Apart(list)
         /\ \A k \in DOMAIN list : (\E l \in DOMAIN segs : list[k] = segs[l]) \/ (\E l \in DOMAIN copy : list[k] = copy[l])
         /\ segs = copy => list = segs
<1> DEFINE kept == [k \in DOMAIN segs |->
                 IF segs[k].id \in RowIds(copy) THEN copy[CHOOSE l \in DOMAIN copy : copy[l].id = segs[k].id] ELSE segs[k]]
           lost == Lost(segs, copy)
<1>1. PICK o \in Orders(lost) : list = kept \o [k \in DOMAIN o |-> copy[o[k]]]
  BY Zenon DEF Saved
<1>0. PICK n \in Nat, c \in Nat : n = Len(segs) /\ c = Len(copy)
  BY ListIs
<1>2. DOMAIN segs = 1 .. n /\ n # 0 /\ \A k \in 1 .. n : segs[k] \in Segments
  <2>1. DOMAIN segs = 1 .. n /\ \A k \in DOMAIN segs : segs[k] \in Segments
    BY <1>0, ListIs
  <2>2. PICK j : j \in DOMAIN segs
    OBVIOUS
  <2> QED BY <2>1, <2>2
<1>3. DOMAIN copy = 1 .. c /\ \A k \in 1 .. c : copy[k] \in Segments
  <2>1. DOMAIN copy = 1 .. c /\ \A k \in DOMAIN copy : copy[k] \in Segments
    BY <1>0, ListIs
  <2> QED BY <2>1
<1>4. ASSUME NEW k \in 1 .. n
      PROVE  /\ kept[k] \in Segments /\ kept[k].id = segs[k].id
             /\ kept[k] = segs[k] \/ \E l \in DOMAIN copy : kept[k] = copy[l]
             /\ segs = copy => kept[k] = segs[k]
  <2>1. CASE segs[k].id \in RowIds(copy)
    <3> DEFINE L == CHOOSE l \in DOMAIN copy : copy[l].id = segs[k].id
    <3>1. \E l \in DOMAIN copy : copy[l].id = segs[k].id
      BY <2>1 DEF RowIds
    <3>2. L \in DOMAIN copy /\ copy[L].id = segs[k].id
      BY <3>1
    <3>3. kept[k] = copy[L]
      BY <1>2, <2>1
    <3> HIDE DEF L, kept
    <3>4. segs = copy => L = k
      BY <1>2, <3>2 DEF Apart
    <3> QED BY <1>3, <3>2, <3>3, <3>4
  <2>2. CASE segs[k].id \notin RowIds(copy)
    <3>1. kept[k] = segs[k]
      BY <1>2, <2>2
    <3> HIDE DEF kept
    <3> QED BY <1>2, <3>1
  <2> QED BY <2>1, <2>2
<1>5. kept \in [1 .. n -> Segments]
  <2>1. kept = [k \in 1 .. n |-> kept[k]]
    BY <1>2
  <2> HIDE DEF kept
  <2> QED BY <1>4, <2>1
<1> HIDE DEF kept
<1>6. kept \in Seq(Segments) /\ Len(kept) = n /\ DOMAIN kept = 1 .. n
  BY <1>5, FunctionIsList
<1>7. lost \subseteq 1 .. c /\ \A k \in lost : copy[k].id \notin RowIds(segs)
  BY <1>3 DEF Lost
<1>8. PICK m \in Nat : m = Cardinality(lost)
  <2>1. IsFiniteSet(1 .. c) /\ lost \in SUBSET (1 .. c)
    BY <1>7, FS_Interval
  <2>2. IsFiniteSet(lost)
    BY <2>1, FS_Subset
  <2> QED BY <2>2, FS_CardinalityType
<1>9. o \in [1 .. m -> lost] /\ \A k, l \in DOMAIN o : o[k] = o[l] => k = l
  BY <1>8 DEF Orders
<1>10. PICK added : added = [k \in DOMAIN o |-> copy[o[k]]]
  OBVIOUS
<1> HIDE DEF lost
<1>11. /\ added \in Seq(Segments) /\ Len(added) = m /\ DOMAIN added = 1 .. m
       /\ \A k \in 1 .. m : o[k] \in 1 .. c /\ added[k] = copy[o[k]] /\ added[k].id \notin RowIds(segs)
  <2>1. \A k \in 1 .. m : o[k] \in 1 .. c /\ added[k] = copy[o[k]] /\ added[k].id \notin RowIds(segs)
    BY <1>7, <1>9, <1>10
  <2>2. added \in [1 .. m -> Segments]
    <3>1. added = [k \in 1 .. m |-> copy[o[k]]]
      BY <1>9, <1>10
    <3> QED BY <1>3, <2>1, <3>1
  <2> QED BY <2>1, <2>2, FunctionIsList
<1>12. /\ list = kept \o added /\ list \in Seq(Segments) /\ DOMAIN list = 1 .. (n + m)
       /\ \A k \in 1 .. n : list[k] = kept[k]
       /\ \A k \in (n + 1) .. (n + m) : list[k] = added[k - n] /\ k - n \in 1 .. m
  <2>1. list = kept \o added
    BY <1>1, <1>10
  <2>2. list \in Seq(Segments) /\ Len(list) = n + m
    BY <1>6, <1>11, <2>1, ConcatProperties
  <2>3. DOMAIN list = 1 .. (n + m)
    BY <2>2
  <2>4. \A k \in 1 .. n : list[k] = kept[k]
    BY <1>6, <1>11, <2>1
  <2>5. ASSUME NEW k \in (n + 1) .. (n + m) PROVE list[k] = added[k - n] /\ k - n \in 1 .. m
    BY <1>6, <1>11, <2>1, <2>5
  <2> QED BY <2>1, <2>2, <2>3, <2>4, <2>5
<1>13. DOMAIN list # {}
  BY <1>2, <1>12
<1>14. ASSUME NEW k \in DOMAIN list
       PROVE  (\E l \in DOMAIN segs : list[k] = segs[l]) \/ (\E l \in DOMAIN copy : list[k] = copy[l])
  <2>1. k \in 1 .. n \/ k \in (n + 1) .. (n + m)
    BY <1>12
  <2>2. CASE k \in 1 .. n
    <3>1. k \in DOMAIN segs /\ list[k] = kept[k]
      BY <1>2, <1>12, <2>2
    <3> QED BY <1>4, <2>2, <3>1
  <2>3. CASE k \in (n + 1) .. (n + m)
    <3>1. k - n \in 1 .. m /\ list[k] = added[k - n]
      BY <1>12, <2>3
    <3>2. o[k - n] \in DOMAIN copy /\ list[k] = copy[o[k - n]]
      BY <1>3, <1>11, <3>1
    <3> QED BY <3>2
  <2> QED BY <2>1, <2>2, <2>3
<1>15. Apart(list)
  <2> SUFFICES ASSUME NEW k \in DOMAIN list, NEW l \in DOMAIN list, list[k].id = list[l].id PROVE k = l
    BY DEF Apart
  <2>1. \A j \in 1 .. n : j \in DOMAIN segs /\ list[j].id = segs[j].id /\ segs[j].id \in RowIds(segs)
    BY <1>2, <1>4, <1>12 DEF RowIds
  <2>2. \A j \in (n + 1) .. (n + m) : list[j].id \notin RowIds(segs) /\ list[j] = copy[o[j - n]] /\ j - n \in 1 .. m
    BY <1>11, <1>12
  <2>3. \A j \in {k, l} : j \in 1 .. n \/ j \in (n + 1) .. (n + m)
    BY <1>12
  <2>4. CASE k \in 1 .. n /\ l \in 1 .. n
    <3>1. k \in DOMAIN segs /\ l \in DOMAIN segs /\ segs[k].id = segs[l].id
      BY <2>1, <2>4
    <3> QED BY <3>1 DEF Apart
  <2>5. ASSUME k \in 1 .. n <=> l \notin 1 .. n PROVE FALSE
    BY <2>1, <2>2, <2>3, <2>5
  <2>6. CASE k \in (n + 1) .. (n + m) /\ l \in (n + 1) .. (n + m)
    <3>1. k - n \in 1 .. m /\ l - n \in 1 .. m /\ copy[o[k - n]].id = copy[o[l - n]].id
      BY <2>2, <2>6
    <3>2. o[k - n] \in DOMAIN copy /\ o[l - n] \in DOMAIN copy
      BY <1>3, <1>11, <3>1
    <3>3. o[k - n] = o[l - n]
      BY <3>1, <3>2 DEF Apart
    <3>4. k - n = l - n
      BY <1>9, <3>1, <3>3
    <3> QED BY <2>6, <3>4
  <2> QED BY <2>3, <2>4, <2>5, <2>6
<1>16. ASSUME segs = copy PROVE list = segs
  <2>1. lost = {}
    BY <1>16 DEF lost, Lost, RowIds
  <2>2. m = 0
    BY <1>8, <2>1, FS_EmptySet
  <2>3. DOMAIN list = 1 .. n /\ \A k \in 1 .. n : list[k] = segs[k]
    BY <1>4, <1>12, <1>16, <2>2
  <2>4. list \in [1 .. n -> Segments] /\ segs \in [1 .. n -> Segments]
    <3>1. \A s \in Seq(Segments) : s \in [1 .. Len(s) -> Segments] /\ DOMAIN s = 1 .. Len(s)
      OBVIOUS
    <3>2. list \in [DOMAIN list -> Segments] /\ segs \in [DOMAIN segs -> Segments]
      BY <1>12, <3>1
    <3> QED BY <1>2, <2>3, <3>2
  <2> QED BY <2>3, <2>4
<1> QED BY <1>12, <1>13, <1>14, <1>15, <1>16

\* The rows of the desk, and what the requests in course hold.
Bookings ==
  [at : Starts, status : Statuses, client : Clients, account : Accounts \cup {Null}, edits : Nat, segs : Seq(Segments)]
Copies == [op : {"idle", "edit", "price", "find", "save"}, i : 0 .. MaxAppts, segs : Seq(Segments)]

BooksTyped ==
  /\ catalogue \in [Services -> Offers]
  /\ DOMAIN appts \subseteq 1 .. MaxAppts /\ appts \in [DOMAIN appts -> Bookings]
CopiesTyped == copies \in [Handlers -> Copies]

\* Every appointment has a service at least.
Worked == \A i \in DOMAIN appts : DOMAIN appts[i].segs # {}

\* No list has a row twice; whoever has a row of an appointment, whether it or a copy of it, has
\* it with the same service; and a row of the edits to come is still nowhere.
RowsKnown ==
  /\ \A i \in DOMAIN appts : Apart(appts[i].segs) /\ Dated(appts[i].segs, appts[i].edits)
  /\ \A h \in Handlers : Apart(copies[h].segs)
  /\ \A h \in Handlers : copies[h].i \in DOMAIN appts =>
       Dated(copies[h].segs, appts[copies[h].i].edits) /\ Alike(copies[h].segs, appts[copies[h].i].segs)
  /\ \A g, h \in Handlers : copies[g].i = copies[h].i => Alike(copies[g].segs, copies[h].segs)

DeskState == BooksTyped /\ CopiesTyped /\ Worked /\ RowsKnown

\* Changing one of the rows, or adding one.
LEMMA RowsStayTyped ==
  ASSUME appts \in [DOMAIN appts -> Bookings], DOMAIN appts \subseteq 1 .. MaxAppts, NEW a \in Bookings, NEW i \in 1 .. MaxAppts
  PROVE  /\ i \in DOMAIN appts => [appts EXCEPT ![i] = a] \in [DOMAIN appts -> Bookings]
         /\ [j \in DOMAIN appts \cup {i} |-> IF j = i THEN a ELSE appts[j]] \in [DOMAIN appts \cup {i} -> Bookings]
OBVIOUS

\* What the properties ask of one appointment.
AgreedAt(i) ==
  LET before == AgreedPrices(appts[i].segs)
      after  == AgreedPrices(appts'[i].segs)
  IN \/ \E h \in Handlers : Overtaken(h) /\ copies[h].i = i /\ copies'[h] = Idle
     \/ \A v \in DOMAIN before \cap DOMAIN after :
          /\ after[v].cur = before[v].cur
          /\ after[v].price # before[v].price =>
               /\ catalogue' = catalogue /\ appts'[i].at = appts[i].at
               /\ DOMAIN after = DOMAIN before
               /\ \A w \in DOMAIN before \ {v} : after[w].price = before[w].price

LEMMA AgreedIsAt == Agreed <=> \A i \in DOMAIN appts \cap DOMAIN appts' : AgreedAt(i)
BY DEF Agreed, AgreedAt

\* What is not written keeps what was agreed.
LEMMA UnwrittenAt ==
  ASSUME NEW i, appts'[i].segs = appts[i].segs
  PROVE  AgreedAt(i)
BY DEF AgreedAt

LEMMA UnwrittenStands ==
  ASSUME \A i \in DOMAIN appts \cap DOMAIN appts' : appts'[i].segs = appts[i].segs
  PROVE  Agreed
BY UnwrittenAt, AgreedIsAt

\* A booking that is added leaves the others as they were, and nobody holds a copy of it.
LEMMA BookKeeps ==
  ASSUME DeskState, NEW a \in Bookings, Book(a), DOMAIN a.segs # {}, Apart(a.segs), Dated(a.segs, a.edits)
  PROVE  DeskState' /\ Agreed
<1>1. PICK free, id : free = (1 .. MaxAppts) \ (DOMAIN appts \cup {copies[h].i : h \in Handlers}) /\ id = Min(free)
  OBVIOUS
<1>2. free # {} /\ appts' = [j \in DOMAIN appts \cup {id} |-> IF j = id THEN a ELSE appts[j]]
      /\ catalogue' = catalogue /\ copies' = copies
  BY <1>1, Zenon DEF Book
<1>3. id \in 1 .. MaxAppts /\ id \notin DOMAIN appts /\ \A h \in Handlers : copies[h].i # id
  <2>1. free \in SUBSET Nat
    BY <1>1
  <2>2. id \in free
    BY <1>1, <1>2, <2>1, MinIn
  <2> QED BY <1>1, <2>2
<1>4. appts' \in [DOMAIN appts \cup {id} -> Bookings] /\ DOMAIN appts' = DOMAIN appts \cup {id}
  BY <1>2, <1>3, RowsStayTyped DEF DeskState, BooksTyped
<1>5. BooksTyped' /\ CopiesTyped'
  BY <1>2, <1>3, <1>4 DEF DeskState, BooksTyped, CopiesTyped
<1>6. appts'[id] = a /\ \A i \in DOMAIN appts : appts'[i] = appts[i] /\ i # id
  BY <1>2, <1>3
<1>7. Worked'
  BY <1>4, <1>6 DEF DeskState, Worked
<1>8. RowsKnown'
  <2>1. \A i \in DOMAIN appts' : Apart(appts'[i].segs) /\ Dated(appts'[i].segs, appts'[i].edits)
    BY <1>4, <1>6 DEF DeskState, RowsKnown
  <2>2. ASSUME NEW h \in Handlers, copies'[h].i \in DOMAIN appts'
        PROVE  Dated(copies'[h].segs, appts'[copies'[h].i].edits) /\ Alike(copies'[h].segs, appts'[copies'[h].i].segs)
    BY <1>2, <1>3, <1>4, <1>6, <2>2 DEF DeskState, RowsKnown
  <2>3. /\ \A h \in Handlers : Apart(copies'[h].segs)
        /\ \A g, h \in Handlers : copies'[g].i = copies'[h].i => Alike(copies'[g].segs, copies'[h].segs)
    BY <1>2 DEF DeskState, RowsKnown
  <2> QED BY <2>1, <2>2, <2>3 DEF RowsKnown, Apart, Dated, Alike
<1>9. Agreed
  <2>1. \A i \in DOMAIN appts \cap DOMAIN appts' : appts'[i].segs = appts[i].segs
    BY <1>6
  <2> QED BY <2>1, UnwrittenStands
<1> QED BY <1>5, <1>7, <1>8, <1>9 DEF DeskState

\* Writing one appointment leaves the others as they were, and whoever wrote it holds no rows.
LEMMA WriteKeeps ==
  ASSUME DeskState, NEW i \in DOMAIN appts, NEW a \in Bookings, Put(i, a),
         NEW h \in Handlers, NEW m \in Copies, m.segs = <<>>, Goto(h, m),
         DOMAIN a.segs # {}, Apart(a.segs), Dated(a.segs, a.edits), appts[i].edits <= a.edits,
         \A g \in Handlers : copies[g].i = i => Alike(copies[g].segs, a.segs)
  PROVE  /\ DeskState' /\ catalogue' = catalogue /\ DOMAIN appts' = DOMAIN appts /\ appts'[i] = a
         /\ \A j \in DOMAIN appts \ {i} : appts'[j] = appts[j]
         /\ AgreedAt(i) => Agreed
<1>1. appts' = [appts EXCEPT ![i] = a] /\ catalogue' = catalogue /\ copies' = [copies EXCEPT ![h] = m]
  BY DEF Put, Goto
<1>2. appts' \in [DOMAIN appts -> Bookings] /\ DOMAIN appts' = DOMAIN appts
  BY <1>1, RowsStayTyped DEF DeskState, BooksTyped
<1>3. BooksTyped' /\ appts'[i] = a /\ \A j \in DOMAIN appts \ {i} : appts'[j] = appts[j]
  BY <1>1, <1>2 DEF DeskState, BooksTyped
<1>4. CopiesTyped' /\ copies'[h] = m /\ \A g \in Handlers \ {h} : copies'[g] = copies[g]
  BY <1>1 DEF DeskState, CopiesTyped
<1>5. Worked'
  BY <1>2, <1>3 DEF DeskState, Worked
<1>6. \A j \in DOMAIN appts' : Apart(appts'[j].segs) /\ Dated(appts'[j].segs, appts'[j].edits)
  BY <1>2, <1>3 DEF DeskState, RowsKnown
<1>7. \A g \in Handlers : copies'[g].segs = <<>> \/ copies'[g] = copies[g]
  BY <1>4
<1>8. ASSUME NEW g \in Handlers PROVE Apart(copies'[g].segs)
  <2>1. Apart(<<>>)
    BY DEF Apart
  <2> QED BY <1>7, <2>1 DEF DeskState, RowsKnown
<1>9. ASSUME NEW g \in Handlers, copies'[g].i \in DOMAIN appts'
      PROVE  Dated(copies'[g].segs, appts'[copies'[g].i].edits) /\ Alike(copies'[g].segs, appts'[copies'[g].i].segs)
  <2>1. CASE copies'[g].segs = <<>>
    BY <2>1 DEF Dated, Alike
  <2>2. CASE copies'[g] = copies[g] /\ copies[g].i # i
    BY <1>2, <1>3, <1>9, <2>2 DEF DeskState, RowsKnown
  <2>3. CASE copies'[g] = copies[g] /\ copies[g].i = i
    <3>1. Dated(copies[g].segs, appts[i].edits)
      BY <2>3 DEF DeskState, RowsKnown
    <3>2. appts[i].edits \in Nat /\ a.edits \in Nat
      BY DEF DeskState, BooksTyped, Bookings
    <3>3. Dated(copies[g].segs, a.edits)
      BY <3>1, <3>2 DEF Dated
    <3> QED BY <1>3, <2>3, <3>3
  <2> QED BY <1>7, <2>1, <2>2, <2>3
<1>10. ASSUME NEW g \in Handlers, NEW f \in Handlers, copies'[g].i = copies'[f].i
       PROVE  Alike(copies'[g].segs, copies'[f].segs)
  <2>1. CASE copies'[g].segs = <<>> \/ copies'[f].segs = <<>>
    BY <2>1 DEF Alike
  <2>2. CASE copies'[g] = copies[g] /\ copies'[f] = copies[f]
    BY <1>10, <2>2 DEF DeskState, RowsKnown
  <2> QED BY <1>7, <2>1, <2>2
<1>11. RowsKnown'
  BY <1>6, <1>8, <1>9, <1>10 DEF RowsKnown, Apart, Dated, Alike
<1>12. ASSUME AgreedAt(i) PROVE Agreed
  BY <1>3, <1>12, UnwrittenAt, AgreedIsAt
<1> QED BY <1>1, <1>2, <1>3, <1>4, <1>5, <1>11, <1>12 DEF DeskState

\* Reading the rows of an appointment, and letting go of them.
LEMMA CopyKeeps ==
  ASSUME DeskState, UNCHANGED <<catalogue, appts>>, NEW h \in Handlers, NEW m \in Copies, Goto(h, m),
         m.segs = <<>> \/ (m.i \in DOMAIN appts /\ m.segs = appts[m.i].segs)
  PROVE  DeskState' /\ Agreed
<1>1. CopiesTyped' /\ copies'[h] = m /\ \A g \in Handlers \ {h} : copies'[g] = copies[g]
  BY DEF DeskState, CopiesTyped, Goto
<1>2. ASSUME NEW g \in Handlers
      PROVE  \/ copies'[g].segs = <<>>
             \/ copies'[g] = copies[g]
             \/ copies'[g].i \in DOMAIN appts /\ copies'[g].segs = appts[copies'[g].i].segs
  BY <1>1
<1>3. Apart(<<>>) /\ \A e : Dated(<<>>, e)
  BY DEF Apart, Dated
<1>4. \A j \in DOMAIN appts : Alike(appts[j].segs, appts[j].segs)
  BY DEF DeskState, RowsKnown, Apart, Alike
<1>5. \A list : Alike(list, <<>>) /\ Alike(<<>>, list)
  BY DEF Alike
<1>6. \A list, other : Alike(list, other) => Alike(other, list)
  BY DEF Alike
<1>7. ASSUME NEW g \in Handlers PROVE Apart(copies'[g].segs)
  BY <1>2, <1>3 DEF DeskState, RowsKnown
<1>8. ASSUME NEW g \in Handlers, copies'[g].i \in DOMAIN appts
      PROVE  Dated(copies'[g].segs, appts[copies'[g].i].edits) /\ Alike(copies'[g].segs, appts[copies'[g].i].segs)
  BY <1>2, <1>3, <1>4, <1>5, <1>8 DEF DeskState, RowsKnown
<1>9. ASSUME NEW g \in Handlers, NEW f \in Handlers, copies'[g].i = copies'[f].i
      PROVE  Alike(copies'[g].segs, copies'[f].segs)
  <2>1. CASE copies'[g].segs = <<>> \/ copies'[f].segs = <<>>
    BY <1>5, <2>1
  <2>2. CASE copies'[g].i \in DOMAIN appts /\ copies'[g].segs = appts[copies'[g].i].segs
    <3>1. Alike(copies'[f].segs, appts[copies'[f].i].segs)
      BY <1>8, <1>9, <2>2
    <3> QED BY <1>6, <1>9, <2>2, <3>1
  <2>3. CASE copies'[f].i \in DOMAIN appts /\ copies'[f].segs = appts[copies'[f].i].segs
    <3>1. Alike(copies'[g].segs, appts[copies'[g].i].segs)
      BY <1>8, <1>9, <2>3
    <3> QED BY <1>9, <2>3, <3>1
  <2>4. CASE copies'[g] = copies[g] /\ copies'[f] = copies[f]
    BY <1>9, <2>4 DEF DeskState, RowsKnown
  <2> QED BY <1>2, <2>1, <2>2, <2>3, <2>4
<1>10. BooksTyped' /\ Worked'
  BY DEF DeskState, BooksTyped, Worked
<1>11. RowsKnown'
  BY <1>7, <1>8, <1>9 DEF DeskState, RowsKnown, Apart, Dated, Alike
<1>12. Agreed
  BY UnwrittenStands
<1> QED BY <1>1, <1>10, <1>11, <1>12 DEF DeskState

\* Editing plans the services again, each at what was agreed for it when they were read.
LEMMA EditKeeps ==
  ASSUME ReportsAssumption, DeskState, NEW h \in Handlers, EditBooking(h)
  PROVE  DeskState' /\ Agreed
<1>1. PICK m, i : m = copies[h] /\ i = m.i
  OBVIOUS
<1>2. i \in DOMAIN appts /\ m \in Copies /\ Leave(h) /\ m.op = "edit"
  BY <1>1 DEF EditBooking, DeskState, CopiesTyped
<1>3. PICK items \in Plans, t \in Starts :
        Put(i, Edited(appts[i], t, PlanBookingSegments(items, AgreedPrices(m.segs), appts[i].edits + 1)))
  BY <1>1, Zenon DEF EditBooking
<1>4. PICK held : held = AgreedPrices(m.segs)
  OBVIOUS
<1>5. PICK x, list : x = appts[i] /\ list = PlanBookingSegments(items, held, x.edits + 1)
  OBVIOUS
<1>6. x \in Bookings /\ x.segs \in Seq(Segments) /\ x.edits \in Nat /\ m.segs \in Seq(Segments)
  BY <1>2, <1>5 DEF DeskState, BooksTyped, Bookings, Copies
<1>7. ASSUME NEW v \in DOMAIN held PROVE held[v] \in Segments
  <2>1. PICK n \in DOMAIN m.segs : held[v] = m.segs[n]
    BY <1>4, <1>6, AgreedIs
  <2> QED BY <2>1, <1>6, ListIs
<1>8. /\ list \in Seq(Segments) /\ DOMAIN list # {} /\ Apart(list)
      /\ \A k \in DOMAIN list :
           /\ list[k].id[1] = x.edits + 1
           /\ list[k].service \in DOMAIN held =>
                list[k].price = held[list[k].service].price /\ list[k].cur = held[list[k].service].cur
  BY <1>5, <1>6, <1>7, Planned DEF DeskState, BooksTyped
<1>9. PICK a : a = Edited(x, t, list)
  OBVIOUS
<1>10. a \in Bookings /\ a.segs = list /\ a.edits = x.edits + 1
  <2>1. PICK y \in Nat : y = x.edits + 1
    BY <1>6
  <2>2. a = [x EXCEPT !.at = t, !.edits = y, !.segs = list]
    BY <1>9, <2>1 DEF Edited
  <2>3. [x EXCEPT !.at = t, !.edits = y, !.segs = list] \in Bookings
    BY <1>6, <1>8 DEF Bookings
  <2>4. a.segs = list /\ a.edits = y
    BY <1>6, <2>2 DEF Bookings
  <2> QED BY <2>1, <2>2, <2>3, <2>4
<1>11. Put(i, a)
  BY <1>3, <1>4, <1>5, <1>9
<1>12. Dated(a.segs, a.edits) /\ appts[i].edits <= a.edits
  <2>1. \A k \in DOMAIN a.segs : a.segs[k].id[1] = a.edits
    BY <1>8, <1>10
  <2>2. a.edits \in Nat /\ appts[i].edits <= a.edits
    BY <1>5, <1>6, <1>10
  <2> QED BY <2>1, <2>2 DEF Dated
<1>13. ASSUME NEW g \in Handlers, copies[g].i = i PROVE Alike(copies[g].segs, a.segs)
  <2>1. Dated(copies[g].segs, x.edits)
    BY <1>2, <1>5, <1>13 DEF DeskState, RowsKnown
  <2>2. ASSUME NEW k \in DOMAIN copies[g].segs, NEW l \in DOMAIN list, copies[g].segs[k].id = list[l].id PROVE FALSE
    <3>1. copies[g].segs[k].id[1] <= x.edits
      BY <2>1 DEF Dated
    <3>2. copies[g].segs[k].id[1] = x.edits + 1
      BY <1>8, <2>2
    <3> QED BY <1>6, <3>1, <3>2
  <2> QED BY <1>10, <2>2 DEF Alike
<1>14. Idle \in Copies /\ Idle.segs = <<>> /\ Goto(h, Idle)
  <2>1. Idle = [op |-> "idle", i |-> 0, segs |-> <<>>] /\ <<>> \in Seq(Segments) /\ 0 \in 0 .. MaxAppts
    BY DEF Idle, ReportsAssumption
  <2> QED BY <1>2, <2>1 DEF Copies, Leave
<1>15. /\ DeskState' /\ appts'[i].segs = list /\ DOMAIN appts' = DOMAIN appts
       /\ AgreedAt(i) => Agreed
  BY <1>2, <1>8, <1>10, <1>11, <1>12, <1>13, <1>14, WriteKeeps
<1>16. CASE m.segs # x.segs
  <2>1. Overtaken(h) /\ copies[h].i = i /\ copies'[h] = Idle
    BY <1>1, <1>2, <1>5, <1>16 DEF Overtaken, DeskState, CopiesTyped, Leave, Goto
  <2> QED BY <1>15, <2>1 DEF AgreedAt
<1>17. CASE m.segs = x.segs
  <2>1. held = AgreedPrices(appts[i].segs)
    BY <1>4, <1>5, <1>17
  <2>2. ASSUME NEW v \in DOMAIN held \cap DOMAIN AgreedPrices(list)
        PROVE  AgreedPrices(list)[v].price = held[v].price /\ AgreedPrices(list)[v].cur = held[v].cur
    <3>1. PICK l \in DOMAIN list : AgreedPrices(list)[v] = list[l] /\ list[l].service = v
      BY <1>8, AgreedIs
    <3> QED BY <1>8, <3>1
  <2>3. AgreedAt(i)
    BY <1>15, <2>1, <2>2 DEF AgreedAt
  <2> QED BY <1>15, <2>3
<1> QED BY <1>16, <1>17

\* A price is written in rows of one service: which services there are, which segment of each is
\* the last and what the others say do not change.
LEMMA PriceKeeps ==
  ASSUME ReportsAssumption, DeskState, NEW h \in Handlers, SetSegmentPrices(h)
  PROVE  DeskState' /\ Agreed
<1>1. PICK m, i : m = copies[h] /\ i = m.i
  OBVIOUS
<1>2. i \in DOMAIN appts /\ m \in Copies /\ Leave(h)
  BY <1>1 DEF SetSegmentPrices, DeskState, CopiesTyped
<1>3. PICK x, old : x = appts[i] /\ old = x.segs
  OBVIOUS
<1>4. PICK v \in {m.segs[k].service : k \in DOMAIN m.segs}, p \in Prices :
        Put(i, [x EXCEPT !.segs = Priced(x.segs, OfService(m.segs, v), p)])
  BY <1>1, <1>3, Zenon DEF SetSegmentPrices
<1>5. PICK ids, list : ids = OfService(m.segs, v) /\ list = Priced(old, ids, p)
  OBVIOUS
<1>6. x \in Bookings /\ old \in Seq(Segments) /\ x.edits \in Nat
  BY <1>2, <1>3 DEF DeskState, BooksTyped, Bookings
<1>7. PICK n \in Nat : n = Len(old) /\ DOMAIN old = 1 .. n /\ \A k \in 1 .. n : old[k] \in Segments
  BY <1>6, ListIs
<1>8. ASSUME NEW k \in 1 .. n, old[k].id \in ids PROVE old[k].service = v
  <2>1. PICK l \in DOMAIN m.segs : m.segs[l].service = v /\ m.segs[l].id = old[k].id
    BY <1>5, <1>8 DEF OfService
  <2>2. Alike(m.segs, old)
    BY <1>1, <1>2, <1>3 DEF DeskState, RowsKnown
  <2> QED BY <1>7, <2>1, <2>2 DEF Alike
<1>9. ASSUME NEW k \in 1 .. n
      PROVE  /\ list[k] \in Segments /\ list[k].service = old[k].service /\ list[k].cur = old[k].cur /\ list[k].id = old[k].id
             /\ old[k].service # v => list[k] = old[k]
  <2>1. list[k] = IF old[k].id \in ids THEN [old[k] EXCEPT !.price = p] ELSE old[k]
    BY <1>5, <1>7 DEF Priced
  <2>2. PICK e \in Segments : e = old[k]
    BY <1>7
  <2>3. /\ [e EXCEPT !.price = p] \in Segments /\ [e EXCEPT !.price = p].service = e.service
        /\ [e EXCEPT !.price = p].cur = e.cur /\ [e EXCEPT !.price = p].id = e.id
    BY DEF Segments
  <2> QED BY <1>8, <2>1, <2>2, <2>3
<1>10. DOMAIN list = 1 .. n /\ list \in Seq(Segments)
  <2>1. DOMAIN list = 1 .. n /\ list = [k \in 1 .. n |-> list[k]]
    BY <1>5, <1>7 DEF Priced
  <2>2. list \in [1 .. n -> Segments]
    BY <2>1, <1>9
  <2> QED BY <2>1, <2>2, FunctionIsList
<1>11. PICK a : a = [x EXCEPT !.segs = list]
  OBVIOUS
<1>12. a \in Bookings /\ a.segs = list /\ a.at = x.at /\ a.edits = x.edits
  BY <1>6, <1>10, <1>11 DEF Bookings
<1>13. Put(i, a)
  BY <1>3, <1>4, <1>5, <1>11
<1>14. DOMAIN old # {} /\ Apart(old) /\ Dated(old, x.edits)
  BY <1>2, <1>3 DEF DeskState, Worked, RowsKnown
<1>15. DOMAIN a.segs # {} /\ Apart(a.segs) /\ Dated(a.segs, a.edits) /\ appts[i].edits <= a.edits
  BY <1>3, <1>6, <1>7, <1>9, <1>10, <1>12, <1>14 DEF Apart, Dated
<1>16. ASSUME NEW g \in Handlers, copies[g].i = i PROVE Alike(copies[g].segs, a.segs)
  <2>1. Alike(copies[g].segs, old)
    BY <1>2, <1>3, <1>16 DEF DeskState, RowsKnown
  <2> QED BY <1>7, <1>9, <1>10, <1>12, <2>1 DEF Alike
<1>17. Idle \in Copies /\ Idle.segs = <<>> /\ Goto(h, Idle)
  <2>1. Idle = [op |-> "idle", i |-> 0, segs |-> <<>>] /\ <<>> \in Seq(Segments) /\ 0 \in 0 .. MaxAppts
    BY DEF Idle, ReportsAssumption
  <2> QED BY <1>2, <2>1 DEF Copies, Leave
<1>18. /\ DeskState' /\ catalogue' = catalogue /\ appts'[i] = a
       /\ AgreedAt(i) => Agreed
  BY <1>2, <1>12, <1>13, <1>15, <1>16, <1>17, WriteKeeps
<1>19. PICK before, after : before = AgreedPrices(old) /\ after = AgreedPrices(list)
  OBVIOUS
<1>20. DOMAIN after = DOMAIN before
  <2>1. DOMAIN before = {old[k].service : k \in 1 .. n} /\ DOMAIN after = {list[k].service : k \in 1 .. n}
    BY <1>6, <1>7, <1>10, <1>19, AgreedIs
  <2> QED BY <1>9, <2>1
<1>21. \A w : LastOf(list, w) = LastOf(old, w)
  <2> SUFFICES ASSUME NEW w PROVE {k \in DOMAIN list : list[k].service = w} = {k \in DOMAIN old : old[k].service = w}
    BY Zenon DEF LastOf
  <2> QED BY <1>7, <1>9, <1>10
<1>22. ASSUME NEW w \in DOMAIN before
       PROVE  after[w].cur = before[w].cur /\ (w # v => after[w] = before[w])
  <2>1. PICK k \in 1 .. n : before[w] = old[k] /\ old[k].service = w /\ k = LastOf(old, w)
    BY <1>6, <1>7, <1>19, AgreedIs
  <2>2. after[w] = list[LastOf(list, w)]
    BY <1>10, <1>19, <1>20, AgreedIs
  <2>3. after[w] = list[k]
    BY <1>21, <2>1, <2>2
  <2> QED BY <1>9, <2>1, <2>3
<1>23. \A w \in DOMAIN before \cap DOMAIN after :
         /\ after[w].cur = before[w].cur
         /\ after[w].price # before[w].price =>
              /\ catalogue' = catalogue /\ appts'[i].at = appts[i].at
              /\ DOMAIN after = DOMAIN before /\ \A u \in DOMAIN before \ {w} : after[u].price = before[u].price
  BY <1>3, <1>12, <1>18, <1>20, <1>22
<1>24. AgreedAt(i)
  BY <1>3, <1>12, <1>18, <1>19, <1>23 DEF AgreedAt
<1> QED BY <1>18, <1>24

\* The status is written, and the rows are not.
LEMMA StatusKeeps ==
  ASSUME ReportsAssumption, DeskState, NEW h \in Handlers, NEW i \in DOMAIN appts, UpdateStatus(h, i)
  PROVE  DeskState' /\ Agreed
<1>1. PICK st \in Statuses : Put(i, [appts[i] EXCEPT !.status = st])
  BY DEF UpdateStatus
<1>2. PICK x, a : x = appts[i] /\ a = [x EXCEPT !.status = st]
  OBVIOUS
<1>3. x \in Bookings
  BY <1>2 DEF DeskState, BooksTyped
<1>4. a \in Bookings /\ a.segs = x.segs /\ a.edits = x.edits /\ x.edits \in Nat
  BY <1>2, <1>3 DEF Bookings
<1>5. PICK m : m = [op |-> "find", i |-> i, segs |-> <<>>]
  OBVIOUS
<1>6. m \in Copies /\ m.segs = <<>> /\ Goto(h, m)
  <2>1. i \in 0 .. MaxAppts /\ <<>> \in Seq(Segments)
    BY DEF DeskState, BooksTyped
  <2>2. Goto(h, m)
    BY <1>5 DEF UpdateStatus
  <2> QED BY <1>5, <2>1, <2>2 DEF Copies
<1>7. DOMAIN a.segs # {} /\ Apart(a.segs) /\ Dated(a.segs, a.edits) /\ appts[i].edits <= a.edits
  BY <1>2, <1>4 DEF DeskState, Worked, RowsKnown
<1>8. \A g \in Handlers : copies[g].i = i => Alike(copies[g].segs, a.segs)
  BY <1>2, <1>4 DEF DeskState, RowsKnown
<1>9. DeskState' /\ appts'[i] = a /\ (AgreedAt(i) => Agreed)
  BY <1>1, <1>2, <1>4, <1>6, <1>7, <1>8, WriteKeeps
<1> QED BY <1>2, <1>4, <1>9, UnwrittenAt

\* The rows are saved whole: over the ones they were taken from, that changes nothing.
LEMMA SaveKeeps ==
  ASSUME ReportsAssumption, DeskState, NEW h \in Handlers, SaveSegments(h)
  PROVE  DeskState' /\ Agreed
<1>1. PICK m, i : m = copies[h] /\ i = m.i
  OBVIOUS
<1>2. i \in DOMAIN appts /\ m \in Copies /\ Leave(h) /\ m.op = "save"
  BY <1>1 DEF SaveSegments, DeskState, CopiesTyped
<1>3. PICK x : x = appts[i]
  OBVIOUS
<1>4. PICK list \in Saved(x.segs, m.segs) : Put(i, [x EXCEPT !.segs = list])
  BY <1>1, <1>3 DEF SaveSegments
<1>5. x \in Bookings /\ x.segs \in Seq(Segments) /\ m.segs \in Seq(Segments) /\ x.edits \in Nat
  BY <1>2, <1>3 DEF DeskState, BooksTyped, Bookings, Copies
<1>6. /\ Apart(x.segs) /\ Dated(x.segs, x.edits) /\ DOMAIN x.segs # {}
      /\ Apart(m.segs) /\ Dated(m.segs, x.edits)
  BY <1>1, <1>2, <1>3 DEF DeskState, Worked, RowsKnown
<1>7. /\ list \in Seq(Segments) /\ DOMAIN list # {} /\ Apart(list)
      /\ \A k \in DOMAIN list : (\E l \in DOMAIN x.segs : list[k] = x.segs[l]) \/ (\E l \in DOMAIN m.segs : list[k] = m.segs[l])
      /\ x.segs = m.segs => list = x.segs
  BY <1>5, <1>6, SavedIs
<1>8. PICK a : a = [x EXCEPT !.segs = list]
  OBVIOUS
<1>9. a \in Bookings /\ a.segs = list /\ a.edits = x.edits
  BY <1>5, <1>7, <1>8 DEF Bookings
<1>10. Dated(a.segs, a.edits) /\ appts[i].edits <= a.edits
  BY <1>3, <1>5, <1>6, <1>7, <1>9 DEF Dated
<1>11. ASSUME NEW g \in Handlers, copies[g].i = i PROVE Alike(copies[g].segs, a.segs)
  <2>1. Alike(copies[g].segs, x.segs) /\ Alike(copies[g].segs, m.segs)
    BY <1>1, <1>2, <1>3, <1>11 DEF DeskState, RowsKnown
  <2> SUFFICES ASSUME NEW j \in DOMAIN copies[g].segs, NEW k \in DOMAIN list, copies[g].segs[j].id = list[k].id
               PROVE  copies[g].segs[j].service = list[k].service
    BY <1>9 DEF Alike
  <2>2. CASE \E l \in DOMAIN x.segs : list[k] = x.segs[l]
    BY <2>1, <2>2 DEF Alike
  <2>3. CASE \E l \in DOMAIN m.segs : list[k] = m.segs[l]
    BY <2>1, <2>3 DEF Alike
  <2> QED BY <1>7, <2>2, <2>3
<1>12. Idle \in Copies /\ Idle.segs = <<>> /\ Goto(h, Idle)
  <2>1. Idle = [op |-> "idle", i |-> 0, segs |-> <<>>] /\ <<>> \in Seq(Segments) /\ 0 \in 0 .. MaxAppts
    BY DEF Idle, ReportsAssumption
  <2> QED BY <1>2, <2>1 DEF Copies, Leave
<1>13. DeskState' /\ appts'[i] = a /\ (AgreedAt(i) => Agreed)
  BY <1>2, <1>4, <1>7, <1>8, <1>9, <1>10, <1>11, <1>12, WriteKeeps
<1>14. CASE m.segs # x.segs
  <2>1. Overtaken(h) /\ copies[h].i = i /\ copies'[h] = Idle
    BY <1>1, <1>2, <1>3, <1>14 DEF Overtaken, DeskState, CopiesTyped, Leave, Goto
  <2> QED BY <1>13, <2>1 DEF AgreedAt
<1>15. CASE m.segs = x.segs
  BY <1>3, <1>7, <1>9, <1>13, <1>15, UnwrittenAt
<1> QED BY <1>14, <1>15

\* The rows are of their columns exactly when the parts of the state are.
LEMMA TypeIs ==
  TypeOK <=> /\ BooksTyped /\ CopiesTyped /\ team \in [Staff -> [rate : Rates, former : BOOLEAN]]
             /\ clock \in FirstNow .. MaxNow /\ writes \in 0 .. MaxWrites
BY DEF TypeOK, BooksTyped, CopiesTyped, Bookings, Copies, SegmentRows, Segments, Offers

\* What is read or let go is a row of the request in course.
LEMMA CopiesAre ==
  ASSUME ReportsAssumption, BooksTyped
  PROVE  /\ Idle \in Copies /\ Idle.segs = <<>>
         /\ \A i \in DOMAIN appts, op \in {"edit", "price", "save"} :
              LET m == [op |-> op, i |-> i, segs |-> appts[i].segs]
              IN m \in Copies /\ m.i = i /\ m.segs = appts[i].segs
<1>1. Idle = [op |-> "idle", i |-> 0, segs |-> <<>>] /\ <<>> \in Seq(Segments) /\ 0 \in 0 .. MaxAppts
  BY DEF Idle, ReportsAssumption
<1>2. \A i \in DOMAIN appts : i \in 0 .. MaxAppts /\ appts[i].segs \in Seq(Segments)
  BY DEF BooksTyped, Bookings
<1> QED BY <1>1, <1>2 DEF Copies

\* Whatever is written, what was agreed stands and the rows are of their columns.
LEMMA DeskStep ==
  ASSUME ReportsAssumption, TypeOK, DeskState, [Next]_(vars)
  PROVE  TypeOK' /\ DeskState' /\ Agreed
<1>1. BooksTyped /\ team \in [Staff -> [rate : Rates, former : BOOLEAN]] /\ clock \in FirstNow .. MaxNow /\ writes \in 0 .. MaxWrites
  BY TypeIs
<1>2. DeskState' /\ team' \in [Staff -> [rate : Rates, former : BOOLEAN]] /\ clock' \in FirstNow .. MaxNow /\ writes' \in 0 .. MaxWrites
        => TypeOK'
  BY DEF DeskState, TypeOK, BooksTyped, CopiesTyped, Bookings, Copies, SegmentRows, Segments, Offers
<1>3. Write => writes' \in 0 .. MaxWrites
  BY <1>1 DEF Write, ReportsAssumption
<1>4. ASSUME NEW items \in Plans
      PROVE  LET list == PlanBookingSegments(items, <<>>, 0)
             IN list \in Seq(Segments) /\ DOMAIN list # {} /\ Apart(list) /\ Dated(list, 0)
  <2>1. PICK list : list = PlanBookingSegments(items, <<>>, 0)
    OBVIOUS
  <2>2. \A v \in DOMAIN <<>> : <<>>[v] \in Segments
    OBVIOUS
  <2>3. list \in Seq(Segments) /\ DOMAIN list # {} /\ Apart(list) /\ \A k \in DOMAIN list : list[k].id[1] = 0
    BY <1>1, <2>1, <2>2, Planned DEF BooksTyped
  <2>4. Dated(list, 0)
    BY <2>3 DEF Dated
  <2> QED BY <2>1, <2>3, <2>4
<1> DEFINE Kept == DeskState' /\ Agreed
<1>5. ASSUME Create PROVE Kept /\ Write /\ UNCHANGED <<team, clock>>
  <2>1. PICK items \in Plans, t \in Starts, c \in Clients, st \in {"completed", "pending"} :
          Book([at |-> t, status |-> st, client |-> c, account |-> Null, edits |-> 0, segs |-> PlanBookingSegments(items, <<>>, 0)])
    BY <1>5 DEF Create
  <2>2. PICK list \in Seq(Segments) : list = PlanBookingSegments(items, <<>>, 0) /\ DOMAIN list # {} /\ Apart(list) /\ Dated(list, 0)
    BY <1>4
  <2>3. PICK a : a = [at |-> t, status |-> st, client |-> c, account |-> Null, edits |-> 0, segs |-> list]
    OBVIOUS
  <2>4. a \in Bookings /\ a.segs = list /\ a.edits = 0 /\ Book(a)
    BY <2>1, <2>2, <2>3 DEF Bookings, Statuses
  <2> QED BY <2>2, <2>4, BookKeeps DEF Book
<1>6. ASSUME CreateFromBookingFlow PROVE Kept /\ Write /\ UNCHANGED <<team, clock>>
  <2>1. PICK items \in Plans, t \in Starts, c \in Clients, acc \in Accounts \cup {Null} :
          Book([at |-> t, status |-> "confirmed", client |-> c, account |-> acc, edits |-> 0, segs |-> PlanBookingSegments(items, <<>>, 0)])
    BY <1>6 DEF CreateFromBookingFlow
  <2>2. PICK list \in Seq(Segments) : list = PlanBookingSegments(items, <<>>, 0) /\ DOMAIN list # {} /\ Apart(list) /\ Dated(list, 0)
    BY <1>4
  <2>3. PICK a : a = [at |-> t, status |-> "confirmed", client |-> c, account |-> acc, edits |-> 0, segs |-> list]
    OBVIOUS
  <2>4. a \in Bookings /\ a.segs = list /\ a.edits = 0 /\ Book(a)
    BY <2>1, <2>2, <2>3 DEF Bookings, Statuses
  <2> QED BY <2>2, <2>4, BookKeeps DEF Book
<1>7. ASSUME NEW h \in Handlers, EditBooking(h) PROVE Kept /\ Write /\ UNCHANGED <<team, clock>>
  <2>1. Write /\ UNCHANGED <<team, clock>>
    BY <1>7, Zenon DEF EditBooking, Put
  <2> QED BY <1>7, <2>1, EditKeeps
<1>8. ASSUME NEW h \in Handlers, SetSegmentPrices(h) PROVE Kept /\ Write /\ UNCHANGED <<team, clock>>
  BY <1>8, PriceKeeps DEF SetSegmentPrices, Put
<1>9. ASSUME NEW h \in Handlers, NEW i \in DOMAIN appts, UpdateStatus(h, i) PROVE Kept /\ Write /\ UNCHANGED <<team, clock>>
  <2>1. Write /\ UNCHANGED <<team, clock>>
    BY <1>9, Zenon DEF UpdateStatus, Put
  <2> QED BY <1>9, <2>1, StatusKeeps
<1>10. ASSUME NEW h \in Handlers, SaveSegments(h) PROVE Kept /\ UNCHANGED <<team, clock, writes>>
  BY <1>10, SaveKeeps DEF SaveSegments, Put
<1>11. ASSUME NEW h \in Handlers, NEW i \in DOMAIN appts, NEW op \in {"edit", "price"}, Read(h, op, i)
       PROVE  Kept /\ UNCHANGED <<team, clock, writes>>
  <2>1. PICK m \in Copies : Goto(h, m) /\ m.i = i /\ m.segs = appts[i].segs
    BY <1>1, <1>11, CopiesAre DEF Read, Hold
  <2> QED BY <1>11, <2>1, CopyKeeps DEF Read
<1>12. ASSUME NEW h \in Handlers, FindSegments(h) PROVE Kept /\ UNCHANGED <<team, clock, writes>>
  <2>1. PICK m \in Copies : Goto(h, m) /\ m.i \in DOMAIN appts /\ m.segs = appts[m.i].segs
    BY <1>1, <1>12, CopiesAre DEF FindSegments, Hold
  <2> QED BY <1>12, <2>1, CopyKeeps DEF FindSegments
<1>13. ASSUME NEW h \in Handlers, Stop(h) PROVE Kept /\ UNCHANGED <<team, clock, writes>>
  BY <1>1, <1>13, CopiesAre, CopyKeeps DEF Stop, Leave
<1>14. ASSUME NEW i \in DOMAIN appts, Remove(i) PROVE Kept /\ Write /\ UNCHANGED <<team, clock>>
  <2>1. appts' = [j \in DOMAIN appts \ {i} |-> appts[j]] /\ catalogue' = catalogue /\ copies' = copies
    BY <1>14 DEF Remove
  <2>2. DOMAIN appts' = DOMAIN appts \ {i} /\ \A j \in DOMAIN appts' : appts'[j] = appts[j]
    BY <2>1
  <2>3. BooksTyped' /\ CopiesTyped' /\ Worked'
    BY <2>1, <2>2 DEF DeskState, BooksTyped, CopiesTyped, Worked
  <2>4. RowsKnown'
    BY <2>1, <2>2 DEF DeskState, RowsKnown, Apart, Dated, Alike
  <2>5. Agreed
    BY <2>2, UnwrittenStands
  <2> QED BY <1>14, <2>3, <2>4, <2>5 DEF Remove, DeskState
<1>15. ASSUME appts' = appts, copies' = copies, catalogue' \in [Services -> Offers] PROVE Kept
  <2>1. BooksTyped' /\ CopiesTyped' /\ Worked'
    BY <1>15 DEF DeskState, BooksTyped, CopiesTyped, Worked
  <2>2. RowsKnown'
    BY <1>15 DEF DeskState, RowsKnown, Apart, Dated, Alike
  <2>3. Agreed
    BY <1>15, UnwrittenStands
  <2> QED BY <2>1, <2>2, <2>3 DEF DeskState
<1>16. ASSUME NEW v \in Services, UpdateService(v) PROVE Kept /\ Write /\ UNCHANGED <<team, clock>>
  <2>1. PICK o \in Offers : catalogue' = [catalogue EXCEPT ![v] = o]
    BY <1>16 DEF UpdateService, Offers
  <2>2. catalogue' \in [Services -> Offers]
    BY <1>1, <2>1 DEF BooksTyped
  <2> QED BY <1>15, <1>16, <2>2 DEF UpdateService
<1>17. ASSUME NEW p \in Staff, UpdateStaff(p)
       PROVE  Kept /\ Write /\ clock' = clock /\ team' \in [Staff -> [rate : Rates, former : BOOLEAN]]
  <2>1. PICK r \in [rate : Rates, former : BOOLEAN] : team' = [team EXCEPT ![p] = r]
    BY <1>17 DEF UpdateStaff
  <2>2. Kept
    BY <1>1, <1>15, <1>17 DEF UpdateStaff, BooksTyped
  <2> HIDE DEF Kept
  <2> QED BY <1>1, <1>17, <2>1, <2>2 DEF UpdateStaff
<1>18. ASSUME Tick PROVE Kept /\ UNCHANGED <<team, writes>> /\ clock' \in FirstNow .. MaxNow
  <2>1. Kept
    BY <1>1, <1>15, <1>18 DEF Tick, BooksTyped
  <2>2. clock' \in FirstNow .. MaxNow
    BY <1>1, <1>18 DEF Tick, ReportsAssumption
  <2> HIDE DEF Kept
  <2> QED BY <1>18, <2>1, <2>2 DEF Tick
<1>19. ASSUME UNCHANGED vars PROVE Kept /\ UNCHANGED <<team, clock, writes>>
  BY <1>1, <1>15, <1>19 DEF vars, BooksTyped
<1> HIDE DEF Kept
<1>20. Kept /\ team' \in [Staff -> [rate : Rates, former : BOOLEAN]] /\ clock' \in FirstNow .. MaxNow /\ writes' \in 0 .. MaxWrites
  BY <1>1, <1>3, <1>5, <1>6, <1>7, <1>8, <1>9, <1>10, <1>11, <1>12, <1>13, <1>14, <1>16, <1>17, <1>18, <1>19 DEF Next
<1> QED BY <1>2, <1>20 DEF Kept

\* A business begins with its catalogue, no appointments and nobody at the desk.
LEMMA DeskStart == ReportsAssumption /\ Init => TypeOK /\ DeskState
<1> SUFFICES ASSUME ReportsAssumption, Init PROVE TypeOK /\ DeskState
  OBVIOUS
<1>1. appts = <<>> /\ DOMAIN appts = {}
  BY DEF Init
<1>2. catalogue \in [Services -> Offers]
  BY DEF Init, ReportsAssumption, Services, Offers
<1>3. BooksTyped /\ Worked
  BY <1>1, <1>2 DEF BooksTyped, Worked
<1>4. copies = [h \in Handlers |-> Idle] /\ Idle \in Copies /\ Idle.segs = <<>>
  BY <1>3, CopiesAre DEF Init
<1>5. CopiesTyped /\ \A h \in Handlers : copies[h].segs = <<>>
  BY <1>4 DEF CopiesTyped
<1>6. RowsKnown
  BY <1>1, <1>5 DEF RowsKnown, Apart, Alike
<1>7. team \in [Staff -> [rate : Rates, former : BOOLEAN]]
  BY DEF Init, ReportsAssumption
<1>8. clock \in FirstNow .. MaxNow /\ writes \in 0 .. MaxWrites
  BY DEF Init, ReportsAssumption
<1> QED BY <1>3, <1>5, <1>6, <1>7, <1>8, TypeIs DEF DeskState

-----------------------------------------------------------------------------
(* What the reports say *)

\* A sum takes in all of the function.
LEMMA SumOver == \A f : SumFunction(f) = SumFunctionOnSet(f, DOMAIN f)
BY Zenon DEF SumFunction

\* The day of an instant is the one whose midnight has come and whose next has not.
LEMMA DayFrom ==
  ASSUME ReportsAssumption, NEW t \in Int, NEW d \in Int
  PROVE  Day(t) \in Int /\ (Midnight(d) <= t <=> d <= Day(t))
<1>1. DayLength \in Nat \ {0} /\ Zone \in Nat
  BY DEF ReportsAssumption
<1>2. PICK n, q, m : n = t - Zone /\ q = n \div DayLength /\ m = n % DayLength
  OBVIOUS
<1>3. n \in Int /\ q \in Int /\ m \in 0 .. DayLength - 1 /\ n = DayLength * q + m
  BY <1>1, <1>2
<1>4. d <= q => d * DayLength <= n
  <2>1. SUFFICES ASSUME d <= q PROVE d * DayLength <= n
    OBVIOUS
  <2>2. (q - d) * DayLength >= 0
    BY <1>1, <1>3, <2>1
  <2> QED BY <1>1, <1>3, <2>2
<1>5. d > q => d * DayLength > n
  <2>1. SUFFICES ASSUME d > q PROVE d * DayLength > n
    OBVIOUS
  <2>2. (d - q - 1) * DayLength >= 0
    BY <1>1, <1>3, <2>1
  <2> QED BY <1>1, <1>3, <2>2
<1> QED BY <1>1, <1>2, <1>3, <1>4, <1>5 DEF Day, Midnight

-----------------------------------------------------------------------------
\* What the reports count on.
Ready ==
  /\ ReportsAssumption /\ CalendarAssumption
  /\ BooksTyped /\ Worked /\ clock \in FirstNow .. MaxNow

AllRows == RowsOf(DOMAIN appts)
PriceOf == [x \in AllRows |-> IF At(x).price = Null THEN 0 ELSE At(x).price]
StaffOf == [x \in AllRows |-> At(x).staff]
CurrencyOf == [x \in AllRows |-> At(x).cur]
OfferOf == [x \in AllRows |-> <<At(x).service, At(x).cur>>]

\* A row is an appointment and the place of a segment of it.
LEMMA RowIs ==
  ASSUME NEW ids \in SUBSET DOMAIN appts
  PROVE  /\ RowsOf(ids) \subseteq AllRows
         /\ \A x \in RowsOf(ids) : x[1] \in ids /\ x[2] \in DOMAIN appts[x[1]].segs /\ x = <<x[1], x[2]>>
         /\ \A i \in ids : \A k \in DOMAIN appts[i].segs :
              <<i, k>> \in RowsOf(ids) /\ <<i, k>>[1] = i /\ <<i, k>>[2] = k
BY DEF RowsOf, AllRows

\* What a row says.
LEMMA RowSays ==
  ASSUME Ready, NEW x \in AllRows
  PROVE  /\ x[1] \in DOMAIN appts /\ appts[x[1]] \in Bookings /\ At(x) \in Segments
         /\ PriceOf[x] \in Int /\ StaffOf[x] = At(x).staff /\ StaffOf[x] \in Staff
         /\ CurrencyOf[x] = At(x).cur /\ CurrencyOf[x] \in Currencies
         /\ PriceOf[x] = IF At(x).price = Null THEN 0 ELSE At(x).price
<1>1. x[1] \in DOMAIN appts /\ x[2] \in DOMAIN appts[x[1]].segs
  BY RowIs DEF AllRows
<1>2. appts[x[1]] \in Bookings
  BY <1>1 DEF Ready, BooksTyped
<1>3. appts[x[1]].segs \in Seq(Segments)
  BY <1>2 DEF Bookings
<1>4. At(x) \in Segments
  BY <1>1, <1>3 DEF At
<1>5. At(x).price \in Int \cup {Null} /\ At(x).staff \in Staff /\ At(x).cur \in Currencies
  BY <1>4 DEF Segments, Ready, ReportsAssumption
<1>6. /\ PriceOf[x] = IF At(x).price = Null THEN 0 ELSE At(x).price
      /\ StaffOf[x] = At(x).staff /\ CurrencyOf[x] = At(x).cur
  BY Zenon DEF PriceOf, StaffOf, CurrencyOf
<1>7. PriceOf[x] \in Int
  BY <1>5, <1>6
<1> QED BY <1>1, <1>2, <1>4, <1>5, <1>6, <1>7

\* There are finitely many rows.
LEMMA RowsFinite ==
  ASSUME Ready
  PROVE  IsFiniteSet(DOMAIN appts) /\ IsFiniteSet(AllRows) /\ IsFiniteSet(Staff)
<1>1. IsFiniteSet(DOMAIN appts)
  <2>1. MaxAppts \in Int
    BY DEF Ready, ReportsAssumption
  <2>2. IsFiniteSet(1 .. MaxAppts)
    BY <2>1, FS_Interval
  <2>3. DOMAIN appts \in SUBSET (1 .. MaxAppts)
    BY DEF Ready, BooksTyped
  <2> QED BY <2>2, <2>3, FS_Subset
<1>2. ASSUME NEW i \in DOMAIN appts PROVE IsFiniteSet({i} \X DOMAIN appts[i].segs)
  <2>1. appts[i].segs \in Seq(Segments)
    BY DEF Ready, BooksTyped, Bookings
  <2>2. DOMAIN appts[i].segs = 1 .. Len(appts[i].segs) /\ 1 \in Int /\ Len(appts[i].segs) \in Int
    BY <2>1
  <2>3. IsFiniteSet(DOMAIN appts[i].segs)
    BY <2>2, FS_Interval
  <2> QED BY <2>3, FS_Singleton, FS_Product
<1> DEFINE f == [i \in DOMAIN appts |-> {i} \X DOMAIN appts[i].segs]
<1>3. IsFiniteSet({f[i] : i \in DOMAIN appts})
  <2>1. DOMAIN f = DOMAIN appts
    OBVIOUS
  <2> HIDE DEF f
  <2> QED BY <1>1, <2>1, ImageFinite
<1>4. AllRows = UNION {f[i] : i \in DOMAIN appts}
  BY DEF AllRows, RowsOf
<1>5. \A T \in {f[i] : i \in DOMAIN appts} : IsFiniteSet(T)
  BY <1>2
<1>6. IsFiniteSet(AllRows)
  BY <1>3, <1>4, <1>5, FS_UNION
<1>7. IsFiniteSet(Staff)
  BY SumOver DEF Ready, ReportsAssumption
<1> QED BY <1>1, <1>6, <1>7

\* An amount is the sum of what the rows cost.
LEMMA AmountIs ==
  ASSUME Ready, NEW Q \in SUBSET AllRows
  PROVE  IsFiniteSet(Q) /\ Amount(Q) = SumFunctionOnSet(PriceOf, Q)
<1>1. IsFiniteSet(Q)
  BY RowsFinite, FS_Subset
<1> DEFINE f == [x \in Q |-> IF At(x).price = Null THEN 0 ELSE At(x).price]
<1>2. Amount(Q) = SumFunctionOnSet(f, DOMAIN f)
  BY SumOver DEF Amount
<1>3. DOMAIN f = Q /\ \A x \in Q : f[x] = PriceOf[x]
  BY Zenon DEF PriceOf
<1> HIDE DEF f
<1> QED BY <1>1, <1>2, <1>3, SumSame

\* The money of a table by currency, where it has the currency and where it has not.
LEMMA MoneyIs ==
  ASSUME Ready, NEW Q \in SUBSET AllRows, NEW c, NEW table, DOMAIN table = CurrenciesOf(Q),
         \A k \in DOMAIN table : table[k].amount = Amount(InCurrency(Q, k))
  PROVE  MoneyOf(table, c) = SumFunctionOnSet(PriceOf, InCurrency(Q, c))
<1>1. CASE c \in DOMAIN table
  BY <1>1, AmountIs DEF MoneyOf, InCurrency
<1>2. CASE c \notin DOMAIN table
  <2>1. InCurrency(Q, c) = {}
    BY <1>2 DEF InCurrency, CurrenciesOf
  <2> QED BY <1>2, <2>1, SumNone DEF MoneyOf
<1> QED BY <1>1, <1>2

\* The same of the three tables there are.
LEMMA MoneyOfTables ==
  ASSUME Ready, NEW Q \in SUBSET AllRows, NEW c, NEW rate
  PROVE  /\ MoneyOf(RevenueByCurrency(Q), c) = SumFunctionOnSet(PriceOf, InCurrency(Q, c))
         /\ MoneyOf(CurrencyEarnings(Q, rate), c) = SumFunctionOnSet(PriceOf, InCurrency(Q, c))
         /\ MoneyOf(Takings(Q), c) = SumFunctionOnSet(PriceOf, InCurrency(Q, c))
<1>1. PICK revenue, earnings, takings :
        /\ revenue = RevenueByCurrency(Q) /\ earnings = CurrencyEarnings(Q, rate) /\ takings = Takings(Q)
  OBVIOUS
<1>2. /\ DOMAIN revenue = CurrenciesOf(Q)
      /\ \A k \in DOMAIN revenue : revenue[k].amount = Amount(InCurrency(Q, k))
  BY <1>1, Zenon DEF RevenueByCurrency
<1>3. /\ DOMAIN earnings = CurrenciesOf(Q)
      /\ \A k \in DOMAIN earnings : earnings[k].amount = Amount(InCurrency(Q, k))
  BY <1>1, <1>2, Zenon DEF CurrencyEarnings
<1>4. /\ DOMAIN takings = CurrenciesOf(Q)
      /\ \A k \in DOMAIN takings : takings[k].amount = Amount(InCurrency(Q, k))
  BY <1>1, Zenon DEF Takings
<1> QED BY <1>1, <1>2, <1>3, <1>4, MoneyIs

-----------------------------------------------------------------------------
\* A day is of one month.
LEMMA MonthIs ==
  ASSUME CalendarAssumption, NEW d \in Int, NEW m \in 1 .. Len(FirstDay) - 1,
         FirstDay[m] <= d, d < FirstDay[m + 1]
  PROVE  Month(d) = m
<1>1. FirstDay \in Seq(Int) /\ \A k, n \in DOMAIN FirstDay : k < n => FirstDay[k] < FirstDay[n]
  BY DEF CalendarAssumption
<1>2. PICK last \in Nat : last = Len(FirstDay) /\ DOMAIN FirstDay = 1 .. last /\ \A k \in 1 .. last : FirstDay[k] \in Int
  BY <1>1
<1>3. ASSUME NEW k \in 1 .. last - 1, NEW n \in 1 .. last - 1, k < n PROVE FirstDay[k + 1] <= FirstDay[n]
  <2>1. k + 1 \in 1 .. last /\ n \in 1 .. last /\ (k + 1 = n \/ k + 1 < n)
    BY <1>2, <1>3
  <2>2. k + 1 < n => FirstDay[k + 1] < FirstDay[n]
    BY <1>1, <1>2, <2>1
  <2>3. FirstDay[k + 1] \in Int /\ FirstDay[n] \in Int
    BY <1>2, <2>1
  <2> QED BY <2>1, <2>2, <2>3
<1>4. PICK n \in 1 .. last - 1 : n = Month(d) /\ FirstDay[n] <= d /\ d < FirstDay[n + 1]
  BY <1>2 DEF Month
<1>5. n + 1 \in 1 .. last /\ m + 1 \in 1 .. last /\ n \in 1 .. last /\ m \in 1 .. last
  BY <1>2, <1>4
<1>6. ~(m < n) /\ ~(n < m)
  <2>1. m < n => FirstDay[m + 1] <= FirstDay[n]
    BY <1>2, <1>3
  <2>2. n < m => FirstDay[n + 1] <= FirstDay[m]
    BY <1>2, <1>3
  <2> QED BY <1>2, <1>4, <1>5, <2>1, <2>2
<1> QED BY <1>2, <1>4, <1>6

\* Today is of a month that has one before.
LEMMA ThisMonth ==
  ASSUME Ready
  PROVE  /\ Today \in Int /\ Month(Today) \in 2 .. Len(FirstDay) - 1
         /\ \A m \in 1 .. Len(FirstDay) : FirstDay[m] \in Int
         /\ \A m \in 1 .. Len(FirstDay) - 1 : m + 1 \in 1 .. Len(FirstDay) /\ FirstDay[m] < FirstDay[m + 1]
         /\ \A m \in 1 .. Len(FirstDay) - 1 : Month(FirstDay[m]) = m
<1>1. clock \in Int /\ Today \in Int
  <2>1. clock \in Int
    BY DEF Ready, ReportsAssumption
  <2>2. Day(clock) \in Int
    BY <2>1, DayFrom, 0 \in Int DEF Ready
  <2> QED BY <2>1, <2>2 DEF Today
<1>2. FirstDay \in Seq(Int) /\ \A k, n \in DOMAIN FirstDay : k < n => FirstDay[k] < FirstDay[n]
  BY DEF Ready, CalendarAssumption
<1>3. PICK last \in Nat : last = Len(FirstDay) /\ DOMAIN FirstDay = 1 .. last /\ \A k \in 1 .. last : FirstDay[k] \in Int
  BY <1>2
<1>4. PICK m \in 2 .. last - 1 : Midnight(FirstDay[m]) <= clock /\ clock < Midnight(FirstDay[m + 1])
  BY <1>3 DEF Ready, CalendarAssumption
<1>5. m \in 1 .. last - 1 /\ FirstDay[m] \in Int /\ FirstDay[m + 1] \in Int
  <2>1. m \in 1 .. last /\ m + 1 \in 1 .. last
    BY <1>3, <1>4
  <2> QED BY <1>3, <1>4, <2>1
<1>6. Midnight(FirstDay[m + 1]) \in Int
  BY <1>5 DEF Midnight, Ready, ReportsAssumption
<1>7. FirstDay[m] <= Today /\ ~(FirstDay[m + 1] <= Today)
  <2>1. ~(Midnight(FirstDay[m + 1]) <= clock)
    BY <1>1, <1>4, <1>6
  <2> QED BY <1>1, <1>4, <1>5, <2>1, DayFrom DEF Ready, Today
<1>8. Month(Today) = m
  BY <1>1, <1>3, <1>5, <1>7, MonthIs DEF Ready
<1>9. ASSUME NEW k \in 1 .. last - 1
      PROVE  k + 1 \in 1 .. last /\ FirstDay[k] < FirstDay[k + 1] /\ Month(FirstDay[k]) = k
  <2>1. k \in 1 .. last /\ k + 1 \in 1 .. last /\ k < k + 1
    BY <1>3
  <2>2. FirstDay[k] \in Int /\ FirstDay[k + 1] \in Int /\ FirstDay[k] < FirstDay[k + 1]
    BY <1>2, <1>3, <2>1
  <2>3. FirstDay[k] <= FirstDay[k]
    BY <2>2
  <2> QED BY <1>3, <2>1, <2>2, <2>3, MonthIs DEF Ready
<1> QED BY <1>1, <1>3, <1>4, <1>8, <1>9

\* The three presets begin and end on a day, and so does what each is compared with: the day before.
LEMMA PresetIs ==
  ASSUME Ready, NEW q \in Presets
  PROVE  \E from, to, before \in Int :
           /\ from <= to /\ ResolveDays(q, Today) = BuildRange(from, to)
           /\ PreviousReportRange(BuildRange(from, to), q) = BuildRange(before, from - 1)
<1> DEFINE Good(r) == \E from, to, before \in Int :
             r = BuildRange(from, to) /\ from <= to /\ PreviousReportRange(r, q) = BuildRange(before, from - 1)
<1>1. ASSUME q # "month", NEW from \in Int, NEW to \in Int, from <= to PROVE Good(BuildRange(from, to))
  <2>1. BuildRange(from, to).from = from /\ BuildRange(from, to).to = to
    BY DEF BuildRange
  <2>2. from - (to - from + 1) \in Int
    OBVIOUS
  <2>3. PreviousReportRange(BuildRange(from, to), q) = BuildRange(from - (to - from + 1), from - 1)
    BY <1>1, <2>1 DEF PreviousReportRange, DayCount
  <2> QED BY <1>1, <2>2, <2>3
<1>2. Today \in Int
  BY ThisMonth
<1>3. CASE q = "today"
  <2>1. ResolveDays(q, Today) = BuildRange(Today, Today)
    BY <1>3 DEF ResolveDays
  <2>2. q # "month" /\ Today <= Today
    BY <1>2, <1>3
  <2>3. Good(BuildRange(Today, Today))
    <3> HIDE DEF Good
    <3> QED BY <1>1, <1>2, <2>2
  <2> QED BY <2>1, <2>3
<1>4. CASE q = "week"
  <2>1. PICK monday : monday = Today - (Today % Week)
    OBVIOUS
  <2>2. ResolveDays(q, Today) = BuildRange(monday, monday + Week - 1)
    BY <1>4, <2>1 DEF ResolveDays
  <2>3. Week \in Nat \ {0}
    BY DEF Ready, ReportsAssumption
  <2>4. monday \in Int /\ monday + Week - 1 \in Int /\ monday <= monday + Week - 1
    BY <1>2, <2>1, <2>3
  <2>5. Good(BuildRange(monday, monday + Week - 1))
    BY <1>1, <1>4, <2>4
  <2> QED BY <2>2, <2>5
<1>5. CASE q = "month"
  <2>1. PICK m : m = Month(Today)
    OBVIOUS
  <2>2. PICK last \in Nat : last = Len(FirstDay)
    BY DEF Ready, CalendarAssumption
  <2>3. m \in 2 .. last - 1 /\ m \in 1 .. last - 1 /\ m - 1 \in 1 .. last - 1 /\ m - 1 + 1 = m
    BY <2>1, <2>2, ThisMonth
  <2>4. PICK a, b, z \in Int : a = FirstDay[m] /\ b = FirstDay[m + 1] /\ z = FirstDay[m - 1]
    <3>1. m \in 1 .. last /\ m + 1 \in 1 .. last /\ m - 1 \in 1 .. last
      BY <2>3
    <3> QED BY <2>2, <3>1, ThisMonth
  <2>5. a < b /\ Month(a) = m
    BY <2>2, <2>3, <2>4, ThisMonth
  <2>6. ResolveDays(q, Today) = BuildRange(a, b - 1)
    BY <1>5, <2>1, <2>4 DEF ResolveDays, MonthRange
  <2>7. BuildRange(a, b - 1).from = a
    BY DEF BuildRange
  <2>8. PreviousReportRange(BuildRange(a, b - 1), q) = BuildRange(z, a - 1)
    BY <1>5, <2>3, <2>4, <2>5, <2>7 DEF PreviousReportRange, MonthRange
  <2>9. b - 1 \in Int /\ a <= b - 1
    BY <2>5
  <2> QED BY <2>6, <2>8, <2>9
<1> QED BY <1>3, <1>4, <1>5 DEF Presets

\* Every period is of whole days.
LEMMA PeriodIs ==
  ASSUME Ready, NEW r \in ReportRanges
  PROVE  r.from \in Int /\ r.to \in Int /\ r.from <= r.to /\ r = BuildRange(r.from, r.to)
<1>1. PICK from \in Int, to \in Int : from <= to /\ r = BuildRange(from, to)
  <2>1. CASE r \in Custom
    <3>1. PICK d \in Days \X Days : d[1] <= d[2] /\ r = BuildRange(d[1], d[2])
      BY <2>1 DEF Custom
    <3>2. d[1] \in Int /\ d[2] \in Int
      BY DEF Ready, CalendarAssumption
    <3> QED BY <3>1, <3>2
  <2>2. CASE r \in {ResolveDays(q, Today) : q \in Presets}
    BY <2>2, PresetIs
  <2> QED BY <2>1, <2>2 DEF ReportRanges
<1>2. BuildRange(from, to).from = from /\ BuildRange(from, to).to = to
  BY DEF BuildRange
<1> QED BY <1>1, <1>2

\* An appointment is of a period when its day is.
LEMMA InPeriod ==
  ASSUME Ready, NEW from \in Int, NEW to \in Int
  PROVE  /\ AppointmentsInRange(BuildRange(from, to)) =
              {i \in DOMAIN appts : from <= Day(appts[i].at) /\ Day(appts[i].at) <= to}
         /\ \A i \in DOMAIN appts : appts[i].at \in Int /\ Day(appts[i].at) \in Int
<1>1. ASSUME NEW i \in DOMAIN appts PROVE appts[i].at \in Int /\ Day(appts[i].at) \in Int
  <2>1. appts[i].at \in Int
    BY DEF Ready, BooksTyped, Bookings, CalendarAssumption
  <2>2. Day(appts[i].at) \in Int
    BY <2>1, DayFrom, 0 \in Int DEF Ready
  <2> QED BY <2>1, <2>2
<1>2. BuildRange(from, to).start = Midnight(from) /\ BuildRange(from, to).end = Midnight(to + 1)
  BY DEF BuildRange
<1>3. to + 1 \in Int /\ Midnight(to + 1) \in Int
  BY DEF Midnight, Ready, ReportsAssumption
<1>4. ASSUME NEW i \in DOMAIN appts
      PROVE  (Midnight(from) <= appts[i].at /\ appts[i].at < Midnight(to + 1))
               <=> (from <= Day(appts[i].at) /\ Day(appts[i].at) <= to)
  <2>1. Midnight(from) <= appts[i].at <=> from <= Day(appts[i].at)
    BY <1>1, DayFrom DEF Ready
  <2>2. Midnight(to + 1) <= appts[i].at <=> to + 1 <= Day(appts[i].at)
    BY <1>1, <1>3, DayFrom DEF Ready
  <2> QED BY <1>1, <1>3, <2>1, <2>2
<1> QED BY <1>1, <1>2, <1>4 DEF AppointmentsInRange

-----------------------------------------------------------------------------
\* What the rows of each group cost adds up to what they all cost ...
LEMMA Grouped ==
  ASSUME Ready, NEW S \in SUBSET AllRows, NEW K, IsFiniteSet(K), NEW key, \A x \in S : key[x] \in K,
         NEW f, DOMAIN f = K, \A k \in K : f[k] = SumFunctionOnSet(PriceOf, {x \in S : key[x] = k})
  PROVE  SumFunction(f) = SumFunctionOnSet(PriceOf, S)
<1>1. IsFiniteSet(S) /\ \A x \in S : PriceOf[x] \in Int
  BY AmountIs, RowSays
<1> DEFINE g == [k \in K |-> SumFunctionOnSet(PriceOf, {x \in S : key[x] = k})]
<1>2. SumFunctionOnSet(PriceOf, S) = SumFunctionOnSet(g, K)
  BY <1>1, SumGroups
<1>3. \A k \in K : f[k] = g[k]
  OBVIOUS
<1> HIDE DEF g
<1>4. SumFunctionOnSet(f, K) = SumFunctionOnSet(g, K)
  BY <1>3, SumSame
<1> QED BY <1>2, <1>4, SumOver

\* ... and their number to how many they all are.
LEMMA Counted ==
  ASSUME NEW S, IsFiniteSet(S), NEW K, IsFiniteSet(K), NEW key, \A x \in S : key[x] \in K,
         NEW f, DOMAIN f = K, \A k \in K : f[k] = Cardinality({x \in S : key[x] = k})
  PROVE  SumFunction(f) = Cardinality(S)
<1> DEFINE g == [k \in K |-> Cardinality({x \in S : key[x] = k})]
<1>1. Cardinality(S) = SumFunctionOnSet(g, K)
  BY CountGroups
<1>2. \A k \in K : f[k] = g[k]
  BY SumOver
<1> HIDE DEF g
<1>3. SumFunctionOnSet(f, K) = SumFunctionOnSet(g, K)
  BY <1>2, SumSame
<1> QED BY <1>1, <1>3, SumOver

Attended(r) == {i \in AppointmentsInRange(r) : appts[i].status = "completed"}

\* What is billed of a period is every row of what was attended in it.
LEMMA BilledIs ==
  ASSUME Ready, NEW r
  PROVE  /\ BilledSegments(r) \in SUBSET AllRows /\ IsFiniteSet(BilledSegments(r))
         /\ Attended(r) \subseteq DOMAIN appts /\ IsFiniteSet(Attended(r))
         /\ \A x \in BilledSegments(r) : x[1] \in Attended(r)
         /\ \A i \in Attended(r) : DOMAIN appts[i].segs # {}
         /\ \A i \in Attended(r) : \A k \in DOMAIN appts[i].segs :
              <<i, k>> \in BilledSegments(r) /\ <<i, k>>[1] = i /\ <<i, k>>[2] = k
<1>1. Attended(r) \in SUBSET DOMAIN appts /\ BilledSegments(r) = RowsOf(Attended(r))
  BY DEF Attended, AppointmentsInRange, BilledSegments
<1>2. IsFiniteSet(Attended(r))
  BY <1>1, RowsFinite, FS_Subset
<1>3. BilledSegments(r) \in SUBSET AllRows
  BY <1>1, RowIs
<1>4. IsFiniteSet(BilledSegments(r))
  BY <1>3, RowsFinite, FS_Subset
<1>5. \A i \in Attended(r) : DOMAIN appts[i].segs # {}
  BY <1>1 DEF Ready, Worked
<1> QED BY <1>1, <1>2, <1>3, <1>4, <1>5, RowIs

\* What a professional is shown of themselves is their part of it.
LEMMA OwnIs ==
  ASSUME Ready, NEW r, NEW p \in Staff
  PROVE  /\ BilledSegmentsForStaff(p, r) = {x \in BilledSegments(r) : StaffOf[x] = p}
         /\ BilledSegmentsForStaff(p, r) = {x \in BilledSegments(r) : At(x).staff = p}
         /\ StaffTimeline(p, r) = BuildReportTimeline(r, BilledSegmentsForStaff(p, r))
         /\ StaffServiceRanking(p, r) = ServiceRanking(BilledSegmentsForStaff(p, r))
         /\ StaffSummary(p, r).earnings = CurrencyEarnings(BilledSegmentsForStaff(p, r), team[p].rate)
         /\ StaffSummary(p, r).services = Cardinality(BilledSegmentsForStaff(p, r))
<1>1. BilledSegmentsForStaff(p, r) = {x \in BilledSegments(r) : At(x).staff = p}
  BY DEF BilledSegmentsForStaff, At
<1>2. \A x \in BilledSegments(r) : StaffOf[x] = At(x).staff
  BY BilledIs, RowSays
<1>3. /\ StaffSummary(p, r).earnings = CurrencyEarnings(BilledSegmentsForStaff(p, r), team[p].rate)
      /\ StaffSummary(p, r).services = Cardinality(BilledSegmentsForStaff(p, r))
  BY Zenon DEF StaffSummary
<1> QED BY <1>1, <1>2, <1>3 DEF StaffTimeline, StaffServiceRanking

\* The money of the team is the money of each of its members.
LEMMA MoneyByStaff ==
  ASSUME Ready, NEW Q \in SUBSET AllRows, NEW K, IsFiniteSet(K), \A x \in Q : StaffOf[x] \in K, NEW c,
         NEW f, DOMAIN f = K,
         \A p \in K : f[p] = SumFunctionOnSet(PriceOf, InCurrency({x \in Q : StaffOf[x] = p}, c))
  PROVE  SumFunction(f) = SumFunctionOnSet(PriceOf, InCurrency(Q, c))
<1> DEFINE S == InCurrency(Q, c)
<1>1. S \in SUBSET AllRows /\ \A x \in S : StaffOf[x] \in K
  BY DEF InCurrency
<1>2. \A p \in K : {x \in S : StaffOf[x] = p} = InCurrency({x \in Q : StaffOf[x] = p}, c)
  BY DEF InCurrency
<1> HIDE DEF S
<1>3. \A p \in K : f[p] = SumFunctionOnSet(PriceOf, {x \in S : StaffOf[x] = p})
  BY <1>2
<1>4. SumFunction(f) = SumFunctionOnSet(PriceOf, S)
  BY <1>1, <1>3, Grouped
<1> QED BY <1>4 DEF S

\* The money of the summary is what the billed rows cost.
LEMMA SummaryIs ==
  ASSUME Ready, NEW r, NEW c
  PROVE  MoneyOf(Summary(r).revenue, c) = SumFunctionOnSet(PriceOf, InCurrency(BilledSegments(r), c))
<1>1. Summary(r).revenue = RevenueByCurrency(BilledSegments(r))
  BY DEF Summary
<1> QED BY <1>1, BilledIs, MoneyOfTables

\* The ranking names who worked, with what each earned.
LEMMA RankingIs ==
  ASSUME Ready, NEW r
  PROVE  /\ DOMAIN StaffRanking(r) = {StaffOf[x] : x \in BilledSegments(r)}
         /\ DOMAIN StaffRanking(r) \in SUBSET Staff /\ IsFiniteSet(DOMAIN StaffRanking(r))
         /\ \A p \in DOMAIN StaffRanking(r) :
              StaffRanking(r)[p].earnings = CurrencyEarnings(BilledSegmentsForStaff(p, r), team[p].rate)
<1>1. \A x \in BilledSegments(r) : x \in AllRows /\ StaffOf[x] = At(x).staff /\ StaffOf[x] \in Staff
  BY BilledIs, RowSays
<1>2. DOMAIN StaffRanking(r) = {At(x).staff : x \in BilledSegments(r)}
  BY Zenon DEF StaffRanking
<1>3. DOMAIN StaffRanking(r) = {StaffOf[x] : x \in BilledSegments(r)}
  BY <1>1, <1>2
<1>4. DOMAIN StaffRanking(r) \in SUBSET Staff
  BY <1>1, <1>3
<1>5. ASSUME NEW p \in DOMAIN StaffRanking(r)
      PROVE  StaffRanking(r)[p].earnings = CurrencyEarnings(BilledSegmentsForStaff(p, r), team[p].rate)
  <2>1. PICK billed : billed = {x \in BilledSegments(r) : At(x).staff = p}
    OBVIOUS
  <2>2. StaffRanking(r)[p].earnings = CurrencyEarnings(billed, team[p].rate)
    BY <1>2, <1>5, <2>1, Zenon DEF StaffRanking
  <2>3. BilledSegmentsForStaff(p, r) = billed
    BY <1>4, <2>1, OwnIs
  <2> QED BY <2>2, <2>3
<1> QED BY <1>3, <1>4, <1>5, RowsFinite, FS_Subset

\* The summary, the ranking and what each is shown tell the same money.
LEMMA TeamAddsUp ==
  ASSUME Ready, NEW r, NEW c
  PROVE  /\ MoneyOf(Summary(r).revenue, c)
              = SumFunction([p \in DOMAIN StaffRanking(r) |-> MoneyOf(StaffRanking(r)[p].earnings, c)])
         /\ MoneyOf(Summary(r).revenue, c)
              = SumFunction([p \in Staff |-> MoneyOf(StaffSummary(p, r).earnings, c)])
<1>1. PICK billed : billed = BilledSegments(r)
  OBVIOUS
<1>2. billed \in SUBSET AllRows /\ \A x \in billed : StaffOf[x] \in Staff
  BY <1>1, BilledIs, RowSays
<1>3. ASSUME NEW p \in Staff
      PROVE  MoneyOf(CurrencyEarnings(BilledSegmentsForStaff(p, r), team[p].rate), c)
               = SumFunctionOnSet(PriceOf, InCurrency({x \in billed : StaffOf[x] = p}, c))
  <2>1. PICK mine : mine = {x \in billed : StaffOf[x] = p}
    OBVIOUS
  <2>2. mine \in SUBSET AllRows /\ mine = BilledSegmentsForStaff(p, r)
    BY <1>1, <1>2, <2>1, OwnIs
  <2> QED BY <2>1, <2>2, MoneyOfTables
<1>4. PICK f : f = [p \in DOMAIN StaffRanking(r) |-> MoneyOf(StaffRanking(r)[p].earnings, c)]
  OBVIOUS
<1>5. SumFunction(f) = SumFunctionOnSet(PriceOf, InCurrency(billed, c))
  <2>1. PICK K : K = DOMAIN StaffRanking(r)
    OBVIOUS
  <2>2. IsFiniteSet(K) /\ K \in SUBSET Staff /\ \A x \in billed : StaffOf[x] \in K
    BY <1>1, <2>1, RankingIs
  <2>3. DOMAIN f = K /\ \A p \in K : f[p] = SumFunctionOnSet(PriceOf, InCurrency({x \in billed : StaffOf[x] = p}, c))
    BY <1>3, <1>4, <2>1, <2>2, RankingIs
  <2> QED BY <1>2, <2>2, <2>3, MoneyByStaff
<1>6. PICK g : g = [p \in Staff |-> MoneyOf(StaffSummary(p, r).earnings, c)]
  OBVIOUS
<1>7. SumFunction(g) = SumFunctionOnSet(PriceOf, InCurrency(billed, c))
  <2>1. DOMAIN g = Staff /\ \A p \in Staff : g[p] = SumFunctionOnSet(PriceOf, InCurrency({x \in billed : StaffOf[x] = p}, c))
    BY <1>3, <1>6, OwnIs
  <2> QED BY <1>2, <2>1, RowsFinite, MoneyByStaff
<1> QED BY <1>1, <1>4, <1>5, <1>6, <1>7, SummaryIs

OfOffer(Q, e) == {x \in Q : OfferOf[x] = e}

\* The services done in each currency.
LEMMA OffersAre ==
  ASSUME Ready, NEW Q \in SUBSET AllRows
  PROVE  /\ DOMAIN ServiceRanking(Q) = {OfferOf[x] : x \in Q} /\ IsFiniteSet(DOMAIN ServiceRanking(Q))
         /\ \A x \in Q : OfferOf[x] = <<At(x).service, At(x).cur>>
         /\ \A e \in DOMAIN ServiceRanking(Q) : \E y \in Q : e = <<At(y).service, At(y).cur>>
         /\ \A e \in DOMAIN ServiceRanking(Q) :
              /\ ServiceRanking(Q)[e].revenue = Amount(OfOffer(Q, e))
              /\ ServiceRanking(Q)[e].times = Cardinality(OfOffer(Q, e))
<1>1. \A x \in Q : OfferOf[x] = <<At(x).service, At(x).cur>>
  BY DEF OfferOf
<1>2. DOMAIN ServiceRanking(Q) = {<<At(x).service, At(x).cur>> : x \in Q}
  BY Zenon DEF ServiceRanking
<1>3. DOMAIN ServiceRanking(Q) = {OfferOf[x] : x \in Q}
  BY <1>1, <1>2
<1>4. IsFiniteSet(DOMAIN ServiceRanking(Q))
  BY <1>3, AmountIs, TakenTo
<1>5. ASSUME NEW e \in DOMAIN ServiceRanking(Q)
      PROVE  /\ ServiceRanking(Q)[e].revenue = Amount(OfOffer(Q, e))
             /\ ServiceRanking(Q)[e].times = Cardinality(OfOffer(Q, e))
  <2>1. PICK mine : mine = {x \in Q : At(x).service = e[1] /\ At(x).cur = e[2]}
    OBVIOUS
  <2>2. /\ ServiceRanking(Q)[e].revenue = Amount(mine)
        /\ ServiceRanking(Q)[e].times = Cardinality(mine)
    BY <1>2, <2>1, Zenon DEF ServiceRanking
  <2>3. PICK y \in Q : e = <<At(y).service, At(y).cur>>
    BY <1>2
  <2>4. ASSUME NEW x \in Q PROVE (At(x).service = e[1] /\ At(x).cur = e[2]) <=> OfferOf[x] = e
    BY <1>1, <2>3
  <2> QED BY <2>1, <2>2, <2>4 DEF OfOffer
<1>6. \A e \in DOMAIN ServiceRanking(Q) : \E y \in Q : e = <<At(y).service, At(y).cur>>
  BY <1>2
<1> QED BY <1>1, <1>3, <1>4, <1>5, <1>6

\* The ranking of services tells the money of the summary.
LEMMA ServicesAddUp ==
  ASSUME Ready, NEW r, NEW c
  PROVE  LET done == ServiceRanking(BilledSegments(r))
         IN MoneyOf(Summary(r).revenue, c)
              = SumFunction([e \in DOMAIN done |-> IF e[2] = c THEN done[e].revenue ELSE 0])
<1>1. PICK billed : billed = BilledSegments(r)
  OBVIOUS
<1>2. billed \in SUBSET AllRows
  BY <1>1, BilledIs
<1>3. PICK done, K : done = ServiceRanking(billed) /\ K = DOMAIN done
  OBVIOUS
<1>4. PICK f : f = [e \in K |-> IF e[2] = c THEN done[e].revenue ELSE 0]
  OBVIOUS
<1>5. PICK S : S = InCurrency(billed, c)
  OBVIOUS
<1>6. S \in SUBSET AllRows /\ \A x \in S : x \in billed /\ At(x).cur = c
  BY <1>2, <1>5 DEF InCurrency
<1>7. IsFiniteSet(K) /\ \A x \in S : OfferOf[x] \in K
  BY <1>2, <1>3, <1>6, OffersAre
<1>8. ASSUME NEW e \in K PROVE f[e] = SumFunctionOnSet(PriceOf, {x \in S : OfferOf[x] = e})
  <2>1. PICK mine : mine = {x \in billed : OfferOf[x] = e} /\ mine = OfOffer(billed, e)
    BY DEF OfOffer
  <2>2. done[e].revenue = Amount(mine)
    BY <1>2, <1>3, <2>1, OffersAre
  <2>3. PICK y \in billed : e = <<At(y).service, At(y).cur>>
    BY <1>2, <1>3, OffersAre
  <2>4. ASSUME NEW x \in mine PROVE At(x).cur = e[2]
    <3>1. x \in billed /\ OfferOf[x] = e
      BY <2>1
    <3>2. e = <<At(x).service, At(x).cur>>
      BY <1>2, <3>1, OffersAre
    <3> QED BY <3>2
  <2>5. CASE e[2] = c
    <3>1. {x \in S : OfferOf[x] = e} = mine
      BY <1>5, <2>1, <2>4, <2>5 DEF InCurrency
    <3>2. mine \in SUBSET AllRows
      BY <1>2, <2>1
    <3> QED BY <1>4, <2>2, <2>5, <3>1, <3>2, AmountIs
  <2>6. CASE e[2] # c
    <3>1. {x \in S : OfferOf[x] = e} = {}
      BY <1>6, <2>1, <2>4, <2>6
    <3> QED BY <1>4, <2>6, <3>1, SumNone
  <2> QED BY <2>5, <2>6
<1>9. DOMAIN f = K
  BY <1>4
<1>10. SumFunction(f) = SumFunctionOnSet(PriceOf, S)
  BY <1>6, <1>7, <1>8, <1>9, Grouped
<1>11. MoneyOf(Summary(r).revenue, c) = SumFunction(f)
  BY <1>1, <1>5, <1>10, SummaryIs
<1> QED BY <1>1, <1>3, <1>4, <1>11

DayKey(r) == [i \in DOMAIN appts |-> Key(Day(appts[i].at), r)]
KeyOf(r) == [x \in AllRows |-> Key(Day(appts[x[1]].at), r)]
KeysOf(r) == {Key(d, r) : d \in r.from .. r.to}
Drawn(Q, r, k) == {x \in Q : KeyOf(r)[x] = k}

\* The curve has every day, or every month, of the period, with what was done in it.
LEMMA CurveIs ==
  ASSUME Ready, NEW r \in ReportRanges, NEW Q \in SUBSET BilledSegments(r)
  PROVE  LET curve == BuildReportTimeline(r, Q)
         IN /\ DayCount(r) = 1 => curve = NoTimeline /\ DOMAIN curve = {}
            /\ IsFiniteSet(KeysOf(r)) /\ \A i \in Attended(r) : DayKey(r)[i] \in KeysOf(r)
            /\ \A x \in Q : KeyOf(r)[x] = DayKey(r)[x[1]] /\ KeyOf(r)[x] \in KeysOf(r)
            /\ DayCount(r) # 1 =>
                 /\ DOMAIN curve = KeysOf(r)
                 /\ \A k \in KeysOf(r) :
                      /\ curve[k].revenue = Takings(Drawn(Q, r, k))
                      /\ curve[k].completed = Cardinality(Appointments(Drawn(Q, r, k)))
<1>1. PICK keys : keys = {Key(d, r) : d \in r.from .. r.to} /\ keys = KeysOf(r)
  BY DEF KeysOf
<1>2. r.from \in Int /\ r.to \in Int /\ r = BuildRange(r.from, r.to)
  BY PeriodIs
<1>3. IsFiniteSet(keys)
  <2> DEFINE g == [d \in r.from .. r.to |-> Key(d, r)]
  <2>1. keys = {g[d] : d \in r.from .. r.to}
    BY <1>1
  <2> HIDE DEF g
  <2>2. IsFiniteSet(r.from .. r.to)
    BY <1>2, FS_Interval
  <2> QED BY <2>1, <2>2, TakenTo
<1>4. ASSUME NEW i \in Attended(r) PROVE i \in DOMAIN appts /\ DayKey(r)[i] = Key(Day(appts[i].at), r) /\ DayKey(r)[i] \in keys
  <2>1. i \in DOMAIN appts /\ i \in AppointmentsInRange(BuildRange(r.from, r.to))
    BY <1>2, <1>4 DEF Attended, AppointmentsInRange
  <2>2. Day(appts[i].at) \in r.from .. r.to
    BY <1>2, <2>1, InPeriod
  <2>3. DayKey(r)[i] = Key(Day(appts[i].at), r)
    BY <2>1 DEF DayKey
  <2> QED BY <1>1, <2>1, <2>2, <2>3
<1>5. ASSUME NEW x \in Q
      PROVE  /\ KeyOf(r)[x] = Key(Day(appts[x[1]].at), r)
             /\ KeyOf(r)[x] = DayKey(r)[x[1]] /\ KeyOf(r)[x] \in keys
  <2>1. x \in AllRows /\ x[1] \in Attended(r)
    BY BilledIs
  <2>2. KeyOf(r)[x] = Key(Day(appts[x[1]].at), r)
    BY <2>1 DEF KeyOf
  <2> QED BY <1>4, <2>1, <2>2
<1>6. PICK curve : curve = BuildReportTimeline(r, Q)
  OBVIOUS
<1>7. DayCount(r) = 1 => curve = NoTimeline /\ DOMAIN curve = {}
  BY <1>6 DEF BuildReportTimeline, NoTimeline
<1>8. ASSUME DayCount(r) # 1
      PROVE  /\ DOMAIN curve = keys
             /\ \A k \in keys :
                  /\ curve[k].revenue = Takings(Drawn(Q, r, k))
                  /\ curve[k].completed = Cardinality(Appointments(Drawn(Q, r, k)))
  <2> DEFINE In(k) == {x \in Q : Key(Day(appts[x[1]].at), r) = k}
  <2>1. curve = [k \in keys |-> [revenue |-> Takings(In(k)), completed |-> Cardinality(Appointments(In(k)))]]
    BY <1>1, <1>6, <1>8, Zenon DEF BuildReportTimeline
  <2>2. \A k : In(k) = Drawn(Q, r, k)
    BY <1>5 DEF Drawn
  <2> HIDE DEF In
  <2>3. DOMAIN curve = keys /\ \A k \in keys : curve[k].revenue = Takings(In(k)) /\ curve[k].completed = Cardinality(Appointments(In(k)))
    BY <2>1
  <2> QED BY <2>2, <2>3
<1> QED BY <1>1, <1>3, <1>4, <1>5, <1>6, <1>7, <1>8

\* The curve tells the money of the summary ...
LEMMA CurveAddsUp ==
  ASSUME Ready, NEW r \in ReportRanges, NEW c
  PROVE  LET curve == BuildReportTimeline(r, BilledSegments(r))
         IN curve # NoTimeline =>
              MoneyOf(Summary(r).revenue, c)
                = SumFunction([k \in DOMAIN curve |-> MoneyOf(curve[k].revenue, c)])
<1>1. PICK billed, curve : billed = BilledSegments(r) /\ curve = BuildReportTimeline(r, billed)
  OBVIOUS
<1>2. billed \in SUBSET AllRows
  BY <1>1, BilledIs
<1> SUFFICES ASSUME curve # NoTimeline
             PROVE  MoneyOf(Summary(r).revenue, c) = SumFunction([k \in DOMAIN curve |-> MoneyOf(curve[k].revenue, c)])
  BY <1>1
<1>3. DayCount(r) # 1
  BY <1>1, CurveIs
<1>4. PICK K : K = DOMAIN curve
  OBVIOUS
<1>5. /\ IsFiniteSet(K) /\ \A x \in billed : KeyOf(r)[x] \in K
      /\ \A k \in K : curve[k].revenue = Takings(Drawn(billed, r, k))
  BY <1>1, <1>3, <1>4, CurveIs
<1>6. PICK f : f = [k \in K |-> MoneyOf(curve[k].revenue, c)]
  OBVIOUS
<1>7. PICK S : S = InCurrency(billed, c)
  OBVIOUS
<1>8. S \in SUBSET AllRows /\ \A x \in S : KeyOf(r)[x] \in K
  BY <1>2, <1>5, <1>7 DEF InCurrency
<1>9. ASSUME NEW k \in K PROVE f[k] = SumFunctionOnSet(PriceOf, {x \in S : KeyOf(r)[x] = k})
  <2>1. PICK mine : mine = {x \in billed : KeyOf(r)[x] = k} /\ mine = Drawn(billed, r, k)
    BY DEF Drawn
  <2>2. f[k] = MoneyOf(Takings(mine), c)
    BY <1>5, <1>6, <2>1
  <2>3. f[k] = SumFunctionOnSet(PriceOf, InCurrency(mine, c))
    BY <1>2, <2>1, <2>2, MoneyOfTables
  <2>4. InCurrency(mine, c) = {x \in S : KeyOf(r)[x] = k}
    BY <1>7, <2>1 DEF InCurrency
  <2> QED BY <2>3, <2>4
<1>10. DOMAIN f = K
  BY <1>6
<1>11. SumFunction(f) = SumFunctionOnSet(PriceOf, S)
  BY <1>5, <1>8, <1>9, <1>10, Grouped
<1> QED BY <1>1, <1>4, <1>6, <1>7, <1>11, SummaryIs

\* ... its work ...
LEMMA CurveCounts ==
  ASSUME Ready, NEW r \in ReportRanges
  PROVE  LET curve == BuildReportTimeline(r, BilledSegments(r))
         IN curve # NoTimeline => Summary(r).completed = SumFunction([k \in DOMAIN curve |-> curve[k].completed])
<1>1. PICK billed, curve : billed = BilledSegments(r) /\ curve = BuildReportTimeline(r, billed)
  OBVIOUS
<1> SUFFICES ASSUME curve # NoTimeline
             PROVE  Summary(r).completed = SumFunction([k \in DOMAIN curve |-> curve[k].completed])
  BY <1>1
<1>2. DayCount(r) # 1
  BY <1>1, CurveIs
<1>3. PICK K : K = DOMAIN curve
  OBVIOUS
<1>4. /\ IsFiniteSet(K) /\ \A i \in Attended(r) : DayKey(r)[i] \in K
      /\ \A x \in billed : KeyOf(r)[x] = DayKey(r)[x[1]]
      /\ \A k \in K : curve[k].completed = Cardinality(Appointments(Drawn(billed, r, k)))
  BY <1>1, <1>2, <1>3, CurveIs
<1>5. PICK f : f = [k \in K |-> curve[k].completed]
  OBVIOUS
<1>6. ASSUME NEW k \in K PROVE f[k] = Cardinality({i \in Attended(r) : DayKey(r)[i] = k})
  <2>1. PICK mine : mine = {x \in billed : KeyOf(r)[x] = k} /\ mine = Drawn(billed, r, k)
    BY DEF Drawn
  <2>2. \A x \in mine : x[1] \in Attended(r) /\ DayKey(r)[x[1]] = k
    BY <1>1, <1>4, <2>1, BilledIs
  <2>3. ASSUME NEW i \in Attended(r), DayKey(r)[i] = k PROVE \E x \in mine : x[1] = i
    <3>1. PICK n : n \in DOMAIN appts[i].segs
      BY BilledIs
    <3>2. <<i, n>> \in billed /\ <<i, n>>[1] = i
      BY <1>1, <3>1, BilledIs
    <3> QED BY <1>4, <2>1, <2>3, <3>2
  <2>4. Appointments(mine) = {i \in Attended(r) : DayKey(r)[i] = k}
    BY <2>2, <2>3 DEF Appointments
  <2> QED BY <1>4, <1>5, <2>1, <2>4
<1>7. DOMAIN f = K /\ IsFiniteSet(Attended(r))
  BY <1>5, BilledIs
<1>8. SumFunction(f) = Cardinality(Attended(r))
  BY <1>4, <1>6, <1>7, Counted
<1>9. Summary(r).completed = Cardinality(Attended(r))
  <2>1. Summary(r).completed = CountOf(AppointmentsInRange(r), {"completed"})
    BY Zenon DEF Summary
  <2>2. AppointmentsInRange(r) \subseteq DOMAIN appts
    BY DEF AppointmentsInRange
  <2>3. Attended(r) = {i \in AppointmentsInRange(r) : appts[i].status \in {"completed"}}
    BY DEF Attended
  <2> QED BY <2>1, <2>3 DEF CountOf
<1> QED BY <1>3, <1>5, <1>8, <1>9

\* ... and what each was shown of theirs adds up to it.
LEMMA CurveOfTeam ==
  ASSUME Ready, NEW r \in ReportRanges, NEW c
  PROVE  LET curve == BuildReportTimeline(r, BilledSegments(r))
         IN \A k \in DOMAIN curve :
              MoneyOf(curve[k].revenue, c) = SumFunction([p \in Staff |-> MoneyOf(StaffTimeline(p, r)[k].revenue, c)])
<1>1. PICK billed, curve : billed = BilledSegments(r) /\ curve = BuildReportTimeline(r, billed)
  OBVIOUS
<1>2. billed \in SUBSET AllRows /\ \A x \in billed : StaffOf[x] \in Staff
  BY <1>1, BilledIs, RowSays
<1> SUFFICES ASSUME NEW k \in DOMAIN curve
             PROVE  MoneyOf(curve[k].revenue, c) = SumFunction([p \in Staff |-> MoneyOf(StaffTimeline(p, r)[k].revenue, c)])
  BY <1>1
<1>3. DayCount(r) # 1
  BY <1>1, CurveIs
<1>5. k \in KeysOf(r) /\ curve[k].revenue = Takings(Drawn(billed, r, k))
  BY <1>1, <1>3, CurveIs
<1>6. PICK mine : mine = {x \in billed : KeyOf(r)[x] = k} /\ mine = Drawn(billed, r, k)
  BY DEF Drawn
<1>7. mine \in SUBSET AllRows /\ \A x \in mine : StaffOf[x] \in Staff
  BY <1>2, <1>6
<1>8. MoneyOf(curve[k].revenue, c) = SumFunctionOnSet(PriceOf, InCurrency(mine, c))
  BY <1>5, <1>6, <1>7, MoneyOfTables
<1>9. PICK f : f = [p \in Staff |-> MoneyOf(StaffTimeline(p, r)[k].revenue, c)]
  OBVIOUS
<1>10. ASSUME NEW p \in Staff PROVE f[p] = SumFunctionOnSet(PriceOf, InCurrency({x \in mine : StaffOf[x] = p}, c))
  <2>1. PICK own : own = BilledSegmentsForStaff(p, r)
    OBVIOUS
  <2>2. own = {x \in billed : StaffOf[x] = p} /\ StaffTimeline(p, r) = BuildReportTimeline(r, own)
    BY <1>1, <2>1, OwnIs
  <2>3. own \in SUBSET BilledSegments(r)
    BY <1>1, <2>2
  <2>4. StaffTimeline(p, r)[k].revenue = Takings(Drawn(own, r, k))
    BY <1>3, <1>5, <2>2, <2>3, CurveIs
  <2>5. Drawn(own, r, k) = {x \in mine : StaffOf[x] = p}
    BY <1>6, <2>2 DEF Drawn
  <2>6. {x \in mine : StaffOf[x] = p} \in SUBSET AllRows
    BY <1>7
  <2>7. PICK part1 : part1 = {x \in mine : StaffOf[x] = p}
    OBVIOUS
  <2>8. f[p] = MoneyOf(Takings(part1), c)
    BY <1>9, <2>4, <2>5, <2>7
  <2> QED BY <2>6, <2>7, <2>8, MoneyOfTables
<1>11. DOMAIN f = Staff
  BY <1>9
<1>12. SumFunction(f) = SumFunctionOnSet(PriceOf, InCurrency(mine, c))
  BY <1>7, <1>10, <1>11, RowsFinite, MoneyByStaff
<1> QED BY <1>8, <1>9, <1>12

\* The appointments a professional attends in a period.
MineIn(p, r) == {i \in AppointmentsInRange(r) : \E k \in DOMAIN appts[i].segs : appts[i].segs[k].staff = p}

\* The ranking counts each appointment of a professional once at least.
LEMMA RankingCounts ==
  ASSUME Ready, NEW r, NEW p \in DOMAIN StaffRanking(r)
  PROVE  /\ StaffRanking(r)[p].earnings = StaffSummary(p, r).earnings
         /\ StaffRanking(r)[p].completed >= StaffSummary(p, r).completed
<1>1. p \in Staff /\ \E x \in BilledSegments(r) : StaffOf[x] = p
  <2>1. /\ DOMAIN StaffRanking(r) = {StaffOf[x] : x \in BilledSegments(r)}
        /\ DOMAIN StaffRanking(r) \in SUBSET Staff
    BY RankingIs
  <2> QED BY <2>1
<1>2. PICK own : own = BilledSegmentsForStaff(p, r)
  OBVIOUS
<1>3. own = {x \in BilledSegments(r) : At(x).staff = p} /\ own \in SUBSET BilledSegments(r)
  BY <1>1, <1>2, OwnIs
<1>4. own \in SUBSET AllRows /\ IsFiniteSet(own)
  BY <1>3, BilledIs, FS_Subset
<1>5. PICK K : K = CurrenciesOf(own)
  OBVIOUS
<1>6. IsFiniteSet(K)
  <2>1. K = {CurrencyOf[x] : x \in own}
    BY <1>4, <1>5, RowSays DEF CurrenciesOf
  <2> QED BY <1>4, <2>1, TakenTo
<1>7. PICK f : f = [c \in K |-> Cardinality(Appointments(InCurrency(own, c)))]
  OBVIOUS
<1>8. StaffRanking(r)[p].completed = SumFunction(f)
  <2>1. p \in {At(x).staff : x \in BilledSegments(r)}
    BY <1>1, BilledIs, RowSays
  <2>2. PICK mine : mine = {x \in BilledSegments(r) : At(x).staff = p}
    OBVIOUS
  <2>3. StaffRanking(r)[p].completed
          = SumFunction([c \in CurrenciesOf(mine) |-> Cardinality(Appointments(InCurrency(mine, c)))])
    BY <2>1, <2>2, Zenon DEF StaffRanking
  <2> QED BY <1>3, <1>5, <1>7, <2>2, <2>3
<1>9. PICK C : C = {i \in MineIn(p, r) : appts[i].status \in {"completed"}}
  OBVIOUS
<1>10. StaffSummary(p, r).completed = Cardinality(C)
  <2>1. StaffSummary(p, r).completed = CountOf(MineIn(p, r), {"completed"})
    BY Zenon DEF StaffSummary, MineIn
  <2> QED BY <1>1, <1>9, <2>1, OwnIs, SumOver DEF CountOf
<1>11. C \in SUBSET Attended(r) /\ IsFiniteSet(C)
  <2>1. C \in SUBSET Attended(r)
    BY <1>9 DEF MineIn, Attended
  <2> QED BY <2>1, BilledIs, FS_Subset
<1>12. ASSUME NEW i \in C PROVE \E x \in own : x[1] = i
  <2>1. i \in Attended(r) /\ \E k \in DOMAIN appts[i].segs : appts[i].segs[k].staff = p
    BY <1>9, <1>11 DEF MineIn
  <2>2. PICK k \in DOMAIN appts[i].segs : appts[i].segs[k].staff = p
    BY <2>1
  <2>3. <<i, k>> \in BilledSegments(r) /\ <<i, k>>[1] = i /\ <<i, k>>[2] = k
    BY <2>1, BilledIs
  <2>4. At(<<i, k>>).staff = p
    BY <2>2 DEF At
  <2> QED BY <1>3, <2>3, <2>4
<1> DEFINE key == [i \in C |-> CHOOSE c \in K : \E x \in own : x[1] = i /\ At(x).cur = c]
           group(c) == {i \in C : key[i] = c}
           g == [c \in K |-> Cardinality(group(c))]
<1>13. ASSUME NEW i \in C PROVE key[i] \in K /\ \E x \in own : x[1] = i /\ At(x).cur = key[i]
  <2>1. \E c \in K : \E x \in own : x[1] = i /\ At(x).cur = c
    BY <1>5, <1>12 DEF CurrenciesOf
  <2> QED BY <2>1
<1>14. SumFunction(g) = Cardinality(C)
  <2>1. DOMAIN g = K /\ \A c \in K : g[c] = Cardinality({i \in C : key[i] = c})
    OBVIOUS
  <2> HIDE DEF g, key
  <2> QED BY <1>6, <1>11, <1>13, <2>1, Counted, SumOver
<1>15. ASSUME NEW c \in K PROVE g[c] \in Int /\ f[c] \in Int /\ g[c] <= f[c]
  <2>1. PICK there : there = Appointments(InCurrency(own, c))
    OBVIOUS
  <2>2. there \in SUBSET Attended(r)
    BY <1>3, <2>1, BilledIs DEF Appointments, InCurrency
  <2>3. IsFiniteSet(there)
    BY <2>2, BilledIs, FS_Subset
  <2>4. group(c) \in SUBSET there
    BY <1>13, <2>1 DEF Appointments, InCurrency
  <2>5. g[c] = Cardinality(group(c)) /\ f[c] = Cardinality(there)
    BY <1>7, <2>1
  <2> HIDE DEF group, g
  <2>6. IsFiniteSet(group(c)) /\ Cardinality(group(c)) <= Cardinality(there)
    BY <2>3, <2>4, FS_Subset
  <2>7. Cardinality(group(c)) \in Nat /\ Cardinality(there) \in Nat
    BY <2>3, <2>6, FS_CardinalityType
  <2> QED BY <2>5, <2>6, <2>7, SumOver
<1>16. DOMAIN g = K /\ DOMAIN f = K
  BY <1>7
<1> HIDE DEF g
<1>17. SumFunctionOnSet(g, K) <= SumFunctionOnSet(f, K) /\ SumFunctionOnSet(f, K) \in Int /\ SumFunctionOnSet(g, K) \in Int
  BY <1>6, <1>15, SumMonotone, SumType
<1>18. SumFunction(g) <= SumFunction(f) /\ SumFunction(f) \in Int /\ SumFunction(g) \in Int
  BY <1>16, <1>17, SumOver
<1>19. StaffRanking(r)[p].earnings = StaffSummary(p, r).earnings
  <2>1. StaffRanking(r)[p].earnings = CurrencyEarnings(own, team[p].rate)
    BY <1>2, RankingIs
  <2>2. StaffSummary(p, r).earnings = CurrencyEarnings(own, team[p].rate)
    BY <1>1, <1>2, OwnIs
  <2> QED BY <2>1, <2>2
<1> QED BY <1>8, <1>10, <1>14, <1>18, <1>19

\* Every service done was done by somebody ...
LEMMA ServicesByStaff ==
  ASSUME Ready, NEW r
  PROVE  LET done == ServiceRanking(BilledSegments(r))
         IN \A e \in DOMAIN done :
              done[e].times
                = SumFunction([p \in Staff |-> IF e \in DOMAIN StaffServiceRanking(p, r) THEN StaffServiceRanking(p, r)[e].times ELSE 0])
<1>1. PICK billed, done : billed = BilledSegments(r) /\ done = ServiceRanking(billed)
  OBVIOUS
<1>2. billed \in SUBSET AllRows /\ IsFiniteSet(billed) /\ \A x \in billed : StaffOf[x] \in Staff
  BY <1>1, BilledIs, RowSays
<1> SUFFICES ASSUME NEW e \in DOMAIN done
             PROVE  done[e].times
                      = SumFunction([p \in Staff |-> IF e \in DOMAIN StaffServiceRanking(p, r) THEN StaffServiceRanking(p, r)[e].times ELSE 0])
  BY <1>1
<1>3. PICK mine : mine = {x \in billed : OfferOf[x] = e} /\ mine = OfOffer(billed, e)
  BY DEF OfOffer
<1>4. done[e].times = Cardinality(mine)
  BY <1>1, <1>2, <1>3, OffersAre
<1>5. IsFiniteSet(mine) /\ \A x \in mine : StaffOf[x] \in Staff
  <2>1. mine \in SUBSET billed
    BY <1>3
  <2> QED BY <1>2, <2>1, FS_Subset
<1>6. PICK f : f = [p \in Staff |-> IF e \in DOMAIN StaffServiceRanking(p, r) THEN StaffServiceRanking(p, r)[e].times ELSE 0]
  OBVIOUS
<1>7. ASSUME NEW p \in Staff PROVE f[p] = Cardinality({x \in mine : StaffOf[x] = p})
  <2>1. PICK own : own = BilledSegmentsForStaff(p, r)
    OBVIOUS
  <2>2. own = {x \in billed : StaffOf[x] = p} /\ StaffServiceRanking(p, r) = ServiceRanking(own)
    BY <1>1, <2>1, OwnIs
  <2>3. own \in SUBSET AllRows
    BY <1>2, <2>2
  <2>4. PICK theirs : theirs = OfOffer(own, e) /\ theirs = {x \in mine : StaffOf[x] = p}
    BY <1>3, <2>2 DEF OfOffer
  <2>5. CASE e \in DOMAIN ServiceRanking(own)
    <3>1. ServiceRanking(own)[e].times = Cardinality(theirs)
      BY <2>3, <2>4, <2>5, OffersAre
    <3> QED BY <1>6, <2>2, <2>4, <2>5, <3>1
  <2>6. CASE e \notin DOMAIN ServiceRanking(own)
    <3>1. theirs = {}
      <4>1. \A x \in own : OfferOf[x] \in DOMAIN ServiceRanking(own)
        <5>1. DOMAIN ServiceRanking(own) = {OfferOf[x] : x \in own}
          BY <2>3, OffersAre
        <5> QED BY <5>1
      <4> QED BY <2>4, <2>6, <4>1 DEF OfOffer
    <3>2. Cardinality(theirs) = 0
      BY <3>1, FS_EmptySet, SumOver
    <3> QED BY <1>6, <2>2, <2>4, <2>6, <3>2
  <2> QED BY <2>5, <2>6
<1>8. DOMAIN f = Staff
  BY <1>6
<1>9. SumFunction(f) = Cardinality(mine)
  BY <1>5, <1>7, <1>8, RowsFinite, Counted
<1> QED BY <1>4, <1>6, <1>9

\* ... and so was every row.
LEMMA RowsByStaff ==
  ASSUME Ready, NEW r
  PROVE  Cardinality(BilledSegments(r)) = SumFunction([p \in Staff |-> StaffSummary(p, r).services])
<1>1. PICK billed, f : billed = BilledSegments(r) /\ f = [p \in Staff |-> StaffSummary(p, r).services]
  OBVIOUS
<1>2. IsFiniteSet(billed) /\ \A x \in billed : StaffOf[x] \in Staff
  BY <1>1, BilledIs, RowSays
<1>3. ASSUME NEW p \in Staff PROVE f[p] = Cardinality({x \in billed : StaffOf[x] = p})
  <2>1. StaffSummary(p, r).services = Cardinality(BilledSegmentsForStaff(p, r))
    BY OwnIs
  <2>2. BilledSegmentsForStaff(p, r) = {x \in billed : StaffOf[x] = p}
    BY <1>1, OwnIs
  <2> QED BY <1>1, <2>1, <2>2
<1>4. DOMAIN f = Staff
  BY <1>1
<1>5. SumFunction(f) = Cardinality(billed)
  BY <1>2, <1>3, <1>4, RowsFinite, Counted
<1> QED BY <1>1, <1>5

\* What was left open in a period that is over is what waits to be resolved of it.
LEMMA PendingIs ==
  ASSUME Ready, NEW r \in ReportRanges, r.to < Today
  PROVE  Summary(r).pending = Cardinality(FindUnresolved \cap AppointmentsInRange(r))
<1>1. Summary(r).pending = Cardinality({i \in AppointmentsInRange(r) : appts[i].status \in Open})
  <2>1. Summary(r).pending = CountOf(AppointmentsInRange(r), Open)
    BY Zenon DEF Summary
  <2> QED BY <2>1 DEF CountOf
<1>2. r.from \in Int /\ r.to \in Int /\ r = BuildRange(r.from, r.to)
  BY PeriodIs
<1>3. Today \in Int /\ Midnight(Today) \in Int
  <2>1. Today \in Int
    BY ThisMonth
  <2>2. DayLength \in Nat /\ Zone \in Nat
    BY DEF Ready, ReportsAssumption
  <2> QED BY <2>1, <2>2 DEF Midnight
<1>4. ASSUME NEW i \in AppointmentsInRange(r) PROVE i \in DOMAIN appts /\ appts[i].at < Midnight(Today)
  <2>1. i \in DOMAIN appts /\ Day(appts[i].at) <= r.to /\ appts[i].at \in Int /\ Day(appts[i].at) \in Int
    BY <1>2, <1>4, InPeriod
  <2>2. ~(Today <= Day(appts[i].at))
    BY <1>2, <1>3, <2>1
  <2>3. ~(Midnight(Today) <= appts[i].at)
    BY <1>3, <2>1, <2>2, DayFrom DEF Ready
  <2> QED BY <1>3, <2>1, <2>3
<1>5. {i \in AppointmentsInRange(r) : appts[i].status \in Open} = FindUnresolved \cap AppointmentsInRange(r)
  BY <1>4 DEF FindUnresolved
<1> QED BY <1>1, <1>5

\* Nobody attends more clients than appointments.
LEMMA ClientsCount ==
  ASSUME Ready, NEW r, NEW p \in Staff
  PROVE  StaffSummary(p, r).clients <= StaffSummary(p, r).completed
<1>1. PICK J : J = {j \in MineIn(p, r) : appts[j].status = "completed"}
  OBVIOUS
<1>2. /\ StaffSummary(p, r).clients = Cardinality({appts[i].client : i \in {j \in MineIn(p, r) : appts[j].status = "completed"}})
      /\ StaffSummary(p, r).completed = CountOf(MineIn(p, r), {"completed"})
  BY Zenon DEF StaffSummary, MineIn
<1>3. PICK seen1 : seen1 = {appts[i].client : i \in J}
  OBVIOUS
<1>4. StaffSummary(p, r).clients = Cardinality(seen1)
  BY <1>1, <1>2, <1>3, SumOver
<1>5. J = {i \in MineIn(p, r) : appts[i].status \in {"completed"}}
  BY <1>1
<1>6. StaffSummary(p, r).completed = Cardinality(J)
  BY <1>2, <1>5, SumOver DEF CountOf
<1>7. IsFiniteSet(J)
  <2>1. J \in SUBSET Attended(r)
    BY <1>1 DEF MineIn, Attended
  <2> QED BY <2>1, BilledIs, FS_Subset
<1> DEFINE g == [i \in J |-> appts[i].client]
<1>8. g \in Surjection(J, seen1)
  BY <1>3 DEF Surjection
<1> HIDE DEF g
<1>9. Cardinality(seen1) <= Cardinality(J)
  BY <1>7, <1>8, FS_Surjection
<1> QED BY <1>4, <1>6, <1>9, OwnIs

\* Every report of a period tells the same money and the same work.
LEMMA AddsUp ==
  ASSUME Ready, NEW r \in ReportRanges
  PROVE  ReportAddsUp(r)
<1> DEFINE done == ServiceRanking(BilledSegments(r))
           curve == BuildReportTimeline(r, BilledSegments(r))
           money(c) == MoneyOf(Summary(r).revenue, c)
<1>1. \A c \in Currencies :
        /\ money(c) = SumFunction([p \in DOMAIN StaffRanking(r) |-> MoneyOf(StaffRanking(r)[p].earnings, c)])
        /\ money(c) = SumFunction([p \in Staff |-> MoneyOf(StaffSummary(p, r).earnings, c)])
  BY TeamAddsUp
<1>2. \A c \in Currencies : money(c) = SumFunction([e \in DOMAIN done |-> IF e[2] = c THEN done[e].revenue ELSE 0])
  BY ServicesAddUp
<1>3. \A c \in Currencies : curve # NoTimeline => money(c) = SumFunction([k \in DOMAIN curve |-> MoneyOf(curve[k].revenue, c)])
  BY CurveAddsUp
<1>4. \A c \in Currencies : \A k \in DOMAIN curve :
        MoneyOf(curve[k].revenue, c) = SumFunction([p \in Staff |-> MoneyOf(StaffTimeline(p, r)[k].revenue, c)])
  BY CurveOfTeam
<1>5. curve # NoTimeline => Summary(r).completed = SumFunction([k \in DOMAIN curve |-> curve[k].completed])
  BY CurveCounts
<1>6. \A p \in DOMAIN StaffRanking(r) :
        /\ StaffRanking(r)[p].earnings = StaffSummary(p, r).earnings
        /\ StaffRanking(r)[p].completed >= StaffSummary(p, r).completed
  BY RankingCounts
<1>7. \A e \in DOMAIN done : done[e].times
        = SumFunction([p \in Staff |-> IF e \in DOMAIN StaffServiceRanking(p, r) THEN StaffServiceRanking(p, r)[e].times ELSE 0])
  BY ServicesByStaff
<1>8. Cardinality(BilledSegments(r)) = SumFunction([p \in Staff |-> StaffSummary(p, r).services])
  BY RowsByStaff
<1>9. r.to < Today => Summary(r).pending = Cardinality(FindUnresolved \cap AppointmentsInRange(r))
  BY PendingIs
<1>10. \A p \in Staff : StaffSummary(p, r).clients <= StaffSummary(p, r).completed
  BY ClientsCount
<1> QED BY <1>1, <1>2, <1>3, <1>4, <1>5, <1>6, <1>7, <1>8, <1>9, <1>10, Zenon DEF ReportAddsUp

-----------------------------------------------------------------------------
\* The rows billed to a professional are the ones of the days of the period.
LEMMA BilledByDay ==
  ASSUME Ready, NEW p, NEW from \in Int, NEW to \in Int
  PROVE  BilledSegmentsForStaff(p, BuildRange(from, to)) =
           {x \in AllRows : /\ appts[x[1]].status = "completed" /\ At(x).staff = p
                            /\ from <= Day(appts[x[1]].at) /\ Day(appts[x[1]].at) <= to}
<1>1. PICK r : r = BuildRange(from, to)
  OBVIOUS
<1>2. AppointmentsInRange(r) = {i \in DOMAIN appts : from <= Day(appts[i].at) /\ Day(appts[i].at) <= to}
  BY <1>1, InPeriod
<1>3. BilledSegmentsForStaff(p, r) = {x \in BilledSegments(r) : At(x).staff = p}
  BY DEF BilledSegmentsForStaff, At
<1>4. BilledSegments(r) = RowsOf(Attended(r))
  BY DEF BilledSegments, Attended
<1>5. Attended(r) \in SUBSET DOMAIN appts
  BY BilledIs
<1>6. ASSUME NEW x
      PROVE  x \in RowsOf(Attended(r)) <=> x \in AllRows /\ x[1] \in Attended(r)
  <2>1. x \in RowsOf(Attended(r)) => x \in AllRows /\ x[1] \in Attended(r)
    BY <1>5, RowIs
  <2>2. ASSUME x \in AllRows, x[1] \in Attended(r) PROVE x \in RowsOf(Attended(r))
    <3>1. x[2] \in DOMAIN appts[x[1]].segs /\ x = <<x[1], x[2]>>
      BY <2>2, RowIs DEF AllRows
    <3> QED BY <1>5, <2>2, <3>1, RowIs
  <2> QED BY <2>1, <2>2
<1>7. \A x \in AllRows : x[1] \in DOMAIN appts
  BY RowIs DEF AllRows
<1>8. \A x \in AllRows : x[1] \in Attended(r) <=>
        /\ appts[x[1]].status = "completed"
        /\ from <= Day(appts[x[1]].at) /\ Day(appts[x[1]].at) <= to
  BY <1>2, <1>7 DEF Attended
<1> QED BY <1>1, <1>3, <1>4, <1>6, <1>8

\* A period and the one before leave nothing between them, and share nothing.
LEMMA PreviousBefore ==
  ASSUME Ready
  PROVE  PreviousIsNext
<1>1. ASSUME NEW r \in Custom PROVE PreviousReportRange(r, "custom").end = r.start
  <2>1. r \in ReportRanges
    BY DEF ReportRanges
  <2>2. r.from \in Int /\ r.to \in Int /\ r = BuildRange(r.from, r.to)
    BY <2>1, PeriodIs
  <2>3. r.start = Midnight(r.from)
    BY <2>2 DEF BuildRange
  <2>4. PreviousReportRange(r, "custom").end = Midnight(r.from - 1 + 1)
    BY DEF PreviousReportRange, BuildRange
  <2>5. r.from - 1 + 1 = r.from
    BY <2>2
  <2> QED BY <2>3, <2>4, <2>5
<1>2. ASSUME NEW q \in Presets, NEW p \in Staff
      PROVE  LET r == ResolveDays(q, Today)
                 both == BilledSegmentsForStaff(p, BuildRange(PreviousReportRange(r, q).from, r.to))
             IN Comparison(p, r, q).services = Cardinality(both \ BilledSegmentsForStaff(p, r))
  <2>1. PICK from, to, before \in Int :
          /\ from <= to /\ ResolveDays(q, Today) = BuildRange(from, to)
          /\ PreviousReportRange(BuildRange(from, to), q) = BuildRange(before, from - 1)
    BY PresetIs
  <2>2. PICK r : r = BuildRange(from, to)
    OBVIOUS
  <2>3. r.to = to /\ PreviousReportRange(r, q).from = before
    BY <2>1, <2>2 DEF BuildRange
  <2>4. Comparison(p, r, q) = StaffSummary(p, BuildRange(before, from - 1))
    BY <2>1, <2>2 DEF Comparison
  <2>5. Comparison(p, r, q).services = Cardinality(BilledSegmentsForStaff(p, BuildRange(before, from - 1)))
    <3>1. StaffSummary(p, BuildRange(before, from - 1)).services
            = Cardinality(BilledSegmentsForStaff(p, BuildRange(before, from - 1)))
      BY OwnIs
    <3> QED BY <2>4, <3>1
  <2>6. BilledSegmentsForStaff(p, BuildRange(before, to)) \ BilledSegmentsForStaff(p, BuildRange(from, to))
          = BilledSegmentsForStaff(p, BuildRange(before, from - 1))
    <3>1. from - 1 \in Int
      BY <2>1
    <3>2. /\ BilledSegmentsForStaff(p, BuildRange(before, to)) =
               {x \in AllRows : /\ appts[x[1]].status = "completed" /\ At(x).staff = p
                                /\ before <= Day(appts[x[1]].at) /\ Day(appts[x[1]].at) <= to}
          /\ BilledSegmentsForStaff(p, BuildRange(from, to)) =
               {x \in AllRows : /\ appts[x[1]].status = "completed" /\ At(x).staff = p
                                /\ from <= Day(appts[x[1]].at) /\ Day(appts[x[1]].at) <= to}
          /\ BilledSegmentsForStaff(p, BuildRange(before, from - 1)) =
               {x \in AllRows : /\ appts[x[1]].status = "completed" /\ At(x).staff = p
                                /\ before <= Day(appts[x[1]].at) /\ Day(appts[x[1]].at) <= from - 1}
      BY <2>1, <3>1, BilledByDay
    <3>3. ASSUME NEW x \in AllRows
          PROVE  LET d == Day(appts[x[1]].at)
                 IN (before <= d /\ d <= to) /\ ~(from <= d /\ d <= to) <=> before <= d /\ d <= from - 1
      <4>1. x[1] \in DOMAIN appts
        BY RowIs DEF AllRows
      <4>2. Day(appts[x[1]].at) \in Int
        BY <2>1, <4>1, InPeriod
      <4> QED BY <2>1, <4>2
    <3> QED BY <3>2, <3>3
  <2> QED BY <2>1, <2>2, <2>3, <2>5, <2>6
<1>3. ASSUME NEW p \in Staff
      PROVE  StaffCurrentMonth(p) = StaffSummary(p, ResolveDays("month", Today)).earnings
  <2>1. PICK r : r = ResolveDays("month", Today)
    OBVIOUS
  <2>2. StaffSummary(p, r).earnings = CurrencyEarnings(BilledSegmentsForStaff(p, r), team[p].rate)
    BY OwnIs
  <2> QED BY <2>1, <2>2 DEF StaffCurrentMonth
<1> QED BY <1>1, <1>2, <1>3, Zenon DEF PreviousIsNext

\* No list leaves an appointment out.
LEMMA NothingBetween ==
  ASSUME Ready
  PROVE  NothingFallsBetween
<1>1. clock \in Int
  BY DEF Ready, ReportsAssumption
<1>2. ASSUME NEW i \in DOMAIN appts
      PROVE  appts[i].at \in Int /\ Day(appts[i].at) \in Int /\ appts[i].status \in Statuses /\ appts[i].at \in Starts
  <2>1. appts[i] \in Bookings
    BY DEF Ready, BooksTyped
  <2>2. appts[i].at \in Int /\ Day(appts[i].at) \in Int
    BY InPeriod, 0 \in Int
  <2> QED BY <2>1, <2>2 DEF Bookings
<1>3. ASSUME NEW acc \in Accounts
      PROVE  /\ FindUpcoming(acc) \cup FindPast(acc) = OfAccount(acc)
             /\ FindUpcoming(acc) \cap FindPast(acc) = {}
  <2>1. ASSUME NEW i \in OfAccount(acc)
        PROVE  Ahead(i) <=> ~(appts[i].at < clock \/ appts[i].status \in {"completed", "cancelled"})
    <3>1. appts[i].at \in Int /\ appts[i].status \in Statuses
      BY <1>2, <2>1 DEF OfAccount
    <3>2. appts[i].at >= clock <=> ~(appts[i].at < clock)
      BY <1>1, <3>1
    <3> QED BY <3>1, <3>2 DEF Ahead, Open, Statuses
  <2> QED BY <2>1 DEF FindUpcoming, FindPast
<1>4. ASSUME NEW c \in Clients PROVE FindUpcomingByClient(c) \subseteq ClientHistory(c)
  BY DEF FindUpcomingByClient, ClientHistory
<1>5. ASSUME NEW i \in DOMAIN appts, Day(appts[i].at) < Today
      PROVE  i \in FindUnresolved \/ appts[i].status \in {"completed", "cancelled"}
  <2>1. Today \in Int
    BY ThisMonth
  <2>2. DayLength \in Nat /\ Zone \in Nat
    BY DEF Ready, ReportsAssumption
  <2>3. Midnight(Today) \in Int
    BY <2>1, <2>2 DEF Midnight
  <2>4. ~(Midnight(Today) <= appts[i].at)
    BY <1>2, <1>5, <2>1, DayFrom DEF Ready
  <2>5. appts[i].at < Midnight(Today)
    BY <1>2, <2>3, <2>4
  <2> QED BY <1>2, <2>5 DEF FindUnresolved, Open, Statuses
<1>6. ASSUME NEW d \in Int
      PROVE  FindRange(d, d) = {i \in DOMAIN appts : Day(appts[i].at) = d}
  <2>1. FindRange(d, d) = {i \in DOMAIN appts : d <= Day(appts[i].at) /\ Day(appts[i].at) <= d}
    BY InPeriod DEF FindRange
  <2>2. \A i \in DOMAIN appts : (d <= Day(appts[i].at) /\ Day(appts[i].at) <= d) <=> Day(appts[i].at) = d
    BY <1>2
  <2> QED BY <2>1, <2>2
<1>7. Days \subseteq Int
  BY DEF Ready, CalendarAssumption
<1>8. ASSUME NEW i \in DOMAIN appts PROVE Cardinality({d \in Days : i \in FindRange(d, d)}) = 1
  <2>1. PICK d \in Days : Midnight(d) <= appts[i].at /\ appts[i].at < Midnight(d + 1)
    BY <1>2 DEF Ready, CalendarAssumption
  <2>2. DayLength \in Nat /\ Zone \in Nat /\ d \in Int /\ d + 1 \in Int
    BY <1>7 DEF Ready, ReportsAssumption
  <2>3. Midnight(d + 1) \in Int
    BY <2>2 DEF Midnight
  <2>4. d <= Day(appts[i].at)
    BY <1>2, <2>1, <2>2, DayFrom DEF Ready
  <2>5. ~(d + 1 <= Day(appts[i].at))
    <3>1. ~(Midnight(d + 1) <= appts[i].at)
      BY <1>2, <2>1, <2>3
    <3> QED BY <1>2, <2>2, <3>1, DayFrom DEF Ready
  <2>6. Day(appts[i].at) = d
    BY <1>2, <2>2, <2>4, <2>5
  <2>7. {e \in Days : i \in FindRange(e, e)} = {d}
    BY <1>6, <1>7, <2>6
  <2>8. Cardinality({d}) = 1
    BY FS_Singleton
  <2> QED BY <2>7, <2>8, SumOver
<1>9. ASSUME NEW d \in Days PROVE UNION {AppointmentIdsForStaff(p, d, d) : p \in Staff} = FindRange(d, d)
  <2>1. ASSUME NEW i \in FindRange(d, d) PROVE \E p \in Staff : i \in AppointmentIdsForStaff(p, d, d)
    <3>1. i \in DOMAIN appts
      BY <2>1 DEF FindRange, AppointmentsInRange
    <3>2. PICK k : k \in DOMAIN appts[i].segs
      BY <3>1 DEF Ready, Worked
    <3>3. appts[i].segs \in Seq(Segments)
      BY <3>1 DEF Ready, BooksTyped, Bookings
    <3>4. appts[i].segs[k] \in Segments
      BY <3>2, <3>3
    <3>5. appts[i].segs[k].staff \in Staff
      BY <3>4 DEF Segments
    <3> QED BY <2>1, <3>2, <3>5 DEF AppointmentIdsForStaff
  <2>2. \A p \in Staff : AppointmentIdsForStaff(p, d, d) \subseteq FindRange(d, d)
    BY DEF AppointmentIdsForStaff
  <2> QED BY <2>1, <2>2
<1> QED BY <1>3, <1>4, <1>5, <1>8, <1>9, Zenon DEF NothingFallsBetween

\* An appointment costs the same wherever it is read.
LEMMA OneTotal ==
  ASSUME Ready
  PROVE  TotalsAgree
<1> SUFFICES ASSUME NEW i \in DOMAIN appts, Cardinality(CurrenciesOf(RowsOf({i}))) = 1, CustomerTotal(i) # Null,
                    NEW c \in CurrenciesOf(RowsOf({i}))
             PROVE  DetailTotals(i)[c] = CustomerTotal(i)
  BY DEF TotalsAgree
<1>1. PICK Q : Q = RowsOf({i})
  OBVIOUS
<1>2. Q \in SUBSET AllRows /\ IsFiniteSet(Q)
  <2>1. Q \in SUBSET AllRows
    BY <1>1, RowIs
  <2> QED BY <2>1, AmountIs
<1>3. IsFiniteSet(CurrenciesOf(Q))
  <2>1. CurrenciesOf(Q) = {CurrencyOf[x] : x \in Q}
    BY <1>2, RowSays DEF CurrenciesOf
  <2> QED BY <1>2, <2>1, TakenTo
<1>4. CurrenciesOf(Q) = {c}
  <2>1. Cardinality(CurrenciesOf(Q)) = 1
    BY <1>1, SumOver
  <2>2. PICK only : CurrenciesOf(Q) = {only}
    BY <1>3, <2>1, FS_Singleton
  <2> QED BY <1>1, <2>2
<1>5. (\A x \in Q : At(x).price # Null) /\ CustomerTotal(i) = Amount(Q)
  BY <1>1 DEF CustomerTotal
<1>6. {x \in Q : At(x).price # Null} = Q /\ InCurrency(Q, c) = Q
  <2>1. \A x \in Q : At(x).cur = c
    BY <1>4 DEF CurrenciesOf
  <2> QED BY <1>5, <2>1 DEF InCurrency
<1>7. DetailTotals(i)[c] = Amount(InCurrency(Q, c))
  <2>1. SumByCurrency(Q) = [k \in CurrenciesOf(Q) |-> Amount(InCurrency(Q, k))]
    BY <1>6 DEF SumByCurrency
  <2> QED BY <1>1, <1>4, <2>1 DEF DetailTotals
<1> QED BY <1>5, <1>6, <1>7

\* What the reports count on is enough for them to agree.
LEMMA AllAgree ==
  ASSUME Ready
  PROVE  ReportsAgree
BY AddsUp, PreviousBefore, NothingBetween, OneTotal DEF ReportsAgree

-----------------------------------------------------------------------------
(* What holds in every state *)

DeskInv == TypeOK /\ DeskState

\* A business begins with its catalogue, no appointments and nobody at the desk.
LEMMA DeskInvInit == ReportsAssumption /\ Init => DeskInv
BY DeskStart DEF DeskInv

\* No step spoils that, nor what was agreed.
LEMMA DeskInvNext ==
  ASSUME ReportsAssumption, DeskInv, [Next]_vars
  PROVE  DeskInv' /\ Agreed
BY DeskStep DEF DeskInv

\* In a calendar that has the days in question, that is enough for the reports to agree.
LEMMA AgreeFromInv == ReportsAssumption /\ CalendarAssumption /\ DeskInv => ReportsAgree
<1>1. TypeOK => clock \in FirstNow .. MaxNow
  BY TypeIs
<1>2. ReportsAssumption /\ CalendarAssumption /\ DeskInv => Ready
  BY <1>1 DEF Ready, DeskInv, DeskState
<1> QED BY <1>2, AllAgree
====

-------------------------- MODULE RuleCounts_proofs --------------------------
(***************************************************************************)
(* Proof that active-rules stays the sum of the lists' counters, for any   *)
(* number of lists, of rules and of changes.  The first part proves what a *)
(* sum over a finite set is from the definition of SumFunctionOnSet, by    *)
(* induction on the set; the second is about the counters.                 *)
(***************************************************************************)
EXTENDS RuleCounts, FiniteSetTheorems, WellFoundedInduction, TLAPS

(* Sums over finite sets.                                                   *)

\* What holds of a set if it holds of all smaller ones holds of all finite sets.
LEMMA SmallerSets ==
  ASSUME NEW S, IsFiniteSet(S), NEW P,
         \A s \in SUBSET S : (\A t \in SUBSET s : t # s => t \in P) => s \in P
  PROVE  S \in P
<1> DEFINE R == StrictSubsetOrdering(S)
           B == {s \in SUBSET S : s \notin P}
<1>1. IsWellFoundedOn(R, FiniteSubsetsOf(S))
  BY FS_StrictSubsetOrderingWellFounded
<1> SUFFICES ASSUME B # {} PROVE FALSE
  OBVIOUS
<1>2. B \subseteq FiniteSubsetsOf(S)
  BY FS_Subset DEF FiniteSubsetsOf
<1>3. \A s, t \in SUBSET S : t \subseteq s /\ t # s => <<t, s>> \in R
  BY DEF StrictSubsetOrdering
<1> HIDE DEF R
<1>4. PICK s \in B : \A t \in B : ~(<<t, s>> \in R)
  <2> HIDE DEF B
  <2> QED BY <1>1, <1>2, WFMin
<1>5. ASSUME NEW t \in SUBSET s, t # s PROVE t \in P
  <2>1. t \in SUBSET S /\ s \in SUBSET S
    OBVIOUS
  <2>2. <<t, s>> \in R
    BY <1>3, <1>5, <2>1
  <2> QED BY <1>4, <2>1, <2>2
<1> QED BY <1>5

\* The element a sum takes first, and what it means to sum h over the subsets of S.
Pick(s) == CHOOSE x \in s : TRUE
IsSum(g, h, S) == g = [s \in SUBSET S |-> IF s = {} THEN 0 ELSE h[Pick(s)] + g[s \ {Pick(s)}]]

\* SumFunctionOnSet takes such a function at the whole set.
LEMMA SumUnfolds ==
  ASSUME NEW h, NEW S
  PROVE  SumFunctionOnSet(h, S) = (CHOOSE g : IsSum(g, h, S))[S]
BY DEF SumFunctionOnSet, FoldFunctionOnSet, MapThenFoldSet, IsSum, Pick

\* What such a function is at one subset.
LEMMA IsSumAt ==
  ASSUME NEW h, NEW S, NEW g, IsSum(g, h, S), NEW s \in SUBSET S
  PROVE  g[s] = IF s = {} THEN 0 ELSE h[Pick(s)] + g[s \ {Pick(s)}]
BY Zenon DEF IsSum

\* A set that is not empty has an element to take.
LEMMA PickIn ==
  ASSUME NEW s, s # {}
  PROVE  Pick(s) \in s
BY DEF Pick

\* Two ways to sum up agree.
LEMMA IsSumUnique ==
  ASSUME NEW h, NEW S, IsFiniteSet(S), NEW f, NEW g, NEW U, S \subseteq U,
         IsSum(f, h, S), IsSum(g, h, U)
  PROVE  f[S] = g[S]
<1> DEFINE P == {s \in SUBSET S : f[s] = g[s]}
<1>1. ASSUME NEW s \in SUBSET S, \A t \in SUBSET s : t # s => t \in P
      PROVE  s \in P
  <2>1. /\ f[s] = IF s = {} THEN 0 ELSE h[Pick(s)] + f[s \ {Pick(s)}]
        /\ g[s] = IF s = {} THEN 0 ELSE h[Pick(s)] + g[s \ {Pick(s)}]
    BY IsSumAt, SMTT(20)
  <2>2. CASE s = {}
    BY <2>1, <2>2
  <2>3. CASE s # {}
    <3>1. s \ {Pick(s)} \in P
      BY <1>1, <2>3, PickIn
    <3>2. f[s \ {Pick(s)}] = g[s \ {Pick(s)}]
      BY <3>1
    <3> QED BY <2>1, <2>3, <3>2
  <2> QED BY <2>2, <2>3
<1> HIDE DEF P
<1>2. S \in P
  BY <1>1, SmallerSets
<1> QED BY <1>2 DEF P

\* There is a way to sum up, by induction on the set.
LEMMA IsSumExists ==
  ASSUME NEW h, NEW S, IsFiniteSet(S)
  PROVE  \E g : IsSum(g, h, S)
<1> DEFINE Value(s) == SumFunctionOnSet(h, s)
           P == {s \in SUBSET S : \E g : IsSum(g, h, s)}
<1>1. ASSUME NEW s \in SUBSET S, \A t \in SUBSET s : t # s => t \in P
      PROVE  s \in P
  <2> DEFINE Rest(t) == h[Pick(t)] + Value(t \ {Pick(t)})
             g == [t \in SUBSET s |-> IF t = {} THEN 0 ELSE Rest(t)]
  <2>1. ASSUME NEW t \in SUBSET s, t # s
        PROVE  Value(t) = IF t = {} THEN 0 ELSE Rest(t)
    <3> DEFINE f == CHOOSE k : IsSum(k, h, t)
    <3>1. IsSum(f, h, t)
      BY <1>1, <2>1
    <3>2. Value(t) = f[t]
      BY SumUnfolds
    <3> HIDE DEF f, Value
    <3>3. f[t] = IF t = {} THEN 0 ELSE h[Pick(t)] + f[t \ {Pick(t)}]
      BY <3>1, IsSumAt
    <3>4. CASE t = {}
      BY <3>2, <3>3, <3>4
    <3>5. CASE t # {}
      <4> DEFINE u == t \ {Pick(t)}
                 e == CHOOSE k : IsSum(k, h, u)
      <4>1. u \subseteq t /\ u \subseteq s /\ u # s
        BY <3>5, PickIn
      <4>2. IsSum(e, h, u)
        BY <1>1, <4>1, Zenon
      <4>3. Value(u) = e[u]
        BY SumUnfolds, Zenon DEF Value
      <4>4. IsFiniteSet(u)
        BY <4>1, FS_Subset
      <4> HIDE DEF e, u
      <4>5. e[u] = f[u]
        BY <3>1, <4>1, <4>2, <4>4, IsSumUnique
      <4> QED BY <3>2, <3>3, <3>5, <4>3, <4>5 DEF u
    <3> QED BY <3>4, <3>5
  <2>2. ASSUME NEW t \in SUBSET s, t # {} PROVE g[t \ {Pick(t)}] = Value(t \ {Pick(t)})
    <3>1. t \ {Pick(t)} \in SUBSET s /\ t \ {Pick(t)} # s
      BY <2>2, PickIn
    <3> QED BY <2>1, <3>1, Zenon
  <2>3. IsSum(g, h, s)
    BY <2>2, Zenon DEF IsSum
  <2> QED BY <2>3
<1> HIDE DEF P
<1>2. S \in P
  BY <1>1, SmallerSets
<1> QED BY <1>2 DEF P

\* A sum of nothing is nothing, and a sum of something is that and the rest.
LEMMA SumPicks ==
  ASSUME NEW h, NEW S, IsFiniteSet(S)
  PROVE  SumFunctionOnSet(h, S) =
           IF S = {} THEN 0 ELSE h[Pick(S)] + SumFunctionOnSet(h, S \ {Pick(S)})
<1> DEFINE U == S \ {Pick(S)}
           f == CHOOSE k : IsSum(k, h, S)
           e == CHOOSE k : IsSum(k, h, U)
<1>1. IsFiniteSet(U)
  BY FS_Subset
<1>2. IsSum(f, h, S) /\ IsSum(e, h, U)
  BY <1>1, IsSumExists
<1>3. SumFunctionOnSet(h, S) = f[S] /\ SumFunctionOnSet(h, U) = e[U]
  BY SumUnfolds
<1> HIDE DEF U, f, e
<1>4. U \subseteq S
  BY DEF U
<1>5. e[U] = f[U]
  BY <1>1, <1>2, <1>4, IsSumUnique
<1>6. f[S] = IF S = {} THEN 0 ELSE h[Pick(S)] + f[U]
  BY <1>2, IsSumAt DEF U
<1> QED BY <1>3, <1>5, <1>6 DEF U

\* The sum of integers is one.
LEMMA SumInt ==
  ASSUME NEW h, NEW S, IsFiniteSet(S), \A x \in S : h[x] \in Int
  PROVE  SumFunctionOnSet(h, S) \in Int
<1> DEFINE P == {s \in SUBSET S : SumFunctionOnSet(h, s) \in Int}
<1>1. ASSUME NEW s \in SUBSET S, \A t \in SUBSET s : t # s => t \in P
      PROVE  s \in P
  <2>1. IsFiniteSet(s)
    BY FS_Subset
  <2>2. SumFunctionOnSet(h, s) =
          IF s = {} THEN 0 ELSE h[Pick(s)] + SumFunctionOnSet(h, s \ {Pick(s)})
    BY <2>1, SumPicks
  <2>3. CASE s = {}
    BY <2>2, <2>3
  <2>4. CASE s # {}
    <3>1. Pick(s) \in s
      BY <2>4, PickIn
    <3>2. s \ {Pick(s)} \in P
      BY <1>1, <3>1
    <3>3. h[Pick(s)] \in Int /\ SumFunctionOnSet(h, s \ {Pick(s)}) \in Int
      BY <3>1, <3>2
    <3> QED BY <2>2, <2>4, <3>3
  <2> QED BY <2>3, <2>4
<1> HIDE DEF P
<1>2. S \in P
  BY <1>1, SmallerSets
<1> QED BY <1>2 DEF P

\* The order does not matter.
LEMMA SumSplits ==
  ASSUME NEW h, NEW S, IsFiniteSet(S), \A x \in S : h[x] \in Int, NEW x \in S
  PROVE  SumFunctionOnSet(h, S) = h[x] + SumFunctionOnSet(h, S \ {x})
<1> DEFINE Sum(s) == SumFunctionOnSet(h, s)
           P == {s \in SUBSET S : \A y \in s : Sum(s) = h[y] + Sum(s \ {y})}
<1>0. \A s \in SUBSET S : IsFiniteSet(s) /\ Sum(s) \in Int
  <2> TAKE s \in SUBSET S
  <2>1. IsFiniteSet(s)
    BY FS_Subset
  <2> QED BY <2>1, SumInt
<1>1. ASSUME NEW s \in SUBSET S, \A t \in SUBSET s : t # s => t \in P
      PROVE  s \in P
  <2> SUFFICES ASSUME NEW y \in s PROVE Sum(s) = h[y] + Sum(s \ {y})
    OBVIOUS
  <2> DEFINE p == Pick(s)
  <2>1. p \in s
    BY PickIn
  <2>2. Sum(s) = h[p] + Sum(s \ {p})
    BY <1>0, SumPicks
  <2> HIDE DEF p
  <2>3. CASE y = p
    BY <2>2, <2>3
  <2>4. CASE y # p
    <3>1. s \ {p} \in P /\ s \ {y} \in P /\ y \in s \ {p} /\ p \in s \ {y}
      BY <1>1, <2>1, <2>4
    <3>2. Sum(s \ {p}) = h[y] + Sum((s \ {p}) \ {y})
      BY <3>1
    <3>3. Sum(s \ {y}) = h[p] + Sum((s \ {y}) \ {p})
      BY <3>1, Zenon
    <3>4. (s \ {p}) \ {y} = (s \ {y}) \ {p} /\ (s \ {p}) \ {y} \in SUBSET S
      OBVIOUS
    <3>5. h[p] \in Int /\ h[y] \in Int /\ Sum((s \ {p}) \ {y}) \in Int
      BY <1>0, <2>1, <3>4
    <3>6. Sum(s) = h[p] + (h[y] + Sum((s \ {p}) \ {y}))
      BY <2>2, <3>2
    <3>7. Sum(s \ {y}) = h[p] + Sum((s \ {p}) \ {y})
      BY <3>3, <3>4
    <3> HIDE DEF Sum
    <3> QED BY <3>5, <3>6, <3>7
  <2> QED BY <2>3, <2>4
<1> HIDE DEF P
<1>2. S \in P
  BY <1>1, SmallerSets
<1> QED BY <1>2 DEF P

\* Only the values over the set count.
LEMMA SumSame ==
  ASSUME NEW f, NEW h, NEW S, IsFiniteSet(S), \A x \in S : f[x] = h[x]
  PROVE  SumFunctionOnSet(f, S) = SumFunctionOnSet(h, S)
<1> DEFINE P == {s \in SUBSET S : SumFunctionOnSet(f, s) = SumFunctionOnSet(h, s)}
<1>1. ASSUME NEW s \in SUBSET S, \A t \in SUBSET s : t # s => t \in P
      PROVE  s \in P
  <2>1. IsFiniteSet(s)
    BY FS_Subset
  <2>2. /\ SumFunctionOnSet(h, s) =
             IF s = {} THEN 0 ELSE h[Pick(s)] + SumFunctionOnSet(h, s \ {Pick(s)})
        /\ SumFunctionOnSet(f, s) =
             IF s = {} THEN 0 ELSE f[Pick(s)] + SumFunctionOnSet(f, s \ {Pick(s)})
    BY <2>1, SumPicks
  <2>3. CASE s = {}
    BY <2>2, <2>3
  <2>4. CASE s # {}
    <3>1. Pick(s) \in s
      BY <2>4, PickIn
    <3>2. s \ {Pick(s)} \in P
      BY <1>1, <3>1
    <3> QED BY <2>2, <2>4, <3>1, <3>2
  <2> QED BY <2>3, <2>4
<1> HIDE DEF P
<1>2. S \in P
  BY <1>1, SmallerSets
<1> QED BY <1>2 DEF P

\* One value changes, and the sum by as much.
LEMMA SumChanged ==
  ASSUME NEW h, NEW S, IsFiniteSet(S), \A y \in S : h[y] \in Int, NEW x \in S, NEW v \in Int,
         NEW f, \A y \in S : f[y] = IF y = x THEN v ELSE h[y]
  PROVE  SumFunctionOnSet(f, S) = SumFunctionOnSet(h, S) - h[x] + v
<1> DEFINE T == S \ {x}
<1>1. IsFiniteSet(T)
  BY FS_Subset
<1>2. SumFunctionOnSet(f, S) = v + SumFunctionOnSet(f, T)
  <2>1. \A y \in S : f[y] \in Int
    OBVIOUS
  <2> QED BY <2>1, SumSplits
<1>3. SumFunctionOnSet(h, S) = h[x] + SumFunctionOnSet(h, T)
  BY SumSplits
<1>4. SumFunctionOnSet(f, T) = SumFunctionOnSet(h, T)
  BY <1>1, SumSame
<1>5. SumFunctionOnSet(h, T) \in Int /\ h[x] \in Int
  BY <1>1, SumInt
<1> QED BY <1>2, <1>3, <1>4, <1>5

-----------------------------------------------------------------------------
(* The counters an engine starts with.                                      *)

Sum(h, S) == SumFunctionOnSet(h, S)

\* There are finitely many lists, so finitely many counters.
LEMMA FinitelyManyLists == IsFiniteSet(Positions) /\ IsFiniteSet(Shorts)
<1>1. Len(Lists) \in Nat
  BY RuleCountsAssumption
<1>2. IsFiniteSet(Positions)
  BY <1>1, FS_Interval DEF Positions
<1> DEFINE f == [i \in Positions |-> Short(i)]
<1>3. f \in Surjection(Positions, Shorts)
  BY DEF Surjection, Shorts
<1>4. IsFiniteSet(Shorts)
  BY <1>2, <1>3, FS_Surjection
<1> QED BY <1>2, <1>4

\* A sum of zeros is zero.
LEMMA SumZero ==
  ASSUME NEW h, NEW S, IsFiniteSet(S), \A x \in S : h[x] = 0
  PROVE  Sum(h, S) = 0
<1> DEFINE P == {s \in SUBSET S : Sum(h, s) = 0}
<1>1. ASSUME NEW s \in SUBSET S, \A t \in SUBSET s : t # s => t \in P
      PROVE  s \in P
  <2>1. IsFiniteSet(s)
    BY FS_Subset
  <2>2. Sum(h, s) = IF s = {} THEN 0 ELSE h[Pick(s)] + Sum(h, s \ {Pick(s)})
    BY <2>1, SumPicks DEF Sum
  <2>3. CASE s = {}
    BY <2>2, <2>3
  <2>4. CASE s # {}
    <3>1. Pick(s) \in s
      BY <2>4, PickIn
    <3>2. s \ {Pick(s)} \in P
      BY <1>1, <3>1
    <3> QED BY <2>2, <2>4, <3>1, <3>2
  <2> QED BY <2>3, <2>4
<1> HIDE DEF P
<1>2. S \in P
  BY <1>1, SmallerSets
<1> QED BY <1>2 DEF P

\* With short names of its own each list has a counter of its own.
LEMMA CounterAt ==
  ASSUME NEW counts, NEW kept \in SUBSET Positions, NEW i \in Positions
  PROVE  CountersOf(counts, kept)[Short(i)] = IF i \in kept THEN counts[i] ELSE 0
<1> DEFINE S == {j \in kept : Short(j) = Short(i)}
<1>1. S = IF i \in kept THEN {i} ELSE {}
  BY RuleCountsAssumption
<1>2. Positions \subseteq Int
  BY DEF Positions
<1>3. Max({i}) = i
  BY <1>2 DEF Max
<1>4. Short(i) \in Shorts
  BY DEF Shorts
<1>5. CountersOf(counts, kept)[Short(i)] = IF S = {} THEN 0 ELSE counts[Max(S)]
  BY <1>4 DEF CountersOf
<1> HIDE DEF S
<1> QED BY <1>1, <1>3, <1>5

\* A counter for each short name.
LEMMA CountersType ==
  ASSUME NEW counts \in [Positions -> Nat], NEW kept \in SUBSET Positions
  PROVE  CountersOf(counts, kept) \in [Shorts -> Nat]
<1>1. DOMAIN CountersOf(counts, kept) = Shorts
      /\ CountersOf(counts, kept) = [n \in Shorts |-> CountersOf(counts, kept)[n]]
  BY DEF CountersOf
<1>2. ASSUME NEW n \in Shorts PROVE CountersOf(counts, kept)[n] \in Nat
  <2>1. PICK i \in Positions : n = Short(i)
    BY DEF Shorts
  <2>2. CountersOf(counts, kept)[n] = IF i \in kept THEN counts[i] ELSE 0
    BY <2>1, CounterAt
  <2> QED BY <2>2
<1> HIDE DEF CountersOf
<1> QED BY <1>1, <1>2

\* bootstrap counts every list once for its counter and once for the total, so
\* the counters it sets add up to the total it sets.
LEMMA CountersAddUp ==
  ASSUME NEW counts \in [Positions -> Nat], NEW kept \in SUBSET Positions
  PROVE  Sum(CountersOf(counts, kept), Shorts) = TotalOf(counts, kept)
<1> DEFINE C(s) == CountersOf(counts, s)
           P == {s \in SUBSET kept : Sum(C(s), Shorts) = Sum(counts, s)}
<1>0. IsFiniteSet(kept) /\ IsFiniteSet(Shorts)
  BY FinitelyManyLists, FS_Subset
<1>1. ASSUME NEW s \in SUBSET kept, \A t \in SUBSET s : t # s => t \in P
      PROVE  s \in P
  <2>1. CASE s = {}
    <3>1. \A n \in Shorts : C(s)[n] = 0
      BY <2>1, CounterAt DEF Shorts
    <3>2. Sum(C(s), Shorts) = 0
      <4> HIDE DEF C
      <4> QED BY <1>0, <3>1, SumZero
    <3>3. Sum(counts, s) = 0
      BY <1>0, <2>1, FS_EmptySet, SumZero
    <3> QED BY <3>2, <3>3
  <2>2. CASE s # {}
    <3> DEFINE x == Pick(s)
               t == s \ {x}
    <3>1. x \in s /\ x \in Positions /\ t \in SUBSET Positions /\ t \in P
      BY <1>1, <2>2, PickIn
    <3>2. Sum(C(t), Shorts) = Sum(counts, t)
      BY <3>1
    <3>3. /\ C(t) \in [Shorts -> Nat] /\ C(s) \in [Shorts -> Nat]
          /\ Short(x) \in Shorts /\ counts[x] \in Nat
      BY <3>1, CountersType, Zenon DEF Shorts
    <3>4. C(t)[Short(x)] = 0
      BY <3>1, CounterAt
    <3>5. ASSUME NEW n \in Shorts
          PROVE  C(s)[n] = IF n = Short(x) THEN counts[x] ELSE C(t)[n]
      <4>1. PICK i \in Positions : n = Short(i)
        BY DEF Shorts
      <4>2. /\ C(s)[n] = IF i \in s THEN counts[i] ELSE 0
            /\ C(t)[n] = IF i \in t THEN counts[i] ELSE 0
        BY <3>1, <4>1, CounterAt
      <4>3. n = Short(x) => i = x
        BY <3>1, <4>1, RuleCountsAssumption, Zenon
      <4> HIDE DEF C, x
      <4> QED BY <3>1, <4>1, <4>2, <4>3
    <3>6. Sum(C(s), Shorts) = Sum(C(t), Shorts) - C(t)[Short(x)] + counts[x]
      <4> HIDE DEF C, x, t
      <4>1. \A n \in Shorts : C(t)[n] \in Int /\ counts[x] \in Int
        BY <3>3
      <4>2. SumFunctionOnSet(C(s), Shorts) =
              SumFunctionOnSet(C(t), Shorts) - C(t)[Short(x)] + counts[x]
        BY <1>0, <3>3, <3>5, <4>1, SumChanged, SMTT(20)
      <4> QED BY <4>2 DEF Sum
    <3>7. Sum(counts, s) = counts[x] + Sum(counts, t)
      <4>1. IsFiniteSet(s)
        BY <1>0, FS_Subset
      <4> QED BY <2>2, <4>1, SumPicks DEF Sum
    <3>8. Sum(counts, t) \in Int
      <4>1. IsFiniteSet(t) /\ \A y \in t : counts[y] \in Int
        BY <1>0, <3>1, FS_Subset
      <4> QED BY <4>1, SumInt DEF Sum
    <3>9. Sum(C(s), Shorts) = Sum(counts, s)
      <4> HIDE DEF C, x, t
      <4> QED BY <3>2, <3>3, <3>4, <3>6, <3>7, <3>8
    <3> QED BY <3>9
  <2> QED BY <2>1, <2>2
<1> HIDE DEF P
<1>2. kept \in P
  BY <1>0, <1>1, SmallerSets
<1> QED BY <1>2 DEF P, TotalOf, Sum

-----------------------------------------------------------------------------
(* The invariant.                                                           *)

Events ==
    [topic: {"file"}, list: Positions]
        \cup [topic: {"changed"}, list: Positions, count: Nat]
        \cup [topic: {"config"}, kept: SUBSET Positions]

TypeInv ==
    /\ setting \in Settings
    /\ disk \in [Positions -> Nat]
    /\ active \in SUBSET Positions
    /\ loaded \in [Positions -> Nat]
    /\ counter \in [Shorts -> Nat]
    /\ bus \in Seq(Events)

\* The counters add up as soon as they are set, before the handler listens.
AddUp == At("listen") \/ At("running") => total = Sum(counter, Shorts)

Inv == TypeInv /\ AddUp

\* The invariant holds when the construction begins.
LEMMA InvInit == Init => Inv
<1> SUFFICES ASSUME Init PROVE Inv
  OBVIOUS
<1>1. MaxRules \in Nat
  BY RuleCountsAssumption
<1>2. disk \in [Positions -> Nat]
  BY <1>1 DEF Init
<1>3. bus \in Seq(Events)
  BY DEF Init
<1>4. TypeInv
  BY <1>2, <1>3 DEF Init, TypeInv
<1>5. AddUp
  BY DEF Init, AddUp, At, LoadFrom
<1> QED BY <1>4, <1>5 DEF Inv

\* What is at the head of the bus, by its topic.
LEMMA HeadType ==
  ASSUME TypeInv, bus # <<>>
  PROVE  /\ Tail(bus) \in Seq(Events)
         /\ Head(bus).topic = "file" => Head(bus).list \in Positions
         /\ Head(bus).topic = "changed" =>
              Head(bus).list \in Positions /\ Head(bus).count \in Nat
         /\ Head(bus).topic = "config" => Head(bus).kept \in SUBSET Positions
<1>1. bus \in Seq(Events)
  BY DEF TypeInv
<1>2. Tail(bus) \in Seq(Events) /\ Head(bus) \in Events
  BY <1>1
<1>3. PICK e \in Events : e = Head(bus)
  BY <1>2
<1>4. /\ e.topic = "file" => e.list \in Positions
      /\ e.topic = "changed" => e.list \in Positions /\ e.count \in Nat
      /\ e.topic = "config" => e.kept \in SUBSET Positions
  BY DEF Events
<1> QED BY <1>2, <1>3, <1>4

\* An event sent is one of those the handlers know.
LEMMA BusGrows ==
  ASSUME NEW b \in Seq(Events), NEW e \in Events
  PROVE  Append(b, e) \in Seq(Events)
OBVIOUS

\* The handler that applies a new count moves the total by what the list's
\* counter moves.
LEMMA RecountKeeps ==
  ASSUME TypeInv, NEW n \in Shorts, NEW count \in Nat, Recount(n, count),
         total = Sum(counter, Shorts)
  PROVE  counter' \in [Shorts -> Nat] /\ total' = Sum(counter', Shorts)
<1>1. counter \in [Shorts -> Nat]
  BY DEF TypeInv
<1>2. counter' = [counter EXCEPT ![n] = count] /\ total' = total - counter[n] + count
  BY DEF Recount
<1>3. Sum(counter', Shorts) = Sum(counter, Shorts) - counter[n] + count
  <2>1. \A m \in Shorts : counter[m] \in Int /\ count \in Int
    BY <1>1
  <2>2. \A m \in Shorts : counter'[m] = IF m = n THEN count ELSE counter[m]
    BY <1>1, <1>2
  <2>3. SumFunctionOnSet(counter', Shorts) =
          SumFunctionOnSet(counter, Shorts) - counter[n] + count
    BY <2>1, <2>2, FinitelyManyLists, SumChanged
  <2> QED BY <2>3 DEF Sum
<1> QED BY <1>1, <1>2, <1>3

\* Every step keeps the invariant.
LEMMA InvStep == Inv /\ [Next]_<<vars, setting>> => Inv'
<1> SUFFICES ASSUME Inv, [Next]_<<vars, setting>> PROVE Inv'
  OBVIOUS
<1> USE DEF Inv
<1>1. CASE UNCHANGED <<vars, setting>>
  BY <1>1 DEF vars, TypeInv, AddUp, At, Sum
<1>2. CASE LoadNext /\ UNCHANGED setting
  <2>1. loaded' \in [Positions -> Nat]
    BY <1>2, Zenon DEF LoadNext, TypeInv
  <2>2. TypeInv'
    BY <1>2, <2>1 DEF LoadNext, TypeInv
  <2>3. AddUp'
    BY <1>2 DEF LoadNext, LoadFrom, AddUp, At
  <2> QED BY <2>2, <2>3
<1>3. CASE SetCounters /\ UNCHANGED setting
  <2>1. loaded \in [Positions -> Nat] /\ active \in SUBSET Positions
    BY DEF TypeInv
  <2>2. PICK c, a : c = loaded /\ a = active
    OBVIOUS
  <2>3. counter' = CountersOf(c, a) /\ total' = TotalOf(c, a)
    BY <1>3, <2>2 DEF SetCounters
  <2>4. counter' \in [Shorts -> Nat] /\ total' = Sum(counter', Shorts)
    BY <2>1, <2>2, <2>3, CountersType, CountersAddUp
  <2>5. TypeInv'
    BY <1>3, <2>4 DEF SetCounters, TypeInv
  <2>6. AddUp'
    BY <2>4 DEF AddUp, Sum
  <2> QED BY <2>5, <2>6
<1>4. CASE Listen /\ UNCHANGED setting
  BY <1>4 DEF Listen, TypeInv, AddUp, At, Sum
<1>5. CASE FileEvent /\ UNCHANGED setting
  <2> DEFINE i == Head(bus).list
             e == [topic |-> "changed", list |-> i, count |-> disk[i]]
  <2>1. Tail(bus) \in Seq(Events) /\ i \in Positions
    BY <1>5, HeadType DEF FileEvent, Takes
  <2>2. e \in Events
    BY <2>1 DEF TypeInv, Events
  <2>3. bus' = Append(Tail(bus), e) \/ bus' = Tail(bus)
    BY <1>5 DEF FileEvent
  <2> HIDE DEF e
  <2>4. bus' \in Seq(Events)
    BY <2>1, <2>2, <2>3, BusGrows
  <2> QED BY <1>5, <2>4 DEF FileEvent, TypeInv, AddUp, At, Sum
<1>6. CASE ChangedEvent /\ UNCHANGED setting
  <2>1. /\ Tail(bus) \in Seq(Events) /\ Head(bus).list \in Positions
        /\ Head(bus).count \in Nat
    BY <1>6, HeadType DEF ChangedEvent, Takes
  <2>2. bus' \in Seq(Events)
    BY <1>6, <2>1 DEF ChangedEvent
  <2>3. CASE At("running")
    <3>1. Short(Head(bus).list) \in Shorts
      BY <2>1 DEF Shorts
    <3>2. Recount(Short(Head(bus).list), Head(bus).count)
      BY <1>6, <2>3 DEF ChangedEvent
    <3>3. counter' \in [Shorts -> Nat] /\ total' = Sum(counter', Shorts)
      BY <2>1, <2>3, <3>1, <3>2, RecountKeeps DEF AddUp
    <3>4. TypeInv'
      BY <1>6, <2>2, <3>3 DEF ChangedEvent, TypeInv
    <3> QED BY <3>3, <3>4 DEF AddUp, Sum
  <2>4. CASE ~At("running")
    BY <1>6, <2>2, <2>4 DEF ChangedEvent, TypeInv, AddUp, At, Sum
  <2> QED BY <2>3, <2>4
<1>7. CASE ConfigEvent /\ UNCHANGED setting
  <2>1. Tail(bus) \in Seq(Events) /\ Head(bus).kept \in SUBSET Positions
    BY <1>7, HeadType DEF ConfigEvent, Takes
  <2>2. PICK kept \in SUBSET Positions : kept = Head(bus).kept
    BY <2>1
  <2>3. PICK counts : counts = [i \in Positions |-> IF i \in kept THEN disk[i] ELSE 0]
    OBVIOUS
  <2>4. counts \in [Positions -> Nat]
    BY <2>3 DEF TypeInv
  <2>5. /\ active' = kept /\ loaded' = counts /\ bus' = Tail(bus)
        /\ counter' = CountersOf(counts, kept) /\ total' = TotalOf(counts, kept)
        /\ UNCHANGED <<disk, setting>>
    BY <1>7, <2>2, <2>3 DEF ConfigEvent
  <2>6. counter' \in [Shorts -> Nat] /\ total' = Sum(counter', Shorts)
    BY <2>4, <2>5, CountersType, CountersAddUp
  <2>7. TypeInv'
    BY <2>1, <2>4, <2>5, <2>6 DEF TypeInv
  <2> QED BY <2>6, <2>7 DEF AddUp, Sum
<1>8. ASSUME NEW i \in Positions, NEW n \in 0..MaxRules, FileChange(i, n), UNCHANGED setting
      PROVE  Inv'
  <2>1. n \in Nat
    BY RuleCountsAssumption
  <2>2. [topic |-> "file", list |-> i] \in Events
    BY DEF Events
  <2>3. bus' \in Seq(Events)
    BY <1>8, <2>2, BusGrows DEF FileChange, TypeInv
  <2>4. disk' \in [Positions -> Nat]
    BY <1>8, <2>1 DEF FileChange, TypeInv
  <2> QED BY <1>8, <2>3, <2>4 DEF FileChange, TypeInv, AddUp, At, Sum
<1>9. ASSUME NEW kept \in Configs, ConfigChange(kept), UNCHANGED setting
      PROVE  Inv'
  <2>1. kept \in SUBSET Positions
    BY RuleCountsAssumption DEF TypeInv, Configs
  <2>2. [topic |-> "config", kept |-> kept] \in Events
    BY <2>1 DEF Events
  <2>3. bus' \in Seq(Events)
    BY <1>9, <2>2, BusGrows DEF ConfigChange, TypeInv
  <2> QED BY <1>9, <2>3 DEF ConfigChange, TypeInv, AddUp, At, Sum
<1> QED BY <1>1, <1>2, <1>3, <1>4, <1>5, <1>6, <1>7, <1>8, <1>9 DEF Next, Boot, Service

\* active-rules is the sum of the lists' counters whenever an engine listens,
\* for any lists with short names of their own and any number of rules and of
\* changes to files and configuration (engine_init.go:300-311, 355-360).
THEOREM CountsAddUp == Spec => []TotalIsSum
<1>1. Inv => TotalIsSum
  BY DEF Inv, AddUp, TotalIsSum, Sum
<1> QED BY <1>1, InvInit, InvStep, PTL DEF Spec

=============================================================================

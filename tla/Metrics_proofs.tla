--------------------------- MODULE Metrics_proofs ---------------------------
(***************************************************************************)
(* Proofs about the query counters for any number of web requests, any     *)
(* lives of the process, and any length of time and number of queries.     *)
(***************************************************************************)
EXTENDS Metrics, FiniteSetTheorems, FunctionTheorems, SequenceTheorems,
        WellFoundedInduction, TLAPS

\* The configuration is settled at the start.
LEMMA SettingStays ==
  ASSUME [Next]_<<vars, setting>>
  PROVE  [Next]_vars /\ setting' = setting
BY DEF Next

-----------------------------------------------------------------------------
(* The windows of the snapshots.                                            *)

\* A window lies between two inserts; while the process runs, all of them lie
\* before the last one.
WindowsInv ==
  /\ now \in Nat /\ lastInsert \in Nat /\ lastInsert <= now
  /\ \A r \in rows : /\ r.from \in Nat /\ r.at \in Nat
                     /\ r.from <= r.at /\ r.at <= now
                     /\ up => r.at <= lastInsert
  /\ WindowsDisjoint

\* Rows may be pruned, and the clock may move on.
LEMMA WindowsKept ==
  ASSUME WindowsInv, rows' \subseteq rows, up' => up, lastInsert' = lastInsert,
         now' = now \/ now' = now + 1
  PROVE  WindowsInv'
<1>1. now' \in Nat /\ lastInsert' \in Nat /\ lastInsert' <= now' /\ now <= now'
  BY DEF WindowsInv
<1>2. ASSUME NEW r \in rows'
      PROVE  /\ r.from \in Nat /\ r.at \in Nat
             /\ r.from <= r.at /\ r.at <= now'
             /\ up' => r.at <= lastInsert'
  <2>1. /\ r.from \in Nat /\ r.at \in Nat
        /\ r.from <= r.at /\ r.at <= now /\ now \in Nat
        /\ up => r.at <= lastInsert
    BY <1>2 DEF WindowsInv
  <2> QED BY <1>1, <2>1
<1>3. WindowsDisjoint'
  BY DEF WindowsInv, WindowsDisjoint
<1> QED BY <1>1, <1>2, <1>3 DEF WindowsInv

LEMMA WindowsStep == WindowsInv /\ [Next]_vars => WindowsInv'
<1> SUFFICES ASSUME WindowsInv, [Next]_vars PROVE WindowsInv'
  OBVIOUS
<1>1. CASE Start
  <2>1. lastInsert' = now /\ now' = now /\ rows' \subseteq rows
    BY <1>1 DEF Start, NewMetrics, Kept
  <2>2. WindowsDisjoint'
    BY <2>1 DEF WindowsInv, WindowsDisjoint
  <2> QED BY <2>1, <2>2 DEF WindowsInv
<1>2. CASE TickStored
  <2>1. /\ rows' = rows \cup {Snapshot} /\ now' = now + 1 /\ lastInsert' = now + 1
        /\ up /\ Snapshot.from = lastInsert /\ Snapshot.at = now + 1
    BY <1>2 DEF TickStored, Tick, insert, Snapshot
  <2>2. now \in Nat /\ lastInsert \in Nat /\ lastInsert <= now
    BY DEF WindowsInv
  <2>3. ASSUME NEW r \in rows'
        PROVE  /\ r.from \in Nat /\ r.at \in Nat
               /\ r.from <= r.at /\ r.at <= now'
               /\ up' => r.at <= lastInsert'
    <3>1. CASE r \in rows
      BY <2>1, <2>2, <3>1 DEF WindowsInv
    <3>2. CASE r = Snapshot
      BY <2>1, <2>2, <3>2
    <3> QED BY <2>1, <2>3, <3>1, <3>2
  <2>4. WindowsDisjoint'
    <3> SUFFICES ASSUME NEW r \in rows', NEW s \in rows', r # s
                 PROVE  r.at <= s.from \/ s.at <= r.from
      BY DEF WindowsDisjoint
    <3>1. CASE r \in rows /\ s \in rows
      BY <3>1 DEF WindowsInv, WindowsDisjoint
    <3>2. CASE r \in rows /\ s = Snapshot
      BY <2>1, <3>2 DEF WindowsInv
    <3>3. CASE s \in rows /\ r = Snapshot
      BY <2>1, <3>3 DEF WindowsInv
    <3> QED BY <2>1, <3>1, <3>2, <3>3
  <2>5. now' \in Nat /\ lastInsert' \in Nat /\ lastInsert' <= now'
    BY <2>1, <2>2
  <2> QED BY <2>3, <2>4, <2>5 DEF WindowsInv
<1>3. CASE TickRolledBack
  <2>1. rows' = rows /\ now' = now + 1 /\ lastInsert' = now + 1
    BY <1>3 DEF TickRolledBack, Tick, insert
  <2>2. now \in Nat
    BY DEF WindowsInv
  <2>3. ASSUME NEW r \in rows'
        PROVE  /\ r.from \in Nat /\ r.at \in Nat
               /\ r.from <= r.at /\ r.at <= now'
               /\ up' => r.at <= lastInsert'
    BY <2>1, <2>2, <2>3 DEF WindowsInv
  <2>4. WindowsDisjoint'
    BY <2>1 DEF WindowsInv, WindowsDisjoint
  <2>5. now' \in Nat /\ lastInsert' \in Nat /\ lastInsert' <= now'
    BY <2>1, <2>2
  <2> QED BY <2>3, <2>4, <2>5 DEF WindowsInv
<1>4. CASE \/ Shutdown \/ Kill \/ Off \/ GetFound \/ GetMissing \/ GetNew \/ Inc
           \/ TickNotStored \/ PruneTick \/ UNCHANGED vars
           \/ \E b \in BOOLEAN : Record(b)
           \/ \E r \in Active : WebNew(r) \/ \E n \in Names : WebGet(r, n)
  <2>1. /\ rows' \subseteq rows /\ (up' => up) /\ lastInsert' = lastInsert
        /\ now' = now \/ now' = now + 1
    <3>1. CASE Shutdown \/ Kill \/ Off \/ TickNotStored \/ PruneTick \/ UNCHANGED vars
      BY <3>1, SMTT(20) DEF Shutdown, Kill, Gone, Off, TickNotStored, Tick, PruneTick, vars, Kept
    <3>2. CASE \/ GetFound \/ GetMissing \/ GetNew \/ Inc
               \/ \E b \in BOOLEAN : Record(b)
               \/ \E r \in Active : WebNew(r) \/ \E n \in Names : WebGet(r, n)
      BY <3>2, Zenon DEF GetFound, GetMissing, GetNew, Inc, Record, WebNew, WebGet
    <3> QED BY <1>4, <3>1, <3>2
  <2> QED BY <2>1, WindowsKept
<1> QED BY <1>1, <1>2, <1>3, <1>4 DEF Next

LEMMA WindowsAlways == Spec => []WindowsInv
<1>1. Init => WindowsInv
  BY DEF Init, WindowsInv, WindowsDisjoint
<1> QED BY <1>1, SettingStays, WindowsStep, PTL DEF Spec

\* Snapshots stand for disjoint windows of time in any number of lives of the
\* process, however inserts, commits and prunes fail or succeed (metrics.go
\* 208, 336, 346).
THEOREM WindowsAddUp == Spec => []WindowsDisjoint
<1>1. WindowsInv => WindowsDisjoint
  BY DEF WindowsInv
<1> QED BY <1>1, WindowsAlways, PTL

-----------------------------------------------------------------------------
(* The counters: objects, and the map that leads to them.                   *)

\* The map leads to objects that exist, to different ones from different names;
\* the interval counters are there from the start.
CounterInv ==
  /\ table \in [Names -> Nat \cup {NoMetric}] /\ heap \in Seq(Nat)
  /\ \A n \in Names : table[n] # NoMetric => table[n] \in 1..Len(heap)
  /\ \A m, n \in Names : table[m] # NoMetric /\ table[m] = table[n] => m = n
  /\ up => \A n \in Interval : table[n] # NoMetric

\* What the snapshots say are numbers.
RowValues ==
  \A r \in rows : /\ DOMAIN r.values \subseteq Names
                  /\ \A n \in DOMAIN r.values : r.values[n] \in Nat

\* Of naturals there is a least.
LEMMA LeastNatural ==
  ASSUME NEW S, S \subseteq Nat, S # {}
  PROVE  \E x \in S : \A y \in S : x <= y
<1> DEFINE R == OpToRel(<, Nat)
<1>1. \A x, y \in Nat : <<y, x>> \in R <=> y < x
  BY DEF OpToRel
<1>2. IsWellFoundedOn(R, Nat)
  BY NatLessThanWellFounded
<1> HIDE DEF R
<1>3. \E x \in S : \A y \in S : ~(<<y, x>> \in R)
  BY <1>2, WFMin, Zenon
<1>4. PICK x \in S : \A y \in S : ~(<<y, x>> \in R)
  BY <1>3
<1>5. ASSUME NEW y \in S PROVE x <= y
  <2>1. ~(y < x) /\ x \in Nat /\ y \in Nat
    BY <1>1, <1>4, Zenon
  <2> QED BY <2>1
<1> QED BY <1>5

\* The newest snapshot is one of them, and none is newer.
LEMMA NewestRow ==
  ASSUME WindowsInv, rows # {}
  PROVE  Newest \in rows /\ \A s \in rows : s.at <= Newest.at
<1> DEFINE Ages == {now - r.at : r \in rows}
<1>1. now \in Nat /\ \A r \in rows : r.at \in Nat /\ r.at <= now
  BY DEF WindowsInv
<1>2. \A a \in Ages : a \in Nat
  BY <1>1
<1>3. Ages # {}
  OBVIOUS
<1>4. PICK a \in Ages : \A b \in Ages : a <= b
  <2> HIDE DEF Ages
  <2> QED BY <1>2, <1>3, LeastNatural
<1>5. PICK r \in rows : a = now - r.at
  BY <1>4
<1>6. ASSUME NEW s \in rows PROVE s.at <= r.at
  <2>1. now - r.at <= now - s.at
    BY <1>4, <1>5
  <2> QED BY <1>1, <2>1
<1> QED BY <1>6 DEF Newest

LEMMA LoadValues ==
  ASSUME WindowsInv, RowValues
  PROVE  /\ \A n \in DOMAIN load : load[n] \in Nat
         /\ Persist => \A r \in rows : /\ Newest \in rows /\ load = Newest.values
                                       /\ r.at <= Newest.at
<1>1. CASE Persist /\ rows # {}
  BY <1>1, NewestRow DEF load, RowValues
<1>2. CASE ~(Persist /\ rows # {})
  BY <1>2 DEF load
<1> QED BY <1>1, <1>2

\* The constructor numbers the counters it makes.
LEMMA PlaceOfMade ==
  /\ Cardinality(Made) \in Nat /\ Made \subseteq Names /\ Interval \subseteq Made
  /\ Place \in [Made -> 1..Cardinality(Made)]
  /\ \A m, n \in Made : Place[m] = Place[n] => m = n
<1>1. Made \subseteq Names /\ Interval \subseteq Made
  BY DEF Made, Lifetime, Interval, Names, Total, Blocked
<1>2. IsFiniteSet(Names)
  <2>1. /\ IsFiniteSet({"total-session-queries", "total-lifetime-queries"} \cup {"total-interval-queries"})
        /\ IsFiniteSet({"blocked-session-queries", "blocked-lifetime-queries"} \cup {"blocked-interval-queries"})
    <3>1. /\ IsFiniteSet({"total-session-queries"} \cup {"total-lifetime-queries"})
          /\ IsFiniteSet({"blocked-session-queries"} \cup {"blocked-lifetime-queries"})
      BY FS_Singleton, FS_AddElement, Zenon
    <3>2. /\ {"total-session-queries"} \cup {"total-lifetime-queries"}
               = {"total-session-queries", "total-lifetime-queries"}
          /\ {"blocked-session-queries"} \cup {"blocked-lifetime-queries"}
               = {"blocked-session-queries", "blocked-lifetime-queries"}
      OBVIOUS
    <3> QED BY <3>1, <3>2, FS_AddElement
  <2>2. /\ Total = {"total-session-queries", "total-lifetime-queries"} \cup {"total-interval-queries"}
        /\ Blocked = {"blocked-session-queries", "blocked-lifetime-queries"} \cup {"blocked-interval-queries"}
    BY DEF Total, Blocked
  <2> QED BY <2>1, <2>2, FS_Union, Zenon DEF Names
<1>3. IsFiniteSet(Made)
  BY <1>1, <1>2, FS_Subset
<1>4. Cardinality(Made) \in Nat /\ ExistsBijection(1..Cardinality(Made), Made)
  BY <1>3, FS_CardinalityType
<1>5. ExistsBijection(Made, 1..Cardinality(Made))
  BY <1>4, Fun_ExistsBijSymmetric
<1>6. \E f \in [Made -> 1..Cardinality(Made)] : \A m, n \in Made : f[m] = f[n] => m = n
  BY <1>5 DEF ExistsBijection, Bijection, Injection, IsInjective
<1> QED BY <1>1, <1>4, <1>6 DEF Place

\* The lifetime counters begin with what load() found, the interval counters
\* with nothing.
LEMMA NewMetricsCounters ==
  ASSUME WindowsInv, RowValues, NewMetrics
  PROVE  /\ CounterInv'
         /\ \A n \in Interval : Value(n)' = 0
         /\ \A n \in Lifetime : Value(n)' = IF n \in DOMAIN load THEN load[n] ELSE 0
<1> DEFINE C == Cardinality(Made)
           Name(i) == CHOOSE m \in Made : Place[m] = i
           First(n) == IF n \in Lifetime THEN load[n] ELSE 0
<1>1. /\ C \in Nat /\ Made \subseteq Names /\ Interval \subseteq Made
      /\ Place \in [Made -> 1..C] /\ \A m, n \in Made : Place[m] = Place[n] => m = n
  BY PlaceOfMade
<1>2. /\ table' = [n \in Names |-> IF n \in Made THEN Place[n] ELSE NoMetric]
      /\ heap' = [i \in 1..C |-> First(Name(i))]
  BY DEF NewMetrics
<1>3. NoMetric \notin Nat /\ \A n \in DOMAIN load : load[n] \in Nat
  BY MetricsAssumption, LoadValues
<1>4. \A n \in Made : Name(Place[n]) = n
  BY <1>1
<1>5. Made = (DOMAIN load \cap Lifetime) \cup Interval /\ Interval \cap Lifetime = {}
  BY DEF Made, Interval, Lifetime
<1>6. \A n \in Made : First(n) \in Nat
  BY <1>3, <1>5
<1>7. heap' \in Seq(Nat) /\ Len(heap') = C
  <2>1. Place \in Surjection(Made, 1..C)
    <3>1. IsFiniteSet(1..C) /\ Cardinality(1..C) = C
      BY <1>1, FS_Interval
    <3>2. Place \in Injection(Made, 1..C)
      BY <1>1 DEF Injection, IsInjective
    <3> HIDE DEF C
    <3>3. Cardinality(Made) = C
      BY DEF C
    <3> QED BY <3>1, <3>2, <3>3, FS_Injection
  <2>2. \A i \in 1..C : Name(i) \in Made
    BY <2>1 DEF Surjection
  <2>3. heap' \in [1..C -> Nat]
    <3> HIDE DEF C, Name, First
    <3> QED BY <1>2, <1>6, <2>2
  <2> HIDE DEF C
  <2> QED BY <1>1, <2>3
<1> HIDE DEF C, Name, First
<1>8. \A n \in Made : table'[n] = Place[n] /\ Place[n] \in 1..C /\ heap'[table'[n]] = First(n)
  BY <1>1, <1>2, <1>4
<1>9. \A n \in Names : n \notin Made => table'[n] = NoMetric
  BY <1>2
<1>10. \A i \in 1..C : i \in Nat /\ i # NoMetric
  BY <1>1, <1>3
<1>11. CounterInv'
  <2>1. table' \in [Names -> Nat \cup {NoMetric}]
    BY <1>1, <1>2, <1>10
  <2>2. \A n \in Names : table'[n] # NoMetric => table'[n] \in 1..Len(heap')
    BY <1>7, <1>8, <1>9
  <2>3. \A m, n \in Names : table'[m] # NoMetric /\ table'[m] = table'[n] => m = n
    BY <1>1, <1>8, <1>9
  <2>4. \A n \in Interval : table'[n] # NoMetric
    BY <1>1, <1>8, <1>10
  <2> QED BY <1>7, <2>1, <2>2, <2>3, <2>4 DEF CounterInv
<1>12. \A n \in Made : Value(n)' = First(n)
  BY <1>8, <1>10 DEF Value
<1>13. ASSUME NEW n \in Lifetime
       PROVE  Value(n)' = IF n \in DOMAIN load THEN load[n] ELSE 0
  <2>1. n \in Names
    BY DEF Lifetime, Names, Total, Blocked
  <2>2. CASE n \in DOMAIN load
    BY <1>5, <1>12, <2>2 DEF First
  <2>3. CASE n \notin DOMAIN load
    <3>1. n \notin Made
      BY <1>5, <2>3
    <3> QED BY <1>9, <2>1, <2>3, <3>1 DEF Value
  <2> QED BY <2>2, <2>3
<1>14. \A n \in Interval : Value(n)' = 0
  BY <1>1, <1>5, <1>12 DEF First
<1> QED BY <1>11, <1>13, <1>14

\* A new counter under a name takes nothing from the counters of others.
LEMMA NewCounter ==
  ASSUME CounterInv, NEW name \in Names \ Interval, New(name), up' = up
  PROVE  /\ CounterInv'
         /\ Len(heap') = Len(heap) + 1
         /\ Value(name)' = 0
         /\ \A n \in Names : n # name => table'[n] = table[n] /\ Value(n)' = Value(n)
<1>1. /\ table \in [Names -> Nat \cup {NoMetric}] /\ heap \in Seq(Nat)
      /\ \A n \in Names : table[n] # NoMetric => table[n] \in 1..Len(heap)
      /\ \A m, n \in Names : table[m] # NoMetric /\ table[m] = table[n] => m = n
      /\ up => \A n \in Interval : table[n] # NoMetric
  BY DEF CounterInv
<1>2. heap' = Append(heap, 0) /\ table' = [table EXCEPT ![name] = Len(heap) + 1]
  BY DEF New
<1>3. /\ heap' \in Seq(Nat) /\ Len(heap) \in Nat /\ Len(heap') = Len(heap) + 1
      /\ \A i \in 1..Len(heap) : heap'[i] = heap[i] /\ i \in 1..Len(heap') /\ i # Len(heap) + 1
      /\ heap'[Len(heap) + 1] = 0 /\ Len(heap) + 1 \in 1..Len(heap')
      /\ Len(heap) + 1 \in Nat
  BY <1>1, <1>2
<1>4. /\ table' \in [Names -> Nat \cup {NoMetric}]
      /\ table'[name] = Len(heap) + 1 /\ table'[name] # NoMetric
      /\ \A n \in Names : n # name => table'[n] = table[n]
  BY <1>1, <1>2, <1>3, MetricsAssumption
<1>5. \A n \in Names : table'[n] # NoMetric => table'[n] \in 1..Len(heap')
  BY <1>1, <1>3, <1>4
<1>6. \A m, n \in Names : table'[m] # NoMetric /\ table'[m] = table'[n] => m = n
  BY <1>1, <1>3, <1>4, SMTT(20)
<1>7. up' => \A n \in Interval : table'[n] # NoMetric
  BY <1>1, <1>4 DEF Interval, Names, Total, Blocked
<1>8. CounterInv'
  BY <1>3, <1>4, <1>5, <1>6, <1>7 DEF CounterInv
<1>9. Value(name)' = 0 /\ \A n \in Names : n # name => Value(n)' = Value(n)
  BY <1>1, <1>3, <1>4 DEF Value
<1> QED BY <1>3, <1>4, <1>8, <1>9

\* Clearing the interval counters clears no other.
LEMMA ClearedCounters ==
  ASSUME CounterInv, heap' = Clear(Interval), table' = table, up' = up
  PROVE  /\ CounterInv' /\ Len(heap') = Len(heap)
         /\ \A n \in Interval : Value(n)' = 0
         /\ \A n \in Names \ Interval : Value(n)' = Value(n)
<1>1. /\ table \in [Names -> Nat \cup {NoMetric}] /\ heap \in Seq(Nat)
      /\ \A n \in Names : table[n] # NoMetric => table[n] \in 1..Len(heap)
      /\ \A m, n \in Names : table[m] # NoMetric /\ table[m] = table[n] => m = n
  BY DEF CounterInv
<1>2. Interval \subseteq Names
  BY DEF Interval, Names, Total, Blocked
<1>3. /\ DOMAIN heap = 1..Len(heap)
      /\ \A i \in 1..Len(heap) : heap[i] \in Nat
  BY <1>1
<1>4. heap' = [i \in 1..Len(heap) |-> IF \E n \in Interval : table[n] = i THEN 0 ELSE heap[i]]
  BY <1>3 DEF Clear
<1>5. heap' \in [1..Len(heap) -> Nat]
  BY <1>3, <1>4
<1>6. heap' \in Seq(Nat) /\ Len(heap') = Len(heap)
  <2>1. Len(heap) \in Nat
    BY <1>1
  <2> QED BY <1>5, <2>1
<1>7. CounterInv'
  BY <1>6 DEF CounterInv
<1>8. \A n \in Interval : Value(n)' = 0
  BY <1>1, <1>2, <1>4 DEF Value
<1>9. \A n \in Names \ Interval : Value(n)' = Value(n)
  BY <1>1, <1>2, <1>4 DEF Value
<1> QED BY <1>6, <1>7, <1>8, <1>9

\* Raising an object by one raises the counters that lead to it, and no other.
LEMMA RaisedCounter ==
  ASSUME CounterInv, NEW k \in 1..Len(heap), heap' = [heap EXCEPT ![k] = @ + 1],
         table' = table, up' = up
  PROVE  /\ CounterInv' /\ Len(heap') = Len(heap)
         /\ \A n \in Names : /\ Value(n) \in Nat
                             /\ Value(n)' = IF table[n] = k THEN Value(n) + 1 ELSE Value(n)
<1>1. /\ table \in [Names -> Nat \cup {NoMetric}] /\ heap \in Seq(Nat)
      /\ \A n \in Names : table[n] # NoMetric => table[n] \in 1..Len(heap)
      /\ \A m, n \in Names : table[m] # NoMetric /\ table[m] = table[n] => m = n
  BY DEF CounterInv
<1>2. /\ heap' \in Seq(Nat) /\ Len(heap') = Len(heap) /\ Len(heap) \in Nat
      /\ \A i \in 1..Len(heap) :
           heap[i] \in Nat /\ heap'[i] = IF i = k THEN heap[i] + 1 ELSE heap[i]
  BY <1>1
<1>3. CounterInv'
  BY <1>2 DEF CounterInv
<1>4. k # NoMetric
  BY <1>2, MetricsAssumption
<1>5. ASSUME NEW n \in Names
      PROVE  /\ Value(n) \in Nat
             /\ Value(n)' = IF table[n] = k THEN Value(n) + 1 ELSE Value(n)
  BY <1>1, <1>2, <1>4 DEF Value
<1> QED BY <1>2, <1>3, <1>5

-----------------------------------------------------------------------------
(* The worker and the web requests.                                         *)

T == "total-interval-queries"
Todo == worker.todo

\* The worker bumps each counter of a query once.  It has never to make an
\* interval counter, and the object in its hands is an interval counter's only
\* if that counter is the next to bump.
WorkerInv ==
  /\ worker = [todo |-> worker.todo, pc |-> worker.pc, metric |-> worker.metric]
  /\ Todo \in Seq(Names) /\ worker.pc \in {"idle", "get", "new", "inc"}
  /\ worker.pc = "idle" <=> Todo = <<>>
  /\ \A i, j \in 1..Len(Todo) : Todo[i] = Todo[j] => i = j
  /\ worker.pc = "new" => Head(Todo) \notin Interval
  /\ worker.pc = "new" /\ Active = {} => table[Head(Todo)] = NoMetric
  /\ worker.pc = "inc" =>
       /\ worker.metric \in 1..Len(heap)
       /\ \A n \in Interval : worker.metric = table[n] <=> n = Head(Todo)

\* Nor has a web request.
ReaderInv == reader \in [Readers -> (Names \ Interval) \cup {NoMetric}]

\* One for a query that the worker has not bumped the interval counter for yet.
Pending == IF \E i \in 1..Len(Todo) : Todo[i] = T THEN 1 ELSE 0

\* While the process runs with a database, no query is lost or counted twice.
TallyInv ==
  /\ tally \in [recorded : Nat, stored : Nat, dropped : Nat]
  /\ up /\ HasDb => tally.stored + tally.dropped + Value(T) + Pending = tally.recorded

\* Later snapshots are not behind earlier ones, nor are the counters.
LifetimeInv ==
  Persist /\ Active = {} =>
    /\ \A r, s \in rows : r.at <= s.at => \A n \in Lifetime : In(r, n) <= In(s, n)
    /\ up => \A r \in rows, n \in Lifetime : In(r, n) <= Value(n)

Inv ==
  /\ setting \in Settings
  /\ WindowsInv /\ RowValues
  /\ CounterInv /\ WorkerInv /\ ReaderInv
  /\ TallyInv /\ LifetimeInv

LEMMA KindsOfNames ==
  /\ T \in Interval /\ Interval \subseteq Names
  /\ Lifetime \subseteq Names \ Interval
BY DEF T, Interval, Lifetime, Names, Total, Blocked

\* The counters of a query are different ones, and the third counts intervals.
LEMMA BumpsOnce ==
  ASSUME NEW b \in BOOLEAN
  PROVE  /\ Bumps(b) \in Seq(Names) /\ Bumps(b) # <<>>
         /\ \A i, j \in 1..Len(Bumps(b)) : Bumps(b)[i] = Bumps(b)[j] => i = j
         /\ \E i \in 1..Len(Bumps(b)) : Bumps(b)[i] = T
<1> DEFINE three == <<"total-session-queries", "total-lifetime-queries",
                      "total-interval-queries">>
           six == <<"total-session-queries", "total-lifetime-queries",
                    "total-interval-queries", "blocked-session-queries",
                    "blocked-lifetime-queries", "blocked-interval-queries">>
<1>1. Bumps(b) = three \/ Bumps(b) = six
  <2> DEFINE more == <<"blocked-session-queries", "blocked-lifetime-queries",
                       "blocked-interval-queries">>
  <2>1. three \o <<>> = three
    BY ConcatEmptySeq
  <2>2. three \o more = six
    <3>1. three \in Seq(Names) /\ more \in Seq(Names) /\ six \in Seq(Names)
      BY DEF Names, Total, Blocked
    <3>2. Len(three) = 3 /\ Len(more) = 3 /\ Len(six) = 6
      OBVIOUS
    <3>3. Len(three \o more) = 6 /\ three \o more \in Seq(Names)
      BY <3>1, <3>2
    <3>4. ASSUME NEW i \in 1..6 PROVE (three \o more)[i] = six[i]
      BY <3>1, <3>2, i \in {1, 2, 3, 4, 5, 6}
    <3> QED BY <3>1, <3>2, <3>3, <3>4, SeqEqual, Zenon
  <2> QED BY <2>1, <2>2, Zenon DEF Bumps
<1>2. CASE Bumps(b) = three
  BY <1>2 DEF Names, Total, Blocked, T
<1>3. CASE Bumps(b) = six
  BY <1>3 DEF Names, Total, Blocked, T
<1> QED BY <1>1, <1>2, <1>3

\* What is left of a queue whose head is done.
LEMMA TodoTail ==
  ASSUME WorkerInv, Todo # <<>>
  PROVE  LET rest == Tail(Todo)
         IN  /\ Head(Todo) \in Names /\ rest \in Seq(Names)
             /\ rest = <<>> <=> Len(Todo) = 1
             /\ \A i, j \in 1..Len(rest) : rest[i] = rest[j] => i = j
             /\ (\E i \in 1..Len(rest) : rest[i] = T)
                  <=> Head(Todo) # T /\ \E i \in 1..Len(Todo) : Todo[i] = T
<1> DEFINE rest == Tail(Todo)
<1>1. Todo \in Seq(Names) /\ \A i, j \in 1..Len(Todo) : Todo[i] = Todo[j] => i = j
  BY DEF WorkerInv
<1>2. /\ Head(Todo) \in Names /\ Head(Todo) = Todo[1] /\ rest \in Seq(Names)
      /\ Len(Todo) \in Nat /\ Len(Todo) > 0 /\ Len(rest) = Len(Todo) - 1
      /\ \A i \in 1..Len(rest) : rest[i] = Todo[i + 1]
  BY <1>1
<1>3. rest = <<>> <=> Len(Todo) = 1
  <2>1. rest = <<>> <=> Len(rest) = 0
    BY <1>2, EmptySeq, Zenon
  <2> QED BY <1>2, <2>1
<1> HIDE DEF rest
<1>4. ASSUME NEW i \in 1..Len(rest), NEW j \in 1..Len(rest), rest[i] = rest[j]
      PROVE  i = j
  <2>1. i + 1 \in 1..Len(Todo) /\ j + 1 \in 1..Len(Todo)
    BY <1>2
  <2>2. i + 1 = j + 1
    BY <1>1, <1>2, <1>4, <2>1
  <2> QED BY <2>2
<1>5. ASSUME NEW i \in 1..Len(rest), rest[i] = T
      PROVE  Head(Todo) # T /\ \E k \in 1..Len(Todo) : Todo[k] = T
  <2>1. i + 1 \in 1..Len(Todo) /\ 1 \in 1..Len(Todo) /\ i + 1 # 1
    BY <1>2
  <2> QED BY <1>1, <1>2, <1>5, <2>1
<1>6. ASSUME Head(Todo) # T, NEW k \in 1..Len(Todo), Todo[k] = T
      PROVE  \E i \in 1..Len(rest) : rest[i] = T
  <2>1. k # 1
    BY <1>2, <1>6
  <2>2. k - 1 \in 1..Len(rest) /\ (k - 1) + 1 = k
    BY <1>2, <2>1
  <2>3. rest[k - 1] = T
    BY <1>2, <1>6, <2>2
  <2> QED BY <2>2, <2>3
<1> QED BY <1>2, <1>3, <1>4, <1>5, <1>6 DEF rest

-----------------------------------------------------------------------------
(* What every step but a few leaves alone.                                  *)

LEMMA ValueNat ==
  ASSUME CounterInv, NEW n \in Names
  PROVE  Value(n) \in Nat
<1>1. heap \in Seq(Nat) /\ (table[n] # NoMetric => table[n] \in 1..Len(heap))
  BY DEF CounterInv
<1> QED BY <1>1 DEF Value

LEMMA SameSetting ==
  ASSUME setting' = setting
  PROVE  Active' = Active /\ HasDb' = HasDb /\ Persist' = Persist
BY DEF Active, HasDb, Persist

LEMMA RowValuesKept == RowValues /\ rows' \subseteq rows => RowValues'
BY DEF RowValues

LEMMA LifetimeKept ==
  ASSUME LifetimeInv, RowValues, setting' = setting, rows' \subseteq rows, up' => up,
         up' /\ Active = {} =>
           \A n \in Lifetime : Value(n) \in Nat /\ Value(n)' \in Nat /\ Value(n) <= Value(n)'
  PROVE  LifetimeInv'
<1>1. Active' = Active /\ Persist' = Persist
  BY SameSetting
<1>2. ASSUME NEW r \in rows, NEW n \in Lifetime PROVE In(r, n) \in Nat
  BY DEF RowValues, In
<1> SUFFICES ASSUME Persist, Active = {}
             PROVE  /\ \A r, s \in rows' : r.at <= s.at => \A n \in Lifetime : In(r, n) <= In(s, n)
                    /\ up' => \A r \in rows', n \in Lifetime : In(r, n) <= Value(n)'
  BY <1>1 DEF LifetimeInv
<1>3. \A r, s \in rows' : r.at <= s.at => \A n \in Lifetime : In(r, n) <= In(s, n)
  BY DEF LifetimeInv
<1>4. ASSUME up', NEW r \in rows', NEW n \in Lifetime PROVE In(r, n) <= Value(n)'
  <2>1. In(r, n) <= Value(n)
    BY <1>4 DEF LifetimeInv
  <2> QED BY <1>2, <1>4, <2>1
<1> QED BY <1>3, <1>4

LEMMA TallyKept ==
  ASSUME TallyInv, setting' = setting, tally' = tally, worker'.todo = worker.todo,
         up' => up, up' => Value(T)' = Value(T)
  PROVE  TallyInv'
<1>1. HasDb' = HasDb
  BY SameSetting
<1>2. Pending' = Pending
  BY DEF Pending, Todo
<1> QED BY <1>1, <1>2 DEF TallyInv

\* The worker does nothing, and the objects it may hold stay where they are.
LEMMA WorkerKept ==
  ASSUME WorkerInv, CounterInv, setting' = setting, worker' = worker,
         \/ table' = table /\ Len(heap') = Len(heap)
         \/ worker.pc = "idle"
  PROVE  WorkerInv'
<1>1. Active' = Active /\ Todo' = Todo
  BY SameSetting DEF Todo
<1>2. CASE table' = table /\ Len(heap') = Len(heap)
  BY <1>1, <1>2 DEF WorkerInv
<1>3. CASE worker.pc = "idle"
  BY <1>1, <1>3 DEF WorkerInv
<1> QED BY <1>2, <1>3

\* Without the counters, only rows and clock change.
LEMMA RestKept ==
  ASSUME Inv, setting' = setting, WindowsInv', rows' \subseteq rows, up' = up,
         UNCHANGED <<table, heap, worker, reader, tally>>
  PROVE  Inv'
<1>1. CounterInv' /\ ReaderInv'
  BY DEF Inv, CounterInv, ReaderInv
<1>2. WorkerInv'
  BY WorkerKept DEF Inv
<1>3. \A n \in Names : Value(n)' = Value(n)
  BY DEF Value
<1>4. TallyInv'
  BY <1>3, TallyKept, KindsOfNames DEF Inv
<1>5. \A n \in Lifetime : Value(n) \in Nat /\ Value(n)' = Value(n)
  BY <1>3, ValueNat, KindsOfNames DEF Inv
<1>6. LifetimeInv'
  BY <1>5, LifetimeKept DEF Inv
<1> QED BY <1>1, <1>2, <1>4, <1>6, RowValuesKept DEF Inv

-----------------------------------------------------------------------------
(* One lemma for each kind of step.                                         *)

LEMMA StartStep ==
  ASSUME Inv, setting' = setting, WindowsInv', Start
  PROVE  Inv'
<1>1. /\ NewMetrics /\ rows' \subseteq rows /\ worker' = Idle /\ tally' = NoTally
      /\ reader' = reader
  BY DEF Start, Kept
<1>2. /\ CounterInv' /\ Value(T)' = 0
      /\ \A n \in Lifetime : Value(n)' = IF n \in DOMAIN load THEN load[n] ELSE 0
  BY <1>1, NewMetricsCounters, KindsOfNames DEF Inv
<1>3. WorkerInv'
  BY <1>1 DEF WorkerInv, Todo, Idle
<1>4. TallyInv'
  <2>1. Pending' = 0
    BY <1>1 DEF Pending, Todo, Idle
  <2> QED BY <1>1, <1>2, <2>1 DEF TallyInv, NoTally
<1>5. LifetimeInv'
  <2> SUFFICES ASSUME Persist, Active = {}
               PROVE  /\ \A r, s \in rows' : r.at <= s.at => \A n \in Lifetime : In(r, n) <= In(s, n)
                      /\ \A r \in rows', n \in Lifetime : In(r, n) <= Value(n)'
    BY SameSetting, Zenon DEF LifetimeInv
  <2>1. \A r, s \in rows : r.at <= s.at => \A n \in Lifetime : In(r, n) <= In(s, n)
    BY DEF Inv, LifetimeInv
  <2>2. ASSUME NEW r \in rows, NEW n \in Lifetime PROVE In(r, n) <= Value(n)'
    <3>1. Newest \in rows /\ load = Newest.values /\ r.at <= Newest.at
      BY LoadValues DEF Inv
    <3>2. Value(n)' = In(Newest, n)
      BY <1>2, <3>1 DEF In
    <3> QED BY <2>1, <3>1, <3>2
  <2> QED BY <1>1, <2>1, <2>2
<1>6. ReaderInv'
  BY <1>1 DEF Inv, ReaderInv
<1> QED BY <1>1, <1>2, <1>3, <1>4, <1>5, <1>6, RowValuesKept, SMTT(20) DEF Inv

LEMMA GoneStep ==
  ASSUME Inv, setting' = setting, WindowsInv', Gone, rows' \subseteq rows
  PROVE  Inv'
<1>1. /\ up' = FALSE /\ table' = [n \in Names |-> NoMetric] /\ heap' = <<>>
      /\ worker' = Idle /\ reader' = [r \in Readers |-> NoMetric] /\ tally' = tally
  BY DEF Gone
<1>2. CounterInv' /\ WorkerInv' /\ ReaderInv'
  <2>1. CounterInv'
    BY <1>1 DEF CounterInv
  <2>2. WorkerInv'
    BY <1>1 DEF WorkerInv, Todo, Idle
  <2>3. ReaderInv'
    BY <1>1 DEF ReaderInv
  <2> QED BY <2>1, <2>2, <2>3
<1>3. TallyInv'
  BY <1>1 DEF Inv, TallyInv
<1>4. LifetimeInv'
  BY <1>1, LifetimeKept DEF Inv
<1> QED BY <1>2, <1>3, <1>4, RowValuesKept DEF Inv

LEMMA RecordStep ==
  ASSUME Inv, setting' = setting, WindowsInv', NEW b \in BOOLEAN, Record(b)
  PROVE  Inv'
<1>1. /\ up' = up /\ table' = table /\ heap' = heap /\ reader' = reader /\ rows' = rows
      /\ up /\ worker.pc = "idle" /\ tally' = [tally EXCEPT !.recorded = @ + 1]
  BY DEF Record
<1>2. CounterInv' /\ ReaderInv' /\ \A n \in Names : Value(n)' = Value(n)
  BY <1>1 DEF Inv, CounterInv, ReaderInv, Value
<1>3. HasDb' = HasDb
  BY SameSetting
<1>4. /\ tally' \in [recorded : Nat, stored : Nat, dropped : Nat]
      /\ tally'.recorded = tally.recorded + 1 /\ tally'.stored = tally.stored
      /\ tally'.dropped = tally.dropped /\ tally.recorded \in Nat /\ tally.stored \in Nat
      /\ tally.dropped \in Nat
  BY <1>1 DEF Inv, TallyInv
<1>5. LifetimeInv'
  <2>1. \A n \in Lifetime : Value(n) \in Nat /\ Value(n)' = Value(n)
    BY <1>2, ValueNat, KindsOfNames DEF Inv
  <2> QED BY <1>1, <2>1, LifetimeKept DEF Inv
<1>6. CASE ~HasDb
  <2>1. worker' = worker
    BY <1>6 DEF Record
  <2>2. WorkerInv'
    BY <1>1, <2>1, WorkerKept DEF Inv
  <2>3. TallyInv'
    BY <1>3, <1>4, <1>6, SMTT(20) DEF TallyInv
  <2> QED BY <1>1, <1>2, <1>5, <2>2, <2>3, RowValuesKept DEF Inv
<1>7. CASE HasDb
  <2>1. worker' = [Idle EXCEPT !.todo = Bumps(b), !.pc = "get"]
    BY <1>7 DEF Record
  <2>2. worker' = [todo |-> Bumps(b), pc |-> "get", metric |-> NoMetric]
    BY <2>1, Zenon DEF Idle
  <2>3. /\ Bumps(b) \in Seq(Names) /\ Bumps(b) # <<>>
        /\ \A i, j \in 1..Len(Bumps(b)) : Bumps(b)[i] = Bumps(b)[j] => i = j
        /\ \E i \in 1..Len(Bumps(b)) : Bumps(b)[i] = T
    BY BumpsOnce
  <2> HIDE DEF Bumps
  <2>4. WorkerInv'
    BY <2>2, <2>3 DEF WorkerInv, Todo
  <2>5. Pending' = 1 /\ Pending = 0
    BY <1>1, <2>2, <2>3 DEF Pending, Todo, Inv, WorkerInv
  <2>6. Value(T) \in Nat /\ Value(T)' = Value(T)
    BY <1>2, ValueNat, KindsOfNames DEF Inv
  <2>7. tally.stored + tally.dropped + Value(T) + Pending = tally.recorded
    BY <1>1, <1>7 DEF Inv, TallyInv
  <2>8. tally'.stored + tally'.dropped + Value(T)' + Pending' = tally'.recorded
    BY <1>4, <2>5, <2>6, <2>7
  <2>9. TallyInv'
    BY <1>4, <2>8 DEF TallyInv
  <2> QED BY <1>1, <1>2, <1>5, <2>4, <2>9, RowValuesKept DEF Inv
<1> QED BY <1>6, <1>7

\* The worker looks a counter up.
LEMMA GetStep ==
  ASSUME Inv, setting' = setting, WindowsInv', GetFound \/ GetMissing
  PROVE  Inv'
<1>1. /\ UNCHANGED <<up, table, heap, reader, rows, tally>>
      /\ up /\ worker.pc = "get"
      /\ \/ /\ table[Head(Todo)] # NoMetric
            /\ worker' = [worker EXCEPT !.pc = "inc", !.metric = table[Head(Todo)]]
         \/ /\ table[Head(Todo)] = NoMetric
            /\ worker' = [worker EXCEPT !.pc = "new"]
  BY DEF GetFound, GetMissing, Todo
<1>2. CounterInv' /\ ReaderInv' /\ \A n \in Names : Value(n)' = Value(n)
  BY <1>1 DEF Inv, CounterInv, ReaderInv, Value
<1>3. WorkerInv /\ Todo # <<>> /\ CounterInv
  BY <1>1 DEF Inv, WorkerInv
<1>4. worker = [todo |-> worker.todo, pc |-> worker.pc, metric |-> worker.metric]
  BY <1>3 DEF WorkerInv
<1>5. /\ Todo' = Todo /\ worker'.todo = worker.todo
      /\ worker' = [todo |-> worker'.todo, pc |-> worker'.pc, metric |-> worker'.metric]
      /\ \/ table[Head(Todo)] # NoMetric /\ worker'.pc = "inc" /\ worker'.metric = table[Head(Todo)]
         \/ table[Head(Todo)] = NoMetric /\ worker'.pc = "new"
  BY <1>1, <1>4, Zenon DEF Todo
<1>6. Head(Todo) \in Names
  BY <1>3, TodoTail
<1>7. WorkerInv'
  <2>1. CASE table[Head(Todo)] # NoMetric /\ worker'.pc = "inc" /\ worker'.metric = table[Head(Todo)]
    <3>1. /\ worker'.metric \in 1..Len(heap')
          /\ \A n \in Interval : worker'.metric = table'[n] <=> n = Head(Todo')
      BY <1>1, <1>3, <1>5, <1>6, <2>1, KindsOfNames, SMTT(20) DEF CounterInv
    <3> QED BY <1>3, <1>5, <2>1, <3>1 DEF WorkerInv
  <2>2. CASE table[Head(Todo)] = NoMetric /\ worker'.pc = "new"
    <3>1. Head(Todo') \notin Interval /\ table'[Head(Todo')] = NoMetric
      BY <1>1, <1>3, <1>5, <2>2 DEF CounterInv
    <3> QED BY <1>3, <1>5, <2>2, <3>1 DEF WorkerInv
  <2> QED BY <1>5, <2>1, <2>2
<1>8. TallyInv'
  BY <1>1, <1>2, <1>5, TallyKept, KindsOfNames DEF Inv
<1>9. LifetimeInv'
  <2>1. \A n \in Lifetime : Value(n) \in Nat /\ Value(n)' = Value(n)
    BY <1>2, ValueNat, KindsOfNames DEF Inv
  <2> QED BY <1>1, <2>1, LifetimeKept DEF Inv
<1> QED BY <1>1, <1>2, <1>7, <1>8, <1>9, RowValuesKept DEF Inv

\* A counter was missing: it is made under the write lock, whether or not a web
\* request was faster.
LEMMA GetNewStep ==
  ASSUME Inv, setting' = setting, WindowsInv', GetNew
  PROVE  Inv'
<1>1. /\ UNCHANGED <<up, reader, rows, tally>> /\ up /\ worker.pc = "new" /\ New(Head(Todo))
      /\ worker' = [worker EXCEPT !.pc = "inc", !.metric = Len(heap) + 1]
  BY DEF GetNew, Todo
<1>2. CounterInv /\ WorkerInv /\ Todo # <<>> /\ Head(Todo) \notin Interval
  BY <1>1 DEF Inv, WorkerInv
<1>3. PICK name \in Names \ Interval : name = Head(Todo)
  BY <1>2, TodoTail
<1>4. /\ CounterInv' /\ Len(heap') = Len(heap) + 1 /\ Value(name)' = 0
      /\ \A n \in Names : n # name => table'[n] = table[n] /\ Value(n)' = Value(n)
  BY <1>1, <1>2, <1>3, NewCounter
<1>5. worker = [todo |-> worker.todo, pc |-> worker.pc, metric |-> worker.metric]
  BY <1>2 DEF WorkerInv
<1>6. /\ Todo' = Todo /\ worker'.todo = worker.todo /\ worker'.pc = "inc"
      /\ worker'.metric = Len(heap) + 1
      /\ worker' = [todo |-> worker'.todo, pc |-> worker'.pc, metric |-> worker'.metric]
  BY <1>1, <1>5, Zenon DEF Todo
<1>7. WorkerInv'
  <2>1. Len(heap) \in Nat
    BY <1>2 DEF CounterInv
  <2>2. worker'.metric \in 1..Len(heap')
    BY <1>4, <1>6, <2>1
  <2>3. ASSUME NEW n \in Interval PROVE worker'.metric # table'[n] /\ n # Head(Todo')
    <3>1. n \in Names /\ n # name
      BY KindsOfNames
    <3>2. table'[n] = table[n] /\ table[n] \in 1..Len(heap)
      BY <1>1, <1>2, <1>4, <3>1 DEF CounterInv
    <3> QED BY <1>3, <1>6, <2>1, <3>1, <3>2
  <2> QED BY <1>2, <1>6, <2>2, <2>3 DEF WorkerInv
<1>8. T \in Names /\ T # name /\ Lifetime \subseteq Names
  BY KindsOfNames
<1>9. TallyInv'
  BY <1>1, <1>4, <1>6, <1>8, TallyKept DEF Inv
<1>10. LifetimeInv'
  <2>1. ASSUME Active = {}, NEW n \in Lifetime
        PROVE  Value(n) \in Nat /\ Value(n)' = Value(n)
    <3>1. Value(n) \in Nat
      BY <1>2, <1>8, ValueNat
    <3>2. CASE n # name
      BY <1>4, <1>8, <3>1, <3>2, SMTT(20)
    <3>3. CASE n = name
      <4>1. table[n] = NoMetric
        BY <1>1, <1>2, <1>3, <2>1, <3>3, SMTT(20) DEF WorkerInv
      <4> QED BY <1>4, <3>1, <3>3, <4>1 DEF Value
    <3> QED BY <3>2, <3>3
  <2>2. Active = {} =>
          \A n \in Lifetime : Value(n) \in Nat /\ Value(n)' \in Nat /\ Value(n) <= Value(n)'
    BY <2>1
  <2> QED BY <1>1, <2>2, LifetimeKept DEF Inv
<1>11. ReaderInv'
  BY <1>1 DEF Inv, ReaderInv
<1> QED BY <1>1, <1>4, <1>7, <1>9, <1>10, <1>11, RowValuesKept, SMTT(20) DEF Inv

\* A counter is bumped: the interval counter exactly when it is its turn.
LEMMA IncStep ==
  ASSUME Inv, setting' = setting, WindowsInv', Inc
  PROVE  Inv'
<1>1. /\ UNCHANGED <<up, table, reader, rows, tally>> /\ up /\ worker.pc = "inc"
      /\ heap' = [heap EXCEPT ![worker.metric] = @ + 1]
      /\ worker' = IF Len(Todo) = 1 THEN Idle
                   ELSE [Idle EXCEPT !.todo = Tail(Todo), !.pc = "get"]
  BY DEF Inc, Todo
<1>2. CounterInv /\ WorkerInv /\ Todo # <<>>
  BY <1>1 DEF Inv, WorkerInv
<1>3. PICK k \in 1..Len(heap) : k = worker.metric
  BY <1>1, <1>2 DEF WorkerInv
<1>4. /\ CounterInv'
      /\ \A n \in Names : /\ Value(n) \in Nat
                          /\ Value(n)' = IF table[n] = k THEN Value(n) + 1 ELSE Value(n)
  BY <1>1, <1>2, <1>3, RaisedCounter, Zenon
<1>5. /\ Tail(Todo) \in Seq(Names)
      /\ Tail(Todo) = <<>> <=> Len(Todo) = 1
      /\ \A i, j \in 1..Len(Tail(Todo)) : Tail(Todo)[i] = Tail(Todo)[j] => i = j
      /\ (\E i \in 1..Len(Tail(Todo)) : Tail(Todo)[i] = T)
           <=> Head(Todo) # T /\ \E i \in 1..Len(Todo) : Todo[i] = T
  BY <1>2, TodoTail
<1>6. /\ worker' = [todo |-> Tail(Todo), pc |-> IF Len(Todo) = 1 THEN "idle" ELSE "get",
                    metric |-> NoMetric]
  BY <1>1, <1>5, Zenon DEF Idle
<1>7. /\ Todo' = Tail(Todo)
      /\ worker'.pc = IF Tail(Todo) = <<>> THEN "idle" ELSE "get"
      /\ worker' = [todo |-> worker'.todo, pc |-> worker'.pc, metric |-> worker'.metric]
  BY <1>5, <1>6 DEF Todo
<1>8. WorkerInv'
  BY <1>5, <1>7 DEF WorkerInv
<1>9. T \in Names /\ (table[T] = k <=> Head(Todo) = T)
  BY <1>1, <1>2, <1>3, KindsOfNames DEF WorkerInv
<1>10. Value(T)' + Pending' = Value(T) + Pending
  <2>1. Value(T) \in Nat /\ Value(T)' = IF Head(Todo) = T THEN Value(T) + 1 ELSE Value(T)
    BY <1>4, <1>9
  <2>2. CASE Head(Todo) = T
    <3>1. \E i \in 1..Len(Todo) : Todo[i] = T
      <4>1. Todo \in Seq(Names)
        BY <1>2 DEF WorkerInv
      <4>2. 1 \in 1..Len(Todo) /\ Todo[1] = T
        BY <1>2, <2>2, <4>1
      <4> QED BY <4>2
    <3>2. Pending = 1 /\ Pending' = 0
      BY <1>5, <1>7, <2>2, <3>1, SMTT(20) DEF Pending
    <3> QED BY <2>1, <2>2, <3>2
  <2>3. CASE Head(Todo) # T
    <3>1. Pending' = Pending
      BY <1>5, <1>7, <2>3, SMTT(20) DEF Pending
    <3> QED BY <2>1, <2>3, <3>1
  <2> QED BY <2>2, <2>3
<1>11. TallyInv'
  <2>1. HasDb' = HasDb
    BY SameSetting
  <2>2. tally.stored \in Nat /\ tally.dropped \in Nat /\ Value(T) \in Nat /\ Value(T)' \in Nat
        /\ Pending \in Nat /\ Pending' \in Nat
    BY <1>4, <1>9 DEF Inv, TallyInv, Pending
  <2>3. ASSUME HasDb
        PROVE  tally'.stored + tally'.dropped + Value(T)' + Pending' = tally'.recorded
    <3>1. tally.stored + tally.dropped + Value(T) + Pending = tally.recorded
      BY <1>1, <2>3 DEF Inv, TallyInv
    <3>2. tally.stored + tally.dropped + Value(T)' + Pending' = tally.recorded
      <4> DEFINE a == tally.stored  b == tally.dropped  c == Value(T)
                 d == Pending  e == Value(T)'  f == Pending'
      <4>1. /\ a \in Nat /\ b \in Nat /\ c \in Nat /\ d \in Nat /\ e \in Nat /\ f \in Nat
            /\ e + f = c + d
        BY <1>10, <2>2
      <4>2. a + b + c + d = tally.recorded
        BY <3>1
      <4> HIDE DEF a, b, c, d, e, f
      <4>3. a + b + e + f = a + b + c + d
        BY <4>1
      <4>4. a + b + e + f = tally.recorded
        BY <4>2, <4>3
      <4> QED BY <4>4 DEF a, b, e, f
    <3>3. tally' = tally
      BY <1>1
    <3> QED BY <3>2, <3>3
  <2>4. tally' \in [recorded : Nat, stored : Nat, dropped : Nat]
    BY <1>1 DEF Inv, TallyInv
  <2> QED BY <2>1, <2>3, <2>4 DEF TallyInv
<1>12. LifetimeInv'
  <2>1. \A n \in Lifetime : Value(n) \in Nat /\ Value(n)' \in Nat /\ Value(n) <= Value(n)'
    BY <1>4, KindsOfNames
  <2> QED BY <1>1, <2>1, LifetimeKept DEF Inv
<1>13. ReaderInv'
  BY <1>1 DEF Inv, ReaderInv
<1> QED BY <1>1, <1>4, <1>8, <1>11, <1>12, <1>13, RowValuesKept, SMTT(20) DEF Inv

\* A web request never holds the name of an interval counter: it would have
\* found it.
LEMMA WebStep ==
  ASSUME Inv, setting' = setting, WindowsInv', NEW r \in Active,
         WebNew(r) \/ \E n \in Names : WebGet(r, n)
  PROVE  Inv'
<1>1. r \in Readers
  <2>1. setting.readers \in SUBSET Readers
    BY MetricsAssumption DEF Inv
  <2> QED BY <2>1 DEF Active
<1>2. CounterInv /\ WorkerInv /\ ReaderInv
  BY DEF Inv
<1>3. ASSUME NEW n \in Names, WebGet(r, n) PROVE Inv'
  <2>1. /\ UNCHANGED <<up, table, heap, worker, rows, tally>> /\ up /\ table[n] = NoMetric
        /\ reader' = [reader EXCEPT ![r] = n]
    BY <1>3 DEF WebGet
  <2>2. n \notin Interval
    BY <1>2, <2>1 DEF CounterInv
  <2>3. ReaderInv'
    BY <1>1, <1>2, <2>1, <2>2 DEF ReaderInv
  <2>4. CounterInv' /\ \A m \in Names : Value(m)' = Value(m)
    BY <1>2, <2>1 DEF CounterInv, Value
  <2>5. WorkerInv'
    BY <1>2, <2>1, WorkerKept
  <2>6. TallyInv'
    BY <2>1, <2>4, TallyKept, KindsOfNames, SMTT(20) DEF Inv
  <2>7. LifetimeInv'
    <3>1. \A m \in Lifetime : Value(m) \in Nat /\ Value(m)' = Value(m)
      BY <1>2, <2>4, ValueNat, KindsOfNames, SMTT(20)
    <3> QED BY <2>1, <3>1, LifetimeKept DEF Inv
  <2> QED BY <2>1, <2>3, <2>4, <2>5, <2>6, <2>7, RowValuesKept, SMTT(20) DEF Inv
<1>4. ASSUME WebNew(r) PROVE Inv'
  <2>1. /\ UNCHANGED <<up, worker, rows, tally>> /\ reader[r] # NoMetric /\ New(reader[r])
        /\ reader' = [reader EXCEPT ![r] = NoMetric]
    BY <1>4 DEF WebNew
  <2>2. PICK name \in Names \ Interval : name = reader[r]
    BY <1>1, <1>2, <2>1, SMTT(20) DEF ReaderInv
  <2>3. /\ CounterInv' /\ Len(heap') = Len(heap) + 1
        /\ \A n \in Names : n # name => table'[n] = table[n] /\ Value(n)' = Value(n)
    BY <1>2, <2>1, <2>2, NewCounter
  <2>4. ReaderInv'
    BY <1>2, <2>1, Zenon DEF ReaderInv
  <2>5. Active # {} /\ Active' = Active
    BY SameSetting
  <2>6. WorkerInv'
    <3>1. Todo' = Todo /\ worker' = worker /\ Len(heap) \in Nat
      BY <1>2, <2>1 DEF Todo, CounterInv
    <3>2. ASSUME worker.pc = "inc"
          PROVE  /\ worker'.metric \in 1..Len(heap')
                 /\ \A n \in Interval : worker'.metric = table'[n] <=> n = Head(Todo')
      <4>1. /\ worker.metric \in 1..Len(heap)
            /\ \A n \in Interval : worker.metric = table[n] <=> n = Head(Todo)
        BY <1>2, <3>2 DEF WorkerInv
      <4>2. \A n \in Interval : table'[n] = table[n]
        BY <2>3, KindsOfNames
      <4>3. worker.metric \in 1..Len(heap')
        BY <2>3, <3>1, <4>1
      <4> QED BY <3>1, <4>1, <4>2, <4>3
    <3> QED BY <1>2, <2>5, <3>1, <3>2 DEF WorkerInv
  <2>7. T \in Names /\ T # name
    BY KindsOfNames, SMTT(20)
  <2>8. TallyInv'
    BY <2>1, <2>3, <2>7, TallyKept DEF Inv
  <2>9. LifetimeInv'
    BY <2>1, <2>5, LifetimeKept DEF Inv
  <2> QED BY <2>1, <2>3, <2>4, <2>6, <2>8, <2>9, RowValuesKept, SMTT(20) DEF Inv
<1> QED BY <1>3, <1>4

\* The interval counter moves into the snapshot, or is lost with it.
LEMMA InsertTally ==
  ASSUME Inv, setting' = setting, Tick, insert, table' = table, up' = up, worker' = worker,
         \/ tally' = [tally EXCEPT !.stored = @ + Value(T)]
         \/ tally' = [tally EXCEPT !.dropped = @ + Value(T)]
  PROVE  /\ CounterInv' /\ WorkerInv' /\ TallyInv'
         /\ \A n \in Lifetime : Value(n) \in Nat /\ Value(n)' = Value(n)
<1>1. worker.pc = "idle" /\ up /\ heap' = Clear(Interval)
  BY DEF Tick, insert
<1>2. /\ CounterInv'
      /\ \A n \in Interval : Value(n)' = 0
      /\ \A n \in Names \ Interval : Value(n)' = Value(n)
  BY <1>1, ClearedCounters DEF Inv
<1>3. WorkerInv'
  BY <1>1, WorkerKept DEF Inv
<1>4. \A n \in Lifetime : Value(n) \in Nat /\ Value(n)' = Value(n)
  BY <1>2, ValueNat, KindsOfNames DEF Inv
<1>5. Value(T) \in Nat /\ Value(T)' = 0
  BY <1>2, ValueNat, KindsOfNames DEF Inv
<1>6. Pending = 0 /\ Pending' = 0
  BY <1>1 DEF Pending, Todo, Inv, WorkerInv
<1>7. HasDb' = HasDb
  BY SameSetting
<1>8. tally \in [recorded : Nat, stored : Nat, dropped : Nat]
  BY DEF Inv, TallyInv
<1>9. /\ tally' \in [recorded : Nat, stored : Nat, dropped : Nat]
      /\ tally'.recorded = tally.recorded
      /\ tally'.stored + tally'.dropped = tally.stored + tally.dropped + Value(T)
  BY <1>5, <1>8
<1>10. ASSUME HasDb
       PROVE  tally'.stored + tally'.dropped + Value(T)' + Pending' = tally'.recorded
  <2>1. tally.stored + tally.dropped + Value(T) + Pending = tally.recorded
    BY <1>1, <1>10 DEF Inv, TallyInv
  <2>2. tally.stored + tally.dropped + Value(T) = tally.recorded
    BY <1>5, <1>6, <1>8, <2>1
  <2>3. tally'.stored \in Nat /\ tally'.dropped \in Nat
    BY <1>9
  <2> QED BY <1>5, <1>6, <1>9, <2>2, <2>3
<1>11. TallyInv'
  BY <1>7, <1>9, <1>10 DEF TallyInv
<1> QED BY <1>2, <1>3, <1>4, <1>11

LEMMA TickRolledBackStep ==
  ASSUME Inv, setting' = setting, WindowsInv', TickRolledBack
  PROVE  Inv'
<1>1. /\ Tick /\ insert /\ UNCHANGED <<up, table, worker, reader, rows>>
      /\ tally' = [tally EXCEPT !.dropped = @ + Value(T)]
  BY DEF TickRolledBack, T
<1>2. /\ CounterInv' /\ WorkerInv' /\ TallyInv'
      /\ \A n \in Lifetime : Value(n) \in Nat /\ Value(n)' = Value(n)
  BY <1>1, InsertTally
<1>3. LifetimeInv'
  BY <1>1, <1>2, LifetimeKept DEF Inv
<1>4. ReaderInv'
  BY <1>1 DEF Inv, ReaderInv
<1> QED BY <1>1, <1>2, <1>3, <1>4, RowValuesKept DEF Inv

\* The new snapshot is the newest, and says what the counters say.
LEMMA TickStoredStep ==
  ASSUME Inv, setting' = setting, WindowsInv', TickStored
  PROVE  Inv'
<1>1. /\ Tick /\ insert /\ UNCHANGED <<up, table, worker, reader>>
      /\ rows' = rows \cup {Snapshot}
      /\ tally' = [tally EXCEPT !.stored = @ + Value(T)]
  BY DEF TickStored, T
<1>2. /\ CounterInv' /\ WorkerInv' /\ TallyInv'
      /\ \A n \in Lifetime : Value(n) \in Nat /\ Value(n)' = Value(n)
  BY <1>1, InsertTally
<1>3. PICK s : s = Snapshot
  OBVIOUS
<1>4. /\ s.at = now + 1 /\ DOMAIN s.values = {m \in Names : table[m] # NoMetric}
      /\ \A n \in DOMAIN s.values : s.values[n] = Value(n)
  BY <1>3 DEF Snapshot
<1>5. RowValues'
  <2>1. DOMAIN s.values \subseteq Names /\ \A n \in DOMAIN s.values : s.values[n] \in Nat
    BY <1>4, ValueNat DEF Inv
  <2> QED BY <1>1, <1>3, <2>1, SMTT(20) DEF Inv, RowValues
<1>6. \A n \in Lifetime : In(s, n) = Value(n)
  BY <1>4, KindsOfNames DEF In, Value
<1>7. now \in Nat /\ \A r \in rows : r.at \in Nat /\ r.at <= now
  BY DEF Inv, WindowsInv
<1>8. LifetimeInv'
  <2> SUFFICES ASSUME Persist, Active = {}
               PROVE  /\ \A q, r \in rows' : q.at <= r.at => \A n \in Lifetime : In(q, n) <= In(r, n)
                      /\ \A q \in rows', n \in Lifetime : In(q, n) <= Value(n)'
    BY SameSetting DEF LifetimeInv
  <2>1. /\ \A q, r \in rows : q.at <= r.at => \A n \in Lifetime : In(q, n) <= In(r, n)
        /\ \A q \in rows, n \in Lifetime : In(q, n) <= Value(n)
    BY <1>1 DEF Inv, LifetimeInv, Tick
  <2>2. \A q \in rows', n \in Lifetime : In(q, n) <= Value(n)
    <3>1. \A n \in Lifetime : In(s, n) <= Value(n)
      BY <1>2, <1>6
    <3> QED BY <1>1, <1>3, <2>1, <3>1
  <2>3. \A q \in rows', n \in Lifetime : In(q, n) <= Value(n)'
    BY <1>2, <2>2
  <2>4. ASSUME NEW q \in rows', NEW r \in rows', q.at <= r.at, NEW n \in Lifetime
        PROVE  In(q, n) <= In(r, n)
    <3>1. CASE r = s
      BY <1>6, <2>2, <3>1
    <3>2. CASE r \in rows /\ q \in rows
      BY <2>1, <2>4, <3>2
    <3>3. CASE r \in rows /\ q = s
      BY <1>4, <1>7, <2>4, <3>3
    <3> QED BY <1>1, <1>3, <3>1, <3>2, <3>3
  <2> QED BY <2>3, <2>4
<1>9. ReaderInv'
  BY <1>1 DEF Inv, ReaderInv
<1> QED BY <1>1, <1>2, <1>5, <1>8, <1>9 DEF Inv

-----------------------------------------------------------------------------
LEMMA InvInit == Init => Inv
<1> SUFFICES ASSUME Init PROVE Inv
  OBVIOUS
<1>1. WindowsInv /\ RowValues
  BY DEF Init, WindowsInv, WindowsDisjoint, RowValues
<1>2. CounterInv
  BY DEF Init, CounterInv
<1>3. WorkerInv
  BY DEF Init, WorkerInv, Todo, Idle
<1>4. ReaderInv
  BY DEF Init, ReaderInv
<1>5. TallyInv
  BY DEF Init, TallyInv, NoTally
<1>6. LifetimeInv
  BY DEF Init, LifetimeInv
<1> QED BY <1>1, <1>2, <1>3, <1>4, <1>5, <1>6, SMTT(20) DEF Inv, Init

LEMMA InvStep == Inv /\ [Next]_<<vars, setting>> => Inv'
<1> SUFFICES ASSUME Inv, [Next]_<<vars, setting>> PROVE Inv'
  OBVIOUS
<1>1. [Next]_vars /\ setting' = setting
  BY SettingStays
<1>2. WindowsInv'
  BY <1>1, WindowsStep DEF Inv
<1>3. CASE Start
  BY <1>1, <1>2, <1>3, StartStep
<1>4. CASE Shutdown \/ Kill
  <2>1. Gone /\ rows' \subseteq rows
    BY <1>4 DEF Shutdown, Kill, Kept
  <2> QED BY <1>1, <1>2, <2>1, GoneStep
<1>5. CASE Off \/ TickNotStored \/ PruneTick \/ UNCHANGED vars
  <2>1. rows' \subseteq rows /\ up' = up /\ UNCHANGED <<table, heap, worker, reader, tally>>
    BY <1>5 DEF Off, TickNotStored, PruneTick, vars, Kept
  <2> QED BY <1>1, <1>2, <2>1, RestKept
<1>6. CASE \E b \in BOOLEAN : Record(b)
  BY <1>1, <1>2, <1>6, RecordStep
<1>7. CASE GetFound \/ GetMissing
  BY <1>1, <1>2, <1>7, GetStep, SMTT(20)
<1>8. CASE GetNew
  BY <1>1, <1>2, <1>8, GetNewStep
<1>9. CASE Inc
  BY <1>1, <1>2, <1>9, IncStep
<1>10. CASE \E r \in Active : WebNew(r) \/ \E n \in Names : WebGet(r, n)
  BY <1>1, <1>2, <1>10, WebStep, SMTT(20)
<1>11. CASE TickStored
  BY <1>1, <1>2, <1>11, TickStoredStep
<1>12. CASE TickRolledBack
  BY <1>1, <1>2, <1>12, TickRolledBackStep
<1> QED BY <1>1, <1>3, <1>4, <1>5, <1>6, <1>7, <1>8, <1>9, <1>10, <1>11, <1>12, SMTT(20) DEF Next

LEMMA InvAlways == Spec => []Inv
BY InvInit, InvStep, PTL DEF Spec

\* Every query the worker recorded is in one stored snapshot, in one that was
\* rolled back, or in the interval counter, with any number of web requests that
\* ask for counters meanwhile (metrics.go record, insert 327-347, Get 236-250).
THEOREM QueriesCountedOnce == Spec => []IntervalCountedOnce
<1>1. Inv => IntervalCountedOnce
  <2> SUFFICES ASSUME Inv, HasDb, Counted
               PROVE  tally.stored + tally.dropped + Value(T) = tally.recorded
    BY DEF IntervalCountedOnce, T
  <2>1. tally.stored + tally.dropped + Value(T) + Pending = tally.recorded
    BY DEF Inv, TallyInv, Counted
  <2>2. Pending = 0
    BY DEF Counted, Pending, Todo, Inv, WorkerInv
  <2>3. tally.stored \in Nat /\ tally.dropped \in Nat /\ Value(T) \in Nat
    BY ValueNat, KindsOfNames DEF Inv, TallyInv
  <2> QED BY <2>1, <2>2, <2>3
<1> QED BY <1>1, InvAlways, PTL

\* A lifetime counter that no web request replaces is never behind a stored
\* snapshot, in any number of lives of the process (metrics.go load 489-525).
THEOREM LifetimeResumes == Spec => []LifetimeNotBehind
<1>1. Inv => LifetimeNotBehind
  BY DEF Inv, LifetimeInv, LifetimeNotBehind
<1> QED BY <1>1, InvAlways, PTL
=============================================================================

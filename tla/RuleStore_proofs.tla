-------------------------- MODULE RuleStore_proofs --------------------------
(***************************************************************************)
(* Proofs about the rule stores, for every configuration of lists, names,  *)
(* backing store, sums and bits: what a query returns while lists are      *)
(* loaded, cleared and loaded again.                                       *)
(***************************************************************************)
EXTENDS RuleStore, WellFoundedInduction, TLAPS

(* Range of the sequences the loads work on.                                *)

LEMMA RangeEmpty == Range(<<>>) = {}
  BY DEF Range

LEMMA RangeAppend ==
  ASSUME NEW S, NEW s \in Seq(S), NEW x \in S
  PROVE  /\ Append(s, x) \in Seq(S)
         /\ Range(Append(s, x)) = Range(s) \cup {x}
<1>1. DOMAIN Append(s, x) = 1..(Len(s) + 1) /\ DOMAIN s = 1..Len(s) /\ Len(s) \in Nat
  OBVIOUS
<1>2. \A i \in 1..Len(s) : Append(s, x)[i] = s[i]
  OBVIOUS
<1>3. Append(s, x)[Len(s) + 1] = x
  OBVIOUS
<1> QED BY <1>1, <1>2, <1>3 DEF Range

LEMMA RangeParts ==
  ASSUME NEW S, NEW s \in Seq(S), s # <<>>
  PROVE  /\ Head(s) \in S /\ Tail(s) \in Seq(S)
  OBVIOUS

LEMMA RangeIn ==
  ASSUME NEW S, NEW s \in Seq(S)
  PROVE  /\ Range(s) \subseteq S
         /\ (s = <<>>) <=> (Range(s) = {})
  BY DEF Range

-----------------------------------------------------------------------------
(* The inductive invariant: every layer holds exactly the rules its lists   *)
(* were given since they were last cleared.                                 *)

Simple(l) == {r \in Range(content[l]) : ~IsComplex(l, r)}
Complex(l) == {r \in Range(content[l]) : IsComplex(l, r)}

TypeInv ==
  /\ setting \in Settings
  /\ file \in [ListSet -> Seq(Text)]
  /\ dirty \subseteq ListSet
  /\ pc \in [{"main", "bus"} -> {"open", "scan", "finalize", "done", "idle"}]
  /\ pc["bus"] \in {"idle", "open", "scan"}
  /\ cur \in [{"main", "bus"} -> ListSet]
  /\ rest \in [{"main", "bus"} -> Seq(Text)]
  /\ content \in [ListSet -> Seq(Text)]
  /\ complexRules \in [ListSet -> Seq(Text)]
  /\ rules \in [ListSet -> Seq(Names)]
  /\ DOMAIN hashes = ListSet /\ DOMAIN blooms = ListSet

\* Main and the bus do not load at the same time, and a transaction is only
\* open while one of them does.
Alone ==
  /\ pc["main"] # "done" => dirty = {} /\ pc["bus"] = "idle"
  /\ pc["main"] = "done" /\ pc["bus"] = "idle" => tx = {}
  /\ ~InsertErrors => stmt # "stale" /\ failed = {}

\* complexStore and memoryStore, hashStore, bloomStore
LayersExact(l) ==
  /\ Range(complexRules[l]) = Complex(l)
  /\ l \in complexLists <=> content[l] # <<>>
  /\ l \in backingLists <=> Simple(l) # {}
  /\ Has("memory") => Range(rules[l]) = {ToLower[r] : r \in Simple(l)}
  /\ Has("hash") => hashes[l] = {Hash[ToLower[r]] : r \in Simple(l)}
  /\ Has("bloom") => \A r \in Simple(l) : Bits[r] \subseteq blooms[l]

TableType == \A row \in table : Has("sqlite") /\ row = <<row[1], row[2]>>

\* sqlStore: a row is a rule of its list, and only lists that lost rules to a
\* failed insert have one without a row.
TableExact(l) ==
  /\ \A r : <<l, r>> \in table => r \in Simple(l)
  /\ Has("sqlite") /\ l \notin failed => \A r \in Simple(l) : <<l, r>> \in table

StoreInv ==
  /\ TypeInv
  /\ ~BootEdits =>
       /\ Alone
       /\ \A l \in ListSet : LayersExact(l) /\ TableExact(l)
       /\ TableType
       /\ \A l \in ListSet \ Loading : InOrder(rules[l])

\* The setting is chosen once, and so is what depends on nothing else.
LEMMA SettingKept ==
  ASSUME UNCHANGED setting
  PROVE  /\ Text' = Text /\ Hash' = Hash /\ Contents' = Contents
         /\ Backing' = Backing /\ RegexLists' = RegexLists
         /\ BootEdits' = BootEdits /\ InsertErrors' = InsertErrors
         /\ \A l, r : IsComplex(l, r)' <=> IsComplex(l, r)
         /\ \A x : Has(x)' <=> Has(x)
  BY DEF Text, Hash, Contents, Backing, RegexLists, BootEdits, InsertErrors, IsComplex, Has

LEMMA TextIsNames ==
  ASSUME setting \in Settings
  PROVE  Text \subseteq Names /\ \A l \in ListSet : Contents[l] \subseteq Seq(Text)
<1>1. \A l \in ListSet : Contents[l] \subseteq Seq(Names)
  BY RuleStoreAssumption DEF Contents
<1>2. ASSUME NEW n \in Text PROVE n \in Names
  <2>1. PICK l \in ListSet : \E c \in Contents[l] : n \in Range(c)
    BY DEF Text
  <2>2. PICK c \in Contents[l] : n \in Range(c)
    BY <2>1
  <2> QED BY <1>1, <2>2, RangeIn
<1>3. ASSUME NEW l \in ListSet, NEW c \in Contents[l] PROVE c \in Seq(Text)
  BY <1>1, <1>3 DEF Text, Range
<1> QED BY <1>2, <1>3

\* What a Load adds to the rules of its list.
LEMMA LoadContent ==
  ASSUME TypeInv, UNCHANGED setting, NEW l \in ListSet, NEW r \in Text,
         content' = [content EXCEPT ![l] = Append(@, r)]
  PROVE  /\ content'[l] # <<>>
         /\ Simple(l)' = IF IsComplex(l, r) THEN Simple(l) ELSE Simple(l) \cup {r}
         /\ Complex(l)' = IF IsComplex(l, r) THEN Complex(l) \cup {r} ELSE Complex(l)
         /\ \A k \in ListSet \ {l} : /\ content'[k] = content[k]
                                     /\ Simple(k)' = Simple(k)
                                     /\ Complex(k)' = Complex(k)
<1>1. content \in [ListSet -> Seq(Text)]
  BY DEF TypeInv
<1>2. \A k \in ListSet \ {l} : content'[k] = content[k]
  BY <1>1
<1>3. \A k, x : IsComplex(k, x)' <=> IsComplex(k, x)
  BY SettingKept
<1>4. \A k \in ListSet \ {l} : Simple(k)' = Simple(k) /\ Complex(k)' = Complex(k)
  BY <1>2, <1>3 DEF Simple, Complex
<1> QED BY <1>1, <1>2, <1>3, <1>4, RangeAppend, RangeIn DEF Simple, Complex

LEMMA LoadLayers ==
  ASSUME TypeInv, UNCHANGED setting, NEW l \in ListSet, NEW r \in Text,
         content' = [content EXCEPT ![l] = Append(@, r)], StoreLoad(l, r),
         \A k \in ListSet : LayersExact(k)
  PROVE  \A k \in ListSet : LayersExact(k)'
<1>1. /\ content'[l] # <<>>
      /\ Simple(l)' = IF IsComplex(l, r) THEN Simple(l) ELSE Simple(l) \cup {r}
      /\ Complex(l)' = IF IsComplex(l, r) THEN Complex(l) \cup {r} ELSE Complex(l)
      /\ \A k \in ListSet \ {l} : /\ content'[k] = content[k]
                                  /\ Simple(k)' = Simple(k)
                                  /\ Complex(k)' = Complex(k)
  BY LoadContent, Zenon
<1>2. Hash' = Hash /\ \A x : Has(x)' <=> Has(x)
  BY SettingKept
<1>3. /\ complexRules \in [ListSet -> Seq(Text)] /\ rules \in [ListSet -> Seq(Names)]
      /\ DOMAIN hashes = ListSet /\ DOMAIN blooms = ListSet
      /\ ToLower[r] \in Names
  BY TextIsNames, NamesAssumption, SMTT(20) DEF TypeInv
<1>4. CASE IsComplex(l, r)
  <2>1. /\ complexLists' = complexLists \cup {l}
        /\ complexRules' = [complexRules EXCEPT ![l] = Append(@, r)]
        /\ UNCHANGED <<backingLists, rules, hashes, blooms>>
    BY <1>4 DEF StoreLoad, layerVars
  <2>2. LayersExact(l)'
    BY <1>1, <1>2, <1>3, <1>4, <2>1, RangeAppend DEF LayersExact
  <2>3. ASSUME NEW k \in ListSet \ {l} PROVE LayersExact(k)'
    BY <1>1, <1>2, <1>3, <2>1 DEF LayersExact
  <2> QED BY <2>2, <2>3
<1>5. CASE ~IsComplex(l, r)
  <2>1. /\ complexLists' = complexLists \cup {l} /\ complexRules' = complexRules
        /\ backingLists' = backingLists \cup {l}
        /\ MemoryLoad(l, r) /\ HashLoad(l, r) /\ BloomLoad(l, r)
    BY <1>5 DEF StoreLoad, BackingLoad
  <2>2. Has("bloom") => blooms'[l] = blooms[l] \cup Bits[r]
    BY <1>3, <2>1 DEF BloomLoad
  <2>3. LayersExact(l)'
    BY <1>1, <1>2, <1>3, <1>5, <2>1, <2>2, RangeAppend, SMTT(20) DEF LayersExact,
       HashLoad, MemoryLoad
  <2>4. ASSUME NEW k \in ListSet \ {l} PROVE LayersExact(k)'
    BY <1>1, <1>2, <1>3, <2>1 DEF LayersExact, MemoryLoad, HashLoad, BloomLoad
  <2> QED BY <2>3, <2>4
<1> QED BY <1>4, <1>5

LEMMA LoadTable ==
  ASSUME TypeInv, UNCHANGED setting, NEW l \in ListSet, NEW r \in Text,
         content' = [content EXCEPT ![l] = Append(@, r)], StoreLoad(l, r),
         \A k \in ListSet : TableExact(k),
         TableType
  PROVE  /\ \A k \in ListSet : TableExact(k)'
         /\ TableType'
<1>1. /\ Simple(l)' = IF IsComplex(l, r) THEN Simple(l) ELSE Simple(l) \cup {r}
      /\ \A k \in ListSet \ {l} : Simple(k)' = Simple(k)
  BY LoadContent, Zenon
<1>2. Has("sqlite")' <=> Has("sqlite")
  BY SettingKept
<1>3. CASE UNCHANGED <<table, failed>> /\ (IsComplex(l, r) \/ ~Has("sqlite"))
  BY <1>1, <1>2, <1>3 DEF TableExact, TableType
<1>4. CASE ~IsComplex(l, r) /\ Has("sqlite") /\ SqlLoad(l, r)
  <2>1. Simple(l)' = Simple(l) \cup {r}
    BY <1>1, <1>4
  <2>2. CASE table' = table \cup {<<l, r>>} /\ UNCHANGED failed
    BY <1>1, <1>2, <1>4, <2>1, <2>2 DEF TableExact, TableType
  <2>3. CASE /\ \E undone \in SUBSET tx : table' = table \ undone
             /\ failed' = failed \cup TxLists \cup {l}
    <3>1. PICK undone \in SUBSET tx : table' = table \ undone
      BY <2>3
    <3> QED
      BY <1>1, <1>2, <1>4, <2>1, <2>3, <3>1 DEF TableExact, TableType, TxLists
  <2> QED BY <1>4, <2>2, <2>3, Zenon DEF SqlLoad
<1> QED BY <1>3, <1>4 DEF StoreLoad, BackingLoad, layerVars

\* A Load keeps what is said of transactions and failed inserts.
LEMMA LoadFailed ==
  ASSUME UNCHANGED setting, NEW l, NEW r, StoreLoad(l, r),
         ~InsertErrors => stmt # "stale" /\ failed = {}
  PROVE  ~InsertErrors' => stmt' # "stale" /\ failed' = {}
  BY SettingKept DEF SqlLoad, StoreLoad, BackingLoad, layerVars

\* A Clear leaves nothing of its list and everything of the others.
LEMMA ClearExact ==
  ASSUME TypeInv, UNCHANGED setting, NEW l \in ListSet, StoreClear(l),
         content' = [content EXCEPT ![l] = <<>>], failed' = failed \ {l},
         \A k \in ListSet : LayersExact(k) /\ TableExact(k),
         TableType
  PROVE  /\ \A k \in ListSet : LayersExact(k)' /\ TableExact(k)'
         /\ TableType'
<1>1. /\ content \in [ListSet -> Seq(Text)] /\ complexRules \in [ListSet -> Seq(Text)]
      /\ rules \in [ListSet -> Seq(Names)] /\ DOMAIN hashes = ListSet
  BY DEF TypeInv
<1>2. /\ Hash' = Hash /\ \A x : Has(x)' <=> Has(x)
      /\ \A k, x : IsComplex(k, x)' <=> IsComplex(k, x)
  BY SettingKept
<1>3. /\ complexRules' = [complexRules EXCEPT ![l] = <<>>]
      /\ complexLists' = complexLists \ {l}
      /\ backingLists' = backingLists \ {l}
      /\ rules' = [rules EXCEPT ![l] = <<>>]
      /\ hashes' = [hashes EXCEPT ![l] = {}]
      /\ blooms' = blooms
  BY DEF StoreClear, MemoryClear, HashClear, BloomClear
<1>4. content'[l] = <<>> /\ Simple(l)' = {} /\ Complex(l)' = {}
  BY <1>1, RangeEmpty DEF Simple, Complex
<1>5. ASSUME NEW k \in ListSet \ {l}
      PROVE  content'[k] = content[k] /\ Simple(k)' = Simple(k) /\ Complex(k)' = Complex(k)
  BY <1>1, <1>2 DEF Simple, Complex
<1>6. LayersExact(l)'
  BY <1>1, <1>2, <1>3, <1>4, RangeEmpty DEF LayersExact
<1>7. ASSUME NEW k \in ListSet \ {l} PROVE LayersExact(k)'
  BY <1>1, <1>2, <1>3, <1>5 DEF LayersExact
<1> QED
  BY <1>2, <1>4, <1>5, <1>6, <1>7 DEF TableType, TableExact, StoreClear,
     SqlClear

\* Sorting a list loses no rule and adds none.
LEMMA SortingKeeps ==
  ASSUME NEW S, NEW rs \in Seq(S), NEW s \in Sortings(rs)
  PROVE  s \in Seq(S) /\ Range(s) = Range(rs) /\ InOrder(s)
<1>1. DOMAIN rs = 1..Len(rs) /\ Len(rs) \in Nat /\ \A i \in 1..Len(rs) : rs[i] \in S
  OBVIOUS
<1>2. PICK p \in Bijection(DOMAIN rs, DOMAIN rs) : s = [i \in DOMAIN rs |-> rs[p[i]]]
  BY DEF Sortings
<1>3. p \in [DOMAIN rs -> DOMAIN rs] /\ \A w \in DOMAIN rs : \E v \in DOMAIN rs : p[v] = w
  BY <1>2 DEF Bijection, Injection, Surjection
<1>4. s \in [1..Len(rs) -> S]
  BY <1>1, <1>2, <1>3
<1>5. s \in Seq(S)
  BY <1>1, <1>4
<1> QED BY <1>2, <1>3, <1>5 DEF Sortings, Range

\* Finalize leaves the layers as they are, but for the order of the lists.
LEMMA FinalizeExact ==
  ASSUME TypeInv, UNCHANGED <<setting, content, failed>>, NEW ls \in SUBSET ListSet,
         StoreFinalize(ls)
  PROVE  /\ rules' \in [ListSet -> Seq(Names)]
         /\ \A l \in ls : InOrder(rules'[l])
         /\ \A l \in ListSet \ ls : rules'[l] = rules[l]
         /\ \A l \in ListSet : LayersExact(l) => LayersExact(l)'
         /\ \A l \in ListSet : TableExact(l) => TableExact(l)'
         /\ TableType => TableType'
         /\ tx' = {} /\ stmt' = "none"
<1>1. rules \in [ListSet -> Seq(Names)]
  BY DEF TypeInv
<1>2. PICK sorted \in [ls -> UNION {Sortings(rules[l]) : l \in ls}] :
        /\ \A l \in ls : sorted[l] \in Sortings(rules[l])
        /\ rules' = [l \in ListSet |-> IF l \in ls THEN sorted[l] ELSE rules[l]]
  BY DEF StoreFinalize, MemoryFinalize
<1>3. ASSUME NEW l \in ls
      PROVE  rules'[l] \in Seq(Names) /\ Range(rules'[l]) = Range(rules[l])
             /\ InOrder(rules'[l])
  BY <1>1, <1>2, SortingKeeps, Zenon
<1>4. ASSUME NEW l \in ListSet \ ls PROVE rules'[l] = rules[l]
  BY <1>2
<1>5. \A l \in ListSet : Range(rules'[l]) = Range(rules[l])
  BY <1>3, <1>4
<1>6. /\ Hash' = Hash /\ \A x : Has(x)' <=> Has(x)
      /\ \A k, x : IsComplex(k, x)' <=> IsComplex(k, x)
  BY SettingKept
<1>7. \A l : Simple(l)' = Simple(l) /\ Complex(l)' = Complex(l)
  BY <1>6 DEF Simple, Complex
<1>8. UNCHANGED <<complexRules, complexLists, backingLists, hashes, blooms, table>>
  BY DEF StoreFinalize, complexVars
<1>9. ASSUME NEW l \in ListSet, LayersExact(l) PROVE LayersExact(l)'
  BY <1>5, <1>6, <1>7, <1>8, <1>9 DEF LayersExact
<1>10. ASSUME NEW l \in ListSet, TableExact(l) PROVE TableExact(l)'
  BY <1>6, <1>7, <1>8, <1>10 DEF TableExact
<1> QED
  BY <1>1, <1>2, <1>3, <1>4, <1>6, <1>8, <1>9, <1>10, Zenon DEF StoreFinalize,
     SqlFinalize, TableType

-----------------------------------------------------------------------------
(* The type invariant.                                                      *)

LEMMA StoreInit == Init => StoreInv
<1> SUFFICES ASSUME Init PROVE StoreInv
  OBVIOUS
<1>1. Lists[1] \in ListSet
  BY RuleStoreAssumption DEF ListSet, Range
<1>2. \A l \in ListSet : LayersExact(l) /\ TableExact(l)
  BY RangeEmpty, Zenon DEF Init, LayersExact, TableExact, Simple, Complex
<1> QED
  BY <1>1, <1>2, TextIsNames DEF StoreInv, Init, Alone, TableType, InOrder,
     TypeInv

-----------------------------------------------------------------------------
(* Every step preserves the invariant.  The actions first; Quiet stands for *)
(* those that do not touch the store.                                       *)

\* What the layers hold depends on nothing but the store and the contents.
LEMMA Quiet ==
  ASSUME UNCHANGED <<setting, complexVars, layerVars, content, failed>>
  PROVE  /\ \A l \in ListSet : LayersExact(l) => LayersExact(l)'
         /\ \A l \in ListSet : TableExact(l) => TableExact(l)'
         /\ TableType => TableType'
  BY SettingKept DEF Simple, Complex, complexVars, layerVars, LayersExact,
     TableExact, TableType

\* A step that touches only files, queues and programs, after which no more
\* lists are settled than before.
LEMMA QuietStep ==
  ASSUME StoreInv, UNCHANGED <<setting, complexVars, layerVars, content, failed>>,
         TypeInv', Loading \subseteq Loading',
         ~BootEdits =>
           /\ pc'["main"] # "done" => dirty' = {} /\ pc'["bus"] = "idle"
           /\ pc'["main"] = "done" /\ pc'["bus"] = "idle" => tx = {}
  PROVE  StoreInv'
<1>1. BootEdits' = BootEdits /\ InsertErrors' = InsertErrors
  BY SettingKept
<1>2. SUFFICES ASSUME ~BootEdits
               PROVE  /\ Alone' /\ TableType'
                      /\ \A l \in ListSet : LayersExact(l)' /\ TableExact(l)'
                      /\ \A l \in ListSet \ Loading' : InOrder(rules'[l])
  BY <1>1 DEF StoreInv, InOrder
<1> QED BY <1>1, <1>2, Quiet DEF StoreInv, Alone, layerVars

LEMMA EditStep ==
  ASSUME StoreInv, UNCHANGED setting, NEW l \in ListSet, Edit(l)
  PROVE  StoreInv'
<1>1. Text' = Text /\ setting \in Settings /\ TypeInv
  BY SettingKept, Zenon DEF StoreInv, TypeInv
<1>2. UNCHANGED <<pc, cur, rest, complexRules, complexLists, backingLists, rules, hashes,
                  blooms, table, tx, stmt, content, failed>>
  BY Zenon DEF Edit, jobVars, complexVars, layerVars
<1>3. file' \in [ListSet -> Seq(Text)]
  <2>1. PICK c \in Contents[l] : file' = [file EXCEPT ![l] = c]
    BY Zenon DEF Edit
  <2> QED BY <1>1, <2>1, TextIsNames, Zenon DEF TypeInv
<1> QED
  BY <1>1, <1>2, <1>3, QuietStep, Zenon DEF Edit, StoreInv, Alone, TypeInv,
     Loading

LEMMA OpenStep ==
  ASSUME StoreInv, UNCHANGED setting, NEW p \in {"main", "bus"}, Open(p)
  PROVE  StoreInv'
<1>1. Text' = Text /\ TypeInv
  BY SettingKept, Zenon DEF StoreInv
<1>2. /\ pc[p] = "open" /\ pc' = [pc EXCEPT ![p] = "scan"]
      /\ rest' = [rest EXCEPT ![p] = file[cur[p]]]
      /\ UNCHANGED <<file, dirty, cur, complexRules, complexLists, backingLists, rules,
                     hashes, blooms, table, tx, stmt, content, failed>>
  BY SMTT(20) DEF Open, Goto, fileVars, complexVars, layerVars
<1>3. TypeInv'
  BY <1>1, <1>2, SMTT(20) DEF TypeInv
<1>4. pc'["main"] = "done" <=> pc["main"] = "done"
  BY <1>1, <1>2 DEF TypeInv
<1>5. pc'["bus"] = "idle" <=> pc["bus"] = "idle"
  BY <1>1, <1>2 DEF TypeInv
<1>6. Loading' = Loading
  BY <1>2, <1>4, <1>5 DEF Loading
<1> QED BY <1>2, <1>3, <1>4, <1>5, <1>6, QuietStep DEF Open, StoreInv, Alone

LEMMA NextListStep ==
  ASSUME StoreInv, UNCHANGED setting, NextList
  PROVE  StoreInv'
<1>1. Text' = Text /\ TypeInv
  BY SettingKept DEF StoreInv
<1>2. /\ pc["main"] = "scan"
      /\ \/ pc' = [pc EXCEPT !["main"] = "open"]
         \/ pc' = [pc EXCEPT !["main"] = "finalize"]
      /\ UNCHANGED <<file, dirty, rest, complexRules, complexLists, backingLists, rules,
                     hashes, blooms, table, tx, stmt, content, failed>>
  BY DEF NextList, Goto, fileVars, complexVars, layerVars
<1>3. cur' \in [{"main", "bus"} -> ListSet] /\ cur'["bus"] = cur["bus"]
  <2> DEFINE i == CHOOSE j \in DOMAIN Lists : Lists[j] = cur["main"]
  <2>1. i \in DOMAIN Lists
    BY <1>1 DEF TypeInv, ListSet, Range
  <2>2. i < Len(Lists) => Lists[i + 1] \in ListSet
    <3> HIDE DEF i
    <3>1. DOMAIN Lists = 1..Len(Lists) /\ Len(Lists) \in Nat
      BY RuleStoreAssumption
    <3> QED BY <2>1, <3>1 DEF ListSet, Range
  <2>3. CASE i < Len(Lists) /\ cur' = [cur EXCEPT !["main"] = Lists[i + 1]]
    BY <1>1, <2>2, <2>3 DEF TypeInv
  <2>4. CASE cur' = cur
    BY <1>1, <2>4 DEF TypeInv
  <2> QED BY <2>3, <2>4 DEF NextList
<1> QED
  BY <1>1, <1>2, <1>3, QuietStep, Zenon DEF NextList, StoreInv, Alone, TypeInv,
     Loading

LEMMA LoadRuleStep ==
  ASSUME StoreInv, UNCHANGED setting, NEW p \in {"main", "bus"}, LoadRule(p)
  PROVE  StoreInv'
<1> DEFINE l == cur[p]
<1>1. /\ Text' = Text /\ Text \subseteq Names /\ TypeInv /\ l \in ListSet
      /\ BootEdits' = BootEdits /\ InsertErrors' = InsertErrors
  BY SettingKept, TextIsNames DEF StoreInv, TypeInv
<1>2. /\ pc[p] = "scan" /\ rest[p] # <<>> /\ rest[p] \in Seq(Text)
      /\ rest' = [rest EXCEPT ![p] = Tail(@)]
      /\ content' = [content EXCEPT ![l] = Append(@, Head(rest[p]))]
      /\ UNCHANGED <<file, dirty, pc, cur>>
  BY <1>1, Zenon DEF LoadRule, fileVars, TypeInv
<1>3. Head(rest[p]) \in Text /\ Tail(rest[p]) \in Seq(Text)
  BY <1>2, RangeParts
<1>4. PICK r \in ScannedRule(p) : StoreLoad(l, r)
  BY DEF LoadRule
<1>5. r \in Text
  BY <1>3, <1>4 DEF ScannedRule
<1> HIDE DEF l
<1>6. TypeInv'
  <2>1. /\ complexRules' \in [ListSet -> Seq(Text)] /\ rules' \in [ListSet -> Seq(Names)]
        /\ DOMAIN hashes' = ListSet /\ DOMAIN blooms' = ListSet
    <3>1. CASE /\ complexRules' = [complexRules EXCEPT ![l] = Append(@, r)]
               /\ UNCHANGED <<rules, hashes, blooms>>
      BY <1>1, <1>5, <3>1, RangeAppend, SMTT(20) DEF TypeInv
    <3>2. CASE /\ complexRules' = complexRules
               /\ MemoryLoad(l, r) /\ HashLoad(l, r) /\ BloomLoad(l, r)
      BY <1>1, <1>5, <3>2, NamesAssumption, RangeAppend, Zenon DEF TypeInv,
         MemoryLoad, HashLoad, BloomLoad
    <3> QED BY <1>4, <3>1, <3>2 DEF StoreLoad, BackingLoad, layerVars
  <2> QED BY <1>1, <1>2, <1>3, <2>1, RangeAppend, Zenon DEF TypeInv
<1>7. ASSUME ~BootEdits
      PROVE  /\ Alone' /\ TableType'
             /\ \A k \in ListSet : LayersExact(k)' /\ TableExact(k)'
             /\ \A k \in ListSet \ Loading' : InOrder(rules'[k])
  <2>1. /\ Alone /\ TableType
        /\ \A k \in ListSet : LayersExact(k) /\ TableExact(k)
        /\ \A k \in ListSet \ Loading : InOrder(rules[k])
    BY <1>7 DEF StoreInv
  <2>2. content' = [content EXCEPT ![l] = Append(@, r)]
    BY <1>2, <1>4, <2>1, Zenon DEF Alone, ScannedRule
  <2>3. \A k \in ListSet : LayersExact(k)'
    BY <1>1, <1>4, <1>5, <2>1, <2>2, LoadLayers, Zenon
  <2>4. TableType' /\ \A k \in ListSet : TableExact(k)'
    BY <1>1, <1>4, <1>5, <2>1, <2>2, LoadTable, Zenon
  <2>5. \A k \in ListSet \ {l} : rules'[k] = rules[k]
    BY <1>1, <1>4, Zenon DEF MemoryLoad, TypeInv, StoreLoad, BackingLoad,
       layerVars
  <2> QED
    BY <1>1, <1>2, <1>4, <2>1, <2>3, <2>4, <2>5, LoadFailed, Zenon DEF Loading,
       l, Alone
<1> QED BY <1>1, <1>6, <1>7, SMTT(20) DEF StoreInv, InOrder

\* Both Finalize steps: of all lists by main, of one by the bus.
LEMMA FinalizeStep ==
  ASSUME StoreInv, UNCHANGED setting, FinalizeAll \/ Finalize
  PROVE  StoreInv'
<1>1. /\ Text' = Text /\ TypeInv
      /\ BootEdits' = BootEdits /\ InsertErrors' = InsertErrors
  BY SettingKept DEF StoreInv
<1>2. /\ UNCHANGED <<file, dirty, cur, rest, content, failed>>
      /\ UNCHANGED <<complexRules, hashes, blooms>>
  BY DEF FinalizeAll, Finalize, StoreFinalize, fileVars, complexVars
<1>3. PICK ls \in SUBSET ListSet :
        /\ StoreFinalize(ls)
        /\ \/ pc["main"] = "finalize" /\ pc' = [pc EXCEPT !["main"] = "done"] /\ ls = ListSet
           \/ pc["bus"] = "scan" /\ pc' = [pc EXCEPT !["bus"] = "idle"] /\ ls = {cur["bus"]}
  <2>1. CASE FinalizeAll
    BY <2>1, Zenon DEF FinalizeAll, Goto
  <2>2. CASE Finalize
    <3>1. /\ StoreFinalize({cur["bus"]}) /\ cur["bus"] \in ListSet
          /\ pc["bus"] = "scan" /\ pc' = [pc EXCEPT !["bus"] = "idle"]
      BY <1>1, <2>2 DEF Finalize, Goto, TypeInv
    <3>2. {cur["bus"]} \in SUBSET ListSet
      BY <3>1, SMTT(20)
    <3> QED BY <3>1, <3>2, Zenon
  <2> QED BY <2>1, <2>2, Zenon
<1>4. /\ rules' \in [ListSet -> Seq(Names)]
      /\ \A l \in ls : InOrder(rules'[l])
      /\ \A l \in ListSet \ ls : rules'[l] = rules[l]
      /\ \A l \in ListSet : LayersExact(l) => LayersExact(l)'
      /\ \A l \in ListSet : TableExact(l) => TableExact(l)'
      /\ TableType => TableType'
      /\ tx' = {} /\ stmt' = "none"
  BY <1>1, <1>2, <1>3, FinalizeExact, SMTT(20)
<1>5. TypeInv'
  BY <1>1, <1>2, <1>3, <1>4 DEF TypeInv
<1>6. ASSUME ~BootEdits
      PROVE  /\ Alone' /\ TableType'
             /\ \A k \in ListSet : LayersExact(k)' /\ TableExact(k)'
             /\ \A k \in ListSet \ Loading' : InOrder(rules'[k])
  BY <1>1, <1>2, <1>3, <1>4, <1>6, Zenon DEF StoreInv, Alone, TypeInv, Loading
<1> QED BY <1>1, <1>5, <1>6 DEF StoreInv, InOrder

LEMMA ClearStep ==
  ASSUME StoreInv, UNCHANGED setting, NEW l \in ListSet, Clear(l)
  PROVE  StoreInv'
<1>1. /\ Text' = Text /\ TypeInv
      /\ BootEdits' = BootEdits /\ InsertErrors' = InsertErrors
  BY SettingKept DEF StoreInv
<1>2. /\ pc["bus"] = "idle" /\ l \in dirty /\ dirty' = dirty \ {l}
      /\ cur' = [cur EXCEPT !["bus"] = l] /\ pc' = [pc EXCEPT !["bus"] = "open"]
      /\ StoreClear(l) /\ content' = [content EXCEPT ![l] = <<>>]
      /\ failed' = failed \ {l} /\ UNCHANGED <<file, rest>>
  BY DEF Clear, Goto, fileVars
<1>3. /\ complexRules' = [complexRules EXCEPT ![l] = <<>>]
      /\ rules' = [rules EXCEPT ![l] = <<>>] /\ hashes' = [hashes EXCEPT ![l] = {}]
      /\ blooms' = blooms
  BY <1>2 DEF StoreClear, MemoryClear, HashClear, BloomClear
<1>4. TypeInv'
  BY <1>1, <1>2, <1>3 DEF TypeInv
<1>5. ASSUME ~BootEdits
      PROVE  /\ Alone' /\ TableType'
             /\ \A k \in ListSet : LayersExact(k)' /\ TableExact(k)'
             /\ \A k \in ListSet \ Loading' : InOrder(rules'[k])
  BY <1>1, <1>2, <1>3, <1>5, ClearExact, Zenon DEF StoreInv, Alone, TypeInv,
     StoreClear, SqlClear, Loading
<1> QED BY <1>1, <1>4, <1>5, Zenon DEF StoreInv, InOrder

LEMMA StoreStep == StoreInv /\ [Next]_<<vars, setting>> => StoreInv'
<1> SUFFICES ASSUME StoreInv, [Next]_<<vars, setting>> PROVE StoreInv'
  OBVIOUS
<1>1. CASE UNCHANGED <<vars, setting>>
  <2>1. /\ UNCHANGED <<file, dirty, pc, cur, rest>>
        /\ UNCHANGED <<setting, complexVars, layerVars, content, failed>>
    BY <1>1 DEF vars, fileVars, jobVars
  <2> QED
    BY <2>1, QuietStep, SettingKept, Zenon DEF StoreInv, Alone, TypeInv,
       Loading, complexVars, layerVars
<1>2. CASE Next
  BY <1>2, EditStep, OpenStep, LoadRuleStep, NextListStep, FinalizeStep, ClearStep
     DEF Next, Main, Bus
<1> QED BY <1>1, <1>2

\* The layers of the store are exact in every reachable state.
THEOREM LayersAreExact == Spec => []StoreInv
  BY StoreInit, StoreStep, PTL DEF Spec

\* Every non-empty set of naturals has a least element.
LEMMA Least ==
  ASSUME NEW T \in SUBSET Nat, T # {}
  PROVE  \E m \in T : \A k \in T : m <= k
<1> DEFINE R == OpToRel(<, Nat)
<1>1. PICK m \in T : \A k \in T : ~(<<k, m>> \in R)
  BY WFMin, NatLessThanWellFounded, Zenon
<1>2. \A k \in T : ~(k < m)
  BY <1>1, Zenon DEF OpToRel
<1> QED BY <1>2

-----------------------------------------------------------------------------
(* Matching list by list.                                                   *)

LEMMA MatchesDiffer ==
  ASSUME NEW l
  PROVE  /\ MatchOf(l) # None /\ MatchOf(l).list = l
         /\ MatchOf(l).match = IF l \in AllowLists THEN "allow" ELSE "block"
  BY DEF MatchOf, Allow, Block, None

\* What the loop over the lists may return.
LEMMA MatchForEachMember ==
  ASSUME NEW ls, NEW known, NEW find, NEW x
  PROVE  x \in MatchForEach(ls, known, find) <=>
           \/ /\ x # None
              /\ \E i \in DOMAIN ls : /\ ls[i] \in known /\ Reached(i, ls, known, find)
                                     /\ x \in find[ls[i]]
           \/ x = None /\ Reached(Len(ls) + 1, ls, known, find)
<1> DEFINE asked == {i \in DOMAIN ls : ls[i] \in known /\ Reached(i, ls, known, find)}
           A == UNION {find[ls[i]] \ {None} : i \in asked}
           B == IF Reached(Len(ls) + 1, ls, known, find) THEN {None} ELSE {}
<1>1. x \in A <=> x # None /\ \E i \in asked : x \in find[ls[i]]
  <2> HIDE DEF asked
  <2> QED OBVIOUS
<1> QED BY <1>1 DEF MatchForEach

\* A match comes from a known list that is asked for.
LEMMA MatchForEachSound ==
  ASSUME NEW ls, NEW known, NEW find,
         NEW x \in MatchForEach(ls, known, find), x # None
  PROVE  \E l \in Range(ls) \cap known : x \in find[l]
  BY MatchForEachMember DEF Range

\* There is none exactly when no list has one for certain.
LEMMA MatchForEachNone ==
  ASSUME NEW S, NEW ls \in Seq(S), NEW known, NEW find
  PROVE  None \in MatchForEach(ls, known, find)
           <=> \A l \in Range(ls) \cap known : None \in find[l]
  BY MatchForEachMember DEF Range, Reached

\* Something is returned: the first list that has a match for certain stops it.
LEMMA MatchForEachTotal ==
  ASSUME NEW S, NEW ls \in Seq(S), NEW known, NEW find,
         \A l \in Range(ls) \cap known : find[l] # {}
  PROVE  MatchForEach(ls, known, find) # {}
<1> DEFINE T == {i \in DOMAIN ls : ls[i] \in known /\ None \notin find[ls[i]]}
<1>1. DOMAIN ls = 1..Len(ls) /\ Len(ls) \in Nat
  OBVIOUS
<1>2. CASE T = {}
  BY <1>2, MatchForEachNone DEF Range
<1>3. CASE T # {}
  <2>1. T \in SUBSET Nat
    BY <1>1
  <2>2. PICK i \in T : \A k \in T : i <= k
    BY <1>3, <2>1, Least, Zenon
  <2>3. ls[i] \in Range(ls) \cap known /\ None \notin find[ls[i]]
    BY <2>2 DEF Range
  <2>4. PICK x : x \in find[ls[i]] \ {None}
    BY <2>3
  <2>5. x \in MatchForEach(ls, known, find)
    BY <1>1, <2>2, <2>3, <2>4, MatchForEachMember DEF Reached
  <2> QED BY <2>5
<1> QED BY <1>2, <1>3

\* The allow lists and then the block lists: the same three facts.
LEMMA AllowThenBlockSound ==
  ASSUME NEW ls, NEW known, NEW find,
         NEW x \in AllowThenBlock(ls, known, find), x # None
  PROVE  \E l \in Range(ls) \cap known : x \in find[l]
  BY MatchForEachSound DEF AllowThenBlock

LEMMA AllowThenBlockNone ==
  ASSUME NEW S, NEW ls \in Seq(S), NEW known, NEW find
  PROVE  None \in AllowThenBlock(ls, known, find)
           <=> \A l \in Range(ls) \cap known : None \in find[l]
  BY MatchForEachNone DEF AllowThenBlock

LEMMA AllowThenBlockTotal ==
  ASSUME NEW S, NEW ls \in Seq(S), NEW known, NEW find,
         \A l \in Range(ls) \cap known : find[l] # {}
  PROVE  AllowThenBlock(ls, known, find) # {}
  BY MatchForEachTotal, Zenon DEF AllowThenBlock

\* When it is certain for every list whether it has a match, the result is an
\* allow list with one, else a block list with one, else none.
Certain(ls, known, find, hit) ==
  \A l \in Range(ls) \cap known :
    find[l] = IF l \in hit THEN {MatchOf(l)} ELSE {None}

LEMMA AllowThenBlockExact ==
  ASSUME NEW S, NEW ls \in Seq(S), NEW known, NEW find, NEW hit,
         Certain(ls, known, find, hit)
  PROVE  /\ AllowThenBlock(ls, known, find) # {}
         /\ \A x \in AllowThenBlock(ls, known, find) :
              x.match = Decision(Range(ls) \cap known \cap hit)
         /\ AllowThenBlock(ls, known, find) = {None}
              <=> Range(ls) \cap known \cap hit = {}
<1> DEFINE K == Range(ls) \cap known
           H == K \cap hit
           A == MatchForEach(ls, known \cap AllowLists, find)
           B == MatchForEach(ls, known \ AllowLists, find)
           F == AllowThenBlock(ls, known, find)
<1>1. ASSUME NEW x \in A, x # None
      PROVE  \E l \in H \cap AllowLists : x = MatchOf(l)
  <2>1. PICK l \in Range(ls) \cap (known \cap AllowLists) : x \in find[l]
    BY <1>1, MatchForEachSound
  <2>2. l \in Range(ls) \cap known
    BY <2>1, Zenon
  <2>3. find[l] = IF l \in hit THEN {MatchOf(l)} ELSE {None}
    BY <2>2, Zenon DEF Certain
  <2> QED BY <1>1, <2>1, <2>3
<1>2. ASSUME NEW x \in B, x # None
      PROVE  \E l \in H \ AllowLists : x = MatchOf(l)
  <2>1. PICK l \in Range(ls) \cap (known \ AllowLists) : x \in find[l]
    BY <1>2, MatchForEachSound
  <2>2. find[l] = IF l \in hit THEN {MatchOf(l)} ELSE {None}
    BY <2>1, Zenon DEF Certain
  <2> QED BY <1>2, <2>1, <2>2
<1>3. None \in A <=> H \cap AllowLists = {}
  <2>1. \A l \in K : None \in find[l] <=> l \notin hit
    BY MatchesDiffer, Zenon DEF Certain
  <2> QED BY <2>1, MatchForEachNone
<1>4. None \in B <=> H \ AllowLists = {}
  <2>1. None \in B <=> \A l \in Range(ls) \cap (known \ AllowLists) : None \in find[l]
    BY MatchForEachNone
  <2> QED BY <2>1, MatchesDiffer, ZenonT(30) DEF Certain
<1>5. A # {} /\ B # {}
  BY MatchForEachTotal, Zenon DEF Certain
<1>6. F = IF None \in A THEN (A \ {None}) \cup B ELSE A
  BY DEF AllowThenBlock
<1> HIDE DEF A, B, F
<1>7. CASE H \cap AllowLists # {}
  BY <1>1, <1>3, <1>5, <1>6, <1>7, MatchesDiffer DEF Decision, F
<1>8. CASE H \cap AllowLists = {} /\ H # {}
  BY <1>1, <1>2, <1>3, <1>4, <1>5, <1>6, <1>8, MatchesDiffer, SMTT(20) DEF Decision, F
<1>9. CASE H = {}
  BY <1>1, <1>2, <1>3, <1>4, <1>6, <1>9 DEF Decision, F, None
<1> QED BY <1>7, <1>8, <1>9, Zenon

\* For one known list the result is what that list returns.
LEMMA AllowThenBlockOne ==
  ASSUME NEW S, NEW l \in S, NEW known, l \in known, NEW find, NEW hit,
         find[l] = IF l \in hit THEN {MatchOf(l)} ELSE {None}
  PROVE  AllowThenBlock(<<l>>, known, find) = find[l]
<1> DEFINE F == AllowThenBlock(<<l>>, known, find)
<1>1. <<l>> \in Seq(S) /\ Range(<<l>>) = {l}
  BY DEF Range
<1>2. F # {}
  BY <1>1, AllowThenBlockTotal, Zenon
<1>3. ASSUME NEW x \in F, x # None PROVE x \in find[l]
  BY <1>1, <1>3, AllowThenBlockSound
<1>4. None \in F <=> None \in find[l]
  BY <1>1, AllowThenBlockNone, Zenon
<1> HIDE DEF F
<1>5. CASE l \in hit
  BY <1>2, <1>3, <1>4, <1>5, MatchesDiffer DEF F
<1>6. CASE l \notin hit
  BY <1>2, <1>3, <1>4, <1>6 DEF F
<1> QED BY <1>5, <1>6

-----------------------------------------------------------------------------
(* What queries return.                                                     *)

\* The lists one of whose simple rules is for the domain.
Hit(d) == {l \in ListSet : SaysSimple(l, d)}

LEMMA HitBySimple ==
  ASSUME TypeInv, NEW d \in Domains, NEW l \in ListSet
  PROVE  /\ Range(DomainList[d]) \subseteq Names /\ Simple(l) \subseteq Text
         /\ l \in Hit(d) <=> \E r \in Simple(l), n \in Range(DomainList[d]) :
                               ToLower[n] = ToLower[r]
  BY NamesAssumption, RangeIn, Zenon DEF Simple, TypeInv, Hit, SaysSimple

\* Indices of sort.Search count from 0, those of sequences from 1.
LEMMA SearchIndex ==
  ASSUME NEW n \in Nat, NEW i \in 0..n
  PROVE  /\ i # 0 => /\ i - 1 \in 0..n /\ (i - 1) + 1 = i /\ i \in 1..n
                     /\ ~(i <= i - 1)
         /\ i < n => i + 1 \in 1..n
         /\ \A k \in 1..n : /\ k <= i => i \in 1..n /\ i # 0
                            /\ ~(k <= i) => i + 1 \in 1..n /\ i < n /\ i + 1 <= k
  OBVIOUS

\* In a sorted list sort.Search finds a name exactly when it is there.
LEMMA SearchExact ==
  ASSUME NEW rs \in Seq(Names), InOrder(rs), NEW n \in Names
  PROVE  /\ Search(rs, n) # {}
         /\ \A i \in Search(rs, n) :
              FoundAt(rs, n, i) <=> \E x \in Range(rs) : ToLower[x] = ToLower[n]
<1>1. DOMAIN rs = 1..Len(rs) /\ Len(rs) \in Nat
  OBVIOUS
<1>2. /\ DOMAIN rs = 1..Len(rs) /\ Len(rs) \in Nat /\ \A i \in 1..Len(rs) : rs[i] \in Names
      /\ Rank \in [Names -> Int]
      /\ \A a, b \in Names : Rank[a] = Rank[b] <=> ToLower[a] = ToLower[b]
  BY NamesAssumption
<1>3. Search(rs, n) # {}
  <2> DEFINE T == {i \in 0..Len(rs) : i = Len(rs) \/ Rank[rs[i + 1]] >= Rank[n]}
  <2>1. T \in SUBSET Nat /\ Len(rs) \in T
    BY <1>2
  <2>2. PICK m \in T : \A k \in T : m <= k
    BY <2>1, Least, Zenon
  <2>3. m = 0 \/ Rank[rs[m]] < Rank[n]
    <3>1. SUFFICES ASSUME m # 0 PROVE Rank[rs[m]] < Rank[n]
      OBVIOUS
    <3>2. m - 1 \in 0..Len(rs) /\ m - 1 \notin T /\ (m - 1) + 1 = m /\ m \in 1..Len(rs)
      BY <1>1, <2>2, <3>1, SearchIndex, Zenon
    <3>3. Rank[rs[m]] \in Int /\ Rank[n] \in Int
      BY <1>2, <3>2, Zenon
    <3> QED BY <3>2, <3>3
  <2> QED BY <2>2, <2>3 DEF Search
<1>4. ASSUME NEW i \in Search(rs, n)
      PROVE  FoundAt(rs, n, i) <=> \E x \in Range(rs) : ToLower[x] = ToLower[n]
  <2>1. /\ i \in 0..Len(rs) /\ (i = 0 \/ Rank[rs[i]] < Rank[n])
        /\ i = Len(rs) \/ Rank[rs[i + 1]] >= Rank[n]
    BY DEF Search
  <2>2. ASSUME FoundAt(rs, n, i) PROVE \E x \in Range(rs) : ToLower[x] = ToLower[n]
    <3>1. i + 1 \in DOMAIN rs /\ ToLower[rs[i + 1]] = ToLower[n]
      BY <1>1, <2>1, <2>2, SearchIndex, Zenon DEF FoundAt
    <3> QED BY <3>1 DEF Range
  <2>3. ASSUME NEW x \in Range(rs), ToLower[x] = ToLower[n] PROVE FoundAt(rs, n, i)
    <3>1. PICK k \in 1..Len(rs) : rs[k] = x
      BY <1>2, <2>3, SMTT(20) DEF Range
    <3>2. Rank[rs[k]] = Rank[n] /\ Rank[n] \in Int
      BY <1>2, <2>3, <3>1
    <3>3. \A a, b \in 1..Len(rs) :
            Rank[rs[a]] \in Int /\ (a < b => Rank[rs[a]] <= Rank[rs[b]])
      BY <1>2, SMTT(20) DEF InOrder
    <3>4. ~(k <= i)
      <4>1. SUFFICES ASSUME k <= i PROVE FALSE
        OBVIOUS
      <4>2. i \in 1..Len(rs) /\ Rank[rs[i]] < Rank[n]
        BY <1>1, <2>1, <3>1, <4>1, SearchIndex, Zenon
      <4> QED BY <3>1, <3>2, <3>3, <4>1, <4>2
    <3>5. i + 1 \in 1..Len(rs) /\ i < Len(rs) /\ i + 1 <= k
      BY <1>1, <2>1, <3>1, <3>4, SearchIndex, Zenon
    <3> QED BY <1>2, <2>1, <3>1, <3>2, <3>3, <3>5, SMTT(20) DEF FoundAt
  <2> QED BY <2>2, <2>3
<1> QED BY <1>3, <1>4

\* The rules the memory store holds of a list are those of its simple rules.
LEMMA InMemory ==
  ASSUME TypeInv, NEW l \in ListSet, LayersExact(l), Has("memory"), NEW n
  PROVE  (\E x \in Range(rules[l]) : ToLower[x] = ToLower[n])
           <=> \E r \in Simple(l) : ToLower[n] = ToLower[r]
<1>1. \A r \in Simple(l) : ToLower[ToLower[r]] = ToLower[r]
  BY TextIsNames, NamesAssumption, RangeIn, SMTT(20) DEF Simple, TypeInv
<1> QED BY <1>1, SMTT(20) DEF LayersExact

\* A layer that is certain of every list, and right, returns their decision.
LEMMA LayerExact ==
  ASSUME TypeInv, \A l \in ListSet : LayersExact(l),
         NEW ls \in Seq(ListSet), NEW d \in Domains, NEW find,
         Certain(ls, backingLists, find, Hit(d))
  PROVE  /\ AllowThenBlock(ls, backingLists, find) # {}
         /\ \A x \in AllowThenBlock(ls, backingLists, find) :
              x.match = Decision(Range(ls) \cap Hit(d))
<1>1. /\ AllowThenBlock(ls, backingLists, find) # {}
      /\ \A x \in AllowThenBlock(ls, backingLists, find) :
           x.match = Decision(Range(ls) \cap backingLists \cap Hit(d))
  BY AllowThenBlockExact
<1> QED BY <1>1, HitBySimple, Zenon DEF LayersExact, Hit

LEMMA MemoryExact ==
  ASSUME TypeInv, Has("memory"), NEW ls \in Seq(ListSet), NEW d \in Domains,
         \A l \in ListSet : LayersExact(l),
         \A l \in Range(ls) : InOrder(rules[l])
  PROVE  /\ MemoryFind(ls, d) # {}
         /\ \A x \in MemoryFind(ls, d) : x.match = Decision(Range(ls) \cap Hit(d))
<1> DEFINE names == Range(DomainList[d])
           find == [l \in Range(ls) |->
             {MatchOf(l) : n \in {m \in names :
                \E i \in Search(rules[l], m) : FoundAt(rules[l], m, i)}}
             \cup IF \A n \in names :
                       \E i \in Search(rules[l], n) : ~FoundAt(rules[l], n, i)
                  THEN {None} ELSE {}]
<1>1. MemoryFind(ls, d) = AllowThenBlock(ls, backingLists, find)
  BY DEF MemoryFind
<1>2. ASSUME NEW l \in Range(ls)
      PROVE  find[l] = IF l \in Hit(d) THEN {MatchOf(l)} ELSE {None}
  <2>1. l \in ListSet /\ rules[l] \in Seq(Names) /\ InOrder(rules[l])
    BY RangeIn, SMTT(20) DEF TypeInv
  <2>2. names \subseteq Names
    BY <2>1, HitBySimple, SMTT(20)
  <2>3. \A n \in names : Search(rules[l], n) # {}
    BY <2>1, <2>2, SearchExact, SMTT(20)
  <2>4. ASSUME NEW n \in names, NEW i \in Search(rules[l], n)
        PROVE  FoundAt(rules[l], n, i) <=> \E r \in Simple(l) : ToLower[n] = ToLower[r]
    BY <2>1, <2>2, SearchExact, InMemory, SMTT(20)
  <2>5. l \in Hit(d) <=> \E r \in Simple(l), n \in names : ToLower[n] = ToLower[r]
    BY <2>1, HitBySimple, SMTT(20)
  <2>6. CASE l \in Hit(d)
    <3>1. PICK m \in names : \E r \in Simple(l) : ToLower[m] = ToLower[r]
      BY <2>5, <2>6, SMTT(20)
    <3> QED BY <2>3, <2>4, <2>6, <3>1, SMTT(20)
  <2>7. CASE l \notin Hit(d)
    BY <2>3, <2>4, <2>5, <2>7
  <2> QED BY <2>6, <2>7, Zenon
<1> HIDE DEF find
<1>3. Certain(ls, backingLists, find, Hit(d))
  BY <1>2, Zenon DEF Certain
<1> QED BY <1>1, <1>3, LayerExact

\* The rows of a list that are asked for, outside of a transaction.
LEMMA SqlRows ==
  ASSUME TypeInv, CaseTold, Has("sqlite"), NEW d \in Domains, NEW l \in ListSet,
         LayersExact(l), TableExact(l), l \notin failed
  PROVE  l \in Hit(d) <=>
           l \in backingLists /\ \E r \in Range(DomainList[d]) : <<l, r>> \in table
<1>1. /\ Range(DomainList[d]) \subseteq Names /\ Simple(l) \subseteq Text
      /\ l \in Hit(d) <=> \E r \in Simple(l), n \in Range(DomainList[d]) :
                            ToLower[n] = ToLower[r]
  BY HitBySimple
<1>2. \A n \in Text \cup Range(DomainList[d]) : ToLower[n] = n
  BY DEF CaseTold
<1>3. \A r : <<l, r>> \in table <=> r \in Simple(l)
  BY SMTT(20) DEF TableExact
<1>4. Simple(l) # {} => l \in backingLists
  BY DEF LayersExact
<1> QED BY <1>1, <1>2, <1>3, <1>4, Zenon

\* What the database is asked for.
SqlFound(ls, d) ==
  {row[1] : row \in {x \in table : /\ x[1] \in Range(ls) \cap backingLists
                                   /\ x[2] \in Range(DomainList[d])}}

LEMMA SqlFoundIs ==
  ASSUME TableType, NEW ls, NEW d
  PROVE  \A l : l \in SqlFound(ls, d) <=>
           /\ l \in Range(ls) \cap backingLists
           /\ \E r \in Range(DomainList[d]) : <<l, r>> \in table
  BY ZenonT(30) DEF SqlFound, TableType

LEMMA SqlFindIs ==
  ASSUME NEW ls, NEW d
  PROVE  SqlFind(ls, d) =
           IF tx # {} \/ SqlFound(ls, d) = {} THEN {None}
           ELSE {MatchOf(l) : l \in IF SqlFound(ls, d) \cap AllowLists # {}
                                    THEN SqlFound(ls, d) \cap AllowLists
                                    ELSE SqlFound(ls, d)}
  BY DEF SqlFind, SqlFound

LEMMA SqlExact ==
  ASSUME TypeInv, CaseTold, Has("sqlite"), tx = {}, TableType,
         NEW ls \in Seq(ListSet), NEW d \in Domains,
         \A l \in ListSet : LayersExact(l) /\ TableExact(l),
         Range(ls) \cap failed = {}
  PROVE  /\ SqlFind(ls, d) # {}
         /\ \A x \in SqlFind(ls, d) : x.match = Decision(Range(ls) \cap Hit(d))
<1>1. Range(ls) \subseteq ListSet
  BY RangeIn
<1>2. SqlFound(ls, d) = Range(ls) \cap Hit(d)
  BY <1>1, SqlFoundIs, SqlRows, ZenonT(30)
<1>3. CASE Range(ls) \cap Hit(d) = {}
  <2>1. SqlFind(ls, d) = {None}
    BY <1>2, <1>3, SqlFindIs
  <2> QED BY <1>3, <2>1 DEF Decision, None
<1>4. CASE Range(ls) \cap Hit(d) \cap AllowLists # {}
  BY <1>2, <1>4, MatchesDiffer, SqlFindIs, SMTT(20) DEF Decision
<1>5. CASE Range(ls) \cap Hit(d) # {} /\ Range(ls) \cap Hit(d) \cap AllowLists = {}
  BY <1>2, <1>5, MatchesDiffer, SqlFindIs, SMTT(20) DEF Decision
<1> QED BY <1>3, <1>4, <1>5, Zenon

\* As a delegate the database is asked for one list at a time.
LEMMA SqlOne ==
  ASSUME TypeInv, CaseTold, Has("sqlite"), tx = {}, TableType,
         NEW l \in ListSet, NEW d \in Domains,
         LayersExact(l), TableExact(l), l \notin failed
  PROVE  SqlFind(<<l>>, d) = IF l \in Hit(d) THEN {MatchOf(l)} ELSE {None}
<1>1. Range(<<l>>) = {l}
  BY DEF Range
<1>2. SqlFound(<<l>>, d) = IF l \in Hit(d) THEN {l} ELSE {}
  <2>1. \A k : k \in SqlFound(<<l>>, d) <=>
          /\ k \in Range(<<l>>) \cap backingLists
          /\ \E r \in Range(DomainList[d]) : <<k, r>> \in table
    BY SqlFoundIs, Zenon
  <2> QED BY <1>1, <2>1, SqlRows, Zenon
<1> QED BY <1>2, SqlFindIs, Zenon

\* The sums of a list that are asked for: without a delegate they decide.
LEMMA HashHit ==
  ASSUME TypeInv, Has("hash"), NEW d \in Domains, NEW l \in ListSet, LayersExact(l)
  PROVE  LET sum == \E n \in Range(DomainList[d]) : Hash[ToLower[n]] \in hashes[l]
         IN /\ l \in Hit(d) => sum
            /\ sum /\ SumsTold /\ ~Has("sqlite") => l \in Hit(d)
<1>1. /\ Range(DomainList[d]) \subseteq Names /\ Simple(l) \subseteq Text
      /\ l \in Hit(d) <=> \E r \in Simple(l), n \in Range(DomainList[d]) :
                            ToLower[n] = ToLower[r]
  BY HitBySimple
<1>2. hashes[l] = {Hash[ToLower[r]] : r \in Simple(l)}
  BY SMTT(20) DEF LayersExact
<1>3. Simple(l) \subseteq Names
  BY <1>1, TextIsNames DEF TypeInv
<1>4. SumsTold /\ ~Has("sqlite") => \A a, b \in Names :
        Hash[ToLower[a]] = Hash[ToLower[b]] => ToLower[a] = ToLower[b]
  BY SMTT(20) DEF SumsTold
<1> QED BY <1>1, <1>2, <1>3, <1>4, SMTT(20)

\* The state in which queries over the lists of S are answered exactly.
Exact(S) ==
  /\ TypeInv /\ CaseTold /\ SumsTold /\ TableType
  /\ \A l \in ListSet : LayersExact(l) /\ TableExact(l)
  /\ Has("memory") => \A l \in S : InOrder(rules[l])
  /\ Has("sqlite") => tx = {} /\ S \cap failed = {}

\* What the hash store finds in a list.
HashFound(ls, d) ==
  [l \in Range(ls) |->
     IF \E n \in Range(DomainList[d]) : Hash[ToLower[n]] \in hashes[l]
     THEN IF Inner("sqlite") THEN SqlFind(<<l>>, d) ELSE {MatchOf(l)}
     ELSE {None}]

LEMMA HashCertain ==
  ASSUME NEW ls \in Seq(ListSet), NEW d \in Domains, Exact(Range(ls)), Has("hash"),
         Inner("sqlite") <=> Has("sqlite")
  PROVE  Certain(ls, backingLists, HashFound(ls, d), Hit(d))
<1> SUFFICES ASSUME NEW l \in Range(ls)
             PROVE  HashFound(ls, d)[l] = IF l \in Hit(d) THEN {MatchOf(l)} ELSE {None}
  BY Zenon DEF Certain
<1> DEFINE sum == \E n \in Range(DomainList[d]) : Hash[ToLower[n]] \in hashes[l]
<1>1. l \in ListSet
  BY RangeIn, SMTT(20)
<1>2. /\ l \in Hit(d) => sum
      /\ sum /\ ~Has("sqlite") => l \in Hit(d)
  BY <1>1, HashHit, SMTT(20) DEF Exact
<1>3. HashFound(ls, d)[l] =
        IF sum THEN IF Inner("sqlite") THEN SqlFind(<<l>>, d) ELSE {MatchOf(l)} ELSE {None}
  BY DEF HashFound
<1> HIDE DEF sum
<1>4. CASE Has("sqlite")
  BY <1>1, <1>2, <1>3, <1>4, SqlOne, Zenon DEF Exact
<1>5. CASE ~Has("sqlite")
  BY <1>2, <1>3, <1>5
<1> QED BY <1>4, <1>5

LEMMA HashExact ==
  ASSUME NEW ls \in Seq(ListSet), NEW d \in Domains, Exact(Range(ls)), Has("hash"),
         Inner("sqlite") <=> Has("sqlite")
  PROVE  /\ HashFind(ls, d) # {}
         /\ \A x \in HashFind(ls, d) : x.match = Decision(Range(ls) \cap Hit(d))
  BY HashCertain, LayerExact, Zenon DEF HashFind, HashFound, Exact

LEMMA HashOne ==
  ASSUME NEW l \in ListSet, NEW d \in Domains, Exact({l}), Has("hash"),
         Inner("sqlite") <=> Has("sqlite"), l \in backingLists
  PROVE  HashFind(<<l>>, d) = IF l \in Hit(d) THEN {MatchOf(l)} ELSE {None}
<1> DEFINE find == HashFound(<<l>>, d)
<1>1. HashFind(<<l>>, d) = AllowThenBlock(<<l>>, backingLists, find)
  BY Zenon DEF HashFind, HashFound
<1>2. Range(<<l>>) = {l} /\ <<l>> \in Seq(ListSet)
  BY DEF Range
<1>3. find[l] = IF l \in Hit(d) THEN {MatchOf(l)} ELSE {None}
  BY <1>2, HashCertain, Zenon DEF Certain
<1> HIDE DEF find
<1> QED BY <1>1, <1>3, AllowThenBlockOne

\* The filter passes every domain one of whose rules is in the list.
LEMMA BloomHit ==
  ASSUME TypeInv, CaseTold, Has("bloom"), NEW d \in Domains, NEW l \in ListSet,
         LayersExact(l), l \in Hit(d)
  PROVE  \E n \in Range(DomainList[d]) : Bits[n] \subseteq blooms[l]
<1>1. PICK r \in Simple(l), n \in Range(DomainList[d]) : ToLower[n] = ToLower[r]
  BY HitBySimple
<1> QED BY <1>1, HitBySimple DEF LayersExact, CaseTold

\* What the bloom filter and the store behind it find in a list.
BloomFound(ls, d) ==
  [l \in Range(ls) |->
     IF \E n \in Range(DomainList[d]) : Bits[n] \subseteq blooms[l]
     THEN CASE Inner("hash") -> HashFind(<<l>>, d)
            [] Inner("sqlite") -> SqlFind(<<l>>, d)
            [] OTHER -> {MatchOf(l)}
     ELSE {None}]

LEMMA BloomExact ==
  ASSUME NEW ls \in Seq(ListSet), NEW d \in Domains, Exact(Range(ls)), Has("bloom"),
         Inner("hash") <=> Has("hash"), Inner("sqlite") <=> Has("sqlite"),
         Has("hash") \/ Has("sqlite"), ~(Has("hash") /\ Has("sqlite"))
  PROVE  /\ BloomFind(ls, d) # {}
         /\ \A x \in BloomFind(ls, d) : x.match = Decision(Range(ls) \cap Hit(d))
<1>1. ASSUME NEW l \in Range(ls), l \in backingLists
      PROVE  BloomFound(ls, d)[l] = IF l \in Hit(d) THEN {MatchOf(l)} ELSE {None}
  <2> DEFINE some == \E n \in Range(DomainList[d]) : Bits[n] \subseteq blooms[l]
  <2>1. l \in ListSet /\ Exact({l})
    BY RangeIn, SMTT(20) DEF Exact
  <2>2. l \in Hit(d) => some
    BY <2>1, BloomHit DEF Exact
  <2>3. BloomFound(ls, d)[l] =
          IF some THEN CASE Inner("hash") -> HashFind(<<l>>, d)
                         [] Inner("sqlite") -> SqlFind(<<l>>, d)
                         [] OTHER -> {MatchOf(l)}
          ELSE {None}
    BY DEF BloomFound
  <2> HIDE DEF some
  <2>4. CASE ~some
    BY <2>2, <2>3, <2>4
  <2>5. CASE some /\ Inner("hash")
    BY <1>1, <2>1, <2>3, <2>5, HashOne, Zenon
  <2>6. CASE some /\ ~Inner("hash")
    BY <2>1, <2>3, <2>6, SqlOne, ZenonT(30) DEF Exact
  <2> QED BY <2>4, <2>5, <2>6
<1> QED BY <1>1, LayerExact, ZenonT(30) DEF BloomFind, BloomFound, Certain, Exact

\* The seven backing stores of CreateStore.
LEMMA Backings ==
  ASSUME setting \in Settings
  PROVE  \/ /\ Backing[1] = "memory" /\ Has("memory")
            /\ ~Has("sqlite") /\ ~Has("hash") /\ ~Has("bloom")
         \/ /\ Backing[1] = "hash" /\ Has("hash") /\ ~Has("bloom") /\ ~Has("memory")
            /\ Inner("sqlite") <=> Has("sqlite")
         \/ /\ Backing[1] = "sqlite" /\ Has("sqlite")
            /\ ~Has("memory") /\ ~Has("hash") /\ ~Has("bloom")
         \/ /\ Backing[1] = "bloom" /\ Has("bloom") /\ ~Has("memory")
            /\ Inner("hash") <=> Has("hash")
            /\ Inner("sqlite") <=> Has("sqlite")
            /\ ~(Has("hash") /\ Has("sqlite"))
            /\ Has("hash") \/ Has("sqlite") <=> Backing # <<"bloom">>
  BY RuleStoreAssumption DEF Range, Has, Inner, Backing

\* The backing store decides by the simple rules.
LEMMA BackingExact ==
  ASSUME NEW ls \in Seq(ListSet), NEW d \in Domains, Exact(Range(ls)),
         Backing # <<"bloom">>
  PROVE  /\ BackingFind(ls, d) # {}
         /\ \A x \in BackingFind(ls, d) : x.match = Decision(Range(ls) \cap Hit(d))
  BY Backings, MemoryExact, HashExact, BloomExact, SqlExact, Zenon DEF Exact,
     TypeInv, BackingFind

\* The lists one of whose complex rules is for the domain.
ComplexHit(d) == {l \in ListSet : SaysComplex(l, d)}

ComplexFound(ls, d) ==
  [l \in Range(ls) |->
     IF \E r \in Range(complexRules[l]) : d \in IsMatch[r] THEN {MatchOf(l)} ELSE {None}]

\* The complex store decides by the complex rules, at any time.
LEMMA ComplexExact ==
  ASSUME NEW ls \in Seq(ListSet), NEW d \in Domains,
         \A l \in ListSet : LayersExact(l)
  PROVE  /\ ComplexFind(ls, d) = AllowThenBlock(ls, complexLists, ComplexFound(ls, d))
         /\ Certain(ls, complexLists, ComplexFound(ls, d), ComplexHit(d))
         /\ ComplexFind(ls, d) # {}
         /\ \A x \in ComplexFind(ls, d) :
              x.match = Decision(Range(ls) \cap ComplexHit(d))
         /\ ComplexFind(ls, d) = {None} <=> Range(ls) \cap ComplexHit(d) = {}
<1>1. Range(ls) \subseteq ListSet
  BY RangeIn, SMTT(20)
<1>2. Certain(ls, complexLists, ComplexFound(ls, d), ComplexHit(d))
  BY <1>1 DEF Certain, ComplexFound, LayersExact, ComplexHit, SaysComplex,
     Complex
<1>3. ASSUME NEW l \in Range(ls), l \in ComplexHit(d) PROVE l \in complexLists
  BY <1>1, <1>3, RangeEmpty, Zenon DEF ComplexHit, SaysComplex, LayersExact
<1>4. /\ AllowThenBlock(ls, complexLists, ComplexFound(ls, d)) # {}
      /\ \A x \in AllowThenBlock(ls, complexLists, ComplexFound(ls, d)) :
           x.match = Decision(Range(ls) \cap complexLists \cap ComplexHit(d))
      /\ AllowThenBlock(ls, complexLists, ComplexFound(ls, d)) = {None}
           <=> Range(ls) \cap complexLists \cap ComplexHit(d) = {}
  BY <1>2, AllowThenBlockExact, Zenon
<1> QED BY <1>2, <1>3, <1>4, Zenon DEF ComplexFind, ComplexFound

\* A query over settled lists gets the verdict of their rules.
LEMMA FindMatchExact ==
  ASSUME NEW ls \in Seq(ListSet), NEW d \in Domains, Exact(Range(ls)),
         Backing # <<"bloom">>
  PROVE  Answers(ls, d) = {Verdict(Range(ls), d)}
<1>1. Verdict(Range(ls), d) =
        Decision(IF Range(ls) \cap ComplexHit(d) # {} THEN Range(ls) \cap ComplexHit(d)
                 ELSE Range(ls) \cap Hit(d))
  BY RangeIn, Zenon DEF Verdict, ComplexHit, Hit
<1>2. /\ FindMatch(ls, d) # {}
      /\ \A x \in FindMatch(ls, d) : x.match = Verdict(Range(ls), d)
  BY <1>1, ComplexExact, BackingExact, Zenon DEF FindMatch, Exact
<1> QED BY <1>2 DEF Answers

\* The bloom filter on its own misses nothing.
LEMMA BloomMisses ==
  ASSUME NEW ls \in Seq(ListSet), NEW d \in Domains, Exact(Range(ls)),
         Backing = <<"bloom">>, Verdict(Range(ls), d) # "none"
  PROVE  "none" \notin Answers(ls, d)
<1>1. Range(ls) \subseteq ListSet
  BY RangeIn
<1>2. /\ {l \in Range(ls) : SaysComplex(l, d)} = Range(ls) \cap ComplexHit(d)
      /\ {l \in Range(ls) : SaysSimple(l, d)} = Range(ls) \cap Hit(d)
  BY <1>1 DEF ComplexHit, Hit
<1>3. /\ \A x \in ComplexFind(ls, d) : x.match = Decision(Range(ls) \cap ComplexHit(d))
      /\ ComplexFind(ls, d) = {None} <=> Range(ls) \cap ComplexHit(d) = {}
  BY ComplexExact, ZenonT(30) DEF Exact
<1>4. /\ TypeInv /\ CaseTold /\ setting \in Settings
      /\ \A l \in ListSet : LayersExact(l)
  BY DEF Exact, TypeInv
<1>5. /\ Has("bloom") /\ ~Inner("hash") /\ ~Inner("sqlite")
      /\ BackingFind(ls, d) = BloomFind(ls, d)
  BY <1>4, Backings, Zenon DEF BackingFind
<1>6. CASE Range(ls) \cap ComplexHit(d) # {}
  BY <1>3, <1>6, Zenon DEF FindMatch, Decision, Answers
<1>7. CASE Range(ls) \cap ComplexHit(d) = {}
  <2>1. FindMatch(ls, d) = AllowThenBlock(ls, backingLists, BloomFound(ls, d))
    BY <1>3, <1>5, <1>7, Zenon DEF FindMatch, BloomFind, BloomFound
  <2>2. PICK l \in Range(ls) : l \in Hit(d)
    BY <1>2, <1>7 DEF Verdict, Decision
  <2>3. \A k \in Range(ls) :
          BloomFound(ls, d)[k] =
            IF \E n \in Range(DomainList[d]) : Bits[n] \subseteq blooms[k]
            THEN {MatchOf(k)} ELSE {None}
    BY <1>5 DEF BloomFound
  <2>4. None \notin BloomFound(ls, d)[l]
    <3>1. \E n \in Range(DomainList[d]) : Bits[n] \subseteq blooms[l]
      BY <1>1, <1>4, <1>5, <2>2, BloomHit, Zenon
    <3> QED BY <2>2, <2>3, <3>1, MatchesDiffer, ZenonT(30)
  <2>5. None \notin FindMatch(ls, d)
    BY <1>1, <1>4, <2>1, <2>2, <2>4, AllowThenBlockNone, HitBySimple, SMTT(20) DEF
       LayersExact
  <2>6. ASSUME NEW x \in FindMatch(ls, d) PROVE x.match # "none"
    <3>1. x # None
      BY <2>5, SMTT(20)
    <3>2. PICK k \in Range(ls) \cap backingLists : x \in BloomFound(ls, d)[k]
      BY <2>1, <3>1, AllowThenBlockSound
    <3>3. x = MatchOf(k)
      BY <2>3, <3>1, <3>2, ZenonT(30)
    <3> QED BY <3>3, MatchesDiffer
  <2> QED BY <2>6 DEF Answers
<1> QED BY <1>6, <1>7

-----------------------------------------------------------------------------
(* A match is never made up, not even half way through a load.              *)

\* What every match of the stores is about.
Genuine(ls, d, x) == \E l \in Range(ls) : x = MatchOf(l) /\ l \in Hit(d)

LEMMA MemorySound ==
  ASSUME TypeInv, Has("memory"), \A l \in ListSet : LayersExact(l),
         NEW ls \in Seq(ListSet), NEW d \in Domains,
         NEW x \in MemoryFind(ls, d), x # None
  PROVE  Genuine(ls, d, x)
<1> DEFINE names == Range(DomainList[d])
           find == [l \in Range(ls) |->
             {MatchOf(l) : n \in {m \in names :
                \E i \in Search(rules[l], m) : FoundAt(rules[l], m, i)}}
             \cup IF \A n \in names :
                       \E i \in Search(rules[l], n) : ~FoundAt(rules[l], n, i)
                  THEN {None} ELSE {}]
<1>1. MemoryFind(ls, d) = AllowThenBlock(ls, backingLists, find)
  BY DEF MemoryFind
<1> HIDE DEF find
<1>2. PICK l \in Range(ls) \cap backingLists : x \in find[l]
  BY <1>1, AllowThenBlockSound, SMTT(20)
<1>3. l \in ListSet /\ rules[l] \in Seq(Names)
  BY RangeIn DEF TypeInv
<1>4. PICK n \in names : x = MatchOf(l)
        /\ \E i \in Search(rules[l], n) : FoundAt(rules[l], n, i)
  BY <1>2 DEF find
<1>5. PICK i \in Search(rules[l], n) : FoundAt(rules[l], n, i)
  BY <1>4, SMTT(20)
<1>6. \E r \in Simple(l) : ToLower[n] = ToLower[r]
  BY <1>3, <1>5, InMemory, SMTT(20) DEF Range, Search, FoundAt
<1> QED BY <1>2, <1>3, <1>4, <1>6, HitBySimple, SMTT(20) DEF Genuine

LEMMA SqlSound ==
  ASSUME TypeInv, TableType, \A l \in ListSet : TableExact(l),
         NEW ls \in Seq(ListSet), NEW d \in Domains,
         NEW x \in SqlFind(ls, d), x # None
  PROVE  Genuine(ls, d, x)
<1>1. PICK l \in SqlFound(ls, d) : x = MatchOf(l)
  BY SqlFindIs
<1>2. l \in Range(ls) /\ \E r \in Range(DomainList[d]) : <<l, r>> \in table
  BY SqlFoundIs
<1>3. l \in ListSet
  BY <1>2, RangeIn
<1>4. PICK r \in Range(DomainList[d]) : r \in Simple(l)
  BY <1>2, <1>3 DEF TableExact
<1> QED BY <1>1, <1>2, <1>3, <1>4, HitBySimple, SMTT(20) DEF Genuine

\* The layers are exact; nothing is said of order, transactions or failures.
Filled ==
  /\ TypeInv /\ TableType /\ SumsTold
  /\ \A l \in ListSet : LayersExact(l) /\ TableExact(l)

LEMMA HashSound ==
  ASSUME Filled, Has("hash"), Inner("sqlite") <=> Has("sqlite"),
         NEW ls \in Seq(ListSet), NEW d \in Domains,
         NEW x \in HashFind(ls, d), x # None
  PROVE  Genuine(ls, d, x)
<1>1. PICK l \in Range(ls) \cap backingLists : x \in HashFound(ls, d)[l]
  BY AllowThenBlockSound, SMTT(20) DEF HashFind, HashFound
<1>2. l \in ListSet /\ l \in Range(ls)
  BY <1>1, RangeIn
<1>3. CASE Has("sqlite")
  <2>1. <<l>> \in Seq(ListSet) /\ Range(<<l>>) = {l}
    BY <1>2 DEF Range
  <2>2. Genuine(<<l>>, d, x)
    BY <1>1, <1>2, <1>3, <2>1, SqlSound, ZenonT(30) DEF Filled, HashFound
  <2> QED BY <1>2, <2>1, <2>2 DEF Genuine
<1>4. CASE ~Has("sqlite")
  BY <1>1, <1>2, <1>4, HashHit, SMTT(20) DEF HashFound, Filled, Genuine
<1> QED BY <1>3, <1>4, SMTT(20)

LEMMA BackingSound ==
  ASSUME Filled, Backing # <<"bloom">>, NEW ls \in Seq(ListSet), NEW d \in Domains,
         NEW x \in BackingFind(ls, d), x # None
  PROVE  Genuine(ls, d, x)
<1>1. setting \in Settings
  BY DEF Filled, TypeInv
<1>2. CASE Backing[1] = "memory"
  BY <1>1, <1>2, Backings, MemorySound DEF BackingFind, Filled
<1>3. CASE Backing[1] = "hash"
  BY <1>1, <1>3, Backings, HashSound DEF BackingFind
<1>4. CASE Backing[1] = "sqlite"
  BY <1>1, <1>4, Backings, SqlSound DEF BackingFind, Filled
<1>5. CASE Backing[1] = "bloom"
  <2>1. /\ Has("bloom") /\ (Inner("hash") <=> Has("hash"))
        /\ (Inner("sqlite") <=> Has("sqlite")) /\ ~(Has("hash") /\ Has("sqlite"))
        /\ Has("hash") \/ Has("sqlite")
        /\ BackingFind(ls, d) = BloomFind(ls, d)
    BY <1>1, <1>5, Backings DEF BackingFind
  <2>2. BloomFind(ls, d) = AllowThenBlock(ls, backingLists, BloomFound(ls, d))
    BY Zenon DEF BloomFind, BloomFound
  <2>3. PICK l \in Range(ls) \cap backingLists : x \in BloomFound(ls, d)[l]
    BY <2>1, <2>2, AllowThenBlockSound, SMTT(20)
  <2>4. l \in ListSet /\ l \in Range(ls)
    BY <2>3, RangeIn
  <2>5. <<l>> \in Seq(ListSet) /\ Range(<<l>>) = {l}
    BY <2>4 DEF Range
  <2>6. CASE Has("hash")
    <3>1. Genuine(<<l>>, d, x)
      BY <2>1, <2>3, <2>4, <2>5, <2>6, HashSound, Zenon DEF BloomFound
    <3> QED BY <2>4, <2>5, <3>1 DEF Genuine
  <2>7. CASE Has("sqlite")
    <3>1. Genuine(<<l>>, d, x)
      BY <2>1, <2>3, <2>4, <2>5, <2>7, SqlSound, Zenon DEF Filled, BloomFound
    <3> QED BY <2>4, <2>5, <3>1 DEF Genuine
  <2> QED BY <2>1, <2>6, <2>7
<1> QED BY <1>1, <1>2, <1>3, <1>4, <1>5, Backings, SMTT(20)

-----------------------------------------------------------------------------
(* The properties.                                                          *)

LEMMA AssignmentsAreSequences ==
  ASSUME NEW ls \in Assignments
  PROVE  ls \in Seq(ListSet)
<1>1. PICK n \in 0..Len(Lists) : ls \in [1..n -> ListSet]
  BY DEF Assignments
<1> QED BY <1>1, RuleStoreAssumption, SMTT(20)

\* Nothing is loading only once main is done and while the bus is idle.
LEMMA NothingLoading ==
  ASSUME Loading = {}
  PROVE  pc["main"] = "done" /\ pc["bus"] = "idle"
  BY RuleStoreAssumption, RangeIn, SMTT(20) DEF ListSet, Loading

LEMMA SettledFollows == StoreInv => SettledExact
<1> SUFFICES ASSUME StoreInv, Loading = {}, ~BootEdits, SumsTold, CaseTold,
                    NEW ls \in Assignments, NEW d \in Domains,
                    Range(ls) \cap (IF InsertErrors THEN failed ELSE {}) = {}
             PROVE  IF Backing = <<"bloom">>
                    THEN Verdict(Range(ls), d) # "none" => "none" \notin Answers(ls, d)
                    ELSE Answers(ls, d) = {Verdict(Range(ls), d)}
  BY Zenon DEF SettledExact
<1>1. ls \in Seq(ListSet)
  BY AssignmentsAreSequences
<1> QED
  BY <1>1, FindMatchExact, BloomMisses, NothingLoading, RangeIn DEF Exact,
     Alone, StoreInv

\* Whatever lists were changed and reloaded before, a query outside of a load
\* gets the verdict of the rules in the lists (store_test.go 65), from each of
\* the backing stores CreateStore can build.
THEOREM SettledQueriesExact == Spec => []SettledExact
  BY LayersAreExact, SettledFollows, PTL

LEMMA UnaffectedFollows == StoreInv => UnaffectedExact
<1> SUFFICES ASSUME StoreInv, ~Has("sqlite"), Backing # <<"bloom">>, ~BootEdits,
                    SumsTold, CaseTold, NEW ls \in Assignments, NEW d \in Domains,
                    Range(ls) \cap Loading = {}
             PROVE  Answers(ls, d) = {Verdict(Range(ls), d)}
  BY Zenon DEF UnaffectedExact
<1>1. ls \in Seq(ListSet)
  BY AssignmentsAreSequences
<1>2. \A l \in Range(ls) : InOrder(rules[l])
  BY <1>1, RangeIn, SMTT(20) DEF StoreInv
<1> QED BY <1>1, <1>2, FindMatchExact, Zenon DEF Exact, StoreInv

\* A query over lists that are not being loaded gets their verdict while
\* another list is cleared and loaded rule by rule (reloading_store.go 23-54).
THEOREM UnaffectedQueriesExact == Spec => []UnaffectedExact
  BY LayersAreExact, UnaffectedFollows, PTL

LEMMA GenuineFollows == StoreInv => NoSpuriousMatch
<1> SUFFICES ASSUME StoreInv, Backing # <<"bloom">>, ~BootEdits, SumsTold,
                    NEW ls \in Assignments, NEW d \in Domains,
                    NEW x \in FindMatch(ls, d) \ {None}
             PROVE  /\ x = MatchOf(x.list) /\ x.list \in Range(ls)
                    /\ SaysComplex(x.list, d) \/ SaysSimple(x.list, d)
  BY Zenon DEF NoSpuriousMatch
<1>1. ls \in Seq(ListSet)
  BY AssignmentsAreSequences
<1>2. Filled /\ \A l \in ListSet : LayersExact(l)
  BY DEF StoreInv, Filled
<1>3. CASE x \in BackingFind(ls, d)
  <2>1. Genuine(ls, d, x)
    BY <1>1, <1>2, <1>3, BackingSound, SMTT(20)
  <2> QED BY <2>1, MatchesDiffer DEF Genuine, Hit
<1>4. CASE x \in ComplexFind(ls, d)
  <2>1. /\ ComplexFind(ls, d) = AllowThenBlock(ls, complexLists, ComplexFound(ls, d))
        /\ Certain(ls, complexLists, ComplexFound(ls, d), ComplexHit(d))
    BY <1>1, <1>2, ComplexExact, Zenon
  <2>2. PICK l \in Range(ls) \cap complexLists : x \in ComplexFound(ls, d)[l]
    BY <1>4, <2>1, AllowThenBlockSound
  <2>3. x = MatchOf(l) /\ l \in ComplexHit(d)
    BY <2>1, <2>2, Zenon DEF Certain
  <2> QED BY <2>2, <2>3, MatchesDiffer DEF ComplexHit
<1> QED BY <1>3, <1>4 DEF FindMatch

\* At every moment, also while a list is half loaded and not sorted, a match
\* names a list that was asked for and has been given a rule for the domain.
THEOREM MatchesAreGenuine == Spec => []NoSpuriousMatch
  BY LayersAreExact, GenuineFollows, PTL
=============================================================================

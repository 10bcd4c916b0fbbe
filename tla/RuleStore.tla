----------------------------- MODULE RuleStore -----------------------------
(***************************************************************************)
(* The rule stores (package rule): reloadingStore over complexStore over   *)
(* one of the backing stores, some of which delegate to another.  Main     *)
(* loads every list (CreateStore); then the bus goroutine reloads a list   *)
(* whose file changed: Clear, one Load for each rule, Finalize, each of    *)
(* which takes the lock of the reloading store on its own, so that a query *)
(* may come between any two of them.                                       *)
(*                                                                         *)
(* A query is atomic under the read lock and changes nothing: FindMatch is *)
(* an operator on the state, the set of the results it may return.  A      *)
(* result is the match and the list it came from; the rule's text, which   *)
(* only labels it, is left out.                                            *)
(***************************************************************************)
EXTENDS Integers, Sequences, FiniteSets, Functions

CONSTANTS
  Lists,         \* the lists of the configuration, in order
  AllowLists,    \* those of type "allow"; the others are of type "block"
  Domains,       \* the domains that are asked for
  DomainList,    \* DomainList[d]: d and its parent domains
  ComplexRules,  \* the rules that are globs or regular expressions
  IsMatch,       \* IsMatch[r]: the domains r matches as a complex rule
  ToLower,       \* ToLower[n]: a rule or a name in lower case
  Rank,          \* Rank[n]: the place of n, ignoring case, in the sort order
  Bits,          \* Bits[n]: the bits the bloom filter sets for n
  Settings       \* the settings the store may run in, see below

ListSet == Range(Lists)
Names == DOMAIN ToLower

\* The last conjunct: sortfold.CompareFold, strings.EqualFold and
\* strings.ToLower agree on which names are equal.
ASSUME NamesAssumption ==
  /\ ToLower \in [Names -> Names] /\ Rank \in [Names -> Int]
  /\ \A n \in Names : ToLower[ToLower[n]] = ToLower[n]
  /\ DomainList \in [Domains -> Seq(Names)]
  /\ \A a, b \in Names : Rank[a] = Rank[b] <=> ToLower[a] = ToLower[b]

ASSUME RuleStoreAssumption ==
  /\ Lists \in Seq(ListSet) /\ Lists # <<>> /\ IsInjective(Lists)
  /\ AllowLists \subseteq ListSet
  /\ \A s \in Settings :
       /\ s.backing \in {<<"memory">>, <<"hash">>, <<"bloom">>, <<"sqlite">>,
            <<"bloom", "hash">>, <<"hash", "sqlite">>, <<"bloom", "sqlite">>}
       /\ s.regexLists \subseteq ListSet /\ DOMAIN s.hash = DOMAIN ToLower
       /\ DOMAIN s.contents = ListSet /\ s.maxEdits \in Nat
       /\ \A l \in ListSet : s.contents[l] \subseteq Seq(Names)
       /\ {s.insertErrors, s.bootEdits} \subseteq BOOLEAN

VARIABLES
  setting,       \* the configuration and the environment; chosen once
  file,          \* file[l]: the rules in the file of l
  edits,         \* changes made so far
  dirty,         \* lists whose change event the bus has not taken
  pc, cur, rest, \* main and bus: where each is, its list, the rules left to load
  complexRules,  \* complexStore.complexRules
  complexLists,  \* the lists in the base store of complexStore
  backingLists,  \* the lists in the base stores of the backing layers
  rules,         \* memoryStore.rules
  hashes,        \* hashStore.hashes
  blooms,        \* the bits set in bloomStore.blooms
  table,         \* the rows <<list, rule>> of the rules table
  tx, stmt,      \* sqlStore: the open transaction, the insert statement
  content,       \* content[l]: what was loaded into l since it was last cleared
  failed         \* lists that lost rules to a failed insert

fileVars == <<file, edits>>
jobVars == <<pc, cur, rest>>
complexVars == <<complexRules, complexLists>>
layerVars == <<backingLists, rules, hashes, blooms, table, tx, stmt>>
vars == <<fileVars, dirty, jobVars, complexVars, layerVars, content, failed>>

Backing == setting.backing            \* the layers of the backing store, outermost first
Contents == setting.contents          \* Contents[l]: the contents the file of l may have
RegexLists == setting.regexLists      \* those with the regex flag
Hash == setting.hash                  \* Hash[n]: the murmur3 sum of n
InsertErrors == setting.insertErrors  \* an insert into the database may fail
BootEdits == setting.bootEdits        \* a list may change while later ones are first loaded
MaxEdits == setting.maxEdits          \* bound on the changes of list files

Has(layer) == layer \in Range(Backing)
Inner(layer) == Has(layer) /\ Backing[1] # layer

Init ==
  /\ setting \in Settings
  /\ file \in [ListSet -> UNION {Contents[l] : l \in ListSet}]
  /\ \A l \in ListSet : file[l] \in Contents[l]
  /\ edits = 0 /\ dirty = {}
  /\ pc = [p \in {"main", "bus"} |-> IF p = "main" THEN "open" ELSE "idle"]
  /\ cur = [p \in {"main", "bus"} |-> Lists[1]]
  /\ rest = [p \in {"main", "bus"} |-> <<>>]
  /\ complexRules = [l \in ListSet |-> <<>>] /\ complexLists = {}
  /\ backingLists = {}
  /\ rules = [l \in ListSet |-> <<>>]
  /\ hashes = [l \in ListSet |-> {}]
  /\ blooms = [l \in ListSet |-> {}]
  /\ table = {} /\ tx = {} /\ stmt = "none"
  /\ content = [l \in ListSet |-> <<>>] /\ failed = {}

-----------------------------------------------------------------------------
(* FindMatch.  None is the result without a match.                          *)

None == [match |-> "none", list |-> "none"]
Allow(l) == [match |-> "allow", list |-> l]
Block(l) == [match |-> "block", list |-> l]
MatchOf(l) == IF l \in AllowLists THEN Allow(l) ELSE Block(l)

\* matchForEachOfTypeIn: the first of the lists, among those the store knows,
\* for which the match action finds something: find[l] is what it may return.
Reached(i, ls, known, find) ==
  \A j \in 1..(i - 1) : ls[j] \in known => None \in find[ls[j]]

MatchForEach(ls, known, find) ==
  LET asked == {i \in DOMAIN ls : ls[i] \in known /\ Reached(i, ls, known, find)}
      end == IF Reached(Len(ls) + 1, ls, known, find) THEN {None} ELSE {}
  IN (UNION {find[ls[i]] \ {None} : i \in asked}) \cup end

\* Every store but the database asks its allow lists before its block lists.
AllowThenBlock(ls, known, find) ==
  LET allowed == MatchForEach(ls, known \cap AllowLists, find)
  IN IF None \in allowed
     THEN (allowed \ {None}) \cup MatchForEach(ls, known \ AllowLists, find)
     ELSE allowed

\* sort.Search: an index such that the rule there is not before name n and the
\* rule in front of it is.  While the list is not sorted it may be any such one.
Search(rs, n) ==
  {i \in 0..Len(rs) : /\ i = 0 \/ Rank[rs[i]] < Rank[n]
                      /\ i = Len(rs) \/ Rank[rs[i + 1]] >= Rank[n]}

\* memoryStore.foundInList, for the index i the search returned
FoundAt(rs, n, i) == i < Len(rs) /\ ToLower[rs[i + 1]] = ToLower[n]

MemoryFind(ls, d) ==
  LET names == Range(DomainList[d])
      find == [l \in Range(ls) |->
        {MatchOf(l) : n \in {m \in names :
           \E i \in Search(rules[l], m) : FoundAt(rules[l], m, i)}}
        \cup IF \A n \in names : \E i \in Search(rules[l], n) : ~FoundAt(rules[l], n, i)
             THEN {None} ELSE {}]
  IN AllowThenBlock(ls, backingLists, find)

\* sqlStore.foundInLists: one of the rows of the highest list type.  The open
\* transaction has the table locked in the shared cache; the query then ends
\* in an error, which counts as nothing found.
SqlFind(ls, d) ==
  LET found == {row[1] : row \in {x \in table :
                  /\ x[1] \in Range(ls) \cap backingLists
                  /\ x[2] \in Range(DomainList[d])}}
      highest == IF found \cap AllowLists # {} THEN found \cap AllowLists ELSE found
  IN IF tx # {} \/ found = {} THEN {None} ELSE {MatchOf(l) : l \in highest}

\* Mutant of HashFind: a hit is not confirmed by the delegate.
HashFindUnconfirmed(ls, d) ==
  LET find == [l \in Range(ls) |->
        IF \E n \in Range(DomainList[d]) : Hash[ToLower[n]] \in hashes[l]
        THEN {MatchOf(l)} ELSE {None}]
  IN AllowThenBlock(ls, backingLists, find)

HashFind(ls, d) ==
  LET find == [l \in Range(ls) |->
        IF \E n \in Range(DomainList[d]) : Hash[ToLower[n]] \in hashes[l]
        THEN IF Inner("sqlite") THEN SqlFind(<<l>>, d) ELSE {MatchOf(l)}
        ELSE {None}]
  IN AllowThenBlock(ls, backingLists, find)

\* Mutant of BloomFind: the parent domains are not tried.
BloomFindNoParents(ls, d) ==
  LET find == [l \in Range(ls) |->
        IF Bits[d] \subseteq blooms[l]
        THEN CASE Inner("hash") -> HashFind(<<l>>, d)
               [] Inner("sqlite") -> SqlFind(<<l>>, d)
               [] OTHER -> {MatchOf(l)}
        ELSE {None}]
  IN AllowThenBlock(ls, backingLists, find)

BloomFind(ls, d) ==
  LET find == [l \in Range(ls) |->
        IF \E n \in Range(DomainList[d]) : Bits[n] \subseteq blooms[l]
        THEN CASE Inner("hash") -> HashFind(<<l>>, d)
               [] Inner("sqlite") -> SqlFind(<<l>>, d)
               [] OTHER -> {MatchOf(l)}
        ELSE {None}]
  IN AllowThenBlock(ls, backingLists, find)

BackingFind(ls, d) ==
  CASE Backing[1] = "memory" -> MemoryFind(ls, d)
    [] Backing[1] = "hash" -> HashFind(ls, d)
    [] Backing[1] = "bloom" -> BloomFind(ls, d)
    [] Backing[1] = "sqlite" -> SqlFind(ls, d)

ComplexFind(ls, d) ==
  LET find == [l \in Range(ls) |->
        IF \E r \in Range(complexRules[l]) : d \in IsMatch[r]
        THEN {MatchOf(l)} ELSE {None}]
  IN AllowThenBlock(ls, complexLists, find)

FindMatch(ls, d) ==
  IF ComplexFind(ls, d) = {None} THEN BackingFind(ls, d) ELSE ComplexFind(ls, d)

-----------------------------------------------------------------------------
(* The store operations, layer by layer.  A layer that is not part of the   *)
(* backing store is left alone.                                             *)

IsComplex(l, r) == l \in RegexLists \/ r \in ComplexRules

\* A transaction is the set of the rows inserted in it; it begins with the first.
TxLists == {row[1] : row \in tx}

\* sqlStore.Load.  A statement prepared in a transaction that has ended fails.
\* After a failure the transaction is rolled back; without a journal the rows
\* of the transaction may be there or not.  The statement is kept.
SqlLoad(l, r) ==
  \/ /\ stmt # "stale"
     /\ table' = table \cup {<<l, r>>}
     /\ tx' = tx \cup {<<l, r>>}
     /\ stmt' = "ready"
     /\ UNCHANGED failed
  \/ /\ stmt = "stale" \/ InsertErrors
     /\ \E undone \in SUBSET tx : table' = table \ undone
     /\ tx' = {}
     /\ stmt' = "stale"
     /\ failed' = failed \cup TxLists \cup {l}

MemoryLoad(l, r) ==
  rules' = [rules EXCEPT ![l] = IF Has("memory") THEN Append(@, ToLower[r]) ELSE @]

HashLoad(l, r) ==
  hashes' = [hashes EXCEPT ![l] = IF Has("hash") THEN @ \cup {Hash[ToLower[r]]} ELSE @]

BloomLoad(l, r) ==
  blooms' = [blooms EXCEPT ![l] = IF Has("bloom") THEN @ \cup Bits[r] ELSE @]

BackingLoad(l, r) ==
  /\ backingLists' = backingLists \cup {l}
  /\ MemoryLoad(l, r) /\ HashLoad(l, r) /\ BloomLoad(l, r)
  /\ IF Has("sqlite") THEN SqlLoad(l, r) ELSE UNCHANGED <<table, tx, stmt, failed>>

\* complexStore.Load
StoreLoad(l, r) ==
  /\ complexLists' = complexLists \cup {l}
  /\ IF IsComplex(l, r)
     THEN /\ complexRules' = [complexRules EXCEPT ![l] = Append(@, r)]
          /\ UNCHANGED <<layerVars, failed>>
     ELSE BackingLoad(l, r) /\ UNCHANGED complexRules

\* sqlStore.Clear: what is open is committed, and the rows of the list deleted
\* in a transaction of their own.
SqlClear(l) ==
  /\ table' = {row \in table : row[1] # l}
  /\ tx' = {}
  /\ stmt' = IF tx # {} /\ stmt = "ready" THEN "stale" ELSE stmt

MemoryClear(l) == rules' = [rules EXCEPT ![l] = <<>>]

HashClear(l) == hashes' = [hashes EXCEPT ![l] = {}]

\* createBloom keeps the filter there is.
BloomClear(l) == UNCHANGED blooms

\* complexStore.Clear and the Clear of every layer.
StoreClear(l) ==
  /\ complexRules' = [complexRules EXCEPT ![l] = <<>>]
  /\ complexLists' = complexLists \ {l}
  /\ backingLists' = backingLists \ {l}
  /\ MemoryClear(l) /\ HashClear(l) /\ BloomClear(l)
  /\ IF Has("sqlite") THEN SqlClear(l) ELSE UNCHANGED <<table, tx, stmt>>

InOrder(rs) == \A i, j \in DOMAIN rs : i < j => Rank[rs[i]] <= Rank[rs[j]]

\* sort.Slice: the rules in one of their sorted orders.
Sortings(rs) ==
  {s \in {[i \in DOMAIN rs |-> rs[p[i]]] : p \in Bijection(DOMAIN rs, DOMAIN rs)} : InOrder(s)}

MemoryFinalize(ls) ==
  \E sorted \in [ls -> UNION {Sortings(rules[l]) : l \in ls}] :
    /\ \A l \in ls : sorted[l] \in Sortings(rules[l])
    /\ rules' = [l \in ListSet |-> IF l \in ls THEN sorted[l] ELSE rules[l]]

SqlFinalize == tx' = {} /\ stmt' = "none"

\* Mutant of StoreFinalize: the memory store is left as it was loaded.
StoreFinalizeUnsorted(ls) ==
  /\ SqlFinalize
  /\ UNCHANGED <<complexVars, backingLists, rules, hashes, blooms, table>>

\* Finalize: the memory store sorts, the database commits.
StoreFinalize(ls) ==
  /\ MemoryFinalize(ls)
  /\ SqlFinalize
  /\ UNCHANGED <<complexVars, backingLists, hashes, blooms, table>>

-----------------------------------------------------------------------------
(* CreateStore on main, the listener of a list file on the bus.             *)

Goto(p, where) == pc' = [pc EXCEPT ![p] = where]

\* Lists whose listener is registered: those main has gone past.
Listened == IF pc["main"] = "done" THEN ListSet
            ELSE {l \in ListSet : \E i, j \in DOMAIN Lists :
                    i < j /\ Lists[i] = l /\ Lists[j] = cur["main"]}

Edit(l) ==
  /\ edits < MaxEdits
  /\ l \in Listened
  /\ pc["main"] = "done" \/ BootEdits
  /\ \E c \in Contents[l] \ {file[l]} : file' = [file EXCEPT ![l] = c]
  /\ edits' = edits + 1
  /\ dirty' = dirty \cup {l}
  /\ UNCHANGED <<jobVars, complexVars, layerVars, content, failed>>

\* loadList: the file is opened and read to its end.
Open(p) ==
  /\ pc[p] = "open"
  /\ rest' = [rest EXCEPT ![p] = file[cur[p]]]
  /\ Goto(p, "scan")
  /\ UNCHANGED <<fileVars, dirty, cur, complexVars, layerVars, content, failed>>

\* Main and the bus scan with one buffer: if both do, a line may come out as
\* any other text.
Text == UNION {Range(c) : c \in UNION {Contents[l] : l \in ListSet}}

ScannedRule(p) ==
  IF pc["main"] = "scan" /\ pc["bus"] = "scan"
  THEN Text
  ELSE {Head(rest[p])}

LoadRule(p) ==
  /\ pc[p] = "scan" /\ rest[p] # <<>>
  /\ \E r \in ScannedRule(p) : StoreLoad(cur[p], r)
  /\ rest' = [rest EXCEPT ![p] = Tail(@)]
  /\ content' = [content EXCEPT ![cur[p]] = Append(@, Head(rest[p]))]
  /\ UNCHANGED <<fileVars, dirty, pc, cur>>

\* Mutant of NextList: the last list is left out.
NextListSkipsLast ==
  /\ pc["main"] = "scan" /\ rest["main"] = <<>>
  /\ LET i == CHOOSE j \in DOMAIN Lists : Lists[j] = cur["main"]
     IN IF i < Len(Lists) - 1
        THEN cur' = [cur EXCEPT !["main"] = Lists[i + 1]] /\ Goto("main", "open")
        ELSE Goto("main", "finalize") /\ UNCHANGED cur
  /\ UNCHANGED <<fileVars, dirty, rest, complexVars, layerVars, content, failed>>

\* Main goes on to the next list, and finalizes the store after the last.
NextList ==
  /\ pc["main"] = "scan" /\ rest["main"] = <<>>
  /\ LET i == CHOOSE j \in DOMAIN Lists : Lists[j] = cur["main"]
     IN IF i < Len(Lists)
        THEN cur' = [cur EXCEPT !["main"] = Lists[i + 1]] /\ Goto("main", "open")
        ELSE Goto("main", "finalize") /\ UNCHANGED cur
  /\ UNCHANGED <<fileVars, dirty, rest, complexVars, layerVars, content, failed>>

FinalizeAll ==
  /\ pc["main"] = "finalize"
  /\ StoreFinalize(ListSet)
  /\ Goto("main", "done")
  /\ UNCHANGED <<fileVars, dirty, cur, rest, content, failed>>

Clear(l) ==
  /\ pc["bus"] = "idle" /\ l \in dirty
  /\ dirty' = dirty \ {l}
  /\ cur' = [cur EXCEPT !["bus"] = l]
  /\ StoreClear(l)
  /\ Goto("bus", "open")
  /\ content' = [content EXCEPT ![l] = <<>>]
  /\ failed' = failed \ {l}
  /\ UNCHANGED <<fileVars, rest>>

Finalize ==
  /\ pc["bus"] = "scan" /\ rest["bus"] = <<>>
  /\ StoreFinalize({cur["bus"]})
  /\ Goto("bus", "idle")
  /\ UNCHANGED <<fileVars, dirty, cur, rest, content, failed>>

Main == Open("main") \/ LoadRule("main") \/ NextList \/ FinalizeAll

Bus == Open("bus") \/ LoadRule("bus") \/ Finalize \/ \E l \in ListSet : Clear(l)

Next ==
  /\ Main \/ Bus \/ \E l \in ListSet : Edit(l)
  /\ UNCHANGED setting

Spec == Init /\ [][Next]_<<vars, setting>>

\* Both goroutines run whenever they can; changes are the environment's.
FairSpec == Spec /\ WF_vars(Main) /\ WF_vars(Bus)

-----------------------------------------------------------------------------
(* What a list says of a domain: by one of its complex rules, by one of the *)
(* others.                                                                  *)

SaysComplex(l, d) == \E r \in Range(content[l]) : IsComplex(l, r) /\ d \in IsMatch[r]

SaysSimple(l, d) ==
  \E r \in Range(content[l]), n \in Range(DomainList[d]) :
    ~IsComplex(l, r) /\ ToLower[n] = ToLower[r]

\* Allow before block before none, the complex rules before the others.
Decision(S) ==
  IF S \cap AllowLists # {} THEN "allow" ELSE IF S # {} THEN "block" ELSE "none"

Verdict(S, d) ==
  LET complex == {l \in S : SaysComplex(l, d)}
  IN Decision(IF complex # {} THEN complex ELSE {l \in S : SaysSimple(l, d)})

\* The lists that are being loaded.
Loading == (IF pc["main"] = "done" THEN {} ELSE ListSet)
           \cup (IF pc["bus"] = "idle" THEN {} ELSE {cur["bus"]})

\* The lists a query may ask for, each once, in any order.
Assignments ==
  UNION {{ls \in [1..n -> ListSet] : IsInjective(ls)} : n \in 0..Len(Lists)}

Answers(ls, d) == {x.match : x \in FindMatch(ls, d)}

\* The hash store on its own takes a name for another with the same sum.
SumsTold ==
  Has("hash") /\ ~Has("sqlite") =>
    \A a, b \in Names : Hash[ToLower[a]] = Hash[ToLower[b]] => ToLower[a] = ToLower[b]

\* The database and the bloom filter compare names as they are written.
CaseTold ==
  Has("sqlite") \/ Has("bloom") =>
    \A n \in Text \cup UNION {Range(DomainList[d]) : d \in Domains} : ToLower[n] = n

\* Outside of a load every query gets the verdict of the loaded rules: allow
\* before block before none, whichever backing store is used, and whatever was
\* in the lists before they were reloaded ("run 10 times back-to-back to ensure
\* that finalize -> clear -> reload -> finalize works", store_test.go 65).  The
\* bloom filter on its own, which keeps removed rules (store_bloom.go 24), at
\* least misses nothing.  A list in which an insert failed is excused, which
\* takes a database that refuses one: "start with a fresh transaction on the
\* next operation" (store_sqlite.go 133).  Lists that change during the first
\* load are, too: their Clear ends the transaction main is loading in.
SettledExact ==
  Loading = {} /\ ~BootEdits /\ SumsTold /\ CaseTold =>
    \A ls \in Assignments, d \in Domains :
      Range(ls) \cap (IF InsertErrors THEN failed ELSE {}) = {} =>
        IF Backing = <<"bloom">>
        THEN Verdict(Range(ls), d) # "none" => "none" \notin Answers(ls, d)
        ELSE Answers(ls, d) = {Verdict(Range(ls), d)}

\* "reloading minimal configuration changes without service restart or
\* downtime" (docs/ROADMAP.md 8): while one list is loaded, queries over the
\* others get their verdict (reloading_store.go 23-54).  Not so with the
\* database, whose open transaction locks the table (store_sqlite.go 299).
UnaffectedExact ==
  ~Has("sqlite") /\ Backing # <<"bloom">> /\ ~BootEdits /\ SumsTold /\ CaseTold =>
    \A ls \in Assignments, d \in Domains :
      Range(ls) \cap Loading = {} => Answers(ls, d) = {Verdict(Range(ls), d)}

\* At every moment, also half way through a load, a match comes from one of the
\* lists asked for, and that list has been given a rule for the domain.
NoSpuriousMatch ==
  Backing # <<"bloom">> /\ ~BootEdits /\ SumsTold =>
    \A ls \in Assignments, d \in Domains : \A x \in FindMatch(ls, d) \ {None} :
      /\ x = MatchOf(x.list) /\ x.list \in Range(ls)
      /\ SaysComplex(x.list, d) \/ SaysSimple(x.list, d)

\* After the last change of the files, the store has been given all rules in
\* them and no others, for good (store.go 222-234), even if lists change during
\* the first load.
EventuallyLoaded ==
  <>[](Loading = {} /\ content = file)
=============================================================================

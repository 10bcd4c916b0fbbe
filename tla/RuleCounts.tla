----------------------------- MODULE RuleCounts -----------------------------
(***************************************************************************)
(* The counters of active rules (engine/engine_init.go): one for each list *)
(* under its short name, and their total.  Building the engine sets them   *)
(* from what CreateStore loaded; afterwards a list that changes on disk is *)
(* loaded again by a handler on the event bus, which sends the new count   *)
(* as a second event, and a second handler brings the counters up to date. *)
(* A change of the configuration builds a new engine on the same bus.      *)
(*                                                                         *)
(* The main goroutine builds the first engine while the bus already runs.  *)
(* Later engines are built by the bus goroutine itself.                    *)
(***************************************************************************)
EXTENDS Integers, Sequences, FiniteSets, FiniteSetsExt

CONSTANTS
    Lists,          \* conf.Lists, in order
    ShortName,      \* the short name of each list
    Settings,       \* what may change and how often; one is in force throughout
    MaxRules        \* bound: rules in a list

Positions == 1..Len(Lists)
Short(i) == ShortName[Lists[i]]
Shorts == {Short(i) : i \in Positions}

ASSUME RuleCountsAssumption ==
    /\ Lists \in Seq(DOMAIN ShortName)
    /\ Settings \subseteq [configs: SUBSET SUBSET Positions, earlyChanges: BOOLEAN,
                           maxChanges: Nat]
    /\ MaxRules \in Nat
    /\ \A i, j \in Positions : Short(i) = Short(j) => i = j

VARIABLES
    setting,    \* what may change, and the bound
    disk,       \* rules in each list's file
    active,     \* the lists of the current configuration
    phase,      \* how far the first engine is built
    store,      \* rules the store holds for each list
    loaded,     \* the counts CreateStore returns
    counter,    \* the metrics rules-list-<short name>
    total,      \* the metric active-rules
    bus,        \* events waiting on the bus
    changes     \* changes made so far

vars == <<disk, active, phase, store, loaded, counter, total, bus, changes>>

Configs == setting.configs            \* positions in Lists a new configuration may keep
EarlyChanges == setting.earlyChanges  \* files may change while the first engine is built
MaxChanges == setting.maxChanges      \* bound: changes of files and configuration

At(p) == phase.at = p

\* A list's file is watched, and its handler listens, once it is loaded.
Watched(i) == i \in active /\ (At("load") => i < phase.next)

\* Where the construction is once the lists before i are loaded.
LoadFrom(i) ==
    IF i <= Len(Lists) THEN [at |-> "load", next |-> i] ELSE [at |-> "count", next |-> 0]

Init ==
    /\ setting \in Settings
    /\ disk \in [Positions -> 0..MaxRules]
    /\ active = Positions
    /\ phase = LoadFrom(1)
    /\ store = [i \in Positions |-> 0] /\ loaded = [i \in Positions |-> 0]
    /\ counter = [n \in Shorts |-> 0] /\ total = 0
    /\ bus = <<>> /\ changes = 0

-----------------------------------------------------------------------------
(* Building the first engine, on the main goroutine. *)

LoadNext ==
    /\ At("load")
    /\ store' = [store EXCEPT ![phase.next] = disk[phase.next]]
    /\ loaded' = [loaded EXCEPT ![phase.next] = disk[phase.next]]
    /\ phase' = LoadFrom(phase.next + 1)
    /\ UNCHANGED <<disk, active, counter, total, bus, changes>>

\* Each counter is cleared and raised, so of lists with one short name the
\* last one counts; the total takes them all.
CountersOf(counts, kept) ==
    [n \in Shorts |->
        LET S == {i \in kept : Short(i) = n} IN IF S = {} THEN 0 ELSE counts[Max(S)]]

TotalOf(counts, kept) == SumFunctionOnSet(counts, kept)

SetCounters ==
    /\ At("count")
    /\ counter' = CountersOf(loaded, active)
    /\ total' = TotalOf(loaded, active)
    /\ phase' = [at |-> "listen", next |-> 0]
    /\ UNCHANGED <<disk, active, store, loaded, bus, changes>>

Listen ==
    /\ At("listen")
    /\ phase' = [at |-> "running", next |-> 0]
    /\ UNCHANGED <<disk, active, store, loaded, counter, total, bus, changes>>

-----------------------------------------------------------------------------
(* Changes on disk, seen by the file watcher. *)

Change == changes < MaxChanges /\ changes' = changes + 1

FileChange(i, n) ==
    /\ Change /\ Watched(i) /\ n # disk[i]
    /\ At("running") \/ EarlyChanges
    /\ disk' = [disk EXCEPT ![i] = n]
    /\ bus' = Append(bus, [topic |-> "file", list |-> i])
    /\ UNCHANGED <<active, phase, store, loaded, counter, total>>

\* A change of the configuration is heard once the reloading engine listens.
ConfigChange(kept) ==
    /\ Change /\ At("running")
    /\ bus' = Append(bus, [topic |-> "config", kept |-> kept])
    /\ UNCHANGED <<disk, active, phase, store, loaded, counter, total>>

-----------------------------------------------------------------------------
(* The bus goroutine takes one event after the other. *)

Takes(topic) == bus # <<>> /\ Head(bus).topic = topic

\* mutant: the count that is sent is the one the list had before
FileEventStale ==
    /\ Takes("file")
    /\ LET i == Head(bus).list
       IN  IF Watched(i)
           THEN /\ store' = [store EXCEPT ![i] = disk[i]]
                /\ bus' = Append(Tail(bus), [topic |-> "changed", list |-> i, count |-> store[i]])
           ELSE /\ bus' = Tail(bus)
                /\ UNCHANGED store
    /\ UNCHANGED <<disk, active, phase, loaded, counter, total, changes>>

\* The handler of CreateStore: load the list again and send its new count.
FileEvent ==
    /\ Takes("file")
    /\ LET i == Head(bus).list
       IN  IF Watched(i)
           THEN /\ store' = [store EXCEPT ![i] = disk[i]]
                /\ bus' = Append(Tail(bus), [topic |-> "changed", list |-> i, count |-> disk[i]])
           ELSE /\ bus' = Tail(bus)
                /\ UNCHANGED store
    /\ UNCHANGED <<disk, active, phase, loaded, counter, total, changes>>

\* mutant: the old count is read after the counter was cleared
RecountCleared(n, count) ==
    /\ total' = total + count
    /\ counter' = [counter EXCEPT ![n] = count]

\* The total loses what the list counted and gains what it counts now.
Recount(n, count) ==
    /\ total' = total - counter[n] + count
    /\ counter' = [counter EXCEPT ![n] = count]

\* The handler of the engine; before it listens the event is lost.
ChangedEvent ==
    /\ Takes("changed")
    /\ IF At("running") THEN Recount(Short(Head(bus).list), Head(bus).count)
       ELSE UNCHANGED <<counter, total>>
    /\ bus' = Tail(bus)
    /\ UNCHANGED <<disk, active, phase, store, loaded, changes>>

\* reloadingEngine.swap: the old engine is closed and a new one built with
\* counters of its own.  Events already on the bus stay there.
ConfigEvent ==
    /\ Takes("config")
    /\ LET kept == Head(bus).kept
           counts == [i \in Positions |-> IF i \in kept THEN disk[i] ELSE 0]
       IN  /\ active' = kept
           /\ store' = counts /\ loaded' = counts
           /\ counter' = CountersOf(counts, kept)
           /\ total' = TotalOf(counts, kept)
    /\ bus' = Tail(bus)
    /\ UNCHANGED <<disk, phase, changes>>

Boot == LoadNext \/ SetCounters \/ Listen
Service == FileEvent \/ ChangedEvent \/ ConfigEvent

Next ==
    /\ \/ Boot \/ Service
       \/ \E i \in Positions, n \in 0..MaxRules : FileChange(i, n)
       \/ \E kept \in Configs : ConfigChange(kept)
    /\ UNCHANGED setting

\* The scheduler runs both goroutines; nobody has to change a file.
Spec == Init /\ [][Next]_<<vars, setting>> /\ WF_vars(Boot) /\ WF_vars(Service)

-----------------------------------------------------------------------------
(* Properties. *)

\* active-rules is the sum of the lists' counters whenever an engine listens,
\* through reloads, new configurations and events left over from an engine
\* that is gone (engine_init.go:300-311, 355-360).  A list without a counter
\* counts nothing.  It takes lists with different short names: names that
\* differ in punctuation only share a counter (config_init.go:488-494).
TotalIsSum == At("running") => total = SumFunctionOnSet(counter, Shorts)

\* Nothing changes before the engine listens, nor does the configuration.
OnlyFilesChange == ~EarlyChanges /\ Configs = {}

\* When the files stop changing, the counters and the total end as the numbers
\* of rules on disk: nothing that was loaded is missing from them, and nothing
\* that is gone still counts ("subscribe to rule list changes to update
\* metrics/counts", engine_init.go:314).  A count sent while the first engine is
\* built is lost, and one that is on the bus when the configuration is reloaded
\* is applied to the new engine's counters; with neither, the counters settle.
CountsSettle ==
    OnlyFilesChange =>
        <>[](counter = CountersOf(disk, active) /\ total = TotalOf(disk, active))

=============================================================================

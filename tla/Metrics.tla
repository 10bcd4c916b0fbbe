------------------------------ MODULE Metrics ------------------------------
(***************************************************************************)
(* The query counters of gudgeon (engine/metrics.go) as three goroutines   *)
(* use them: the recorder's worker, which counts every query and stores    *)
(* and prunes snapshots on its tickers; the web handlers, which look up    *)
(* counters by name; and the process itself, which is stopped, killed and  *)
(* started again on the same database.                                     *)
(*                                                                         *)
(* A counter is an object reached through a map: Get returns the object    *)
(* under a name, making one when there is none, and its caller changes the *)
(* object later.  Objects are therefore kept apart from the map: `heap`    *)
(* holds their values, `table` says which one a name leads to.             *)
(*                                                                         *)
(* Time is counted in metrics intervals.  Only the counters of queries and *)
(* of blocked queries are modelled; the process gauges (CPU, memory,       *)
(* threads, cache size) are set and never read back.                       *)
(***************************************************************************)
EXTENDS Integers, Sequences, FiniteSets

CONSTANTS
    Readers,      \* web requests for single counters
    Settings,     \* the configurations and bounds; one is in force throughout
    Duration,     \* how many intervals a snapshot is kept
    NoMetric      \* a name the map does not have

ASSUME MetricsAssumption ==
    /\ Settings \subseteq [readers: SUBSET Readers, persist: BOOLEAN, hasDb: BOOLEAN,
                           maxQueries: Nat, maxTime: Nat]
    /\ \A s \in Settings : s.persist => s.hasDb
    /\ Duration \in Nat \ {0} /\ NoMetric \notin Nat

VARIABLES
    setting,      \* the configuration and the bounds
    up,           \* the process runs
    table,        \* metricsMap: name -> object
    heap,         \* the objects' counts
    worker,       \* the recorder's worker: the counters it has yet to bump
    reader,       \* what each web request is about to create
    lastInsert,   \* metrics.lastInsert
    now,          \* the clock
    rows,         \* the table metrics of the database
    tally         \* history: what really happened in this life of the process

vars == <<up, table, heap, worker, reader, lastInsert, now, rows, tally>>

Active == setting.readers         \* the web requests that are made
Persist == setting.persist        \* metrics.persist in the configuration
HasDb == setting.hasDb            \* engine.db # nil: metrics or the query log is persisted
MaxQueries == setting.maxQueries  \* bound: queries recorded in a life of the process
MaxTime == setting.maxTime        \* bound: intervals that pass

Total == {"total-session-queries", "total-lifetime-queries", "total-interval-queries"}
Blocked == {"blocked-session-queries", "blocked-lifetime-queries", "blocked-interval-queries"}
Names == Total \cup Blocked
Lifetime == {"total-lifetime-queries", "blocked-lifetime-queries"}
Interval == {"total-interval-queries", "blocked-interval-queries"}

\* The counters a query bumps, in the order record() does.
Bumps(blocked) ==
    <<"total-session-queries", "total-lifetime-queries", "total-interval-queries">>
    \o IF blocked
       THEN <<"blocked-session-queries", "blocked-lifetime-queries", "blocked-interval-queries">>
       ELSE <<>>

Value(name) == IF table[name] = NoMetric THEN 0 ELSE heap[table[name]]

Idle == [todo |-> <<>>, pc |-> "idle", metric |-> NoMetric]

NoTally == [recorded |-> 0, stored |-> 0, dropped |-> 0]

-----------------------------------------------------------------------------
(* NewMetrics: load() takes the lifetime counters of the newest snapshot,  *)
(* and update() makes the interval counters by reading them.               *)

\* mutant: load() reads the oldest snapshot
NewestOldest == CHOOSE r \in rows : \A s \in rows : r.at <= s.at

Newest == CHOOSE r \in rows : \A s \in rows : s.at <= r.at

\* What load() finds.  Counters that the newest snapshot lacks were zero.
load ==
    IF Persist /\ rows # {} THEN Newest.values ELSE [n \in {} |-> 0]

\* mutant: update() is not called by the constructor
MadeByLoad == DOMAIN load \cap Lifetime

\* The names that exist once the constructor returns.
Made == (DOMAIN load \cap Lifetime) \cup Interval

Place == CHOOSE f \in [Made -> 1..Cardinality(Made)] :
            \A m, n \in Made : f[m] = f[n] => m = n

NewMetrics ==
    /\ table' = [n \in Names |-> IF n \in Made THEN Place[n] ELSE NoMetric]
    /\ heap' = [i \in 1..Cardinality(Made) |->
                  LET n == CHOOSE m \in Made : Place[m] = i
                  IN  IF n \in Lifetime THEN load[n] ELSE 0]
    /\ lastInsert' = now

Init ==
    /\ setting \in Settings
    /\ up = FALSE
    /\ table = [n \in Names |-> NoMetric] /\ heap = <<>>
    /\ worker = Idle
    /\ reader = [r \in Readers |-> NoMetric]
    /\ lastInsert = 0 /\ now = 0
    /\ rows = {}
    /\ tally = NoTally

Kept(rs) == {r \in rs : r.at > now - Duration}

\* The engine is built: NewMetrics, then NewRecorder, which prunes first.
Start ==
    /\ ~up
    /\ up' = TRUE
    /\ NewMetrics
    /\ rows' = IF HasDb THEN Kept(rows) ELSE rows
    /\ worker' = Idle
    /\ tally' = NoTally
    /\ UNCHANGED <<reader, now>>

-----------------------------------------------------------------------------
(* Get: the map is searched under the read lock, and an object is made and *)
(* put in under the write lock; nothing is held in between.                *)

New(name) ==
    /\ heap' = Append(heap, 0)
    /\ table' = [table EXCEPT ![name] = Len(heap) + 1]

\* The worker takes an answered query from its queue: metrics.record.  An
\* engine without a database has no recorder, and its queries go uncounted.
Record(blocked) ==
    /\ up /\ worker.pc = "idle" /\ tally.recorded < MaxQueries
    /\ worker' = IF HasDb THEN [Idle EXCEPT !.todo = Bumps(blocked), !.pc = "get"]
                 ELSE worker
    /\ tally' = [tally EXCEPT !.recorded = @ + 1]
    /\ UNCHANGED <<up, table, heap, reader, lastInsert, now, rows>>

GetFound ==
    /\ up /\ worker.pc = "get" /\ table[Head(worker.todo)] # NoMetric
    /\ worker' = [worker EXCEPT !.pc = "inc", !.metric = table[Head(worker.todo)]]
    /\ UNCHANGED <<up, table, heap, reader, lastInsert, now, rows, tally>>

GetMissing ==
    /\ up /\ worker.pc = "get" /\ table[Head(worker.todo)] = NoMetric
    /\ worker' = [worker EXCEPT !.pc = "new"]
    /\ UNCHANGED <<up, table, heap, reader, lastInsert, now, rows, tally>>

GetNew ==
    /\ up /\ worker.pc = "new"
    /\ New(Head(worker.todo))
    /\ worker' = [worker EXCEPT !.pc = "inc", !.metric = Len(heap) + 1]
    /\ UNCHANGED <<up, reader, lastInsert, now, rows, tally>>

Inc ==
    /\ up /\ worker.pc = "inc"
    /\ heap' = [heap EXCEPT ![worker.metric] = @ + 1]
    /\ worker' = IF Len(worker.todo) = 1 THEN Idle
                 ELSE [Idle EXCEPT !.todo = Tail(worker.todo), !.pc = "get"]
    /\ UNCHANGED <<up, table, reader, lastInsert, now, rows, tally>>

\* GetMetrics asks for a counter by name.  One that exists is only read.
WebGet(r, name) ==
    /\ up /\ reader[r] = NoMetric /\ table[name] = NoMetric
    /\ reader' = [reader EXCEPT ![r] = name]
    /\ UNCHANGED <<up, table, heap, worker, lastInsert, now, rows, tally>>

WebNew(r) ==
    /\ up /\ reader[r] # NoMetric
    /\ New(reader[r])
    /\ reader' = [reader EXCEPT ![r] = NoMetric]
    /\ UNCHANGED <<up, worker, lastInsert, now, rows, tally>>

-----------------------------------------------------------------------------
(* The worker's tickers.  insert() clears the interval counters inside the *)
(* transaction, which may still fail to commit.                            *)

Snapshot ==
    [from |-> lastInsert, at |-> now + 1,
     values |-> [n \in {m \in Names : table[m] # NoMetric} |-> Value(n)]]

Clear(names) ==
    [i \in DOMAIN heap |-> IF \E n \in names : table[n] = i THEN 0 ELSE heap[i]]

\* mutant: the window is not moved on
insertKeepsWindow ==
    /\ heap' = Clear(Interval)
    /\ lastInsert' = lastInsert

\* insert() after its statement succeeded.
insert ==
    /\ heap' = Clear(Interval)
    /\ lastInsert' = now + 1

Tick == up /\ HasDb /\ worker.pc = "idle" /\ now < MaxTime /\ now' = now + 1

\* The snapshot is inserted and committed.
TickStored ==
    /\ Tick
    /\ insert
    /\ rows' = rows \cup {Snapshot}
    /\ tally' = [tally EXCEPT !.stored = @ + Value("total-interval-queries")]
    /\ UNCHANGED <<up, table, worker, reader>>

\* The statement succeeds and the commit does not.
TickRolledBack ==
    /\ Tick
    /\ insert
    /\ tally' = [tally EXCEPT !.dropped = @ + Value("total-interval-queries")]
    /\ UNCHANGED <<up, table, worker, reader, rows>>

\* No connection, no transaction, or the statement fails.
TickNotStored ==
    /\ Tick
    /\ UNCHANGED <<up, table, heap, worker, reader, lastInsert, rows, tally>>

PruneTick ==
    /\ up /\ worker.pc = "idle" /\ HasDb
    /\ rows' = Kept(rows)
    /\ UNCHANGED <<up, table, heap, worker, reader, lastInsert, now, tally>>

-----------------------------------------------------------------------------
(* The end of the process.  Nothing of the counters is stored on the way.  *)

Gone ==
    /\ up' = FALSE
    /\ table' = [n \in Names |-> NoMetric] /\ heap' = <<>>
    /\ worker' = Idle
    /\ reader' = [r \in Readers |-> NoMetric]
    /\ UNCHANGED <<lastInsert, now, tally>>

\* recorder.shutdown: the worker answers between two queries; then a prune.
Shutdown ==
    /\ up /\ worker.pc = "idle"
    /\ rows' = IF HasDb THEN Kept(rows) ELSE rows
    /\ Gone

\* The process is killed, or dies of a fault, anywhere.
Kill ==
    /\ up
    /\ UNCHANGED rows
    /\ Gone

\* Time passes while the process is down.
Off ==
    /\ ~up /\ now < MaxTime
    /\ now' = now + 1
    /\ UNCHANGED <<up, table, heap, worker, reader, lastInsert, rows, tally>>

Next ==
    /\ \/ Start \/ Shutdown \/ Kill \/ Off
       \/ \E b \in BOOLEAN : Record(b)
       \/ GetFound \/ GetMissing \/ GetNew \/ Inc
       \/ \E r \in Active : WebNew(r) \/ \E n \in Names : WebGet(r, n)
       \/ TickStored \/ TickRolledBack \/ TickNotStored \/ PruneTick
    /\ UNCHANGED setting

Spec == Init /\ [][Next]_<<vars, setting>>

-----------------------------------------------------------------------------
(* Properties. *)

\* What a snapshot says of a counter.
In(row, name) == IF name \in DOMAIN row.values THEN row.values[name] ELSE 0

Counted == up /\ worker.pc = "idle"

\* Every query the worker recorded since NewMetrics is in exactly one place:
\* in one stored snapshot, in one that was rolled back, or in the interval
\* counter.  record() and insert() share the counter without a lock, web
\* requests may ask for it at any time, and a failed insert keeps it for the
\* next one (metrics.go:327-347).  Without a database there is no recorder, and
\* no query is counted.
IntervalCountedOnce ==
    HasDb /\ Counted => tally.stored + tally.dropped + Value("total-interval-queries")
                 = tally.recorded

\* A lifetime counter is never behind a stored snapshot of it, whatever
\* restarts, crashes and prunes came in between: load() resumes from the
\* newest snapshot (metrics.go:489-525).  As long as no web request replaces
\* the counter: Get looks under the read lock and makes a counter under the
\* write lock without looking again, and a lifetime counter that load() did not
\* make may be made twice (243-249).
LifetimeNotBehind ==
    Persist /\ up /\ Active = {} =>
        \A r \in rows, n \in Lifetime : In(r, n) <= Value(n)

\* Snapshots stand for windows of time that do not overlap, within a life of
\* the process and across lives, so charts built from them add up
\* (metrics.go:208, 336, 346).
WindowsDisjoint ==
    \A r, s \in rows : r = s \/ r.at <= s.from \/ s.at <= r.from

=============================================================================

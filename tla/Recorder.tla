------------------------------ MODULE Recorder ------------------------------
(***************************************************************************)
(* The recorder (engine/recorder.go) with the end of the request handler   *)
(* that feeds it (engine.Handle), the tables it writes and the listener it *)
(* owns (engine/mdns.go).                                                  *)
(*                                                                         *)
(* Handlers put one record per request on a bounded channel.  One worker   *)
(* goroutine takes the records, inserts each into the buffer table, and on *)
(* a timer flushes that table, in one transaction, into the query log and  *)
(* the metrics tables.  Shutdown stops the worker with a handshake on      *)
(* doneChan and flushes what is left.  The tables outlive the process; the *)
(* rest is lost in a crash.                                                *)
(*                                                                         *)
(* A row is known by the request it records; the tables count rows.  Time  *)
(* is abstracted: timers may fire whenever the worker is in its select,    *)
(* and a prune removes any of the rows of the query log.                   *)
(***************************************************************************)
EXTENDS Naturals, Sequences

CONSTANTS
  Requests,        \* client requests, one handler goroutine each
  Results,         \* the ResolutionResult objects of the sync.Pool
  QueueSize,       \* recordQueueSize
  Settings,        \* the settings the recorder may run in, see below
  Nil

ASSUME RecorderAssumption ==
  /\ QueueSize \in Nat \ {0}
  /\ Settings \subseteq [mdns : {"off", "reverse", "listen", "failed"},
                          locked : BOOLEAN, statementFails : BOOLEAN,
                          clients : SUBSET Requests, objects : SUBSET Results,
                          maxStarts : Nat]

VARIABLES
  setting,   \* chosen once, by the configuration and the environment
  hpc,       \* hpc[r]: where the handler of r is
  result,    \* result[r]: the result object r was answered with
  owner,     \* owner[o]: the request whose data object o holds
  free,      \* the objects in the pool
  accepting, \* recorder.infoQueue is not nil
  infoQueue, \* the channel's content
  qclosed,   \* the channel is closed
  doneChan,  \* the channel's content
  dclosed,   \* doneChan is closed
  wpc,       \* where the worker is
  selected,  \* the parked worker's select includes the info channel
  info,      \* the record in the worker's hands
  spc,       \* where the life cycle (NewRecorder .. shutdown) is
  lpc,       \* where the mDNS listener is
  dbOpen,
  starts,    \* recorders started so far
  outlived,  \* a worker is still alive whose recorder has been replaced
  buffer, qlog, pruned, details,  \* rows of each request in the tables
  row        \* row[r]: the request whose result was recorded for r

handlerVars == <<hpc, result, owner, free>>
chanVars == <<accepting, infoQueue, qclosed>>
doneVars == <<doneChan, dclosed>>
workerVars == <<wpc, selected, info, outlived>>
lifeVars == <<spc, lpc, dbOpen, starts>>
tables == <<buffer, qlog, pruned, details>>
vars == <<handlerVars, chanVars, doneVars, workerVars, lifeVars, tables, row>>

\* The listener: "reverse" is a lookup without mDNS, "failed" one whose socket
\* did not open.
Mdns == setting.mdns

\* TRUE: the engine is swapped, under the write lock; FALSE: the process shuts
\* down while handlers run.
Locked == setting.locked

\* A single SQL statement may fail.
StatementFails == setting.statementFails

Clients == setting.clients       \* the requests that are made
Objects == setting.objects       \* the result objects that are in use
MaxStarts == setting.maxStarts   \* bound on the number of recorders started

None == [r \in Requests |-> 0]

Init ==
  /\ setting \in Settings
  /\ hpc = [r \in Requests |-> "new"]
  /\ result = [r \in Requests |-> Nil]
  /\ owner = [o \in Results |-> Nil]
  /\ free = Objects
  /\ accepting = FALSE /\ infoQueue = <<>> /\ qclosed = FALSE
  /\ doneChan = <<>> /\ dclosed = FALSE
  /\ wpc = "exited" /\ selected = FALSE /\ info = Nil /\ outlived = FALSE
  /\ spc = "dead" /\ lpc = "gone" /\ dbOpen = FALSE /\ starts = 0
  /\ buffer = None /\ qlog = None /\ pruned = None /\ details = None
  /\ row = [r \in Requests |-> Nil]

\* The process ends; the handlers in flight end with it.
Die ==
  /\ spc' = "dead" /\ lpc' = "gone" /\ dbOpen' = FALSE
  /\ hpc' = [r \in Requests |-> IF hpc[r] = "new" THEN "new" ELSE "done"]
  /\ free' = Objects
  /\ wpc' = "exited" /\ info' = Nil /\ selected' = FALSE /\ outlived' = FALSE
  /\ accepting' = FALSE /\ infoQueue' = <<>> /\ qclosed' = FALSE
  /\ doneChan' = <<>> /\ dclosed' = FALSE
  /\ UNCHANGED <<result, owner, starts, tables, row>>

InFlight == {r \in Requests : hpc[r] \notin {"new", "done"}}
Running == spc \notin {"dead", "boot", "bootPrune"}

-----------------------------------------------------------------------------
(* The tables.  Each transaction is atomic, and a crash rolls it back.      *)

\* Mutant of Flush: the buffer is not emptied.
FlushKeepsBuffer ==
  /\ qlog' = [r \in Requests |-> qlog[r] + buffer[r]]
  /\ details' = [r \in Requests |-> details[r] + buffer[r]]
  /\ UNCHANGED <<buffer, pruned>>

\* Mutant of Flush: the buffer is emptied outside of the transaction, which
\* then fails.
FlushLosesRows ==
  /\ buffer' = None
  /\ UNCHANGED <<qlog, details, pruned>>

\* A failed statement is logged and the transaction goes on.
Flush ==
  /\ qlog' \in {[r \in Requests |-> qlog[r] + buffer[r]]}
               \cup (IF StatementFails THEN {qlog} ELSE {})
  /\ details' \in {[r \in Requests |-> details[r] + buffer[r]]}
                  \cup (IF StatementFails THEN {details} ELSE {})
  /\ buffer' = None
  /\ UNCHANGED pruned

Prune ==
  /\ \E old \in SUBSET {r \in Requests : qlog[r] > 0} :
       /\ qlog' = [r \in Requests |-> IF r \in old THEN 0 ELSE qlog[r]]
       /\ pruned' = [r \in Requests |->
                       pruned[r] + IF r \in old THEN qlog[r] ELSE 0]
  /\ UNCHANGED <<buffer, details>>

-----------------------------------------------------------------------------
(* The end of engine.Handle.  The whole of Handle runs under the read lock  *)
(* of the reloading engine, which excludes swap but not the final Shutdown. *)

\* The request has been answered with an object of the result pool.
Answered(r) ==
  /\ hpc[r] = "new"
  /\ IF Locked THEN spc = "run" ELSE Running
  /\ \E o \in free :
       /\ free' = free \ {o}
       /\ owner' = [owner EXCEPT ![o] = r]
       /\ result' = [result EXCEPT ![r] = o]
  /\ hpc' = [hpc EXCEPT ![r] = "queue"]
  /\ UNCHANGED <<chanVars, doneVars, workerVars, lifeVars, tables, row>>

QueueCheck(r) ==
  /\ hpc[r] = "queue"
  /\ hpc' = [hpc EXCEPT ![r] = IF accepting THEN "send" ELSE "put"]
  /\ UNCHANGED <<result, owner, free, chanVars, doneVars, workerVars, lifeVars,
                 tables, row>>

\* The send evaluates recorder.infoQueue once more.
QueueSend(r) ==
  /\ hpc[r] = "send"
  /\ hpc' = [hpc EXCEPT ![r] = IF accepting THEN "sending" ELSE "stuck"]
  /\ UNCHANGED <<result, owner, free, chanVars, doneVars, workerVars, lifeVars,
                 tables, row>>

\* Mutant of Enqueue: a full queue drops the record.
EnqueueOrDrop(r) ==
  /\ hpc[r] = "sending"
  /\ ~qclosed
  /\ hpc' = [hpc EXCEPT ![r] = "put"]
  /\ infoQueue' = IF Len(infoQueue) < QueueSize THEN Append(infoQueue, r)
                  ELSE infoQueue
  /\ UNCHANGED <<result, owner, free, accepting, qclosed, doneVars, workerVars,
                 lifeVars, tables, row>>

\* A parked receiver is handed the record directly.
Enqueue(r) ==
  /\ hpc[r] = "sending"
  /\ ~qclosed
  /\ hpc' = [hpc EXCEPT ![r] = "put"]
  /\ \/ /\ wpc = "parked" /\ selected
        /\ wpc' = "condition" /\ info' = r
        /\ UNCHANGED infoQueue
     \/ /\ ~(wpc = "parked" /\ selected)
        /\ Len(infoQueue) < QueueSize
        /\ infoQueue' = Append(infoQueue, r)
        /\ UNCHANGED <<wpc, info>>
  /\ UNCHANGED <<result, owner, free, accepting, qclosed, doneVars, selected,
                 outlived, lifeVars, tables, row>>

EnqueuePanics(r) ==
  /\ hpc[r] = "sending"
  /\ qclosed
  /\ Die

\* The objects go back to their pools while the record still points to them.
Put(r) ==
  /\ hpc[r] = "put"
  /\ hpc' = [hpc EXCEPT ![r] = "done"]
  /\ free' = free \cup {result[r]}
  /\ UNCHANGED <<result, owner, chanVars, doneVars, workerVars, lifeVars,
                 tables, row>>

Handler(r) ==
  \/ Answered(r) \/ QueueCheck(r) \/ QueueSend(r) \/ Enqueue(r)
  \/ EnqueuePanics(r) \/ Put(r)

-----------------------------------------------------------------------------
(* The worker.  "top": about to evaluate the select; "parked": waiting in   *)
(* it, on the info channel only if the field was not nil at the time.       *)

TakeRecord ==
  /\ wpc = "top"
  /\ accepting
  /\ infoQueue # <<>>
  /\ info' = Head(infoQueue)
  /\ infoQueue' = Tail(infoQueue)
  /\ wpc' = "condition"
  /\ UNCHANGED <<handlerVars, accepting, qclosed, doneVars, selected, outlived,
                 lifeVars, tables, row>>

\* Mutant of Park: the select leaves the info channel out.
ParkBlind ==
  /\ wpc = "top"
  /\ wpc' = "parked"
  /\ selected' = FALSE
  /\ UNCHANGED <<handlerVars, chanVars, doneVars, info, outlived, lifeVars,
                 tables, row>>

Park ==
  /\ wpc = "top"
  /\ ~(accepting /\ infoQueue # <<>>)
  /\ doneChan = <<>> /\ ~dclosed
  /\ wpc' = "parked"
  /\ selected' = accepting
  /\ UNCHANGED <<handlerVars, chanVars, doneVars, info, outlived, lifeVars,
                 tables, row>>

\* condition(): what the result object holds by now goes into the record.
Condition ==
  /\ wpc = "condition"
  /\ row' = [row EXCEPT ![info] = owner[result[info]]]
  /\ wpc' = "buffer"
  /\ UNCHANGED <<handlerVars, chanVars, doneVars, selected, info, outlived,
                 lifeVars, tables>>

\* buffer(): one insert in a transaction of its own; it fails once the
\* database is closed.  Logging and in-memory counters follow.
BufferRecord ==
  /\ wpc = "buffer"
  /\ buffer' \in (IF dbOpen THEN {[buffer EXCEPT ![info] = @ + 1]} ELSE {})
                 \cup (IF StatementFails \/ ~dbOpen THEN {buffer} ELSE {})
  /\ wpc' = "top" /\ info' = Nil
  /\ UNCHANGED <<handlerVars, chanVars, doneVars, selected, outlived, lifeVars,
                 qlog, pruned, details, row>>

Timer ==
  /\ wpc \in {"top", "parked"}
  /\ dbOpen
  /\ Flush \/ Prune
  /\ wpc' = "top"
  /\ UNCHANGED <<handlerVars, chanVars, doneVars, selected, info, outlived,
                 lifeVars, row>>

TakeDone ==
  /\ wpc \in {"top", "parked"}
  /\ doneChan # <<>> \/ dclosed
  /\ doneChan' = <<>>
  /\ wpc' = "exiting"
  /\ UNCHANGED <<handlerVars, chanVars, dclosed, selected, info, outlived,
                 lifeVars, tables, row>>

\* Mutant of WorkerExit: the worker returns without its deferred send.
WorkerExitSilent ==
  /\ wpc = "exiting"
  /\ wpc' = "exited"
  /\ UNCHANGED <<handlerVars, chanVars, doneVars, selected, info, outlived,
                 lifeVars, tables, row>>

\* The deferred send; doneChan has room for one.
WorkerExit ==
  /\ wpc = "exiting"
  /\ ~dclosed
  /\ doneChan = <<>>
  /\ doneChan' = <<TRUE>>
  /\ wpc' = "exited"
  /\ UNCHANGED <<handlerVars, chanVars, dclosed, selected, info, outlived,
                 lifeVars, tables, row>>

\* The deferred send of a worker that found doneChan closed, or the one of a
\* worker whose recorder has already been replaced.
WorkerPanics ==
  /\ (wpc = "exiting" /\ dclosed) \/ outlived
  /\ Die

Worker ==
  \/ TakeRecord \/ Park \/ Condition \/ BufferRecord \/ Timer \/ TakeDone
  \/ WorkerExit \/ WorkerPanics

-----------------------------------------------------------------------------
(* NewRecorder, shutdown and the end of engine.Shutdown.                    *)

\* A new process, or swap building the next engine.
Start ==
  /\ spc \in (IF Locked THEN {"dead", "down"} ELSE {"dead"})
  /\ starts < MaxStarts
  /\ starts' = starts + 1
  /\ spc' = "boot"
  /\ dbOpen' = TRUE
  /\ accepting' = TRUE /\ infoQueue' = <<>> /\ qclosed' = FALSE
  /\ doneChan' = <<>> /\ dclosed' = FALSE
  /\ lpc' = IF Mdns = "listen" THEN "run" ELSE "gone"
  /\ outlived' = (outlived \/ wpc # "exited")
  /\ wpc' = "exited" /\ info' = Nil /\ selected' = FALSE
  /\ UNCHANGED <<handlerVars, tables, row>>

Boot ==
  /\ \/ spc = "boot" /\ Flush /\ spc' = "bootPrune" /\ UNCHANGED wpc
     \/ spc = "bootPrune" /\ Prune /\ spc' = "run" /\ wpc' = "top"
  /\ UNCHANGED <<handlerVars, chanVars, doneVars, selected, info, outlived,
                 lpc, dbOpen, starts, row>>

\* shutdown() begins; swap holds the write lock, so no handler is in flight.
StopAccepting ==
  /\ spc = "run"
  /\ Locked => InFlight = {}
  /\ accepting' = FALSE
  /\ spc' = IF Mdns = "off" THEN "done" ELSE "mdns"
  /\ UNCHANGED <<handlerVars, infoQueue, qclosed, doneVars, workerVars, lpc,
                 dbOpen, starts, tables, row>>

\* Both directions of the unbuffered mdnsCloseChan.
MdnsClose ==
  /\ \/ spc = "mdns" /\ lpc = "run" /\ lpc' = "closed" /\ spc' = "mdnsWait"
     \/ spc = "mdnsWait" /\ lpc = "closed" /\ lpc' = "gone" /\ spc' = "done"
  /\ UNCHANGED <<handlerVars, chanVars, doneVars, workerVars, dbOpen, starts,
                 tables, row>>

\* The buffered send is handed to the worker only if that one is parked.
SendDone ==
  /\ spc = "done"
  /\ doneChan' = IF wpc = "parked" THEN <<>> ELSE <<TRUE>>
  /\ wpc' = IF wpc = "parked" THEN "exiting" ELSE wpc
  /\ spc' = "doneWait"
  /\ UNCHANGED <<handlerVars, chanVars, dclosed, selected, info, outlived,
                 lpc, dbOpen, starts, tables, row>>

ReceiveDone ==
  /\ spc = "doneWait"
  /\ doneChan # <<>>
  /\ doneChan' = <<>>
  /\ spc' = "close"
  /\ UNCHANGED <<handlerVars, chanVars, dclosed, workerVars, lpc, dbOpen,
                 starts, tables, row>>

CloseChannels ==
  /\ spc = "close"
  /\ qclosed' = TRUE /\ dclosed' = TRUE
  /\ spc' = "flush"
  /\ UNCHANGED <<handlerVars, accepting, infoQueue, doneChan, workerVars, lpc,
                 dbOpen, starts, tables, row>>

LastFlush ==
  /\ \/ spc = "flush" /\ Flush /\ spc' = "prune"
     \/ spc = "prune" /\ Prune /\ spc' = "stop"
  /\ UNCHANGED <<handlerVars, chanVars, doneVars, workerVars, lpc, dbOpen,
                 starts, row>>

CloseDb ==
  /\ spc = "stop"
  /\ dbOpen' = FALSE
  /\ spc' = "down"
  /\ UNCHANGED <<handlerVars, chanVars, doneVars, workerVars, lpc, starts,
                 tables, row>>

\* The process is killed, or exits once it has shut down.
Crash == spc # "dead" /\ Die

Shutdown ==
  \/ MdnsClose \/ SendDone \/ ReceiveDone \/ CloseChannels \/ LastFlush
  \/ CloseDb

Next ==
  /\ \/ \E r \in Clients : Handler(r)
     \/ Worker
     \/ Start \/ Boot \/ StopAccepting \/ Shutdown \/ Crash
  /\ UNCHANGED setting

Spec == Init /\ [][Next]_<<vars, setting>>

(* A goroutine that can run does.  A select that finds several channels     *)
(* ready picks one at random, so a ready channel is served in the end       *)
(* however often the timers fire.  Crashes, restarts and the decision to    *)
(* shut down are the environment's.                                         *)
Fairness ==
  /\ \A r \in Requests :
       /\ WF_vars(QueueCheck(r) \/ QueueSend(r) \/ Put(r))
       /\ SF_vars(Enqueue(r))
  /\ SF_vars(TakeRecord)
  /\ WF_vars(Condition \/ BufferRecord \/ WorkerExit)
  /\ SF_vars(TakeDone)
  /\ WF_vars(Boot)
  /\ WF_vars(Shutdown)

FairSpec == Spec /\ Fairness

-----------------------------------------------------------------------------
Stored(r) == buffer[r] + qlog[r] + pruned[r]

\* A request leaves at most one row, in the buffer or in the log, and the
\* metrics tables have counted exactly the rows that reached the log: through
\* crashes, restarts and a shutdown that flushes beside a worker that flushes
\* (buffer 471-539, flush 547-578, NewRecorder 178-182, shutdown 628-631).
StoredOnce ==
  \A r \in Requests :
    /\ Stored(r) <= 1
    /\ ~StatementFails => details[r] = qlog[r] + pruned[r]

\* What a flush takes out of the buffer it puts into the log ("to move from
\* buffer to log table", recorder.go 47-48), so a row once inserted survives
\* whatever happens to the process until it is pruned.
FlushMoves ==
  [][~StatementFails =>
       \A r \in Requests : buffer'[r] < buffer[r] => qlog'[r] > qlog[r]]_vars

\* A record that was accepted is stored, as long as the recorder runs.
QueuedIsStored ==
  \A r \in Requests :
    hpc[r] = "put" /\ accepting /\ ~StatementFails
      ~> Stored(r) > 0 \/ spc # "run"

\* Every handler returns its answer, although the queue is bounded, may be
\* full, and the recorder may be swapped at any time: swap waits for the
\* handlers.  At the end of the process it does not, and a handler that has
\* tested the queue for nil may find it nil when it sends (recorder.go 196, 227).
EveryHandlerReturns ==
  \A r \in Requests : hpc[r] = "queue" /\ Locked ~> hpc[r] = "done"

\* shutdown() returns: the handshakes with the listener and with the worker
\* come to an end ("signal stop mdns if enabled", recorder.go 612).  With
\* reverse lookup and without mDNS the channel to the listener exists and the
\* listener does not (157-165), and shutdown waits for ever.
ShutdownReturns ==
  Mdns \in {"off", "listen"} /\ spc \in {"mdns", "done"} ~> spc \in {"down", "dead"}
=============================================================================

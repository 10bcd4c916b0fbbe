-------------------------- MODULE Recorder_proofs --------------------------
(***************************************************************************)
(* Proofs about the recorder for any number of requests, any queue size    *)
(* and any number of restarts: a record is in one place at a time on its   *)
(* way from the handler to the tables, so that it is stored at most once.  *)
(***************************************************************************)
EXTENDS Recorder, TLAPS

HandlerPC == {"new", "queue", "send", "sending", "stuck", "put", "done"}
WorkerPC == {"exited", "top", "parked", "condition", "buffer", "exiting"}

\* The variables a record passes through have their types, and the worker has a
\* record in its hands between taking one and inserting it.
TypeInv ==
  /\ setting \in Settings
  /\ hpc \in [Requests -> HandlerPC]
  /\ infoQueue \in Seq(Requests)
  /\ wpc \in WorkerPC
  /\ wpc \in {"condition", "buffer"} => info \in Requests
  /\ buffer \in [Requests -> Nat] /\ qlog \in [Requests -> Nat]
  /\ pruned \in [Requests -> Nat] /\ details \in [Requests -> Nat]

\* The stations of a record: with the handler until it is sent, then in the
\* channel, with the worker, in the tables.
Sent(r) == hpc[r] \in {"put", "done"}
Queued(r) == \E i \in 1..Len(infoQueue) : infoQueue[i] = r
Carried(r) == wpc \in {"condition", "buffer"} /\ info = r

\* It is at one of them at a time.
OnePlace ==
  /\ \A r \in Requests : ~Sent(r) => ~Queued(r) /\ ~Carried(r) /\ Stored(r) = 0
  /\ \A r \in Requests : Queued(r) => ~Carried(r) /\ Stored(r) = 0
  /\ \A r \in Requests : Carried(r) => Stored(r) = 0
  /\ \A i, j \in 1..Len(infoQueue) : infoQueue[i] = infoQueue[j] => i = j

Inv == TypeInv /\ OnePlace /\ StoredOnce

Step == [Next]_<<vars, setting>>

-----------------------------------------------------------------------------
(* The tables.                                                              *)

\* What the metrics tables have counted is what reached the log.
Counted == ~StatementFails => \A r \in Requests : details[r] = qlog[r] + pruned[r]

TablesType ==
  /\ buffer \in [Requests -> Nat] /\ qlog \in [Requests -> Nat]
  /\ pruned \in [Requests -> Nat] /\ details \in [Requests -> Nat]

\* Neither a flush nor a prune makes rows: they keep the types and the count,
\* and store no request more often than before.
LEMMA FlushKeeps ==
  ASSUME TablesType, Counted, setting' = setting, Flush
  PROVE  TablesType' /\ Counted' /\ \A r \in Requests : Stored(r)' <= Stored(r)
<1>1. /\ buffer' = [r \in Requests |-> 0] /\ pruned' = pruned
      /\ \/ qlog' = [r \in Requests |-> qlog[r] + buffer[r]]
         \/ StatementFails /\ qlog' = qlog
      /\ \/ details' = [r \in Requests |-> details[r] + buffer[r]]
         \/ StatementFails /\ details' = details
  BY DEF Flush, None
<1>2. TablesType'
  BY <1>1 DEF TablesType
<1>3. ASSUME NEW r \in Requests PROVE Stored(r)' <= Stored(r)
  BY <1>1 DEF TablesType, Stored
<1>4. Counted'
  <2> SUFFICES ASSUME ~StatementFails, NEW r \in Requests
               PROVE  details'[r] = qlog'[r] + pruned'[r]
    BY DEF Counted, StatementFails
  <2>1. details[r] = qlog[r] + pruned[r]
    BY DEF Counted
  <2> QED BY <1>1, <2>1 DEF TablesType
<1> QED BY <1>2, <1>3, <1>4

LEMMA PruneKeeps ==
  ASSUME TablesType, Counted, setting' = setting, Prune
  PROVE  TablesType' /\ Counted' /\ \A r \in Requests : Stored(r)' <= Stored(r)
<1>1. PICK old \in SUBSET {r \in Requests : qlog[r] > 0} :
        /\ qlog' = [r \in Requests |-> IF r \in old THEN 0 ELSE qlog[r]]
        /\ pruned' = [r \in Requests |-> pruned[r] + IF r \in old THEN qlog[r] ELSE 0]
  BY DEF Prune
<1>2. buffer' = buffer /\ details' = details
  BY DEF Prune
<1>3. TablesType'
  BY <1>1, <1>2 DEF TablesType
<1>4. ASSUME NEW r \in Requests
      PROVE  Stored(r)' <= Stored(r) /\ qlog'[r] + pruned'[r] = qlog[r] + pruned[r]
  <2>1. CASE r \in old
    BY <1>1, <1>2, <2>1 DEF TablesType, Stored
  <2>2. CASE r \notin old
    BY <1>1, <1>2, <2>2 DEF TablesType, Stored
  <2> QED BY <2>1, <2>2
<1>5. Counted'
  BY <1>2, <1>4 DEF Counted, StatementFails
<1> QED BY <1>3, <1>4, <1>5

-----------------------------------------------------------------------------
(* The steps that move no record forward: they may lose records, as a crash *)
(* or a failed statement does, and never make or double one.                *)

Quiet ==
  /\ TypeInv'
  /\ Counted'
  /\ \A r \in Requests : Sent(r) => Sent(r)'
  /\ infoQueue' = infoQueue \/ infoQueue' = <<>>
  /\ \A r \in Requests : Carried(r)' => Carried(r)
  /\ \A r \in Requests : Stored(r)' <= Stored(r)

LEMMA StoredNat ==
  ASSUME TypeInv, NEW r \in Requests
  PROVE  Stored(r) \in Nat
BY DEF TypeInv, Stored

LEMMA QuietKeeps ==
  ASSUME Inv, Quiet
  PROVE  Inv'
<1>1. ASSUME NEW r \in Requests
      PROVE  /\ Stored(r)' <= 1
             /\ Stored(r) = 0 => Stored(r)' = 0
             /\ Queued(r)' => Queued(r)
  <2>1. Stored(r) \in Nat /\ Stored(r)' \in Nat /\ Stored(r)' <= Stored(r) /\ Stored(r) <= 1
    <3>1. Stored(r) \in Nat
      BY StoredNat DEF Inv
    <3>2. Stored(r)' \in Nat
      BY SMTT(20) DEF Quiet, TypeInv, Stored
    <3> QED BY <3>1, <3>2 DEF Inv, Quiet, StoredOnce
  <2>2. Queued(r)' => Queued(r)
    BY DEF Quiet, Queued
  <2> QED BY <2>1, <2>2
<1>2. \A i, j \in 1..Len(infoQueue') : infoQueue'[i] = infoQueue'[j] => i = j
  BY DEF Quiet, Inv, OnePlace
<1>3. OnePlace'
  BY <1>1, <1>2, Zenon DEF Quiet, Inv, OnePlace
<1>4. StoredOnce'
  BY <1>1 DEF Quiet, StoredOnce, Counted
<1> QED BY <1>3, <1>4 DEF Inv, Quiet

LEMMA TablesOfInv == Inv => TablesType /\ Counted
BY DEF Inv, TypeInv, TablesType, StoredOnce, Counted

\* Of a quiet step it is enough to know the tables and what the handlers and
\* the worker do.
LEMMA QuietStep ==
  ASSUME TypeInv, setting' = setting,
         \/ UNCHANGED tables /\ Counted
         \/ Flush /\ TablesType /\ Counted
         \/ Prune /\ TablesType /\ Counted,
         hpc' \in [Requests -> HandlerPC], \A r \in Requests : Sent(r) => Sent(r)',
         infoQueue' = infoQueue \/ infoQueue' = <<>>,
         wpc' \in WorkerPC,
         wpc' \in {"condition", "buffer"} =>
           wpc \in {"condition", "buffer"} /\ info' = info
  PROVE  Quiet
<1>1. TablesType' /\ Counted' /\ \A r \in Requests : Stored(r)' <= Stored(r)
  <2>1. CASE UNCHANGED tables /\ Counted
    <3>1. TablesType'
      BY <2>1 DEF TablesType, TypeInv, tables
    <3>2. Counted'
      BY <2>1 DEF Counted, StatementFails, tables
    <3>3. ASSUME NEW r \in Requests PROVE Stored(r)' <= Stored(r)
      <4>1. Stored(r)' = Stored(r) /\ Stored(r) \in Nat
        BY <2>1, StoredNat DEF Stored, tables
      <4> QED BY <4>1
    <3> QED BY <3>1, <3>2, <3>3
  <2>2. CASE Flush /\ TablesType /\ Counted
    BY <2>2, FlushKeeps
  <2>3. CASE Prune /\ TablesType /\ Counted
    BY <2>3, PruneKeeps
  <2> QED BY <2>1, <2>2, <2>3
<1>2. infoQueue' \in Seq(Requests)
  <2>1. infoQueue \in Seq(Requests) /\ <<>> \in Seq(Requests)
    BY DEF TypeInv
  <2> QED BY <2>1, Zenon
<1>3. TypeInv'
  BY <1>1, <1>2, SMTT(20) DEF TypeInv, TablesType
<1>4. \A r \in Requests : Carried(r)' => Carried(r)
  BY DEF Carried
<1> QED BY <1>1, <1>3, <1>4 DEF Quiet

\* The end of the process.
LEMMA DieQuiet ==
  ASSUME Inv, setting' = setting, Die
  PROVE  Inv'
<1>1. TypeInv /\ Counted
  BY TablesOfInv DEF Inv
<1>2. /\ hpc' = [r \in Requests |-> IF hpc[r] = "new" THEN "new" ELSE "done"]
      /\ infoQueue' = <<>> /\ wpc' = "exited" /\ UNCHANGED tables
  BY DEF Die
<1>3. hpc' \in [Requests -> HandlerPC] /\ \A r \in Requests : Sent(r) => Sent(r)'
  BY <1>2 DEF HandlerPC, Sent
<1>4. Quiet
  BY <1>1, <1>2, <1>3, QuietStep DEF WorkerPC
<1> QED BY <1>4, QuietKeeps

-----------------------------------------------------------------------------
(* The three steps that move a record.                                      *)

LEMMA EnqueueStep ==
  ASSUME Inv, setting' = setting, NEW r \in Requests, Enqueue(r)
  PROVE  Inv'
<1>1. TypeInv /\ OnePlace /\ StoredOnce
  BY DEF Inv
<1>2. /\ hpc[r] = "sending" /\ hpc' = [hpc EXCEPT ![r] = "put"]
      /\ UNCHANGED tables
  BY DEF Enqueue
<1>3. ~Queued(r) /\ ~Carried(r) /\ Stored(r) = 0
  BY <1>1, <1>2 DEF OnePlace, Sent
<1>4. /\ hpc' \in [Requests -> HandlerPC] /\ Sent(r)'
      /\ \A s \in Requests : s # r /\ Sent(s) => Sent(s)'
  BY <1>1, <1>2 DEF TypeInv, HandlerPC, Sent
<1>5. (\A s \in Requests : Stored(s)' = Stored(s)) /\ StoredOnce'
  BY <1>1, <1>2 DEF Stored, StoredOnce, StatementFails, tables
<1>6. CASE wpc' = "condition" /\ info' = r /\ infoQueue' = infoQueue /\ wpc = "parked"
  <2>1. TypeInv'
    BY <1>1, <1>2, <1>4, <1>6 DEF TypeInv, WorkerPC, tables
  <2>2. \A s \in Requests : (Queued(s)' => Queued(s)) /\ (Carried(s)' => s = r)
    BY <1>6 DEF Queued, Carried
  <2>3. \A i, j \in 1..Len(infoQueue') : infoQueue'[i] = infoQueue'[j] => i = j
    BY <1>1, <1>6 DEF OnePlace
  <2>4. OnePlace'
    BY <1>1, <1>3, <1>4, <1>5, <2>2, <2>3, Zenon DEF OnePlace
  <2> QED BY <1>5, <2>1, <2>4 DEF Inv
<1>7. CASE wpc' = wpc /\ info' = info /\ infoQueue' = Append(infoQueue, r)
  <2>1. infoQueue \in Seq(Requests)
    BY <1>1 DEF TypeInv
  <2>2. /\ infoQueue' \in Seq(Requests) /\ Len(infoQueue) \in Nat
        /\ Len(infoQueue') = Len(infoQueue) + 1
        /\ \A i \in 1..Len(infoQueue) : infoQueue'[i] = infoQueue[i]
        /\ infoQueue'[Len(infoQueue) + 1] = r
    BY <1>7, <2>1
  <2>3. TypeInv'
    BY <1>1, <1>2, <1>4, <1>7, <2>2 DEF TypeInv, tables
  <2>4. /\ \A s \in Requests : s # r => (Queued(s)' => Queued(s))
        /\ \A s \in Requests : Carried(s)' => Carried(s)
    BY <1>7, <2>2 DEF Queued, Carried
  <2>5. \A i, j \in 1..Len(infoQueue') : infoQueue'[i] = infoQueue'[j] => i = j
    <3> SUFFICES ASSUME NEW i \in 1..Len(infoQueue'), NEW j \in 1..Len(infoQueue'),
                        infoQueue'[i] = infoQueue'[j]
                 PROVE  i = j
      OBVIOUS
    <3>1. \A k \in 1..Len(infoQueue) : infoQueue[k] # r
      BY <1>3 DEF Queued
    <3>2. \A k, l \in 1..Len(infoQueue) : infoQueue[k] = infoQueue[l] => k = l
      BY <1>1 DEF OnePlace
    <3> QED BY <2>2, <3>1, <3>2
  <2>6. OnePlace'
    BY <1>1, <1>3, <1>4, <1>5, <2>4, <2>5, Zenon DEF OnePlace
  <2> QED BY <1>5, <2>3, <2>6 DEF Inv
<1> QED BY <1>6, <1>7 DEF Enqueue

LEMMA TakeRecordStep ==
  ASSUME Inv, setting' = setting, TakeRecord
  PROVE  Inv'
<1>1. TypeInv /\ OnePlace /\ StoredOnce
  BY DEF Inv
<1>2. /\ wpc = "top" /\ wpc' = "condition" /\ infoQueue # <<>>
      /\ info' = Head(infoQueue) /\ infoQueue' = Tail(infoQueue)
      /\ hpc' = hpc /\ UNCHANGED tables
  BY DEF TakeRecord, handlerVars
<1>3. infoQueue \in Seq(Requests)
  BY <1>1 DEF TypeInv
<1>4. /\ infoQueue' \in Seq(Requests) /\ info' \in Requests /\ Len(infoQueue) \in Nat
      /\ Len(infoQueue) > 0 /\ Len(infoQueue') = Len(infoQueue) - 1
      /\ info' = infoQueue[1]
      /\ \A i \in 1..Len(infoQueue') : infoQueue'[i] = infoQueue[i + 1]
  BY <1>2, <1>3
<1>5. TypeInv'
  BY <1>1, <1>2, <1>4 DEF TypeInv, WorkerPC, tables
<1>6. /\ \A s \in Requests : Sent(s)' = Sent(s) /\ Stored(s)' = Stored(s)
      /\ StoredOnce'
  BY <1>1, <1>2 DEF Sent, Stored, StoredOnce, StatementFails, tables
<1>7. \A i, j \in 1..Len(infoQueue) : infoQueue[i] = infoQueue[j] => i = j
  BY <1>1 DEF OnePlace
<1>8. \A i, j \in 1..Len(infoQueue') : infoQueue'[i] = infoQueue'[j] => i = j
  <2> SUFFICES ASSUME NEW i \in 1..Len(infoQueue'), NEW j \in 1..Len(infoQueue'),
                      infoQueue'[i] = infoQueue'[j]
               PROVE  i = j
    OBVIOUS
  <2>1. i + 1 \in 1..Len(infoQueue) /\ j + 1 \in 1..Len(infoQueue)
    BY <1>4
  <2>2. i + 1 = j + 1
    BY <1>4, <1>7, <2>1
  <2> QED BY <2>2
<1>9. ASSUME NEW s \in Requests
      PROVE  (Queued(s)' => Queued(s) /\ ~Carried(s)') /\ (Carried(s)' => Queued(s))
  <2>1. ASSUME NEW i \in 1..Len(infoQueue'), infoQueue'[i] = s
        PROVE  Queued(s) /\ s # info'
    <3>1. i + 1 \in 1..Len(infoQueue) /\ 1 \in 1..Len(infoQueue) /\ i + 1 # 1
      BY <1>4
    <3> QED BY <1>4, <1>7, <2>1, <3>1 DEF Queued
  <2>2. Carried(s)' = (s = info')
    BY <1>2 DEF Carried
  <2>3. s = info' => Queued(s)
    <3>1. 1 \in 1..Len(infoQueue)
      BY <1>4
    <3> QED BY <1>4, <3>1 DEF Queued
  <2> QED BY <2>1, <2>2, <2>3, Zenon DEF Queued
<1>10. OnePlace'
  BY <1>1, <1>6, <1>8, <1>9, Zenon DEF OnePlace
<1> QED BY <1>5, <1>6, <1>10 DEF Inv

LEMMA BufferRecordStep ==
  ASSUME Inv, setting' = setting, BufferRecord
  PROVE  Inv'
<1>1. TypeInv /\ OnePlace /\ StoredOnce
  BY DEF Inv
<1>2. PICK r \in Requests : r = info
  BY <1>1 DEF TypeInv, BufferRecord
<1>3. /\ wpc = "buffer" /\ wpc' = "top" /\ infoQueue' = infoQueue /\ hpc' = hpc
      /\ qlog' = qlog /\ pruned' = pruned /\ details' = details
      /\ buffer' = buffer \/ buffer' = [buffer EXCEPT ![r] = buffer[r] + 1]
  BY <1>2 DEF BufferRecord, handlerVars, chanVars
<1>4. Carried(r) /\ Stored(r) = 0 /\ ~Queued(r) /\ Sent(r)
  BY <1>1, <1>2, <1>3 DEF OnePlace, Carried
<1>5. /\ buffer \in [Requests -> Nat] /\ qlog[r] \in Nat /\ pruned[r] \in Nat
      /\ buffer[r] \in Nat
  BY <1>1 DEF TypeInv
<1>6. /\ buffer' \in [Requests -> Nat]
      /\ \A s \in Requests : s # r => buffer'[s] = buffer[s]
      /\ buffer'[r] = buffer[r] \/ buffer'[r] = buffer[r] + 1
  BY <1>3, <1>5
<1>7. TypeInv'
  BY <1>1, <1>3, <1>6 DEF TypeInv, WorkerPC
<1>8. /\ \A s \in Requests : s # r => Stored(s)' = Stored(s)
      /\ Stored(r)' <= 1
  BY <1>3, <1>4, <1>5, <1>6 DEF Stored
<1>9. StoredOnce'
  <2>1. \A s \in Requests : Stored(s)' <= 1
    BY <1>1, <1>8 DEF StoredOnce
  <2> QED BY <1>1, <1>3, <2>1 DEF StoredOnce, StatementFails
<1>10. \A s \in Requests :
         ~Carried(s)' /\ (Queued(s)' => Queued(s)) /\ (Sent(s) => Sent(s)')
  BY <1>3 DEF Carried, Queued, Sent
<1>11. \A i, j \in 1..Len(infoQueue') : infoQueue'[i] = infoQueue'[j] => i = j
  BY <1>1, <1>3 DEF OnePlace
<1>12. OnePlace'
  BY <1>1, <1>4, <1>8, <1>10, <1>11, Zenon DEF OnePlace
<1> QED BY <1>7, <1>9, <1>12 DEF Inv

-----------------------------------------------------------------------------
LEMMA InvInit == Init => Inv
<1> SUFFICES ASSUME Init PROVE Inv
  OBVIOUS
<1>1. /\ setting \in Settings /\ hpc = [r \in Requests |-> "new"] /\ infoQueue = <<>>
      /\ wpc = "exited" /\ buffer = [r \in Requests |-> 0] /\ qlog = [r \in Requests |-> 0]
      /\ pruned = [r \in Requests |-> 0] /\ details = [r \in Requests |-> 0]
  BY DEF Init, None
<1>2. TypeInv
  BY <1>1 DEF TypeInv, HandlerPC, WorkerPC
<1>3. OnePlace /\ StoredOnce
  BY <1>1 DEF OnePlace, StoredOnce, Stored, Queued, Carried
<1> QED BY <1>2, <1>3 DEF Inv

LEMMA InvStep == Inv /\ Step => Inv'
<1> SUFFICES ASSUME Inv, Step PROVE Inv'
  OBVIOUS
<1>1. TypeInv /\ TablesType /\ Counted /\ setting' = setting
  BY TablesOfInv DEF Inv, Step, Next
<1>2. /\ hpc \in [Requests -> HandlerPC] /\ wpc \in WorkerPC
      /\ \A r \in Requests : hpc' = hpc => (Sent(r) => Sent(r)')
  BY <1>1 DEF TypeInv, Sent
<1>q. ASSUME Quiet PROVE Inv'
  BY <1>q, QuietKeeps
<1>3. ASSUME NEW r \in Clients, Handler(r) PROVE Inv'
  <2>1. r \in Requests
    <3>1. setting.clients \in SUBSET Requests
      BY <1>1, RecorderAssumption DEF TypeInv
    <3> QED BY <1>3, <3>1 DEF Clients
  <2>2. CASE Answered(r) \/ QueueCheck(r) \/ QueueSend(r) \/ Put(r)
    <3>1. /\ UNCHANGED tables /\ infoQueue' = infoQueue /\ wpc' = wpc /\ info' = info
      BY <2>2 DEF Answered, QueueCheck, QueueSend, Put, chanVars, workerVars
    <3>2. \E l \in HandlerPC : /\ hpc' = [hpc EXCEPT ![r] = l]
                               /\ hpc[r] \in {"put", "done"} => l = "done"
      BY <2>2 DEF Answered, QueueCheck, QueueSend, Put, HandlerPC
    <3>3. hpc' \in [Requests -> HandlerPC] /\ \A s \in Requests : Sent(s) => Sent(s)'
      BY <1>2, <3>2, Zenon DEF Sent
    <3>4. Quiet
      BY <1>1, <1>2, <3>1, <3>3, QuietStep
    <3> QED BY <3>4, <1>q
  <2>3. CASE Enqueue(r)
    BY <1>1, <2>1, <2>3, EnqueueStep
  <2>4. CASE EnqueuePanics(r)
    BY <1>1, <2>4, DieQuiet DEF EnqueuePanics
  <2> QED BY <1>3, <2>2, <2>3, <2>4 DEF Handler
<1>4. CASE Worker
  <2>1. CASE TakeRecord
    BY <1>1, <2>1, TakeRecordStep
  <2>2. CASE BufferRecord
    BY <1>1, <2>2, BufferRecordStep
  <2>3. CASE Park \/ Condition \/ TakeDone \/ WorkerExit
    <3>1. /\ UNCHANGED tables /\ infoQueue' = infoQueue /\ info' = info /\ hpc' = hpc
          /\ wpc' \in WorkerPC
          /\ wpc' \in {"condition", "buffer"} => wpc = "condition"
      BY <2>3, Zenon DEF Park, Condition, TakeDone, WorkerExit, chanVars, handlerVars, WorkerPC
    <3>2. Quiet
      BY <1>1, <1>2, <3>1, QuietStep
    <3> QED BY <3>2, <1>q
  <2>4. CASE Timer
    <3>1. /\ Flush \/ Prune
          /\ infoQueue' = infoQueue /\ hpc' = hpc /\ wpc' = "top"
      BY <2>4 DEF Timer, chanVars, handlerVars
    <3>2. Quiet
      BY <1>1, <1>2, <3>1, QuietStep DEF WorkerPC
    <3> QED BY <3>2, <1>q
  <2>5. CASE WorkerPanics
    BY <1>1, <2>5, DieQuiet DEF WorkerPanics
  <2> QED BY <1>4, <2>1, <2>2, <2>3, <2>4, <2>5 DEF Worker
<1>5. CASE Start
  <2>1. UNCHANGED tables /\ infoQueue' = <<>> /\ wpc' = "exited" /\ hpc' = hpc
    BY <1>5 DEF Start, handlerVars
  <2>2. Quiet
    BY <1>1, <1>2, <2>1, QuietStep DEF WorkerPC
  <2> QED BY <2>2, <1>q
<1>6. CASE Boot
  <2>1. /\ Flush \/ Prune
        /\ infoQueue' = infoQueue /\ info' = info /\ hpc' = hpc /\ wpc' \in {wpc, "top"}
    BY <1>6 DEF Boot, chanVars, handlerVars
  <2>2. Quiet
    BY <1>1, <1>2, <2>1, QuietStep DEF WorkerPC
  <2> QED BY <2>2, <1>q
<1>7. CASE StopAccepting \/ MdnsClose \/ ReceiveDone \/ CloseChannels \/ CloseDb
  <2>1. UNCHANGED tables /\ infoQueue' = infoQueue /\ hpc' = hpc /\ wpc' = wpc /\ info' = info
    BY <1>7 DEF StopAccepting, MdnsClose, ReceiveDone, CloseChannels, CloseDb, chanVars,
                handlerVars, workerVars
  <2>2. Quiet
    BY <1>1, <1>2, <2>1, QuietStep
  <2> QED BY <2>2, <1>q
<1>8. CASE SendDone
  <2>1. /\ UNCHANGED tables /\ infoQueue' = infoQueue /\ info' = info /\ hpc' = hpc
        /\ wpc' \in {wpc, "exiting"}
    BY <1>8 DEF SendDone, chanVars, handlerVars
  <2>2. Quiet
    BY <1>1, <1>2, <2>1, QuietStep DEF WorkerPC
  <2> QED BY <2>2, <1>q
<1>9. CASE LastFlush
  <2>1. /\ Flush \/ Prune
        /\ infoQueue' = infoQueue /\ info' = info /\ hpc' = hpc /\ wpc' = wpc
    BY <1>9 DEF LastFlush, chanVars, handlerVars, workerVars
  <2>2. Quiet
    BY <1>1, <1>2, <2>1, QuietStep
  <2> QED BY <2>2, <1>q
<1>10. CASE Crash
  BY <1>1, <1>10, DieQuiet DEF Crash
<1>11. CASE UNCHANGED <<vars, setting>>
  <2>1. UNCHANGED tables /\ infoQueue' = infoQueue /\ hpc' = hpc /\ wpc' = wpc /\ info' = info
    BY <1>11 DEF vars, chanVars, handlerVars, workerVars
  <2>2. Quiet
    BY <1>1, <1>2, <2>1, QuietStep
  <2> QED BY <2>2, <1>q
<1> QED BY <1>3, <1>4, <1>5, <1>6, <1>7, <1>8, <1>9, <1>10, <1>11 DEF Step, Next, Shutdown

LEMMA InvAlways == Spec => []Inv
<1>1. [Next]_<<vars, setting>> => Step
  BY DEF Step
<1> QED BY <1>1, InvInit, InvStep, PTL DEF Spec

\* A request leaves at most one row and the metrics tables count exactly the
\* rows that reached the log, for any queue size and any number of handlers,
\* and wherever a crash, a restart or the flush of shutdown falls (recorder.go
\* buffer 471-539, flush 547-578, shutdown 628-631).
THEOREM StoredAtMostOnce == Spec => []StoredOnce
<1>1. Inv => StoredOnce
  BY DEF Inv
<1> QED BY <1>1, InvAlways, PTL

\* As long as no statement fails, a row leaves the buffer only for the log
\* (flush, recorder.go 547-578).
THEOREM FlushLosesNothing == Spec => FlushMoves
<1> DEFINE Moves == ~StatementFails =>
             \A r \in Requests : buffer'[r] < buffer[r] => qlog'[r] > qlog[r]
<1>1. Inv /\ Step => [Moves]_vars
  <2> SUFFICES ASSUME Inv, Step, ~StatementFails, NEW r \in Requests,
                      buffer'[r] < buffer[r]
               PROVE  qlog'[r] > qlog[r] \/ UNCHANGED vars
    OBVIOUS
  <2>1. TypeInv /\ buffer[r] \in Nat /\ qlog[r] \in Nat
    BY DEF Inv, TypeInv
  <2>2. ASSUME Flush PROVE qlog'[r] > qlog[r]
    <3>1. buffer'[r] = 0 /\ qlog'[r] = qlog[r] + buffer[r]
      BY <2>2 DEF Flush, None
    <3> QED BY <2>1, <3>1
  <2>3. ASSUME Prune \/ UNCHANGED tables PROVE FALSE
    <3>1. buffer' = buffer
      BY <2>3 DEF Prune, tables
    <3> QED BY <2>1, <3>1
  <2>4. ASSUME BufferRecord PROVE FALSE
    <3>1. PICK s \in Requests : s = info
      BY <2>1, <2>4 DEF TypeInv, BufferRecord
    <3>2. buffer' = buffer \/ buffer' = [buffer EXCEPT ![s] = buffer[s] + 1]
      BY <2>4, <3>1 DEF BufferRecord
    <3>3. buffer \in [Requests -> Nat]
      BY <2>1 DEF TypeInv
    <3>4. buffer'[r] = buffer[r] \/ buffer'[r] = buffer[r] + 1
      BY <3>2, <3>3
    <3> QED BY <2>1, <3>4
  <2>5. ASSUME NEW s \in Clients, Handler(s) PROVE UNCHANGED tables
    BY <2>5, SMTT(20) DEF Handler, Answered, QueueCheck, QueueSend, Enqueue, EnqueuePanics, Put, Die
  <2>6. Worker => Flush \/ Prune \/ UNCHANGED tables \/ BufferRecord
    BY Zenon DEF Worker, TakeRecord, Park, Condition, Timer, TakeDone, WorkerExit, WorkerPanics, Die
  <2>7. Start \/ Boot \/ StopAccepting \/ Shutdown \/ Crash
          => Flush \/ Prune \/ UNCHANGED tables
    BY Zenon DEF Start, Boot, StopAccepting, Shutdown, MdnsClose, SendDone, ReceiveDone,
           CloseChannels, LastFlush, CloseDb, Crash, Die
  <2> QED BY <2>2, <2>3, <2>4, <2>5, <2>6, <2>7 DEF Step, Next
<1>2. [Next]_<<vars, setting>> => Step
  BY DEF Step
<1>3. Spec => [][Moves]_vars
  BY <1>1, <1>2, InvAlways, PTL DEF Spec
<1> QED BY <1>3 DEF FlushMoves
=============================================================================

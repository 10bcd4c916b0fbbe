-------------------------- MODULE HotReload_proofs --------------------------
(***************************************************************************)
(* Proofs about hot reload, for any number of lists, sources, requests and *)
(* edits and any size of the bus: no engine is shut down twice, the engine *)
(* in use is up outside of swap, requests meet an engine that is up, and   *)
(* every file is watched and listened to once nothing is going on.         *)
(***************************************************************************)
EXTENDS HotReloadPrograms_proofs

-----------------------------------------------------------------------------
(* What is left to do while the process runs.                               *)

\* What is added to a sequence is its last element.
LEMMA Appended ==
  ASSUME NEW S, NEW s \in Seq(S), NEW e \in S
  PROVE  /\ Append(s, e) \in Seq(S) /\ Len(s) \in Nat
         /\ Len(s) + 1 \in DOMAIN Append(s, e) /\ Append(s, e)[Len(s) + 1] = e
         /\ \A i \in DOMAIN s : i \in DOMAIN Append(s, e) /\ Append(s, e)[i] = s[i]
                                /\ i \in Int /\ i < Len(s) + 1
         /\ \A i \in DOMAIN Append(s, e) :
              \/ i \in DOMAIN s /\ Append(s, e)[i] = s[i]
              \/ i = Len(s) + 1
<1>1. Len(s) \in Nat /\ DOMAIN s = 1..Len(s)
  OBVIOUS
<1>2. Append(s, e) \in Seq(S) /\ DOMAIN Append(s, e) = 1..(Len(s) + 1)
  BY <1>1
<1>3. Append(s, e)[Len(s) + 1] = e
  BY <1>1
<1>4. \A i \in 1..Len(s) : Append(s, e)[i] = s[i]
  BY <1>1
<1> HIDE <1>2
<1>5. /\ Len(s) + 1 \in 1..(Len(s) + 1)
      /\ \A i \in 1..Len(s) : i \in 1..(Len(s) + 1) /\ i \in Int /\ i < Len(s) + 1
      /\ \A i \in 1..(Len(s) + 1) : i \in 1..Len(s) \/ i = Len(s) + 1
  BY <1>1
<1> QED BY <1>1, <1>2, <1>3, <1>4, <1>5

\* Main does one operation; the bus has the same left to do.
LEMMA MainStep ==
  ASSUME TypeInv, Main
  PROVE  /\ todo["main"] # <<>> /\ Done("main")
         /\ UNCHANGED <<busUp, lock, cpc, panicked, stopping>>
  BY DEF Main, SendOp, LoadOp, ListenOp, NewEngineOp, BuiltOp, HostOp, Op, Fails, stopVars,
         engineVars

\* The bus leaves main as it is.
LEMMA BusLeavesMain ==
  ASSUME TypeInv, Bus
  PROVE  todo'["main"] = todo["main"] /\ UNCHANGED <<busUp, cpc>>
<1>1. todo \in [{"main", "bus"} -> Seq(AllOps)]
  BY DEF TypeInv
<1>2. ASSUME NEW s, todo' = [todo EXCEPT !["bus"] = s] PROVE todo'["main"] = todo["main"]
  BY <1>1, <1>2
<1>3. UNCHANGED <<busUp, cpc>>
  BY SMTT(20) DEF Bus, Dispatch, SendOp, LoadOp, ListenOp, UnwatchOp, HashOp, WatchOp, ClearOp,
         EndWatchOp, CloseWatcherOp, LoadConfOp, LockOp, UnlockOp, StopEngineOp, NewEngineOp,
         BuiltOp
<1>4. \E s : todo' = [todo EXCEPT !["bus"] = s]
  BY DEF Bus, Dispatch, SendOp, LoadOp, ListenOp, UnwatchOp, HashOp, WatchOp, ClearOp,
         EndWatchOp, CloseWatcherOp, LoadConfOp, LockOp, UnlockOp, StopEngineOp, NewEngineOp,
         BuiltOp, Done, Fails
<1> QED BY <1>2, <1>3, <1>4

\* Every step keeps the requests out of the section of swap (the read lock of
\* Handle, and a writer that waits for the readers).
LEMMA RequestStep ==
  ASSUME TypeInv, RequestInv, [Next]_<<vars, setting>>
  PROVE  RequestInv'
<1> USE DEF engineVars
<1>1. ASSUME UNCHANGED cpc, lock' # "write" \/ lock' = lock \/ Readers = {},
             todo["main"] = <<>> => todo'["main"] = <<>>
      PROVE  RequestInv'
  BY <1>1 DEF RequestInv, Readers
<1>2. CASE UNCHANGED <<cpc, lock, todo>>
  BY <1>1, <1>2
<1>3. CASE Main
  BY <1>1, <1>3, MainStep
<1>4. CASE Bus
  <2>1. lock' # "write" \/ lock' = lock \/ Readers = {}
    BY <1>4 DEF Bus, Dispatch, SendOp, LoadOp, ListenOp, UnwatchOp, HashOp, WatchOp, ClearOp,
         EndWatchOp, CloseWatcherOp, LoadConfOp, LockOp, UnlockOp, StopEngineOp, NewEngineOp,
         BuiltOp
  <2> QED BY <1>1, <1>4, <2>1, BusLeavesMain, SMTT(20)
<1>5. ASSUME NEW c \in Clients, Accept(c) \/ Handle(c) PROVE RequestInv'
  <2>1. UNCHANGED <<lock, todo>> /\ cpc \in [Clients -> {"idle", "waiting", "reading"}]
    BY <1>5 DEF Accept, Handle, TypeInv
  <2>2. \A d \in Clients \ {c} : cpc'[d] = cpc[d]
    BY <1>5, <2>1 DEF Accept, Handle
  <2>3. /\ cpc'[c] = "reading" => lock # "write"
        /\ cpc'[c] # "idle" => todo["main"] = <<>>
    BY <1>5, <2>1 DEF Accept, Handle, RequestInv, Booted, Idle
  <2> QED BY <2>1, <2>2, <2>3 DEF RequestInv
<1>6. CASE Signal \/ StopFileWatch \/ Stop \/ StopServers \/ StopEngine
  BY <1>2, <1>6 DEF Signal, StopFileWatch, Stop, StopServers, StopEngine
<1>7. CASE Loop
  BY <1>2, <1>7 DEF Loop, LoopEvent, LoopSend
<1>8. ASSUME NEW f, Edit(f) PROVE RequestInv'
  BY <1>2, <1>8 DEF Edit
<1>9. CASE UNCHANGED <<vars, setting>>
  BY <1>2, <1>9 DEF vars
<1> QED BY <1>3, <1>4, <1>5, <1>6, <1>7, <1>8, <1>9 DEF Next

\* An event that is not "close" may be sent.
LEMMA NoCloseSent ==
  ASSUME TypeInv, ProgramInv, NEW e \in Topics \X Files, e[1] # "close", busChan' = Sent(e)
  PROVE  \A i \in DOMAIN busChan' : busChan'[i][1] # "close"
<1>1. busChan' = Append(busChan, e) /\ busChan \in Seq(Topics \X Files)
  BY DEF ProgramInv, Sent, TypeInv
<1> QED BY <1>1, Appended DEF ProgramInv

\* Every step of a running process leaves the bus with a program it can have.
LEMMA ProgramStep ==
  ASSUME TypeInv, ProgramInv, Going
  PROVE  ProgramInv'
<1> DEFINE q == todo["bus"]
<1>0. Shape(q) /\ todo["main"] \in Seq(WorkOps) /\ busUp
  BY DEF ProgramInv
<1>1. ASSUME UNCHANGED <<busChan, busUp, todo>> PROVE ProgramInv'
  BY <1>1 DEF ProgramInv
<1>2. CASE LoopSend
  <2>1. <<"file", lfile>> \in Topics \X Files /\ <<"file", lfile>>[1] # "close"
    BY DEF TypeInv, Topics
  <2>2. \A i \in DOMAIN busChan' : busChan'[i][1] # "close"
    BY <1>2, <2>1, NoCloseSent DEF LoopSend
  <2> QED BY <1>2, <2>2 DEF LoopSend, ProgramInv
<1>3. ASSUME NEW p \in {"main", "bus"}, SendOp(p)
      PROVE  \A i \in DOMAIN busChan' : busChan'[i][1] # "close"
  <2>0. todo[p] # <<>> /\ Head(todo[p])[1] = "send"
        /\ busChan' = Sent(<<Head(todo[p])[2], Head(todo[p])[3]>>)
    BY <1>3 DEF SendOp, Op
  <2> DEFINE op == Head(todo[p])
  <2>1. CASE p = "main"
    <3>1. op \in WorkOps
      BY <1>0, <2>0, <2>1
    <3>2. op[2] \in {"start", "changed", "source"} /\ op[3] \in Files
      BY <2>0, <3>1, WorkFacts
    <3>3. <<op[2], op[3]>> \in Topics \X Files /\ <<op[2], op[3]>>[1] # "close"
      BY <3>2 DEF Topics
    <3> QED BY <2>0, <3>3, NoCloseSent
  <2>2. CASE p = "bus"
    <3> HIDE DEF op
    <3>1. op[1] = "send" /\ q # <<>> /\ op = Head(q)
      BY <2>0, <2>2 DEF op
    <3>2. op[2] \in {"start", "changed", "source", "clear"} /\ op[3] \in Files
      BY <1>0, <3>1, HeadFacts, FileFacts
    <3>3. <<op[2], op[3]>> \in Topics \X Files /\ <<op[2], op[3]>>[1] # "close"
      BY <3>2 DEF Topics
    <3> QED BY <2>0, <3>3, NoCloseSent DEF op
  <2> QED BY <2>1, <2>2
<1>4. CASE Main
  <2>1. todo["main"] # <<>> /\ Done("main") /\ UNCHANGED busUp
    BY <1>4, MainStep
  <2>2. todo'["main"] = Tail(todo["main"]) /\ todo'["bus"] = q
    BY <2>1, Popped
  <2>3. todo'["main"] \in Seq(WorkOps)
    BY <1>0, <2>1, <2>2
  <2>4. SendOp("main") \/ UNCHANGED busChan
    BY <1>4 DEF Main, LoadOp, ListenOp, NewEngineOp, BuiltOp, HostOp
  <2>5. \A i \in DOMAIN busChan' : busChan'[i][1] # "close"
    BY <1>3, <2>4 DEF ProgramInv
  <2> QED BY <1>0, <2>1, <2>2, <2>3, <2>5 DEF ProgramInv
<1>5. CASE Bus
  <2>1. todo'["main"] \in Seq(WorkOps) /\ busUp'
    BY <1>0, <1>5, BusLeavesMain
  <2>2. ASSUME q # <<>>, Done("bus") PROVE Shape(todo'["bus"])
    BY <1>0, <2>2, Popped, ShapeTail
  <2>3. CASE Dispatch
    <3>1. busChan # <<>> /\ busChan' = Tail(busChan) /\ busChan \in Seq(Topics \X Files)
          /\ todo' = [todo EXCEPT !["bus"] = Program(Head(busChan))]
      BY <2>3 DEF Dispatch, TypeInv
    <3>2. 1 \in DOMAIN busChan /\ Head(busChan) = busChan[1] /\ Head(busChan) \in Topics \X Files
      BY <3>1, TailAt
    <3>3. Shape(Program(Head(busChan)))
      BY <3>2, ProgramFacts DEF ProgramInv
    <3>4. todo'["bus"] = Program(Head(busChan))
      BY <3>1 DEF TypeInv
    <3>5. \A i \in DOMAIN busChan' : busChan'[i][1] # "close"
      BY <3>1, TailAt DEF ProgramInv
    <3> QED BY <2>1, <3>3, <3>4, <3>5 DEF ProgramInv
  <2>4. CASE SendOp("bus")
    <3>1. q # <<>> /\ Done("bus")
      BY <2>4 DEF SendOp, Op
    <3> QED BY <1>3, <2>1, <2>2, <2>4, <3>1 DEF ProgramInv
  <2>5. CASE LoadConfOp
    <3>1. q # <<>> /\ Head(q)[1] = "loadConf" /\ UNCHANGED busChan
      BY <2>5 DEF LoadConfOp, Op
    <3>2. q = << <<"loadConf">>, send("start", Conf) >>
      BY <1>0, <3>1, HeadFacts
    <3>3. Tail(q) = << send("start", Conf) >>
      BY <3>2, ShortPrograms
    <3>4. Done("bus") \/ todo' = [todo EXCEPT !["bus"] = SwapLeft]
      BY <2>5, <3>3, Zenon DEF LoadConfOp, SwapLeft
    <3>5. todo' = [todo EXCEPT !["bus"] = SwapLeft] => todo'["bus"] = SwapLeft
      BY DEF TypeInv
    <3>6. Shape(todo'["bus"])
      BY <2>2, <3>1, <3>4, <3>5, SwapFacts DEF Shape
    <3> QED BY <2>1, <3>1, <3>6 DEF ProgramInv
  <2>6. CASE NewEngineOp("bus")
    <3>1. q # <<>> /\ (Done("bus") \/ Fails("bus")) /\ UNCHANGED busChan
      BY <2>6 DEF NewEngineOp, Op
    <3>2. << <<"unlock">>, send("start", Conf) >> \in Seq(Work)
      BY OpFacts, FileFacts, UpToThree
    <3>3. Fails("bus") => todo'["bus"] = << <<"unlock">>, send("start", Conf) >>
      BY DEF Fails, TypeInv
    <3>4. Shape(todo'["bus"])
      BY <2>2, <3>1, <3>2, <3>3, Zenon DEF Shape
    <3> QED BY <2>1, <3>1, <3>4 DEF ProgramInv
  <2>7. CASE \/ LoadOp("bus") \/ ListenOp("bus") \/ UnwatchOp \/ HashOp \/ WatchOp \/ ClearOp
             \/ EndWatchOp \/ CloseWatcherOp \/ LockOp \/ UnlockOp \/ StopEngineOp \/ BuiltOp("bus")
    <3>1. q # <<>> /\ Done("bus") /\ UNCHANGED busChan
      BY <2>7 DEF LoadOp, ListenOp, UnwatchOp, HashOp, WatchOp, ClearOp, EndWatchOp,
                  CloseWatcherOp, LockOp, UnlockOp, StopEngineOp, BuiltOp, Op
    <3> QED BY <2>1, <2>2, <3>1 DEF ProgramInv
  <2> QED BY <1>5, <2>3, <2>4, <2>5, <2>6, <2>7 DEF Bus
<1>6. ASSUME NEW f, Edit(f) \/ LoopEvent(f) PROVE ProgramInv'
  BY <1>1, <1>6 DEF Edit, LoopEvent
<1>7. ASSUME NEW c, Accept(c) \/ Handle(c) PROVE ProgramInv'
  BY <1>1, <1>7 DEF Accept, Handle
<1> QED BY <1>2, <1>4, <1>5, <1>6, <1>7 DEF Going, Loop

-----------------------------------------------------------------------------
(* The engine and the lock.                                                 *)

\* At the start nobody is in the section of swap.
LEMMA EngineInit == Init => EngineInv
<1> SUFFICES ASSUME Init PROVE EngineInv
  OBVIOUS
<1>1. todo["bus"] = <<>> /\ todo["main"] = BootProgram /\ listening = {}
      /\ lock = "free" /\ ~panicked
  BY DEF Init
<1>2. DOMAIN todo["bus"] = {}
  BY <1>1
<1>3. LeftFrom(todo["bus"], 6)
  BY <1>2 DEF LeftFrom
<1>4. InOrder(todo["bus"]) /\ ~Within(<<"loadConf">>, todo["bus"])
  BY <1>2 DEF InOrder, Within
<1>5. AtStage(6)
  BY <1>1, <1>3, <1>4, BootFacts DEF AtStage, LockAt
<1> QED BY <1>1, <1>4, <1>5, BootFacts DEF EngineInv

\* The bus does an operation outside of the critical section.
LEMMA OutsideSection ==
  ASSUME TypeInv, EngineInv, todo["bus"] # <<>>, Done("bus"), Rank(Head(todo["bus"])) = 0,
         UNCHANGED <<lock, engineUp, panicked>>, Conf \in listening' <=> Conf \in listening
  PROVE  EngineInv'
<1> DEFINE q == todo["bus"]
<1>1. q \in Seq(AllOps) /\ todo'["bus"] = Tail(q) /\ todo'["main"] = todo["main"]
  BY Popped
<1>2. PICK k \in 1..6 : AtStage(k)
  BY DEF EngineInv
<1>3. InOrder(q) /\ LeftFrom(q, k)
  BY <1>2 DEF EngineInv, AtStage
<1>4. InOrder(Tail(q))
  BY <1>1, <1>3, OrderTail
<1>5. LeftFrom(Tail(q), k)
  BY <1>1, <1>3, LeftTail
<1>6. Within(<<"loadConf">>, Tail(q)) => Within(<<"loadConf">>, q)
  BY <1>1, WithinTail
<1>7. AtStage(k)'
  BY <1>1, <1>2, <1>5, <1>6 DEF AtStage
<1> QED BY <1>1, <1>4, <1>7 DEF EngineInv

\* The bus is about to do an operation of the critical section.
LEMMA InSection ==
  ASSUME TypeInv, EngineInv, todo["bus"] # <<>>, NEW k \in 1..5, Rank(Head(todo["bus"])) = k
  PROVE  /\ InOrder(Tail(todo["bus"])) /\ LeftFrom(Tail(todo["bus"]), k + 1)
         /\ ~Within(<<"loadConf">>, Tail(todo["bus"]))
         /\ Conf \in listening /\ (engineUp \/ k = 4)
<1> DEFINE q == todo["bus"]
<1>1. q \in Seq(AllOps)
  BY DEF TypeInv
<1>2. PICK m \in 1..6 : AtStage(m)
  BY DEF EngineInv
<1>3. InOrder(q) /\ LeftFrom(q, m)
  BY <1>2 DEF EngineInv, AtStage
<1>4. m = k /\ LeftFrom(Tail(q), m + 1)
  BY <1>1, <1>3, LeftTail
<1>5. InOrder(Tail(q))
  BY <1>1, <1>3, OrderTail
<1>6. Conf \in listening /\ ~Within(<<"loadConf">>, q)
  BY <1>2, <1>4 DEF AtStage
<1>7. ~Within(<<"loadConf">>, Tail(q))
  BY <1>1, <1>6, WithinTail
<1>8. engineUp \/ k = 4
  BY <1>2, <1>4, <1>6 DEF AtStage, EngineInv
<1> QED BY <1>4, <1>5, <1>6, <1>7, <1>8

\* Where in the section the lock is what.
LEMMA SectionLock ==
  ASSUME TypeInv, EngineInv, todo["bus"] # <<>>, NEW k \in 1..5, Rank(Head(todo["bus"])) = k
  PROVE  lock = LockAt(k)
<1> DEFINE q == todo["bus"]
<1>1. q \in Seq(AllOps)
  BY DEF TypeInv
<1>2. PICK m \in 1..6 : AtStage(m)
  BY DEF EngineInv
<1>3. InOrder(q) /\ LeftFrom(q, m)
  BY <1>2 DEF EngineInv, AtStage
<1>4. m = k
  BY <1>1, <1>3, LeftTail
<1> QED BY <1>2, <1>4 DEF AtStage

\* Main does an operation.
LEMMA MainKeepsEngine ==
  ASSUME TypeInv, ProgramInv, EngineInv, Main
  PROVE  EngineInv'
<1> DEFINE q == todo["main"]
<1> USE DEF engineVars, stopVars
<1>1. /\ q # <<>> /\ Done("main") /\ UNCHANGED <<lock, panicked>>
      /\ q \in Seq(AllOps) /\ todo'["main"] = Tail(q) /\ todo'["bus"] = todo["bus"]
  BY MainStep, Popped
<1>2. Head(q) \in WorkOps /\ q \in Seq(WorkOps)
  BY <1>1 DEF ProgramInv
<1>3. /\ (engineUp' = engineUp /\ Head(q)[1] # "built") \/ engineUp' = TRUE
      /\ \/ listening' = listening
         \/ Head(q)[1] = "listen" /\ listening' = listening \cup {Head(q)[2]}
  BY DEF Main, SendOp, LoadOp, ListenOp, NewEngineOp, BuiltOp, HostOp, Op, Arg
<1>4. Head(q)[1] = "listen" => Head(q) = <<"listen", Head(q)[2]>>
  BY <1>2, WorkFacts
<1>5. MainOrder(Tail(q))
  <2> SUFFICES ASSUME NEW i \in DOMAIN Tail(q), NEW j \in DOMAIN Tail(q), i < j,
                      Tail(q)[i] = <<"listen", Conf>>
               PROVE  Tail(q)[j][1] \notin {"listen", "built"}
    BY DEF MainOrder
  <2>1. /\ i + 1 \in DOMAIN q /\ Tail(q)[i] = q[i + 1] /\ i \in Int
        /\ j + 1 \in DOMAIN q /\ Tail(q)[j] = q[j + 1] /\ j \in Int
    BY <1>1, TailAt
  <2>2. i + 1 < j + 1
    BY <2>1
  <2> QED BY <2>1, <2>2 DEF EngineInv, MainOrder
<1>6. ASSUME NEW j \in DOMAIN Tail(q), Tail(q)[j][1] \in {"listen", "built"}
      PROVE  Conf \notin listening'
  <2>1. /\ j + 1 \in DOMAIN q /\ Tail(q)[j] = q[j + 1] /\ j \in Int /\ 1 \in DOMAIN q
        /\ q[1] = Head(q)
    BY <1>1, TailAt
  <2>2. 1 < j + 1
    <3>1. Tail(q) \in Seq(AllOps)
      BY <1>1
    <3>2. j \in 1..Len(Tail(q)) /\ Len(Tail(q)) \in Nat
      BY <3>1
    <3> QED BY <3>2
  <2>3. Conf \notin listening
    BY <1>6, <2>1 DEF EngineInv
  <2>4. Head(q) # <<"listen", Conf>>
    BY <1>6, <2>1, <2>2 DEF EngineInv, MainOrder
  <2> QED BY <1>3, <1>4, <2>3, <2>4
<1>7. PICK k \in 1..6 : AtStage(k)
  BY DEF EngineInv
<1>8. engineUp' \/ k = 4 \/ \E i \in DOMAIN Tail(q) : Tail(q)[i][1] = "built"
  <2> SUFFICES ASSUME ~engineUp', k # 4 PROVE \E i \in DOMAIN Tail(q) : Tail(q)[i][1] = "built"
    OBVIOUS
  <2>1. ~engineUp /\ Head(q)[1] # "built"
    BY <1>3
  <2>2. PICK i \in DOMAIN q : q[i][1] = "built"
    BY <1>7, <2>1 DEF AtStage
  <2>3. i # 1
    BY <1>1, <2>1, <2>2, TailAt
  <2>4. i - 1 \in DOMAIN Tail(q) /\ Tail(q)[i - 1] = q[i]
    BY <1>1, <2>3, TailAt
  <2> QED BY <2>2, <2>4
<1>9. AtStage(k)'
  <2>1. Conf \notin listening' => Conf \notin listening
    BY <1>3
  <2> QED BY <1>1, <1>7, <1>8, <2>1 DEF AtStage
<1> QED BY <1>1, <1>5, <1>6, <1>9 DEF EngineInv

\* The bus does an operation or takes an event.
LEMMA BusKeepsEngine ==
  ASSUME TypeInv, ProgramInv, EngineInv, ~EngineFails, Bus
  PROVE  EngineInv'
<1> DEFINE q == todo["bus"]
           op == Head(q)
<1> USE DEF engineVars, stopVars
<1>0. Shape(q)
  BY DEF ProgramInv
<1>1. todo'["main"] = todo["main"]
  BY BusLeavesMain
<1>2. CASE Dispatch
  <2> DEFINE e == Head(busChan)
             r == Program(e)
  <2>1. q = <<>> /\ busChan # <<>> /\ busChan \in Seq(Topics \X Files)
        /\ todo' = [todo EXCEPT !["bus"] = r] /\ UNCHANGED <<listening, lock, engineUp, panicked>>
    BY <1>2 DEF Dispatch, TypeInv, Idle
  <2>2. 1 \in DOMAIN busChan /\ e = busChan[1] /\ e \in Topics \X Files
    BY <2>1, TailAt
  <2>3. e[1] # "close"
    BY <2>2 DEF ProgramInv
  <2>4. todo'["bus"] = r
    BY <2>1 DEF TypeInv
  <2>5. \A i \in DOMAIN r : Rank(r[i]) = 0
    BY <2>2, <2>3, ProgramFacts
  <2>6. InOrder(r) /\ LeftFrom(r, 6)
    BY <2>5 DEF InOrder, LeftFrom
  <2>7. Within(<<"loadConf">>, r) => Conf \in listening
    BY <2>2, ProgramFacts
  <2>8. PICK k \in 1..6 : AtStage(k)
    BY DEF EngineInv
  <2>9. k = 6
    <3>1. DOMAIN q = {}
      BY <2>1
    <3>2. ~(5 >= k)
      BY <2>8, <3>1 DEF AtStage, LeftFrom
    <3> QED BY <3>2
  <2> HIDE DEF r, q
  <2>10. AtStage(6)'
    BY <1>1, <2>1, <2>4, <2>6, <2>7, <2>8, <2>9 DEF AtStage
  <2> QED BY <1>1, <2>1, <2>4, <2>6, <2>10 DEF EngineInv
<1>3. CASE \/ SendOp("bus") \/ LoadOp("bus") \/ UnwatchOp \/ HashOp \/ WatchOp \/ ClearOp
           \/ NewEngineOp("bus")
  <2>1. /\ q # <<>> /\ Done("bus") /\ UNCHANGED <<listening, lock, engineUp, panicked>>
        /\ op[1] \in {"send", "load", "unwatch", "hash", "watch", "clear", "newEngine", "download"}
    BY <1>3 DEF SendOp, LoadOp, UnwatchOp, HashOp, WatchOp, ClearOp, NewEngineOp, Op, Fails
  <2>2. Rank(op) = 0
    BY <2>1 DEF Rank
  <2> QED BY <2>1, <2>2, OutsideSection
<1>4. CASE ListenOp("bus")
  <2>1. /\ q # <<>> /\ Done("bus") /\ UNCHANGED <<lock, engineUp, panicked>>
        /\ op[1] = "listen" /\ listening' = listening \cup {op[2]}
    BY <1>4 DEF ListenOp, Op, Arg
  <2>2. op[2] \in Files \ {Conf}
    BY <1>0, <2>1, HeadFacts
  <2>3. Rank(op) = 0
    BY <2>1 DEF Rank
  <2>4. Conf \in listening' <=> Conf \in listening
    BY <2>1, <2>2
  <2> QED BY <2>1, <2>3, <2>4, OutsideSection
<1>5. CASE EndWatchOp \/ CloseWatcherOp
  <2>1. q # <<>> /\ op[1] \in {"endWatch", "endWatchAck", "closeWatcher"}
    BY <1>5 DEF EndWatchOp, CloseWatcherOp, Op
  <2> QED BY <1>0, <2>1, HeadFacts, SMTT(20)
<1>6. CASE LoadConfOp
  <2>1. /\ q # <<>> /\ op[1] = "loadConf" /\ UNCHANGED <<listening, lock, engineUp, panicked>>
        /\ Done("bus") \/ todo' = [todo EXCEPT !["bus"] = SwapProgram \o Tail(q)]
    BY <1>6 DEF LoadConfOp, Op
  <2>2. CASE Done("bus")
    <3>1. Rank(op) = 0
      BY <2>1 DEF Rank
    <3> QED BY <2>1, <2>2, <3>1, OutsideSection
  <2>3. CASE todo' = [todo EXCEPT !["bus"] = SwapProgram \o Tail(q)]
    <3>1. q = << <<"loadConf">>, send("start", Conf) >>
      BY <1>0, <2>1, HeadFacts
    <3>2. Tail(q) = << send("start", Conf) >>
      BY <3>1, ShortPrograms
    <3>3. todo'["bus"] = SwapLeft
      BY <2>3, <3>2, Zenon DEF SwapLeft, TypeInv
    <3>4. Within(<<"loadConf">>, q)
      <4>1. 1 \in DOMAIN q /\ q[1] = <<"loadConf">>
        BY <3>1, TwoAt
      <4> QED BY <4>1 DEF Within
    <3>5. PICK k \in 1..6 : AtStage(k)
      BY DEF EngineInv
    <3>6. k = 6 /\ Conf \in listening /\ lock = "free"
      BY <3>4, <3>5 DEF AtStage, LockAt
    <3>7. ~Within(<<"loadConf">>, SwapLeft)
      BY SwapFacts, WorkNoConf
    <3>8. lock' = LockAt(1)
      BY <2>1, <3>6 DEF LockAt
    <3>9. engineUp \/ \E i \in DOMAIN todo["main"] : todo["main"][i][1] = "built"
      BY <3>5, <3>6 DEF AtStage
    <3> HIDE DEF q
    <3>10. AtStage(1)'
      BY <1>1, <2>1, <3>3, <3>6, <3>7, <3>8, <3>9, SwapFacts DEF AtStage
    <3> QED BY <1>1, <2>1, <3>3, <3>10, SwapFacts DEF EngineInv
  <2> QED BY <2>1, <2>2, <2>3
<1>7. ASSUME NEW k \in 1..5, q # <<>>, Done("bus"), Rank(op) = k, ~panicked',
             lock' = LockAt(k + 1), engineUp' \/ k + 1 = 4, Conf \in listening'
      PROVE  EngineInv'
  <2>1. todo'["bus"] = Tail(q)
    BY <1>7, Popped
  <2>2. InOrder(Tail(q)) /\ LeftFrom(Tail(q), k + 1) /\ ~Within(<<"loadConf">>, Tail(q))
        /\ Conf \in listening
    BY <1>7, InSection
  <2>3. k + 1 \in 1..6
    OBVIOUS
  <2>4. AtStage(k + 1)'
    BY <1>7, <2>1, <2>2 DEF AtStage
  <2>5. MainOrder(todo'["main"])
        /\ \A i \in DOMAIN todo'["main"] : todo'["main"][i][1] \notin {"listen", "built"}
    BY <1>1, <2>2 DEF EngineInv
  <2> QED BY <1>7, <2>1, <2>2, <2>3, <2>4, <2>5 DEF EngineInv
<1>8. ~panicked
  BY DEF EngineInv
<1>9. CASE LockOp \/ UnlockOp \/ BuiltOp("bus") \/ StopEngineOp
  <2>1. q # <<>> /\ Done("bus")
    BY <1>9 DEF LockOp, UnlockOp, BuiltOp, StopEngineOp, Op
  <2>2. CASE LockOp /\ op[1] = "lock"
    <3>1. Rank(op) = 1 /\ lock' = LockAt(2) /\ UNCHANGED <<listening, engineUp, panicked>>
      BY <2>2 DEF LockOp, Op, Rank, LockAt
    <3>2. engineUp /\ Conf \in listening
      BY <2>1, <3>1, InSection
    <3> QED BY <1>7, <1>8, <2>1, <3>1, <3>2
  <2>3. CASE LockOp /\ op[1] # "lock"
    <3>1. Rank(op) = 2 /\ lock' = LockAt(3) /\ UNCHANGED <<listening, engineUp, panicked>>
      BY <2>3 DEF LockOp, Op, Rank, LockAt
    <3>2. engineUp /\ Conf \in listening
      BY <2>1, <3>1, InSection
    <3> QED BY <1>7, <1>8, <2>1, <3>1, <3>2
  <2>4. CASE UnlockOp
    <3>1. Rank(op) = 5 /\ lock' = LockAt(6) /\ UNCHANGED <<listening, engineUp, panicked>>
      BY <2>4 DEF UnlockOp, Op, Rank, LockAt
    <3>2. engineUp /\ Conf \in listening
      BY <2>1, <3>1, InSection
    <3> QED BY <1>7, <1>8, <2>1, <3>1, <3>2
  <2>5. CASE BuiltOp("bus")
    <3>1. Rank(op) = 4 /\ engineUp' /\ UNCHANGED <<listening, lock, panicked>>
      BY <2>5 DEF BuiltOp, Op, Rank
    <3>2. Conf \in listening
      BY <2>1, <3>1, InSection
    <3>3. lock = LockAt(5)
      BY <2>1, <3>1, SectionLock DEF LockAt
    <3> QED BY <1>7, <1>8, <2>1, <3>1, <3>2, <3>3
  <2>6. CASE StopEngineOp
    <3>1. /\ Rank(op) = 3 /\ lock' = lock
          /\ listening' = listening \cap {Conf} /\ panicked' = ~engineUp
      BY <2>6 DEF StopEngineOp, ShutdownEngine, Op, Rank
    <3>2. Conf \in listening /\ engineUp
      BY <2>1, <3>1, InSection
    <3>3. lock = LockAt(4)
      BY <2>1, <3>1, SectionLock DEF LockAt
    <3>4. ~panicked' /\ Conf \in listening'
      BY <3>1, <3>2, Zenon
    <3> QED BY <1>7, <2>1, <3>1, <3>3, <3>4
  <2> QED BY <1>9, <2>2, <2>3, <2>4, <2>5, <2>6
<1> QED BY <1>2, <1>3, <1>4, <1>5, <1>6, <1>9 DEF Bus

\* Every step of a running process keeps the engine and the lock at the stage of
\* swap that the bus has reached.
LEMMA EngineStep ==
  ASSUME TypeInv, ProgramInv, EngineInv, ~EngineFails, Going
  PROVE  EngineInv'
<1> USE DEF engineVars, stopVars
<1>1. ASSUME UNCHANGED <<todo, listening, lock, engineUp, panicked>> PROVE EngineInv'
  <2>1. PICK k \in 1..6 : AtStage(k)
    BY DEF EngineInv
  <2>2. AtStage(k)'
    BY <1>1, <2>1 DEF AtStage
  <2> QED BY <1>1, <2>2 DEF EngineInv
<1>2. ASSUME NEW f, Edit(f) \/ LoopEvent(f) PROVE EngineInv'
  BY <1>1, <1>2 DEF Edit, LoopEvent
<1>3. ASSUME NEW c, Accept(c) \/ Handle(c) PROVE EngineInv'
  BY <1>1, <1>3 DEF Accept, Handle
<1>4. CASE LoopSend
  BY <1>1, <1>4, SMTT(20) DEF LoopSend
<1> QED BY <1>2, <1>3, <1>4, MainKeepsEngine, BusKeepsEngine DEF Going, Loop

-----------------------------------------------------------------------------
(* The watches.                                                             *)

\* A watch that will be asked for is so after an operation that does not ask for it.
LEMMA StillAsked ==
  ASSUME TypeInv, NEW f, Asked(f), NEW p \in {"main", "bus"}, todo[p] # <<>>, Done(p),
         Head(todo[p]) # send("start", f), Head(todo[p]) # <<"loadConf">>
  PROVE  Asked(f)'
<1>1. /\ todo[p] \in Seq(AllOps) /\ todo'[p] = Tail(todo[p])
      /\ \A o \in {"main", "bus"} : o # p => todo'[o] = todo[o]
  BY Popped
<1>2. ASSUME NEW e, Within(e, todo[p]), e # Head(todo[p]) PROVE Within(e, todo'[p])
  BY <1>1, <1>2, WithinTail
<1>3. CASE Within(send("start", f), todo["main"])
  BY <1>1, <1>2, <1>3 DEF Asked
<1>4. CASE Within(send("start", f), todo["bus"])
  BY <1>1, <1>2, <1>4 DEF Asked
<1>5. CASE Within(<<"loadConf">>, todo["bus"])
  BY <1>1, <1>2, <1>5 DEF Asked
<1> QED BY <1>3, <1>4, <1>5 DEF Asked

\* An event that does not clear the watches leaves what is on the bus, and one
\* that asks for a watch is on the bus.
LEMMA StillQueued ==
  ASSUME TypeInv, busUp, NEW e \in Topics \X Files, e[1] # "clear", busChan' = Sent(e)
  PROVE  /\ \A f : Queued(f) => Queued(f)'
         /\ \A f : e = <<"start", f>> => Queued(f)'
         /\ (\A i \in DOMAIN busChan : busChan[i][1] # "clear") =>
              \A i \in DOMAIN busChan' : busChan'[i][1] # "clear"
<1> DEFINE s == busChan
           t == Append(s, e)
           n == Len(s) + 1
<1>1. busChan' = t /\ s \in Seq(Topics \X Files)
  BY DEF Sent, TypeInv
<1>2. /\ Len(s) \in Nat /\ n \in DOMAIN t /\ t[n] = e
      /\ \A i \in DOMAIN s : i \in DOMAIN t /\ t[i] = s[i] /\ i \in Int /\ i < n
      /\ \A i \in DOMAIN t : (i \in DOMAIN s /\ t[i] = s[i]) \/ i = n
  BY <1>1, Appended
<1>3. n \in Int /\ ~(n > n)
  BY <1>2
<1>4. \A i \in DOMAIN s : ~(i > n)
  BY <1>2, <1>3
<1> HIDE DEF t, n
<1>5. ASSUME NEW f, Queued(f) PROVE Queued(f)'
  <2>1. PICK j \in DOMAIN s : /\ s[j] = <<"start", f>>
                              /\ \A i \in DOMAIN s : i > j => s[i][1] # "clear"
    BY <1>5 DEF Queued
  <2>2. j \in DOMAIN t /\ t[j] = <<"start", f>>
    BY <1>2, <2>1
  <2>3. \A i \in DOMAIN t : i > j => t[i][1] # "clear"
    BY <1>2, <2>1
  <2> QED BY <1>1, <2>2, <2>3 DEF Queued
<1>6. ASSUME NEW f, e = <<"start", f>> PROVE Queued(f)'
  <2>1. \A i \in DOMAIN t : i > n => t[i][1] # "clear"
    BY <1>2, <1>3, <1>4
  <2> QED BY <1>1, <1>2, <1>6, <2>1 DEF Queued
<1>7. ASSUME \A i \in DOMAIN busChan : busChan[i][1] # "clear"
      PROVE  \A i \in DOMAIN busChan' : busChan'[i][1] # "clear"
  BY <1>1, <1>2, <1>7
<1> QED BY <1>5, <1>6, <1>7

\* What the bus is doing while it renews a watch.
LEMMA RenewingHead ==
  ASSUME NEW f \in Files, Renewing(f)
  PROVE  todo["bus"] # <<>> /\ Head(todo["bus"])[1] \in {"unwatch", "hash", "watch"}
         /\ Head(todo["bus"])[2] = f
<1>1. Head(todo["bus"]) \in {<<"unwatch", f>>, <<"hash", f>>, <<"watch", f>>}
  BY ShortPrograms, Zenon DEF Renewing
<1>2. todo["bus"] # <<>>
  <2>1. CASE todo["bus"] = StartProgram(f)
    BY <2>1, ShortPrograms, Zenon
  <2>2. CASE todo["bus"] = << <<"hash", f>>, <<"watch", f>> >>
    <3>1. 1 \in DOMAIN todo["bus"]
      BY <2>2, TwoAt
    <3> QED BY <3>1
  <2>3. CASE todo["bus"] = << <<"watch", f>> >>
    <3>1. 1 \in DOMAIN todo["bus"]
      BY <2>3, OneAt
    <3> QED BY <3>1
  <2> QED BY <2>1, <2>2, <2>3 DEF Renewing
<1> QED BY <1>1, <1>2

\* The bus does an operation on a list, a source or the engine, or main any but a send.
LEMMA OtherWork ==
  ASSUME TypeInv, ProgramInv, WatchInv, NEW p \in {"main", "bus"}, todo[p] # <<>>, Done(p),
         Head(todo[p])[1] \notin {"send", "unwatch", "hash", "watch", "clear", "loadConf"},
         UNCHANGED <<version, hash, watched, pending, busChan>>
  PROVE  WatchInv'
<1> SUFFICES ASSUME NEW f \in Files
             PROVE  Asked(f)' \/ Queued(f)' \/ (NoClear' /\ (Renewing(f)' \/ InPlace(f)'))
  BY DEF WatchInv
<1>0. Asked(f) \/ Queued(f) \/ (NoClear /\ (Renewing(f) \/ InPlace(f)))
  BY DEF WatchInv
<1>1. /\ todo'[p] = Tail(todo[p])
      /\ \A o \in {"main", "bus"} : o # p => todo'[o] = todo[o]
  BY Popped
<1>2. CASE Asked(f)
  <2>1. send("start", f)[1] = "send" /\ <<"loadConf">>[1] = "loadConf"
    BY DEF send
  <2>2. Head(todo[p]) # send("start", f) /\ Head(todo[p]) # <<"loadConf">>
    BY <2>1
  <2> QED BY <1>2, <2>2, StillAsked
<1>3. CASE Queued(f)
  BY <1>3 DEF Queued
<1>4. CASE NoClear /\ (Renewing(f) \/ InPlace(f))
  <2>1. NoClear'
    <3>1. todo'["bus"] # << <<"clear">> >>
      BY <1>1, <1>4, ShapeTail, Zenon DEF NoClear, ProgramInv
    <3> QED BY <1>4, <3>1 DEF NoClear
  <2>2. InPlace(f) => InPlace(f)'
    BY DEF InPlace
  <2>3. Renewing(f) => p = "main"
    BY RenewingHead
  <2>4. Renewing(f) => Renewing(f)'
    BY <1>1, <2>3 DEF Renewing
  <2> QED BY <1>4, <2>1, <2>2, <2>4
<1> QED BY <1>0, <1>2, <1>3, <1>4, SMTT(20)

\* Main or the bus sends an event.
LEMMA SendKeepsWatches ==
  ASSUME TypeInv, ProgramInv, WatchInv, NEW p \in {"main", "bus"}, SendOp(p)
  PROVE  WatchInv'
<1> DEFINE op == Head(todo[p])
           e == <<op[2], op[3]>>
<1> USE DEF fileVars, watchVars
<1>1. /\ todo[p] # <<>> /\ op[1] = "send" /\ Done(p) /\ busChan' = Sent(e)
      /\ UNCHANGED <<version, hash, watched, pending>>
  BY DEF SendOp, Op
<1>2. /\ todo'[p] = Tail(todo[p]) /\ op \in AllOps
      /\ \A o \in {"main", "bus"} : o # p => todo'[o] = todo[o]
  BY <1>1, Popped
<1>3. CASE p = "bus" /\ todo["bus"] = ConfProgram
  <2>1. todo'["bus"] = << <<"loadConf">>, send("start", Conf) >>
    BY <1>2, <1>3, ShortPrograms, Zenon
  <2>2. 1 \in DOMAIN todo'["bus"] /\ todo'["bus"][1] = <<"loadConf">>
    BY <2>1, TwoAt
  <2>3. Within(<<"loadConf">>, todo'["bus"])
    BY <2>2, SMTT(20) DEF Within
  <2> QED BY <2>3 DEF WatchInv, Asked
<1>4. CASE ~(p = "bus" /\ todo["bus"] = ConfProgram)
  <2>1. op[2] \in {"start", "changed", "source"} /\ op[3] \in Files /\ op = send(op[2], op[3])
    <3>1. CASE p = "main"
      <4>1. op \in WorkOps
        BY <1>1, <3>1, SMTT(20) DEF ProgramInv
      <4> QED BY <1>1, <4>1, WorkFacts
    <3>2. CASE p = "bus"
      <4>1. Shape(todo["bus"])
        BY DEF ProgramInv
      <4> QED BY <1>1, <1>4, <3>2, <4>1, HeadFacts
    <3> QED BY <3>1, <3>2
  <2>2. e \in Topics \X Files /\ e[1] # "clear"
    BY <2>1 DEF Topics
  <2>3. busUp
    BY Zenon DEF ProgramInv
  <2>4. /\ \A f : Queued(f) => Queued(f)'
        /\ \A f : e = <<"start", f>> => Queued(f)'
        /\ (\A i \in DOMAIN busChan : busChan[i][1] # "clear") =>
             \A i \in DOMAIN busChan' : busChan'[i][1] # "clear"
    BY <1>1, <2>2, <2>3, StillQueued
  <2> SUFFICES ASSUME NEW f \in Files
               PROVE  Asked(f)' \/ Queued(f)' \/ (NoClear' /\ (Renewing(f)' \/ InPlace(f)'))
    BY DEF WatchInv
  <2>5. Asked(f) \/ Queued(f) \/ (NoClear /\ (Renewing(f) \/ InPlace(f)))
    BY DEF WatchInv
  <2>6. CASE Asked(f)
    <3>1. CASE op = send("start", f)
      <4>1. e = <<"start", f>>
        BY <3>1, SMTT(20) DEF send
      <4> QED BY <2>4, <4>1
    <3>2. CASE op # send("start", f)
      <4>1. op # <<"loadConf">>
        <5>1. <<"loadConf">>[1] = "loadConf"
          OBVIOUS
        <5> QED BY <1>1, <5>1
      <4> QED BY <1>1, <2>6, <3>2, <4>1, StillAsked
    <3> QED BY <3>1, <3>2
  <2>7. CASE NoClear /\ (Renewing(f) \/ InPlace(f))
    <3>1. todo'["bus"] # << <<"clear">> >>
      BY <1>1, <1>2, <2>7, ShapeTail, Zenon DEF NoClear, ProgramInv
    <3>2. NoClear'
      BY <2>4, <2>7, <3>1 DEF NoClear
    <3>3. InPlace(f) => InPlace(f)'
      BY <1>1 DEF InPlace
    <3>4. Renewing(f) => p = "main"
      BY <1>1, RenewingHead, SMTT(20)
    <3>5. Renewing(f) => Renewing(f)'
      BY <1>1, <1>2, <3>4 DEF Renewing
    <3> QED BY <2>7, <3>2, <3>3, <3>5
  <2> QED BY <2>4, <2>5, <2>6, <2>7, SMTT(20)
<1> QED BY <1>3, <1>4

\* The bus takes an event.
LEMMA DispatchKeepsWatches ==
  ASSUME TypeInv, ProgramInv, WatchInv, Dispatch
  PROVE  WatchInv'
<1> DEFINE e == Head(busChan)
<1> USE DEF fileVars, watchVars
<1>1. /\ todo["bus"] = <<>> /\ busChan # <<>> /\ busChan \in Seq(Topics \X Files)
      /\ busChan' = Tail(busChan) /\ todo' = [todo EXCEPT !["bus"] = Program(e)]
      /\ UNCHANGED <<version, hash, watched, pending>>
  BY DEF Dispatch, TypeInv, Idle
<1>2. todo'["bus"] = Program(e) /\ todo'["main"] = todo["main"]
  BY <1>1 DEF TypeInv
<1>3. /\ 1 \in DOMAIN busChan /\ e = busChan[1] /\ e \in Topics \X Files
      /\ \A i \in DOMAIN busChan' :
           i \in Int /\ i + 1 \in DOMAIN busChan /\ busChan'[i] = busChan[i + 1]
      /\ \A i \in DOMAIN busChan : i # 1 =>
           i - 1 \in DOMAIN busChan' /\ busChan'[i - 1] = busChan[i] /\ i \in Int /\ i > 1
  <2>1. Tail(busChan) \in Seq(Topics \X Files) /\ e \in Topics \X Files
    BY <1>1
  <2> QED BY <1>1, <2>1, TailAt
<1>4. /\ e[1] # "clear" => Program(e) # << <<"clear">> >>
      /\ e[1] = "start" => Program(e) = StartProgram(e[2])
  BY <1>3, ProgramFacts
<1> HIDE DEF e
<1> SUFFICES ASSUME NEW f \in Files
             PROVE  Asked(f)' \/ Queued(f)' \/ (NoClear' /\ (Renewing(f)' \/ InPlace(f)'))
  BY DEF WatchInv
<1>5. Asked(f) \/ Queued(f) \/ (NoClear /\ (Renewing(f) \/ InPlace(f)))
  BY DEF WatchInv
<1>6. CASE Asked(f)
  <2>1. \A x : ~Within(x, todo["bus"])
    BY <1>1 DEF Within
  <2> QED BY <1>2, <1>6, <2>1 DEF Asked
<1>7. CASE Queued(f)
  <2>1. PICK j \in DOMAIN busChan :
          /\ busChan[j] = <<"start", f>>
          /\ \A i \in DOMAIN busChan : i > j => busChan[i][1] # "clear"
    BY <1>7 DEF Queued
  <2>2. CASE j = 1
    <3>1. e = <<"start", f>>
      BY <1>3, <2>1, <2>2
    <3>2. Renewing(f)'
      BY <1>2, <1>4, <3>1 DEF Renewing
    <3>3. \A i \in DOMAIN busChan' : busChan'[i][1] # "clear"
      <4> SUFFICES ASSUME NEW i \in DOMAIN busChan' PROVE busChan'[i][1] # "clear"
        OBVIOUS
      <4>1. i + 1 \in DOMAIN busChan /\ busChan'[i] = busChan[i + 1] /\ i \in Int
        BY <1>3
      <4>2. i + 1 > 1
        <5>1. busChan' \in Seq(Topics \X Files)
          BY <1>1
        <5>2. i \in 1..Len(busChan') /\ Len(busChan') \in Nat
          BY <5>1
        <5> QED BY <5>2
      <4> QED BY <2>1, <2>2, <4>1, <4>2
    <3>4. NoClear'
      BY <1>2, <1>4, <3>1, <3>3 DEF NoClear
    <3> QED BY <3>2, <3>4
  <2>3. CASE j # 1
    <3>1. j - 1 \in DOMAIN busChan' /\ busChan'[j - 1] = <<"start", f>> /\ j \in Int
      BY <1>3, <2>1, <2>3
    <3>2. ASSUME NEW i \in DOMAIN busChan', i > j - 1 PROVE busChan'[i][1] # "clear"
      <4>1. i + 1 \in DOMAIN busChan /\ busChan'[i] = busChan[i + 1] /\ i \in Int
        BY <1>3
      <4>2. i + 1 > j
        BY <3>1, <3>2, <4>1
      <4> QED BY <2>1, <4>1, <4>2
    <3> QED BY <3>1, <3>2 DEF Queued
  <2> QED BY <2>2, <2>3
<1>8. CASE NoClear /\ (Renewing(f) \/ InPlace(f))
  <2>1. InPlace(f)
    BY <1>1, <1>8, RenewingHead
  <2>2. InPlace(f)'
    BY <1>1, <2>1, SMTT(20) DEF InPlace
  <2>3. e[1] # "clear"
    BY <1>3, <1>8 DEF NoClear
  <2>4. \A i \in DOMAIN busChan' : busChan'[i][1] # "clear"
    BY <1>3, <1>8 DEF NoClear
  <2>5. NoClear'
    BY <1>2, <1>4, <2>3, <2>4 DEF NoClear
  <2> QED BY <2>2, <2>5
<1> QED BY <1>5, <1>6, <1>7, <1>8

\* The listeners of the file watcher do an operation.
LEMMA WatcherKeepsWatches ==
  ASSUME TypeInv, ProgramInv, WatchInv, UnwatchOp \/ HashOp \/ WatchOp \/ ClearOp
  PROVE  WatchInv'
<1> DEFINE q == todo["bus"]
           op == Head(q)
           a == op[2]
<1> USE DEF fileVars
<1>0. /\ q # <<>> /\ Done("bus") /\ UNCHANGED <<version, busChan>>
      /\ op[1] \in {"unwatch", "hash", "watch", "clear"}
  BY Zenon DEF UnwatchOp, HashOp, WatchOp, ClearOp, Op
<1>1. /\ todo'["bus"] = Tail(q) /\ todo'["main"] = todo["main"] /\ Shape(q)
  BY <1>0, Popped, SMTT(20) DEF ProgramInv
<1>2. /\ op[1] = "unwatch" => a \in Files /\ q = StartProgram(a)
      /\ op[1] = "hash" => a \in Files /\ q = << <<"hash", a>>, <<"watch", a>> >>
      /\ op[1] = "watch" => a \in Files /\ q = << <<"watch", a>> >>
      /\ op[1] = "clear" => q = << <<"clear">> >>
  BY <1>0, <1>1, HeadFacts
<1>3. Tail(q) # << <<"clear">> >>
  BY <1>0, <1>1, ShapeTail
<1> SUFFICES ASSUME NEW f \in Files
             PROVE  Asked(f)' \/ Queued(f)' \/ (NoClear' /\ (Renewing(f)' \/ InPlace(f)'))
  BY DEF WatchInv
<1>4. Asked(f) \/ Queued(f) \/ (NoClear /\ (Renewing(f) \/ InPlace(f)))
  BY Zenon DEF WatchInv
<1>5. CASE Asked(f)
  <2>1. send("start", f)[1] = "send" /\ <<"loadConf">>[1] = "loadConf"
    BY DEF send
  <2>2. op # send("start", f) /\ op # <<"loadConf">>
    BY <1>0, <2>1, SMTT(20)
  <2> QED BY <1>0, <1>5, <2>2, StillAsked
<1>6. CASE Queued(f)
  BY <1>0, <1>6 DEF Queued
<1>7. CASE NoClear /\ (Renewing(f) \/ InPlace(f))
  <2>1. op[1] # "clear"
    BY <1>2, <1>7 DEF NoClear
  <2>2. NoClear'
    BY <1>0, <1>1, <1>3, <1>7 DEF NoClear
  <2>3. a \in Files /\ (Renewing(f) => f = a)
    BY <1>0, <1>2, <2>1, RenewingHead
  <2>4. hash \in [Files -> Int] /\ version \in [Files -> Int]
    BY DEF TypeInv
  <2>5. CASE UnwatchOp
    <3>1. op[1] = "unwatch" /\ hash' = [hash EXCEPT ![a] = NoHash]
          /\ watched' = watched \ {a} /\ pending' \in {pending, pending \ {a}}
      BY <2>5 DEF UnwatchOp, Unwatch, Op, Arg
    <3>2. todo'["bus"] = << <<"hash", a>>, <<"watch", a>> >>
      BY <1>1, <1>2, <3>1, ShortPrograms, Zenon
    <3>3. CASE f = a
      <4>1. Renewing(f)'
        BY <3>2, <3>3 DEF Renewing
      <4> QED BY <2>2, <4>1
    <3>4. CASE f # a
      <4>1. InPlace(f)
        BY <1>7, <2>3, <3>4
      <4>2. f \in watched' /\ hash'[f] = hash[f] /\ (f \in pending => f \in pending')
        BY <2>4, <3>1, <3>4, <4>1 DEF InPlace
      <4>3. InPlace(f)'
        BY <1>0, <4>1, <4>2, SMTT(20) DEF InPlace
      <4> QED BY <2>2, <4>3
    <3> QED BY <3>3, <3>4, SMTT(20)
  <2>6. CASE HashOp
    <3>1. /\ op[1] = "hash" /\ hash' = [hash EXCEPT ![a] = version[a]]
          /\ UNCHANGED <<watched, pending>>
      BY <2>6 DEF HashOp, Op, Arg
    <3>2. todo'["bus"] = << <<"watch", a>> >>
      BY <1>1, <1>2, <3>1, ShortPrograms, Zenon
    <3>3. CASE f = a
      <4>1. hash'[f] = version'[f]
        BY <1>0, <2>3, <2>4, <3>1, <3>3
      <4>2. Renewing(f)'
        BY <3>2, <3>3, <4>1 DEF Renewing
      <4> QED BY <2>2, <4>2
    <3>4. CASE f # a
      <4>1. InPlace(f)
        BY <1>7, <2>3, <3>4
      <4>2. hash'[f] = hash[f]
        BY <2>4, <3>1, <3>4
      <4>3. InPlace(f)'
        BY <1>0, <3>1, <4>1, <4>2 DEF InPlace
      <4> QED BY <2>2, <4>3
    <3> QED BY <3>3, <3>4
  <2>7. CASE WatchOp
    <3>1. op[1] = "watch" /\ watched' = watched \cup {a} /\ UNCHANGED <<hash, pending>>
      BY <2>7 DEF WatchOp, Op, Arg
    <3>2. CASE InPlace(f)
      <4>1. InPlace(f)'
        BY <1>0, <3>1, <3>2 DEF InPlace
      <4> QED BY <2>2, <4>1
    <3>3. CASE Renewing(f)
      <4>1. f = a /\ q = << <<"watch", f>> >>
        BY <1>2, <2>3, <3>1, <3>3
      <4>2. Head(StartProgram(f))[1] = "unwatch"
            /\ Head(<< <<"hash", f>>, <<"watch", f>> >>)[1] = "hash"
        <5>1. Head(StartProgram(f)) = <<"unwatch", f>>
              /\ Head(<< <<"hash", f>>, <<"watch", f>> >>) = <<"hash", f>>
          BY ShortPrograms, Zenon
        <5> HIDE <5>1
        <5>2. <<"unwatch", f>>[1] = "unwatch" /\ <<"hash", f>>[1] = "hash"
          OBVIOUS
        <5> QED BY <5>1, <5>2, Zenon
      <4>3. hash[f] = version[f]
        BY <3>1, <3>3, <4>2 DEF Renewing
      <4>4. InPlace(f)'
        BY <1>0, <3>1, <4>1, <4>3, SMTT(20) DEF InPlace
      <4> QED BY <2>2, <4>4
    <3> QED BY <1>7, <3>2, <3>3
  <2>8. CASE ClearOp
    BY <2>1, <2>8 DEF ClearOp, Op
  <2> QED BY <2>5, <2>6, <2>7, <2>8
<1> QED BY <1>4, <1>5, <1>6, <1>7

\* The files, the file loop and the requests.
LEMMA LoopKeepsWatches ==
  ASSUME TypeInv, ProgramInv, WatchInv, Quiet,
         \/ Loop \/ (\E f \in Editable : Edit(f)) \/ \E c \in Clients : Accept(c) \/ Handle(c)
  PROVE  WatchInv'
<1> USE DEF fileVars, watchVars
<1>0. hash \in [Files -> Int] /\ version \in [Files -> Int]
  BY Zenon DEF TypeInv
<1>1. ASSUME NEW c \in Clients, Accept(c) \/ Handle(c) PROVE WatchInv'
  <2>1. UNCHANGED <<version, hash, watched, pending, busChan, todo>>
    BY <1>1 DEF Accept, Handle
  <2> QED BY <2>1 DEF WatchInv, Asked, Queued, NoClear, Renewing, InPlace
<1>2. CASE LoopSend
  <2>1. UNCHANGED <<version, hash, watched, pending, todo>> /\ busChan' = Sent(<<"file", lfile>>)
    BY <1>2 DEF LoopSend
  <2>2. <<"file", lfile>> \in Topics \X Files /\ <<"file", lfile>>[1] # "clear" /\ busUp
    BY ZenonT(30) DEF TypeInv, Topics, ProgramInv
  <2>3. /\ \A f : Queued(f) => Queued(f)'
        /\ (\A i \in DOMAIN busChan : busChan[i][1] # "clear") =>
             \A i \in DOMAIN busChan' : busChan'[i][1] # "clear"
    BY <2>1, <2>2, StillQueued, Zenon
  <2>4. NoClear => NoClear'
    <3>1. todo' = todo
      BY <2>1, SMTT(20)
    <3> QED BY <2>3, <3>1, Zenon DEF NoClear
  <2>5. \A f : /\ Asked(f) => Asked(f)'
               /\ Renewing(f) => Renewing(f)'
               /\ InPlace(f) => InPlace(f)'
    BY <2>1, Zenon DEF Asked, Renewing, InPlace
  <2> QED BY <2>3, <2>4, <2>5, Zenon DEF WatchInv
<1>3. ASSUME NEW g \in Files, LoopEvent(g) PROVE WatchInv'
  <2>1. UNCHANGED <<version, watched, busChan, todo>> /\ pending' = pending \ {g}
    BY <1>3, Zenon DEF LoopEvent
  <2>2. hash'[g] = version[g] /\ \A f \in Files \ {g} : hash'[f] = hash[f]
    BY <1>0, <1>3 DEF LoopEvent
  <2>3. ASSUME NEW f \in Files
        PROVE  (Renewing(f) => Renewing(f)') /\ (InPlace(f) => InPlace(f)')
    BY <2>1, <2>2, Zenon DEF Renewing, InPlace
  <2>4. \A f : (Asked(f) => Asked(f)') /\ (Queued(f) => Queued(f)')
    BY <2>1, Zenon DEF Asked, Queued
  <2>5. NoClear => NoClear'
    BY <2>1 DEF NoClear
  <2> QED BY <2>3, <2>4, <2>5, SMTT(20) DEF WatchInv
<1>4. ASSUME NEW g \in Editable, Edit(g) PROVE WatchInv'
  <2>1. /\ UNCHANGED <<watched, hash, busChan, todo>> /\ AllQuiet /\ g \in Files
        /\ version' = [version EXCEPT ![g] = version[g] + 1]
        /\ pending' = IF g \in watched THEN pending \cup {g} ELSE pending
    BY <1>4, HotReloadAssumption DEF Edit
  <2>2. todo["main"] = <<>> /\ todo["bus"] = <<>> /\ busChan = <<>>
    BY <2>1, ZenonT(30) DEF AllQuiet, Idle
  <2>3. ASSUME NEW f \in Files PROVE NoClear /\ InPlace(f)
    <3>1. ~Asked(f)
      BY <2>2 DEF Asked, Within
    <3>2. ~Queued(f)
      BY <2>2 DEF Queued
    <3> QED BY <2>2, <3>1, <3>2, RenewingHead DEF WatchInv
  <2>4. ASSUME NEW f \in Files PROVE InPlace(f)'
    <3>1. f \in watched /\ (hash[f] = version[f] \/ f \in pending)
      BY <2>3 DEF InPlace
    <3>2. CASE f = g
      BY <2>1, <3>1, <3>2 DEF InPlace
    <3>3. CASE f # g
      <4>1. version'[f] = version[f]
        BY <1>0, <2>1, <3>3
      <4>2. f \in pending => f \in pending'
        BY <2>1
      <4> QED BY <2>1, <3>1, <4>1, <4>2 DEF InPlace
    <3> QED BY <3>2, <3>3
  <2>5. ASSUME NEW f \in Files PROVE NoClear'
    BY <2>1, <2>3 DEF NoClear
  <2> QED BY <2>4, <2>5 DEF WatchInv
<1> QED BY <1>1, <1>2, <1>3, <1>4 DEF Loop

\* Every step of a running process keeps the watch of each file in place, or asked
\* for, as long as edits are orderly.
LEMMA WatchStep ==
  ASSUME TypeInv, ProgramInv, WatchInv, Orderly, Going
  PROVE  WatchInv'
<1> USE DEF fileVars, watchVars
<1>1. Quiet /\ ~ConfErrors /\ ~EngineFails
  BY DEF Orderly
<1>2. CASE Main
  <2>1. CASE SendOp("main")
    BY <2>1, SendKeepsWatches
  <2>2. CASE LoadOp("main") \/ ListenOp("main") \/ NewEngineOp("main") \/ BuiltOp("main") \/ HostOp
    <3>1. /\ todo["main"] # <<>> /\ Done("main")
          /\ UNCHANGED <<version, hash, watched, pending, busChan>>
          /\ Head(todo["main"])[1] \in {"load", "listen", "newEngine", "download", "built", "host"}
      BY <2>2 DEF LoadOp, ListenOp, NewEngineOp, BuiltOp, HostOp, Op, Fails
    <3> QED BY <3>1, OtherWork, SMTT(20)
  <2> QED BY <1>2, <2>1, <2>2 DEF Main
<1>3. CASE Bus
  <2>1. CASE SendOp("bus")
    BY <2>1, SendKeepsWatches
  <2>2. CASE \/ LoadOp("bus") \/ ListenOp("bus") \/ NewEngineOp("bus") \/ BuiltOp("bus")
             \/ LockOp \/ UnlockOp \/ StopEngineOp
    <3>1. /\ todo["bus"] # <<>> /\ Done("bus")
          /\ UNCHANGED <<version, hash, watched, pending, busChan>>
          /\ Head(todo["bus"])[1] \in {"load", "listen", "newEngine", "download", "built", "lock",
                                       "locked", "unlock", "stopEngine"}
      BY <1>1, <2>2, SMTT(20) DEF LoadOp, ListenOp, NewEngineOp, BuiltOp, LockOp, UnlockOp, StopEngineOp,
                        Op, Fails
    <3> QED BY <3>1, OtherWork, SMTT(20)
  <2>3. CASE EndWatchOp \/ CloseWatcherOp
    <3>1. todo["bus"] # <<>> /\ Head(todo["bus"])[1] \in {"endWatch", "endWatchAck", "closeWatcher"}
      BY <2>3, Zenon DEF EndWatchOp, CloseWatcherOp, Op
    <3> QED BY <3>1, HeadFacts DEF ProgramInv
  <2>4. CASE LoadConfOp
    <3> DEFINE q == todo["bus"]
    <3>1. /\ q # <<>> /\ Head(q)[1] = "loadConf" /\ Shape(q)
          /\ todo' = [todo EXCEPT !["bus"] = SwapProgram \o Tail(q)]
      BY <1>1, <2>4, Zenon DEF LoadConfOp, Op, ProgramInv
    <3>2. q = << <<"loadConf">>, send("start", Conf) >>
      BY <3>1, HeadFacts
    <3>3. Tail(q) = << send("start", Conf) >>
      BY <3>2, ShortPrograms
    <3>4. todo'["bus"] = SwapLeft
      BY <3>1, <3>3, Zenon DEF SwapLeft, TypeInv
    <3> QED BY <3>4, SwapFacts, Zenon DEF WatchInv, Asked
  <2> QED BY <1>3, <2>1, <2>2, <2>3, <2>4, DispatchKeepsWatches, WatcherKeepsWatches DEF Bus
<1> QED BY <1>1, <1>2, <1>3, LoopKeepsWatches DEF Going

-----------------------------------------------------------------------------
(* The listeners.                                                           *)

\* The bus does an operation.
LEMMA PopKeepsListeners ==
  ASSUME TypeInv, ListenInv, todo["bus"] # <<>>, Done("bus"),
         \A f \in listening : f \in listening' \/ (f # Conf /\ Head(todo["bus"]) = <<"stopEngine">>),
         \A f \in Files : Head(todo["bus"]) = <<"listen", f>> => f \in listening'
  PROVE  ListenInv'
<1> DEFINE q == todo["bus"]
           stop == <<"stopEngine">>
<1>1. q \in Seq(AllOps) /\ todo'["bus"] = Tail(q) /\ todo'["main"] = todo["main"]
  BY Popped
<1>2. /\ 1 \in DOMAIN q /\ Head(q) = q[1]
      /\ \A i \in DOMAIN Tail(q) : i \in Int /\ i + 1 \in DOMAIN q /\ Tail(q)[i] = q[i + 1]
      /\ \A i \in DOMAIN q :
           i # 1 => i - 1 \in DOMAIN Tail(q) /\ Tail(q)[i - 1] = q[i] /\ i \in Int /\ i > 1
  BY <1>1, TailAt
<1>3. ASSUME NEW i \in DOMAIN Tail(q) PROVE i + 1 > 1
  <2>1. Tail(q) \in Seq(AllOps)
    BY <1>1
  <2>2. i \in 1..Len(Tail(q)) /\ Len(Tail(q)) \in Nat
    BY <2>1
  <2> QED BY <2>2
<1>4. \A e : Within(e, Tail(q)) => Within(e, q)
  BY <1>1, WithinTail
<1> SUFFICES ASSUME NEW f \in Files
             PROVE  \/ f \in listening' /\ (f = Conf \/ ~Within(stop, Tail(q)))
                    \/ \E j \in DOMAIN Tail(q) :
                         /\ Tail(q)[j] = <<"listen", f>>
                         /\ \A i \in DOMAIN Tail(q) : i > j => Tail(q)[i] # stop
                    \/ Within(<<"listen", f>>, todo["main"])
  BY <1>1, Zenon DEF ListenInv
<1>5. CASE f \in listening /\ (f = Conf \/ ~Within(stop, q))
  <2>1. f \in listening'
    <3>1. Within(Head(q), q)
      BY <1>2 DEF Within
    <3> QED BY <1>5, <3>1
  <2> QED BY <1>4, <1>5, <2>1
<1>6. ASSUME NEW j \in DOMAIN q, q[j] = <<"listen", f>>,
             \A i \in DOMAIN q : i > j => q[i] # stop
      PROVE  \/ f \in listening' /\ ~Within(stop, Tail(q))
             \/ \E k \in DOMAIN Tail(q) :
                  /\ Tail(q)[k] = <<"listen", f>>
                  /\ \A i \in DOMAIN Tail(q) : i > k => Tail(q)[i] # stop
  <2>1. CASE j = 1
    <3>1. f \in listening'
      BY <1>2, <1>6, <2>1
    <3>2. \A i \in DOMAIN Tail(q) : Tail(q)[i] # stop
      BY <1>2, <1>3, <1>6, <2>1, ZenonT(30)
    <3> QED BY <3>1, <3>2 DEF Within
  <2>2. CASE j # 1
    <3>1. j - 1 \in DOMAIN Tail(q) /\ Tail(q)[j - 1] = <<"listen", f>> /\ j \in Int
      BY <1>2, <1>6, <2>2
    <3>2. ASSUME NEW i \in DOMAIN Tail(q), i > j - 1 PROVE Tail(q)[i] # stop
      <4>1. i + 1 \in DOMAIN q /\ Tail(q)[i] = q[i + 1] /\ i \in Int
        BY <1>2
      <4>2. i + 1 > j
        BY <3>1, <3>2, <4>1
      <4> QED BY <1>6, <4>1, <4>2
    <3> QED BY <3>1, <3>2, Zenon
  <2> QED BY <2>1, <2>2, Zenon
<1>7. \/ f \in listening /\ (f = Conf \/ ~Within(stop, q))
      \/ \E j \in DOMAIN q : /\ q[j] = <<"listen", f>>
                             /\ \A i \in DOMAIN q : i > j => q[i] # stop
      \/ Within(<<"listen", f>>, todo["main"])
  BY Zenon DEF ListenInv
<1> QED BY <1>5, <1>6, <1>7, Zenon

\* Every step of a running process keeps the listener of each file in place, or to
\* come, as long as edits are orderly.
LEMMA ListenStep ==
  ASSUME TypeInv, ProgramInv, EngineInv, ListenInv, Orderly, Going
  PROVE  ListenInv'
<1> DEFINE q == todo["bus"]
           stop == <<"stopEngine">>
<1> USE DEF engineVars
<1>0. ~ConfErrors /\ ~EngineFails /\ Shape(q)
  BY DEF Orderly, ProgramInv
<1>1. ASSUME UNCHANGED <<todo, listening>> PROVE ListenInv'
  BY <1>1, Zenon DEF ListenInv
<1>2. CASE Main
  <2> DEFINE m == todo["main"]
  <2>1. /\ m # <<>> /\ Done("main") /\ m \in Seq(AllOps)
        /\ todo'["main"] = Tail(m) /\ todo'["bus"] = q
    BY <1>2, MainStep, Popped, SMTT(20)
  <2>2. listening \subseteq listening' /\ (Head(m)[1] = "listen" => Head(m)[2] \in listening')
    BY <1>2 DEF Main, SendOp, LoadOp, ListenOp, NewEngineOp, BuiltOp, HostOp, Op, Arg
  <2>3. ASSUME NEW f, Within(<<"listen", f>>, m), ~Within(<<"listen", f>>, Tail(m))
        PROVE  f \in listening' /\ ~Within(stop, q)
    <3>1. Head(m) = <<"listen", f>>
      BY <2>1, <2>3, WithinTail
    <3>2. <<"listen", f>>[1] = "listen" /\ <<"listen", f>>[2] = f
      OBVIOUS
    <3>3. Conf \notin listening
      <4>1. 1 \in DOMAIN m /\ Head(m) = m[1]
        BY <2>1, TailAt, SMTT(20)
      <4> QED BY <3>1, <3>2, <4>1 DEF EngineInv
    <3>4. LeftFrom(q, 6)
      BY <3>3 DEF EngineInv, AtStage
    <3>5. \A i \in DOMAIN q : Rank(q[i]) # 3
      <4>1. 3 \in 1..5 /\ ~(3 >= 6)
        OBVIOUS
      <4> QED BY <3>4, <4>1 DEF LeftFrom
    <3>6. Rank(stop) = 3
      BY DEF Rank
    <3> QED BY <2>2, <3>1, <3>2, <3>5, <3>6 DEF Within
  <2> HIDE DEF m, q, stop
  <2>4. \A f \in Files :
          \/ f \in listening /\ (f = Conf \/ ~Within(stop, q))
          \/ \E j \in DOMAIN q : /\ q[j] = <<"listen", f>>
                                 /\ \A i \in DOMAIN q : i > j => q[i] # stop
          \/ Within(<<"listen", f>>, m)
    BY Zenon DEF ListenInv, m, q, stop
  <2>5. \A f \in Files :
          \/ f \in listening' /\ (f = Conf \/ ~Within(stop, q))
          \/ \E j \in DOMAIN q : /\ q[j] = <<"listen", f>>
                                 /\ \A i \in DOMAIN q : i > j => q[i] # stop
          \/ Within(<<"listen", f>>, Tail(m))
    BY <2>2, <2>3, <2>4, Zenon
  <2> QED BY <2>1, <2>5, Zenon DEF ListenInv, stop
<1>3. CASE Bus
  <2>1. todo'["main"] = todo["main"]
    BY <1>3, BusLeavesMain
  <2>2. CASE Dispatch
    <3> DEFINE e == Head(busChan)
               r == Program(e)
    <3>1. q = <<>> /\ busChan # <<>> /\ busChan \in Seq(Topics \X Files)
          /\ todo' = [todo EXCEPT !["bus"] = r] /\ UNCHANGED listening
      BY <2>2 DEF Dispatch, TypeInv, Idle
    <3>2. 1 \in DOMAIN busChan /\ e = busChan[1] /\ e \in Topics \X Files
      BY <3>1, TailAt, SMTT(20)
    <3>3. \A i \in DOMAIN r : Rank(r[i]) = 0
      BY <3>2, ProgramFacts DEF ProgramInv
    <3>4. Rank(stop) = 3
      BY DEF Rank
    <3>5. ~Within(stop, r)
      BY <3>3, <3>4 DEF Within
    <3>6. todo'["bus"] = r
      BY <3>1 DEF TypeInv
    <3>7. DOMAIN q = {}
      BY <3>1
    <3>8. ASSUME NEW f \in Files PROVE f \in listening \/ Within(<<"listen", f>>, todo["main"])
      BY <3>7 DEF ListenInv
    <3> HIDE DEF r, e
    <3> QED BY <2>1, <3>1, <3>5, <3>6, <3>8, Zenon DEF ListenInv
  <2>3. CASE LoadConfOp
    <3>1. /\ q # <<>> /\ Head(q)[1] = "loadConf" /\ UNCHANGED listening
          /\ todo' = [todo EXCEPT !["bus"] = SwapProgram \o Tail(q)]
      BY <1>0, <2>3 DEF LoadConfOp, Op
    <3>2. q = << <<"loadConf">>, send("start", Conf) >>
      BY <1>0, <3>1, HeadFacts
    <3>3. Tail(q) = << send("start", Conf) >>
      BY <3>2, ShortPrograms
    <3>4. todo'["bus"] = SwapLeft
      BY <3>1, <3>3, Zenon DEF SwapLeft, TypeInv
    <3>5. \A i \in DOMAIN q : q[i] # <<"listen", Conf>>
      <4>1. \A i \in DOMAIN q : q[i] = <<"loadConf">> \/ q[i] = send("start", Conf)
        BY <3>2, TwoAt
      <4>2. <<"loadConf">>[1] = "loadConf" /\ send("start", Conf)[1] = "send"
            /\ <<"listen", Conf>>[1] = "listen"
        BY DEF send
      <4>3. <<"loadConf">> # <<"listen", Conf>> /\ send("start", Conf) # <<"listen", Conf>>
        BY <4>2
      <4> QED BY <4>1, <4>3
    <3>6. Conf \in listening \/ Within(<<"listen", Conf>>, todo["main"])
      BY <3>5, FileFacts, Zenon DEF ListenInv
    <3>7. \A f \in Files \ {Conf} :
            \E j \in DOMAIN SwapLeft :
              /\ SwapLeft[j] = <<"listen", f>>
              /\ \A i \in DOMAIN SwapLeft : i > j => SwapLeft[i] # <<"stopEngine">>
      BY SwapFacts
    <3> HIDE DEF q
    <3> QED BY <2>1, <3>1, <3>4, <3>6, <3>7, ZenonT(30) DEF ListenInv
  <2>4. CASE ListenOp("bus")
    <3>1. q # <<>> /\ Done("bus") /\ listening' = listening \cup {Head(q)[2]}
      BY <2>4 DEF ListenOp, Op, Arg
    <3>2. \A f : <<"listen", f>>[2] = f
      OBVIOUS
    <3>3. \A f \in Files : Head(q) = <<"listen", f>> => f \in listening'
      BY <3>1, <3>2
    <3> QED BY <3>1, <3>3, PopKeepsListeners
  <2>5. CASE StopEngineOp
    <3>1. q # <<>> /\ Done("bus") /\ listening' = listening \cap {Conf} /\ Head(q)[1] = "stopEngine"
      BY <2>5, SMTT(20) DEF StopEngineOp, ShutdownEngine, Op
    <3>2. Head(q) = stop
      BY <1>0, <3>1, HeadFacts
    <3>3. \A f : <<"listen", f>>[1] = "listen"
      OBVIOUS
    <3>4. \A f : Head(q) # <<"listen", f>>
      BY <3>1, <3>3
    <3> QED BY <3>1, <3>2, <3>4, PopKeepsListeners
  <2>6. CASE \/ SendOp("bus") \/ LoadOp("bus") \/ UnwatchOp \/ HashOp \/ WatchOp \/ ClearOp
             \/ EndWatchOp \/ CloseWatcherOp \/ LockOp \/ UnlockOp \/ NewEngineOp("bus")
             \/ BuiltOp("bus")
    <3>1. q # <<>> /\ Done("bus") /\ listening' = listening /\ Head(q)[1] # "listen"
      BY <1>0, <2>6, Zenon DEF SendOp, LoadOp, UnwatchOp, HashOp, WatchOp, ClearOp, EndWatchOp,
                CloseWatcherOp, LockOp, UnlockOp, NewEngineOp, BuiltOp, Op, Fails
    <3>2. \A f : <<"listen", f>>[1] = "listen"
      OBVIOUS
    <3>3. \A f : Head(q) # <<"listen", f>>
      BY <3>1, <3>2
    <3> QED BY <3>1, <3>3, PopKeepsListeners
  <2> QED BY <1>3, <2>2, <2>3, <2>4, <2>5, <2>6 DEF Bus
<1>4. ASSUME NEW f, Edit(f) \/ LoopEvent(f) PROVE ListenInv'
  BY <1>1, <1>4 DEF Edit, LoopEvent
<1>5. ASSUME NEW c, Accept(c) \/ Handle(c) PROVE ListenInv'
  BY <1>1, <1>5 DEF Accept, Handle
<1>6. CASE LoopSend
  BY <1>1, <1>6 DEF LoopSend
<1> QED BY <1>2, <1>3, <1>4, <1>5, <1>6 DEF Going, Loop

-----------------------------------------------------------------------------
(* The theorems.                                                            *)

\* Init establishes Inv.
LEMMA InvInit == Init => Inv
<1> SUFFICES ASSUME Init PROVE Inv
  OBVIOUS
<1>1. todo["bus"] = <<>> /\ todo["main"] = BootProgram /\ busChan = <<>> /\ busUp
      /\ \A c \in Clients : cpc[c] = "idle"
  BY DEF Init
<1>2. RequestInv
  BY <1>1, SMTT(20) DEF RequestInv
<1>3. ProgramInv
  <2>1. <<>> \in Seq(Work)
    OBVIOUS
  <2> QED BY <1>1, <2>1, BootFacts DEF ProgramInv, Shape
<1>4. WatchInv
  BY <1>1, BootFacts, Zenon DEF WatchInv, Asked
<1>5. ListenInv
  BY <1>1, BootFacts, Zenon DEF ListenInv
<1> QED BY <1>2, <1>3, <1>4, <1>5, TypeInit, EngineInit DEF Inv

\* Every step keeps Inv.
LEMMA InvStep == Inv /\ [Next]_<<vars, setting>> => Inv'
<1> SUFFICES ASSUME Inv, [Next]_<<vars, setting>> PROVE Inv'
  OBVIOUS
<1>1. TypeInv /\ RequestInv
  BY DEF Inv
<1>2. TypeInv' /\ RequestInv'
  BY <1>1, TypeStep, RequestStep
<1>3. ASSUME Running'
      PROVE  ProgramInv' /\ (~EngineFails' => EngineInv') /\ (Orderly' => WatchInv' /\ ListenInv')
  <2>1. Running /\ ((Going /\ UNCHANGED setting) \/ UNCHANGED <<vars, setting>>)
    BY <1>1, <1>3, GoingOn
  <2>2. ProgramInv /\ (~EngineFails => EngineInv) /\ (Orderly => WatchInv /\ ListenInv)
    BY <2>1 DEF Inv
  <2>3. (EngineFails' <=> EngineFails) /\ (Orderly' <=> Orderly) /\ (Orderly => ~EngineFails)
    BY <2>1 DEF EngineFails, Orderly, Quiet, ConfErrors
  <2>4. CASE Going
    BY <1>1, <2>2, <2>3, <2>4, ProgramStep, EngineStep, WatchStep, ListenStep
  <2>5. CASE UNCHANGED <<vars, setting>>
    <3>1. /\ UNCHANGED <<version, hash, watched, pending, busChan, busUp, todo, listening, lock>>
          /\ UNCHANGED <<engineUp, panicked>>
      BY <2>5, SMTT(20) DEF vars, fileVars, watchVars, engineVars, stopVars
    <3>2. ProgramInv'
      BY <2>2, <3>1 DEF ProgramInv
    <3>3. EngineInv => EngineInv'
      BY <3>1, ZenonT(30) DEF EngineInv, AtStage
    <3>4. WatchInv => WatchInv'
      BY <3>1 DEF WatchInv, Asked, Queued, NoClear, Renewing, InPlace
    <3>5. ListenInv => ListenInv'
      BY <3>1, Zenon DEF ListenInv
    <3> QED BY <2>2, <2>3, <3>2, <3>3, <3>4, <3>5
  <2> QED BY <2>1, <2>4, <2>5
<1> QED BY <1>2, <1>3 DEF Inv

\* Inv is an inductive invariant.
THEOREM Inductive == Spec => []Inv
BY InvInit, InvStep, PTL DEF Spec

\* Outside of swap the engine in use has not been shut down, however many
\* lists, sources and reloads there are and however requests meet them, when
\* the engines the reloads build do not fail (reloading_engine.go 71-97).
THEOREM EngineInUse == Spec => []CurrentEngineUp
<1>1. Inv => CurrentEngineUp
  <2> SUFFICES ASSUME Inv, Booted, Running, lock = "free", ~EngineFails PROVE engineUp
    BY DEF CurrentEngineUp
  <2>1. EngineInv
    BY DEF Inv
  <2>2. PICK k \in 1..6 : AtStage(k)
    BY <2>1 DEF EngineInv
  <2>3. k # 4
    BY <2>2 DEF AtStage, LockAt
  <2>4. DOMAIN todo["main"] = {}
    BY SMTT(20) DEF Booted, Idle
  <2> QED BY <2>2, <2>3, <2>4 DEF AtStage
<1> QED BY <1>1, Inductive, PTL

\* No engine is shut down twice by reloads, as long as the process is not told
\* to stop and the engines they build do not fail (recorder.go 607-645 would
\* close a closed channel).
THEOREM NoSecondShutdown == Spec => []ShutDownOnce
<1>1. Inv => ShutDownOnce
  BY DEF Inv, ShutDownOnce, EngineInv
<1> QED BY <1>1, Inductive, PTL

\* A request that holds the read lock meets an engine that has not been shut
\* down, from its read lock to its end (reloading_engine.go 126-133), when the
\* engines the reloads build do not fail.
ServedByLiveEngine ==
  ~EngineFails /\ Running => \A c \in Clients : cpc[c] = "reading" => engineUp

\* No request runs on an engine that has been shut down: swap waits for the
\* readers, and shuts down and replaces the engine before it lets new ones in.
THEOREM RequestsMeetEngine == Spec => []ServedByLiveEngine
<1>1. Inv => ServedByLiveEngine
  <2> SUFFICES ASSUME Inv, ~EngineFails, Running, NEW c \in Clients, cpc[c] = "reading"
               PROVE  engineUp
    BY DEF ServedByLiveEngine
  <2>1. EngineInv /\ lock # "write" /\ todo["main"] = <<>>
    BY Zenon DEF Inv, RequestInv
  <2>2. PICK k \in 1..6 : AtStage(k)
    BY <2>1 DEF EngineInv
  <2>3. k # 4
    BY <2>1, <2>2 DEF AtStage, LockAt
  <2>4. DOMAIN todo["main"] = {}
    BY <2>1
  <2> QED BY <2>2, <2>3, <2>4 DEF AtStage
<1> QED BY <1>1, Inductive, PTL

\* When nothing is going on every file in use is watched and listened to, and its
\* hash is that of what it holds, whatever the files and the size of the bus, if
\* every edit met watches in place and every reload succeeded
\* (reloading_engine.go 39-64, file_watch_events.go 79-119).
THEOREM EveryFileWatched == Spec => []WatchesComplete
<1>1. Inv => WatchesComplete
  <2> SUFFICES ASSUME Inv, Orderly, AllQuiet, Running
               PROVE  /\ watched = Files /\ listening = Files
                      /\ \A f \in Files : hash[f] = version[f]
    BY Zenon DEF WatchesComplete
  <2>1. TypeInv /\ WatchInv /\ ListenInv
    BY DEF Inv
  <2>2. todo["main"] = <<>> /\ todo["bus"] = <<>> /\ busChan = <<>> /\ pending = {}
    BY SMTT(20) DEF AllQuiet, Idle
  <2>3. ASSUME NEW f \in Files PROVE f \in watched /\ hash[f] = version[f]
    <3>1. ~Asked(f) /\ ~Queued(f)
      BY <2>2 DEF Asked, Queued, Within
    <3> QED BY <2>1, <2>2, <3>1, RenewingHead DEF WatchInv, InPlace
  <2>4. ASSUME NEW f \in Files PROVE f \in listening
    BY <2>1, <2>2 DEF ListenInv, Within
  <2> QED BY <2>1, <2>3, <2>4, Zenon DEF TypeInv
<1> QED BY <1>1, Inductive, PTL
=============================================================================

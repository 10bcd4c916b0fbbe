----------------------------- MODULE HotReload -----------------------------
(***************************************************************************)
(* Hot reload: the event bus (events/bus.go), the file watcher             *)
(* (events/file_watch_events.go), and what hangs on them: list files       *)
(* (rule/store.go), source files (resolver/file_source.go) and the engine  *)
(* swap on a change of the configuration (engine/reloading_engine.go).     *)
(*                                                                         *)
(* "main" builds the first engine (cmd/gudgeon.go), "bus" serves the       *)
(* bounded event channel and runs every listener, the file loop turns      *)
(* inotify events into bus events, and Gudgeon.Shutdown stops the bus, the *)
(* DNS servers (provider/provider.go), the web server and the engine from  *)
(* a goroutine each.  What main and the bus have still to do is a sequence *)
(* of operations: a listener is the list of the sends, loads and locks of  *)
(* its body.  Since listeners run on the bus goroutine, their sends wait   *)
(* on a channel that only they could drain.                                *)
(*                                                                         *)
(* A file is its version number, and so is its hash.                       *)
(***************************************************************************)
EXTENDS Integers, Sequences, Functions

CONSTANTS
  Lists,        \* list files, in the order of the configuration
  Sources,      \* source files (hosts, zones, resolv.conf), likewise
  Conf,         \* the configuration file
  Editable,     \* the files that are edited
  QueueSize,    \* _queueSize of the bus
  Settings,     \* the settings the process may run in, see below
  Clients       \* requests that need the engine's read lock

Files == Range(Lists) \cup Range(Sources) \cup {Conf}

ASSUME HotReloadAssumption ==
  /\ Lists \in Seq(Range(Lists)) /\ Sources \in Seq(Range(Sources))
  /\ QueueSize \in Nat \ {0}
  /\ Settings \subseteq [quiet : BOOLEAN, confErrors : BOOLEAN,
                          engineFails : BOOLEAN, stops : BOOLEAN, maxEdits : Nat]
  /\ IsInjective(Lists \o Sources \o <<Conf>>)
  /\ Editable \subseteq Files

VARIABLES
  setting,    \* what the environment does; chosen once
  version,    \* version[f]: the content of file f
  edits,      \* edits made so far
  pending,    \* files with an inotify event not yet taken by the file loop
  watched,    \* files with an inotify watch
  hash,       \* watchedFilesHashes; NoHash where it is "" or missing
  lpc, lfile, \* where the file loop is, and the file it sends about
  busChan,    \* queued events <<topic, file>>
  busUp,      \* the bus runs
  todo,       \* todo["main"], todo["bus"]: the operations left
  listening,  \* files whose change has a listener
  loaded,     \* loaded[f]: the version in use
  lock,       \* the engine's RWMutex: "free", "wanted" (by swap), "write"
  engineUp,   \* the current engine has not been shut down
  cpc,        \* cpc[c]: where request c is
  stopping,   \* stopping[g]: how far goroutine g of Gudgeon.Shutdown is
  panicked    \* the process has died of a panic

fileVars == <<version, edits>>
watchVars == <<pending, watched, hash>>
loopVars == <<lpc, lfile>>
engineVars == <<listening, loaded, lock, engineUp>>
stopVars == <<stopping, panicked>>
vars == <<fileVars, watchVars, loopVars, busChan, busUp, todo, engineVars, cpc,
          stopVars>>

NoHash == -1
Stoppers == {"events", "servers", "engine"}
Running == \A g \in Stoppers : stopping[g] = "run"
Exited == \A g \in Stoppers : stopping[g] = "done"

Quiet == setting.quiet              \* files are edited only while nothing is going on
ConfErrors == setting.confErrors    \* the configuration may fail to load
EngineFails == setting.engineFails  \* NewEngine may fail
Stops == setting.stops              \* the process may be shut down
MaxEdits == setting.maxEdits        \* bound on the number of edits

-----------------------------------------------------------------------------
(* What the goroutines do, as sequences of operations.                      *)

send(topic, f) == <<"send", topic, f>>

\* CreateStore: load, ask for the watch, listen.
ListSetup(f) == << <<"load", f>>, send("start", f), <<"listen", f>> >>

\* fileSource.Load: load, listen, ask for the watch.
SourceSetup(f) == << <<"load", f>>, <<"listen", f>>, send("start", f) >>

\* One setup after the other; each has three operations.
InTurn(setups) ==
  [i \in 1 .. 3 * Len(setups) |-> setups[1 + ((i - 1) \div 3)][1 + ((i - 1) % 3)]]

\* NewEngine: the sources, then the downloads (which may fail), then the lists.
BuildEngine ==
  InTurn([i \in DOMAIN Sources |-> SourceSetup(Sources[i])])
  \o << <<"download">> >>
  \o InTurn([i \in DOMAIN Lists |-> ListSetup(Lists[i])])
  \o << <<"built">> >>

\* NewReloadingEngine.
NewReloadingEngine == BuildEngine \o << send("start", Conf), <<"listen", Conf>> >>

\* Gudgeon.Start: the engine, then the servers.
BootProgram == NewReloadingEngine \o << <<"host">> >>

\* Mutant of ConfProgram: the watches are cleared after the new ones are asked for.
ConfProgramClearsLast == << <<"loadConf">>, send("start", Conf), send("clear", Conf) >>

\* The listener of the configuration file; "loadConf" goes on to swap.
ConfProgram == << send("clear", Conf), <<"loadConf">>, send("start", Conf) >>

\* Mutant of SwapProgram: an early return leaves the lock held.
SwapProgramKeepsLock ==
  << <<"lock">>, <<"locked">>, <<"stopEngine">>, <<"newEngine">> >> \o BuildEngine

\* Mutant of SwapProgram: the lock is released before the new engine is built.
SwapProgramUnlocksEarly ==
  << <<"lock">>, <<"locked">>, <<"stopEngine">>, <<"unlock">>, <<"newEngine">> >>
  \o BuildEngine

SwapProgram ==
  << <<"lock">>, <<"locked">>, <<"stopEngine">>, <<"newEngine">> >> \o BuildEngine
  \o << <<"unlock">> >>

ListProgram(f) == << <<"load", f>>, send("changed", f), send("start", f) >>

SourceProgram(f) == << <<"load", f>>, send("start", f), send("source", f) >>

\* Mutant of StartProgram: the file is not watched again after the hash is taken.
StartProgramUnwatches(f) == << <<"unwatch", f>>, <<"hash", f>> >>

StartProgram(f) == << <<"unwatch", f>>, <<"hash", f>>, <<"watch", f>> >>

\* Mutant of CloseProgram: one more answer is waited for than is sent.
CloseProgramWaitsTwice ==
  << <<"endWatch">>, <<"endWatchAck">>, <<"endWatchAck">>, <<"closeWatcher">> >>

CloseProgram == << <<"endWatch">>, <<"endWatchAck">>, <<"closeWatcher">> >>

\* The body of the listener for an event; events nobody listens to, and those
\* that only clear the cache or update a counter, have none here.
Program(e) ==
  CASE e[1] = "file" /\ e[2] \in listening ->
         IF e[2] = Conf THEN ConfProgram
         ELSE IF e[2] \in Range(Lists) THEN ListProgram(e[2]) ELSE SourceProgram(e[2])
    [] e[1] = "start" -> StartProgram(e[2])
    [] e[1] = "clear" -> << <<"clear">> >>
    [] e[1] = "close" -> CloseProgram
    [] OTHER -> <<>>

-----------------------------------------------------------------------------
Init ==
  /\ setting \in Settings
  /\ version = [f \in Files |-> 0] /\ edits = 0
  /\ pending = {} /\ watched = {} /\ hash = [f \in Files |-> NoHash]
  /\ lpc = "select" /\ lfile = Conf
  /\ busChan = <<>> /\ busUp = TRUE
  /\ todo = [p \in {"main", "bus"} |-> IF p = "main" THEN BootProgram ELSE <<>>]
  /\ listening = {} /\ loaded = [f \in Files |-> 0]
  /\ lock = "free" /\ engineUp = FALSE
  /\ cpc = [c \in Clients |-> "idle"]
  /\ stopping = [g \in Stoppers |-> "run"] /\ panicked = FALSE

Idle(p) == todo[p] = <<>>
Booted == Idle("main")
AllQuiet ==
  /\ Idle("main") /\ Idle("bus") /\ busChan = <<>>
  /\ pending = {} /\ lpc = "select"

\* An edit raises an inotify event only where there is a watch.
Edit(f) ==
  /\ edits < MaxEdits
  /\ Quiet => AllQuiet
  /\ version' = [version EXCEPT ![f] = @ + 1]
  /\ edits' = edits + 1
  /\ pending' = IF f \in watched THEN pending \cup {f} ELSE pending
  /\ UNCHANGED <<watched, hash, loopVars, busChan, busUp, todo, engineVars, cpc,
                 stopVars>>

-----------------------------------------------------------------------------
(* The file loop.                                                           *)

LoopEvent(f) ==
  /\ lpc = "select"
  /\ f \in pending
  /\ pending' = pending \ {f}
  /\ IF hash[f] # version[f]
     THEN /\ hash' = [hash EXCEPT ![f] = version[f]]
          /\ lpc' = "send" /\ lfile' = f
     ELSE UNCHANGED <<hash, lpc, lfile>>
  /\ UNCHANGED <<fileVars, watched, busChan, busUp, todo, engineVars, cpc, stopVars>>

\* Send: a stopped bus takes nothing, a full one makes the sender wait.
CanSend == ~busUp \/ Len(busChan) < QueueSize
Sent(e) == IF busUp THEN Append(busChan, e) ELSE busChan

LoopSend ==
  /\ lpc = "send"
  /\ CanSend
  /\ busChan' = Sent(<<"file", lfile>>)
  /\ lpc' = "select"
  /\ UNCHANGED <<fileVars, watchVars, lfile, busUp, todo, engineVars, cpc, stopVars>>

-----------------------------------------------------------------------------
(* The bus takes an event when it has nothing left to do.                   *)
Dispatch ==
  /\ busUp /\ Idle("bus")
  /\ busChan # <<>>
  /\ busChan' = Tail(busChan)
  /\ todo' = [todo EXCEPT !["bus"] = Program(Head(busChan))]
  /\ UNCHANGED <<fileVars, watchVars, loopVars, busUp, engineVars, cpc, stopVars>>

Op(p, name) == todo[p] # <<>> /\ Head(todo[p])[1] = name
Arg(p) == Head(todo[p])[2]
Done(p) == todo' = [todo EXCEPT ![p] = Tail(@)]

SendOp(p) ==
  /\ Op(p, "send")
  /\ CanSend
  /\ busChan' = Sent(<<Head(todo[p])[2], Head(todo[p])[3]>>)
  /\ Done(p)
  /\ UNCHANGED <<fileVars, watchVars, loopVars, busUp, engineVars, cpc, stopVars>>

LoadOp(p) ==
  /\ Op(p, "load")
  /\ loaded' = [loaded EXCEPT ![Arg(p)] = version[Arg(p)]]
  /\ Done(p)
  /\ UNCHANGED <<fileVars, watchVars, loopVars, busChan, busUp, listening, lock,
                 engineUp, cpc, stopVars>>

ListenOp(p) ==
  /\ Op(p, "listen")
  /\ listening' = listening \cup {Arg(p)}
  /\ Done(p)
  /\ UNCHANGED <<fileVars, watchVars, loopVars, busChan, busUp, loaded, lock,
                 engineUp, cpc, stopVars>>

(* The listeners of the file watcher.  Removing a watch may or may not lose *)
(* an event of that file that the loop has not yet taken.                   *)
Unwatch(S) ==
  /\ watched' = watched \ S
  /\ pending' \in {pending, pending \ S}

UnwatchOp ==
  /\ Op("bus", "unwatch")
  /\ Unwatch({Arg("bus")})
  /\ hash' = [hash EXCEPT ![Arg("bus")] = NoHash]
  /\ Done("bus")
  /\ UNCHANGED <<fileVars, loopVars, busChan, busUp, engineVars, cpc, stopVars>>

HashOp ==
  /\ Op("bus", "hash")
  /\ hash' = [hash EXCEPT ![Arg("bus")] = version[Arg("bus")]]
  /\ Done("bus")
  /\ UNCHANGED <<fileVars, pending, watched, loopVars, busChan, busUp,
                 engineVars, cpc, stopVars>>

WatchOp ==
  /\ Op("bus", "watch")
  /\ watched' = watched \cup {Arg("bus")}
  /\ Done("bus")
  /\ UNCHANGED <<fileVars, pending, hash, loopVars, busChan, busUp, engineVars,
                 cpc, stopVars>>

ClearOp ==
  /\ Op("bus", "clear")
  /\ Unwatch(Files)
  /\ hash' = [f \in Files |-> NoHash]
  /\ Done("bus")
  /\ UNCHANGED <<fileVars, loopVars, busChan, busUp, engineVars, cpc, stopVars>>

\* The handshake with the file loop, which answers only from its select.
EndWatchOp ==
  /\ \/ Op("bus", "endWatch") /\ lpc = "select" /\ lpc' = "ending"
     \/ Op("bus", "endWatchAck") /\ lpc = "ending" /\ lpc' = "ended"
  /\ Done("bus")
  /\ UNCHANGED <<fileVars, watchVars, lfile, busChan, busUp, engineVars, cpc,
                 stopVars>>

CloseWatcherOp ==
  /\ Op("bus", "closeWatcher")
  /\ watched' = {} /\ pending' = {} /\ hash' = [f \in Files |-> NoHash]
  /\ Done("bus")
  /\ UNCHANGED <<fileVars, loopVars, busChan, busUp, engineVars, cpc, stopVars>>

-----------------------------------------------------------------------------
(* Reload of the configuration: swap under the engine's write lock.         *)
LoadConfOp ==
  /\ Op("bus", "loadConf")
  /\ \/ /\ todo' = [todo EXCEPT !["bus"] = SwapProgram \o Tail(@)]
        /\ loaded' = [loaded EXCEPT ![Conf] = version[Conf]]
     \/ ConfErrors /\ Done("bus") /\ UNCHANGED loaded
  /\ UNCHANGED <<fileVars, watchVars, loopVars, busChan, busUp, listening, lock,
                 engineUp, cpc, stopVars>>

Readers == {c \in Clients : cpc[c] = "reading"}
           \cup {g \in {"engine"} : stopping[g] = "reading"}

LockOp ==
  /\ \/ Op("bus", "lock") /\ lock' = "wanted"
     \/ Op("bus", "locked") /\ Readers = {} /\ lock' = "write"
  /\ Done("bus")
  /\ UNCHANGED <<fileVars, watchVars, loopVars, busChan, busUp, listening,
                 loaded, engineUp, cpc, stopVars>>

UnlockOp ==
  /\ Op("bus", "unlock")
  /\ lock' = "free"
  /\ Done("bus")
  /\ UNCHANGED <<fileVars, watchVars, loopVars, busChan, busUp, listening,
                 loaded, engineUp, cpc, stopVars>>

\* engine.Shutdown closes the engine's handles; the one on the configuration
\* belongs to the reloading engine and stays.  A second call for the same engine
\* sends on a channel of the recorder that the first has closed.
ShutdownEngine ==
  /\ engineUp' = FALSE
  /\ listening' = listening \cap {Conf}
  /\ panicked' = ~engineUp

StopEngineOp ==
  /\ Op("bus", "stopEngine")
  /\ ShutdownEngine
  /\ Done("bus")
  /\ UNCHANGED <<fileVars, watchVars, loopVars, busChan, busUp, loaded, lock,
                 cpc, stopping>>

\* Where NewEngine may return an error: before the sources are built (the
\* database) and after (the download of a list).  In swap the deferred unlock
\* follows; in NewReloadingEngine the process ends, which is not modelled.
Fails(p) ==
  /\ EngineFails /\ p = "bus"
  /\ todo' = [todo EXCEPT ![p] = << <<"unlock">>, send("start", Conf) >>]

NewEngineOp(p) ==
  /\ Op(p, "newEngine") \/ Op(p, "download")
  /\ Done(p) \/ Fails(p)
  /\ UNCHANGED <<fileVars, watchVars, loopVars, busChan, busUp, engineVars, cpc,
                 stopVars>>

\* Mutant of BuiltOp: the new engine is assigned to a variable of its own.
BuiltOpKeepsOld(p) ==
  /\ Op(p, "built")
  /\ engineUp' = IF p = "main" THEN TRUE ELSE engineUp
  /\ Done(p)
  /\ UNCHANGED <<fileVars, watchVars, loopVars, busChan, busUp, listening,
                 loaded, lock, cpc, stopVars>>

BuiltOp(p) ==
  /\ Op(p, "built")
  /\ engineUp' = TRUE
  /\ Done(p)
  /\ UNCHANGED <<fileVars, watchVars, loopVars, busChan, busUp, listening,
                 loaded, lock, cpc, stopVars>>

\* provider.Host and web.Serve: requests are taken from here on.
HostOp ==
  /\ Op("main", "host")
  /\ Done("main")
  /\ UNCHANGED <<fileVars, watchVars, loopVars, busChan, busUp, engineVars, cpc,
                 stopVars>>

Main == SendOp("main") \/ LoadOp("main") \/ ListenOp("main")
        \/ NewEngineOp("main") \/ BuiltOp("main") \/ HostOp

Bus == \/ Dispatch
       \/ SendOp("bus") \/ LoadOp("bus") \/ ListenOp("bus")
       \/ UnwatchOp \/ HashOp \/ WatchOp \/ ClearOp
       \/ EndWatchOp \/ CloseWatcherOp
       \/ LoadConfOp \/ LockOp \/ UnlockOp \/ StopEngineOp
       \/ NewEngineOp("bus") \/ BuiltOp("bus")

Loop == LoopSend \/ \E f \in Files : LoopEvent(f)

-----------------------------------------------------------------------------
(* A request: taken by a server while there is one, and handled under the   *)
(* read lock.  A waiting writer keeps new readers out.                      *)
Accept(c) ==
  /\ Booted
  /\ cpc[c] = "idle" /\ stopping["servers"] # "done"
  /\ cpc' = [cpc EXCEPT ![c] = "waiting"]
  /\ UNCHANGED <<fileVars, watchVars, loopVars, busChan, busUp, todo, engineVars,
                 stopVars>>

Handle(c) ==
  /\ \/ cpc[c] = "waiting" /\ lock = "free" /\ cpc' = [cpc EXCEPT ![c] = "reading"]
     \/ cpc[c] = "reading" /\ cpc' = [cpc EXCEPT ![c] = "idle"]
  /\ UNCHANGED <<fileVars, watchVars, loopVars, busChan, busUp, todo, engineVars,
                 stopVars>>

-----------------------------------------------------------------------------
(* Gudgeon.Shutdown: a goroutine each for the bus, the servers (the DNS     *)
(* endpoints and the web server have one each, alike) and the engine, and a *)
(* wait for all of them.                                                    *)

Step(g, from, to) == stopping[g] = from /\ stopping' = [stopping EXCEPT ![g] = to]

Signal ==
  /\ Stops /\ Booted /\ Running
  /\ stopping' = [g \in Stoppers |-> "called"]
  /\ UNCHANGED <<fileVars, watchVars, loopVars, busChan, busUp, todo, engineVars,
                 cpc, panicked>>

\* StopFileWatch and Stop.  Stop is served by the bus from its select, in
\* which a queued event may also be chosen.
StopFileWatch ==
  /\ Step("events", "called", "stop")
  /\ CanSend
  /\ busChan' = Sent(<<"close", Conf>>)
  /\ UNCHANGED <<fileVars, watchVars, loopVars, busUp, todo, engineVars, cpc,
                 panicked>>

Stop ==
  /\ Step("events", "stop", "done")
  /\ Idle("bus")
  /\ busUp' = FALSE
  /\ UNCHANGED <<fileVars, watchVars, loopVars, busChan, todo, engineVars, cpc,
                 panicked>>

\* provider.Shutdown and web.Stop: no request is taken any more; those under
\* way are waited for until a timeout of 10 and 5 seconds.
StopServers ==
  /\ Step("servers", "called", "done")
  /\ UNCHANGED <<fileVars, watchVars, loopVars, busChan, busUp, todo, engineVars,
                 cpc, panicked>>

\* reloadingEngine.Shutdown: the engine under the read lock, then the handles.
StopEngine ==
  /\ \/ /\ Step("engine", "called", "reading") /\ lock = "free"
        /\ UNCHANGED <<engineUp, listening, panicked>>
     \/ Step("engine", "reading", "closing") /\ ShutdownEngine
     \/ /\ Step("engine", "closing", "done") /\ listening' = listening \ {Conf}
        /\ UNCHANGED <<engineUp, panicked>>
  /\ UNCHANGED <<fileVars, watchVars, loopVars, busChan, busUp, todo, loaded,
                 lock, cpc>>

Next ==
  /\ ~panicked /\ ~Exited
  /\ \/ \E f \in Editable : Edit(f)
     \/ Loop \/ Main \/ Bus
     \/ \E c \in Clients : Accept(c) \/ Handle(c)
     \/ Signal \/ StopFileWatch \/ Stop
     \/ StopServers \/ StopEngine
  /\ UNCHANGED setting

Spec == Init /\ [][Next]_<<vars, setting>>

(* Goroutines that can run do, and requests end.  The select of the bus is  *)
(* fair to the stop signal.  Edits, requests and the decision to shut down  *)
(* are the environment's.                                                   *)
Fairness ==
  /\ WF_vars(Main) /\ WF_vars(Bus) /\ WF_vars(Loop) /\ SF_vars(LoopSend)
  /\ SF_vars(EndWatchOp) /\ SF_vars(Stop)
  /\ WF_vars(StopFileWatch) /\ WF_vars(StopServers) /\ SF_vars(StopEngine)
  /\ \A c \in Clients : WF_vars(Handle(c))

FairSpec == Spec /\ Fairness

-----------------------------------------------------------------------------
\* Every edit meets watches that are in place, and every reload succeeds.
Orderly == Quiet /\ ~ConfErrors /\ ~EngineFails

\* "Reloading source resolver files when they change" (README.md 40), and
\* lists likewise: when the edits are over, what is in use is what is in the
\* files, unless the process is being shut down.  It takes orderly edits: one
\* made between the load of a file and the renewal of its watch is hashed as
\* known (file_watch_events.go 89), and a configuration that fails leaves the
\* other watches cleared (reloading_engine.go 43-48).
ChangesAreLoaded ==
  <>[](Orderly /\ Running => \A f \in Files \ {Conf} : loaded[f] = version[f])

\* "wait to swap engine until all rlocked processes have completed and then
\* lock during the swap and release to resume normal operations"
\* (reloading_engine.go 71-72), whether the new engine is built or not.
SwapReleasesLock == lock = "write" ~> lock = "free" \/ panicked

\* Once nothing is going on and the engine stands, every file in use is
\* watched and listened to, and its hash is the loaded version: the clear, the
\* closed handles and the renewed watches of a swap come in the right order
\* (reloading_engine.go 43-63, store.go 220-234, file_source.go 26-53).
WatchesComplete ==
  Orderly /\ AllQuiet /\ engineUp /\ Running =>
    /\ watched = Files /\ listening = Files
    /\ \A f \in Files : hash[f] = version[f]

\* Outside of swap the engine in use has not been shut down, as long as new
\* ones can be built: if not, swap logs "Could not reload engine, keeping
\* current engine" (reloading_engine.go 89) and keeps one it has shut down.
CurrentEngineUp == Booted /\ Running /\ lock = "free" /\ ~EngineFails => engineUp

\* No engine is shut down twice, which would end the process, however reloads
\* follow one another (reloading_engine.go 79-82, recorder.go 607-645).  It
\* takes engines that can be built, and no edit of the configuration that is
\* still under way when the process is told to stop.
ShutDownOnce == ~EngineFails /\ Running => ~panicked

\* Gudgeon.Shutdown returns: the bus, the servers and the engine stop while
\* reloads and requests are under way (cmd/gudgeon.go 86-135).
StopReturns == ~Running ~> Exited \/ panicked
=============================================================================

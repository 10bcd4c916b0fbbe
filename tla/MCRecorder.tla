----------------------------- MODULE MCRecorder -----------------------------
(* Settings for the run of Recorder.                                       *)
EXTENDS Recorder

MCRequests == {"r1", "r2", "r3"}
MCResults == {"o1", "o2"}

\* Three requests that fill the queue in one life.
Full == [mdns |-> "listen", locked |-> TRUE, statementFails |-> FALSE,
         clients |-> MCRequests, objects |-> {"o1"}, maxStarts |-> 1]

\* Two requests and two lives, one swapped or restarted into the other.
Lives(mdns, fails, rs) ==
  [mdns |-> mdns, locked |-> TRUE, statementFails |-> fails,
   clients |-> rs, objects |-> {"o1"}, maxStarts |-> 2]

\* Two requests at the same time while the process ends.
Ending == [mdns |-> "off", locked |-> FALSE, statementFails |-> FALSE,
           clients |-> {"r1", "r2"}, objects |-> MCResults, maxStarts |-> 1]

MCSettings == {Full, Lives("off", FALSE, {"r1", "r2"}), Lives("reverse", TRUE, {"r1"}), Ending}
=============================================================================

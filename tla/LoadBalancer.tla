---------------------------- MODULE LoadBalancer ----------------------------
(***************************************************************************)
(* The load balancing source (resolver/loadbalancing_source.go).  One      *)
(* goroutine, the router, hands out the member sources in rotation; a      *)
(* request asks it for a source on one unbuffered channel and gets it on   *)
(* another, up to N + 1 times.  Close stops the router over a third        *)
(* channel, closes the other two and then the members.                     *)
(*                                                                         *)
(* resolverMap.Close (resolver/resolver_map.go) closes the sources of one  *)
(* resolver after the other.  Sources are shared by resolvers, so the      *)
(* balancer and its members may be closed more than once (CloseOrder).  A  *)
(* reload closes them under the write lock of the reloading engine, when   *)
(* no request runs (Exclusive); the shutdown of the process takes only the *)
(* read lock.                                                              *)
(***************************************************************************)
EXTENDS Integers, Sequences, FiniteSets

CONSTANTS
  N,            \* the number of member sources
  Requests,     \* goroutines that ask the balancer
  Failing,      \* members that may fail or have no answer
  Balancer,
  Settings,     \* how the balancer is closed; one way is in force throughout
  MaxRequests   \* bound on the requests of a goroutine

ASSUME BalancerAssumption ==
  /\ N \in Nat \ {0, 1} /\ MaxRequests \in Nat
  /\ Failing \subseteq 0..(N - 1)
  /\ Balancer \notin 0..(N - 1)
  /\ \A s \in Settings : /\ s.exclusive \in BOOLEAN
                          /\ s.closeOrder \in Seq({Balancer} \cup 0..(N - 1))

Members == 0..(N - 1)

VARIABLES
  setting,  \* how the balancer is closed
  idx,      \* the member that is handed out next
  router,   \* "select", "choose", "closing" or "gone"
  pc,       \* pc[p]: "idle", "ask", "wait", "source" or "gave up"
  tries,    \* tries[p]: the tries p has left
  source,   \* source[p]: the member p was given
  tried,    \* tried[p]: the members p has tried in vain
  alone,    \* alone[p]: no other request was served since p asked first
  picked,   \* picked[i]: how often member i was handed out
  made,     \* made[p]: requests p has made
  closer,   \* where resolverMap.Close is: "open", "next", "send", "ack", "channels" or "members"
  toClose,  \* what it has left to close
  member,   \* the members of the balancer closed so far, while it is closed
  closed,   \* the channels of the balancer, and the pools, that are closed
  panicked  \* a send on, or a close of, a closed channel

vars == <<idx, router, pc, tries, source, tried, alone, picked, made, closer,
          toClose, member, closed, panicked>>
requestVars == <<pc, tries, source, tried, made>>
closeVars == <<closer, toClose, member, closed>>

\* What resolverMap.Close closes: Balancer or the number of a member; and
\* whether a reload does, with no request around.
CloseOrder == setting.closeOrder
Exclusive == setting.exclusive

Init ==
  /\ setting \in Settings
  /\ idx = 0 /\ router = "select"
  /\ pc = [p \in Requests |-> "idle"]
  /\ tries = [p \in Requests |-> 0]
  /\ source = [p \in Requests |-> 0]
  /\ tried = [p \in Requests |-> {}]
  /\ alone = [p \in Requests |-> TRUE]
  /\ picked = [i \in Members |-> 0]
  /\ made = [p \in Requests |-> 0]
  /\ closer = "open" /\ toClose = CloseOrder /\ member = 0 /\ closed = {}
  /\ panicked = FALSE

\* A panic ends the process.
At(p, l) == ~panicked /\ pc[p] = l
Closing(l) == ~panicked /\ closer = l

-----------------------------------------------------------------------------
(* lbSource.Answer and the router.                                          *)

\* Mutant of Start: one try fewer than there are members.
StartTooFew(p) ==
  /\ At(p, "idle") \/ At(p, "gave up")
  /\ made[p] < MaxRequests
  /\ Exclusive => closer = "open"
  /\ made' = [made EXCEPT ![p] = @ + 1]
  /\ pc' = [pc EXCEPT ![p] = "ask"]
  /\ tries' = [tries EXCEPT ![p] = N - 2]
  /\ tried' = [tried EXCEPT ![p] = {}]
  /\ alone' = [alone EXCEPT ![p] = TRUE]
  /\ UNCHANGED <<idx, router, source, picked, closeVars, panicked>>

Start(p) ==
  /\ At(p, "idle") \/ At(p, "gave up")
  /\ made[p] < MaxRequests
  /\ Exclusive => closer = "open"
  /\ made' = [made EXCEPT ![p] = @ + 1]
  /\ pc' = [pc EXCEPT ![p] = "ask"]
  /\ tries' = [tries EXCEPT ![p] = N]
  /\ tried' = [tried EXCEPT ![p] = {}]
  /\ alone' = [alone EXCEPT ![p] = TRUE]
  /\ UNCHANGED <<idx, router, source, picked, closeVars, panicked>>

\* Mutant of Ask: the channel for questions has room for one, so that a request
\* is through before the router has turned to it.
AskBuffered(p) ==
  /\ At(p, "ask") /\ Balancer \notin closed /\ router \in {"select", "choose"}
  /\ pc' = [pc EXCEPT ![p] = "wait"]
  /\ router' = "choose"
  /\ UNCHANGED <<idx, tries, source, tried, alone, picked, made, closeVars, panicked>>

\* The request and the router meet on askChan.
Ask(p) ==
  /\ At(p, "ask") /\ Balancer \notin closed /\ router = "select"
  /\ pc' = [pc EXCEPT ![p] = "wait"]
  /\ router' = "choose"
  /\ UNCHANGED <<idx, tries, source, tried, alone, picked, made, closeVars, panicked>>

AskClosed(p) ==
  /\ At(p, "ask") /\ Balancer \in closed
  /\ panicked' = TRUE
  /\ UNCHANGED <<idx, router, alone, picked, requestVars, closeVars>>

\* Mutant of Advance: the last member is left out.
AdvanceShort == (idx + 1) % (N - 1)

Advance == (idx + 1) % N

\* Mutant of Choose: the router does not loop.
ChooseOnce(p) ==
  /\ At(p, "wait") /\ router = "choose"
  /\ router' = "gone"
  /\ pc' = [pc EXCEPT ![p] = "source"]
  /\ source' = [source EXCEPT ![p] = idx]
  /\ picked' = [picked EXCEPT ![idx] = @ + 1]
  /\ idx' = Advance
  /\ alone' = [q \in Requests |-> IF q = p \/ pc[q] = "idle" THEN alone[q] ELSE FALSE]
  /\ UNCHANGED <<tries, tried, made, closeVars, panicked>>

\* They meet on chosenChan.
Choose(p) ==
  /\ At(p, "wait") /\ router = "choose"
  /\ router' = "select"
  /\ pc' = [pc EXCEPT ![p] = "source"]
  /\ source' = [source EXCEPT ![p] = idx]
  /\ picked' = [picked EXCEPT ![idx] = @ + 1]
  /\ idx' = Advance
  /\ alone' = [q \in Requests |-> IF q = p \/ pc[q] = "idle" THEN alone[q] ELSE FALSE]
  /\ UNCHANGED <<tries, tried, made, closeVars, panicked>>

\* The member has an answer.
Answer(p) ==
  /\ At(p, "source")
  /\ pc' = [pc EXCEPT ![p] = "idle"]
  /\ UNCHANGED <<idx, router, tries, source, tried, alone, picked, made, closeVars, panicked>>

\* It fails: another try, or none left.
Fail(p) ==
  /\ At(p, "source") /\ source[p] \in Failing
  /\ tried' = [tried EXCEPT ![p] = @ \cup {source[p]}]
  /\ pc' = [pc EXCEPT ![p] = IF tries[p] > 0 THEN "ask" ELSE "gave up"]
  /\ tries' = [tries EXCEPT ![p] = @ - 1]
  /\ UNCHANGED <<idx, router, source, alone, picked, made, closeVars, panicked>>

-----------------------------------------------------------------------------
(* resolverMap.Close, resolver.Close and lbSource.Close.                    *)

Close ==
  /\ Closing("open")
  /\ Exclusive => \A p \in Requests : pc[p] \in {"idle", "gave up"}
  /\ closer' = "next"
  /\ UNCHANGED <<idx, router, alone, picked, requestVars, toClose, member, closed, panicked>>

\* dnsSource.Close: shutting down a pool twice sends on its closed channel.
CloseMember(i) ==
  /\ closed' = closed \cup {i}
  /\ panicked' = (panicked \/ i \in closed)

CloseNext ==
  /\ Closing("next") /\ toClose # <<>>
  /\ toClose' = Tail(toClose)
  /\ IF Head(toClose) = Balancer
     THEN closer' = "send" /\ UNCHANGED <<closed, panicked>>
     ELSE CloseMember(Head(toClose)) /\ UNCHANGED closer
  /\ UNCHANGED <<idx, router, alone, picked, requestVars, member>>

\* closeChan is unbuffered and used in both directions.
SendClose ==
  /\ Closing("send") /\ router = "select"
  /\ closer' = "ack" /\ router' = "closing"
  /\ UNCHANGED <<idx, alone, picked, requestVars, toClose, member, closed, panicked>>

\* Mutant of AckClose: the router leaves without the answer.
AckCloseMissing ==
  /\ router = "closing"
  /\ router' = "gone"
  /\ UNCHANGED <<idx, alone, picked, requestVars, closer, toClose, member, closed, panicked>>

AckClose ==
  /\ Closing("ack") /\ router = "closing"
  /\ closer' = "channels" /\ router' = "gone"
  /\ UNCHANGED <<idx, alone, picked, requestVars, toClose, member, closed, panicked>>

CloseChannels ==
  /\ Closing("channels")
  /\ closer' = "members" /\ member' = 0
  /\ closed' = closed \cup {Balancer}
  /\ UNCHANGED <<idx, router, alone, picked, requestVars, toClose, panicked>>

CloseMembers ==
  /\ Closing("members")
  /\ IF member = N
     THEN closer' = "next" /\ UNCHANGED <<member, closed, panicked>>
     ELSE CloseMember(member) /\ member' = member + 1 /\ UNCHANGED closer
  /\ UNCHANGED <<idx, router, alone, picked, requestVars, toClose>>

CloseStep == CloseNext \/ SendClose \/ AckClose \/ CloseChannels \/ CloseMembers
RequestStep(p) == Ask(p) \/ AskClosed(p) \/ Choose(p) \/ Answer(p) \/ Fail(p)

Next ==
  /\ \/ \E p \in Requests : Start(p) \/ RequestStep(p)
     \/ Close \/ CloseStep
  /\ UNCHANGED setting

Spec == Init /\ [][Next]_<<vars, setting>>

\* The goroutines run; of those waiting for the router none waits for ever, as
\* Go serves a channel in the order of arrival.
FairSpec ==
  /\ Spec
  /\ \A p \in Requests : SF_vars(RequestStep(p))
  /\ SF_vars(CloseStep)

-----------------------------------------------------------------------------
TypeOK ==
  /\ idx \in Members /\ router \in {"select", "choose", "closing", "gone"}
  /\ pc \in [Requests -> {"idle", "ask", "wait", "source", "gave up"}]
  /\ tries \in [Requests -> -1..N] /\ source \in [Requests -> Members]
  /\ tried \in [Requests -> SUBSET Members] /\ alone \in [Requests -> BOOLEAN]
  /\ picked \in [Members -> Nat] /\ made \in [Requests -> Nat]
  /\ closer \in {"open", "next", "send", "ack", "channels", "members"}
  /\ toClose \in Seq({Balancer} \cup Members) /\ member \in 0..N
  /\ closed \subseteq {Balancer} \cup Members /\ panicked \in BOOLEAN

\* "will balance requests between the two Google tcp-tls endpoints"
\* (docs/CONFIG.md 162): however the requests interleave, no member has been
\* handed out more than once more than another (router, 38-49).
Balanced == \A i, j \in Members : picked[i] <= picked[j] + 1

\* A source is handed to the request that asked for it: the router has a choice
\* to hand out exactly when one request waits for it (42, 54-55).
ChoiceIsOwn ==
  \A p \in Requests : pc[p] = "wait" <=>
    router = "choose" /\ \A q \in Requests : q # p => pc[q] # "wait"

\* A request that no other was served in between gives up only after it has
\* tried every member (52-66).
AloneTriesAll ==
  \A p \in Requests : pc[p] = "gave up" /\ alone[p] => tried[p] = Members

\* Every request comes back, with an answer or an error, or the process ends.
EveryRequestReturns ==
  \A p \in Requests : pc[p] = "ask" ~> pc[p] \in {"idle", "gave up"} \/ panicked

\* "wait to swap engine until all rlocked processes have completed and then
\* lock during the swap and release to resume normal operations"
\* (engine/reloading_engine.go 71): closing the resolvers comes to an end, also
\* under running requests, if one resolver holds the balancer.  A second close
\* waits for the router that the first one ended.
CloseReturns ==
  CloseOrder = <<Balancer>> /\ closer = "next"
    ~> (closer = "next" /\ toClose = <<>>) \/ panicked
=============================================================================

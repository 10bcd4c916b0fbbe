------------------------------ MODULE DnsPool ------------------------------
(***************************************************************************)
(* The upstream connection pool (pool/dns_pool.go) together with its only  *)
(* user, the query path of a DNS source (resolver/dns_source.go).          *)
(*                                                                         *)
(* The pool is a Go channel of capacity MaxConnections whose elements are  *)
(* tokens: an idle TCP connection, or Nil, a licence to dial a new one.    *)
(* Every client request is one goroutine (a member of Queries) that takes  *)
(* a token, dials if the token is Nil, exchanges one message and gives a   *)
(* token back.  A call of Shutdown is a member of Closers.                 *)
(*                                                                         *)
(* All methods of dnsPool have value receivers, so each call works on its  *)
(* own copy of the mutex and of the shutdown flag: the flag Shutdown sets  *)
(* is seen by nobody and the mutex excludes nobody.  Only the channel is   *)
(* shared.  Hence neither appears below, and the length test of a method   *)
(* and the send it guards are two steps.                                   *)
(***************************************************************************)
EXTENDS Naturals, Sequences, FiniteSets

CONSTANTS
  Queries,         \* client requests, one goroutine each
  Closers,         \* calls of Shutdown
  Conns,           \* identities of network connections
  MaxConnections,  \* capacity of the channel
  Network,         \* "udp" or "tcp" (tcp-tls is dialled as tcp)
  Settings,        \* the settings the pool may run in, see below
  Nil              \* the nil connection

ASSUME PoolAssumption ==
  /\ IsFiniteSet(Queries)
  /\ MaxConnections \in Nat \ {0}
  /\ Network \in {"udp", "tcp"}
  /\ Nil \notin Conns \cup Queries

ASSUME SettingsAssumption == Settings \subseteq [dialFails : BOOLEAN, closes : BOOLEAN]

VARIABLES
  setting, \* what the environment does; chosen once
  cons,    \* the channel: tokens in FIFO order
  closed,  \* the channel has been closed
  open,    \* connections whose socket is open
  wire,    \* wire[c]: requests written to c whose answer has not been read
  pc,      \* pc[q]: where request q is
  con,     \* con[q]: the connection (or Nil) that q has been handed
  answer,  \* answer[q]: the request whose answer q received, or Nil
  spc,     \* spc[k]: where shutdown call k is
  filled,  \* filled[k]: the loop counter of shutdown call k
  panic    \* a send on, or a close of, the closed channel ended the process

vars == <<cons, closed, open, wire, pc, con, answer, spc, filled, panic>>

QueryPC == {"get", "dial", "errSend", "write", "read", "discard",
            "discardSend", "release", "releaseSend", "done"}
ShutdownPC == {"idle", "fill", "fillSend", "close", "done"}

\* The upstream may refuse or time out a dial.
DialFails == setting.dialFails

\* The pool may be shut down.
Closes == setting.closes

Full == Len(cons) = MaxConnections

Init ==
  /\ setting \in Settings
  /\ cons = [i \in 1..MaxConnections |-> Nil]
  /\ closed = FALSE
  /\ open = {}
  /\ wire = [c \in Conns |-> {}]
  /\ pc = [q \in Queries |-> "get"]
  /\ con = [q \in Queries |-> Nil]
  /\ answer = [q \in Queries |-> Nil]
  /\ spc = [k \in Closers |-> "idle"]
  /\ filled = [k \in Closers |-> 0]
  /\ panic = FALSE

shutdownVars == <<closed, spc, filled, panic>>

Go(q, l) == pc' = [pc EXCEPT ![q] = l]

\* A send on the channel: blocks while it is full.  The send on a closed
\* channel is the action SendPanics.
Send(x) ==
  /\ ~closed
  /\ ~Full
  /\ cons' = Append(cons, x)

-----------------------------------------------------------------------------
\* Mutant of Get: a request that finds no token dials without one.
GetWithoutWaiting(q) ==
  /\ pc[q] = "get"
  /\ con' = [con EXCEPT ![q] = IF cons = <<>> THEN Nil ELSE Head(cons)]
  /\ cons' = IF cons = <<>> THEN cons ELSE Tail(cons)
  /\ Go(q, IF con'[q] = Nil THEN "dial" ELSE "write")
  /\ UNCHANGED <<open, wire, answer, shutdownVars>>

(* Get: a receive on the closed and drained channel yields Nil at once.     *)
Get(q) ==
  /\ pc[q] = "get"
  /\ \/ /\ cons # <<>>
        /\ con' = [con EXCEPT ![q] = Head(cons)]
        /\ cons' = Tail(cons)
     \/ /\ cons = <<>>
        /\ closed
        /\ UNCHANGED <<cons, con>>
  /\ Go(q, IF con'[q] = Nil THEN "dial" ELSE "write")
  /\ UNCHANGED <<open, wire, answer, shutdownVars>>

Dial(q) ==
  /\ pc[q] = "dial"
  /\ \E c \in Conns \ open :
       /\ con' = [con EXCEPT ![q] = c]
       /\ open' = open \cup {c}
       /\ wire' = [wire EXCEPT ![c] = {}]
  /\ Go(q, "write")
  /\ UNCHANGED <<cons, answer, shutdownVars>>

\* Mutant of DialError: the error is returned without giving the token back.
DialErrorKeepsToken(q) ==
  /\ DialFails
  /\ pc[q] = "dial"
  /\ Go(q, "done")
  /\ UNCHANGED <<cons, open, wire, con, answer, shutdownVars>>

\* A failed dial looks at the channel and, if it saw room, sends a Nil; in
\* both cases query() then calls Discard(nil).
DialError(q) ==
  /\ DialFails
  /\ pc[q] = "dial"
  /\ Go(q, IF Full THEN "discard" ELSE "errSend")
  /\ UNCHANGED <<cons, open, wire, con, answer, shutdownVars>>

ErrSend(q) ==
  /\ pc[q] = "errSend"
  /\ Send(Nil)
  /\ Go(q, "discard")
  /\ UNCHANGED <<open, wire, con, answer, shutdownVars>>

-----------------------------------------------------------------------------
(* handle: write the request, read one message, both under a deadline.      *)
Write(q) ==
  /\ pc[q] = "write"
  /\ wire' = [wire EXCEPT ![con[q]] = @ \cup {q}]
  /\ Go(q, "read")
  /\ UNCHANGED <<cons, open, con, answer, shutdownVars>>

\* Mutant of AfterError: a failed exchange releases its connection.
AfterErrorRelease == "release"

\* query() discards a connection on any error of handle.  The request may or
\* may not have reached the upstream when a write fails or a read times out.
AfterError == "discard"

WriteError(q) ==
  /\ pc[q] = "write"
  /\ wire' \in {wire, [wire EXCEPT ![con[q]] = @ \cup {q}]}
  /\ Go(q, AfterError)
  /\ UNCHANGED <<cons, open, con, answer, shutdownVars>>

\* Whatever message arrives first is the answer: a wrong id is only logged.
Read(q) ==
  /\ pc[q] = "read"
  /\ \E r \in wire[con[q]] :
       /\ wire' = [wire EXCEPT ![con[q]] = @ \ {r}]
       /\ answer' = [answer EXCEPT ![q] = r]
  /\ Go(q, "release")
  /\ UNCHANGED <<cons, open, con, shutdownVars>>

ReadTimeout(q) ==
  /\ pc[q] = "read"
  /\ Go(q, AfterError)
  /\ UNCHANGED <<cons, open, wire, con, answer, shutdownVars>>

-----------------------------------------------------------------------------
\* q is done and its connection, if it still has one, is closed.
CloseAndFinish(q) ==
  /\ Go(q, "done")
  /\ open' = open \ {con[q]}
  /\ con' = [con EXCEPT ![q] = Nil]

\* Mutant of Discard: the connection is closed and no token is given back.
DiscardKeepsToken(q) ==
  /\ pc[q] = "discard"
  /\ CloseAndFinish(q)
  /\ UNCHANGED <<cons, wire, answer, shutdownVars>>

Discard(q) ==
  /\ pc[q] = "discard"
  /\ \/ ~Full /\ Go(q, "discardSend") /\ UNCHANGED <<open, con>>
     \/ Full /\ CloseAndFinish(q)
  /\ UNCHANGED <<cons, wire, answer, shutdownVars>>

\* Mutant of DiscardSend: the closed connection itself goes back.
DiscardSendsConn(q) ==
  /\ pc[q] = "discardSend"
  /\ Send(con[q])
  /\ CloseAndFinish(q)
  /\ UNCHANGED <<wire, answer, shutdownVars>>

DiscardSend(q) ==
  /\ pc[q] = "discardSend"
  /\ Send(Nil)
  /\ CloseAndFinish(q)
  /\ UNCHANGED <<wire, answer, shutdownVars>>

\* A UDP connection is closed and replaced by Nil.  A connection that finds
\* the channel full is dropped (its socket is closed when it is collected).
Release(q) ==
  /\ pc[q] = "release"
  /\ IF Network = "udp" \/ Full
     THEN /\ open' = open \ {con[q]}
          /\ con' = [con EXCEPT ![q] = Nil]
     ELSE UNCHANGED <<open, con>>
  /\ Go(q, IF Full THEN "done" ELSE "releaseSend")
  /\ UNCHANGED <<cons, wire, answer, shutdownVars>>

ReleaseSend(q) ==
  /\ pc[q] = "releaseSend"
  /\ Send(con[q])
  /\ con' = [con EXCEPT ![q] = Nil]
  /\ Go(q, "done")
  /\ UNCHANGED <<open, wire, answer, shutdownVars>>

-----------------------------------------------------------------------------
queryVars == <<open, wire, pc, con, answer>>

Shutdown(k) ==
  /\ Closes
  /\ spc[k] = "idle"
  /\ spc' = [spc EXCEPT ![k] = "fill"]
  /\ UNCHANGED <<cons, queryVars, closed, filled, panic>>

\* The loop condition is evaluated anew before each send, while both sides
\* of it change.
Fill(k) ==
  /\ spc[k] = "fill"
  /\ spc' = [spc EXCEPT ![k] = IF filled[k] < MaxConnections - Len(cons)
                               THEN "fillSend" ELSE "close"]
  /\ UNCHANGED <<cons, queryVars, closed, filled, panic>>

FillSend(k) ==
  /\ spc[k] = "fillSend"
  /\ Send(Nil)
  /\ filled' = [filled EXCEPT ![k] = @ + 1]
  /\ spc' = [spc EXCEPT ![k] = "fill"]
  /\ UNCHANGED <<queryVars, closed, panic>>

CloseCons(k) ==
  /\ spc[k] = "close"
  /\ closed' = TRUE
  /\ panic' = closed
  /\ spc' = [spc EXCEPT ![k] = "done"]
  /\ UNCHANGED <<cons, queryVars, filled>>

\* A goroutine at, or blocked in, a send when the channel is closed.
SendPanics ==
  /\ closed
  /\ \/ \E q \in Queries : pc[q] \in {"errSend", "discardSend", "releaseSend"}
     \/ \E k \in Closers : spc[k] = "fillSend"
  /\ panic' = TRUE
  /\ UNCHANGED <<cons, queryVars, closed, spc, filled>>

QueryStep(q) ==
  \/ Get(q) \/ Dial(q) \/ DialError(q) \/ ErrSend(q)
  \/ Write(q) \/ WriteError(q) \/ Read(q) \/ ReadTimeout(q)
  \/ Discard(q) \/ DiscardSend(q) \/ Release(q) \/ ReleaseSend(q)

ShutdownStep(k) == Shutdown(k) \/ Fill(k) \/ FillSend(k) \/ CloseCons(k)

\* A panic ends the process, and with it every goroutine.
Next ==
  /\ ~panic
  /\ \/ \E q \in Queries : QueryStep(q)
     \/ \E k \in Closers : ShutdownStep(k)
     \/ SendPanics
  /\ UNCHANGED setting

Spec == Init /\ [][Next]_<<vars, setting>>

-----------------------------------------------------------------------------
TypeOK ==
  /\ cons \in Seq(Conns \cup {Nil})
  /\ Len(cons) <= MaxConnections
  /\ closed \in BOOLEAN
  /\ open \in SUBSET Conns
  /\ wire \in [Conns -> SUBSET Queries]
  /\ pc \in [Queries -> QueryPC]
  /\ con \in [Queries -> Conns \cup {Nil}]
  /\ answer \in [Queries -> Queries \cup {Nil}]
  /\ spc \in [Closers -> ShutdownPC]
  /\ filled \in [Closers -> Nat]
  /\ panic \in BOOLEAN

\* The requests that have taken a token and not yet given one back.
HasToken(q) ==
  \/ pc[q] \in {"dial", "errSend", "write", "read", "release", "releaseSend"}
  \/ pc[q] \in {"discard", "discardSend"} /\ con[q] # Nil

Holders == {q \in Queries : HasToken(q)}

\* No error path loses a token: the tokens in the channel and those with a
\* request always add up to at least MaxConnections, so the pool cannot
\* wither away under dial failures, timeouts and dropped connections
\* (Get 131-140, Release 172-180, Discard 185-190).
TokensNeverLost == MaxConnections <= Len(cons) + Cardinality(Holders)

\* A connection has one user: it is with at most one request, or idle in the
\* channel at one place, and an idle connection has an open socket (Release
\* 166-180, Discard 192-194).
ConnExclusive ==
  /\ \A q, r \in Queries : con[q] = con[r] /\ con[q] # Nil => q = r
  /\ \A q \in Queries : con[q] # Nil => con[q] \in open
  /\ \A i \in 1..Len(cons) : cons[i] # Nil =>
       /\ cons[i] \in open
       /\ \A q \in Queries : con[q] # cons[i]
       /\ \A j \in 1..Len(cons) : cons[i] = cons[j] => i = j

\* A request only ever receives the answer to itself, although handle merely
\* logs a message id that does not match (dns_source.go 116-118): a late
\* answer of a timed out request never meets the connection's next user.
OwnAnswer == \A q \in Queries : answer[q] \in {q, Nil}

\* Dials succeed and the pool is not shut down.
Steady == ~DialFails /\ ~Closes

\* "max connections this pool can hand out" (dns_pool.go 24), as long as dials
\* succeed and the pool is not shut down: a failed dial gives its token back twice
\* (dns_pool.go 136, 188), and Shutdown adds tokens (dns_pool.go 210).
AtMostMaxConnections ==
  Steady => Cardinality({q \in Queries : con[q] # Nil}) <= MaxConnections

\* The places where a request waits for others.
Waits(q) ==
  \/ pc[q] = "get" /\ cons = <<>> /\ ~closed
  \/ pc[q] \in {"errSend", "discardSend", "releaseSend"} /\ Full

\* Requests never all wait for each other: while one is on its way, one can go
\* on, and as every step is one nearer to the end, all of them return.  In
\* particular nobody stays in the send of Release on a full channel ("don't
\* return to a full pool chan", dns_pool.go 172).  That takes dials that succeed,
\* too: with surplus tokens the channel may fill between the test of its length
\* and the send (dns_pool.go 174, 180).
NoQueryStuck ==
  Steady /\ (\E q \in Queries : pc[q] # "done")
    => \E q \in Queries : pc[q] # "done" /\ ~Waits(q)

-----------------------------------------------------------------------------
(* The pool is a place to lease connections from.                           *)

IdleConns == {cons[i] : i \in 1..Len(cons)} \ {Nil}

Leases == INSTANCE ConnectionLeases WITH Users <- Queries, idle <- IdleConns, lease <- con

\* Whatever fails, the pool only ever does to connections what leasing them
\* allows: a request gets a connection that nobody else has, idle ones are the
\* ones that were given back, and a connection that is dropped does not come
\* back (Get 113-156, Release 158-181, Discard 183-195).
LeasesConnections == Leases!Spec
=============================================================================

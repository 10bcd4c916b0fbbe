--------------------------- MODULE DnsPool_proofs ---------------------------
(***************************************************************************)
(* Proofs about the connection pool, for any number of requests,           *)
(* connections and shutdown calls, any capacity and either network.        *)
(***************************************************************************)
EXTENDS DnsPool, FiniteSetTheorems, TLAPS

USE DEF queryVars, shutdownVars

\* A request has a connection exactly while it uses one: what makes the type
\* invariant inductive, since wire is indexed by the connection.
ConnAtPC ==
  \A q \in Queries :
    /\ pc[q] \in {"get", "dial", "errSend", "done"} => con[q] = Nil
    /\ pc[q] \in {"write", "read", "release"} => con[q] # Nil

TypeInv == TypeOK /\ ConnAtPC

-----------------------------------------------------------------------------
\* The receive of Get shortens the channel and hands out its head.
LEMMA GetStep ==
  ASSUME TypeOK, NEW q \in Queries, Get(q)
  PROVE  /\ cons' \in Seq(Conns \cup {Nil})
         /\ Len(cons') <= MaxConnections
         /\ con' \in [Queries -> Conns \cup {Nil}]
         /\ cons # <<>> => con'[q] = Head(cons)
         /\ cons = <<>> => con'[q] = con[q]
<1> USE PoolAssumption DEF TypeOK, Get
<1>1. CASE cons # <<>>
  <2>1. Head(cons) \in Conns \cup {Nil} /\ Tail(cons) \in Seq(Conns \cup {Nil})
    BY <1>1
  <2>2. Len(Tail(cons)) = Len(cons) - 1
    BY <1>1
  <2>3. con' = [con EXCEPT ![q] = Head(cons)] /\ cons' = Tail(cons)
    BY <1>1
  <2>4. Len(cons') <= MaxConnections
    BY <2>2, <2>3
  <2> HIDE DEF Get
  <2> QED BY <1>1, <2>1, <2>3, <2>4
<1>2. CASE cons = <<>>
  <2>1. cons' = cons /\ con' = con
    BY <1>2, Zenon
  <2> HIDE DEF Get
  <2> QED BY <1>2, <2>1
<1> QED BY <1>1, <1>2

\* Every action keeps the types, and keeps a request's connection in step
\* with its program counter.
LEMMA TypeInvStep == TypeInv /\ [Next]_vars => TypeInv'
<1> USE PoolAssumption DEF TypeInv, TypeOK, ConnAtPC, QueryPC, ShutdownPC, Go, Full
<1> SUFFICES ASSUME TypeInv, [Next]_vars PROVE TypeInv'
  OBVIOUS
<1>1. ASSUME NEW q \in Queries, Get(q) PROVE TypeInv'
  <2>1. cons = <<>> => con'[q] = Nil
    BY <1>1, GetStep DEF Get
  <2>2. con' = [con EXCEPT ![q] = con'[q]]
    BY <1>1 DEF Get
  <2>3. pc' = [pc EXCEPT ![q] = IF con'[q] = Nil THEN "dial" ELSE "write"]
    BY <1>1 DEF Get
  <2>4. UNCHANGED <<open, wire, answer, shutdownVars>>
    BY <1>1 DEF Get
  <2> QED BY <1>1, <2>2, <2>3, <2>4, GetStep
<1>2. ASSUME NEW q \in Queries, Dial(q) PROVE TypeInv'
  BY <1>2 DEF Dial
<1>3. ASSUME NEW q \in Queries, DialError(q) PROVE TypeInv'
  BY <1>3 DEF DialError
<1>4. ASSUME NEW q \in Queries, ErrSend(q) PROVE TypeInv'
  BY <1>4 DEF ErrSend, Send
<1>5. ASSUME NEW q \in Queries, Write(q) PROVE TypeInv'
  BY <1>5 DEF Write
<1>6. ASSUME NEW q \in Queries, WriteError(q) PROVE TypeInv'
  <2>1. con[q] \in Conns
    BY <1>6 DEF WriteError
  <2>2. wire' = wire \/ wire' = [wire EXCEPT ![con[q]] = @ \cup {q}]
    BY <1>6, Zenon DEF WriteError
  <2>3. [wire EXCEPT ![con[q]] = @ \cup {q}] \in [Conns -> SUBSET Queries]
    BY <2>1
  <2>4. wire' \in [Conns -> SUBSET Queries]
    BY <2>2, <2>3, Zenon
  <2> QED BY <1>6, <2>4 DEF WriteError, AfterError
<1>7. ASSUME NEW q \in Queries, Read(q) PROVE TypeInv'
  <2>1. PICK r \in wire[con[q]] : /\ wire' = [wire EXCEPT ![con[q]] = @ \ {r}]
                                  /\ answer' = [answer EXCEPT ![q] = r]
    BY <1>7, Zenon DEF Read
  <2>2. con[q] \in Conns /\ r \in Queries
    BY <1>7, <2>1 DEF Read
  <2> QED BY <1>7, <2>1, <2>2, Zenon DEF Read
<1>8. ASSUME NEW q \in Queries, ReadTimeout(q) PROVE TypeInv'
  BY <1>8 DEF ReadTimeout, AfterError
<1>9. ASSUME NEW q \in Queries, Discard(q) PROVE TypeInv'
  <2>1. CASE Full
    <3>1. /\ pc[q] = "discard"
          /\ pc' = [pc EXCEPT ![q] = "done"]
          /\ open' = open \ {con[q]}
          /\ con' = [con EXCEPT ![q] = Nil]
          /\ UNCHANGED <<cons, wire, answer, shutdownVars>>
      BY <1>9, <2>1 DEF Discard, CloseAndFinish
    <3> QED BY <3>1
  <2>2. CASE ~Full
    <3>1. /\ pc[q] = "discard"
          /\ pc' = [pc EXCEPT ![q] = "discardSend"]
          /\ UNCHANGED <<cons, open, con, wire, answer, shutdownVars>>
      BY <1>9, <2>2 DEF Discard
    <3> QED BY <3>1
  <2> QED BY <2>1, <2>2
<1>10. ASSUME NEW q \in Queries, DiscardSend(q) PROVE TypeInv'
  BY <1>10 DEF DiscardSend, CloseAndFinish, Send
<1>11. ASSUME NEW q \in Queries, Release(q) PROVE TypeInv'
  BY <1>11, SMTT(30) DEF Release
<1>12. ASSUME NEW q \in Queries, ReleaseSend(q) PROVE TypeInv'
  BY <1>12 DEF ReleaseSend, Send
<1>13. ASSUME NEW k \in Closers, Shutdown(k) PROVE TypeInv'
  BY <1>13 DEF Shutdown
<1>14. ASSUME NEW k \in Closers, Fill(k) PROVE TypeInv'
  BY <1>14 DEF Fill
<1>15. ASSUME NEW k \in Closers, FillSend(k) PROVE TypeInv'
  BY <1>15 DEF FillSend, Send
<1>16. ASSUME NEW k \in Closers, CloseCons(k) PROVE TypeInv'
  BY <1>16 DEF CloseCons
<1>17. CASE SendPanics
  BY <1>17 DEF SendPanics
<1>18. CASE UNCHANGED vars
  BY <1>18 DEF vars
<1> HIDE DEF TypeInv
<1> QED
  BY <1>1, <1>2, <1>3, <1>4, <1>5, <1>6, <1>7, <1>8, <1>9, <1>10, <1>11, <1>12,
     <1>13, <1>14, <1>15, <1>16, <1>17, <1>18, ZenonT(60) DEF Next, QueryStep, ShutdownStep

LEMMA TypeInvInit == Init => TypeInv
<1> SUFFICES ASSUME Init PROVE TypeInv
  OBVIOUS
<1> USE PoolAssumption DEF Init
<1>1. cons \in Seq(Conns \cup {Nil}) /\ Len(cons) = MaxConnections
  OBVIOUS
<1>2. MaxConnections <= MaxConnections
  OBVIOUS
<1>3. ConnAtPC
  BY DEF ConnAtPC
<1> QED BY <1>1, <1>2, <1>3, Zenon DEF TypeInv, TypeOK, QueryPC, ShutdownPC

\* The setting plays no part in the invariants.
LEMMA StepOfSpec == [Next]_<<vars, setting>> => [Next]_vars
OBVIOUS

LEMMA TypeInvAlways == Spec => []TypeInv
BY TypeInvInit, TypeInvStep, StepOfSpec, PTL DEF Spec

\* Every variable of the pool keeps its type, and the channel never holds
\* more than MaxConnections tokens (the sends of dns_pool.go 109, 136, 180,
\* 188 and 210 all block on a full channel).
THEOREM TypeCorrect == Spec => []TypeOK
BY TypeInvAlways, PTL DEF TypeInv

-----------------------------------------------------------------------------
(* Tokens.  A step changes the number of tokens in the channel and the set  *)
(* of requests that hold one in step with each other, or leaves the channel *)
(* full.                                                                    *)
LEMMA HoldersFinite ==
  /\ IsFiniteSet(Holders) /\ Cardinality(Holders) \in Nat
  /\ IsFiniteSet(Holders') /\ Cardinality(Holders') \in Nat
<1>1. Holders \subseteq Queries /\ Holders' \subseteq Queries
  BY DEF Holders
<1> QED BY <1>1, PoolAssumption, FS_Subset, FS_CardinalityType

LEMMA KeptToken ==
  ASSUME TypeOK, TokensNeverLost, cons' = cons, Holders \subseteq Holders'
  PROVE  TokensNeverLost'
<1>1. Cardinality(Holders) <= Cardinality(Holders')
  BY HoldersFinite, FS_Subset
<1> QED BY <1>1, HoldersFinite, PoolAssumption DEF TokensNeverLost, TypeOK

LEMMA TakenToken ==
  ASSUME TypeOK, TokensNeverLost, NEW q \in Queries, q \notin Holders,
         Len(cons') \in Nat, Len(cons) <= Len(cons') + 1,
         Holders \cup {q} \subseteq Holders'
  PROVE  TokensNeverLost'
<1>1. /\ IsFiniteSet(Holders \cup {q})
      /\ Cardinality(Holders \cup {q}) = Cardinality(Holders) + 1
  BY HoldersFinite, FS_AddElement, Zenon
<1>2. Cardinality(Holders \cup {q}) <= Cardinality(Holders')
  BY <1>1, HoldersFinite, FS_Subset
<1>3. Cardinality(Holders) + 1 <= Cardinality(Holders')
  BY <1>1, <1>2
<1> QED BY <1>3, HoldersFinite, PoolAssumption DEF TokensNeverLost, TypeOK

LEMMA ReturnedToken ==
  ASSUME TypeOK, TokensNeverLost, NEW q, Len(cons') = Len(cons) + 1,
         Holders \ {q} \subseteq Holders'
  PROVE  TokensNeverLost'
<1>1. /\ IsFiniteSet(Holders \ {q})
      /\ Cardinality(Holders \ {q}) =
           IF q \in Holders THEN Cardinality(Holders) - 1 ELSE Cardinality(Holders)
  BY HoldersFinite, FS_RemoveElement, Zenon
<1>2. Cardinality(Holders \ {q}) <= Cardinality(Holders')
  BY <1>1, HoldersFinite, FS_Subset
<1>3. Cardinality(Holders \ {q}) \in Nat
  BY <1>1, FS_CardinalityType
<1>4. Cardinality(Holders) <= Cardinality(Holders') + 1
  BY <1>1, <1>2, <1>3, HoldersFinite
<1> QED BY <1>4, HoldersFinite, PoolAssumption DEF TokensNeverLost, TypeOK

LEMMA FullChannel ==
  ASSUME Full, cons' = cons
  PROVE  TokensNeverLost'
BY HoldersFinite, PoolAssumption DEF Full, TokensNeverLost

LEMMA TokensStep ==
  ASSUME TypeInv, TokensNeverLost, [Next]_vars
  PROVE  TokensNeverLost'
<1>a. TypeOK /\ ConnAtPC
  BY DEF TypeInv
<1>b. con \in [Queries -> Conns \cup {Nil}] /\ pc \in [Queries -> QueryPC]
  BY <1>a, Zenon DEF TypeOK
<1>c. cons \in Seq(Conns \cup {Nil})
  BY <1>a, Zenon DEF TypeOK
<1>1. ASSUME NEW q \in Queries, Get(q) PROVE TokensNeverLost'
  <2>1. /\ pc[q] = "get" /\ pc'[q] \in {"dial", "write"}
        /\ \A r \in Queries : r # q => pc'[r] = pc[r] /\ con'[r] = con[r]
    BY <1>1, <1>b DEF Get, Go
  <2>2. q \notin Holders /\ Holders \cup {q} \subseteq Holders'
    BY <2>1 DEF Holders, HasToken
  <2>3. Len(cons') \in Nat /\ Len(cons) <= Len(cons') + 1
    BY <1>1, <1>c DEF Get
  <2> QED BY <1>a, <2>2, <2>3, TakenToken, Zenon
<1>2. ASSUME NEW q \in Queries,
             Dial(q) \/ Write(q) \/ WriteError(q) \/ Read(q) \/ ReadTimeout(q)
      PROVE TokensNeverLost'
  <2>1. cons' = cons
    BY <1>2, Zenon DEF Dial, Write, WriteError, Read, ReadTimeout
  <2>2. \A r \in Queries : r # q => pc'[r] = pc[r] /\ con'[r] = con[r]
    BY <1>2, <1>b DEF Dial, Write, WriteError, Read, ReadTimeout, Go
  <2>3. \/ pc'[q] \in {"write", "read", "release"}
        \/ pc'[q] = "discard" /\ con'[q] # Nil
    BY <1>2, <1>a, <1>b
       DEF Dial, Write, WriteError, Read, ReadTimeout, AfterError, Go, ConnAtPC
  <2>4. Holders \subseteq Holders'
    BY <2>2, <2>3 DEF Holders, HasToken
  <2> QED BY <1>a, <2>1, <2>4, KeptToken, Zenon
<1>3. ASSUME NEW q \in Queries, DialError(q) \/ Discard(q) \/ Release(q)
      PROVE TokensNeverLost'
  <2>1. cons' = cons
    BY <1>3, Zenon DEF DialError, Discard, Release
  <2>2. CASE ~Full
    <3>1. \A r \in Queries : r # q => pc'[r] = pc[r] /\ con'[r] = con[r]
      BY <1>3, <1>b, <2>2 DEF DialError, Discard, Release, Go
    <3>2. \/ pc'[q] \in {"errSend", "releaseSend"}
          \/ pc[q] = "discard" /\ pc'[q] = "discardSend" /\ con'[q] = con[q]
      BY <1>3, <1>b, <2>2 DEF DialError, Discard, Release, Go
    <3>3. Holders \subseteq Holders'
      BY <3>1, <3>2 DEF Holders, HasToken
    <3> QED BY <1>a, <2>1, <3>3, KeptToken, Zenon
  <2>3. CASE Full
    BY <2>1, <2>3, FullChannel, Zenon
  <2> QED BY <2>2, <2>3, Zenon
<1>4. ASSUME NEW q \in Queries, ErrSend(q) \/ DiscardSend(q) \/ ReleaseSend(q)
      PROVE TokensNeverLost'
  <2>1. Send(Nil) \/ Send(con[q])
    BY <1>4, Zenon DEF ErrSend, DiscardSend, ReleaseSend
  <2>2. Len(cons') = Len(cons) + 1
    BY <1>b, <1>c, <2>1 DEF Send
  <2>3. \A r \in Queries : r # q => pc'[r] = pc[r] /\ con'[r] = con[r]
    BY <1>4, <1>b DEF ErrSend, DiscardSend, ReleaseSend, CloseAndFinish, Go
  <2>4. Holders \ {q} \subseteq Holders'
    BY <2>3 DEF Holders, HasToken
  <2> QED BY <1>a, <2>2, <2>4, ReturnedToken, Zenon
<1>5. ASSUME NEW k \in Closers, FillSend(k) PROVE TokensNeverLost'
  <2>1. Len(cons') = Len(cons) + 1
    BY <1>5, <1>c DEF FillSend, Send
  <2>2. pc' = pc /\ con' = con
    BY <1>5 DEF FillSend
  <2>3. Holders \ {k} \subseteq Holders'
    BY <2>2 DEF Holders, HasToken
  <2> QED BY <1>a, <2>1, <2>3, ReturnedToken, Zenon
<1>6. CASE \/ \E k \in Closers : Shutdown(k) \/ Fill(k) \/ CloseCons(k)
           \/ SendPanics \/ UNCHANGED vars
  <2>1. cons' = cons /\ pc' = pc /\ con' = con
    BY <1>6, Zenon DEF Shutdown, Fill, CloseCons, SendPanics, vars
  <2>2. Holders \subseteq Holders'
    BY <2>1, Zenon DEF Holders, HasToken
  <2> QED BY <1>a, <2>1, <2>2, KeptToken, Zenon
<1> QED
  BY <1>1, <1>2, <1>3, <1>4, <1>5, <1>6, Zenon DEF Next, QueryStep, ShutdownStep

\* No token is ever lost, whatever mix of dial failures, timeouts, full
\* channels and shutdowns the pool goes through (Get, Release and Discard of
\* dns_pool.go): the pool cannot run dry for good.
THEOREM NoTokenLost == Spec => []TokensNeverLost
<1>1. Init => TokensNeverLost
  <2> SUFFICES ASSUME Init PROVE TokensNeverLost
    OBVIOUS
  <2>1. Len(cons) = MaxConnections
    BY PoolAssumption DEF Init
  <2> QED BY <2>1, HoldersFinite, PoolAssumption DEF TokensNeverLost
<1>2. TypeInv /\ TokensNeverLost /\ [Next]_vars => TokensNeverLost'
  BY TokensStep
<1> QED BY <1>1, <1>2, TypeInvAlways, StepOfSpec, PTL DEF Spec

-----------------------------------------------------------------------------
(* The pool in steady use: dials succeed and nobody shuts it down.          *)

\* No request is on an error path of Get, so whoever discards has a connection,
\* and the channel stays open.
NoSurplusPath ==
  /\ ~closed /\ \A k \in Closers : spc[k] = "idle"
  /\ \A q \in Queries : /\ pc[q] # "errSend"
                        /\ pc[q] \in {"discard", "discardSend"} => con[q] # Nil

\* No token is gained either.
NoTokenGained == Len(cons) + Cardinality(Holders) <= MaxConnections

SteadyInv == Steady => NoSurplusPath /\ NoTokenGained

LEMMA NoSurplusPathStep ==
  ASSUME TypeInv, Steady, NoSurplusPath, [Next]_vars
  PROVE  NoSurplusPath'
<1>a. con \in [Queries -> Conns \cup {Nil}] /\ pc \in [Queries -> QueryPC]
  BY Zenon DEF TypeInv, TypeOK
<1>b. ConnAtPC /\ ~closed /\ ~DialFails /\ ~Closes
  BY DEF TypeInv, NoSurplusPath, Steady
<1>1. ASSUME NEW q \in Queries, QueryStep(q) PROVE NoSurplusPath'
  <2>1. closed' = closed /\ spc' = spc
    BY <1>1 DEF QueryStep, Get, Dial, DialError, ErrSend, Write, WriteError, Read, ReadTimeout,
                Discard, DiscardSend, Release, ReleaseSend, shutdownVars
  <2>2. \A r \in Queries : r # q => pc'[r] = pc[r] /\ con'[r] = con[r]
    <3>1. CASE Get(q) \/ Dial(q) \/ Write(q) \/ WriteError(q) \/ Read(q) \/ ReadTimeout(q)
      BY <3>1, <1>a DEF Get, Dial, Write, WriteError, Read, ReadTimeout, Go
    <3>2. CASE DialError(q) \/ ErrSend(q) \/ Discard(q) \/ DiscardSend(q) \/ Release(q) \/ ReleaseSend(q)
      BY <3>2, <1>a DEF DialError, ErrSend, Discard, DiscardSend, Release, ReleaseSend,
                        CloseAndFinish, Go
    <3> QED BY <1>1, <3>1, <3>2 DEF QueryStep
  <2>3. \/ pc'[q] \notin {"errSend", "discard", "discardSend"}
        \/ pc'[q] \in {"discard", "discardSend"} /\ con'[q] # Nil
    <3>1. CASE Get(q) \/ Dial(q) \/ Write(q) \/ Read(q) \/ Release(q) \/ ReleaseSend(q)
      BY <3>1, <1>a DEF Get, Dial, Write, Read, Release, ReleaseSend, Go
    <3>2. CASE WriteError(q) \/ ReadTimeout(q)
      BY <3>2, <1>a, <1>b DEF WriteError, ReadTimeout, AfterError, Go, ConnAtPC
    <3>3. CASE DialError(q) \/ ErrSend(q)
      BY <3>3, <1>b DEF DialError, ErrSend, NoSurplusPath
    <3>4. CASE Discard(q) \/ DiscardSend(q)
      BY <3>4, <1>a DEF Discard, DiscardSend, CloseAndFinish, Go, NoSurplusPath
    <3> QED BY <1>1, <3>1, <3>2, <3>3, <3>4 DEF QueryStep
  <2> QED BY <2>1, <2>2, <2>3 DEF NoSurplusPath
<1>2. ASSUME NEW k \in Closers, ShutdownStep(k) PROVE FALSE
  BY <1>2, <1>b DEF ShutdownStep, Shutdown, Fill, FillSend, CloseCons, NoSurplusPath
<1>3. CASE SendPanics
  BY <1>3, <1>b DEF SendPanics
<1>4. CASE UNCHANGED vars
  BY <1>4, Zenon DEF vars, NoSurplusPath
<1> QED BY <1>1, <1>2, <1>3, <1>4 DEF Next

\* What one request takes or gives back, the channel loses or gets.
LEMMA NoTokenGainedStep ==
  ASSUME TypeInv, Steady, NoSurplusPath, NoTokenGained, [Next]_vars
  PROVE  NoTokenGained'
<1>a. TypeOK /\ ConnAtPC
  BY DEF TypeInv
<1>b. con \in [Queries -> Conns \cup {Nil}] /\ pc \in [Queries -> QueryPC]
  BY <1>a, Zenon DEF TypeOK
<1>c. cons \in Seq(Conns \cup {Nil})
  BY <1>a, Zenon DEF TypeOK
<1>d. Len(cons) \in Nat /\ MaxConnections \in Nat
  BY <1>c, PoolAssumption
<1>e. ~closed /\ ~DialFails /\ ~Closes
  BY DEF NoSurplusPath, Steady
<1>f. ASSUME cons' = cons, Holders' \subseteq Holders PROVE NoTokenGained'
  <2>1. Cardinality(Holders') <= Cardinality(Holders)
    BY <1>f, HoldersFinite, FS_Subset
  <2> QED BY <2>1, <1>d, <1>f, HoldersFinite DEF NoTokenGained
<1>1. ASSUME NEW q \in Queries, Get(q) PROVE NoTokenGained'
  <2>1. pc[q] = "get" /\ \A r \in Queries : r # q => pc'[r] = pc[r] /\ con'[r] = con[r]
    BY <1>1, <1>b DEF Get, Go
  <2>2. Holders' \subseteq Holders \cup {q} /\ q \notin Holders
    BY <2>1 DEF Holders, HasToken
  <2>3. Len(cons') = Len(cons) - 1
    BY <1>1, <1>c, <1>e DEF Get
  <2>4. /\ IsFiniteSet(Holders \cup {q})
        /\ Cardinality(Holders \cup {q}) = Cardinality(Holders) + 1
    BY <2>2, HoldersFinite, FS_AddElement, Zenon
  <2>5. Cardinality(Holders') <= Cardinality(Holders \cup {q})
    BY <2>2, <2>4, FS_Subset
  <2>6. Cardinality(Holders') <= Cardinality(Holders) + 1
    BY <2>4, <2>5
  <2> QED BY <2>3, <2>6, <1>d, HoldersFinite DEF NoTokenGained
<1>2. ASSUME NEW q \in Queries,
             Dial(q) \/ Write(q) \/ WriteError(q) \/ Read(q) \/ ReadTimeout(q)
             \/ Discard(q) \/ Release(q)
      PROVE NoTokenGained'
  <2>1. cons' = cons
    BY <1>2, Zenon DEF Dial, Write, WriteError, Read, ReadTimeout, Discard, Release
  <2>2. \A r \in Queries : r # q => pc'[r] = pc[r] /\ con'[r] = con[r]
    BY <1>2, <1>b DEF Dial, Write, WriteError, Read, ReadTimeout, Discard, Release,
                      CloseAndFinish, Go
  <2>3. q \in Holders
    BY <1>2 DEF Dial, Write, WriteError, Read, ReadTimeout, Discard, Release, Holders,
                HasToken, NoSurplusPath
  <2>4. Holders' \subseteq Holders
    BY <2>2, <2>3 DEF Holders, HasToken
  <2> QED BY <2>1, <2>4, <1>f
<1>3. ASSUME NEW q \in Queries, DialError(q) \/ ErrSend(q) PROVE FALSE
  BY <1>3, <1>e DEF DialError, ErrSend, NoSurplusPath
<1>4. ASSUME NEW q \in Queries, DiscardSend(q) \/ ReleaseSend(q) PROVE NoTokenGained'
  <2>1. Send(Nil) \/ Send(con[q])
    BY <1>4, Zenon DEF DiscardSend, ReleaseSend
  <2>2. Len(cons') = Len(cons) + 1
    BY <1>b, <1>c, <2>1 DEF Send
  <2>3. /\ pc[q] \in {"discardSend", "releaseSend"} /\ pc'[q] = "done"
        /\ \A r \in Queries : r # q => pc'[r] = pc[r] /\ con'[r] = con[r]
    BY <1>4, <1>b DEF DiscardSend, ReleaseSend, CloseAndFinish, Go
  <2>4. q \in Holders /\ Holders' \subseteq Holders \ {q}
    BY <2>3 DEF Holders, HasToken, NoSurplusPath
  <2>5. /\ IsFiniteSet(Holders \ {q})
        /\ Cardinality(Holders \ {q}) = Cardinality(Holders) - 1
    BY <2>4, HoldersFinite, FS_RemoveElement, Zenon
  <2>6. Cardinality(Holders') <= Cardinality(Holders \ {q})
    BY <2>4, <2>5, FS_Subset
  <2>7. Cardinality(Holders') <= Cardinality(Holders) - 1
    BY <2>5, <2>6
  <2> QED BY <2>2, <2>7, <1>d, HoldersFinite DEF NoTokenGained
<1>5. ASSUME NEW k \in Closers, ShutdownStep(k) PROVE FALSE
  BY <1>5, <1>e DEF ShutdownStep, Shutdown, Fill, FillSend, CloseCons, NoSurplusPath
<1>6. CASE SendPanics
  BY <1>6, <1>e DEF SendPanics
<1>7. CASE UNCHANGED vars
  <2>1. cons' = cons /\ Holders' = Holders
    BY <1>7, Zenon DEF vars, Holders, HasToken
  <2> QED BY <2>1, <1>f
<1> QED BY <1>1, <1>2, <1>3, <1>4, <1>5, <1>6, <1>7, Zenon DEF Next, QueryStep

LEMMA SteadyInvAlways == Spec => []SteadyInv
<1>1. Init => SteadyInv
  <2> SUFFICES ASSUME Init PROVE NoSurplusPath /\ NoTokenGained
    BY DEF SteadyInv
  <2>1. NoSurplusPath
    BY DEF Init, NoSurplusPath
  <2>2. Len(cons) = MaxConnections
    BY PoolAssumption DEF Init
  <2>3. Holders = {}
    BY DEF Init, Holders, HasToken
  <2> QED BY <2>1, <2>2, <2>3, FS_EmptySet, PoolAssumption DEF NoTokenGained
<1>2. TypeInv /\ SteadyInv /\ [Next]_<<vars, setting>> => SteadyInv'
  <2> SUFFICES ASSUME TypeInv, SteadyInv, [Next]_<<vars, setting>>, Steady'
               PROVE  NoSurplusPath' /\ NoTokenGained'
    BY DEF SteadyInv
  <2>1. setting' = setting /\ [Next]_vars
    BY DEF Next
  <2>2. Steady /\ NoSurplusPath /\ NoTokenGained
    BY <2>1 DEF Steady, DialFails, Closes, SteadyInv
  <2> QED BY <2>1, <2>2, NoSurplusPathStep, NoTokenGainedStep
<1> QED BY <1>1, <1>2, TypeInvAlways, PTL DEF Spec

\* As long as dials succeed and the pool is not shut down, never more than
\* MaxConnections connections are with requests ("max connections this pool can
\* hand out", dns_pool.go 24).
THEOREM BoundHolds == Spec => []AtMostMaxConnections
<1>1. TypeInv /\ SteadyInv => AtMostMaxConnections
  <2> SUFFICES ASSUME TypeInv, SteadyInv, Steady
               PROVE  Cardinality({q \in Queries : con[q] # Nil}) <= MaxConnections
    BY DEF AtMostMaxConnections
  <2>1. NoSurplusPath /\ NoTokenGained
    BY DEF SteadyInv
  <2>2. cons \in Seq(Conns \cup {Nil}) /\ pc \in [Queries -> QueryPC] /\ ConnAtPC
    BY Zenon DEF TypeInv, TypeOK
  <2>3. {q \in Queries : con[q] # Nil} \subseteq Holders
    BY <2>2 DEF ConnAtPC, QueryPC, Holders, HasToken
  <2>4. Cardinality({q \in Queries : con[q] # Nil}) <= Cardinality(Holders)
    BY <2>3, HoldersFinite, FS_Subset
  <2>5. /\ Len(cons) \in Nat /\ MaxConnections \in Nat
        /\ Cardinality({q \in Queries : con[q] # Nil}) \in Nat
    BY <2>2, <2>3, PoolAssumption, HoldersFinite, FS_Subset, FS_CardinalityType
  <2> QED BY <2>1, <2>4, <2>5, HoldersFinite DEF NoTokenGained
<1> QED BY <1>1, TypeInvAlways, SteadyInvAlways, PTL

\* As long as dials succeed and the pool is not shut down, the requests never
\* all wait for each other: a drained channel means that somebody holds a token,
\* a full one that nobody does (Get 124-128, Release 174-180, Discard 186-190 of dns_pool.go).
THEOREM SomebodyCanGoOn == Spec => []NoQueryStuck
<1>1. TypeInv /\ SteadyInv /\ TokensNeverLost => NoQueryStuck
  <2> SUFFICES ASSUME TypeInv, SteadyInv, TokensNeverLost, Steady,
                      NEW q \in Queries, pc[q] # "done",
                      \A r \in Queries : pc[r] # "done" => Waits(r)
               PROVE  FALSE
    BY DEF NoQueryStuck
  <2>1. NoSurplusPath /\ NoTokenGained
    BY DEF SteadyInv
  <2>2. cons \in Seq(Conns \cup {Nil}) /\ MaxConnections \in Nat \ {0}
    BY PoolAssumption, Zenon DEF TypeInv, TypeOK
  <2>3. CASE cons = <<>>
    <3>1. Cardinality(Holders) # 0
      BY <2>2, <2>3, HoldersFinite DEF TokensNeverLost
    <3>2. PICK h \in Holders : TRUE
      BY <3>1, FS_EmptySet
    <3>3. ~Full
      BY <2>2, <2>3 DEF Full
    <3> QED BY <3>2, <3>3 DEF Holders, HasToken, Waits
  <2>4. CASE cons # <<>>
    <3>1. Full /\ pc[q] \in {"errSend", "discardSend", "releaseSend"}
      BY <2>4 DEF Waits
    <3>2. q \in Holders
      BY <3>1, <2>1 DEF Holders, HasToken, NoSurplusPath
    <3>3. Cardinality(Holders) # 0
      BY <3>2, HoldersFinite, FS_EmptySet
    <3> QED BY <2>1, <2>2, <3>1, <3>3, HoldersFinite DEF NoTokenGained, Full
  <2> QED BY <2>3, <2>4
<1> QED BY <1>1, TypeInvAlways, SteadyInvAlways, NoTokenLost, PTL

-----------------------------------------------------------------------------
(* Connections.  OwnAnswer needs to know what is in flight on a connection  *)
(* at each point of a request, and nothing is in flight on an idle one.     *)
WireOf(q) ==
  /\ pc[q] = "write" => wire[con[q]] = {}
  /\ pc[q] = "read" => wire[con[q]] = {q}
  /\ pc[q] \in {"release", "releaseSend"} /\ con[q] # Nil => wire[con[q]] = {}

WireIdle == \A i \in 1..Len(cons) : cons[i] # Nil => wire[cons[i]] = {}

WireAtPC == WireIdle /\ \A q \in Queries : WireOf(q)

ConnInv == ConnExclusive /\ WireAtPC /\ OwnAnswer

\* The channel after a send holds one more token, at its end.
LEMMA SendStep ==
  ASSUME TypeOK, NEW x \in Conns \cup {Nil}, Send(x)
  PROVE  /\ Len(cons') = Len(cons) + 1
         /\ \A i \in 1..Len(cons) : cons'[i] = cons[i]
         /\ cons'[Len(cons')] = x
BY DEF TypeOK, Send

\* Giving back Nil leaves every idle connection where it was.
LEMMA SendNilKeeps ==
  ASSUME TypeOK, Send(Nil)
  PROVE  \A i \in 1..Len(cons') :
           cons'[i] # Nil => i \in 1..Len(cons) /\ cons'[i] = cons[i]
<1>1. /\ Len(cons') = Len(cons) + 1 /\ Len(cons) \in Nat
      /\ \A i \in 1..Len(cons) : cons'[i] = cons[i]
      /\ cons'[Len(cons')] = Nil
  BY SendStep DEF TypeOK
<1> QED BY <1>1

\* The channel after a receive: its elements move up by one place.
LEMMA TailStep ==
  ASSUME NEW S, NEW s \in Seq(S), s # <<>>
  PROVE  /\ Len(s) \in Nat /\ 1 <= Len(s) /\ Head(s) = s[1]
         /\ Len(Tail(s)) = Len(s) - 1
         /\ \A i \in 1..Len(Tail(s)) : i + 1 \in 1..Len(s) /\ Tail(s)[i] = s[i + 1]
OBVIOUS

\* Connections that are only dropped or kept, and idle ones that stay in place,
\* remain exclusive.
LEMMA ExclusiveKept ==
  ASSUME ConnExclusive,
         \A r \in Queries : con'[r] # Nil => con'[r] = con[r] /\ con'[r] \in open',
         \A i \in 1..Len(cons') : cons'[i] # Nil =>
           i \in 1..Len(cons) /\ cons'[i] = cons[i] /\ cons[i] \in open'
  PROVE  ConnExclusive'
<1>1. ASSUME NEW q \in Queries, NEW r \in Queries, con'[q] = con'[r], con'[q] # Nil
      PROVE  q = r
  <2>1. con[q] = con[r] /\ con[q] # Nil
    BY <1>1, Zenon
  <2> QED BY <2>1, Zenon DEF ConnExclusive
<1>2. ASSUME NEW i \in 1..Len(cons'), cons'[i] # Nil
      PROVE  /\ cons'[i] \in open'
             /\ \A q \in Queries : con'[q] # cons'[i]
             /\ \A j \in 1..Len(cons') : cons'[i] = cons'[j] => i = j
  <2>1. i \in 1..Len(cons) /\ cons'[i] = cons[i] /\ cons[i] \in open'
    BY <1>2, Zenon
  <2>2. \A q \in Queries : con[q] # cons[i]
    BY <1>2, <2>1, Zenon DEF ConnExclusive
  <2>3. \A q \in Queries : con'[q] # cons'[i]
    BY <1>2, <2>1, <2>2, Zenon
  <2>4. \A j \in 1..Len(cons) : cons[i] = cons[j] => i = j
    BY <1>2, <2>1, Zenon DEF ConnExclusive
  <2>5. \A j \in 1..Len(cons') : cons'[i] = cons'[j] => i = j
    BY <1>2, <2>1, <2>4, Zenon
  <2> QED BY <2>1, <2>3, <2>5, Zenon
<1> QED BY <1>1, <1>2, Zenon DEF ConnExclusive

\* What is in flight for a request stays so while others work elsewhere.
LEMMA WireOfKept ==
  ASSUME ConnAtPC, WireAtPC, NEW r \in Queries, pc'[r] = pc[r], con'[r] = con[r],
         con[r] # Nil => wire'[con[r]] = wire[con[r]]
  PROVE  WireOf(r)'
<1>1. pc[r] \in {"write", "read"} => con[r] # Nil
  BY DEF ConnAtPC
<1>2. WireOf(r)
  BY Zenon DEF WireAtPC
<1> QED BY <1>1, <1>2 DEF WireOf

\* A step of q that gets it no connection: q keeps or drops the one it has,
\* the others are not touched and no connection enters the channel.
Drops(q) ==
  /\ \A r \in Queries \ {q} : pc'[r] = pc[r] /\ con'[r] = con[r]
  /\ \A c \in Conns : c # con[q] => wire'[c] = wire[c]
  /\ \/ con'[q] = con[q] /\ open' = open
     \/ con'[q] = Nil /\ open' = open \ {con[q]}
  /\ \/ pc'[q] \notin {"write", "read", "release", "releaseSend"}
     \/ pc'[q] = "releaseSend" /\ con'[q] = Nil
     \/ pc'[q] = "releaseSend" /\ pc[q] = "release" /\ con'[q] = con[q] /\ wire' = wire
  /\ \A i \in 1..Len(cons') : cons'[i] # Nil => i \in 1..Len(cons) /\ cons'[i] = cons[i]
  /\ answer' = answer

\* Every failed or finished exchange is such a step, and none of them hurts.
LEMMA DropsStep ==
  ASSUME TypeInv, ConnInv, NEW q \in Queries, Drops(q)
  PROVE  ConnInv'
<1>1. /\ \A r \in Queries : con[r] \in Conns \cup {Nil}
      /\ \A i \in 1..Len(cons) : cons[i] \in Conns \cup {Nil}
  BY DEF TypeInv, TypeOK
<1>2. \A r \in Queries \ {q} : con[r] # Nil => con[r] # con[q]
  BY Zenon DEF ConnInv, ConnExclusive
<1>3. \A i \in 1..Len(cons) : cons[i] # Nil => cons[i] # con[q]
  BY Zenon DEF ConnInv, ConnExclusive
<1>4. \A r \in Queries : con'[r] # Nil => con'[r] = con[r] /\ con'[r] \in open'
  <2> TAKE r \in Queries
  <2> HAVE con'[r] # Nil
  <2>1. con'[r] = con[r] /\ con[r] \in open
    BY Zenon DEF Drops, ConnInv, ConnExclusive
  <2>2. CASE open' = open
    BY <2>1, <2>2
  <2>3. CASE con'[q] = Nil /\ open' = open \ {con[q]}
    <3>1. r # q
      BY <2>3
    <3> QED BY <1>2, <2>1, <2>3, <3>1
  <2> QED BY <2>2, <2>3, Zenon DEF Drops
<1>5. \A i \in 1..Len(cons') : cons'[i] # Nil =>
        /\ i \in 1..Len(cons) /\ cons'[i] = cons[i]
        /\ cons[i] \in open' /\ wire'[cons[i]] = wire[cons[i]]
  <2> TAKE i \in 1..Len(cons')
  <2> HAVE cons'[i] # Nil
  <2>1. i \in 1..Len(cons) /\ cons'[i] = cons[i]
    BY Zenon DEF Drops
  <2>2. cons[i] # con[q] /\ cons[i] \in open /\ cons[i] \in Conns
    BY <1>1, <1>3, <2>1, Zenon DEF ConnInv, ConnExclusive
  <2>3. cons[i] \in open'
    BY <2>2 DEF Drops
  <2>4. wire'[cons[i]] = wire[cons[i]]
    BY <2>2, Zenon DEF Drops
  <2> QED BY <2>1, <2>3, <2>4
<1>6. ConnExclusive'
  BY <1>4, <1>5, ExclusiveKept, Zenon DEF ConnInv
<1>7. ASSUME NEW r \in Queries PROVE WireOf(r)'
  <2>1. CASE r = q
    <3>1. WireOf(q)
      BY Zenon DEF ConnInv, WireAtPC
    <3> QED BY <2>1, <3>1 DEF Drops, WireOf
  <2>2. CASE r # q
    <3>1. pc'[r] = pc[r] /\ con'[r] = con[r]
      BY <2>2, Zenon DEF Drops
    <3>2. con[r] # Nil => wire'[con[r]] = wire[con[r]]
      BY <1>1, <1>2, <2>2, Zenon DEF Drops
    <3> QED BY <3>1, <3>2, WireOfKept, Zenon DEF TypeInv, ConnInv
  <2> QED BY <2>1, <2>2
<1>8. WireAtPC'
  <2>1. WireIdle'
    BY <1>5, Zenon DEF ConnInv, WireAtPC, WireIdle
  <2> QED BY <1>7, <2>1, Zenon DEF WireAtPC
<1>9. OwnAnswer'
  BY Zenon DEF Drops, ConnInv, OwnAnswer
<1> QED BY <1>6, <1>8, <1>9 DEF ConnInv

LEMMA ConnStep ==
  ASSUME TypeInv, ConnInv, [Next]_vars
  PROVE  ConnInv'
<1>a. /\ con \in [Queries -> Conns \cup {Nil}] /\ pc \in [Queries -> QueryPC]
      /\ wire \in [Conns -> SUBSET Queries] /\ answer \in [Queries -> Queries \cup {Nil}]
      /\ Nil \notin Conns
  BY PoolAssumption DEF TypeInv, TypeOK
<1>b. ConnAtPC
  BY DEF TypeInv
<1>c. ASSUME cons' = cons
      PROVE  \A i \in 1..Len(cons') : cons'[i] # Nil => i \in 1..Len(cons) /\ cons'[i] = cons[i]
  BY <1>c
<1>d. ASSUME Send(Nil)
      PROVE  \A i \in 1..Len(cons') : cons'[i] # Nil => i \in 1..Len(cons) /\ cons'[i] = cons[i]
  BY <1>d, SendNilKeeps DEF TypeInv
<1>e. ASSUME NEW q \in Queries, con[q] # Nil, UNCHANGED <<cons, open, con>>,
             \A r \in Queries : r # q => pc'[r] = pc[r],
             \A c \in Conns : c # con[q] => wire'[c] = wire[c],
             WireOf(q)', OwnAnswer'
      PROVE  ConnInv'
  <2>1. ConnExclusive'
    <3>1. \A r \in Queries : con'[r] # Nil => con'[r] = con[r] /\ con'[r] \in open'
      BY <1>e, Zenon DEF ConnInv, ConnExclusive
    <3>2. \A i \in 1..Len(cons') : cons'[i] # Nil =>
            i \in 1..Len(cons) /\ cons'[i] = cons[i] /\ cons[i] \in open'
      BY <1>e, Zenon DEF ConnInv, ConnExclusive
    <3> QED BY <3>1, <3>2, ExclusiveKept, Zenon DEF ConnInv
  <2>2. WireIdle'
    <3>1. \A i \in 1..Len(cons) : cons[i] # Nil => cons[i] # con[q] /\ cons[i] \in Conns
      BY DEF ConnInv, ConnExclusive, TypeInv, TypeOK
    <3> QED BY <1>e, <3>1, Zenon DEF ConnInv, WireAtPC, WireIdle
  <2>3. ASSUME NEW r \in Queries, r # q PROVE WireOf(r)'
    <3>1. con[r] # Nil => con[r] # con[q] /\ con[r] \in Conns
      BY <1>a, <1>e, <2>3 DEF ConnInv, ConnExclusive
    <3> QED BY <1>b, <1>e, <2>3, <3>1, WireOfKept, Zenon DEF ConnInv
  <2> QED BY <1>e, <2>1, <2>2, <2>3, Zenon DEF ConnInv, WireAtPC
<1>f. ASSUME UNCHANGED <<open, wire, pc, con, answer>>,
             \A i \in 1..Len(cons') : cons'[i] # Nil => i \in 1..Len(cons) /\ cons'[i] = cons[i]
      PROVE  ConnInv'
  <2>1. ConnExclusive'
    <3>1. \A r \in Queries : con'[r] # Nil => con'[r] = con[r] /\ con'[r] \in open'
      BY <1>f, Zenon DEF ConnInv, ConnExclusive
    <3>2. \A i \in 1..Len(cons') : cons'[i] # Nil =>
            i \in 1..Len(cons) /\ cons'[i] = cons[i] /\ cons[i] \in open'
      BY <1>f, Zenon DEF ConnInv, ConnExclusive
    <3> QED BY <3>1, <3>2, ExclusiveKept, Zenon DEF ConnInv
  <2>2. WireIdle'
    BY <1>f, Zenon DEF ConnInv, WireAtPC, WireIdle
  <2>3. \A q \in Queries : WireOf(q)'
    BY <1>f, Zenon DEF ConnInv, WireAtPC, WireOf
  <2>4. OwnAnswer'
    BY <1>f, Zenon DEF ConnInv, OwnAnswer
  <2> QED BY <2>1, <2>2, <2>3, <2>4, Zenon DEF ConnInv, WireAtPC
<1>1. ASSUME NEW q \in Queries, Get(q) PROVE ConnInv'
  <2>0. /\ con[q] = Nil
        /\ pc' = [pc EXCEPT ![q] = IF con'[q] = Nil THEN "dial" ELSE "write"]
        /\ UNCHANGED <<open, wire, answer>>
    BY <1>1, <1>b, Zenon DEF Get, ConnAtPC, Go
  <2>1. CASE cons # <<>>
    <3>1. con' = [con EXCEPT ![q] = Head(cons)] /\ cons' = Tail(cons)
      BY <1>1, <2>1, Zenon DEF Get
    <3>2. /\ con' = [con EXCEPT ![q] = cons[1]] /\ 1 \in 1..Len(cons)
          /\ Len(cons') \in Nat
          /\ \A i \in 1..Len(cons') : i + 1 \in 1..Len(cons) /\ cons'[i] = cons[i + 1]
      <4>1. cons \in Seq(Conns \cup {Nil})
        BY DEF TypeInv, TypeOK
      <4>2. /\ Len(cons) \in Nat /\ 1 <= Len(cons) /\ Head(cons) = cons[1]
            /\ Len(cons') = Len(cons) - 1
            /\ \A i \in 1..Len(cons') : i + 1 \in 1..Len(cons) /\ cons'[i] = cons[i + 1]
        BY <2>1, <3>1, <4>1, TailStep, Zenon
      <4>3. 1 \in 1..Len(cons)
        BY <4>2
      <4> QED BY <3>1, <4>2, <4>3
    <3>3. ConnExclusive'
      <4>1. \A i \in 1..Len(cons') : cons'[i] # Nil =>
              /\ cons'[i] # cons[1]
              /\ cons'[i] \in open
              /\ \A r \in Queries : con[r] # cons'[i]
              /\ \A j \in 1..Len(cons') : cons'[i] = cons'[j] => i = j
        <5> TAKE i \in 1..Len(cons')
        <5> HAVE cons'[i] # Nil
        <5>0. i \in Nat
          BY <3>2
        <5>1. i + 1 \in 1..Len(cons) /\ cons'[i] = cons[i + 1] /\ i \in Nat
          BY <3>2, <5>0, Zenon
        <5>2. i + 1 # 1
          BY <3>2, <5>1
        <5>3. cons[i + 1] # cons[1]
          BY <3>2, <5>1, <5>2, Zenon DEF ConnInv, ConnExclusive
        <5>4. \A j \in 1..Len(cons') : cons'[i] = cons'[j] => i = j
          <6> TAKE j \in 1..Len(cons')
          <6> HAVE cons'[i] = cons'[j]
          <6>1. j + 1 \in 1..Len(cons) /\ cons'[j] = cons[j + 1] /\ j \in Nat
            BY <3>2
          <6>2. i + 1 = j + 1
            BY <5>1, <6>1, Zenon DEF ConnInv, ConnExclusive
          <6> QED BY <5>1, <6>1, <6>2
        <5> QED BY <5>1, <5>3, <5>4, Zenon DEF ConnInv, ConnExclusive
      <4>2. cons[1] # Nil => cons[1] \in open /\ \A r \in Queries : con[r] # cons[1]
        BY <3>2 DEF ConnInv, ConnExclusive
      <4>3. \A r \in Queries : con'[r] = IF r = q THEN cons[1] ELSE con[r]
        BY <1>a, <3>2
      <4>4. /\ \A r, t \in Queries : con'[r] = con'[t] /\ con'[r] # Nil => r = t
            /\ \A r \in Queries : con'[r] # Nil => con'[r] \in open
        BY <4>2, <4>3 DEF ConnInv, ConnExclusive
      <4>5. \A i \in 1..Len(cons') : cons'[i] # Nil => \A r \in Queries : con'[r] # cons'[i]
        BY <4>1, <4>3
      <4> QED BY <2>0, <4>1, <4>4, <4>5, Zenon DEF ConnExclusive
    <3>4. WireAtPC'
      <4>1. WireIdle'
        <5>1. \A i \in 1..Len(cons') : cons'[i] # Nil => wire[cons'[i]] = {}
          BY <3>2, Zenon DEF ConnInv, WireAtPC, WireIdle
        <5> QED BY <2>0, <5>1, Zenon DEF WireIdle
      <4>2. cons[1] # Nil => wire[cons[1]] = {}
        BY <3>2, Zenon DEF ConnInv, WireAtPC, WireIdle
      <4>3. ASSUME NEW r \in Queries PROVE WireOf(r)'
        <5>1. CASE r = q
          <6>1. con'[q] = cons[1] /\ pc'[q] = IF con'[q] = Nil THEN "dial" ELSE "write"
            BY <1>a, <2>0, <3>2
          <6> QED BY <2>0, <4>2, <5>1, <6>1 DEF WireOf
        <5>2. CASE r # q
          <6>1. pc'[r] = pc[r] /\ con'[r] = con[r] /\ wire' = wire
            BY <1>a, <2>0, <3>2, <5>2
          <6> QED BY <1>b, <6>1, WireOfKept, Zenon DEF ConnInv
        <5> QED BY <5>1, <5>2
      <4> QED BY <4>1, <4>3, Zenon DEF WireAtPC
    <3> QED BY <2>0, <3>3, <3>4, Zenon DEF ConnInv, OwnAnswer
  <2>2. CASE cons = <<>>
    <3>1. UNCHANGED <<cons, con>>
      BY <1>1, <2>2, Zenon DEF Get
    <3>2. pc'[q] = "dial" /\ \A r \in Queries \ {q} : pc'[r] = pc[r]
      BY <1>a, <2>0, <3>1
    <3> QED BY <1>c, <2>0, <3>1, <3>2, DropsStep DEF Drops
  <2> QED BY <2>1, <2>2
<1>2. ASSUME NEW q \in Queries, Dial(q) PROVE ConnInv'
  <2>1. PICK c \in Conns \ open : /\ con' = [con EXCEPT ![q] = c]
                                  /\ open' = open \cup {c}
                                  /\ wire' = [wire EXCEPT ![c] = {}]
    BY <1>2, Zenon DEF Dial
  <2>2. con[q] = Nil /\ pc' = [pc EXCEPT ![q] = "write"] /\ UNCHANGED <<cons, answer>>
    BY <1>2, <1>b DEF Dial, ConnAtPC, Go
  <2>3. /\ con'[q] = c /\ pc'[q] = "write" /\ wire'[c] = {}
        /\ \A r \in Queries : r # q => con'[r] = con[r] /\ pc'[r] = pc[r]
        /\ \A d \in open : d \in Conns => d # c /\ wire'[d] = wire[d]
    BY <1>a, <2>1, <2>2
  <2>4. \A r \in Queries : con[r] # Nil => con[r] \in open /\ con[r] \in Conns
    BY <1>a DEF ConnInv, ConnExclusive
  <2>5. \A i \in 1..Len(cons) : cons[i] # Nil => cons[i] \in open /\ cons[i] \in Conns
    BY DEF ConnInv, ConnExclusive, TypeInv, TypeOK
  <2>6. ConnExclusive'
    <3>1. /\ \A r, t \in Queries : con'[r] = con'[t] /\ con'[r] # Nil => r = t
          /\ \A r \in Queries : con'[r] # Nil => con'[r] \in open'
      BY <2>1, <2>3, <2>4 DEF ConnInv, ConnExclusive
    <3>2. \A i \in 1..Len(cons) : cons[i] # Nil =>
            cons[i] \in open' /\ \A r \in Queries : con'[r] # cons[i]
      BY <2>1, <2>3, <2>5 DEF ConnInv, ConnExclusive
    <3>3. \A i, j \in 1..Len(cons) : cons[i] # Nil /\ cons[i] = cons[j] => i = j
      BY Zenon DEF ConnInv, ConnExclusive
    <3> QED BY <2>2, <3>1, <3>2, <3>3, Zenon DEF ConnExclusive
  <2>7. WireAtPC'
    <3>1. WireIdle'
      BY <2>2, <2>3, <2>5 DEF ConnInv, WireAtPC, WireIdle
    <3>2. ASSUME NEW r \in Queries PROVE WireOf(r)'
      <4>1. CASE r = q
        BY <2>3, <4>1 DEF WireOf
      <4>2. CASE r # q
        <5>1. con[r] # Nil => wire'[con[r]] = wire[con[r]]
          BY <2>3, <2>4
        <5>2. pc'[r] = pc[r] /\ con'[r] = con[r]
          BY <2>3, <4>2, Zenon
        <5> QED BY <1>b, <5>1, <5>2, WireOfKept, Zenon DEF ConnInv
      <4> QED BY <4>1, <4>2
    <3> QED BY <3>1, <3>2, Zenon DEF WireAtPC
  <2> QED BY <2>2, <2>6, <2>7, Zenon DEF ConnInv, OwnAnswer
<1>3. ASSUME NEW q \in Queries, DialError(q) PROVE ConnInv'
  <2>1. /\ pc'[q] \in {"discard", "errSend"} /\ \A r \in Queries \ {q} : pc'[r] = pc[r]
        /\ UNCHANGED <<cons, open, wire, con, answer>>
    BY <1>3, <1>a DEF DialError, Go
  <2> QED BY <1>c, <2>1, DropsStep DEF Drops
<1>4. ASSUME NEW q \in Queries, ErrSend(q) PROVE ConnInv'
  <2>1. /\ pc'[q] = "discard" /\ \A r \in Queries \ {q} : pc'[r] = pc[r]
        /\ UNCHANGED <<open, wire, con, answer>>
    BY <1>4, <1>a DEF ErrSend, Go
  <2>2. Send(Nil)
    BY <1>4 DEF ErrSend
  <2> QED BY <1>d, <2>1, <2>2, DropsStep DEF Drops
<1>5. ASSUME NEW q \in Queries, Write(q) PROVE ConnInv'
  <2>1. con[q] \in Conns /\ wire[con[q]] = {}
    BY <1>5, <1>a, <1>b DEF Write, ConnInv, WireAtPC, WireOf, ConnAtPC
  <2>2. /\ pc'[q] = "read" /\ \A r \in Queries : r # q => pc'[r] = pc[r]
        /\ UNCHANGED <<cons, open, con, answer>>
    BY <1>5, <1>a DEF Write, Go
  <2>3. wire'[con[q]] = {q} /\ \A c \in Conns : c # con[q] => wire'[c] = wire[c]
    BY <1>5, <1>a, <2>1 DEF Write
  <2>4. WireOf(q)'
    BY <2>2, <2>3 DEF WireOf
  <2>5. OwnAnswer'
    BY <2>2, Zenon DEF ConnInv, OwnAnswer
  <2>6. con[q] # Nil
    BY <1>a, <2>1
  <2> QED BY <1>e, <2>2, <2>3, <2>4, <2>5, <2>6, Zenon
<1>6. ASSUME NEW q \in Queries, WriteError(q) PROVE ConnInv'
  <2>1. con[q] \in Conns
    BY <1>6, <1>a, <1>b DEF WriteError, ConnAtPC
  <2>2. /\ pc'[q] = "discard" /\ \A r \in Queries \ {q} : pc'[r] = pc[r]
        /\ UNCHANGED <<cons, open, con, answer>>
    BY <1>6, <1>a DEF WriteError, AfterError, Go
  <2>3. \A c \in Conns : c # con[q] => wire'[c] = wire[c]
    BY <1>6, <1>a, <2>1 DEF WriteError
  <2> QED BY <1>c, <2>2, <2>3, DropsStep DEF Drops
<1>7. ASSUME NEW q \in Queries, Read(q) PROVE ConnInv'
  <2>1. con[q] \in Conns /\ wire[con[q]] = {q}
    BY <1>7, <1>a, <1>b DEF Read, ConnInv, WireAtPC, WireOf, ConnAtPC
  <2>2. /\ pc'[q] = "release" /\ \A r \in Queries : r # q => pc'[r] = pc[r]
        /\ UNCHANGED <<cons, open, con>>
    BY <1>7, <1>a DEF Read, Go
  <2>3. PICK r \in wire[con[q]] : /\ wire' = [wire EXCEPT ![con[q]] = @ \ {r}]
                                  /\ answer' = [answer EXCEPT ![q] = r]
    BY <1>7, Zenon DEF Read
  <2>4. r = q /\ wire[con[q]] \ {r} = {}
    BY <2>1, <2>3
  <2>5. wire'[con[q]] = {} /\ \A c \in Conns : c # con[q] => wire'[c] = wire[c]
    BY <1>a, <2>1, <2>3, <2>4
  <2>6. \A t \in Queries : answer'[t] = IF t = q THEN q ELSE answer[t]
    BY <1>a, <2>3, <2>4
  <2>7. OwnAnswer'
    BY <2>6 DEF ConnInv, OwnAnswer
  <2>8. WireOf(q)'
    BY <2>2, <2>5 DEF WireOf
  <2>9. con[q] # Nil
    BY <1>a, <2>1
  <2> QED BY <1>e, <2>2, <2>5, <2>7, <2>8, <2>9, Zenon
<1>8. ASSUME NEW q \in Queries, ReadTimeout(q) PROVE ConnInv'
  <2>1. /\ pc'[q] = "discard" /\ \A r \in Queries \ {q} : pc'[r] = pc[r]
        /\ UNCHANGED <<cons, open, wire, con, answer>>
    BY <1>8, <1>a DEF ReadTimeout, AfterError, Go
  <2> QED BY <1>c, <2>1, DropsStep DEF Drops
<1>9. ASSUME NEW q \in Queries, Discard(q) PROVE ConnInv'
  <2>1. /\ pc'[q] \in {"done", "discardSend"} /\ UNCHANGED <<cons, wire, answer>>
        /\ \/ con'[q] = con[q] /\ open' = open
           \/ con'[q] = Nil /\ open' = open \ {con[q]}
    BY <1>9, <1>a DEF Discard, CloseAndFinish, Go
  <2>2. \A r \in Queries \ {q} : pc'[r] = pc[r] /\ con'[r] = con[r]
    BY <1>9, <1>a DEF Discard, CloseAndFinish, Go
  <2> QED BY <1>c, <2>1, <2>2, DropsStep DEF Drops
<1>10. ASSUME NEW q \in Queries, DiscardSend(q) PROVE ConnInv'
  <2>1. /\ pc'[q] = "done" /\ UNCHANGED <<wire, answer>>
        /\ con'[q] = Nil /\ open' = open \ {con[q]}
    BY <1>10, <1>a DEF DiscardSend, CloseAndFinish, Go
  <2>2. \A r \in Queries \ {q} : pc'[r] = pc[r] /\ con'[r] = con[r]
    BY <1>10, <1>a DEF DiscardSend, CloseAndFinish, Go
  <2>3. Send(Nil)
    BY <1>10 DEF DiscardSend
  <2> QED BY <1>d, <2>1, <2>2, <2>3, DropsStep DEF Drops
<1>11. ASSUME NEW q \in Queries, Release(q) PROVE ConnInv'
  <2>1. /\ pc[q] = "release" /\ pc'[q] \in {"done", "releaseSend"}
        /\ UNCHANGED <<cons, wire, answer>>
        /\ \/ con'[q] = con[q] /\ open' = open
           \/ con'[q] = Nil /\ open' = open \ {con[q]}
    BY <1>11, <1>a DEF Release, Go
  <2>2. \A r \in Queries \ {q} : pc'[r] = pc[r] /\ con'[r] = con[r]
    BY <1>11, <1>a DEF Release, Go
  <2> QED BY <1>c, <2>1, <2>2, DropsStep DEF Drops
<1>12. ASSUME NEW q \in Queries, ReleaseSend(q) PROVE ConnInv'
  <2>1. /\ pc[q] = "releaseSend" /\ Send(con[q]) /\ con[q] \in Conns \cup {Nil}
        /\ UNCHANGED <<open, wire, answer>>
    BY <1>12, <1>a DEF ReleaseSend
  <2>2. /\ pc'[q] = "done" /\ con'[q] = Nil
        /\ \A r \in Queries : r # q => pc'[r] = pc[r] /\ con'[r] = con[r]
    BY <1>12, <1>a DEF ReleaseSend, Go
  <2>3. \A i \in 1..Len(cons') : \/ i = Len(cons') /\ cons'[i] = con[q]
                                 \/ i \in 1..Len(cons) /\ cons'[i] = cons[i]
    <3>1. /\ Len(cons) \in Nat /\ Len(cons') = Len(cons) + 1
          /\ \A i \in 1..Len(cons) : cons'[i] = cons[i]
          /\ cons'[Len(cons')] = con[q]
      BY <2>1, SendStep DEF TypeInv, TypeOK
    <3> QED BY <3>1
  <2>4. con[q] # Nil => /\ con[q] \in open /\ wire[con[q]] = {}
                        /\ \A r \in Queries : r # q => con[r] # con[q]
                        /\ \A i \in 1..Len(cons) : cons[i] # con[q]
    BY <2>1 DEF ConnInv, ConnExclusive, WireAtPC, WireOf
  <2>5. ConnExclusive'
    <3>1. \A r \in Queries : con'[r] # Nil => r # q /\ con'[r] = con[r]
      BY <2>2, Zenon
    <3>2. \A i, j \in 1..Len(cons') : cons'[i] # Nil /\ cons'[i] = cons'[j] => i = j
      <4> TAKE i, j \in 1..Len(cons')
      <4> HAVE cons'[i] # Nil /\ cons'[i] = cons'[j]
      <4>1. CASE i \in 1..Len(cons) /\ cons'[i] = cons[i]
        <5>1. CASE j = Len(cons') /\ cons'[j] = con[q]
          BY <2>4, <4>1, <5>1, Zenon
        <5>2. CASE j \in 1..Len(cons) /\ cons'[j] = cons[j]
          BY <4>1, <5>2, Zenon DEF ConnInv, ConnExclusive
        <5> QED BY <2>3, <5>1, <5>2, Zenon
      <4>2. CASE i = Len(cons') /\ cons'[i] = con[q]
        <5>1. CASE j = Len(cons') /\ cons'[j] = con[q]
          BY <4>2, <5>1, Zenon
        <5>2. CASE j \in 1..Len(cons) /\ cons'[j] = cons[j]
          BY <2>4, <4>2, <5>2, Zenon
        <5> QED BY <2>3, <5>1, <5>2, Zenon
      <4> QED BY <2>3, <4>1, <4>2, Zenon
    <3>3. \A i \in 1..Len(cons') : cons'[i] # Nil =>
            cons'[i] \in open /\ \A r \in Queries : con'[r] # cons'[i]
      <4> TAKE i \in 1..Len(cons')
      <4> HAVE cons'[i] # Nil
      <4>1. CASE i \in 1..Len(cons) /\ cons'[i] = cons[i]
        <5>1. cons[i] \in open /\ \A r \in Queries : con[r] # cons[i]
          BY <4>1, Zenon DEF ConnInv, ConnExclusive
        <5> QED BY <3>1, <4>1, <5>1, Zenon
      <4>2. CASE cons'[i] = con[q]
        BY <2>4, <3>1, <4>2, Zenon
      <4> QED BY <2>3, <4>1, <4>2, Zenon
    <3>4. \A r, t \in Queries : con'[r] = con'[t] /\ con'[r] # Nil => r = t
      BY <3>1, Zenon DEF ConnInv, ConnExclusive
    <3>5. \A r \in Queries : con'[r] # Nil => con'[r] \in open
      BY <3>1, Zenon DEF ConnInv, ConnExclusive
    <3> QED BY <2>1, <3>2, <3>3, <3>4, <3>5, Zenon DEF ConnExclusive
  <2>6. WireAtPC'
    <3>1. WireIdle'
      BY <2>1, <2>3, <2>4, Zenon DEF ConnInv, WireAtPC, WireIdle
    <3>2. ASSUME NEW r \in Queries PROVE WireOf(r)'
      <4>1. CASE r = q
        BY <2>2, <4>1 DEF WireOf
      <4>2. CASE r # q
        BY <1>b, <2>1, <2>2, <4>2, WireOfKept, Zenon DEF ConnInv
      <4> QED BY <4>1, <4>2
    <3> QED BY <3>1, <3>2, Zenon DEF WireAtPC
  <2> QED BY <2>1, <2>5, <2>6, Zenon DEF ConnInv, OwnAnswer
<1>13. ASSUME NEW k \in Closers, FillSend(k) PROVE ConnInv'
  <2>1. Send(Nil) /\ UNCHANGED <<open, wire, pc, con, answer>>
    BY <1>13 DEF FillSend
  <2> QED BY <1>d, <1>f, <2>1
<1>14. CASE \/ \E k \in Closers : Shutdown(k) \/ Fill(k) \/ CloseCons(k)
            \/ SendPanics \/ UNCHANGED vars
  <2>1. UNCHANGED <<cons, open, wire, pc, con, answer>>
    BY <1>14, Zenon DEF Shutdown, Fill, CloseCons, SendPanics, vars
  <2> QED BY <1>c, <1>f, <2>1
<1> QED
  BY <1>1, <1>2, <1>3, <1>4, <1>5, <1>6, <1>7, <1>8, <1>9, <1>10, <1>11, <1>12,
     <1>13, <1>14, ZenonT(60) DEF Next, QueryStep, ShutdownStep

LEMMA ConnInvAlways == Spec => []ConnInv
<1>1. Init => ConnInv
  <2> SUFFICES ASSUME Init PROVE ConnInv
    OBVIOUS
  <2>1. \A i \in 1..Len(cons) : cons[i] = Nil
    BY PoolAssumption DEF Init
  <2>2. \A q \in Queries : con[q] = Nil /\ pc[q] = "get" /\ answer[q] = Nil
    BY DEF Init
  <2>3. ConnExclusive
    BY <2>1, <2>2, Zenon DEF ConnExclusive
  <2>4. WireAtPC
    BY <2>1, <2>2 DEF WireAtPC, WireIdle, WireOf
  <2> QED BY <2>2, <2>3, <2>4 DEF ConnInv, OwnAnswer
<1>2. TypeInv /\ ConnInv /\ [Next]_vars => ConnInv'
  BY ConnStep
<1> QED BY <1>1, <1>2, TypeInvAlways, StepOfSpec, PTL DEF Spec

\* A connection is never with two requests, never both idle and in use, and
\* never idle after it has been closed (Release and Discard of dns_pool.go).
THEOREM ExclusiveUse == Spec => []ConnExclusive
BY ConnInvAlways, PTL DEF ConnInv

\* No request is answered with the answer to another request, although the
\* message id is not enforced (dns_source.go 114-124): query() discards the
\* connection of every failed exchange, so nothing is left in flight on a
\* connection that goes back to the pool.
THEOREM AnswersMatch == Spec => []OwnAnswer
BY ConnInvAlways, PTL DEF ConnInv

-----------------------------------------------------------------------------
(* The pool implements the leasing of connections (ConnectionLeases): each  *)
(* step of a request is a step of a lease or changes nothing that a lease   *)
(* is about.                                                                *)

\* What a send adds to the idle connections: nothing if it is Nil.
LEMMA IdleAfterSend ==
  ASSUME TypeOK, NEW x \in Conns \cup {Nil}, Send(x)
  PROVE  IdleConns' = IdleConns \cup ({x} \ {Nil})
<1>1. /\ Len(cons) \in Nat /\ Len(cons') = Len(cons) + 1
      /\ \A i \in 1..Len(cons) : cons'[i] = cons[i]
      /\ cons'[Len(cons')] = x
  BY SendStep DEF TypeOK
<1>2. \A c : c \in IdleConns' => c \in IdleConns \cup ({x} \ {Nil})
  BY <1>1 DEF IdleConns
<1>3. \A c : c \in IdleConns \cup ({x} \ {Nil}) => c \in IdleConns'
  BY <1>1 DEF IdleConns
<1> QED BY <1>2, <1>3, Zenon

\* A receive takes the connection it yields, and no other, out of the idle ones:
\* a connection is in the channel only once.
LEMMA IdleAfterGet ==
  ASSUME TypeOK, ConnExclusive, cons # <<>>, cons' = Tail(cons)
  PROVE  IdleConns' = IdleConns \ {Head(cons)}
<1>1. /\ Len(cons) \in Nat /\ 1 <= Len(cons) /\ Head(cons) = cons[1]
      /\ Len(cons') = Len(cons) - 1
      /\ \A i \in 1..Len(cons') : i + 1 \in 1..Len(cons) /\ cons'[i] = cons[i + 1]
  BY TailStep DEF TypeOK
<1>2. \A i, j \in 1..Len(cons) : cons[i] # Nil /\ cons[i] = cons[j] => i = j
  BY Zenon DEF ConnExclusive
<1>3. ASSUME NEW c, c \in IdleConns' PROVE c \in IdleConns \ {Head(cons)}
  <2>1. PICK i \in 1..Len(cons') : c = cons'[i] /\ c # Nil
    BY <1>3, Zenon DEF IdleConns
  <2>2. i + 1 \in 1..Len(cons) /\ c = cons[i + 1] /\ i + 1 # 1
    BY <1>1, <2>1
  <2>3. c # cons[1]
    BY <1>1, <1>2, <2>1, <2>2
  <2> QED BY <1>1, <2>1, <2>2, <2>3, Zenon DEF IdleConns
<1>4. ASSUME NEW c, c \in IdleConns \ {Head(cons)} PROVE c \in IdleConns'
  <2>1. PICK i \in 1..Len(cons) : c = cons[i] /\ c # Nil /\ i # 1
    BY <1>1, <1>4, Zenon DEF IdleConns
  <2>2. i - 1 \in 1..Len(cons') /\ cons'[i - 1] = c
    BY <1>1, <2>1
  <2> QED BY <2>1, <2>2, Zenon DEF IdleConns
<1> QED BY <1>3, <1>4, Zenon

\* The step of a lease, or none.
LeaseStep == Leases!Next \/ (IdleConns' = IdleConns /\ con' = con)

\* A request that loses its connection without giving it back drops its lease,
\* if it has one.
LEMMA DropIsLease ==
  ASSUME TypeOK, NEW q \in Queries, con' = [con EXCEPT ![q] = Nil], IdleConns' = IdleConns
  PROVE  LeaseStep
<1>1. CASE con[q] = Nil
  <2>1. con' = con
    BY <1>1 DEF TypeOK
  <2> QED BY <2>1 DEF LeaseStep
<1>2. CASE con[q] # Nil
  <2>1. Leases!Drop(q)
    BY <1>2, Zenon DEF Leases!Drop, Leases!EndLease
  <2> QED BY <2>1, Zenon DEF LeaseStep, Leases!Next
<1> QED BY <1>1, <1>2

LEMMA ImplementsStep ==
  ASSUME TypeInv, ConnInv, [Next]_vars
  PROVE  LeaseStep
<1>a. TypeOK /\ ConnExclusive /\ ConnAtPC
  BY Zenon DEF TypeInv, ConnInv
<1>b. con \in [Queries -> Conns \cup {Nil}] /\ Nil \notin Conns
  BY PoolAssumption, <1>a DEF TypeOK
<1>c. ASSUME UNCHANGED <<cons, con>> PROVE LeaseStep
  BY <1>c DEF LeaseStep, IdleConns
<1>d. ASSUME Send(Nil) PROVE IdleConns' = IdleConns
  BY <1>a, <1>d, IdleAfterSend
<1>1. ASSUME NEW q \in Queries, Get(q) PROVE LeaseStep
  <2>1. con[q] = Nil
    BY <1>a, <1>1 DEF ConnAtPC, Get
  <2>2. CASE cons # <<>>
    <3>1. con' = [con EXCEPT ![q] = Head(cons)] /\ cons' = Tail(cons)
      BY <1>1, <2>2, Zenon DEF Get
    <3>2. IdleConns' = IdleConns \ {Head(cons)}
      BY <1>a, <2>2, <3>1, IdleAfterGet, Zenon
    <3>3. CASE Head(cons) = Nil
      <4>1. con' = con
        BY <1>b, <2>1, <3>1, <3>3
      <4>2. IdleConns' = IdleConns
        BY <3>2, <3>3, Zenon DEF IdleConns
      <4> QED BY <4>1, <4>2 DEF LeaseStep
    <3>4. CASE Head(cons) # Nil
      <4>1. 1 \in 1..Len(cons) /\ Head(cons) = cons[1]
        BY <1>a, <2>2, TailStep DEF TypeOK
      <4>2. Head(cons) \in IdleConns
        BY <3>4, <4>1, Zenon DEF IdleConns
      <4>3. Leases!Reuse(q)
        BY <2>1, <3>1, <3>2, <4>2, Zenon DEF Leases!Reuse, Leases!Lease
      <4> QED BY <4>3, Zenon DEF LeaseStep, Leases!Next
    <3> QED BY <3>3, <3>4
  <2>3. CASE cons = <<>>
    <3>1. UNCHANGED <<cons, con>>
      BY <1>1, <2>3, Zenon DEF Get
    <3> QED BY <1>c, <3>1
  <2> QED BY <2>2, <2>3
<1>2. ASSUME NEW q \in Queries, Dial(q) PROVE LeaseStep
  <2>1. PICK c \in Conns \ open : con' = [con EXCEPT ![q] = c]
    BY <1>2, Zenon DEF Dial
  <2>2. con[q] = Nil /\ cons' = cons
    BY <1>a, <1>2 DEF ConnAtPC, Dial
  <2>3. c \notin IdleConns
    BY <1>a, <2>1 DEF IdleConns, ConnExclusive
  <2>4. c \notin Leases!Leased
    BY <1>a, <2>1 DEF Leases!Leased, ConnExclusive
  <2>5. IdleConns' = IdleConns
    BY <2>2, Zenon DEF IdleConns
  <2>6. Leases!Connect(q)
    BY <2>1, <2>2, <2>3, <2>4, <2>5, Zenon DEF Leases!Connect, Leases!Lease
  <2> QED BY <2>6, Zenon DEF LeaseStep, Leases!Next
<1>3. ASSUME NEW q \in Queries, Discard(q) \/ Release(q) PROVE LeaseStep
  <2>1. cons' = cons /\ (con' = con \/ con' = [con EXCEPT ![q] = Nil])
    BY <1>3 DEF Discard, Release, CloseAndFinish
  <2>2. IdleConns' = IdleConns
    BY <2>1, Zenon DEF IdleConns
  <2> QED BY <1>a, <2>1, <2>2, DropIsLease, Zenon DEF LeaseStep
<1>4. ASSUME NEW q \in Queries, DiscardSend(q) PROVE LeaseStep
  <2>1. Send(Nil) /\ con' = [con EXCEPT ![q] = Nil]
    BY <1>4, Zenon DEF DiscardSend, CloseAndFinish
  <2> QED BY <1>a, <1>d, <2>1, DropIsLease, Zenon
<1>5. ASSUME NEW q \in Queries, ReleaseSend(q) PROVE LeaseStep
  <2>1. Send(con[q]) /\ con' = [con EXCEPT ![q] = Nil]
    BY <1>5, Zenon DEF ReleaseSend
  <2>2. IdleConns' = IdleConns \cup ({con[q]} \ {Nil})
    BY <1>a, <1>b, <2>1, IdleAfterSend
  <2>3. CASE con[q] = Nil
    <3>1. IdleConns' = IdleConns
      BY <2>2, <2>3
    <3> QED BY <1>a, <2>1, <3>1, DropIsLease, Zenon
  <2>4. CASE con[q] # Nil
    <3>1. IdleConns' = IdleConns \cup {con[q]}
      BY <2>2, <2>4
    <3>2. Leases!GiveBack(q)
      BY <2>1, <2>4, <3>1, Zenon DEF Leases!GiveBack, Leases!EndLease
    <3> QED BY <3>2, Zenon DEF LeaseStep, Leases!Next
  <2> QED BY <2>3, <2>4
<1>6. ASSUME NEW q \in Queries, ErrSend(q) PROVE LeaseStep
  <2>1. Send(Nil) /\ con' = con
    BY <1>6, Zenon DEF ErrSend
  <2> QED BY <1>d, <2>1, Zenon DEF LeaseStep
<1>7. ASSUME NEW k \in Closers, FillSend(k) PROVE LeaseStep
  <2>1. Send(Nil) /\ con' = con
    BY <1>7, Zenon DEF FillSend, queryVars
  <2> QED BY <1>d, <2>1, Zenon DEF LeaseStep
<1>8. CASE \/ \E q \in Queries : DialError(q) \/ Write(q) \/ WriteError(q) \/ Read(q) \/ ReadTimeout(q)
           \/ \E k \in Closers : Shutdown(k) \/ Fill(k) \/ CloseCons(k)
           \/ SendPanics \/ UNCHANGED vars
  <2>1. UNCHANGED <<cons, con>>
    BY <1>8, Zenon DEF DialError, Write, WriteError, Read, ReadTimeout, Shutdown, Fill,
                       CloseCons, SendPanics, vars, queryVars
  <2> QED BY <1>c, <2>1
<1> QED
  BY <1>1, <1>2, <1>3, <1>4, <1>5, <1>6, <1>7, <1>8, ZenonT(60)
  DEF Next, QueryStep, ShutdownStep

\* The pool with its queries does to connections only what leasing allows
\* (dns_pool.go, and query in dns_source.go), at any size and under any faults.
THEOREM ImplementsLeases == Spec => LeasesConnections
<1>1. Init => Leases!Init
  <2> SUFFICES ASSUME Init PROVE Leases!Init
    OBVIOUS
  <2>1. Len(cons) = MaxConnections /\ \A i \in 1..Len(cons) : cons[i] = Nil
    BY PoolAssumption DEF Init
  <2>2. IdleConns = {}
    BY <2>1, Zenon DEF IdleConns
  <2> QED BY <2>2, Zenon DEF Init, Leases!Init
<1>2. TypeInv /\ ConnInv /\ [Next]_vars => [Leases!Next]_<<IdleConns, con>>
  BY ImplementsStep, Zenon DEF LeaseStep
<1> QED
  BY <1>1, <1>2, TypeInvAlways, ConnInvAlways, StepOfSpec, PTL
  DEF Spec, LeasesConnections, Leases!Spec
=============================================================================

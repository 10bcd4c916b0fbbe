----------------------------- MODULE Resolution -----------------------------
(***************************************************************************)
(* How a request is answered: engine.Handle (engine/engine.go) matches the *)
(* name against the rules and asks the resolvers of the consumer's groups  *)
(* in order (resolver/resolver_map.go); a resolver looks in its partition  *)
(* of the cache, asks its sources in order, tries its search domains and   *)
(* caches what it found (resolver/resolver.go, cache/cache.go).  A source  *)
(* is a leaf, or another resolver (resolver/resolver_source.go).           *)
(*                                                                         *)
(* The calls of a request are a stack of frames, the innermost first: an   *)
(* "E" frame is HandleWithGroups for one name, an "R" frame is             *)
(* resolver.Answer.  Questions are for addresses.  An answer is a record   *)
(* of the question it repeats, the name its records carry, the leaf and    *)
(* the version of the leaf's data it comes from, the name it is an alias   *)
(* for, and, if it comes from a zone file, the record of the zone that it  *)
(* shares.  The cache keeps the message it is given, not a copy, so an     *)
(* entry names the call of HandleWithGroups that still holds that message. *)
(***************************************************************************)
EXTENDS Integers, Sequences, FiniteSets, SequencesExt

CONSTANTS
  Clients,          \* requests made at the same time
  Names,            \* names that are asked for
  Resolvers,        \* the configured resolvers
  Globs,            \* the patterns with a "*"
  Matches,          \* Matches[p]: the names that match pattern p
  Extended,         \* Extended[n][s]: the one-label name n in search domain s
  Leaves,           \* upstream servers, host files, zone files
  Local,            \* leaves whose answers are not cached: host and zone files
  Zones,            \* the zone files among them
  Records,          \* the records of the zone files
  ZoneRecord,       \* ZoneRecord[n]: the record for n, perhaps a wildcard
  Knows,            \* Knows[u]: the names leaf u has an answer for
  Alias,            \* Alias[n]: the name n is an alias for, or NoName
  NoName,
  Settings          \* the configurations; one is in force throughout

ASSUME ResolutionAssumption ==
  /\ Local \subseteq Leaves /\ Zones \subseteq Local
  /\ Leaves \cap Resolvers = {} /\ NoName \notin Names
  /\ \A s \in Settings :
       /\ s.names \subseteq Names /\ s.refused \subseteq Clients
       /\ s.failing \cup s.changing \subseteq Leaves /\ s.cacheEnabled \in BOOLEAN
       /\ s.maxRequests \in Nat /\ s.maxVersion \in Nat

VARIABLES
  setting,  \* the configuration in force
  cache,    \* cache[r][n]: an entry [msg, owner], or NoEntry
  record,   \* record[k]: the name that record k of a zone carries
  version,  \* version[u]: the version of the data of leaf u
  changed,  \* a source changed and the cache is not cleared yet
  stack,    \* stack[c]: the calls of client c, innermost first
  context,  \* context[c]: [visited, stored] of the ResolutionContext
  failed,   \* failed[c]: the leaves that failed during the request of c
  result,   \* result[c]: how the last request of c ended
  requests  \* requests[c]: requests made so far

vars == <<cache, record, version, changed, stack, context, failed, result, requests>>

AskedNames == setting.names           \* the names that clients ask for
Asked == setting.asked                \* Asked[c]: the resolvers of the groups of c, in order
Sources == setting.sources            \* Sources[r]: leaves and names of resolvers, in order
Domains == setting.domains            \* Domains[r]: the patterns r is limited to
Skip == setting.skip                  \* Skip[r]: the patterns r skips
Search == setting.search              \* Search[r]: the search domains of r, in order
Blocked == setting.blocked            \* Blocked[c]: the names the rules block for c
Refused == setting.refused            \* clients whose consumer is blocked
Failing == setting.failing            \* leaves that may fail to answer
Changing == setting.changing          \* leaves whose file may change
CacheEnabled == setting.cacheEnabled  \* storage.cache
MaxRequests == setting.maxRequests    \* bound on the requests of a client
MaxVersion == setting.maxVersion      \* bound on the versions of a leaf

Empty == [q |-> NoName, name |-> NoName, leaf |-> NoName, version |-> 0,
          alias |-> NoName, rec |-> NoName]
NoEntry == [msg |-> Empty, owner |-> NoName]
Message(n, u) == [q |-> n, name |-> n, leaf |-> u, version |-> version[u],
                  alias |-> Alias[n],
                  rec |-> IF u \in Zones THEN ZoneRecord[n] ELSE NoName]
NoResult == [q |-> NoName, msg |-> Empty, rcode |-> "none", match |-> "none"]

\* left: the resolvers ("E") or sources ("R") still to be asked; asked: the
\* name in use, which is q or q in a search domain; search: the search domains
\* left; msg: the answer so far.
EFrame(n) == [k |-> "E", pc |-> "match", r |-> NoName, q |-> n, asked |-> n,
              left |-> <<>>, search |-> <<>>, msg |-> Empty]
RFrame(r, n) == [k |-> "R", pc |-> "query", r |-> r, q |-> n, asked |-> n,
                 left |-> Sources[r], search |-> Search[r], msg |-> Empty]

Init ==
  /\ setting \in Settings
  /\ cache = [r \in Resolvers |-> [n \in Names |-> NoEntry]]
  /\ record = [k \in Records |-> NoName]
  /\ version = [u \in Leaves |-> 0] /\ changed = FALSE
  /\ stack = [c \in Clients |-> <<>>]
  /\ context = [c \in Clients |-> [visited |-> {}, stored |-> FALSE]]
  /\ failed = [c \in Clients |-> {}]
  /\ result = [c \in Clients |-> NoResult]
  /\ requests = [c \in Clients |-> 0]

Top(c) == Head(stack[c])
At(c, k, pc) == stack[c] # <<>> /\ Top(c).k = k /\ Top(c).pc = pc

\* Replace the innermost frame by the frames fs.
Become(c, fs) == stack' = [stack EXCEPT ![c] = fs \o Tail(@)]

\* The call of HandleWithGroups that is running, counted from the outermost.
Depth(c) == Len(SelectSeq(stack[c], LAMBDA f : f.k = "E"))

\* Mutant of Renamed: the question of the original request is not restored.
RenamedRecordsOnly(m, n) == [m EXCEPT !.name = n]

\* The records get the name that was asked for, and SetReply the question.
Renamed(m, n) == [m EXCEPT !.q = n, !.name = n]

\* Message m is changed where it is: in the cache, if this call put it there,
\* and in the zone whose record it shares.  The call at depth d holds it then.
Rename(c, m, n, d) ==
  /\ cache' = [r \in Resolvers |-> [k \in Names |->
       LET e == cache[r][k]
       IN CASE e.owner = <<c, Depth(c)>> -> [msg |-> Renamed(e.msg, n), owner |-> <<c, d>>]
            [] e.owner = <<c, d>> -> [e EXCEPT !.owner = NoName]
            [] OTHER -> e]]
  /\ record' = IF m.rec = NoName THEN record ELSE [record EXCEPT ![m.rec] = n]

\* The request is over: nobody holds its messages but the cache.
Release(c) ==
  cache' = [r \in Resolvers |-> [k \in Names |->
    IF cache[r][k].owner = <<c, 1>> THEN [cache[r][k] EXCEPT !.owner = NoName]
    ELSE cache[r][k]]]

-----------------------------------------------------------------------------
(* The filters of a resolver.                                               *)

\* domainMatches: the first glob in the list decides.
DomainMatches(n, patterns) ==
  \E i \in DOMAIN patterns :
    /\ n \in Matches[patterns[i]]
    /\ \A j \in 1..(i - 1) : patterns[j] \notin Globs

Serves(r, n) ==
  /\ Domains[r] # <<>> => DomainMatches(n, Domains[r])
  /\ Skip[r] # <<>> => ~DomainMatches(n, Skip[r])

\* answerWithContext and the head of resolver.Answer.
Enters(c, r, n) == r \in Resolvers \ context[c].visited /\ Serves(r, n)
Visit(c, r) == context' = [context EXCEPT ![c].visited = @ \cup {r}]

-----------------------------------------------------------------------------
(* engine.Handle and HandleWithConsumer.                                    *)

\* A blocked consumer: SetReply resets the code set before it.
Request(c, n) ==
  /\ stack[c] = <<>> /\ requests[c] < MaxRequests
  /\ requests' = [requests EXCEPT ![c] = @ + 1]
  /\ IF c \in Refused
     THEN /\ result' = [result EXCEPT ![c] =
               [NoResult EXCEPT !.q = n, !.rcode = "success"]]
          /\ UNCHANGED <<stack, failed>>
     ELSE /\ stack' = [stack EXCEPT ![c] = <<EFrame(n)>>]
          /\ failed' = [failed EXCEPT ![c] = {}]
          /\ UNCHANGED result
  /\ UNCHANGED <<cache, record, version, changed, context>>

\* The request ends: the message as it is now, the code and the match.
Ended(c, m, match) ==
  result' = [result EXCEPT ![c] =
    [q |-> Top(c).q, match |-> match,
     msg |-> IF m.rec = NoName THEN m ELSE [m EXCEPT !.name = record[m.rec]],
     rcode |-> IF m = Empty THEN "nxdomain" ELSE "success"]]

\* The "E" frame at the top is done with answer m.  A frame below it was
\* waiting for what its alias stands for: it takes the answer under its own
\* name, or keeps what it has.
Answered(c, m, match) ==
  IF Len(stack[c]) = 1
  THEN Ended(c, m, match) /\ Become(c, <<>>) /\ Release(c) /\ UNCHANGED record
  ELSE LET f == stack[c][2]
           answer == IF m = Empty THEN f.msg ELSE Renamed(m, f.q)
       IN /\ stack' = [stack EXCEPT ![c] =
               << [f EXCEPT !.pc = "done", !.msg = answer] >> \o Tail(Tail(@))]
          /\ IF m = Empty THEN UNCHANGED <<cache, record>>
             ELSE Rename(c, m, f.q, Depth(c) - 1)
          /\ UNCHANGED result

\* HandleWithGroups: a blocked name is not resolved.  AnswerMultiResolvers
\* starts with a new context.
Match(c) ==
  /\ At(c, "E", "match")
  /\ IF Top(c).q \in Blocked[c]
     THEN Answered(c, Empty, "block") /\ UNCHANGED context
     ELSE /\ Become(c, << [Top(c) EXCEPT !.pc = "next", !.left = Asked[c]] >>)
          /\ context' = [context EXCEPT ![c] = [visited |-> {}, stored |-> FALSE]]
          /\ UNCHANGED <<cache, record, result>>
  /\ UNCHANGED <<version, changed, failed, requests>>

\* The loop of AnswerMultiResolvers, and NXDOMAIN after the last.
NextResolver(c) ==
  /\ At(c, "E", "next")
  /\ IF Top(c).left = <<>>
     THEN Answered(c, Empty, "none") /\ UNCHANGED context
     ELSE LET r == Head(Top(c).left)
              f == [Top(c) EXCEPT !.left = Tail(@)]
          IN IF Enters(c, r, f.q)
             THEN Become(c, <<RFrame(r, f.q), f>>) /\ Visit(c, r)
                  /\ UNCHANGED <<cache, record, result>>
             ELSE Become(c, <<f>>) /\ UNCHANGED <<cache, record, result, context>>
  /\ UNCHANGED <<version, changed, failed, requests>>

\* Mutant of Resolved: what an alias stands for is resolved without the rules.
ResolvedNoRules(c) ==
  /\ At(c, "E", "answer")
  /\ IF Top(c).msg.alias # NoName
     THEN /\ Become(c, << [EFrame(Top(c).msg.alias) EXCEPT !.pc = "next", !.left = Asked[c]],
                          Top(c) >>)
          /\ context' = [context EXCEPT ![c] = [visited |-> {}, stored |-> FALSE]]
          /\ UNCHANGED <<cache, record, result>>
     ELSE Answered(c, Top(c).msg, "none") /\ UNCHANGED context
  /\ UNCHANGED <<version, changed, failed, requests>>

\* handleCnameResolution: an alias is resolved in turn, rules included.  The
\* result that is returned is that of HandleWithResolvers, without the match.
Resolved(c) ==
  /\ At(c, "E", "answer")
  /\ IF Top(c).msg.alias # NoName
     THEN /\ Become(c, <<EFrame(Top(c).msg.alias), Top(c)>>)
          /\ UNCHANGED <<cache, record, result>>
     ELSE Answered(c, Top(c).msg, "none")
  /\ UNCHANGED <<version, changed, context, failed, requests>>

AliasResolved(c) ==
  /\ At(c, "E", "done")
  /\ Answered(c, Top(c).msg, "none")
  /\ UNCHANGED <<version, changed, context, failed, requests>>

-----------------------------------------------------------------------------
(* resolver.Answer.                                                         *)

\* The "R" frame at the top returns m to the frame below it: an "E" frame
\* takes an answer or asks its next resolver, an "R" frame its next source.
Return(c, m) ==
  LET f == stack[c][2]
      g == [f EXCEPT !.msg = m, !.pc =
             IF f.k = "R" THEN IF m = Empty THEN "source" ELSE "found"
             ELSE IF m = Empty THEN "next" ELSE "answer"]
  IN stack' = [stack EXCEPT ![c] = <<g>> \o Tail(Tail(@))]

\* Mutant of Lookup: one partition for all resolvers.
LookupShared(r, n) ==
  IF \E s \in Resolvers : cache[s][n] # NoEntry
  THEN cache[CHOOSE s \in Resolvers : cache[s][n] # NoEntry][n].msg ELSE Empty

Lookup(r, n) == cache[r][n].msg

\* A message found is copied; it counts as stored.
QueryCache(c) ==
  /\ At(c, "R", "query")
  /\ LET f == Top(c)
         m == Lookup(f.r, f.q)
     IN IF CacheEnabled /\ m # Empty
        THEN /\ Return(c, m)
             /\ context' = [context EXCEPT ![c].stored = TRUE]
        ELSE /\ Become(c, << [f EXCEPT !.pc = "source"] >>)
             /\ UNCHANGED context
  /\ UNCHANGED <<cache, record, version, changed, failed, result, requests>>

\* Mutant of AskLeaf: an error of a source ends the search for an answer.
AskLeafGivesUp(c, u) ==
  LET f == Top(c)
      g == [f EXCEPT !.left = Tail(@)]
  IN \/ /\ u \in Failing
        /\ Become(c, << [g EXCEPT !.left = <<>>] >>)
        /\ failed' = [failed EXCEPT ![c] = @ \cup {u}]
        /\ UNCHANGED <<context, record>>
     \/ /\ f.asked \in Knows[u]
        /\ Become(c, << [g EXCEPT !.pc = "found", !.msg = Message(f.asked, u)] >>)
        /\ record' = IF u \in Zones THEN [record EXCEPT ![ZoneRecord[f.asked]] = f.asked]
                     ELSE record
        /\ context' = [context EXCEPT ![c].stored = @ \/ u \in Local]
        /\ UNCHANGED failed
     \/ /\ f.asked \notin Knows[u]
        /\ Become(c, <<g>>)
        /\ UNCHANGED <<context, failed, record>>

\* A leaf fails, answers, or has nothing.
AskLeaf(c, u) ==
  LET f == Top(c)
      g == [f EXCEPT !.left = Tail(@)]
  IN \/ /\ u \in Failing
        /\ Become(c, <<g>>)
        /\ failed' = [failed EXCEPT ![c] = @ \cup {u}]
        /\ UNCHANGED <<context, record>>
     \/ /\ f.asked \in Knows[u]
        /\ Become(c, << [g EXCEPT !.pc = "found", !.msg = Message(f.asked, u)] >>)
        /\ record' = IF u \in Zones THEN [record EXCEPT ![ZoneRecord[f.asked]] = f.asked]
                     ELSE record
        /\ context' = [context EXCEPT ![c].stored = @ \/ u \in Local]
        /\ UNCHANGED failed
     \/ /\ f.asked \notin Knows[u]
        /\ Become(c, <<g>>)
        /\ UNCHANGED <<context, failed, record>>

\* resolverSource.Answer
AskResolver(c, r) ==
  LET f == [Top(c) EXCEPT !.left = Tail(@)]
  IN /\ IF Enters(c, r, f.asked)
        THEN Become(c, <<RFrame(r, f.asked), f>>) /\ Visit(c, r)
        ELSE Become(c, <<f>>) /\ UNCHANGED context
     /\ UNCHANGED <<failed, record>>

AskSource(c) ==
  /\ At(c, "R", "source") /\ Top(c).left # <<>>
  /\ LET s == Head(Top(c).left)
     IN IF s \in Leaves THEN AskLeaf(c, s) ELSE AskResolver(c, s)
  /\ UNCHANGED <<cache, version, changed, result, requests>>

\* Mutant of SearchDomains: the same search domain is tried again.
SearchDomainsRepeats(c) ==
  /\ At(c, "R", "source") /\ Top(c).left = <<>>
  /\ LET f == Top(c)
     IN IF f.search # <<>> /\ f.q \in DOMAIN Extended
        THEN Become(c, << [f EXCEPT !.asked = Extended[f.q][Head(f.search)],
                                    !.left = Sources[f.r]] >>)
        ELSE Return(c, Empty)
  /\ UNCHANGED <<cache, record, version, changed, context, failed, result, requests>>

\* No source is left: the next search domain, for names of one label, or no
\* answer.
SearchDomains(c) ==
  /\ At(c, "R", "source") /\ Top(c).left = <<>>
  /\ LET f == Top(c)
     IN IF f.search # <<>> /\ f.q \in DOMAIN Extended
        THEN Become(c, << [f EXCEPT !.asked = Extended[f.q][Head(f.search)],
                                    !.search = Tail(@), !.left = Sources[f.r]] >>)
        ELSE Return(c, Empty)
  /\ UNCHANGED <<cache, record, version, changed, context, failed, result, requests>>

\* What was found in a search domain is renamed.
Found(c) ==
  /\ At(c, "R", "found")
  /\ LET f == Top(c)
         g == [f EXCEPT !.pc = "store"]
     IN IF f.asked = f.q
        THEN Become(c, <<g>>) /\ UNCHANGED <<cache, record>>
        ELSE /\ Become(c, << [g EXCEPT !.msg = Renamed(@, f.q)] >>)
             /\ Rename(c, f.msg, f.q, Depth(c))
  /\ UNCHANGED <<version, changed, context, failed, result, requests>>

\* cache.Store keeps the message itself, unless it is truncated or its TTL is
\* zero.
Store(c) ==
  /\ At(c, "R", "store")
  /\ Return(c, Top(c).msg)
  /\ \/ /\ CacheEnabled /\ ~context[c].stored
        /\ cache' = [cache EXCEPT ![Top(c).r][Top(c).q] =
                       [msg |-> Top(c).msg, owner |-> <<c, Depth(c)>>]]
        /\ context' = [context EXCEPT ![c].stored = TRUE]
     \/ UNCHANGED <<cache, context>>
  /\ UNCHANGED <<record, version, changed, failed, result, requests>>

Step(c) == \/ Match(c) \/ NextResolver(c) \/ Resolved(c) \/ AliasResolved(c)
           \/ QueryCache(c) \/ AskSource(c) \/ SearchDomains(c) \/ Found(c) \/ Store(c)

-----------------------------------------------------------------------------
(* An entry expires; a file changes and is loaded, and the event that       *)
(* announces it clears the cache.                                           *)
Expire(r, n) ==
  /\ cache[r][n] # NoEntry
  /\ cache' = [cache EXCEPT ![r][n] = NoEntry]
  /\ UNCHANGED <<record, version, changed, stack, context, failed, result, requests>>

Change(u) ==
  /\ version[u] < MaxVersion
  /\ version' = [version EXCEPT ![u] = @ + 1]
  /\ changed' = TRUE
  /\ UNCHANGED <<cache, record, stack, context, failed, result, requests>>

ClearCache ==
  /\ changed
  /\ changed' = FALSE
  /\ cache' = [r \in Resolvers |-> [n \in Names |-> NoEntry]]
  /\ UNCHANGED <<record, version, stack, context, failed, result, requests>>

Next ==
  /\ \/ \E c \in Clients : Step(c) \/ \E n \in AskedNames : Request(c, n)
     \/ \E r \in Resolvers, n \in Names : Expire(r, n)
     \/ \E u \in Changing : Change(u)
     \/ ClearCache
  /\ UNCHANGED setting

Spec == Init /\ [][Next]_<<vars, setting>>

\* The goroutine of a request runs whenever it can.
FairSpec == Spec /\ \A c \in Clients : WF_vars(Step(c))

-----------------------------------------------------------------------------
(* Which leaves a client's resolvers lead to for a name.                    *)

\* A pattern list covers a name if one of its patterns does.
Covers(patterns, n) == \E p \in ToSet(patterns) : n \in Matches[p]
MayServe(r, n) == /\ Domains[r] = <<>> \/ Covers(Domains[r], n)
                  /\ ~Covers(Skip[r], n)

Reach(rs, n) ==
  LET R[i \in 0..Cardinality(Resolvers)] ==
        IF i = 0 THEN {r \in rs : MayServe(r, n)}
        ELSE R[i - 1] \cup {s \in Resolvers : MayServe(s, n)
                              /\ \E r \in R[i - 1] : s \in ToSet(Sources[r])}
  IN R[Cardinality(Resolvers)]

LeavesOf(rs, n) ==
  {u \in Leaves : n \in Knows[u] /\ \E r \in Reach(rs, n) : u \in ToSet(Sources[r])}

\* n in the search domains of r, if it has one label.
Searched(r, n) ==
  IF n \in DOMAIN Extended THEN {Extended[n][d] : d \in ToSet(Search[r])} ELSE {}

\* The leaves that a resolver on the way asks itself, whatever its own filters
\* say, when it searches.
SearchedLeaves(rs, n) ==
  {u \in Leaves : \E r \in Reach(rs, n) :
     u \in ToSet(Sources[r]) /\ Searched(r, n) \cap Knows[u] # {}}

\* All the leaves that may answer: those of the resolvers it searches through too.
Answering(rs, n) ==
  LeavesOf(rs, n) \cup SearchedLeaves(rs, n) \cup
  UNION {UNION {LeavesOf(ToSet(Sources[r]) \cap Resolvers, x) : x \in Searched(r, n)} :
           r \in Reach(rs, n)}

\* The names an alias leads to, itself included.
Chain(n) ==
  LET A[i \in 0..Cardinality(Names)] ==
        IF i = 0 THEN {n} ELSE A[i - 1] \cup ({Alias[m] : m \in A[i - 1]} \ {NoName})
  IN A[Cardinality(Names)]

Done(c) == stack[c] = <<>> /\ result[c].q # NoName /\ c \notin Refused

\* Only the first glob of a pattern list counts (resolver.go 270-291): the lists
\* have one at most.
OneGlob ==
  \A r \in Resolvers : \A patterns \in {Domains[r], Skip[r]} :
    Cardinality({i \in DOMAIN patterns : patterns[i] \in Globs}) <= 1

\* "Each source will be tried **in order** until a non-empty response is found"
\* (docs/CONFIG.md 93): a request for a name that is not blocked ends without an
\* answer only if every leaf its resolvers lead to that knows the name failed.
\* Where a resolver searches, only the leaves it has itself are sure to be
\* asked: sources that are resolvers have been visited by then.
NoAnswerMissed ==
  \A c \in Clients :
    OneGlob /\ Done(c) /\ result[c].msg = Empty /\ result[c].q \notin Blocked[c]
      => LeavesOf(ToSet(Asked[c]), result[c].q) \cup SearchedLeaves(ToSet(Asked[c]), result[c].q)
           \subseteq failed[c]

\* An answer comes from a leaf the client's own resolvers lead to, also when it
\* comes out of the cache all clients share (resolver.go 318, 347).
NoForeignAnswer ==
  \A c \in Clients :
    Done(c) /\ result[c].msg # Empty =>
      \E n \in Chain(result[c].q) : result[c].msg.leaf \in Answering(ToSet(Asked[c]), n)

\* The rules hold for what an alias stands for: a name is answered by following
\* its alias only if no name on the way is blocked for the client, whatever the
\* other clients put into the cache (engine.go 307).  The alias record itself
\* is passed on as the leaf gave it.
BlockedAliasNotFollowed ==
  \A c \in Clients :
    Done(c) /\ result[c].msg # Empty /\ result[c].msg.alias = NoName =>
      Chain(result[c].q) \cap Blocked[c] = {}

\* No message and no record is shared: there is no cache, and at most one client
\* uses zone files.
NothingShared ==
  /\ ~CacheEnabled
  /\ Cardinality(Clients \ Refused) <= 1
     \/ \A r \in Resolvers : ToSet(Sources[r]) \cap Zones = {}

\* A client gets an answer to the question it asked (engine.go 314-320,
\* resolver.go 253-263), through aliases and search domains.  Only if nothing is
\* shared: an answer is renamed where it is, in the cache and in the wildcard
\* record of a zone.
AnswersOwnQuestion ==
  \A c \in Clients :
    NothingShared /\ Done(c) /\ result[c].msg # Empty =>
      result[c].msg.q = result[c].q /\ result[c].msg.name = result[c].q

\* Every request ends.
EveryRequestEnds == \A c \in Clients : stack[c] # <<>> ~> stack[c] = <<>>
=============================================================================

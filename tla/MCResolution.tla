---------------------------- MODULE MCResolution ----------------------------
EXTENDS Resolution

MCNames == {"db", "db.lan", "nas.lan", "www", "cdn"}
MCRecords == {"*.lan"}

\* "up1" and "up2" are upstream servers, "hosts" a host file with an alias, and
\* "zone" a zone file with a wildcard.
MCLeaves == {"up1", "up2", "hosts", "zone"}
MCKnows == [u \in MCLeaves |->
  CASE u = "up1" -> {"www", "cdn"}
    [] u = "up2" -> {"cdn"}
    [] u = "hosts" -> {"db.lan", "www"}
    [] u = "zone" -> {"db.lan", "nas.lan"}]
MCAlias == [n \in MCNames |-> IF n = "www" THEN "cdn" ELSE NoName]
MCZoneRecord == [n \in {"db.lan", "nas.lan"} |-> "*.lan"]
MCExtended == [n \in {"db"} |-> [s \in {"lan"} |-> "db.lan"]]
MCMatches == [p \in {"*cdn", "*lan", "www", "db"} |->
  CASE p = "*cdn" -> {"cdn"}
    [] p = "*lan" -> {"db.lan", "nas.lan"}
    [] p = "www" -> {"www"}
    [] p = "db" -> {"db"}]
MCGlobs == {"*cdn", "*lan"}

\* "a" and "b" refer to each other; "b" is limited to some names and searches.
MCResolvers == {"a", "b", "c"}
Cyclic == [r \in MCResolvers |->
  CASE r = "a" -> <<"up1", "b">>
    [] r = "b" -> <<"up2", "a", "c", "hosts">>
    [] r = "c" -> <<"a", "b", "up1">>]
CyclicDomains == [r \in MCResolvers |->
  IF r = "b" THEN <<"db", "www", "*lan">> ELSE <<>>]
CyclicSkip == [r \in MCResolvers |-> IF r = "c" THEN <<"db", "*lan">> ELSE <<>>]
CyclicSearch == [r \in MCResolvers |-> IF r = "b" THEN <<"lan">> ELSE <<>>]

\* The leaves one by one.
Flat == [r \in MCResolvers |->
  CASE r = "a" -> <<"up1">> [] r = "b" -> <<"up2">> [] r = "c" -> <<"hosts", "b">>]
None == [r \in MCResolvers |-> <<>>]
TwoGlobs == [r \in MCResolvers |-> IF r = "c" THEN <<"*cdn", "*lan">> ELSE <<>>]
ZoneOnly == [r \in MCResolvers |-> <<"zone">>]
\* "a" searches through "c".
SearchThrough == [r \in MCResolvers |-> IF r = "a" THEN <<"c">> ELSE <<"hosts">>]
SearchInA == [r \in MCResolvers |-> IF r = "a" THEN <<"lan">> ELSE <<>>]

\* The second client does not use the first resolver of the other.
AskApart == [c \in Clients |-> IF c = "c1" THEN <<"a", "b">> ELSE <<"c">>]
AskOnly(r) == [c \in Clients |-> <<r>>]

Base ==
  [names |-> MCNames, asked |-> AskOnly("a"), sources |-> Flat, domains |-> None,
   skip |-> None, search |-> None, blocked |-> [c \in Clients |-> {}],
   refused |-> {"c2"}, failing |-> {}, changing |-> {}, cacheEnabled |-> FALSE,
   maxRequests |-> 2, maxVersion |-> 0]

\* Cycles with filters and failing leaves, and the consumer of one client
\* blocked; two clients with different resolvers and rules on one cache, and a
\* leaf that changes; one and two clients on a zone; a search through a resolver, and two
\* globs, with the cache.
MCSettings ==
  {[Base EXCEPT !.asked = [c \in Clients |-> <<"a", "b">>], !.sources = Cyclic,
      !.domains = CyclicDomains, !.skip = CyclicSkip, !.search = CyclicSearch,
      !.failing = {"up1", "up2", "hosts"}],
   [Base EXCEPT !.names = {"www", "cdn"}, !.asked = AskApart, !.refused = {},
      !.blocked = [c \in Clients |-> IF c = "c2" THEN {"cdn"} ELSE {}],
      !.changing = {"up1"}, !.cacheEnabled = TRUE, !.maxVersion = 1],
   [Base EXCEPT !.names = {"db.lan", "nas.lan"}, !.sources = ZoneOnly, !.refused = {}],
   [Base EXCEPT !.names = {"db.lan", "nas.lan"}, !.sources = ZoneOnly],
   [Base EXCEPT !.sources = SearchThrough, !.search = SearchInA, !.cacheEnabled = TRUE],
   [Base EXCEPT !.asked = AskOnly("c"), !.domains = TwoGlobs, !.cacheEnabled = TRUE]}
=============================================================================

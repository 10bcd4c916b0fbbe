------------------------------ MODULE Consumers ------------------------------
(***************************************************************************)
(* From the configuration to the decision about a request: the             *)
(* configuration is verified and completed (config/config_init.go), the    *)
(* engine builds its resolvers, groups and consumers from it               *)
(* (engine/engine_init.go, resolver/resolver_map.go), and a request is     *)
(* traced from the client's address through consumer, groups and lists to  *)
(* resolvers (engine/engine.go).                                           *)
(*                                                                         *)
(* A configuration is a record of five sequences, in the order of the      *)
(* file: lists [name, tags], groups [name, lists, tags, resolvers],        *)
(* consumers [name, groups, matches], sources [name, specs] and resolvers  *)
(* [name, sources].  A match holds an address, a range and a subnet, each  *)
(* of which may be absent: 0, <<>> and {}.  A source leads to what it      *)
(* asks: the operating system, or whatever its specs say, a server, a file *)
(* or the resolver of that name.                                           *)
(***************************************************************************)
EXTENDS Integers, Sequences, FiniteSets, SequencesExt

CONSTANTS
    Configurations,   \* the configurations as they are written
    Addresses,        \* addresses of clients: positive numbers
    Lower             \* Lower[n]: the name n in lower case

NoName == ""
Default == "default"
System == "system"
OperatingSystem == "the operating system"

ASSUME ConsumersAssumption ==
    /\ Addresses \subseteq Nat \ {0}
    /\ Lower[NoName] = NoName /\ Lower[Default] = Default /\ Lower[System] = System

VARIABLES
    phase,            \* how far the engine is built
    written,          \* the configuration in the file
    conf,             \* the configuration in memory
    resolvers,        \* the engine's resolvers: name -> what its sources lead to
    groups,           \* the engine's groups, in order: [name, lists, resolvers]
    groupMap,         \* engine.groups: name -> position, the last of a name
    consumers,        \* the engine's consumers: [groupNames, lists]
    defaultConsumer,  \* its position, or 0 for nil
    request           \* the last request and what became of it

engineVars == <<resolvers, groups, groupMap, consumers, defaultConsumer>>
vars == <<phase, written, conf, engineVars, request>>

NoRequest == [address |-> 0]

Init ==
    /\ phase = "read"
    /\ written \in Configurations /\ conf = written
    /\ resolvers = [n \in {} |-> {}]
    /\ groups = <<>> /\ groupMap = [n \in {} |-> 0]
    /\ consumers = <<>> /\ defaultConsumer = 0
    /\ request = NoRequest

Step(from, to) == phase = from /\ phase' = to

NamesIn(seq) == {seq[i].name : i \in DOMAIN seq}

LowerNames(seq) == [i \in DOMAIN seq |-> [seq[i] EXCEPT !.name = Lower[@]]]

-----------------------------------------------------------------------------
(* Verifying the configuration.  Elements without a name and second         *)
(* elements of a name cause a warning and stay where they are.              *)

DefaultGroup == [name |-> Default, lists |-> {}, tags |-> {Default}, resolvers |-> <<Default>>]

verifyAndInitGroups(gs) ==
    LET named == LowerNames(gs)
    IN  IF Default \in NamesIn(named) THEN named ELSE Append(named, DefaultGroup)

DefaultOne == [name |-> Default, groups |-> {Default}, matches |-> <<>>]

verifyAndInitConsumers(cs) ==
    LET named == LowerNames(cs)
    IN  IF Default \in NamesIn(named) THEN named ELSE Append(named, DefaultOne)

verifyAndInitSources(ss) == LowerNames(ss)

\* mutant: what is partly configured is left alone
verifyAndInitResolversOnly(rs) ==
    LET named == LowerNames(rs)
        missing == SelectSeq(<<System, Default>>, LAMBDA n : n \notin NamesIn(named))
    IN  named \o [i \in DOMAIN missing |-> [name |-> missing[i], sources |-> <<System>>]]

\* The resolvers system and default are added if they are missing, and are
\* given a source if they have none; of two of a name only the first is.
verifyAndInitResolvers(rs) ==
    LET named == LowerNames(rs)
        first(i) == \A j \in 1..(i - 1) : named[j].name # named[i].name
        bare(i) == named[i].name \in {System, Default} /\ named[i].sources = <<>> /\ first(i)
        missing == SelectSeq(<<System, Default>>, LAMBDA n : n \notin NamesIn(named))
    IN  [i \in DOMAIN named |-> IF bare(i) THEN [named[i] EXCEPT !.sources = <<System>>] ELSE named[i]]
        \o [i \in DOMAIN missing |-> [name |-> missing[i], sources |-> <<System>>]]

Verify ==
    /\ Step("read", "verified")
    /\ conf' = [lists |-> LowerNames(conf.lists),
                groups |-> verifyAndInitGroups(conf.groups),
                consumers |-> verifyAndInitConsumers(conf.consumers),
                sources |-> verifyAndInitSources(conf.sources),
                resolvers |-> verifyAndInitResolvers(conf.resolvers)]
    /\ UNCHANGED <<written, engineVars, request>>

-----------------------------------------------------------------------------
(* Building the engine. *)

LastNamed(seq, n) == seq[Max({i \in DOMAIN seq : seq[i].name = n})]

\* NewConfigurationSource: a source without specs is none.
configuredSources ==
    LET usable == SelectSeq(conf.sources, LAMBDA src : src.specs # <<>>)
    IN  [n \in NamesIn(usable) |-> ToSet(LastNamed(usable, n).specs)]

\* A source of a resolver is looked for among the configured sources, and then
\* also taken as a spec.  Only the resolver system has the operating system as
\* a source; for the others the name leads to that resolver.
newSharedSourceResolver(r) ==
    UNION {(IF src \in DOMAIN configuredSources THEN configuredSources[src] ELSE {})
           \cup {IF r.name = System /\ src = System THEN OperatingSystem ELSE src}
           : src \in ToSet(r.sources)}

BuildResolvers ==
    /\ Step("verified", "resolvers")
    /\ resolvers' = [n \in NamesIn(conf.resolvers) \ {NoName} |->
                       newSharedSourceResolver(LastNamed(conf.resolvers, n))]
    /\ UNCHANGED <<written, conf, groups, groupMap, consumers, defaultConsumer, request>>

\* The lists a group names, or shares a tag with, in the order of the file.
assignedLists(g) ==
    SelectSeq(conf.lists, LAMBDA l : l.name \in g.lists \/ l.tags \cap g.tags # {})

\* Of the groups of a name the last one stays in the map.
LastOf(n) == Max({i \in DOMAIN conf.groups : conf.groups[i].name = n})

BuildGroups ==
    /\ Step("resolvers", "groups")
    /\ groups' = [i \in DOMAIN conf.groups |->
                    [name |-> conf.groups[i].name,
                     lists |-> assignedLists(conf.groups[i]),
                     resolvers |-> conf.groups[i].resolvers]]
    /\ groupMap' = [n \in NamesIn(conf.groups) \ {NoName} |-> LastOf(n)]
    /\ UNCHANGED <<written, conf, resolvers, consumers, defaultConsumer, request>>

\* The groups a consumer's configuration names, in the order of the groups.
Joined(c) == SelectSeq(groups, LAMBDA g : g.name \in c.groups)

\* Lists are added unless the consumer already has one of that name.
Merge(have, new) ==
    FoldSeq(LAMBDA l, acc : IF l.name \in NamesIn(acc) THEN acc ELSE Append(acc, l), have, new)

BuildConsumers ==
    /\ Step("groups", "serving")
    /\ consumers' = [i \in DOMAIN conf.consumers |->
                       LET js == Joined(conf.consumers[i])
                       IN  [groupNames |-> [j \in DOMAIN js |-> js[j].name],
                            lists |-> FoldSeq(LAMBDA g, acc : Merge(acc, g.lists), <<>>, js)]]
    /\ defaultConsumer' =
         LET ds == {i \in DOMAIN conf.consumers : conf.consumers[i].name = Default}
         IN  IF ds = {} THEN 0 ELSE Max(ds)
    /\ UNCHANGED <<written, conf, resolvers, groups, groupMap, request>>

-----------------------------------------------------------------------------
(* Serving a request. *)

Covers(m, address) ==
    \/ m.ip = address
    \/ m.range # <<>> /\ m.range[1] <= address /\ address <= m.range[2]
    \/ address \in m.net

\* The first consumer with a match, otherwise the default one.
getConsumerForIP(address) ==
    LET hits == {i \in DOMAIN consumers :
                   \E j \in DOMAIN conf.consumers[i].matches :
                     Covers(conf.consumers[i].matches[j], address)}
    IN  IF hits = {} THEN defaultConsumer ELSE Min(hits)

\* mutant: the default group is used in any case
getGroupsAndDefault(c) ==
    IF c # 0 THEN Append(consumers[c].groupNames, Default) ELSE <<Default>>

getGroups(c) ==
    IF c # 0 /\ consumers[c].groupNames # <<>> THEN consumers[c].groupNames ELSE <<Default>>

\* What HandleWithGroups collects over the groups that the engine has.
Known(names) == SelectSeq(names, LAMBDA n : n \in DOMAIN groupMap)
Lists(names) == FlattenSeq([i \in DOMAIN Known(names) |-> groups[groupMap[Known(names)[i]]].lists])
Resolvers(names) ==
    FlattenSeq([i \in DOMAIN Known(names) |-> groups[groupMap[Known(names)[i]]].resolvers])

\* engine.Handle, up to the question whether a list matches.
Handle(address) ==
    /\ phase = "serving"
    /\ LET c == getConsumerForIP(address)
           gs == getGroups(c)
       IN  request' = [address |-> address, consumer |-> c, groups |-> gs,
                       lists |-> NamesIn(Lists(gs)), resolvers |-> Resolvers(gs)]
    /\ UNCHANGED <<phase, written, conf, engineVars>>

Next ==
    \/ Verify \/ BuildResolvers \/ BuildGroups \/ BuildConsumers
    \/ \E a \in Addresses : Handle(a)

Spec == Init /\ [][Next]_vars

-----------------------------------------------------------------------------
(* Properties. *)

Served == request # NoRequest

\* All that is asked, in turn, while nobody has an answer.
Asked(names) ==
    LET more(S) == S \cup UNION {resolvers[n] : n \in S \cap DOMAIN resolvers}
    IN  FoldSeq(LAMBDA r, S : more(S), names, conf.resolvers)

\* The file has one resolver of a name, and leaves the sources of system and
\* default to the program.  (A second one without sources would be left alone
\* and still replace the first.)
LeavesDefaults ==
    /\ Cardinality(NamesIn(conf.resolvers)) = Len(conf.resolvers)
    /\ \A i \in DOMAIN written.resolvers :
         Lower[written.resolvers[i].name] \in {System, Default} => written.resolvers[i].sources = <<>>

\* Whatever groups, consumers and resolvers the file leaves out, names without
\* sources or writes in capitals, a request finds a consumer to be served as,
\* at least one group that exists, and, if its groups use the default
\* resolver, the operating system at the end of it: the code uses the consumer
\* without a test (engine.go:484) and relies on the defaults that verifying
\* the configuration adds (config_init.go:325, 363, 432-456).
AlwaysServed ==
    Served => /\ request.consumer # 0 /\ Known(request.groups) # <<>>
              /\ LeavesDefaults /\ Default \in ToSet(request.resolvers)
                   => OperatingSystem \in Asked(ToSet(request.resolvers))

\* The question whether a rule matches is put to the same lists by
\* IsDomainRuleMatched, which takes those of the consumer, and by the handling
\* of a request, which collects those of the groups (engine.go:269, 438-471).
\* Two groups of one name, which cause a warning, and a consumer without a
\* group, which the default group stands in for, tell them apart.
SameRules ==
    Served /\ Cardinality(NamesIn(groups)) = Len(groups)
           /\ consumers[request.consumer].groupNames # <<>>
        => NamesIn(consumers[request.consumer].lists) = request.lists

=============================================================================

----------------------------- MODULE MCConsumers -----------------------------
(***************************************************************************)
(* Small instances of Consumers for TLC: one or two groups and consumers   *)
(* in every combination of the forms below.                                *)
(***************************************************************************)
EXTENDS Consumers, TLC

MCLower == [n \in {"", "default", "system", "lan", "kids", "ads", "games"} |-> n]
           @@ ("Kids" :> "kids") @@ ("Default" :> "default") @@ ("Ads" :> "ads")

MCLists == <<[name |-> "Ads", tags |-> {"default"}], [name |-> "games", tags |-> {"strict"}]>>

Group(n, ls, ts, rs) == [name |-> n, lists |-> ls, tags |-> ts, resolvers |-> rs]

MCGroups ==
    {Group(n, ls, ts, <<"default">>) :
        n \in {"default", "Default", "kids"}, ls \in {{}, {"games"}}, ts \in {{"default"}, {"strict"}}}

Match(ip, range, net) == [ip |-> ip, range |-> range, net |-> net]

Consumer(n, gs, ms) == [name |-> n, groups |-> gs, matches |-> ms]

MCConsumers ==
    {Consumer(n, gs, ms) :
        n \in {"default", "kids"},
        gs \in {{}, {"default"}, {"kids"}, {"default", "kids"}},
        ms \in {<<>>, <<Match(1, <<>>, {})>>, <<Match(0, <<2, 1>>, {3}), Match(3, <<1, 2>>, {})>>}}

Few(S) == {<<>>} \cup {<<x>> : x \in S}

Conf(gs, cs) ==
    [lists |-> MCLists, groups |-> gs, consumers |-> cs, sources |-> <<>>, resolvers |-> <<>>]

\* Resolvers and sources in several forms, with the names that have a meaning.
Resolver(n, ss) == [name |-> n, sources |-> ss]
Source(n, ss) == [name |-> n, specs |-> ss]

MCResolvers ==
    {Resolver(n, ss) : n \in {"", "default", "Default", "system", "lan"},
                       ss \in {<<>>, <<"lan">>, <<"default", "system">>, <<"8.8.8.8">>}}

MCSources == {Source(n, ss) : n \in {"system", "lan"}, ss \in {<<>>, <<"8.8.8.8">>, <<"system">>}}

\* What a document or a warning mentions: a consumer without a name, names in
\* capitals, a group without resolvers, a consumer without a group.
Kids == Group("kids", {"games"}, {}, <<"default">>)
Named(n, gs) == Consumer(n, gs, <<Match(1, <<>>, {})>>)

Odd ==
    {Conf(<<Kids>>, <<Named("", {"kids"})>>),
     Conf(<<[Kids EXCEPT !.name = "Kids"]>>, <<Named("kids", {"Kids"})>>),
     Conf(<<[Kids EXCEPT !.resolvers = <<>>]>>, <<Named("kids", {"kids"})>>),
     Conf(<<>>, <<Named("kids", {"games"})>>)}

MCConfigurations ==
    {Conf(gs, cs) : gs \in Few(MCGroups) \cup (MCGroups \X MCGroups), cs \in Few(MCConsumers)}
    \cup {Conf(gs, cs) : gs \in Few(MCGroups), cs \in MCConsumers \X MCConsumers}
    \cup {[Conf(<<>>, <<>>) EXCEPT !.sources = ss, !.resolvers = rs] :
             ss \in Few(MCSources), rs \in Few(MCResolvers) \cup (MCResolvers \X MCResolvers)}
    \cup Odd
=============================================================================

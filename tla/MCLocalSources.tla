-------------------------- MODULE MCLocalSources --------------------------
(* Names, files and settings for the runs of LocalSources.                 *)
EXTENDS LocalSources, TLC

\* a.x., b.x. and A.X., which is a.x. in another case; the reverse lookup
\* domains of the addresses.
MCNames == {"a.x.", "b.x.", "A.X.", "4.arpa.", "6.arpa."}
MCLower == [n \in MCNames |-> IF n = "A.X." THEN "a.x." ELSE n]
MCPatterns == {"*.x."}
MCFqdn == [w \in MCNames \cup MCPatterns |-> w] @@ ("a.x" :> "a.x.") @@ ("b.x" :> "b.x.") @@ ("*.x" :> "*.x.")
MCGlobs == [p \in MCPatterns |-> {"a.x.", "b.x."}]
MCAddresses == {"v4", "v6"}
MCReverse == [a \in MCAddresses |-> IF a = "v4" THEN "4.arpa." ELSE "6.arpa."]
MCKnows == ("s1" :> {"a.x.", "b.x."}) @@ ("s2" :> {"a.x.", "b.x."}) @@ ("lo" :> {"a.x.", "b.x."})

Host(a, ws) == [address |-> a, target |-> Nothing, names |-> ws]
Alias(w, ws) == [address |-> Nothing, target |-> w, names |-> ws]
RR(n, t, v) == [name |-> n, type |-> t, value |-> v]
Q(n, t) == [name |-> n, type |-> t]

MCSettings ==
  {[kind |-> "hosts",
    files |-> {Missing, <<>>, <<Host("v4", {"a.x"}), Host("v6", {"a.x", "b.x"}), Host("v4", {"*.x"})>>,
               <<Alias("b.x", {"a.x"}), Host("v4", {"b.x."}), Alias("a.x", {"a.x."})>>,
               <<Host("v6", {"b.x"}), Alias("b.x.", {"a.x."})>>},
    clients |-> {"c1"},
    questions |-> {Q("A.X.", "A"), Q("b.x.", "AAAA"), Q("a.x.", "CNAME"), Q("4.arpa.", "PTR"),
                   Q("a.x.", "ANY"), Q("a.x.", "MX")},
    failing |-> {}],
   [kind |-> "zone",
    files |-> {Missing, <<RR("*.x.", "A", "v4"), RR("b.x.", "AAAA", "v6")>>,
               <<RR("a.x.", "A", "v4"), RR("a.x.", "CNAME", "b.x."), Broken, RR("b.x.", "A", "v4")>>},
    clients |-> {"c1"},
    questions |-> {Q("A.X.", "A"), Q("b.x.", "A"), Q("4.arpa.", "PTR"), Q("b.x.", "ANY")},
    failing |-> {}],
   [kind |-> "resolv",
    files |-> {Missing, <<"lo">>, <<"s1", "lo", "s2">>},
    clients |-> {"c1", "c2"}, questions |-> {Q("b.x.", "A")},
    failing |-> {"s1", "s2"}],
   [kind |-> "system",
    files |-> {<<Host("v4", {"a.x"}), Host("v6", {"a.x"})>>, <<Host("v4", {"b.x"})>>},
    clients |-> {"c1", "c2"},
    questions |-> {Q("A.X.", "A"), Q("a.x.", "CNAME"), Q("4.arpa.", "PTR")},
    failing |-> {}]}

ZoneSettings ==
  {[kind |-> "zone", files |-> {<<RR("*.x.", "A", "v4")>>},
    clients |-> {"c1", "c2"}, questions |-> {Q("a.x.", "A"), Q("b.x.", "A")}, failing |-> {}]}
=============================================================================

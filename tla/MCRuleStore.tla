---------------------------- MODULE MCRuleStore ----------------------------
(* Lists, names, contents and settings for the run of RuleStore.           *)
EXTENDS RuleStore

\* A block list, an allow list and another block list.
MCLists == <<"b1", "a1", "b2">>

\* "x" has the subdomain "s"; "X" is "x" in upper case; "*y" is a glob for "y"
\* and "z".
MCNames == {"s", "x", "X", "y", "z", "*y"}
MCDomains == {"s", "x", "y", "z"}
MCDomainList == [d \in MCDomains |-> IF d = "s" THEN <<"s", "x">> ELSE <<d>>]
MCIsMatch == [n \in MCNames |-> CASE n = "*y" -> {"y", "z"} [] n = "x" -> {"x", "s"}
                                  [] OTHER -> {n} \cap MCDomains]
MCToLower == [n \in MCNames |-> IF n = "X" THEN "x" ELSE n]
MCRank == [n \in MCNames |-> CASE n = "*y" -> 0 [] n = "s" -> 1 [] n = "x" -> 2
                               [] n = "X" -> 2 [] n = "y" -> 3 [] n = "z" -> 4]

\* Hashes without and with a collision; a filter with false positives ("y"
\* after "s" and "x").
HashApart == MCToLower
HashCollides == [n \in MCNames |-> IF n \in {"z", "x"} THEN "h" ELSE MCToLower[n]]
MCBits == [n \in MCNames |->
  CASE n = "s" -> {1, 2} [] n \in {"x", "X"} -> {3, 4} [] n = "y" -> {2, 3}
    [] OTHER -> {1, 4}]

\* Contents with simple rules of a list against complex ones of another.
MixedContents == [l \in {"b1", "a1", "b2"} |->
  CASE l = "b1" -> {<<"z", "y", "X">>, <<"s">>}
    [] l = "a1" -> {<<"*y">>, <<"x", "s", "y">>, <<>>}
    [] l = "b2" -> {<<"*y", "x">>}]

\* Contents in lower case: the database and the bloom filter tell cases apart.
LowerContents == [l \in {"b1", "a1", "b2"} |->
  CASE l = "b1" -> {<<"s", "x">>, <<"y">>}
    [] l = "a1" -> {<<"*y">>, <<"x">>, <<>>}
    [] l = "b2" -> {<<"z", "x">>}]

Setting(backing, contents, n) ==
  [backing |-> backing, contents |-> contents, regexLists |-> {},
   hash |-> HashApart, insertErrors |-> FALSE, bootEdits |-> FALSE, maxEdits |-> n]

\* Every backing store; a collision and failing inserts where there is a
\* delegate; an allow list of regular expressions; changes during the first load.
MCSettings ==
  {Setting(<<"memory">>, MixedContents, 3),
   Setting(<<"hash">>, LowerContents, 2),
   Setting(<<"bloom">>, LowerContents, 2),
   Setting(<<"sqlite">>, LowerContents, 3),
   Setting(<<"bloom", "sqlite">>, LowerContents, 3),
   [Setting(<<"bloom", "hash">>, LowerContents, 3) EXCEPT !.regexLists = {"a1"}],
   [Setting(<<"hash", "sqlite">>, LowerContents, 2) EXCEPT
      !.hash = HashCollides, !.insertErrors = TRUE],
   [Setting(<<"memory">>, LowerContents, 1) EXCEPT !.bootEdits = TRUE],
   [Setting(<<"sqlite">>, LowerContents, 1) EXCEPT !.bootEdits = TRUE]}
=============================================================================

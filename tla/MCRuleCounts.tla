---------------------------- MODULE MCRuleCounts ----------------------------
(***************************************************************************)
(* A small instance of RuleCounts for TLC.                                 *)
(***************************************************************************)
EXTENDS RuleCounts, TLC

MCLists == <<"ad block", "malware">>
MCShortName == ("ad block" :> "ad_block") @@ ("malware" :> "malware")

\* Only files change, after the engine is built; files change at any time and
\* the configuration with them.
MCSettings ==
    {[configs |-> {}, earlyChanges |-> FALSE, maxChanges |-> 4],
     [configs |-> {{1}, {1, 2}}, earlyChanges |-> TRUE, maxChanges |-> 3]}
=============================================================================

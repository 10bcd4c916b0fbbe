----------------------------- MODULE MCMetrics -----------------------------
(***************************************************************************)
(* Small instances of Metrics for TLC.                                     *)
(***************************************************************************)
EXTENDS Metrics

Setting(readers, persist, hasDb, queries, time) ==
    [readers |-> readers, persist |-> persist, hasDb |-> hasDb,
     maxQueries |-> queries, maxTime |-> time]

\* Four intervals of restarts; a web request meanwhile; only the query log is
\* persisted, or nothing is.
MCSettings ==
    {Setting({}, TRUE, TRUE, 2, 4),
     Setting(Readers, TRUE, TRUE, 2, 1),
     Setting({}, FALSE, TRUE, 2, 2),
     Setting({}, FALSE, FALSE, 2, 1)}
=============================================================================

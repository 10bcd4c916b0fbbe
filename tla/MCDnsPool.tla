----------------------------- MODULE MCDnsPool -----------------------------
(* Settings and symmetry for the run of DnsPool.                           *)
EXTENDS DnsPool, TLC

\* Everything goes well; dials fail and the pool is shut down.
MCSettings ==
  {[dialFails |-> FALSE, closes |-> FALSE], [dialFails |-> TRUE, closes |-> TRUE]}

\* Requests are interchangeable and so are connections and calls of Shutdown.
Symmetry == Permutations(Queries) \cup Permutations(Conns) \cup Permutations(Closers)
=============================================================================

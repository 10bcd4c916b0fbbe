-------------------------- MODULE ConnectionLeases --------------------------
(***************************************************************************)
(* What a connection pool promises to its users, whatever its inside: a    *)
(* user leases one connection at a time, an idle one or a new one, nobody  *)
(* else has it meanwhile, and it is given back to be leased again or       *)
(* dropped for good.                                                       *)
(***************************************************************************)
CONSTANTS
  Users,
  Conns,   \* identities of connections; that of a dropped one may be used again
  Nil

VARIABLES
  idle,    \* the connections waiting to be leased
  lease    \* lease[u]: the connection u has leased, or Nil

Leased == {lease[u] : u \in Users} \ {Nil}

Init == idle = {} /\ lease = [u \in Users |-> Nil]

Lease(u, c) == lease[u] = Nil /\ lease' = [lease EXCEPT ![u] = c]

\* An idle connection is leased and is idle no longer.
Reuse(u) == \E c \in idle : Lease(u, c) /\ idle' = idle \ {c}

\* A connection is made that is neither idle nor leased.
Connect(u) == \E c \in Conns \ (idle \cup Leased) : Lease(u, c) /\ UNCHANGED idle

EndLease(u) == lease[u] # Nil /\ lease' = [lease EXCEPT ![u] = Nil]

GiveBack(u) == EndLease(u) /\ idle' = idle \cup {lease[u]}

Drop(u) == EndLease(u) /\ UNCHANGED idle

Next == \E u \in Users : Reuse(u) \/ Connect(u) \/ GiveBack(u) \/ Drop(u)

Spec == Init /\ [][Next]_<<idle, lease>>
=============================================================================

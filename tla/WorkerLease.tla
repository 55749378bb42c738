---------------------------- MODULE WorkerLease ----------------------------
(***************************************************************************)
(* What the worker pool of internal/worker/pool.go promises the requests   *)
(* that use it, with no channel, no boot sequence and no process in it:    *)
(* every worker process is issued once under a fresh number, is either     *)
(* free, leased to one client, or retired, and a retired worker never      *)
(* serves again.  WorkerPool refines this specification.                   *)
(***************************************************************************)
EXTENDS Naturals

CONSTANT Clients        \* the concurrent /run requests

VARIABLES issued,       \* how many worker numbers have been given out
          free,         \* workers any client may lease
          lease,        \* the worker each client has, or None
          retired       \* workers that were shut down

leaseVars == <<issued, free, lease, retired>>

None == 0

Leased == {lease[c] : c \in Clients} \ {None}

\* Numbers issued to workers that have not been put to use yet.
Unused == (1..issued) \ (free \cup Leased \cup retired)
-----------------------------------------------------------------------------
Init ==
    /\ issued = 0
    /\ free = {}
    /\ lease = [c \in Clients |-> None]
    /\ retired = {}

\* A worker starts under a new number.
Issue ==
    /\ issued' = issued + 1
    /\ UNCHANGED <<free, lease, retired>>

\* Started workers become available, all together.
Stock ==
    /\ \E ws \in SUBSET Unused : free' = free \cup ws
    /\ UNCHANGED <<issued, lease, retired>>

\* Workers nobody has leased are shut down.
Retire ==
    /\ \E ws \in SUBSET (free \cup Unused) :
          /\ free' = free \ ws
          /\ retired' = retired \cup ws
    /\ UNCHANGED <<issued, lease>>

Take(c) ==
    /\ lease[c] = None
    /\ \E w \in free :
          /\ free' = free \ {w}
          /\ lease' = [lease EXCEPT ![c] = w]
    /\ UNCHANGED <<issued, retired>>

\* The client's worker is retired and a fresh one takes its place.
Swap(c) ==
    /\ lease[c] # None
    /\ issued' = issued + 1
    /\ lease' = [lease EXCEPT ![c] = issued + 1]
    /\ retired' = retired \cup {lease[c]}
    /\ UNCHANGED free

Return(c) ==
    /\ lease[c] # None
    /\ free' = free \cup {lease[c]}
    /\ lease' = [lease EXCEPT ![c] = None]
    /\ UNCHANGED <<issued, retired>>

\* The client's worker is retired and nothing takes its place.
Discard(c) ==
    /\ lease[c] # None
    /\ retired' = retired \cup {lease[c]}
    /\ lease' = [lease EXCEPT ![c] = None]
    /\ UNCHANGED <<issued, free>>

Next ==
    \/ Issue
    \/ Stock
    \/ Retire
    \/ \E c \in Clients : Take(c) \/ Swap(c) \/ Return(c) \/ Discard(c)

Spec == Init /\ [][Next]_leaseVars
=============================================================================

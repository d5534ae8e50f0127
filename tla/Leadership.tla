-------------------------------- MODULE Leadership --------------------------------
(***************************************************************************)
(* The standing claim of one replica to fire a schedule: Leadership over a *)
(* Postgres advisory lock.                                                 *)
(*                                                                         *)
(* The lock belongs to a database session, the claim to the replica's      *)
(* memory.  The two part company when the session ends and the replica has *)
(* not asked yet, and when a session outlives the claim it was taken for   *)
(* (an unlock that failed, a connection only the replica knows is broken). *)
(***************************************************************************)
CONSTANTS
  Replicas,
  None        \* no session holds the lock

ASSUME NoneAssumption == None \notin Replicas

VARIABLES
  owner,      \* the replica in whose session the lock is held
  lease       \* the replicas that keep a lease object

leadership == <<owner, lease>>

LeadershipInit == owner = None /\ lease = {}

LeadershipTypeOK == owner \in Replicas \cup {None} /\ lease \subseteq Replicas

\* AdvisoryLease.Valid: the ping is answered by the session that took the lock.
Valid(r) == r \in lease /\ owner = r

\* Acquire wins the key: nobody holds it, or the pool handed out the session
\* of this replica that holds it already.
Acquire(r) ==
  /\ r \notin lease
  /\ owner \in {None, r}
  /\ owner' = r
  /\ lease' = lease \cup {r}

\* Release gives up the lease whatever the unlock does.  A lock that was held
\* stays with the pooled session when the unlock fails there, or when that
\* session had taken the key twice.
Release(r) ==
  /\ r \in lease
  /\ lease' = lease \ {r}
  /\ owner' \in IF owner = r THEN {None, r} ELSE {owner}

\* The session that holds the lock ends at the server; no replica is told.
SessionEnds(r) ==
  /\ owner = r
  /\ owner' = None
  /\ UNCHANGED lease

\* The process dies, and its sessions with it.
ReplicaDies(r) ==
  /\ lease' = lease \ {r}
  /\ owner' = IF owner = r THEN None ELSE owner
================================================================================

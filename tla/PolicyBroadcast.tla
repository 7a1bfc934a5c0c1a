-------------------------- MODULE PolicyBroadcast --------------------------
(***************************************************************************)
(* What a policy sync promises, without store, versions or buckets: the    *)
(* actor and the workers hold whole snapshots, a broadcast replaces the    *)
(* workers' snapshots one at a time by the actor's, the actor does not     *)
(* change meanwhile, and the broadcast only ends when all workers have it. *)
(***************************************************************************)
CONSTANTS Workers, Snapshots

VARIABLES
  busy,     \* is a broadcast in progress?
  actor,    \* the snapshot the actor trains
  worker    \* the snapshot each worker serves

vars == <<busy, actor, worker>>

TypeOK ==
  /\ busy \in BOOLEAN
  /\ actor \in Snapshots
  /\ worker \in [Workers -> Snapshots]

Init ==
  /\ busy = FALSE
  /\ actor \in Snapshots
  /\ worker = [w \in Workers |-> actor]

Update ==
  /\ ~busy
  /\ actor' \in Snapshots
  /\ UNCHANGED <<busy, worker>>

Begin ==
  /\ ~busy
  /\ busy' = TRUE
  /\ UNCHANGED <<actor, worker>>

Deliver(w) ==
  /\ busy
  /\ worker' = [worker EXCEPT ![w] = actor]
  /\ UNCHANGED <<busy, actor>>

Complete ==
  /\ busy
  /\ \A w \in Workers : worker[w] = actor
  /\ busy' = FALSE
  /\ UNCHANGED <<actor, worker>>

\* A restart: the actor resumes from a snapshot, the workers share another.
Reset ==
  /\ busy' = FALSE
  /\ actor' \in Snapshots
  /\ worker' \in [Workers -> Snapshots]
  /\ \A v, w \in Workers : worker'[v] = worker'[w]

Next == Update \/ Begin \/ (\E w \in Workers : Deliver(w)) \/ Complete \/ Reset

Spec == Init /\ [][Next]_vars
=============================================================================

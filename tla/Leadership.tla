----------------------------- MODULE Leadership -----------------------------
(***************************************************************************)
(* What leader election promises to the rest of the system: at most one    *)
(* broker leads, nobody is elected while a lease exists, and no lease is   *)
(* lost under a live leader.  No time, threads or checks.  Election        *)
(* implements it; Failover is built on it.                                 *)
(***************************************************************************)
CONSTANTS Brokers,
          NoBroker      \* nobody; not a broker

VARIABLES held,         \* the lease key exists
          leader        \* the elected broker, from its SET NX on, or NoBroker

Init == held = FALSE /\ leader = NoBroker

\* b wins the lease.
Elect(b) ==
    /\ ~held
    /\ leader = NoBroker
    /\ held' = TRUE
    /\ leader' = b

\* The leader crashes or stops; its lease may outlive it.
Cease ==
    /\ leader # NoBroker
    /\ leader' = NoBroker
    /\ UNCHANGED held

\* The lease of a leader that is gone expires or is deleted.
Lapse ==
    /\ held
    /\ leader = NoBroker
    /\ held' = FALSE
    /\ UNCHANGED leader

\* A leader on its way out writes the lease once more.
Rewrite ==
    /\ ~held
    /\ held' = TRUE
    /\ UNCHANGED leader

Next == Cease \/ Lapse \/ Rewrite \/ \E b \in Brokers : Elect(b)

Spec == Init /\ [][Next]_<< held, leader >>
=============================================================================

--------------------------- MODULE SyncReplication ---------------------------
(***************************************************************************)
(* What the broker pair promises of its commit path, with no threads, no   *)
(* connections and no retries: a message gets the next offset, offsets are *)
(* copied in any order, and only what is copied is acknowledged or named   *)
(* by the high water mark.                                                 *)
(***************************************************************************)
EXTENDS Integers, Sequences

CONSTANT MessageIds

VARIABLES accepted,     \* the messages in the order of their offsets 0, 1, ...
          copied,       \* the offsets the follower has
          hwm,          \* the high water mark
          acked         \* the messages acknowledged to their producers

vars == << accepted, copied, hwm, acked >>

Init ==
    /\ accepted = << >>
    /\ copied = {}
    /\ hwm = -1
    /\ acked = {}

Accept(m) ==
    /\ \A i \in DOMAIN accepted : accepted[i] # m
    /\ accepted' = Append(accepted, m)
    /\ UNCHANGED << copied, hwm, acked >>

Copy(o) ==
    /\ o \in 0..(Len(accepted) - 1)
    /\ copied' = copied \cup {o}
    /\ UNCHANGED << accepted, hwm, acked >>

Advance(o) ==
    /\ o \in copied
    /\ hwm' = o
    /\ UNCHANGED << accepted, copied, acked >>

Acknowledge(o) ==
    /\ o \in copied
    /\ acked' = acked \cup {accepted[o + 1]}
    /\ UNCHANGED << accepted, copied, hwm >>

Next ==
    \/ \E m \in MessageIds : Accept(m)
    \/ \E o \in 0..(Len(accepted) - 1) : Copy(o) \/ Advance(o) \/ Acknowledge(o)

Spec == Init /\ [][Next]_vars
=============================================================================

------------------------------ MODULE Failover ------------------------------
(***************************************************************************)
(* The logs of both brokers through a change of leader: the leader commits *)
(* messages by replication, crashes, stops or comes back with an empty     *)
(* log; the follower is promoted and serves and extends the log it has.    *)
(*                                                                         *)
(* Leadership changes as module Leadership allows.  The commit path is the *)
(* one Replication details, coarser: requests are served one at a time     *)
(* (OneHandler there), and a REPLICATE counts as acknowledged once the     *)
(* follower has the message, which is what Replication proves then.        *)
(* REPLICATE frames may be delivered late, even after a promotion.         *)
(* Redis and the follower's process do not fail (docs/ARCHITECTURE.md's    *)
(* failure model), except that Redis may refuse a set_hwm.                 *)
(***************************************************************************)
EXTENDS LogManager

CONSTANTS Producers,    \* producers, each sending the rows of a file
          Rows,         \* rows of the file
          MaxSends,     \* the producer's Config.MAX_RETRIES (3)
          MaxStarts,    \* how often the leader process is started
          Leader,       \* the broker run as leader_broker
          Follower,     \* the broker run as follower_broker
          NoBroker, NoMsg       \* Python's None

Brokers == {Leader, Follower}
MessageIds == Producers \X (1..Rows)

ASSUME FailoverAssumption == /\ Leader # Follower
                             /\ NoBroker \notin Brokers
                             /\ NoMsg \notin MessageIds
                             /\ Rows \in Nat \ {0}
                             /\ MaxSends \in Nat \ {0}
                             /\ MaxStarts \in Nat

VARIABLES
    held, leader,   \* see Leadership
    current,        \* Redis leader:current
    starts,         \* how often the leader process has been started
    leader_log,     \* the leader's LogManager
    follower_log,   \* the follower's LogManager
    hwm,            \* Redis: the high water mark, -1 when the key is absent
    inflight,       \* REPLICATE frames the follower has not read
    pc,             \* the serving broker's handler: where it is
    msg, offset,    \* ... and its locals
    seq,            \* per producer: the row it is sending
    tries,          \* per producer: failures counted by send_message
    awaits,         \* per producer: it waits for the handler's answer
    acked           \* history: answers with success, as log entries

roleVars   == << held, leader, current, starts >>
logVars    == << leader_log, follower_log, hwm, inflight >>
handlerVars == << pc, msg, offset >>
clientVars == << seq, tries, awaits, acked >>
vars == << roleVars, logVars, handlerVars, clientVars >>

Roles == INSTANCE Leadership

HandlerPC == {"idle", "append", "replicate", "hwm", "ack", "error"}

Msg(p) == << p, seq[p] >>

\* Nothing has been sent yet.
Fresh ==
    /\ leader_log = EmptyLog
    /\ follower_log = EmptyLog
    /\ hwm = -1
    /\ inflight = {}
    /\ pc = "idle"
    /\ msg = NoMsg
    /\ offset = 0
    /\ seq = [p \in Producers |-> 1]
    /\ tries = [p \in Producers |-> 0]
    /\ awaits = [p \in Producers |-> FALSE]
    /\ acked = {}

Init ==
    /\ Roles!Init
    /\ current = NoBroker
    /\ starts = 0
    /\ Fresh

-----------------------------------------------------------------------------
(***************************************************************************)
(* Roles.                                                                  *)
(***************************************************************************)
\* LeaderBroker.start on a free lease: a new process, an empty log.
StartLeader ==
    /\ starts < MaxStarts
    /\ Roles!Elect(Leader)
    /\ current' = Leader
    /\ starts' = starts + 1
    /\ leader_log' = EmptyLog
    /\ UNCHANGED << follower_log, hwm, inflight, handlerVars, clientVars >>

\* The leader's process ends, with its handler and its log: killed, or by stop(),
\* which has retracted leader:current.  What it has sent is still underway.  A handler
\* past its is_leader check works on after stop() until the process is gone; that is
\* before this step, for nobody is elected in those moments (three missed checks).
LeaderEnds ==
    /\ leader = Leader
    /\ Roles!Cease
    /\ current' \in {current, NoBroker}
    /\ leader_log' = EmptyLog
    /\ pc' = "idle"
    /\ msg' = NoMsg
    /\ offset' = 0
    /\ UNCHANGED << starts, follower_log, hwm, inflight, clientVars >>

LeaseLapses ==
    /\ Roles!Lapse
    /\ UNCHANGED << current, starts, logVars, handlerVars, clientVars >>

\* Faulty variant: leader:current keeps the old leader's name.
PromoteQuietly ==
    /\ Roles!Elect(Follower)
    /\ UNCHANGED << current, starts, logVars, handlerVars, clientVars >>

\* The follower wins the election; on_become_leader keeps the log as it is.
Promote ==
    /\ Roles!Elect(Follower)
    /\ current' = Follower
    /\ UNCHANGED << starts, logVars, handlerVars, clientVars >>

-----------------------------------------------------------------------------
(***************************************************************************)
(* Producers: the rows are sent one after the other, each until it is      *)
(* answered and at most MaxSends times; a failed row is not sent again.    *)
(***************************************************************************)
Sending(p) == seq[p] <= Rows

\* What discovery and connect find: the broker that leader:current names, if
\* that broker serves.  METADATA answers read the same key.
Reachable == IF current = leader THEN {leader} \ {NoBroker} ELSE {}

Produce(p) ==
    /\ Sending(p)
    /\ ~awaits[p]
    /\ Reachable # {}
    /\ pc = "idle"
    /\ pc' = "append"
    /\ msg' = Msg(p)
    /\ awaits' = [awaits EXCEPT ![p] = TRUE]
    /\ UNCHANGED << roleVars, logVars, offset, seq, tries, acked >>

\* Faulty variant: one try too many, `<=' for `<'.
ResendOneMore(p) ==
    /\ Sending(p)
    /\ tries[p] < MaxSends
    /\ tries' = [tries EXCEPT ![p] = @ + 1]
    /\ awaits' = [awaits EXCEPT ![p] = FALSE]
    /\ UNCHANGED << roleVars, logVars, handlerVars, seq, acked >>

\* No broker found, connection lost, timeout or NOT_LEADER: drop the cached
\* leader and the socket, count, try again with the same id.
ResendLater(p) ==
    /\ Sending(p)
    /\ tries[p] + 1 < MaxSends
    /\ tries' = [tries EXCEPT ![p] = @ + 1]
    /\ awaits' = [awaits EXCEPT ![p] = FALSE]
    /\ UNCHANGED << roleVars, logVars, handlerVars, seq, acked >>

NextRow(P) ==
    /\ seq' = [p \in Producers |-> IF p \in P THEN seq[p] + 1 ELSE seq[p]]
    /\ tries' = [p \in Producers |-> IF p \in P THEN 0 ELSE tries[p]]
    /\ awaits' = [p \in Producers |-> IF p \in P THEN FALSE ELSE awaits[p]]

\* The last try has failed: total_failed, next row.
GiveUp(p) ==
    /\ Sending(p)
    /\ tries[p] + 1 = MaxSends
    /\ NextRow({p})
    /\ UNCHANGED << roleVars, logVars, handlerVars, acked >>

-----------------------------------------------------------------------------
(***************************************************************************)
(* The handler thread of the broker that leads.                            *)
(***************************************************************************)
\* LeaderBroker.handle_produce_request, up to the replication.
LeaderAppends ==
    /\ pc = "append"
    /\ leader = Leader
    /\ leader_log' = AppendNext(leader_log, msg)
    /\ offset' = OffsetOf(leader_log', msg)
    /\ pc' = "replicate"
    /\ UNCHANGED << roleVars, follower_log, hwm, inflight, msg, clientVars >>

\* One attempt of replicate_message puts the frame on a connection.  Frames for
\* messages the follower has are left out: handling one changes nothing.
SendReplicate ==
    /\ pc = "replicate"
    /\ msg \notin message_ids(follower_log)
    /\ inflight' = inflight \cup {NewEntry(offset, msg)}
    /\ UNCHANGED << roleVars, leader_log, follower_log, hwm, handlerVars, clientVars >>

\* Faulty variant: the leader does not wait for the follower.
ReplicateUnconfirmed ==
    /\ pc = "replicate"
    /\ pc' = "hwm"
    /\ UNCHANGED << roleVars, logVars, msg, offset, clientVars >>

\* replicate_message returns True.
ReplicateAcked ==
    /\ pc = "replicate"
    /\ msg \in message_ids(follower_log)
    /\ pc' = "hwm"
    /\ UNCHANGED << roleVars, logVars, msg, offset, clientVars >>

\* ... or False, whether or not the follower has the message.
ReplicateFails ==
    /\ pc = "replicate"
    /\ pc' = "error"
    /\ UNCHANGED << roleVars, logVars, msg, offset, clientVars >>

\* Faulty variant: the promoted follower counts its entries for the offset.
FollowerAppendsAtLength ==
    /\ pc = "append"
    /\ leader = Follower
    /\ follower_log' = AppendAt(follower_log, msg, Len(follower_log.log))
    /\ offset' = OffsetOf(follower_log', msg)
    /\ pc' = "hwm"
    /\ UNCHANGED << roleVars, leader_log, hwm, inflight, msg, clientVars >>

\* FollowerBroker.handle_produce_request of a promoted follower: nothing is
\* replicated.
FollowerAppends ==
    /\ pc = "append"
    /\ leader = Follower
    /\ follower_log' = AppendNext(follower_log, msg)
    /\ offset' = OffsetOf(follower_log', msg)
    /\ pc' = "hwm"
    /\ UNCHANGED << roleVars, leader_log, hwm, inflight, msg, clientVars >>

\* Both brokers: set_hwm with the offset at hand, higher or lower.
SetHwm ==
    /\ pc = "hwm"
    /\ hwm' = offset
    /\ pc' = "ack"
    /\ UNCHANGED << roleVars, leader_log, follower_log, inflight, msg, offset, clientVars >>

\* Faulty variant: the Redis error is swallowed and the producer acknowledged.
SetHwmFailsQuietly ==
    /\ pc = "hwm"
    /\ pc' = "ack"
    /\ UNCHANGED << roleVars, logVars, msg, offset, clientVars >>

\* Redis does not answer, whether or not it has executed the SET: the except
\* branch replies with an ERROR.
SetHwmFails ==
    /\ pc = "hwm"
    /\ hwm' \in {hwm, offset}
    /\ pc' = "error"
    /\ UNCHANGED << roleVars, leader_log, follower_log, inflight, msg, offset, clientVars >>

\* The answer, an ACK or an ERROR, reaches the producer if it still waits.
Answer ==
    /\ pc \in {"ack", "error"}
    /\ LET waiting == {p \in Producers : awaits[p] /\ Msg(p) = msg}
       IN  /\ NextRow(waiting)
           /\ acked' = acked \cup {NewEntry(offset, m) :
                            m \in {Msg(p) : p \in IF pc = "ack" THEN waiting ELSE {}}}
    /\ pc' = "idle"
    /\ msg' = NoMsg
    /\ offset' = 0
    /\ UNCHANGED << roleVars, logVars >>

HandlerStep ==
    \/ LeaderAppends \/ SendReplicate \/ ReplicateAcked \/ ReplicateFails
    \/ FollowerAppends \/ SetHwm \/ SetHwmFails \/ Answer

\* Faulty variant: the follower appends replicated messages in arrival order.
ReplicateAtOwnOffset(frame) ==
    /\ frame \in inflight
    /\ follower_log' = AppendNext(follower_log, frame.id)
    /\ inflight' = {f \in inflight : f.id # frame.id}
    /\ UNCHANGED << roleVars, leader_log, hwm, handlerVars, clientVars >>

\* FollowerBroker.handle_replicate_request; is_leader is not looked at.  Other
\* frames with the message would change nothing now.
Replicate(frame) ==
    /\ frame \in inflight
    /\ follower_log' = AppendAt(follower_log, frame.id, frame.offset)
    /\ inflight' = {f \in inflight : f.id # frame.id}
    /\ UNCHANGED << roleVars, leader_log, hwm, handlerVars, clientVars >>

-----------------------------------------------------------------------------
Next ==
    \/ StartLeader \/ LeaderEnds \/ LeaseLapses \/ Promote
    \/ \E p \in Producers : Produce(p) \/ ResendLater(p) \/ GiveUp(p)
    \/ HandlerStep
    \/ \E frame \in inflight : Replicate(frame)

Spec == Init /\ [][Next]_vars

-----------------------------------------------------------------------------
(***************************************************************************)
(* Properties.                                                             *)
(***************************************************************************)
TypeOK ==
    /\ held \in BOOLEAN
    /\ leader \in Brokers \cup {NoBroker}
    /\ current \in Brokers \cup {NoBroker}
    /\ starts \in 0..MaxStarts
    /\ leader_log \in LogType(MessageIds)
    /\ follower_log \in LogType(MessageIds)
    /\ hwm \in Nat \cup {-1}
    /\ inflight \subseteq LogEntry(MessageIds)
    /\ pc \in HandlerPC
    /\ msg \in MessageIds \cup {NoMsg}
    /\ offset \in Nat
    /\ seq \in [Producers -> 1..(Rows + 1)]
    /\ tries \in [Producers -> 0..(MaxSends - 1)]
    /\ awaits \in [Producers -> BOOLEAN]
    /\ acked \subseteq LogEntry(MessageIds)

\* The follower holds every acknowledged message, whoever leads and however often
\* the leader crashed, was restarted with an empty log, or the follower took over.
AckedSurvive == \A a \in acked : a.id \in message_ids(follower_log)

\* Unless the leader was restarted: a message stays at the offset its producer was
\* told, in the log of whichever broker leads, although a promoted follower goes on
\* from a log with gaps and still stores the old leader's late frames.
AckedKeepOffset ==
    starts <= 1 => /\ acked \subseteq Entries(follower_log)
                   /\ leader = Leader => acked \subseteq Entries(leader_log)

\* Unless the leader was restarted: across the failover, a producer's acknowledged
\* messages have offsets in the order it sent them.
AckedInOrder ==
    starts <= 1 => \A a, b \in acked :
        a.id[1] = b.id[1] /\ a.id[2] < b.id[2] => a.offset < b.offset

\* README.md:9, "Every message that was acknowledged before the crash is still
\* readable afterwards": at or below the HWM.  So it is with a single producer, and
\* unless the leader was restarted.
AckedReadable == starts <= 1 => \A a \in acked : a.offset <= hwm
=============================================================================

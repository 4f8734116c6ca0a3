---------------------------- MODULE Replication ----------------------------
(***************************************************************************)
(* The commit path: a producer's PRODUCE, the leader's handler thread that *)
(* appends, replicates, sets the HWM and acknowledges, and the follower's  *)
(* handling of REPLICATE.  One broker leads throughout (roles change in    *)
(* the election modules).                                                  *)
(*                                                                         *)
(* The leader runs one thread per client connection and every one of them  *)
(* calls replicate_message on the same ReplicationManager, whose single    *)
(* `self.socket' they share without a lock.  A step below is what a thread *)
(* does between two points where it blocks or reads self.socket again.     *)
(*                                                                         *)
(* A connection to the follower is a pair of FIFO channels: REPLICATE      *)
(* frames going out and ACK frames coming back.  The leader looks only at  *)
(* an ACK's type and success flag, never at its offset, so ACKs are just   *)
(* counted.  Frames are whole: bytes torn by two threads that send or      *)
(* receive on one socket make receive_message return None, which is the    *)
(* receive failure that every thread may meet anyway.                      *)
(***************************************************************************)
EXTENDS LogManager

CONSTANTS Producers,    \* producer processes
          Handlers,     \* leader threads serving producer connections
          Conns,        \* TCP connections the leader may open to the follower
          MaxMessages,  \* messages each producer sends
          MaxRetries,   \* replicate_message's max_retries (3)
          MaxSends      \* the producer's Config.MAX_RETRIES (3)

ASSUME BoundsAssumption == /\ MaxMessages \in Nat \ {0}
                           /\ MaxRetries \in Nat \ {0}
                           /\ MaxSends \in Nat \ {0}

CONSTANTS NoConn, NoHandler, NoMsg      \* Python's None

\* A message is a producer and the number of its send_message call; the uuid
\* drawn once per call makes the two the same thing.
MessageIds == Producers \X (1..MaxMessages)

ASSUME NoneAssumption == /\ NoConn \notin Conns
                         /\ NoHandler \notin Handlers
                         /\ NoMsg \notin MessageIds

Frame == [id : MessageIds, offset : Nat]

HandlerPC == {"idle", "append", "check", "connect", "target", "dial", "send",
              "await", "recv", "hwm", "ack", "error"}

VARIABLES
    leader_log,     \* the leader's LogManager
    follower_log,   \* the follower's LogManager
    hwm,            \* Redis: the high water mark, -1 when the key is absent
    socket,         \* ReplicationManager.socket
    state,          \* per connection: "unused", "fresh", "open" or "closed"
    inflight,       \* per connection: REPLICATE frames the follower has not read
    acks,           \* per connection: ACK frames the leader has not read
    pc,             \* per handler: where it is in handle_produce_request
    msg,            \* per handler: the message of the PRODUCE it serves
    offset,         \* per handler: the offset append returned
    retry_count,    \* per handler: failures counted by replicate_message
    sock,           \* per handler: the socket it is blocked on
    seq,            \* per producer: the number of its current message
    tries,          \* per producer: failures counted by send_message
    awaits,         \* per producer: the handler it waits for
    acked,          \* history: messages for which send_message returned True
    refused         \* history: messages for which it returned False

brokerVars == << leader_log, follower_log, hwm >>
connVars   == << state, inflight, acks >>
localVars  == << msg, offset, retry_count, sock >>
clientVars == << seq, tries, awaits, acked, refused >>

vars == << brokerVars, socket, connVars, pc, localVars, clientVars >>

Msg(p) == << p, seq[p] >>

(***************************************************************************)
(* Initial state: empty logs, no connection, every thread idle.            *)
(***************************************************************************)
Init ==
    /\ leader_log = EmptyLog
    /\ follower_log = EmptyLog
    /\ hwm = -1
    /\ socket = NoConn
    /\ state = [c \in Conns |-> "unused"]
    /\ inflight = [c \in Conns |-> << >>]
    /\ acks = [c \in Conns |-> 0]
    /\ pc = [h \in Handlers |-> "idle"]
    /\ msg = [h \in Handlers |-> NoMsg]
    /\ offset = [h \in Handlers |-> 0]
    /\ retry_count = [h \in Handlers |-> 0]
    /\ sock = [h \in Handlers |-> NoConn]
    /\ seq = [p \in Producers |-> 1]
    /\ tries = [p \in Producers |-> 0]
    /\ awaits = [p \in Producers |-> NoHandler]
    /\ acked = {}
    /\ refused = {}

-----------------------------------------------------------------------------
(***************************************************************************)
(* The producer: send_message keeps one uuid per call and sends it until   *)
(* the broker answers, at most MaxSends times.                             *)
(***************************************************************************)
Sending(p) == seq[p] <= MaxMessages

\* A PRODUCE reaches a handler thread of the leader.
Produce(p, h) ==
    /\ Sending(p)
    /\ awaits[p] = NoHandler
    /\ pc[h] = "idle"
    /\ awaits' = [awaits EXCEPT ![p] = h]
    /\ pc' = [pc EXCEPT ![h] = "append"]
    /\ msg' = [msg EXCEPT ![h] = Msg(p)]
    /\ UNCHANGED << brokerVars, socket, connVars, offset, retry_count, sock,
                    seq, tries, acked, refused >>

\* Faulty variant: timeouts are not counted.
ResendForever(p) ==
    /\ Sending(p)
    /\ awaits[p] # NoHandler
    /\ awaits' = [awaits EXCEPT ![p] = NoHandler]
    /\ UNCHANGED << brokerVars, socket, connVars, pc, localVars, seq, tries, acked, refused >>

\* No answer within SOCKET_TIMEOUT, a broken connection or a failed connect:
\* the socket is dropped (the handler, if any, works on) and the loop goes on.
ResendLater(p) ==
    /\ Sending(p)
    /\ tries[p] + 1 < MaxSends
    /\ tries' = [tries EXCEPT ![p] = @ + 1]
    /\ awaits' = [awaits EXCEPT ![p] = NoHandler]
    /\ UNCHANGED << brokerVars, socket, connVars, pc, localVars, seq, acked, refused >>

\* The same at the last try: send_message returns False.
GiveUp(p) ==
    /\ Sending(p)
    /\ tries[p] + 1 = MaxSends
    /\ seq' = [seq EXCEPT ![p] = @ + 1]
    /\ tries' = [tries EXCEPT ![p] = 0]
    /\ awaits' = [awaits EXCEPT ![p] = NoHandler]
    /\ refused' = refused \cup {Msg(p)}
    /\ UNCHANGED << brokerVars, socket, connVars, pc, localVars, acked >>

ProducerStep(p) == ResendLater(p) \/ GiveUp(p) \/ \E h \in Handlers : Produce(p, h)

\* The producers (at most one) that still wait for handler h, and what its
\* answer does to them: send_message returns and the next call begins.
Waiting(h) == {p \in Producers : awaits[p] = h}

Answered(h) ==
    /\ seq' = [p \in Producers |-> IF p \in Waiting(h) THEN seq[p] + 1 ELSE seq[p]]
    /\ tries' = [p \in Producers |-> IF p \in Waiting(h) THEN 0 ELSE tries[p]]
    /\ awaits' = [p \in Producers |-> IF p \in Waiting(h) THEN NoHandler ELSE awaits[p]]

-----------------------------------------------------------------------------
(***************************************************************************)
(* The leader's handler thread.                                            *)
(***************************************************************************)
Goto(h, label) == pc' = [pc EXCEPT ![h] = label]

\* handle_produce_request: log_manager.append, then enter replicate_message.
AppendLocal(h) ==
    /\ pc[h] = "append"
    /\ leader_log' = AppendNext(leader_log, msg[h])
    /\ offset' = [offset EXCEPT ![h] = OffsetOf(leader_log', msg[h])]
    /\ Goto(h, "check")
    /\ UNCHANGED << follower_log, hwm, socket, connVars, msg, retry_count, sock, clientVars >>

\* Faulty variant: one retry too many, `<=' for `<'.
CheckSocketOneMore(h) ==
    /\ pc[h] = "check"
    /\ \/ retry_count[h] > MaxRetries /\ Goto(h, "error")
       \/ retry_count[h] <= MaxRetries /\ socket = NoConn /\ Goto(h, "connect")
       \/ retry_count[h] <= MaxRetries /\ socket # NoConn /\ Goto(h, "send")
    /\ UNCHANGED << brokerVars, socket, connVars, localVars, clientVars >>

\* The loop head of replicate_message: retries used up, or no socket, or go on.
CheckSocket(h) ==
    /\ pc[h] = "check"
    /\ \/ retry_count[h] = MaxRetries /\ Goto(h, "error")
       \/ retry_count[h] < MaxRetries /\ socket = NoConn /\ Goto(h, "connect")
       \/ retry_count[h] < MaxRetries /\ socket # NoConn /\ Goto(h, "send")
    /\ UNCHANGED << brokerVars, socket, connVars, localVars, clientVars >>

\* Faulty variant: the failure is not counted.
RetryForever(h) ==
    /\ socket' = NoConn
    /\ sock' = [sock EXCEPT ![h] = NoConn]
    /\ Goto(h, "check")
    /\ UNCHANGED << msg, offset, retry_count >>

\* Every failure path of replicate_message: self.socket = None, count, loop.
\* It drops whatever socket is current, which another thread may have opened.
Retry(h) ==
    /\ socket' = NoConn
    /\ sock' = [sock EXCEPT ![h] = NoConn]
    /\ retry_count' = [retry_count EXCEPT ![h] = @ + 1]
    /\ Goto(h, "check")
    /\ UNCHANGED << msg, offset >>

\* A closed connection: its ACKs are lost, its REPLICATE frames may still arrive.
Close(C) ==
    /\ state' = [c \in Conns |-> IF c \in C THEN "closed" ELSE state[c]]
    /\ acks' = [c \in Conns |-> IF c \in C THEN 0 ELSE acks[c]]
    /\ UNCHANGED inflight

\* connect_to_follower: a new socket object becomes self.socket.  One that
\* another thread installed since the check is closed first, or just replaced if
\* it came after the test of line 27.
OpenSocket(h) ==
    /\ pc[h] = "connect"
    /\ \E c \in Conns, closed \in {{}, {socket}} :
        /\ state[c] = "unused"
        /\ socket' = c
        /\ state' = [d \in Conns |-> IF d = c THEN "fresh"
                                     ELSE IF d \in closed THEN "closed" ELSE state[d]]
        /\ acks' = [d \in Conns |-> IF d \in closed THEN 0 ELSE acks[d]]
    /\ Goto(h, "target")
    /\ UNCHANGED << brokerVars, inflight, localVars, clientVars >>

\* socket.socket() itself fails.
OpenSocketFails(h) ==
    /\ pc[h] = "connect"
    /\ Retry(h)
    /\ UNCHANGED << brokerVars, connVars, clientVars >>

\* self.socket.settimeout and self.socket.connect read self.socket again: by now
\* it may be another thread's socket ...
Dial(h) ==
    /\ pc[h] = "target"
    /\ socket # NoConn
    /\ sock' = [sock EXCEPT ![h] = socket]
    /\ Goto(h, "dial")
    /\ UNCHANGED << brokerVars, socket, connVars, msg, offset, retry_count, clientVars >>

\* ... or None, which has no such attributes.
DialFails(h) ==
    /\ pc[h] = "target"
    /\ socket = NoConn
    /\ Retry(h)
    /\ UNCHANGED << brokerVars, connVars, clientVars >>

\* connect() returns ...
Connected(h) ==
    /\ pc[h] = "dial"
    /\ state[sock[h]] = "fresh"
    /\ state' = [state EXCEPT ![sock[h]] = "open"]
    /\ sock' = [sock EXCEPT ![h] = NoConn]
    /\ Goto(h, "send")
    /\ UNCHANGED << brokerVars, socket, inflight, acks, msg, offset, retry_count, clientVars >>

\* ... or raises: refused, timed out, or the socket was closed, connected or is being
\* connected by another thread.  If nobody else has a use for it, it is closed.
ConnectFails(h) ==
    /\ pc[h] = "dial"
    /\ Close({c \in {sock[h]} : state[c] = "fresh" /\ \A g \in Handlers \ {h} : sock[g] # c})
    /\ Retry(h)
    /\ UNCHANGED << brokerVars, clientVars >>

\* send_message(self.socket, ...) on a live connection.
SendReplicate(h) ==
    /\ pc[h] = "send"
    /\ socket # NoConn
    /\ state[socket] = "open"
    /\ inflight' = [inflight EXCEPT ![socket] =
                        Append(@, [id |-> msg[h], offset |-> offset[h]])]
    /\ Goto(h, "await")
    /\ UNCHANGED << brokerVars, socket, state, acks, localVars, clientVars >>

\* send_message raises: self.socket is None, not connected yet, or broken.
SendFails(h) ==
    /\ pc[h] = "send"
    /\ socket # NoConn => state[socket] # "open"
    /\ Retry(h)
    /\ UNCHANGED << brokerVars, connVars, clientVars >>

\* receive_message(self.socket, ...): the socket read HERE is the one waited
\* on; it need not be the one the frame was sent on.
AwaitAck(h) ==
    /\ pc[h] = "await"
    /\ socket # NoConn
    /\ sock' = [sock EXCEPT ![h] = socket]
    /\ Goto(h, "recv")
    /\ UNCHANGED << brokerVars, socket, connVars, msg, offset, retry_count, clientVars >>

AwaitFails(h) ==
    /\ pc[h] = "await"
    /\ socket = NoConn
    /\ Retry(h)
    /\ UNCHANGED << brokerVars, connVars, clientVars >>

\* Any ACK on the connection is taken for this message's.
ReceiveAck(h) ==
    /\ pc[h] = "recv"
    /\ state[sock[h]] = "open"
    /\ acks[sock[h]] > 0
    /\ acks' = [acks EXCEPT ![sock[h]] = @ - 1]
    /\ sock' = [sock EXCEPT ![h] = NoConn]
    /\ Goto(h, "hwm")
    /\ UNCHANGED << brokerVars, socket, state, inflight, msg, offset, retry_count, clientVars >>

\* Faulty variant: a timeout keeps the connection, and with it the late ACK.
ReceiveNothingKeepsSocket(h) ==
    /\ pc[h] = "recv"
    /\ sock' = [sock EXCEPT ![h] = NoConn]
    /\ retry_count' = [retry_count EXCEPT ![h] = @ + 1]
    /\ Goto(h, "check")
    /\ UNCHANGED << brokerVars, socket, connVars, msg, offset, clientVars >>

\* Timeout after REPLICATION_TIMEOUT, end of stream, or a torn frame.
ReceiveNothing(h) ==
    /\ pc[h] = "recv"
    /\ Retry(h)
    /\ UNCHANGED << brokerVars, connVars, clientVars >>

\* redis_store.set_hwm(offset): the last writer wins, whatever its offset.
SetHwm(h) ==
    /\ pc[h] = "hwm"
    /\ hwm' = offset[h]
    /\ Goto(h, "ack")
    /\ UNCHANGED << leader_log, follower_log, socket, connVars, localVars, clientVars >>

\* Faulty variant: the Redis error is swallowed and the producer acknowledged.
SetHwmFailsQuietly(h) ==
    /\ pc[h] = "hwm"
    /\ Goto(h, "ack")
    /\ UNCHANGED << brokerVars, socket, connVars, localVars, clientVars >>

\* Redis does not answer, whether or not it has executed the SET: the except
\* branch replies with an ERROR.
SetHwmFails(h) ==
    /\ pc[h] = "hwm"
    /\ hwm' \in {hwm, offset[h]}
    /\ Goto(h, "error")
    /\ UNCHANGED << leader_log, follower_log, socket, connVars, localVars, clientVars >>

\* The handler has replied and waits for its client's next request.
Idle(h) ==
    /\ Goto(h, "idle")
    /\ msg' = [msg EXCEPT ![h] = NoMsg]
    /\ offset' = [offset EXCEPT ![h] = 0]
    /\ retry_count' = [retry_count EXCEPT ![h] = 0]
    /\ UNCHANGED sock

\* The ACK to the producer; lost if the producer has stopped waiting.
AckProducer(h) ==
    /\ pc[h] = "ack"
    /\ acked' = acked \cup {Msg(p) : p \in Waiting(h)}
    /\ Answered(h)
    /\ Idle(h)
    /\ UNCHANGED << brokerVars, socket, connVars, refused >>

\* Faulty variant: the error path takes the HWM back below the failed offset.
ErrorRollsHwmBack(h) ==
    /\ pc[h] = "error"
    /\ hwm' = offset[h] - 1
    /\ refused' = refused \cup {Msg(p) : p \in Waiting(h)}
    /\ Answered(h)
    /\ Idle(h)
    /\ UNCHANGED << leader_log, follower_log, socket, connVars, acked >>

\* REPLICATION_ERROR or GENERAL: send_message gives up on the message.
ErrorToProducer(h) ==
    /\ pc[h] = "error"
    /\ refused' = refused \cup {Msg(p) : p \in Waiting(h)}
    /\ Answered(h)
    /\ Idle(h)
    /\ UNCHANGED << brokerVars, socket, connVars, acked >>

HandlerStep(h) ==
    \/ AppendLocal(h)   \/ CheckSocket(h)
    \/ OpenSocket(h)    \/ OpenSocketFails(h)
    \/ Dial(h)          \/ DialFails(h)
    \/ Connected(h)     \/ ConnectFails(h)
    \/ SendReplicate(h) \/ SendFails(h)
    \/ AwaitAck(h)      \/ AwaitFails(h)
    \/ ReceiveAck(h)    \/ ReceiveNothing(h)
    \/ SetHwm(h)        \/ SetHwmFails(h)
    \/ AckProducer(h)   \/ ErrorToProducer(h)

-----------------------------------------------------------------------------
(***************************************************************************)
(* The follower: one thread per connection.  It stores the frame at the    *)
(* offset it carries unless it has the id, and ACKs either way.  What is   *)
(* in a connection's buffers is still served after the leader dropped it.  *)
(***************************************************************************)
Replicate(c) ==
    /\ inflight[c] # << >>
    /\ LET frame == Head(inflight[c]) IN
          follower_log' = AppendAt(follower_log, frame.id, frame.offset)
    /\ inflight' = [inflight EXCEPT ![c] = Tail(@)]
    /\ acks' = [acks EXCEPT ![c] = IF state[c] = "open" THEN @ + 1 ELSE @]
    /\ UNCHANGED << leader_log, hwm, socket, state, pc, localVars, clientVars >>

\* The network, or the follower's side of a connection, fails.
BreakConn(c) ==
    /\ state[c] = "open"
    /\ Close({c})
    /\ UNCHANGED << brokerVars, socket, pc, localVars, clientVars >>

-----------------------------------------------------------------------------
\* Every producer has had its answers and no thread is at work.
Finished ==
    /\ \A p \in Producers : ~Sending(p)
    /\ \A h \in Handlers : pc[h] = "idle"
    /\ UNCHANGED vars

Next ==
    \/ \E p \in Producers : ProducerStep(p)
    \/ \E h \in Handlers : HandlerStep(h)
    \/ \E c \in Conns : Replicate(c) \/ BreakConn(c)
    \/ Finished

Spec == Init /\ [][Next]_vars

\* Threads run; connect, recv and the producer's wait all have timeouts, so
\* each of them ends.  A call of Redis, which has none, is assumed to return or fail.
\* Nothing is assumed of the network or the follower.
Fairness ==
    /\ \A h \in Handlers : WF_vars(HandlerStep(h))
    /\ \A p \in Producers : WF_vars(ProducerStep(p))

FairSpec == Spec /\ Fairness

-----------------------------------------------------------------------------
(***************************************************************************)
(* Properties.                                                             *)
(***************************************************************************)
TypeOK ==
    /\ leader_log \in LogType(MessageIds)
    /\ follower_log \in LogType(MessageIds)
    /\ hwm \in Nat \cup {-1}
    /\ socket \in Conns \cup {NoConn}
    /\ state \in [Conns -> {"unused", "fresh", "open", "closed"}]
    /\ inflight \in [Conns -> Seq(Frame)]
    /\ acks \in [Conns -> Nat]
    /\ pc \in [Handlers -> HandlerPC]
    /\ msg \in [Handlers -> MessageIds \cup {NoMsg}]
    /\ offset \in [Handlers -> Nat]
    /\ retry_count \in [Handlers -> 0..MaxRetries]
    /\ sock \in [Handlers -> Conns \cup {NoConn}]
    /\ seq \in [Producers -> 1..(MaxMessages + 1)]
    /\ tries \in [Producers -> 0..(MaxSends - 1)]
    /\ awaits \in [Producers -> Handlers \cup {NoHandler}]
    /\ acked \subseteq MessageIds
    /\ refused \subseteq MessageIds

\* However many threads race on the shared socket, however late a frame of an
\* abandoned connection arrives: what the follower stores at an offset is the
\* message the leader stored there, and it stores no offset twice.  (Promotion
\* serves the follower's log as the leader's.)
ReplicaMatches ==
    /\ \A f \in Entries(follower_log) :
          \E l \in Entries(leader_log) : l.offset = f.offset /\ l.id = f.id
    /\ \A i, j \in DOMAIN follower_log.log :
          follower_log.log[i].offset = follower_log.log[j].offset => i = j

\* Wherever the leader has stored a producer's acknowledged messages, their
\* offsets are in the order of its calls, although a timed-out handler may
\* append a message long after the producer has gone on; and it has stored them.
ProducerOrder ==
    /\ acked \subseteq message_ids(leader_log)
    /\ \A d, e \in Entries(leader_log) :
          /\ {d.id, e.id} \subseteq acked
          /\ d.id[1] = e.id[1]
          /\ d.id[2] < e.id[2]
          => d.offset < e.offset

\* What the leader answers a FETCH with: handle_fetch_request reads the HWM,
\* slices the log by position and drops what lies beyond the HWM.
Visible(start, max) ==
    {e \in {leader_log.log[i] : i \in GetByPosition(leader_log, start, max)} :
        e.offset <= hwm}

(***************************************************************************)
(* What "synchronous replication" promises.  These hold when the handler   *)
(* threads do not overlap (Handlers is a singleton).                       *)
(***************************************************************************)
\* An acknowledged message is in the follower's log.
AckedReplicated == acked \subseteq message_ids(follower_log)

\* The HWM names an offset the follower has.
HwmReplicated == hwm # -1 => hwm \in Offsets(follower_log)

\* With one producer as well: an entry at or below the HWM that the follower
\* lacks is one whose send_message has already returned False.
VisibleReplicatedOrRefused ==
    \A e \in Entries(leader_log) :
        e.offset <= hwm /\ e.id \notin message_ids(follower_log) => e.id \in refused

\* With one producer as well: an acknowledged message stays readable, at or below
\* the HWM.
AckedVisible == \A m \in acked : OffsetOf(leader_log, m) <= hwm

\* With one producer as well: the HWM never goes back, under retries, duplicates
\* and Redis failures, although set_hwm takes whatever offset it is given.
HwmMonotonic == [][hwm' >= hwm]_vars

\* The steps left to a handler before its reply: each round of the loop of
\* replicate_message takes it through some of the stages, and counts as ten.
Stage == [append |-> 10, check |-> 9, connect |-> 8, target |-> 7, dial |-> 6, send |-> 5,
          await |-> 4, recv |-> 3, hwm |-> 2, ack |-> 1, error |-> 1, idle |-> 0]

Left(h) == IF pc[h] = "idle" THEN 0
           ELSE 10 * (MaxRetries - retry_count[h]) + Stage[pc[h]]

\* Every step of a handler brings it nearer to its reply, and no other thread sets it
\* back, although they close and replace each other's socket and each of them keeps
\* failing: no PRODUCE is worked on for ever, on any schedule.
HandlersAdvance ==
    [][\A h \in Handlers : pc[h] # "idle" =>
          \/ Left(h)' < Left(h)
          \/ UNCHANGED << pc[h], msg[h], offset[h], retry_count[h], sock[h] >>]_vars

\* Every PRODUCE a thread has taken is answered, and every producer gets
\* through all its messages.
HandlersFinish == \A h \in Handlers : pc[h] = "append" ~> pc[h] = "idle"
ProducersFinish == \A p \in Producers : <>~Sending(p)

(***************************************************************************)
(* What the README says of the same state, whatever the threads do.        *)
(***************************************************************************)
\* README.md:23, "nothing un-replicated is ever visible".
NothingUnreplicatedVisible ==
    \A e \in Visible(0, Cardinality(MessageIds)) : e.id \in message_ids(follower_log)

(***************************************************************************)
(* The abstract specification it implements.                               *)
(***************************************************************************)
Contract == INSTANCE SyncReplication WITH
    accepted <- [i \in DOMAIN leader_log.log |-> leader_log.log[i].id],
    copied   <- Offsets(follower_log)

ImplementsContract == Contract!Spec

(***************************************************************************)
(* The commit path of Failover, while the leader is in office.  There a    *)
(* replication is one step that succeeds or fails, the frames underway are *)
(* a set, without those of messages the follower has, and an answer has    *)
(* the offset with it.                                                     *)
(***************************************************************************)
TheHandler == CHOOSE h \in Handlers : TRUE

HandlerAt ==
    IF pc[TheHandler] \in {"check", "connect", "target", "dial", "send", "await", "recv"}
    THEN "replicate"
    ELSE pc[TheHandler]

Underway ==
    {f \in UNION {{inflight[c][i] : i \in DOMAIN inflight[c]} : c \in Conns} :
        f.id \notin message_ids(follower_log)}

AckedEntries == {NewEntry(OffsetOf(leader_log, m), m) : m \in acked}

Coarse == INSTANCE Failover WITH
    Rows <- MaxMessages, MaxStarts <- 1,
    Leader <- "leader", Follower <- "follower", NoBroker <- "nobody",
    held <- TRUE, leader <- "leader", current <- "leader", starts <- 1,
    inflight <- Underway,
    pc       <- HandlerAt,
    msg      <- msg[TheHandler],
    offset   <- offset[TheHandler],
    awaits   <- [p \in Producers |-> awaits[p] # NoHandler],
    acked    <- AckedEntries

\* With one handler, the sockets, retries and ACKs that nobody compares do what
\* Failover takes for granted: among the rest, that set_hwm comes only after the
\* follower has the message, and that it is told the leader's offset.
ImplementsFailover == Coarse!Fresh /\ [][Coarse!Next]_(Coarse!vars)
=============================================================================

------------------------ MODULE Replication_proofs ------------------------
(***************************************************************************)
(* Theorems of Replication, for any number of producers, handler threads,  *)
(* connections, messages and retries.                                      *)
(***************************************************************************)
EXTENDS Replication, LogManager_proofs, TLAPS

(***************************************************************************)
(* Type correctness.  What a handler's locals hold depends on where it is. *)
(***************************************************************************)
HandlerLocals ==
    \A h \in Handlers :
        /\ pc[h] # "idle" => msg[h] \in MessageIds
        /\ pc[h] \in {"connect", "target", "dial", "send", "await", "recv"}
             => retry_count[h] < MaxRetries
        /\ pc[h] \in {"dial", "recv"} => sock[h] \in Conns

WaitingSends == \A p \in Producers : awaits[p] # NoHandler => Sending(p)

TypeInv == TypeOK /\ HandlerLocals /\ WaitingSends

LEMMA TypeInit == Init => TypeInv
<1> SUFFICES ASSUME Init PROVE TypeInv
  OBVIOUS
<1> USE BoundsAssumption, NoneAssumption
<1>1. EmptyLog \in LogType(MessageIds)
  BY DEF EmptyLog, LogType
<1>2. TypeOK
  BY <1>1 DEF Init, TypeOK, HandlerPC
<1>3. HandlerLocals /\ WaitingSends
  BY DEF Init, HandlerLocals, WaitingSends
<1> QED
  BY <1>2, <1>3 DEF TypeInv

\* The message a producer is sending is one of the messages.
LEMMA MsgType ==
    ASSUME TypeInv, NEW p \in Producers, Sending(p)
    PROVE  Msg(p) \in MessageIds
<1>1. seq[p] \in 1..MaxMessages
  BY BoundsAssumption DEF TypeInv, TypeOK, Sending
<1> QED
  BY <1>1 DEF Msg, MessageIds

\* What a step that answers the waiting producer leaves behind.
LEMMA AnsweredFacts ==
    ASSUME TypeInv, NEW h \in Handlers, Answered(h)
    PROVE  /\ seq' \in [Producers -> 1..(MaxMessages + 1)]
           /\ tries' \in [Producers -> 0..(MaxSends - 1)]
           /\ awaits' \in [Producers -> Handlers \cup {NoHandler}]
           /\ \A p \in Producers : awaits'[p] # NoHandler => awaits'[p] = awaits[p] /\ seq'[p] = seq[p]
           /\ {Msg(p) : p \in Waiting(h)} \subseteq MessageIds
<1> USE BoundsAssumption, NoneAssumption
<1>1. \A p \in Waiting(h) : p \in Producers /\ Sending(p)
  BY DEF Waiting, TypeInv, WaitingSends
<1>2. {Msg(p) : p \in Waiting(h)} \subseteq MessageIds
  BY <1>1, MsgType
<1>3. seq' \in [Producers -> 1..(MaxMessages + 1)]
  BY <1>1 DEF Answered, Sending, TypeInv, TypeOK
<1>4. tries' \in [Producers -> 0..(MaxSends - 1)]
  BY DEF Answered, TypeInv, TypeOK
<1>5. awaits' \in [Producers -> Handlers \cup {NoHandler}]
  BY DEF Answered, TypeInv, TypeOK
<1>6. \A p \in Producers : awaits'[p] # NoHandler => awaits'[p] = awaits[p] /\ seq'[p] = seq[p]
  BY DEF Answered
<1> QED
  BY <1>2, <1>3, <1>4, <1>5, <1>6

\* The head and the tail of a non-empty channel of frames.
LEMMA FrameFacts ==
    ASSUME NEW q \in Seq(Frame), q # << >>
    PROVE  /\ Head(q) \in Frame
           /\ Head(q).id \in MessageIds
           /\ Head(q).offset \in Nat
           /\ Tail(q) \in Seq(Frame)
<1>1. Head(q) \in Frame /\ Tail(q) \in Seq(Frame)
  OBVIOUS
<1> QED
  BY <1>1 DEF Frame

LEMMA TypeStep == TypeInv /\ [Next]_vars => TypeInv'
<1> SUFFICES ASSUME TypeInv, [Next]_vars PROVE TypeInv'
  OBVIOUS
<1> USE BoundsAssumption, NoneAssumption DEF TypeInv, TypeOK, HandlerLocals, WaitingSends,
        brokerVars, connVars, localVars, clientVars, HandlerPC, Goto, Retry, Close, Idle,
        Sending
<1>1. ASSUME NEW p \in Producers, NEW h \in Handlers, Produce(p, h) PROVE TypeInv'
  BY <1>1, MsgType DEF Produce
<1>2. ASSUME NEW p \in Producers, ResendLater(p) PROVE TypeInv'
  BY <1>2 DEF ResendLater
<1>3. ASSUME NEW p \in Producers, GiveUp(p) PROVE TypeInv'
  <2>1. Msg(p) \in MessageIds
    BY <1>3, MsgType DEF GiveUp
  <2>2. seq' \in [Producers -> 1..(MaxMessages + 1)]
    BY <1>3 DEF GiveUp
  <2>3. tries' \in [Producers -> 0..(MaxSends - 1)]
    BY <1>3 DEF GiveUp
  <2>4. \A q \in Producers : awaits'[q] # NoHandler => q # p /\ seq'[q] = seq[q]
    BY <1>3 DEF GiveUp
  <2> QED
    BY <1>3, <2>1, <2>2, <2>3, <2>4 DEF GiveUp
<1>4. ASSUME NEW h \in Handlers, AppendLocal(h) PROVE TypeInv'
  <2>1. /\ leader_log' \in LogType(MessageIds)
        /\ msg[h] \in message_ids(leader_log')
    BY <1>4, AppendNextFacts DEF AppendLocal
  <2>2. OffsetOf(leader_log', msg[h]) \in Nat
    BY <2>1, OffsetOfFacts
  <2> QED
    BY <1>4, <2>1, <2>2 DEF AppendLocal
<1>5. ASSUME NEW h \in Handlers, CheckSocket(h) PROVE TypeInv'
  BY <1>5, ZenonT(30) DEF CheckSocket
<1>6. ASSUME NEW h \in Handlers, OpenSocket(h) PROVE TypeInv'
  BY <1>6, SMTT(30) DEF OpenSocket
<1>7. ASSUME NEW h \in Handlers, OpenSocketFails(h) PROVE TypeInv'
  BY <1>7, SMTT(30) DEF OpenSocketFails
<1>8. ASSUME NEW h \in Handlers, Connected(h) PROVE TypeInv'
  BY <1>8 DEF Connected
<1>9. ASSUME NEW h \in Handlers, ConnectFails(h) PROVE TypeInv'
  BY <1>9, SMTT(30) DEF ConnectFails
<1>10. ASSUME NEW h \in Handlers, SendReplicate(h) PROVE TypeInv'
  <2> DEFINE f == [id |-> msg[h], offset |-> offset[h]]
  <2>1. f \in Frame
    BY <1>10 DEF SendReplicate, Frame
  <2>2. inflight' \in [Conns -> Seq(Frame)]
    BY <1>10, <2>1 DEF SendReplicate
  <2> QED
    BY <1>10, <2>2 DEF SendReplicate
<1>11. ASSUME NEW h \in Handlers, SendFails(h) PROVE TypeInv'
  BY <1>11 DEF SendFails
<1>12. ASSUME NEW h \in Handlers, AwaitAck(h) PROVE TypeInv'
  BY <1>12 DEF AwaitAck
<1>13. ASSUME NEW h \in Handlers, AwaitFails(h) PROVE TypeInv'
  BY <1>13 DEF AwaitFails
<1>14. ASSUME NEW h \in Handlers, ReceiveAck(h) PROVE TypeInv'
  BY <1>14, SMTT(30) DEF ReceiveAck
<1>15. ASSUME NEW h \in Handlers, ReceiveNothing(h) PROVE TypeInv'
  BY <1>15, SMTT(30) DEF ReceiveNothing
<1>16. ASSUME NEW h \in Handlers, SetHwm(h) PROVE TypeInv'
  BY <1>16 DEF SetHwm
<1>17. ASSUME NEW h \in Handlers, SetHwmFails(h) PROVE TypeInv'
  BY <1>17 DEF SetHwmFails
<1>18. ASSUME NEW h \in Handlers, AckProducer(h) PROVE TypeInv'
  <2>1. /\ seq' \in [Producers -> 1..(MaxMessages + 1)]
        /\ tries' \in [Producers -> 0..(MaxSends - 1)]
        /\ awaits' \in [Producers -> Handlers \cup {NoHandler}]
        /\ \A p \in Producers :
              awaits'[p] # NoHandler => awaits'[p] = awaits[p] /\ seq'[p] = seq[p]
        /\ acked' \subseteq MessageIds
    BY <1>18, AnsweredFacts DEF AckProducer
  <2>2. TypeOK'
    BY <1>18, <2>1 DEF AckProducer
  <2>3. HandlerLocals' /\ WaitingSends'
    BY <1>18, <2>1 DEF AckProducer
  <2> QED
    BY <2>2, <2>3
<1>19. ASSUME NEW h \in Handlers, ErrorToProducer(h) PROVE TypeInv'
  <2>1. /\ seq' \in [Producers -> 1..(MaxMessages + 1)]
        /\ tries' \in [Producers -> 0..(MaxSends - 1)]
        /\ awaits' \in [Producers -> Handlers \cup {NoHandler}]
        /\ \A p \in Producers :
              awaits'[p] # NoHandler => awaits'[p] = awaits[p] /\ seq'[p] = seq[p]
        /\ refused' \subseteq MessageIds
    BY <1>19, AnsweredFacts DEF ErrorToProducer
  <2>2. TypeOK'
    BY <1>19, <2>1 DEF ErrorToProducer
  <2>3. HandlerLocals' /\ WaitingSends'
    BY <1>19, <2>1 DEF ErrorToProducer
  <2> QED
    BY <2>2, <2>3
<1>20. ASSUME NEW c \in Conns, Replicate(c) PROVE TypeInv'
  <2>1. inflight[c] \in Seq(Frame) /\ inflight[c] # << >>
    BY <1>20 DEF Replicate
  <2>2. /\ Head(inflight[c]).id \in MessageIds
        /\ Head(inflight[c]).offset \in Nat
        /\ Tail(inflight[c]) \in Seq(Frame)
    BY <2>1, FrameFacts
  <2>3. follower_log' \in LogType(MessageIds)
    BY <1>20, <2>2, AppendAtFacts DEF Replicate
  <2> QED
    BY <1>20, <2>2, <2>3, SMTT(30) DEF Replicate
<1>21. ASSUME NEW c \in Conns, BreakConn(c) PROVE TypeInv'
  BY <1>21 DEF BreakConn
<1>22. CASE UNCHANGED vars
  BY <1>22 DEF vars
<1>23. ASSUME NEW h \in Handlers, Dial(h) \/ DialFails(h) PROVE TypeInv'
  <2>1. CASE Dial(h)
    BY <2>1 DEF Dial
  <2>2. CASE DialFails(h)
    BY <2>2, SMTT(30) DEF DialFails
  <2> QED
    BY <1>23, <2>1, <2>2
<1> QED
  BY <1>1, <1>2, <1>3, <1>4, <1>5, <1>6, <1>7, <1>8, <1>9, <1>10, <1>11, <1>12, <1>13,
     <1>14, <1>15, <1>16, <1>17, <1>18, <1>19, <1>20, <1>21, <1>22,
     <1>23 DEF Next, ProducerStep, HandlerStep, Finished

\* Every variable keeps its type in every run of the program: the sockets,
\* offsets and retry counts of the handler threads included.
THEOREM TypeCorrect == Spec => []TypeOK
<1>1. TypeInv => TypeOK
  BY DEF TypeInv
<1> QED
  BY <1>1, TypeInit, TypeStep, PTL DEF Spec

\* The stages a handler passes, as numbers.
LEMMA StageFacts ==
    /\ Stage["append"] = 10 /\ Stage["check"] = 9 /\ Stage["connect"] = 8 /\ Stage["target"] = 7
    /\ Stage["dial"] = 6 /\ Stage["send"] = 5 /\ Stage["await"] = 4
    /\ Stage["recv"] = 3 /\ Stage["hwm"] = 2 /\ Stage["ack"] = 1
    /\ Stage["error"] = 1 /\ Stage["idle"] = 0
BY DEF Stage

\* A handler's own step, from one stage to another.
LEMMA HandlerMoves ==
    ASSUME TypeInv, NEW h \in Handlers, HandlerStep(h)
    PROVE  /\ pc[h] # "idle"
           /\ Left(h)' < Left(h)
           /\ \A g \in Handlers \ {h} :
                  UNCHANGED << pc[g], msg[g], offset[g], retry_count[g], sock[g] >>
<1>1. /\ retry_count[h] \in 0..MaxRetries /\ retry_count'[h] \in 0..MaxRetries
      /\ MaxRetries \in Nat
  <2>1. [Next]_vars
    BY DEF Next
  <2>2. TypeInv'
    BY <2>1, TypeStep
  <2> QED
    BY <2>2, BoundsAssumption DEF TypeInv, TypeOK
<1> DEFINE
      Moves(from, to) == pc[h] = from /\ pc' = [pc EXCEPT ![h] = to]
      Keeps == UNCHANGED << msg, offset, retry_count >>
      Others == \A g \in Handlers \ {h} :
                   UNCHANGED << msg[g], offset[g], retry_count[g], sock[g] >>
<1>2. /\ \/ /\ \/ Moves("append", "check") \/ Moves("check", "connect")
                \/ Moves("check", "send") \/ Moves("check", "error")
                \/ Moves("connect", "target") \/ Moves("target", "dial") \/ Moves("dial", "send")
                \/ Moves("send", "await") \/ Moves("await", "recv")
                \/ Moves("recv", "hwm") \/ Moves("hwm", "ack") \/ Moves("hwm", "error")
             /\ retry_count'[h] = retry_count[h]
          \/ /\ \E from \in {"connect", "target", "dial", "send", "await", "recv"} :
                    Moves(from, "check")
             /\ retry_count'[h] = retry_count[h] + 1
          \/ Moves("ack", "idle") \/ Moves("error", "idle")
      /\ Others
  <2> USE DEF TypeInv, TypeOK, localVars, Goto, Retry, Idle
  <2>1. CASE AppendLocal(h) \/ CheckSocket(h)
    BY <2>1 DEF AppendLocal, CheckSocket
  <2>2. CASE OpenSocket(h) \/ OpenSocketFails(h) \/ Dial(h) \/ DialFails(h)
    BY <2>2 DEF OpenSocket, OpenSocketFails, Dial, DialFails
  <2>3. CASE Connected(h) \/ ConnectFails(h)
    BY <2>3 DEF Connected, ConnectFails
  <2>4. CASE SendReplicate(h) \/ SendFails(h)
    BY <2>4 DEF SendReplicate, SendFails
  <2>5. CASE AwaitAck(h) \/ AwaitFails(h)
    BY <2>5 DEF AwaitAck, AwaitFails
  <2>6. CASE ReceiveAck(h) \/ ReceiveNothing(h)
    BY <2>6 DEF ReceiveAck, ReceiveNothing
  <2>7. CASE SetHwm(h) \/ SetHwmFails(h)
    BY <2>7 DEF SetHwm, SetHwmFails
  <2>8. CASE AckProducer(h) \/ ErrorToProducer(h)
    BY <2>8 DEF AckProducer, ErrorToProducer
  <2> QED
    BY <2>1, <2>2, <2>3, <2>4, <2>5, <2>6, <2>7, <2>8 DEF HandlerStep
<1>3. pc \in [Handlers -> HandlerPC]
  BY DEF TypeInv, TypeOK
<1>4. pc[h] # "idle" /\ \A g \in Handlers \ {h} : pc'[g] = pc[g]
  BY <1>2, <1>3
<1>5. Left(h)' < Left(h)
  BY <1>1, <1>2, <1>3, StageFacts DEF Left
<1> QED
  BY <1>2, <1>4, <1>5

\* Every step of a handler brings it nearer to its reply, so that it takes no more than
\* ten times MaxRetries + 1 of them for a PRODUCE: the safety half of HandlersFinish.
THEOREM HandlersProgress == Spec => HandlersAdvance
<1> DEFINE Advance ==
      \A h \in Handlers : pc[h] # "idle" =>
          \/ Left(h)' < Left(h)
          \/ UNCHANGED << pc[h], msg[h], offset[h], retry_count[h], sock[h] >>
<1>1. TypeInv /\ [Next]_vars => [Advance]_vars
  <2> SUFFICES ASSUME TypeInv, [Next]_vars PROVE Advance
    OBVIOUS
  <2>1. ASSUME NEW p \in Producers, ProducerStep(p) PROVE Advance
    BY <2>1 DEF ProducerStep, Produce, ResendLater, GiveUp, localVars, TypeInv, TypeOK
  <2>2. ASSUME NEW h \in Handlers, HandlerStep(h) PROVE Advance
    BY <2>2, HandlerMoves
  <2>3. ASSUME NEW c \in Conns, Replicate(c) \/ BreakConn(c) PROVE Advance
    BY <2>3 DEF Replicate, BreakConn, localVars
  <2>4. CASE UNCHANGED vars
    BY <2>4 DEF vars, localVars
  <2> QED
    BY <2>1, <2>2, <2>3, <2>4 DEF Next, Finished
<1> HIDE DEF Advance
<1>2. Spec => [][Advance]_vars
  BY <1>1, TypeInit, TypeStep, PTL DEF Spec
<1> QED
  BY <1>2 DEF HandlersAdvance, Advance


(***************************************************************************)
(* The replica is a part of the leader's log, whatever the threads do.     *)
(* What travels to the follower was read from the leader's log: a handler  *)
(* carries an entry of it, a frame carries an entry of it, and entries are *)
(* never changed or dropped.                                               *)
(***************************************************************************)
LogsWellFormed ==
    /\ UniqueIds(leader_log) /\ Positional(leader_log)
    /\ UniqueIds(follower_log)

\* Between append and its reply a handler holds an entry of the leader's log.
LocalsStored ==
    \A h \in Handlers : pc[h] \notin {"idle", "append"} => StoredAt(leader_log, msg[h], offset[h])

FramesStored ==
    \A c \in Conns : \A i \in DOMAIN inflight[c] :
        StoredAt(leader_log, inflight[c][i].id, inflight[c][i].offset)

ReplicaStored ==
    \A e \in Entries(follower_log) : StoredAt(leader_log, e.id, e.offset)

ReplicaInv == LogsWellFormed /\ LocalsStored /\ FramesStored /\ ReplicaStored

LEMMA ReplicaInit == Init => ReplicaInv
<1> SUFFICES ASSUME Init PROVE ReplicaInv
  OBVIOUS
<1>1. leader_log.log = << >> /\ follower_log.log = << >> /\ leader_log.next_offset = 0
  BY DEF Init, EmptyLog
<1>2. LogsWellFormed
  BY <1>1 DEF LogsWellFormed, UniqueIds, Positional
<1>3. LocalsStored /\ FramesStored
  BY DEF Init, LocalsStored, FramesStored
<1>4. Entries(follower_log) = {}
  BY <1>1 DEF Entries
<1> QED
  BY <1>2, <1>3, <1>4 DEF ReplicaInv, ReplicaStored

\* A step that leaves the logs and the channels alone and takes no handler out
\* of "idle" or "append".
LEMMA ReplicaQuietStep ==
    ASSUME ReplicaInv, UNCHANGED << leader_log, follower_log, inflight >>,
           \A h \in Handlers : pc'[h] \notin {"idle", "append"} =>
               pc[h] \notin {"idle", "append"} /\ msg'[h] = msg[h] /\ offset'[h] = offset[h]
    PROVE  ReplicaInv'
BY DEF ReplicaInv, LogsWellFormed, LocalsStored, FramesStored, ReplicaStored, StoredAt, UniqueIds,
       Positional, Entries

LEMMA ReplicaStep == TypeInv /\ ReplicaInv /\ [Next]_vars => ReplicaInv'
<1> SUFFICES ASSUME TypeInv, ReplicaInv, [Next]_vars PROVE ReplicaInv'
  OBVIOUS
<1> USE BoundsAssumption, NoneAssumption
        DEF brokerVars, connVars, localVars, clientVars, Goto, Retry, Close, Idle
<1>0. pc \in [Handlers -> HandlerPC] /\ msg \in [Handlers -> MessageIds \cup {NoMsg}]
     /\ offset \in [Handlers -> Nat]
  BY DEF TypeInv, TypeOK
<1>1. ASSUME NEW p \in Producers, NEW h \in Handlers, Produce(p, h) PROVE ReplicaInv'
  BY <1>1, <1>0, ReplicaQuietStep DEF Produce
<1>2. ASSUME NEW p \in Producers, ResendLater(p) PROVE ReplicaInv'
  BY <1>2, ReplicaQuietStep DEF ResendLater
<1>3. ASSUME NEW p \in Producers, GiveUp(p) PROVE ReplicaInv'
  BY <1>3, ReplicaQuietStep DEF GiveUp
<1>4. ASSUME NEW h \in Handlers, AppendLocal(h) PROVE ReplicaInv'
  <2>1. leader_log \in LogType(MessageIds) /\ msg[h] \in MessageIds
    BY <1>4 DEF TypeInv, TypeOK, HandlerLocals, AppendLocal
  <2>2. /\ leader_log' \in LogType(MessageIds)
        /\ msg[h] \in message_ids(leader_log')
        /\ UniqueIds(leader_log') /\ Positional(leader_log')
        /\ Entries(leader_log) \subseteq Entries(leader_log')
    BY <1>4, <2>1, AppendNextFacts, AppendNextKeeps
       DEF AppendLocal, ReplicaInv, LogsWellFormed
  <2>3. StoredAt(leader_log', msg[h], OffsetOf(leader_log', msg[h]))
    BY <2>2, OffsetOfFacts DEF StoredAt
  <2>4. \A id, o : StoredAt(leader_log, id, o) => StoredAt(leader_log', id, o)
    BY <2>2 DEF StoredAt
  <2>5. LocalsStored'
    BY <1>4, <1>0, <2>3, <2>4 DEF AppendLocal, LocalsStored, ReplicaInv
  <2>6. FramesStored' /\ ReplicaStored'
    BY <1>4, <2>4 DEF AppendLocal, FramesStored, ReplicaStored, ReplicaInv
  <2>7. LogsWellFormed'
    BY <1>4, <2>2 DEF AppendLocal, LogsWellFormed, ReplicaInv
  <2> QED
    BY <2>5, <2>6, <2>7 DEF ReplicaInv
<1>5. ASSUME NEW h \in Handlers, CheckSocket(h) PROVE ReplicaInv'
  BY <1>5, <1>0, ReplicaQuietStep DEF CheckSocket
<1>6. ASSUME NEW h \in Handlers, OpenSocket(h) PROVE ReplicaInv'
  BY <1>6, <1>0, ReplicaQuietStep DEF OpenSocket
<1>7. ASSUME NEW h \in Handlers, OpenSocketFails(h) PROVE ReplicaInv'
  BY <1>7, <1>0, ReplicaQuietStep DEF OpenSocketFails
<1>8. ASSUME NEW h \in Handlers, Connected(h) PROVE ReplicaInv'
  BY <1>8, <1>0, ReplicaQuietStep DEF Connected
<1>9. ASSUME NEW h \in Handlers, ConnectFails(h) PROVE ReplicaInv'
  BY <1>9, <1>0, ReplicaQuietStep DEF ConnectFails
<1>10. ASSUME NEW h \in Handlers, SendReplicate(h) PROVE ReplicaInv'
  <2> DEFINE f == [id |-> msg[h], offset |-> offset[h]]
  <2>1. /\ inflight \in [Conns -> Seq(Frame)]
        /\ socket \in Conns
        /\ f \in Frame
    BY <1>10 DEF SendReplicate, TypeInv, TypeOK, HandlerLocals, Frame
  <2>2. StoredAt(leader_log, f.id, f.offset)
    BY <1>10 DEF SendReplicate, ReplicaInv, LocalsStored
  <2>3. FramesStored'
    <3> SUFFICES ASSUME NEW c \in Conns, NEW i \in DOMAIN inflight'[c]
                 PROVE  StoredAt(leader_log, inflight'[c][i].id, inflight'[c][i].offset)
      BY <1>10 DEF FramesStored, SendReplicate
    <3>1. CASE c # socket
      BY <1>10, <2>1, <3>1 DEF SendReplicate, ReplicaInv, FramesStored
    <3>2. CASE c = socket
      <4>1. inflight'[c] = Append(inflight[c], f) /\ inflight[c] \in Seq(Frame)
        BY <1>10, <2>1, <3>2 DEF SendReplicate
      <4>2. \/ i \in DOMAIN inflight[c] /\ inflight'[c][i] = inflight[c][i]
            \/ inflight'[c][i] = f
        BY <2>1, <4>1
      <4> QED
        BY <2>2, <4>2 DEF ReplicaInv, FramesStored
    <3> QED
      BY <3>1, <3>2
  <2>4. LocalsStored'
    BY <1>10, <1>0 DEF SendReplicate, LocalsStored, ReplicaInv
  <2>5. LogsWellFormed' /\ ReplicaStored'
    BY <1>10 DEF SendReplicate, LogsWellFormed, ReplicaStored, ReplicaInv
  <2> QED
    BY <2>3, <2>4, <2>5 DEF ReplicaInv
<1>11. ASSUME NEW h \in Handlers, SendFails(h) PROVE ReplicaInv'
  BY <1>11, <1>0, ReplicaQuietStep DEF SendFails
<1>12. ASSUME NEW h \in Handlers, AwaitAck(h) PROVE ReplicaInv'
  BY <1>12, <1>0, ReplicaQuietStep DEF AwaitAck
<1>13. ASSUME NEW h \in Handlers, AwaitFails(h) PROVE ReplicaInv'
  BY <1>13, <1>0, ReplicaQuietStep DEF AwaitFails
<1>14. ASSUME NEW h \in Handlers, ReceiveAck(h) PROVE ReplicaInv'
  BY <1>14, <1>0, ReplicaQuietStep DEF ReceiveAck
<1>15. ASSUME NEW h \in Handlers, ReceiveNothing(h) PROVE ReplicaInv'
  BY <1>15, <1>0, ReplicaQuietStep DEF ReceiveNothing
<1>16. ASSUME NEW h \in Handlers, SetHwm(h) PROVE ReplicaInv'
  BY <1>16, <1>0, ReplicaQuietStep DEF SetHwm
<1>17. ASSUME NEW h \in Handlers, SetHwmFails(h) PROVE ReplicaInv'
  BY <1>17, <1>0, ReplicaQuietStep DEF SetHwmFails
<1>18. ASSUME NEW h \in Handlers, AckProducer(h) PROVE ReplicaInv'
  BY <1>18, <1>0, ReplicaQuietStep DEF AckProducer
<1>19. ASSUME NEW h \in Handlers, ErrorToProducer(h) PROVE ReplicaInv'
  BY <1>19, <1>0, ReplicaQuietStep DEF ErrorToProducer
<1>20. ASSUME NEW c \in Conns, Replicate(c) PROVE ReplicaInv'
  <2> DEFINE f == Head(inflight[c])
  <2>1. inflight \in [Conns -> Seq(Frame)] /\ inflight[c] # << >> /\ inflight[c] \in Seq(Frame)
    BY <1>20 DEF Replicate, TypeInv, TypeOK
  <2>2. /\ f.id \in MessageIds /\ f.offset \in Nat
        /\ f = inflight[c][1] /\ 1 \in DOMAIN inflight[c]
        /\ \A i \in DOMAIN Tail(inflight[c]) :
              i + 1 \in DOMAIN inflight[c] /\ Tail(inflight[c])[i] = inflight[c][i + 1]
    BY <2>1, FrameFacts
  <2>3. StoredAt(leader_log, f.id, f.offset)
    BY <2>2 DEF ReplicaInv, FramesStored
  <2>4. follower_log \in LogType(MessageIds) /\ UniqueIds(follower_log)
    BY DEF TypeInv, TypeOK, ReplicaInv, LogsWellFormed
  <2>5. follower_log' = AppendAt(follower_log, f.id, f.offset)
    BY <1>20 DEF Replicate
  <2>6. UniqueIds(follower_log')
    BY <2>2, <2>4, <2>5, AppendAtKeeps
  <2>7. \A e \in Entries(follower_log') :
          e \in Entries(follower_log) \/ e = NewEntry(f.offset, f.id)
    BY <2>2, <2>4, <2>5, AppendAtFacts
  <2>8. ReplicaStored'
    <3>1. LET e == NewEntry(f.offset, f.id) IN e.id = f.id /\ e.offset = f.offset
      BY DEF NewEntry
    <3> QED
      BY <1>20, <2>3, <2>7, <3>1 DEF Replicate, ReplicaStored, ReplicaInv
  <2>9. FramesStored'
    <3> SUFFICES ASSUME NEW d \in Conns, NEW i \in DOMAIN inflight'[d]
                 PROVE  StoredAt(leader_log, inflight'[d][i].id, inflight'[d][i].offset)
      BY <1>20 DEF FramesStored, Replicate
    <3>1. CASE d # c
      BY <1>20, <2>1, <3>1 DEF Replicate, ReplicaInv, FramesStored
    <3>2. CASE d = c
      <4>1. inflight'[d] = Tail(inflight[c])
        BY <1>20, <2>1, <3>2 DEF Replicate
      <4> QED
        BY <2>2, <3>2, <4>1 DEF ReplicaInv, FramesStored
    <3> QED
      BY <3>1, <3>2
  <2>10. LocalsStored' /\ LogsWellFormed'
    BY <1>20, <2>6 DEF Replicate, LocalsStored, LogsWellFormed, ReplicaInv
  <2> QED
    BY <2>8, <2>9, <2>10 DEF ReplicaInv
<1>21. ASSUME NEW c \in Conns, BreakConn(c) PROVE ReplicaInv'
  BY <1>21, ReplicaQuietStep DEF BreakConn
<1>22. CASE UNCHANGED vars
  BY <1>22, ReplicaQuietStep DEF vars
<1>23. ASSUME NEW h \in Handlers, Dial(h) \/ DialFails(h) PROVE ReplicaInv'
  BY <1>23, <1>0, ReplicaQuietStep DEF Dial, DialFails
<1> QED
  BY <1>1, <1>2, <1>3, <1>4, <1>5, <1>6, <1>7, <1>8, <1>9, <1>10, <1>11, <1>12, <1>13,
     <1>14, <1>15, <1>16, <1>17, <1>18, <1>19, <1>20, <1>21, <1>22,
     <1>23 DEF Next, ProducerStep, HandlerStep, Finished

\* The invariant says what ReplicaMatches says: the follower has, at each offset
\* it has, the leader's message, and has each offset once.
LEMMA ReplicaInvImplies == TypeInv /\ ReplicaInv => ReplicaMatches
<1> SUFFICES ASSUME TypeInv, ReplicaInv PROVE ReplicaMatches
  OBVIOUS
<1>1. \A f \in Entries(follower_log) :
          \E l \in Entries(leader_log) : l.offset = f.offset /\ l.id = f.id
  BY DEF ReplicaInv, ReplicaStored, StoredAt
<1>2. ASSUME NEW i \in DOMAIN follower_log.log, NEW j \in DOMAIN follower_log.log,
             follower_log.log[i].offset = follower_log.log[j].offset
      PROVE  i = j
  <2>1. PICK a \in Entries(leader_log), b \in Entries(leader_log) :
          /\ a.offset = follower_log.log[i].offset /\ a.id = follower_log.log[i].id
          /\ b.offset = follower_log.log[j].offset /\ b.id = follower_log.log[j].id
    BY <1>1 DEF Entries
  <2>2. a = b
    BY <1>2, <2>1, PositionalFacts DEF TypeInv, TypeOK, ReplicaInv, LogsWellFormed
  <2> QED
    BY <2>1, <2>2 DEF ReplicaInv, LogsWellFormed, UniqueIds
<1> QED
  BY <1>1, <1>2 DEF ReplicaMatches

\* In every run, with any number of handler threads racing on the one follower
\* socket, the follower stores at each offset the message the leader stored there.
THEOREM ReplicaCorrect == Spec => []ReplicaMatches
<1> DEFINE Inv == TypeInv /\ ReplicaInv
<1>1. Init => Inv
  BY TypeInit, ReplicaInit
<1>2. Inv /\ [Next]_vars => Inv'
  BY TypeStep, ReplicaStep
<1>3. Inv => ReplicaMatches
  BY ReplicaInvImplies
<1> QED
  BY <1>1, <1>2, <1>3, PTL DEF Spec

(***************************************************************************)
(* Synchronous replication with one handler thread at a time.  On the      *)
(* current connection there is then at most one exchange: a request in     *)
(* flight, or its ACK, and only while the handler waits for it.  So the    *)
(* ACK taken is the ACK of the message, although nothing compares them.    *)
(***************************************************************************)
OneHandler == \A g, h \in Handlers : g = h

\* A handler serves the message of the producer that waits for it.
Serves ==
    \A p \in Producers : awaits[p] # NoHandler =>
        pc[awaits[p]] # "idle" /\ msg[awaits[p]] = Msg(p)

\* A connection not yet open has carried nothing.
NewConnsEmpty ==
    \A c \in Conns : state[c] \in {"unused", "fresh"} => inflight[c] = << >> /\ acks[c] = 0

\* The socket a handler blocks on is the current one, and outside an exchange
\* the current connection is empty.
OneExchange ==
    \A h \in Handlers :
        /\ pc[h] \in {"dial", "recv"} => sock[h] = socket /\ socket # NoConn
        /\ pc[h] \notin {"await", "recv"} /\ socket # NoConn =>
              inflight[socket] = << >> /\ acks[socket] = 0
        /\ pc[h] \in {"await", "recv"} /\ socket # NoConn =>
              \/ /\ inflight[socket] = << [id |-> msg[h], offset |-> offset[h]] >>
                 /\ acks[socket] = 0
              \/ /\ inflight[socket] = << >>
                 /\ acks[socket] \in {0, 1}
                 /\ msg[h] \in message_ids(follower_log)

\* A handler that has left replicate_message with success.
AckedBySerial ==
    \A h \in Handlers : pc[h] \in {"hwm", "ack"} => msg[h] \in message_ids(follower_log)

SerialInv == Serves /\ NewConnsEmpty /\ OneExchange /\ AckedBySerial
             /\ AckedReplicated /\ HwmReplicated

LEMMA SerialInit == Init => SerialInv
<1> SUFFICES ASSUME Init PROVE SerialInv
  OBVIOUS
<1>1. Serves /\ NewConnsEmpty /\ OneExchange /\ AckedBySerial
  BY DEF Init, Serves, NewConnsEmpty, OneExchange, AckedBySerial
<1>2. AckedReplicated /\ HwmReplicated
  BY DEF Init, AckedReplicated, HwmReplicated
<1> QED
  BY <1>1, <1>2 DEF SerialInv

\* The offset a handler holds is the follower's offset of its message, if the
\* follower has the message.
LEMMA OffsetReplicated ==
    ASSUME TypeInv, ReplicaInv, NEW h \in Handlers, pc[h] \notin {"idle", "append"},
           msg[h] \in message_ids(follower_log)
    PROVE  offset[h] \in Offsets(follower_log)
<1>1. PICK f \in Entries(follower_log) : f.id = msg[h]
  BY DEF message_ids
<1>2. PICK a \in Entries(leader_log) : a.id = msg[h] /\ a.offset = f.offset
  BY <1>1 DEF ReplicaInv, ReplicaStored, StoredAt
<1>3. PICK b \in Entries(leader_log) : b.id = msg[h] /\ b.offset = offset[h]
  BY DEF ReplicaInv, LocalsStored, StoredAt
<1>4. a = b
  BY <1>2, <1>3 DEF ReplicaInv, LogsWellFormed, UniqueIds, Entries
<1> QED
  BY <1>1, <1>2, <1>3, <1>4 DEF Offsets

LEMMA SerialStep ==
    ASSUME OneHandler
    PROVE  TypeInv /\ ReplicaInv /\ SerialInv /\ [Next]_vars => SerialInv'
<1> SUFFICES ASSUME TypeInv, ReplicaInv, SerialInv, [Next]_vars PROVE SerialInv'
  OBVIOUS
<1> USE NoneAssumption
        DEF OneHandler, SerialInv, TypeInv, TypeOK, HandlerLocals, brokerVars, connVars, localVars, clientVars,
            Goto, Retry, Close, Idle, Msg
<1>1. ASSUME NEW p \in Producers, NEW h \in Handlers, Produce(p, h) PROVE SerialInv'
  <2>1. Serves'
    BY <1>1 DEF Produce, Serves
  <2>2. NewConnsEmpty'
    BY <1>1 DEF Produce, NewConnsEmpty, OneExchange
  <2>3. OneExchange'
    BY <1>1 DEF Produce, OneExchange, NewConnsEmpty
  <2>4. AckedBySerial'
    BY <1>1 DEF Produce, AckedBySerial, OneExchange
  <2>5. AckedReplicated' /\ HwmReplicated'
    BY <1>1 DEF Produce, AckedReplicated, HwmReplicated, Offsets, message_ids
  <2> QED
    BY <2>1, <2>2, <2>3, <2>4, <2>5
<1>2. ASSUME NEW p \in Producers, ResendLater(p) PROVE SerialInv'
  <2>1. Serves'
    BY <1>2 DEF ResendLater, Serves
  <2>2. NewConnsEmpty'
    BY <1>2 DEF ResendLater, NewConnsEmpty, OneExchange
  <2>3. OneExchange'
    BY <1>2 DEF ResendLater, OneExchange, NewConnsEmpty
  <2>4. AckedBySerial'
    BY <1>2 DEF ResendLater, AckedBySerial, OneExchange
  <2>5. AckedReplicated' /\ HwmReplicated'
    BY <1>2 DEF ResendLater, AckedReplicated, HwmReplicated, Offsets, message_ids
  <2> QED
    BY <2>1, <2>2, <2>3, <2>4, <2>5
<1>3. ASSUME NEW p \in Producers, GiveUp(p) PROVE SerialInv'
  <2>1. Serves'
    BY <1>3 DEF GiveUp, Serves
  <2>2. NewConnsEmpty'
    BY <1>3 DEF GiveUp, NewConnsEmpty, OneExchange
  <2>3. OneExchange'
    BY <1>3 DEF GiveUp, OneExchange, NewConnsEmpty
  <2>4. AckedBySerial'
    BY <1>3 DEF GiveUp, AckedBySerial, OneExchange
  <2>5. AckedReplicated' /\ HwmReplicated'
    BY <1>3 DEF GiveUp, AckedReplicated, HwmReplicated, Offsets, message_ids
  <2> QED
    BY <2>1, <2>2, <2>3, <2>4, <2>5
<1>4. ASSUME NEW h \in Handlers, AppendLocal(h) PROVE SerialInv'
  <2>1. Serves'
    BY <1>4 DEF AppendLocal, Serves
  <2>2. NewConnsEmpty'
    BY <1>4 DEF AppendLocal, NewConnsEmpty, OneExchange
  <2>3. OneExchange'
    BY <1>4 DEF AppendLocal, OneExchange, NewConnsEmpty
  <2>4. AckedBySerial'
    BY <1>4 DEF AppendLocal, AckedBySerial, OneExchange
  <2>5. AckedReplicated' /\ HwmReplicated'
    BY <1>4 DEF AppendLocal, AckedReplicated, HwmReplicated, Offsets, message_ids
  <2> QED
    BY <2>1, <2>2, <2>3, <2>4, <2>5
<1>5. ASSUME NEW h \in Handlers, CheckSocket(h) PROVE SerialInv'
  <2>1. Serves'
    BY <1>5 DEF CheckSocket, Serves
  <2>2. NewConnsEmpty'
    BY <1>5 DEF CheckSocket, NewConnsEmpty, OneExchange
  <2>3. OneExchange'
    BY <1>5 DEF CheckSocket, OneExchange, NewConnsEmpty
  <2>4. AckedBySerial'
    BY <1>5 DEF CheckSocket, AckedBySerial, OneExchange
  <2>5. AckedReplicated' /\ HwmReplicated'
    BY <1>5 DEF CheckSocket, AckedReplicated, HwmReplicated, Offsets, message_ids
  <2> QED
    BY <2>1, <2>2, <2>3, <2>4, <2>5
<1>6. ASSUME NEW h \in Handlers, OpenSocket(h) PROVE SerialInv'
  <2>1. Serves'
    BY <1>6 DEF OpenSocket, Serves
  <2>2. NewConnsEmpty'
    BY <1>6 DEF OpenSocket, NewConnsEmpty, OneExchange
  <2>3. OneExchange'
    BY <1>6 DEF OpenSocket, OneExchange, NewConnsEmpty
  <2>4. AckedBySerial'
    BY <1>6 DEF OpenSocket, AckedBySerial, OneExchange
  <2>5. AckedReplicated' /\ HwmReplicated'
    BY <1>6 DEF OpenSocket, AckedReplicated, HwmReplicated, Offsets, message_ids
  <2> QED
    BY <2>1, <2>2, <2>3, <2>4, <2>5
<1>7. ASSUME NEW h \in Handlers, OpenSocketFails(h) PROVE SerialInv'
  <2>1. Serves'
    BY <1>7 DEF OpenSocketFails, Serves
  <2>2. NewConnsEmpty'
    BY <1>7 DEF OpenSocketFails, NewConnsEmpty, OneExchange
  <2>3. OneExchange'
    BY <1>7 DEF OpenSocketFails, OneExchange, NewConnsEmpty
  <2>4. AckedBySerial'
    BY <1>7 DEF OpenSocketFails, AckedBySerial, OneExchange
  <2>5. AckedReplicated' /\ HwmReplicated'
    BY <1>7 DEF OpenSocketFails, AckedReplicated, HwmReplicated, Offsets, message_ids
  <2> QED
    BY <2>1, <2>2, <2>3, <2>4, <2>5
<1>8. ASSUME NEW h \in Handlers, Connected(h) PROVE SerialInv'
  <2>1. Serves'
    BY <1>8 DEF Connected, Serves
  <2>2. NewConnsEmpty'
    BY <1>8 DEF Connected, NewConnsEmpty, OneExchange
  <2>3. OneExchange'
    BY <1>8 DEF Connected, OneExchange, NewConnsEmpty
  <2>4. AckedBySerial'
    BY <1>8 DEF Connected, AckedBySerial, OneExchange
  <2>5. AckedReplicated' /\ HwmReplicated'
    BY <1>8 DEF Connected, AckedReplicated, HwmReplicated, Offsets, message_ids
  <2> QED
    BY <2>1, <2>2, <2>3, <2>4, <2>5
<1>9. ASSUME NEW h \in Handlers, ConnectFails(h) PROVE SerialInv'
  <2>1. Serves'
    BY <1>9 DEF ConnectFails, Serves
  <2>2. NewConnsEmpty'
    BY <1>9 DEF ConnectFails, NewConnsEmpty, OneExchange
  <2>3. OneExchange'
    BY <1>9 DEF ConnectFails, OneExchange, NewConnsEmpty
  <2>4. AckedBySerial'
    BY <1>9 DEF ConnectFails, AckedBySerial, OneExchange
  <2>5. AckedReplicated' /\ HwmReplicated'
    BY <1>9 DEF ConnectFails, AckedReplicated, HwmReplicated, Offsets, message_ids
  <2> QED
    BY <2>1, <2>2, <2>3, <2>4, <2>5
<1>10. ASSUME NEW h \in Handlers, SendReplicate(h) PROVE SerialInv'
  <2>1. Serves'
    BY <1>10 DEF SendReplicate, Serves
  <2>2. NewConnsEmpty'
    BY <1>10 DEF SendReplicate, NewConnsEmpty, OneExchange
  <2>3. OneExchange'
    <3> DEFINE f == [id |-> msg[h], offset |-> offset[h]]
    <3>1. socket \in Conns /\ inflight[socket] = << >> /\ acks[socket] = 0
      BY <1>10 DEF SendReplicate, OneExchange
    <3>2. inflight'[socket] = << f >>
      BY <1>10, <3>1 DEF SendReplicate
    <3> QED
      BY <1>10, <3>1, <3>2 DEF SendReplicate, OneExchange
  <2>4. AckedBySerial'
    BY <1>10 DEF SendReplicate, AckedBySerial, OneExchange
  <2>5. AckedReplicated' /\ HwmReplicated'
    BY <1>10 DEF SendReplicate, AckedReplicated, HwmReplicated, Offsets, message_ids
  <2> QED
    BY <2>1, <2>2, <2>3, <2>4, <2>5
<1>11. ASSUME NEW h \in Handlers, SendFails(h) PROVE SerialInv'
  <2>1. Serves'
    BY <1>11 DEF SendFails, Serves
  <2>2. NewConnsEmpty'
    BY <1>11 DEF SendFails, NewConnsEmpty, OneExchange
  <2>3. OneExchange'
    BY <1>11 DEF SendFails, OneExchange, NewConnsEmpty
  <2>4. AckedBySerial'
    BY <1>11 DEF SendFails, AckedBySerial, OneExchange
  <2>5. AckedReplicated' /\ HwmReplicated'
    BY <1>11 DEF SendFails, AckedReplicated, HwmReplicated, Offsets, message_ids
  <2> QED
    BY <2>1, <2>2, <2>3, <2>4, <2>5
<1>12. ASSUME NEW h \in Handlers, AwaitAck(h) PROVE SerialInv'
  <2>1. Serves'
    BY <1>12 DEF AwaitAck, Serves
  <2>2. NewConnsEmpty'
    BY <1>12 DEF AwaitAck, NewConnsEmpty, OneExchange
  <2>3. OneExchange'
    BY <1>12 DEF AwaitAck, OneExchange, NewConnsEmpty
  <2>4. AckedBySerial'
    BY <1>12 DEF AwaitAck, AckedBySerial, OneExchange
  <2>5. AckedReplicated' /\ HwmReplicated'
    BY <1>12 DEF AwaitAck, AckedReplicated, HwmReplicated, Offsets, message_ids
  <2> QED
    BY <2>1, <2>2, <2>3, <2>4, <2>5
<1>13. ASSUME NEW h \in Handlers, AwaitFails(h) PROVE SerialInv'
  <2>1. Serves'
    BY <1>13 DEF AwaitFails, Serves
  <2>2. NewConnsEmpty'
    BY <1>13 DEF AwaitFails, NewConnsEmpty, OneExchange
  <2>3. OneExchange'
    BY <1>13 DEF AwaitFails, OneExchange, NewConnsEmpty
  <2>4. AckedBySerial'
    BY <1>13 DEF AwaitFails, AckedBySerial, OneExchange
  <2>5. AckedReplicated' /\ HwmReplicated'
    BY <1>13 DEF AwaitFails, AckedReplicated, HwmReplicated, Offsets, message_ids
  <2> QED
    BY <2>1, <2>2, <2>3, <2>4, <2>5
<1>14. ASSUME NEW h \in Handlers, ReceiveAck(h) PROVE SerialInv'
  <2>1. Serves'
    BY <1>14 DEF ReceiveAck, Serves
  <2>2. NewConnsEmpty'
    BY <1>14 DEF ReceiveAck, NewConnsEmpty, OneExchange
  <2>3. OneExchange'
    BY <1>14 DEF ReceiveAck, OneExchange, NewConnsEmpty
  <2>4. AckedBySerial'
    <3>1. sock[h] = socket /\ socket # NoConn /\ acks[socket] > 0 /\ pc[h] = "recv"
      BY <1>14 DEF ReceiveAck, OneExchange
    <3>2. acks[socket] # 0
      BY <3>1
    <3>3. msg[h] \in message_ids(follower_log)
      BY <3>1, <3>2, Zenon DEF OneExchange
    <3> QED
      BY <1>14, <3>3 DEF ReceiveAck, AckedBySerial
  <2>5. AckedReplicated' /\ HwmReplicated'
    BY <1>14 DEF ReceiveAck, AckedReplicated, HwmReplicated, Offsets, message_ids
  <2> QED
    BY <2>1, <2>2, <2>3, <2>4, <2>5
<1>15. ASSUME NEW h \in Handlers, ReceiveNothing(h) PROVE SerialInv'
  <2>1. Serves'
    BY <1>15 DEF ReceiveNothing, Serves
  <2>2. NewConnsEmpty'
    BY <1>15 DEF ReceiveNothing, NewConnsEmpty, OneExchange
  <2>3. OneExchange'
    BY <1>15 DEF ReceiveNothing, OneExchange, NewConnsEmpty
  <2>4. AckedBySerial'
    BY <1>15 DEF ReceiveNothing, AckedBySerial, OneExchange
  <2>5. AckedReplicated' /\ HwmReplicated'
    BY <1>15 DEF ReceiveNothing, AckedReplicated, HwmReplicated, Offsets, message_ids
  <2> QED
    BY <2>1, <2>2, <2>3, <2>4, <2>5
<1>16. ASSUME NEW h \in Handlers, SetHwm(h) PROVE SerialInv'
  <2>1. Serves'
    BY <1>16 DEF SetHwm, Serves
  <2>2. NewConnsEmpty'
    BY <1>16 DEF SetHwm, NewConnsEmpty, OneExchange
  <2>3. OneExchange'
    BY <1>16 DEF SetHwm, OneExchange, NewConnsEmpty
  <2>4. AckedBySerial'
    BY <1>16 DEF SetHwm, AckedBySerial, OneExchange
  <2>5. AckedReplicated' /\ HwmReplicated'
    <3>1. offset[h] \in Offsets(follower_log)
      BY <1>16, OffsetReplicated DEF SetHwm, AckedBySerial
    <3> QED
      BY <1>16, <3>1 DEF SetHwm, AckedReplicated, HwmReplicated
  <2> QED
    BY <2>1, <2>2, <2>3, <2>4, <2>5
<1>17. ASSUME NEW h \in Handlers, SetHwmFails(h) PROVE SerialInv'
  <2>1. Serves'
    BY <1>17 DEF SetHwmFails, Serves
  <2>2. NewConnsEmpty'
    BY <1>17 DEF SetHwmFails, NewConnsEmpty, OneExchange
  <2>3. OneExchange'
    BY <1>17 DEF SetHwmFails, OneExchange, NewConnsEmpty
  <2>4. AckedBySerial'
    BY <1>17 DEF SetHwmFails, AckedBySerial, OneExchange
  <2>5. AckedReplicated' /\ HwmReplicated'
    <3>1. offset[h] \in Offsets(follower_log)
      BY <1>17, OffsetReplicated DEF SetHwmFails, AckedBySerial
    <3> QED
      BY <1>17, <3>1 DEF SetHwmFails, AckedReplicated, HwmReplicated, Offsets, message_ids
  <2> QED
    BY <2>1, <2>2, <2>3, <2>4, <2>5
<1>18. ASSUME NEW h \in Handlers, AckProducer(h) PROVE SerialInv'
  <2>1. Serves'
    <3>1. \A p \in Producers : awaits'[p] = NoHandler
      BY <1>18 DEF AckProducer, Answered, Waiting
    <3> QED
      BY <3>1 DEF Serves
  <2>2. NewConnsEmpty'
    BY <1>18 DEF AckProducer, NewConnsEmpty, OneExchange
  <2>3. OneExchange'
    BY <1>18 DEF AckProducer, OneExchange, NewConnsEmpty
  <2>4. AckedBySerial'
    BY <1>18 DEF AckProducer, AckedBySerial, OneExchange
  <2>5. AckedReplicated' /\ HwmReplicated'
    <3>1. \A p \in Waiting(h) : Msg(p) = msg[h]
      BY <1>18 DEF Waiting, Serves
    <3>2. msg[h] \in message_ids(follower_log)
      BY <1>18 DEF AckProducer, AckedBySerial
    <3> HIDE DEF Msg
    <3>3. acked' \subseteq message_ids(follower_log)
      BY <1>18, <3>1, <3>2 DEF AckProducer, AckedReplicated
    <3> QED
      BY <1>18, <3>3 DEF AckProducer, AckedReplicated, HwmReplicated
  <2> QED
    BY <2>1, <2>2, <2>3, <2>4, <2>5
<1>19. ASSUME NEW h \in Handlers, ErrorToProducer(h) PROVE SerialInv'
  <2>1. Serves'
    <3>1. \A p \in Producers : awaits'[p] = NoHandler
      BY <1>19 DEF ErrorToProducer, Answered, Waiting
    <3> QED
      BY <3>1 DEF Serves
  <2>2. NewConnsEmpty'
    BY <1>19 DEF ErrorToProducer, NewConnsEmpty, OneExchange
  <2>3. OneExchange'
    BY <1>19 DEF ErrorToProducer, OneExchange, NewConnsEmpty
  <2>4. AckedBySerial'
    BY <1>19 DEF ErrorToProducer, AckedBySerial, OneExchange
  <2>5. AckedReplicated' /\ HwmReplicated'
    BY <1>19 DEF ErrorToProducer, AckedReplicated, HwmReplicated, Offsets, message_ids
  <2> QED
    BY <2>1, <2>2, <2>3, <2>4, <2>5
<1>20. ASSUME NEW c \in Conns, Replicate(c) PROVE SerialInv'
  <2> DEFINE f == Head(inflight[c])
  <2>1. inflight[c] \in Seq(Frame) /\ inflight[c] # << >>
    BY <1>20 DEF Replicate
  <2>2. f.id \in MessageIds /\ f.offset \in Nat
    BY <2>1, FrameFacts
  <2>3. follower_log' = AppendAt(follower_log, f.id, f.offset)
    BY <1>20 DEF Replicate
  <2>4. /\ follower_log \in LogType(MessageIds)
        /\ UniqueIds(follower_log)
    BY DEF ReplicaInv, LogsWellFormed
  <2>5. /\ Entries(follower_log) \subseteq Entries(follower_log')
        /\ f.id \in message_ids(follower_log')
    BY <2>2, <2>3, <2>4, AppendAtFacts, AppendAtKeeps
  <2>6. /\ message_ids(follower_log) \subseteq message_ids(follower_log')
        /\ Offsets(follower_log) \subseteq Offsets(follower_log')
    BY <2>5 DEF message_ids, Offsets
  <2>7. Serves' /\ NewConnsEmpty'
    BY <1>20 DEF Replicate, Serves, NewConnsEmpty
  <2>8. AckedBySerial' /\ AckedReplicated' /\ HwmReplicated'
    BY <1>20, <2>6 DEF Replicate, AckedBySerial, AckedReplicated, HwmReplicated
  <2>9. OneExchange'
    <3>1. CASE c # socket
      BY <1>20, <2>6, <3>1 DEF Replicate, OneExchange
    <3>2. CASE c = socket
      <4> SUFFICES ASSUME NEW h \in Handlers
                   PROVE  /\ pc[h] \in {"await", "recv"}
                          /\ pc[h] \in {"dial", "recv"} => sock[h] = socket
                          /\ inflight'[c] = << >> /\ acks'[c] \in {0, 1}
                          /\ msg[h] \in message_ids(follower_log')
        BY <1>20, <3>2 DEF Replicate, OneExchange
      <4>1. /\ pc[h] \in {"await", "recv"}
            /\ pc[h] \in {"dial", "recv"} => sock[h] = socket
            /\ inflight[c] = << [id |-> msg[h], offset |-> offset[h]] >>
            /\ acks[c] = 0
        BY <2>1, <3>2 DEF OneExchange
      <4>2. inflight'[c] = Tail(inflight[c]) /\ acks'[c] \in {0, 1}
        BY <1>20, <4>1 DEF Replicate
      <4>3. Tail(inflight[c]) = << >> /\ f.id = msg[h]
        BY <4>1
      <4> QED
        BY <2>5, <4>1, <4>2, <4>3
    <3> QED
      BY <3>1, <3>2
  <2> QED
    BY <2>7, <2>8, <2>9
<1>21. ASSUME NEW c \in Conns, BreakConn(c) PROVE SerialInv'
  <2>1. Serves'
    BY <1>21 DEF BreakConn, Serves
  <2>2. NewConnsEmpty'
    BY <1>21 DEF BreakConn, NewConnsEmpty, OneExchange
  <2>3. OneExchange'
    BY <1>21 DEF BreakConn, OneExchange, NewConnsEmpty
  <2>4. AckedBySerial'
    BY <1>21 DEF BreakConn, AckedBySerial, OneExchange
  <2>5. AckedReplicated' /\ HwmReplicated'
    BY <1>21 DEF BreakConn, AckedReplicated, HwmReplicated, Offsets, message_ids
  <2> QED
    BY <2>1, <2>2, <2>3, <2>4, <2>5
<1>22. CASE UNCHANGED vars
  BY <1>22 DEF vars, Serves, NewConnsEmpty, OneExchange, AckedBySerial, AckedReplicated,
     HwmReplicated, Offsets, message_ids
<1>23. ASSUME NEW h \in Handlers, Dial(h) \/ DialFails(h) PROVE SerialInv'
  <2>1. Serves'
    BY <1>23 DEF Dial, DialFails, Serves
  <2>2. NewConnsEmpty'
    BY <1>23 DEF Dial, DialFails, NewConnsEmpty, OneExchange
  <2>3. OneExchange'
    BY <1>23 DEF Dial, DialFails, OneExchange, NewConnsEmpty
  <2>4. AckedBySerial'
    BY <1>23 DEF Dial, DialFails, AckedBySerial, OneExchange
  <2>5. AckedReplicated' /\ HwmReplicated'
    BY <1>23 DEF Dial, DialFails, AckedReplicated, HwmReplicated, Offsets, message_ids
  <2> QED
    BY <2>1, <2>2, <2>3, <2>4, <2>5
<1> QED
  BY <1>1, <1>2, <1>3, <1>4, <1>5, <1>6, <1>7, <1>8, <1>9, <1>10, <1>11, <1>12, <1>13,
     <1>14, <1>15, <1>16, <1>17, <1>18, <1>19, <1>20, <1>21, <1>22,
     <1>23 DEF Next, ProducerStep, HandlerStep, Finished

FullInv == TypeInv /\ ReplicaInv /\ SerialInv

LEMMA FullInvariant ==
    ASSUME OneHandler
    PROVE  Spec => []FullInv
<1>1. Init => FullInv
  BY TypeInit, ReplicaInit, SerialInit DEF FullInv
<1>2. FullInv /\ [Next]_vars => FullInv'
  BY TypeStep, ReplicaStep, SerialStep DEF FullInv
<1> QED
  BY <1>1, <1>2, PTL DEF Spec

\* With one handler thread, an acknowledged message is in the follower's log,
\* whatever connections break and whatever frames come late.
THEOREM AckedCorrect ==
    ASSUME OneHandler
    PROVE  Spec => []AckedReplicated
<1>1. FullInv => AckedReplicated
  BY DEF FullInv, SerialInv
<1> QED
  BY <1>1, FullInvariant, PTL

\* With one handler thread, the HWM names an offset the follower has.
THEOREM HwmCorrect ==
    ASSUME OneHandler
    PROVE  Spec => []HwmReplicated
<1>1. FullInv => HwmReplicated
  BY DEF FullInv, SerialInv
<1> QED
  BY <1>1, FullInvariant, PTL

(***************************************************************************)
(* Refinement: with one handler thread every step of the threads, sockets  *)
(* and retries is a step of SyncReplication or leaves its state alone.     *)
(***************************************************************************)
accepted == [i \in DOMAIN leader_log.log |-> leader_log.log[i].id]

\* The accepted messages and the entries of the leader's log are the same.
LEMMA AcceptedFacts ==
    ASSUME TypeInv, ReplicaInv
    PROVE  /\ accepted \in Seq(MessageIds)
           /\ Len(accepted) = leader_log.next_offset
           /\ \A id, o : StoredAt(leader_log, id, o) =>
                 o \in 0..(Len(accepted) - 1) /\ accepted[o + 1] = id
           /\ \A i \in DOMAIN accepted : accepted[i] \in message_ids(leader_log)
<1>1. leader_log.log \in Seq(LogEntry(MessageIds)) /\ Positional(leader_log)
  BY LogFields DEF TypeInv, TypeOK, ReplicaInv, LogsWellFormed
<1>2. /\ Len(leader_log.log) \in Nat
      /\ DOMAIN leader_log.log = 1..Len(leader_log.log)
      /\ \A i \in DOMAIN leader_log.log : leader_log.log[i].id \in MessageIds
  <2>1. \A i \in DOMAIN leader_log.log : leader_log.log[i] \in LogEntry(MessageIds)
    BY <1>1
  <2> QED
    BY <1>1, <2>1 DEF LogEntry
<1>3. accepted \in Seq(MessageIds) /\ Len(accepted) = Len(leader_log.log)
  BY <1>2 DEF accepted
<1>4. ASSUME NEW id, NEW o, StoredAt(leader_log, id, o)
      PROVE  o \in 0..(Len(accepted) - 1) /\ accepted[o + 1] = id
  <2>1. PICK i \in DOMAIN leader_log.log :
          leader_log.log[i].id = id /\ leader_log.log[i].offset = o
    BY <1>4 DEF StoredAt, Entries
  <2>2. o = i - 1
    BY <1>1, <2>1 DEF Positional
  <2> QED
    BY <1>2, <1>3, <2>1, <2>2 DEF accepted
<1>5. \A i \in DOMAIN accepted : accepted[i] \in message_ids(leader_log)
  BY DEF accepted, message_ids, Entries
<1> QED
  BY <1>1, <1>3, <1>4, <1>5 DEF Positional

LEMMA RefineInit == Init => Contract!Init
<1> SUFFICES ASSUME Init PROVE Contract!Init
  OBVIOUS
<1>1. leader_log.log = << >> /\ follower_log.log = << >>
  BY DEF Init, EmptyLog
<1>2. [i \in DOMAIN leader_log.log |-> leader_log.log[i].id] = << >>
  BY <1>1
<1>3. Offsets(follower_log) = {}
  BY <1>1 DEF Offsets, Entries
<1> QED
  BY <1>2, <1>3 DEF Contract!Init, Init

LEMMA RefineStep ==
    ASSUME OneHandler
    PROVE  FullInv /\ [Next]_vars => [Contract!Next]_(Contract!vars)
<1> SUFFICES ASSUME FullInv, [Next]_vars
             PROVE  Contract!Next \/ UNCHANGED Contract!vars
  OBVIOUS
<1> USE DEF brokerVars, connVars, localVars, clientVars
<1>0. ASSUME UNCHANGED << leader_log, follower_log, hwm, acked >>
      PROVE  UNCHANGED Contract!vars
  BY <1>0 DEF Contract!vars, Offsets, Entries
<1>1. ASSUME NEW h \in Handlers, AppendLocal(h)
      PROVE  Contract!Next \/ UNCHANGED Contract!vars
  <2>1. msg[h] \in MessageIds
    BY <1>1 DEF FullInv, TypeInv, HandlerLocals, AppendLocal
  <2>. leader_log \in LogType(MessageIds)
    BY DEF FullInv, TypeInv, TypeOK
  <2>2. CASE msg[h] \in message_ids(leader_log)
    BY <1>0, <1>1, <2>1, <2>2, AppendNextFacts DEF AppendLocal
  <2>3. CASE msg[h] \notin message_ids(leader_log)
    <3>1. \A i \in DOMAIN accepted : accepted[i] # msg[h]
      BY <2>3, AcceptedFacts DEF FullInv
    <3>2. leader_log'.log
            = Append(leader_log.log, NewEntry(leader_log.next_offset, msg[h]))
      BY <1>1, <2>1, <2>3, AppendNextFacts DEF AppendLocal
    <3>3. leader_log.log \in Seq(LogEntry(MessageIds))
      BY <2>1, LogFields
    <3>4. accepted' = Append(accepted, msg[h])
      <4> DEFINE e == NewEntry(leader_log.next_offset, msg[h])
      <4>1. /\ DOMAIN leader_log'.log = 1..(Len(leader_log.log) + 1)
            /\ DOMAIN leader_log.log = 1..Len(leader_log.log)
            /\ leader_log'.log[Len(leader_log.log) + 1] = e
            /\ \A i \in 1..Len(leader_log.log) : leader_log'.log[i] = leader_log.log[i]
            /\ Len(leader_log.log) \in Nat
        BY <3>2, <3>3
      <4>2. e.id = msg[h]
        BY DEF NewEntry
      <4>3. accepted \in Seq(MessageIds)
        BY AcceptedFacts DEF FullInv
      <4>4. Len(accepted) = Len(leader_log.log)
        BY <4>1 DEF accepted
      <4> QED
        BY <4>1, <4>2, <4>3, <4>4 DEF accepted
    <3>5. UNCHANGED << Offsets(follower_log), hwm, acked >>
      BY <1>1 DEF AppendLocal, Offsets, Entries
    <3>6. PICK m \in MessageIds : m = msg[h]
      BY <2>1
    <3>7. Contract!Accept(m)
      BY <3>1, <3>4, <3>5, <3>6 DEF Contract!Accept, accepted
    <3> QED
      BY <3>7 DEF Contract!Next
  <2> QED
    BY <2>2, <2>3
<1>2. ASSUME NEW h \in Handlers, SetHwm(h)
      PROVE  Contract!Next \/ UNCHANGED Contract!vars
  <2>1. offset[h] \in Offsets(follower_log)
    BY <1>2, OffsetReplicated DEF SetHwm, FullInv, SerialInv, AckedBySerial
  <2>2. offset[h] \in 0..(Len(accepted) - 1)
    BY <1>2, AcceptedFacts DEF SetHwm, FullInv, ReplicaInv, LocalsStored
  <2>3. Contract!Advance(offset[h])
    BY <1>2, <2>1 DEF SetHwm, Contract!Advance, Offsets, Entries
  <2> QED
    BY <2>2, <2>3 DEF Contract!Next, accepted
<1>3. ASSUME NEW h \in Handlers, AckProducer(h)
      PROVE  Contract!Next \/ UNCHANGED Contract!vars
  <2>1. acked' = acked \/ acked' = acked \cup {msg[h]}
    <3>1. \A p \in Waiting(h) : Msg(p) = msg[h]
      BY <1>3, NoneAssumption DEF Waiting, FullInv, SerialInv, Serves
    <3> QED
      BY <1>3, <3>1 DEF AckProducer
  <2>2. offset[h] \in Offsets(follower_log)
    BY <1>3, OffsetReplicated DEF AckProducer, FullInv, SerialInv, AckedBySerial
  <2>3. offset[h] \in 0..(Len(accepted) - 1) /\ accepted[offset[h] + 1] = msg[h]
    BY <1>3, AcceptedFacts DEF AckProducer, FullInv, ReplicaInv, LocalsStored
  <2>4. UNCHANGED << leader_log, follower_log, hwm >>
    BY <1>3 DEF AckProducer
  <2>5. CASE acked' = acked
    BY <1>0, <2>4, <2>5
  <2>6. CASE acked' = acked \cup {msg[h]}
    <3>1. Contract!Acknowledge(offset[h])
      BY <2>2, <2>3, <2>4, <2>6 DEF Contract!Acknowledge, accepted, Offsets, Entries
    <3> QED
      BY <2>3, <3>1 DEF Contract!Next, accepted
  <2> QED
    BY <2>1, <2>5, <2>6
<1>4. ASSUME NEW c \in Conns, Replicate(c)
      PROVE  Contract!Next \/ UNCHANGED Contract!vars
  <2> DEFINE f == Head(inflight[c])
  <2>1. inflight[c] \in Seq(Frame) /\ inflight[c] # << >>
    BY <1>4 DEF Replicate, FullInv, TypeInv, TypeOK
  <2>2. f.id \in MessageIds /\ f.offset \in Nat /\ f = inflight[c][1] /\ 1 \in DOMAIN inflight[c]
    BY <2>1, FrameFacts
  <2>3. f.offset \in 0..(Len(accepted) - 1)
    BY <2>2, AcceptedFacts DEF FullInv, ReplicaInv, FramesStored
  <2>4. follower_log' = AppendAt(follower_log, f.id, f.offset)
    BY <1>4 DEF Replicate
  <2>5. follower_log \in LogType(MessageIds)
    BY DEF FullInv, TypeInv, TypeOK
  <2>6. UNCHANGED << leader_log, hwm, acked >>
    BY <1>4 DEF Replicate
  <2>7. CASE f.id \in message_ids(follower_log)
    BY <1>0, <2>2, <2>4, <2>5, <2>6, <2>7, AppendAtFacts
  <2>8. CASE f.id \notin message_ids(follower_log)
    <3>1. Entries(follower_log')
            = Entries(follower_log) \cup {NewEntry(f.offset, f.id)}
      BY <2>2, <2>4, <2>5, <2>8, AppendAtFacts
    <3>2. NewEntry(f.offset, f.id).offset = f.offset
      BY DEF NewEntry
    <3>3. Offsets(follower_log)' = Offsets(follower_log) \cup {f.offset}
      BY <3>1, <3>2 DEF Offsets
    <3>4. Contract!Copy(f.offset)
      BY <2>3, <2>6, <3>3 DEF Contract!Copy, accepted
    <3> QED
      BY <2>3, <3>4 DEF Contract!Next, accepted
  <2> QED
    BY <2>7, <2>8
<1>5. ASSUME NEW p \in Producers, ProducerStep(p)
      PROVE  UNCHANGED Contract!vars
  BY <1>0, <1>5 DEF ProducerStep, Produce, ResendLater, GiveUp
<1>6. ASSUME NEW c \in Conns, BreakConn(c)
      PROVE  UNCHANGED Contract!vars
  BY <1>0, <1>6 DEF BreakConn
<1>7. ASSUME NEW h \in Handlers,
             \/ CheckSocket(h) \/ OpenSocket(h) \/ OpenSocketFails(h) \/ Dial(h)
             \/ DialFails(h) \/ Connected(h) \/ ConnectFails(h) \/ SendReplicate(h)
             \/ SendFails(h) \/ AwaitAck(h) \/ AwaitFails(h) \/ ReceiveAck(h)
             \/ ReceiveNothing(h) \/ ErrorToProducer(h)
      PROVE  UNCHANGED Contract!vars
  BY <1>0, <1>7 DEF CheckSocket, OpenSocket, OpenSocketFails, Dial, DialFails, Connected,
     ConnectFails, SendReplicate, SendFails, AwaitAck, AwaitFails, ReceiveAck,
     ReceiveNothing, ErrorToProducer
<1>8. CASE UNCHANGED vars
  BY <1>0, <1>8 DEF vars
<1>9. ASSUME NEW h \in Handlers, SetHwmFails(h)
      PROVE  Contract!Next \/ UNCHANGED Contract!vars
  <2>1. offset[h] \in Offsets(follower_log)
    BY <1>9, OffsetReplicated DEF SetHwmFails, FullInv, SerialInv, AckedBySerial
  <2>2. offset[h] \in 0..(Len(accepted) - 1)
    BY <1>9, AcceptedFacts DEF SetHwmFails, FullInv, ReplicaInv, LocalsStored
  <2>3. CASE hwm' = hwm
    BY <1>0, <1>9, <2>3 DEF SetHwmFails
  <2>4. CASE hwm' = offset[h]
    <3>1. Contract!Advance(offset[h])
      BY <1>9, <2>1, <2>4 DEF SetHwmFails, Contract!Advance, Offsets, Entries
    <3> QED
      BY <2>2, <3>1 DEF Contract!Next, accepted
  <2> QED
    BY <1>9, <2>3, <2>4 DEF SetHwmFails
<1> QED
  BY <1>1, <1>2, <1>3, <1>4, <1>5, <1>6, <1>7, <1>8, <1>9 DEF Next, HandlerStep, Finished

\* With one handler thread the threads, sockets, retries and duplicates of the
\* code implement the contract of synchronous replication.
THEOREM Refinement ==
    ASSUME OneHandler
    PROVE  Spec => ImplementsContract
<1>1. Init => Contract!Init
  BY RefineInit
<1>2. FullInv /\ [Next]_vars => [Contract!Next]_(Contract!vars)
  BY RefineStep
<1> QED
  BY <1>1, <1>2, FullInvariant, PTL DEF Spec, ImplementsContract, Contract!Spec

-----------------------------------------------------------------------------
(***************************************************************************)
(* Refinement of Failover's commit path, with one handler thread.          *)
(***************************************************************************)
\* What Failover takes from LogManager is what Replication takes from it.
LEMMA CoarseOps ==
    /\ Coarse!EmptyLog = EmptyLog
    /\ \A l : Coarse!Entries(l) = Entries(l)
    /\ \A l : Coarse!message_ids(l) = message_ids(l)
    /\ \A o, id : Coarse!NewEntry(o, id) = NewEntry(o, id)
    /\ \A l, id : Coarse!AppendNext(l, id) = AppendNext(l, id)
    /\ \A l, id, o : Coarse!AppendAt(l, id, o) = AppendAt(l, id, o)
    /\ \A l, id : Coarse!OffsetOf(l, id) = OffsetOf(l, id)
    /\ \A p : Coarse!Msg(p) = Msg(p)
    /\ \A p : Coarse!Sending(p) = Sending(p)
<1>1. Coarse!EmptyLog = EmptyLog
  BY DEF EmptyLog, Coarse!EmptyLog
<1>2. \A l : Coarse!Entries(l) = Entries(l)
  BY DEF Entries, Coarse!Entries
<1>3. \A l : Coarse!message_ids(l) = message_ids(l)
  BY <1>2 DEF message_ids, Coarse!message_ids
<1>4. \A o, id : Coarse!NewEntry(o, id) = NewEntry(o, id)
  BY DEF NewEntry, Coarse!NewEntry
<1>5. \A l, id : Coarse!AppendNext(l, id) = AppendNext(l, id)
  BY <1>3, <1>4 DEF AppendNext, Coarse!AppendNext, Extend, Coarse!Extend
<1>6. \A l, id, o : Coarse!AppendAt(l, id, o) = AppendAt(l, id, o)
  BY <1>3, <1>4 DEF AppendAt, Coarse!AppendAt, Extend, Coarse!Extend
<1>7. \A l, id : Coarse!OffsetOf(l, id) = OffsetOf(l, id)
  BY <1>2 DEF OffsetOf, Coarse!OffsetOf
<1>8. \A p : Coarse!Msg(p) = Msg(p)
  BY DEF Msg, Coarse!Msg
<1>9. \A p : Coarse!Sending(p) = Sending(p)
  BY DEF Sending, Coarse!Sending
<1> QED
  BY <1>1, <1>2, <1>3, <1>4, <1>5, <1>6, <1>7, <1>8, <1>9

LEMMA CoarseInit == ASSUME NEW h \in Handlers PROVE Init => Coarse!Fresh
<1> SUFFICES ASSUME Init PROVE Coarse!Fresh
  OBVIOUS
<1>1. TheHandler \in Handlers
  BY DEF TheHandler
<1>2. HandlerAt = "idle" /\ msg[TheHandler] = NoMsg /\ offset[TheHandler] = 0
  BY <1>1 DEF Init, HandlerAt
<1>3. Underway = {}
  BY DEF Init, Underway
<1>4. AckedEntries = {}
  BY DEF Init, AckedEntries
<1>5. [p \in Producers |-> awaits[p] # NoHandler] = [p \in Producers |-> FALSE]
  BY DEF Init
<1> QED
  BY <1>2, <1>3, <1>4, <1>5, CoarseOps DEF Init, Coarse!Fresh

\* The offset an acknowledged message was acknowledged with is its offset still.
LEMMA AckedEntriesFacts ==
    ASSUME FullInv
    PROVE  /\ acked \subseteq message_ids(leader_log)
           /\ \A h \in Handlers : pc[h] \notin {"idle", "append"} =>
                  OffsetOf(leader_log, msg[h]) = offset[h]
<1>1. acked \subseteq message_ids(leader_log)
  <2> SUFFICES ASSUME NEW m \in acked PROVE m \in message_ids(leader_log)
    OBVIOUS
  <2>1. PICK e \in Entries(follower_log) : e.id = m
    BY DEF FullInv, SerialInv, AckedReplicated, message_ids
  <2>2. StoredAt(leader_log, e.id, e.offset)
    BY DEF FullInv, ReplicaInv, ReplicaStored
  <2> QED
    BY <2>1, <2>2 DEF StoredAt, message_ids
<1>2. ASSUME NEW h \in Handlers, pc[h] \notin {"idle", "append"}
      PROVE  OffsetOf(leader_log, msg[h]) = offset[h]
  <2>1. PICK e \in Entries(leader_log) : e.id = msg[h] /\ e.offset = offset[h]
    BY <1>2 DEF FullInv, ReplicaInv, LocalsStored, StoredAt
  <2>2. leader_log \in LogType(MessageIds) /\ msg[h] \in message_ids(leader_log)
    BY <2>1 DEF FullInv, TypeInv, TypeOK, message_ids
  <2>3. PICK d \in Entries(leader_log) :
            d.id = msg[h] /\ d.offset = OffsetOf(leader_log, msg[h])
    BY <2>2, OffsetOfFacts
  <2>4. d = e
    BY <2>1, <2>3, UniqueEntry DEF FullInv, ReplicaInv, LogsWellFormed
  <2> QED
    BY <2>1, <2>3, <2>4
<1> QED
  BY <1>1, <1>2

\* The frames underway, before and after a step.
LEMMA UnderwayFacts ==
    \A g : g \in Underway <=>
               /\ g.id \notin message_ids(follower_log)
               /\ \E c \in Conns : \E i \in DOMAIN inflight[c] : inflight[c][i] = g
BY DEF Underway

\* The handler's step is one of Failover's handler, or of no consequence to it.
LEMMA CoarseHandlerStep ==
    ASSUME OneHandler, FullInv, NEW h \in Handlers, HandlerStep(h)
    PROVE  Coarse!HandlerStep \/ UNCHANGED Coarse!vars
<1>0. TheHandler = h /\ \A g \in Handlers : g = h
  BY DEF TheHandler, OneHandler
<1>1. /\ pc \in [Handlers -> HandlerPC]
      /\ msg \in [Handlers -> MessageIds \cup {NoMsg}]
      /\ offset \in [Handlers -> Nat]
      /\ retry_count \in [Handlers -> 0..MaxRetries]
      /\ leader_log \in LogType(MessageIds) /\ follower_log \in LogType(MessageIds)
  BY DEF FullInv, TypeInv, TypeOK
<1>2. ASSUME UNCHANGED << inflight, follower_log >> PROVE Underway' = Underway
  BY <1>2 DEF Underway, message_ids, Entries
<1>3. ASSUME UNCHANGED << leader_log, acked >> PROVE AckedEntries' = AckedEntries
  BY <1>3 DEF AckedEntries, OffsetOf, Entries
<1>4. ASSUME UNCHANGED << leader_log, follower_log, hwm, inflight, msg, offset, seq, tries,
                          awaits, acked >>,
             HandlerAt' = HandlerAt
      PROVE  UNCHANGED Coarse!vars
  BY <1>2, <1>3, <1>4
     DEF Coarse!vars, Coarse!roleVars, Coarse!logVars, Coarse!handlerVars, Coarse!clientVars
<1> USE <1>0, <1>1
        DEF brokerVars, connVars, localVars, clientVars, Goto, Retry, Close, Idle, HandlerPC
<1>5. CASE AppendLocal(h)
  <2>1. /\ HandlerAt = "append" /\ HandlerAt' = "replicate"
        /\ leader_log' = AppendNext(leader_log, msg[h])
        /\ offset'[h] = OffsetOf(leader_log', msg[h])
        /\ UNCHANGED << follower_log, hwm, inflight, msg, seq, tries, awaits, acked >>
    BY <1>5 DEF AppendLocal, HandlerAt
  <2>2. msg[h] \in MessageIds
    BY <1>5 DEF AppendLocal, FullInv, TypeInv, HandlerLocals
  <2>3. /\ leader_log' \in LogType(MessageIds) /\ UniqueIds(leader_log')
        /\ Entries(leader_log) \subseteq Entries(leader_log')
    BY <2>1, <2>2, AppendNextFacts, AppendNextKeeps DEF FullInv, ReplicaInv, LogsWellFormed
  <2>4. ASSUME NEW m \in acked PROVE OffsetOf(leader_log', m) = OffsetOf(leader_log, m)
    <3>1. m \in message_ids(leader_log) /\ m \in message_ids(leader_log')
      BY <2>3, <2>4, AckedEntriesFacts DEF message_ids
    <3>2. PICK d \in Entries(leader_log) : d.id = m /\ d.offset = OffsetOf(leader_log, m)
      BY <3>1, OffsetOfFacts
    <3>3. PICK e \in Entries(leader_log') : e.id = m /\ e.offset = OffsetOf(leader_log', m)
      BY <2>3, <3>1, OffsetOfFacts
    <3>4. d = e
      BY <2>3, <3>2, <3>3, UniqueEntry
    <3> QED
      BY <3>2, <3>3, <3>4
  <2>5. AckedEntries' = AckedEntries
    BY <2>1, <2>4 DEF AckedEntries
  <2>6. Underway' = Underway
    BY <1>2, <2>1
  <2>7. Coarse!LeaderAppends
    BY <2>1, <2>5, <2>6, CoarseOps
       DEF Coarse!LeaderAppends, Coarse!roleVars, Coarse!clientVars
  <2> QED
    BY <2>7 DEF Coarse!HandlerStep
<1>6. CASE CheckSocket(h)
  <2>1. /\ UNCHANGED << leader_log, follower_log, hwm, inflight, msg, offset, seq, tries,
                        awaits, acked >>
        /\ HandlerAt = "replicate" /\ HandlerAt' \in {"replicate", "error"}
    BY <1>6 DEF CheckSocket, HandlerAt
  <2>2. CASE HandlerAt' = "replicate"
    BY <1>4, <2>1, <2>2
  <2>3. CASE HandlerAt' = "error"
    <3>1. Coarse!ReplicateFails
      BY <1>2, <1>3, <2>1, <2>3
         DEF Coarse!ReplicateFails, Coarse!roleVars, Coarse!logVars, Coarse!clientVars
    <3> QED
      BY <3>1 DEF Coarse!HandlerStep
  <2> QED
    BY <2>1, <2>2, <2>3
<1>7. CASE \/ OpenSocket(h) \/ OpenSocketFails(h) \/ Dial(h) \/ DialFails(h)
           \/ Connected(h) \/ ConnectFails(h) \/ SendFails(h) \/ AwaitAck(h)
           \/ AwaitFails(h) \/ ReceiveNothing(h)
  <2>1. UNCHANGED << leader_log, follower_log, hwm, inflight, msg, offset, seq, tries,
                     awaits, acked >>
    BY <1>7 DEF OpenSocket, OpenSocketFails, Dial, DialFails, Connected, ConnectFails,
                SendFails, AwaitAck, AwaitFails, ReceiveNothing
  <2>2. HandlerAt = "replicate" /\ HandlerAt' = "replicate"
    BY <1>7 DEF OpenSocket, OpenSocketFails, Dial, DialFails, Connected, ConnectFails,
                SendFails, AwaitAck, AwaitFails, ReceiveNothing, HandlerAt
  <2> QED
    BY <1>4, <2>1, <2>2
<1>8. CASE SendReplicate(h)
  <2> DEFINE f == NewEntry(offset[h], msg[h])
  <2>1. /\ HandlerAt = "replicate" /\ HandlerAt' = "replicate"
        /\ UNCHANGED << leader_log, follower_log, hwm, msg, offset, seq, tries, awaits, acked >>
        /\ socket \in Conns /\ inflight[socket] \in Seq(Frame)
        /\ inflight' = [inflight EXCEPT ![socket] = Append(@, f)]
        /\ f \in Frame /\ f.id = msg[h]
        /\ inflight \in [Conns -> Seq(Frame)]
    BY <1>8 DEF SendReplicate, HandlerAt, NewEntry, Frame, FullInv, TypeInv, TypeOK,
                HandlerLocals
  <2> HIDE DEF f
  <2>3. \A g : (\E c \in Conns : \E i \in DOMAIN inflight'[c] : inflight'[c][i] = g)
                 <=> g = f \/ \E c \in Conns : \E i \in DOMAIN inflight[c] : inflight[c][i] = g
    <3>1. /\ inflight'[socket] = Append(inflight[socket], f)
          /\ \A c \in Conns \ {socket} : inflight'[c] = inflight[c]
      BY <2>1
    <3>2. /\ DOMAIN inflight'[socket] = DOMAIN inflight[socket] \cup {Len(inflight[socket]) + 1}
          /\ inflight'[socket][Len(inflight[socket]) + 1] = f
          /\ \A i \in DOMAIN inflight[socket] : inflight'[socket][i] = inflight[socket][i]
      BY <2>1, <3>1
    <3> QED
      BY <2>1, <3>1, <3>2
  <2>4. \A g : g \in Underway' <=>
                   g \in Underway \/ (g = f /\ msg[h] \notin message_ids(follower_log))
    <3>1. \A g : g \in Underway' <=>
              /\ g.id \notin message_ids(follower_log)
              /\ \E c \in Conns : \E i \in DOMAIN inflight'[c] : inflight'[c][i] = g
      <4>1. \A g : g \in Underway' <=>
                /\ g.id \notin message_ids(follower_log)'
                /\ \E c \in Conns : \E i \in DOMAIN inflight'[c] : inflight'[c][i] = g
        BY DEF Underway
      <4>2. message_ids(follower_log)' = message_ids(follower_log)
        BY <2>1 DEF message_ids, Entries
      <4> QED
        BY <4>1, <4>2
    <3>2. \A g : g \in Underway <=>
              /\ g.id \notin message_ids(follower_log)
              /\ \E c \in Conns : \E i \in DOMAIN inflight[c] : inflight[c][i] = g
      BY UnderwayFacts
    <3> QED
      BY <2>1, <2>3, <3>1, <3>2
  <2>5. CASE msg[h] \in message_ids(follower_log)
    <3>1. Underway' = Underway
      BY <2>4, <2>5
    <3> QED
      BY <1>3, <2>1, <3>1
         DEF Coarse!vars, Coarse!roleVars, Coarse!logVars, Coarse!handlerVars, Coarse!clientVars
  <2>6. CASE msg[h] \notin message_ids(follower_log)
    <3>1. Underway' = Underway \cup {f}
      BY <2>4, <2>6
    <3>2. Coarse!SendReplicate
      BY <1>3, <2>1, <2>6, <3>1, CoarseOps
         DEF f, Coarse!SendReplicate, Coarse!roleVars, Coarse!handlerVars, Coarse!clientVars
    <3> QED
      BY <3>2 DEF Coarse!HandlerStep
  <2> QED
    BY <2>5, <2>6
<1>9. CASE ReceiveAck(h)
  <2>1. /\ UNCHANGED << leader_log, follower_log, hwm, inflight, msg, offset, seq, tries,
                        awaits, acked >>
        /\ HandlerAt = "replicate" /\ HandlerAt' = "hwm"
    BY <1>9 DEF ReceiveAck, HandlerAt
  <2>2. msg[h] \in message_ids(follower_log)
    <3>1. pc[h] = "recv" /\ acks[sock[h]] > 0
      BY <1>9 DEF ReceiveAck
    <3>2. OneExchange
      BY DEF FullInv, SerialInv
    <3>3. sock[h] = socket /\ socket # NoConn
      BY <3>1, <3>2 DEF OneExchange
    <3>4. \/ acks[socket] = 0
          \/ msg[h] \in message_ids(follower_log)
      BY ONLY <3>1, <3>2, <3>3, h \in Handlers DEF OneExchange
    <3> QED
      BY <3>1, <3>3, <3>4
  <2>3. Coarse!ReplicateAcked
    BY <1>2, <1>3, <2>1, <2>2, CoarseOps
       DEF Coarse!ReplicateAcked, Coarse!roleVars, Coarse!logVars, Coarse!clientVars
  <2> QED
    BY <2>3 DEF Coarse!HandlerStep
<1>10. CASE SetHwm(h)
  <2>1. /\ UNCHANGED << leader_log, follower_log, inflight, msg, offset, seq, tries,
                        awaits, acked >>
        /\ hwm' = offset[h] /\ HandlerAt = "hwm" /\ HandlerAt' = "ack"
    BY <1>10 DEF SetHwm, HandlerAt
  <2>2. Coarse!SetHwm
    BY <1>2, <1>3, <2>1 DEF Coarse!SetHwm, Coarse!roleVars, Coarse!clientVars
  <2> QED
    BY <2>2 DEF Coarse!HandlerStep
<1>11. CASE SetHwmFails(h)
  <2>1. /\ UNCHANGED << leader_log, follower_log, inflight, msg, offset, seq, tries,
                        awaits, acked >>
        /\ hwm' \in {hwm, offset[h]} /\ HandlerAt = "hwm" /\ HandlerAt' = "error"
    BY <1>11 DEF SetHwmFails, HandlerAt
  <2>2. Coarse!SetHwmFails
    BY <1>2, <1>3, <2>1 DEF Coarse!SetHwmFails, Coarse!roleVars, Coarse!clientVars
  <2> QED
    BY <2>2 DEF Coarse!HandlerStep
<1>12. CASE AckProducer(h) \/ ErrorToProducer(h)
  <2> DEFINE W == Waiting(h)
             A == [p \in Producers |-> awaits[p] # NoHandler]
  <2>1. /\ UNCHANGED << leader_log, follower_log, hwm, inflight >>
        /\ HandlerAt = pc[h] /\ HandlerAt' = "idle" /\ pc[h] \in {"ack", "error"}
        /\ msg'[h] = NoMsg /\ offset'[h] = 0
        /\ Answered(h)
        /\ acked' = acked \cup {Msg(p) : p \in IF pc[h] = "ack" THEN W ELSE {}}
    BY <1>12 DEF AckProducer, ErrorToProducer, HandlerAt
  <2>2. \A p \in Producers : awaits[p] # NoHandler => awaits[p] = h /\ Msg(p) = msg[h]
    BY DEF FullInv, TypeInv, TypeOK, SerialInv, Serves
  <2>3. W = {p \in Producers : A[p] /\ Msg(p) = msg[h]}
    BY <2>2, NoneAssumption DEF Waiting
  <2>4. \A p \in W : Msg(p) = msg[h]
    BY <2>3
  <2>5. OffsetOf(leader_log, msg[h]) = offset[h]
    BY <2>1, AckedEntriesFacts
  <2>6. /\ seq' = [p \in Producers |-> IF p \in W THEN seq[p] + 1 ELSE seq[p]]
        /\ tries' = [p \in Producers |-> IF p \in W THEN 0 ELSE tries[p]]
        /\ A' = [p \in Producers |-> IF p \in W THEN FALSE ELSE A[p]]
    BY <2>1 DEF Answered
  <2>7. AckedEntries' = AckedEntries \cup
            {NewEntry(offset[h], m) : m \in {Msg(p) : p \in IF pc[h] = "ack" THEN W ELSE {}}}
    <3>1. AckedEntries' = {NewEntry(OffsetOf(leader_log, m), m) : m \in acked'}
      BY <2>1 DEF AckedEntries, OffsetOf, Entries
    <3> HIDE DEF W
    <3> QED
      BY <2>1, <2>4, <2>5, <3>1 DEF AckedEntries
  <2>8. Underway' = Underway
    BY <1>2, <2>1
  <2> HIDE DEF W, A
  <2>9. {p \in Producers : A[p] /\ Coarse!Msg(p) = msg[h]} = W
    BY <2>3, CoarseOps
  <2>10. Coarse!NextRow(W)
    BY <2>6 DEF A, Coarse!NextRow
  <2>11. Coarse!Answer
    <3>1. \A p \in Producers : Coarse!Msg(p) = Msg(p)
      BY CoarseOps
    <3> DEFINE V == {p \in Producers : [q \in Producers |-> awaits[q] # NoHandler][p]
                                        /\ Coarse!Msg(p) = msg[TheHandler]}
    <3>2. V = W
      BY <2>9 DEF A
    <3> HIDE DEF V
    <3>3. AckedEntries' = AckedEntries \cup
              {Coarse!NewEntry(offset[TheHandler], m) :
                   m \in {Coarse!Msg(p) : p \in IF HandlerAt = "ack" THEN V ELSE {}}}
      BY <2>1, <2>7, <3>1, <3>2, CoarseOps
    <3>4. /\ HandlerAt \in {"ack", "error"} /\ HandlerAt' = "idle"
          /\ msg[TheHandler]' = NoMsg /\ offset[TheHandler]' = 0
          /\ UNCHANGED << Coarse!roleVars, Coarse!logVars >>
      BY <2>1, <2>8 DEF Coarse!roleVars, Coarse!logVars
    <3>5. Coarse!NextRow(V)
      BY <2>10, <3>2 DEF Coarse!NextRow
    <3> QED
      BY ONLY <3>3, <3>4, <3>5 DEF V, Coarse!NextRow, Coarse!Answer
  <2> QED
    BY <2>11 DEF Coarse!HandlerStep
<1> QED
  BY <1>5, <1>6, <1>7, <1>8, <1>9, <1>10, <1>11, <1>12 DEF HandlerStep

\* The follower's step: a frame that tells it something new is Failover's.
LEMMA CoarseReplicate ==
    ASSUME FullInv, NEW c \in Conns, Replicate(c)
    PROVE  (\E frame \in Underway : Coarse!Replicate(frame)) \/ UNCHANGED Coarse!vars
<1> DEFINE q == inflight[c]
           f == Head(q)
<1>1. /\ inflight \in [Conns -> Seq(Frame)] /\ follower_log \in LogType(MessageIds)
      /\ q \in Seq(Frame) /\ q # << >>
      /\ inflight' = [inflight EXCEPT ![c] = Tail(q)]
      /\ follower_log' = AppendAt(follower_log, f.id, f.offset)
      /\ UNCHANGED << leader_log, hwm, pc, msg, offset, seq, tries, awaits, acked >>
  BY DEF FullInv, TypeInv, TypeOK, Replicate, localVars, clientVars
<1>2. /\ 1 \in DOMAIN q /\ q[1] = f /\ f \in Frame
      /\ \A g : (\E i \in DOMAIN q : q[i] = g)
                    <=> g = f \/ \E i \in DOMAIN Tail(q) : Tail(q)[i] = g
  <2>1. /\ 1 \in DOMAIN q /\ q[1] = f /\ f \in Frame
        /\ \A i \in DOMAIN Tail(q) : i + 1 \in DOMAIN q /\ Tail(q)[i] = q[i + 1]
        /\ \A i \in DOMAIN q \ {1} : i - 1 \in DOMAIN Tail(q) /\ Tail(q)[i - 1] = q[i]
    BY <1>1
  <2> QED
    BY <2>1
<1> HIDE DEF q, f
<1>3. f.id \in MessageIds /\ f.offset \in Nat
  BY <1>2 DEF Frame
<1>4. \A g : (\E d \in Conns : \E i \in DOMAIN inflight[d] : inflight[d][i] = g)
                 <=> \/ g = f
                     \/ \E d \in Conns : \E i \in DOMAIN inflight'[d] : inflight'[d][i] = g
  <2>1. inflight'[c] = Tail(q) /\ \A d \in Conns \ {c} : inflight'[d] = inflight[d]
    BY <1>1
  <2>2. inflight[c] = q
    BY DEF q
  <2> SUFFICES ASSUME NEW g
               PROVE  (\E d \in Conns : \E i \in DOMAIN inflight[d] : inflight[d][i] = g)
                          <=> \/ g = f
                              \/ \E d \in Conns :
                                    \E i \in DOMAIN inflight'[d] : inflight'[d][i] = g
    OBVIOUS
  <2>3. (\E i \in DOMAIN inflight[c] : inflight[c][i] = g)
            <=> g = f \/ \E i \in DOMAIN inflight'[c] : inflight'[c][i] = g
    <3>1. (\E i \in DOMAIN q : q[i] = g)
              <=> g = f \/ \E i \in DOMAIN Tail(q) : Tail(q)[i] = g
      BY <1>2
    <3>2. inflight'[c] = Tail(q)
      BY <2>1
    <3> QED
      BY ONLY <2>2, <3>1, <3>2, Zenon
  <2> QED
    BY ONLY <2>1, <2>3, c \in Conns
<1>5. \A g : g \in Underway <=>
                 /\ g.id \notin message_ids(follower_log)
                 /\ g = f \/ \E d \in Conns : \E i \in DOMAIN inflight'[d] : inflight'[d][i] = g
  BY <1>4, UnderwayFacts
<1>6. \A g : g \in Underway' <=>
                 /\ g.id \notin message_ids(follower_log')
                 /\ \E d \in Conns : \E i \in DOMAIN inflight'[d] : inflight'[d][i] = g
  <2>1. message_ids(follower_log)' = message_ids(follower_log')
    BY DEF message_ids, Entries
  <2>2. \A g : g \in Underway' <=>
                 /\ g.id \notin message_ids(follower_log)'
                 /\ \E d \in Conns : \E i \in DOMAIN inflight'[d] : inflight'[d][i] = g
    BY DEF Underway
  <2> QED
    BY <2>1, <2>2
<1>7. AckedEntries' = AckedEntries
  BY <1>1 DEF AckedEntries, OffsetOf, Entries
<1>8. HandlerAt' = HandlerAt
  BY <1>1 DEF HandlerAt
<1>9. CASE f.id \in message_ids(follower_log)
  <2>1. follower_log' = follower_log
    BY <1>1, <1>3, <1>9, AppendAtFacts
  <2>2. Underway' = Underway
    BY <1>5, <1>6, <1>9, <2>1
  <2> QED
    BY <1>1, <1>7, <1>8, <2>1, <2>2
       DEF Coarse!vars, Coarse!roleVars, Coarse!logVars, Coarse!handlerVars, Coarse!clientVars
<1>10. CASE f.id \notin message_ids(follower_log)
  <2>1. message_ids(follower_log') = message_ids(follower_log) \cup {f.id}
    <3>1. Entries(follower_log') = Entries(follower_log) \cup {NewEntry(f.offset, f.id)}
      BY <1>1, <1>3, <1>10, AppendAtFacts
    <3>2. NewEntry(f.offset, f.id).id = f.id
      BY <1>3, NewEntryFacts
    <3> QED
      BY <3>1, <3>2 DEF message_ids
  <2>2. f \in Underway /\ Underway' = {g \in Underway : g.id # f.id}
    BY <1>5, <1>6, <1>10, <2>1
  <2>3. Coarse!Replicate(f)
    BY <1>1, <1>7, <1>8, <2>2, CoarseOps
       DEF Coarse!Replicate, Coarse!roleVars, Coarse!handlerVars, Coarse!clientVars
  <2> QED
    BY <2>2, <2>3
<1> QED
  BY <1>9, <1>10

\* The producer's steps.
LEMMA CoarseProducerStep ==
    ASSUME OneHandler, FullInv, NEW p \in Producers, ProducerStep(p)
    PROVE  Coarse!Produce(p) \/ Coarse!ResendLater(p) \/ Coarse!GiveUp(p)
<1> DEFINE A == [q \in Producers |-> awaits[q] # NoHandler]
<1>1. /\ seq \in [Producers -> 1..(MaxMessages + 1)]
      /\ tries \in [Producers -> 0..(MaxSends - 1)]
      /\ awaits \in [Producers -> Handlers \cup {NoHandler}]
      /\ pc \in [Handlers -> HandlerPC]
      /\ msg \in [Handlers -> MessageIds \cup {NoMsg}]
  BY DEF FullInv, TypeInv, TypeOK
<1>2. /\ UNCHANGED << leader_log, follower_log, hwm, inflight, offset, acked >>
      /\ Underway' = Underway /\ AckedEntries' = AckedEntries
  <2>1. UNCHANGED << leader_log, follower_log, hwm, inflight, offset, acked >>
    BY DEF ProducerStep, Produce, ResendLater, GiveUp, brokerVars, connVars, localVars
  <2> QED
    BY <2>1 DEF Underway, AckedEntries, message_ids, Entries, OffsetOf
<1>3. ASSUME NEW h \in Handlers, Produce(p, h) PROVE Coarse!Produce(p)
  <2>1. TheHandler = h
    BY DEF TheHandler, OneHandler
  <2>2. /\ HandlerAt = "idle" /\ HandlerAt' = "append" /\ msg'[h] = Msg(p)
        /\ Sending(p) /\ UNCHANGED << offset, seq, tries, acked >>
        /\ awaits[p] = NoHandler /\ awaits' = [awaits EXCEPT ![p] = h]
    BY <1>1, <1>3, <2>1 DEF Produce, HandlerAt, HandlerPC
  <2>3. ~A[p] /\ A' = [A EXCEPT ![p] = TRUE]
    BY <1>1, <2>2, NoneAssumption
  <2>4. Coarse!Reachable # {}
    BY DEF Coarse!Reachable
  <2> QED
    BY <1>2, <2>1, <2>2, <2>3, <2>4, CoarseOps
       DEF Coarse!Produce, Coarse!roleVars, Coarse!logVars
<1>4. ASSUME ResendLater(p) PROVE Coarse!ResendLater(p)
  <2>1. /\ UNCHANGED << pc, msg, offset, seq, acked >> /\ Sending(p)
        /\ tries[p] + 1 < MaxSends /\ tries' = [tries EXCEPT ![p] = @ + 1]
        /\ awaits' = [awaits EXCEPT ![p] = NoHandler]
    BY <1>4 DEF ResendLater, localVars
  <2>2. A' = [A EXCEPT ![p] = FALSE]
    BY <1>1, <2>1
  <2>3. HandlerAt' = HandlerAt
    BY <2>1 DEF HandlerAt
  <2> QED
    BY <1>2, <2>1, <2>2, <2>3, CoarseOps
       DEF Coarse!ResendLater, Coarse!roleVars, Coarse!logVars, Coarse!handlerVars
<1>5. ASSUME GiveUp(p) PROVE Coarse!GiveUp(p)
  <2>1. /\ UNCHANGED << pc, msg, offset, acked >> /\ Sending(p) /\ tries[p] + 1 = MaxSends
        /\ seq' = [seq EXCEPT ![p] = @ + 1] /\ tries' = [tries EXCEPT ![p] = 0]
        /\ awaits' = [awaits EXCEPT ![p] = NoHandler]
    BY <1>5 DEF GiveUp, localVars
  <2>2. /\ seq' = [q \in Producers |-> IF q \in {p} THEN seq[q] + 1 ELSE seq[q]]
        /\ tries' = [q \in Producers |-> IF q \in {p} THEN 0 ELSE tries[q]]
        /\ A' = [q \in Producers |-> IF q \in {p} THEN FALSE ELSE A[q]]
    BY <1>1, <2>1
  <2>3. HandlerAt' = HandlerAt
    BY <2>1 DEF HandlerAt
  <2>4. Coarse!NextRow({p})
    BY <2>2 DEF Coarse!NextRow
  <2> QED
    BY <1>2, <2>1, <2>3, <2>4, CoarseOps
       DEF Coarse!GiveUp, Coarse!roleVars, Coarse!logVars, Coarse!handlerVars
<1> QED
  BY <1>3, <1>4, <1>5 DEF ProducerStep

LEMMA CoarseStep ==
    ASSUME OneHandler, FullInv, [Next]_vars
    PROVE  [Coarse!Next]_(Coarse!vars)
<1>1. ASSUME NEW p \in Producers, ProducerStep(p) PROVE Coarse!Next
  BY <1>1, CoarseProducerStep DEF Coarse!Next
<1>2. ASSUME NEW h \in Handlers, HandlerStep(h) PROVE [Coarse!Next]_(Coarse!vars)
  BY <1>2, CoarseHandlerStep DEF Coarse!Next
<1>3. ASSUME NEW c \in Conns, Replicate(c) PROVE [Coarse!Next]_(Coarse!vars)
  BY <1>3, CoarseReplicate DEF Coarse!Next
<1>4. ASSUME UNCHANGED << leader_log, follower_log, hwm, inflight, pc, msg, offset, seq,
                          tries, awaits, acked >>
      PROVE  UNCHANGED Coarse!vars
  BY <1>4 DEF Coarse!vars, Coarse!roleVars, Coarse!logVars, Coarse!handlerVars,
     Coarse!clientVars, Underway, AckedEntries, HandlerAt, message_ids, Entries, OffsetOf
<1>5. ASSUME NEW c \in Conns, BreakConn(c) PROVE UNCHANGED Coarse!vars
  BY <1>4, <1>5 DEF BreakConn, Close, brokerVars, localVars, clientVars
<1>6. ASSUME UNCHANGED vars PROVE UNCHANGED Coarse!vars
  BY <1>4, <1>6 DEF vars, brokerVars, connVars, localVars, clientVars
<1> QED
  BY <1>1, <1>2, <1>3, <1>5, <1>6 DEF Next, Finished

\* With one handler thread, the commit path implements the coarser one that Failover
\* takes through a change of leader: handle_produce_request sets the HWM to the offset
\* the leader gave the message, and only after the follower has it there.
THEOREM FailoverRefined ==
    ASSUME OneHandler, NEW h \in Handlers
    PROVE  Spec => ImplementsFailover
<1>1. Init => Coarse!Fresh
  BY CoarseInit
<1>2. FullInv /\ [Next]_vars => [Coarse!Next]_(Coarse!vars)
  BY CoarseStep
<1> QED
  BY <1>1, <1>2, FullInvariant, PTL DEF Spec, ImplementsFailover

=============================================================================

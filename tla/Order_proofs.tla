---------------------------- MODULE Order_proofs ----------------------------
(***************************************************************************)
(* Theorems of Replication about the order of the log and the HWM: that a  *)
(* producer's acknowledged messages stay in the order of its calls, for    *)
(* any number of threads, and that the HWM of one producer's run of calls  *)
(* only goes forward, when its requests do not overlap.                    *)
(***************************************************************************)
EXTENDS Replication_proofs

(***************************************************************************)
(* Order, whatever the threads do.  A producer acknowledges only the       *)
(* message it is sending now, and when it does nothing later of its own is *)
(* in the log or in a thread's hands: later messages can only come behind. *)
(***************************************************************************)
\* Nothing is stored or carried that its producer has not sent yet; what is
\* acknowledged is stored and done with.
NumbersKnown ==
    /\ \A e \in Entries(leader_log) : e.id[2] <= seq[e.id[1]]
    /\ \A h \in Handlers : pc[h] # "idle" => msg[h][2] <= seq[msg[h][1]]
    /\ \A m \in acked : m \in message_ids(leader_log) /\ m[2] < seq[m[1]]

\* An entry with a later number than an acknowledged one is above it.
LaterAbove ==
    \A d, e \in Entries(leader_log) :
        d.id \in acked /\ d.id[1] = e.id[1] /\ d.id[2] < e.id[2] => d.offset < e.offset

OrderInv == Serves /\ NumbersKnown /\ LaterAbove

LEMMA IdType ==
    ASSUME NEW m \in MessageIds
    PROVE  m[1] \in Producers /\ m[2] \in Nat /\ m[2] >= 1 /\ m = << m[1], m[2] >>
BY BoundsAssumption DEF MessageIds

LEMMA EntryType ==
    ASSUME TypeInv, NEW e \in Entries(leader_log)
    PROVE  /\ e.id \in MessageIds /\ e.offset \in Nat
           /\ e.id[1] \in Producers /\ e.id[2] \in Nat
<1>1. e \in LogEntry(MessageIds)
  BY LogFields DEF TypeInv, TypeOK
<1> QED
  BY <1>1, IdType DEF LogEntry

LEMMA OrderInit == Init => OrderInv
<1> SUFFICES ASSUME Init PROVE OrderInv
  OBVIOUS
<1>1. Entries(leader_log) = {}
  BY EmptyLogFacts DEF Init
<1>2. Serves /\ NumbersKnown /\ LaterAbove
  BY <1>1 DEF Init, Serves, NumbersKnown, LaterAbove
<1> QED
  BY <1>2 DEF OrderInv

\* What answering does: the producers that waited go on to the next number.
LEMMA AnswerFacts ==
    ASSUME TypeInv, OrderInv, NEW h \in Handlers, pc[h] # "idle", Answered(h)
    PROVE  /\ \A p \in Producers : Msg(p) = << p, seq[p] >>
           /\ \A p \in Waiting(h) : /\ p \in Producers /\ Msg(p) = msg[h]
                                    /\ seq'[p] = seq[p] + 1
           /\ \A p \in Producers : /\ seq[p] \in Nat /\ seq'[p] \in Nat
                                   /\ seq[p] <= seq'[p]
                                   /\ awaits'[p] # NoHandler =>
                                        /\ awaits[p] = awaits'[p] /\ awaits[p] # h
                                        /\ seq'[p] = seq[p]
<1>1. /\ seq \in [Producers -> 1..(MaxMessages + 1)]
      /\ MaxMessages \in Nat
  BY BoundsAssumption DEF TypeInv, TypeOK
<1>2. \A p \in Producers : Msg(p) = << p, seq[p] >>
  BY DEF Msg
<1>3. \A p \in Waiting(h) : p \in Producers /\ awaits[p] = h /\ Msg(p) = msg[h]
  BY NoneAssumption DEF Waiting, OrderInv, Serves
<1>4. \A p \in Waiting(h) : seq'[p] = seq[p] + 1
  BY <1>3 DEF Answered
<1>5. ASSUME NEW p \in Producers
      PROVE  /\ seq[p] \in Nat /\ seq'[p] \in Nat /\ seq[p] <= seq'[p]
             /\ awaits'[p] # NoHandler =>
                  awaits[p] = awaits'[p] /\ awaits[p] # h /\ seq'[p] = seq[p]
  BY <1>1 DEF Answered, Waiting
<1> QED
  BY <1>2, <1>3, <1>4, <1>5

\* A step that leaves the log and the acknowledgements alone and gives no thread a
\* new message.
LEMMA OrderQuietStep ==
    ASSUME TypeInv, OrderInv, UNCHANGED << leader_log, acked >>,
           \A p \in Producers : seq[p] \in Nat /\ seq'[p] \in Nat /\ seq[p] <= seq'[p],
           \A h \in Handlers : pc'[h] # "idle" => pc[h] # "idle" /\ msg'[h] = msg[h]
    PROVE  NumbersKnown' /\ LaterAbove'
<1>1. \A e \in Entries(leader_log) : e.id[1] \in Producers /\ e.id[2] \in Nat
  BY EntryType
<1>2. \A h \in Handlers : pc[h] # "idle" => msg[h][1] \in Producers /\ msg[h][2] \in Nat
  BY IdType DEF TypeInv, HandlerLocals
<1>3. \A m \in acked : m[1] \in Producers /\ m[2] \in Nat
  BY IdType DEF TypeInv, TypeOK
<1> QED
  BY <1>1, <1>2, <1>3 DEF OrderInv, NumbersKnown, LaterAbove, Entries, message_ids

LEMMA OrderStep == TypeInv /\ ReplicaInv /\ OrderInv /\ [Next]_vars => OrderInv'
<1> SUFFICES ASSUME TypeInv, ReplicaInv, OrderInv, [Next]_vars PROVE OrderInv'
  OBVIOUS
<1> USE BoundsAssumption, NoneAssumption
        DEF OrderInv, brokerVars, connVars, localVars, clientVars, Goto, Retry, Close, Idle
<1>0. /\ pc \in [Handlers -> HandlerPC] /\ msg \in [Handlers -> MessageIds \cup {NoMsg}]
      /\ seq \in [Producers -> 1..(MaxMessages + 1)]
      /\ awaits \in [Producers -> Handlers \cup {NoHandler}]
      /\ \A p \in Producers : seq[p] \in Nat
  BY DEF TypeInv, TypeOK
<1>1. ASSUME NEW p \in Producers, NEW h \in Handlers, Produce(p, h) PROVE OrderInv'
  <2>1. Serves'
    BY <1>0, <1>1 DEF Produce, Serves, Msg
  <2>2. NumbersKnown'
    <3>1. /\ UNCHANGED << leader_log, acked, seq >>
          /\ pc' = [pc EXCEPT ![h] = "append"] /\ msg' = [msg EXCEPT ![h] = << p, seq[p] >>]
      BY <1>1 DEF Produce, Msg
    <3> QED
      BY <1>0, <3>1 DEF NumbersKnown, Entries, message_ids
  <2>3. LaterAbove'
    BY <1>1 DEF Produce, LaterAbove, Entries
  <2> QED
    BY <2>1, <2>2, <2>3
<1>2. ASSUME NEW p \in Producers, ResendLater(p) PROVE OrderInv'
  <2>1. Serves'
    BY <1>0, <1>2 DEF ResendLater, Serves, Msg
  <2> QED
    BY <1>0, <1>2, <2>1, OrderQuietStep DEF ResendLater
<1>3. ASSUME NEW p \in Producers, GiveUp(p) PROVE OrderInv'
  <2>1. Serves'
    BY <1>0, <1>3 DEF GiveUp, Serves, Msg
  <2>2. \A q \in Producers : seq[q] \in Nat /\ seq'[q] \in Nat /\ seq[q] <= seq'[q]
    BY <1>0, <1>3 DEF GiveUp
  <2> QED
    BY <1>0, <1>3, <2>1, <2>2, OrderQuietStep DEF GiveUp
<1>4. ASSUME NEW h \in Handlers, AppendLocal(h) PROVE OrderInv'
  <2>1. leader_log \in LogType(MessageIds) /\ msg[h] \in MessageIds
    BY <1>4 DEF TypeInv, TypeOK, HandlerLocals, AppendLocal
  <2>2. /\ UNCHANGED << msg, seq, awaits, acked >> /\ pc' = [pc EXCEPT ![h] = "check"]
        /\ pc[h] = "append" /\ leader_log' = AppendNext(leader_log, msg[h])
    BY <1>4 DEF AppendLocal
  <2>3. Serves'
    BY <1>0, <2>2 DEF Serves, Msg
  <2>4. CASE msg[h] \in message_ids(leader_log)
    <3>1. leader_log' = leader_log
      BY <2>1, <2>2, <2>4, AppendNextFacts
    <3> QED
      BY <1>0, <2>2, <2>3, <3>1, OrderQuietStep
  <2>5. CASE msg[h] \notin message_ids(leader_log)
    <3> DEFINE new == NewEntry(leader_log.next_offset, msg[h])
    <3>1. Entries(leader_log') = Entries(leader_log) \cup {new}
      BY <2>1, <2>2, <2>5, AppendNextFacts
    <3>2. new.id = msg[h] /\ new.offset = leader_log.next_offset
      BY DEF NewEntry
    <3>3. \A e \in Entries(leader_log) : e.offset < leader_log.next_offset
      BY <2>1, LogFields DEF ReplicaInv, LogsWellFormed, Positional, Entries
    <3>4. msg[h] \notin acked
      BY <2>5 DEF NumbersKnown
    <3> HIDE DEF new
    <3>5. NumbersKnown'
      BY <1>0, <2>2, <3>1, <3>2 DEF NumbersKnown, message_ids
    <3>6. LaterAbove'
      BY <2>2, <3>1, <3>2, <3>3, <3>4 DEF LaterAbove
    <3> QED
      BY <2>3, <3>5, <3>6
  <2> QED
    BY <2>4, <2>5
<1>5. ASSUME NEW h \in Handlers, AckProducer(h) PROVE OrderInv'
  <2>1. /\ UNCHANGED leader_log /\ Answered(h) /\ pc[h] = "ack"
        /\ acked' = acked \cup {Msg(p) : p \in Waiting(h)}
        /\ pc' = [pc EXCEPT ![h] = "idle"] /\ msg' = [msg EXCEPT ![h] = NoMsg]
    BY <1>5 DEF AckProducer
  <2>2. /\ \A p \in Waiting(h) : p \in Producers /\ Msg(p) = msg[h] /\ seq'[p] = seq[p] + 1
        /\ \A p \in Producers : seq'[p] \in Nat /\ seq[p] <= seq'[p]
        /\ \A p \in Producers : awaits'[p] # NoHandler =>
             awaits[p] = awaits'[p] /\ awaits[p] # h /\ seq'[p] = seq[p]
        /\ \A p \in Producers : Msg(p) = << p, seq[p] >>
    BY <2>1, AnswerFacts
  <2>3. Serves'
    BY <1>0, <2>1, <2>2 DEF Serves, Msg
  <2>4. msg[h] \in message_ids(leader_log)
    BY <2>1 DEF ReplicaInv, LocalsStored, StoredAt, message_ids
  <2>5. ASSUME NEW m \in acked', m \notin acked
        PROVE  /\ m \in message_ids(leader_log) /\ m[1] \in Producers
               /\ m[2] = seq[m[1]] /\ seq'[m[1]] = seq[m[1]] + 1
    <3>1. PICK p \in Waiting(h) : m = Msg(p)
      BY <2>1, <2>5
    <3> QED
      BY <2>2, <2>4, <3>1
  <2>6. \A e \in Entries(leader_log) : e.id[1] \in Producers /\ e.id[2] \in Nat
    BY EntryType
  <2>7. \A g \in Handlers : pc[g] # "idle" => msg[g][1] \in Producers /\ msg[g][2] \in Nat
    BY IdType DEF TypeInv, HandlerLocals
  <2>8. \A m \in acked : m[1] \in Producers /\ m[2] \in Nat
    BY IdType DEF TypeInv, TypeOK
  <2>9. NumbersKnown'
    <3>1. \A e \in Entries(leader_log') : e.id[2] <= seq'[e.id[1]]
      BY <1>0, <2>1, <2>2, <2>6 DEF NumbersKnown
    <3>2. \A g \in Handlers : pc'[g] # "idle" => msg'[g][2] <= seq'[msg'[g][1]]
      BY <1>0, <2>1, <2>2, <2>7 DEF NumbersKnown
    <3>3. \A m \in acked' : m \in message_ids(leader_log') /\ m[2] < seq'[m[1]]
      BY <1>0, <2>1, <2>2, <2>5, <2>8 DEF NumbersKnown
    <3> QED
      BY <3>1, <3>2, <3>3 DEF NumbersKnown
  <2>10. LaterAbove'
    <3> SUFFICES ASSUME NEW d \in Entries(leader_log), NEW e \in Entries(leader_log),
                        d.id \in acked', d.id[1] = e.id[1], d.id[2] < e.id[2]
                 PROVE  d.offset < e.offset
      BY <2>1 DEF LaterAbove
    <3>1. CASE d.id \in acked
      BY <3>1 DEF LaterAbove
    <3>2. CASE d.id \notin acked
      BY <1>0, <2>5, <2>6, <3>2 DEF NumbersKnown
    <3> QED
      BY <3>1, <3>2
  <2> QED
    BY <2>3, <2>9, <2>10
<1>6. ASSUME NEW h \in Handlers, ErrorToProducer(h) PROVE OrderInv'
  <2>1. /\ UNCHANGED << leader_log, acked >> /\ Answered(h) /\ pc[h] = "error"
        /\ pc' = [pc EXCEPT ![h] = "idle"] /\ msg' = [msg EXCEPT ![h] = NoMsg]
    BY <1>6 DEF ErrorToProducer
  <2>2. /\ \A p \in Producers : seq[p] \in Nat /\ seq'[p] \in Nat /\ seq[p] <= seq'[p]
        /\ \A p \in Producers : awaits'[p] # NoHandler =>
             awaits[p] = awaits'[p] /\ awaits[p] # h /\ seq'[p] = seq[p]
    BY <2>1, AnswerFacts
  <2>3. Serves'
    BY <1>0, <2>1, <2>2 DEF Serves, Msg
  <2> QED
    BY <1>0, <2>1, <2>2, <2>3, OrderQuietStep
<1>7. ASSUME NEW h \in Handlers,
             \/ CheckSocket(h) \/ OpenSocket(h) \/ OpenSocketFails(h) \/ Dial(h)
             \/ DialFails(h) \/ Connected(h) \/ ConnectFails(h) \/ SendReplicate(h)
             \/ SendFails(h) \/ AwaitAck(h) \/ AwaitFails(h) \/ ReceiveAck(h)
             \/ ReceiveNothing(h) \/ SetHwm(h) \/ SetHwmFails(h)
      PROVE  OrderInv'
  <2>1. /\ UNCHANGED << leader_log, msg, seq, awaits, acked >>
        /\ pc[h] # "idle" /\ \E l \in HandlerPC \ {"idle"} : pc' = [pc EXCEPT ![h] = l]
    BY <1>7 DEF CheckSocket, OpenSocket, OpenSocketFails, Dial, DialFails, Connected,
       ConnectFails, SendReplicate, SendFails, AwaitAck, AwaitFails, ReceiveAck,
       ReceiveNothing, SetHwm, SetHwmFails, HandlerPC
  <2>2. Serves'
    BY <1>0, <2>1 DEF Serves, Msg
  <2> QED
    BY <1>0, <2>1, <2>2, OrderQuietStep
<1>8. ASSUME NEW c \in Conns, Replicate(c) \/ BreakConn(c) PROVE OrderInv'
  <2>1. UNCHANGED << leader_log, pc, msg, seq, awaits, acked >>
    BY <1>8 DEF Replicate, BreakConn
  <2>2. Serves'
    BY <2>1 DEF Serves, Msg
  <2> QED
    BY <1>0, <2>1, <2>2, OrderQuietStep
<1>9. CASE UNCHANGED vars
  BY <1>0, <1>9, OrderQuietStep DEF vars, Serves, Msg
<1> QED
  BY <1>1, <1>2, <1>3, <1>4, <1>5, <1>6, <1>7, <1>8, <1>9
     DEF Next, ProducerStep, HandlerStep, Finished

\* In every run, with any number of threads and producers and however late a timed-out
\* request is appended: a producer's acknowledged messages are stored, at offsets in
\* the order of its calls.
THEOREM OrderCorrect == Spec => []ProducerOrder
<1> DEFINE Inv == TypeInv /\ ReplicaInv /\ OrderInv
<1>1. Init => Inv
  BY TypeInit, ReplicaInit, OrderInit
<1>2. Inv /\ [Next]_vars => Inv'
  BY TypeStep, ReplicaStep, OrderStep
<1>3. Inv => ProducerOrder
  BY DEF OrderInv, NumbersKnown, LaterAbove, ProducerOrder
<1> QED
  BY <1>1, <1>2, <1>3, PTL DEF Spec

(***************************************************************************)
(* The HWM, when requests do not overlap: one thread and one producer.     *)
(* The log is then in the order of the calls, and the message a thread     *)
(* carries is the last of the log, a retried one included: what set_hwm is *)
(* given is never below what it was given before.                          *)
(***************************************************************************)
OneProducer == \A p, q \in Producers : p = q

\* The log is in the order of the calls.
LogSorted ==
    \A d, e \in Entries(leader_log) : d.id[2] < e.id[2] => d.offset < e.offset

\* A thread at work carries the latest message of all, and once it has stored it
\* its offset is the last of the log.
CarriesLast ==
    \A h \in Handlers :
        /\ pc[h] # "idle" => \A e \in Entries(leader_log) : e.id[2] <= msg[h][2]
        /\ pc[h] \notin {"idle", "append"} => offset[h] = leader_log.next_offset - 1

\* The HWM is an offset of the log, and a thread about to acknowledge has set it.
HwmInLog ==
    /\ hwm <= leader_log.next_offset - 1
    /\ \A h \in Handlers : pc[h] = "ack" => offset[h] <= hwm

\* Every message of an earlier call was acknowledged or refused.
Settled ==
    \A m \in MessageIds : m[2] < seq[m[1]] => m \in acked \cup refused

\* Acknowledged entries are at or below the HWM.
AckedBelowHwm ==
    \A e \in Entries(leader_log) : e.id \in acked => e.offset <= hwm

HwmInv == LogSorted /\ CarriesLast /\ HwmInLog /\ Settled /\ AckedBelowHwm
          /\ VisibleReplicatedOrRefused

LEMMA HwmInit == Init => HwmInv
<1> SUFFICES ASSUME Init PROVE HwmInv
  OBVIOUS
<1>1. Entries(leader_log) = {} /\ leader_log.next_offset = 0 /\ hwm = -1
  BY EmptyLogFacts DEF Init, EmptyLog
<1>2. \A h \in Handlers : pc[h] = "idle"
  BY DEF Init
<1>3. Settled
  BY IdType DEF Init, Settled
<1> QED
  BY <1>1, <1>2, <1>3 DEF HwmInv, LogSorted, CarriesLast, HwmInLog, AckedBelowHwm,
     VisibleReplicatedOrRefused

\* A step that leaves the log, the HWM, the follower and the producer's account alone.
LEMMA HwmQuietStep ==
    ASSUME HwmInv,
           UNCHANGED << leader_log, follower_log, hwm, seq, acked, refused >>,
           \A h \in Handlers : pc'[h] # "idle" =>
               pc[h] # "idle" /\ msg'[h] = msg[h] /\ offset'[h] = offset[h],
           \A h \in Handlers : pc'[h] \notin {"idle", "append"} => pc[h] \notin {"idle", "append"},
           \A h \in Handlers : pc'[h] = "ack" => pc[h] = "ack"
    PROVE  HwmInv'
BY DEF HwmInv, LogSorted, CarriesLast, HwmInLog, Settled, AckedBelowHwm,
       VisibleReplicatedOrRefused, Entries, message_ids

\* What the answer of a thread means when there is one producer and one thread.
LEMMA SettleStep ==
    ASSUME OneHandler, OneProducer, TypeInv, OrderInv, HwmInv,
           NEW h \in Handlers, pc[h] # "idle", Answered(h), NEW answered,
           answered = {Msg(p) : p \in Waiting(h)}, acked \subseteq acked',
           refused \subseteq refused', answered \subseteq acked' \cup refused'
    PROVE  Settled'
<1>1. /\ seq \in [Producers -> 1..(MaxMessages + 1)] /\ MaxMessages \in Nat
  BY BoundsAssumption DEF TypeInv, TypeOK
<1> SUFFICES ASSUME NEW m \in MessageIds, m[2] < seq'[m[1]]
             PROVE  m \in acked' \cup refused'
  BY DEF Settled
<1>2. m[1] \in Producers /\ m[2] \in Nat /\ m = << m[1], m[2] >>
  BY IdType
<1>3. CASE m[2] < seq[m[1]]
  BY <1>3 DEF HwmInv, Settled
<1>4. CASE ~(m[2] < seq[m[1]])
  <2>1. seq'[m[1]] = IF m[1] \in Waiting(h) THEN seq[m[1]] + 1 ELSE seq[m[1]]
    BY <1>2 DEF Answered
  <2>2. m[1] \in Waiting(h) /\ m[2] = seq[m[1]]
    BY <1>1, <1>2, <1>4, <2>1
  <2>3. m = Msg(m[1])
    BY <1>2, <2>2 DEF Msg
  <2> QED
    BY <2>2, <2>3
<1> QED
  BY <1>3, <1>4

LEMMA HwmStep ==
    ASSUME OneHandler, OneProducer
    PROVE  FullInv /\ OrderInv /\ HwmInv /\ [Next]_vars => HwmInv' /\ hwm' >= hwm
<1> SUFFICES ASSUME FullInv, OrderInv, HwmInv, [Next]_vars PROVE HwmInv' /\ hwm' >= hwm
  OBVIOUS
<1> USE BoundsAssumption, NoneAssumption
        DEF brokerVars, connVars, localVars, clientVars, Goto, Retry, Close, Idle
<1>. TypeInv /\ ReplicaInv /\ SerialInv
  BY DEF FullInv
<1>0. /\ pc \in [Handlers -> HandlerPC] /\ msg \in [Handlers -> MessageIds \cup {NoMsg}]
      /\ offset \in [Handlers -> Nat]
      /\ seq \in [Producers -> 1..(MaxMessages + 1)]
      /\ \A p \in Producers : seq[p] \in Nat
      /\ hwm \in Nat \cup {-1}
      /\ leader_log \in LogType(MessageIds) /\ leader_log.next_offset \in Nat
      /\ follower_log \in LogType(MessageIds)
  BY LogFields DEF TypeInv, TypeOK
<1>e. \A e \in Entries(leader_log) : /\ e.id \in MessageIds /\ e.offset \in Nat
                                     /\ e.id[1] \in Producers /\ e.id[2] \in Nat
  BY EntryType
<1>l. \A e \in Entries(leader_log) : e.offset < leader_log.next_offset
  BY <1>0, LogFields DEF ReplicaInv, LogsWellFormed, Positional, Entries
<1>1. ASSUME NEW p \in Producers, NEW h \in Handlers, Produce(p, h)
      PROVE  HwmInv' /\ hwm' >= hwm
  <2>1. /\ UNCHANGED << leader_log, follower_log, hwm, seq, acked, refused, offset >>
        /\ pc' = [pc EXCEPT ![h] = "append"] /\ msg' = [msg EXCEPT ![h] = << p, seq[p] >>]
    BY <1>1 DEF Produce, Msg
  <2>2. \A e \in Entries(leader_log) : e.id[2] <= seq[p]
    BY <1>e DEF OrderInv, NumbersKnown, OneProducer
  <2>3. CarriesLast'
    BY <1>0, <2>1, <2>2 DEF HwmInv, CarriesLast, Entries
  <2>4. HwmInLog'
    BY <1>0, <2>1 DEF HwmInv, HwmInLog
  <2>5. LogSorted' /\ Settled' /\ AckedBelowHwm' /\ VisibleReplicatedOrRefused'
    BY <2>1 DEF HwmInv, LogSorted, Settled, AckedBelowHwm, VisibleReplicatedOrRefused,
       Entries, message_ids
  <2> QED
    BY <1>0, <2>1, <2>3, <2>4, <2>5 DEF HwmInv
<1>2. ASSUME NEW p \in Producers, ResendLater(p) PROVE HwmInv' /\ hwm' >= hwm
  BY <1>0, <1>2, HwmQuietStep DEF ResendLater
<1>3. ASSUME NEW p \in Producers, GiveUp(p) PROVE HwmInv' /\ hwm' >= hwm
  <2>1. /\ UNCHANGED << leader_log, follower_log, hwm, acked, pc, msg, offset >>
        /\ seq' = [seq EXCEPT ![p] = @ + 1]
        /\ refused' = refused \cup {<< p, seq[p] >>}
    BY <1>3 DEF GiveUp, Msg
  <2>2. Settled'
    <3> SUFFICES ASSUME NEW m \in MessageIds, m[2] < seq'[m[1]]
                 PROVE  m \in acked' \cup refused'
      BY DEF Settled
    <3>1. m[1] \in Producers /\ m[2] \in Nat /\ m = << m[1], m[2] >>
      BY IdType
    <3>2. m[2] < seq[m[1]] \/ (m[1] = p /\ m[2] = seq[p])
      BY <1>0, <2>1, <3>1
    <3> QED
      BY <2>1, <3>1, <3>2 DEF HwmInv, Settled
  <2>3. LogSorted' /\ CarriesLast' /\ HwmInLog' /\ AckedBelowHwm' /\ VisibleReplicatedOrRefused'
    BY <2>1 DEF HwmInv, LogSorted, CarriesLast, HwmInLog, AckedBelowHwm,
       VisibleReplicatedOrRefused, Entries, message_ids
  <2> QED
    BY <1>0, <2>1, <2>2, <2>3 DEF HwmInv
<1>4. ASSUME NEW h \in Handlers, AppendLocal(h) PROVE HwmInv' /\ hwm' >= hwm
  <2>1. /\ UNCHANGED << follower_log, hwm, msg, seq, acked, refused >>
        /\ pc[h] = "append" /\ pc' = [pc EXCEPT ![h] = "check"]
        /\ leader_log' = AppendNext(leader_log, msg[h])
        /\ offset' = [offset EXCEPT ![h] = OffsetOf(leader_log', msg[h])]
    BY <1>4 DEF AppendLocal
  <2>2. msg[h] \in MessageIds /\ msg[h][2] \in Nat /\ msg[h][1] \in Producers
    BY <2>1, IdType DEF TypeInv, HandlerLocals
  <2>3. \A g \in Handlers : g = h
    BY DEF OneHandler
  <2>4. \A e \in Entries(leader_log) : e.id[2] <= msg[h][2]
    BY <2>1 DEF HwmInv, CarriesLast
  <2>5. /\ leader_log' \in LogType(MessageIds) /\ msg[h] \in message_ids(leader_log')
        /\ UniqueIds(leader_log') /\ Positional(leader_log')
    BY <1>0, <2>1, <2>2, AppendNextFacts, AppendNextKeeps DEF ReplicaInv, LogsWellFormed
  <2>6. PICK own \in Entries(leader_log') :
            own.id = msg[h] /\ own.offset = OffsetOf(leader_log', msg[h])
    BY <2>5, OffsetOfFacts
  <2>7. CASE msg[h] \in message_ids(leader_log)
    <3>1. leader_log' = leader_log
      BY <1>0, <2>1, <2>2, <2>7, AppendNextFacts
    <3>2. own.offset = leader_log.next_offset - 1
      <4>1. /\ leader_log.log \in Seq(LogEntry(MessageIds))
            /\ leader_log.next_offset = Len(leader_log.log)
            /\ \A i \in DOMAIN leader_log.log : leader_log.log[i].offset = i - 1
        BY <1>0, LogFields DEF ReplicaInv, LogsWellFormed, Positional
      <4>2. PICK i \in DOMAIN leader_log.log : own = leader_log.log[i]
        BY <2>6, <3>1 DEF Entries
      <4> DEFINE n == Len(leader_log.log)
      <4>3. n \in DOMAIN leader_log.log /\ n \in Nat /\ i \in Nat /\ i <= n
        BY <4>1, <4>2
      <4>4. leader_log.log[n] \in Entries(leader_log)
        BY <4>3 DEF Entries
      <4>5. CASE leader_log.log[n].id = own.id
        BY <4>1, <4>2, <4>3, <4>5 DEF ReplicaInv, LogsWellFormed, UniqueIds
      <4>6. CASE leader_log.log[n].id # own.id
        <5>1. leader_log.log[n].id[2] # own.id[2]
          BY <1>e, <2>2, <2>6, <4>4, <4>6, IdType DEF OneProducer
        <5>2. leader_log.log[n].id[2] < own.id[2]
          BY <1>e, <2>2, <2>4, <2>6, <4>4, <5>1
        <5>3. leader_log.log[n].offset < own.offset
          BY <2>6, <3>1, <4>4, <5>2 DEF HwmInv, LogSorted
        <5> QED
          BY <4>1, <4>2, <4>3, <5>3
      <4> QED
        BY <4>5, <4>6
    <3>3. CarriesLast'
      BY <1>0, <2>1, <2>3, <2>4, <2>6, <3>1, <3>2 DEF CarriesLast
    <3>4. HwmInLog'
      BY <1>0, <2>1, <2>3, <3>1 DEF HwmInv, HwmInLog
    <3>5. LogSorted' /\ Settled' /\ AckedBelowHwm' /\ VisibleReplicatedOrRefused'
      BY <2>1, <3>1 DEF HwmInv, LogSorted, Settled, AckedBelowHwm,
         VisibleReplicatedOrRefused, Entries, message_ids
    <3> QED
      BY <1>0, <2>1, <3>3, <3>4, <3>5 DEF HwmInv
  <2>8. CASE msg[h] \notin message_ids(leader_log)
    <3> DEFINE new == NewEntry(leader_log.next_offset, msg[h])
    <3>1. /\ Entries(leader_log') = Entries(leader_log) \cup {new}
          /\ leader_log'.next_offset = leader_log.next_offset + 1
      BY <1>0, <2>1, <2>2, <2>8, AppendNextFacts
    <3>2. new.id = msg[h] /\ new.offset = leader_log.next_offset
      BY DEF NewEntry
    <3>3. \A e \in Entries(leader_log) : e.id # msg[h]
      BY <2>8 DEF message_ids
    <3>4. \A e \in Entries(leader_log) : e.id[2] < msg[h][2]
      BY <1>e, <2>2, <2>4, <3>3, IdType DEF OneProducer
    <3>5. msg[h] \notin acked
      BY <2>8 DEF OrderInv, NumbersKnown
    <3> HIDE DEF new
    <3>6. own = new
      BY <2>6, <3>1, <3>3
    <3>7. CarriesLast'
      BY <1>0, <2>1, <2>2, <2>3, <2>4, <2>6, <3>1, <3>2, <3>6 DEF CarriesLast
    <3>8. HwmInLog'
      BY <1>0, <2>1, <2>3, <3>1 DEF HwmInv, HwmInLog
    <3>9. LogSorted'
      BY <1>e, <1>l, <2>1, <2>2, <3>1, <3>2, <3>4 DEF HwmInv, LogSorted
    <3>10. AckedBelowHwm'
      BY <2>1, <3>1, <3>2, <3>5 DEF HwmInv, AckedBelowHwm
    <3>11. VisibleReplicatedOrRefused'
      <4>1. ~(new.offset <= hwm)
        BY <1>0, <3>2 DEF HwmInv, HwmInLog
      <4> QED
        BY <2>1, <3>1, <4>1 DEF HwmInv, VisibleReplicatedOrRefused
    <3>12. Settled'
      BY <2>1 DEF HwmInv, Settled
    <3> QED
      BY <1>0, <2>1, <3>7, <3>8, <3>9, <3>10, <3>11, <3>12 DEF HwmInv
  <2> QED
    BY <2>7, <2>8
<1>5. ASSUME NEW h \in Handlers, SetHwm(h) \/ (SetHwmFails(h) /\ hwm' = offset[h])
      PROVE  HwmInv' /\ hwm' >= hwm
  <2>1. /\ UNCHANGED << leader_log, follower_log, msg, offset, seq, acked, refused >>
        /\ pc[h] = "hwm" /\ hwm' = offset[h]
        /\ pc' = [pc EXCEPT ![h] = "ack"] \/ pc' = [pc EXCEPT ![h] = "error"]
    BY <1>5 DEF SetHwm, SetHwmFails
  <2>2. \A g \in Handlers : g = h
    BY DEF OneHandler
  <2>3. offset[h] = leader_log.next_offset - 1 /\ hwm <= offset[h]
    BY <2>1 DEF HwmInv, CarriesLast, HwmInLog
  <2>4. CarriesLast' /\ HwmInLog'
    BY <1>0, <2>1, <2>2, <2>3 DEF HwmInv, CarriesLast, HwmInLog, Entries
  <2>5. AckedBelowHwm'
    BY <1>e, <1>0, <2>1, <2>3 DEF HwmInv, AckedBelowHwm, Entries
  <2>6. VisibleReplicatedOrRefused'
    <3> SUFFICES ASSUME NEW e \in Entries(leader_log), e.id \notin message_ids(follower_log)
                 PROVE  e.id \in refused
      BY <2>1 DEF VisibleReplicatedOrRefused
    <3>1. msg[h] \in message_ids(follower_log) /\ msg[h] \in MessageIds
      BY <2>1 DEF SerialInv, AckedBySerial, TypeInv, HandlerLocals
    <3>2. e.id[2] < msg[h][2]
      <4>1. e.id # msg[h] /\ e.id[2] <= msg[h][2]
        BY <2>1, <3>1 DEF HwmInv, CarriesLast
      <4> QED
        BY <1>e, <3>1, <4>1, IdType DEF OneProducer
    <3>3. msg[h][2] <= seq[e.id[1]]
      BY <1>e, <2>1, <3>1, IdType DEF OrderInv, NumbersKnown, OneProducer
    <3>4. e.id \in acked \cup refused
      BY <1>0, <1>e, <3>1, <3>2, <3>3, IdType DEF HwmInv, Settled
    <3>5. e.id \notin acked
      BY DEF SerialInv, AckedReplicated
    <3> QED
      BY <3>4, <3>5
  <2>7. LogSorted' /\ Settled'
    BY <2>1 DEF HwmInv, LogSorted, Settled, Entries
  <2> QED
    BY <1>0, <2>1, <2>3, <2>4, <2>5, <2>6, <2>7 DEF HwmInv
<1>6. ASSUME NEW h \in Handlers, AckProducer(h) PROVE HwmInv' /\ hwm' >= hwm
  <2> DEFINE answered == {Msg(p) : p \in Waiting(h)}
  <2>1. /\ UNCHANGED << leader_log, follower_log, hwm, refused >>
        /\ pc[h] = "ack" /\ Answered(h) /\ acked' = acked \cup answered
        /\ pc' = [pc EXCEPT ![h] = "idle"]
    BY <1>6 DEF AckProducer
  <2>2. \A g \in Handlers : g = h
    BY DEF OneHandler
  <2>3. Settled'
    BY <2>1, SettleStep
  <2>4. \A m \in answered : m = msg[h]
    BY <2>1, AnswerFacts
  <2>5. AckedBelowHwm'
    <3> SUFFICES ASSUME NEW e \in Entries(leader_log), e.id \in acked'
                 PROVE  e.offset <= hwm
      BY <2>1 DEF AckedBelowHwm
    <3>1. CASE e.id \in acked
      BY <3>1 DEF HwmInv, AckedBelowHwm
    <3>2. CASE e.id = msg[h]
      BY <1>0, <1>e, <1>l, <2>1 DEF HwmInv, CarriesLast, HwmInLog
    <3> QED
      BY <2>1, <2>4, <3>1, <3>2
  <2>6. CarriesLast' /\ HwmInLog'
    BY <1>0, <2>1, <2>2 DEF HwmInv, CarriesLast, HwmInLog
  <2>7. LogSorted' /\ VisibleReplicatedOrRefused'
    BY <2>1 DEF HwmInv, LogSorted, VisibleReplicatedOrRefused, Entries, message_ids
  <2> QED
    BY <1>0, <2>1, <2>3, <2>5, <2>6, <2>7 DEF HwmInv
<1>7. ASSUME NEW h \in Handlers, ErrorToProducer(h) PROVE HwmInv' /\ hwm' >= hwm
  <2> DEFINE answered == {Msg(p) : p \in Waiting(h)}
  <2>1. /\ UNCHANGED << leader_log, follower_log, hwm, acked >>
        /\ pc[h] = "error" /\ Answered(h) /\ refused' = refused \cup answered
        /\ pc' = [pc EXCEPT ![h] = "idle"]
    BY <1>7 DEF ErrorToProducer
  <2>2. \A g \in Handlers : g = h
    BY DEF OneHandler
  <2>3. Settled'
    BY <2>1, SettleStep
  <2>4. CarriesLast' /\ HwmInLog'
    BY <1>0, <2>1, <2>2 DEF HwmInv, CarriesLast, HwmInLog
  <2>5. LogSorted' /\ AckedBelowHwm' /\ VisibleReplicatedOrRefused'
    BY <2>1 DEF HwmInv, LogSorted, AckedBelowHwm, VisibleReplicatedOrRefused, Entries,
       message_ids
  <2> QED
    BY <1>0, <2>1, <2>3, <2>4, <2>5 DEF HwmInv
<1>8. ASSUME NEW h \in Handlers,
             \/ CheckSocket(h) \/ OpenSocket(h) \/ OpenSocketFails(h) \/ Dial(h)
             \/ DialFails(h) \/ Connected(h) \/ ConnectFails(h) \/ SendReplicate(h)
             \/ SendFails(h) \/ AwaitAck(h) \/ AwaitFails(h) \/ ReceiveAck(h)
             \/ ReceiveNothing(h) \/ (SetHwmFails(h) /\ hwm' = hwm)
      PROVE  HwmInv' /\ hwm' >= hwm
  <2>1. /\ UNCHANGED << leader_log, follower_log, hwm, msg, offset, seq, acked, refused >>
        /\ pc[h] \notin {"idle", "append", "ack"}
        /\ \E l \in HandlerPC \ {"idle", "ack"} : pc' = [pc EXCEPT ![h] = l]
    BY <1>8 DEF CheckSocket, OpenSocket, OpenSocketFails, Dial, DialFails, Connected,
       ConnectFails, SendReplicate, SendFails, AwaitAck, AwaitFails, ReceiveAck,
       ReceiveNothing, SetHwmFails, HandlerPC
  <2> QED
    BY <1>0, <2>1, HwmQuietStep
<1>9. ASSUME NEW c \in Conns, Replicate(c) PROVE HwmInv' /\ hwm' >= hwm
  <2>1. /\ UNCHANGED << leader_log, hwm, pc, msg, offset, seq, acked, refused >>
        /\ inflight[c] \in Seq(Frame) /\ inflight[c] # << >>
        /\ follower_log' = AppendAt(follower_log, Head(inflight[c]).id, Head(inflight[c]).offset)
    BY <1>9 DEF Replicate, TypeInv, TypeOK
  <2>2. Entries(follower_log) \subseteq Entries(follower_log')
    BY <1>0, <2>1, FrameFacts, AppendAtKeeps DEF ReplicaInv, LogsWellFormed
  <2>3. VisibleReplicatedOrRefused'
    BY <2>1, <2>2 DEF HwmInv, VisibleReplicatedOrRefused, message_ids
  <2>4. LogSorted' /\ CarriesLast' /\ HwmInLog' /\ Settled' /\ AckedBelowHwm'
    BY <2>1 DEF HwmInv, LogSorted, CarriesLast, HwmInLog, Settled, AckedBelowHwm, Entries
  <2> QED
    BY <1>0, <2>1, <2>3, <2>4 DEF HwmInv
<1>10. ASSUME NEW c \in Conns, BreakConn(c) PROVE HwmInv' /\ hwm' >= hwm
  BY <1>0, <1>10, HwmQuietStep DEF BreakConn
<1>11. CASE UNCHANGED vars
  BY <1>0, <1>11, HwmQuietStep DEF vars
<1>12. ASSUME NEW h \in Handlers, SetHwmFails(h) PROVE hwm' = hwm \/ hwm' = offset[h]
  BY <1>12 DEF SetHwmFails
<1> QED
  BY <1>1, <1>2, <1>3, <1>4, <1>5, <1>6, <1>7, <1>8, <1>9, <1>10, <1>11, <1>12
     DEF Next, ProducerStep, HandlerStep, Finished

SoloInv == FullInv /\ OrderInv /\ HwmInv

LEMMA SoloInvariant ==
    ASSUME OneHandler, OneProducer
    PROVE  Spec => []SoloInv
<1>1. Init => SoloInv
  BY TypeInit, ReplicaInit, SerialInit, OrderInit, HwmInit DEF SoloInv, FullInv
<1>2. SoloInv /\ [Next]_vars => SoloInv'
  BY TypeStep, ReplicaStep, SerialStep, OrderStep, HwmStep DEF SoloInv, FullInv
<1> QED
  BY <1>1, <1>2, PTL DEF Spec

\* With one producer and no overlapping requests, an entry readers may see that the
\* follower lacks is one whose send_message has returned False.
THEOREM VisibleCorrect ==
    ASSUME OneHandler, OneProducer
    PROVE  Spec => []VisibleReplicatedOrRefused
<1>1. SoloInv => VisibleReplicatedOrRefused
  BY DEF SoloInv, HwmInv
<1> QED
  BY <1>1, SoloInvariant, PTL

\* With one producer and no overlapping requests, an acknowledged message stays at or
\* below the HWM, whatever is retried, lost or refused after it.
THEOREM AckedVisibleCorrect ==
    ASSUME OneHandler, OneProducer
    PROVE  Spec => []AckedVisible
<1>1. ASSUME SoloInv PROVE AckedVisible
  <2> SUFFICES ASSUME NEW m \in acked PROVE OffsetOf(leader_log, m) <= hwm
    BY DEF AckedVisible
  <2>1. leader_log \in LogType(MessageIds) /\ m \in message_ids(leader_log)
    BY <1>1 DEF SoloInv, FullInv, TypeInv, TypeOK, OrderInv, NumbersKnown
  <2>2. PICK e \in Entries(leader_log) : e.id = m /\ e.offset = OffsetOf(leader_log, m)
    BY <2>1, OffsetOfFacts
  <2> QED
    BY <1>1, <2>2 DEF SoloInv, HwmInv, AckedBelowHwm
<1> QED
  BY <1>1, SoloInvariant, PTL

\* With one producer and no overlapping requests, the HWM never goes back, although
\* set_hwm takes any offset and retried messages are stored at their old one.
THEOREM HwmForward ==
    ASSUME OneHandler, OneProducer
    PROVE  Spec => HwmMonotonic
<1>1. ASSUME SoloInv, [Next]_vars PROVE [hwm' >= hwm]_vars
  BY <1>1, HwmStep DEF SoloInv
<1> QED
  BY <1>1, SoloInvariant, PTL DEF Spec, HwmMonotonic
=============================================================================

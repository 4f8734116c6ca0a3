--------------------------- MODULE Consumer_proofs ---------------------------
(***************************************************************************)
(* Theorems of Consumer, for any number of rows, sends, messages per fetch *)
(* and disruptions; those on what is delivered are for one producer and a  *)
(* leader that was not restarted.                                          *)
(***************************************************************************)
EXTENDS Consumer, Failover_proofs

(***************************************************************************)
(* Type correctness.                                                       *)
(***************************************************************************)
Holding == activity \in {"process", "commit", "save"}

ConsumerTypeInv ==
    /\ ConsumerTypeOK
    /\ TypeInv
    /\ Holding => batch # << >>
    /\ fetch # NoFetch => Fetching

LEMMA ConsumerTypes ==
    ASSUME ConsumerTypeOK
    PROVE  /\ position \in Nat \cup {-1} /\ committed \in Nat \cup {-1}
           /\ original \in Nat \cup {-1}
           /\ activity \in Activity
           /\ fetch.by \in Brokers \cup {NoBroker} /\ fetch.hwm \in Nat \cup {-1}
           /\ fetch \in [by : Brokers \cup {NoBroker}, hwm : Nat \cup {-1}]
           /\ batch \in Seq(LogEntry(MessageIds))
           /\ processed \subseteq MessageIds /\ missing \subseteq MessageIds
           /\ iterations \in 0..(MaxIterations - 1)
           /\ disruptions \in 0..MaxDisruptions
           /\ leader_log \in LogType(MessageIds) /\ follower_log \in LogType(MessageIds)
           /\ hwm \in Nat \cup {-1}
           /\ acked \subseteq LogEntry(MessageIds)
BY DEF ConsumerTypeOK, TypeOK

\* Where the served messages are in the list.
Served == {i \in Lookup(fetch.by, position + 1) :
              LogOf(fetch.by).log[i].offset <= fetch.hwm}

LEMMA LookupFacts ==
    ASSUME ConsumerTypeOK
    PROVE  /\ LogOf(fetch.by) \in LogType(MessageIds)
           /\ position + 1 \in Nat
           /\ Served \subseteq DOMAIN LogOf(fetch.by).log
<1>1. position + 1 \in Nat
  BY ConsumerTypes
<1>2. leader_log \in LogType(MessageIds) /\ follower_log \in LogType(MessageIds)
  BY ConsumerTypes
<1>3. FetchMax \in Nat \ {0}
  BY ConsumerAssumption
<1>4. Lookup(fetch.by, position + 1) \subseteq DOMAIN LogOf(fetch.by).log
  <2>1. CASE fetch.by = Leader
    BY <1>1, <1>2, <1>3, <2>1, GetByPositionFacts DEF Lookup, LogOf
  <2>2. CASE fetch.by # Leader
    BY <1>1, <1>2, <1>3, <2>2, GetByOffsetFacts DEF Lookup, LogOf, From
  <2> QED
    BY <2>1, <2>2
<1> QED
  BY <1>1, <1>2, <1>4 DEF LogOf, Served

\* The served messages: well typed, and in list order.
LEMMA ServedFacts ==
    ASSUME ConsumerTypeOK
    PROVE  /\ filtered_messages \in Seq(LogEntry(MessageIds))
           /\ \E p \in [DOMAIN filtered_messages -> Served] :
                  /\ \A j \in DOMAIN filtered_messages :
                         filtered_messages[j] = LogOf(fetch.by).log[p[j]]
                  /\ \A i \in Served : \E j \in DOMAIN filtered_messages : p[j] = i
                  /\ \A j, k \in DOMAIN filtered_messages : j < k => p[j] < p[k]
<1>1. filtered_messages = Messages(LogOf(fetch.by), Served)
  BY DEF filtered_messages, Served
<1>2. LogOf(fetch.by) \in LogType(MessageIds) /\ Served \in SUBSET DOMAIN LogOf(fetch.by).log
  BY LookupFacts
<1> QED
  BY <1>1, <1>2, MessagesFacts

LEMMA ConsumerTypeInit == ConsumerInit => ConsumerTypeInv
<1> SUFFICES ASSUME ConsumerInit PROVE ConsumerTypeInv
  OBVIOUS
<1>1. TypeInv /\ TypeOK
  BY TypeInit DEF ConsumerInit, TypeInv
<1>2. << >> \in Seq(LogEntry(MessageIds))
  OBVIOUS
<1>3. NoFetch \in [by : Brokers \cup {NoBroker}, hwm : Nat \cup {-1}]
  BY DEF NoFetch
<1> QED
  BY <1>1, <1>2, <1>3, ConsumerAssumption
     DEF ConsumerInit, ConsumerTypeInv, ConsumerTypeOK, Activity, Holding, Fetching

\* The ids and the last of a sequence of messages.
LEMMA BatchFacts ==
    ASSUME NEW messages \in Seq(LogEntry(MessageIds))
    PROVE  /\ Ids(messages) \subseteq MessageIds
           /\ messages # << >> =>
                /\ Len(messages) \in DOMAIN messages
                /\ Last(messages) = messages[Len(messages)]
                /\ Last(messages) \in LogEntry(MessageIds)
                /\ Last(messages).offset \in Nat
                /\ Last(messages).id \in Ids(messages)
                /\ << Last(messages) >> \in Seq(LogEntry(MessageIds))
                /\ 1 \in DOMAIN messages
                /\ Head(messages) = messages[1]
                /\ Head(messages).id \in MessageIds
                /\ Head(messages).offset \in Nat
                /\ Tail(messages) \in Seq(LogEntry(MessageIds))
           /\ \A i \in DOMAIN messages :
                  messages[i] \in LogEntry(MessageIds) /\ messages[i].offset \in Nat
<1>1. \A i \in DOMAIN messages :
          messages[i] \in LogEntry(MessageIds) /\ messages[i].offset \in Nat
              /\ messages[i].id \in MessageIds
  <2>1. \A i \in DOMAIN messages : messages[i] \in LogEntry(MessageIds)
    OBVIOUS
  <2> QED
    BY <2>1, EntryType
<1>2. Ids(messages) \subseteq MessageIds
  BY <1>1 DEF Ids
<1>3. ASSUME messages # << >>
      PROVE  /\ Len(messages) \in DOMAIN messages
             /\ 1 \in DOMAIN messages
             /\ Head(messages) = messages[1]
             /\ Tail(messages) \in Seq(LogEntry(MessageIds))
  BY <1>3
<1>4. ASSUME messages # << >>
      PROVE  Last(messages).id \in Ids(messages)
  BY <1>3, <1>4 DEF Last, Ids
<1> QED
  BY <1>1, <1>2, <1>3, <1>4 DEF Last

\* Receiving well typed messages.
LEMMA ReceivedType ==
    ASSUME ConsumerTypeInv, NEW messages \in Seq(LogEntry(MessageIds)), NEW answered,
           Received(messages, answered), UNCHANGED vars
    PROVE  ConsumerTypeInv'
<1>1. TypeInv' /\ TypeOK'
  BY TypeStep DEF ConsumerTypeInv, TypeInv
<1>2. NoFetch \in [by : Brokers \cup {NoBroker}, hwm : Nat \cup {-1}]
  BY DEF NoFetch
<1>3. fetch' = NoFetch /\ disruptions' = disruptions
  BY DEF Received
<1> USE DEF ConsumerTypeInv, ConsumerTypeOK, Activity, Holding, Fetching, offsetVars, allVars
<1>4. CASE Polled(messages)
  BY <1>1, <1>2, <1>3, <1>4 DEF Polled
<1>5. CASE Printed(messages)
  BY <1>1, <1>2, <1>3, <1>5, BatchFacts DEF Printed
<1>6. CASE Collected(messages, answered)
  <2>1. CASE messages = << >> \/ iterations + 1 = MaxIterations
    BY <1>1, <1>2, <1>3, <1>6, <2>1, ConsumerAssumption DEF Collected
  <2>2. CASE ~ (messages = << >> \/ iterations + 1 = MaxIterations)
    BY <1>1, <1>2, <1>3, <1>6, <2>2, BatchFacts, ConsumerAssumption DEF Collected
  <2> QED
    BY <2>1, <2>2
<1> QED
  BY <1>4, <1>5, <1>6 DEF Received

LEMMA ConsumerTypeStep ==
    ConsumerTypeInv /\ [ConsumerNext]_<< vars, consumerVars >> => ConsumerTypeInv'
<1> SUFFICES ASSUME ConsumerTypeInv, [ConsumerNext]_<< vars, consumerVars >>
             PROVE  ConsumerTypeInv'
  OBVIOUS
<1>0. TypeInv' /\ TypeOK'
  <2>1. [Next]_vars
    BY DEF ConsumerNext
  <2> QED
    BY <2>1, TypeStep DEF ConsumerTypeInv, TypeInv
<1>1. CASE UNCHANGED consumerVars
  BY <1>0, <1>1 DEF ConsumerTypeInv, ConsumerTypeOK, Holding, Fetching, consumerVars, offsetVars, allVars
<1>2. NoFetch \in [by : Brokers \cup {NoBroker}, hwm : Nat \cup {-1}]
  BY DEF NoFetch
<1>3. ASSUME ConsumerStep, UNCHANGED vars PROVE ConsumerTypeInv'
  <2> USE <1>0, <1>2, ConsumerAssumption
      DEF ConsumerTypeInv, ConsumerTypeOK, Activity, Holding, Fetching, offsetVars, allVars
  <2>1. CASE StartConsumer
    BY <2>1 DEF StartConsumer
  <2>2. CASE StartConsuming
    BY <2>2 DEF StartConsuming
  <2>3. CASE FetchCommand
    BY <2>3 DEF FetchCommand
  <2>4. CASE GetAllMessages
    <3>1. AckedIds \subseteq MessageIds
      BY EntryType DEF AckedIds, TypeInv, TypeOK
    <3> QED
      BY <2>4, <3>1 DEF GetAllMessages
  <2>5. CASE Reset
    BY <2>5 DEF Reset
  <2>6. CASE Interrupt
    BY <2>6 DEF Interrupt
  <2>7. CASE FetchBegins
    <3>1. PICK b : b \in Reachable /\ fetch' = [by |-> b, hwm |-> hwm]
      BY <2>7 DEF FetchBegins
    <3>2. b \in Brokers \cup {NoBroker} /\ hwm \in Nat \cup {-1}
      BY <3>1 DEF Reachable, TypeInv, TypeOK
    <3>3. fetch' \in [by : Brokers \cup {NoBroker}, hwm : Nat \cup {-1}]
      BY <3>1, <3>2
    <3> QED
      BY <2>7, <3>3 DEF FetchBegins
  <2>8. CASE FetchLost
    BY <2>8 DEF FetchLost
  <2>9. CASE FetchAnswered
    <3>1. Received(filtered_messages, TRUE)
      BY <2>9 DEF FetchAnswered
    <3>2. filtered_messages \in Seq(LogEntry(MessageIds))
      BY ServedFacts
    <3> QED
      BY <1>3, <3>1, <3>2, ReceivedType
  <2>10. CASE FetchFails
    <3>1. Received(<< >>, FALSE)
      BY <2>10 DEF FetchFails
    <3>2. << >> \in Seq(LogEntry(MessageIds))
      OBVIOUS
    <3> QED
      BY <1>3, <3>1, <3>2, ReceivedType
  <2>11. CASE ProcessMessage
    <3>1. Head(batch).id \in MessageIds
      BY <2>11, BatchFacts DEF ProcessMessage
    <3> QED
      BY <2>11, <3>1 DEF ProcessMessage
  <2>12. CASE CommitOffset
    <3>1. Head(batch).offset \in Nat /\ Tail(batch) \in Seq(LogEntry(MessageIds))
      BY <2>12, BatchFacts DEF CommitOffset
    <3> QED
      BY <2>12, <3>1 DEF CommitOffset, NextMessage
  <2>13. CASE CommitFails
    <3>1. Head(batch).offset \in Nat /\ Tail(batch) \in Seq(LogEntry(MessageIds))
      BY <2>13, BatchFacts DEF CommitFails
    <3> QED
      BY <2>13, <3>1 DEF CommitFails, NextMessage
  <2> QED
    BY <1>3, <2>1, <2>2, <2>3, <2>4, <2>5, <2>6, <2>7, <2>8, <2>9, <2>10, <2>11, <2>12, <2>13
       DEF ConsumerStep
<1> QED
  BY <1>1, <1>3 DEF ConsumerNext

\* Type correctness of the consumer and of the brokers it reads from.
THEOREM ConsumerTypeCorrect == ConsumerSpec => []ConsumerTypeOK
<1>1. ConsumerSpec => []ConsumerTypeInv
  BY ConsumerTypeInit, ConsumerTypeStep, PTL DEF ConsumerSpec
<1>2. ConsumerTypeInv => ConsumerTypeOK
  BY DEF ConsumerTypeInv
<1> QED
  BY <1>1, <1>2, PTL

-----------------------------------------------------------------------------
(***************************************************************************)
(* What the brokers keep for a consumer, with one producer and a leader    *)
(* that was not restarted.  The entries that matter to it are good: they   *)
(* are acknowledged, or of the row that is being sent, which may become    *)
(* so.  The rest, rows given up, may be stored late and out of order.      *)
(***************************************************************************)
SingleTerm == OneProducer /\ starts <= 1

Stored == Entries(follower_log)
              \cup IF leader = Leader THEN Entries(leader_log) ELSE {}

Current(id) == id[2] = seq[id[1]]

Good(e) == e \in acked \/ Current(e.id)

\* The handler's row is the latest there is.
HandlerTop == pc # "idle" => \A e \in Copies : e.id[2] <= msg[2]

\* The follower is not ahead of the leader, and the HWM not of the follower.
NextOffsets ==
    /\ leader = Leader => follower_log.next_offset <= leader_log.next_offset
    /\ starts = 0 /\ leader # Follower => follower_log.next_offset = 0
    /\ hwm < follower_log.next_offset

\* Until the follower has the current row, wherever a copy of it is: it is above all
\* the follower has or is still to receive.
CurrentAbove ==
    \A c \in Copies : Current(c.id) /\ c.id \notin message_ids(follower_log) =>
        /\ follower_log.next_offset <= c.offset
        /\ \A f \in inflight : f.id = c.id \/ f.offset < c.offset

\* In the follower's list, what comes before a good entry is below it.
FollowerOrder ==
    \A i, j \in DOMAIN follower_log.log :
        i < j /\ Good(follower_log.log[j]) =>
            follower_log.log[i].offset < follower_log.log[j].offset

BrokerInv ==
    SingleTerm => HandlerTop /\ NextOffsets /\ CurrentAbove /\ FollowerOrder

FailoverInv == TypeInv /\ LogInv /\ OffsetInv /\ OrderInv /\ ReadInv

LEMMA FailoverInit == Init => FailoverInv
BY TypeInit, LogInit, OffsetInit, OrderInit, ReadInit DEF FailoverInv

LEMMA FailoverStep == FailoverInv /\ [Next]_vars => FailoverInv'
BY TypeStep, LogStep, OffsetStep, OrderStep, ReadStep DEF FailoverInv

LEMMA BrokerInit == Init => BrokerInv
<1> SUFFICES ASSUME Init PROVE BrokerInv
  OBVIOUS
<1>1. /\ leader = NoBroker /\ pc = "idle" /\ inflight = {} /\ hwm = -1
      /\ follower_log = EmptyLog
  BY DEF Init, Fresh, Roles!Init
<1>2. leader # Leader
  BY <1>1, FailoverAssumption DEF Brokers
<1>3. /\ Entries(follower_log) = {} /\ follower_log.next_offset = 0
      /\ DOMAIN follower_log.log = {}
  BY <1>1, EmptyLogFacts DEF EmptyLog
<1> QED
  BY <1>1, <1>2, <1>3
     DEF BrokerInv, HandlerTop, NextOffsets, CurrentAbove, FollowerOrder, Copies

LEMMA FailoverTypes ==
    ASSUME FailoverInv
    PROVE  /\ starts \in Nat /\ hwm \in Int /\ offset \in Nat
           /\ leader_log \in LogType(MessageIds) /\ follower_log \in LogType(MessageIds)
           /\ leader_log.next_offset \in Nat /\ follower_log.next_offset \in Nat
           /\ inflight \subseteq LogEntry(MessageIds)
           /\ acked \subseteq LogEntry(MessageIds)
           /\ Copies \subseteq LogEntry(MessageIds)
           /\ pc # "idle" => msg \in MessageIds
<1>1. /\ starts \in Nat /\ hwm \in Int /\ offset \in Nat
      /\ leader_log \in LogType(MessageIds) /\ follower_log \in LogType(MessageIds)
      /\ inflight \subseteq LogEntry(MessageIds)
      /\ acked \subseteq LogEntry(MessageIds)
      /\ pc # "idle" => msg \in MessageIds
  BY DEF FailoverInv, TypeInv, TypeOK, Serving
<1>2. leader_log.next_offset \in Nat /\ follower_log.next_offset \in Nat
  BY <1>1, LogFields
<1>3. /\ Entries(leader_log) \subseteq LogEntry(MessageIds)
      /\ Entries(follower_log) \subseteq LogEntry(MessageIds)
  BY <1>1, LogFields
<1> QED
  BY <1>1, <1>2, <1>3 DEF Copies

\* The leader was not restarted before the step either.
LEMMA TermBefore ==
    ASSUME FailoverInv, [Next]_vars, SingleTerm'
    PROVE  SingleTerm /\ OneProducer /\ starts <= 1 /\ starts' <= 1
<1>1. starts' = starts \/ starts' = starts + 1
  BY DEF Next, HandlerStep, vars, roleVars, StartLeader, LeaderEnds, LeaseLapses, Promote,
         Produce, ResendLater, GiveUp, LeaderAppends, SendReplicate, ReplicateAcked,
         ReplicateFails, FollowerAppends, SetHwm, SetHwmFails, Answer, Replicate
<1> QED
  BY <1>1, FailoverTypes DEF SingleTerm

\* No row but the latest can become current, and only it acknowledged.
LEMMA GoodStep ==
    ASSUME FailoverInv, [Next]_vars
    PROVE  /\ \A e \in Copies : /\ Current(e.id)' => Current(e.id)
                                /\ Good(e)' => Good(e)
           /\ UNCHANGED << seq, acked >> \/ UNCHANGED << leader, logVars >>
<1>1. \A p \in Producers : seq[p] \in Nat /\ seq'[p] \in Nat /\ seq[p] <= seq'[p]
  BY SeqGrows DEF FailoverInv
<1>2. \A e \in Copies : /\ e.id[1] \in Producers /\ e.id[2] \in Nat
                        /\ e.id[2] <= seq[e.id[1]]
  <2>1. \A e \in Copies : e.id[1] \in Producers /\ e.id[2] \in Nat
    BY FailoverTypes, EntryType
  <2> QED
    BY <2>1 DEF FailoverInv, OrderInv, RowsKnown, Copies
<1>3. \A e \in Copies : Current(e.id)' => Current(e.id)
  BY <1>1, <1>2 DEF Current
<1>4. \A e \in acked' : e \in acked \/ Current(e.id)
  <2>1. CASE Answer
    <3>1. \A e \in acked' : e \in acked \/ (e = NewEntry(offset, msg) /\ msg[2] = seq[msg[1]])
      BY <2>1, AnswerFacts DEF FailoverInv
    <3> QED
      BY <3>1 DEF NewEntry, Current
  <2>2. Answer \/ acked' = acked
    BY DEF Next, HandlerStep, vars, clientVars, StartLeader, LeaderEnds, LeaseLapses, Promote,
           Produce, ResendLater, GiveUp, LeaderAppends, SendReplicate, ReplicateAcked,
           ReplicateFails, FollowerAppends, SetHwm, SetHwmFails, Replicate
  <2> QED
    BY <2>1, <2>2
<1>5. UNCHANGED << seq, acked >> \/ UNCHANGED << leader, logVars >>
  BY DEF Next, HandlerStep, vars, roleVars, clientVars, StartLeader, LeaderEnds, LeaseLapses,
         Promote, Produce, ResendLater, GiveUp, LeaderAppends, SendReplicate, ReplicateAcked,
         ReplicateFails, FollowerAppends, SetHwm, SetHwmFails, Replicate, Answer
<1> QED
  BY <1>3, <1>4, <1>5 DEF Good

\* The follower's log with one more entry.
Grown(e) ==
    /\ e \in LogEntry(MessageIds)
    /\ e.id \notin message_ids(follower_log)
    /\ follower_log'.log = Append(follower_log.log, e)
    /\ Entries(follower_log') = Entries(follower_log) \cup {e}
    /\ follower_log'.next_offset =
           IF e.offset >= follower_log.next_offset THEN e.offset + 1
                                                   ELSE follower_log.next_offset

LEMMA FollowerGrows ==
    ASSUME FailoverInv, [Next]_vars
    PROVE  \/ UNCHANGED follower_log
           \/ FollowerAppends /\ Grown(NewEntry(follower_log.next_offset, msg))
           \/ \E f \in inflight : Replicate(f) /\ Grown(f)
<1>0. /\ follower_log \in LogType(MessageIds) /\ follower_log.next_offset \in Nat
      /\ inflight \subseteq LogEntry(MessageIds)
      /\ pc # "idle" => msg \in MessageIds
  BY FailoverTypes
<1>1. ASSUME FollowerAppends
      PROVE  UNCHANGED follower_log \/ Grown(NewEntry(follower_log.next_offset, msg))
  <2>1. follower_log' = AppendNext(follower_log, msg) /\ msg \in MessageIds
    BY <1>0, <1>1 DEF FollowerAppends
  <2>2. CASE msg \in message_ids(follower_log)
    BY <1>0, <2>1, <2>2, AppendNextFacts
  <2>3. CASE msg \notin message_ids(follower_log)
    <3> DEFINE e == NewEntry(follower_log.next_offset, msg)
    <3>1. e \in LogEntry(MessageIds) /\ e.id = msg /\ e.offset = follower_log.next_offset
      BY <1>0, <2>1, NewEntryFacts
    <3>2. /\ Entries(follower_log') = Entries(follower_log) \cup {e}
          /\ follower_log'.next_offset = follower_log.next_offset + 1
          /\ follower_log'.log = Append(follower_log.log, e)
      BY <1>0, <2>1, <2>3, AppendNextFacts
    <3> HIDE DEF e
    <3>3. Grown(e)
      BY <1>0, <2>3, <3>1, <3>2 DEF Grown
    <3> QED
      BY <3>3 DEF e
  <2> QED
    BY <2>2, <2>3
<1>2. ASSUME NEW f \in inflight, Replicate(f)
      PROVE  UNCHANGED follower_log \/ Grown(f)
  <2>1. /\ follower_log' = AppendAt(follower_log, f.id, f.offset)
        /\ f \in LogEntry(MessageIds) /\ f.id \in MessageIds /\ f.offset \in Nat
        /\ f = NewEntry(f.offset, f.id)
    BY <1>0, <1>2 DEF Replicate, LogEntry, NewEntry
  <2>2. CASE f.id \in message_ids(follower_log)
    BY <1>0, <2>1, <2>2, AppendAtFacts
  <2>3. CASE f.id \notin message_ids(follower_log)
    <3>1. Entries(follower_log') = Entries(follower_log) \cup {f}
      BY <1>0, <2>1, <2>3, AppendAtFacts
    <3>2. /\ follower_log'.log = Append(follower_log.log, f)
          /\ follower_log'.next_offset =
                 IF f.offset >= follower_log.next_offset THEN f.offset + 1
                                                         ELSE follower_log.next_offset
      BY <1>0, <2>1, <2>3, AppendAtNext
    <3> QED
      BY <2>1, <2>3, <3>1, <3>2 DEF Grown
  <2> QED
    BY <2>2, <2>3
<1>3. FollowerAppends \/ (\E f \in inflight : Replicate(f)) \/ UNCHANGED follower_log
  BY DEF Next, HandlerStep, vars, logVars, StartLeader, LeaderEnds, LeaseLapses, Promote,
         Produce, ResendLater, GiveUp, LeaderAppends, SendReplicate, ReplicateAcked,
         ReplicateFails, SetHwm, SetHwmFails, Answer
<1> QED
  BY <1>1, <1>2, <1>3

\* The leader's log: it gets the handler's message on top, or is another process's.
LEMMA LeaderGrows ==
    ASSUME FailoverInv, [Next]_vars
    PROVE  \/ UNCHANGED leader_log
           \/ leader_log' = EmptyLog /\ (StartLeader \/ LeaderEnds)
           \/ /\ LeaderAppends
              /\ Entries(leader_log')
                   = Entries(leader_log) \cup {NewEntry(leader_log.next_offset, msg)}
              /\ leader_log'.next_offset = leader_log.next_offset + 1
<1>1. ASSUME LeaderAppends
      PROVE  \/ UNCHANGED leader_log
             \/ /\ Entries(leader_log')
                     = Entries(leader_log) \cup {NewEntry(leader_log.next_offset, msg)}
                /\ leader_log'.next_offset = leader_log.next_offset + 1
  <2>1. /\ leader_log' = AppendNext(leader_log, msg)
        /\ msg \in MessageIds /\ leader_log \in LogType(MessageIds)
    BY <1>1, FailoverTypes DEF LeaderAppends
  <2> QED
    BY <2>1, AppendNextFacts
<1>2. \/ LeaderAppends \/ UNCHANGED leader_log
      \/ leader_log' = EmptyLog /\ (StartLeader \/ LeaderEnds)
  BY DEF Next, HandlerStep, vars, logVars, StartLeader, LeaderEnds, LeaseLapses, Promote,
         Produce, ResendLater, GiveUp, SendReplicate, ReplicateAcked, FollowerAppends,
         ReplicateFails, SetHwm, SetHwmFails, Answer, Replicate
<1> QED
  BY <1>1, <1>2

\* A copy made by the step is of the handler's message, above what the follower has.
LEMMA CopyNew ==
    ASSUME FailoverInv, starts <= 1, NextOffsets, [Next]_vars,
           NEW c \in Copies', c \notin Copies
    PROVE  /\ pc = "append" /\ c.id = msg
           /\ follower_log.next_offset <= c.offset
           /\ UNCHANGED inflight
           /\ \/ /\ UNCHANGED follower_log
                 /\ \A f \in inflight : f.offset < c.offset
              \/ msg \in message_ids(follower_log')
           /\ c \in Stored'
<1> USE FailoverAssumption DEF Brokers
<1>1. CASE StartLeader
  <2>1. Entries(leader_log') = {} /\ UNCHANGED << follower_log, inflight >>
    BY <1>1, EmptyLogFacts DEF StartLeader
  <2> QED
    BY <2>1 DEF Copies
<1>2. CASE LeaderEnds
  <2>1. leader' # Leader /\ UNCHANGED << follower_log, inflight >>
    BY <1>2 DEF LeaderEnds, Roles!Cease
  <2> QED
    BY <2>1 DEF Copies
<1>3. CASE Promote
  BY <1>3 DEF Promote, Roles!Elect, logVars, Copies
<1>4. CASE UNCHANGED << leader, leader_log, follower_log, inflight >>
  BY <1>4 DEF Copies
<1>5. CASE LeaderAppends
  <2>1. /\ leader = Leader /\ pc = "append"
        /\ UNCHANGED << leader, follower_log, inflight >>
    BY <1>5 DEF LeaderAppends, roleVars
  <2> DEFINE e == NewEntry(leader_log.next_offset, msg)
  <2>2. Entries(leader_log') \subseteq Entries(leader_log) \cup {e}
    BY <1>5, LeaderGrows DEF LeaderAppends, StartLeader, LeaderEnds, Roles!Elect
  <2>3. e.id = msg /\ e.offset = leader_log.next_offset
    BY DEF NewEntry
  <2> HIDE DEF e
  <2>4. c = e /\ c \in Entries(leader_log')
    BY <2>1, <2>2 DEF Copies
  <2>5. \A f \in inflight : f.offset < leader_log.next_offset
    <3>1. leader_log \in LogType(MessageIds) /\ Positional(leader_log)
      BY FailoverTypes DEF FailoverInv, LogInv
    <3>2. \A f \in Entries(leader_log) : f.offset < leader_log.next_offset
      <4>1. leader_log.log \in Seq(LogEntry(MessageIds))
        BY <3>1, LogFields
      <4> QED
        BY <3>1, <4>1 DEF Positional, Entries
    <3>3. inflight \subseteq Entries(leader_log)
      BY <2>1 DEF FailoverInv, OffsetInv, LeaderHas
    <3> QED
      BY <3>2, <3>3
  <2>6. follower_log.next_offset <= leader_log.next_offset
    BY <2>1 DEF NextOffsets
  <2> QED
    BY <2>1, <2>3, <2>4, <2>5, <2>6 DEF Stored
<1>6. CASE SendReplicate
  <2>1. /\ pc = "replicate" /\ inflight' = inflight \cup {NewEntry(offset, msg)}
        /\ UNCHANGED << leader, leader_log, follower_log >>
    BY <1>6 DEF SendReplicate, roleVars
  <2>2. leader = Leader /\ NewEntry(offset, msg) \in Entries(leader_log)
    BY <2>1 DEF FailoverInv, OffsetInv, Handling, LeaderHas
  <2> QED
    BY <2>1, <2>2 DEF Copies
<1>7. CASE FollowerAppends
  <2>1. /\ pc = "append" /\ UNCHANGED << leader, leader_log, inflight >>
        /\ ~UNCHANGED follower_log
    BY <1>7 DEF FollowerAppends, roleVars, Copies
  <2> DEFINE e == NewEntry(follower_log.next_offset, msg)
  <2>2. e.id = msg /\ e.offset = follower_log.next_offset
    BY DEF NewEntry
  <2>3. Grown(e)
    BY <1>7, <2>1, FollowerGrows DEF FollowerAppends, Replicate, handlerVars
  <2> HIDE DEF e
  <2>4. c = e /\ c \in Entries(follower_log')
    BY <2>1, <2>3 DEF Copies, Grown
  <2>5. follower_log.next_offset <= follower_log.next_offset
    BY FailoverTypes
  <2> QED
    BY <2>1, <2>2, <2>4, <2>5 DEF Stored, message_ids
<1>8. ASSUME NEW f \in inflight, Replicate(f) PROVE FALSE
  <2>1. inflight' \subseteq inflight /\ UNCHANGED << leader, leader_log >>
    BY <1>8 DEF Replicate, roleVars
  <2>2. Entries(follower_log') \subseteq Entries(follower_log) \cup {f}
    <3>1. /\ follower_log \in LogType(MessageIds)
          /\ f.id \in MessageIds /\ f.offset \in Nat /\ f = NewEntry(f.offset, f.id)
      BY FailoverTypes DEF LogEntry, NewEntry
    <3> QED
      BY <1>8, <3>1, AppendAtFacts DEF Replicate
  <2> QED
    BY <2>1, <2>2 DEF Copies
<1>9. \/ StartLeader \/ LeaderEnds \/ Promote \/ LeaderAppends \/ SendReplicate
      \/ FollowerAppends \/ (\E frame \in inflight : Replicate(frame))
      \/ UNCHANGED << leader, leader_log, follower_log, inflight >>
  BY DEF Next, HandlerStep, vars, roleVars, logVars, LeaseLapses, Roles!Lapse, Answer,
         Produce, ResendLater, GiveUp, ReplicateAcked, ReplicateFails, SetHwm, SetHwmFails
<1> QED
  BY <1>1, <1>2, <1>3, <1>4, <1>5, <1>6, <1>7, <1>8, <1>9

LEMMA HandlerTopStep ==
    ASSUME FailoverInv, SingleTerm, BrokerInv, [Next]_vars
    PROVE  HandlerTop'
<1>0. /\ Copies \subseteq LogEntry(MessageIds) /\ NextOffsets /\ HandlerTop
      /\ OneProducer /\ starts <= 1
      /\ pc # "idle" => msg \in MessageIds
  BY FailoverTypes DEF BrokerInv, SingleTerm
<1>1. CASE pc' = "idle"
  BY <1>1 DEF HandlerTop
<1>2. CASE pc # "idle" /\ msg' = msg
  <2>1. msg \in MessageIds /\ msg[2] \in Nat
    BY <1>0, <1>2, IdType
  <2>2. \A e \in Copies' : e \in Copies \/ e.id = msg
    BY <1>0, CopyNew
  <2> QED
    BY <1>0, <1>2, <2>1, <2>2 DEF HandlerTop
<1>3. ASSUME NEW p \in Producers, Produce(p) PROVE HandlerTop'
  <2>1. msg' = << p, seq[p] >> /\ Copies' = Copies
    BY <1>3 DEF Produce, Msg, Copies, roleVars, logVars
  <2>2. \A e \in Copies : e.id[1] = p /\ e.id[2] <= seq[e.id[1]]
    <3>1. \A e \in Copies : e.id[1] \in Producers
      BY <1>0, EntryType
    <3> QED
      BY <1>0, <3>1 DEF OneProducer, FailoverInv, OrderInv, RowsKnown, Copies
  <2> QED
    BY <2>1, <2>2 DEF HandlerTop
<1>4. \/ \E p \in Producers : Produce(p)
      \/ pc' = "idle"
      \/ pc # "idle" /\ msg' = msg
  BY DEF Next, HandlerStep, vars, handlerVars, StartLeader, LeaderEnds, LeaseLapses, Promote,
         ResendLater, GiveUp, LeaderAppends, SendReplicate, ReplicateAcked, ReplicateFails,
         FollowerAppends, SetHwm, SetHwmFails, Answer, Replicate
<1> QED
  BY <1>1, <1>2, <1>3, <1>4

\* The follower's entries and next free offset only grow.
LEMMA FollowerUp ==
    ASSUME FailoverInv, [Next]_vars
    PROVE  /\ follower_log.next_offset <= follower_log'.next_offset
           /\ follower_log'.next_offset \in Nat
           /\ Entries(follower_log) \subseteq Entries(follower_log')
           /\ message_ids(follower_log) \subseteq message_ids(follower_log')
           /\ \A e \in Entries(follower_log') : e.offset < follower_log'.next_offset
<1>1. follower_log.next_offset \in Nat /\ follower_log'.next_offset \in Nat
  <2>1. FailoverInv'
    BY FailoverStep
  <2> QED
    BY <2>1, FailoverTypes DEF FailoverInv, TypeInv, TypeOK, LogType
<1>2. /\ Entries(follower_log) \subseteq Entries(follower_log')
      /\ BelowNext(follower_log')
  BY FollowerLogSteps DEF FailoverInv
<1>3. UNCHANGED follower_log \/ \E e \in LogEntry(MessageIds) : Grown(e)
  BY FollowerGrows DEF Grown
<1>4. follower_log.next_offset <= follower_log'.next_offset
  BY <1>1, <1>3, EntryType DEF Grown
<1> QED
  BY <1>1, <1>2, <1>4 DEF BelowNext, message_ids

LEMMA NextOffsetsStep ==
    ASSUME FailoverInv, SingleTerm, SingleTerm', BrokerInv, [Next]_vars
    PROVE  NextOffsets'
<1> USE FailoverAssumption DEF Brokers
<1>0. /\ NextOffsets /\ starts <= 1 /\ starts' <= 1
      /\ starts \in Nat /\ hwm \in Int /\ offset \in Nat
      /\ leader_log.next_offset \in Nat /\ follower_log.next_offset \in Nat
      /\ inflight \subseteq LogEntry(MessageIds)
  BY FailoverTypes DEF BrokerInv, SingleTerm
<1>1. ASSUME leader' = Leader
      PROVE  follower_log'.next_offset <= leader_log'.next_offset
  <2>1. CASE StartLeader
    <3>1. /\ leader = NoBroker /\ starts' = starts + 1 /\ leader_log' = EmptyLog
          /\ UNCHANGED follower_log
      BY <2>1 DEF StartLeader, Roles!Elect
    <3>2. follower_log.next_offset = 0
      BY <1>0, <3>1 DEF NextOffsets
    <3> QED
      BY <3>1, <3>2 DEF EmptyLog
  <2>2. CASE ~StartLeader
    <3>1. leader = Leader /\ ~LeaderEnds
      BY <1>1, <2>2
         DEF Next, HandlerStep, vars, roleVars, LeaderEnds, Roles!Cease, LeaseLapses,
             Roles!Lapse, Promote, Roles!Elect, Produce, ResendLater, GiveUp, LeaderAppends,
             SendReplicate, ReplicateAcked, ReplicateFails, FollowerAppends, SetHwm,
             SetHwmFails, Answer, Replicate
    <3>2. follower_log.next_offset <= leader_log.next_offset
      BY <1>0, <3>1 DEF NextOffsets
    <3>3. leader_log.next_offset <= leader_log'.next_offset
      BY <1>0, <2>2, <3>1, LeaderGrows
    <3>4. \A f \in inflight : f.offset < leader_log.next_offset
      <4>1. leader_log \in LogType(MessageIds) /\ Positional(leader_log)
        BY FailoverTypes DEF FailoverInv, LogInv
      <4>2. leader_log.log \in Seq(LogEntry(MessageIds))
        BY <4>1, LogFields
      <4>3. inflight \subseteq Entries(leader_log)
        BY <1>0, <3>1 DEF FailoverInv, OffsetInv, LeaderHas
      <4> QED
        BY <4>1, <4>2, <4>3 DEF Positional, Entries
    <3>5. leader_log'.next_offset \in Nat
      <4>1. FailoverInv'
        BY FailoverStep
      <4> QED
        BY <4>1, FailoverTypes DEF FailoverInv, TypeInv, TypeOK, LogType
    <3>6. CASE UNCHANGED follower_log
      BY <1>0, <3>2, <3>3, <3>5, <3>6
    <3>7. ASSUME NEW f \in inflight, Grown(f)
          PROVE  follower_log'.next_offset <= leader_log'.next_offset
      <4>1. f.offset \in Nat
        BY <1>0, EntryType
      <4> QED
        BY <1>0, <3>2, <3>3, <3>4, <3>5, <3>7, <4>1 DEF Grown
    <3> QED
      BY <3>1, <3>6, <3>7, FollowerGrows DEF FollowerAppends
  <2> QED
    BY <2>1, <2>2
<1>2. ASSUME starts' = 0, leader' # Follower
      PROVE  follower_log'.next_offset = 0
  <2>1. starts = 0 /\ leader # Follower
    <3>1. starts' = starts \/ starts' = starts + 1
      BY DEF Next, HandlerStep, vars, roleVars, StartLeader, LeaderEnds, LeaseLapses, Promote,
             Produce, ResendLater, GiveUp, LeaderAppends, SendReplicate, ReplicateAcked,
             ReplicateFails, FollowerAppends, SetHwm, SetHwmFails, Answer, Replicate
    <3>2. leader' = leader \/ leader # Follower
      BY DEF Next, HandlerStep, vars, roleVars, StartLeader, LeaderEnds, Roles!Cease,
             LeaseLapses, Roles!Lapse, Promote, Roles!Elect, Produce, ResendLater, GiveUp,
             LeaderAppends, SendReplicate, ReplicateAcked, ReplicateFails, FollowerAppends,
             SetHwm, SetHwmFails, Answer, Replicate
    <3> QED
      BY <1>0, <1>2, <3>1, <3>2
  <2>2. follower_log.next_offset = 0 /\ inflight = {}
    BY <1>0, <2>1 DEF NextOffsets, FailoverInv, OffsetInv, Unused
  <2>3. UNCHANGED follower_log
    BY <2>1, <2>2, FollowerGrows DEF FollowerAppends
  <2> QED
    BY <2>2, <2>3
<1>3. hwm' < follower_log'.next_offset
  <2>1. CASE (SetHwm \/ SetHwmFails) /\ hwm' = offset
    <3>1. pc = "hwm" /\ hwm' = offset
      BY <2>1 DEF SetHwm, SetHwmFails
    <3>2. NewEntry(offset, msg) \in Entries(follower_log)
      BY <1>0, <3>1 DEF FailoverInv, OffsetInv, FollowerHas
    <3>3. NewEntry(offset, msg).offset < follower_log'.next_offset
      BY <3>2, FollowerUp
    <3> QED
      BY <3>1, <3>3 DEF NewEntry
  <2>2. ((SetHwm \/ SetHwmFails) /\ hwm' = offset) \/ hwm' = hwm
    BY DEF Next, HandlerStep, SetHwm, vars, logVars, StartLeader, LeaderEnds, LeaseLapses, Promote,
           Produce, ResendLater, GiveUp, LeaderAppends, SendReplicate, ReplicateAcked,
           ReplicateFails, FollowerAppends, SetHwmFails, Answer, Replicate
  <2>3. CASE hwm' = hwm
    <3>1. hwm < follower_log.next_offset
      BY <1>0 DEF NextOffsets
    <3> QED
      BY <1>0, <2>3, <3>1, FollowerUp
  <2> QED
    BY <2>1, <2>2, <2>3
<1> QED
  BY <1>1, <1>2, <1>3 DEF NextOffsets

\* A copy of the current row, while the handler is at work, is of its message.
LEMMA CurrentIsHandled ==
    ASSUME FailoverInv, SingleTerm, HandlerTop, pc # "idle",
           NEW c \in Copies, Current(c.id)
    PROVE  c.id = msg
<1>1. c.id \in MessageIds /\ msg \in MessageIds
  BY FailoverTypes, EntryType
<1>2. /\ c.id[1] \in Producers /\ c.id[2] \in Nat
      /\ msg[1] \in Producers /\ msg[2] \in Nat
  BY <1>1, IdType
<1>3. c.id[1] = msg[1]
  BY <1>2 DEF SingleTerm, OneProducer
<1>4. c.id[2] <= msg[2] /\ msg[2] <= seq[msg[1]]
  BY DEF HandlerTop, FailoverInv, OrderInv, RowsKnown
<1>5. c.id[2] = msg[2]
  BY <1>2, <1>3, <1>4 DEF Current
<1> QED
  BY <1>1, <1>3, <1>5 DEF MessageIds

LEMMA CurrentAboveStep ==
    ASSUME FailoverInv, SingleTerm, BrokerInv, [Next]_vars
    PROVE  CurrentAbove'
<1>0. /\ NextOffsets /\ HandlerTop /\ CurrentAbove /\ starts <= 1
      /\ follower_log.next_offset \in Nat /\ offset \in Nat
      /\ inflight \subseteq LogEntry(MessageIds) /\ Copies \subseteq LogEntry(MessageIds)
  BY FailoverTypes DEF BrokerInv, SingleTerm
<1> SUFFICES ASSUME NEW c \in Copies', Current(c.id)', c.id \notin message_ids(follower_log')
             PROVE  /\ follower_log'.next_offset <= c.offset
                    /\ \A f \in inflight' : f.id = c.id \/ f.offset < c.offset
  BY DEF CurrentAbove
<1>1. CASE c \notin Copies
  BY <1>0, <1>1, CopyNew
<1>2. CASE c \in Copies
  <2>1. Current(c.id) /\ c.id \notin message_ids(follower_log)
    BY <1>2, GoodStep, FollowerUp
  <2>2. /\ follower_log.next_offset <= c.offset
        /\ \A f \in inflight : f.id = c.id \/ f.offset < c.offset
    BY <1>0, <1>2, <2>1 DEF CurrentAbove
  <2>3. pc # "idle" => c.id = msg
    BY <1>0, <1>2, <2>1, CurrentIsHandled
  <2>4. \A f \in inflight' : f \in inflight \/ (pc # "idle" /\ f.id = msg)
    <3>1. CASE SendReplicate
      BY <3>1 DEF SendReplicate, NewEntry
    <3>2. SendReplicate \/ inflight' \subseteq inflight
      BY DEF Next, HandlerStep, vars, logVars, StartLeader, LeaderEnds, LeaseLapses, Promote,
             Produce, ResendLater, GiveUp, LeaderAppends, ReplicateAcked, ReplicateFails,
             FollowerAppends, SetHwm, SetHwmFails, Answer, Replicate
    <3> QED
      BY <3>1, <3>2
  <2>5. follower_log'.next_offset <= c.offset
    <3>1. CASE UNCHANGED follower_log
      BY <2>2, <3>1
    <3>2. CASE FollowerAppends
      <4>1. msg \in message_ids(follower_log') /\ pc # "idle"
        <5>1. follower_log' = AppendNext(follower_log, msg) /\ pc # "idle"
          BY <3>2 DEF FollowerAppends
        <5>2. follower_log \in LogType(MessageIds) /\ msg \in MessageIds
          BY <5>1, FailoverTypes
        <5> QED
          BY <5>1, <5>2, AppendNextFacts
      <4> QED
        BY <2>3, <4>1
    <3>3. ASSUME NEW f \in inflight, Grown(f)
          PROVE  follower_log'.next_offset <= c.offset
      <4>1. f.id \in message_ids(follower_log') /\ f.offset \in Nat /\ c.offset \in Nat
        BY <1>0, <1>2, <3>3, EntryType DEF Grown, message_ids
      <4>2. f.offset < c.offset
        BY <2>2, <4>1
      <4> QED
        BY <1>0, <2>2, <3>3, <4>1, <4>2 DEF Grown
    <3> QED
      BY <3>1, <3>2, <3>3, FollowerGrows
  <2> QED
    BY <2>2, <2>3, <2>4, <2>5
<1> QED
  BY <1>1, <1>2

LEMMA FollowerOrderStep ==
    ASSUME FailoverInv, SingleTerm, BrokerInv, [Next]_vars
    PROVE  FollowerOrder'
<1> DEFINE s == follower_log.log
           t == follower_log'.log
<1>0. /\ FollowerOrder /\ CurrentAbove
      /\ follower_log.next_offset \in Nat /\ follower_log \in LogType(MessageIds)
      /\ inflight \subseteq LogEntry(MessageIds)
      /\ s \in Seq(LogEntry(MessageIds))
      /\ BelowNext(follower_log)
      /\ acked \subseteq Entries(follower_log)
  BY FailoverTypes, LogFields
     DEF BrokerInv, SingleTerm, FailoverInv, LogInv, OffsetInv, FollowerHas
<1>1. \A j \in DOMAIN s : /\ s[j] \in Entries(follower_log) /\ s[j] \in Copies
                          /\ s[j].offset \in Nat
                          /\ s[j].offset < follower_log.next_offset
  <2>1. \A j \in DOMAIN s : s[j] \in Entries(follower_log)
    BY DEF Entries
  <2>2. \A j \in DOMAIN s : s[j] \in LogEntry(MessageIds)
    BY <1>0
  <2> QED
    BY <1>0, <2>1, <2>2, EntryType DEF Copies, BelowNext
<1> SUFFICES ASSUME NEW i \in DOMAIN t, NEW j \in DOMAIN t, i < j, NEW g, g = t[j], Good(g)'
             PROVE  t[i].offset < t[j].offset
  BY DEF FollowerOrder, Good, Current
<1>2. ASSUME i \in DOMAIN s, j \in DOMAIN s, t[i] = s[i], t[j] = s[j]
      PROVE  t[i].offset < t[j].offset
  <2>1. g = s[j] /\ g \in Copies
    BY <1>1, <1>2
  <2>2. Good(g)
    BY <2>1, GoodStep
  <2> QED
    BY <1>0, <1>2, <2>1, <2>2 DEF FollowerOrder
<1>3. CASE UNCHANGED follower_log
  BY <1>2, <1>3
<1>4. ASSUME NEW e, Grown(e), Good(e)' => follower_log.next_offset <= e.offset
      PROVE  t[i].offset < t[j].offset
  <2>1. /\ t = Append(s, e) /\ e.offset \in Nat /\ e \in LogEntry(MessageIds)
    BY <1>4, EntryType DEF Grown
  <2>2. /\ DOMAIN t = 1..(Len(s) + 1) /\ DOMAIN s = 1..Len(s) /\ Len(s) \in Nat
        /\ t[Len(s) + 1] = e
        /\ \A k \in 1..Len(s) : t[k] = s[k]
    BY <1>0, <2>1
  <2> HIDE DEF s, t
  <2>3. i \in DOMAIN s /\ t[i] = s[i]
    BY <2>2
  <2>4. CASE j \in DOMAIN s
    BY <1>2, <2>2, <2>3, <2>4
  <2>5. CASE j = Len(s) + 1
    <3>1. follower_log.next_offset <= e.offset
      <4>1. g = e
        BY <2>2, <2>5
      <4> QED
        BY <1>4, <4>1
    <3> QED
      BY <1>0, <1>1, <2>1, <2>2, <2>3, <2>5, <3>1
  <2> QED
    BY <2>2, <2>4, <2>5
<1>5. CASE FollowerAppends /\ Grown(NewEntry(follower_log.next_offset, msg))
  <2>1. NewEntry(follower_log.next_offset, msg).offset = follower_log.next_offset
    BY DEF NewEntry
  <2> QED
    BY <1>0, <1>4, <1>5, <2>1
<1>6. ASSUME NEW f \in inflight, Grown(f)
      PROVE  t[i].offset < t[j].offset
  <2>1. ASSUME Good(f)' PROVE follower_log.next_offset <= f.offset
    <3>1. f \in Copies /\ f.id \notin message_ids(follower_log)
      BY <1>6 DEF Copies, Grown
    <3>2. Good(f)
      BY <2>1, <3>1, GoodStep
    <3>3. f \notin acked
      BY <1>0, <3>1 DEF message_ids
    <3> QED
      BY <1>0, <3>1, <3>2, <3>3 DEF Good, CurrentAbove
  <2> QED
    BY <1>4, <1>6, <2>1
<1> QED
  BY <1>3, <1>5, <1>6, FollowerGrows

LEMMA BrokerStep == FailoverInv /\ BrokerInv /\ [Next]_vars => BrokerInv'
<1> SUFFICES ASSUME FailoverInv, BrokerInv, [Next]_vars, SingleTerm'
             PROVE  (HandlerTop /\ NextOffsets /\ CurrentAbove /\ FollowerOrder)'
  BY DEF BrokerInv
<1>1. SingleTerm
  BY TermBefore
<1> QED
  BY <1>1, HandlerTopStep, NextOffsetsStep, CurrentAboveStep, FollowerOrderStep

\* A good entry that is stored by the step is above what the follower had: the rest
\* was stored and good before.
LEMMA GoodStored ==
    ASSUME FailoverInv, SingleTerm, SingleTerm', BrokerInv, [Next]_vars,
           NEW e \in Stored', Good(e)'
    PROVE  (e \in Stored /\ Good(e)) \/ follower_log.next_offset <= e.offset
<1> USE FailoverAssumption DEF Brokers
<1>0. /\ NextOffsets /\ CurrentAbove /\ starts <= 1
      /\ follower_log.next_offset \in Nat
      /\ acked \subseteq Entries(follower_log)
  BY FailoverTypes DEF BrokerInv, SingleTerm, FailoverInv, OffsetInv, FollowerHas
<1>1. e \in Copies'
  BY DEF Stored, Copies
<1>2. CASE e \notin Copies
  BY <1>0, <1>1, <1>2, CopyNew
<1>3. CASE e \in Copies /\ e \notin Stored
  <2>1. Good(e) /\ e \in inflight
    BY <1>3, GoodStep DEF Copies, Stored
  <2>2. leader # Leader
    BY <1>0, <1>3, <2>1 DEF FailoverInv, OffsetInv, LeaderHas, Stored
  <2>3. leader' = Leader => StartLeader
    BY <2>2 DEF Next, HandlerStep, vars, roleVars, LeaderEnds, Roles!Cease, LeaseLapses,
             Roles!Lapse, Promote, Roles!Elect, Produce, ResendLater, GiveUp, LeaderAppends,
             SendReplicate, ReplicateAcked, ReplicateFails, FollowerAppends, SetHwm,
             SetHwmFails, Answer, Replicate
  <2>4. StartLeader => Entries(leader_log') = {}
    BY EmptyLogFacts DEF StartLeader
  <2>5. e \in Entries(follower_log') /\ e \notin Entries(follower_log)
    BY <1>3, <2>3, <2>4 DEF Stored
  <2>6. PICK x : Grown(x) /\ Entries(follower_log') = Entries(follower_log) \cup {x}
    BY <2>5, FollowerGrows DEF Grown
  <2>7. e = x /\ e.id \notin message_ids(follower_log)
    BY <2>5, <2>6 DEF Grown
  <2>8. e \notin acked
    BY <1>0, <2>5
  <2> QED
    BY <1>0, <1>3, <2>1, <2>7, <2>8 DEF Good, CurrentAbove
<1>4. CASE e \in Stored
  BY <1>4, GoodStep DEF Stored, Copies
<1> QED
  BY <1>2, <1>3, <1>4

-----------------------------------------------------------------------------
(***************************************************************************)
(* What a fetch finds.                                                     *)
(***************************************************************************)
\* A good entry above the position is in the log that is read; what is served up to
\* its offset includes it, and not before it in the list, and if the HWM covers it,
\* something is served.
LEMMA LookupGood ==
    ASSUME ConsumerTypeInv, FailoverInv, BrokerInv, SingleTerm, fetch.by = leader,
           NEW e \in Stored, Good(e), position < e.offset
    PROVE  \E k \in DOMAIN LogOf(fetch.by).log :
               /\ LogOf(fetch.by).log[k] = e
               /\ \A i \in Served : e.offset <= LogOf(fetch.by).log[i].offset =>
                      k \in Served /\ k <= i
               /\ e.offset <= fetch.hwm => Served # {}
<1> DEFINE s == LogOf(fetch.by).log
           start == position + 1
           W == Lookup(fetch.by, start)
<1>0. /\ FollowerOrder /\ starts <= 1
      /\ leader_log \in LogType(MessageIds) /\ follower_log \in LogType(MessageIds)
      /\ Entries(leader_log) \subseteq LogEntry(MessageIds)
      /\ Entries(follower_log) \subseteq LogEntry(MessageIds)
      /\ Positional(leader_log)
      /\ FetchMax \in Nat \ {0}
  BY FailoverTypes, LogFields, ConsumerAssumption
     DEF BrokerInv, SingleTerm, FailoverInv, LogInv
<1>1. start \in Nat /\ fetch.hwm \in Int /\ position \in Int
  BY ConsumerTypes DEF ConsumerTypeInv
<1>2. e.offset \in Nat /\ start <= e.offset
  <2>1. e \in LogEntry(MessageIds)
    BY <1>0 DEF Stored
  <2> QED
    BY <1>1, <2>1, EntryType
<1>3. Served = {i \in W : s[i].offset <= fetch.hwm}
  BY DEF Served
<1>4. CASE leader = Leader
  <2>1. s = leader_log.log /\ W = GetByPosition(leader_log, start, FetchMax)
    BY <1>4 DEF LogOf, Lookup
  <2>2. e \in Entries(leader_log)
    BY <1>0, <1>4 DEF Stored, FailoverInv, OffsetInv, LeaderHas
  <2>3. PICK k \in DOMAIN leader_log.log : leader_log.log[k] = e
    BY <2>2 DEF Entries
  <2>4. DOMAIN leader_log.log \subseteq Nat
    BY <1>0, LogFields
  <2>5. /\ W \subseteq DOMAIN s
        /\ \A i \in W, j \in DOMAIN s : start < j /\ j <= i => j \in W
        /\ \A j \in DOMAIN s : start < j => \E i \in W : i <= j
    BY <1>0, <1>1, <2>1, GetByPositionFacts
  <2>6. \A i \in DOMAIN s : s[i].offset = i - 1
    BY <1>0, <2>1 DEF Positional
  <2> HIDE DEF s, W, start
  <2>7. k \in DOMAIN s /\ s[k] = e /\ k = e.offset + 1 /\ k \in Nat
    BY <1>2, <2>1, <2>3, <2>4, <2>6
  <2>8. ASSUME NEW i \in Served, e.offset <= s[i].offset
        PROVE  k \in Served /\ k <= i
    <3>1. i \in W /\ i \in Nat /\ s[i].offset = i - 1 /\ i - 1 <= fetch.hwm
      BY <1>3, <2>1, <2>4, <2>5, <2>6, <2>8
    <3>2. k <= i /\ start < k
      BY <1>1, <1>2, <2>7, <2>8, <3>1
    <3>3. k \in W
      BY <2>5, <2>7, <3>1, <3>2
    <3>4. s[k].offset <= fetch.hwm
      BY <1>1, <1>2, <2>7, <3>1, <3>2
    <3> QED
      BY <1>3, <3>2, <3>3, <3>4
  <2>9. ASSUME e.offset <= fetch.hwm PROVE Served # {}
    <3>1. start < k
      BY <1>1, <1>2, <2>7
    <3>2. PICK i \in W : i <= k
      BY <2>5, <2>7, <3>1
    <3>3. s[i].offset = i - 1 /\ i \in Nat
      BY <2>1, <2>4, <2>5, <2>6
    <3>4. s[i].offset <= fetch.hwm
      BY <1>1, <1>2, <2>7, <2>9, <3>2, <3>3
    <3> QED
      BY <1>3, <3>4
  <2> QED
    BY <2>7, <2>8, <2>9 DEF s
<1>5. CASE leader # Leader
  <2>1. s = follower_log.log /\ W = GetByOffset(follower_log, start, FetchMax)
    BY <1>5 DEF LogOf, Lookup
  <2>2. e \in Entries(follower_log)
    BY <1>5 DEF Stored
  <2>3. PICK k \in DOMAIN follower_log.log : follower_log.log[k] = e
    BY <2>2 DEF Entries
  <2>4. /\ DOMAIN follower_log.log \subseteq Nat
        /\ \A i \in DOMAIN follower_log.log : follower_log.log[i].offset \in Nat
    <3>1. follower_log.log \in Seq(LogEntry(MessageIds))
      BY <1>0, LogFields
    <3>2. \A i \in DOMAIN follower_log.log : follower_log.log[i] \in LogEntry(MessageIds)
      BY <3>1
    <3> QED
      BY <3>1, <3>2, EntryType
  <2> DEFINE F == From(follower_log, start)
  <2>5. /\ W \subseteq F
        /\ \A i \in W, j \in F : j <= i => j \in W
        /\ \A j \in F : \E i \in W : i <= j
    BY <1>0, <1>1, <2>1, GetByOffsetFacts
  <2>6. F = {i \in DOMAIN s : s[i].offset >= start}
    BY <2>1 DEF From
  <2>7. \A i \in DOMAIN s : i < k => s[i].offset < e.offset
    BY <1>0, <2>1, <2>3 DEF FollowerOrder
  <2> HIDE DEF s, W, start, F
  <2>8. k \in F /\ k \in Nat /\ s[k] = e /\ k \in DOMAIN s
    BY <1>1, <1>2, <2>1, <2>3, <2>4, <2>6
  <2>9. ASSUME NEW i \in Served, e.offset <= s[i].offset
        PROVE  k \in Served /\ k <= i
    <3>1. i \in W /\ i \in DOMAIN s /\ i \in Nat /\ s[i].offset \in Nat
            /\ s[i].offset <= fetch.hwm
      BY <1>3, <2>1, <2>4, <2>5, <2>6, <2>9
    <3>2. k <= i
      <4>1. ~ (s[i].offset < e.offset)
        BY <1>2, <2>9, <3>1
      <4> QED
        BY <2>7, <2>8, <3>1, <4>1
    <3>3. k \in W
      BY <2>5, <2>8, <3>1, <3>2
    <3>4. s[k].offset <= fetch.hwm
      BY <1>1, <1>2, <2>8, <2>9, <3>1
    <3> QED
      BY <1>3, <3>2, <3>3, <3>4
  <2>10. ASSUME e.offset <= fetch.hwm PROVE Served # {}
    <3>1. PICK i \in W : i <= k
      BY <2>5, <2>8
    <3>2. i \in DOMAIN s /\ i \in Nat /\ s[i].offset \in Nat
      BY <2>1, <2>4, <2>5, <2>6
    <3>3. s[i].offset <= e.offset
      BY <1>2, <2>7, <2>8, <3>1, <3>2
    <3>4. s[i].offset <= fetch.hwm
      BY <1>1, <1>2, <2>10, <3>2, <3>3
    <3> QED
      BY <1>3, <3>4
  <2> QED
    BY <2>8, <2>9, <2>10 DEF s
<1> QED
  BY <1>4, <1>5

\* What was read covers the position: messages are at or below the HWM read before,
\* a good entry above the position and below a message comes no later than it, and
\* there is a message if there is a good entry to read.
Covers(messages) ==
    /\ \A i \in DOMAIN messages : messages[i].offset <= fetch.hwm
    /\ \A e \in Stored, i \in DOMAIN messages :
           Good(e) /\ position < e.offset /\ e.offset <= messages[i].offset =>
               \E j \in 1..i : messages[j].id = e.id

LEMMA ServedGood ==
    ASSUME ConsumerTypeInv, FailoverInv, BrokerInv, SingleTerm, fetch.by = leader
    PROVE  /\ Covers(filtered_messages)
           /\ \A e \in Stored : Good(e) /\ position < e.offset /\ e.offset <= fetch.hwm =>
                  filtered_messages # << >>
<1> DEFINE m == filtered_messages
           s == LogOf(fetch.by).log
<1>1. PICK p \in [DOMAIN m -> Served] :
          /\ \A j \in DOMAIN m : m[j] = s[p[j]]
          /\ \A i \in Served : \E j \in DOMAIN m : p[j] = i
          /\ \A j, k \in DOMAIN m : j < k => p[j] < p[k]
  BY ServedFacts DEF ConsumerTypeInv
<1>2. m \in Seq(LogEntry(MessageIds)) /\ DOMAIN m \subseteq Nat /\ DOMAIN m = 1..Len(m)
  BY ServedFacts DEF ConsumerTypeInv
<1>3. \A i \in Served : i \in Nat /\ s[i].offset <= fetch.hwm
  <2>1. Served \subseteq DOMAIN s /\ LogOf(fetch.by) \in LogType(MessageIds)
    BY LookupFacts DEF ConsumerTypeInv
  <2>2. DOMAIN s \subseteq Nat
    BY <2>1, LogFields
  <2> QED
    BY <2>1, <2>2 DEF Served
<1> HIDE DEF m, s
<1>4. \A i \in DOMAIN m : m[i].offset <= fetch.hwm
  BY <1>1, <1>3
<1>5. ASSUME NEW e \in Stored, NEW i \in DOMAIN m,
             Good(e), position < e.offset, e.offset <= m[i].offset
      PROVE  \E j \in 1..i : m[j].id = e.id
  <2>1. p[i] \in Served /\ m[i] = s[p[i]]
    BY <1>1
  <2>2. PICK k \in DOMAIN s : s[k] = e /\ k \in Served /\ k <= p[i]
    BY <1>5, <2>1, LookupGood DEF s
  <2>3. PICK j \in DOMAIN m : p[j] = k
    BY <1>1, <2>2
  <2>4. ~ (i < j)
    <3>1. i < j => p[i] < p[j]
      BY <1>1
    <3>2. p[i] \in Nat /\ p[j] \in Nat
      BY <1>3, <2>1, <2>2, <2>3
    <3> QED
      BY <2>2, <2>3, <3>1, <3>2
  <2>5. j \in 1..i
    BY <1>2, <2>4
  <2>6. m[j].id = e.id
    BY <1>1, <2>2, <2>3
  <2> QED
    BY <2>5, <2>6
<1>6. ASSUME NEW e \in Stored, Good(e), position < e.offset, e.offset <= fetch.hwm
      PROVE  m # << >>
  <2>1. Served # {}
    BY <1>6, LookupGood
  <2>2. DOMAIN m # {}
    BY <1>1, <2>1
  <2> QED
    BY <1>2, <2>2
<1> QED
  BY <1>4, <1>5, <1>6 DEF Covers, m

-----------------------------------------------------------------------------
(***************************************************************************)
(* What the consumer knows, with one producer and a leader that was not    *)
(* restarted.                                                              *)
(***************************************************************************)
\* It has seen no offset that the follower may still give away.
SeenInv ==
    /\ position < follower_log.next_offset
    /\ committed < follower_log.next_offset
    /\ original < follower_log.next_offset
    /\ fetch.hwm < follower_log.next_offset
    /\ \A i \in DOMAIN batch : batch[i].offset < follower_log.next_offset

\* NothingSkipped, for all good entries.
SkipInv ==
    \A e \in Stored :
        Good(e) /\ (e.offset <= committed \/ e.offset <= Resume) => e.id \in processed

\* Each message of the batch has with it, before it, the good entries below it that
\* are not processed yet.
BatchInv ==
    Holding => \A e \in Stored, i \in DOMAIN batch :
        Good(e) /\ e.offset <= batch[i].offset =>
            e.id \in processed \/ \E j \in 1..i : batch[j].id = e.id

\* What get_all_messages still misses is ahead of it, and within the HWM of the fetch
\* that is underway.
AllInv ==
    /\ missing \subseteq AckedIds
    /\ activity # "all" => missing = {}
    /\ \A a \in acked : a.id \in missing =>
           a.offset > position /\ (fetch # NoFetch => a.offset <= fetch.hwm)

\* What is to be committed was processed.
Handed == activity \in {"commit", "save"} => Head(batch).id \in processed

DeliverInv == SingleTerm => Handed /\ SeenInv /\ SkipInv /\ BatchInv /\ AllInv

ConsumerInv == ConsumerTypeInv /\ FailoverInv /\ BrokerInv /\ DeliverInv

LEMMA DeliverInit == ConsumerInit => DeliverInv
<1> SUFFICES ASSUME ConsumerInit PROVE DeliverInv
  OBVIOUS
<1>1. Handed
  BY DEF ConsumerInit, Handed
<1>2. /\ leader = NoBroker /\ follower_log = EmptyLog /\ acked = {}
  BY DEF ConsumerInit, Init, Fresh, Roles!Init
<1>3. leader # Leader
  BY <1>2, FailoverAssumption DEF Brokers
<1>4. Stored = {} /\ follower_log.next_offset = 0
  BY <1>2, <1>3, EmptyLogFacts DEF Stored, EmptyLog
<1>5. SeenInv
  BY <1>4 DEF ConsumerInit, SeenInv, NoFetch
<1>6. SkipInv /\ BatchInv
  BY <1>4 DEF SkipInv, BatchInv
<1>7. AllInv
  BY <1>2 DEF ConsumerInit, AllInv
<1> QED
  BY <1>1, <1>5, <1>6, <1>7 DEF DeliverInv

\* The offsets a consumer keeps are integers.
LEMMA OffsetTypes ==
    ASSUME ConsumerTypeInv, FailoverInv
    PROVE  /\ position \in Int /\ committed \in Int /\ original \in Int /\ fetch.hwm \in Int
           /\ Resume \in Int
           /\ hwm \in Int /\ follower_log.next_offset \in Nat
           /\ \A e \in Stored : e.offset \in Nat
           /\ \A a \in acked : a.offset \in Nat
           /\ \A i \in DOMAIN batch : batch[i].offset \in Nat
<1>1. /\ position \in Int /\ committed \in Int /\ original \in Int /\ fetch.hwm \in Int
      /\ batch \in Seq(LogEntry(MessageIds))
  BY ConsumerTypes DEF ConsumerTypeInv
<1>2. /\ Stored \subseteq LogEntry(MessageIds) /\ acked \subseteq LogEntry(MessageIds)
      /\ hwm \in Int /\ follower_log.next_offset \in Nat
  BY FailoverTypes DEF Stored, Copies
<1> QED
  BY <1>1, <1>2, EntryType, BatchFacts DEF Resume

\* Nothing acknowledged is taken back, and no message is acknowledged twice.
LEMMA AckedGrows ==
    ASSUME FailoverInv, [Next]_vars, SingleTerm'
    PROVE  /\ acked \subseteq acked'
           /\ \A a \in acked', b \in acked' : a.id = b.id => a = b
<1>1. acked \subseteq acked'
  <2>1. Answer \/ acked' = acked
    BY DEF Next, HandlerStep, vars, clientVars, StartLeader, LeaderEnds, LeaseLapses, Promote,
           Produce, ResendLater, GiveUp, LeaderAppends, SendReplicate, ReplicateAcked,
           ReplicateFails, FollowerAppends, SetHwm, SetHwmFails, Replicate
  <2> QED
    BY <2>1, AnswerFacts DEF FailoverInv
<1>2. FailoverInv'
  BY FailoverStep
<1>3. acked' \subseteq Entries(follower_log') /\ UniqueIds(follower_log')
  BY <1>2 DEF FailoverInv, OffsetInv, FollowerHas, LogInv, SingleTerm
<1> QED
  BY <1>1, <1>3, UniqueEntry

\* A step of the brokers keeps what the consumer knows.
LEMMA BrokersDeliver ==
    ASSUME ConsumerInv, [Next]_vars, UNCHANGED consumerVars, SingleTerm'
    PROVE  (Handed /\ SeenInv /\ SkipInv /\ BatchInv /\ AllInv)'
<1>0. /\ FailoverInv /\ BrokerInv /\ ConsumerTypeInv
      /\ SingleTerm
      /\ Handed /\ SeenInv /\ SkipInv /\ BatchInv /\ AllInv
  BY TermBefore DEF ConsumerInv, DeliverInv
<1>1. /\ UNCHANGED << position, committed, activity, fetch, batch, processed, original, missing >>
      /\ Resume' = Resume /\ Holding' = Holding
  BY DEF consumerVars, offsetVars, allVars, Resume, Holding
<1>2. /\ follower_log.next_offset <= follower_log'.next_offset
      /\ follower_log'.next_offset \in Nat
  BY <1>0, FollowerUp
<1>3. SeenInv'
  BY <1>0, <1>1, <1>2, OffsetTypes DEF SeenInv
<1>4. \A e \in Stored' : Good(e)' =>
          (e \in Stored /\ Good(e)) \/ follower_log.next_offset <= e.offset
  BY <1>0, GoodStored
<1>5. \A e \in Stored' : e.offset \in Nat
  <2>1. FailoverInv'
    BY <1>0, FailoverStep
  <2>2. /\ leader_log' \in LogType(MessageIds) /\ follower_log' \in LogType(MessageIds)
    BY <2>1 DEF FailoverInv, TypeInv, TypeOK
  <2>3. Stored' \subseteq LogEntry(MessageIds)
    BY <2>2, LogFields DEF Stored
  <2> QED
    BY <2>3, EntryType
<1>6. SkipInv'
  <2> SUFFICES ASSUME NEW e \in Stored', Good(e)',
                      e.offset <= committed \/ e.offset <= Resume
               PROVE  e.id \in processed
    BY <1>1 DEF SkipInv, Good, Current
  <2>1. ~ (follower_log.next_offset <= e.offset)
    BY <1>0, <1>5, OffsetTypes DEF SeenInv, Resume
  <2> QED
    BY <1>0, <1>4, <2>1 DEF SkipInv
<1>7. BatchInv'
  <2> SUFFICES ASSUME Holding, NEW e \in Stored', NEW i \in DOMAIN batch, Good(e)',
                      e.offset <= batch[i].offset
               PROVE  e.id \in processed \/ \E j \in 1..i : batch[j].id = e.id
    BY <1>1 DEF BatchInv, Good, Current
  <2>1. ~ (follower_log.next_offset <= e.offset)
    BY <1>0, <1>5, OffsetTypes DEF SeenInv
  <2> QED
    BY <1>0, <1>4, <2>1 DEF BatchInv
<1>8. AllInv'
  <2>1. /\ acked \subseteq acked'
        /\ \A a \in acked', b \in acked' : a.id = b.id => a = b
    BY <1>0, AckedGrows
  <2>2. missing \subseteq AckedIds'
    BY <1>0, <2>1 DEF AllInv, AckedIds
  <2>3. ASSUME NEW a \in acked', a.id \in missing
        PROVE  a.offset > position /\ (fetch # NoFetch => a.offset <= fetch.hwm)
    <3>1. PICK b \in acked : b.id = a.id
      BY <1>0, <2>3 DEF AllInv, AckedIds
    <3>2. a = b
      BY <2>1, <3>1
    <3> QED
      BY <1>0, <2>3, <3>1, <3>2 DEF AllInv
  <2> QED
    BY <1>0, <1>1, <2>2, <2>3 DEF AllInv
<1>9. Handed'
  BY <1>0, <1>1 DEF Handed
<1> QED
  BY <1>3, <1>6, <1>7, <1>8, <1>9

\* What is received, if it covers the position, keeps what the consumer knows.
LEMMA ReceivedDelivers ==
    ASSUME ConsumerInv, SingleTerm, UNCHANGED vars,
           NEW messages \in Seq(LogEntry(MessageIds)), NEW answered \in BOOLEAN,
           Received(messages, answered), Covers(messages),
           answered => /\ fetch # NoFetch
                       /\ \A e \in Stored :
                              Good(e) /\ position < e.offset /\ e.offset <= fetch.hwm =>
                                  messages # << >>
    PROVE  (Handed /\ SeenInv /\ SkipInv /\ BatchInv /\ AllInv)'
<1>0. /\ FailoverInv /\ ConsumerTypeInv
      /\ SeenInv /\ SkipInv /\ BatchInv /\ AllInv
  BY DEF ConsumerInv, DeliverInv
<1>1. /\ Stored' = Stored /\ acked' = acked /\ follower_log' = follower_log
      /\ \A e : Good(e)' <=> Good(e)
      /\ AckedIds' = AckedIds
  BY DEF vars, roleVars, logVars, clientVars, Stored, Good, Current, AckedIds
<1>2. fetch' = NoFetch /\ NoFetch.hwm = -1
  BY DEF Received, NoFetch
<1>3. /\ \A i \in DOMAIN messages : messages[i].offset \in Nat
      /\ \A i \in DOMAIN messages : messages[i].offset < follower_log.next_offset
      /\ DOMAIN messages = 1..Len(messages)
      /\ messages # << >> => /\ Len(messages) \in DOMAIN messages
                             /\ Last(messages) = messages[Len(messages)]
  BY <1>0, OffsetTypes, BatchFacts DEF SeenInv, Covers
<1>4. \A e \in Stored, i \in DOMAIN messages :
          Good(e) /\ e.offset <= messages[i].offset =>
              e.offset <= position \/ \E j \in 1..i : messages[j].id = e.id
  <2>1. \A e \in Stored : e.offset <= position \/ position < e.offset
    BY <1>0, OffsetTypes
  <2> QED
    BY <2>1 DEF Covers
<1>5. CASE Polled(messages)
  <2>1. /\ activity = "poll" /\ batch' = messages
        /\ activity' \in {"poll", "idle", "process"}
        /\ UNCHANGED << position, committed, processed, original, missing >>
    BY <1>5 DEF Polled, offsetVars, allVars
  <2>2. Resume' = Resume /\ Resume = position
    BY <2>1 DEF Resume
  <2>3. Handed'
    BY <2>1 DEF Handed
  <2>4. SeenInv'
    BY <1>0, <1>1, <1>2, <1>3, <2>1, OffsetTypes DEF SeenInv
  <2>5. SkipInv'
    BY <1>0, <1>1, <2>1, <2>2 DEF SkipInv
  <2>6. BatchInv'
    BY <1>0, <1>1, <1>4, <2>1, <2>2 DEF SkipInv, BatchInv
  <2>7. AllInv'
    BY <1>0, <1>1, <2>1 DEF AllInv
  <2> QED
    BY <2>3, <2>4, <2>5, <2>6, <2>7
<1>6. CASE Printed(messages)
  <2>1. /\ activity = "fetch" /\ processed' = processed \cup Ids(messages)
        /\ batch' = IF messages = << >> THEN << >> ELSE << Last(messages) >>
        /\ activity' = IF messages = << >> THEN "idle" ELSE "save"
        /\ UNCHANGED << position, committed, original, missing >>
    BY <1>6 DEF Printed, offsetVars, allVars
  <2>2. Resume' = Resume /\ Resume = position
    BY <2>1 DEF Resume
  <2>3. CASE messages = << >>
    <3>1. batch' = << >> /\ activity' = "idle"
      BY <2>1, <2>3
    <3>2. SeenInv'
      BY <1>0, <1>1, <1>2, <2>1, <3>1, OffsetTypes DEF SeenInv
    <3>3. SkipInv'
      BY <1>0, <1>1, <2>1, <2>2 DEF SkipInv
    <3>4. AllInv'
      BY <1>0, <1>1, <2>1, <3>1 DEF AllInv
    <3> QED
      BY <3>1, <3>2, <3>3, <3>4 DEF Handed, BatchInv, Holding
  <2>4. CASE messages # << >>
    <3> DEFINE last == Last(messages)
    <3>1. /\ batch' = << last >> /\ activity' = "save"
          /\ DOMAIN batch' = {1} /\ batch'[1] = last /\ Head(batch') = last
      BY <2>1, <2>4
    <3>2. /\ last = messages[Len(messages)] /\ Len(messages) \in DOMAIN messages
          /\ last.offset < follower_log.next_offset
      BY <1>3, <2>4
    <3>3. \A j \in DOMAIN messages : messages[j].id \in processed'
      BY <2>1 DEF Ids
    <3> HIDE DEF last
    <3>4. Handed'
      BY <3>1, <3>2, <3>3 DEF Handed
    <3>5. SeenInv'
      BY <1>0, <1>1, <1>2, <2>1, <3>1, <3>2, OffsetTypes DEF SeenInv
    <3>6. SkipInv'
      BY <1>0, <1>1, <2>1, <2>2 DEF SkipInv
    <3>7. BatchInv'
      <4>1. ASSUME NEW e \in Stored, Good(e), e.offset <= last.offset
            PROVE  e.id \in processed'
        <5>1. CASE e.offset <= position
          BY <1>0, <2>1, <2>2, <4>1, <5>1 DEF SkipInv
        <5>2. ASSUME NEW j \in 1..Len(messages), messages[j].id = e.id
              PROVE  e.id \in processed'
          BY <1>3, <3>3, <5>2
        <5> QED
          BY <1>4, <3>2, <4>1, <5>1, <5>2
      <4> QED
        BY <1>1, <3>1, <4>1 DEF BatchInv
    <3>8. AllInv'
      BY <1>0, <1>1, <2>1, <3>1 DEF AllInv
    <3> QED
      BY <3>4, <3>5, <3>6, <3>7, <3>8
  <2> QED
    BY <2>3, <2>4
<1>7. CASE Collected(messages, answered)
  <2>1. activity = "all" /\ UNCHANGED << committed, batch, processed >>
    BY <1>7 DEF Collected
  <2>2. CASE messages = << >> \/ iterations + 1 = MaxIterations
    <3>1. /\ activity' = "idle" /\ position' = original /\ original' = -1
          /\ missing' = IF messages = << >> /\ answered THEN missing ELSE {}
      BY <1>7, <2>2 DEF Collected
    <3>2. Resume' = Resume
      BY <2>1, <3>1 DEF Resume
    <3>3. SeenInv'
      BY <1>0, <1>1, <1>2, <2>1, <3>1, OffsetTypes DEF SeenInv
    <3>4. SkipInv'
      BY <1>0, <1>1, <2>1, <3>2 DEF SkipInv
    <3>5. missing' = {}
      <4>1. ASSUME messages = << >>, answered, missing # {} PROVE FALSE
        <5>1. PICK a \in acked : a.id \in missing
          BY <1>0, <4>1 DEF AllInv, AckedIds
        <5>2. a.offset > position /\ a.offset <= fetch.hwm
          BY <1>0, <4>1, <5>1 DEF AllInv
        <5>3. a \in Stored /\ Good(a)
          BY <1>0, <5>1 DEF FailoverInv, OffsetInv, FollowerHas, SingleTerm, Stored, Good
        <5>4. position < a.offset
          BY <1>0, <5>1, <5>2, OffsetTypes
        <5> QED
          BY <4>1, <5>2, <5>3, <5>4
      <4> QED
        BY <3>1, <4>1
    <3> QED
      BY <3>1, <3>3, <3>4, <3>5 DEF Handed, BatchInv, Holding, AllInv
  <2>3. CASE ~ (messages = << >> \/ iterations + 1 = MaxIterations)
    <3>1. /\ position' = Last(messages).offset
          /\ missing' = missing \ Ids(messages)
          /\ activity' = activity /\ original' = original
          /\ messages # << >>
      BY <1>7, <2>3 DEF Collected
    <3>2. Resume' = Resume
      BY <2>1, <3>1 DEF Resume
    <3>3. SeenInv'
      BY <1>0, <1>1, <1>2, <1>3, <2>1, <3>1, OffsetTypes DEF SeenInv
    <3>4. SkipInv'
      BY <1>0, <1>1, <2>1, <3>2 DEF SkipInv
    <3>5. AllInv'
      <4>1. ASSUME NEW a \in acked, a.id \in missing, a.id \notin Ids(messages)
            PROVE  a.offset > Last(messages).offset
        <5>1. a \in Stored /\ Good(a)
          BY <1>0, <4>1 DEF FailoverInv, OffsetInv, FollowerHas, SingleTerm, Stored, Good
        <5>2. a.offset > position
          BY <1>0, <4>1 DEF AllInv
        <5>3. \A j \in 1..Len(messages) : messages[j].id # a.id
          BY <1>3, <4>1 DEF Ids
        <5>4. /\ Len(messages) \in DOMAIN messages
              /\ Last(messages) = messages[Len(messages)]
              /\ Last(messages).offset \in Nat /\ a.offset \in Nat /\ position \in Int
          BY <1>0, <1>3, <3>1, <4>1, OffsetTypes
        <5>5. a.offset <= Last(messages).offset => a.offset <= position
          BY <1>4, <5>1, <5>3, <5>4
        <5> QED
          BY <5>2, <5>4, <5>5
      <4>2. \A a \in acked : a.id \in missing' => a.offset > position'
        BY <3>1, <4>1
      <4>3. missing' \subseteq AckedIds
        BY <1>0, <3>1 DEF AllInv
      <4> QED
        BY <1>1, <1>2, <2>1, <3>1, <4>2, <4>3 DEF AllInv
    <3> QED
      BY <2>1, <3>1, <3>3, <3>4, <3>5 DEF Handed, BatchInv, Holding
  <2> QED
    BY <2>2, <2>3
<1> QED
  BY <1>5, <1>6, <1>7 DEF Received

\* A step of the consumer keeps it too.
LEMMA ConsumerDelivers ==
    ASSUME ConsumerInv, SingleTerm, ConsumerStep, UNCHANGED vars
    PROVE  (Handed /\ SeenInv /\ SkipInv /\ BatchInv /\ AllInv)'
<1>0. /\ FailoverInv /\ BrokerInv /\ ConsumerTypeInv /\ Handed
      /\ SeenInv /\ SkipInv /\ BatchInv /\ AllInv
  BY DEF ConsumerInv, DeliverInv
<1>1. /\ Stored' = Stored /\ acked' = acked /\ follower_log' = follower_log /\ hwm' = hwm
      /\ \A e : Good(e)' <=> Good(e)
      /\ AckedIds' = AckedIds
  BY DEF vars, roleVars, logVars, clientVars, Stored, Good, Current, AckedIds
<1>2. /\ \A e \in Stored : e.offset \in Nat
      /\ \A a \in acked : a.offset \in Nat
      /\ follower_log.next_offset \in Nat
      /\ position \in Int /\ committed \in Int /\ original \in Int
  BY <1>0, OffsetTypes
<1>3. NoFetch.hwm = -1
  BY DEF NoFetch
<1> USE DEF offsetVars, allVars
<1>4. CASE StartConsumer
  BY <1>0, <1>1, <1>2, <1>4
     DEF StartConsumer, Handed, SeenInv, SkipInv, BatchInv, AllInv, Holding, Resume
<1>5. CASE StartConsuming \/ FetchCommand
  BY <1>0, <1>1, <1>5
     DEF StartConsuming, FetchCommand, Handed, SeenInv, SkipInv, BatchInv, AllInv, Holding, Resume
<1>6. CASE GetAllMessages
  <2>1. /\ activity = "idle" /\ fetch = NoFetch /\ activity' = "all" /\ original' = position /\ position' = -1
        /\ missing' = AckedIds
        /\ UNCHANGED << committed, fetch, batch, processed >>
    BY <1>0, <1>6 DEF GetAllMessages, ConsumerTypeInv, Fetching
  <2>2. Resume' = Resume
    BY <2>1 DEF Resume
  <2>3. SeenInv' /\ SkipInv'
    BY <1>0, <1>1, <1>2, <2>1, <2>2 DEF SeenInv, SkipInv
  <2>4. AllInv'
    BY <1>0, <1>1, <1>2, <2>1 DEF AllInv
  <2> QED
    BY <2>1, <2>3, <2>4 DEF Handed, BatchInv, Holding
<1>7. CASE Reset
  BY <1>0, <1>1, <1>2, <1>7
     DEF Reset, Handed, SeenInv, SkipInv, BatchInv, AllInv, Holding, Resume
<1>8. CASE Interrupt
  <2>1. /\ fetch' = NoFetch /\ batch' = << >> /\ original' = -1 /\ missing' = {}
        /\ activity' \in {"down", "idle"}
        /\ position' = -1 \/ (position' = position /\ activity # "all")
        /\ UNCHANGED << committed, processed >>
    BY <1>8 DEF Interrupt
  <2>2. Resume' = -1 \/ Resume' = Resume
    BY <2>1 DEF Resume
  <2>3. SeenInv'
    BY <1>0, <1>1, <1>2, <1>3, <2>1 DEF SeenInv
  <2>4. SkipInv'
    BY <1>0, <1>1, <1>2, <2>1, <2>2 DEF SkipInv
  <2> QED
    BY <2>1, <2>3, <2>4 DEF Handed, BatchInv, Holding, AllInv
<1>9. CASE FetchBegins
  <2>1. /\ fetch = NoFetch /\ fetch'.hwm = hwm
        /\ UNCHANGED << position, committed, activity, batch, processed, original, missing >>
    BY <1>9 DEF FetchBegins
  <2>2. hwm < follower_log.next_offset
    BY <1>0 DEF BrokerInv, NextOffsets
  <2>3. \A a \in acked : a.offset <= hwm
    BY <1>0 DEF FailoverInv, ReadInv, SingleTerm
  <2>4. Resume' = Resume /\ Holding' = Holding
    BY <2>1 DEF Resume, Holding
  <2>5. SeenInv' /\ SkipInv' /\ BatchInv' /\ Handed'
    BY <1>0, <1>1, <2>1, <2>2, <2>4 DEF SeenInv, SkipInv, BatchInv, Handed
  <2>6. AllInv'
    BY <1>0, <1>1, <2>1, <2>3 DEF AllInv
  <2> QED
    BY <2>5, <2>6
<1>10. CASE FetchLost
  <2>1. /\ fetch' = NoFetch
        /\ UNCHANGED << position, committed, activity, batch, processed, original, missing >>
    BY <1>10 DEF FetchLost
  <2>2. Resume' = Resume /\ Holding' = Holding
    BY <2>1 DEF Resume, Holding
  <2> QED
    BY <1>0, <1>1, <1>2, <1>3, <2>1, <2>2 DEF SeenInv, SkipInv, BatchInv, Handed, AllInv
<1>11. CASE FetchAnswered
  <2>1. fetch # NoFetch /\ fetch.by = leader /\ Received(filtered_messages, TRUE)
    BY <1>11 DEF FetchAnswered
  <2>2. filtered_messages \in Seq(LogEntry(MessageIds))
    BY <1>0, ServedFacts DEF ConsumerTypeInv
  <2>3. /\ Covers(filtered_messages)
        /\ \A e \in Stored : Good(e) /\ position < e.offset /\ e.offset <= fetch.hwm =>
               filtered_messages # << >>
    BY <1>0, <2>1, ServedGood
  <2> QED
    BY <2>1, <2>2, <2>3, ReceivedDelivers
<1>12. CASE FetchFails
  <2>1. Received(<< >>, FALSE)
    BY <1>12 DEF FetchFails
  <2>2. << >> \in Seq(LogEntry(MessageIds)) /\ Covers(<< >>)
    BY DEF Covers
  <2> QED
    BY <2>1, <2>2, ReceivedDelivers
<1>13. CASE ProcessMessage
  <2>1. /\ activity = "process" /\ activity' = "commit"
        /\ processed' = processed \cup {Head(batch).id}
        /\ UNCHANGED << position, committed, fetch, batch, original, missing >>
    BY <1>13 DEF ProcessMessage
  <2>2. Resume' = Resume /\ Holding
    BY <2>1 DEF Resume, Holding
  <2> QED
    BY <1>0, <1>1, <2>1, <2>2 DEF SeenInv, SkipInv, BatchInv, Handed, AllInv, Holding
<1>14. CASE CommitOffset \/ CommitFails
  <2>1. /\ activity \in {"commit", "save"} /\ Holding /\ batch # << >>
        /\ batch' = Tail(batch)
        /\ activity' = IF activity = "save" THEN "idle"
                       ELSE IF Tail(batch) # << >> THEN "process" ELSE "poll"
        /\ UNCHANGED << fetch, processed, original, missing >>
        /\ committed' \in {committed, Head(batch).offset}
        /\ position' \in {position, Head(batch).offset}
    BY <1>0, <1>14
       DEF CommitOffset, CommitFails, NextMessage, Holding, ConsumerTypeInv
  <2>2. /\ 1 \in DOMAIN batch /\ Head(batch) = batch[1] /\ Head(batch).offset \in Nat
        /\ batch[1].id \in processed
    BY <1>0, <2>1, ConsumerTypes, BatchFacts DEF Handed, ConsumerTypeInv
  <2>3. \A i \in DOMAIN Tail(batch) :
            i \in Nat /\ i + 1 \in DOMAIN batch /\ Tail(batch)[i] = batch[i + 1]
    BY <1>0, <2>1, ConsumerTypes DEF ConsumerTypeInv
  <2>4. \A e \in Stored : Good(e) /\ e.offset <= Head(batch).offset => e.id \in processed
    <3> SUFFICES ASSUME NEW e \in Stored, Good(e), e.offset <= batch[1].offset
                 PROVE  e.id \in processed
      BY <2>2
    <3>1. e.id \in processed \/ \E j \in 1..1 : batch[j].id = e.id
      BY <1>0, <2>1, <2>2 DEF BatchInv
    <3> QED
      BY <2>2, <3>1
  <2>5. activity # "all" /\ activity' # "all" /\ Resume = position /\ Resume' = position'
    BY <2>1 DEF Resume
  <2>6. Handed'
    BY <2>1 DEF Handed
  <2>7. SeenInv'
    <3>1. \A i \in DOMAIN batch' : batch'[i].offset < follower_log.next_offset
      BY <1>0, <2>1, <2>3 DEF SeenInv
    <3> QED
      BY <1>0, <1>1, <2>1, <2>2, <3>1 DEF SeenInv
  <2>8. SkipInv'
    BY <1>0, <1>1, <2>1, <2>4, <2>5 DEF SkipInv
  <2>9. BatchInv'
    <3> SUFFICES ASSUME NEW e \in Stored, NEW i \in DOMAIN Tail(batch), Good(e),
                        e.offset <= Tail(batch)[i].offset
                 PROVE  e.id \in processed \/ \E j \in 1..i : Tail(batch)[j].id = e.id
      BY <1>1, <2>1 DEF BatchInv
    <3>1. e.id \in processed \/ \E j \in 1..(i + 1) : batch[j].id = e.id
      BY <1>0, <2>1, <2>3 DEF BatchInv
    <3>2. ASSUME NEW j \in 1..(i + 1), batch[j].id = e.id, j # 1
          PROVE  \E k \in 1..i : Tail(batch)[k].id = e.id
      <4>1. j - 1 \in 1..i /\ (j - 1) + 1 = j
        BY <2>3, <3>2
      <4>2. j - 1 \in DOMAIN Tail(batch)
        <5>1. DOMAIN Tail(batch) = 1..Len(Tail(batch)) /\ Len(Tail(batch)) \in Nat
          BY <1>0, <2>1, ConsumerTypes DEF ConsumerTypeInv
        <5> QED
          BY <4>1, <5>1
      <4> QED
        BY <2>3, <3>2, <4>1, <4>2
    <3> QED
      BY <2>2, <3>1, <3>2
  <2>10. AllInv'
    BY <1>0, <1>1, <2>1, <2>5 DEF AllInv
  <2> QED
    BY <2>6, <2>7, <2>8, <2>9, <2>10
<1> QED
  BY <1>4, <1>5, <1>6, <1>7, <1>8, <1>9, <1>10, <1>11, <1>12, <1>13, <1>14 DEF ConsumerStep

LEMMA ConsumerInvInit == ConsumerInit => ConsumerInv
BY ConsumerTypeInit, FailoverInit, BrokerInit, DeliverInit DEF ConsumerInit, ConsumerInv

LEMMA ConsumerInvStep ==
    ConsumerInv /\ [ConsumerNext]_<< vars, consumerVars >> => ConsumerInv'
<1> SUFFICES ASSUME ConsumerInv, [ConsumerNext]_<< vars, consumerVars >>
             PROVE  ConsumerInv'
  OBVIOUS
<1>1. [Next]_vars
  BY DEF ConsumerNext
<1>2. ConsumerTypeInv' /\ FailoverInv' /\ BrokerInv'
  BY <1>1, ConsumerTypeStep, FailoverStep, BrokerStep DEF ConsumerInv
<1>3. ASSUME UNCHANGED consumerVars PROVE DeliverInv'
  BY <1>1, <1>3, BrokersDeliver DEF DeliverInv
<1>4. ASSUME ConsumerStep, UNCHANGED vars PROVE DeliverInv'
  <2>1. SingleTerm' = SingleTerm
    BY <1>4 DEF SingleTerm, OneProducer, vars, roleVars
  <2> QED
    BY <1>4, <2>1, ConsumerDelivers DEF DeliverInv
<1>5. DeliverInv'
  BY <1>3, <1>4 DEF ConsumerNext
<1> QED
  BY <1>2, <1>5 DEF ConsumerInv

LEMMA ConsumerInvariant == ConsumerSpec => []ConsumerInv
BY ConsumerInvInit, ConsumerInvStep, PTL DEF ConsumerSpec

\* At-least-once delivery, with one producer and a leader that was not restarted: an
\* acknowledged message that the consumer's position, or its offset in Redis, is past
\* was processed.
THEOREM NeverSkips == ConsumerSpec => [](OneProducer /\ starts <= 1 => NothingSkipped)
<1>1. ConsumerInv => (OneProducer /\ starts <= 1 => NothingSkipped)
  <2> SUFFICES ASSUME ConsumerInv, OneProducer, starts <= 1, NEW a \in acked,
                      a.offset <= committed \/ a.offset <= Resume
               PROVE  a.id \in processed
    BY DEF NothingSkipped
  <2>1. a \in Stored /\ Good(a)
    BY DEF ConsumerInv, FailoverInv, OffsetInv, FollowerHas, Stored, Good
  <2> QED
    BY <2>1 DEF ConsumerInv, DeliverInv, SingleTerm, SkipInv
<1> QED
  BY <1>1, ConsumerInvariant, PTL

\* A get_all_messages that was not cut short returns every message acknowledged when it
\* began, although both brokers may have served it.
THEOREM FetchAllIsComplete ==
    ConsumerSpec => [](OneProducer /\ starts <= 1 => FetchAllComplete)
<1>1. ConsumerInv => (OneProducer /\ starts <= 1 => FetchAllComplete)
  BY DEF ConsumerInv, DeliverInv, SingleTerm, AllInv, FetchAllComplete
<1> QED
  BY <1>1, ConsumerInvariant, PTL

\* The brokers under a consumer are those of Failover: it reads, and changes nothing of
\* theirs.  So the theorems of Failover hold here.
LEMMA BrokersUndisturbed == ConsumerSpec => Spec
<1>1. ConsumerInit => Init
  BY DEF ConsumerInit
<1>2. [ConsumerNext]_<< vars, consumerVars >> => [Next]_vars
  BY DEF ConsumerNext
<1> QED
  BY <1>1, <1>2, PTL DEF ConsumerSpec, Spec

\* With one producer, and unless the leader was restarted, what was acknowledged is
\* readable for the consumer, before and after the failover.
THEOREM ReadableToConsumer == ConsumerSpec => [](OneProducer => AckedReadable)
BY BrokersUndisturbed, ReadableKept, PTL

=============================================================================

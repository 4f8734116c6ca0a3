-------------------------- MODULE Failover_proofs --------------------------
(***************************************************************************)
(* Theorems of Failover, for any number of producers, rows, sends and      *)
(* starts of the leader.                                                   *)
(***************************************************************************)
EXTENDS Failover, LogManager_proofs, TLAPS

(***************************************************************************)
(* Type correctness.                                                       *)
(***************************************************************************)
Serving == pc # "idle" => msg \in MessageIds

WaitingSends == \A p \in Producers : awaits[p] => Sending(p)

TypeInv == TypeOK /\ Serving /\ WaitingSends

LEMMA TypeInit == Init => TypeInv
<1> SUFFICES ASSUME Init PROVE TypeInv
  OBVIOUS
<1> USE FailoverAssumption
<1>1. EmptyLog \in LogType(MessageIds)
  BY DEF EmptyLog, LogType
<1>2. seq \in [Producers -> 1..(Rows + 1)] /\ tries \in [Producers -> 0..(MaxSends - 1)]
  BY DEF Init, Fresh
<1>3. /\ leader_log \in LogType(MessageIds)
      /\ follower_log \in LogType(MessageIds)
      /\ awaits \in [Producers -> BOOLEAN]
  BY <1>1 DEF Init, Fresh
<1>4. held \in BOOLEAN /\ leader = NoBroker /\ current = NoBroker
  BY Zenon DEF Init, Fresh, Roles!Init
<1>8. starts \in 0..MaxStarts
  BY DEF Init, Fresh
<1>5. /\ hwm \in Nat \cup {-1} /\ inflight = {} /\ acked = {}
      /\ pc = "idle" /\ msg = NoMsg /\ offset \in Nat
  BY DEF Init, Fresh
<1>6. TypeOK
  BY <1>2, <1>3, <1>4, <1>5, <1>8 DEF TypeOK, HandlerPC
<1> QED
  BY <1>6 DEF Init, Fresh, TypeInv, Serving, WaitingSends

\* The message a producer is sending is one of the messages.
LEMMA MsgType ==
    ASSUME TypeInv, NEW p \in Producers, Sending(p)
    PROVE  Msg(p) \in MessageIds
<1>1. seq[p] \in 1..Rows
  BY FailoverAssumption DEF TypeInv, TypeOK, Sending
<1> QED
  BY <1>1 DEF Msg, MessageIds

\* Moving producers that are sending on to their next row.
LEMMA NextRowFacts ==
    ASSUME TypeInv, NEW P, NextRow(P), \A p \in P : p \in Producers /\ Sending(p)
    PROVE  /\ seq' \in [Producers -> 1..(Rows + 1)]
           /\ tries' \in [Producers -> 0..(MaxSends - 1)]
           /\ awaits' \in [Producers -> BOOLEAN]
           /\ WaitingSends'
           /\ \A p \in Producers : seq[p] <= seq'[p]
           /\ \A p \in P : seq'[p] = seq[p] + 1
<1> USE FailoverAssumption DEF TypeInv, TypeOK, Sending
<1>1. seq' \in [Producers -> 1..(Rows + 1)]
  BY DEF NextRow
<1>2. tries' \in [Producers -> 0..(MaxSends - 1)]
  BY DEF NextRow
<1>3. awaits' \in [Producers -> BOOLEAN]
  BY DEF NextRow
<1>4. WaitingSends'
  BY DEF NextRow, WaitingSends
<1>5. \A p \in Producers : seq[p] <= seq'[p]
  BY DEF NextRow
<1>6. \A p \in P : seq'[p] = seq[p] + 1
  BY DEF NextRow
<1> QED
  BY <1>1, <1>2, <1>3, <1>4, <1>5, <1>6

\* What an answer does: the producers that wait for it move on, and only the
\* handler's message at the handler's offset may become acknowledged.
LEMMA AnswerFacts ==
    ASSUME TypeInv, Answer
    PROVE  /\ seq' \in [Producers -> 1..(Rows + 1)]
           /\ tries' \in [Producers -> 0..(MaxSends - 1)]
           /\ awaits' \in [Producers -> BOOLEAN]
           /\ WaitingSends'
           /\ \A p \in Producers : seq[p] <= seq'[p]
           /\ \A a \in acked' : \/ a \in acked
                                \/ /\ pc = "ack"
                                   /\ a = NewEntry(offset, msg)
                                   /\ msg[1] \in Producers
                                   /\ msg[2] = seq[msg[1]]
                                   /\ seq'[msg[1]] = seq[msg[1]] + 1
           /\ acked \subseteq acked'
           /\ UNCHANGED << roleVars, logVars >>
           /\ pc \in {"ack", "error"} /\ pc' = "idle" /\ msg' = NoMsg /\ offset' = 0
<1> DEFINE waiting == {p \in Producers : awaits[p] /\ Msg(p) = msg}
<1>1. /\ NextRow(waiting)
      /\ acked' = acked \cup {NewEntry(offset, m) :
                       m \in {Msg(p) : p \in IF pc = "ack" THEN waiting ELSE {}}}
  BY DEF Answer
<1>2. \A p \in waiting : p \in Producers /\ Sending(p) /\ Msg(p) = msg
  BY DEF TypeInv, WaitingSends
<1>3. /\ seq' \in [Producers -> 1..(Rows + 1)]
      /\ tries' \in [Producers -> 0..(MaxSends - 1)]
      /\ awaits' \in [Producers -> BOOLEAN]
      /\ WaitingSends'
      /\ \A p \in Producers : seq[p] <= seq'[p]
      /\ \A p \in waiting : seq'[p] = seq[p] + 1
  <2> HIDE DEF waiting
  <2> QED
    BY <1>1, <1>2, NextRowFacts
<1>4. \A a \in acked' : \/ a \in acked
                        \/ /\ pc = "ack"
                           /\ a = NewEntry(offset, msg)
                           /\ msg[1] \in Producers
                           /\ msg[2] = seq[msg[1]]
                           /\ seq'[msg[1]] = seq[msg[1]] + 1
  <2> SUFFICES ASSUME NEW a \in acked', a \notin acked
               PROVE  /\ pc = "ack"
                      /\ a = NewEntry(offset, msg)
                      /\ msg[1] \in Producers
                      /\ msg[2] = seq[msg[1]]
                      /\ seq'[msg[1]] = seq[msg[1]] + 1
    OBVIOUS
  <2>1. PICK p \in waiting : pc = "ack" /\ a = NewEntry(offset, Msg(p))
    BY <1>1
  <2>2. Msg(p) = msg /\ p \in Producers /\ seq'[p] = seq[p] + 1
    BY <2>1, <1>2, <1>3
  <2>3. msg[1] = p /\ msg[2] = seq[p]
    BY <2>2 DEF Msg
  <2> QED
    BY <2>1, <2>2, <2>3
<1>5. acked \subseteq acked'
  BY <1>1
<1> QED
  BY <1>3, <1>4, <1>5 DEF Answer

LEMMA TypeStep == TypeInv /\ [Next]_vars => TypeInv'
<1> SUFFICES ASSUME TypeInv, [Next]_vars PROVE TypeInv'
  OBVIOUS
<1>0. EmptyLog \in LogType(MessageIds)
  BY DEF EmptyLog, LogType
<1> USE FailoverAssumption DEF TypeInv, TypeOK, Serving, WaitingSends, HandlerPC, Brokers,
        roleVars, logVars, handlerVars, clientVars, Sending
<1>1. CASE StartLeader
  BY <1>0, <1>1 DEF StartLeader, Roles!Elect
<1>2. CASE LeaderEnds
  BY <1>0, <1>2 DEF LeaderEnds, Roles!Cease
<1>3. CASE LeaseLapses
  BY <1>3 DEF LeaseLapses, Roles!Lapse
<1>4. CASE Promote
  BY <1>4 DEF Promote, Roles!Elect
<1>5. ASSUME NEW p \in Producers, Produce(p) PROVE TypeInv'
  BY <1>5, MsgType DEF Produce
<1>6. ASSUME NEW p \in Producers, ResendLater(p) PROVE TypeInv'
  BY <1>6 DEF ResendLater
<1>7. ASSUME NEW p \in Producers, GiveUp(p) PROVE TypeInv'
  <2>1. NextRow({p}) /\ UNCHANGED << roleVars, logVars, handlerVars, acked >> /\ Sending(p)
    BY <1>7 DEF GiveUp
  <2>2. /\ seq' \in [Producers -> 1..(Rows + 1)]
        /\ tries' \in [Producers -> 0..(MaxSends - 1)]
        /\ awaits' \in [Producers -> BOOLEAN]
        /\ WaitingSends'
    BY <2>1, NextRowFacts
  <2> QED
    BY <2>1, <2>2
<1>8. CASE LeaderAppends
  <2>1. /\ leader_log' \in LogType(MessageIds)
        /\ msg \in message_ids(leader_log')
    BY <1>8, AppendNextFacts DEF LeaderAppends
  <2>2. OffsetOf(leader_log', msg) \in Nat
    BY <2>1, OffsetOfFacts
  <2> QED
    BY <1>8, <2>1, <2>2 DEF LeaderAppends
<1>9. CASE SendReplicate
  <2>1. NewEntry(offset, msg) \in LogEntry(MessageIds)
    BY <1>9, NewEntryFacts DEF SendReplicate
  <2> QED
    BY <1>9, <2>1 DEF SendReplicate
<1>10. CASE ReplicateAcked
  BY <1>10 DEF ReplicateAcked
<1>11. CASE ReplicateFails
  BY <1>11 DEF ReplicateFails
<1>12. CASE FollowerAppends
  <2>1. /\ follower_log' \in LogType(MessageIds)
        /\ msg \in message_ids(follower_log')
    BY <1>12, AppendNextFacts DEF FollowerAppends
  <2>2. OffsetOf(follower_log', msg) \in Nat
    BY <2>1, OffsetOfFacts
  <2> QED
    BY <1>12, <2>1, <2>2 DEF FollowerAppends
<1>13. CASE SetHwm
  BY <1>13 DEF SetHwm
<1>14. CASE SetHwmFails
  BY <1>14 DEF SetHwmFails
<1>15. CASE Answer
  <2>1. \A a \in acked' : a \in LogEntry(MessageIds)
    <3>1. pc = "ack" => NewEntry(offset, msg) \in LogEntry(MessageIds)
      BY NewEntryFacts
    <3>2. \A a \in acked : a \in LogEntry(MessageIds)
      OBVIOUS
    <3>3. \A a \in acked' : a \in acked \/ (pc = "ack" /\ a = NewEntry(offset, msg))
      BY <1>15, AnswerFacts
    <3> QED
      BY <3>1, <3>2, <3>3
  <2>2. TypeOK'
    BY <1>15, <2>1, AnswerFacts
  <2> QED
    BY <1>15, <2>2, AnswerFacts
<1>16. ASSUME NEW frame \in inflight, Replicate(frame) PROVE TypeInv'
  <2>1. frame.id \in MessageIds /\ frame.offset \in Nat
    BY DEF LogEntry
  <2>2. follower_log' \in LogType(MessageIds)
    BY <1>16, <2>1, AppendAtFacts DEF Replicate
  <2> QED
    BY <1>16, <2>2 DEF Replicate
<1>17. CASE UNCHANGED vars
  BY <1>17 DEF vars
<1> QED
  BY <1>1, <1>2, <1>3, <1>4, <1>5, <1>6, <1>7, <1>8, <1>9, <1>10, <1>11, <1>12, <1>13, <1>14,
     <1>15, <1>16, <1>17 DEF Next, HandlerStep

\* Type correctness of both brokers' logs, the frames and the clients.
THEOREM TypeCorrect == Spec => []TypeOK
<1>1. Spec => []TypeInv
  BY TypeInit, TypeStep, PTL DEF Spec
<1>2. TypeInv => TypeOK
  BY DEF TypeInv
<1> QED
  BY <1>1, <1>2, PTL

-----------------------------------------------------------------------------
(***************************************************************************)
(* Both logs: each message once, offsets below the next one, and the       *)
(* leader's list index is the offset.                                      *)
(***************************************************************************)
LogInv ==
    /\ UniqueIds(leader_log) /\ Positional(leader_log)
    /\ UniqueIds(follower_log) /\ BelowNext(follower_log)

LEMMA LogInit == Init => LogInv
BY EmptyLogFacts DEF Init, Fresh, LogInv

\* What a step may do to the follower's log: nothing, a frame, or, promoted, the
\* handler's message.
LEMMA FollowerLogSteps ==
    ASSUME TypeInv, LogInv, [Next]_vars
    PROVE  /\ Entries(follower_log) \subseteq Entries(follower_log')
           /\ UniqueIds(follower_log') /\ BelowNext(follower_log')
<1>1. ASSUME FollowerAppends
      PROVE  /\ Entries(follower_log) \subseteq Entries(follower_log')
             /\ UniqueIds(follower_log') /\ BelowNext(follower_log')
  <2>1. /\ follower_log' = AppendNext(follower_log, msg)
        /\ msg \in MessageIds
        /\ follower_log \in LogType(MessageIds)
    BY <1>1 DEF FollowerAppends, TypeInv, TypeOK, Serving
  <2> QED
    BY <2>1, AppendNextGrows DEF LogInv
<1>2. ASSUME NEW frame \in inflight, Replicate(frame)
      PROVE  /\ Entries(follower_log) \subseteq Entries(follower_log')
             /\ UniqueIds(follower_log') /\ BelowNext(follower_log')
  <2>1. /\ follower_log' = AppendAt(follower_log, frame.id, frame.offset)
        /\ frame.id \in MessageIds /\ frame.offset \in Nat
        /\ follower_log \in LogType(MessageIds)
    BY <1>2 DEF Replicate, TypeInv, TypeOK, LogEntry
  <2> QED
    BY <2>1, AppendAtGrows DEF LogInv
<1>3. FollowerAppends \/ (\E frame \in inflight : Replicate(frame))
        \/ UNCHANGED follower_log
  BY DEF Next, HandlerStep, vars, logVars, StartLeader, LeaderEnds, LeaseLapses, Promote,
         Produce, ResendLater, GiveUp, LeaderAppends, SendReplicate, ReplicateAcked,
         ReplicateFails, SetHwm, SetHwmFails, Answer
<1>4. CASE UNCHANGED follower_log
  BY <1>4 DEF LogInv
<1> QED
  BY <1>1, <1>2, <1>3, <1>4

LEMMA LogStep == TypeInv /\ LogInv /\ [Next]_vars => LogInv'
<1> SUFFICES ASSUME TypeInv, LogInv, [Next]_vars PROVE LogInv'
  OBVIOUS
<1>1. UniqueIds(follower_log') /\ BelowNext(follower_log')
  BY FollowerLogSteps
<1>2. LeaderAppends \/ leader_log' = EmptyLog \/ UNCHANGED leader_log
  BY DEF Next, HandlerStep, vars, logVars, StartLeader, LeaderEnds, LeaseLapses, Promote,
         Produce, ResendLater, GiveUp, LeaderAppends, SendReplicate, ReplicateAcked,
         ReplicateFails, FollowerAppends, SetHwm, SetHwmFails, Answer, Replicate
<1>3. CASE LeaderAppends
  <2>1. /\ leader_log' = AppendNext(leader_log, msg)
        /\ msg \in MessageIds
        /\ leader_log \in LogType(MessageIds)
    BY <1>3 DEF LeaderAppends, TypeInv, TypeOK, Serving
  <2> QED
    BY <1>1, <2>1, AppendNextKeeps DEF LogInv
<1>4. CASE leader_log' = EmptyLog
  BY <1>1, <1>4, EmptyLogFacts DEF LogInv
<1>5. CASE UNCHANGED leader_log
  BY <1>1, <1>5 DEF LogInv
<1> QED
  BY <1>2, <1>3, <1>4, <1>5

\* docs/ARCHITECTURE.md:295, "No duplicate writes on producer retry": a log
\* has a message once, although a retry may reach the promoted follower before a late
\* REPLICATE of the same message does, or after it.
THEOREM StoredOnce == Spec => [](UniqueIds(leader_log) /\ UniqueIds(follower_log))
<1>1. LogInv => UniqueIds(leader_log) /\ UniqueIds(follower_log)
  BY DEF LogInv
<1> QED
  BY <1>1, TypeInit, TypeStep, LogInit, LogStep, PTL DEF Spec

\* What the follower has it keeps, with its offset: through a promotion, too.
THEOREM FollowerKeeps == Spec => [][Entries(follower_log) \subseteq Entries(follower_log')]_vars
<1>1. TypeInv /\ LogInv /\ [Next]_vars
          => [Entries(follower_log) \subseteq Entries(follower_log')]_vars
  BY FollowerLogSteps
<1> QED
  BY <1>1, TypeInit, TypeStep, LogInit, LogStep, PTL DEF Spec

-----------------------------------------------------------------------------
(***************************************************************************)
(* No acknowledged message is lost: a handler past the replication has its *)
(* message in the follower's log, which only grows.                        *)
(***************************************************************************)
Confirmed == pc \in {"hwm", "ack"} => msg \in message_ids(follower_log)

SurviveInv == AckedSurvive /\ Confirmed

LEMMA SurviveInit == Init => SurviveInv
BY DEF Init, Fresh, SurviveInv, AckedSurvive, Confirmed

LEMMA SurviveStep == TypeInv /\ LogInv /\ SurviveInv /\ [Next]_vars => SurviveInv'
<1> SUFFICES ASSUME TypeInv, LogInv, SurviveInv, [Next]_vars PROVE SurviveInv'
  OBVIOUS
<1>1. message_ids(follower_log) \subseteq message_ids(follower_log')
  BY FollowerLogSteps DEF message_ids
<1>2. ASSUME pc' \in {"hwm", "ack"} => msg' \in message_ids(follower_log'),
             UNCHANGED acked
      PROVE  SurviveInv'
  BY <1>1, <1>2 DEF SurviveInv, AckedSurvive, Confirmed
<1>3. CASE pc' \notin {"hwm", "ack"} /\ UNCHANGED acked
  BY <1>2, <1>3
<1>4. CASE UNCHANGED << pc, msg, acked >>
  BY <1>1, <1>2, <1>4 DEF SurviveInv, Confirmed
<1>5. CASE ReplicateAcked
  BY <1>1, <1>2, <1>5 DEF ReplicateAcked, clientVars
<1>6. CASE FollowerAppends
  <2>1. msg \in message_ids(follower_log')
    <3>1. /\ follower_log' = AppendNext(follower_log, msg)
          /\ msg \in MessageIds
          /\ follower_log \in LogType(MessageIds)
      BY <1>6 DEF FollowerAppends, TypeInv, TypeOK, Serving
    <3> QED
      BY <3>1, AppendNextFacts
  <2> QED
    BY <1>2, <1>6, <2>1 DEF FollowerAppends, clientVars
<1>7. CASE SetHwm
  BY <1>1, <1>2, <1>7 DEF SetHwm, clientVars, SurviveInv, Confirmed
<1>8. CASE Answer
  <2>1. \A a \in acked' : a \in acked \/ (pc = "ack" /\ a = NewEntry(offset, msg))
    BY <1>8, AnswerFacts
  <2>2. \A a \in acked' : a.id \in message_ids(follower_log)
    BY <2>1 DEF SurviveInv, AckedSurvive, Confirmed, NewEntry
  <2>3. pc' = "idle"
    BY <1>8 DEF Answer
  <2> QED
    BY <1>1, <2>2, <2>3 DEF SurviveInv, AckedSurvive, Confirmed
<1>9. \/ pc' \notin {"hwm", "ack"} /\ UNCHANGED acked
      \/ UNCHANGED << pc, msg, acked >>
      \/ ReplicateAcked \/ FollowerAppends \/ SetHwm \/ Answer
  BY DEF Next, HandlerStep, vars, roleVars, logVars, handlerVars, clientVars, StartLeader,
         LeaderEnds, LeaseLapses, Promote, Produce, ResendLater, GiveUp, LeaderAppends,
         SendReplicate, ReplicateFails, SetHwmFails, Replicate
<1> QED
  BY <1>3, <1>4, <1>5, <1>6, <1>7, <1>8, <1>9

\* Whoever leads, however often the leader crashed or came back with an empty log:
\* the follower holds every acknowledged message.
THEOREM AckedNotLost == Spec => []AckedSurvive
<1>1. Init => TypeInv /\ LogInv /\ SurviveInv
  BY TypeInit, LogInit, SurviveInit
<1>2. (TypeInv /\ LogInv /\ SurviveInv) /\ [Next]_vars => (TypeInv /\ LogInv /\ SurviveInv)'
  BY TypeStep, LogStep, SurviveStep
<1>3. SurviveInv => AckedSurvive
  BY DEF SurviveInv
<1> QED
  BY <1>1, <1>2, <1>3, PTL DEF Spec

-----------------------------------------------------------------------------
(***************************************************************************)
(* Offsets, unless the leader was restarted.  In its only term the leader  *)
(* has every entry the follower has or is being sent, each id once: so     *)
(* the copy the handler finds at the follower is at the handler's offset.  *)
(***************************************************************************)
\* Before the leader's first start, unless the follower leads, nothing is stored.
Unused == starts = 0 /\ leader # Follower =>
              Entries(follower_log) = {} /\ inflight = {} /\ acked = {}

\* The handler belongs to the broker that leads.
Handling == /\ leader = Leader => starts > 0
            /\ pc # "idle" => leader # NoBroker
            /\ pc = "replicate" => leader = Leader

\* What the leader has while it leads.
LeaderHas ==
    starts <= 1 /\ leader = Leader =>
        /\ Entries(follower_log) \subseteq Entries(leader_log)
        /\ inflight \subseteq Entries(leader_log)
        /\ pc \in {"replicate", "hwm", "ack"} => NewEntry(offset, msg) \in Entries(leader_log)

\* What the follower has, whoever leads.
FollowerHas ==
    starts <= 1 =>
        /\ acked \subseteq Entries(follower_log)
        /\ pc \in {"hwm", "ack"} => NewEntry(offset, msg) \in Entries(follower_log)

OffsetInv == Unused /\ Handling /\ LeaderHas /\ FollowerHas

\* The entry found for an id is the entry with that id and the offset found.
LEMMA FoundEntry ==
    ASSUME NEW ids, NEW l \in LogType(ids), NEW id \in message_ids(l)
    PROVE  NewEntry(OffsetOf(l, id), id) \in Entries(l)
<1>1. PICK e \in Entries(l) : e.id = id /\ e.offset = OffsetOf(l, id)
  BY OffsetOfFacts
<1>2. e \in LogEntry(ids)
  BY LogFields
<1>3. e = NewEntry(OffsetOf(l, id), id)
  BY <1>1, <1>2 DEF LogEntry, NewEntry
<1> QED
  BY <1>1, <1>3

LEMMA OffsetInit == Init => OffsetInv
<1> SUFFICES ASSUME Init PROVE OffsetInv
  OBVIOUS
<1>1. /\ leader = NoBroker /\ starts = 0 /\ pc = "idle" /\ inflight = {} /\ acked = {}
      /\ follower_log = EmptyLog
  BY DEF Init, Fresh, Roles!Init
<1>2. Entries(follower_log) = {}
  BY <1>1, EmptyLogFacts
<1>3. leader # Leader
  BY <1>1, FailoverAssumption DEF Brokers
<1> QED
  BY <1>1, <1>2, <1>3 DEF OffsetInv, Unused, Handling, LeaderHas, FollowerHas

LEMMA OffsetStep == TypeInv /\ LogInv /\ OffsetInv /\ [Next]_vars => OffsetInv'
<1> SUFFICES ASSUME TypeInv, LogInv, OffsetInv, [Next]_vars PROVE OffsetInv'
  OBVIOUS
<1> USE FailoverAssumption DEF Brokers
<1>0. /\ starts \in Nat
      /\ leader_log \in LogType(MessageIds)
      /\ follower_log \in LogType(MessageIds)
      /\ inflight \subseteq LogEntry(MessageIds)
      /\ pc # "idle" => msg \in MessageIds
  BY DEF TypeInv, TypeOK, Serving
<1>1. CASE StartLeader
  <2>1. /\ leader = NoBroker /\ leader' = Leader /\ starts' = starts + 1
        /\ UNCHANGED << follower_log, inflight, pc, msg, offset, acked >>
    BY <1>1 DEF StartLeader, Roles!Elect, handlerVars, clientVars
  <2>2. pc = "idle"
    BY <2>1 DEF OffsetInv, Handling
  <2>3. starts' <= 1 => /\ Entries(follower_log) = {} /\ inflight = {} /\ acked = {}
    BY <1>0, <2>1 DEF OffsetInv, Unused
  <2> QED
    BY <1>0, <2>1, <2>2, <2>3 DEF OffsetInv, Unused, Handling, LeaderHas, FollowerHas
<1>2. CASE LeaderEnds
  <2>1. /\ leader = Leader /\ leader' = NoBroker /\ pc' = "idle"
        /\ UNCHANGED << starts, follower_log, inflight, acked >>
    BY <1>2 DEF LeaderEnds, Roles!Cease, clientVars
  <2> QED
    BY <1>0, <2>1 DEF OffsetInv, Unused, Handling, LeaderHas, FollowerHas
<1>3. CASE Promote
  <2>1. /\ leader = NoBroker /\ leader' = Follower
        /\ UNCHANGED << starts, follower_log, inflight, pc, msg, offset, acked >>
    BY <1>3 DEF Promote, Roles!Elect, logVars, handlerVars, clientVars
  <2> QED
    BY <1>0, <2>1 DEF OffsetInv, Unused, Handling, LeaderHas, FollowerHas
<1>4. CASE UNCHANGED << leader, starts, logVars, acked >> /\ UNCHANGED handlerVars
  BY <1>4 DEF OffsetInv, Unused, Handling, LeaderHas, FollowerHas, logVars, handlerVars
<1>5. ASSUME NEW p \in Producers, Produce(p) PROVE OffsetInv'
  <2>1. /\ leader # NoBroker /\ pc' = "append"
        /\ UNCHANGED << leader, starts, logVars, acked >>
    BY <1>5 DEF Produce, Reachable, roleVars
  <2> QED
    BY <2>1 DEF OffsetInv, Unused, Handling, LeaderHas, FollowerHas, logVars
<1>6. CASE LeaderAppends
  <2>1. /\ leader_log' = AppendNext(leader_log, msg)
        /\ offset' = OffsetOf(leader_log', msg)
        /\ leader = Leader /\ pc' = "replicate"
        /\ UNCHANGED << leader, starts, follower_log, inflight, msg, acked >>
        /\ msg \in MessageIds
    BY <1>0, <1>6 DEF LeaderAppends, roleVars, clientVars
  <2>2. Entries(leader_log) \subseteq Entries(leader_log')
    BY <1>0, <2>1, AppendNextKeeps DEF LogInv
  <2>3. NewEntry(offset', msg) \in Entries(leader_log')
    <3>1. leader_log' \in LogType(MessageIds) /\ msg \in message_ids(leader_log')
      BY <1>0, <2>1, AppendNextFacts
    <3> QED
      BY <2>1, <3>1, FoundEntry
  <2> QED
    BY <1>0, <2>1, <2>2, <2>3 DEF OffsetInv, Unused, Handling, LeaderHas, FollowerHas
<1>7. CASE SendReplicate
  <2>1. /\ pc = "replicate" /\ inflight' = inflight \cup {NewEntry(offset, msg)}
        /\ UNCHANGED << leader, starts, leader_log, follower_log, pc, msg, offset, acked >>
    BY <1>7 DEF SendReplicate, roleVars, handlerVars, clientVars
  <2>2. leader = Leader /\ starts > 0
    BY <2>1 DEF OffsetInv, Handling
  <2> QED
    BY <1>0, <2>1, <2>2 DEF OffsetInv, Unused, Handling, LeaderHas, FollowerHas
<1>8. CASE ReplicateAcked
  <2>1. /\ pc = "replicate" /\ pc' = "hwm" /\ msg \in message_ids(follower_log)
        /\ UNCHANGED << leader, starts, leader_log, follower_log, inflight, msg, offset, acked >>
    BY <1>8 DEF ReplicateAcked, roleVars, logVars, clientVars
  <2>2. leader = Leader
    BY <2>1 DEF OffsetInv, Handling
  <2>3. starts <= 1 => NewEntry(offset, msg) \in Entries(follower_log)
    <3> SUFFICES ASSUME starts <= 1 PROVE NewEntry(offset, msg) \in Entries(follower_log)
      OBVIOUS
    <3>1. PICK e \in Entries(follower_log) : e.id = msg
      BY <2>1 DEF message_ids
    <3>2. e \in Entries(leader_log) /\ NewEntry(offset, msg) \in Entries(leader_log)
      BY <2>1, <2>2, <3>1 DEF OffsetInv, LeaderHas
    <3>3. NewEntry(offset, msg).id = msg
      BY DEF NewEntry
    <3>4. e = NewEntry(offset, msg)
      BY <3>1, <3>2, <3>3, UniqueEntry DEF LogInv
    <3> QED
      BY <3>1, <3>4
  <2> QED
    BY <1>0, <2>1, <2>2, <2>3 DEF OffsetInv, Unused, Handling, LeaderHas, FollowerHas
<1>9. CASE FollowerAppends
  <2>1. /\ follower_log' = AppendNext(follower_log, msg)
        /\ offset' = OffsetOf(follower_log', msg)
        /\ leader = Follower /\ pc' = "hwm"
        /\ UNCHANGED << leader, starts, leader_log, inflight, msg, acked >>
        /\ msg \in MessageIds
    BY <1>0, <1>9 DEF FollowerAppends, roleVars, clientVars
  <2>2. Entries(follower_log) \subseteq Entries(follower_log')
    BY FollowerLogSteps
  <2>3. NewEntry(offset', msg) \in Entries(follower_log')
    <3>1. follower_log' \in LogType(MessageIds) /\ msg \in message_ids(follower_log')
      BY <1>0, <2>1, AppendNextFacts
    <3> QED
      BY <2>1, <3>1, FoundEntry
  <2> QED
    BY <2>1, <2>2, <2>3 DEF OffsetInv, Unused, Handling, LeaderHas, FollowerHas
<1>10. CASE ReplicateFails \/ SetHwm \/ SetHwmFails
  <2>1. /\ UNCHANGED << leader, starts, leader_log, follower_log, inflight, msg, offset, acked >>
        /\ pc # "idle"
        /\ pc' = "error" \/ (pc = "hwm" /\ pc' = "ack")
    BY <1>10 DEF ReplicateFails, SetHwm, SetHwmFails, roleVars, logVars, clientVars
  <2> QED
    BY <2>1 DEF OffsetInv, Unused, Handling, LeaderHas, FollowerHas
<1>11. CASE Answer
  <2>1. /\ UNCHANGED << leader, starts, leader_log, follower_log, inflight >>
        /\ pc # "idle" /\ pc' = "idle"
        /\ \A a \in acked' : a \in acked \/ (pc = "ack" /\ a = NewEntry(offset, msg))
    BY <1>11, AnswerFacts DEF roleVars, logVars
  <2>2. leader # NoBroker /\ ~(starts = 0 /\ leader # Follower)
    BY <1>0, <2>1 DEF OffsetInv, Handling, TypeInv, TypeOK
  <2> QED
    BY <2>1, <2>2 DEF OffsetInv, Unused, Handling, LeaderHas, FollowerHas
<1>12. ASSUME NEW frame \in inflight, Replicate(frame) PROVE OffsetInv'
  <2>1. /\ follower_log' = AppendAt(follower_log, frame.id, frame.offset)
        /\ inflight' \subseteq inflight
        /\ UNCHANGED << leader, starts, leader_log, pc, msg, offset, acked >>
        /\ frame.id \in MessageIds /\ frame.offset \in Nat
        /\ frame = NewEntry(frame.offset, frame.id)
    BY <1>0, <1>12 DEF Replicate, roleVars, handlerVars, clientVars, LogEntry, NewEntry
  <2>2. Entries(follower_log) \subseteq Entries(follower_log')
    BY FollowerLogSteps
  <2>3. Entries(follower_log') \subseteq Entries(follower_log) \cup {frame}
    BY <1>0, <2>1, AppendAtFacts
  <2>4. ~(starts = 0 /\ leader # Follower)
    BY DEF OffsetInv, Unused
  <2> QED
    BY <2>1, <2>2, <2>3, <2>4 DEF OffsetInv, Unused, Handling, LeaderHas, FollowerHas
<1>13. CASE UNCHANGED vars
  BY <1>4, <1>13 DEF vars, roleVars, clientVars
<1>14. CASE LeaseLapses
  BY <1>4, <1>14 DEF LeaseLapses, Roles!Lapse, clientVars
<1>15. ASSUME NEW p \in Producers, ResendLater(p) \/ GiveUp(p) PROVE OffsetInv'
  BY <1>4, <1>15 DEF ResendLater, GiveUp, roleVars
<1> QED
  BY <1>1, <1>2, <1>3, <1>5, <1>6, <1>7, <1>8, <1>9, <1>10, <1>11, <1>12, <1>13, <1>14, <1>15
     DEF Next, HandlerStep

\* Unless the leader was restarted: each acknowledged message is at the offset its
\* producer was told, in the follower's log and in the leader's while it leads.
THEOREM OffsetsKept == Spec => []AckedKeepOffset
<1>1. Init => TypeInv /\ LogInv /\ OffsetInv
  BY TypeInit, LogInit, OffsetInit
<1>2. (TypeInv /\ LogInv /\ OffsetInv) /\ [Next]_vars => (TypeInv /\ LogInv /\ OffsetInv)'
  BY TypeStep, LogStep, OffsetStep
<1>3. OffsetInv => AckedKeepOffset
  BY DEF OffsetInv, LeaderHas, FollowerHas, AckedKeepOffset
<1> QED
  BY <1>1, <1>2, <1>3, PTL DEF Spec

-----------------------------------------------------------------------------
(***************************************************************************)
(* Order, unless the leader was restarted: a copy of a later row of a      *)
(* producer, wherever it is, is at a higher offset than what is            *)
(* acknowledged of that producer, since a log goes on above its entries.   *)
(***************************************************************************)
\* The copies that count: stored, or underway to the follower.
Copies == Entries(follower_log) \cup inflight
              \cup IF leader = Leader THEN Entries(leader_log) ELSE {}

\* No row is stored, sent or handled before its producer gets to it.
RowsKnown ==
    /\ \A e \in Entries(leader_log) \cup Entries(follower_log) \cup inflight :
           e.id[2] <= seq[e.id[1]]
    /\ pc # "idle" => msg[2] <= seq[msg[1]]
    /\ \A a \in acked : a.id[2] < seq[a.id[1]]

LaterAbove ==
    starts <= 1 => \A a \in acked, e \in Copies :
        e.id[1] = a.id[1] /\ a.id[2] < e.id[2] => a.offset < e.offset

OrderInv == RowsKnown /\ LaterAbove

LEMMA IdType ==
    ASSUME NEW id \in MessageIds
    PROVE  id[1] \in Producers /\ id[2] \in Nat
BY FailoverAssumption DEF MessageIds

LEMMA EntryType ==
    ASSUME NEW e \in LogEntry(MessageIds)
    PROVE  e.id \in MessageIds /\ e.offset \in Nat /\ e.id[1] \in Producers /\ e.id[2] \in Nat
BY IdType DEF LogEntry

LEMMA OrderInit == Init => OrderInv
<1> SUFFICES ASSUME Init PROVE OrderInv
  OBVIOUS
<1>1. /\ inflight = {} /\ acked = {} /\ pc = "idle"
      /\ leader_log = EmptyLog /\ follower_log = EmptyLog
  BY DEF Init, Fresh
<1>2. Entries(leader_log) = {} /\ Entries(follower_log) = {}
  BY <1>1, EmptyLogFacts
<1> QED
  BY <1>1, <1>2 DEF OrderInv, RowsKnown, LaterAbove, Copies

\* Producers only go forward.
LEMMA SeqGrows ==
    ASSUME TypeInv, [Next]_vars
    PROVE  \A p \in Producers : seq[p] \in Nat /\ seq'[p] \in Nat /\ seq[p] <= seq'[p]
<1>1. /\ seq \in [Producers -> 1..(Rows + 1)] /\ Rows \in Nat
  BY FailoverAssumption DEF TypeInv, TypeOK
<1>2. ASSUME NEW p \in Producers, GiveUp(p)
      PROVE  \A q \in Producers : seq'[q] \in Nat /\ seq[q] <= seq'[q]
  BY <1>1, <1>2 DEF GiveUp, NextRow
<1>3. CASE Answer
  BY <1>1, <1>3, AnswerFacts
<1>4. CASE UNCHANGED seq
  BY <1>1, <1>4
<1>5. Answer \/ (\E p \in Producers : GiveUp(p)) \/ UNCHANGED seq
  BY DEF Next, HandlerStep, vars, clientVars, StartLeader, LeaderEnds, LeaseLapses, Promote,
         Produce, ResendLater, LeaderAppends, SendReplicate, ReplicateAcked, ReplicateFails,
         FollowerAppends, SetHwm, SetHwmFails, Replicate
<1> QED
  BY <1>1, <1>2, <1>3, <1>4, <1>5

\* A step adds at most one copy, of the handler's message or of a frame underway, and
\* acknowledges at most the handler's message.
LEMMA CopySteps ==
    ASSUME TypeInv, LogInv, OffsetInv, [Next]_vars
    PROVE  \/ /\ Copies' \subseteq Copies
              /\ acked' = acked
           \/ /\ pc = "append" /\ acked' = acked
              /\ starts' <= 1 => \A e \in Copies' :
                     \/ e \in Copies
                     \/ e.id = msg /\ \A a \in acked : a.offset < e.offset
           \/ Answer
           \/ starts' > 1
           \/ acked' = {}
<1> USE FailoverAssumption DEF Brokers
<1>0. /\ starts \in Nat
      /\ leader_log \in LogType(MessageIds)
      /\ follower_log \in LogType(MessageIds)
      /\ inflight \subseteq LogEntry(MessageIds)
      /\ pc # "idle" => msg \in MessageIds
  BY DEF TypeInv, TypeOK, Serving
<1>1. CASE StartLeader
  <2>1. /\ leader = NoBroker /\ starts' = starts + 1 /\ acked' = acked
    BY <1>1 DEF StartLeader, Roles!Elect, clientVars
  <2> QED
    BY <1>0, <2>1 DEF OffsetInv, Unused
<1>2. CASE LeaderEnds
  BY <1>2 DEF LeaderEnds, Roles!Cease, clientVars, Copies
<1>3. CASE Promote
  BY <1>3 DEF Promote, Roles!Elect, logVars, clientVars, Copies
<1>4. CASE UNCHANGED << leader, leader_log, follower_log, inflight, acked >>
  BY <1>4 DEF Copies
<1>5. ASSUME LeaderAppends
      PROVE  /\ pc = "append" /\ acked' = acked
             /\ starts' <= 1 => \A e \in Copies' :
                    \/ e \in Copies
                    \/ e.id = msg /\ \A a \in acked : a.offset < e.offset
  <2>1. /\ leader_log' = AppendNext(leader_log, msg)
        /\ leader = Leader /\ pc = "append"
        /\ UNCHANGED << leader, starts, follower_log, inflight, acked >>
        /\ msg \in MessageIds
    BY <1>0, <1>5 DEF LeaderAppends, roleVars, clientVars
  <2> DEFINE new == NewEntry(leader_log.next_offset, msg)
  <2>2. Entries(leader_log') \subseteq Entries(leader_log) \cup {new}
    BY <1>0, <2>1, AppendNextFacts
  <2>3. new.id = msg /\ new.offset = leader_log.next_offset
    BY DEF NewEntry
  <2>4. starts <= 1 => \A a \in acked : a \in Entries(leader_log)
    BY <2>1 DEF OffsetInv, LeaderHas, FollowerHas
  <2>5. \A a \in Entries(leader_log) : a.offset < leader_log.next_offset
    <3>1. leader_log.log \in Seq(LogEntry(MessageIds))
      BY <1>0, LogFields
    <3> QED
      BY <3>1 DEF LogInv, Positional, Entries
  <2>6. \A e \in Copies' : e \in Copies \/ e = new
    BY <2>1, <2>2 DEF Copies
  <2> HIDE DEF new
  <2> QED
    BY <2>1, <2>3, <2>4, <2>5, <2>6
<1>6. CASE SendReplicate
  <2>1. /\ pc = "replicate" /\ inflight' = inflight \cup {NewEntry(offset, msg)}
        /\ UNCHANGED << leader, starts, leader_log, follower_log, acked >>
    BY <1>6 DEF SendReplicate, roleVars, clientVars
  <2>2. leader = Leader
    BY <2>1 DEF OffsetInv, Handling
  <2>3. starts <= 1 => NewEntry(offset, msg) \in Entries(leader_log)
    BY <2>1, <2>2 DEF OffsetInv, LeaderHas
  <2>4. starts <= 1 => Copies' \subseteq Copies
    BY <2>1, <2>2, <2>3 DEF Copies
  <2> QED
    BY <1>0, <2>1, <2>4
<1>7. ASSUME FollowerAppends
      PROVE  /\ pc = "append" /\ acked' = acked
             /\ starts' <= 1 => \A e \in Copies' :
                    \/ e \in Copies
                    \/ e.id = msg /\ \A a \in acked : a.offset < e.offset
  <2>1. /\ follower_log' = AppendNext(follower_log, msg)
        /\ leader = Follower /\ pc = "append"
        /\ UNCHANGED << leader, starts, leader_log, inflight, acked >>
        /\ msg \in MessageIds
    BY <1>0, <1>7 DEF FollowerAppends, roleVars, clientVars
  <2> DEFINE new == NewEntry(follower_log.next_offset, msg)
  <2>2. Entries(follower_log') \subseteq Entries(follower_log) \cup {new}
    BY <1>0, <2>1, AppendNextFacts
  <2>3. new.id = msg /\ new.offset = follower_log.next_offset
    BY DEF NewEntry
  <2>4. starts <= 1 => \A a \in acked : a \in Entries(follower_log)
    BY DEF OffsetInv, FollowerHas
  <2>5. \A a \in Entries(follower_log) : a.offset < follower_log.next_offset
    BY DEF LogInv, BelowNext
  <2>6. \A e \in Copies' : e \in Copies \/ e = new
    BY <2>1, <2>2 DEF Copies
  <2> HIDE DEF new
  <2> QED
    BY <2>1, <2>3, <2>4, <2>5, <2>6
<1>8. ASSUME NEW frame \in inflight, Replicate(frame)
      PROVE  Copies' \subseteq Copies /\ acked' = acked
  <2>1. /\ follower_log' = AppendAt(follower_log, frame.id, frame.offset)
        /\ inflight' \subseteq inflight
        /\ UNCHANGED << leader, leader_log, acked >>
        /\ frame.id \in MessageIds /\ frame.offset \in Nat
        /\ frame = NewEntry(frame.offset, frame.id)
    BY <1>0, <1>8 DEF Replicate, roleVars, clientVars, LogEntry, NewEntry
  <2>2. Entries(follower_log') \subseteq Entries(follower_log) \cup {frame}
    BY <1>0, <2>1, AppendAtFacts
  <2> QED
    BY <2>1, <2>2 DEF Copies
<1>9. \/ StartLeader \/ LeaderEnds \/ Promote \/ LeaderAppends \/ SendReplicate
      \/ FollowerAppends \/ Answer \/ (\E frame \in inflight : Replicate(frame))
      \/ UNCHANGED << leader, leader_log, follower_log, inflight, acked >>
  BY DEF Next, HandlerStep, vars, roleVars, logVars, clientVars, LeaseLapses, Roles!Lapse,
         Produce, ResendLater, GiveUp, ReplicateAcked, ReplicateFails, SetHwm, SetHwmFails
<1> QED
  BY <1>1, <1>2, <1>3, <1>4, <1>5, <1>6, <1>7, <1>8, <1>9

LEMMA RowsStep == TypeInv /\ RowsKnown /\ [Next]_vars => RowsKnown'
<1> SUFFICES ASSUME TypeInv, RowsKnown, [Next]_vars PROVE RowsKnown'
  OBVIOUS
<1>0. /\ leader_log \in LogType(MessageIds)
      /\ follower_log \in LogType(MessageIds)
      /\ inflight \subseteq LogEntry(MessageIds) /\ acked \subseteq LogEntry(MessageIds)
      /\ pc # "idle" => msg \in MessageIds
  BY DEF TypeInv, TypeOK, Serving
<1> DEFINE S == Entries(leader_log) \cup Entries(follower_log) \cup inflight
           Known(e) == e \in S \/ (pc # "idle" /\ e.id = msg)
<1>1. \A p \in Producers : seq[p] \in Nat /\ seq'[p] \in Nat /\ seq[p] <= seq'[p]
  BY SeqGrows
<1>2. \A e \in LogEntry(MessageIds) : Known(e) => e.id[2] <= seq[e.id[1]]
  BY DEF RowsKnown
<1>3. S' \subseteq LogEntry(MessageIds)
  <2>1. TypeInv'
    BY TypeStep
  <2>2. leader_log' \in LogType(MessageIds) /\ follower_log' \in LogType(MessageIds)
    BY <2>1 DEF TypeInv, TypeOK
  <2>3. inflight' \subseteq LogEntry(MessageIds)
    BY <2>1 DEF TypeInv, TypeOK
  <2> QED
    BY <2>2, <2>3, LogFields
<1>4. \A e \in S' : Known(e)
  <2>1. CASE UNCHANGED << leader_log, follower_log, inflight >>
    BY <2>1
  <2>2. CASE leader_log' = EmptyLog /\ UNCHANGED << follower_log, inflight >>
    BY <2>2, EmptyLogFacts
  <2>3. CASE LeaderAppends
    <3>1. /\ leader_log' = AppendNext(leader_log, msg) /\ pc # "idle"
          /\ UNCHANGED << follower_log, inflight >> /\ msg \in MessageIds
      BY <1>0, <2>3 DEF LeaderAppends
    <3>2. Entries(leader_log') \subseteq Entries(leader_log) \cup
              {NewEntry(leader_log.next_offset, msg)}
      BY <1>0, <3>1, AppendNextFacts
    <3>3. NewEntry(leader_log.next_offset, msg).id = msg
      BY DEF NewEntry
    <3> QED
      BY <3>1, <3>2, <3>3
  <2>4. CASE FollowerAppends
    <3>1. /\ follower_log' = AppendNext(follower_log, msg) /\ pc # "idle"
          /\ UNCHANGED << leader_log, inflight >> /\ msg \in MessageIds
      BY <1>0, <2>4 DEF FollowerAppends
    <3>2. Entries(follower_log') \subseteq Entries(follower_log) \cup
              {NewEntry(follower_log.next_offset, msg)}
      BY <1>0, <3>1, AppendNextFacts
    <3>3. NewEntry(follower_log.next_offset, msg).id = msg
      BY DEF NewEntry
    <3> QED
      BY <3>1, <3>2, <3>3
  <2>5. CASE SendReplicate
    <3>1. NewEntry(offset, msg).id = msg
      BY DEF NewEntry
    <3> QED
      BY <2>5, <3>1 DEF SendReplicate
  <2>6. ASSUME NEW frame \in inflight, Replicate(frame) PROVE \A e \in S' : Known(e)
    <3>1. /\ follower_log' = AppendAt(follower_log, frame.id, frame.offset)
          /\ inflight' \subseteq inflight /\ UNCHANGED leader_log
          /\ frame.id \in MessageIds /\ frame.offset \in Nat
          /\ frame = NewEntry(frame.offset, frame.id)
      BY <1>0, <2>6 DEF Replicate, LogEntry, NewEntry
    <3>2. Entries(follower_log') \subseteq Entries(follower_log) \cup {frame}
      BY <1>0, <3>1, AppendAtFacts
    <3> QED
      BY <3>1, <3>2
  <2>7. \/ LeaderAppends \/ FollowerAppends \/ SendReplicate
        \/ \E frame \in inflight : Replicate(frame)
        \/ leader_log' = EmptyLog /\ UNCHANGED << follower_log, inflight >>
        \/ UNCHANGED << leader_log, follower_log, inflight >>
    BY DEF Next, HandlerStep, vars, logVars, StartLeader, LeaderEnds, LeaseLapses, Promote,
           Produce, ResendLater, GiveUp, ReplicateAcked, ReplicateFails, SetHwm,
           SetHwmFails, Answer
  <2> QED
    BY <2>1, <2>2, <2>3, <2>4, <2>5, <2>6, <2>7
<1>5. \A e \in S' : e.id[2] <= seq'[e.id[1]]
  <2> SUFFICES ASSUME NEW e \in S' PROVE e.id[2] <= seq'[e.id[1]]
    OBVIOUS
  <2>1. e \in LogEntry(MessageIds) /\ Known(e)
    BY <1>3, <1>4
  <2>2. e.id[2] <= seq[e.id[1]] /\ e.id[1] \in Producers /\ e.id[2] \in Nat
    BY <1>2, <2>1, EntryType
  <2> QED
    BY <1>1, <2>2
<1>6. pc' # "idle" => msg'[2] <= seq'[msg'[1]]
  <2>1. ASSUME NEW p \in Producers, Produce(p) PROVE msg'[2] <= seq'[msg'[1]]
    <3>1. msg' = << p, seq[p] >> /\ seq' = seq
      BY <2>1 DEF Produce, Msg
    <3> QED
      BY <1>1, <3>1
  <2>2. \/ \E p \in Producers : Produce(p)
        \/ pc' = "idle"
        \/ pc # "idle" /\ msg' = msg
    BY DEF Next, HandlerStep, vars, handlerVars, StartLeader, LeaderEnds, LeaseLapses, Promote,
           ResendLater, GiveUp, LeaderAppends, SendReplicate, ReplicateAcked, ReplicateFails,
           FollowerAppends, SetHwm, SetHwmFails, Answer, Replicate
  <2>3. CASE pc # "idle" /\ msg' = msg
    <3>1. msg[1] \in Producers /\ msg[2] \in Nat /\ msg[2] <= seq[msg[1]]
      BY <1>0, <2>3, IdType DEF RowsKnown
    <3> QED
      BY <1>1, <2>3, <3>1
  <2> QED
    BY <2>1, <2>2, <2>3
<1>7. \A a \in acked' : a.id[2] < seq'[a.id[1]]
  <2>1. ASSUME NEW a \in acked PROVE a.id[2] < seq'[a.id[1]]
    <3>1. a.id[1] \in Producers /\ a.id[2] \in Nat /\ a.id[2] < seq[a.id[1]]
      BY <1>0, EntryType DEF RowsKnown
    <3> QED
      BY <1>1, <3>1
  <2>2. ASSUME Answer, NEW a \in acked', a \notin acked PROVE a.id[2] < seq'[a.id[1]]
    <3>1. /\ a = NewEntry(offset, msg) /\ msg[1] \in Producers /\ msg[2] = seq[msg[1]]
          /\ seq'[msg[1]] = seq[msg[1]] + 1
      BY <2>2, AnswerFacts
    <3> QED
      BY <1>1, <3>1 DEF NewEntry
  <2>3. Answer \/ acked' = acked
    BY DEF Next, HandlerStep, vars, clientVars, StartLeader, LeaderEnds, LeaseLapses, Promote,
           Produce, ResendLater, GiveUp, LeaderAppends, SendReplicate, ReplicateAcked,
           ReplicateFails, FollowerAppends, SetHwm, SetHwmFails, Replicate
  <2> QED
    BY <2>1, <2>2, <2>3
<1> QED
  BY <1>5, <1>6, <1>7 DEF RowsKnown

LEMMA OrderStep ==
    TypeInv /\ LogInv /\ OffsetInv /\ OrderInv /\ [Next]_vars => OrderInv'
<1> SUFFICES ASSUME TypeInv, LogInv, OffsetInv, OrderInv, [Next]_vars PROVE OrderInv'
  OBVIOUS
<1>0. starts \in Nat /\ starts' \in Nat /\ starts <= starts'
  <2>1. TypeInv'
    BY TypeStep
  <2>2. starts' = starts \/ starts' = starts + 1
    BY DEF Next, HandlerStep, vars, roleVars, StartLeader, LeaderEnds, LeaseLapses, Promote,
           Produce, ResendLater, GiveUp, LeaderAppends, SendReplicate, ReplicateAcked,
           ReplicateFails, FollowerAppends, SetHwm, SetHwmFails, Answer, Replicate
  <2> QED
    BY <2>1, <2>2, FailoverAssumption DEF TypeInv, TypeOK
<1>1. RowsKnown'
  BY RowsStep DEF OrderInv
<1>2. LaterAbove'
  <2> SUFFICES ASSUME starts' <= 1, NEW a \in acked', NEW e \in Copies',
                      e.id[1] = a.id[1], a.id[2] < e.id[2]
               PROVE  a.offset < e.offset
    BY DEF LaterAbove
  <2>0. starts <= 1
    BY <1>0
  <2>1. CASE a \in acked /\ e \in Copies
    BY <2>0, <2>1 DEF OrderInv, LaterAbove
  <2>2. CASE Answer
    <3>1. Copies' = Copies
      BY <2>2, AnswerFacts DEF Copies, roleVars, logVars
    <3>2. CASE a \in acked
      BY <2>1, <3>1, <3>2
    <3>3. CASE a \notin acked
      <4>1. a = NewEntry(offset, msg) /\ pc # "idle" /\ msg[2] = seq[msg[1]]
        BY <2>2, <3>3, AnswerFacts
      <4>2. e.id[2] <= seq[e.id[1]] /\ e \in LogEntry(MessageIds)
        <5>1. e \in Entries(leader_log) \cup Entries(follower_log) \cup inflight
          BY <3>1 DEF Copies
        <5>2. /\ leader_log \in LogType(MessageIds)
              /\ follower_log \in LogType(MessageIds)
              /\ inflight \subseteq LogEntry(MessageIds)
          BY DEF TypeInv, TypeOK
        <5> QED
          BY <5>1, <5>2, LogFields DEF OrderInv, RowsKnown
      <4>3. a.id = msg /\ msg \in MessageIds
        BY <4>1 DEF NewEntry, TypeInv, Serving
      <4>4. msg[2] \in Nat /\ e.id[2] \in Nat
        BY <4>2, <4>3, IdType, EntryType
      <4> QED
        BY <4>1, <4>2, <4>3, <4>4
    <3> QED
      BY <3>2, <3>3
  <2>3. CASE ~Answer
    <3>1. acked' = acked /\ (e \in Copies \/ \A b \in acked : b.offset < e.offset)
      BY <2>3, <1>0, CopySteps
    <3> QED
      BY <2>1, <3>1
  <2> QED
    BY <2>2, <2>3
<1> QED
  BY <1>1, <1>2 DEF OrderInv

\* Unless the leader was restarted: across the failover, a producer's acknowledged
\* messages have offsets in the order it sent them.
THEOREM OrderKept == Spec => []AckedInOrder
<1>1. Init => TypeInv /\ LogInv /\ OffsetInv /\ OrderInv
  BY TypeInit, LogInit, OffsetInit, OrderInit
<1>2. (TypeInv /\ LogInv /\ OffsetInv /\ OrderInv) /\ [Next]_vars
          => (TypeInv /\ LogInv /\ OffsetInv /\ OrderInv)'
  BY TypeStep, LogStep, OffsetStep, OrderStep
<1>3. OffsetInv /\ OrderInv => AckedInOrder
  BY DEF OffsetInv, FollowerHas, OrderInv, LaterAbove, Copies, AckedInOrder
<1> QED
  BY <1>1, <1>2, <1>3, PTL DEF Spec

-----------------------------------------------------------------------------
(***************************************************************************)
(* Readability, with one producer and unless the leader was restarted:     *)
(* the handler's message is the latest, so its offset, which set_hwm       *)
(* writes whatever the HWM is, is above all that is acknowledged.          *)
(***************************************************************************)
OneProducer == \A p, q \in Producers : p = q

ReadInv ==
    OneProducer /\ starts <= 1 =>
        /\ \A a \in acked : a.offset <= hwm
        /\ pc # "idle" => \A a \in acked : a.id[2] < msg[2]
        /\ pc = "ack" => offset <= hwm

LEMMA ReadInit == Init => ReadInv
BY DEF Init, Fresh, ReadInv

LEMMA ReadStep ==
    TypeInv /\ LogInv /\ OffsetInv /\ OrderInv /\ ReadInv /\ [Next]_vars => ReadInv'
<1> SUFFICES ASSUME TypeInv, LogInv, OffsetInv, OrderInv, ReadInv, [Next]_vars,
                    OneProducer, starts' <= 1
             PROVE  /\ \A a \in acked' : a.offset <= hwm'
                    /\ pc' # "idle" => \A a \in acked' : a.id[2] < msg'[2]
                    /\ pc' = "ack" => offset' <= hwm'
  BY DEF ReadInv
<1>0. /\ starts \in Nat /\ hwm \in Int /\ offset \in Nat
      /\ acked \subseteq LogEntry(MessageIds)
      /\ pc # "idle" => msg \in MessageIds
  BY DEF TypeInv, TypeOK, Serving
<1>1. starts <= 1
  <2>1. starts' = starts \/ starts' = starts + 1
    BY DEF Next, HandlerStep, vars, roleVars, StartLeader, LeaderEnds, LeaseLapses, Promote,
           Produce, ResendLater, GiveUp, LeaderAppends, SendReplicate, ReplicateAcked,
           ReplicateFails, FollowerAppends, SetHwm, SetHwmFails, Answer, Replicate
  <2> QED
    BY <1>0, <2>1
<1>2. /\ \A a \in acked : a.offset <= hwm
      /\ pc # "idle" => \A a \in acked : a.id[2] < msg[2]
      /\ pc = "ack" => offset <= hwm
  BY <1>1 DEF ReadInv
<1>3. ASSUME NEW p \in Producers, Produce(p)
      PROVE  /\ UNCHANGED << hwm, acked >> /\ pc' = "append"
             /\ \A a \in acked : a.id[2] < msg'[2]
  <2>1. msg' = << p, seq[p] >> /\ UNCHANGED << hwm, acked >> /\ pc' = "append"
    BY <1>3 DEF Produce, Msg, logVars
  <2>2. \A a \in acked : a.id[1] = p
    BY <1>0, EntryType DEF OneProducer
  <2>3. \A a \in acked : a.id[2] < seq[a.id[1]]
    BY DEF OrderInv, RowsKnown
  <2> QED
    BY <2>1, <2>2, <2>3
<1>4. ASSUME SetHwm \/ (SetHwmFails /\ hwm' = offset)
      PROVE  /\ \A a \in acked : a.offset <= offset
             /\ pc # "idle" /\ hwm' = offset /\ UNCHANGED << msg, offset, acked >>
  <2>1. /\ pc = "hwm" /\ hwm' = offset /\ UNCHANGED << msg, offset, acked >>
    BY <1>4 DEF SetHwm, SetHwmFails, clientVars
  <2> DEFINE e == NewEntry(offset, msg)
  <2>2. e \in Copies /\ e.id = msg /\ e.offset = offset
    BY <1>1, <2>1 DEF OffsetInv, FollowerHas, Copies, NewEntry
  <2>3. msg \in MessageIds /\ msg[1] \in Producers
    BY <1>0, <2>1, IdType
  <2>4. \A a \in acked : a.id[1] = e.id[1] /\ a.id[2] < e.id[2]
    BY <1>0, <1>2, <2>1, <2>2, <2>3, EntryType DEF OneProducer
  <2>5. \A a \in acked : a.offset < e.offset
    BY <1>1, <2>2, <2>4 DEF OrderInv, LaterAbove
  <2>6. \A a \in acked : a.offset <= offset
    BY <1>0, <2>2, <2>5, EntryType
  <2> QED
    BY <2>1, <2>6
<1>5. ASSUME Answer
      PROVE  /\ pc' = "idle" /\ hwm' = hwm
             /\ \A a \in acked' : a.offset <= hwm
  BY <1>2, <1>5, AnswerFacts DEF NewEntry, logVars
<1>6. \/ \E p \in Producers : Produce(p)
      \/ SetHwm \/ (SetHwmFails /\ hwm' = offset) \/ Answer
      \/ UNCHANGED << hwm, acked >> /\ pc' = "idle"
      \/ /\ UNCHANGED << hwm, acked, msg >> /\ pc # "idle" /\ pc' # "ack"
      \/ UNCHANGED << hwm, acked, pc, msg, offset >>
  BY DEF Next, HandlerStep, vars, logVars, handlerVars, clientVars, StartLeader, LeaderEnds,
         LeaseLapses, Promote, ResendLater, GiveUp, LeaderAppends, SendReplicate,
         ReplicateAcked, ReplicateFails, FollowerAppends, SetHwmFails, Replicate
<1>7. CASE UNCHANGED << hwm, acked >> /\ pc' = "idle"
  BY <1>2, <1>7
<1>8. CASE UNCHANGED << hwm, acked, msg >> /\ pc # "idle" /\ pc' # "ack"
  BY <1>2, <1>8
<1>9. CASE UNCHANGED << hwm, acked, pc, msg, offset >>
  BY <1>2, <1>9
<1>10. ASSUME NEW p \in Producers, Produce(p)
       PROVE  /\ \A a \in acked' : a.offset <= hwm'
              /\ pc' # "idle" => \A a \in acked' : a.id[2] < msg'[2]
              /\ pc' = "ack" => offset' <= hwm'
  BY <1>2, <1>3, <1>10
<1>11. CASE SetHwm \/ (SetHwmFails /\ hwm' = offset)
  BY <1>0, <1>2, <1>4, <1>11
<1>12. CASE Answer
  BY <1>5, <1>12
<1> QED
  BY <1>6, <1>7, <1>8, <1>9, <1>10, <1>11, <1>12

\* With one producer, and unless the leader was restarted: every acknowledged message
\* is at or below the HWM, before and after the failover.
THEOREM ReadableKept == Spec => [](OneProducer => AckedReadable)
<1>1. Init => TypeInv /\ LogInv /\ OffsetInv /\ OrderInv /\ ReadInv
  BY TypeInit, LogInit, OffsetInit, OrderInit, ReadInit
<1>2. (TypeInv /\ LogInv /\ OffsetInv /\ OrderInv /\ ReadInv) /\ [Next]_vars
          => (TypeInv /\ LogInv /\ OffsetInv /\ OrderInv /\ ReadInv)'
  BY TypeStep, LogStep, OffsetStep, OrderStep, ReadStep
<1>3. ReadInv => (OneProducer => AckedReadable)
  BY DEF ReadInv, AckedReadable
<1> QED
  BY <1>1, <1>2, <1>3, PTL DEF Spec
=============================================================================

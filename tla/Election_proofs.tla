--------------------------- MODULE Election_proofs ---------------------------
(***************************************************************************)
(* Theorems about Election, for any brokers, intervals and delays.         *)
(***************************************************************************)
EXTENDS Election, TLAPS

(***************************************************************************)
(* Type correctness.  The interesting conjuncts are the bounded ones: the  *)
(* monitor's counter stays below the number of checks it needs, no clock   *)
(* runs past the deadline that stops time, the lease never outlives its    *)
(* TTL.  The first holds because a counter that reaches its limit becomes  *)
(* an election at once.                                                    *)
(***************************************************************************)
LEMMA HorizonType == Horizon \in Nat
BY ElectionAssumption DEF Horizon

LEMMA TypeInit == Init => TypeOK
BY ElectionAssumption, HorizonType
   DEF Init, TypeOK, Brokers, MainPC, RenewPC, MonitorPC, Threads, Pause

\* One step of any broker, or of time, keeps the types.
LEMMA TypeStep == TypeOK /\ [Next]_vars => TypeOK'
<1> SUFFICES ASSUME TypeOK, [Next]_vars PROVE TypeOK'
  OBVIOUS
<1> USE ElectionAssumption, HorizonType
        DEF TypeOK, MainPC, RenewPC, MonitorPC, Threads, redisVars, historyVars, Rest, Pause
<1>1. ASSUME NEW b \in Brokers, MainStep(b) PROVE TypeOK'
  <2>1. CASE Acquire(b)
    BY <2>1 DEF Acquire, SetLease
  <2>2. CASE AcquireFails(b)
    BY <2>2 DEF AcquireFails
  <2>3. CASE Announce(b)
    BY <2>3 DEF Announce
  <2>4. CASE Joined(b)
    BY <2>4 DEF Joined
  <2>5. CASE ReleaseLease(b)
    BY <2>5 DEF ReleaseLease, DeleteLease
  <2>6. CASE Retract(b)
    BY <2>6 DEF Retract
  <2>7. CASE Exit(b)
    BY <2>7 DEF Exit, Dies
  <2> QED
    BY <1>1, <2>1, <2>2, <2>3, <2>4, <2>5, <2>6, <2>7 DEF MainStep
<1>2. ASSUME NEW b \in Brokers, RenewStep(b) PROVE TypeOK'
  <2>1. CASE RenewWakes(b)
    BY <2>1 DEF RenewWakes
  <2>2. CASE RenewLease(b)
    BY <2>2 DEF RenewLease, SetLease
  <2>3. CASE RenewCurrent(b)
    BY <2>3 DEF RenewCurrent
  <2> QED
    BY <1>2, <2>1, <2>2, <2>3 DEF RenewStep
<1>3. ASSUME NEW b \in Brokers, MonitorStep(b) PROVE TypeOK'
  <2>1. CASE MonitorSeesLease(b)
    BY <2>1 DEF MonitorSeesLease
  <2>2. CASE MonitorMissesLease(b)
    <3>1. failures[b] \in Nat
      OBVIOUS
    <3>2. failures' \in [Brokers -> 0..(RequiredFailures - 1)]
      <4>1. CASE failures[b] + 1 < RequiredFailures /\ failures' = [failures EXCEPT ![b] = @ + 1]
        BY <3>1, <4>1
      <4>2. CASE UNCHANGED failures
        BY <4>2
      <4> QED
        BY <2>2, <4>1, <4>2 DEF MonitorMissesLease
    <3>3. monitor' \in [Brokers -> MonitorPC]
      BY <2>2 DEF MonitorMissesLease
    <3>4. /\ clock' \in [Brokers -> [Threads -> Nat]]
          /\ \A a \in Brokers, t \in Threads : clock'[a][t] <= Pause(t) + MaxDelay
      <4>1. CASE Rest(b, "monitor")
        BY <4>1
      <4>2. CASE UNCHANGED clock
        BY <4>2
      <4> QED
        BY <2>2, <4>1, <4>2 DEF MonitorMissesLease
    <3>5. UNCHANGED << redisVars, main, is_leader, renew, historyVars >>
      BY <2>2 DEF MonitorMissesLease
    <3> QED
      BY <3>2, <3>3, <3>4, <3>5
  <2>3. CASE ElectionWon(b)
    BY <2>3 DEF ElectionWon, SetLease
  <2>4. CASE ElectionLost(b)
    BY <2>4 DEF ElectionLost, MonitorContinues
  <2>5. CASE Promote(b)
    BY <2>5 DEF Promote, MonitorContinues
  <2> QED
    BY <1>3, <2>1, <2>2, <2>3, <2>4, <2>5 DEF MonitorStep
<1>4. ASSUME NEW b \in Brokers, Operator(b) PROVE TypeOK'
  <2>1. CASE StartLeader(b)
    BY <2>1 DEF StartLeader
  <2>2. CASE StartFollower(b)
    BY <2>2 DEF StartFollower
  <2>3. CASE StopLeader(b)
    BY <2>3 DEF StopLeader
  <2>4. CASE StopFollower(b)
    BY <2>4 DEF StopFollower
  <2>5. CASE Crash(b)
    BY <2>5 DEF Crash, Dies
  <2> QED
    BY <1>4, <2>1, <2>2, <2>3, <2>4, <2>5 DEF Operator
<1>5. ASSUME Tick PROVE TypeOK'
  <2>1. ttl' \in 0..LEADER_LEASE_TTL /\ lease' \in Brokers \cup {NoBroker}
    BY <1>5 DEF Tick
  <2>2. vacant' \in 0..Horizon /\ leaderless' \in 0..Horizon
    BY <1>5 DEF Tick, Count
  <2>3. /\ clock' \in [Brokers -> [Threads -> Nat]]
        /\ \A b \in Brokers, t \in Threads : clock'[b][t] <= Pause(t) + MaxDelay
    <3>1. ASSUME NEW b \in Brokers, NEW t \in Threads, NEW n,
                 n = IF Active(b, t) THEN clock[b][t] + 1 ELSE clock[b][t]
          PROVE  n \in Nat /\ n <= Pause(t) + MaxDelay
      <4>1. Deadline(b, t) <= Pause(t) + MaxDelay /\ Deadline(b, t) \in Nat /\ Pause(t) \in Nat
        BY DEF Deadline
      <4>2. clock[b][t] \in Nat /\ clock[b][t] <= Pause(t) + MaxDelay
        OBVIOUS
      <4>3. Active(b, t) => clock[b][t] < Deadline(b, t)
        BY <1>5 DEF Tick
      <4> QED
        BY <3>1, <4>1, <4>2, <4>3
    <3>2. clock' = [b \in Brokers |-> [t \in Threads |->
                      IF Active(b, t) THEN clock[b][t] + 1 ELSE clock[b][t]]]
      BY <1>5 DEF Tick
    <3> QED
      BY <3>1, <3>2
  <2> QED
    BY <1>5, <2>1, <2>2, <2>3 DEF Tick
<1>6. CASE UNCHANGED vars
  BY <1>6 DEF vars, threadVars
<1> QED
  BY <1>1, <1>2, <1>3, <1>4, <1>5, <1>6 DEF Next

\* The election model is type correct: no counter, clock or lease leaves its
\* range, for any intervals and any number of brokers.
THEOREM TypeCorrect == Spec => []TypeOK
<1>1. Init => TypeOK
  BY TypeInit
<1>2. TypeOK /\ [Next]_vars => TypeOK'
  BY TypeStep
<1> QED
  BY <1>1, <1>2, PTL DEF Spec
=============================================================================

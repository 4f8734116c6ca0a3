---------------------------- MODULE Lease_proofs ----------------------------
(***************************************************************************)
(* Leadership is exclusive and changes only as module Leadership allows,   *)
(* for any brokers, intervals and delays with which a lease outlasts the   *)
(* time its holder may take to write it again or to be gone.               *)
(***************************************************************************)
EXTENDS Election_proofs

\* A renewal late twice, the join of the monitor thread and a late stop().
LeaseOutlastsDelays == LEADER_LEASE_TTL > HEARTBEAT_INTERVAL + JoinTimeout + 4 * MaxDelay

\* Between winning the lease and giving it up.
Owner(b) ==
    /\ main[b] \notin {"down", "retract", "exit"}
    /\ is_leader[b] \/ main[b] \in {"announce", "release"} \/ monitor[b] = "announce"

\* Which threads run, and who is leader, at each point of the main thread.
Shape(b) ==
    /\ main[b] \in {"down", "acquire", "announce"} =>
           ~is_leader[b] /\ renew[b] = "off" /\ monitor[b] = "off"
    /\ main[b] \in {"acquire", "announce"} => b \in Leaders
    /\ main[b] = "running" /\ ~is_leader[b] => b \in Followers /\ renew[b] = "off"
    /\ main[b] = "join" => b \in Followers
    /\ monitor[b] # "off" => b \in Followers
    /\ monitor[b] = "sleep" => main[b] = "running"
    /\ monitor[b] \in {"elect", "announce"} => ~is_leader[b] /\ renew[b] = "off"

\* A thread in the middle of its work was due, and is at most MaxDelay late.
Clocks(b) ==
    /\ main[b] \notin {"down", "running", "join"} => clock[b]["main"] <= MaxDelay
    /\ monitor[b] \in {"elect", "announce"} => clock[b]["monitor"] >= HEARTBEAT_INTERVAL
    /\ renew[b] \in {"lease", "current"} => clock[b]["renew"] >= HEARTBEAT_INTERVAL

\* What is left of the lease at each point of an owner's threads: the sum of the TTL
\* and a clock does not change as time passes.
Timed(b) ==
    /\ main[b] = "announce" => ttl + clock[b]["main"] >= LEADER_LEASE_TTL
    /\ main[b] \in {"running", "join"} /\ monitor[b] = "announce" =>
           ttl + clock[b]["monitor"] >= LEADER_LEASE_TTL + HEARTBEAT_INTERVAL
    /\ main[b] = "running" /\ is_leader[b] =>
           /\ renew[b] # "off"
           /\ ttl + clock[b]["renew"] >= LEADER_LEASE_TTL - MaxDelay
           /\ renew[b] = "current" =>
                 ttl + clock[b]["renew"] >= LEADER_LEASE_TTL + HEARTBEAT_INTERVAL
    /\ main[b] = "join" /\ is_leader[b] =>
           ttl + clock[b]["main"] >= LEADER_LEASE_TTL - HEARTBEAT_INTERVAL - 2 * MaxDelay
    /\ main[b] = "release" =>
           ttl + clock[b]["main"] >= LEADER_LEASE_TTL - HEARTBEAT_INTERVAL - JoinTimeout - 3 * MaxDelay

LeaseInv ==
    /\ lease = NoBroker <=> ttl = 0
    /\ \A a, b \in Brokers : Owner(a) /\ Owner(b) => a = b
    /\ \A b \in Brokers : Shape(b) /\ Clocks(b) /\ Timed(b)

LEMMA BrokerTypes ==
    ASSUME TypeOK, NEW b \in Brokers
    PROVE  /\ main[b] \in MainPC /\ is_leader[b] \in BOOLEAN
           /\ renew[b] \in RenewPC /\ monitor[b] \in MonitorPC
           /\ clock[b]["main"] \in 0..(JoinTimeout + MaxDelay)
           /\ clock[b]["renew"] \in 0..(HEARTBEAT_INTERVAL + MaxDelay)
           /\ clock[b]["monitor"] \in 0..(HEARTBEAT_INTERVAL + MaxDelay)
           /\ ttl \in 0..LEADER_LEASE_TTL
           /\ HEARTBEAT_INTERVAL \in Nat \ {0} /\ JoinTimeout \in Nat \ {0} /\ MaxDelay \in Nat
           /\ LEADER_LEASE_TTL \in Nat \ {0}
           /\ NoBroker # b /\ ~(b \in Leaders /\ b \in Followers)
           /\ b \in Leaders \/ b \in Followers
BY ElectionAssumption DEF TypeOK, Threads, Brokers, Pause

\* While a broker owns the leadership, the lease does not run out.
LEMMA OwnerHolds ==
    ASSUME LeaseOutlastsDelays, TypeOK, LeaseInv, NEW b \in Brokers, Owner(b)
    PROVE  ttl > 0 /\ lease # NoBroker
<1>1. Shape(b) /\ Clocks(b) /\ Timed(b)
  BY DEF LeaseInv
<1>2. main[b] \in {"announce", "running", "join", "release"}
  BY <1>1, BrokerTypes DEF Owner, Shape, MainPC
<1>3. ttl > 0
  <2>1. CASE main[b] = "announce"
    BY <1>1, <2>1, BrokerTypes DEF Clocks, Timed, LeaseOutlastsDelays
  <2>2. CASE main[b] = "release"
    BY <1>1, <2>2, BrokerTypes DEF Clocks, Timed, LeaseOutlastsDelays
  <2>3. CASE main[b] = "running"
    BY <1>1, <2>3, BrokerTypes DEF Owner, Timed, LeaseOutlastsDelays
  <2>4. CASE main[b] = "join"
    BY <1>1, <2>4, BrokerTypes DEF Owner, Timed, LeaseOutlastsDelays
  <2> QED
    BY <1>2, <2>1, <2>2, <2>3, <2>4
<1> QED
  BY <1>3 DEF LeaseInv

\* A step leaves broker a's threads alone.
Same(a) ==
    /\ main'[a] = main[a] /\ is_leader'[a] = is_leader[a]
    /\ renew'[a] = renew[a] /\ monitor'[a] = monitor[a]
    /\ failures'[a] = failures[a] /\ clock'[a] = clock[a]

StepOf(b) == MainStep(b) \/ RenewStep(b) \/ MonitorStep(b) \/ Operator(b)

LEMMA RestFacts ==
    ASSUME TypeOK, NEW b \in Brokers, NEW t \in Threads, Rest(b, t)
    PROVE  /\ clock'[b][t] = 0
           /\ \A u \in Threads \ {t} : clock'[b][u] = clock[b][u]
           /\ \A a \in Brokers \ {b} : clock'[a] = clock[a]
BY DEF TypeOK, Rest

LEMMA OthersSame ==
    ASSUME TypeOK, NEW b \in Brokers, StepOf(b), NEW a \in Brokers, a # b
    PROVE  Same(a)
<1> USE DEF Same, Rest, TypeOK
<1>1. CASE MainStep(b)
  BY <1>1 DEF MainStep, Acquire, AcquireFails, Announce, Joined, ReleaseLease, Retract, Exit, Dies
<1>2. CASE RenewStep(b)
  BY <1>2 DEF RenewStep, RenewWakes, RenewLease, RenewCurrent
<1>3. CASE MonitorStep(b)
  BY <1>3 DEF MonitorStep, MonitorSeesLease, MonitorMissesLease, ElectionWon, ElectionLost,
              Promote, MonitorContinues
<1>4. CASE Operator(b)
  BY <1>4 DEF Operator, StartLeader, StartFollower, StopLeader, StopFollower, Crash, Dies
<1> QED
  BY <1>1, <1>2, <1>3, <1>4 DEF StepOf

\* A step keeps b's part of the invariant, makes b an owner only on a free lease, and
\* shortens the lease only as its owner.
Kept(b) ==
    /\ Shape(b)' /\ Clocks(b)' /\ Timed(b)'
    /\ lease' = NoBroker <=> ttl' = 0
    /\ Owner(b)' => Owner(b) \/ lease = NoBroker
    /\ ttl' >= ttl \/ Owner(b)

\* If so, it keeps the whole invariant.
LEMMA StepKeeps ==
    ASSUME LeaseOutlastsDelays, TypeOK, LeaseInv, NEW b \in Brokers, StepOf(b),
           Kept(b), ttl' \in Nat
    PROVE  LeaseInv'
<1> USE DEF Kept
<1>1. ASSUME NEW a \in Brokers, a # b
      PROVE  (Owner(a)' <=> Owner(a)) /\ Shape(a)' /\ Clocks(a)' /\ Timed(a)'
  <2>1. Same(a)
    BY <1>1, OthersSame
  <2>2. Owner(a)' <=> Owner(a)
    BY <2>1 DEF Same, Owner
  <2>3. Shape(a) /\ Clocks(a) /\ Timed(a)
    BY DEF LeaseInv
  <2>4. Shape(a)'
    BY <2>1, <2>3 DEF Same, Shape
  <2>5. Clocks(a)'
    BY <2>1, <2>3 DEF Same, Clocks
  <2>6. Timed(a)'
    <3>1. CASE ttl' >= ttl
      BY <2>1, <2>3, <3>1, BrokerTypes DEF Same, Timed
    <3>2. CASE Owner(b)
      <4>1. ~Owner(a)
        BY <1>1, <3>2 DEF LeaseInv
      <4> QED
        BY <2>1, <4>1, <2>3 DEF Same, Owner, Timed
    <3> QED
      BY <3>1, <3>2
  <2> QED
    BY <2>2, <2>4, <2>5, <2>6
<1>2. \A c \in Brokers : Shape(c)' /\ Clocks(c)' /\ Timed(c)'
  BY <1>1
<1>3. ASSUME NEW a \in Brokers, a # b, Owner(a), Owner(b)' PROVE FALSE
  BY <1>3, OwnerHolds DEF LeaseInv
<1>4. \A a, c \in Brokers : Owner(a)' /\ Owner(c)' => a = c
  BY <1>1, <1>3 DEF LeaseInv
<1> QED
  BY <1>2, <1>4 DEF LeaseInv

LEMMA OwnStep ==
    ASSUME LeaseOutlastsDelays, TypeOK, LeaseInv, NEW b \in Brokers, StepOf(b)
    PROVE  Kept(b)
<1>0. Shape(b) /\ Clocks(b) /\ Timed(b) /\ (lease = NoBroker <=> ttl = 0)
  BY DEF LeaseInv
<1>t. /\ main[b] \in MainPC /\ is_leader[b] \in BOOLEAN
      /\ renew[b] \in RenewPC /\ monitor[b] \in MonitorPC
      /\ clock[b]["main"] \in 0..(JoinTimeout + MaxDelay)
      /\ clock[b]["renew"] \in 0..(HEARTBEAT_INTERVAL + MaxDelay)
      /\ clock[b]["monitor"] \in 0..(HEARTBEAT_INTERVAL + MaxDelay)
      /\ ttl \in 0..LEADER_LEASE_TTL
      /\ HEARTBEAT_INTERVAL \in Nat \ {0} /\ JoinTimeout \in Nat \ {0} /\ MaxDelay \in Nat
      /\ LEADER_LEASE_TTL \in Nat \ {0}
      /\ NoBroker # b /\ ~(b \in Leaders /\ b \in Followers)
      /\ b \in Leaders \/ b \in Followers
  BY BrokerTypes
<1>o. Owner(b) => lease # NoBroker
  BY OwnerHolds
<1> USE <1>0, <1>t, <1>o
        DEF Kept, Owner, Shape, Clocks, Timed, LeaseOutlastsDelays, TypeOK, Threads,
            redisVars, historyVars, threadVars, Rest, Due, Pause
<1>1. CASE MainStep(b)
  <2>1. CASE Acquire(b)
    BY <2>1 DEF Acquire, SetLease
  <2>2. CASE AcquireFails(b)
    BY <2>2 DEF AcquireFails
  <2>3. CASE Announce(b)
    BY <2>3 DEF Announce
  <2>4. CASE Joined(b)
    BY <2>4 DEF Joined
  <2>5. CASE ReleaseLease(b)
    BY <2>5 DEF ReleaseLease, DeleteLease
  <2>6. CASE Retract(b)
    BY <2>6 DEF Retract
  <2>7. CASE Exit(b)
    BY <2>7 DEF Exit, Dies
  <2> QED
    BY <1>1, <2>1, <2>2, <2>3, <2>4, <2>5, <2>6, <2>7 DEF MainStep
<1>2. CASE RenewStep(b)
  <2>1. CASE RenewWakes(b)
    BY <2>1 DEF RenewWakes, Running
  <2>2. CASE RenewLease(b)
    BY <2>2 DEF RenewLease, SetLease
  <2>3. CASE RenewCurrent(b)
    BY <2>3 DEF RenewCurrent
  <2> QED
    BY <1>2, <2>1, <2>2, <2>3 DEF RenewStep
<1>3. CASE MonitorStep(b)
  <2>1. CASE MonitorSeesLease(b)
    BY <2>1 DEF MonitorSeesLease
  <2>2. CASE MonitorMissesLease(b)
    BY <2>2 DEF MonitorMissesLease
  <2>3. CASE ElectionWon(b)
    BY <2>3 DEF ElectionWon, SetLease
  <2>4. CASE ElectionLost(b)
    BY <2>4 DEF ElectionLost, MonitorContinues, Running
  <2>5. CASE Promote(b)
    BY <2>5 DEF Promote, MonitorContinues, Running
  <2> QED
    BY <1>3, <2>1, <2>2, <2>3, <2>4, <2>5 DEF MonitorStep
<1>4. CASE Operator(b)
  <2>1. CASE StartLeader(b)
    BY <2>1 DEF StartLeader
  <2>2. CASE StartFollower(b)
    BY <2>2 DEF StartFollower
  <2>3. CASE StopLeader(b)
    BY <2>3 DEF StopLeader
  <2>4. CASE StopFollower(b)
    BY <2>4 DEF StopFollower
  <2>5. CASE Crash(b)
    BY <2>5 DEF Crash, Dies
  <2> QED
    BY <1>4, <2>1, <2>2, <2>3, <2>4, <2>5 DEF Operator
<1> QED
  BY <1>1, <1>2, <1>3, <1>4 DEF StepOf

\* As time passes, the lease is shortened and every active thread gets closer to its
\* deadline, which stops time first.
LEMMA TickKeeps ==
    ASSUME LeaseOutlastsDelays, TypeOK, LeaseInv, Tick
    PROVE  LeaseInv'
<1>1. /\ main' = main /\ is_leader' = is_leader /\ renew' = renew /\ monitor' = monitor
      /\ ttl' = (IF ttl > 0 THEN ttl - 1 ELSE 0)
      /\ lease' = (IF ttl = 1 THEN NoBroker ELSE lease)
  BY DEF Tick
<1>2. ASSUME NEW b \in Brokers, NEW t \in Threads
      PROVE  /\ Active(b, t) => /\ clock'[b][t] = clock[b][t] + 1
                                /\ clock[b][t] < Deadline(b, t)
             /\ ~Active(b, t) => clock'[b][t] = clock[b][t]
  BY DEF Tick
<1>3. ASSUME NEW b \in Brokers PROVE Shape(b)' /\ Clocks(b)' /\ Timed(b)'
  <2>0. Shape(b) /\ Clocks(b) /\ Timed(b)
    BY DEF LeaseInv
  <2>1. /\ Active(b, "main") <=> main[b] \notin {"down", "running"}
        /\ Active(b, "renew") <=> renew[b] # "off"
        /\ Active(b, "monitor") <=> monitor[b] # "off"
    BY DEF Active
  <2>2. /\ main[b] \notin {"down", "running"} =>
              /\ clock'[b]["main"] = clock[b]["main"] + 1
              /\ main[b] # "join" => clock[b]["main"] < MaxDelay
        /\ renew[b] # "off" => clock'[b]["renew"] = clock[b]["renew"] + 1
        /\ monitor[b] # "off" => clock'[b]["monitor"] = clock[b]["monitor"] + 1
    BY <1>2, <2>1 DEF Threads, Deadline, Pause
  <2>3. Shape(b)'
    BY <1>1, <2>0 DEF Shape
  <2>4. Clocks(b)'
    BY <1>1, <2>0, <2>2, BrokerTypes DEF Clocks
  <2>5. Timed(b)'
    BY <1>1, <2>0, <2>2, BrokerTypes DEF Timed
  <2> QED
    BY <2>3, <2>4, <2>5
<1>4. lease' = NoBroker <=> ttl' = 0
  BY <1>1 DEF LeaseInv, TypeOK
<1>5. \A b \in Brokers : Owner(b)' <=> Owner(b)
  BY <1>1 DEF Owner
<1> QED
  BY <1>3, <1>4, <1>5 DEF LeaseInv

LEMMA LeaseInit == Init => LeaseInv
BY ElectionAssumption DEF Init, LeaseInv, Owner, Shape, Clocks, Timed, Brokers

LEMMA LeaseStep == LeaseOutlastsDelays /\ TypeOK /\ LeaseInv /\ [Next]_vars => LeaseInv'
<1> SUFFICES ASSUME LeaseOutlastsDelays, TypeOK, LeaseInv, [Next]_vars PROVE LeaseInv'
  OBVIOUS
<1>1. ASSUME NEW b \in Brokers, StepOf(b) PROVE LeaseInv'
  <2>1. ttl' \in Nat
    <3>1. [Next]_vars
      OBVIOUS
    <3> QED
      BY <3>1, TypeStep DEF TypeOK
  <2> QED
    BY <1>1, <2>1, OwnStep, StepKeeps
<1>2. CASE Tick
  BY <1>2, TickKeeps
<1>3. CASE UNCHANGED vars
  BY <1>3 DEF vars, redisVars, threadVars, LeaseInv, Owner, Shape, Clocks, Timed
<1> QED
  BY <1>1, <1>2, <1>3 DEF Next, StepOf

LEMMA LeaseInvariant ==
    ASSUME LeaseOutlastsDelays
    PROVE  Spec => [](TypeOK /\ LeaseInv)
<1>1. Init => TypeOK /\ LeaseInv
  BY TypeInit, LeaseInit
<1>2. (TypeOK /\ LeaseInv) /\ [Next]_vars => (TypeOK /\ LeaseInv)'
  BY TypeStep, LeaseStep
<1> QED
  BY <1>1, <1>2, PTL DEF Spec

\* Two running brokers never both believe they lead.
THEOREM LeaderUnique ==
    ASSUME LeaseOutlastsDelays
    PROVE  Spec => []OneLeader
<1>1. LeaseInv => OneLeader
  BY DEF LeaseInv, OneLeader, Leading, Running, Owner
<1> QED
  BY <1>1, LeaseInvariant, PTL

\* No running broker believes it leads without a lease in Redis.
THEOREM LeaseKept ==
    ASSUME LeaseOutlastsDelays
    PROVE  Spec => []LeaderKeepsLease
<1>1. TypeOK /\ LeaseInv => LeaderKeepsLease
  BY OwnerHolds DEF LeaderKeepsLease, Leading, Running, Owner
<1> QED
  BY <1>1, LeaseInvariant, PTL

-----------------------------------------------------------------------------
(***************************************************************************)
(* Every step of the threads, the operators and time is a step of          *)
(* Leadership or leaves the lease's existence and the leader as they are.  *)
(***************************************************************************)
\* The leader that Leadership sees.
TheLeader == IF \E b \in Brokers : Elected(b)
             THEN CHOOSE b \in Brokers : Elected(b) ELSE NoBroker

LEMMA ElectedOwns ==
    ASSUME TypeOK, NEW b \in Brokers, Elected(b)
    PROVE  Owner(b)
BY DEF Elected, Running, Owner

TheLeaderKnown == /\ \A b \in Brokers : Elected(b) => TheLeader = b
                  /\ (\A b \in Brokers : ~Elected(b)) => TheLeader = NoBroker

LEMMA TheLeaderIs == TypeOK /\ LeaseInv => TheLeaderKnown
<1> SUFFICES ASSUME TypeOK, LeaseInv PROVE TheLeaderKnown
  OBVIOUS
<1>1. \A a, b \in Brokers : Elected(a) /\ Elected(b) => a = b
  BY ElectedOwns DEF LeaseInv
<1>2. ASSUME NEW b \in Brokers, Elected(b) PROVE TheLeader = b
  <2>1. Elected(CHOOSE a \in Brokers : Elected(a)) /\ (CHOOSE a \in Brokers : Elected(a)) \in Brokers
    BY <1>2
  <2> QED
    BY <1>1, <1>2, <2>1 DEF TheLeader
<1> QED
  BY <1>2 DEF TheLeader, TheLeaderKnown

\* What a step of broker b does to its leadership and to the lease.
LEMMA LeadershipSteps ==
    ASSUME LeaseOutlastsDelays, TypeOK, LeaseInv, NEW b \in Brokers, StepOf(b)
    PROVE  \/ /\ Elected(b)' <=> Elected(b)
              /\ lease # NoBroker => lease' # NoBroker
           \/ /\ ~Elected(b) /\ Elected(b)'
              /\ lease = NoBroker /\ lease' # NoBroker
           \/ /\ Elected(b) /\ ~Elected(b)'
              /\ lease' = lease
           \/ /\ ~Elected(b) /\ ~Elected(b)' /\ Owner(b)
              /\ lease' = NoBroker
<1>0. Shape(b)
  BY DEF LeaseInv
<1>t. /\ main[b] \in MainPC /\ is_leader[b] \in BOOLEAN
      /\ renew[b] \in RenewPC /\ monitor[b] \in MonitorPC
      /\ NoBroker # b /\ ~(b \in Leaders /\ b \in Followers)
  BY BrokerTypes
<1> USE <1>0, <1>t DEF Owner, Shape, Elected, Running, TypeOK, redisVars, historyVars
<1>1. CASE MainStep(b)
  BY <1>1 DEF MainStep, Acquire, SetLease, AcquireFails, Announce, Joined, ReleaseLease,
              DeleteLease, Retract, Exit, Dies
<1>2. CASE RenewStep(b)
  BY <1>2 DEF RenewStep, RenewWakes, RenewLease, SetLease, RenewCurrent
<1>3. CASE MonitorStep(b)
  BY <1>3 DEF MonitorStep, MonitorSeesLease, MonitorMissesLease, ElectionWon, SetLease,
              ElectionLost, Promote, MonitorContinues
<1>4. CASE Operator(b)
  BY <1>4 DEF Operator, StartLeader, StartFollower, StopLeader, StopFollower, Crash, Dies
<1> QED
  BY <1>1, <1>2, <1>3, <1>4 DEF StepOf

OwnersHold == \A b \in Brokers : Owner(b) => lease # NoBroker

\* The same in terms of the leader that Leadership sees.
LEMMA StepImplements ==
    LeaseOutlastsDelays /\ TypeOK /\ LeaseInv /\ TheLeaderKnown
        /\ TheLeaderKnown' /\ OwnersHold' /\ [Next]_vars
      => [Lead!Next]_<< lease # NoBroker, TheLeader >>
<1> SUFFICES ASSUME LeaseOutlastsDelays, TypeOK, LeaseInv, TheLeaderKnown, TheLeaderKnown',
                    OwnersHold', [Next]_vars
             PROVE  [Lead!Next]_<< lease # NoBroker, TheLeader >>
  OBVIOUS
<1> USE DEF TheLeaderKnown
<1>1. ASSUME \A b \in Brokers : Elected(b)' <=> Elected(b)
      PROVE  TheLeader' = TheLeader
  BY <1>1
<1>2. ASSUME NEW b \in Brokers, StepOf(b)
      PROVE  [Lead!Next]_<< lease # NoBroker, TheLeader >>
  <2>1. \A a \in Brokers : a # b => (Elected(a)' <=> Elected(a))
    <3>1. \A a \in Brokers : a # b => Same(a)
      BY <1>2, OthersSame
    <3> QED
      BY <3>1 DEF Same, Elected, Running
  <2>2. b # NoBroker
    BY BrokerTypes
  <2>3. CASE (Elected(b)' <=> Elected(b)) /\ (lease # NoBroker => lease' # NoBroker)
    <3>1. TheLeader' = TheLeader
      BY <1>1, <2>1, <2>3
    <3> QED
      BY <2>3, <3>1 DEF Lead!Next, Lead!Rewrite, TheLeader
  <2>4. CASE /\ ~Elected(b) /\ Elected(b)'
             /\ lease = NoBroker /\ lease' # NoBroker
    <3>1. \A a \in Brokers : ~Elected(a)
      BY <2>4, ElectedOwns, OwnerHolds
    <3>2. TheLeader = NoBroker /\ TheLeader' = b
      BY <2>4, <3>1
    <3> QED
      BY <2>4, <3>2 DEF Lead!Next, Lead!Elect, TheLeader
  <2>5. CASE Elected(b) /\ ~Elected(b)' /\ lease' = lease
    <3>1. \A a \in Brokers : a # b => ~Elected(a)
      BY <2>5, ElectedOwns DEF LeaseInv
    <3>2. TheLeader = b /\ TheLeader' = NoBroker
      BY <2>1, <2>5, <3>1
    <3> QED
      BY <2>2, <2>5, <3>2 DEF Lead!Next, Lead!Cease, TheLeader
  <2>6. CASE ~Elected(b) /\ ~Elected(b)' /\ Owner(b) /\ lease' = NoBroker
    <3>1. \A a \in Brokers : ~Elected(a)
      BY <2>6, ElectedOwns DEF LeaseInv
    <3>2. TheLeader = NoBroker /\ TheLeader' = NoBroker
      BY <2>1, <2>6, <3>1
    <3>3. lease # NoBroker
      BY <2>6, OwnerHolds
    <3> QED
      BY <2>6, <3>2, <3>3 DEF Lead!Next, Lead!Lapse, TheLeader
  <2> QED
    BY <1>2, <2>3, <2>4, <2>5, <2>6, LeadershipSteps
<1>3. CASE Tick
  <2>1. /\ \A b \in Brokers : Elected(b)' <=> Elected(b)
        /\ lease' = lease \/ lease' = NoBroker
    BY <1>3 DEF Tick, Elected, Running
  <2>2. TheLeader' = TheLeader
    BY <1>1, <2>1
  <2>3. ASSUME lease # NoBroker, lease' = NoBroker PROVE TheLeader = NoBroker
    <3>1. ASSUME NEW b \in Brokers, Elected(b) PROVE FALSE
      <4>1. Owner(b)
        BY <3>1, ElectedOwns
      <4>2. Owner(b)'
        BY <1>3, <4>1 DEF Tick, Owner
      <4>3. lease' # NoBroker
        BY <4>2 DEF OwnersHold
      <4> QED
        BY <2>3, <4>3
    <3> QED
      BY <3>1
  <2> QED
    BY <2>1, <2>2, <2>3 DEF Lead!Next, Lead!Lapse, TheLeader
<1>4. CASE UNCHANGED vars
  <2>1. \A b \in Brokers : Elected(b)' <=> Elected(b)
    BY <1>4 DEF vars, threadVars, Elected, Running
  <2>2. lease' = lease
    BY <1>4 DEF vars, redisVars
  <2> QED
    BY <1>1, <2>1, <2>2 DEF TheLeader
<1> QED
  BY <1>2, <1>3, <1>4 DEF Next, StepOf

\* Election implements Leadership: whoever is elected finds neither lease nor leader,
\* and the lease stays while the leader lives.
THEOREM LeadershipImplemented ==
    ASSUME LeaseOutlastsDelays
    PROVE  Spec => ImplementsLeadership
<1>1. Init => Lead!Init
  <2> SUFFICES ASSUME Init PROVE Lead!Init
    OBVIOUS
  <2>1. \A b \in Brokers : ~Elected(b)
    BY DEF Init, Elected, Running
  <2> QED
    BY <2>1 DEF Init, Lead!Init
<1>2. TypeOK /\ LeaseInv => TheLeaderKnown /\ OwnersHold
  BY TheLeaderIs, OwnerHolds DEF OwnersHold
<1>3. TypeOK /\ LeaseInv /\ TheLeaderKnown /\ TheLeaderKnown' /\ OwnersHold' /\ [Next]_vars
          => [Lead!Next]_<< lease # NoBroker, TheLeader >>
  BY StepImplements
<1> QED
  BY <1>1, <1>2, <1>3, LeaseInvariant, PTL DEF Spec, ImplementsLeadership, Lead!Spec, TheLeader

-----------------------------------------------------------------------------
(***************************************************************************)
(* How long a lease is missing: each running follower has counted it, in   *)
(* missed checks and in the pause it is in.                                *)
(***************************************************************************)
LatePause == HEARTBEAT_INTERVAL + MaxDelay

VacancyInv ==
    /\ lease # NoBroker => vacant = 0
    /\ \A b \in Followers : main[b] = "running" =>
           /\ monitor[b] # "off"
           /\ vacant <= failures[b] * LatePause + clock[b]["monitor"]

LEMMA VacancyTypes ==
    ASSUME TypeOK, NEW b \in Brokers
    PROVE  /\ failures[b] \in Nat /\ failures[b] + 1 <= RequiredFailures
           /\ clock[b]["monitor"] \in Nat /\ clock[b]["monitor"] <= LatePause
           /\ vacant \in Nat /\ LatePause \in Nat /\ RequiredFailures \in Nat
BY ElectionAssumption, HorizonType DEF TypeOK, LatePause, Threads, Pause

\* Missed checks below n, each after a late pause, fit n late pauses.
LEMMA Pauses ==
    ASSUME NEW f \in Nat, NEW n \in Nat, f + 1 <= n, NEW k \in Nat
    PROVE  /\ f * k \in Nat /\ n * k \in Nat
           /\ (f + 1) * k = f * k + k
           /\ f * k + k <= n * k
<1>1. (f + 1) * k = f * k + k /\ f * k \in Nat /\ n * k \in Nat
  OBVIOUS
<1>2. PICK d \in Nat : n = (f + 1) + d
  <2>1. n - (f + 1) \in Nat /\ n = (f + 1) + (n - (f + 1))
    OBVIOUS
  <2> QED
    BY <2>1
<1>3. n * k = (f + 1) * k + d * k /\ d * k \in Nat
  BY <1>2
<1> QED
  BY <1>1, <1>3

LEMMA VacancyInit == Init => VacancyInv
BY DEF Init, VacancyInv, Brokers

LEMMA VacancyBound ==
    ASSUME TypeOK, VacancyInv, NEW f \in Followers, main[f] = "running"
    PROVE  vacant <= RequiredFailures * LatePause
<1>1. f \in Brokers
  BY DEF Brokers
<1>2. vacant <= failures[f] * LatePause + clock[f]["monitor"]
  BY DEF VacancyInv
<1> QED
  BY <1>1, <1>2, VacancyTypes, Pauses

LEMMA VacancyOwnStep ==
    ASSUME LeaseOutlastsDelays, TypeOK, LeaseInv, VacancyInv, NEW b \in Brokers, StepOf(b)
    PROVE  /\ vacant' = vacant \/ vacant' = 0
           /\ lease' # NoBroker => vacant' = 0
           /\ b \in Followers /\ main'[b] = "running" =>
                 /\ monitor'[b] # "off"
                 /\ vacant' <= failures'[b] * LatePause + clock'[b]["monitor"]
<1>0. Shape(b) /\ (lease # NoBroker => vacant = 0)
  BY DEF LeaseInv, VacancyInv
<1>1. /\ b \in Followers /\ main[b] = "running" =>
            /\ monitor[b] # "off"
            /\ vacant <= failures[b] * LatePause + clock[b]["monitor"]
  BY DEF VacancyInv
<1>o. Owner(b) => lease # NoBroker
  BY OwnerHolds
<1>p. /\ failures[b] * LatePause \in Nat
      /\ (failures[b] + 1) * LatePause = failures[b] * LatePause + LatePause
      /\ 0 * LatePause = 0
  BY VacancyTypes, Pauses
<1>t. /\ clock[b]["monitor"] \in Nat /\ clock[b]["monitor"] <= LatePause /\ vacant \in Nat
      /\ LatePause \in Nat /\ HEARTBEAT_INTERVAL \in Nat /\ LEADER_LEASE_TTL \in Nat
      /\ ~(b \in Leaders /\ b \in Followers) /\ NoBroker # b
  BY VacancyTypes, BrokerTypes, ElectionAssumption
<1> USE <1>0, <1>1, <1>o, <1>p, <1>t
        DEF Owner, Shape, TypeOK, Threads, redisVars, historyVars, threadVars, Rest
<1>2. CASE MainStep(b)
  <2>1. CASE Acquire(b)
    BY <2>1 DEF Acquire, SetLease
  <2>2. CASE AcquireFails(b) \/ Retract(b)
    BY <2>2 DEF AcquireFails, Retract
  <2>3. CASE Announce(b)
    BY <2>3 DEF Announce
  <2>4. CASE Joined(b)
    BY <2>4 DEF Joined
  <2>5. CASE ReleaseLease(b)
    BY <2>5 DEF ReleaseLease, DeleteLease
  <2>6. CASE Exit(b)
    BY <2>6 DEF Exit, Dies
  <2> QED
    BY <1>2, <2>1, <2>2, <2>3, <2>4, <2>5, <2>6 DEF MainStep
<1>3. CASE RenewStep(b)
  BY <1>3 DEF RenewStep, RenewWakes, RenewLease, SetLease, RenewCurrent
<1>4. CASE MonitorStep(b)
  <2>1. CASE MonitorSeesLease(b)
    BY <2>1 DEF MonitorSeesLease
  <2>2. CASE MonitorMissesLease(b)
    <3>1. CASE /\ failures' = [failures EXCEPT ![b] = @ + 1]
               /\ Rest(b, "monitor") /\ UNCHANGED monitor
      BY <2>2, <3>1 DEF MonitorMissesLease
    <3>2. CASE monitor' = [monitor EXCEPT ![b] = "elect"] /\ UNCHANGED << failures, clock >>
      BY <2>2, <3>2 DEF MonitorMissesLease
    <3> QED
      BY <2>2, <3>1, <3>2 DEF MonitorMissesLease
  <2>3. CASE ElectionWon(b)
    BY <2>3 DEF ElectionWon, SetLease
  <2>4. CASE ElectionLost(b)
    BY <2>4 DEF ElectionLost, MonitorContinues, Running
  <2>5. CASE Promote(b)
    BY <2>5 DEF Promote, MonitorContinues, Running
  <2> QED
    BY <1>4, <2>1, <2>2, <2>3, <2>4, <2>5 DEF MonitorStep
<1>5. CASE Operator(b)
  <2>1. CASE StartLeader(b)
    BY <2>1 DEF StartLeader
  <2>2. CASE StartFollower(b)
    BY <2>2 DEF StartFollower
  <2>3. CASE StopLeader(b)
    BY <2>3 DEF StopLeader
  <2>4. CASE StopFollower(b)
    BY <2>4 DEF StopFollower
  <2>5. CASE Crash(b)
    BY <2>5 DEF Crash, Dies
  <2> QED
    BY <1>5, <2>1, <2>2, <2>3, <2>4, <2>5 DEF Operator
<1> QED
  BY <1>2, <1>3, <1>4, <1>5 DEF StepOf

LEMMA VacancyTick ==
    ASSUME LeaseOutlastsDelays, TypeOK, LeaseInv, VacancyInv, VacancyBounded, Tick
    PROVE  VacancyInv' /\ VacancyBounded'
<1>0. vacant \in Nat /\ LatePause \in Nat /\ RequiredFailures \in Nat /\ vacant' \in Nat
  BY ElectionAssumption, HorizonType DEF TypeOK, LatePause, Tick, Count
<1>1. lease # NoBroker \/ ~FollowerRunning => vacant' = 0
  BY DEF Tick
<1>2. vacant' <= vacant + 1
  BY <1>0 DEF Tick, Count
<1>3. lease' # NoBroker => vacant' = 0
  BY <1>1 DEF Tick, TypeOK
<1>4. main' = main /\ monitor' = monitor /\ failures' = failures
  BY DEF Tick
<1>5. ASSUME NEW b \in Followers, main[b] = "running"
      PROVE  /\ monitor[b] # "off"
             /\ vacant' <= failures[b] * LatePause + clock'[b]["monitor"]
             /\ vacant' <= RequiredFailures * LatePause
  <2>1. b \in Brokers
    BY DEF Brokers
  <2>2. monitor[b] # "off" /\ vacant <= failures[b] * LatePause + clock[b]["monitor"]
    BY <1>5 DEF VacancyInv
  <2>3. /\ clock'[b]["monitor"] = clock[b]["monitor"] + 1
        /\ clock[b]["monitor"] < LatePause
    <3>1. Active(b, "monitor") /\ Deadline(b, "monitor") = LatePause
      BY <2>2 DEF Active, Deadline, LatePause, Pause
    <3> QED
      BY <2>1, <3>1 DEF Tick, Threads
  <2>4. failures[b] * LatePause \in Nat
        /\ failures[b] * LatePause + LatePause <= RequiredFailures * LatePause
    BY <2>1, VacancyTypes, Pauses
  <2>5. clock[b]["monitor"] \in Nat /\ RequiredFailures * LatePause \in Nat
    BY <1>0, <2>1, VacancyTypes
  <2> QED
    BY <1>0, <1>2, <2>2, <2>3, <2>4, <2>5
<1>6. vacant' <= RequiredFailures * LatePause
  <2>1. CASE FollowerRunning
    BY <1>5, <2>1 DEF FollowerRunning
  <2>2. CASE ~FollowerRunning
    BY <1>0, <1>1, <2>2
  <2> QED
    BY <2>1, <2>2
<1> QED
  BY <1>3, <1>4, <1>5, <1>6 DEF VacancyInv, VacancyBounded, LatePause

LEMMA VacancyStep ==
    LeaseOutlastsDelays /\ TypeOK /\ LeaseInv /\ VacancyInv /\ VacancyBounded /\ [Next]_vars
      => VacancyInv' /\ VacancyBounded'
<1> SUFFICES ASSUME LeaseOutlastsDelays, TypeOK, LeaseInv, VacancyInv, VacancyBounded,
                    [Next]_vars
             PROVE  VacancyInv' /\ VacancyBounded'
  OBVIOUS
<1>1. ASSUME NEW b \in Brokers, StepOf(b) PROVE VacancyInv' /\ VacancyBounded'
  <2>1. /\ vacant' = vacant \/ vacant' = 0
        /\ lease' # NoBroker => vacant' = 0
        /\ b \in Followers /\ main'[b] = "running" =>
              /\ monitor'[b] # "off"
              /\ vacant' <= failures'[b] * LatePause + clock'[b]["monitor"]
    BY <1>1, VacancyOwnStep
  <2>2. vacant \in Nat /\ RequiredFailures * LatePause \in Nat
    BY VacancyTypes
  <2>3. ASSUME NEW f \in Followers, f # b, main'[f] = "running"
        PROVE  /\ monitor'[f] # "off"
               /\ vacant' <= failures'[f] * LatePause + clock'[f]["monitor"]
    <3>1. f \in Brokers /\ Same(f)
      BY <1>1, <2>3, OthersSame DEF Brokers
    <3>2. monitor[f] # "off" /\ vacant <= failures[f] * LatePause + clock[f]["monitor"]
      BY <2>3, <3>1 DEF Same, VacancyInv
    <3>3. failures[f] * LatePause \in Nat /\ clock[f]["monitor"] \in Nat
      BY <3>1, VacancyTypes
    <3>4. failures'[f] = failures[f] /\ clock'[f] = clock[f] /\ monitor'[f] = monitor[f]
      BY <3>1 DEF Same
    <3> QED
      BY <2>1, <2>2, <3>2, <3>3, <3>4
  <2>4. VacancyBounded'
    BY <2>1, <2>2 DEF VacancyBounded, LatePause
  <2> QED
    BY <2>1, <2>3, <2>4 DEF VacancyInv
<1>2. CASE Tick
  BY <1>2, VacancyTick
<1>3. CASE UNCHANGED vars
  BY <1>3 DEF vars, redisVars, threadVars, historyVars, VacancyInv, VacancyBounded
<1> QED
  BY <1>1, <1>2, <1>3 DEF Next, StepOf

LEMMA VacancyInvariant ==
    ASSUME LeaseOutlastsDelays
    PROVE  Spec => [](VacancyInv /\ VacancyBounded)
<1>1. Init => VacancyInv /\ VacancyBounded
  <2> SUFFICES ASSUME Init PROVE VacancyInv /\ VacancyBounded
    OBVIOUS
  <2>1. vacant = 0 /\ RequiredFailures * LatePause \in Nat
    BY ElectionAssumption DEF Init, LatePause
  <2> QED
    BY <2>1, VacancyInit DEF VacancyBounded, LatePause
<1>2. TypeOK /\ LeaseInv /\ VacancyInv /\ VacancyBounded /\ [Next]_vars
        => VacancyInv' /\ VacancyBounded'
  BY VacancyStep
<1> QED
  BY <1>1, <1>2, LeaseInvariant, PTL DEF Spec

\* With a follower running, a lost lease is taken again within as many late checks as
\* an election needs.
THEOREM VacancyLimited ==
    ASSUME LeaseOutlastsDelays
    PROVE  Spec => []VacancyBounded
BY VacancyInvariant, PTL

-----------------------------------------------------------------------------
(***************************************************************************)
(* How long there is no leader: what the old lease has used up since the   *)
(* leader was last heard of, and then the vacancy.  A leader's renewal     *)
(* that was due before it stopped may still write the lease, not later.    *)
(***************************************************************************)
LeaderlessInv ==
    /\ \A b \in Brokers : Leading(b) => leaderless = 0
    /\ \A b \in Brokers : renew[b] = "lease" =>
              leaderless + HEARTBEAT_INTERVAL <= clock[b]["renew"]
    /\ leaderless <= LEADER_LEASE_TTL + MaxDelay + vacant - ttl

LEMMA LeaderlessInit == Init => LeaderlessInv
BY ElectionAssumption DEF Init, LeaderlessInv, Leading, Running

LEMMA LeaderlessOwnStep ==
    ASSUME LeaseOutlastsDelays, TypeOK, LeaseInv, VacancyInv, LeaderlessInv,
           NEW b \in Brokers, StepOf(b)
    PROVE  /\ leaderless' = leaderless \/ leaderless' = 0
           /\ Leading(b)' => leaderless' = 0
           /\ renew'[b] = "lease" => leaderless' + HEARTBEAT_INTERVAL <= clock'[b]["renew"]
           /\ leaderless' <= LEADER_LEASE_TTL + MaxDelay + vacant' - ttl'
<1>0. Shape(b) /\ Clocks(b)
  BY DEF LeaseInv
<1>1. /\ Leading(b) => leaderless = 0
      /\ renew[b] = "lease" => leaderless + HEARTBEAT_INTERVAL <= clock[b]["renew"]
      /\ leaderless <= LEADER_LEASE_TTL + MaxDelay + vacant - ttl
  BY DEF LeaderlessInv
<1>2. lease # NoBroker => vacant = 0
  BY DEF VacancyInv
<1>t. /\ clock[b]["renew"] \in 0..(HEARTBEAT_INTERVAL + MaxDelay)
      /\ leaderless \in Nat /\ vacant \in Nat /\ ttl \in 0..LEADER_LEASE_TTL
      /\ HEARTBEAT_INTERVAL \in Nat /\ MaxDelay \in Nat /\ LEADER_LEASE_TTL \in Nat
      /\ ~(b \in Leaders /\ b \in Followers) /\ NoBroker # b
  BY BrokerTypes, HorizonType DEF TypeOK
<1>o. Owner(b) => lease # NoBroker
  BY OwnerHolds
<1> USE <1>0, <1>1, <1>2, <1>t, <1>o
        DEF Leading, Running, Owner, Shape, Clocks, TypeOK, Threads, redisVars, historyVars,
            threadVars, Rest, Due, Pause
<1>3. CASE MainStep(b)
  <2>1. CASE Acquire(b)
    BY <2>1 DEF Acquire, SetLease
  <2>2. CASE AcquireFails(b) \/ Retract(b)
    BY <2>2 DEF AcquireFails, Retract
  <2>3. CASE Announce(b)
    BY <2>3 DEF Announce
  <2>4. CASE Joined(b)
    BY <2>4 DEF Joined
  <2>5. CASE ReleaseLease(b)
    BY <2>5 DEF ReleaseLease, DeleteLease
  <2>6. CASE Exit(b)
    BY <2>6 DEF Exit, Dies
  <2> QED
    BY <1>3, <2>1, <2>2, <2>3, <2>4, <2>5, <2>6 DEF MainStep
<1>4. CASE RenewStep(b)
  <2>1. CASE RenewWakes(b)
    BY <2>1 DEF RenewWakes
  <2>2. CASE RenewLease(b)
    BY <2>2 DEF RenewLease, SetLease
  <2>3. CASE RenewCurrent(b)
    BY <2>3 DEF RenewCurrent
  <2> QED
    BY <1>4, <2>1, <2>2, <2>3 DEF RenewStep
<1>5. CASE MonitorStep(b)
  <2>1. CASE MonitorSeesLease(b)
    BY <2>1 DEF MonitorSeesLease
  <2>2. CASE MonitorMissesLease(b)
    BY <2>2 DEF MonitorMissesLease
  <2>3. CASE ElectionWon(b)
    BY <2>3 DEF ElectionWon, SetLease
  <2>4. CASE ElectionLost(b)
    BY <2>4 DEF ElectionLost, MonitorContinues
  <2>5. CASE Promote(b)
    BY <2>5 DEF Promote, MonitorContinues
  <2> QED
    BY <1>5, <2>1, <2>2, <2>3, <2>4, <2>5 DEF MonitorStep
<1>6. CASE Operator(b)
  <2>1. CASE StartLeader(b)
    BY <2>1 DEF StartLeader
  <2>2. CASE StartFollower(b)
    BY <2>2 DEF StartFollower
  <2>3. CASE StopLeader(b)
    BY <2>3 DEF StopLeader
  <2>4. CASE StopFollower(b)
    BY <2>4 DEF StopFollower
  <2>5. CASE Crash(b)
    BY <2>5 DEF Crash, Dies
  <2> QED
    BY <1>6, <2>1, <2>2, <2>3, <2>4, <2>5 DEF Operator
<1> QED
  BY <1>3, <1>4, <1>5, <1>6 DEF StepOf

LEMMA LeaderlessTick ==
    ASSUME LeaseOutlastsDelays, TypeOK, LeaseInv, VacancyInv, VacancyBounded, LeaderlessInv, Tick
    PROVE  LeaderlessInv'
<1>0. /\ leaderless \in Nat /\ vacant \in Nat /\ ttl \in 0..LEADER_LEASE_TTL
      /\ HEARTBEAT_INTERVAL \in Nat /\ MaxDelay \in Nat /\ LEADER_LEASE_TTL \in Nat
  BY ElectionAssumption, HorizonType DEF TypeOK
<1>6. lease = NoBroker <=> ttl = 0
  BY DEF LeaseInv
<1>1. /\ main' = main /\ is_leader' = is_leader /\ renew' = renew
      /\ ttl' = IF ttl > 0 THEN ttl - 1 ELSE 0
  BY DEF Tick
<1>2. leaderless' \in Nat /\ leaderless' <= leaderless + 1
  BY <1>0, HorizonType DEF Tick, Count
<1>3. \A b \in Brokers : Leading(b)' => leaderless' = 0
  BY DEF Tick, Leading, Running
<1>4. ASSUME NEW b \in Brokers, renew'[b] = "lease"
      PROVE  leaderless' + HEARTBEAT_INTERVAL <= clock'[b]["renew"]
  <2>1. clock'[b]["renew"] = clock[b]["renew"] + 1
    BY <1>1, <1>4 DEF Tick, Active, Threads
  <2>2. leaderless + HEARTBEAT_INTERVAL <= clock[b]["renew"] /\ clock[b]["renew"] \in Nat
    BY <1>1, <1>4, BrokerTypes DEF LeaderlessInv
  <2> QED
    BY <1>0, <1>2, <2>1, <2>2
<1>5. leaderless' <= LEADER_LEASE_TTL + MaxDelay + vacant' - ttl'
  <2>1. leaderless <= LEADER_LEASE_TTL + MaxDelay + vacant - ttl
    BY DEF LeaderlessInv
  <2>2. CASE lease # NoBroker
    <3>1. vacant = 0 /\ vacant' = 0 /\ ttl' = ttl - 1
      BY <1>0, <1>6, <1>1, <2>2 DEF VacancyInv, Tick
    <3> QED
      BY <1>0, <1>2, <2>1, <3>1
  <2>3. CASE lease = NoBroker /\ FollowerRunning
    <3>1. vacant' = vacant + 1
      <4>1. vacant < Horizon
        <5>1. RequiredFailures * (HEARTBEAT_INTERVAL + MaxDelay) < Horizon
          <6>1. /\ RequiredFailures \in Nat /\ LatePause \in Nat
                /\ (RequiredFailures + 1) * LatePause = RequiredFailures * LatePause + LatePause
                /\ RequiredFailures * LatePause \in Nat
            <7>1. RequiredFailures \in Nat /\ LatePause \in Nat
              BY ElectionAssumption DEF LatePause
            <7> HIDE DEF LatePause
            <7> QED
              BY <7>1, Pauses
          <6> QED
            BY <1>0, <6>1, ElectionAssumption DEF Horizon, LatePause
        <5> QED
          BY <1>0, <5>1, HorizonType, ElectionAssumption DEF VacancyBounded
      <4> QED
        BY <2>3, <4>1 DEF Tick, Count
    <3>2. ttl = 0 /\ ttl' = 0
      BY <1>1, <1>6, <2>3
    <3> QED
      BY <1>0, <1>2, <2>1, <3>1, <3>2
  <2>4. CASE lease = NoBroker /\ ~FollowerRunning
    <3>1. leaderless' = 0 /\ vacant' = 0 /\ ttl' = 0
      BY <1>1, <1>6, <2>4 DEF Tick
    <3> QED
      BY <1>0, <3>1
  <2> QED
    BY <2>2, <2>3, <2>4
<1> QED
  BY <1>3, <1>4, <1>5 DEF LeaderlessInv

LEMMA LeaderlessStep ==
    LeaseOutlastsDelays /\ TypeOK /\ LeaseInv /\ VacancyInv /\ VacancyBounded
        /\ LeaderlessInv /\ [Next]_vars
      => LeaderlessInv'
<1> SUFFICES ASSUME LeaseOutlastsDelays, TypeOK, LeaseInv, VacancyInv, VacancyBounded,
                    LeaderlessInv, [Next]_vars
             PROVE  LeaderlessInv'
  OBVIOUS
<1>1. ASSUME NEW b \in Brokers, StepOf(b) PROVE LeaderlessInv'
  <2>1. /\ leaderless' = leaderless \/ leaderless' = 0
        /\ Leading(b)' => leaderless' = 0
        /\ renew'[b] = "lease" => leaderless' + HEARTBEAT_INTERVAL <= clock'[b]["renew"]
        /\ leaderless' <= LEADER_LEASE_TTL + MaxDelay + vacant' - ttl'
    BY <1>1, LeaderlessOwnStep
  <2>2. ASSUME NEW a \in Brokers, a # b
        PROVE  /\ Leading(a)' => leaderless' = 0
               /\ renew'[a] = "lease" => leaderless' + HEARTBEAT_INTERVAL <= clock'[a]["renew"]
    <3>1. Same(a)
      BY <1>1, <2>2, OthersSame
    <3>2. /\ Leading(a) => leaderless = 0
          /\ renew[a] = "lease" => leaderless + HEARTBEAT_INTERVAL <= clock[a]["renew"]
      BY DEF LeaderlessInv
    <3>3. leaderless \in Nat /\ clock[a]["renew"] \in Nat /\ HEARTBEAT_INTERVAL \in Nat
      BY BrokerTypes, HorizonType DEF TypeOK
    <3>4. Leading(a)' => Leading(a)
      BY <3>1 DEF Same, Leading, Running
    <3>5. renew'[a] = renew[a] /\ clock'[a] = clock[a]
      BY <3>1 DEF Same
    <3> QED
      BY <2>1, <3>2, <3>3, <3>4, <3>5
  <2> QED
    BY <2>1, <2>2 DEF LeaderlessInv
<1>2. CASE Tick
  BY <1>2, LeaderlessTick
<1>3. CASE UNCHANGED vars
  BY <1>3 DEF vars, redisVars, threadVars, historyVars, LeaderlessInv, Leading, Running
<1> QED
  BY <1>1, <1>2, <1>3 DEF Next, StepOf

\* With a follower running, there is a leader again after at most the rest of the old
\* lease, written once more, and the checks an election needs.
THEOREM FailoverLimited ==
    ASSUME LeaseOutlastsDelays
    PROVE  Spec => []FailoverBounded
<1>1. Init => LeaderlessInv
  BY LeaderlessInit
<1>2. TypeOK /\ LeaseInv /\ VacancyInv /\ VacancyBounded /\ LeaderlessInv /\ [Next]_vars
        => LeaderlessInv'
  BY LeaderlessStep
<1>3. TypeOK /\ VacancyBounded /\ LeaderlessInv => FailoverBounded
  <2> SUFFICES ASSUME TypeOK, VacancyBounded, LeaderlessInv PROVE FailoverBounded
    OBVIOUS
  <2>1. /\ leaderless \in Nat /\ vacant \in Nat /\ ttl \in Nat /\ LEADER_LEASE_TTL \in Nat
        /\ MaxDelay \in Nat /\ RequiredFailures * (HEARTBEAT_INTERVAL + MaxDelay) \in Nat
    BY ElectionAssumption, HorizonType DEF TypeOK
  <2> QED
    BY <2>1 DEF VacancyBounded, LeaderlessInv, FailoverBounded
<1> QED
  BY <1>1, <1>2, <1>3, LeaseInvariant, VacancyInvariant, PTL DEF Spec

=============================================================================

------------------------------ MODULE Election ------------------------------
(***************************************************************************)
(* Leadership: the lease and the current-leader key in Redis, the leader   *)
(* process that acquires and renews the lease, and the follower process    *)
(* whose monitor thread takes over.  Time passes in ticks.                 *)
(*                                                                         *)
(* Redis answers every command and executes them one at a time, so every   *)
(* command is a step of its own; a process may crash, stop or be delayed   *)
(* between any two.  A thread that is due acts at most MaxDelay ticks late *)
(* (scheduling, the network, a paused machine).                            *)
(***************************************************************************)
EXTENDS Integers, FiniteSets

CONSTANTS Leaders,              \* brokers run as leader_broker
          Followers,            \* brokers run as follower_broker
          LEADER_LEASE_TTL,     \* lifetime of the lease key
          HEARTBEAT_INTERVAL,   \* sleep of the renew and monitor loops (5)
          JoinTimeout,          \* stop()'s join(timeout=5) of the monitor thread
          RequiredFailures,     \* missed checks before an election (3)
          MaxDelay,             \* how late a thread may run
          NoBroker              \* an absent key

Brokers == Leaders \cup Followers

ASSUME ElectionAssumption ==
    /\ Leaders \cap Followers = {}
    /\ NoBroker \notin Brokers
    /\ LEADER_LEASE_TTL \in Nat \ {0}
    /\ HEARTBEAT_INTERVAL \in Nat \ {0}
    /\ JoinTimeout \in Nat \ {0}
    /\ RequiredFailures \in Nat \ {0}
    /\ MaxDelay \in Nat

VARIABLES
    lease,          \* Redis leader:lease: the holder, or NoBroker
    ttl,            \* ticks until the lease key expires
    current,        \* Redis leader:current
    main,           \* per broker: where its main thread is
    is_leader,      \* per broker: the flag its handlers test
    renew,          \* per broker: where its renew thread is
    monitor,        \* per broker: where its monitor thread is
    failures,       \* per broker: consecutive_failures of the monitor
    clock,          \* per broker and thread: ticks since its last pause began
    vacant,         \* history: ticks without a lease
    leaderless      \* history: ticks since a leader was live or took the lease

redisVars   == << lease, ttl, current >>
threadVars  == << main, is_leader, renew, monitor, failures, clock >>
historyVars == << vacant, leaderless >>
vars == << redisVars, threadVars, historyVars >>

Threads == {"main", "renew", "monitor"}

\* main: "down"; a leader's start, at its two SETs; "running"; and stop(), at the
\* join of the monitor thread, at the two DELs and on its way out.
MainPC == {"down", "acquire", "announce", "running", "join", "release", "retract", "exit"}
RenewPC == {"off", "sleep", "lease", "current"}
MonitorPC == {"off", "sleep", "elect", "announce"}

\* Where the history clocks stop counting: beyond every bound stated below.
Horizon == LEADER_LEASE_TTL + (RequiredFailures + 1) * (HEARTBEAT_INTERVAL + MaxDelay)

Up(b) == main[b] # "down"

\* `running' is cleared first thing in stop().
Running(b) == main[b] \in {"acquire", "announce", "running"}

\* b answers every PRODUCE as the leader.
Leading(b) == Running(b) /\ is_leader[b]

Init ==
    /\ lease = NoBroker
    /\ ttl = 0
    /\ current = NoBroker
    /\ main = [b \in Brokers |-> "down"]
    /\ is_leader = [b \in Brokers |-> FALSE]
    /\ renew = [b \in Brokers |-> "off"]
    /\ monitor = [b \in Brokers |-> "off"]
    /\ failures = [b \in Brokers |-> 0]
    /\ clock = [b \in Brokers |-> [t \in Threads |-> 0]]
    /\ vacant = 0
    /\ leaderless = 0

\* Thread t of b starts a pause, or is due at once.
Rest(b, t) == clock' = [clock EXCEPT ![b][t] = 0]
Pause(t) == IF t = "main" THEN JoinTimeout ELSE HEARTBEAT_INTERVAL
Due(b, t) == clock[b][t] >= Pause(t)

-----------------------------------------------------------------------------
(***************************************************************************)
(* The Redis commands.                                                     *)
(***************************************************************************)
\* SET leader:lease b EX ttl, with or without NX.
SetLease(b) ==
    /\ lease' = b
    /\ ttl' = LEADER_LEASE_TTL
    /\ vacant' = 0

DeleteLease ==
    /\ lease' = NoBroker
    /\ ttl' = 0

-----------------------------------------------------------------------------
(***************************************************************************)
(* A leader process.                                                       *)
(***************************************************************************)
\* python -m leader_broker.leader, for the first time or again.
StartLeader(b) ==
    /\ b \in Leaders
    /\ main[b] = "down"
    /\ main' = [main EXCEPT ![b] = "acquire"]
    /\ Rest(b, "main")
    /\ UNCHANGED << redisVars, is_leader, renew, monitor, failures, historyVars >>

\* set_leader wins: SET NX on an absent key.
Acquire(b) ==
    /\ main[b] = "acquire"
    /\ lease = NoBroker
    /\ SetLease(b)
    /\ main' = [main EXCEPT ![b] = "announce"]
    /\ leaderless' = 0
    /\ UNCHANGED << current, is_leader, renew, monitor, failures, clock >>

\* set_leader loses: "Cannot start as leader", and the process ends.
AcquireFails(b) ==
    /\ main[b] = "acquire"
    /\ lease # NoBroker
    /\ main' = [main EXCEPT ![b] = "exit"]
    /\ UNCHANGED << redisVars, is_leader, renew, monitor, failures, clock, historyVars >>

\* The second SET of set_leader, is_leader = True, and the renew thread starts.
Announce(b) ==
    /\ main[b] = "announce"
    /\ current' = b
    /\ is_leader' = [is_leader EXCEPT ![b] = TRUE]
    /\ main' = [main EXCEPT ![b] = "running"]
    /\ renew' = [renew EXCEPT ![b] = "sleep"]
    /\ clock' = [clock EXCEPT ![b]["main"] = 0, ![b]["renew"] = HEARTBEAT_INTERVAL]
    /\ leaderless' = 0
    /\ UNCHANGED << lease, ttl, monitor, failures, vacant >>

\* Ctrl+C: running and is_leader are cleared, then the keys are deleted.
StopLeader(b) ==
    /\ b \in Leaders
    /\ main[b] = "running"
    /\ main' = [main EXCEPT ![b] = "release"]
    /\ is_leader' = [is_leader EXCEPT ![b] = FALSE]
    /\ Rest(b, "main")
    /\ UNCHANGED << redisVars, renew, monitor, failures, historyVars >>

-----------------------------------------------------------------------------
(***************************************************************************)
(* renew_lease_loop, the same in both brokers.                             *)
(***************************************************************************)
\* The loop condition; nothing is checked again before the lease is written.
RenewWakes(b) ==
    /\ renew[b] = "sleep"
    /\ Due(b, "renew")
    /\ renew' = [renew EXCEPT ![b] = IF Running(b) /\ is_leader[b] THEN "lease" ELSE "off"]
    /\ UNCHANGED << redisVars, main, is_leader, monitor, failures, clock, historyVars >>

\* Faulty variant: the renewal keeps the nx=True of set_leader.
RenewLeaseNX(b) ==
    /\ renew[b] = "lease"
    /\ IF lease = NoBroker THEN SetLease(b) ELSE UNCHANGED << lease, ttl, vacant >>
    /\ renew' = [renew EXCEPT ![b] = "current"]
    /\ UNCHANGED << current, main, is_leader, monitor, failures, clock, leaderless >>

\* SET leader:lease without NX: whoever holds it now, it is b's.
RenewLease(b) ==
    /\ renew[b] = "lease"
    /\ SetLease(b)
    /\ renew' = [renew EXCEPT ![b] = "current"]
    /\ UNCHANGED << current, main, is_leader, monitor, failures, clock, leaderless >>

\* Faulty variant: the renewal writes the lease only.
RenewCurrentNot(b) ==
    /\ renew[b] = "current"
    /\ renew' = [renew EXCEPT ![b] = "sleep"]
    /\ Rest(b, "renew")
    /\ UNCHANGED << redisVars, main, is_leader, monitor, failures, historyVars >>

RenewCurrent(b) ==
    /\ renew[b] = "current"
    /\ current' = b
    /\ renew' = [renew EXCEPT ![b] = "sleep"]
    /\ Rest(b, "renew")
    /\ UNCHANGED << lease, ttl, main, is_leader, monitor, failures, historyVars >>

-----------------------------------------------------------------------------
(***************************************************************************)
(* A follower process.                                                     *)
(***************************************************************************)
\* start(): the monitor thread makes its first check at once.
StartFollower(b) ==
    /\ b \in Followers
    /\ main[b] = "down"
    /\ main' = [main EXCEPT ![b] = "running"]
    /\ monitor' = [monitor EXCEPT ![b] = "sleep"]
    /\ failures' = [failures EXCEPT ![b] = 0]
    /\ clock' = [clock EXCEPT ![b]["monitor"] = HEARTBEAT_INTERVAL]
    /\ vacant' = 0
    /\ leaderless' = 0
    /\ UNCHANGED << redisVars, is_leader, renew >>

\* monitor_leader_health: the lease exists.
MonitorSeesLease(b) ==
    /\ monitor[b] = "sleep"
    /\ Due(b, "monitor")
    /\ lease # NoBroker
    /\ failures' = [failures EXCEPT ![b] = 0]
    /\ Rest(b, "monitor")
    /\ UNCHANGED << redisVars, main, is_leader, renew, monitor, historyVars >>

\* Faulty variant: `>' for `>=', an election only after one more missed check.
MonitorMissesOneMore(b) ==
    /\ monitor[b] = "sleep"
    /\ Due(b, "monitor")
    /\ lease = NoBroker
    /\ \/ /\ failures[b] + 1 <= RequiredFailures
          /\ failures' = [failures EXCEPT ![b] = @ + 1]
          /\ Rest(b, "monitor")
          /\ UNCHANGED monitor
       \/ /\ failures[b] + 1 > RequiredFailures
          /\ monitor' = [monitor EXCEPT ![b] = "elect"]
          /\ UNCHANGED << failures, clock >>
    /\ UNCHANGED << redisVars, main, is_leader, renew, historyVars >>

\* The lease is missing, for the last time needed or not.
MonitorMissesLease(b) ==
    /\ monitor[b] = "sleep"
    /\ Due(b, "monitor")
    /\ lease = NoBroker
    /\ \/ /\ failures[b] + 1 < RequiredFailures
          /\ failures' = [failures EXCEPT ![b] = @ + 1]
          /\ Rest(b, "monitor")
          /\ UNCHANGED monitor
       \/ /\ failures[b] + 1 = RequiredFailures
          /\ monitor' = [monitor EXCEPT ![b] = "elect"]
          /\ UNCHANGED << failures, clock >>
    /\ UNCHANGED << redisVars, main, is_leader, renew, historyVars >>

\* The monitor loop goes round, or ends if stop() has cleared `monitoring'.
MonitorContinues(b) ==
    /\ monitor' = [monitor EXCEPT ![b] = IF Running(b) THEN "sleep" ELSE "off"]
    /\ failures' = [failures EXCEPT ![b] = 0]

\* Faulty variant: the election sets the lease without nx=True.
ElectionWonByForce(b) ==
    /\ monitor[b] = "elect"
    /\ SetLease(b)
    /\ monitor' = [monitor EXCEPT ![b] = "announce"]
    /\ leaderless' = 0
    /\ UNCHANGED << current, main, is_leader, renew, failures, clock >>

\* attempt_leader_election wins the SET NX ...
ElectionWon(b) ==
    /\ monitor[b] = "elect"
    /\ lease = NoBroker
    /\ SetLease(b)
    /\ monitor' = [monitor EXCEPT ![b] = "announce"]
    /\ leaderless' = 0
    /\ UNCHANGED << current, main, is_leader, renew, failures, clock >>

\* Faulty variant: a follower that loses an election stops monitoring.
ElectionLostForGood(b) ==
    /\ monitor[b] = "elect"
    /\ lease # NoBroker
    /\ monitor' = [monitor EXCEPT ![b] = "off"]
    /\ failures' = [failures EXCEPT ![b] = 0]
    /\ Rest(b, "monitor")
    /\ UNCHANGED << redisVars, main, is_leader, renew, historyVars >>

\* ... or loses it.
ElectionLost(b) ==
    /\ monitor[b] = "elect"
    /\ lease # NoBroker
    /\ MonitorContinues(b)
    /\ Rest(b, "monitor")
    /\ UNCHANGED << redisVars, main, is_leader, renew, historyVars >>

\* SET leader:current and on_become_leader, which starts the renew thread.
Promote(b) ==
    /\ monitor[b] = "announce"
    /\ current' = b
    /\ is_leader' = [is_leader EXCEPT ![b] = TRUE]
    /\ renew' = [renew EXCEPT ![b] = IF @ = "off" THEN "sleep" ELSE @]
    /\ clock' = [clock EXCEPT ![b]["monitor"] = 0,
                              ![b]["renew"] = IF renew[b] = "off" THEN HEARTBEAT_INTERVAL ELSE @]
    /\ MonitorContinues(b)
    /\ leaderless' = 0
    /\ UNCHANGED << lease, ttl, main, vacant >>

\* Ctrl+C: running and monitoring are cleared; a sleeping monitor will not act.
StopFollower(b) ==
    /\ b \in Followers
    /\ main[b] = "running"
    /\ main' = [main EXCEPT ![b] = "join"]
    /\ monitor' = [monitor EXCEPT ![b] = IF @ = "sleep" THEN "off" ELSE @]
    /\ Rest(b, "main")
    /\ UNCHANGED << redisVars, is_leader, renew, failures, historyVars >>

\* join(timeout=5) returns; a leader has its keys to delete, is_leader stays.
Joined(b) ==
    /\ main[b] = "join"
    /\ monitor[b] = "off" \/ Due(b, "main")
    /\ main' = [main EXCEPT ![b] = IF is_leader[b] THEN "release" ELSE "exit"]
    /\ Rest(b, "main")
    /\ UNCHANGED << redisVars, is_leader, renew, monitor, failures, historyVars >>

-----------------------------------------------------------------------------
(***************************************************************************)
(* The end of a process.                                                   *)
(***************************************************************************)
\* Its threads end with it.
Dies(b) ==
    /\ main' = [main EXCEPT ![b] = "down"]
    /\ is_leader' = [is_leader EXCEPT ![b] = FALSE]
    /\ renew' = [renew EXCEPT ![b] = "off"]
    /\ monitor' = [monitor EXCEPT ![b] = "off"]
    /\ failures' = [failures EXCEPT ![b] = 0]
    /\ clock' = [clock EXCEPT ![b] = [t \in Threads |-> 0]]

\* release_leader, first half: whoever's lease it is.
ReleaseLease(b) ==
    /\ main[b] = "release"
    /\ DeleteLease
    /\ main' = [main EXCEPT ![b] = "retract"]
    /\ UNCHANGED << current, is_leader, renew, monitor, failures, clock, historyVars >>

\* Second half: whoever is current.
Retract(b) ==
    /\ main[b] = "retract"
    /\ current' = NoBroker
    /\ main' = [main EXCEPT ![b] = "exit"]
    /\ UNCHANGED << lease, ttl, is_leader, renew, monitor, failures, clock, historyVars >>

Exit(b) ==
    /\ main[b] = "exit"
    /\ Dies(b)
    /\ UNCHANGED << redisVars, historyVars >>

\* kill -9, at any point.
Crash(b) ==
    /\ Up(b)
    /\ Dies(b)
    /\ UNCHANGED << redisVars, historyVars >>

-----------------------------------------------------------------------------
(***************************************************************************)
(* Time.  It does not pass while a thread is as late as it may be.         *)
(***************************************************************************)
Active(b, t) ==
    CASE t = "main"    -> main[b] \notin {"down", "running"}
      [] t = "renew"   -> renew[b] # "off"
      [] t = "monitor" -> monitor[b] # "off"

Deadline(b, t) ==
    IF t = "main" /\ main[b] # "join" THEN MaxDelay ELSE Pause(t) + MaxDelay

FollowerRunning == \E f \in Followers : main[f] = "running"

Count(n) == IF n < Horizon THEN n + 1 ELSE n

Tick ==
    /\ \A b \in Brokers, t \in Threads : Active(b, t) => clock[b][t] < Deadline(b, t)
    /\ clock' = [b \in Brokers |-> [t \in Threads |->
                    IF Active(b, t) THEN clock[b][t] + 1 ELSE clock[b][t]]]
    /\ ttl' = IF ttl > 0 THEN ttl - 1 ELSE 0
    /\ lease' = IF ttl = 1 THEN NoBroker ELSE lease
    /\ vacant' = IF lease = NoBroker /\ FollowerRunning THEN Count(vacant) ELSE 0
    /\ leaderless' = IF FollowerRunning /\ ~ \E b \in Brokers : Leading(b)
                     THEN Count(leaderless) ELSE 0
    /\ UNCHANGED << current, main, is_leader, renew, monitor, failures >>

MainStep(b) ==
    \/ Acquire(b) \/ AcquireFails(b) \/ Announce(b)
    \/ Joined(b) \/ ReleaseLease(b) \/ Retract(b) \/ Exit(b)

RenewStep(b) == RenewWakes(b) \/ RenewLease(b) \/ RenewCurrent(b)

MonitorStep(b) ==
    \/ MonitorSeesLease(b) \/ MonitorMissesLease(b)
    \/ ElectionWon(b) \/ ElectionLost(b) \/ Promote(b)

Operator(b) ==
    StartLeader(b) \/ StartFollower(b) \/ StopLeader(b) \/ StopFollower(b) \/ Crash(b)

Next ==
    \/ \E b \in Brokers : MainStep(b) \/ RenewStep(b) \/ MonitorStep(b) \/ Operator(b)
    \/ Tick

Spec == Init /\ [][Next]_vars

\* The threads run and time passes; operators need not do anything.
Fairness ==
    /\ WF_vars(Tick)
    /\ \A b \in Brokers : WF_vars(MainStep(b)) /\ WF_vars(RenewStep(b)) /\ WF_vars(MonitorStep(b))

FairSpec == Spec /\ Fairness

-----------------------------------------------------------------------------
(***************************************************************************)
(* Properties.                                                             *)
(***************************************************************************)
TypeOK ==
    /\ lease \in Brokers \cup {NoBroker}
    /\ ttl \in 0..LEADER_LEASE_TTL
    /\ current \in Brokers \cup {NoBroker}
    /\ main \in [Brokers -> MainPC]
    /\ is_leader \in [Brokers -> BOOLEAN]
    /\ renew \in [Brokers -> RenewPC]
    /\ monitor \in [Brokers -> MonitorPC]
    /\ failures \in [Brokers -> 0..(RequiredFailures - 1)]
    /\ clock \in [Brokers -> [Threads -> Nat]]
    /\ \A b \in Brokers, t \in Threads : clock[b][t] <= Pause(t) + MaxDelay
    /\ vacant \in 0..Horizon
    /\ leaderless \in 0..Horizon

\* Leadership is exclusive: two running brokers never both believe they lead,
\* through expiry, election, crashes, stops and restarts, as long as no thread is
\* so late that a lease could expire under a live leader.  (docs/ARCHITECTURE.md:292
\* says so of any schedule: "Single leader at a time | Yes, given a reachable Redis".)
OneLeader == \A a, b \in Brokers : Leading(a) /\ Leading(b) => a = b

\* ... because the lease cannot run out, or be deleted by a stopping broker,
\* while a leader lives: no running broker believes it leads without a lease key.
LeaderKeepsLease == (\E b \in Brokers : Leading(b)) => lease # NoBroker

\* A lost lease is noticed: with a follower running, somebody holds a lease again
\* within three (late) checks of the monitor.
VacancyBounded ==
    vacant <= RequiredFailures * (HEARTBEAT_INTERVAL + MaxDelay)

\* Failover ends: with a follower running, there is a leader again after at most
\* the rest of the old lease and three checks (a stopping leader may write the
\* lease once more, hence the extra delay).
FailoverBounded ==
    leaderless <= MaxDelay + LEADER_LEASE_TTL
                    + RequiredFailures * (HEARTBEAT_INTERVAL + MaxDelay)

\* Clients find the leader: a broker that stays leader is sooner or later the one
\* leader:current names, even if a stopping predecessor deletes the key under it
\* or a crashed one left its own name there.
CurrentFollowsLeader == \A b \in Brokers : Leading(b) ~> (current = b \/ ~Leading(b))

\* What the rest of the system may rely on (module Leadership, which Failover is built
\* on): a broker is elected only while there is no lease and no leader, the lease stays
\* while the leader lives, and whoever is elected stays leader until it crashes or stops.
Elected(b) == Running(b) /\ (is_leader[b] \/ main[b] = "announce" \/ monitor[b] = "announce")

Lead == INSTANCE Leadership WITH
    held   <- lease # NoBroker,
    leader <- IF \E b \in Brokers : Elected(b)
              THEN CHOOSE b \in Brokers : Elected(b) ELSE NoBroker

ImplementsLeadership == Lead!Spec
=============================================================================

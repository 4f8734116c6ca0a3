------------------------------ MODULE Consumer ------------------------------
(***************************************************************************)
(* A consumer of the brokers of module Failover, through a change of       *)
(* leader: consumer/consumer.py, and flight_data_consumer.py and the Spark *)
(* job, which only call it.                                                *)
(*                                                                         *)
(* A fetch is served in two steps, as in handle_fetch_request: the broker  *)
(* reads the HWM, then its log.  Redis may fail at any call the consumer   *)
(* makes, its process may be killed or interrupted anywhere.               *)
(***************************************************************************)
EXTENDS Failover

CONSTANTS FetchMax,         \* max_messages of a FETCH (100)
          MaxIterations,    \* get_all_messages's max_iterations (100)
          MaxDisruptions    \* bound: kills, Ctrl+C's and resets

ASSUME ConsumerAssumption == /\ FetchMax \in Nat \ {0}
                             /\ MaxIterations \in Nat \ {0}
                             /\ MaxDisruptions \in Nat

VARIABLES
    position,       \* Consumer.current_offset
    committed,      \* Redis: consumer:offset:<id>, -1 when the key is absent
    activity,       \* what the consumer's only thread is doing
    fetch,          \* a FETCH being served: by whom, with which HWM
    batch,          \* messages fetched and not yet processed and committed
    processed,      \* history: ids handed to the callback or printed
    original,       \* get_all_messages: original_offset
    iterations,     \* get_all_messages: its loop counter
    missing,        \* history: ids acknowledged when get_all_messages began, less
                    \* those in its all_messages
    disruptions     \* kills, Ctrl+C's and resets so far

offsetVars   == << position, committed >>
allVars      == << original, iterations, missing >>
consumerVars == << offsetVars, activity, fetch, batch, processed, allVars, disruptions >>

\* "poll", "process", "commit": consume_messages and consume_and_analyze;
\* "fetch", "save": the fetch command; "all": get_all_messages.
Activity == {"down", "idle", "poll", "process", "commit", "fetch", "save", "all"}

NoFetch == [by |-> NoBroker, hwm |-> -1]

ConsumerInit ==
    /\ Init
    /\ position = -1
    /\ committed = -1
    /\ activity = "down"
    /\ fetch = NoFetch
    /\ batch = << >>
    /\ processed = {}
    /\ original = -1
    /\ iterations = 0
    /\ missing = {}
    /\ disruptions = 0

Ids(messages) == {messages[i].id : i \in DOMAIN messages}

Last(messages) == messages[Len(messages)]

AckedIds == {a.id : a \in acked}

-----------------------------------------------------------------------------
(***************************************************************************)
(* The process and its commands.                                           *)
(***************************************************************************)
\* __init__: the offset Redis has, -1 if it does not answer; or -1 and commit it.
StartConsumer ==
    /\ activity = "down"
    /\ activity' = "idle"
    /\ \/ position' \in {committed, -1} /\ UNCHANGED committed
       \/ position' = -1 /\ committed' = -1
    /\ UNCHANGED << fetch, batch, processed, allVars, disruptions >>

\* start, --continuous, consume_and_analyze
StartConsuming ==
    /\ activity = "idle"
    /\ activity' = "poll"
    /\ UNCHANGED << offsetVars, fetch, batch, processed, allVars, disruptions >>

\* fetch
FetchCommand ==
    /\ activity = "idle"
    /\ activity' = "fetch"
    /\ UNCHANGED << offsetVars, fetch, batch, processed, allVars, disruptions >>

\* all, --fetch-all, batch_analyze, fetch_batch_from_broker
GetAllMessages ==
    /\ activity = "idle"
    /\ activity' = "all"
    /\ original' = position
    /\ position' = -1
    /\ iterations' = 0
    /\ missing' = AckedIds
    /\ UNCHANGED << committed, fetch, batch, processed, disruptions >>

\* reset: the position changes whether or not Redis takes it.
Reset ==
    /\ activity = "idle"
    /\ disruptions < MaxDisruptions
    /\ disruptions' = disruptions + 1
    /\ position' = -1
    /\ committed' \in {-1, committed}
    /\ UNCHANGED << activity, fetch, batch, processed, allVars >>

\* Killed, or Ctrl+C: what was fetched is dropped.  consume_messages catches the
\* latter and returns; anywhere else the process ends.
Interrupt ==
    /\ activity # "down"
    /\ disruptions < MaxDisruptions
    /\ disruptions' = disruptions + 1
    /\ activity' \in {"down"} \cup
            (IF activity \in {"poll", "process", "commit"} THEN {"idle"} ELSE {})
    /\ position' = IF activity' = "down" THEN -1 ELSE position
    /\ fetch' = NoFetch
    /\ batch' = << >>
    /\ original' = -1
    /\ iterations' = 0
    /\ missing' = {}
    /\ UNCHANGED << committed, processed >>

-----------------------------------------------------------------------------
(***************************************************************************)
(* fetch_messages, and what its callers do with the messages.              *)
(***************************************************************************)
Fetching == activity \in {"poll", "fetch", "all"}

\* The FETCH reaches the leading broker, which reads the HWM.
FetchBegins ==
    /\ Fetching
    /\ fetch = NoFetch
    /\ \E b \in Reachable : fetch' = [by |-> b, hwm |-> hwm]
    /\ UNCHANGED << offsetVars, activity, batch, processed, allVars, disruptions >>

\* No answer, connection lost or NOT_LEADER: retried within fetch_messages.
FetchLost ==
    /\ fetch # NoFetch
    /\ fetch' = NoFetch
    /\ UNCHANGED << offsetVars, activity, batch, processed, allVars, disruptions >>

\* consume_messages polls on, unless it was to fetch once.
Polled(messages) ==
    /\ activity = "poll"
    /\ batch' = messages
    /\ activity' \in IF messages = << >> THEN {"poll", "idle"} ELSE {"process"}
    /\ UNCHANGED << offsetVars, processed, allVars >>

\* The fetch command prints the batch and commits its last offset.
Printed(messages) ==
    /\ activity = "fetch"
    /\ processed' = processed \cup Ids(messages)
    /\ batch' = IF messages = << >> THEN << >> ELSE << Last(messages) >>
    /\ activity' = IF messages = << >> THEN "idle" ELSE "save"
    /\ UNCHANGED << offsetVars, allVars >>

\* Faulty variant: get_all_messages forgets to restore the offset.
CollectedAndStay(messages, answered) ==
    /\ activity = "all"
    /\ IF messages = << >> \/ iterations + 1 = MaxIterations
       THEN /\ activity' = "idle"
            /\ iterations' = 0
            /\ missing' = IF messages = << >> /\ answered THEN missing ELSE {}
            /\ UNCHANGED position
       ELSE /\ position' = Last(messages).offset
            /\ iterations' = iterations + 1
            /\ missing' = missing \ Ids(messages)
            /\ UNCHANGED activity
    /\ UNCHANGED << committed, batch, processed, original >>

\* The loop of get_all_messages ends at an empty batch or after MaxIterations.
\* Nothing is missed in a result that a failed fetch or the limit cut short.
Collected(messages, answered) ==
    /\ activity = "all"
    /\ IF messages = << >> \/ iterations + 1 = MaxIterations
       THEN /\ activity' = "idle"
            /\ position' = original
            /\ original' = -1
            /\ iterations' = 0
            /\ missing' = IF messages = << >> /\ answered THEN missing ELSE {}
       ELSE /\ position' = Last(messages).offset
            /\ iterations' = iterations + 1
            /\ missing' = missing \ Ids(messages)
            /\ UNCHANGED << activity, original >>
    /\ UNCHANGED << committed, batch, processed >>

Received(messages, answered) ==
    /\ Polled(messages) \/ Printed(messages) \/ Collected(messages, answered)
    /\ fetch' = NoFetch
    /\ UNCHANGED disruptions

\* The log a broker serves, and get_messages of its log manager.
LogOf(broker) == IF broker = Leader THEN leader_log ELSE follower_log

Lookup(broker, start) ==
    IF broker = Leader THEN GetByPosition(leader_log, start, FetchMax)
                       ELSE GetByOffset(follower_log, start, FetchMax)

\* filtered_messages: of what the lookup found, what the HWM read before covers.
filtered_messages ==
    LET l == LogOf(fetch.by)
        Readable(i) == l.log[i].offset <= fetch.hwm
    IN  Messages(l, {i \in Lookup(fetch.by, position + 1) : Readable(i)})

\* handle_fetch_request's second half, of either broker, and the response.
FetchAnswered ==
    /\ fetch # NoFetch
    /\ fetch.by = leader
    /\ \E messages \in {filtered_messages} : Received(messages, TRUE)

\* The retries are used up, or the broker answers an error: an empty list.
FetchFails ==
    /\ Fetching
    /\ Received(<< >>, FALSE)

\* callback(msg) or process_flight_record(msg)
ProcessMessage ==
    /\ activity = "process"
    /\ activity' = "commit"
    /\ processed' = processed \cup {Head(batch).id}
    /\ UNCHANGED << offsetVars, fetch, batch, allVars, disruptions >>

\* On to the next message, the next poll, or the prompt.
NextMessage ==
    /\ batch' = Tail(batch)
    /\ activity' = IF activity = "save" THEN "idle"
                   ELSE IF Tail(batch) # << >> THEN "process" ELSE "poll"
    /\ UNCHANGED << fetch, processed, allVars, disruptions >>

CommitOffset ==
    /\ activity \in {"commit", "save"}
    /\ committed' = Head(batch).offset
    /\ position' = Head(batch).offset
    /\ NextMessage

\* Redis does not answer, whether or not it has taken the offset: commit_offset
\* swallows the error, and current_offset stays.
CommitFails ==
    /\ activity \in {"commit", "save"}
    /\ committed' \in {committed, Head(batch).offset}
    /\ UNCHANGED position
    /\ NextMessage

ConsumerStep ==
    \/ StartConsumer \/ StartConsuming \/ FetchCommand \/ GetAllMessages \/ Reset
    \/ Interrupt \/ FetchBegins \/ FetchLost \/ FetchAnswered \/ FetchFails
    \/ ProcessMessage \/ CommitOffset \/ CommitFails

ConsumerNext ==
    \/ Next /\ UNCHANGED consumerVars
    \/ ConsumerStep /\ UNCHANGED vars

ConsumerSpec == ConsumerInit /\ [][ConsumerNext]_<< vars, consumerVars >>

Consuming == activity \in {"poll", "process", "commit"}

(***************************************************************************)
(* Fairness: the follower takes over a free lease and the consumer's       *)
(* thread runs.  Fetches and commits may fail any number of times, but not *)
(* always.                                                                 *)
(***************************************************************************)
LiveSpec ==
    /\ ConsumerSpec
    /\ WF_<< vars, consumerVars >>((LeaseLapses \/ Promote) /\ UNCHANGED consumerVars)
    /\ WF_<< vars, consumerVars >>((FetchBegins \/ FetchLost \/ ProcessMessage) /\ UNCHANGED vars)
    /\ SF_<< vars, consumerVars >>(FetchAnswered /\ UNCHANGED vars)
    /\ SF_<< vars, consumerVars >>(CommitOffset /\ UNCHANGED vars)

-----------------------------------------------------------------------------
(***************************************************************************)
(* Properties.  They are about one producer (see the README for two).      *)
(***************************************************************************)
ConsumerTypeOK ==
    /\ TypeOK
    /\ {position, committed, original} \subseteq Nat \cup {-1}
    /\ activity \in Activity
    /\ fetch \in [by : Brokers \cup {NoBroker}, hwm : Nat \cup {-1}]
    /\ batch \in Seq(LogEntry(MessageIds))
    /\ {processed, missing} \subseteq SUBSET MessageIds
    /\ iterations \in 0..(MaxIterations - 1)
    /\ disruptions \in 0..MaxDisruptions

\* Where the consumer goes on, after get_all_messages if that is under way.
Resume == IF activity = "all" THEN original ELSE position

\* At-least-once delivery (README.md:31): an acknowledged message is never behind
\* the consumer's position, or the offset Redis keeps for it, without having been
\* processed: not over failed commits, kills between processing and commit, resets,
\* get_all_messages, or a change to the follower's log and its gaps.
NothingSkipped ==
    \A a \in acked : a.offset <= committed \/ a.offset <= Resume => a.id \in processed

\* get_all_messages, when no fetch failed and the limit was not reached, returns
\* every message that was acknowledged when it began, although its fetches may be
\* served by both brokers, from logs that differ.
FetchAllComplete == activity # "all" => missing = {}

\* A consumer that keeps consuming gets, again and again, to the point where it has
\* processed every acknowledged message, across the failover: it never gets stuck in
\* a log with gaps, late entries or offsets beyond the number of entries.
KeepsUp == []<>(AckedIds \subseteq processed \/ ~Consuming)
=============================================================================

----------------------------- MODULE LogManager -----------------------------
(***************************************************************************)
(* The in-memory log of a broker: leader_broker/log_manager.py and         *)
(* follower_broker/log_manager.py.  Every method of either class holds the *)
(* manager's lock from end to end, so each is one operator here; the two   *)
(* classes differ only in append (the replica is told the offset) and in   *)
(* the lookups, by list position here and by offset there.                 *)
(*                                                                         *)
(* A log is a record [log, next_offset].  Payloads are abstracted away: an *)
(* entry keeps its offset and the message id.  The class also keeps the    *)
(* set message_ids; it is always the ids of the list (both change under    *)
(* one lock), so it is derived here.                                       *)
(***************************************************************************)
EXTENDS Integers, Sequences, FiniteSets

\* ids: the set of uuids producers may attach to their messages.
LogEntry(ids) == [offset : Nat, id : ids]

NewEntry(offset, id) == [offset |-> offset, id |-> id]

\* self.log.append(entry), and the next free offset.
Extend(l, entry, next) == [log |-> Append(l.log, entry), next_offset |-> next]

LogType(ids) == [log : Seq(LogEntry(ids)), next_offset : Nat]

EmptyLog == [log |-> << >>, next_offset |-> 0]

Entries(l) == {l.log[i] : i \in DOMAIN l.log}

message_ids(l) == {e.id : e \in Entries(l)}

Offsets(l) == {e.offset : e \in Entries(l)}

\* The duplicate branch: the offset the id was first stored at.  Ids are unique
\* in a log (the branch itself sees to that), so the first match is the match.
OffsetOf(l, id) == (CHOOSE e \in Entries(l) : e.id = id).offset

\* Faulty variant: no duplicate check in the leader's append.
AppendNextAlways(l, id) ==
    Extend(l, NewEntry(l.next_offset, id), l.next_offset + 1)

\* append without an offset: duplicates change nothing, else the next offset.
AppendNext(l, id) ==
    IF id \in message_ids(l)
    THEN l
    ELSE Extend(l, NewEntry(l.next_offset, id), l.next_offset + 1)

\* Faulty variant: the follower numbers its entries itself.
AppendAtOwnOffset(l, id, offset) == AppendNext(l, id)

\* append at the offset a REPLICATE frame carries (the follower's manager).
AppendAt(l, id, offset) ==
    IF id \in message_ids(l)
    THEN l
    ELSE Extend(l, NewEntry(offset, id),
                IF offset >= l.next_offset THEN offset + 1 ELSE l.next_offset)

\* A message is stored at most once: what the duplicate check is for.
UniqueIds(l) ==
    \A i, j \in DOMAIN l.log : l.log[i].id = l.log[j].id => i = j

\* The list index is the offset: what get_messages and get_message_at_offset of
\* the leader rely on.
Positional(l) ==
    /\ l.next_offset = Len(l.log)
    /\ \A i \in DOMAIN l.log : l.log[i].offset = i - 1

\* The message is stored at the offset.
StoredAt(l, id, offset) == \E e \in Entries(l) : e.id = id /\ e.offset = offset

\* get_messages of the leader, as list positions: a slice of the list by POSITION.
GetByPosition(l, start, max) ==
    {i \in DOMAIN l.log : start >= 0 /\ start < i /\ i <= start + max}

\* Faulty variant: the first offset wanted is taken for the last one read.
FromAfter(l, start) == {i \in DOMAIN l.log : l.log[i].offset > start}

\* The positions whose entry's OFFSET is at least start.
From(l, start) == {i \in DOMAIN l.log : l.log[i].offset >= start}

\* get_messages of the follower, as list positions: the first max of those, in the
\* order they were stored (count is the number it has taken before).
GetByOffset(l, start, max) ==
    {i \in From(l, start) : Cardinality({j \in From(l, start) : j < i}) < max}

\* Some list positions, in list order, and the messages there.
InOrder(positions) ==
    CHOOSE p \in [1..Cardinality(positions) -> positions] :
        /\ \A i \in positions : \E j \in DOMAIN p : p[j] = i
        /\ \A j, k \in DOMAIN p : j < k => p[j] < p[k]

Messages(l, positions) ==
    LET p == InOrder(positions)
    IN  [j \in DOMAIN p |-> l.log[p[j]]]
=============================================================================

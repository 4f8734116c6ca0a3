------------------------- MODULE LogManager_proofs -------------------------
(***************************************************************************)
(* What the two append methods return, preserve and add, and what the two  *)
(* lookups return, for every log.                                          *)
(***************************************************************************)
EXTENDS LogManager, FiniteSetTheorems, TLAPS

\* A log's fields, and the entries its list holds.
LEMMA LogFields ==
    ASSUME NEW ids, NEW l \in LogType(ids)
    PROVE  /\ l.log \in Seq(LogEntry(ids))
           /\ l.next_offset \in Nat
           /\ Entries(l) \subseteq LogEntry(ids)
           /\ Entries(l) = {l.log[i] : i \in DOMAIN l.log}
BY DEF LogType, Entries

\* A new entry's type and fields.
LEMMA NewEntryFacts ==
    ASSUME NEW ids, NEW id \in ids, NEW offset \in Nat
    PROVE  /\ NewEntry(offset, id) \in LogEntry(ids)
           /\ NewEntry(offset, id).id = id
           /\ NewEntry(offset, id).offset = offset
BY DEF NewEntry, LogEntry

\* Both append methods: a log with one more entry is a log, the entry is added
\* and the others stay.
LEMMA ExtendFacts ==
    ASSUME NEW ids, NEW l \in LogType(ids), NEW e \in LogEntry(ids), NEW n \in Nat
    PROVE  /\ Extend(l, e, n) \in LogType(ids)
           /\ Entries(Extend(l, e, n)) = Entries(l) \cup {e}
           /\ Extend(l, e, n).next_offset = n
           /\ Extend(l, e, n).log = Append(l.log, e)
<1> DEFINE s == l.log
           t == Append(s, e)
<1>1. s \in Seq(LogEntry(ids)) /\ Entries(l) = {s[i] : i \in DOMAIN s}
  BY LogFields
<1>2. /\ t \in Seq(LogEntry(ids))
      /\ DOMAIN t = 1..(Len(s) + 1)
      /\ t[Len(s) + 1] = e
      /\ \A i \in 1..Len(s) : t[i] = s[i]
      /\ DOMAIN s = 1..Len(s) /\ Len(s) \in Nat
  BY <1>1
<1>3. Extend(l, e, n).log = t /\ Extend(l, e, n).next_offset = n
  BY DEF Extend
<1>4. Extend(l, e, n) \in LogType(ids)
  BY <1>2 DEF LogType, Extend
<1> HIDE DEF s, t
<1>5. {t[i] : i \in DOMAIN t} = {s[i] : i \in DOMAIN s} \cup {e}
  BY <1>2
<1>6. Entries(Extend(l, e, n)) = {t[i] : i \in DOMAIN t}
  BY <1>3 DEF Entries
<1> QED
  BY <1>1, <1>3, <1>4, <1>5, <1>6 DEF t, s

\* append without an offset keeps the log well typed; a new id becomes an entry
\* at next_offset, and a duplicate changes nothing.
LEMMA AppendNextFacts ==
    ASSUME NEW ids, NEW l \in LogType(ids), NEW id \in ids
    PROVE  /\ AppendNext(l, id) \in LogType(ids)
           /\ id \in message_ids(l) => AppendNext(l, id) = l
           /\ id \notin message_ids(l) =>
                /\ Entries(AppendNext(l, id))
                     = Entries(l) \cup {NewEntry(l.next_offset, id)}
                /\ AppendNext(l, id).next_offset = l.next_offset + 1
                /\ AppendNext(l, id).log
                     = Append(l.log, NewEntry(l.next_offset, id))
           /\ id \in message_ids(AppendNext(l, id))
<1>1. l.next_offset \in Nat /\ l.next_offset + 1 \in Nat
  BY LogFields
<1>2. CASE id \in message_ids(l)
  BY <1>2 DEF AppendNext
<1>3. CASE id \notin message_ids(l)
  <2> DEFINE e == NewEntry(l.next_offset, id)
             r == Extend(l, e, l.next_offset + 1)
  <2>1. e \in LogEntry(ids) /\ e.id = id
    BY <1>1, NewEntryFacts
  <2>2. /\ r \in LogType(ids)
        /\ Entries(r) = Entries(l) \cup {e}
        /\ r.next_offset = l.next_offset + 1
        /\ r.log = Append(l.log, e)
    BY <1>1, <2>1, ExtendFacts, ZenonT(30)
  <2>3. id \in message_ids(r)
    BY <2>1, <2>2 DEF message_ids
  <2>4. AppendNext(l, id) = r
    BY <1>3 DEF AppendNext, e
  <2> QED
    BY <1>3, <2>2, <2>3, <2>4 DEF e
<1> QED
  BY <1>2, <1>3

\* The same for append at the offset a REPLICATE frame carries.
LEMMA AppendAtFacts ==
    ASSUME NEW ids, NEW l \in LogType(ids), NEW id \in ids,
           NEW offset \in Nat
    PROVE  /\ AppendAt(l, id, offset) \in LogType(ids)
           /\ id \in message_ids(l) => AppendAt(l, id, offset) = l
           /\ id \notin message_ids(l) =>
                /\ Entries(AppendAt(l, id, offset))
                     = Entries(l) \cup {NewEntry(offset, id)}
                /\ AppendAt(l, id, offset).log
                     = Append(l.log, NewEntry(offset, id))
           /\ id \in message_ids(AppendAt(l, id, offset))
<1>1. CASE id \in message_ids(l)
  BY <1>1 DEF AppendAt
<1>2. CASE id \notin message_ids(l)
  <2> DEFINE e == NewEntry(offset, id)
  <2>1. PICK n \in Nat : AppendAt(l, id, offset) = Extend(l, e, n)
    <3>1. l.next_offset \in Nat /\ offset + 1 \in Nat
      BY LogFields
    <3> QED
      BY <1>2, <3>1 DEF AppendAt
  <2>2. e \in LogEntry(ids) /\ e.id = id
    BY NewEntryFacts
  <2>3. /\ Extend(l, e, n) \in LogType(ids)
        /\ Entries(Extend(l, e, n)) = Entries(l) \cup {e}
        /\ Extend(l, e, n).next_offset = n
        /\ Extend(l, e, n).log = Append(l.log, e)
    BY <2>2, ExtendFacts, ZenonT(30)
  <2>4. id \in message_ids(Extend(l, e, n))
    BY <2>2, <2>3 DEF message_ids
  <2> QED
    BY <1>2, <2>1, <2>3, <2>4
<1> QED
  BY <1>1, <1>2

\* Two entries of a log with the same id are the same.
LEMMA UniqueEntry ==
    ASSUME NEW l, UniqueIds(l), NEW a \in Entries(l), NEW b \in Entries(l), a.id = b.id
    PROVE  a = b
BY DEF UniqueIds, Entries

\* The duplicate branch finds an entry with the id and returns its offset.
LEMMA OffsetOfFacts ==
    ASSUME NEW ids, NEW l \in LogType(ids), NEW id \in message_ids(l)
    PROVE  /\ OffsetOf(l, id) \in Nat
           /\ \E e \in Entries(l) : e.id = id /\ e.offset = OffsetOf(l, id)
<1> DEFINE e == CHOOSE x \in Entries(l) : x.id = id
<1>1. e \in Entries(l) /\ e.id = id
  BY DEF message_ids
<1>2. e \in LogEntry(ids)
  BY <1>1, LogFields
<1>3. OffsetOf(l, id) = e.offset
  BY DEF OffsetOf
<1> QED
  BY <1>1, <1>2, <1>3 DEF LogEntry

\* Appending an entry whose id is new keeps ids unique.
LEMMA ExtendUnique ==
    ASSUME NEW ids, NEW l \in LogType(ids), UniqueIds(l), NEW r,
           NEW e \in LogEntry(ids), e.id \notin message_ids(l), r.log = Append(l.log, e)
    PROVE  UniqueIds(r)
<1>1. l.log \in Seq(LogEntry(ids))
  BY LogFields
<1>2. \A i \in DOMAIN l.log : l.log[i].id # e.id
  BY DEF message_ids, Entries
<1>3. /\ DOMAIN r.log = 1..(Len(l.log) + 1)
      /\ DOMAIN l.log = 1..Len(l.log)
      /\ r.log[Len(l.log) + 1] = e
      /\ \A i \in 1..Len(l.log) : r.log[i] = l.log[i]
      /\ Len(l.log) \in Nat
  BY <1>1
<1> QED
  BY <1>2, <1>3 DEF UniqueIds

\* The leader's append keeps every message at the index of its offset and
\* stored once, loses no entry, and the offset it returns is the message's.
LEMMA AppendNextKeeps ==
    ASSUME NEW ids, NEW l \in LogType(ids), UniqueIds(l), Positional(l),
           NEW id \in ids
    PROVE  /\ UniqueIds(AppendNext(l, id))
           /\ Positional(AppendNext(l, id))
           /\ Entries(l) \subseteq Entries(AppendNext(l, id))
<1> DEFINE r == AppendNext(l, id)
           e == NewEntry(l.next_offset, id)
<1>1. CASE id \in message_ids(l)
  BY <1>1, AppendNextFacts
<1>2. CASE id \notin message_ids(l)
  <2>1. l.log \in Seq(LogEntry(ids)) /\ l.next_offset \in Nat
    BY LogFields
  <2>2. e \in LogEntry(ids) /\ e.id = id /\ e.offset = l.next_offset
    BY <2>1 DEF NewEntry, LogEntry
  <2>3. r.log = Append(l.log, e) /\ r.next_offset = l.next_offset + 1
    BY <1>2, AppendNextFacts
  <2>4. UniqueIds(r)
    BY <1>2, <2>2, <2>3, ExtendUnique
  <2>5. Positional(r)
    <3>1. /\ DOMAIN r.log = 1..(Len(l.log) + 1)
          /\ Len(r.log) = Len(l.log) + 1
          /\ DOMAIN l.log = 1..Len(l.log)
          /\ r.log[Len(l.log) + 1] = e
          /\ \A i \in 1..Len(l.log) : r.log[i] = l.log[i]
          /\ Len(l.log) \in Nat
      BY <2>1, <2>2, <2>3
    <3> QED
      BY <2>2, <2>3, <3>1 DEF Positional
  <2>6. Entries(l) \subseteq Entries(r)
    BY <1>2, AppendNextFacts
  <2> QED
    BY <2>4, <2>5, <2>6
<1> QED
  BY <1>1, <1>2

\* The follower's append stores every message once and loses no entry.
LEMMA AppendAtKeeps ==
    ASSUME NEW ids, NEW l \in LogType(ids), UniqueIds(l),
           NEW id \in ids, NEW offset \in Nat
    PROVE  /\ UniqueIds(AppendAt(l, id, offset))
           /\ Entries(l) \subseteq Entries(AppendAt(l, id, offset))
<1>1. CASE id \in message_ids(l)
  BY <1>1, AppendAtFacts
<1>2. CASE id \notin message_ids(l)
  <2> DEFINE r == AppendAt(l, id, offset)
             e == NewEntry(offset, id)
  <2>1. e \in LogEntry(ids) /\ e.id = id
    BY NewEntryFacts
  <2>2. r.log = Append(l.log, e)
    BY <1>2, AppendAtFacts
  <2>3. UniqueIds(r)
    BY <1>2, <2>1, <2>2, ExtendUnique
  <2> QED
    BY <1>2, <2>3, AppendAtFacts
<1> QED
  BY <1>1, <1>2

\* In a positional log an offset names one message.
LEMMA PositionalFacts ==
    ASSUME NEW ids, NEW l \in LogType(ids), Positional(l),
           NEW a \in Entries(l), NEW b \in Entries(l), a.offset = b.offset
    PROVE  a = b
<1>1. l.log \in Seq(LogEntry(ids))
  BY LogFields
<1>2. PICK i \in DOMAIN l.log, j \in DOMAIN l.log : a = l.log[i] /\ b = l.log[j]
  BY DEF Entries
<1>3. i \in Nat /\ j \in Nat /\ i - 1 = j - 1
  BY <1>1, <1>2 DEF Positional
<1> QED
  BY <1>2, <1>3

\* Every offset in the list is below the next free one.
BelowNext(l) == \A e \in Entries(l) : e.offset < l.next_offset

\* A log that starts empty and only grows has these.
LEMMA EmptyLogFacts ==
    ASSUME NEW ids
    PROVE  /\ EmptyLog \in LogType(ids) /\ Entries(EmptyLog) = {}
           /\ UniqueIds(EmptyLog) /\ Positional(EmptyLog) /\ BelowNext(EmptyLog)
BY DEF EmptyLog, LogType, Entries, UniqueIds, Positional, BelowNext

\* append without an offset on a log with gaps, as a promoted follower has.
LEMMA AppendNextGrows ==
    ASSUME NEW ids, NEW l \in LogType(ids), UniqueIds(l), BelowNext(l), NEW id \in ids
    PROVE  /\ UniqueIds(AppendNext(l, id))
           /\ BelowNext(AppendNext(l, id))
           /\ Entries(l) \subseteq Entries(AppendNext(l, id))
<1> DEFINE r == AppendNext(l, id)
           e == NewEntry(l.next_offset, id)
<1>1. CASE id \in message_ids(l)
  BY <1>1, AppendNextFacts
<1>2. CASE id \notin message_ids(l)
  <2>1. l.next_offset \in Nat /\ Entries(l) \subseteq LogEntry(ids)
    BY LogFields
  <2>2. e \in LogEntry(ids) /\ e.id = id /\ e.offset = l.next_offset
    BY <2>1, NewEntryFacts
  <2>3. /\ r.log = Append(l.log, e)
        /\ r.next_offset = l.next_offset + 1
        /\ Entries(r) = Entries(l) \cup {e}
    BY <1>2, AppendNextFacts
  <2>4. UniqueIds(r)
    BY <1>2, <2>2, <2>3, ExtendUnique
  <2>5. BelowNext(r)
    BY <2>1, <2>2, <2>3 DEF BelowNext, LogEntry
  <2> QED
    BY <2>3, <2>4, <2>5
<1> QED
  BY <1>1, <1>2

\* append at a given offset on such a log.
LEMMA AppendAtGrows ==
    ASSUME NEW ids, NEW l \in LogType(ids), UniqueIds(l), BelowNext(l),
           NEW id \in ids, NEW offset \in Nat
    PROVE  /\ UniqueIds(AppendAt(l, id, offset))
           /\ BelowNext(AppendAt(l, id, offset))
           /\ Entries(l) \subseteq Entries(AppendAt(l, id, offset))
<1> DEFINE r == AppendAt(l, id, offset)
           e == NewEntry(offset, id)
<1>1. CASE id \in message_ids(l)
  BY <1>1, AppendAtFacts
<1>2. CASE id \notin message_ids(l)
  <2>1. l.next_offset \in Nat /\ Entries(l) \subseteq LogEntry(ids)
    BY LogFields
  <2>2. e \in LogEntry(ids) /\ e.offset = offset
    BY NewEntryFacts
  <2>3. PICK n \in Nat : n > offset /\ n >= l.next_offset /\ r = Extend(l, e, n)
    BY <1>2, <2>1 DEF AppendAt
  <2>4. r.next_offset = n /\ Entries(r) = Entries(l) \cup {e}
    BY <2>2, <2>3, ExtendFacts
  <2>5. BelowNext(r)
    BY <2>1, <2>2, <2>3, <2>4 DEF BelowNext, LogEntry
  <2> QED
    BY <2>5, AppendAtKeeps
<1> QED
  BY <1>1, <1>2

\* The log and the next free offset after append at a given offset.
LEMMA AppendAtNext ==
    ASSUME NEW ids, NEW l \in LogType(ids), NEW id \in ids, NEW offset \in Nat,
           id \notin message_ids(l)
    PROVE  /\ AppendAt(l, id, offset).log = Append(l.log, NewEntry(offset, id))
           /\ AppendAt(l, id, offset).next_offset =
                  IF offset >= l.next_offset THEN offset + 1 ELSE l.next_offset
BY DEF AppendAt, Extend

-----------------------------------------------------------------------------
(***************************************************************************)
(* The lookups.                                                            *)
(***************************************************************************)
\* A set of natural numbers has a least element: what stands for induction here.
LEMMA LeastNat ==
    ASSUME NEW T, T \subseteq Nat, T # {}
    PROVE  \E n \in T : \A m \in T : n <= m
<1> DEFINE R == {ss \in Nat \X Nat : ss[1] < ss[2]}
<1>1. IsWellFoundedOn(R, Nat)
  BY NatLessThanWellFounded, Zenon DEF OpToRel
<1>2. \A m \in Nat, n \in Nat : m < n => << m, n >> \in R
  OBVIOUS
<1> HIDE DEF R
<1>3. PICK n \in T : \A m \in T : ~ (<< m, n >> \in R)
  BY ONLY <1>1, WFMin, T \subseteq Nat, T # {}
<1>4. \A m \in T : ~ (m < n)
  BY <1>2, <1>3
<1> QED
  BY ONLY <1>4, T \subseteq Nat, n \in T

\* p lists the positions, all of them, in increasing order.
Enumerates(p, positions) ==
    /\ p \in [1..Cardinality(positions) -> positions]
    /\ \A i \in positions : \E j \in DOMAIN p : p[j] = i
    /\ \A j, k \in DOMAIN p : j < k => p[j] < p[k]

\* The positions up to a number can be listed if those below it can.
LEMMA EnumerateNext ==
    ASSUME NEW n \in Nat, n # 0, NEW S \in SUBSET (1..n),
           \A U \in SUBSET (1..(n - 1)) : \E p : Enumerates(p, U)
    PROVE  \E p : Enumerates(p, S)
<1>1. CASE n \notin S
  <2>1. S \in SUBSET (1..(n - 1))
    BY <1>1
  <2> QED
    BY <2>1
<1>2. CASE n \in S
  <2> DEFINE U == S \ {n}
             c == Cardinality(U)
  <2>1. IsFiniteSet(S)
    BY FS_Interval, FS_Subset, 1 \in Int, n \in Int
  <2>2. IsFiniteSet(U) /\ Cardinality(S) = c + 1 /\ c \in Nat
    <3>1. IsFiniteSet(U) /\ c = Cardinality(S) - 1
      BY <1>2, <2>1, FS_RemoveElement
    <3>2. Cardinality(S) \in Nat
      BY <2>1, FS_CardinalityType
    <3>3. c \in Nat
      BY <3>1, FS_CardinalityType
    <3> HIDE DEF U, c
    <3> QED
      BY <3>1, <3>2, <3>3
  <2>3. U \in SUBSET (1..(n - 1)) /\ \A i \in U : i \in Nat /\ i < n
    OBVIOUS
  <2>4. PICK p : Enumerates(p, U)
    BY <2>3
  <2> HIDE DEF c, U
  <2>5. p \in [1..c -> U] /\ DOMAIN p = 1..c
    BY <2>4 DEF Enumerates, c
  <2> DEFINE q == [j \in 1..(c + 1) |-> IF j = c + 1 THEN n ELSE p[j]]
  <2>6. S = U \cup {n}
    BY <1>2 DEF U
  <2>7. \A j \in 1..(c + 1) : j = c + 1 \/ j \in 1..c
    BY <2>2
  <2>8. q \in [1..(c + 1) -> S]
    BY <2>5, <2>6, <2>7
  <2>9. \A i \in S : \E j \in DOMAIN q : q[j] = i
    <3> SUFFICES ASSUME NEW i \in S PROVE \E j \in 1..(c + 1) : q[j] = i
      OBVIOUS
    <3>1. CASE i = n
      <4>1. c + 1 \in 1..(c + 1) /\ q[c + 1] = n
        BY <2>2
      <4> QED
        BY <3>1, <4>1
    <3>2. CASE i \in U
      <4>1. PICK j \in 1..c : p[j] = i
        BY <2>4, <2>5, <3>2 DEF Enumerates
      <4>2. j \in 1..(c + 1) /\ j # c + 1
        BY <2>2
      <4> QED
        BY <4>1, <4>2
    <3> QED
      BY <2>6, <3>1, <3>2
  <2>10. \A j, k \in DOMAIN q : j < k => q[j] < q[k]
    <3> SUFFICES ASSUME NEW j \in 1..(c + 1), NEW k \in 1..(c + 1), j < k
                 PROVE  q[j] < q[k]
      OBVIOUS
    <3>1. j \in 1..c /\ j # c + 1
      BY <2>2
    <3>2. q[j] = p[j] /\ p[j] \in U
      BY <2>5, <3>1
    <3>3. CASE k = c + 1
      BY <2>3, <3>2, <3>3
    <3>4. CASE k # c + 1
      <4>1. k \in 1..c /\ q[k] = p[k]
        BY <2>7, <3>4
      <4> QED
        BY <2>4, <2>5, <3>1, <3>2, <4>1 DEF Enumerates
    <3> QED
      BY <3>3, <3>4
  <2>11. DOMAIN q = 1..(c + 1) /\ Cardinality(S) = c + 1
    BY <2>2
  <2> HIDE DEF q
  <2>12. Enumerates(q, S)
    BY <2>8, <2>9, <2>10, <2>11 DEF Enumerates
  <2> QED
    BY <2>12
<1> QED
  BY <1>1, <1>2

\* Any list positions can be listed in order: of the numbers up to which they could
\* not, none is the least.
LEMMA CanEnumerate ==
    ASSUME NEW n \in Nat, NEW S \in SUBSET (1..n)
    PROVE  \E p : Enumerates(p, S)
<1> DEFINE T == {m \in Nat : ~ \A U \in SUBSET (1..m) : \E p : Enumerates(p, U)}
<1>1. SUFFICES T = {}
  OBVIOUS
<1>2. SUFFICES ASSUME T # {} PROVE FALSE
  OBVIOUS
<1>3. PICK m \in T : \A k \in T : m <= k
  <2>1. T \subseteq Nat
    OBVIOUS
  <2> HIDE DEF T
  <2> QED
    BY <1>2, <2>1, LeastNat
<1>4. CASE m = 0
  <2>1. \A U \in SUBSET (1..m) : U = {}
    BY <1>4
  <2>2. Cardinality({}) = 0
    BY FS_EmptySet
  <2>3. Enumerates(<< >>, {})
    BY <2>2 DEF Enumerates
  <2> QED
    BY <2>1, <2>3
<1>5. CASE m # 0
  <2>1. m \in Nat /\ m - 1 \in Nat /\ ~(m <= m - 1)
    BY <1>5
  <2>2. m - 1 \notin T
    BY <1>3, <2>1
  <2>3. \A U \in SUBSET (1..(m - 1)) : \E p : Enumerates(p, U)
    BY <2>1, <2>2
  <2>4. \A U \in SUBSET (1..m) : \E p : Enumerates(p, U)
    BY <1>5, <2>1, <2>3, EnumerateNext
  <2> QED
    BY <2>4
<1> QED
  BY <1>4, <1>5

\* The messages at some list positions: well typed, exactly those, in list order.
LEMMA MessagesFacts ==
    ASSUME NEW ids, NEW l \in LogType(ids), NEW S \in SUBSET DOMAIN l.log
    PROVE  /\ Messages(l, S) \in Seq(LogEntry(ids))
           /\ \E p \in [DOMAIN Messages(l, S) -> S] :
                  /\ \A j \in DOMAIN Messages(l, S) : Messages(l, S)[j] = l.log[p[j]]
                  /\ \A i \in S : \E j \in DOMAIN Messages(l, S) : p[j] = i
                  /\ \A j, k \in DOMAIN Messages(l, S) : j < k => p[j] < p[k]
<1> DEFINE p == InOrder(S)
           c == Cardinality(S)
           s == l.log
<1>1. s \in Seq(LogEntry(ids)) /\ Len(s) \in Nat /\ DOMAIN s = 1..Len(s)
  BY LogFields
<1>2. S \in SUBSET (1..Len(s))
  BY <1>1
<1>3. \E q : Enumerates(q, S)
  BY <1>1, <1>2, CanEnumerate
<1>4. Enumerates(p, S)
  BY <1>3 DEF Enumerates, InOrder
<1>5. c \in Nat
  <2>1. IsFiniteSet(1..Len(s))
    BY <1>1, FS_Interval, 1 \in Int
  <2>2. IsFiniteSet(S)
    BY ONLY <1>2, <2>1, FS_Subset
  <2> QED
    BY <2>2, FS_CardinalityType
<1>6. Messages(l, S) = [j \in DOMAIN p |-> s[p[j]]]
  BY DEF Messages
<1> HIDE DEF p, c, s
<1>7. p \in [1..c -> S] /\ DOMAIN p = 1..c
  BY <1>4 DEF Enumerates, c
<1>8. \A i \in S : s[i] \in LogEntry(ids)
  BY <1>1, <1>2
<1> DEFINE m == [j \in 1..c |-> s[p[j]]]
<1>9. m \in [1..c -> LogEntry(ids)]
  BY <1>7, <1>8
<1>10. m \in Seq(LogEntry(ids)) /\ DOMAIN m = 1..c
  BY <1>5, <1>9
<1>11. Messages(l, S) = m
  BY <1>6, <1>7
<1>12. \A j \in 1..c : m[j] = s[p[j]]
  OBVIOUS
<1> HIDE DEF m
<1>13. /\ \A i \in S : \E j \in 1..c : p[j] = i
       /\ \A j, k \in 1..c : j < k => p[j] < p[k]
  BY <1>4, <1>7 DEF Enumerates
<1> QED
  BY <1>7, <1>10, <1>11, <1>12, <1>13 DEF s

\* The leader's lookup: from index start on without a gap, and something if there is.
LEMMA GetByPositionFacts ==
    ASSUME NEW ids, NEW l \in LogType(ids), NEW start \in Nat, NEW max \in Nat \ {0}
    PROVE  /\ GetByPosition(l, start, max) \subseteq DOMAIN l.log
           /\ \A i \in GetByPosition(l, start, max), j \in DOMAIN l.log :
                  start < j /\ j <= i => j \in GetByPosition(l, start, max)
           /\ \A j \in DOMAIN l.log : start < j =>
                  \E i \in GetByPosition(l, start, max) : i <= j
<1>1. DOMAIN l.log = 1..Len(l.log) /\ Len(l.log) \in Nat
  BY LogFields
<1>2. \A i \in GetByPosition(l, start, max), j \in DOMAIN l.log :
          start < j /\ j <= i => j \in GetByPosition(l, start, max)
  BY <1>1 DEF GetByPosition
<1>3. ASSUME NEW j \in DOMAIN l.log, start < j
      PROVE  \E i \in GetByPosition(l, start, max) : i <= j
  <2>1. start + 1 \in GetByPosition(l, start, max) /\ start + 1 <= j
    BY <1>1, <1>3 DEF GetByPosition
  <2> QED
    BY <2>1
<1> QED
  BY <1>2, <1>3 DEF GetByPosition

\* The follower's lookup: of the positions at or above the offset the first ones,
\* without leaving one out, and something if there is.
LEMMA GetByOffsetFacts ==
    ASSUME NEW ids, NEW l \in LogType(ids), NEW start \in Nat, NEW max \in Nat \ {0}
    PROVE  /\ GetByOffset(l, start, max) \subseteq From(l, start)
           /\ \A i \in GetByOffset(l, start, max), j \in From(l, start) :
                  j <= i => j \in GetByOffset(l, start, max)
           /\ \A j \in From(l, start) : \E i \in GetByOffset(l, start, max) : i <= j
<1> DEFINE F == From(l, start)
           W == GetByOffset(l, start, max)
           Before(i) == {j \in F : j < i}
<1>1. DOMAIN l.log = 1..Len(l.log) /\ Len(l.log) \in Nat
  BY LogFields
<1>2. F \subseteq 1..Len(l.log) /\ F \subseteq Nat
  BY <1>1 DEF From
<1>3. \A i \in F : IsFiniteSet(Before(i)) /\ Cardinality(Before(i)) \in Nat
  <2> SUFFICES ASSUME NEW i \in F
               PROVE  IsFiniteSet(Before(i)) /\ Cardinality(Before(i)) \in Nat
    OBVIOUS
  <2>1. IsFiniteSet(1..Len(l.log))
    BY <1>1, FS_Interval, 1 \in Int
  <2>2. Before(i) \in SUBSET (1..Len(l.log))
    BY <1>2
  <2> QED
    BY <2>1, <2>2, FS_Subset, FS_CardinalityType
<1>4. W = {i \in F : Cardinality(Before(i)) < max}
  BY DEF GetByOffset
<1> HIDE DEF F, W
<1>5. ASSUME NEW i \in W, NEW j \in F, j <= i
      PROVE  j \in W
  <2>1. i \in F /\ i \in Nat /\ j \in Nat
    BY <1>2, <1>4
  <2>2. Before(j) \in SUBSET Before(i)
    <3>1. \A k \in F : k < j => k < i
      BY <1>2, <1>5, <2>1
    <3> QED
      BY <3>1
  <2>3. Cardinality(Before(j)) <= Cardinality(Before(i))
    BY <1>3, <2>1, <2>2, FS_Subset
  <2>4. Cardinality(Before(i)) < max
    BY <1>4
  <2>5. Cardinality(Before(j)) < max
    BY <1>3, <2>1, <2>3, <2>4
  <2> QED
    BY <1>4, <2>5
<1>6. ASSUME NEW j \in F
      PROVE  \E i \in W : i <= j
  <2>1. PICK i \in F : \A k \in F : i <= k
    BY <1>2, LeastNat
  <2>2. Before(i) = {}
    <3>1. \A k \in F : ~ (k < i)
      BY <1>2, <2>1
    <3> QED
      BY <3>1
  <2>3. Cardinality(Before(i)) = 0
    BY <2>2, FS_EmptySet
  <2>4. i \in W
    BY <1>4, <2>3
  <2> QED
    BY <2>1, <2>4
<1>7. W \subseteq F
  BY <1>4
<1> QED
  BY <1>5, <1>6, <1>7 DEF F, W

=============================================================================

------------------------- MODULE EventStreamProofs -------------------------
(***************************************************************************)
(* Proofs about EventStream, for every number of notes, cancels, pauses    *)
(* and failures: types, the order in which the client sees events, that it *)
(* misses none but those committed late, and what its screen then shows.   *)
(***************************************************************************)
EXTENDS EventStream, FiniteSetTheorems, SequenceTheorems, TLAPS

----------------------------------------------------------------------------
(* Sorted sets of ids and sequences.                                       *)

\* The number of members of a set up to one of them.
Rank(ids, id) == Cardinality({i \in ids : i <= id})

\* A member's rank is a position, and a larger member has a larger rank.
LEMMA RankGrows ==
  ASSUME NEW ids \in SUBSET Nat, IsFiniteSet(ids)
  PROVE  /\ \A id \in ids : Rank(ids, id) \in 1..Cardinality(ids)
         /\ \A i, j \in ids : i < j => Rank(ids, i) < Rank(ids, j)
<1> DEFINE upto(id) == {i \in ids : i <= id}
<1>1. \A id \in ids : IsFiniteSet(upto(id)) /\ Cardinality(upto(id)) \in Nat
                      /\ Cardinality(upto(id)) <= Cardinality(ids)
  BY FS_Subset, FS_CardinalityType
<1>2. \A id \in ids : Cardinality(upto(id)) # 0
  <2>1. \A id \in ids : id \in upto(id)
    OBVIOUS
  <2> HIDE DEF upto
  <2> QED
    BY <1>1, <2>1, FS_EmptySet
<1>3. ASSUME NEW i \in ids, NEW j \in ids, i < j
      PROVE  Cardinality(upto(i)) < Cardinality(upto(j))
  <2>1. upto(i) \in SUBSET upto(j) /\ j \in upto(j) /\ j \notin upto(i)
    <3>1. i \in Nat /\ j \in Nat /\ \A k \in ids : k \in Nat
      OBVIOUS
    <3>2. \A k \in ids : k <= i => k <= j
      BY <1>3, <3>1
    <3>3. j <= j /\ ~(j <= i)
      BY <1>3, <3>1
    <3> QED
      BY <3>2, <3>3
  <2> HIDE DEF upto
  <2>2. IsFiniteSet(upto(j))
    BY <1>1
  <2>3. /\ Cardinality(upto(i)) <= Cardinality(upto(j))
        /\ Cardinality(upto(i)) = Cardinality(upto(j)) => upto(i) = upto(j)
    BY <2>1, <2>2, FS_Subset
  <2>4. upto(i) # upto(j)
    BY <2>1
  <2> QED
    BY <1>1, <2>3, <2>4
<1>4. Cardinality(ids) \in Nat
  BY FS_CardinalityType
<1> QED
  <2> HIDE DEF upto
  <2>1. \A id \in ids : Rank(ids, id) = Cardinality(upto(id))
    BY DEF Rank, upto
  <2> QED
    BY <1>1, <1>2, <1>3, <1>4, <2>1

\* Every position is the rank of a member.
LEMMA RankIsOnto ==
  ASSUME NEW ids \in SUBSET Nat, IsFiniteSet(ids)
  PROVE  \A k \in 1..Cardinality(ids) : \E id \in ids : Rank(ids, id) = k
<1> DEFINE n == Cardinality(ids)
           f == [id \in ids |-> Rank(ids, id)]
<1>1. n \in Nat /\ IsFiniteSet(1..n) /\ Cardinality(1..n) = n
  BY FS_CardinalityType, FS_Interval
<1>2. f \in Injection(ids, 1..n)
  <2>1. f \in [ids -> 1..n]
    BY RankGrows
  <2>2. \A i, j \in ids : f[i] = f[j] => i = j
    <3>1. \A i, j \in ids : i < j \/ j < i \/ i = j
      OBVIOUS
    <3>2. \A i \in ids : f[i] \in Nat
      BY <2>1
    <3> QED
      BY <3>1, <3>2, RankGrows
  <2> QED
    BY <2>1, <2>2 DEF Injection, IsInjective
<1>3. f \in Surjection(ids, 1..n)
  <2> HIDE DEF f
  <2> QED
    BY <1>1, <1>2, FS_Injection
<1> QED
  BY <1>3 DEF Surjection

\* Sorted lists the members of a finite set of numbers in increasing order.
LEMMA SortedList ==
  ASSUME NEW ids \in SUBSET Nat, IsFiniteSet(ids)
  PROVE  /\ Sorted(ids) \in Seq(ids)
         /\ Increasing(Sorted(ids))
         /\ \A id \in ids : \E k \in DOMAIN Sorted(ids) : Sorted(ids)[k] = id
<1>1. Cardinality(ids) \in Nat
  BY FS_CardinalityType
<1>2. \A k \in 1..Cardinality(ids) : Sorted(ids)[k] \in ids /\ Rank(ids, Sorted(ids)[k]) = k
  BY RankIsOnto DEF Sorted, Rank
<1>3. Sorted(ids) \in Seq(ids) /\ DOMAIN Sorted(ids) = 1..Cardinality(ids)
  <2>1. PICK n \in Nat : n = Cardinality(ids)
    BY <1>1
  <2>2. Sorted(ids) = [k \in 1..n |-> Sorted(ids)[k]]
    BY <2>1 DEF Sorted
  <2>3. Sorted(ids) \in [1..n -> ids]
    BY <1>2, <2>1, <2>2
  <2> QED
    BY <2>1, <2>3
<1>4. Increasing(Sorted(ids))
  <2> SUFFICES ASSUME NEW i \in 1..Cardinality(ids), NEW j \in 1..Cardinality(ids), i < j
               PROVE  Sorted(ids)[i] < Sorted(ids)[j]
    BY <1>3 DEF Increasing
  <2>1. /\ Sorted(ids)[i] \in ids /\ Rank(ids, Sorted(ids)[i]) = i
        /\ Sorted(ids)[j] \in ids /\ Rank(ids, Sorted(ids)[j]) = j
    BY <1>2
  <2>2. PICK a \in ids, b \in ids : a = Sorted(ids)[i] /\ b = Sorted(ids)[j]
    BY <2>1
  <2>3. a \in Nat /\ b \in Nat /\ Rank(ids, a) < Rank(ids, b) /\ ~(Rank(ids, b) < Rank(ids, a))
    BY <1>1, <2>1, <2>2
  <2>4. a # b /\ ~(b < a)
    BY <2>3, RankGrows
  <2> QED
    BY <2>2, <2>3, <2>4
<1>5. ASSUME NEW id \in ids PROVE \E k \in DOMAIN Sorted(ids) : Sorted(ids)[k] = id
  <2>1. Rank(ids, id) \in 1..Cardinality(ids)
    BY RankGrows
  <2>2. PICK k \in 1..Cardinality(ids) : k = Rank(ids, id)
    BY <2>1
  <2>3. PICK a \in ids : a = Sorted(ids)[k] /\ Rank(ids, a) = k
    BY <1>2
  <2>4. a \in Nat /\ id \in Nat /\ ~(Rank(ids, a) < Rank(ids, id)) /\ ~(Rank(ids, id) < Rank(ids, a))
    BY <1>1, <2>2, <2>3
  <2>5. ~(a < id) /\ ~(id < a)
    BY <2>4, RankGrows
  <2>6. a = id
    BY <2>4, <2>5
  <2> QED
    BY <1>3, <2>3, <2>6
<1> QED
  BY <1>3, <1>4, <1>5

----------------------------------------------------------------------------
(* Increasing sequences of ids and their members.                          *)

\* What is larger than every element can be appended to an increasing list.
LEMMA IncreasingAppend ==
  ASSUME NEW s \in Seq(Nat), NEW n \in Nat, Increasing(s), \A k \in DOMAIN s : s[k] < n
  PROVE  Increasing(Append(s, n))
<1>1. Len(Append(s, n)) = Len(s) + 1 /\ DOMAIN Append(s, n) = 1..Len(s) + 1 /\ DOMAIN s = 1..Len(s)
  OBVIOUS
<1>2. /\ Append(s, n)[Len(s) + 1] = n
      /\ \A k \in 1..Len(s) : Append(s, n)[k] = s[k]
  OBVIOUS
<1> SUFFICES ASSUME NEW i \in 1..Len(s) + 1, NEW j \in 1..Len(s) + 1, i < j
             PROVE  Append(s, n)[i] < Append(s, n)[j]
  BY <1>1 DEF Increasing
<1>3. i \in 1..Len(s)
  OBVIOUS
<1>4. CASE j \in 1..Len(s)
  BY <1>1, <1>2, <1>3, <1>4 DEF Increasing
<1>5. CASE j = Len(s) + 1
  BY <1>1, <1>2, <1>3, <1>5
<1> QED
  BY <1>4, <1>5

\* Two increasing lists can be joined when each element of the first is smaller than each
\* of the second.
LEMMA IncreasingConcat ==
  ASSUME NEW s \in Seq(Nat), NEW t \in Seq(Nat), Increasing(s), Increasing(t),
         \A i \in DOMAIN s, j \in DOMAIN t : s[i] < t[j]
  PROVE  Increasing(s \o t)
<1>1. /\ Len(s) \in Nat /\ Len(t) \in Nat
      /\ DOMAIN (s \o t) = 1..Len(s) + Len(t) /\ DOMAIN s = 1..Len(s) /\ DOMAIN t = 1..Len(t)
  OBVIOUS
<1>2. /\ \A k \in 1..Len(s) : (s \o t)[k] = s[k]
      /\ \A k \in 1..Len(t) : (s \o t)[Len(s) + k] = t[k]
  OBVIOUS
<1> SUFFICES ASSUME NEW i \in 1..Len(s) + Len(t), NEW j \in 1..Len(s) + Len(t), i < j
             PROVE  (s \o t)[i] < (s \o t)[j]
  BY <1>1 DEF Increasing
<1>3. CASE j \in 1..Len(s)
  <2>1. i \in 1..Len(s)
    BY <1>1, <1>3
  <2> QED
    BY <1>1, <1>2, <1>3, <2>1 DEF Increasing
<1>4. CASE j \notin 1..Len(s)
  <2>1. PICK b \in 1..Len(t) : j = Len(s) + b
    <3>1. j - Len(s) \in 1..Len(t) /\ j = Len(s) + (j - Len(s))
      BY <1>1, <1>4
    <3> QED
      BY <3>1
  <2>2. CASE i \in 1..Len(s)
    BY <1>1, <1>2, <2>1, <2>2
  <2>3. CASE i \notin 1..Len(s)
    <3>1. PICK a \in 1..Len(t) : i = Len(s) + a
      <4>1. i - Len(s) \in 1..Len(t) /\ i = Len(s) + (i - Len(s))
        BY <1>1, <2>3
      <4> QED
        BY <4>1
    <3>2. a < b
      BY <1>1, <2>1, <3>1
    <3> QED
      BY <1>1, <1>2, <2>1, <3>1, <3>2 DEF Increasing
  <2> QED
    BY <2>2, <2>3
<1> QED
  BY <1>3, <1>4

\* The head of an increasing list is smaller than all the rest, which is increasing.
LEMMA IncreasingTail ==
  ASSUME NEW s \in Seq(Nat), s # <<>>, Increasing(s)
  PROVE  /\ Increasing(Tail(s))
         /\ \A k \in DOMAIN Tail(s) : Head(s) < Tail(s)[k]
<1>1. /\ Len(s) \in Nat /\ Len(s) > 0
      /\ DOMAIN s = 1..Len(s) /\ DOMAIN Tail(s) = 1..Len(s) - 1 /\ Head(s) = s[1]
      /\ \A k \in 1..Len(s) - 1 : Tail(s)[k] = s[k + 1]
  OBVIOUS
<1>2. ASSUME NEW i \in 1..Len(s) - 1, NEW j \in 1..Len(s) - 1, i < j
      PROVE  Tail(s)[i] < Tail(s)[j]
  <2>1. i + 1 \in 1..Len(s) /\ j + 1 \in 1..Len(s) /\ i + 1 < j + 1
    BY <1>1, <1>2
  <2> QED
    BY <1>1, <2>1 DEF Increasing
<1>3. ASSUME NEW k \in 1..Len(s) - 1 PROVE Head(s) < Tail(s)[k]
  <2>1. 1 \in 1..Len(s) /\ k + 1 \in 1..Len(s) /\ 1 < k + 1
    BY <1>1, <1>3
  <2> QED
    BY <1>1, <2>1 DEF Increasing
<1> QED
  BY <1>1, <1>2, <1>3 DEF Increasing

\* The members of a sequence that was appended to, extended, or whose head was taken.
LEMMA MembersOfSeq ==
  ASSUME NEW S, NEW s \in Seq(S)
  PROVE  /\ Range(s) \subseteq S
         /\ \A k \in DOMAIN s : s[k] \in Range(s)
         /\ \A e \in Range(s) : \E k \in DOMAIN s : s[k] = e
<1>1. \A k \in DOMAIN s : s[k] \in S
  OBVIOUS
<1>2. Range(s) \subseteq S
  BY <1>1 DEF Range
<1>3. /\ \A k \in DOMAIN s : s[k] \in Range(s)
      /\ \A e \in Range(s) : \E k \in DOMAIN s : s[k] = e
  BY DEF Range
<1> QED
  BY <1>2, <1>3

\* What is appended to a list is added to its elements.
LEMMA RangeAppend ==
  ASSUME NEW S, NEW s \in Seq(S), NEW e \in S
  PROVE  Range(Append(s, e)) = Range(s) \cup {e}
<1>1. Len(s) \in Nat /\ DOMAIN Append(s, e) = 1..Len(s) + 1 /\ DOMAIN s = 1..Len(s)
  OBVIOUS
<1>2. /\ Append(s, e)[Len(s) + 1] = e
      /\ \A k \in 1..Len(s) : Append(s, e)[k] = s[k]
  OBVIOUS
<1>3. Len(s) + 1 \in 1..Len(s) + 1 /\ \A k \in 1..Len(s) + 1 : k \in 1..Len(s) \/ k = Len(s) + 1
  BY <1>1
<1>4. \A k \in 1..Len(s) : k \in 1..Len(s) + 1
  BY <1>1
<1>5. ASSUME NEW id \in Range(Append(s, e)) PROVE id \in Range(s) \cup {e}
  <2>1. PICK k \in 1..Len(s) + 1 : Append(s, e)[k] = id
    BY <1>1 DEF Range
  <2> QED
    BY <1>1, <1>2, <1>3, <2>1 DEF Range
<1>6. ASSUME NEW id \in Range(s) \cup {e} PROVE id \in Range(Append(s, e))
  <2>1. CASE id = e
    BY <1>1, <1>2, <1>3, <2>1 DEF Range
  <2>2. CASE id \in Range(s)
    <3>1. PICK k \in 1..Len(s) : s[k] = id
      BY <1>1, <2>2 DEF Range
    <3> QED
      BY <1>1, <1>2, <1>4, <3>1 DEF Range
  <2> QED
    BY <2>1, <2>2
<1> QED
  BY <1>5, <1>6

\* The elements of a list are its head and those of its tail.
LEMMA RangeTail ==
  ASSUME NEW S, NEW s \in Seq(S), s # <<>>
  PROVE  /\ Range(s) = Range(Tail(s)) \cup {Head(s)}
         /\ Head(s) \in S /\ Tail(s) \in Seq(S)
<1>1. /\ Len(s) \in Nat /\ Len(s) > 0
      /\ DOMAIN s = 1..Len(s) /\ DOMAIN Tail(s) = 1..Len(s) - 1 /\ Head(s) = s[1]
      /\ \A k \in 1..Len(s) - 1 : Tail(s)[k] = s[k + 1]
  OBVIOUS
<1>2. 1 \in 1..Len(s) /\ \A k \in 1..Len(s) - 1 : k + 1 \in 1..Len(s)
  BY <1>1
<1>3. ASSUME NEW k \in 1..Len(s), k # 1 PROVE \E j \in 1..Len(s) - 1 : k = j + 1
  <2>1. k - 1 \in 1..Len(s) - 1 /\ k = (k - 1) + 1
    BY <1>1, <1>3
  <2> QED
    BY <2>1
<1>4. ASSUME NEW id \in Range(s) PROVE id \in Range(Tail(s)) \cup {Head(s)}
  <2>1. PICK k \in 1..Len(s) : s[k] = id
    BY <1>1 DEF Range
  <2>2. CASE k = 1
    BY <1>1, <2>1, <2>2
  <2>3. CASE k # 1
    <3>1. PICK j \in 1..Len(s) - 1 : k = j + 1
      BY <1>3, <2>3
    <3>2. j \in DOMAIN Tail(s) /\ Tail(s)[j] = id
      BY <1>1, <2>1, <3>1
    <3> QED
      BY <3>2 DEF Range
  <2> QED
    BY <2>2, <2>3
<1>5. ASSUME NEW id \in Range(Tail(s)) \cup {Head(s)} PROVE id \in Range(s)
  <2>1. CASE id = Head(s)
    <3>1. 1 \in DOMAIN s /\ s[1] = id
      BY <1>1, <1>2, <2>1
    <3> QED
      BY <3>1 DEF Range
  <2>2. CASE id \in Range(Tail(s))
    <3>1. PICK k \in 1..Len(s) - 1 : Tail(s)[k] = id
      BY <1>1, <2>2 DEF Range
    <3>2. k + 1 \in DOMAIN s /\ s[k + 1] = id
      BY <1>1, <1>2, <3>1
    <3> QED
      BY <3>2 DEF Range
  <2> QED
    BY <2>1, <2>2
<1>6. Head(s) \in S /\ Tail(s) \in Seq(S)
  OBVIOUS
<1> QED
  BY <1>4, <1>5, <1>6

----------------------------------------------------------------------------
(* The inductive invariant.                                                *)

\* An id that a session took is not in the log yet, and no other session has it.
Opens ==
  \A s \in Session : open[s] # 0 =>
    /\ open[s] \notin log
    /\ \A t \in Session : t # s => open[t] # open[s]

\* Both cursors are ids of committed events, the server's ahead of the client's.
Cursors ==
  /\ after \in log \cup {0} /\ cursor \in log \cup {0}
  /\ connected => cursor <= after
  /\ ~connected => net = <<>>

\* What is on its way is in order and between the two cursors.
Frames ==
  /\ Increasing(net) /\ Increasing(received)
  /\ \A id \in Range(net) : cursor < id /\ id <= after
  /\ \A id \in Range(received) : id <= cursor

\* An event behind the server's cursor was received, is on its way or was late.
Sent ==
  connected => \A id \in log : id <= after => id \in Range(received) \cup Range(net) \cup late

IInv == TypeOK /\ Opens /\ Cursors /\ Frames /\ Sent /\ NoneSkipped

----------------------------------------------------------------------------
(* What the operators and the steps do.                                    *)

\* The unsent events are finitely many, and there is a last one.
LEMMA UnsentIds ==
  ASSUME TypeOK
  PROVE  /\ Unsent \in SUBSET Nat /\ IsFiniteSet(Unsent)
         /\ Unsent # {} => /\ Max(Unsent) \in Unsent
                           /\ \A id \in Unsent : id <= Max(Unsent)
<1>1. types \in Seq(EventType) /\ log \subseteq 1..Len(types)
  BY DEF TypeOK, Ids
<1>2. Len(types) \in Nat /\ Unsent \in SUBSET (1..Len(types))
  <2>1. Unsent \subseteq log
    BY DEF Unsent
  <2>2. Len(types) \in Nat
    BY <1>1
  <2> QED
    BY <1>1, <2>1, <2>2
<1>3. Unsent \in SUBSET Nat /\ IsFiniteSet(Unsent)
  <2>1. IsFiniteSet(1..Len(types))
    BY <1>2, FS_Interval
  <2>2. IsFiniteSet(Unsent)
    BY <1>2, <2>1, FS_Subset
  <2> QED
    BY <1>2, <2>2
<1>4. ASSUME Unsent # {}
      PROVE  \E x \in Unsent : \A id \in Unsent : x >= id
  <2>1. PICK s : s = Sorted(Unsent)
    OBVIOUS
  <2>2. s \in Seq(Unsent) /\ Increasing(s) /\ \A id \in Unsent : \E k \in DOMAIN s : s[k] = id
    BY <1>3, <2>1, SortedList
  <2>3. Len(s) \in Nat /\ DOMAIN s = 1..Len(s) /\ \A k \in DOMAIN s : s[k] \in Unsent
    BY <2>2
  <2>4. Len(s) \in DOMAIN s
    BY <1>4, <2>2, <2>3
  <2>5. ASSUME NEW id \in Unsent PROVE s[Len(s)] >= id
    <3>1. PICK k \in DOMAIN s : s[k] = id
      BY <2>2
    <3>2. k = Len(s) \/ k < Len(s)
      BY <2>3
    <3>3. id \in Nat /\ s[Len(s)] \in Nat
      BY <1>3, <2>3, <2>4
    <3> QED
      BY <2>2, <2>4, <3>1, <3>2, <3>3 DEF Increasing
  <2> QED
    BY <2>3, <2>4, <2>5
<1>5. ASSUME Unsent # {}
      PROVE  Max(Unsent) \in Unsent /\ \A id \in Unsent : Max(Unsent) >= id
  BY <1>4, <1>5 DEF Max
<1>6. \A id \in Unsent : id \in Nat
  BY <1>3
<1> QED
  BY <1>3, <1>5, <1>6

\* The steps of the worker and of the users that append no event and send none.
RowStep ==
  \/ WorkerStep
  \/ \E decision \in {"approved", "denied"} : Decide(decision)
  \/ AskCancel

\* A step that reads or decides about the task's row writes no event and sends none.
LEMMA RowSteps ==
  ASSUME RowStep PROVE UNCHANGED <<types, log, open, stream, late>>
BY DEF RowStep, WorkerStep, Load, Start, Resume, FailDenied, FindCancelled, Note, Finish, Pause,
       Decide, AskCancel, stream, sessions, tables, history

\* The steps of the system, by what they do to the log and the stream.
LEMMA NextSteps ==
  ASSUME [Next]_vars
  PROVE  \/ UNCHANGED vars
         \/ \E s \in Session : Insert(s)
         \/ \E s \in Session : Commit(s)
         \/ \E s \in Session : Die(s)
         \/ RowStep
         \/ Connect \/ Poll \/ Receive \/ Break \/ Refuse
BY DEF Next, StreamStep, RowStep

\* The last decision replaces the pending one.
LEMMA Decided ==
  ASSUME NEW S, NEW s \in Seq(S), s # <<>>, NEW e \in S
  PROVE  Append(Front(s), e) \in Seq(S)
<1>1. Len(s) \in Nat /\ Len(s) > 0 /\ \A k \in 1..Len(s) - 1 : s[k] \in S
  OBVIOUS
<1>2. SubSeq(s, 1, Len(s) - 1) \in Seq(S)
  BY <1>1, SubSeqProperties
<1> QED
  BY <1>2 DEF Front

----------------------------------------------------------------------------
(* Types.                                                                  *)

\* The types hold at the start.
LEMMA TypeInit == Init => TypeOK
<1> SUFFICES ASSUME Init PROVE TypeOK
  OBVIOUS
<1>1. /\ types \in Seq(EventType) /\ net \in Seq(log) /\ received \in Seq(log)
      /\ approvals \in Seq({"pending", "approved", "denied"})
  BY DEF Init
<1>2. todo \in [Session -> EventType \cup {"none"}] /\ open \in [Session -> {0} \cup Ids]
  BY DEF Init, EventType, Session
<1>3. /\ status \in Status /\ shown \in Status
      /\ requested \in BOOLEAN /\ working \in BOOLEAN /\ connected \in BOOLEAN /\ over \in BOOLEAN
      /\ about \in Plan \cup {"none"}
      /\ log \subseteq Ids /\ late \subseteq log
      /\ after \in Nat /\ cursor \in Nat
      /\ notes \in Nat /\ cancels \in Nat /\ failures \in Nat
      /\ faults \subseteq {"crossed", "lost", "unheeded"}
  BY DEF Init, Status
<1> QED
  BY <1>1, <1>2, <1>3 DEF TypeOK

\* The types of what the steps of the worker and the users change.
LEMMA TypeRow ==
  ASSUME TypeOK, RowStep
  PROVE  /\ status' \in Status
         /\ requested' \in BOOLEAN /\ working' \in BOOLEAN /\ about' \in Plan \cup {"none"}
         /\ approvals' \in Seq({"pending", "approved", "denied"})
         /\ todo' \in [Session -> EventType \cup {"none"}]
         /\ notes' \in Nat /\ cancels' \in Nat /\ failures' \in Nat
         /\ faults' \subseteq {"crossed", "lost", "unheeded"}
<1> USE DEF TypeOK, Status
<1>1. ASSUME NEW e \in EventType, NEW s \in Session
      PROVE  [todo EXCEPT ![s] = e] \in [Session -> EventType \cup {"none"}]
  OBVIOUS
<1>2. {"started", "note", "approval_requested", "completed", "failed", "cancelled"} \subseteq EventType
      /\ "worker" \in Session /\ "canceller" \in Session
  BY DEF EventType, Session
<1>p. CASE Load
  <2>1. about' \in Plan \cup {"none"} /\ UNCHANGED <<tables, working, todo, history>>
    BY <1>p DEF Load, Plan
  <2> QED
    BY <2>1 DEF tables, history
<1>3. CASE Start
  BY <1>1, <1>2, <1>3 DEF Start, Change, stream, history
<1>4. CASE Resume
  BY <1>4 DEF Resume, stream, history
<1>5. CASE FailDenied
  BY <1>1, <1>2, <1>5 DEF FailDenied, Change, stream, history
<1>6. CASE FindCancelled
  BY <1>6 DEF FindCancelled, sessions, stream, history
<1>7. CASE Note
  BY <1>1, <1>2, <1>7 DEF Note, tables
<1>8. CASE Finish("succeeded")
  BY <1>1, <1>2, <1>8 DEF Finish, Change, Announces, stream, history
<1>9. CASE Finish("failed")
  BY <1>1, <1>2, <1>9 DEF Finish, Change, Announces, stream, history
<1>10. CASE Pause
  <2>1. approvals' \in Seq({"pending", "approved", "denied"})
    BY <1>10 DEF Pause
  <2> QED
    BY <1>1, <1>2, <1>10, <2>1 DEF Pause, Change, stream
<1>11. ASSUME NEW decision \in {"approved", "denied"}, Decide(decision)
       PROVE  /\ approvals' \in Seq({"pending", "approved", "denied"}) /\ status' = "queued"
              /\ UNCHANGED <<requested, sessions, notes, cancels, failures, faults>>
  <2>1. approvals' = Append(Front(approvals), decision) /\ approvals # <<>>
    BY <1>11 DEF Decide
  <2>2. decision \in {"pending", "approved", "denied"}
    OBVIOUS
  <2>3. approvals' \in Seq({"pending", "approved", "denied"})
    BY <2>1, <2>2, Decided
  <2> QED
    BY <1>11, <2>3 DEF Decide, history
<1>12. CASE AskCancel
  BY <1>1, <1>2, <1>12 DEF AskCancel, tables
<1> QED
  BY <1>p, <1>3, <1>4, <1>5, <1>6, <1>7, <1>8, <1>9, <1>10, <1>11, <1>12 DEF RowStep, WorkerStep, sessions

\* The types of what the sessions change.
LEMMA TypeInsert ==
  ASSUME TypeOK, NEW s \in Session, Insert(s) PROVE TypeOK'
<1>1. /\ types \in Seq(EventType) /\ todo[s] \in EventType
      /\ types' = Append(types, todo[s])
      /\ open' = [open EXCEPT ![s] = Len(types) + 1]
  BY DEF TypeOK, Insert
<1>2. Len(types) \in Nat /\ types' \in Seq(EventType) /\ Len(types') = Len(types) + 1
  BY <1>1
<1>3. Ids' = 1..Len(types) + 1 /\ Ids \subseteq Ids' /\ Len(types) + 1 \in Ids'
  BY <1>2 DEF Ids
<1>4. open' \in [Session -> {0} \cup Ids']
  <2>1. open \in [Session -> {0} \cup Ids']
    BY <1>3 DEF TypeOK
  <2> QED
    BY <1>1, <1>3, <2>1
<1>5. log \subseteq Ids'
  BY <1>3 DEF TypeOK
<1>6. UNCHANGED <<status, requested, approvals, log, about, working, todo, connected, over, after, net, cursor,
                  received, shown, notes, cancels, failures, late, faults>>
  BY DEF Insert, stream, history
<1> QED
  BY <1>2, <1>4, <1>5, <1>6 DEF TypeOK

\* A commit keeps the types.
LEMMA TypeCommit ==
  ASSUME TypeOK, NEW s \in Session, Commit(s) PROVE TypeOK'
<1>1. open[s] \in Ids /\ log' = log \cup {open[s]} /\ Ids' = Ids
  BY DEF TypeOK, Commit, Ids
<1>2. log' \subseteq Ids' /\ late' \subseteq log' /\ log \subseteq log'
  BY <1>1 DEF TypeOK, Commit
<1>3. net \in Seq(log') /\ received \in Seq(log')
  BY <1>2, SeqMonotonic DEF TypeOK
<1>4. open' \in [Session -> {0} \cup Ids'] /\ todo' \in [Session -> EventType \cup {"none"}]
  BY <1>1 DEF TypeOK, Commit
<1>5. status' \in Status /\ requested' \in BOOLEAN /\ faults' \subseteq {"crossed", "lost", "unheeded"}
  BY DEF TypeOK, Commit, Status
<1>6. UNCHANGED <<approvals, types, about, working, connected, over, after, net, cursor, received, shown,
                  notes, cancels, failures>>
  BY DEF Commit, stream
<1> QED
  BY <1>2, <1>3, <1>4, <1>5, <1>6 DEF TypeOK

\* The death of a worker keeps the types.
LEMMA TypeDie ==
  ASSUME TypeOK, NEW s \in Session, Die(s) PROVE TypeOK'
<1>1. UNCHANGED <<status, requested, approvals, types, log, connected, over, after, net, cursor, received,
                  shown, notes, cancels, late>>
  BY DEF Die, tables, stream
<1>2. open' \in [Session -> {0} \cup Ids'] /\ todo' \in [Session -> EventType \cup {"none"}]
  BY <1>1 DEF TypeOK, Die, Ids
<1>3. failures' \in Nat /\ working' \in BOOLEAN /\ about' \in Plan \cup {"none"} /\ faults' \subseteq {"crossed", "lost", "unheeded"}
  BY DEF TypeOK, Die
<1>4. log \subseteq Ids'
  BY <1>1 DEF TypeOK, Ids
<1> QED
  BY <1>1, <1>2, <1>3, <1>4 DEF TypeOK

\* The types of what the stream changes.
LEMMA TypePoll ==
  ASSUME TypeOK, Poll PROVE TypeOK'
<1>1. after' = Max(Unsent) /\ Unsent # {} /\ net' = net \o Sorted(Unsent)
  BY DEF Poll
<1>2. after' \in Nat
  BY <1>1, UnsentIds
<1>3. net' \in Seq(log)
  <2>1. Sorted(Unsent) \in Seq(Unsent)
    BY UnsentIds, SortedList
  <2>2. Sorted(Unsent) \in Seq(log)
    <3>1. Unsent \subseteq log
      BY DEF Unsent
    <3> QED
      BY <2>1, <3>1, SeqMonotonic
  <2>3. net \in Seq(log)
    BY DEF TypeOK
  <2> QED
    BY <1>1, <2>2, <2>3, ConcatProperties
<1>4. UNCHANGED <<status, requested, approvals, types, log, about, working, todo, open, connected, over, cursor,
                  received, shown, notes, cancels, failures, late, faults>>
  BY DEF Poll, tables, sessions, history
<1> QED
  BY <1>2, <1>3, <1>4 DEF TypeOK, Ids

\* The receipt of a frame keeps the types.
LEMMA TypeReceive ==
  ASSUME TypeOK, Receive PROVE TypeOK'
<1>1. net \in Seq(log) /\ net # <<>> /\ net' = Tail(net)
  BY DEF TypeOK, Receive
<1>2. Head(net) \in log /\ Tail(net) \in Seq(log)
  BY <1>1, RangeTail
<1>3. Head(net) \in 1..Len(types) /\ types[Head(net)] \in EventType /\ Head(net) \in Nat
  <2>1. types \in Seq(EventType) /\ Head(net) \in 1..Len(types)
    BY <1>2 DEF TypeOK, Ids
  <2>2. Len(types) \in Nat
    BY <2>1
  <2> QED
    BY <2>1, <2>2
<1>4. shown' \in Status
  BY DEF TypeOK, Receive, StatusOf, Status
<1>5. received' \in Seq(log) /\ cursor' \in Nat
  BY <1>2, <1>3 DEF TypeOK, Receive
<1>6. UNCHANGED <<status, requested, approvals, types, log, about, working, todo, open, connected, over, after,
                  notes, cancels, failures, late, faults>>
  BY DEF Receive, tables, sessions, history
<1> QED
  BY <1>1, <1>2, <1>4, <1>5, <1>6 DEF TypeOK, Ids

\* Every step keeps the types.
LEMMA TypeNext == TypeOK /\ [Next]_vars => TypeOK'
<1> SUFFICES ASSUME TypeOK, [Next]_vars PROVE TypeOK'
  OBVIOUS
<1>1. CASE UNCHANGED vars
  BY <1>1 DEF TypeOK, Ids, vars, tables, sessions, stream, history
<1>2. CASE RowStep
  <2>1. UNCHANGED <<types, log, open, connected, over, after, net, cursor, received, shown, late>>
    BY <1>2, RowSteps DEF stream
  <2> QED
    BY <1>2, <2>1, TypeRow DEF TypeOK, Ids
<1>3. CASE Connect
  BY <1>3 DEF TypeOK, Ids, Connect, tables, sessions, history
<1>4. CASE Break
  <2>1. net' \in Seq(log) /\ connected' \in BOOLEAN /\ failures' \in Nat
    <3>1. /\ net' = <<>> /\ connected' = FALSE /\ failures' = failures + 1 /\ failures \in Nat
      BY <1>4 DEF TypeOK, Break
    <3>2. <<>> \in Seq(log)
      BY EmptySeq
    <3>3. failures + 1 \in Nat
      BY <3>1
    <3>4. net' \in Seq(log) /\ failures' \in Nat
      BY <3>1, <3>2, <3>3, Zenon
    <3> QED
      BY <3>1, <3>4
  <2>2. UNCHANGED <<status, requested, approvals, types, log, about, working, todo, open, over, after, cursor,
                    received, shown, notes, cancels, late, faults>>
    BY <1>4 DEF Break, tables, sessions
  <2> QED
    BY <2>1, <2>2 DEF TypeOK, Ids
<1>5. CASE Refuse
  <2>1. over' = TRUE /\ failures' = failures + 1 /\ failures \in Nat
    BY <1>5 DEF TypeOK, Refuse
  <2>2. over' \in BOOLEAN /\ failures' \in Nat
    BY <2>1
  <2>3. UNCHANGED <<status, requested, approvals, types, log, about, working, todo, open, connected,
                    after, net, cursor, received, shown, notes, cancels, late, faults>>
    BY <1>5 DEF Refuse, tables, sessions
  <2> QED
    BY <2>2, <2>3 DEF TypeOK, Ids
<1> QED
  BY <1>1, <1>2, <1>3, <1>4, <1>5, NextSteps, TypeInsert, TypeCommit, TypeDie, TypePoll, TypeReceive

----------------------------------------------------------------------------
(* The ids that sessions hold.                                             *)

\* Every step keeps Opens: an insert takes a new id, and a commit or a death gives it up.
LEMMA OpensNext == TypeOK /\ Opens /\ [Next]_vars => Opens'
<1> SUFFICES ASSUME TypeOK, Opens, [Next]_vars PROVE Opens'
  OBVIOUS
<1>1. ASSUME UNCHANGED <<log, open>> PROVE Opens'
  BY <1>1 DEF Opens
<1>2. ASSUME NEW s \in Session, Insert(s) PROVE Opens'
  <2>1. PICK n \in Nat : n = Len(types)
    BY DEF TypeOK
  <2>2. /\ open' = [open EXCEPT ![s] = n + 1] /\ log' = log
        /\ open \in [Session -> {0} \cup 1..n] /\ log \subseteq 1..n
    BY <1>2, <2>1 DEF Insert, TypeOK, Ids
  <2>3. \A t \in Session : t # s => open'[t] = open[t] /\ open'[t] # n + 1
    BY <2>2
  <2>4. open'[s] = n + 1 /\ n + 1 \notin log'
    BY <2>2
  <2> QED
    BY <2>2, <2>3, <2>4 DEF Opens
<1>3. ASSUME NEW s \in Session, Commit(s) PROVE Opens'
  <2>1. /\ open' = [open EXCEPT ![s] = 0] /\ log' = log \cup {open[s]}
        /\ open \in [Session -> {0} \cup Ids] /\ open[s] # 0
    BY <1>3 DEF Commit, TypeOK
  <2> QED
    BY <2>1 DEF Opens
<1>4. ASSUME NEW s \in Session, Die(s) PROVE Opens'
  <2>1. /\ open' = [open EXCEPT ![s] = 0] /\ log' = log
        /\ open \in [Session -> {0} \cup Ids]
    BY <1>4 DEF Die, TypeOK, tables
  <2> QED
    BY <2>1 DEF Opens
<1>5. CASE RowStep \/ UNCHANGED vars \/ Connect \/ Poll \/ Receive \/ Break \/ Refuse
  BY <1>1, <1>5, RowSteps DEF vars, tables, sessions, Connect, Poll, Receive, Break, Refuse
<1> QED
  BY <1>2, <1>3, <1>4, <1>5, NextSteps

----------------------------------------------------------------------------
(* The cursors, and what is between them.                                  *)

\* What the steps that are not the stream's leave alone.
LEMMA StreamKept ==
  ASSUME [Next]_vars, ~Connect, ~Poll, ~Receive, ~Break, ~Refuse
  PROVE  /\ UNCHANGED <<connected, after, net, cursor, received>>
         /\ log \subseteq log' /\ late \subseteq late'
<1>1. CASE RowStep \/ UNCHANGED vars
  BY <1>1, RowSteps DEF vars, tables, stream, history
<1>2. ASSUME NEW s \in Session, Insert(s) \/ Commit(s) \/ Die(s)
      PROVE  /\ UNCHANGED <<connected, after, net, cursor, received>>
             /\ log \subseteq log' /\ late \subseteq late'
  BY <1>2 DEF Insert, Commit, Die, tables, stream, history
<1> QED
  BY <1>1, <1>2, NextSteps

\* What the steps of the stream leave alone.
LEMMA LogKept ==
  ASSUME Connect \/ Poll \/ Receive \/ Break \/ Refuse PROVE UNCHANGED <<log, late>>
BY DEF Connect, Poll, Receive, Break, Refuse, tables, history

\* The frame that is received is the first of those on their way.
LEMMA Received ==
  ASSUME TypeOK, Frames, Receive
  PROVE  /\ net \in Seq(Nat) /\ received \in Seq(Nat)
         /\ Head(net) \in log /\ Head(net) \in Nat
         /\ Tail(net) \in Seq(log) /\ Tail(net) \in Seq(Nat)
         /\ Range(net) = Range(Tail(net)) \cup {Head(net)}
         /\ Range(received') = Range(received) \cup {Head(net)}
         /\ \A id \in Range(Tail(net)) : Head(net) < id /\ id \in Nat
<1>1. net # <<>> /\ received' = Append(received, Head(net)) /\ net \in Seq(log) /\ received \in Seq(log)
  BY DEF Receive, TypeOK
<1>2. log \subseteq Nat
  BY DEF TypeOK, Ids
<1>3. net \in Seq(Nat) /\ received \in Seq(Nat)
  BY <1>1, <1>2, SeqMonotonic
<1>4. Head(net) \in log /\ Tail(net) \in Seq(log) /\ Range(net) = Range(Tail(net)) \cup {Head(net)}
  BY <1>1, RangeTail
<1>5. Tail(net) \in Seq(Nat) /\ Head(net) \in Nat
  BY <1>2, <1>4, SeqMonotonic
<1>6. Range(received') = Range(received) \cup {Head(net)}
  BY <1>1, <1>4, RangeAppend
<1>7. \A k \in DOMAIN Tail(net) : Head(net) < Tail(net)[k]
  BY <1>1, <1>3, IncreasingTail DEF Frames
<1>8. \A id \in Range(Tail(net)) : Head(net) < id /\ id \in Nat
  BY <1>5, <1>7, MembersOfSeq
<1> QED
  BY <1>3, <1>4, <1>5, <1>6, <1>8

\* Every step keeps the client's cursor and the server's in the log.
LEMMA CursorsNext == TypeOK /\ Cursors /\ Frames /\ [Next]_vars => Cursors'
<1> SUFFICES ASSUME TypeOK, Cursors, Frames, [Next]_vars PROVE Cursors'
  OBVIOUS
<1>1. CASE Connect
  BY <1>1, LogKept DEF Cursors, Connect, TypeOK
<1>2. CASE Poll
  <2>1. after' = Max(Unsent) /\ Unsent # {} /\ UNCHANGED <<log, cursor, connected>> /\ connected
    BY <1>2, LogKept DEF Poll
  <2>2. after' \in log /\ after' > after
    BY <2>1, UnsentIds DEF Unsent
  <2>3. after' \in Nat /\ after \in Nat /\ cursor \in Nat /\ cursor <= after
    BY <2>1, <2>2 DEF TypeOK, Ids, Cursors
  <2> QED
    BY <2>1, <2>2, <2>3 DEF Cursors
<1>3. CASE Receive
  <2>1. /\ UNCHANGED <<log, after, connected>> /\ cursor' = Head(net) /\ net' = Tail(net) /\ net # <<>>
        /\ connected
    BY <1>3, LogKept DEF Receive, Cursors
  <2>2. Head(net) \in log /\ Head(net) \in Range(net)
    BY <1>3, Received
  <2> QED
    BY <2>1, <2>2 DEF Cursors, Frames
<1>4. CASE Break
  BY <1>4, LogKept DEF Cursors, Break
<1>5. CASE ~Connect /\ ~Poll /\ ~Receive /\ ~Break /\ ~Refuse
  BY <1>5, StreamKept DEF Cursors
<1>6. CASE Refuse
  BY <1>6, LogKept DEF Cursors, Refuse
<1> QED
  BY <1>1, <1>2, <1>3, <1>4, <1>5, <1>6

\* Every step keeps the frames on their way in order, between the two cursors.
LEMMA FramesNext == TypeOK /\ Cursors /\ Frames /\ [Next]_vars => Frames'
<1> SUFFICES ASSUME TypeOK, Cursors, Frames, [Next]_vars PROVE Frames'
  OBVIOUS
<1>1. net \in Seq(Nat) /\ after \in Nat /\ cursor \in Nat
  <2>1. net \in Seq(log) /\ log \subseteq Nat /\ after \in Nat /\ cursor \in Nat
    BY DEF TypeOK, Ids
  <2> QED
    BY <2>1, SeqMonotonic
<1>2. CASE Connect
  <2>1. UNCHANGED <<net, cursor, received>> /\ net = <<>>
    BY <1>2 DEF Connect, Cursors
  <2>2. Range(net) = {}
    BY <2>1 DEF Range
  <2> QED
    BY <2>1, <2>2 DEF Frames
<1>3. CASE Poll
  <2>1. /\ after' = Max(Unsent) /\ Unsent # {} /\ net' = net \o Sorted(Unsent)
        /\ UNCHANGED <<cursor, received>> /\ cursor <= after
    BY <1>3 DEF Poll, Cursors
  <2>2. /\ Sorted(Unsent) \in Seq(Unsent) /\ Unsent \in SUBSET Nat
        /\ Increasing(Sorted(Unsent))
    BY UnsentIds, SortedList
  <2>3. PICK t : t = Sorted(Unsent)
    OBVIOUS
  <2>4. t \in Seq(Unsent) /\ t \in Seq(Nat) /\ Increasing(t)
    BY <2>2, <2>3, SeqMonotonic
  <2>5. \A id \in Unsent : id \in Nat /\ after < id /\ id <= Max(Unsent)
    BY <2>1, <2>2, UnsentIds DEF Unsent
  <2>6. Range(t) \subseteq Unsent /\ \A j \in DOMAIN t : t[j] \in Unsent
    BY <2>4, MembersOfSeq
  <2>7. \A id \in Range(net) : id \in Nat /\ cursor < id /\ id <= after
    BY <1>1, MembersOfSeq DEF Frames
  <2>8. \A i \in DOMAIN net, j \in DOMAIN t : net[i] < t[j]
    <3>1. \A i \in DOMAIN net : net[i] \in Range(net)
      BY <1>1, MembersOfSeq
    <3>2. \A a \in Range(net), b \in Unsent : a < b
      BY <1>1, <2>5, <2>7
    <3> QED
      BY <2>6, <3>1, <3>2
  <2>9. Increasing(net \o t)
    BY <1>1, <2>4, <2>8, IncreasingConcat DEF Frames
  <2>10. Range(net \o t) = Range(net) \cup Range(t)
    BY <1>1, <2>4, RangeConcatenation
  <2>11. Max(Unsent) \in Nat /\ after < Max(Unsent)
    BY <2>1, <2>5, UnsentIds
  <2>12. \A id \in Range(net') : cursor' < id /\ id <= after'
    <3>1. \A id \in Range(net) : cursor < id /\ id <= Max(Unsent)
      BY <1>1, <2>7, <2>11
    <3>2. \A id \in Range(t) : cursor < id /\ id <= Max(Unsent)
      BY <1>1, <2>1, <2>5, <2>6
    <3> QED
      BY <2>1, <2>3, <2>10, <3>1, <3>2
  <2> QED
    BY <2>1, <2>3, <2>9, <2>12 DEF Frames
<1>4. CASE Receive
  <2>1. /\ net' = Tail(net) /\ cursor' = Head(net) /\ received' = Append(received, Head(net))
        /\ UNCHANGED after /\ net # <<>>
    BY <1>4 DEF Receive
  <2>2. Increasing(net')
    BY <1>1, <2>1, IncreasingTail DEF Frames
  <2>3. Head(net) \in Range(net) /\ Head(net) \in Nat /\ cursor < Head(net) /\ received \in Seq(Nat)
    BY <1>4, Received DEF Frames
  <2>4. \A id \in Range(received) : id \in Nat /\ id <= cursor
    BY <2>3, MembersOfSeq DEF Frames
  <2>5. \A id \in Range(received) : id < Head(net)
    BY <1>1, <2>3, <2>4
  <2>6. Increasing(received')
    <3>1. \A k \in DOMAIN received : received[k] < Head(net)
      BY <2>3, <2>5, MembersOfSeq
    <3> QED
      BY <2>1, <2>3, <3>1, IncreasingAppend DEF Frames
  <2>7. \A id \in Range(net') : cursor' < id /\ id <= after'
    BY <1>4, <2>1, Received DEF Frames
  <2>8. \A id \in Range(received') : id <= cursor'
    <3>1. Head(net) <= Head(net)
      BY <2>3
    <3>2. \A id \in Range(received) : id <= Head(net)
      BY <2>3, <2>4, <2>5
    <3> QED
      BY <1>4, <2>1, <3>1, <3>2, Received
  <2> QED
    BY <2>2, <2>6, <2>7, <2>8 DEF Frames
<1>5. CASE Break
  <2>1. UNCHANGED <<after, cursor, received>> /\ net' = <<>>
    BY <1>5 DEF Break
  <2>2. Range(net') = {} /\ Increasing(net')
    BY <2>1 DEF Range, Increasing
  <2> QED
    BY <2>1, <2>2 DEF Frames
<1>6. CASE ~Connect /\ ~Poll /\ ~Receive /\ ~Break /\ ~Refuse
  BY <1>6, StreamKept DEF Frames
<1>7. CASE Refuse
  BY <1>7 DEF Frames, Refuse
<1> QED
  BY <1>2, <1>3, <1>4, <1>5, <1>6, <1>7

----------------------------------------------------------------------------
(* Nothing is skipped.                                                     *)

\* An event that becomes visible behind one of the cursors is late.
LEMMA BehindIsLate ==
  ASSUME TypeOK, Opens, NEW c \in log \cup {0},
         ~Connect, ~Poll, ~Receive, ~Break, ~Refuse, [Next]_vars
  PROVE  \A id \in log' \ log : id <= c => id \in late'
<1>1. CASE RowStep \/ UNCHANGED vars
  BY <1>1, RowSteps DEF vars, tables
<1>2. ASSUME NEW s \in Session, Insert(s) \/ Die(s) PROVE UNCHANGED log
  BY <1>2 DEF Insert, Die, tables
<1>3. ASSUME NEW s \in Session, Commit(s)
      PROVE  \A id \in log' \ log : id <= c => id \in late'
  <2>1. /\ open[s] # 0 /\ log' = log \cup {open[s]}
        /\ late' = IF Larger(open[s]) = {} THEN late ELSE late \cup {open[s]}
    BY <1>3 DEF Commit
  <2>2. open[s] \notin log /\ open[s] \in Nat /\ c \in Nat
    BY <2>1 DEF Opens, TypeOK, Ids
  <2>3. open[s] <= c => c \in Larger(open[s])
    BY <2>1, <2>2 DEF Larger
  <2> QED
    BY <2>1, <2>3
<1> QED
  BY <1>1, <1>2, <1>3, NextSteps

\* Every step keeps Sent: a poll leaves nothing behind, and what a commit puts behind it
\* is late.
LEMMA SentNext == TypeOK /\ Opens /\ Cursors /\ Frames /\ NoneSkipped /\ Sent /\ [Next]_vars => Sent'
<1> SUFFICES ASSUME TypeOK, Opens, Cursors, Frames, NoneSkipped, Sent, [Next]_vars,
                    connected', NEW id \in log', id <= after'
             PROVE  id \in Range(received') \cup Range(net') \cup late'
  BY DEF Sent
<1>1. CASE Connect
  BY <1>1, LogKept DEF Connect, NoneSkipped
<1>2. CASE Poll
  <2>1. /\ connected /\ net' = net \o Sorted(Unsent) /\ UNCHANGED received
        /\ id \in log /\ late' = late
    BY <1>2, LogKept DEF Poll
  <2>2. PICK t : t = Sorted(Unsent)
    OBVIOUS
  <2>3. t \in Seq(Unsent) /\ \A i \in Unsent : \E k \in DOMAIN t : t[k] = i
    BY <2>2, UnsentIds, SortedList
  <2>4. Unsent \subseteq log
    BY DEF Unsent
  <2>5. t \in Seq(log) /\ net \in Seq(log)
    BY <2>3, <2>4, SeqMonotonic DEF TypeOK
  <2>6. Range(net') = Range(net) \cup Range(t)
    BY <2>1, <2>2, <2>5, RangeConcatenation
  <2>7. Unsent \subseteq Range(t)
    BY <2>3, MembersOfSeq
  <2>8. id \in Nat /\ after \in Nat
    BY <2>1 DEF TypeOK, Ids
  <2>9. id <= after \/ id \in Unsent
    BY <2>1, <2>8 DEF Unsent
  <2> QED
    BY <2>1, <2>6, <2>7, <2>9 DEF Sent
<1>3. CASE Receive
  <2>1. connected /\ after' = after /\ net' = Tail(net) /\ id \in log /\ late' = late
    BY <1>3, LogKept DEF Receive
  <2> QED
    BY <1>3, <2>1, Received DEF Sent
<1>4. CASE Break
  BY <1>4 DEF Break
<1>5. CASE ~Connect /\ ~Poll /\ ~Receive /\ ~Break /\ ~Refuse
  <2>1. UNCHANGED <<connected, after, net, received>> /\ late \subseteq late' /\ after \in log \cup {0}
    BY <1>5, StreamKept DEF Cursors
  <2>2. CASE id \in log
    BY <2>1, <2>2 DEF Sent
  <2>3. CASE id \notin log
    BY <1>5, <2>1, <2>3, BehindIsLate
  <2> QED
    BY <2>2, <2>3
<1>6. CASE Refuse
  BY <1>6 DEF Refuse
<1> QED
  BY <1>1, <1>2, <1>3, <1>4, <1>5, <1>6

\* Every step keeps NoneSkipped: the cursor moves over what was received only.
LEMMA NoneSkippedNext ==
  TypeOK /\ Opens /\ Cursors /\ Frames /\ Sent /\ NoneSkipped /\ [Next]_vars => NoneSkipped'
<1> SUFFICES ASSUME TypeOK, Opens, Cursors, Frames, Sent, NoneSkipped, [Next]_vars,
                    NEW id \in log', id <= cursor'
             PROVE  id \in Range(received') \cup late'
  BY DEF NoneSkipped
<1>1. CASE Connect \/ Poll \/ Break \/ Refuse
  BY <1>1, LogKept DEF Connect, Poll, Break, Refuse, NoneSkipped
<1>2. CASE Receive
  <2>1. cursor' = Head(net) /\ net # <<>> /\ connected /\ id \in log /\ late' = late
    BY <1>2, LogKept DEF Receive, Cursors
  <2>2. Head(net) \in Range(net) /\ Head(net) \in Nat /\ Head(net) <= after /\ after \in Nat
    BY <1>2, Received DEF Frames, TypeOK
  <2>3. id \in Nat /\ id <= after
    BY <2>1, <2>2 DEF TypeOK, Ids
  <2>4. id \in Range(received) \cup Range(net) \cup late
    BY <2>1, <2>3 DEF Sent
  <2>5. \A i \in Range(Tail(net)) : ~(i <= Head(net))
    BY <1>2, <2>2, Received
  <2> QED
    BY <1>2, <2>1, <2>4, <2>5, Received
<1>3. CASE ~Connect /\ ~Poll /\ ~Receive /\ ~Break /\ ~Refuse
  <2>1. UNCHANGED <<cursor, received>> /\ late \subseteq late' /\ cursor \in log \cup {0}
    BY <1>3, StreamKept DEF Cursors
  <2>2. CASE id \in log
    BY <2>1, <2>2 DEF NoneSkipped
  <2>3. CASE id \notin log
    BY <1>3, <2>1, <2>3, BehindIsLate
  <2> QED
    BY <2>2, <2>3
<1> QED
  BY <1>1, <1>2, <1>3

----------------------------------------------------------------------------
(* The theorems.                                                           *)

\* The invariant holds at the start.
LEMMA InvariantInit == Init => IInv
<1> SUFFICES ASSUME Init PROVE IInv
  OBVIOUS
<1>1. TypeOK
  BY TypeInit
<1>2. /\ net = <<>> /\ received = <<>> /\ log = {} /\ after = 0 /\ cursor = 0 /\ connected = FALSE
      /\ \A s \in Session : open[s] = 0
  BY DEF Init
<1>3. Range(net) = {} /\ Range(received) = {} /\ Increasing(net) /\ Increasing(received)
  BY <1>2 DEF Range, Increasing
<1> QED
  BY <1>1, <1>2, <1>3 DEF IInv, Opens, Cursors, Frames, Sent, NoneSkipped

\* IInv holds in every state: what a cursor has passed was delivered, is on its way or
\* became visible late.
THEOREM StreamInvariant == Spec => []IInv
<1>1. Init => IInv
  BY InvariantInit
<1>2. IInv /\ [Next]_vars => IInv'
  BY TypeNext, OpensNext, CursorsNext, FramesNext, SentNext, NoneSkippedNext DEF IInv
<1> QED
  BY <1>1, <1>2, PTL DEF Spec

\* Every variable has its type; what is sent and received are ids of committed events.
THEOREM EventTypes == Spec => []TypeOK
<1>1. IInv => TypeOK
  BY DEF IInv
<1> QED
  BY <1>1, StreamInvariant, PTL

\* However often the connection breaks, the client sees ids in increasing order, none twice.
THEOREM EventsInOrder == Spec => []SeenInOrder
<1>1. IInv => SeenInOrder
  BY DEF IInv, Frames, SeenInOrder
<1> QED
  BY <1>1, StreamInvariant, PTL

\* An event behind the client's cursor was seen, unless it was committed after an event
\* with a larger id.
THEOREM OnlyLateIsSkipped == Spec => []NoneSkipped
<1>1. IInv => NoneSkipped
  BY DEF IInv
<1> QED
  BY <1>1, StreamInvariant, PTL

----------------------------------------------------------------------------
(* What the screen shows: the safety half of ScreenSettles.                *)

\* An event that changes the screen; and what the last of those in a set says.
Tells(type) == type \notin {"created", "note"}

LastTold(list, ids, st) ==
  \E id \in ids :
    /\ Tells(list[id]) /\ StatusOf(list[id], "queued") = st
    /\ \A j \in ids : Tells(list[j]) => j <= id

\* A client that has received every event of a finished task shows the task's status.
ScreenAgrees == Settled /\ log \subseteq Range(received) => shown = status

Asked == approvals # <<>> /\ Last(approvals) = "pending"

\* The id that a session took is of the event it appends, and each session appends its own
\* kinds of events.
Appending ==
  /\ \A s \in Session : open[s] # 0 => todo[s] # "none" /\ types[open[s]] = todo[s]
  /\ todo["creator"] \in {"none", "created"} /\ todo["canceller"] \in {"none", "cancelled"}
  /\ todo["worker"] \in {"none", "note", "started", "approval_requested", "completed", "failed"}

\* A task that is queued or waits for its user is not run; its worker may have the event of
\* the pause left to append.  A worker that loaded a row does not run anything yet either,
\* and as long as its task is queued no cancel was requested.
Idle ==
  /\ Asked => about = "none" /\ ~working /\ todo["worker"] \in {"none", "approval_requested"}
  /\ status = "queued" => ~working /\ todo["worker"] \in {"none", "note", "approval_requested"}
  /\ about # "none" => /\ ~working /\ todo["worker"] \in {"none", "note"}
                       /\ status = "queued" => ~requested
  /\ about = "start" => todo["worker"] = "none"

\* As long as nothing was late or raced, a finished task's status is what its last event
\* says, or the event that says so is about to be appended; and a cancel that a queued or
\* asked task has on it is its last event.
Agreeing ==
  late = {} /\ faults = {} =>
    /\ todo["worker"] \in {"none", "note"} /\ status \in Terminal => LastTold(types, log, status)
    /\ \/ todo["worker"] \in {"none", "note"}
       \/ status = StatusOf(todo["worker"], "queued")
       \/ todo["worker"] = "approval_requested" /\ status = "queued"
    /\ requested /\ (Asked \/ status = "queued") =>
         todo["worker"] = "none" /\ LastTold(types, log, "cancelled")

\* The screen shows what the last event that it received says.
Showing ==
  \/ LastTold(types, Range(received), shown)
  \/ shown = "queued" /\ \A id \in Range(received) : ~Tells(types[id])

\* What is told depends on the types of the events in the set only.
LEMMA ToldSame ==
  ASSUME NEW list, NEW other, NEW ids, \A id \in ids : list[id] = other[id], NEW st,
         LastTold(list, ids, st)
  PROVE  LastTold(other, ids, st)
BY DEF LastTold

\* An event behind all others of a set is the last one, if it tells anything.
LEMMA ToldMore ==
  ASSUME NEW list, NEW ids \in SUBSET Nat, NEW n \in Nat, \A id \in ids : id <= n, NEW st
  PROVE  /\ Tells(list[n]) => LastTold(list, ids \cup {n}, StatusOf(list[n], "queued"))
         /\ ~Tells(list[n]) /\ LastTold(list, ids, st) => LastTold(list, ids \cup {n}, st)
<1>1. ASSUME Tells(list[n]) PROVE LastTold(list, ids \cup {n}, StatusOf(list[n], "queued"))
  <2>1. \A j \in ids \cup {n} : j <= n
    OBVIOUS
  <2> QED
    BY <1>1, <2>1 DEF LastTold
<1>2. ASSUME ~Tells(list[n]), LastTold(list, ids, st) PROVE LastTold(list, ids \cup {n}, st)
  BY <1>2 DEF LastTold
<1> QED
  BY <1>1, <1>2

\* The events of a set tell one status.
LEMMA ToldOnce ==
  ASSUME NEW list, NEW ids \in SUBSET Nat, NEW a, NEW b,
         LastTold(list, ids, a), LastTold(list, ids, b)
  PROVE  a = b
<1>1. PICK i \in ids : Tells(list[i]) /\ StatusOf(list[i], "queued") = a
                       /\ \A k \in ids : Tells(list[k]) => k <= i
  BY DEF LastTold
<1>2. PICK j \in ids : Tells(list[j]) /\ StatusOf(list[j], "queued") = b
                       /\ \A k \in ids : Tells(list[k]) => k <= j
  BY DEF LastTold
<1>3. i = j
  BY <1>1, <1>2
<1> QED
  BY <1>1, <1>2, <1>3

\* The type of an event is written once.
LEMMA TypesKept ==
  ASSUME TypeOK, [Next]_vars PROVE \A id \in Ids : types'[id] = types[id]
<1>1. ASSUME NEW s \in Session, Insert(s) PROVE \A id \in Ids : types'[id] = types[id]
  <2>1. types' = Append(types, todo[s]) /\ types \in Seq(EventType)
    BY <1>1 DEF Insert, TypeOK
  <2> QED
    BY <2>1 DEF Ids
<1>2. ASSUME NEW s \in Session, Commit(s) \/ Die(s) PROVE types' = types
  BY <1>2 DEF Commit, Die, tables
<1>3. CASE RowStep \/ UNCHANGED vars \/ Connect \/ Poll \/ Receive \/ Break \/ Refuse
  BY <1>3, RowSteps DEF vars, tables, Connect, Poll, Receive, Break, Refuse
<1> QED
  BY <1>1, <1>2, <1>3, NextSteps

\* A pause asks; a decision answers.
LEMMA Answers ==
  ASSUME TypeOK
  PROVE  /\ Pause => Asked'
         /\ \A decision \in {"approved", "denied"} : Decide(decision) => Asked /\ ~Asked'
<1>1. approvals \in Seq({"pending", "approved", "denied"})
  BY DEF TypeOK
<1>2. ASSUME NEW S, NEW s \in Seq(S), NEW e PROVE Append(s, e) # <<>> /\ Last(Append(s, e)) = e
  BY <1>2 DEF Last
<1>3. ASSUME Pause PROVE Asked'
  BY <1>1, <1>2, <1>3 DEF Pause, Asked
<1>4. ASSUME NEW decision \in {"approved", "denied"}, Decide(decision) PROVE Asked /\ ~Asked'
  <2>1. /\ approvals # <<>> /\ Last(approvals) = "pending"
        /\ approvals' = Append(Front(approvals), decision)
    BY <1>4 DEF Decide
  <2>2. Len(approvals) \in Nat /\ Len(approvals) > 0
        /\ \A k \in 1..Len(approvals) - 1 : approvals[k] \in {"pending", "approved", "denied"}
    BY <1>1, <2>1
  <2>3. Front(approvals) \in Seq({"pending", "approved", "denied"})
    BY <2>2, SubSeqProperties DEF Front
  <2>4. Last(approvals') = decision
    BY <1>2, <2>1, <2>3
  <2> QED
    BY <2>1, <2>4 DEF Asked
<1> QED
  BY <1>3, <1>4

\* Every step keeps Appending: a session takes up an event only when it has none.
LEMMA AppendingNext == TypeOK /\ Appending /\ Idle /\ [Next]_vars => Appending'
<1> SUFFICES ASSUME TypeOK, Appending, Idle, [Next]_vars PROVE Appending'
  OBVIOUS
<1>s. /\ "worker" \in Session /\ "creator" \in Session /\ "canceller" \in Session
      /\ todo \in [Session -> EventType \cup {"none"}] /\ open \in [Session -> {0} \cup Ids]
  BY DEF Session, TypeOK
<1>1. CASE UNCHANGED <<types, open, todo>>
  BY <1>1 DEF Appending
<1>2. ASSUME NEW s \in Session, Insert(s) PROVE Appending'
  <2>1. /\ todo[s] # "none" /\ open[s] = 0
        /\ types' = Append(types, todo[s]) /\ types \in Seq(EventType)
        /\ open' = [open EXCEPT ![s] = Len(types) + 1]
        /\ UNCHANGED todo
    BY <1>2 DEF Insert, TypeOK
  <2>2. open'[s] = Len(types) + 1 /\ types'[Len(types) + 1] = todo[s]
    BY <1>s, <2>1
  <2>3. ASSUME NEW r \in Session, r # s, open'[r] # 0
        PROVE  todo'[r] # "none" /\ types'[open'[r]] = todo'[r]
    <3>1. open'[r] = open[r] /\ open[r] \in Ids
      BY <1>s, <2>1, <2>3
    <3>2. todo[r] # "none" /\ types[open[r]] = todo[r]
      BY <2>3, <3>1 DEF Appending
    <3> QED
      BY <2>1, <3>1, <3>2, TypesKept
  <2>4. \A r \in Session : open'[r] # 0 => todo'[r] # "none" /\ types'[open'[r]] = todo'[r]
    BY <2>1, <2>2, <2>3
  <2> QED
    BY <2>1, <2>4 DEF Appending
<1>3. ASSUME NEW s \in Session, Commit(s) \/ Die(s) PROVE Appending'
  <2>1. /\ open' = [open EXCEPT ![s] = 0] /\ todo' = [todo EXCEPT ![s] = "none"]
        /\ UNCHANGED types
    BY <1>3 DEF Commit, Die, tables, TypeOK
  <2>2. \A r \in Session : r # s => open'[r] = open[r] /\ todo'[r] = todo[r]
    BY <1>s, <2>1
  <2>3. open'[s] = 0 /\ todo'[s] = "none"
    BY <1>s, <2>1
  <2> QED
    BY <1>s, <2>1, <2>2, <2>3 DEF Appending
<1>4. ASSUME NEW e \in {"note", "started", "approval_requested", "completed", "failed"},
             todo["worker"] = "none", todo' = [todo EXCEPT !["worker"] = e],
             UNCHANGED <<types, open>>
      PROVE  Appending'
  <2>1. open["worker"] = 0
    BY <1>4, <1>s DEF Appending
  <2>2. \A r \in Session : r # "worker" => open'[r] = open[r] /\ todo'[r] = todo[r]
    BY <1>s, <1>4
  <2>3. open'["worker"] = 0 /\ todo'["worker"] = e
    BY <1>s, <1>4, <2>1
  <2> QED
    BY <1>s, <1>4, <2>2, <2>3 DEF Appending
<1>5. CASE RowStep
  <2>1. UNCHANGED <<types, open>>
    BY <1>5, RowSteps
  <2>2. CASE Start
    <3>1. todo["worker"] = "none" /\ todo' = [todo EXCEPT !["worker"] = "started"]
      BY <2>2 DEF Start, Idle, Change
    <3> QED
      BY <1>4, <2>1, <3>1
  <2>3. CASE FailDenied
    <3>1. todo["worker"] = "none" /\ todo' = [todo EXCEPT !["worker"] = "failed"]
      BY <2>3 DEF FailDenied, Change
    <3> QED
      BY <1>4, <2>1, <3>1
  <2>4. CASE Note
    <3>1. todo["worker"] = "none" /\ todo' = [todo EXCEPT !["worker"] = "note"]
      BY <2>4 DEF Note, WorkerMay
    <3> QED
      BY <1>4, <2>1, <3>1
  <2>5. CASE Pause
    <3>1. todo["worker"] = "none" /\ todo' = [todo EXCEPT !["worker"] = "approval_requested"]
      BY <2>5 DEF Pause, WorkerMay
    <3> QED
      BY <1>4, <2>1, <3>1
  <2>6. CASE Finish("succeeded")
    <3>1. todo["worker"] = "none" /\ todo' = [todo EXCEPT !["worker"] = "completed"]
      BY <2>6 DEF Finish, WorkerMay, Change, Announces
    <3> QED
      BY <1>4, <2>1, <3>1
  <2>7. CASE Finish("failed")
    <3>1. todo["worker"] = "none" /\ todo' = [todo EXCEPT !["worker"] = "failed"]
      BY <2>7 DEF Finish, WorkerMay, Change, Announces
    <3> QED
      BY <1>4, <2>1, <3>1
  <2>8. CASE AskCancel
    <3>1. todo["canceller"] = "none" /\ todo' = [todo EXCEPT !["canceller"] = "cancelled"]
      BY <2>8 DEF AskCancel
    <3>2. open["canceller"] = 0
      BY <1>s, <3>1 DEF Appending
    <3>3. \A r \in Session : r # "canceller" => todo'[r] = todo[r]
      BY <1>s, <3>1
    <3> QED
      BY <1>s, <2>1, <3>1, <3>2, <3>3 DEF Appending, Session
  <2>9. ASSUME \/ Load \/ Resume \/ FindCancelled
               \/ \E decision \in {"approved", "denied"} : Decide(decision)
        PROVE  UNCHANGED todo
    BY <2>9 DEF Load, Resume, FindCancelled, Decide, sessions
  <2> QED
    BY <1>1, <1>5, <2>1, <2>2, <2>3, <2>4, <2>5, <2>6, <2>7, <2>8, <2>9 DEF RowStep, WorkerStep
<1>6. CASE UNCHANGED vars \/ Connect \/ Poll \/ Receive \/ Break \/ Refuse
  BY <1>1, <1>6 DEF vars, tables, sessions, Connect, Poll, Receive, Break, Refuse
<1> QED
  BY <1>2, <1>3, <1>5, <1>6, NextSteps

\* Every step keeps Idle: a worker that takes a task up takes it from the queue.
LEMMA IdleNext == TypeOK /\ Idle /\ [Next]_vars => Idle'
<1> SUFFICES ASSUME TypeOK, Idle, [Next]_vars PROVE Idle'
  OBVIOUS
<1>s. /\ "worker" \in Session /\ "canceller" \in Session
      /\ todo \in [Session -> EventType \cup {"none"}]
  BY DEF Session, TypeOK
<1>1. CASE UNCHANGED <<status, requested, approvals, about, todo, working>>
  BY <1>1 DEF Idle, Asked
<1>2. ASSUME NEW s \in Session, Insert(s) PROVE Idle'
  BY <1>1, <1>2 DEF Insert
<1>3. ASSUME NEW s \in Session, Commit(s) \/ Die(s) PROVE Idle'
  <2>1. /\ todo' = [todo EXCEPT ![s] = "none"] /\ UNCHANGED approvals
        /\ UNCHANGED <<status, requested>> \/ status' = "cancelled"
        /\ working' => working
        /\ about' \in {about, "none"}
    BY <1>3 DEF Commit, Die, tables, TypeOK
  <2>2. todo'["worker"] \in {todo["worker"], "none"} /\ Asked' = Asked
    BY <1>s, <2>1 DEF Asked
  <2>3. working' \in BOOLEAN /\ working \in BOOLEAN
    BY <1>3 DEF Commit, Die, TypeOK
  <2> QED
    BY <2>1, <2>2, <2>3 DEF Idle
<1>4. CASE RowStep
  <2>0. CASE Load
    <3>1. /\ ~Asked' /\ ~working' /\ todo'["worker"] = "none" /\ ~requested'
      BY <2>0 DEF Load, WorkerFree, tables, Asked
    <3> QED
      BY <3>1 DEF Idle
  <2>1. CASE Start
    <3>1. about' = "none" /\ status' = "running" /\ ~Asked'
      BY <2>1 DEF Start, Change, Idle, Asked
    <3> QED
      BY <3>1 DEF Idle
  <2>2. CASE Resume
    <3>1. about' = "none" /\ status' = "running" /\ ~Asked'
      BY <2>2 DEF Resume, Idle, Asked
    <3> QED
      BY <3>1 DEF Idle
  <2>3. CASE FailDenied
    <3>1. about' = "none" /\ status' = "failed" /\ ~Asked'
      BY <2>3 DEF FailDenied, Change, Idle, Asked
    <3> QED
      BY <3>1 DEF Idle
  <2>4. CASE FindCancelled
    BY <2>4 DEF FindCancelled, sessions, Idle, Asked
  <2>5. CASE Note
    <3>1. /\ UNCHANGED <<status, requested, approvals, about, working>> /\ todo'["worker"] = "note"
          /\ working \/ about \in {"resume", "deny"}
      BY <2>5, <1>s DEF Note, WorkerMay, tables
    <3> QED
      BY <3>1 DEF Idle, Asked
  <2>6. CASE Pause
    <3>1. /\ about' = about /\ working /\ ~working' /\ status' = "waiting_approval"
          /\ todo'["worker"] = "approval_requested"
      BY <2>6, <1>s DEF Pause, WorkerMay
    <3> QED
      BY <3>1 DEF Idle
  <2>7. ASSUME NEW s \in {"succeeded", "failed"}, Finish(s) PROVE Idle'
    <3>1. /\ UNCHANGED <<approvals, about>> /\ working /\ status' = s
      BY <2>7 DEF Finish, Change, WorkerMay
    <3> QED
      BY <3>1 DEF Idle, Asked
  <2>8. ASSUME NEW decision \in {"approved", "denied"}, Decide(decision) PROVE Idle'
    <3>1. Asked /\ ~Asked' /\ UNCHANGED <<about, todo, working>>
      BY <2>8, Answers DEF Decide, sessions
    <3> QED
      BY <3>1 DEF Idle
  <2>9. CASE AskCancel
    BY <2>9, <1>s DEF AskCancel, tables, Idle, Asked
  <2> QED
    BY <1>4, <2>0, <2>1, <2>2, <2>3, <2>4, <2>5, <2>6, <2>7, <2>8, <2>9 DEF RowStep, WorkerStep
<1>5. CASE UNCHANGED vars \/ Connect \/ Poll \/ Receive \/ Break \/ Refuse
  BY <1>1, <1>5 DEF vars, tables, sessions, Connect, Poll, Receive, Break, Refuse
<1> QED
  BY <1>2, <1>3, <1>4, <1>5, NextSteps

\* Every step keeps Showing: what is received is behind everything received before.
LEMMA ShowingNext == TypeOK /\ Cursors /\ Frames /\ Showing /\ [Next]_vars => Showing'
<1> SUFFICES ASSUME TypeOK, Cursors, Frames, Showing, [Next]_vars PROVE Showing'
  OBVIOUS
<1>r. Range(received) \subseteq log /\ log \subseteq Ids /\ Ids \subseteq Nat
  <2>1. received \in Seq(log)
    BY DEF TypeOK
  <2> QED
    BY <2>1, MembersOfSeq DEF TypeOK, Ids
<1>1. ASSUME ~Receive PROVE Showing'
  <2>1. UNCHANGED <<received, shown>>
    BY <1>1, NextSteps, RowSteps
       DEF vars, stream, Insert, Commit, Die, Connect, Poll, Break, Refuse
  <2>2. \A id \in Range(received) : types[id] = types'[id]
    BY <1>r, TypesKept
  <2>3. LastTold(types, Range(received), shown) => LastTold(types', Range(received), shown)
    BY <2>2, ToldSame
  <2> QED
    BY <2>1, <2>2, <2>3 DEF Showing
<1>2. CASE Receive
  <2>1. /\ types' = types /\ shown' = StatusOf(types[Head(net)], shown)
        /\ Range(received') = Range(received) \cup {Head(net)}
        /\ Head(net) \in log /\ Head(net) \in Nat /\ Head(net) \in Range(net)
    BY <1>2, Received DEF Receive, tables
  <2>2. \A id \in Range(received) : id <= Head(net)
    <3>1. cursor \in Nat /\ cursor < Head(net) /\ \A id \in Range(received) : id <= cursor
      BY <2>1 DEF Frames, TypeOK
    <3>2. PICK h \in Nat : h = Head(net) /\ cursor < h
      BY <2>1, <3>1
    <3>3. \A id \in Range(received) : id \in Nat
      BY <1>r
    <3>4. \A id \in Range(received) : id <= h
      BY <3>1, <3>2, <3>3
    <3> QED
      BY <3>2, <3>4
  <2>3. types[Head(net)] \in EventType
    BY <2>1 DEF TypeOK, Ids
  <2>4. /\ Tells(types[Head(net)]) => shown' = StatusOf(types[Head(net)], "queued")
        /\ ~Tells(types[Head(net)]) => shown' = shown
    BY <2>1, <2>3 DEF Tells, StatusOf, EventType
  <2>5. Range(received) \in SUBSET Nat
    BY <1>r
  <2>6. /\ Tells(types[Head(net)]) => LastTold(types, Range(received'), shown')
        /\ ~Tells(types[Head(net)]) /\ LastTold(types, Range(received), shown)
             => LastTold(types, Range(received'), shown')
    BY <2>1, <2>2, <2>4, <2>5, ToldMore
  <2> QED
    BY <2>1, <2>4, <2>6 DEF Showing
<1> QED
  BY <1>1, <1>2

\* A step that writes a status and leaves its event to append.
Announcing == Start \/ FailDenied \/ Pause \/ \E s \in {"succeeded", "failed"} : Finish(s)

\* What was late stays on record, and what raced does until the next status is announced.
LEMMA FaultsStay ==
  ASSUME [Next]_vars, late' = {}, faults' = {}
  PROVE  late = {} /\ (faults = {} \/ Announcing \/ Commit("canceller"))
<1>1. ASSUME NEW s \in Session, Insert(s) \/ Commit(s) \/ Die(s)
      PROVE  late \subseteq late' /\ (faults \subseteq faults' \/ Commit("canceller"))
  BY <1>1 DEF Insert, Commit, Die, history
<1>2. CASE RowStep
  <2>1. late' = late
    BY <1>2, RowSteps
  <2>2. faults = faults' \/ Announcing
    BY <1>2 DEF RowStep, WorkerStep, Load, Resume, FindCancelled, Note, Decide, AskCancel, history,
           Announcing
  <2> QED
    BY <2>1, <2>2
<1>3. CASE UNCHANGED vars \/ Connect \/ Poll \/ Receive \/ Break \/ Refuse
  BY <1>3 DEF vars, history, Connect, Poll, Receive, Break, Refuse
<1> QED
  BY <1>1, <1>2, <1>3, NextSteps

\* A commit keeps Agreeing: unless it is late, its event is the last one, and the status
\* of the row is what it tells.
LEMMA AgreeingCommit ==
  ASSUME TypeOK, Opens, Appending, Idle, Agreeing, NEW s \in Session, Commit(s),
         late' = {}, faults' = {}, late = {}, faults = {} \/ s = "canceller"
  PROVE  Agreeing'
<1>1. ASSUME s # "canceller"
      PROVE  /\ todo["worker"] \in {"none", "note"} /\ status \in Terminal =>
                  LastTold(types, log, status)
             /\ \/ todo["worker"] \in {"none", "note"}
                \/ status = StatusOf(todo["worker"], "queued")
                \/ todo["worker"] = "approval_requested" /\ status = "queued"
             /\ requested /\ (Asked \/ status = "queued") =>
                  todo["worker"] = "none" /\ LastTold(types, log, "cancelled")
  BY <1>1 DEF Agreeing
<1>2. /\ open[s] # 0 /\ log' = log \cup {open[s]} /\ types' = types /\ Asked' = Asked
      /\ todo' = [todo EXCEPT ![s] = "none"]
      /\ Larger(open[s]) = {} /\ open[s] \in Nat /\ log \in SUBSET Nat
      /\ todo \in [Session -> EventType \cup {"none"}]
  BY DEF Commit, TypeOK, Ids, Asked
<1>3. \A id \in log : id <= open[s]
  BY <1>2 DEF Larger
<1>4. todo[s] # "none" /\ types[open[s]] = todo[s]
  BY <1>2 DEF Appending
<1>5. /\ Tells(todo[s]) => LastTold(types, log', StatusOf(todo[s], "queued"))
      /\ \A st : ~Tells(todo[s]) /\ LastTold(types, log, st) => LastTold(types, log', st)
  BY <1>2, <1>3, <1>4, ToldMore
<1>6. CASE s = "creator"
  <2>1. /\ ~Tells(todo[s]) /\ todo'["worker"] = todo["worker"]
        /\ UNCHANGED <<status, requested>>
    BY <1>2, <1>4, <1>6 DEF Commit, Appending, Tells, Session
  <2> QED
    BY <1>1, <1>2, <1>5, <1>6, <2>1 DEF Agreeing
<1>7. CASE s = "canceller"
  <2>1. /\ todo[s] = "cancelled" /\ todo'["worker"] = todo["worker"]
        /\ status' = "cancelled" /\ todo["worker"] \in {"none", "note"}
    BY <1>2, <1>4, <1>7 DEF Commit, Appending, Session
  <2>2. LastTold(types, log', "cancelled")
    BY <1>5, <2>1 DEF Tells, StatusOf
  <2>3. Asked => todo["worker"] = "none"
    BY <2>1 DEF Idle
  <2> QED
    BY <1>2, <2>1, <2>2, <2>3 DEF Agreeing
<1>8. CASE s = "worker"
  <2>1. todo'["worker"] = "none" /\ UNCHANGED <<status, requested>>
    BY <1>2, <1>8 DEF Commit
  <2>2. ~(requested /\ (Asked \/ status = "queued"))
    BY <1>1, <1>4, <1>8, Zenon
  <2>3. ASSUME status \in Terminal PROVE LastTold(types, log', status)
    <3>1. CASE todo["worker"] = "note"
      BY <1>1, <1>5, <1>8, <2>3, <3>1 DEF Tells
    <3>2. CASE todo["worker"] # "note"
      <4>1. Tells(todo["worker"])
        BY <1>4, <1>8, <3>2 DEF Appending, Tells
      <4>2. status = StatusOf(todo["worker"], "queued")
        BY <1>1, <1>4, <1>8, <2>3, <3>2 DEF Terminal
      <4> QED
        BY <1>5, <1>8, <4>1, <4>2
    <3> QED
      BY <3>1, <3>2
  <2> QED
    BY <1>2, <2>1, <2>2, <2>3 DEF Agreeing
<1> QED
  BY <1>6, <1>7, <1>8 DEF Session

\* Every step keeps Agreeing.
LEMMA AgreeingNext == TypeOK /\ Opens /\ Appending /\ Idle /\ Agreeing /\ [Next]_vars => Agreeing'
<1> SUFFICES ASSUME TypeOK, Opens, Appending, Idle, Agreeing, [Next]_vars, late' = {}, faults' = {}
             PROVE  Agreeing'
  BY DEF Agreeing
<1>0. late = {} /\ (faults = {} \/ Announcing \/ Commit("canceller"))
  BY FaultsStay
<1>1. ASSUME faults = {}
      PROVE  /\ todo["worker"] \in {"none", "note"} /\ status \in Terminal =>
                  LastTold(types, log, status)
             /\ \/ todo["worker"] \in {"none", "note"}
                \/ status = StatusOf(todo["worker"], "queued")
                \/ todo["worker"] = "approval_requested" /\ status = "queued"
             /\ requested /\ (Asked \/ status = "queued") =>
                  todo["worker"] = "none" /\ LastTold(types, log, "cancelled")
  BY <1>0, <1>1 DEF Agreeing
<1>2. \A st : LastTold(types, log, st) => LastTold(types', log, st)
  <2>1. \A id \in log : types[id] = types'[id]
    BY TypesKept DEF TypeOK
  <2> QED
    BY <2>1, ToldSame
<1>t. todo \in [Session -> EventType \cup {"none"}] /\ "worker" \in Session /\ "canceller" \in Session
  BY DEF TypeOK, Session
<1>3. ASSUME faults = {}, UNCHANGED <<status, requested, approvals, log>>,
             todo'["worker"] = todo["worker"]
      PROVE  Agreeing'
  <2>1. Asked' = Asked
    BY <1>3 DEF Asked
  <2> QED
    BY <1>1, <1>2, <1>3, <2>1 DEF Agreeing
<1>5. ASSUME NEW s \in Session, Commit(s) PROVE Agreeing'
  <2>1. CASE s = "canceller"
    BY <1>0, <1>5, <2>1, AgreeingCommit
  <2>2. CASE s # "canceller"
    <3>1. faults \subseteq faults'
      BY <1>5, <2>2 DEF Commit
    <3> QED
      BY <1>0, <1>5, <3>1, AgreeingCommit
  <2> QED
    BY <2>1, <2>2
<1>7. ASSUME NEW e, NEW st, todo' = [todo EXCEPT !["worker"] = e], status' = st,
             st = StatusOf(e, "queued"), e \notin {"none", "note"}, st # "queued",
             requested' => ~Asked'
      PROVE  Agreeing'
  <2>1. todo'["worker"] = e
    BY <1>7, <1>t
  <2> QED
    BY <1>7, <2>1 DEF Agreeing
<1>8. CASE Announcing
  <2>1. CASE Start
    <3>1. /\ todo' = [todo EXCEPT !["worker"] = "started"] /\ status' = "running"
          /\ about = "start" /\ approvals' = approvals
      BY <2>1 DEF Start, Change
    <3>2. "started" \notin {"none", "note"} /\ StatusOf("started", "queued") = "running"
      BY DEF StatusOf
    <3>3. ~Asked'
      BY <3>1 DEF Idle, Asked
    <3> QED
      BY <1>7, <3>1, <3>2, <3>3
  <2>2. CASE FailDenied
    <3>1. /\ todo' = [todo EXCEPT !["worker"] = "failed"] /\ status' = "failed"
          /\ about = "deny" /\ approvals' = approvals
      BY <2>2 DEF FailDenied, Change
    <3>2. "failed" \notin {"none", "note"} /\ StatusOf("failed", "queued") = "failed"
      BY DEF StatusOf
    <3>3. ~Asked'
      BY <3>1 DEF Idle, Asked
    <3> QED
      BY <1>7, <3>1, <3>2, <3>3
  <2>3. CASE Pause
    <3>1. /\ ~requested' /\ todo' = [todo EXCEPT !["worker"] = "approval_requested"]
          /\ status' = "waiting_approval"
      BY <2>3 DEF Pause
    <3>2. "approval_requested" \notin {"none", "note"}
          /\ StatusOf("approval_requested", "queued") = "waiting_approval"
      BY DEF StatusOf
    <3> QED
      BY <1>7, <3>1, <3>2
  <2>4. ASSUME NEW st \in {"succeeded", "failed"}, Finish(st) PROVE Agreeing'
    <3>1. todo' = [todo EXCEPT !["worker"] = Announces(st)] /\ status' = st /\ working
          /\ approvals' = approvals
      BY <2>4 DEF Finish, Change, WorkerMay
    <3>2. StatusOf(Announces(st), "queued") = st /\ Announces(st) \notin {"none", "note"}
      BY DEF StatusOf, Announces
    <3>3. ~Asked' /\ st # "queued"
      BY <3>1 DEF Idle, Asked
    <3> QED
      BY <1>7, <3>1, <3>2, <3>3
  <2> QED
    BY <1>8, <2>1, <2>2, <2>3, <2>4 DEF Announcing
<1>9. CASE faults = {}
  <2>1. ASSUME NEW s \in Session, Insert(s) PROVE Agreeing'
    BY <1>3, <1>9, <2>1 DEF Insert
  <2>2. ASSUME NEW s \in Session, Die(s) PROVE Agreeing'
    <3>1. /\ UNCHANGED <<status, requested, approvals, log, types>>
          /\ todo' = [todo EXCEPT ![s] = "none"]
          /\ s = "worker" => todo[s] \in {"none", "note"}
      BY <2>2 DEF Die, tables
    <3>2. CASE s # "worker"
      BY <1>3, <1>9, <1>t, <3>1, <3>2
    <3>3. CASE s = "worker"
      <4>1. Asked' = Asked /\ todo'["worker"] = "none"
        BY <1>t, <3>1, <3>3 DEF Asked
      <4> QED
        BY <1>1, <1>9, <3>1, <3>3, <4>1 DEF Agreeing
    <3> QED
      BY <3>2, <3>3
  <2>3. CASE Load \/ AskCancel
    <3>1. UNCHANGED <<status, requested, approvals, log>> /\ todo'["worker"] = todo["worker"]
      BY <1>t, <2>3 DEF Load, AskCancel, tables
    <3> QED
      BY <1>3, <1>9, <3>1
  <2>4. CASE Resume
    <3>1. /\ todo' = todo /\ status' = "running" /\ todo["worker"] = "none"
          /\ about = "resume" /\ approvals' = approvals
      BY <2>4 DEF Resume
    <3>2. ~Asked'
      BY <3>1 DEF Idle, Asked
    <3> QED
      BY <3>1, <3>2 DEF Agreeing, Terminal
  <2>5. CASE FindCancelled
    <3>1. /\ requested /\ status = "queued" /\ status' = "cancelled"
          /\ todo' = todo /\ todo["worker"] = "none" /\ UNCHANGED <<types, log>>
      BY <2>5 DEF FindCancelled, WorkerFree, sessions
    <3> QED
      BY <1>1, <1>9, <3>1 DEF Agreeing
  <2>6. CASE Note
    <3>1. /\ todo["worker"] = "none" /\ todo'["worker"] = "note"
          /\ working \/ about \in {"resume", "deny"}
          /\ UNCHANGED <<status, requested, approvals, types, log>>
      BY <1>t, <2>6 DEF Note, WorkerMay, tables
    <3>2. ~Asked' /\ (status' = "queued" => ~requested')
      BY <3>1 DEF Idle, Asked
    <3> QED
      BY <1>1, <1>9, <3>1, <3>2 DEF Agreeing
  <2>7. ASSUME NEW decision \in {"approved", "denied"}, Decide(decision) PROVE Agreeing'
    <3>1. /\ Asked /\ status' = "queued" /\ todo' = todo /\ requested' = requested
          /\ UNCHANGED <<types, log>>
      BY <2>7, Answers DEF Decide, sessions
    <3>2. todo["worker"] \in {"none", "approval_requested"}
      BY <3>1 DEF Idle
    <3> QED
      BY <1>1, <1>9, <3>1, <3>2 DEF Agreeing, Terminal
  <2>8. CASE UNCHANGED vars \/ Connect \/ Poll \/ Receive \/ Break \/ Refuse
    BY <1>3, <1>9, <2>8 DEF vars, tables, sessions, Connect, Poll, Receive, Break, Refuse
  <2>9. CASE RowStep
    BY <1>8, <2>3, <2>4, <2>5, <2>6, <2>7, <2>9 DEF RowStep, WorkerStep, Announcing
  <2> QED
    BY <1>5, <2>1, <2>2, <2>8, <2>9, NextSteps
<1> QED
  <2>1. "canceller" \in Session
    BY DEF Session
  <2> QED
    BY <1>0, <1>5, <1>8, <1>9, <2>1

\* The screen of a client that has received every event of a finished task shows the status
\* of its row, however the worker, the users and the connections behaved, unless an event
\* was committed late or the last status has no event behind it: a cancel crossed the
\* worker's event, the worker died before it, or the run paused over a cancel.
THEOREM ScreenIsRight == Spec => []ScreenAgrees
<1> DEFINE J == Appending /\ Idle /\ Agreeing /\ Showing
<1>1. Init => J
  <2> SUFFICES ASSUME Init PROVE J
    OBVIOUS
  <2>1. /\ status = "queued" /\ requested = FALSE /\ approvals = <<>> /\ working = FALSE
        /\ about = "none" /\ received = <<>> /\ shown = "queued"
        /\ \A s \in Session : open[s] = 0
        /\ todo["creator"] = "created" /\ todo["worker"] = "none" /\ todo["canceller"] = "none"
    BY DEF Init, Session
  <2>2. Range(received) = {}
    BY <2>1 DEF Range
  <2> QED
    BY <2>1, <2>2 DEF Appending, Idle, Asked, Agreeing, Showing, Terminal
<1>2. IInv /\ J /\ [Next]_vars => J'
  BY AppendingNext, IdleNext, AgreeingNext, ShowingNext DEF IInv
<1>3. IInv /\ J => ScreenAgrees
  <2> SUFFICES ASSUME IInv, J, Settled, log \subseteq Range(received) PROVE shown = status
    BY DEF ScreenAgrees
  <2>1. log \in SUBSET Nat /\ received \in Seq(log)
    BY DEF IInv, TypeOK, Ids
  <2>2. Range(received) = log
    BY <2>1, MembersOfSeq
  <2>3. LastTold(types, log, status)
    BY DEF Settled, Agreeing, Session
  <2>4. \E id \in log : Tells(types[id])
    BY <2>3 DEF LastTold
  <2>5. LastTold(types, log, shown)
    BY <2>2, <2>4 DEF Showing
  <2> QED
    BY <2>1, <2>3, <2>5, ToldOnce
<1> QED
  BY <1>1, <1>2, <1>3, StreamInvariant, PTL DEF Spec
=============================================================================

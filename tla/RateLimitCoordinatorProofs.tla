--------------------- MODULE RateLimitCoordinatorProofs ---------------------
(***************************************************************************)
(* Proofs about the rate-limit coordinator, for every number of streams,   *)
(* keys, tickets and instants.                                             *)
(*                                                                         *)
(* The queues are reasoned about through two predicates only: which        *)
(* tickets a queue contains and that they increase from its front to its   *)
(* tail.  The lemmas of the first part say what push_back, find/erase and  *)
(* pop_front do to them; the proofs about the actions never look into a    *)
(* sequence again.                                                         *)
(***************************************************************************)
EXTENDS RateLimitCoordinator, FiniteSetTheorems, SequenceTheorems, TLAPS

Increasing(s) == \A i, j \in DOMAIN s : i < j => s[i] < s[j]

Tickets == 1..MaxTicket

\* Two kinds of waiters are counted together by the sum of their numbers.
LEMMA WaitersAdd ==
  ASSUME NEW A, NEW B, IsFiniteSet(A), IsFiniteSet(B), A \cap B = {}
  PROVE  Cardinality(A \cup B) = Cardinality(A) + Cardinality(B)
<1>1. Cardinality(A \cup B) = Cardinality(A) + Cardinality(B) - Cardinality(A \cap B)
  BY FS_Union
<1>2. Cardinality(A \cap B) = 0
  BY FS_EmptySet
<1>3. Cardinality(A) \in Nat /\ Cardinality(B) \in Nat
  BY FS_CardinalityType
<1> QED
  BY <1>1, <1>2, <1>3

\* A cleared queue contains nothing, and a queue that contains nothing is empty:
\* what the erase of a bucket without tickets relies on.
LEMMA EmptyQueue ==
  /\ <<>> \in Seq(Tickets) /\ Increasing(<<>>) /\ Len(<<>>) = 0
  /\ \A t : ~Contains(<<>>, t)
  /\ \A s \in Seq(Tickets) : s # <<>> <=> \E t \in Tickets : Contains(s, t)
<1>1. <<>> \in Seq(Tickets) /\ Len(<<>>) = 0
  OBVIOUS
<1>2. Increasing(<<>>) /\ \A t : ~Contains(<<>>, t)
  BY DEF Increasing, Contains
<1>3. ASSUME NEW s \in Seq(Tickets), s # <<>>
      PROVE  \E t \in Tickets : Contains(s, t)
  <2>1. 1 \in DOMAIN s /\ s[1] \in Tickets
    BY <1>3
  <2> QED
    BY <2>1 DEF Contains
<1> QED
  BY <1>1, <1>2, <1>3

\* push_back of a ticket younger than all in the queue, the step of Acquire and
\* of Requeue, keeps the queue in order and adds that ticket only.
LEMMA PushBack ==
  ASSUME NEW s \in Seq(Tickets), Increasing(s), NEW t \in Tickets,
         \A u \in Tickets : Contains(s, u) => u < t
  PROVE  /\ Append(s, t) \in Seq(Tickets)
         /\ Append(s, t) # <<>>
         /\ Increasing(Append(s, t))
         /\ Len(Append(s, t)) = Len(s) + 1
         /\ \A u : Contains(Append(s, t), u) <=> Contains(s, u) \/ u = t
<1> DEFINE a == Append(s, t)
<1>1. /\ a \in Seq(Tickets) /\ a # <<>> /\ Len(a) = Len(s) + 1
      /\ \A i \in 1..Len(s) : a[i] = s[i]
      /\ a[Len(s) + 1] = t
      /\ DOMAIN a = 1..(Len(s) + 1) /\ DOMAIN s = 1..Len(s)
  BY AppendProperties, LenProperties
<1>2. \A i \in 1..Len(s) : s[i] \in Tickets /\ s[i] < t
  BY <1>1, LenProperties DEF Contains
<1> HIDE DEF a
<1>3. Increasing(a)
  BY <1>1, <1>2, LenProperties DEF Increasing, Tickets
<1>4. \A u : Contains(a, u) <=> Contains(s, u) \/ u = t
  BY <1>1, LenProperties DEF Contains
<1> QED
  BY <1>1, <1>3, <1>4 DEF a

\* pop_front, the step that takes the permit, removes the oldest ticket.
LEMMA PopFront ==
  ASSUME NEW s \in Seq(Tickets), Increasing(s), s # <<>>
  PROVE  /\ Tail(s) \in Seq(Tickets)
         /\ Head(s) \in Tickets /\ Contains(s, Head(s))
         /\ Increasing(Tail(s))
         /\ Len(Tail(s)) = Len(s) - 1
         /\ \A u : Contains(Tail(s), u) <=> Contains(s, u) /\ u # Head(s)
         /\ \A u : Contains(s, u) => Head(s) <= u
<1> DEFINE r == Tail(s)
<1>1. /\ r \in Seq(Tickets) /\ Len(r) = Len(s) - 1
      /\ \A i \in 1..Len(r) : r[i] = s[i + 1]
      /\ Head(s) = s[1] /\ Head(s) \in Tickets
      /\ DOMAIN r = 1..Len(r) /\ DOMAIN s = 1..Len(s) /\ Len(s) \in Nat \ {0}
  BY HeadTailProperties, LenProperties, EmptySeq
<1>2. ASSUME NEW i \in DOMAIN s
      PROVE  s[i] \in Tickets /\ s[i] \in Int /\ s[1] <= s[i] /\ (i # 1 => s[i] # s[1])
  <2>1. s[i] \in Tickets /\ s[1] \in Tickets
    BY <1>1
  <2>2. s[i] \in Int /\ s[1] \in Int
    BY <2>1, CoordinatorAssumption DEF Tickets
  <2>3. i # 1 => s[1] < s[i]
    BY <1>1 DEF Increasing
  <2> QED
    BY <2>1, <2>2, <2>3
<1> HIDE DEF r
<1>3. Increasing(r)
  <2> SUFFICES ASSUME NEW j \in 1..Len(r), NEW k \in 1..Len(r), j < k
               PROVE  r[j] < r[k]
    BY <1>1 DEF Increasing
  <2>1. j + 1 \in DOMAIN s /\ k + 1 \in DOMAIN s /\ j + 1 < k + 1
    BY <1>1
  <2>2. r[j] = s[j + 1] /\ r[k] = s[k + 1]
    BY <1>1
  <2> QED
    BY <2>1, <2>2 DEF Increasing
<1>4. ASSUME NEW u PROVE Contains(r, u) <=> Contains(s, u) /\ u # Head(s)
  <2>1. ASSUME NEW i \in DOMAIN s, i # 1 PROVE i - 1 \in DOMAIN r /\ r[i - 1] = s[i]
    BY <1>1, <2>1
  <2>2. ASSUME NEW i \in DOMAIN r PROVE i + 1 \in DOMAIN s /\ i + 1 # 1 /\ r[i] = s[i + 1]
    BY <1>1
  <2>3. Contains(r, u) => Contains(s, u) /\ u # Head(s)
    BY <1>1, <1>2, <2>2 DEF Contains
  <2>4. Contains(s, u) /\ u # Head(s) => Contains(r, u)
    BY <1>1, <2>1 DEF Contains
  <2> QED
    BY <2>3, <2>4
<1>5. \A u : Contains(s, u) => Head(s) <= u
  BY <1>1, <1>2 DEF Contains
<1>6. Contains(s, Head(s))
  BY <1>1 DEF Contains
<1> QED
  BY <1>1, <1>3, <1>4, <1>5, <1>6 DEF r

\* find and erase, EraseTicketLocked's first lines, remove that ticket only and
\* keep the order of the others.
LEMMA FindAndErase ==
  ASSUME NEW s \in Seq(Tickets), Increasing(s), NEW t, Contains(s, t)
  PROVE  /\ Without(s, t) \in Seq(Tickets)
         /\ Increasing(Without(s, t))
         /\ Len(Without(s, t)) = Len(s) - 1
         /\ \A u : Contains(Without(s, t), u) <=> Contains(s, u) /\ u # t
<1> DEFINE i == CHOOSE i \in DOMAIN s : s[i] = t
           w == [j \in 1..(Len(s) - 1) |-> IF j < i THEN s[j] ELSE s[j + 1]]
<1>1. i \in DOMAIN s /\ s[i] = t
  BY DEF Contains
<1>2. Without(s, t) = w
  BY DEF Without
<1>3. DOMAIN s = 1..Len(s) /\ Len(s) \in Nat \ {0}
  BY <1>1, LenProperties
<1>4. ASSUME NEW j \in DOMAIN s, NEW k \in DOMAIN s
      PROVE  s[j] \in Tickets /\ s[j] \in Int /\ (s[j] = s[k] => j = k)
  <2>1. s[j] \in Tickets /\ s[k] \in Tickets
    OBVIOUS
  <2>2. s[j] \in Int /\ s[k] \in Int
    BY <2>1, CoordinatorAssumption DEF Tickets
  <2>3. (j < k => s[j] < s[k]) /\ (k < j => s[k] < s[j])
    BY DEF Increasing
  <2> QED
    BY <1>3, <2>1, <2>2, <2>3
<1> HIDE DEF i
<1>5. w \in Seq(Tickets) /\ Len(w) = Len(s) - 1 /\ DOMAIN w = 1..(Len(s) - 1)
  <2>1. \A j \in 1..(Len(s) - 1) : w[j] \in Tickets
    BY <1>1, <1>3, <1>4
  <2>2. w \in [1..(Len(s) - 1) -> Tickets] /\ Len(s) - 1 \in Nat
    BY <1>3, <2>1
  <2> QED
    BY <2>2
<1>6. Increasing(w)
  <2> SUFFICES ASSUME NEW j \in 1..(Len(s) - 1), NEW k \in 1..(Len(s) - 1), j < k
               PROVE  w[j] < w[k]
    BY <1>5 DEF Increasing
  <2>1. \A m, n \in 1..Len(s) : m < n => s[m] < s[n]
    BY <1>3 DEF Increasing
  <2> QED
    BY <1>1, <1>3, <1>4, <2>1 DEF Tickets
<1>7. ASSUME NEW u PROVE Contains(w, u) <=> Contains(s, u) /\ u # t
  <2>1. ASSUME NEW m \in DOMAIN s, m # i
        PROVE  \E j \in DOMAIN w : w[j] = s[m]
    <3>1. CASE m < i
      <4>1. m \in DOMAIN w /\ w[m] = s[m]
        BY <1>1, <1>3, <1>5, <3>1
      <4> QED BY <4>1
    <3>2. CASE m > i
      <4>1. m - 1 \in DOMAIN w /\ w[m - 1] = s[m]
        BY <1>1, <1>3, <1>5, <3>2
      <4> QED BY <4>1
    <3> QED
      BY <1>1, <1>3, <2>1, <3>1, <3>2
  <2>2. ASSUME NEW j \in DOMAIN w
        PROVE  \E m \in DOMAIN s : m # i /\ s[m] = w[j]
    <3>1. CASE j < i
      BY <1>1, <1>3, <1>5, <3>1
    <3>2. CASE ~(j < i)
      <4>1. j + 1 \in DOMAIN s /\ j + 1 # i /\ s[j + 1] = w[j]
        BY <1>1, <1>3, <1>5, <3>2
      <4> QED BY <4>1
    <3> QED
      BY <3>1, <3>2
  <2> HIDE DEF w
  <2> QED
    BY <1>1, <1>4, <2>1, <2>2 DEF Contains
<1> QED
  BY <1>2, <1>5, <1>6, <1>7
-----------------------------------------------------------------------------
(* The inductive invariant *)

IsQueued(c) == pc[c] \in Queued

IsOwning(c) == pc[c] \in Owning

Queue(k) == buckets[k].tickets

QueuesOrdered == \A k \in Keys : Increasing(Queue(k))

\* A ticket identifies its caller, and the next one is new.
TicketsDistinct ==
  /\ \A c \in Callers : ticket[c] < next_ticket
  /\ \A c, d \in Callers :
       IsQueued(c) /\ IsQueued(d) /\ ticket[c] = ticket[d] => c = d

TicketsLive ==
  terminal_status = "ACQUIRED" =>
    \A c \in Callers : IsQueued(c) => Contains(Queue(quota[c]), ticket[c])

TicketsOwned ==
  \A k \in Keys : \A t \in Tickets : Contains(Queue(k), t) =>
    /\ terminal_status = "ACQUIRED"
    /\ \E c \in Callers : IsQueued(c) /\ quota[c] = k /\ ticket[c] = t

BucketsKept ==
  \A k \in Keys :
    buckets[k].present <=> (buckets[k].permitted \/ Queue(k) # <<>>)

PermitsOwned ==
  /\ \A c \in Callers : IsOwning(c) => buckets[quota[c]].permitted
  /\ \A k \in Keys : buckets[k].permitted =>
       \E c \in Callers : IsOwning(c) /\ quota[c] = k
  /\ \A c, d \in Callers :
       IsOwning(c) /\ IsOwning(d) /\ quota[c] = quota[d] => c = d

WaitersCounted ==
  /\ total_waiters = Cardinality(Counted)
  /\ total_waiters <= TotalWaiters

KeysBounded == \A k \in Keys : KeyWaiters(k) <= WaitersPerKey

IInv ==
  /\ TypeOK
  /\ QueuesOrdered
  /\ TicketsDistinct
  /\ TicketsLive
  /\ TicketsOwned
  /\ BucketsKept
  /\ PermitsOwned
  /\ WaitersCounted
  /\ KeysBounded

(* Buckets *)

\* Erasing a bucket that has neither permit nor ticket loses nothing.
LEMMA KeptBucket ==
  ASSUME NEW b \in BucketState, b.permitted \/ b.tickets # <<>> => b.present
  PROVE  /\ Kept(b) \in BucketState
         /\ Kept(b).tickets = b.tickets
         /\ Kept(b).permitted = b.permitted
         /\ Kept(b).present <=> (b.permitted \/ b.tickets # <<>>)
<1>1. NoBucket \in BucketState
  BY EmptyQueue DEF NoBucket, BucketState, Tickets
<1>2. CASE b.permitted \/ b.tickets # <<>>
  <2>1. Kept(b) = b
    BY <1>2 DEF Kept
  <2>2. b.present
    BY <1>2
  <2>3. Kept(b).present <=> (b.permitted \/ b.tickets # <<>>)
    BY <1>2, <2>1, <2>2, Zenon
  <2> QED
    BY <2>1, <2>3
<1>3. CASE ~(b.permitted \/ b.tickets # <<>>)
  <2>1. b.permitted = FALSE /\ b.tickets = <<>> /\ Kept(b) = NoBucket
    BY <1>3 DEF Kept, BucketState
  <2>2. /\ NoBucket.tickets = <<>>
        /\ NoBucket.permitted = FALSE
        /\ NoBucket.present = FALSE
    BY DEF NoBucket
  <2>3. Kept(b).present <=> (b.permitted \/ b.tickets # <<>>)
    BY <1>3, <2>1, <2>2, Zenon
  <2> QED
    BY <1>1, <2>1, <2>2, <2>3
<1> QED
  BY <1>2, <1>3

\* Guidance moves the embargo only, and only later.
LEMMA ExtendedBucket ==
  ASSUME NEW b \in BucketState, NEW e \in Nat
  PROVE  /\ Extended(b, e) \in BucketState
         /\ Extended(b, e).tickets = b.tickets
         /\ Extended(b, e).permitted = b.permitted
         /\ Extended(b, e).present = b.present
         /\ Extended(b, e).eligible >= b.eligible
BY DEF Extended, BucketState, Larger

\* Changing a bucket's queue leaves its other fields.
LEMMA QueueReplaced ==
  ASSUME NEW b \in BucketState, NEW s \in Seq(Tickets)
  PROVE  /\ [b EXCEPT !.tickets = s] \in BucketState
         /\ [b EXCEPT !.tickets = s].tickets = s
         /\ [b EXCEPT !.tickets = s].permitted = b.permitted
         /\ [b EXCEPT !.tickets = s].present = b.present
         /\ [b EXCEPT !.tickets = s].eligible = b.eligible
BY DEF BucketState, Tickets

\* Changing a bucket's permit leaves its other fields.
LEMMA PermitReplaced ==
  ASSUME NEW b \in BucketState, NEW p \in BOOLEAN
  PROVE  /\ [b EXCEPT !.permitted = p] \in BucketState
         /\ [b EXCEPT !.permitted = p].tickets = b.tickets
         /\ [b EXCEPT !.permitted = p].permitted = p
         /\ [b EXCEPT !.permitted = p].present = b.present
         /\ [b EXCEPT !.permitted = p].eligible = b.eligible
BY DEF BucketState

PermitUnit(k) == IF buckets[k].permitted THEN 1 ELSE 0

\* A key's share is its queue and its permit.
LEMMA KeyWaitersIs ==
  ASSUME NEW k
  PROVE  /\ KeyWaiters(k) = Len(Queue(k)) + PermitUnit(k)
         /\ buckets[k].permitted => PermitUnit(k) = 1
         /\ ~buckets[k].permitted => PermitUnit(k) = 0
         /\ KeyWaiters(k)' = Len(buckets'[k].tickets) + PermitUnit(k)'
         /\ buckets'[k].permitted => PermitUnit(k)' = 1
         /\ ~buckets'[k].permitted => PermitUnit(k)' = 0
BY Zenon DEF KeyWaiters, PermitUnit, Queue

\* The callers that count are finitely many.
LEMMA CountedFinite ==
  /\ IsFiniteSet(Counted) /\ Cardinality(Counted) \in Nat
  /\ IsFiniteSet(Counted') /\ Cardinality(Counted') \in Nat
<1>1. Counted \in SUBSET Callers /\ Counted' \in SUBSET Callers
  BY DEF Counted
<1> QED
  BY <1>1, FS_Subset, FS_CardinalityType, CoordinatorAssumption

\* The coordinator starts empty.
LEMMA InitIInv == Init => IInv
<1> SUFFICES ASSUME Init PROVE IInv
  OBVIOUS
<1>1. AnyKey \in Keys
  BY CoordinatorAssumption DEF AnyKey
<1>2. NoBucket \in BucketState
  BY EmptyQueue DEF NoBucket, BucketState, Tickets
<1>3. TypeOK
  BY <1>1, <1>2, CoordinatorAssumption DEF Init, TypeOK, Statuses
<1>4. \A c \in Callers : ~IsQueued(c) /\ ~IsOwning(c)
  BY DEF Init, IsQueued, IsOwning, Queued, Owning
<1>5. \A k \in Keys : /\ Queue(k) = <<>>
                      /\ buckets[k].permitted = FALSE
                      /\ buckets[k].present = FALSE
  BY DEF Init, Queue, NoBucket
<1>6. QueuesOrdered /\ TicketsLive /\ TicketsOwned
  BY <1>4, <1>5, EmptyQueue DEF QueuesOrdered, TicketsLive, TicketsOwned
<1>7. TicketsDistinct
  BY <1>4 DEF Init, TicketsDistinct
<1>8. BucketsKept
  BY <1>5 DEF BucketsKept
<1>9. PermitsOwned
  BY <1>4, <1>5 DEF PermitsOwned
<1>10. WaitersCounted
  <2>1. Counted = {}
    BY <1>4 DEF Counted, IsQueued, IsOwning
  <2> QED
    BY <2>1, FS_EmptySet, CoordinatorAssumption DEF Init, WaitersCounted
<1>11. KeysBounded
  <2>1. \A k \in Keys : Len(buckets[k].tickets) = 0 /\ ~buckets[k].permitted
    BY <1>5, EmptyQueue DEF Queue
  <2>2. ASSUME NEW k \in Keys PROVE KeyWaiters(k) = 0
    BY <2>1, KeyWaitersIs DEF Queue
  <2> QED
    BY <2>2, CoordinatorAssumption DEF KeysBounded
<1> QED
  BY <1>3, <1>6, <1>7, <1>8, <1>9, <1>10, <1>11 DEF IInv

-----------------------------------------------------------------------------
(* The shapes of a step *)

\* Callers stay queued, owning or neither, and buckets keep their queue and
\* permit.
SameRoles ==
  \A c \in Callers : /\ pc'[c] \in Queued <=> pc[c] \in Queued
                     /\ pc'[c] \in Owning <=> pc[c] \in Owning

SameQueues(bs) ==
  \A k \in Keys : /\ bs[k].tickets = buckets[k].tickets
                  /\ bs[k].permitted = buckets[k].permitted
                  /\ bs[k].present = buckets[k].present

\* A step that moves no ticket and no permit, whatever it does to embargoes,
\* statuses, the clock and the mutex.
LEMMA NothingMoves ==
  ASSUME IInv, TypeOK', SameRoles, SameQueues(buckets'),
         UNCHANGED <<terminal_status, next_ticket, total_waiters, quota, ticket>>
  PROVE  IInv'
<1> USE DEF SameRoles, SameQueues, IsQueued, IsOwning, Queue
<1>1. QueuesOrdered'
  BY DEF IInv, QueuesOrdered
<1>2. TicketsDistinct'
  BY DEF IInv, TicketsDistinct
<1>3. TicketsLive'
  <2>1. \A c \in Callers : quota[c] \in Keys
    BY DEF IInv, TypeOK
  <2> QED
    BY <2>1 DEF IInv, TicketsLive
<1>4. TicketsOwned'
  BY DEF IInv, TicketsOwned
<1>5. BucketsKept'
  BY DEF IInv, BucketsKept
<1>6. PermitsOwned'
  <2>1. \A c \in Callers : quota[c] \in Keys
    BY DEF IInv, TypeOK
  <2> QED
    BY <2>1 DEF IInv, PermitsOwned
<1>7. WaitersCounted'
  <2>1. Counted' = Counted
    BY DEF Counted
  <2> QED
    BY <2>1 DEF IInv, WaitersCounted
<1>8. KeysBounded'
  <2>1. \A k \in Keys : KeyWaiters(k)' = KeyWaiters(k)
    BY Zenon DEF KeyWaiters
  <2> QED
    BY <2>1 DEF IInv, KeysBounded
<1> QED
  BY <1>1, <1>2, <1>3, <1>4, <1>5, <1>6, <1>7, <1>8 DEF IInv

\* While the coordinator is open there are as many tickets in the buckets as
\* callers in the queues: what EnterTerminalLocked takes from total_waiters.
LEMMA OneTicketEach ==
  ASSUME IInv, terminal_status = "ACQUIRED", NEW bs, SameQueues(bs)
  PROVE  LET W == {c \in Callers : IsQueued(c)}
         IN  /\ IsFiniteSet(W)
             /\ Cardinality(QueuedTickets(bs)) = Cardinality(W)
<1> DEFINE W == {c \in Callers : IsQueued(c)}
           T == QueuedTickets(bs)
           f == [c \in W |-> <<quota[c], ticket[c]>>]
<1>1. IsFiniteSet(W)
  <2>1. W \in SUBSET Callers
    OBVIOUS
  <2> QED
    BY <2>1, FS_Subset, CoordinatorAssumption
<1>2. \A c \in Callers : quota[c] \in Keys /\ ticket[c] \in 0..MaxTicket
  BY DEF IInv, TypeOK
<1>3. ASSUME NEW c \in W
      PROVE  <<quota[c], ticket[c]>> \in T
  <2>1. Contains(bs[quota[c]].tickets, ticket[c])
    BY <1>2 DEF IInv, TicketsLive, SameQueues, Queue
  <2>2. ticket[c] \in Tickets
    <3>1. buckets[quota[c]].tickets \in Seq(Tickets)
      BY <1>2 DEF IInv, TypeOK, BucketState, Tickets
    <3>2. bs[quota[c]].tickets = buckets[quota[c]].tickets
      BY <1>2 DEF SameQueues
    <3> QED
      BY <2>1, <3>1, <3>2 DEF Contains
  <2> QED
    BY <1>2, <2>1, <2>2 DEF QueuedTickets, Tickets
<1>4. ASSUME NEW x \in T
      PROVE  \E c \in W : <<quota[c], ticket[c]>> = x
  <2>1. x \in Keys \X Tickets /\ Contains(bs[x[1]].tickets, x[2])
    BY DEF QueuedTickets, Tickets
  <2>2. x[1] \in Keys /\ x[2] \in Tickets /\ x = <<x[1], x[2]>>
    BY <2>1
  <2>3. Contains(Queue(x[1]), x[2])
    BY <2>1, <2>2 DEF SameQueues, Queue
  <2>4. PICK c \in Callers : IsQueued(c) /\ quota[c] = x[1] /\ ticket[c] = x[2]
    BY <2>2, <2>3 DEF IInv, TicketsOwned
  <2> QED
    BY <2>2, <2>4
<1>5. \A c, d \in W : <<quota[c], ticket[c]>> = <<quota[d], ticket[d]>> => c = d
  BY DEF IInv, TicketsDistinct
<1> HIDE DEF W, T
<1>6. f \in Bijection(W, T)
  <2>1. f \in [W -> T] /\ \A c \in W : f[c] = <<quota[c], ticket[c]>>
    BY <1>3
  <2> HIDE DEF f
  <2>2. \A c, d \in W : f[c] = f[d] => c = d
    BY <1>5, <2>1
  <2>3. \A x \in T : \E c \in W : f[c] = x
    BY <1>4, <2>1
  <2> QED
    BY <2>1, <2>2, <2>3 DEF Bijection, Injection, Surjection, IsInjective
<1>7. ExistsBijection(W, T)
  BY <1>6 DEF ExistsBijection
<1> QED
  BY <1>1, <1>7, FS_Bijection DEF W, T

\* EnterTerminalLocked empties every queue, keeps every permit, and leaves
\* total_waiters at the number of permits.
LEMMA ClosesAll ==
  ASSUME IInv, terminal_status = "ACQUIRED",
         NEW bs \in [Keys -> BucketState], SameQueues(bs),
         NEW reason \in {"SCHEDULER_CLOSED", "TICKET_EXHAUSTED"},
         EnterTerminalLocked(reason, bs), SameRoles,
         pc' \in [Callers -> {"out"} \cup Owning \cup Queued],
         status' \in [Callers -> Statuses],
         UNCHANGED <<now, next_ticket, quota, ticket, deadline, cancelled>>
  PROVE  IInv'
<1> USE DEF IsQueued, IsOwning
<1>1. ASSUME NEW k \in Keys
      PROVE  /\ buckets'[k] \in BucketState
             /\ buckets'[k].tickets = <<>>
             /\ buckets'[k].permitted = buckets[k].permitted
             /\ buckets'[k].present <=> buckets[k].permitted
  <2> DEFINE b == [bs[k] EXCEPT !.tickets = <<>>]
  <2>1. buckets'[k] = Kept(b)
    BY DEF EnterTerminalLocked
  <2>2. bs[k] \in BucketState
    OBVIOUS
  <2>3. /\ b \in BucketState
        /\ b.tickets = <<>>
        /\ b.permitted = bs[k].permitted
        /\ b.present = bs[k].present
    BY <2>2, QueueReplaced, EmptyQueue
  <2>4. bs[k].permitted = buckets[k].permitted /\ bs[k].present = buckets[k].present
    BY DEF SameQueues
  <2>5. buckets[k].permitted => buckets[k].present
    BY DEF IInv, BucketsKept
  <2> HIDE DEF b
  <2>6. b.permitted \/ b.tickets # <<>> => b.present
    BY <2>3, <2>4, <2>5
  <2> QED
    BY <2>1, <2>3, <2>4, <2>6, KeptBucket
<1>2. terminal_status' = reason /\ reason # "ACQUIRED"
  BY DEF EnterTerminalLocked
<1>3. QueuesOrdered' /\ TicketsLive' /\ TicketsOwned'
  BY <1>1, <1>2, EmptyQueue DEF QueuesOrdered, TicketsLive, TicketsOwned, Queue
<1>4. TicketsDistinct'
  BY DEF IInv, TicketsDistinct, SameRoles
<1>5. BucketsKept'
  BY <1>1 DEF BucketsKept, Queue
<1>6. PermitsOwned'
  <2>1. \A c \in Callers : quota[c] \in Keys
    BY DEF IInv, TypeOK
  <2> QED
    BY <1>1, <2>1 DEF IInv, PermitsOwned, SameRoles
<1>7. WaitersCounted' /\ total_waiters' \in Nat
  <2> DEFINE W == {c \in Callers : IsQueued(c)}
             T == QueuedTickets(bs)
  <2>1. IsFiniteSet(W) /\ Cardinality(T) = Cardinality(W)
    BY OneTicketEach
  <2>2. Counted = Counted' \cup W /\ Counted' \cap W = {}
    BY <1>2 DEF Counted, SameRoles, Queued, Owning
  <2>3. Cardinality(Counted) = Cardinality(Counted') + Cardinality(W)
    BY <2>1, <2>2, CountedFinite, WaitersAdd
  <2>4. total_waiters' = total_waiters - Cardinality(T)
    BY DEF EnterTerminalLocked
  <2>5. Cardinality(W) \in Nat
    BY <2>1, FS_CardinalityType
  <2> HIDE DEF W, T
  <2> QED
    BY <2>1, <2>3, <2>4, <2>5, CountedFinite, CoordinatorAssumption
    DEF IInv, WaitersCounted
<1>8. KeysBounded'
  <2> SUFFICES ASSUME NEW k \in Keys PROVE KeyWaiters(k)' <= WaitersPerKey
    BY DEF KeysBounded
  <2>1. Len(buckets'[k].tickets) = 0
    BY <1>1, EmptyQueue
  <2>2. PermitUnit(k)' = PermitUnit(k)
    BY <1>1, Zenon DEF PermitUnit
  <2>3. KeyWaiters(k)' = Len(buckets'[k].tickets) + PermitUnit(k)'
    BY KeyWaitersIs
  <2>4. KeyWaiters(k) = Len(Queue(k)) + PermitUnit(k) /\ KeyWaiters(k) <= WaitersPerKey
    BY KeyWaitersIs DEF IInv, KeysBounded
  <2>5. PermitUnit(k) \in Nat /\ Len(Queue(k)) \in Nat
    <3>1. buckets[k].tickets \in Seq(Tickets)
      BY DEF IInv, TypeOK, BucketState, Tickets
    <3> QED
      BY <3>1, KeyWaitersIs DEF Queue
  <2> QED
    BY <2>1, <2>2, <2>3, <2>4, <2>5, CoordinatorAssumption
<1>9. TypeOK'
  <2>1. buckets' \in [Keys -> BucketState]
    BY <1>1 DEF EnterTerminalLocked
  <2> QED
    BY <1>2, <1>7, <2>1 DEF IInv, TypeOK
<1> QED
  BY <1>3, <1>4, <1>5, <1>6, <1>7, <1>8, <1>9 DEF IInv

\* Len(Queue(k)) and PermitUnit(k) are the two parts of a key's share.
LEMMA ShareBounded ==
  ASSUME IInv, NEW k \in Keys
  PROVE  /\ buckets[k] \in BucketState /\ Queue(k) \in Seq(Tickets)
         /\ Len(Queue(k)) \in Nat /\ PermitUnit(k) \in {0, 1}
         /\ Len(Queue(k)) + PermitUnit(k) <= WaitersPerKey
<1>1. buckets[k] \in BucketState /\ Queue(k) \in Seq(Tickets)
  BY DEF IInv, TypeOK, BucketState, Tickets, Queue
<1>2. PermitUnit(k) \in {0, 1}
  BY KeyWaitersIs
<1>3. KeyWaiters(k) <= WaitersPerKey
  BY DEF IInv, KeysBounded
<1> QED
  BY <1>1, <1>2, <1>3, KeyWaitersIs

\* A step that changes the bucket of one key only keeps every key's share within
\* its limit if it does so for that key.
LEMMA OtherSharesKept ==
  ASSUME IInv, NEW k \in Keys, \A j \in Keys : j # k => buckets'[j] = buckets[j],
         KeyWaiters(k)' <= WaitersPerKey
  PROVE  KeysBounded'
<1> SUFFICES ASSUME NEW j \in Keys, j # k PROVE KeyWaiters(j)' <= WaitersPerKey
  BY DEF KeysBounded
<1>1. KeyWaiters(j)' = KeyWaiters(j)
  BY Zenon DEF KeyWaiters
<1> QED
  BY <1>1 DEF IInv, KeysBounded

\* TakeTicket, shared by Acquire and Requeue: the new ticket is younger than
\* every other and its caller's own.
LEMMA TicketTaken ==
  ASSUME IInv, NEW c \in Callers, ~IsQueued(c), NEW k \in Keys,
         NEW until \in 0..MaxTime, NEW b \in BucketState,
         b.present, b.tickets = Queue(k),
         terminal_status = "ACQUIRED", next_ticket < MaxTicket,
         TakeTicket(c, k, b, until),
         UNCHANGED <<now, terminal_status, status, cancelled>>
  PROVE  /\ buckets' \in [Keys -> BucketState]
         /\ next_ticket' \in 1..MaxTicket
         /\ ticket' \in [Callers -> 0..MaxTicket]
         /\ quota' \in [Callers -> Keys]
         /\ deadline' \in [Callers -> 0..MaxTime]
         /\ pc' \in [Callers -> {"out"} \cup Owning \cup Queued]
         /\ \A d \in Callers : d # c => pc'[d] = pc[d] /\ quota'[d] = quota[d]
         /\ pc'[c] = "entering" /\ quota'[c] = k
         /\ \A j \in Keys : j # k => buckets'[j] = buckets[j]
         /\ buckets'[k].permitted = b.permitted
         /\ Len(buckets'[k].tickets) = Len(Queue(k)) + 1
         /\ (QueuesOrdered /\ TicketsDistinct /\ TicketsLive /\ TicketsOwned
               /\ BucketsKept)'
<1> USE DEF IsQueued, Queue
<1>1. \A t \in Tickets : Contains(Queue(k), t) => t < next_ticket
  BY DEF IInv, TicketsOwned, TicketsDistinct
<1>2. /\ Queue(k) \in Seq(Tickets) /\ Increasing(Queue(k))
      /\ next_ticket \in Tickets /\ next_ticket \in Nat
  <2>1. next_ticket \in 1..MaxTicket
    BY DEF IInv, TypeOK
  <2> QED
    BY <2>1, ShareBounded, CoordinatorAssumption DEF IInv, QueuesOrdered, Tickets
<1> DEFINE s == Append(Queue(k), next_ticket)
<1>3. /\ s \in Seq(Tickets) /\ s # <<>> /\ Increasing(s)
      /\ Len(s) = Len(Queue(k)) + 1
      /\ \A t : Contains(s, t) <=> Contains(Queue(k), t) \/ t = next_ticket
  BY <1>1, <1>2, PushBack
<1>4. /\ buckets' = [buckets EXCEPT ![k] = [b EXCEPT !.tickets = s]]
      /\ next_ticket' = next_ticket + 1
      /\ pc' = [pc EXCEPT ![c] = "entering"]
      /\ quota' = [quota EXCEPT ![c] = k]
      /\ ticket' = [ticket EXCEPT ![c] = next_ticket]
      /\ deadline' = [deadline EXCEPT ![c] = until]
  BY DEF TakeTicket
<1> HIDE DEF s
<1>5. /\ buckets \in [Keys -> BucketState]
      /\ pc \in [Callers -> {"out"} \cup Owning \cup Queued]
      /\ quota \in [Callers -> Keys]
      /\ ticket \in [Callers -> 0..MaxTicket]
      /\ deadline \in [Callers -> 0..MaxTime]
  BY DEF IInv, TypeOK
<1>6. /\ [b EXCEPT !.tickets = s] \in BucketState
      /\ [b EXCEPT !.tickets = s].tickets = s
      /\ [b EXCEPT !.tickets = s].permitted = b.permitted
      /\ [b EXCEPT !.tickets = s].present = b.present
  BY <1>3, QueueReplaced
<1>7. /\ buckets' \in [Keys -> BucketState]
      /\ \A j \in Keys : j # k => buckets'[j] = buckets[j]
      /\ buckets'[k].tickets = s
      /\ buckets'[k].permitted = b.permitted
      /\ buckets'[k].present = b.present
  BY <1>4, <1>5, <1>6
<1>8. /\ next_ticket' \in 1..MaxTicket
      /\ ticket' \in [Callers -> 0..MaxTicket]
      /\ quota' \in [Callers -> Keys]
      /\ deadline' \in [Callers -> 0..MaxTime]
      /\ pc' \in [Callers -> {"out"} \cup Owning \cup Queued]
  BY <1>2, <1>4, <1>5, CoordinatorAssumption DEF Tickets, Queued
<1>9. /\ \A d \in Callers : d # c => /\ pc'[d] = pc[d] /\ quota'[d] = quota[d]
                                     /\ ticket'[d] = ticket[d]
      /\ pc'[c] = "entering" /\ quota'[c] = k /\ ticket'[c] = next_ticket
  BY <1>4, <1>5
<1>10. QueuesOrdered'
  BY <1>3, <1>7 DEF IInv, QueuesOrdered
<1>11. TicketsDistinct'
  <2>1. \A d \in Callers : ticket[d] \in Nat /\ ticket[d] < next_ticket
    BY <1>5, CoordinatorAssumption DEF IInv, TicketsDistinct
  <2>2. \A d \in Callers : ticket'[d] < next_ticket'
    BY <1>2, <1>4, <1>9, <2>1
  <2>3. ASSUME NEW d \in Callers, NEW e \in Callers, pc'[d] \in Queued,
               pc'[e] \in Queued, ticket'[d] = ticket'[e]
        PROVE  d = e
    BY <1>2, <1>9, <2>1, <2>3 DEF IInv, TicketsDistinct
  <2> QED
    BY <2>2, <2>3 DEF TicketsDistinct
<1>12. TicketsLive'
  <2> SUFFICES ASSUME NEW d \in Callers, pc'[d] \in Queued
               PROVE  Contains(buckets'[quota'[d]].tickets, ticket'[d])
    BY DEF TicketsLive
  <2>1. CASE d = c
    BY <1>3, <1>7, <1>9, <2>1
  <2>2. CASE d # c
    <3>1. Contains(buckets[quota[d]].tickets, ticket[d]) /\ quota[d] \in Keys
      BY <1>5, <1>9, <2>2 DEF IInv, TicketsLive
    <3> QED
      BY <1>3, <1>7, <1>9, <2>2, <3>1
  <2> QED
    BY <2>1, <2>2
<1>13. TicketsOwned'
  <2> SUFFICES ASSUME NEW j \in Keys, NEW t \in Tickets,
                      Contains(buckets'[j].tickets, t)
               PROVE  \E d \in Callers :
                        pc'[d] \in Queued /\ quota'[d] = j /\ ticket'[d] = t
    BY DEF TicketsOwned
  <2>1. CASE j = k /\ t = next_ticket
    BY <1>9, <2>1 DEF Queued
  <2>2. CASE ~(j = k /\ t = next_ticket)
    <3>1. Contains(buckets[j].tickets, t)
      BY <1>3, <1>7, <2>2
    <3>2. PICK d \in Callers : pc[d] \in Queued /\ quota[d] = j /\ ticket[d] = t
      BY <3>1 DEF IInv, TicketsOwned
    <3> QED
      BY <1>9, <3>2
  <2> QED
    BY <2>1, <2>2
<1>14. BucketsKept'
  BY <1>3, <1>7 DEF IInv, BucketsKept
<1> QED
  BY <1>3, <1>7, <1>8, <1>9, <1>10, <1>11, <1>12, <1>13, <1>14

-----------------------------------------------------------------------------
(* The actions *)

\* Acquire on a coordinator with room: one more caller waits, within the limits.
LEMMA EnqueueStep ==
  ASSUME IInv, NEW c \in Callers, NEW k \in Keys, NEW e \in EligibleTimes,
         NEW d \in Deadlines, Enqueue(c, k, e, d)
  PROVE  IInv'
<1> DEFINE b == IF buckets[k].present
                THEN Extended(buckets[k], e)
                ELSE [NoBucket EXCEPT !.present = TRUE, !.eligible = e]
<1>1. e \in Nat /\ d \in 0..MaxTime
  BY CoordinatorAssumption
<1>2. buckets[k] \in BucketState /\ Queue(k) \in Seq(Tickets)
  BY ShareBounded
<1>3. b \in BucketState /\ b.present /\ b.tickets = Queue(k)
      /\ b.permitted = buckets[k].permitted
  <2>1. CASE buckets[k].present
    BY <1>1, <1>2, <2>1, ExtendedBucket DEF Queue
  <2>2. CASE ~buckets[k].present
    <3> DEFINE n == [NoBucket EXCEPT !.present = TRUE, !.eligible = e]
    <3>1. n \in BucketState /\ n.present = TRUE /\ n.tickets = <<>> /\ n.permitted = FALSE
      BY <1>1, EmptyQueue DEF NoBucket, BucketState, Tickets
    <3>2. ~buckets[k].permitted /\ Queue(k) = <<>>
      BY <2>2 DEF IInv, BucketsKept
    <3>3. buckets[k].permitted = FALSE
      BY <1>2, <3>2 DEF BucketState
    <3>4. b = n
      BY <2>2
    <3> HIDE DEF n, b
    <3> QED
      BY <3>1, <3>2, <3>3, <3>4
  <2> QED
    BY <2>1, <2>2
<1>4. /\ pc[c] = "out" /\ terminal_status = "ACQUIRED" /\ next_ticket < MaxTicket
      /\ TakeTicket(c, k, b, d) /\ total_waiters' = total_waiters + 1
      /\ KeyWaiters(k) < WaitersPerKey /\ total_waiters < TotalWaiters
      /\ UNCHANGED <<now, terminal_status, status, cancelled>>
  <2>1. ~(KeyWaiters(k) >= WaitersPerKey) /\ ~(total_waiters >= TotalWaiters)
    BY DEF Enqueue, Saturated
  <2>2. KeyWaiters(k) \in Nat /\ total_waiters \in Nat
    <3>1. KeyWaiters(k) = Len(Queue(k)) + PermitUnit(k)
      BY KeyWaitersIs
    <3>2. Len(Queue(k)) \in Nat /\ PermitUnit(k) \in {0, 1}
      BY ShareBounded
    <3>3. total_waiters \in Nat
      BY DEF IInv, TypeOK
    <3> QED
      BY <3>1, <3>2, <3>3
  <2>3. terminal_status = "ACQUIRED"
    BY DEF Enqueue, CanEnter, EntryStatus
  <2> QED
    BY <2>1, <2>2, <2>3, CoordinatorAssumption DEF Enqueue, CanEnter
<1> HIDE DEF b
<1>5. ~IsQueued(c) /\ ~IsOwning(c)
  BY <1>4 DEF IsQueued, IsOwning, Queued, Owning
<1>6. /\ buckets' \in [Keys -> BucketState]
      /\ next_ticket' \in 1..MaxTicket
      /\ ticket' \in [Callers -> 0..MaxTicket]
      /\ quota' \in [Callers -> Keys]
      /\ deadline' \in [Callers -> 0..MaxTime]
      /\ pc' \in [Callers -> {"out"} \cup Owning \cup Queued]
      /\ \A x \in Callers : x # c => pc'[x] = pc[x] /\ quota'[x] = quota[x]
      /\ pc'[c] = "entering" /\ quota'[c] = k
      /\ \A j \in Keys : j # k => buckets'[j] = buckets[j]
      /\ buckets'[k].permitted = b.permitted
      /\ Len(buckets'[k].tickets) = Len(Queue(k)) + 1
      /\ (QueuesOrdered /\ TicketsDistinct /\ TicketsLive /\ TicketsOwned
            /\ BucketsKept)'
  BY <1>1, <1>3, <1>4, <1>5, TicketTaken
<1>7. PermitsOwned'
  <2>1. /\ \A x \in Callers : IsOwning(x)' <=> IsOwning(x)
        /\ \A x \in Callers : IsOwning(x) => quota'[x] = quota[x] /\ quota[x] \in Keys
        /\ \A j \in Keys : buckets'[j].permitted = buckets[j].permitted
    BY <1>3, <1>5, <1>6 DEF IsOwning, Owning, IInv, TypeOK
  <2> QED
    BY <2>1 DEF IInv, PermitsOwned
<1>8. WaitersCounted' /\ total_waiters' \in Nat
  <2>1. Counted' = Counted \cup {c} /\ c \notin Counted
    BY <1>4, <1>6 DEF Counted, Queued, Owning
  <2>2. Cardinality(Counted') = Cardinality(Counted) + 1
    BY <2>1, CountedFinite, FS_AddElement
  <2> QED
    BY <1>4, <2>2, CountedFinite, CoordinatorAssumption DEF IInv, WaitersCounted
<1>9. KeysBounded'
  <2>1. PermitUnit(k)' = PermitUnit(k)
    BY <1>3, <1>6, Zenon DEF PermitUnit
  <2>2. /\ KeyWaiters(k) = Len(Queue(k)) + PermitUnit(k)
        /\ KeyWaiters(k)' = Len(buckets'[k].tickets) + PermitUnit(k)'
    BY KeyWaitersIs
  <2>3. KeyWaiters(k)' <= WaitersPerKey
    BY <1>4, <1>6, <2>1, <2>2, ShareBounded, CoordinatorAssumption
  <2> QED
    BY <1>6, <2>3, OtherSharesKept
<1>10. TypeOK'
  BY <1>4, <1>6, <1>8 DEF IInv, TypeOK
<1> QED
  BY <1>6, <1>7, <1>8, <1>9, <1>10 DEF IInv

\* Requeue: the permit becomes a ticket at the tail of the same key's queue, so
\* that the counts stay.
LEMMA RequeueStep ==
  ASSUME IInv, NEW c \in Callers, NEW e \in EligibleTimes, NEW d \in Deadlines,
         RequeueAtTail(c, e, d)
  PROVE  IInv'
<1>0. PICK k \in Keys : k = quota[c]
  BY DEF IInv, TypeOK
<1> DEFINE b == [Extended(buckets[k], e) EXCEPT !.permitted = FALSE]
<1>1. e \in Nat /\ d \in 0..MaxTime /\ k \in Keys
  BY CoordinatorAssumption
<1>2. /\ pc[c] = "held" /\ terminal_status = "ACQUIRED" /\ next_ticket < MaxTicket
      /\ TakeTicket(c, k, b, d)
      /\ UNCHANGED <<now, terminal_status, total_waiters, status, cancelled>>
  BY <1>0 DEF RequeueAtTail, CanRequeue, EntryStatus
<1>3. ~IsQueued(c) /\ IsOwning(c)
  BY <1>2 DEF IsQueued, IsOwning, Queued, Owning
<1>4. buckets[k] \in BucketState /\ Queue(k) \in Seq(Tickets)
  BY <1>1, ShareBounded
<1>5. buckets[k].permitted /\ buckets[k].present
  BY <1>0, <1>3 DEF IInv, PermitsOwned, BucketsKept
<1>6. b \in BucketState /\ b.present /\ b.tickets = Queue(k) /\ b.permitted = FALSE
  <2> DEFINE x == Extended(buckets[k], e)
  <2>1. /\ x \in BucketState /\ x.tickets = Queue(k)
        /\ x.permitted = buckets[k].permitted /\ x.present = buckets[k].present
    BY <1>1, <1>4, ExtendedBucket DEF Queue
  <2> HIDE DEF x
  <2>2. /\ [x EXCEPT !.permitted = FALSE] \in BucketState
        /\ [x EXCEPT !.permitted = FALSE].tickets = x.tickets
        /\ [x EXCEPT !.permitted = FALSE].permitted = FALSE
        /\ [x EXCEPT !.permitted = FALSE].present = x.present
    BY <2>1, PermitReplaced
  <2> QED
    BY <1>5, <2>1, <2>2 DEF x
<1> HIDE DEF b
<1>7. /\ buckets' \in [Keys -> BucketState]
      /\ next_ticket' \in 1..MaxTicket
      /\ ticket' \in [Callers -> 0..MaxTicket]
      /\ quota' \in [Callers -> Keys]
      /\ deadline' \in [Callers -> 0..MaxTime]
      /\ pc' \in [Callers -> {"out"} \cup Owning \cup Queued]
      /\ \A x \in Callers : x # c => pc'[x] = pc[x] /\ quota'[x] = quota[x]
      /\ pc'[c] = "entering" /\ quota'[c] = k
      /\ \A j \in Keys : j # k => buckets'[j] = buckets[j]
      /\ buckets'[k].permitted = b.permitted
      /\ Len(buckets'[k].tickets) = Len(Queue(k)) + 1
      /\ (QueuesOrdered /\ TicketsDistinct /\ TicketsLive /\ TicketsOwned
            /\ BucketsKept)'
  BY <1>1, <1>2, <1>3, <1>6, TicketTaken
<1>8. PermitsOwned'
  <2>1. /\ \A x \in Callers : IsOwning(x)' <=> IsOwning(x) /\ x # c
        /\ \A x \in Callers : x # c => quota'[x] = quota[x] /\ quota[x] \in Keys
        /\ \A j \in Keys : j # k => buckets'[j].permitted = buckets[j].permitted
        /\ ~buckets'[k].permitted
    BY <1>6, <1>7 DEF IsOwning, Owning, IInv, TypeOK
  <2>2. \A x \in Callers : IsOwning(x) /\ x # c => quota[x] # k
    BY <1>0, <1>3 DEF IInv, PermitsOwned
  <2>3. \A x \in Callers : IsOwning(x)' => buckets'[quota'[x]].permitted
    BY <2>1, <2>2 DEF IInv, PermitsOwned
  <2>4. \A j \in Keys : buckets'[j].permitted =>
          \E x \in Callers : IsOwning(x)' /\ quota'[x] = j
    BY <1>0, <2>1 DEF IInv, PermitsOwned
  <2>5. \A x, y \in Callers :
          IsOwning(x)' /\ IsOwning(y)' /\ quota'[x] = quota'[y] => x = y
    BY <2>1 DEF IInv, PermitsOwned
  <2> QED
    BY <2>3, <2>4, <2>5 DEF PermitsOwned
<1>9. WaitersCounted'
  <2>1. Counted' = Counted
    BY <1>2, <1>7 DEF Counted, Queued, Owning
  <2> QED
    BY <1>2, <2>1 DEF IInv, WaitersCounted
<1>10. KeysBounded'
  <2>1. PermitUnit(k)' = 0 /\ PermitUnit(k) = 1
    BY <1>5, <1>6, <1>7, KeyWaitersIs
  <2>2. KeyWaiters(k)' = Len(buckets'[k].tickets) + PermitUnit(k)'
    BY KeyWaitersIs
  <2>3. KeyWaiters(k)' <= WaitersPerKey
    BY <1>1, <1>7, <2>1, <2>2, ShareBounded, CoordinatorAssumption
  <2> QED
    BY <1>1, <1>7, <2>3, OtherSharesKept
<1>11. TypeOK'
  BY <1>2, <1>7 DEF IInv, TypeOK
<1> QED
  BY <1>7, <1>8, <1>9, <1>10, <1>11 DEF IInv

\* A caller that leaves its queue gives back its ticket and its slot, and nobody
\* else's: CANCELLED, DEADLINE_REACHED and an exception while open.
LEMMA LeaveOpen ==
  ASSUME IInv, NEW c \in Callers, IsQueued(c), terminal_status = "ACQUIRED",
         NEW s \in Statuses, Leave(c, s)
  PROVE  IInv'
<1> USE DEF IsQueued, Queue
<1>0. PICK k \in Keys : k = quota[c]
  BY DEF IInv, TypeOK
<1>1. PICK t : t = ticket[c]
  OBVIOUS
<1>2. /\ buckets[k] \in BucketState /\ Queue(k) \in Seq(Tickets)
      /\ Increasing(Queue(k))
  BY ShareBounded DEF IInv, QueuesOrdered
<1>3. Contains(Queue(k), t)
  BY <1>0, <1>1 DEF IInv, TicketsLive
<1> DEFINE w == Without(Queue(k), t)
           b == [buckets[k] EXCEPT !.tickets = w]
<1>4. /\ w \in Seq(Tickets) /\ Increasing(w) /\ Len(w) = Len(Queue(k)) - 1
      /\ \A u : Contains(w, u) <=> Contains(Queue(k), u) /\ u # t
  BY <1>2, <1>3, FindAndErase
<1>5. /\ buckets' = [buckets EXCEPT ![k] = Kept(b)]
      /\ total_waiters' = total_waiters - 1
      /\ pc' = [pc EXCEPT ![c] = "out"]
      /\ quota' = [quota EXCEPT ![c] = AnyKey]
      /\ ticket' = [ticket EXCEPT ![c] = 0]
      /\ deadline' = [deadline EXCEPT ![c] = 0]
      /\ status' = [status EXCEPT ![c] = s]
      /\ UNCHANGED <<now, terminal_status, next_ticket, cancelled>>
  BY <1>0, <1>1, <1>3 DEF Leave, EraseTicketLocked, Return
<1> HIDE DEF w
<1>6. /\ b \in BucketState /\ b.tickets = w
      /\ b.permitted = buckets[k].permitted /\ b.present = buckets[k].present
  BY <1>2, <1>4, QueueReplaced
<1>7. buckets[k].present
  BY <1>2, <1>3, EmptyQueue DEF IInv, BucketsKept, Contains
<1> HIDE DEF b
<1>8. /\ Kept(b) \in BucketState /\ Kept(b).tickets = w
      /\ Kept(b).permitted = buckets[k].permitted
      /\ Kept(b).present <=> (buckets[k].permitted \/ w # <<>>)
  BY <1>6, <1>7, KeptBucket
<1>9. /\ buckets' \in [Keys -> BucketState]
      /\ \A j \in Keys : j # k => buckets'[j] = buckets[j]
      /\ buckets'[k].tickets = w
      /\ buckets'[k].permitted = buckets[k].permitted
      /\ buckets'[k].present <=> (buckets[k].permitted \/ w # <<>>)
  <2>1. buckets \in [Keys -> BucketState]
    BY DEF IInv, TypeOK
  <2> QED
    BY <1>5, <1>8, <2>1
<1>10. AnyKey \in Keys
  BY CoordinatorAssumption DEF AnyKey
<1>11. /\ pc \in [Callers -> {"out"} \cup Owning \cup Queued]
       /\ quota \in [Callers -> Keys]
       /\ ticket \in [Callers -> 0..MaxTicket]
       /\ next_ticket \in 1..MaxTicket
  BY DEF IInv, TypeOK
<1>12. /\ \A d \in Callers : d # c => /\ pc'[d] = pc[d] /\ quota'[d] = quota[d]
                                      /\ ticket'[d] = ticket[d]
       /\ pc'[c] = "out" /\ ticket'[c] = 0
       /\ pc'[c] \notin Queued /\ pc'[c] \notin Owning
  BY <1>5, <1>11 DEF Queued, Owning
<1>13. QueuesOrdered'
  BY <1>4, <1>9 DEF IInv, QueuesOrdered
<1>14. TicketsDistinct'
  BY <1>5, <1>11, <1>12, CoordinatorAssumption DEF IInv, TicketsDistinct
<1>15. TicketsLive'
  <2> SUFFICES ASSUME NEW d \in Callers, pc'[d] \in Queued
               PROVE  Contains(buckets'[quota'[d]].tickets, ticket'[d])
    BY DEF TicketsLive
  <2>1. d # c /\ pc[d] \in Queued /\ ticket[d] # t /\ quota[d] \in Keys
    BY <1>1, <1>11, <1>12 DEF IInv, TicketsDistinct
  <2>2. Contains(buckets[quota[d]].tickets, ticket[d])
    BY <2>1 DEF IInv, TicketsLive
  <2> QED
    BY <1>4, <1>9, <1>12, <2>1, <2>2
<1>16. TicketsOwned'
  <2> SUFFICES ASSUME NEW j \in Keys, NEW u \in Tickets,
                      Contains(buckets'[j].tickets, u)
               PROVE  \E d \in Callers :
                        pc'[d] \in Queued /\ quota'[d] = j /\ ticket'[d] = u
    BY <1>5 DEF TicketsOwned
  <2>1. Contains(buckets[j].tickets, u) /\ (j = k => u # t)
    BY <1>4, <1>9
  <2>2. PICK d \in Callers : pc[d] \in Queued /\ quota[d] = j /\ ticket[d] = u
    BY <2>1 DEF IInv, TicketsOwned
  <2>3. d # c
    BY <1>0, <1>1, <2>1, <2>2
  <2> QED
    BY <1>12, <2>2, <2>3
<1>17. BucketsKept'
  BY <1>9 DEF IInv, BucketsKept
<1>18. PermitsOwned'
  <2>1. /\ \A x \in Callers : IsOwning(x)' <=> IsOwning(x)
        /\ \A x \in Callers : IsOwning(x) => quota'[x] = quota[x] /\ quota[x] \in Keys
        /\ \A j \in Keys : buckets'[j].permitted = buckets[j].permitted
    BY <1>9, <1>11, <1>12 DEF IsOwning, Owning, Queued
  <2> QED
    BY <2>1 DEF IInv, PermitsOwned
<1>19. WaitersCounted' /\ total_waiters' \in Nat
  <2>1. Counted' = Counted \ {c} /\ c \in Counted
    BY <1>5, <1>12 DEF Counted
  <2>2. Cardinality(Counted') = Cardinality(Counted) - 1
    BY <2>1, CountedFinite, FS_RemoveElement
  <2> QED
    BY <1>5, <2>2, CountedFinite, CoordinatorAssumption DEF IInv, WaitersCounted
<1>20. KeysBounded'
  <2>1. PermitUnit(k)' = PermitUnit(k)
    BY <1>9, Zenon DEF PermitUnit
  <2>2. KeyWaiters(k)' = Len(buckets'[k].tickets) + PermitUnit(k)'
    BY KeyWaitersIs
  <2>3. /\ Len(Queue(k)) \in Nat /\ PermitUnit(k) \in {0, 1}
        /\ Len(Queue(k)) + PermitUnit(k) <= WaitersPerKey
    BY ShareBounded
  <2>4. KeyWaiters(k)' <= WaitersPerKey
    BY <1>4, <1>9, <2>1, <2>2, <2>3, CoordinatorAssumption
  <2> QED
    BY <1>9, <2>4, OtherSharesKept
<1>21. TypeOK'
  <2>1. 0 \in 0..MaxTime /\ 0 \in 0..MaxTicket
    BY CoordinatorAssumption
  <2> QED
    BY <1>5, <1>9, <1>10, <1>19, <2>1 DEF IInv, TypeOK
<1> QED
  BY <1>13, <1>14, <1>15, <1>16, <1>17, <1>18, <1>19, <1>20, <1>21 DEF IInv

\* A caller that finds the coordinator terminal has lost its ticket already.
LEMMA ReturnClosed ==
  ASSUME IInv, NEW c \in Callers, IsQueued(c), terminal_status # "ACQUIRED",
         NEW s \in Statuses, Return(c, s),
         UNCHANGED <<now, terminal_status, next_ticket, total_waiters, buckets,
                     cancelled>>
  PROVE  IInv'
<1> USE DEF IsQueued, IsOwning, Queue
<1>1. AnyKey \in Keys
  BY CoordinatorAssumption DEF AnyKey
<1>2. /\ pc' = [pc EXCEPT ![c] = "out"]
      /\ quota' = [quota EXCEPT ![c] = AnyKey]
      /\ ticket' = [ticket EXCEPT ![c] = 0]
      /\ deadline' = [deadline EXCEPT ![c] = 0]
      /\ status' = [status EXCEPT ![c] = s]
  BY DEF Return
<1>3. /\ pc \in [Callers -> {"out"} \cup Owning \cup Queued]
      /\ quota \in [Callers -> Keys]
      /\ ticket \in [Callers -> 0..MaxTicket]
      /\ next_ticket \in 1..MaxTicket
  BY DEF IInv, TypeOK
<1>4. /\ \A d \in Callers : d # c => /\ pc'[d] = pc[d] /\ quota'[d] = quota[d]
                                     /\ ticket'[d] = ticket[d]
      /\ pc'[c] = "out" /\ ticket'[c] = 0
      /\ pc'[c] \notin Queued /\ pc'[c] \notin Owning /\ pc[c] \notin Owning
  BY <1>2, <1>3 DEF Queued, Owning
<1>5. QueuesOrdered' /\ TicketsLive' /\ TicketsOwned' /\ BucketsKept'
  BY DEF IInv, QueuesOrdered, TicketsLive, TicketsOwned, BucketsKept
<1>6. TicketsDistinct'
  BY <1>3, <1>4, CoordinatorAssumption DEF IInv, TicketsDistinct
<1>7. PermitsOwned'
  BY <1>4 DEF IInv, PermitsOwned
<1>8. WaitersCounted'
  <2>1. Counted' = Counted
    BY <1>4 DEF Counted
  <2> QED
    BY <2>1 DEF IInv, WaitersCounted
<1>9. KeysBounded'
  BY DEF IInv, KeysBounded, KeyWaiters
<1>10. TypeOK'
  <2>1. 0 \in 0..MaxTime /\ 0 \in 0..MaxTicket
    BY CoordinatorAssumption
  <2> QED
    BY <1>1, <1>2, <2>1 DEF IInv, TypeOK
<1> QED
  BY <1>5, <1>6, <1>7, <1>8, <1>9, <1>10 DEF IInv

\* The first caller of a queue whose permit is free becomes its owner: its
\* ticket turns into the permit and the counts stay.
LEMMA TakePermitStep ==
  ASSUME IInv, NEW c \in Callers, TakePermit(c)
  PROVE  IInv'
<1> USE DEF IsQueued, IsOwning, Queue
<1>0. PICK k \in Keys : k = quota[c]
  BY DEF IInv, TypeOK
<1>1. PICK t : t = ticket[c]
  OBVIOUS
<1>2. /\ pc[c] \in Queued /\ terminal_status = "ACQUIRED"
      /\ ~buckets[k].permitted /\ Queue(k) # <<>> /\ Head(Queue(k)) = t
      /\ buckets' = [buckets EXCEPT ![k].tickets = Tail(@), ![k].permitted = TRUE]
      /\ pc' = [pc EXCEPT ![c] = "held"]
      /\ status' = [status EXCEPT ![c] = "ACQUIRED"]
      /\ ticket' = [ticket EXCEPT ![c] = 0]
      /\ deadline' = [deadline EXCEPT ![c] = 0]
      /\ UNCHANGED <<now, terminal_status, next_ticket, total_waiters, quota,
                     cancelled>>
  BY <1>0, <1>1 DEF TakePermit, Open, Running, MayTakePermit, Queued
<1>3. /\ buckets[k] \in BucketState /\ Queue(k) \in Seq(Tickets)
      /\ Increasing(Queue(k)) /\ buckets \in [Keys -> BucketState]
  BY ShareBounded DEF IInv, QueuesOrdered, TypeOK
<1> DEFINE r == Tail(Queue(k))
<1>4. /\ r \in Seq(Tickets) /\ Increasing(r) /\ Len(r) = Len(Queue(k)) - 1
      /\ \A u : Contains(r, u) <=> Contains(Queue(k), u) /\ u # t
  BY <1>2, <1>3, PopFront
<1>5. /\ buckets' \in [Keys -> BucketState]
      /\ \A j \in Keys : j # k => buckets'[j] = buckets[j]
      /\ buckets'[k].tickets = r
      /\ buckets'[k].permitted = TRUE
      /\ buckets'[k].present = buckets[k].present
  BY <1>2, <1>3, <1>4 DEF BucketState, Tickets
<1> HIDE DEF r
<1>6. /\ pc \in [Callers -> {"out"} \cup Owning \cup Queued]
      /\ quota \in [Callers -> Keys]
      /\ ticket \in [Callers -> 0..MaxTicket]
      /\ next_ticket \in 1..MaxTicket
  BY DEF IInv, TypeOK
<1>7. /\ \A d \in Callers : d # c => pc'[d] = pc[d] /\ ticket'[d] = ticket[d]
      /\ pc'[c] = "held" /\ ticket'[c] = 0
      /\ pc'[c] \notin Queued /\ pc'[c] \in Owning /\ pc[c] \notin Owning
  BY <1>2, <1>6 DEF Queued, Owning
<1>8. QueuesOrdered'
  BY <1>4, <1>5 DEF IInv, QueuesOrdered
<1>9. TicketsDistinct'
  BY <1>2, <1>6, <1>7, CoordinatorAssumption DEF IInv, TicketsDistinct
<1>10. TicketsLive'
  <2> SUFFICES ASSUME NEW d \in Callers, pc'[d] \in Queued
               PROVE  Contains(buckets'[quota[d]].tickets, ticket'[d])
    BY <1>2 DEF TicketsLive
  <2>1. d # c /\ pc[d] \in Queued /\ ticket[d] # t /\ quota[d] \in Keys
    BY <1>1, <1>2, <1>6, <1>7 DEF IInv, TicketsDistinct
  <2>2. Contains(buckets[quota[d]].tickets, ticket[d])
    BY <1>2, <2>1 DEF IInv, TicketsLive
  <2> QED
    BY <1>4, <1>5, <1>7, <2>1, <2>2
<1>11. TicketsOwned'
  <2> SUFFICES ASSUME NEW j \in Keys, NEW u \in Tickets,
                      Contains(buckets'[j].tickets, u)
               PROVE  \E d \in Callers :
                        pc'[d] \in Queued /\ quota[d] = j /\ ticket'[d] = u
    BY <1>2 DEF TicketsOwned
  <2>1. Contains(buckets[j].tickets, u) /\ (j = k => u # t)
    BY <1>4, <1>5
  <2>2. PICK d \in Callers : pc[d] \in Queued /\ quota[d] = j /\ ticket[d] = u
    BY <2>1 DEF IInv, TicketsOwned
  <2>3. d # c
    BY <1>0, <1>1, <2>1, <2>2
  <2> QED
    BY <1>7, <2>2, <2>3
<1>12. BucketsKept'
  <2>1. buckets[k].present
    BY <1>2 DEF IInv, BucketsKept
  <2> QED
    BY <1>5, <2>1 DEF IInv, BucketsKept
<1>13. PermitsOwned'
  <2>1. \A x \in Callers : pc[x] \in Owning => quota[x] # k
    BY <1>2 DEF IInv, PermitsOwned
  <2>2. \A x \in Callers : pc'[x] \in Owning => buckets'[quota[x]].permitted
    BY <1>0, <1>5, <1>6, <1>7 DEF IInv, PermitsOwned
  <2>3. \A j \in Keys : buckets'[j].permitted =>
          \E x \in Callers : pc'[x] \in Owning /\ quota[x] = j
    BY <1>0, <1>5, <1>7 DEF IInv, PermitsOwned
  <2>4. \A x, y \in Callers :
          pc'[x] \in Owning /\ pc'[y] \in Owning /\ quota[x] = quota[y] => x = y
    BY <1>0, <1>7, <2>1 DEF IInv, PermitsOwned
  <2> QED
    BY <1>2, <2>2, <2>3, <2>4 DEF PermitsOwned
<1>14. WaitersCounted'
  <2>1. Counted' = Counted
    BY <1>2, <1>7 DEF Counted
  <2> QED
    BY <1>2, <2>1 DEF IInv, WaitersCounted
<1>15. KeysBounded'
  <2>1. PermitUnit(k)' = 1 /\ PermitUnit(k) = 0
    BY <1>2, <1>5, KeyWaitersIs
  <2>2. KeyWaiters(k)' = Len(buckets'[k].tickets) + PermitUnit(k)'
    BY KeyWaitersIs
  <2>3. /\ Len(Queue(k)) \in Nat
        /\ Len(Queue(k)) + PermitUnit(k) <= WaitersPerKey
    BY ShareBounded
  <2>4. KeyWaiters(k)' <= WaitersPerKey
    BY <1>4, <1>5, <2>1, <2>2, <2>3, CoordinatorAssumption
  <2> QED
    BY <1>5, <2>4, OtherSharesKept
<1>16. TypeOK'
  <2>1. 0 \in 0..MaxTime /\ 0 \in 0..MaxTicket
    BY CoordinatorAssumption
  <2> QED
    BY <1>2, <1>5, <2>1 DEF IInv, TypeOK, Owning, Statuses
<1> QED
  BY <1>8, <1>9, <1>10, <1>11, <1>12, <1>13, <1>14, <1>15, <1>16 DEF IInv

\* Complete gives back the one permit of its key and its slot, before and after
\* a close.
LEMMA GiveBackStep ==
  ASSUME IInv, NEW c \in Callers, IsOwning(c), GiveBack(c)
  PROVE  IInv'
<1> USE DEF IsQueued, IsOwning, Queue
<1>0. PICK k \in Keys : k = quota[c]
  BY DEF IInv, TypeOK
<1>1. buckets[k].permitted /\ buckets[k].present
  BY <1>0 DEF IInv, PermitsOwned, BucketsKept
<1> DEFINE b == [buckets[k] EXCEPT !.permitted = FALSE]
<1>2. /\ buckets' = [buckets EXCEPT ![k] = Kept(b)]
      /\ total_waiters' = total_waiters - 1
      /\ pc' = [pc EXCEPT ![c] = "out"]
      /\ quota' = [quota EXCEPT ![c] = AnyKey]
      /\ UNCHANGED <<now, terminal_status, next_ticket, status, ticket,
                     deadline, cancelled>>
  BY <1>0, <1>1 DEF GiveBack
<1>3. /\ buckets[k] \in BucketState /\ Queue(k) \in Seq(Tickets)
      /\ buckets \in [Keys -> BucketState]
  BY ShareBounded DEF IInv, TypeOK
<1>4. /\ b \in BucketState /\ b.tickets = Queue(k)
      /\ b.permitted = FALSE /\ b.present = buckets[k].present
  BY <1>3, PermitReplaced
<1> HIDE DEF b
<1>5. /\ Kept(b) \in BucketState /\ Kept(b).tickets = Queue(k)
      /\ Kept(b).permitted = FALSE
      /\ Kept(b).present <=> Queue(k) # <<>>
  BY <1>1, <1>4, KeptBucket
<1>6. /\ buckets' \in [Keys -> BucketState]
      /\ \A j \in Keys : j # k => buckets'[j] = buckets[j]
      /\ buckets'[k].tickets = buckets[k].tickets
      /\ buckets'[k].permitted = FALSE
      /\ buckets'[k].present <=> buckets[k].tickets # <<>>
  BY <1>2, <1>3, <1>5
<1>7. AnyKey \in Keys
  BY CoordinatorAssumption DEF AnyKey
<1>8. /\ pc \in [Callers -> {"out"} \cup Owning \cup Queued]
      /\ quota \in [Callers -> Keys]
  BY DEF IInv, TypeOK
<1>9. /\ \A d \in Callers : d # c => pc'[d] = pc[d] /\ quota'[d] = quota[d]
      /\ pc'[c] = "out"
      /\ pc'[c] \notin Queued /\ pc'[c] \notin Owning /\ pc[c] \notin Queued
  BY <1>2, <1>8 DEF Queued, Owning
<1>10. QueuesOrdered'
  BY <1>6 DEF IInv, QueuesOrdered
<1>11. TicketsDistinct'
  BY <1>2, <1>9 DEF IInv, TicketsDistinct
<1>12. \A j \in Keys : buckets'[j].tickets = buckets[j].tickets
  BY <1>6
<1>13. TicketsLive'
  BY <1>2, <1>8, <1>9, <1>12 DEF IInv, TicketsLive
<1>14. TicketsOwned'
  BY <1>2, <1>9, <1>12 DEF IInv, TicketsOwned
<1>15. BucketsKept'
  BY <1>6 DEF IInv, BucketsKept
<1>16. PermitsOwned'
  <2>1. \A x \in Callers : pc[x] \in Owning /\ x # c => quota[x] # k
    BY <1>0 DEF IInv, PermitsOwned
  <2>2. \A x \in Callers : pc'[x] \in Owning => buckets'[quota'[x]].permitted
    BY <1>6, <1>8, <1>9, <2>1 DEF IInv, PermitsOwned
  <2>3. \A j \in Keys : buckets'[j].permitted =>
          \E x \in Callers : pc'[x] \in Owning /\ quota'[x] = j
    BY <1>0, <1>6, <1>9 DEF IInv, PermitsOwned
  <2>4. \A x, y \in Callers :
          pc'[x] \in Owning /\ pc'[y] \in Owning /\ quota'[x] = quota'[y] => x = y
    BY <1>9 DEF IInv, PermitsOwned
  <2> QED
    BY <2>2, <2>3, <2>4 DEF PermitsOwned
<1>17. WaitersCounted' /\ total_waiters' \in Nat
  <2>1. Counted' = Counted \ {c} /\ c \in Counted
    BY <1>2, <1>9 DEF Counted
  <2>2. Cardinality(Counted') = Cardinality(Counted) - 1
    BY <2>1, CountedFinite, FS_RemoveElement
  <2> QED
    BY <1>2, <2>2, CountedFinite, CoordinatorAssumption DEF IInv, WaitersCounted
<1>18. KeysBounded'
  <2>1. PermitUnit(k)' = 0
    BY <1>6, KeyWaitersIs
  <2>2. KeyWaiters(k)' = Len(buckets'[k].tickets) + PermitUnit(k)'
    BY KeyWaitersIs
  <2>3. /\ Len(Queue(k)) \in Nat /\ PermitUnit(k) \in {0, 1}
        /\ Len(Queue(k)) + PermitUnit(k) <= WaitersPerKey
    BY ShareBounded
  <2>4. KeyWaiters(k)' <= WaitersPerKey
    BY <1>6, <2>1, <2>2, <2>3, CoordinatorAssumption
  <2> QED
    BY <1>6, <2>4, OtherSharesKept
<1>19. TypeOK'
  BY <1>2, <1>6, <1>7, <1>17 DEF IInv, TypeOK
<1> QED
  BY <1>10, <1>11, <1>13, <1>14, <1>15, <1>16, <1>17, <1>18, <1>19 DEF IInv

\* An exception of the clock or of the wait leaves as a cancellation does; on a
\* closed coordinator there is no ticket to erase, even if the bucket is still
\* there for the sake of its permit.
LEMMA WaitThrowsStep ==
  ASSUME IInv, NEW c \in Callers, WaitThrows(c)
  PROVE  IInv'
<1>0. PICK k \in Keys : k = quota[c]
  BY DEF IInv, TypeOK
<1>1. IsQueued(c) /\ "THREW" \in Statuses
  BY DEF WaitThrows, Running, IsQueued, Queued, Statuses
<1>2. CASE terminal_status = "ACQUIRED"
  <2>1. Contains(Queue(k), ticket[c])
    BY <1>0, <1>1, <1>2 DEF IInv, TicketsLive
  <2>2. buckets[k].present
    BY <2>1, EmptyQueue DEF IInv, BucketsKept, Contains
  <2>3. Leave(c, "THREW")
    BY <1>0, <2>2 DEF WaitThrows
  <2> QED
    BY <1>1, <1>2, <2>3, LeaveOpen
<1>3. CASE terminal_status # "ACQUIRED"
  <2>1. buckets[k] \in BucketState /\ Queue(k) \in Seq(Tickets)
    BY ShareBounded
  <2>2. \A t \in Tickets : ~Contains(Queue(k), t)
    BY <1>3 DEF IInv, TicketsOwned
  <2>3. Queue(k) = <<>>
    BY <2>1, <2>2, EmptyQueue
  <2>4. ~Contains(Queue(k), ticket[c])
    BY <2>3, EmptyQueue
  <2>5. ASSUME buckets[k].present, Leave(c, "THREW")
        PROVE  UNCHANGED <<buckets, total_waiters>>
    <3>1. Without(buckets[k].tickets, ticket[c]) = buckets[k].tickets
      BY <2>4 DEF Without, Queue
    <3>2. [buckets[k] EXCEPT !.tickets = Without(@, ticket[c])] = buckets[k]
      BY <2>1, <3>1 DEF BucketState
    <3>3. buckets[k].permitted
      BY <2>3, <2>5 DEF IInv, BucketsKept
    <3>4. Kept(buckets[k]) = buckets[k]
      BY <3>3 DEF Kept
    <3>5. /\ buckets' = [buckets EXCEPT ![k] =
                           Kept([buckets[k] EXCEPT !.tickets = Without(@, ticket[c])])]
          /\ total_waiters' = total_waiters
      BY <1>0, <2>4, <2>5 DEF Leave, EraseTicketLocked, Queue
    <3>6. buckets \in [Keys -> BucketState]
      BY DEF IInv, TypeOK
    <3> QED
      BY <3>2, <3>4, <3>5, <3>6
  <2>6. /\ Return(c, "THREW")
        /\ UNCHANGED <<now, terminal_status, next_ticket, total_waiters, buckets,
                       cancelled>>
    BY <1>0, <2>5 DEF WaitThrows, Leave
  <2> QED
    BY <1>1, <1>3, <2>6, ReturnClosed
<1> QED
  BY <1>2, <1>3

\* EntryStatus is a status a call may return.
LEMMA EntryStatusType ==
  ASSUME IInv, NEW c
  PROVE  EntryStatus(c) \in Statuses
BY DEF IInv, TypeOK, EntryStatus, Statuses

\* Announcing guidance keeps queues and permits, for a caller that is refused
\* and for one that exhausts the tickets.
LEMMA AnnouncedBuckets ==
  ASSUME IInv, NEW k \in Keys, NEW e \in EligibleTimes
  PROVE  /\ Announced(k, e) \in [Keys -> BucketState]
         /\ SameQueues(Announced(k, e))
         /\ [buckets EXCEPT ![k] = Extended(@, e)] \in [Keys -> BucketState]
         /\ SameQueues([buckets EXCEPT ![k] = Extended(@, e)])
<1>1. buckets \in [Keys -> BucketState] /\ e \in Nat
  BY CoordinatorAssumption DEF IInv, TypeOK
<1> DEFINE x == Extended(buckets[k], e)
           bs == [buckets EXCEPT ![k] = x]
<1>2. /\ x \in BucketState /\ x.tickets = buckets[k].tickets
      /\ x.permitted = buckets[k].permitted /\ x.present = buckets[k].present
  BY <1>1, ExtendedBucket
<1> HIDE DEF x
<1>3. bs \in [Keys -> BucketState] /\ SameQueues(bs)
  BY <1>1, <1>2 DEF SameQueues
<1>4. SameQueues(buckets)
  BY DEF SameQueues
<1>5. [buckets EXCEPT ![k] = Extended(@, e)] = bs
  BY DEF x
<1> HIDE DEF bs
<1>6. Announced(k, e) = bs \/ Announced(k, e) = buckets
  BY <1>5 DEF Announced
<1> QED
  BY <1>1, <1>3, <1>4, <1>5, <1>6

\* Every step preserves the inductive invariant.
LEMMA NextIInv == IInv /\ [Next]_vars => IInv'
<1> SUFFICES ASSUME IInv, [Next]_vars PROVE IInv'
  OBVIOUS
<1>1. TypeOK
  BY DEF IInv
<1>2. ASSUME NEW c \in Callers, ReturnAtOnce(c) PROVE IInv'
  <2>1. TypeOK'
    BY <1>1, <1>2, EntryStatusType DEF TypeOK, ReturnAtOnce
  <2>2. SameRoles /\ SameQueues(buckets')
    BY <1>2 DEF ReturnAtOnce, SameRoles, SameQueues
  <2> QED
    BY <1>2, <2>1, <2>2, NothingMoves DEF ReturnAtOnce
<1>3. ASSUME NEW c \in Callers, NEW k \in Keys, NEW e \in EligibleTimes,
             RejectSaturated(c, k, e)
      PROVE  IInv'
  <2>1. buckets' \in [Keys -> BucketState] /\ SameQueues(buckets')
    BY <1>3, AnnouncedBuckets DEF RejectSaturated
  <2>2. TypeOK'
    BY <1>1, <1>3, <2>1 DEF TypeOK, RejectSaturated, Statuses
  <2>3. SameRoles
    BY <1>3 DEF RejectSaturated, SameRoles
  <2> QED
    BY <1>3, <2>1, <2>2, <2>3, NothingMoves DEF RejectSaturated
<1>4. ASSUME NEW c \in Callers, NEW k \in Keys, NEW e \in EligibleTimes,
             ExhaustTickets(c, k, e)
      PROVE  IInv'
  <2>1. /\ Announced(k, e) \in [Keys -> BucketState]
        /\ SameQueues(Announced(k, e))
    BY AnnouncedBuckets
  <2>2. /\ terminal_status = "ACQUIRED"
        /\ EnterTerminalLocked("TICKET_EXHAUSTED", Announced(k, e))
        /\ UNCHANGED <<now, next_ticket, quota, ticket, deadline, cancelled>>
    BY <1>4 DEF ExhaustTickets, CanEnter, EntryStatus
  <2>3. /\ SameRoles
        /\ pc' \in [Callers -> {"out"} \cup Owning \cup Queued]
        /\ status' \in [Callers -> Statuses]
    BY <1>1, <1>4 DEF ExhaustTickets, SameRoles, TypeOK, Statuses
  <2> QED
    BY <2>1, <2>2, <2>3, ClosesAll
<1>5. ASSUME NEW c \in Callers, LeaveClosed(c) PROVE IInv'
  <2>1. IsQueued(c) /\ terminal_status \in Statuses
    BY <1>1, <1>5 DEF LeaveClosed, Running, IsQueued, Queued, TypeOK, Statuses
  <2> QED
    BY <1>5, <2>1, ReturnClosed DEF LeaveClosed
<1>6. ASSUME NEW c \in Callers, LeaveCancelled(c) \/ LeaveLate(c) PROVE IInv'
  <2>1. IsQueued(c) /\ terminal_status = "ACQUIRED"
    BY <1>6 DEF LeaveCancelled, LeaveLate, Open, Running, IsQueued, Queued
  <2>2. Leave(c, "CANCELLED") \/ Leave(c, "DEADLINE_REACHED")
    BY <1>6 DEF LeaveCancelled, LeaveLate
  <2>3. "CANCELLED" \in Statuses /\ "DEADLINE_REACHED" \in Statuses
    BY DEF Statuses
  <2> QED
    BY <2>1, <2>2, <2>3, LeaveOpen
<1>7. ASSUME NEW c \in Callers, StartSlice(c) PROVE IInv'
  <2>1. TypeOK'
    BY <1>1, <1>7 DEF TypeOK, StartSlice, Queued
  <2>2. SameRoles /\ SameQueues(buckets')
    BY <1>1, <1>7 DEF StartSlice, SameRoles, SameQueues, Queued, Owning, TypeOK
  <2> QED
    BY <1>7, <2>1, <2>2, NothingMoves DEF StartSlice
<1>8. ASSUME NEW c \in Callers, NEW e \in EligibleTimes, ExtendEligibleTime(c, e)
      PROVE  IInv'
  <2>1. quota[c] \in Keys
    BY <1>1 DEF TypeOK
  <2>2. buckets' \in [Keys -> BucketState] /\ SameQueues(buckets')
    BY <1>8, <2>1, AnnouncedBuckets DEF ExtendEligibleTime
  <2>3. TypeOK'
    BY <1>1, <1>8, <2>2 DEF TypeOK, ExtendEligibleTime
  <2>4. SameRoles
    BY <1>8 DEF ExtendEligibleTime, SameRoles
  <2> QED
    BY <1>8, <2>2, <2>3, <2>4, NothingMoves DEF ExtendEligibleTime
<1>9. ASSUME NEW c \in Callers, Complete(c) \/ FinishGivingUp(c) PROVE IInv'
  <2>1. IsOwning(c) /\ GiveBack(c)
    BY <1>9 DEF Complete, FinishGivingUp, IsOwning, Owning
  <2> QED
    BY <2>1, GiveBackStep
<1>10. ASSUME NEW c \in Callers, RequeueRefused(c) PROVE IInv'
  <2>1. TypeOK'
    BY <1>1, <1>10, EntryStatusType DEF TypeOK, RequeueRefused, Owning
  <2>2. SameRoles /\ SameQueues(buckets')
    BY <1>1, <1>10 DEF RequeueRefused, SameRoles, SameQueues, Queued, Owning, TypeOK
  <2> QED
    BY <1>10, <2>1, <2>2, NothingMoves DEF RequeueRefused
<1>11. ASSUME NEW c \in Callers, NEW e \in EligibleTimes, RequeueExhausted(c, e)
       PROVE  IInv'
  <2> DEFINE bs == [buckets EXCEPT ![quota[c]] = Extended(@, e)]
  <2>1. quota[c] \in Keys
    BY <1>1 DEF TypeOK
  <2>2. bs \in [Keys -> BucketState] /\ SameQueues(bs)
    BY <2>1, AnnouncedBuckets
  <2>3. /\ terminal_status = "ACQUIRED"
        /\ EnterTerminalLocked("TICKET_EXHAUSTED", bs)
        /\ UNCHANGED <<now, next_ticket, quota, ticket, deadline, cancelled>>
    BY <1>11 DEF RequeueExhausted, CanRequeue, EntryStatus
  <2>4. /\ SameRoles
        /\ pc' \in [Callers -> {"out"} \cup Owning \cup Queued]
        /\ status' \in [Callers -> Statuses]
    BY <1>1, <1>11
    DEF RequeueExhausted, CanRequeue, SameRoles, TypeOK, Statuses, Owning, Queued
  <2> HIDE DEF bs
  <2> QED
    BY <2>2, <2>3, <2>4, ClosesAll
<1>12. ASSUME Close PROVE IInv'
  <2>1. buckets \in [Keys -> BucketState] /\ SameQueues(buckets)
    BY <1>1 DEF TypeOK, SameQueues
  <2>2. /\ SameRoles
        /\ pc' \in [Callers -> {"out"} \cup Owning \cup Queued]
        /\ status' \in [Callers -> Statuses]
    BY <1>1, <1>12 DEF Close, SameRoles, TypeOK
  <2> QED
    BY <1>12, <2>1, <2>2, ClosesAll DEF Close
<1>13. ASSUME NEW c \in Callers, RequestCancellation(c) PROVE IInv'
  <2>1. TypeOK'
    BY <1>1, <1>13 DEF TypeOK, RequestCancellation
  <2>2. SameRoles /\ SameQueues(buckets')
    BY <1>13 DEF RequestCancellation, SameRoles, SameQueues
  <2> QED
    BY <1>13, <2>1, <2>2, NothingMoves DEF RequestCancellation
<1>14. ASSUME Tick PROVE IInv'
  <2>1. TypeOK'
    BY <1>1, <1>14, CoordinatorAssumption DEF TypeOK, Tick
  <2>2. SameRoles /\ SameQueues(buckets')
    BY <1>14 DEF Tick, SameRoles, SameQueues
  <2> QED
    BY <1>14, <2>1, <2>2, NothingMoves DEF Tick
<1>15. ASSUME UNCHANGED vars PROVE IInv'
  <2>1. TypeOK'
    BY <1>1, <1>15 DEF TypeOK, vars
  <2>2. SameRoles /\ SameQueues(buckets')
    BY <1>15 DEF vars, SameRoles, SameQueues
  <2> QED
    BY <1>15, <2>1, <2>2, NothingMoves DEF vars
<1> QED
  BY <1>2, <1>3, <1>4, <1>5, <1>6, <1>7, <1>8, <1>9, <1>10, <1>11, <1>12, <1>13,
     <1>14, <1>15, EnqueueStep, RequeueStep, TakePermitStep, WaitThrowsStep
  DEF Next, Acquire, Iterate, Requeue

-----------------------------------------------------------------------------
(* What follows from the inductive invariant *)

\* An owned permit has exactly one owner.
LEMMA OneHolder ==
  ASSUME IInv, NEW k \in Keys
  PROVE  /\ IsFiniteSet(Holders(k))
         /\ Cardinality(Holders(k)) = PermitUnit(k)
<1> USE DEF IsOwning
<1>1. CASE buckets[k].permitted
  <2>1. PICK c \in Callers : pc[c] \in Owning /\ quota[c] = k
    BY <1>1 DEF IInv, PermitsOwned
  <2>2. Holders(k) = {c}
    BY <2>1 DEF Holders, IInv, PermitsOwned
  <2> QED
    BY <1>1, <2>2, FS_Singleton, KeyWaitersIs
<1>2. CASE ~buckets[k].permitted
  <2>1. Holders(k) = {}
    BY <1>2 DEF Holders, IInv, PermitsOwned
  <2> QED
    BY <1>2, <2>1, FS_EmptySet, KeyWaitersIs
<1> QED
  BY <1>1, <1>2

QueuedOn(k) == {c \in Callers : pc[c] \in Queued /\ quota[c] = k}

\* A key's queue is as long as the number of callers that wait on the key.
LEMMA QueueLength ==
  ASSUME IInv, terminal_status = "ACQUIRED", NEW k \in Keys
  PROVE  /\ IsFiniteSet(QueuedOn(k))
         /\ Cardinality(QueuedOn(k)) = Len(Queue(k))
<1> DEFINE s == Queue(k)
           n == Len(s)
           W == QueuedOn(k)
           f == [i \in 1..n |-> CHOOSE c \in W : ticket[c] = s[i]]
<1>1. s \in Seq(Tickets) /\ n \in Nat /\ DOMAIN s = 1..n
      /\ \A i \in 1..n : s[i] \in Tickets /\ s[i] \in Int
  <2>1. s \in Seq(Tickets) /\ n \in Nat
    BY ShareBounded
  <2>2. \A i \in 1..n : s[i] \in Tickets
    BY <2>1
  <2> QED
    BY <2>1, <2>2, CoordinatorAssumption DEF Tickets
<1>2. \A i, j \in 1..n : s[i] = s[j] => i = j
  <2> SUFFICES ASSUME NEW i \in 1..n, NEW j \in 1..n, i # j PROVE s[i] # s[j]
    OBVIOUS
  <2>1. Increasing(s)
    BY DEF IInv, QueuesOrdered
  <2>2. (i < j => s[i] < s[j]) /\ (j < i => s[j] < s[i])
    BY <1>1, <2>1 DEF Increasing
  <2> QED
    BY <1>1, <2>2
<1>3. \A i \in 1..n : \E c \in W : ticket[c] = s[i]
  <2> SUFFICES ASSUME NEW i \in 1..n PROVE \E c \in W : ticket[c] = s[i]
    OBVIOUS
  <2>1. Contains(s, s[i])
    BY <1>1 DEF Contains
  <2> QED
    BY <1>1, <2>1 DEF IInv, TicketsOwned, QueuedOn, IsQueued
<1>4. \A c \in W : \E i \in 1..n : ticket[c] = s[i]
  BY <1>1 DEF IInv, TicketsLive, QueuedOn, IsQueued, Contains
<1>5. \A c, d \in W : ticket[c] = ticket[d] => c = d
  BY DEF IInv, TicketsDistinct, QueuedOn, IsQueued
<1> HIDE DEF s, n, W
<1>6. \A i \in 1..n : f[i] \in W /\ ticket[f[i]] = s[i]
  BY <1>3
<1>7. f \in Bijection(1..n, W)
  <2>1. f \in [1..n -> W]
    BY <1>6
  <2> HIDE DEF f
  <2>2. \A i, j \in 1..n : f[i] = f[j] => i = j
    BY <1>2, <1>6
  <2>3. \A c \in W : \E i \in 1..n : f[i] = c
    BY <1>4, <1>5, <1>6
  <2> QED
    BY <2>1, <2>2, <2>3 DEF Bijection, Injection, Surjection, IsInjective
<1>8. IsFiniteSet(1..n) /\ Cardinality(1..n) = n
  <2>1. PICK m \in Int : m = n
    BY <1>1
  <2>2. IsFiniteSet(1..m) /\ Cardinality(1..m) = IF 1 > m THEN 0 ELSE m - 1 + 1
    BY FS_Interval
  <2> QED
    BY <1>1, <2>1, <2>2
<1>9. IsFiniteSet(W) /\ Cardinality(W) = n
  BY <1>7, <1>8, FS_Bijection DEF ExistsBijection
<1> QED
  BY <1>9 DEF W, n, s

\* The inductive invariant says what QueuesExact says of every key's share.
LEMMA ShareIs ==
  ASSUME IInv, NEW k \in Keys
  PROVE  KeyWaiters(k) = Cardinality({c \in Counted : quota[c] = k})
<1> DEFINE C == {c \in Counted : quota[c] = k}
<1>1. KeyWaiters(k) = Len(Queue(k)) + PermitUnit(k)
  BY KeyWaitersIs
<1>2. IsFiniteSet(Holders(k)) /\ Cardinality(Holders(k)) = PermitUnit(k)
  BY OneHolder
<1>3. CASE terminal_status = "ACQUIRED"
  <2>1. IsFiniteSet(QueuedOn(k)) /\ Cardinality(QueuedOn(k)) = Len(Queue(k))
    BY <1>3, QueueLength
  <2>2. C = QueuedOn(k) \cup Holders(k) /\ QueuedOn(k) \cap Holders(k) = {}
    BY <1>3 DEF Counted, QueuedOn, Holders, Queued, Owning
  <2>3. Cardinality(C) = Cardinality(QueuedOn(k)) + Cardinality(Holders(k))
    BY <1>2, <2>1, <2>2, WaitersAdd
  <2> QED
    BY <1>1, <1>2, <2>1, <2>3
<1>4. CASE terminal_status # "ACQUIRED"
  <2>1. C = Holders(k)
    BY <1>4 DEF Counted, Holders
  <2>2. Queue(k) = <<>>
    BY <1>4, ShareBounded, EmptyQueue DEF IInv, TicketsOwned
  <2>3. PermitUnit(k) \in {0, 1} /\ Len(Queue(k)) = 0
    BY <2>2, ShareBounded, EmptyQueue
  <2>4. KeyWaiters(k) = PermitUnit(k)
    BY <1>1, <2>3
  <2> HIDE DEF C
  <2>5. KeyWaiters(k) = Cardinality(C)
    BY <1>2, <2>1, <2>4
  <2> QED
    BY <2>5 DEF C
<1> QED
  BY <1>3, <1>4

\* The inductive invariant implies QueuesExact.
LEMMA IInvQueues == IInv => QueuesExact
<1> SUFFICES ASSUME IInv PROVE QueuesExact
  OBVIOUS
<1> USE DEF IsQueued, Queue
<1>1. ASSUME terminal_status = "ACQUIRED", NEW c \in Callers, pc[c] \in Queued
      PROVE  /\ buckets[quota[c]].present
             /\ \E i \in DOMAIN buckets[quota[c]].tickets :
                  buckets[quota[c]].tickets[i] = ticket[c]
  <2>1. quota[c] \in Keys
    BY DEF IInv, TypeOK
  <2>2. Contains(Queue(quota[c]), ticket[c])
    BY <1>1 DEF IInv, TicketsLive
  <2>3. Queue(quota[c]) # <<>>
    BY <2>2, EmptyQueue
  <2> QED
    BY <2>1, <2>2, <2>3 DEF IInv, BucketsKept, Contains
<1>2. ASSUME NEW k \in Keys, NEW i \in DOMAIN buckets[k].tickets
      PROVE  /\ terminal_status = "ACQUIRED"
             /\ \E c \in Callers : /\ pc[c] \in Queued
                                   /\ quota[c] = k
                                   /\ ticket[c] = buckets[k].tickets[i]
  <2>1. buckets[k].tickets[i] \in Tickets
    BY ShareBounded
  <2>2. Contains(Queue(k), buckets[k].tickets[i])
    BY DEF Contains
  <2> QED
    BY <2>1, <2>2 DEF IInv, TicketsOwned
<1>3. \A k \in Keys :
        buckets[k].present <=> (buckets[k].permitted \/ buckets[k].tickets # <<>>)
  BY DEF IInv, BucketsKept
<1>4. total_waiters = Cardinality(Counted) /\ total_waiters <= TotalWaiters
  BY DEF IInv, WaitersCounted
<1>5. \A k \in Keys :
        /\ KeyWaiters(k) = Cardinality({c \in Counted : quota[c] = k})
        /\ KeyWaiters(k) <= WaitersPerKey
  BY ShareIs DEF IInv, KeysBounded
<1> QED
  BY <1>1, <1>2, <1>3, <1>4, <1>5 DEF QueuesExact

\* The inductive invariant implies OnePermitPerKey.
LEMMA IInvPermits == IInv => OnePermitPerKey
<1> SUFFICES ASSUME IInv, NEW k \in Keys
             PROVE  /\ Cardinality(Holders(k)) = (IF buckets[k].permitted THEN 1 ELSE 0)
                    /\ buckets[k].permitted => buckets[k].present
  BY DEF OnePermitPerKey
<1>1. Cardinality(Holders(k)) = (IF buckets[k].permitted THEN 1 ELSE 0)
  BY OneHolder, Zenon DEF PermitUnit
<1>2. buckets[k].permitted => buckets[k].present
  BY DEF IInv, BucketsKept
<1> QED
  BY <1>1, <1>2

\* The inductive invariant holds of the coordinator with and without fairness.
LEMMA Invariance == Spec => []IInv
BY InitIInv, NextIInv, PTL DEF Spec

\* Every variable of the coordinator keeps its type; total_waiters, an unsigned
\* counter of the code, never wraps below zero.
THEOREM TypeCorrect == Spec => []TypeOK
<1>1. IInv => TypeOK
  BY DEF IInv
<1> QED
  BY <1>1, Invariance, PTL

\* For any number of streams and keys: a quota key's transport authority has one
\* owner at most, and the bucket knows it.
THEOREM OnePermit == Spec => []OnePermitPerKey
BY Invariance, IInvPermits, PTL

\* For any number of streams, keys and tickets and any limits: the queues hold
\* exactly the tickets of the callers that wait, and total_waiters and each key's
\* share are exact and within their limits.
THEOREM QueuesAreExact == Spec => []QueuesExact
BY Invariance, IInvQueues, PTL

\* The permit is obtained by TakePermit only.
LEMMA OnlyTakePermit ==
  ASSUME IInv, Next, NEW c \in Callers, pc[c] # "held", pc'[c] = "held"
  PROVE  TakePermit(c)
<1>1. pc \in [Callers -> {"out"} \cup Owning \cup Queued]
  BY DEF IInv, TypeOK
<1>2. ASSUME NEW x \in Callers, NEW v, v # "held", pc' = [pc EXCEPT ![x] = v]
      PROVE  FALSE
  BY <1>1, <1>2
<1>3. pc' # pc
  OBVIOUS
<1>4. ASSUME NEW x \in Callers, NEW k \in Keys, NEW e \in EligibleTimes,
             NEW d \in Deadlines, Acquire(x, k, e, d)
      PROVE  FALSE
  BY <1>2, <1>3, <1>4
  DEF Acquire, ReturnAtOnce, RejectSaturated, ExhaustTickets, Enqueue, TakeTicket
<1>5. ASSUME NEW x \in Callers, Iterate(x)
      PROVE  TakePermit(c)
  <2>1. ~LeaveClosed(x) /\ ~LeaveCancelled(x) /\ ~LeaveLate(x)
    BY <1>2 DEF LeaveClosed, LeaveCancelled, LeaveLate, Leave, Return
  <2>2. ~StartSlice(x)
    BY <1>2 DEF StartSlice
  <2>3. TakePermit(x)
    BY <1>5, <2>1, <2>2 DEF Iterate
  <2>4. x = c
    BY <1>1, <2>3 DEF TakePermit
  <2> QED
    BY <2>3, <2>4
<1>6. ASSUME NEW x \in Callers, WaitThrows(x) PROVE FALSE
  BY <1>2, <1>6 DEF WaitThrows, Leave, Return
<1>7. ASSUME NEW x \in Callers, NEW e \in EligibleTimes, ExtendEligibleTime(x, e)
      PROVE  FALSE
  BY <1>3, <1>7 DEF ExtendEligibleTime
<1>8. ASSUME NEW x \in Callers, Complete(x) \/ FinishGivingUp(x) PROVE FALSE
  BY <1>2, <1>8 DEF Complete, FinishGivingUp, GiveBack
<1>9. ASSUME NEW x \in Callers, NEW e \in EligibleTimes, NEW d \in Deadlines,
             Requeue(x, e, d)
      PROVE  FALSE
  BY <1>2, <1>9
  DEF Requeue, RequeueRefused, RequeueExhausted, RequeueAtTail, TakeTicket
<1>10. ~Close /\ ~Tick /\ \A x \in Callers : ~RequestCancellation(x)
  BY <1>3 DEF Close, Tick, RequestCancellation
<1> QED
  BY <1>4, <1>5, <1>6, <1>7, <1>8, <1>9, <1>10 DEF Next

\* Whoever obtains the permit of a key holds its oldest live ticket: the queue
\* increases from its front, and every caller that waits is in it.
THEOREM Fifo == Spec => FifoPerKey
<1> DEFINE A == \A c, d \in Callers :
                  /\ pc[c] # "held" /\ pc'[c] = "held"
                  /\ pc[d] \in Queued /\ quota[d] = quota[c]
                  => ticket[c] <= ticket[d]
<1>1. IInv /\ [Next]_vars => [A]_vars
  <2> SUFFICES ASSUME IInv, Next, NEW c \in Callers, NEW d \in Callers,
                      pc[c] # "held", pc'[c] = "held",
                      pc[d] \in Queued, quota[d] = quota[c]
               PROVE  ticket[c] <= ticket[d]
    OBVIOUS
  <2>1. TakePermit(c)
    BY OnlyTakePermit
  <2>2. PICK k \in Keys : k = quota[c]
    BY DEF IInv, TypeOK
  <2>3. /\ terminal_status = "ACQUIRED"
        /\ Queue(k) # <<>> /\ Head(Queue(k)) = ticket[c]
    BY <2>1, <2>2 DEF TakePermit, Open, MayTakePermit, Queue
  <2>4. Queue(k) \in Seq(Tickets) /\ Increasing(Queue(k))
    BY ShareBounded DEF IInv, QueuesOrdered
  <2>5. Contains(Queue(k), ticket[d])
    BY <2>2, <2>3 DEF IInv, TicketsLive, IsQueued
  <2> QED
    BY <2>3, <2>4, <2>5, PopFront
<1> QED
  BY <1>1, Invariance, PTL DEF Spec, FifoPerKey

\* What EmbargoKept says of one key.
Grown(k) ==
  /\ buckets[k].present /\ buckets'[k].present =>
       buckets'[k].eligible >= buckets[k].eligible
  /\ ~buckets[k].permitted /\ buckets'[k].permitted =>
       now >= buckets[k].eligible

\* A bucket that is kept, or erased, with its embargo extended or untouched.
LEMMA GrownBucket ==
  ASSUME IInv, NEW k \in Keys, NEW b \in BucketState,
         b.eligible >= buckets[k].eligible,
         b.permitted => buckets[k].permitted,
         buckets'[k] = b \/ buckets'[k] = Kept(b)
  PROVE  Grown(k)
<1>1. CASE buckets'[k] = b
  BY <1>1 DEF Grown
<1>2. CASE buckets'[k] = NoBucket
  BY <1>2 DEF Grown, NoBucket
<1> QED
  BY <1>1, <1>2 DEF Kept

\* EnterTerminalLocked leaves the embargo of a bucket that keeps its permit.
LEMMA GrownClosing ==
  ASSUME IInv, NEW k \in Keys, NEW bs, bs[k] \in BucketState,
         bs[k].eligible >= buckets[k].eligible,
         bs[k].permitted = buckets[k].permitted,
         NEW reason, EnterTerminalLocked(reason, bs)
  PROVE  Grown(k)
<1> DEFINE b == [bs[k] EXCEPT !.tickets = <<>>]
<1>1. /\ b \in BucketState /\ b.eligible = bs[k].eligible
      /\ b.permitted = bs[k].permitted
  BY QueueReplaced, EmptyQueue
<1>2. buckets'[k] = Kept(b)
  BY DEF EnterTerminalLocked
<1> HIDE DEF b
<1> QED
  BY <1>1, <1>2, GrownBucket

\* Leaving a queue leaves the embargo of a bucket that stays.
LEMMA GrownLeaving ==
  ASSUME IInv, NEW k \in Keys, NEW c \in Callers, IsQueued(c),
         NEW s \in Statuses, Leave(c, s)
  PROVE  Grown(k)
<1>0. PICK j \in Keys : j = quota[c]
  BY DEF IInv, TypeOK
<1>1. /\ buckets[j] \in BucketState /\ Queue(j) \in Seq(Tickets)
      /\ Increasing(Queue(j)) /\ buckets \in [Keys -> BucketState]
  BY ShareBounded DEF IInv, QueuesOrdered, TypeOK
<1> DEFINE w == Without(Queue(j), ticket[c])
           b == [buckets[j] EXCEPT !.tickets = w]
<1>2. w \in Seq(Tickets)
  BY <1>1, FindAndErase DEF Without
<1>3. buckets' = [buckets EXCEPT ![j] = Kept(b)]
  BY <1>0 DEF Leave, EraseTicketLocked, Queue
<1> HIDE DEF w
<1>4. b \in BucketState /\ b.eligible = buckets[j].eligible
      /\ b.permitted = buckets[j].permitted
  BY <1>1, <1>2, QueueReplaced
<1> HIDE DEF b
<1>5. b.eligible >= buckets[j].eligible
  BY <1>1, <1>4 DEF BucketState
<1>6. CASE k = j
  BY <1>1, <1>3, <1>4, <1>5, <1>6, GrownBucket
<1>7. CASE k # j
  <2>1. buckets'[k] = buckets[k] /\ buckets[k].eligible \in Nat
    BY <1>1, <1>3, <1>7 DEF BucketState
  <2> QED
    BY <2>1 DEF Grown
<1> QED
  BY <1>6, <1>7

\* A bucket of another key, or of a step that changes none.
LEMMA GrownUntouched ==
  ASSUME IInv, NEW k \in Keys, buckets'[k] = buckets[k]
  PROVE  Grown(k)
<1>1. buckets[k].eligible \in Nat
  BY DEF IInv, TypeOK, BucketState
<1> QED
  BY <1>1 DEF Grown

\* Every step extends the embargoes.
LEMMA GrownStep ==
  ASSUME IInv, Next, NEW k \in Keys
  PROVE  Grown(k)
<1>1. buckets \in [Keys -> BucketState] /\ EligibleTimes \subseteq Nat
  BY CoordinatorAssumption DEF IInv, TypeOK
<1>2. ASSUME NEW j \in Keys, NEW e \in EligibleTimes
      PROVE  /\ Extended(buckets[j], e) \in BucketState
             /\ Extended(buckets[j], e).eligible >= buckets[j].eligible
             /\ Extended(buckets[j], e).permitted = buckets[j].permitted
             /\ Extended(buckets[j], e).tickets = buckets[j].tickets
  BY <1>1, ExtendedBucket
<1>3. ASSUME NEW j \in Keys, NEW e \in EligibleTimes, NEW bs,
             bs = [buckets EXCEPT ![j] = Extended(@, e)] \/ bs = buckets
      PROVE  /\ bs[k] \in BucketState
             /\ bs[k].eligible >= buckets[k].eligible
             /\ bs[k].permitted = buckets[k].permitted
  <2>1. bs[k] = buckets[k] \/ bs[k] = Extended(buckets[k], e)
    BY <1>1, <1>3
  <2>2. buckets[k] \in BucketState /\ buckets[k].eligible >= buckets[k].eligible
    BY <1>1 DEF BucketState
  <2> QED
    BY <1>2, <2>1, <2>2
<1>4. ASSUME NEW c \in Callers, NEW j \in Keys, NEW e \in EligibleTimes,
             NEW d \in Deadlines, Acquire(c, j, e, d)
      PROVE  Grown(k)
  <2>1. /\ Announced(j, e)[k] \in BucketState
        /\ Announced(j, e)[k].eligible >= buckets[k].eligible
        /\ Announced(j, e)[k].permitted = buckets[k].permitted
    BY <1>3 DEF Announced
  <2>2. CASE ReturnAtOnce(c)
    BY <2>2, GrownUntouched DEF ReturnAtOnce
  <2>3. CASE RejectSaturated(c, j, e)
    BY <2>1, <2>3, GrownBucket DEF RejectSaturated
  <2>4. CASE ExhaustTickets(c, j, e)
    BY <2>1, <2>4, GrownClosing DEF ExhaustTickets
  <2>5. CASE Enqueue(c, j, e, d)
    <3>1. CASE k # j
      BY <1>1, <2>5, <3>1, GrownUntouched DEF Enqueue, TakeTicket
    <3>2. CASE k = j /\ buckets[j].present
      <4> DEFINE x == Extended(buckets[j], e)
      <4>1. buckets'[k].eligible = x.eligible /\ buckets'[k].permitted = x.permitted
        BY <1>1, <1>2, <2>5, <3>2 DEF Enqueue, TakeTicket, BucketState
      <4>2. x.eligible >= buckets[k].eligible /\ x.permitted = buckets[k].permitted
        BY <1>2, <3>2
      <4> HIDE DEF x
      <4> QED
        BY <4>1, <4>2 DEF Grown
    <3>3. CASE k = j /\ ~buckets[j].present
      <4>1. buckets'[k].permitted = FALSE
        BY <1>1, <2>5, <3>3 DEF Enqueue, TakeTicket, NoBucket
      <4> QED
        BY <3>3, <4>1 DEF Grown
    <3> QED
      BY <3>1, <3>2, <3>3
  <2> QED
    BY <1>4, <2>2, <2>3, <2>4, <2>5 DEF Acquire
<1>5. ASSUME NEW c \in Callers, Iterate(c) \/ WaitThrows(c)
      PROVE  Grown(k)
  <2>1. CASE LeaveClosed(c) \/ StartSlice(c)
    BY <2>1, GrownUntouched DEF LeaveClosed, StartSlice
  <2>2. CASE TakePermit(c)
    <3>1. CASE k # quota[c]
      BY <1>1, <2>2, <3>1, GrownUntouched DEF TakePermit
    <3>2. CASE k = quota[c]
      <4>1. buckets'[k].eligible = buckets[k].eligible /\ buckets[k].eligible \in Nat
        BY <1>1, <2>2, <3>2 DEF TakePermit, BucketState
      <4>2. now >= buckets[k].eligible
        BY <2>2, <3>2 DEF TakePermit, MayTakePermit
      <4> QED
        BY <4>1, <4>2 DEF Grown
    <3> QED
      BY <3>1, <3>2
  <2>3. ASSUME NEW s \in Statuses, IsQueued(c), Leave(c, s) PROVE Grown(k)
    BY <2>3, GrownLeaving
  <2>4. CASE LeaveCancelled(c) \/ LeaveLate(c)
    <3>1. IsQueued(c)
      BY <2>4 DEF LeaveCancelled, LeaveLate, Open, Running, IsQueued, Queued
    <3>2. Leave(c, "CANCELLED") \/ Leave(c, "DEADLINE_REACHED")
      BY <2>4 DEF LeaveCancelled, LeaveLate
    <3> QED
      BY <2>3, <3>1, <3>2 DEF Statuses
  <2>5. CASE WaitThrows(c)
    <3>1. IsQueued(c)
      BY <2>5 DEF WaitThrows, Running, IsQueued, Queued
    <3>2. Leave(c, "THREW") \/ buckets' = buckets
      BY <2>5 DEF WaitThrows
    <3> QED
      BY <2>3, <3>1, <3>2, GrownUntouched DEF Statuses
  <2> QED
    BY <1>5, <2>1, <2>2, <2>4, <2>5 DEF Iterate
<1>6. ASSUME NEW c \in Callers, NEW e \in EligibleTimes, ExtendEligibleTime(c, e)
      PROVE  Grown(k)
  <2>1. quota[c] \in Keys
    BY DEF IInv, TypeOK
  <2> QED
    BY <1>3, <1>6, <2>1, GrownBucket DEF ExtendEligibleTime
<1>7. ASSUME NEW c \in Callers, Complete(c) \/ FinishGivingUp(c)
      PROVE  Grown(k)
  <2> DEFINE b == [buckets[k] EXCEPT !.permitted = FALSE]
  <2>1. buckets'[k] = buckets[k] \/ buckets'[k] = Kept(b)
    BY <1>1, <1>7 DEF Complete, FinishGivingUp, GiveBack
  <2>2. buckets[k] \in BucketState /\ buckets[k].eligible >= buckets[k].eligible
    BY <1>1 DEF BucketState
  <2>3. b \in BucketState /\ b.eligible = buckets[k].eligible /\ b.permitted = FALSE
    BY <2>2, PermitReplaced
  <2> HIDE DEF b
  <2> QED
    BY <2>1, <2>2, <2>3, GrownBucket, GrownUntouched
<1>8. ASSUME NEW c \in Callers, NEW e \in EligibleTimes, NEW d \in Deadlines,
             Requeue(c, e, d)
      PROVE  Grown(k)
  <2>1. quota[c] \in Keys
    BY DEF IInv, TypeOK
  <2>2. CASE RequeueRefused(c)
    BY <2>2, GrownUntouched DEF RequeueRefused
  <2>3. CASE RequeueExhausted(c, e)
    BY <1>3, <2>1, <2>3, GrownClosing DEF RequeueExhausted
  <2>4. CASE RequeueAtTail(c, e, d)
    <3>1. CASE k # quota[c]
      BY <1>1, <2>4, <3>1, GrownUntouched DEF RequeueAtTail, TakeTicket
    <3>2. CASE k = quota[c]
      <4> DEFINE x == Extended(buckets[k], e)
      <4>1. x \in BucketState /\ x.eligible >= buckets[k].eligible
        BY <1>2
      <4>2. buckets'[k] = [[x EXCEPT !.permitted = FALSE]
                              EXCEPT !.tickets = Append(@, next_ticket)]
        BY <1>1, <2>4, <3>2 DEF RequeueAtTail, TakeTicket
      <4> HIDE DEF x
      <4>3. buckets'[k].eligible = x.eligible /\ buckets'[k].permitted = FALSE
        BY <4>1, <4>2 DEF BucketState
      <4> QED
        BY <4>1, <4>3 DEF Grown
    <3> QED
      BY <3>1, <3>2
  <2> QED
    BY <1>8, <2>2, <2>3, <2>4 DEF Requeue
<1>9. CASE Close
  <2>1. buckets[k] \in BucketState /\ buckets[k].eligible >= buckets[k].eligible
    BY <1>1 DEF BucketState
  <2> QED
    BY <1>9, <2>1, GrownClosing DEF Close
<1>10. ASSUME NEW c \in Callers, RequestCancellation(c) PROVE Grown(k)
  BY <1>10, GrownUntouched DEF RequestCancellation
<1>11. CASE Tick
  BY <1>11, GrownUntouched DEF Tick
<1> QED
  BY <1>4, <1>5, <1>6, <1>7, <1>8, <1>9, <1>10, <1>11 DEF Next

\* A live bucket's embargo only grows, whichever call carries the guidance, and
\* the permit is never obtained under it.
THEOREM Embargo == Spec => EmbargoKept
<1> DEFINE A == \A k \in Keys :
                  /\ buckets[k].present /\ buckets'[k].present =>
                       buckets'[k].eligible >= buckets[k].eligible
                  /\ ~buckets[k].permitted /\ buckets'[k].permitted =>
                       now >= buckets[k].eligible
<1>1. IInv /\ [Next]_vars => [A]_vars
  BY GrownStep DEF Grown
<1> QED
  BY <1>1, Invariance, PTL DEF Spec, EmbargoKept
=============================================================================

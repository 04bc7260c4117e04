------------------------ MODULE RateLimitCoordinator ------------------------
(***************************************************************************)
(* The executor-local rate-limit coordinator                               *)
(* (src/src/runtime/execution/rate_limit_coordinator.cpp).                 *)
(*                                                                         *)
(* Streams that share a quota key recover from a rate-limit response one   *)
(* at a time: each takes a FIFO ticket in the key's bucket and waits until *)
(* it is first, the bucket's embargo has passed and the bucket's single    *)
(* permit is free.  One mutex protects everything; a caller keeps it from  *)
(* the moment it is enqueued to the end of the first iteration of its      *)
(* waiting loop (pc = "entering").                                         *)
(*                                                                         *)
(* Abstractions: a QuotaBucketKey is a value that can only be compared;    *)
(* Permit::ExtendEligibleTime, which no stream calls, is an action like    *)
(* the others; an allocation that fails before a ticket is pushed leaves   *)
(* no trace and is left out.                                               *)
(***************************************************************************)
EXTENDS Naturals, Sequences, FiniteSets

CONSTANTS
  Callers,         \* streams, each with one Permit object
  Keys,            \* quota bucket keys
  WaitersPerKey,   \* limits.waiters_per_key
  TotalWaiters,    \* limits.total_waiters
  EligibleTimes,   \* embargoes that guidance may announce
  Deadlines,       \* deadlines a caller may pass
  MaxTicket,       \* bound: stands for numeric_limits<uint64_t>::max()
  MaxTime          \* bound: last instant of the steady clock

ASSUME CoordinatorAssumption ==
  /\ IsFiniteSet(Callers)
  /\ IsFiniteSet(Keys) /\ Keys # {}
  /\ WaitersPerKey \in Nat
  /\ TotalWaiters \in Nat
  /\ MaxTicket \in Nat \ {0}
  /\ MaxTime \in Nat
  /\ EligibleTimes \subseteq Nat
  /\ Deadlines \subseteq 0..MaxTime

VARIABLES
  now,              \* the steady clock
  terminal_status,  \* "ACQUIRED" while the coordinator is open
  next_ticket,
  total_waiters,
  buckets,          \* buckets[k] : BucketState, NoBucket if k has no entry
  pc,               \* where c is: "out" of the coordinator and without permit,
                    \* "entering", "waiting", "held" or "giving up"
  status,           \* status[c] : what c's last call returned, or will return
  quota,            \* quota[c] : the key of c's ticket or permit
  ticket,           \* ticket[c] : c's ticket, 0 if none
  deadline,         \* deadline[c] : deadline of c's current wait
  cancelled         \* cancelled[c] : c's cancellation was requested

vars == <<now, terminal_status, next_ticket, total_waiters, buckets, pc, status,
          quota, ticket, deadline, cancelled>>

NoBucket == [present |-> FALSE, eligible |-> 0, permitted |-> FALSE,
             tickets |-> <<>>]

\* What quota[c] is while it has no meaning.
AnyKey == CHOOSE k \in Keys : TRUE

BucketState == [present : BOOLEAN, eligible : Nat, permitted : BOOLEAN,
                tickets : Seq(1..MaxTicket)]

Statuses == {"ACQUIRED", "QUEUE_SATURATED", "SCHEDULER_CLOSED", "CANCELLED",
             "DEADLINE_REACHED", "TICKET_EXHAUSTED", "THREW"}

\* A caller whose Permit has a handle; "giving up" is the gap of Requeue
\* between its unlock and Complete.
Owning == {"held", "giving up"}

Queued == {"entering", "waiting"}

TypeOK ==
  /\ now \in 0..MaxTime
  /\ terminal_status \in {"ACQUIRED", "SCHEDULER_CLOSED", "TICKET_EXHAUSTED"}
  /\ next_ticket \in 1..MaxTicket
  /\ total_waiters \in Nat
  /\ buckets \in [Keys -> BucketState]
  /\ pc \in [Callers -> {"out"} \cup Owning \cup Queued]
  /\ status \in [Callers -> Statuses]
  /\ quota \in [Callers -> Keys]
  /\ ticket \in [Callers -> 0..MaxTicket]
  /\ deadline \in [Callers -> 0..MaxTime]
  /\ cancelled \in [Callers -> BOOLEAN]

Init ==
  /\ now = 0
  /\ terminal_status = "ACQUIRED"
  /\ next_ticket = 1
  /\ total_waiters = 0
  /\ buckets = [k \in Keys |-> NoBucket]
  /\ pc = [c \in Callers |-> "out"]
  /\ status = [c \in Callers |-> "ACQUIRED"]
  /\ quota = [c \in Callers |-> AnyKey]
  /\ ticket = [c \in Callers |-> 0]
  /\ deadline = [c \in Callers |-> 0]
  /\ cancelled = [c \in Callers |-> FALSE]

-----------------------------------------------------------------------------
(* Buckets *)

Larger(a, b) == IF a >= b THEN a ELSE b

\* Nobody is between its enqueueing and the end of its first iteration.
Unlocked == \A c \in Callers : pc[c] # "entering"

\* Variant: the latest guidance replaces the embargo.
Replaced(b, eligible) == [b EXCEPT !.eligible = eligible]

Extended(b, eligible) == [b EXCEPT !.eligible = Larger(@, eligible)]

Contains(s, t) == \E i \in DOMAIN s : s[i] = t

\* std::find and erase.
Without(s, t) ==
  IF Contains(s, t)
  THEN LET i == CHOOSE i \in DOMAIN s : s[i] = t
       IN  [j \in 1..(Len(s) - 1) |-> IF j < i THEN s[j] ELSE s[j + 1]]
  ELSE s

\* Variant: a bucket without tickets is erased under its permit.
KeptForTickets(b) == IF b.tickets # <<>> THEN b ELSE NoBucket

\* A bucket is kept while it has a ticket or a permit.
Kept(b) == IF b.permitted \/ b.tickets # <<>> THEN b ELSE NoBucket

EraseTicketLocked(k, t) ==
  LET b == buckets[k]
  IN  /\ buckets' = [buckets EXCEPT ![k] =
                       Kept([b EXCEPT !.tickets = Without(@, t)])]
      /\ total_waiters' = IF Contains(b.tickets, t)
                          THEN total_waiters - 1
                          ELSE total_waiters

QueuedTickets(bs) ==
  {x \in Keys \X (1..MaxTicket) : Contains(bs[x[1]].tickets, x[2])}

\* bs are the buckets the critical section has reached.
EnterTerminalLocked(reason, bs) ==
  /\ terminal_status' = reason
  /\ buckets' = [k \in Keys |-> Kept([bs[k] EXCEPT !.tickets = <<>>])]
  /\ total_waiters' = total_waiters - Cardinality(QueuedTickets(bs))

-----------------------------------------------------------------------------
(* Acquire *)

EntryStatus(c) ==
  IF terminal_status # "ACQUIRED" THEN terminal_status
  ELSE IF cancelled[c] THEN "CANCELLED"
  ELSE "ACQUIRED"

ReturnAtOnce(c) ==
  /\ pc[c] = "out"
  /\ Unlocked
  /\ EntryStatus(c) # "ACQUIRED"
  /\ status' = [status EXCEPT ![c] = EntryStatus(c)]
  /\ UNCHANGED <<now, terminal_status, next_ticket, total_waiters, buckets, pc,
                 quota, ticket, deadline, cancelled>>

\* An existing bucket's embargo is extended before anything can be refused.
Announced(k, eligible) ==
  IF buckets[k].present
  THEN [buckets EXCEPT ![k] = Extended(@, eligible)]
  ELSE buckets

KeyWaiters(k) ==
  Len(buckets[k].tickets) + (IF buckets[k].permitted THEN 1 ELSE 0)

Saturated(k) == KeyWaiters(k) >= WaitersPerKey \/ total_waiters >= TotalWaiters

CanEnter(c) ==
  /\ pc[c] = "out"
  /\ Unlocked
  /\ EntryStatus(c) = "ACQUIRED"

RejectSaturated(c, k, eligible) ==
  /\ CanEnter(c)
  /\ Saturated(k)
  /\ buckets' = Announced(k, eligible)
  /\ status' = [status EXCEPT ![c] = "QUEUE_SATURATED"]
  /\ UNCHANGED <<now, terminal_status, next_ticket, total_waiters, pc, quota,
                 ticket, deadline, cancelled>>

ExhaustTickets(c, k, eligible) ==
  /\ CanEnter(c)
  /\ ~Saturated(k)
  /\ next_ticket = MaxTicket
  /\ EnterTerminalLocked("TICKET_EXHAUSTED", Announced(k, eligible))
  /\ status' = [status EXCEPT ![c] = "TICKET_EXHAUSTED"]
  /\ UNCHANGED <<now, next_ticket, pc, quota, ticket, deadline, cancelled>>

\* Variant: the ticket goes to the front.
TakeTicketInFront(c, k, b, until) ==
  /\ buckets' = [buckets EXCEPT ![k] =
                   [b EXCEPT !.tickets = <<next_ticket>> \o @]]
  /\ next_ticket' = next_ticket + 1
  /\ pc' = [pc EXCEPT ![c] = "entering"]
  /\ quota' = [quota EXCEPT ![c] = k]
  /\ ticket' = [ticket EXCEPT ![c] = next_ticket]
  /\ deadline' = [deadline EXCEPT ![c] = until]

\* c takes the next ticket at the tail of k's queue, b being k's bucket.
TakeTicket(c, k, b, until) ==
  /\ buckets' = [buckets EXCEPT ![k] =
                   [b EXCEPT !.tickets = Append(@, next_ticket)]]
  /\ next_ticket' = next_ticket + 1
  /\ pc' = [pc EXCEPT ![c] = "entering"]
  /\ quota' = [quota EXCEPT ![c] = k]
  /\ ticket' = [ticket EXCEPT ![c] = next_ticket]
  /\ deadline' = [deadline EXCEPT ![c] = until]

Enqueue(c, k, eligible, until) ==
  /\ CanEnter(c)
  /\ ~Saturated(k)
  /\ next_ticket < MaxTicket
  /\ TakeTicket(c, k,
                IF buckets[k].present
                THEN Extended(buckets[k], eligible)
                ELSE [NoBucket EXCEPT !.present = TRUE, !.eligible = eligible],
                until)
  /\ total_waiters' = total_waiters + 1
  /\ UNCHANGED <<now, terminal_status, status, cancelled>>

Acquire(c, k, eligible, until) ==
  \/ ReturnAtOnce(c)
  \/ RejectSaturated(c, k, eligible)
  \/ ExhaustTickets(c, k, eligible)
  \/ Enqueue(c, k, eligible, until)

-----------------------------------------------------------------------------
(* One iteration of WaitForTicket *)

\* c has the mutex: it never gave it up, or its wait slice ended.
Running(c) == pc[c] = "entering" \/ (pc[c] = "waiting" /\ Unlocked)

\* WaitForTicket's own look for a bucket that is gone comes after the look at
\* terminal_status and never succeeds (QueuesExact).
Open(c) == Running(c) /\ terminal_status = "ACQUIRED"

Return(c, s) ==
  /\ pc' = [pc EXCEPT ![c] = "out"]
  /\ quota' = [quota EXCEPT ![c] = AnyKey]
  /\ ticket' = [ticket EXCEPT ![c] = 0]
  /\ deadline' = [deadline EXCEPT ![c] = 0]
  /\ status' = [status EXCEPT ![c] = s]

\* Variant: a thread looks for the close on its way in only.
LeaveClosedEntering(c) ==
  /\ pc[c] = "entering"
  /\ terminal_status # "ACQUIRED"
  /\ Return(c, terminal_status)
  /\ UNCHANGED <<now, terminal_status, next_ticket, total_waiters, buckets,
                 cancelled>>

\* The close removed the ticket already.
LeaveClosed(c) ==
  /\ Running(c)
  /\ terminal_status # "ACQUIRED"
  /\ Return(c, terminal_status)
  /\ UNCHANGED <<now, terminal_status, next_ticket, total_waiters, buckets,
                 cancelled>>

Leave(c, s) ==
  /\ EraseTicketLocked(quota[c], ticket[c])
  /\ Return(c, s)
  /\ UNCHANGED <<now, terminal_status, next_ticket, cancelled>>

LeaveCancelled(c) ==
  /\ Open(c)
  /\ cancelled[c]
  /\ Leave(c, "CANCELLED")

MayTakePermit(c) ==
  LET b == buckets[quota[c]]
  IN  /\ ~b.permitted
      /\ b.tickets # <<>>
      /\ Head(b.tickets) = ticket[c]
      /\ now >= b.eligible
      /\ now <= deadline[c]

TakePermit(c) ==
  /\ Open(c)
  /\ ~cancelled[c]
  /\ MayTakePermit(c)
  /\ buckets' = [buckets EXCEPT ![quota[c]].tickets = Tail(@),
                                ![quota[c]].permitted = TRUE]
  /\ pc' = [pc EXCEPT ![c] = "held"]
  /\ status' = [status EXCEPT ![c] = "ACQUIRED"]
  /\ ticket' = [ticket EXCEPT ![c] = 0]
  /\ deadline' = [deadline EXCEPT ![c] = 0]
  /\ UNCHANGED <<now, terminal_status, next_ticket, total_waiters, quota,
                 cancelled>>

\* The embargo may have grown past the deadline: there is no point in waiting.
OutOfTime(c) ==
  now >= deadline[c] \/ buckets[quota[c]].eligible > deadline[c]

LeaveLate(c) ==
  /\ Open(c)
  /\ ~cancelled[c]
  /\ ~MayTakePermit(c)
  /\ OutOfTime(c)
  /\ Leave(c, "DEADLINE_REACHED")

\* WaitFor releases the mutex for a slice.
StartSlice(c) ==
  /\ pc[c] = "entering"
  /\ terminal_status = "ACQUIRED"
  /\ ~cancelled[c]
  /\ ~MayTakePermit(c)
  /\ ~OutOfTime(c)
  /\ pc' = [pc EXCEPT ![c] = "waiting"]
  /\ UNCHANGED <<now, terminal_status, next_ticket, total_waiters, buckets,
                 status, quota, ticket, deadline, cancelled>>

\* The clock or the wait throws.
WaitThrows(c) ==
  /\ Running(c)
  /\ IF buckets[quota[c]].present
     THEN Leave(c, "THREW")
     ELSE /\ Return(c, "THREW")
          /\ UNCHANGED <<now, terminal_status, next_ticket, total_waiters,
                         buckets, cancelled>>

-----------------------------------------------------------------------------
(* The permit *)

ExtendEligibleTime(c, eligible) ==
  /\ pc[c] = "held"
  /\ Unlocked
  /\ terminal_status = "ACQUIRED"
  /\ buckets[quota[c]].present /\ buckets[quota[c]].permitted
  /\ buckets' = [buckets EXCEPT ![quota[c]] = Extended(@, eligible)]
  /\ UNCHANGED <<now, terminal_status, next_ticket, total_waiters, pc, status,
                 quota, ticket, deadline, cancelled>>

\* Permit::Complete.
GiveBack(c) ==
  LET b == buckets[quota[c]]
  IN  /\ IF b.present /\ b.permitted
         THEN /\ buckets' = [buckets EXCEPT ![quota[c]] =
                               Kept([b EXCEPT !.permitted = FALSE])]
              /\ total_waiters' = total_waiters - 1
         ELSE UNCHANGED <<buckets, total_waiters>>
      /\ pc' = [pc EXCEPT ![c] = "out"]
      /\ quota' = [quota EXCEPT ![c] = AnyKey]
      /\ UNCHANGED <<now, terminal_status, next_ticket, status, ticket,
                     deadline, cancelled>>

Complete(c) ==
  /\ pc[c] = "held"
  /\ Unlocked
  /\ GiveBack(c)

\* Requeue on a closed coordinator or a cancelled stream unlocks, and completes
\* the permit in a critical section of its own.
RequeueRefused(c) ==
  /\ pc[c] = "held"
  /\ Unlocked
  /\ EntryStatus(c) # "ACQUIRED"
  /\ pc' = [pc EXCEPT ![c] = "giving up"]
  /\ status' = [status EXCEPT ![c] = EntryStatus(c)]
  /\ UNCHANGED <<now, terminal_status, next_ticket, total_waiters, buckets,
                 quota, ticket, deadline, cancelled>>

\* The bucket is there and permitted, or Requeue would throw a logic_error
\* (OnePermitPerKey).
CanRequeue(c) ==
  /\ pc[c] = "held"
  /\ Unlocked
  /\ EntryStatus(c) = "ACQUIRED"

RequeueExhausted(c, eligible) ==
  /\ CanRequeue(c)
  /\ next_ticket = MaxTicket
  /\ EnterTerminalLocked("TICKET_EXHAUSTED",
       [buckets EXCEPT ![quota[c]] = Extended(@, eligible)])
  /\ pc' = [pc EXCEPT ![c] = "giving up"]
  /\ status' = [status EXCEPT ![c] = "TICKET_EXHAUSTED"]
  /\ UNCHANGED <<now, next_ticket, quota, ticket, deadline, cancelled>>

\* Variant: the new ticket is counted beside the permit it replaces.
RequeueCountingTwice(c, eligible, until) ==
  /\ CanRequeue(c)
  /\ next_ticket < MaxTicket
  /\ TakeTicket(c, quota[c],
                [Extended(buckets[quota[c]], eligible) EXCEPT !.permitted = FALSE],
                until)
  /\ total_waiters' = total_waiters + 1
  /\ UNCHANGED <<now, terminal_status, status, cancelled>>

\* The permit becomes a ticket at the tail: total_waiters stays.
RequeueAtTail(c, eligible, until) ==
  /\ CanRequeue(c)
  /\ next_ticket < MaxTicket
  /\ TakeTicket(c, quota[c],
                [Extended(buckets[quota[c]], eligible) EXCEPT !.permitted = FALSE],
                until)
  /\ UNCHANGED <<now, terminal_status, total_waiters, status, cancelled>>

Requeue(c, eligible, until) ==
  \/ RequeueRefused(c)
  \/ RequeueExhausted(c, eligible)
  \/ RequeueAtTail(c, eligible, until)

FinishGivingUp(c) ==
  /\ pc[c] = "giving up"
  /\ Unlocked
  /\ GiveBack(c)

Close ==
  /\ Unlocked
  /\ terminal_status = "ACQUIRED"
  /\ EnterTerminalLocked("SCHEDULER_CLOSED", buckets)
  /\ UNCHANGED <<now, next_ticket, pc, status, quota, ticket, deadline,
                 cancelled>>

(* The world around the coordinator. *)

RequestCancellation(c) ==
  /\ ~cancelled[c]
  /\ cancelled' = [cancelled EXCEPT ![c] = TRUE]
  /\ UNCHANGED <<now, terminal_status, next_ticket, total_waiters, buckets, pc,
                 status, quota, ticket, deadline>>

Tick ==
  /\ now < MaxTime
  /\ now' = now + 1
  /\ UNCHANGED <<terminal_status, next_ticket, total_waiters, buckets, pc,
                 status, quota, ticket, deadline, cancelled>>

-----------------------------------------------------------------------------

Iterate(c) ==
  \/ LeaveClosed(c)
  \/ LeaveCancelled(c)
  \/ TakePermit(c)
  \/ LeaveLate(c)
  \/ StartSlice(c)

Next ==
  \/ \E c \in Callers :
       \/ \E k \in Keys, e \in EligibleTimes, d \in Deadlines : Acquire(c, k, e, d)
       \/ Iterate(c)
       \/ WaitThrows(c)
       \/ \E e \in EligibleTimes : ExtendEligibleTime(c, e)
       \/ Complete(c)
       \/ \E e \in EligibleTimes, d \in Deadlines : Requeue(c, e, d)
       \/ FinishGivingUp(c)
       \/ RequestCancellation(c)
  \/ Close
  \/ Tick

Spec == Init /\ [][Next]_vars

\* A thread inside the coordinator runs: it is notified or its slice, at most
\* five milliseconds, ends.  The clock advances.
FairSpec ==
  /\ Spec
  /\ \A c \in Callers : WF_vars(Iterate(c) \/ FinishGivingUp(c))
  /\ WF_vars(Tick)

-----------------------------------------------------------------------------
(* Properties *)

Holders(k) == {c \in Callers : pc[c] \in Owning /\ quota[c] = k}

\* At most one stream owns the transport authority of a quota key, and the
\* bucket says so exactly while it does, after a close too: Complete can never
\* take back somebody else's permit and Requeue never finds its own gone.
OnePermitPerKey ==
  \A k \in Keys :
    /\ Cardinality(Holders(k)) = (IF buckets[k].permitted THEN 1 ELSE 0)
    /\ buckets[k].permitted => buckets[k].present

\* The callers that count as waiters.
Counted ==
  {c \in Callers : \/ pc[c] \in Owning
                   \/ pc[c] \in Queued /\ terminal_status = "ACQUIRED"}

\* While the coordinator is open, the tickets in the buckets are those of the
\* callers that wait, each once and in its own bucket, and an empty bucket is
\* erased; once it is terminal no ticket is left.  total_waiters, kept by
\* increments and decrements in six places, is the number of streams that are
\* queued or permitted, and neither it nor a key's share of it passes its limit.
\* A close, a failed wait or a requeue loses no ticket and leaks no slot.
QueuesExact ==
  /\ terminal_status = "ACQUIRED" =>
       \A c \in Callers :
         pc[c] \in Queued =>
           /\ buckets[quota[c]].present
           /\ \E i \in DOMAIN buckets[quota[c]].tickets :
                buckets[quota[c]].tickets[i] = ticket[c]
  /\ \A k \in Keys : \A i \in DOMAIN buckets[k].tickets :
       /\ terminal_status = "ACQUIRED"
       /\ \E c \in Callers : /\ pc[c] \in Queued
                             /\ quota[c] = k
                             /\ ticket[c] = buckets[k].tickets[i]
  /\ \A k \in Keys :
       buckets[k].present <=> (buckets[k].permitted \/ buckets[k].tickets # <<>>)
  /\ total_waiters = Cardinality(Counted)
  /\ total_waiters <= TotalWaiters
  /\ \A k \in Keys :
       /\ KeyWaiters(k) = Cardinality({c \in Counted : quota[c] = k})
       /\ KeyWaiters(k) <= WaitersPerKey

\* FIFO per key: whoever obtains the permit holds the oldest live ticket of its
\* key; a stream that was limited again went behind those that waited.
FifoPerKey ==
  [][\A c, d \in Callers :
       /\ pc[c] # "held" /\ pc'[c] = "held"
       /\ pc[d] \in Queued /\ quota[d] = quota[c]
       => ticket[c] <= ticket[d]]_vars

\* A key's embargo is only ever extended while its bucket lives, by callers
\* that are refused too, and nobody obtains the permit before it has passed.
EmbargoKept ==
  [][\A k \in Keys :
       /\ buckets[k].present /\ buckets'[k].present =>
            buckets'[k].eligible >= buckets[k].eligible
       /\ ~buckets[k].permitted /\ buckets'[k].permitted =>
            now >= buckets[k].eligible]_vars

\* Every call returns.
WaitReturns ==
  \A c \in Callers :
    pc[c] \in Queued \cup {"giving up"} ~> pc[c] \in {"out", "held"}
=============================================================================

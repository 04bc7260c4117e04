------------------------- MODULE AdmissionController -------------------------
(***************************************************************************)
(* The process-wide admission controller                                   *)
(* (src/src/runtime/execution/admission_controller.cpp).                   *)
(*                                                                         *)
(* One mutex protects counters of seven resources and of three FIFO        *)
(* queues.  A caller is a thread together with the Permit object it passes *)
(* to the controller.  Every action below is one critical section of that  *)
(* mutex, or one step a caller takes outside of it.                        *)
(*                                                                         *)
(* Abstractions: an identity is the set of counters it is charged to;      *)
(* diagnostics (the AdmissionObservation) and allocation failures while a  *)
(* counter entry is inserted are left out; a critical section reads one    *)
(* instant of the clock.                                                   *)
(***************************************************************************)
EXTENDS Naturals, FiniteSets

CONSTANTS
  Callers,         \* threads, each with one Permit object
  Identity,        \* Identity[c] : the AdmissionIdentity c acquires under
  ResourceLimits,  \* ResourceLimits[r][scope] : the profile's capacity
  QueueLimits,     \* QueueLimits[r][scope] : the profile's queue capacity
  Calls,           \* Calls[c] : the resources c may ask for
  WaitPolicies,    \* the deadlines a caller may pass
  MaxAmount,       \* bound: largest amount of bytes or rows reserved
  MaxTicket,       \* bound: stands for numeric_limits<uint64_t>::max()
  MaxTime          \* bound: last instant of the steady clock

QueuedResources == {"CREDENTIAL_RESOLUTION", "ACTIVE_SCAN", "REQUEST"}
ImmediateResources ==
  {"RETRY_WAITER", "RATE_LIMIT_WAITER", "BUFFERED_BYTES", "BUFFERED_ROWS"}
Resources == QueuedResources \cup ImmediateResources

\* CheckFits visits the scopes in this order.
Scopes == {"GLOBAL", "CONNECTOR", "DESTINATION", "PRINCIPAL", "BULKHEAD"}
ScopeRank == [GLOBAL |-> 1, CONNECTOR |-> 2, DESTINATION |-> 3,
              PRINCIPAL |-> 4, BULKHEAD |-> 5]

\* Only a complete identity with an opaque authority is counted per principal;
\* a complete identity is also counted in its bulkhead.
UsesPrincipal(id) == id.complete /\ id.principal.kind = "OPAQUE_AUTHORITY"

KeysOf(c) ==
  LET id == Identity[c]
  IN  {<<"GLOBAL">>, <<"CONNECTOR", id.connector>>,
       <<"DESTINATION", id.destination>>}
      \cup (IF UsesPrincipal(id) THEN {<<"PRINCIPAL", id.principal>>} ELSE {})
      \cup (IF id.complete
            THEN {<<"BULKHEAD", id.connector, id.destination, id.operation,
                    id.principal>>}
            ELSE {})

CounterKeys == UNION {KeysOf(c) : c \in Callers}

\* A deadline that is absent (has_..._deadline = false) is never reached.
NoDeadline == MaxTime + 1
WaitPolicy == [queue : 0..NoDeadline, aggregate : 0..NoDeadline,
               scan : 0..NoDeadline]
NoWait == [queue |-> NoDeadline, aggregate |-> NoDeadline,
           scan |-> NoDeadline]

NoPermit == [resource |-> "NONE", amount |-> 0]
NoTicket == [resource |-> "NONE", ordinal |-> 0, wait |-> NoWait]

ASSUME BoundsAssumption ==
  /\ IsFiniteSet(Callers)
  /\ MaxAmount \in Nat \ {0}
  /\ MaxTicket \in Nat \ {0}
  /\ MaxTime \in Nat

ASSUME ProfileAssumption ==
  /\ ResourceLimits \in [Resources -> [Scopes -> Nat]]
  /\ QueueLimits \in [QueuedResources -> [Scopes -> Nat]]
  /\ WaitPolicies \subseteq WaitPolicy

\* AcquireCredentialResolution takes a preliminary identity only, every other
\* acquisition a complete one.
ASSUME CallsAssumption ==
  \A c \in Callers :
    Calls[c] \subseteq IF Identity[c].complete
                       THEN Resources \ {"CREDENTIAL_RESOLUTION"}
                       ELSE {"CREDENTIAL_RESOLUTION"}

VARIABLES
  now,              \* the steady clock
  terminal_reason,  \* "NONE" while the controller is open
  next_ticket,      \* next_ticket[r] : next ordinal of r's queue
  resources,        \* resources[r][k] : units of r charged to counter k
  queues,           \* queues[r][k] : tickets of r's queue charged to k
  ticket,           \* ticket[c] : c's queued Ticket, NoTicket if none
  permit,           \* permit[c] : the authority granted to c
  pc,               \* where c is, or the status its last call returned
  cancelled         \* cancelled[c] : c's cancellation was requested

vars == <<now, terminal_reason, next_ticket, resources, queues, ticket,
          permit, pc, cancelled>>

\* A caller that is not inside a call and owns no authority.
Returned == {"idle", "REJECTED", "CANCELLED", "SCAN_DEADLINE_REACHED", "THREW"}

TypeOK ==
  /\ now \in 0..MaxTime
  /\ terminal_reason \in {"NONE", "RUNTIME_CLOSED", "TICKET_EXHAUSTED"}
  /\ next_ticket \in [QueuedResources -> 1..MaxTicket]
  /\ resources \in [Resources -> [CounterKeys -> Nat]]
  /\ queues \in [QueuedResources -> [CounterKeys -> Nat]]
  /\ ticket \in [Callers -> [resource : QueuedResources \cup {"NONE"},
                             ordinal : 0..MaxTicket, wait : WaitPolicy]]
  /\ permit \in [Callers -> [resource : Resources \cup {"NONE"},
                             amount : 0..MaxAmount]]
  /\ pc \in [Callers -> Returned \cup {"waiting", "granted", "unlocked", "held"}]
  /\ cancelled \in [Callers -> BOOLEAN]

Init ==
  /\ now = 0
  /\ terminal_reason = "NONE"
  /\ next_ticket = [r \in QueuedResources |-> 1]
  /\ resources = [r \in Resources |-> [k \in CounterKeys |-> 0]]
  /\ queues = [r \in QueuedResources |-> [k \in CounterKeys |-> 0]]
  /\ ticket = [c \in Callers |-> NoTicket]
  /\ permit = [c \in Callers |-> NoPermit]
  /\ pc = [c \in Callers |-> "idle"]
  /\ cancelled = [c \in Callers |-> FALSE]

-----------------------------------------------------------------------------
(* Counters *)

\* The counters in which n more units do not fit, and the first one in
\* CheckFits' order: the only one whose limit the caller looks at.
Blocking(counts, limits, c, n) ==
  {k \in KeysOf(c) : counts[k] + n > limits[k[1]]}

CheckFits(counts, limits, c, n) == Blocking(counts, limits, c, n) = {}

\* No release can ever make room: the first blocking limit is below the request.
NeverFits(counts, limits, c, n) ==
  \E k \in Blocking(counts, limits, c, n) :
    /\ limits[k[1]] < n
    /\ \A j \in Blocking(counts, limits, c, n) :
         ScopeRank[k[1]] <= ScopeRank[j[1]]

AddUsage(counts, c, n) ==
  [k \in CounterKeys |-> IF k \in KeysOf(c) THEN counts[k] + n ELSE counts[k]]

\* Variant: the bulkhead counter is forgotten.
SubtractUsageForgetsBulkhead(counts, c, n) ==
  [k \in CounterKeys |-> IF k \in KeysOf(c) /\ k[1] # "BULKHEAD"
                         THEN counts[k] - n ELSE counts[k]]

SubtractUsage(counts, c, n) ==
  [k \in CounterKeys |-> IF k \in KeysOf(c) THEN counts[k] - n ELSE counts[k]]

-----------------------------------------------------------------------------
(* Granting tickets *)

DeadlineReached(w) == now >= w.queue \/ now >= w.aggregate \/ now >= w.scan

TicketExpired(c) == DeadlineReached(ticket[c].wait)

Waiting(r, tickets) == {c \in Callers : tickets[c].resource = r}

\* Variant: the pass still grants after the close.
EligibleAfterClose(r, tickets) ==
  {c \in Waiting(r, tickets) : ~DeadlineReached(tickets[c].wait)}

\* The tickets a granting pass considers: none once the controller is terminal.
Eligible(r, tickets) ==
  {c \in Waiting(r, tickets) :
     terminal_reason = "NONE" /\ ~DeadlineReached(tickets[c].wait)}

Charged(G, k) == {c \in G : k \in KeysOf(c)}

\* Variant: new tickets join at the front of the queue.
EarlierIsLater(c, G, tickets) == {d \in G : tickets[d].ordinal > tickets[c].ordinal}

Earlier(c, G, tickets) == {d \in G : tickets[d].ordinal < tickets[c].ordinal}

\* Variant: usage is read once, before the pass, so grants of the same pass do
\* not see each other.
IsFifoGrantAgainstOldUsage(G, r, counts, tickets) ==
  \A c \in Eligible(r, tickets) :
    c \in G <=> CheckFits(counts, ResourceLimits[r], c, 1)

\* G is what one pass over the FIFO grants: a ticket is granted exactly when it
\* fits beside the current usage and the earlier tickets granted in the pass.
IsFifoGrant(G, r, counts, tickets) ==
  \A c \in Eligible(r, tickets) :
    c \in G <=>
      \A k \in KeysOf(c) :
        counts[k] + Cardinality(Charged(Earlier(c, G, tickets), k)) + 1
          <= ResourceLimits[r][k[1]]

\* GrantEligibleLocked(r), on the counters, tickets, permits and caller states
\* the critical section has reached.
GrantEligibleLocked(r, used, queued, tickets, permits, states) ==
  \E G \in SUBSET Eligible(r, tickets) :
    /\ IsFifoGrant(G, r, used[r], tickets)
    /\ resources' =
         [used EXCEPT ![r] =
            [k \in CounterKeys |-> used[r][k] + Cardinality(Charged(G, k))]]
    /\ queues' =
         [queued EXCEPT ![r] =
            [k \in CounterKeys |-> queued[r][k] - Cardinality(Charged(G, k))]]
    /\ ticket' = [c \in Callers |-> IF c \in G THEN NoTicket ELSE tickets[c]]
    /\ permit' = [c \in Callers |-> IF c \in G
                                    THEN [resource |-> r, amount |-> 1]
                                    ELSE permits[c]]
    /\ pc' = [c \in Callers |-> IF c \in G THEN "granted" ELSE states[c]]

-----------------------------------------------------------------------------
(* AcquireQueued *)

\* The early returns of AcquireQueued, in their order; "NONE" if it goes on.
EntryStatus(c, r, w) ==
  IF terminal_reason # "NONE" THEN "REJECTED"
  ELSE IF cancelled[c] THEN "CANCELLED"
  ELSE IF now >= w.scan THEN "SCAN_DEADLINE_REACHED"
  ELSE IF \/ now >= w.aggregate
          \/ now >= w.queue
          \/ NeverFits(resources[r], ResourceLimits[r], c, 1) THEN "REJECTED"
  ELSE "NONE"

CanCall(c, r) == pc[c] \in Returned /\ r \in Calls[c]

\* Room, and nobody queued for the same resource: no ticket is taken.
FastPath(c, r) ==
  /\ CheckFits(resources[r], ResourceLimits[r], c, 1)
  /\ Waiting(r, ticket) = {}

ReturnAtOnce(c, r, w) ==
  /\ CanCall(c, r)
  /\ EntryStatus(c, r, w) # "NONE"
  /\ pc' = [pc EXCEPT ![c] = EntryStatus(c, r, w)]
  /\ UNCHANGED <<now, terminal_reason, next_ticket, resources, queues, ticket,
                 permit, cancelled>>

AcquireAtOnce(c, r, w) ==
  /\ CanCall(c, r)
  /\ EntryStatus(c, r, w) = "NONE"
  /\ FastPath(c, r)
  /\ resources' = [resources EXCEPT ![r] = AddUsage(@, c, 1)]
  /\ permit' = [permit EXCEPT ![c] = [resource |-> r, amount |-> 1]]
  /\ pc' = [pc EXCEPT ![c] = "unlocked"]
  /\ UNCHANGED <<now, terminal_reason, next_ticket, queues, ticket, cancelled>>

RejectSaturated(c, r, w) ==
  /\ CanCall(c, r)
  /\ EntryStatus(c, r, w) = "NONE"
  /\ ~FastPath(c, r)
  /\ ~CheckFits(queues[r], QueueLimits[r], c, 1)
  /\ pc' = [pc EXCEPT ![c] = "REJECTED"]
  /\ UNCHANGED <<now, terminal_reason, next_ticket, resources, queues, ticket,
                 permit, cancelled>>

\* The ordinal would wrap: the controller becomes terminal for everybody.
ExhaustTickets(c, r, w) ==
  /\ CanCall(c, r)
  /\ EntryStatus(c, r, w) = "NONE"
  /\ ~FastPath(c, r)
  /\ CheckFits(queues[r], QueueLimits[r], c, 1)
  /\ next_ticket[r] = MaxTicket
  /\ terminal_reason' = "TICKET_EXHAUSTED"
  /\ pc' = [pc EXCEPT ![c] = "REJECTED"]
  /\ UNCHANGED <<now, next_ticket, resources, queues, ticket, permit,
                 cancelled>>

\* The new ticket joins the queue and a granting pass follows; it may grant the
\* new ticket itself (everybody before it is blocked by other counters).
Enqueue(c, r, w) ==
  /\ CanCall(c, r)
  /\ EntryStatus(c, r, w) = "NONE"
  /\ ~FastPath(c, r)
  /\ CheckFits(queues[r], QueueLimits[r], c, 1)
  /\ next_ticket[r] < MaxTicket
  /\ next_ticket' = [next_ticket EXCEPT ![r] = @ + 1]
  /\ GrantEligibleLocked(
       r, resources,
       [queues EXCEPT ![r] = AddUsage(@, c, 1)],
       [ticket EXCEPT ![c] = [resource |-> r, ordinal |-> next_ticket[r],
                              wait |-> w]],
       permit,
       [pc EXCEPT ![c] = "waiting"])
  /\ UNCHANGED <<now, terminal_reason, cancelled>>

AcquireQueued(c, r, w) ==
  \/ ReturnAtOnce(c, r, w)
  \/ AcquireAtOnce(c, r, w)
  \/ RejectSaturated(c, r, w)
  \/ ExhaustTickets(c, r, w)
  \/ Enqueue(c, r, w)

\* Variant: the capacity is returned, but nobody is granted it.
GiveBackWithoutPass(c, status) ==
  LET r == permit[c].resource
  IN  /\ resources' = [resources EXCEPT ![r] =
                         SubtractUsage(@, c, permit[c].amount)]
      /\ permit' = [permit EXCEPT ![c] = NoPermit]
      /\ pc' = [pc EXCEPT ![c] = status]
      /\ UNCHANGED <<now, terminal_reason, next_ticket, queues, ticket,
                     cancelled>>

\* c gives its authority back and, in the same critical section, a granting
\* pass hands it on.
GiveBack(c, status) ==
  LET r == permit[c].resource
      used == [resources EXCEPT ![r] = SubtractUsage(@, c, permit[c].amount)]
      permits == [permit EXCEPT ![c] = NoPermit]
      states == [pc EXCEPT ![c] = status]
  IN  /\ IF r \in QueuedResources
         THEN GrantEligibleLocked(r, used, queues, ticket, permits, states)
         ELSE /\ resources' = used
              /\ permit' = permits
              /\ pc' = states
              /\ UNCHANGED <<queues, ticket>>
      /\ UNCHANGED <<now, terminal_reason, next_ticket, cancelled>>

(* One iteration of the waiting loop of AcquireQueued. *)

\* A granted ticket wins over a close, a cancellation and a deadline.
Materialize(c) ==
  /\ pc[c] = "granted"
  /\ pc' = [pc EXCEPT ![c] = "unlocked"]
  /\ UNCHANGED <<now, terminal_reason, next_ticket, resources, queues, ticket,
                 permit, cancelled>>

\* Variant: the failure path takes the ticket out of the queue's counters once
\* more.
MaterializationThrowsRemovesTicket(c) ==
  /\ pc[c] = "granted"
  /\ resources' = [resources EXCEPT ![permit[c].resource] = SubtractUsage(@, c, 1)]
  /\ queues' = [queues EXCEPT ![permit[c].resource] = SubtractUsage(@, c, 1)]
  /\ permit' = [permit EXCEPT ![c] = NoPermit]
  /\ pc' = [pc EXCEPT ![c] = "THREW"]
  /\ UNCHANGED <<now, terminal_reason, next_ticket, ticket, cancelled>>

\* BeforeMaterialization or the allocation of the permit throws.
MaterializationThrows(c) ==
  /\ pc[c] = "granted"
  /\ GiveBack(c, "THREW")

\* Variant: the loop watches the scan deadline, but not the queue's.
LoopStatusWithoutQueueDeadline(c) ==
  IF terminal_reason # "NONE" THEN "REJECTED"
  ELSE IF cancelled[c] THEN "CANCELLED"
  ELSE IF now >= ticket[c].wait.scan THEN "SCAN_DEADLINE_REACHED"
  ELSE "NONE"

LoopStatus(c) ==
  IF terminal_reason # "NONE" THEN "REJECTED"
  ELSE IF cancelled[c] THEN "CANCELLED"
  ELSE IF now >= ticket[c].wait.scan THEN "SCAN_DEADLINE_REACHED"
  ELSE IF TicketExpired(c) THEN "REJECTED"
  ELSE "NONE"

\* RemoveTicketLocked and return.
Withdraw(c) ==
  /\ pc[c] = "waiting"
  /\ LoopStatus(c) # "NONE"
  /\ queues' = [queues EXCEPT ![ticket[c].resource] = SubtractUsage(@, c, 1)]
  /\ ticket' = [ticket EXCEPT ![c] = NoTicket]
  /\ pc' = [pc EXCEPT ![c] = LoopStatus(c)]
  /\ UNCHANGED <<now, terminal_reason, next_ticket, resources, permit,
                 cancelled>>

\* Still waiting: a granting pass, then another slice of waiting.
Recheck(c) ==
  /\ pc[c] = "waiting"
  /\ LoopStatus(c) = "NONE"
  /\ GrantEligibleLocked(ticket[c].resource, resources, queues, ticket, permit,
                         pc)
  /\ UNCHANGED <<now, terminal_reason, next_ticket, cancelled>>

\* The wait on the condition variable throws: the ticket is taken out, and a
\* granting pass follows it as everywhere else.
WaitThrows(c) ==
  LET r == ticket[c].resource
  IN  /\ pc[c] = "waiting"
      /\ GrantEligibleLocked(r, resources,
                             [queues EXCEPT ![r] = SubtractUsage(@, c, 1)],
                             [ticket EXCEPT ![c] = NoTicket],
                             permit,
                             [pc EXCEPT ![c] = "THREW"])
      /\ UNCHANGED <<now, terminal_reason, next_ticket, cancelled>>

\* The last look at the cancellation flag, after the mutex was unlocked.
FinishAcquire(c) ==
  /\ pc[c] = "unlocked"
  /\ IF cancelled[c]
     THEN GiveBack(c, "CANCELLED")
     ELSE /\ pc' = [pc EXCEPT ![c] = "held"]
          /\ UNCHANGED <<now, terminal_reason, next_ticket, resources, queues,
                         ticket, permit, cancelled>>

-----------------------------------------------------------------------------
(* Immediate resources, release, close *)

AcquireImmediate(c, r, n) ==
  /\ CanCall(c, r)
  /\ IF /\ terminal_reason = "NONE"
        /\ CheckFits(resources[r], ResourceLimits[r], c, n)
     THEN /\ resources' = [resources EXCEPT ![r] = AddUsage(@, c, n)]
          /\ permit' = [permit EXCEPT ![c] = [resource |-> r, amount |-> n]]
          /\ pc' = [pc EXCEPT ![c] = "held"]
     ELSE /\ pc' = [pc EXCEPT ![c] = "REJECTED"]
          /\ UNCHANGED <<resources, permit>>
  /\ UNCHANGED <<now, terminal_reason, next_ticket, queues, ticket, cancelled>>

\* Waiter reservations are for one unit, buffer reservations for any amount.
AmountsOf(r) ==
  IF r \in {"BUFFERED_BYTES", "BUFFERED_ROWS"} THEN 1..MaxAmount ELSE {1}

\* Shrinking is allowed at any time; growing is a new acquisition of the
\* difference.  A refused growth leaves the reservation as it was.
ResizeBufferedBytes(c, n) ==
  /\ pc[c] = "held"
  /\ permit[c].resource = "BUFFERED_BYTES"
  /\ n # permit[c].amount
  /\ \/ /\ n < permit[c].amount
        /\ resources' = [resources EXCEPT !["BUFFERED_BYTES"] =
                           SubtractUsage(@, c, permit[c].amount - n)]
     \/ /\ n > permit[c].amount
        /\ terminal_reason = "NONE"
        /\ CheckFits(resources["BUFFERED_BYTES"],
                     ResourceLimits["BUFFERED_BYTES"], c, n - permit[c].amount)
        /\ resources' = [resources EXCEPT !["BUFFERED_BYTES"] =
                           AddUsage(@, c, n - permit[c].amount)]
  /\ permit' = [permit EXCEPT ![c].amount = n]
  /\ UNCHANGED <<now, terminal_reason, next_ticket, queues, ticket, pc,
                 cancelled>>

\* Permit::Release, the destructor and the move assignment.
Release(c) ==
  /\ pc[c] = "held"
  /\ GiveBack(c, "idle")

Close ==
  /\ terminal_reason = "NONE"
  /\ terminal_reason' = "RUNTIME_CLOSED"
  /\ UNCHANGED <<now, next_ticket, resources, queues, ticket, permit, pc,
                 cancelled>>

(* The world around the controller. *)

RequestCancellation(c) ==
  /\ ~cancelled[c]
  /\ cancelled' = [cancelled EXCEPT ![c] = TRUE]
  /\ UNCHANGED <<now, terminal_reason, next_ticket, resources, queues, ticket,
                 permit, pc>>

Tick ==
  /\ now < MaxTime
  /\ now' = now + 1
  /\ UNCHANGED <<terminal_reason, next_ticket, resources, queues, ticket,
                 permit, pc, cancelled>>

-----------------------------------------------------------------------------

Next ==
  \/ \E c \in Callers :
       \/ \E r \in QueuedResources, w \in WaitPolicies : AcquireQueued(c, r, w)
       \/ Materialize(c)
       \/ MaterializationThrows(c)
       \/ Withdraw(c)
       \/ Recheck(c)
       \/ WaitThrows(c)
       \/ FinishAcquire(c)
       \/ \E r \in ImmediateResources :
            \E n \in AmountsOf(r) : AcquireImmediate(c, r, n)
       \/ \E n \in 1..MaxAmount : ResizeBufferedBytes(c, n)
       \/ Release(c)
       \/ RequestCancellation(c)
  \/ Close
  \/ Tick

Spec == Init /\ [][Next]_vars

\* A thread inside AcquireQueued runs: its condition variable is notified or
\* its wait slice ends.  The clock advances.  Nothing else is assumed.
Poll(c) == Materialize(c) \/ Withdraw(c) \/ FinishAcquire(c)

FairSpec ==
  /\ Spec
  /\ \A c \in Callers : WF_vars(Poll(c))
  /\ WF_vars(Tick)

-----------------------------------------------------------------------------
(* Properties *)

\* The units of resource r that are really out, counted against k.
HeldUnits(r, k) ==
  {u \in Callers \X (1..MaxAmount) :
     /\ permit[u[1]].resource = r
     /\ u[2] <= permit[u[1]].amount
     /\ k \in KeysOf(u[1])}

\* The tickets of r's queue counted against k.
QueuedTickets(r, k) == Charged(Waiting(r, ticket), k)

\* The counters the code maintains by adding and subtracting are, in every
\* dimension, exactly the authority that is out and the tickets that wait:
\* no path through grant, cancellation, timeout, close, failed materialization
\* or resize leaks or double-counts a unit.
LedgerExact ==
  /\ \A r \in Resources, k \in CounterKeys :
       resources[r][k] = Cardinality(HeldUnits(r, k))
  /\ \A r \in QueuedResources, k \in CounterKeys :
       queues[r][k] = Cardinality(QueuedTickets(r, k))

\* No counter of a resource or of a queue ever passes the profile's limit,
\* although a granting pass admits several tickets in one critical section.
WithinLimits ==
  /\ \A r \in Resources, k \in CounterKeys :
       resources[r][k] <= ResourceLimits[r][k[1]]
  /\ \A r \in QueuedResources, k \in CounterKeys :
       queues[r][k] <= QueueLimits[r][k[1]]

\* Work conservation: while the controller is open, no live ticket waits for
\* capacity that is free.  (Every release runs a granting pass; a withdrawal
\* frees no capacity and needs none.)
NoIdleCapacity ==
  terminal_reason = "NONE" =>
    \A c \in Callers :
      ticket[c] # NoTicket /\ ~TicketExpired(c) =>
        ~CheckFits(resources[ticket[c].resource],
                   ResourceLimits[ticket[c].resource], c, 1)

\* c obtains queued resource r in this step.
Gains(c, r) == permit[c].resource # r /\ permit'[c].resource = r

\* FIFO: a live ticket is never overtaken by a caller that needs at least the
\* same counters, neither by a later ticket nor by a call on the fast path.
NoOvertaking ==
  [][\A c, d \in Callers, r \in QueuedResources :
       /\ Gains(c, r)
       /\ ticket[d].resource = r
       /\ ~TicketExpired(d)
       /\ ticket[c].resource = r => ticket[d].ordinal < ticket[c].ordinal
       /\ c # d
       /\ KeysOf(d) \subseteq KeysOf(c)
       => Gains(d, r)]_vars

\* The controller implements the abstract ledger: whatever the interleaving of
\* grants, failures, cancellations and the close, the authority that is out
\* stays within capacity and, once the controller is terminal, only shrinks.
Ledger ==
  INSTANCE AdmissionLedger
  WITH open <- terminal_reason = "NONE",
       held <- permit,
       Keys <- [c \in Callers |-> KeysOf(c)],
       Limits <- [r \in Resources |->
                    [k \in CounterKeys |-> ResourceLimits[r][k[1]]]]

ImplementsLedger == Ledger!Spec

\* Every call that waits returns: granted, withdrawn or given up.
CallReturns ==
  \A c \in Callers :
    pc[c] \in {"waiting", "granted", "unlocked"} ~> pc[c] \in Returned \cup {"held"}

=============================================================================

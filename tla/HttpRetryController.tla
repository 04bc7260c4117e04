------------------------ MODULE HttpRetryController ------------------------
(***************************************************************************)
(* The attempt loop of one stream, ExecuteHttpStepWithRetry                *)
(* (src/src/include/duckdb_api/internal/runtime/execution/                 *)
(* http_retry_controller.hpp), called once for every page by the stream    *)
(* that owns the accounting.                                               *)
(*                                                                         *)
(* The loop runs in one thread.  What interleaves with it is the clock,    *)
(* the cancellation that another thread requests, and the shared           *)
(* components it waits for: the admission controller and the rate-limit    *)
(* coordinator, which have modules of their own and appear here by what    *)
(* their calls may answer; and the transport.                              *)
(*                                                                         *)
(* Abstractions: the jitter of a retry delay is any delay up to the policy *)
(* limit; guidance is a delay, 0 for immediate, or unusable; which error   *)
(* an exception carries is left out.                                       *)
(***************************************************************************)
EXTENDS Naturals, FiniteSets

CONSTANTS
  Bytes, Page, Scan, AdmissionWaiting, ClockMax, MaxAmount, MaxTime,
  Retry,           \* the ordinary retry policy
  RateLimit,       \* the admitted rate-limit policy
  QueueTimeout,    \* request_queue_timeout_milliseconds
  RequestBody,     \* size of the request body, 0 if there is none
  Header,          \* the one of Bytes that counts response headers
  Metadata,        \* max_metadata_bytes: memory for the headers to keep
  RemoteBuckets,   \* values of the remote bucket header
  GuidanceDelays,  \* delays that guidance may announce
  Absent           \* a response without bucket header, or with bad guidance

Modes == {"FAIL", "WAIT", "WAIT_IF_DEADLINE_ALLOWS"}

\* What BuildResourceProfile and TryAdmitResiliencePolicies establish.
ASSUME PolicyAssumption ==
  /\ Retry \in [step : Nat \ {0}, scan : Nat, delay : Nat, waiting : Nat]
  /\ RateLimit \in [mode : Modes, step : Nat \ {0}, scan : Nat, waiting : Nat]
  /\ Page.attempts = IF Retry.step >= RateLimit.step THEN Retry.step ELSE RateLimit.step
  /\ Scan.retry = Retry.waiting
  /\ Scan.rate = RateLimit.waiting
  /\ QueueTimeout \in Nat
  /\ RequestBody \in Nat
  /\ RequestBody = 0 <=> Page.body = 0
  /\ Header \in Bytes
  /\ Metadata \in 0..Page.bytes[Header]
  /\ GuidanceDelays \subseteq Nat
  /\ Absent \notin RemoteBuckets \cup GuidanceDelays

VARIABLES
  state, counters, deadline_started, deadline, current_step_attempts,
  current_step_page_committed, active_allowance, now,
  pc,              \* where the stream's thread is
  held,            \* what the step holds of the shared components
  step,            \* the locals of the loop
  repeats,         \* ResilienceExecutionState: repeats of the scan
  wait,            \* the locals of the current wait
  cancelled,       \* the stream's cancellation was requested
  seen             \* history: attempts debited when it was

Acc == INSTANCE ScanResourceAccounting

\* What the accounting's constructor establishes.
ASSUME AccountingAssumption ==
  /\ ClockMax \in Nat
  /\ AdmissionWaiting \in Nat
  /\ MaxAmount \in Nat
  /\ MaxTime \in Nat
  /\ Acc!ValidateProfile

accounting == <<state, counters, deadline_started, deadline, current_step_attempts,
                current_step_page_committed, active_allowance>>

loop == <<pc, held, step, repeats, wait>>

vars == <<accounting, now, loop, cancelled, seen>>

Holdings == {"permit", "request", "buffers", "response", "rate waiter", "retry waiter"}

RetryWaits == {"retry wait", "slice", "retried"}

QuotaWaits == {"quota wait", "rate wait"}

Asking == {"top", "quota wait", "admission", "admitted"}

Attempting == {"building", "transport", "limited", "rate wait", "failed"} \cup RetryWaits

\* Where the stream is when no step runs.
Outside == {"between", "responded", "threw"}

FreshStep == [ordinary |-> 0, limited |-> 0, immediate |-> FALSE,
              bucket |-> {}, quota |-> FALSE]

NoWait == [started |-> 0, end |-> 0, eligible |-> 0, delay |-> 0, waited |-> 0]

TypeOK ==
  /\ Acc!TypeOK
  /\ pc \in Outside \cup Asking \cup Attempting
  /\ held \subseteq Holdings
  /\ step \in [ordinary : 0..(Retry.step - 1), limited : 0..(RateLimit.step - 1),
               immediate : BOOLEAN, bucket : SUBSET (RemoteBuckets \cup {Absent}),
               quota : BOOLEAN]
  /\ repeats \in [ordinary : Nat, limited : Nat]
  /\ wait \in [started : Nat, end : Nat, eligible : Nat, delay : Nat, waited : Nat]
  /\ cancelled \in BOOLEAN
  /\ seen \in Nat

Init ==
  /\ Acc!Init
  /\ now = 0
  /\ pc = "between"
  /\ held = {}
  /\ step = FreshStep
  /\ repeats = [ordinary |-> 0, limited |-> 0]
  /\ wait = NoWait
  /\ cancelled = FALSE
  /\ seen = 0

-----------------------------------------------------------------------------
(* Control *)

Smaller(a, b) == IF a <= b THEN a ELSE b

Remaining(limit, used) == IF used >= limit THEN 0 ELSE limit - used

\* An exception leaves the loop: every permit and reservation is destroyed.
Throw ==
  /\ pc' = "threw"
  /\ held' = {}

\* Carry on, unless the accounting call made in this step has thrown.
Proceed(next, holding) ==
  IF state' = "FAILED" THEN Throw ELSE pc' = next /\ held' = holding

\* What rate-limit waiting has left.
WaitAuthority ==
  Smaller(Remaining(Scan.waiting, counters.waiting),
          Remaining(RateLimit.waiting, counters.rate))

RepeatLimit(per_scan) == Remaining(per_scan, Scan.pages)

\* Variant: the scan's ordinal is left behind.
CountRepeatOfStep(mechanism) ==
  /\ step' = [step EXCEPT ![mechanism] = @ + 1]
  /\ UNCHANGED repeats

CountRepeat(mechanism) ==
  /\ step' = [step EXCEPT ![mechanism] = @ + 1]
  /\ repeats' = [repeats EXCEPT ![mechanism] = @ + 1]

Start(end, eligible) ==
  wait' = [NoWait EXCEPT !.started = now, !.end = end, !.eligible = eligible]

\* A quota wait ends with the scan or with the waiting budgets.
QuotaEnd == Smaller(deadline, now + WaitAuthority)

\* Variant: the wait for admission has no end of its own.
AdmissionEndNever == ClockMax

AdmissionEnd ==
  Smaller(deadline, now + Smaller(QueueTimeout,
                                  Remaining(AdmissionWaiting, counters.admission)))

\* The answers of a waiting call; one that takes its caller past the end of its
\* wait may still have been granted before.
Answers ==
  {a \in {"ACQUIRED", "CANCELLED", "EXPIRED", "REFUSED"} :
     /\ a = "ACQUIRED" => now >= wait.eligible
     /\ a = "CANCELLED" => cancelled
     /\ a = "EXPIRED" => now >= wait.end}

-----------------------------------------------------------------------------
(* The top of the loop *)

BeginStep ==
  /\ pc = "between"
  /\ state = "READY"
  /\ Acc!BeginStep
  /\ Proceed("top", held)
  /\ step' = FreshStep
  /\ UNCHANGED <<repeats, wait>>

\* Variant: cancellation is left to the waits and the transport.
GoesOnRegardless == pc = "top"

GoesOn == pc = "top" /\ ~cancelled

LeaveCancelled ==
  /\ pc = "top"
  /\ cancelled
  /\ Throw
  /\ UNCHANGED <<accounting, step, repeats, wait>>

\* A step that has met a rate limit sends nothing without its bucket's permit.
NeedsPermit == step.quota /\ "permit" \notin held

WaitForQuota ==
  /\ GoesOn
  /\ NeedsPermit
  /\ \E reserved \in BOOLEAN :
       IF WaitAuthority = 0 \/ ~reserved
       THEN Throw /\ UNCHANGED wait
       ELSE /\ pc' = "quota wait"
            /\ held' = held \cup {"rate waiter"}
            /\ Start(QuotaEnd, now)
  /\ UNCHANGED <<accounting, step, repeats>>

AskForRequest ==
  /\ GoesOn
  /\ ~NeedsPermit
  /\ pc' = "admission"
  /\ Start(AdmissionEnd, now)
  /\ UNCHANGED <<accounting, held, step, repeats>>

\* The time spent in the coordinator is debited whatever the answer.
DebitQuotaWait ==
  IF now = wait.started THEN UNCHANGED accounting
  ELSE Acc!CommitRateLimitWait(now - wait.started)

LeaveQuotaWait ==
  /\ pc = "quota wait"
  /\ DebitQuotaWait
  /\ \E a \in Answers :
       IF a = "ACQUIRED"
       THEN Proceed("admission", (held \ {"rate waiter"}) \cup {"permit"})
       ELSE Throw
  /\ Start(AdmissionEnd, now)
  /\ UNCHANGED <<step, repeats>>

\* AccountedWait: from the ticket to its grant, or to the end of the call; nothing
\* for a call that was not queued, and never more than the aggregate has left.
AccountedWaits ==
  0..Smaller(now - wait.started, Remaining(AdmissionWaiting, counters.admission))

LeaveAdmission ==
  /\ pc = "admission"
  /\ \E waited \in AccountedWaits :
       IF waited = 0 THEN UNCHANGED accounting ELSE Acc!CommitAdmissionWait(waited)
  /\ \E a \in Answers :
       IF a = "ACQUIRED" THEN Proceed("admitted", held \cup {"request"}) ELSE Throw
  /\ UNCHANGED <<step, repeats, wait>>

-----------------------------------------------------------------------------
(* One attempt *)

BeginAttempt ==
  /\ pc = "admitted"
  /\ \/ Throw /\ UNCHANGED accounting      \* the buffers were refused
     \/ Acc!BeginAttempt /\ Proceed("building", held \cup {"buffers"})
  /\ UNCHANGED <<step, repeats, wait>>

\* The request is rebuilt for every attempt; the factory itself may throw.
BuildRequest ==
  /\ pc = "building"
  /\ \/ Throw /\ UNCHANGED accounting
     \/ /\ IF RequestBody = 0 THEN UNCHANGED accounting
           ELSE Acc!CommitRequestBody(RequestBody)
        /\ Proceed("transport", held)
  /\ UNCHANGED <<step, repeats, wait>>

\* ValidateInputs of the transport: metadata comes out of the headers, so that no
\* more of it may be kept than the attempt may receive.
TransportAccepts == Metadata <= active_allowance.bytes[Header]

\* The transport keeps to the limits it was given (HttpTransport).
Usages == {u \in [Bytes -> 0..MaxAmount] :
             \A d \in Bytes : u[d] <= active_allowance.bytes[d]}

\* Variant: the request slot is kept for the next attempt.
AfterTransportKeepingSlot == held

\* The request slot is given back however the transport returns.
AfterTransport == held \ {"request"}

\* A response that needs no recovery.  Only its bytes stay reserved, and the
\* quota permit ends with the call.
Respond ==
  /\ pc = "transport"
  /\ TransportAccepts
  /\ \E u \in Usages : Acc!CommitTransport(u)
  /\ \/ Proceed("responded", {"response"})
     \/ Throw                              \* narrowing the reservation failed
  /\ UNCHANGED <<step, repeats, wait>>

RateLimited ==
  /\ pc = "transport"
  /\ TransportAccepts
  /\ \E u \in Usages : Acc!CommitAttemptFailure(u)
  /\ Proceed("limited", AfterTransport)
  /\ UNCHANGED <<step, repeats, wait>>

\* A retryable gateway status, or a transport failure before any byte.
FailRetryably ==
  /\ pc = "transport"
  /\ TransportAccepts
  /\ \E u \in Usages : Acc!CommitAttemptFailure(u)
  /\ Proceed("failed", AfterTransport)
  /\ UNCHANGED <<step, repeats, wait>>

\* A failure that may not be retried, or a cancelled transfer; and limits that the
\* transport refuses, or a response beyond them, which are never committed.
FailFinally ==
  /\ pc = "transport"
  /\ \/ TransportAccepts /\ \E u \in Usages : Acc!CommitAttemptFailure(u)
     \/ UNCHANGED accounting
  /\ Throw
  /\ UNCHANGED <<step, repeats, wait>>

-----------------------------------------------------------------------------
(* Recovering from a rate limit *)

\* Whether guidance g for bucket b ends the step: the checks in their order.
RefusesGuidance(g, b) ==
  \/ RateLimit.mode = "FAIL"
  \/ g = Absent
  \/ step.bucket # {} /\ step.bucket # {b}
  \/ g = 0 /\ step.immediate
  \/ step.limited >= RateLimit.step - 1
  \/ repeats.limited >= RepeatLimit(RateLimit.scan)
  \/ ~Acc!RequireRetryAttemptResources(RequestBody)
  \/ WaitAuthority = 0 /\ g # 0
  \/ /\ RateLimit.mode = "WAIT_IF_DEADLINE_ALLOWS"
     /\ now + g >= deadline \/ g > WaitAuthority

\* The buffers are released first; the permit goes back with Requeue.
HeldOverQuotaWait == (held \ {"buffers", "permit"}) \cup {"rate waiter"}

RecoverFromRateLimit ==
  /\ pc = "limited"
  /\ \E g \in GuidanceDelays \cup {Absent}, b \in RemoteBuckets \cup {Absent},
        reserved \in BOOLEAN :
       IF RefusesGuidance(g, b) \/ ~reserved
       THEN Throw /\ UNCHANGED <<step, wait>>
       ELSE /\ pc' = "rate wait"
            /\ held' = HeldOverQuotaWait
            /\ step' = [step EXCEPT !.bucket = {b}, !.immediate = (g = 0),
                                    !.quota = TRUE]
            /\ Start(QuotaEnd, now + g)
  /\ UNCHANGED <<accounting, repeats>>

LeaveRateWait ==
  /\ pc = "rate wait"
  /\ DebitQuotaWait
  /\ \E a \in Answers :
       IF a = "ACQUIRED" /\ state' # "FAILED"
       THEN /\ pc' = "top"
            /\ held' = (held \ {"rate waiter"}) \cup {"permit"}
            /\ CountRepeat("limited")
       ELSE Throw /\ UNCHANGED <<step, repeats>>
  /\ UNCHANGED wait

-----------------------------------------------------------------------------
(* Ordinary retry *)

RefusesRetry ==
  \/ Retry.step <= 1 \/ Retry.delay = 0
  \/ step.ordinary >= Retry.step - 1
  \/ repeats.ordinary >= RepeatLimit(Retry.scan)
  \/ ~Acc!RequireRetryAttemptResources(RequestBody)
  \/ counters.retry >= Retry.waiting
  \/ counters.waiting >= Scan.waiting

\* The delay is cut to what either waiting budget has left.
RetryDelays ==
  {Smaller(d, Smaller(Remaining(Retry.waiting, counters.retry),
                      Remaining(Scan.waiting, counters.waiting))) : d \in 1..Retry.delay}

RecoverFromFailure ==
  /\ pc = "failed"
  /\ \/ /\ RefusesRetry
        /\ Throw
        /\ UNCHANGED wait
     \/ /\ ~RefusesRetry
        /\ \E d \in RetryDelays, reserved \in BOOLEAN :
             IF ~reserved
             THEN Throw /\ UNCHANGED wait
             ELSE /\ pc' = "retry wait"
                  /\ held' = (held \ {"buffers", "permit"}) \cup {"retry waiter"}
                  /\ wait' = [NoWait EXCEPT !.end = now + d, !.delay = d]
  /\ UNCHANGED <<accounting, step, repeats>>

\* One turn of the sliced wait up to the sleep.
CheckRetryWait ==
  /\ pc = "retry wait"
  /\ \/ /\ cancelled \/ now >= deadline
        /\ Throw
        /\ UNCHANGED <<accounting, wait>>
     \/ /\ ~cancelled
        /\ now < deadline
        /\ now >= wait.end
        /\ Acc!CommitRetryWait(wait.delay - wait.waited)
        /\ Proceed("retried", held)
        /\ wait' = [wait EXCEPT !.waited = wait.delay]
     \/ /\ ~cancelled
        /\ now < deadline
        /\ now < wait.end
        /\ pc' = "slice"
        /\ wait' = [wait EXCEPT !.started = now]
        /\ UNCHANGED <<accounting, held>>
  /\ UNCHANGED <<step, repeats>>

\* The sleep returns after its slice or early; what has passed is debited.
EndSlice ==
  /\ pc = "slice"
  /\ LET debit == Smaller(wait.delay - wait.waited, now - wait.started)
     IN  /\ IF debit = 0 THEN UNCHANGED accounting ELSE Acc!CommitRetryWait(debit)
         /\ Proceed(IF wait.waited + debit = wait.delay THEN "retried" ELSE "retry wait",
                    held)
         /\ wait' = [wait EXCEPT !.waited = @ + debit]
  /\ UNCHANGED <<step, repeats>>

LeaveRetryWait ==
  /\ pc = "retried"
  /\ IF cancelled
     THEN Throw /\ UNCHANGED <<step, repeats>>
     ELSE /\ pc' = "top"
          /\ held' = held \ {"retry waiter"}
          /\ CountRepeat("ordinary")
  /\ UNCHANGED <<accounting, wait>>

-----------------------------------------------------------------------------
(* The stream around the loop *)

\* FetchPage: decode the response and commit the page, or fail on the way.
DecodePage ==
  /\ pc = "responded"
  /\ \/ Throw /\ UNCHANGED accounting
     \/ \E records \in 0..MaxAmount :
          Acc!CommitDecodedPage(records, 1) /\ Proceed("between", {})
  /\ UNCHANGED <<step, repeats, wait>>

\* Next: the page's rows have been handed over.
CompletePage ==
  /\ pc = "between"
  /\ state = "PAGE_DECODED"
  /\ \E has_next \in BOOLEAN : Acc!CompletePage(has_next)
  /\ Proceed("between", held)
  /\ UNCHANGED <<step, repeats, wait>>

\* RememberCurrentFailure and ReleasePrivateState.
ReleasePrivateState ==
  /\ pc = "threw"
  /\ state # "FAILED"
  /\ Acc!AbortPage
  /\ UNCHANGED loop

Cancel ==
  /\ ~cancelled
  /\ cancelled' = TRUE
  /\ seen' = counters.attempts
  /\ UNCHANGED <<accounting, now, loop>>

\* Time is counted from the first step, which sets the deadline relative to it.
Tick ==
  /\ deadline_started
  /\ now < MaxTime
  /\ now' = now + 1
  /\ UNCHANGED <<accounting, loop, cancelled, seen>>

Loop ==
  \/ LeaveCancelled
  \/ WaitForQuota
  \/ AskForRequest
  \/ LeaveQuotaWait
  \/ LeaveAdmission
  \/ BeginAttempt
  \/ BuildRequest
  \/ Respond
  \/ RateLimited
  \/ FailRetryably
  \/ FailFinally
  \/ RecoverFromRateLimit
  \/ LeaveRateWait
  \/ RecoverFromFailure
  \/ CheckRetryWait
  \/ EndSlice
  \/ LeaveRetryWait

Stream == BeginStep \/ DecodePage \/ CompletePage \/ ReleasePrivateState

Next ==
  \/ Loop /\ UNCHANGED <<now, cancelled, seen>>
  \/ Stream /\ UNCHANGED <<now, cancelled, seen>>
  \/ Cancel
  \/ Tick

Spec == Init /\ [][Next]_vars

\* A call to a shared component must return once its end is reached or its
\* caller is cancelled: what the modules of the coordinator and the admission
\* controller establish, and what the transport's deadline is for.
MustReturn ==
  /\ pc \in QuotaWaits \cup {"admission"} => cancelled \/ now >= wait.end
  /\ pc = "transport" => cancelled \/ now >= deadline

\* The stream's thread runs, the components return when they must, and the
\* clock goes on.
FairSpec ==
  /\ Spec
  /\ WF_vars(Loop /\ MustReturn /\ UNCHANGED <<now, cancelled, seen>>)
  /\ WF_vars(Tick)

-----------------------------------------------------------------------------
(* Properties *)

\* Every attempt after the first of its page is the repeat of exactly one
\* recovery mechanism, in the step and in the scan: the ordinals that the loop
\* and ResilienceExecutionState keep beside the accounting agree with it, and each
\* mechanism stays within its own authority.
RepeatsExact ==
  LET local   == step.ordinary + step.limited
      total   == repeats.ordinary + repeats.limited
      pending == IF pc \in Asking /\ local > 0 THEN 1 ELSE 0
  IN  pc \in Asking \cup Attempting =>
        /\ counters.attempts + pending = counters.pages + total
        /\ pc \in Attempting => current_step_attempts = local + 1
        /\ pc \in Asking => current_step_attempts = local
        /\ step.ordinary < Retry.step /\ step.limited < RateLimit.step
        /\ repeats.ordinary <= RepeatLimit(Retry.scan)
        /\ repeats.limited <= RepeatLimit(RateLimit.scan)

\* A stream that waits to recover holds its waiter reservation and nothing that
\* another stream could be waiting for: no request slot, no buffers and no
\* quota permit ("buffer_reservation.Release(); permit.Complete();").  Outside
\* the loop only the response's bytes stay reserved.
NothingHeldWhileWaiting ==
  /\ pc \in QuotaWaits => held = {"rate waiter"}
  /\ pc \in RetryWaits => held = {"retry waiter"}
  /\ pc = "responded" => held = {"response"}
  /\ pc \in {"between", "threw"} => held = {}

\* Once cancellation is requested at most one more attempt is begun: the one
\* whose admission was already being waited for.
CancelStops == cancelled => counters.attempts <= seen + 1

\* "A DuckDB query either recovers within its declared attempt, wait, queue,
\* resource, cancellation, and deadline bounds or reports the exact closed
\* redacted reason" (docs/goals/bounded-reactive-rate-limit-handling.md:38): an
\* attempt that the accounting, the quota and the admission have let through, the
\* declared repeat of a rate-limited one among them, has limits that the
\* transport takes.
AttemptExecutable == pc = "transport" => TransportAccepts

\* The loop always ends, with a response or an exception.
StepReturns == pc \notin Outside ~> pc \in Outside
=============================================================================

----------------------- MODULE ScanResourceAccounting -----------------------
(***************************************************************************)
(* The resource accounting of one scan                                     *)
(* (src/src/runtime/policy/scan_resource_accounting.cpp): a state machine  *)
(* and the counters of everything a scan may use, each against the budget  *)
(* of its profile.  A call that is out of order or that would exceed a     *)
(* budget fails the scan for good.                                         *)
(*                                                                         *)
(* Next makes no assumption about the caller: any call may come at any     *)
(* time with any amount, so what holds here holds for every stream built   *)
(* on it.  Header, wire and decompressed bytes are treated alike and are   *)
(* the members of Bytes.  The remote-transport clock and the peak of       *)
(* decoded memory, which no decision reads, are left out; so is which      *)
(* budget an error names.                                                  *)
(***************************************************************************)
EXTENDS Naturals

CONSTANTS
  Bytes,             \* the response-byte dimensions
  Page,              \* profile.page
  Scan,              \* profile.scan
  AdmissionWaiting,  \* aggregate_request_waiting_milliseconds of the controller
  ClockMax,          \* steady_clock::duration::max()
  MaxAmount,         \* bound: largest amount a caller reports
  MaxTime            \* bound: last instant of the steady clock

Positive == Nat \ {0}

PageProfile == [attempts : Nat, bytes : [Bytes -> Positive], body : Nat,
                records : Positive, memory : Positive]

ScanProfile == [attempts : Nat, pages : Positive, bytes : [Bytes -> Positive],
                body : Nat, records : Positive, memory : Positive,
                wall : Positive, waiting : Nat, retry : Nat, rate : Nat]

ValidateProfile ==
  /\ Page \in PageProfile
  /\ Scan \in ScanProfile
  /\ Page.attempts \in 1..3
  /\ Scan.attempts \in Scan.pages..96
  /\ Page.body = 0 <=> Scan.body = 0
  /\ Scan.retry <= Scan.waiting
  /\ Scan.rate <= Scan.waiting
  /\ Scan.wall <= ClockMax

ASSUME ProfileAssumption ==
  /\ ClockMax \in Nat
  /\ AdmissionWaiting \in Nat
  /\ MaxAmount \in Nat
  /\ MaxTime \in Nat
  /\ ValidateProfile

\* The constructor: an aggregate waiting budget without either split is an
\* ordinary-retry budget.
RetryWaiting ==
  IF Scan.retry = 0 /\ Scan.rate = 0 THEN Scan.waiting ELSE Scan.retry

VARIABLES
  state,
  counters,
  deadline_started,
  deadline,
  current_step_attempts,
  current_step_page_committed,
  active_allowance,
  now                \* the steady clock

accounting == <<state, counters, deadline_started, deadline, current_step_attempts,
                current_step_page_committed, active_allowance>>

vars == <<accounting, now>>

States == {"READY", "STEP_ACTIVE", "REQUEST_ACTIVE", "REQUEST_BODY_COMMITTED",
           "TRANSPORT_COMMITTED", "PAGE_DECODED", "EXHAUSTED", "FAILED"}

Requesting == {"REQUEST_ACTIVE", "REQUEST_BODY_COMMITTED"}

Counters == [pages : Nat, attempts : Nat, active : {0, 1}, bytes : [Bytes -> Nat],
             body : Nat, records : Nat, retained : Nat, waiting : Nat,
             retry : Nat, rate : Nat, admission : Nat]

Allowance == [bytes : [Bytes -> Nat], body : Nat, records : Nat, memory : Nat]

NoBytes == [d \in Bytes |-> 0]

NoAllowance == [bytes |-> NoBytes, body |-> 0, records |-> 0, memory |-> 0]

TypeOK ==
  /\ state \in States
  /\ counters \in Counters
  /\ deadline_started \in BOOLEAN
  /\ deadline \in Nat
  /\ current_step_attempts \in 0..Page.attempts
  /\ current_step_page_committed \in BOOLEAN
  /\ active_allowance \in Allowance
  /\ now \in Nat

Init ==
  /\ state = "READY"
  /\ counters = [pages |-> 0, attempts |-> 0, active |-> 0, bytes |-> NoBytes,
                 body |-> 0, records |-> 0, retained |-> 0, waiting |-> 0,
                 retry |-> 0, rate |-> 0, admission |-> 0]
  /\ deadline_started = FALSE
  /\ deadline = 0
  /\ current_step_attempts = 0
  /\ current_step_page_committed = FALSE
  /\ active_allowance = NoAllowance
  /\ now \in 0..MaxTime

-----------------------------------------------------------------------------
(* Failing *)

Smaller(a, b) == IF a <= b THEN a ELSE b

Idle(c) == [c EXCEPT !.active = 0, !.retained = 0]

FailWith(c) ==
  /\ state' = "FAILED"
  /\ counters' = Idle(c)

Fail ==
  /\ FailWith(counters)
  /\ UNCHANGED <<deadline_started, deadline, current_step_attempts,
                 current_step_page_committed, active_allowance>>

AbortPage == Fail

-----------------------------------------------------------------------------
(* Steps and attempts *)

\* Inside the deadline, and something left of every budget.
RequireReadyForNext(limit) ==
  /\ now < limit
  /\ counters.pages < Scan.pages
  /\ counters.attempts < Scan.attempts
  /\ \A d \in Bytes : counters.bytes[d] < Scan.bytes[d]
  /\ counters.records < Scan.records
  /\ Scan.body # 0 => counters.body < Scan.body

\* Variant: every step restarts the wall clock.
StepDeadlineRestarted == now + Scan.wall

\* The one deadline of the scan: the first step starts it.
StepDeadline == IF deadline_started THEN deadline ELSE now + Scan.wall

MayBeginStep ==
  /\ state = "READY"
  /\ ~deadline_started => now + Scan.wall <= ClockMax

BeginStep ==
  \/ /\ ~MayBeginStep
     /\ Fail
  \/ /\ MayBeginStep
     /\ deadline_started' = TRUE
     /\ deadline' = StepDeadline
     /\ UNCHANGED active_allowance
     /\ IF RequireReadyForNext(StepDeadline)
        THEN /\ state' = "STEP_ACTIVE"
             /\ current_step_attempts' = 0
             /\ current_step_page_committed' = FALSE
             /\ UNCHANGED counters
        ELSE /\ FailWith(counters)
             /\ UNCHANGED <<current_step_attempts, current_step_page_committed>>

\* Variant: the page limit is taken without regard to what the scan has used.
AttemptAllowanceOfPage ==
  [bytes |-> Page.bytes, body |-> Page.body, records |-> Page.records,
   memory |-> Page.memory]

\* What an attempt may use: its page limit, or what the scan has left.
AttemptAllowance ==
  [bytes   |-> [d \in Bytes |-> Smaller(Page.bytes[d],
                                        Scan.bytes[d] - counters.bytes[d])],
   body    |-> Smaller(Page.body, Scan.body - counters.body),
   records |-> Smaller(Page.records, Scan.records - counters.records),
   memory  |-> Smaller(Page.memory, Scan.memory)]

\* Variant: the attempts of a step are compared with the scan's budget only.
MayBeginAttemptByScan ==
  /\ state = "STEP_ACTIVE"
  /\ now < deadline
  /\ current_step_page_committed \/ counters.pages < Scan.pages
  /\ counters.attempts < Scan.attempts
  /\ counters.active = 0

MayBeginAttempt ==
  /\ state = "STEP_ACTIVE"
  /\ now < deadline
  /\ current_step_page_committed \/ counters.pages < Scan.pages
  /\ current_step_attempts < Page.attempts
  /\ counters.attempts < Scan.attempts
  /\ counters.active = 0

\* A page is debited by the first attempt of its step only.
BeginAttempt ==
  \/ /\ ~MayBeginAttempt
     /\ Fail
  \/ /\ MayBeginAttempt
     /\ state' = "REQUEST_ACTIVE"
     /\ current_step_attempts' = current_step_attempts + 1
     /\ current_step_page_committed' = TRUE
     /\ counters' = [counters EXCEPT
                       !.attempts = @ + 1,
                       !.active   = @ + 1,
                       !.pages    = IF current_step_page_committed THEN @ ELSE @ + 1]
     /\ active_allowance' = AttemptAllowance
     /\ UNCHANGED <<deadline_started, deadline>>

MayCommitRequestBody(n) ==
  /\ state = "REQUEST_ACTIVE"
  /\ n > 0
  /\ Page.body # 0
  /\ n <= active_allowance.body
  /\ counters.body + n <= Scan.body

CommitRequestBody(n) ==
  \/ /\ ~MayCommitRequestBody(n)
     /\ Fail
  \/ /\ MayCommitRequestBody(n)
     /\ state' = "REQUEST_BODY_COMMITTED"
     /\ counters' = [counters EXCEPT !.body = @ + n]
     /\ UNCHANGED <<deadline_started, deadline, current_step_attempts,
                    current_step_page_committed, active_allowance>>

\* The request is complete: its body, if the profile has one, is debited.
RequestSent ==
  state = (IF Page.body = 0 THEN "REQUEST_ACTIVE" ELSE "REQUEST_BODY_COMMITTED")

MayCommitAttemptUsage(u) ==
  /\ RequestSent
  /\ \A d \in Bytes : /\ u[d] <= active_allowance.bytes[d]
                      /\ counters.bytes[d] + u[d] <= Scan.bytes[d]

CommitAttemptUsage(u, next_state) ==
  \/ /\ ~MayCommitAttemptUsage(u)
     /\ Fail
  \/ /\ MayCommitAttemptUsage(u)
     /\ state' = next_state
     /\ counters' = [counters EXCEPT
                       !.bytes  = [d \in Bytes |-> @[d] + u[d]],
                       !.active = 0]
     /\ UNCHANGED <<deadline_started, deadline, current_step_attempts,
                    current_step_page_committed, active_allowance>>

CommitAttemptFailure(u) == CommitAttemptUsage(u, "STEP_ACTIVE")

CommitTransport(u) == CommitAttemptUsage(u, "TRANSPORT_COMMITTED")

\* The clock it commits is left out: only its check of the state is modelled.
CommitRemoteTransportTime ==
  IF state \in Requesting THEN UNCHANGED accounting ELSE Fail

-----------------------------------------------------------------------------
(* Pages *)

MayCommitDecodedPage(records, memory) ==
  /\ state = "TRANSPORT_COMMITTED"
  /\ records <= active_allowance.records
  /\ memory <= active_allowance.memory
  /\ counters.records + records <= Scan.records

CommitDecodedPage(records, memory) ==
  \/ /\ ~MayCommitDecodedPage(records, memory)
     /\ Fail
  \/ /\ MayCommitDecodedPage(records, memory)
     /\ state' = "PAGE_DECODED"
     /\ counters' = [counters EXCEPT !.records = @ + records, !.retained = memory]
     /\ UNCHANGED <<deadline_started, deadline, current_step_attempts,
                    current_step_page_committed, active_allowance>>

\* The page's memory is given back even when the scan ends here by failing.
CompletePage(has_next) ==
  \/ /\ state # "PAGE_DECODED" \/ now >= deadline
     /\ Fail
  \/ /\ state = "PAGE_DECODED"
     /\ now < deadline
     /\ current_step_attempts' = 0
     /\ current_step_page_committed' = FALSE
     /\ UNCHANGED <<deadline_started, deadline, active_allowance>>
     /\ IF has_next /\ ~RequireReadyForNext(deadline)
        THEN FailWith(counters)
        ELSE /\ counters' = [counters EXCEPT !.retained = 0]
             /\ state' = IF has_next THEN "READY" ELSE "EXHAUSTED"

-----------------------------------------------------------------------------
(* Waits *)

\* Variant: only the mechanism's own budget is checked.
CommitWaitOfSplit(n, split, limit) ==
  \/ /\ state # "STEP_ACTIVE" \/ counters[split] + n > limit
     /\ Fail
  \/ /\ state = "STEP_ACTIVE"
     /\ counters[split] + n <= limit
     /\ counters' = [counters EXCEPT !.waiting = @ + n, ![split] = @ + n]
     /\ UNCHANGED <<state, deadline_started, deadline, current_step_attempts,
                    current_step_page_committed, active_allowance>>

\* AddChecked twice: the aggregate is debited even when the split is exhausted.
CommitWait(n, split, limit) ==
  LET total == [counters EXCEPT !.waiting = @ + n]
  IN  \/ /\ \/ state # "STEP_ACTIVE"
            \/ counters.waiting + n > Scan.waiting
         /\ Fail
      \/ /\ state = "STEP_ACTIVE"
         /\ counters.waiting + n <= Scan.waiting
         /\ UNCHANGED <<deadline_started, deadline, current_step_attempts,
                        current_step_page_committed, active_allowance>>
         /\ IF counters[split] + n <= limit
            THEN /\ counters' = [total EXCEPT ![split] = @ + n]
                 /\ UNCHANGED state
            ELSE FailWith(total)

CommitRetryWait(n) == CommitWait(n, "retry", RetryWaiting)

CommitRateLimitWait(n) == CommitWait(n, "rate", Scan.rate)

CommitAdmissionWait(n) ==
  \/ /\ state # "STEP_ACTIVE" \/ counters.admission + n > AdmissionWaiting
     /\ Fail
  \/ /\ state = "STEP_ACTIVE"
     /\ counters.admission + n <= AdmissionWaiting
     /\ counters' = [counters EXCEPT !.admission = @ + n]
     /\ UNCHANGED <<state, deadline_started, deadline, current_step_attempts,
                    current_step_page_committed, active_allowance>>

CanBeginRetryAttempt ==
  /\ state = "STEP_ACTIVE"
  /\ current_step_attempts < Page.attempts
  /\ counters.attempts < Scan.attempts

\* Something is left for another attempt that sends a body of n bytes.
RequireRetryAttemptResources(n) ==
  /\ CanBeginRetryAttempt
  /\ \A d \in Bytes : counters.bytes[d] < Scan.bytes[d]
  /\ IF Page.body = 0 THEN n = 0
     ELSE n > 0 /\ n <= Page.body /\ counters.body + n <= Scan.body

-----------------------------------------------------------------------------
Tick ==
  /\ now < MaxTime
  /\ now' = now + 1
  /\ UNCHANGED accounting

Amounts == 0..MaxAmount

Call ==
  \/ BeginStep
  \/ BeginAttempt
  \/ \E n \in Amounts : CommitRequestBody(n)
  \/ \E u \in [Bytes -> Amounts] : CommitAttemptFailure(u)
  \/ \E u \in [Bytes -> Amounts] : CommitTransport(u)
  \/ CommitRemoteTransportTime
  \/ \E r \in Amounts, m \in Amounts : CommitDecodedPage(r, m)
  \/ \E has_next \in BOOLEAN : CompletePage(has_next)
  \/ \E n \in Amounts : CommitRetryWait(n)
  \/ \E n \in Amounts : CommitRateLimitWait(n)
  \/ \E n \in Amounts : CommitAdmissionWait(n)
  \/ AbortPage

Next ==
  \/ Call /\ UNCHANGED now
  \/ Tick

Spec == Init /\ [][Next]_vars

-----------------------------------------------------------------------------
(* Properties *)

\* No counter ever exceeds its budget, whatever sequence of calls a stream
\* makes, and no page is attempted more often than the page profile allows:
\* the checks before every debit in BeginAttempt and the Commit functions.
WithinBudgets ==
  /\ counters.pages <= Scan.pages
  /\ counters.attempts <= Scan.attempts
  /\ counters.attempts <= counters.pages * Page.attempts
  /\ \A d \in Bytes : counters.bytes[d] <= Scan.bytes[d]
  /\ counters.body <= Scan.body
  /\ counters.records <= Scan.records
  /\ counters.retained <= Scan.memory
  /\ counters.waiting <= Scan.waiting
  /\ counters.retry <= RetryWaiting
  /\ counters.rate <= Scan.rate
  /\ counters.admission <= AdmissionWaiting

\* While an attempt is in flight, what it was allowed still fits the scan's
\* budgets, so that the usage the transport was limited to can always be
\* committed: the AddChecked calls after RequireWithin never throw.
AllowanceFits ==
  /\ state \in Requesting =>
       \A d \in Bytes : counters.bytes[d] + active_allowance.bytes[d] <= Scan.bytes[d]
  /\ state = "REQUEST_ACTIVE" =>
       counters.body + active_allowance.body <= Scan.body
  /\ state \in Requesting \cup {"TRANSPORT_COMMITTED"} =>
       /\ counters.records + active_allowance.records <= Scan.records
       /\ active_allowance.memory <= Scan.memory
  /\ counters.active = 1 <=> state \in Requesting
  /\ counters.retained # 0 => state = "PAGE_DECODED"

\* The first step fixes the scan's deadline for good, and no request attempt is
\* debited at or after it (BeginStep, BeginAttempt).
DeadlineKept ==
  [][/\ deadline_started => deadline_started' /\ deadline' = deadline
     /\ counters'.attempts # counters.attempts => deadline_started /\ now < deadline]_vars
=============================================================================

-------------------- MODULE ScanResourceAccountingProofs --------------------
(***************************************************************************)
(* Whatever calls a stream makes, in whatever order and with whatever      *)
(* amounts, no budget of its profile is exceeded.                          *)
(***************************************************************************)
EXTENDS ScanResourceAccounting, TLAPS

\* How the attempts of the current step relate to those of the scan.
StepBound ==
  current_step_page_committed =>
    /\ counters.pages >= 1
    /\ counters.attempts <= (counters.pages - 1) * Page.attempts
                              + current_step_attempts

IInv == TypeOK /\ WithinBudgets /\ AllowanceFits /\ StepBound

-----------------------------------------------------------------------------
\* The profile is made of naturals (ValidateProfile).
LEMMA ProfileTypes ==
  /\ Page.attempts \in Nat /\ Page.attempts >= 1
  /\ Page.body \in Nat /\ Page.records \in Nat /\ Page.memory \in Nat
  /\ Scan.attempts \in Nat /\ Scan.pages \in Nat /\ Scan.pages >= 1
  /\ Scan.body \in Nat /\ Scan.records \in Nat /\ Scan.memory \in Nat
  /\ Scan.wall \in Nat /\ Scan.waiting \in Nat /\ Scan.rate \in Nat
  /\ Scan.retry \in Nat /\ RetryWaiting \in Nat
  /\ AdmissionWaiting \in Nat /\ MaxAmount \in Nat /\ MaxTime \in Nat
  /\ \A d \in Bytes : Page.bytes[d] \in Nat /\ Scan.bytes[d] \in Nat
  <1>1. /\ Page \in PageProfile /\ Scan \in ScanProfile
        /\ Page.attempts \in 1..3
    BY ProfileAssumption DEF ValidateProfile
  <1> QED
    BY <1>1, ProfileAssumption DEF PageProfile, ScanProfile, Positive, RetryWaiting

\* A fresh accounting is within its budgets: the constructor.
LEMMA Initially == Init => IInv
  <1> SUFFICES ASSUME Init PROVE IInv
    OBVIOUS
  <1>1. counters \in Counters
    BY DEF Init, Counters, NoBytes
  <1>2. active_allowance \in Allowance
    BY DEF Init, Allowance, NoAllowance, NoBytes
  <1>a. deadline \in Nat /\ current_step_attempts \in 0..Page.attempts /\ now \in Nat
    BY ProfileTypes DEF Init
  <1>3. TypeOK
    BY <1>1, <1>2, <1>a DEF Init, TypeOK, States
  <1>4. WithinBudgets
    BY ProfileTypes DEF Init, WithinBudgets, NoBytes
  <1>5. AllowanceFits /\ StepBound
    BY DEF Init, AllowanceFits, StepBound, Requesting
  <1> QED
    BY <1>3, <1>4, <1>5 DEF IInv

\* Giving back what is in flight touches two counters: Fail.
LEMMA IdleCounters ==
  ASSUME NEW c \in Counters
  PROVE  /\ Idle(c) \in Counters
         /\ Idle(c).active = 0 /\ Idle(c).retained = 0
         /\ Idle(c).pages = c.pages /\ Idle(c).attempts = c.attempts
         /\ Idle(c).bytes = c.bytes /\ Idle(c).body = c.body
         /\ Idle(c).records = c.records /\ Idle(c).waiting = c.waiting
         /\ Idle(c).retry = c.retry /\ Idle(c).rate = c.rate
         /\ Idle(c).admission = c.admission
  <1>1. Idle(c) \in Counters
    BY DEF Counters, Idle
  <1>2. /\ Idle(c).active = 0 /\ Idle(c).retained = 0
        /\ Idle(c).pages = c.pages /\ Idle(c).attempts = c.attempts
        /\ Idle(c).bytes = c.bytes /\ Idle(c).body = c.body
        /\ Idle(c).records = c.records
    BY DEF Counters, Idle
  <1>3. /\ Idle(c).waiting = c.waiting
        /\ Idle(c).retry = c.retry /\ Idle(c).rate = c.rate
        /\ Idle(c).admission = c.admission
    BY DEF Counters, Idle
  <1> QED
    BY <1>1, <1>2, <1>3

\* A failed accounting keeps the invariant, whatever else the call changed.
LEMMA FailWithPreserves ==
  ASSUME IInv, NEW c \in Counters, FailWith(c),
         c.pages = counters.pages, c.attempts = counters.attempts,
         c.bytes = counters.bytes, c.body = counters.body,
         c.records = counters.records, c.admission = counters.admission,
         c.retry = counters.retry, c.rate = counters.rate,
         c.waiting <= Scan.waiting,
         deadline_started' \in BOOLEAN, deadline' \in Nat, now' = now,
         active_allowance' = active_allowance,
         \/ /\ current_step_attempts' = current_step_attempts
            /\ current_step_page_committed' = current_step_page_committed
         \/ current_step_attempts' = 0 /\ current_step_page_committed' = FALSE
  PROVE  IInv'
  <1>1. counters' = Idle(c) /\ state' = "FAILED"
    BY DEF FailWith
  <1>a. current_step_attempts' \in 0..Page.attempts
    BY ProfileTypes DEF IInv, TypeOK
  <1>b. current_step_page_committed' \in BOOLEAN
    BY DEF IInv, TypeOK
  <1>c. counters' \in Counters
    BY <1>1, IdleCounters
  <1>2. TypeOK'
    BY <1>1, <1>a, <1>b, <1>c DEF IInv, TypeOK, States
  <1>3. WithinBudgets'
    BY <1>1, IdleCounters, ProfileTypes DEF IInv, WithinBudgets
  <1>4. AllowanceFits'
    BY <1>1, IdleCounters DEF AllowanceFits, Requesting
  <1>5. StepBound'
    BY <1>1, IdleCounters DEF IInv, StepBound
  <1> QED
    BY <1>2, <1>3, <1>4, <1>5 DEF IInv

\* Failing gives back what is in flight and changes nothing else: Fail.
LEMMA FailPreserves == ASSUME IInv, Fail, now' = now PROVE IInv'
  <1>1. counters \in Counters /\ counters.waiting <= Scan.waiting
    BY DEF IInv, TypeOK, WithinBudgets
  <1>2. deadline_started' \in BOOLEAN /\ deadline' \in Nat
    BY DEF IInv, TypeOK, Fail
  <1> QED
    BY <1>1, <1>2, FailWithPreserves DEF Fail

\* BeginStep debits nothing.
LEMMA BeginStepPreserves == ASSUME IInv, BeginStep, now' = now PROVE IInv'
  <1>1. CASE ~MayBeginStep
    BY <1>1, FailPreserves DEF BeginStep
  <1>2. CASE MayBeginStep
    <2>1. deadline_started' \in BOOLEAN /\ deadline' \in Nat
      BY <1>2, ProfileTypes DEF IInv, TypeOK, StepDeadline, BeginStep
    <2>2. CASE RequireReadyForNext(StepDeadline)
      <3>1. /\ state' = "STEP_ACTIVE" /\ state = "READY" /\ counters' = counters
            /\ current_step_attempts' = 0 /\ current_step_page_committed' = FALSE
            /\ active_allowance' = active_allowance
        BY <1>2, <2>2 DEF BeginStep, MayBeginStep
      <3>a. current_step_attempts' \in 0..Page.attempts
        BY <3>1, ProfileTypes
      <3>2. TypeOK'
        BY <2>1, <3>1, <3>a DEF IInv, TypeOK, States
      <3>3. WithinBudgets' /\ AllowanceFits' /\ StepBound'
        BY <3>1 DEF IInv, WithinBudgets, AllowanceFits, StepBound, Requesting
      <3> QED
        BY <3>2, <3>3 DEF IInv
    <2>3. CASE ~RequireReadyForNext(StepDeadline)
      <3>1. counters \in Counters /\ counters.waiting <= Scan.waiting
        BY DEF IInv, TypeOK, WithinBudgets
      <3> QED
        BY <1>2, <2>1, <2>3, <3>1, FailWithPreserves DEF BeginStep
    <2> QED
      BY <2>2, <2>3
  <1> QED
    BY <1>1, <1>2

\* The allowance of an attempt is what the scan has left, at most.
LEMMA AllowanceOfAttempt ==
  ASSUME TypeOK, WithinBudgets
  PROVE  /\ AttemptAllowance \in Allowance
         /\ \A d \in Bytes : counters.bytes[d] + AttemptAllowance.bytes[d] <= Scan.bytes[d]
         /\ counters.body + AttemptAllowance.body <= Scan.body
         /\ counters.records + AttemptAllowance.records <= Scan.records
         /\ AttemptAllowance.memory <= Scan.memory
  <1>1. /\ counters.body \in Nat /\ counters.records \in Nat
        /\ \A d \in Bytes : counters.bytes[d] \in Nat
    BY DEF TypeOK, Counters
  <1>2. /\ AttemptAllowance.bytes
             = [d \in Bytes |-> Smaller(Page.bytes[d], Scan.bytes[d] - counters.bytes[d])]
        /\ AttemptAllowance.body = Smaller(Page.body, Scan.body - counters.body)
        /\ AttemptAllowance.records
             = Smaller(Page.records, Scan.records - counters.records)
        /\ AttemptAllowance.memory = Smaller(Page.memory, Scan.memory)
    BY DEF AttemptAllowance
  <1>3. ASSUME NEW d \in Bytes
        PROVE  /\ AttemptAllowance.bytes[d] \in Nat
               /\ counters.bytes[d] + AttemptAllowance.bytes[d] <= Scan.bytes[d]
    <2>1. /\ counters.bytes[d] \in Nat /\ Page.bytes[d] \in Nat /\ Scan.bytes[d] \in Nat
          /\ counters.bytes[d] <= Scan.bytes[d]
      BY <1>1, ProfileTypes DEF WithinBudgets
    <2>2. AttemptAllowance.bytes[d]
            = Smaller(Page.bytes[d], Scan.bytes[d] - counters.bytes[d])
      BY <1>2
    <2> QED
      BY <2>1, <2>2 DEF Smaller
  <1>4. /\ AttemptAllowance.body \in Nat
        /\ counters.body + AttemptAllowance.body <= Scan.body
        /\ AttemptAllowance.records \in Nat
        /\ counters.records + AttemptAllowance.records <= Scan.records
        /\ AttemptAllowance.memory \in Nat
        /\ AttemptAllowance.memory <= Scan.memory
    BY <1>1, <1>2, ProfileTypes DEF Smaller, WithinBudgets
  <1>5. AttemptAllowance.bytes \in [Bytes -> Nat]
    BY <1>2, <1>3
  <1>6. AttemptAllowance \in Allowance
    BY <1>4, <1>5 DEF AttemptAllowance, Allowance
  <1> QED
    BY <1>3, <1>4, <1>6

\* BeginAttempt debits one attempt, and a page once for each step.
LEMMA BeginAttemptPreserves == ASSUME IInv, BeginAttempt, now' = now PROVE IInv'
  <1>1. CASE ~MayBeginAttempt
    BY <1>1, FailPreserves DEF BeginAttempt
  <1>2. CASE MayBeginAttempt
    <2>1. /\ counters.pages \in Nat /\ counters.attempts \in Nat
          /\ current_step_attempts \in Nat /\ counters.active = 0
          /\ current_step_attempts < Page.attempts
          /\ Page.attempts \in Nat /\ Page.attempts >= 1
      BY <1>2, ProfileTypes DEF IInv, TypeOK, Counters, MayBeginAttempt
    <2>a. counters \in Counters
      BY DEF IInv, TypeOK
    <2>b. counters' = [counters EXCEPT
                          !.attempts = counters.attempts + 1,
                          !.active   = counters.active + 1,
                          !.pages    = IF current_step_page_committed
                                       THEN counters.pages ELSE counters.pages + 1]
      BY <1>2 DEF BeginAttempt
    <2>c. counters' \in Counters
      <3>1. \A a, p \in Nat :
              [counters EXCEPT !.attempts = a, !.active = 1, !.pages = p] \in Counters
        BY <2>a DEF Counters
      <3>2. counters.active + 1 = 1 /\ counters.attempts + 1 \in Nat
            /\ (IF current_step_page_committed THEN counters.pages
                ELSE counters.pages + 1) \in Nat
        BY <2>1
      <3> QED
        BY <2>b, <3>1, <3>2
    <2>2. /\ counters'.attempts = counters.attempts + 1
          /\ counters'.active = 1
          /\ counters'.pages = IF current_step_page_committed THEN counters.pages
                               ELSE counters.pages + 1
          /\ counters'.bytes = counters.bytes /\ counters'.body = counters.body
          /\ counters'.records = counters.records
          /\ counters'.retained = counters.retained
          /\ counters'.waiting = counters.waiting /\ counters'.retry = counters.retry
          /\ counters'.rate = counters.rate
          /\ counters'.admission = counters.admission
      BY <2>1, <2>a, <2>b DEF Counters
    <2>3. /\ state' = "REQUEST_ACTIVE" /\ current_step_page_committed' = TRUE
          /\ current_step_attempts' = current_step_attempts + 1
          /\ active_allowance' = AttemptAllowance
          /\ deadline_started' = deadline_started /\ deadline' = deadline
          /\ state = "STEP_ACTIVE"
          /\ current_step_page_committed \/ counters.pages < Scan.pages
          /\ counters.attempts < Scan.attempts
      BY <1>2 DEF BeginAttempt, MayBeginAttempt
    <2>4. TypeOK'
      <3>1. AttemptAllowance \in Allowance
        BY AllowanceOfAttempt DEF IInv
      <3> QED
        BY <2>1, <2>c, <2>3, <3>1 DEF IInv, TypeOK, States
    <2>5. StepBound' /\ (counters.attempts <= counters.pages * Page.attempts)'
      <3>1. counters.pages * Page.attempts \in Nat
        BY <2>1
      <3>2. (counters.pages + 1) * Page.attempts
              = counters.pages * Page.attempts + Page.attempts
        BY <2>1
      <3>3. (counters.pages - 1) * Page.attempts
              = counters.pages * Page.attempts - Page.attempts
        BY <2>1
      <3>4. counters.pages + 1 - 1 = counters.pages
        BY <2>1
      <3>5. CASE current_step_page_committed
        BY <2>1, <2>2, <2>3, <3>1, <3>3, <3>5 DEF IInv, StepBound
      <3>6. CASE ~current_step_page_committed
        BY <2>1, <2>2, <2>3, <3>1, <3>2, <3>4, <3>6 DEF IInv, StepBound, WithinBudgets
      <3> QED
        BY <3>5, <3>6
    <2>6. WithinBudgets'
      BY <2>1, <2>2, <2>3, <2>5, ProfileTypes DEF IInv, WithinBudgets
    <2>7. AllowanceFits'
      <3>1. counters.retained = 0
        BY <2>3 DEF IInv, AllowanceFits
      <3> QED
        BY <2>2, <2>3, <3>1, AllowanceOfAttempt DEF IInv, AllowanceFits, Requesting
    <2> QED
      BY <2>4, <2>5, <2>6, <2>7 DEF IInv
  <1> QED
    BY <1>1, <1>2

-----------------------------------------------------------------------------
(* The debits *)

\* What every debit leaves alone.
Untouched ==
  /\ UNCHANGED <<deadline_started, deadline, current_step_attempts,
                 current_step_page_committed, active_allowance>>
  /\ now' = now

\* A debit that keeps the pages and the attempts keeps how they relate.
LEMMA DebitKeepsSteps ==
  ASSUME IInv, Untouched,
         counters'.pages = counters.pages, counters'.attempts = counters.attempts
  PROVE  StepBound'
  BY DEF IInv, StepBound, Untouched

\* CommitRequestBody debits what the allowance has room for.
LEMMA CommitRequestBodyPreserves ==
  ASSUME IInv, NEW n \in Nat, CommitRequestBody(n), now' = now PROVE IInv'
  <1>1. CASE ~MayCommitRequestBody(n)
    BY <1>1, FailPreserves DEF CommitRequestBody
  <1>2. CASE MayCommitRequestBody(n)
    <2>1. counters \in Counters /\ counters.body + n \in Nat
      BY DEF IInv, TypeOK, Counters
    <2>2. /\ state' = "REQUEST_BODY_COMMITTED" /\ Untouched
          /\ counters' = [counters EXCEPT !.body = counters.body + n]
      BY <1>2 DEF CommitRequestBody, Untouched
    <2>3. counters' \in Counters
      BY <2>1, <2>2 DEF Counters
    <2>4. /\ counters'.pages = counters.pages /\ counters'.attempts = counters.attempts
          /\ counters'.active = counters.active /\ counters'.bytes = counters.bytes
          /\ counters'.body = counters.body + n /\ counters'.records = counters.records
          /\ counters'.retained = counters.retained
      BY <2>1, <2>2 DEF Counters
    <2>5. /\ counters'.waiting = counters.waiting /\ counters'.retry = counters.retry
          /\ counters'.rate = counters.rate /\ counters'.admission = counters.admission
      BY <2>1, <2>2 DEF Counters
    <2>6. TypeOK'
      BY <2>2, <2>3 DEF IInv, TypeOK, States, Untouched
    <2>7. WithinBudgets'
      BY <1>2, <2>4, <2>5 DEF IInv, WithinBudgets, MayCommitRequestBody
    <2>8. AllowanceFits'
      BY <1>2, <2>2, <2>4
      DEF IInv, AllowanceFits, MayCommitRequestBody, Requesting, Untouched
    <2> QED
      BY <2>2, <2>4, <2>6, <2>7, <2>8, DebitKeepsSteps DEF IInv
  <1> QED
    BY <1>1, <1>2

\* CommitAttemptFailure and CommitTransport debit the response bytes and end the
\* request.
LEMMA CommitAttemptUsagePreserves ==
  ASSUME IInv, NEW u \in [Bytes -> Nat],
         NEW next_state \in {"STEP_ACTIVE", "TRANSPORT_COMMITTED"},
         CommitAttemptUsage(u, next_state), now' = now
  PROVE  IInv'
  <1>1. CASE ~MayCommitAttemptUsage(u)
    BY <1>1, FailPreserves DEF CommitAttemptUsage
  <1>2. CASE MayCommitAttemptUsage(u)
    <2> DEFINE b == [d \in Bytes |-> counters.bytes[d] + u[d]]
    <2>1. counters \in Counters /\ b \in [Bytes -> Nat]
      BY DEF IInv, TypeOK, Counters
    <2>2. /\ state' = next_state /\ Untouched
          /\ counters' = [counters EXCEPT !.bytes = b, !.active = 0]
          /\ state \in Requesting
      BY <1>2 DEF CommitAttemptUsage, Untouched, MayCommitAttemptUsage, RequestSent,
                  Requesting
    <2>b. \A d \in Bytes : b[d] <= Scan.bytes[d]
      BY <1>2 DEF MayCommitAttemptUsage
    <2> HIDE DEF b
    <2>3. counters' \in Counters
      BY <2>1, <2>2 DEF Counters
    <2>4. /\ counters'.pages = counters.pages /\ counters'.attempts = counters.attempts
          /\ counters'.active = 0 /\ counters'.bytes = b
          /\ counters'.body = counters.body /\ counters'.records = counters.records
          /\ counters'.retained = counters.retained
      BY <2>1, <2>2 DEF Counters
    <2>5. /\ counters'.waiting = counters.waiting /\ counters'.retry = counters.retry
          /\ counters'.rate = counters.rate /\ counters'.admission = counters.admission
      BY <2>1, <2>2 DEF Counters
    <2>6. TypeOK'
      BY <2>2, <2>3 DEF IInv, TypeOK, States, Untouched
    <2>7. WithinBudgets'
      BY <2>b, <2>4, <2>5 DEF IInv, WithinBudgets
    <2>8. AllowanceFits'
      <3>1. counters.retained = 0
        BY <2>2 DEF IInv, AllowanceFits, Requesting
      <3> QED
        BY <2>2, <2>4, <3>1 DEF IInv, AllowanceFits, Requesting, Untouched
    <2> QED
      BY <2>2, <2>4, <2>6, <2>7, <2>8, DebitKeepsSteps DEF IInv
  <1> QED
    BY <1>1, <1>2

\* CommitDecodedPage debits the records and holds the page's memory.
LEMMA CommitDecodedPagePreserves ==
  ASSUME IInv, NEW r \in Nat, NEW m \in Nat, CommitDecodedPage(r, m), now' = now
  PROVE  IInv'
  <1>1. CASE ~MayCommitDecodedPage(r, m)
    BY <1>1, FailPreserves DEF CommitDecodedPage
  <1>2. CASE MayCommitDecodedPage(r, m)
    <2>1. counters \in Counters /\ counters.records + r \in Nat
      BY DEF IInv, TypeOK, Counters
    <2>2. /\ state' = "PAGE_DECODED" /\ state = "TRANSPORT_COMMITTED" /\ Untouched
          /\ counters' = [counters EXCEPT !.records = counters.records + r,
                                          !.retained = m]
          /\ counters.records + r <= Scan.records /\ m <= active_allowance.memory
      BY <1>2 DEF CommitDecodedPage, Untouched, MayCommitDecodedPage
    <2>3. counters' \in Counters
      BY <2>1, <2>2 DEF Counters
    <2>4. /\ counters'.pages = counters.pages /\ counters'.attempts = counters.attempts
          /\ counters'.active = counters.active /\ counters'.bytes = counters.bytes
          /\ counters'.body = counters.body /\ counters'.records = counters.records + r
          /\ counters'.retained = m
      BY <2>1, <2>2 DEF Counters
    <2>5. /\ counters'.waiting = counters.waiting /\ counters'.retry = counters.retry
          /\ counters'.rate = counters.rate /\ counters'.admission = counters.admission
      BY <2>1, <2>2 DEF Counters
    <2>6. TypeOK'
      BY <2>2, <2>3 DEF IInv, TypeOK, States, Untouched
    <2>7. WithinBudgets'
      <3>1. active_allowance.memory \in Nat /\ active_allowance.memory <= Scan.memory
        BY <2>2 DEF IInv, TypeOK, Allowance, AllowanceFits
      <3> QED
        BY <2>2, <2>4, <2>5, <3>1, ProfileTypes DEF IInv, WithinBudgets
    <2>8. AllowanceFits'
      BY <2>2, <2>4 DEF IInv, AllowanceFits, Requesting
    <2> QED
      BY <2>2, <2>4, <2>6, <2>7, <2>8, DebitKeepsSteps DEF IInv
  <1> QED
    BY <1>1, <1>2

\* CompletePage gives the page's memory back.
LEMMA CompletePagePreserves ==
  ASSUME IInv, NEW has_next \in BOOLEAN, CompletePage(has_next), now' = now
  PROVE  IInv'
  <1>1. CASE state # "PAGE_DECODED" \/ now >= deadline
    <2>1. CASE Fail
      BY <2>1, FailPreserves
    <2>2. CASE state = "PAGE_DECODED" /\ now < deadline
      BY <1>1, <2>2 DEF IInv, TypeOK
    <2> QED
      BY <1>1, <2>1, <2>2 DEF CompletePage
  <1>2. CASE state = "PAGE_DECODED" /\ ~(now >= deadline)
    <2>1. /\ current_step_attempts' = 0 /\ current_step_page_committed' = FALSE
          /\ deadline_started' = deadline_started /\ deadline' = deadline
          /\ active_allowance' = active_allowance
          /\ \/ FailWith(counters)
             \/ /\ counters' = [counters EXCEPT !.retained = 0]
                /\ state' \in {"READY", "EXHAUSTED"}
      BY <1>2 DEF CompletePage
    <2>2. counters \in Counters /\ counters.waiting <= Scan.waiting
      BY DEF IInv, TypeOK, WithinBudgets
    <2>3. deadline_started' \in BOOLEAN /\ deadline' \in Nat
      BY <2>1 DEF IInv, TypeOK
    <2>4. CASE FailWith(counters)
      BY <2>1, <2>2, <2>3, <2>4, FailWithPreserves
    <2>5. CASE /\ counters' = [counters EXCEPT !.retained = 0]
               /\ state' \in {"READY", "EXHAUSTED"}
      <3>1. counters' \in Counters
        BY <2>2, <2>5 DEF Counters
      <3>2. /\ counters'.pages = counters.pages
            /\ counters'.attempts = counters.attempts
            /\ counters'.active = counters.active /\ counters'.bytes = counters.bytes
            /\ counters'.body = counters.body /\ counters'.records = counters.records
            /\ counters'.retained = 0
        BY <2>2, <2>5 DEF Counters
      <3>3. /\ counters'.waiting = counters.waiting
            /\ counters'.retry = counters.retry
            /\ counters'.rate = counters.rate
            /\ counters'.admission = counters.admission
        BY <2>2, <2>5 DEF Counters
      <3>4. current_step_attempts' \in 0..Page.attempts
        BY <2>1, ProfileTypes
      <3>5. TypeOK'
        BY <2>1, <2>3, <2>5, <3>1, <3>4 DEF IInv, TypeOK, States
      <3>6. WithinBudgets'
        BY <3>2, <3>3, ProfileTypes DEF IInv, WithinBudgets
      <3>7. AllowanceFits' /\ StepBound'
        BY <1>2, <2>1, <2>5, <3>2 DEF IInv, AllowanceFits, StepBound, Requesting
      <3> QED
        BY <3>5, <3>6, <3>7 DEF IInv
    <2> QED
      BY <2>1, <2>4, <2>5
  <1> QED
    BY <1>1, <1>2

\* A debit of the aggregate alone, made before the split is found exhausted.
LEMMA AggregateDebit ==
  ASSUME NEW c \in Counters, NEW w \in Nat
  PROVE  LET e == [c EXCEPT !.waiting = w]
         IN  /\ e \in Counters /\ e.waiting = w
             /\ e.pages = c.pages /\ e.attempts = c.attempts /\ e.active = c.active
             /\ e.bytes = c.bytes /\ e.body = c.body /\ e.records = c.records
             /\ e.retained = c.retained /\ e.retry = c.retry /\ e.rate = c.rate
             /\ e.admission = c.admission
  <1> DEFINE e == [c EXCEPT !.waiting = w]
  <1>1. e \in Counters
    BY DEF Counters
  <1>2. /\ e.waiting = w /\ e.pages = c.pages /\ e.attempts = c.attempts
        /\ e.active = c.active /\ e.bytes = c.bytes
    BY DEF Counters
  <1>3. /\ e.body = c.body /\ e.records = c.records /\ e.retained = c.retained
    BY DEF Counters
  <1>4. /\ e.retry = c.retry /\ e.rate = c.rate /\ e.admission = c.admission
    BY DEF Counters
  <1> QED
    BY <1>1, <1>2, <1>3, <1>4

\* A step's invariant survives any change of the waiting counters that stays
\* within their budgets.
LEMMA WaitDebitPreserves ==
  ASSUME IInv, Untouched, state' = state, state = "STEP_ACTIVE",
         counters' \in Counters,
         counters'.pages = counters.pages, counters'.attempts = counters.attempts,
         counters'.active = counters.active, counters'.bytes = counters.bytes,
         counters'.body = counters.body, counters'.records = counters.records,
         counters'.retained = counters.retained,
         counters'.waiting <= Scan.waiting, counters'.retry <= RetryWaiting,
         counters'.rate <= Scan.rate, counters'.admission <= AdmissionWaiting
  PROVE  IInv'
  <1>1. TypeOK'
    BY DEF IInv, TypeOK, Untouched
  <1>2. WithinBudgets'
    BY DEF IInv, WithinBudgets
  <1>3. AllowanceFits'
    BY DEF IInv, AllowanceFits, Untouched, Requesting
  <1> QED
    BY <1>1, <1>2, <1>3, DebitKeepsSteps DEF IInv

\* A recovery wait is debited to the aggregate and to its mechanism, or the
\* accounting fails with the aggregate debited alone.
LEMMA CommitWaitPreserves ==
  ASSUME IInv, NEW n \in Nat, now' = now,
         CommitRetryWait(n) \/ CommitRateLimitWait(n)
  PROVE  IInv'
  <1> DEFINE total == [counters EXCEPT !.waiting = counters.waiting + n]
  <1>1. /\ counters \in Counters /\ counters.waiting + n \in Nat
        /\ counters.retry + n \in Nat /\ counters.rate + n \in Nat
    BY DEF IInv, TypeOK, Counters
  <1>2. /\ total \in Counters /\ total.waiting = counters.waiting + n
        /\ total.pages = counters.pages /\ total.attempts = counters.attempts
        /\ total.active = counters.active /\ total.bytes = counters.bytes
        /\ total.body = counters.body /\ total.records = counters.records
        /\ total.retained = counters.retained /\ total.retry = counters.retry
        /\ total.rate = counters.rate /\ total.admission = counters.admission
    BY <1>1, AggregateDebit
  <1>3. \/ Fail
        \/ /\ Untouched /\ counters.waiting + n <= Scan.waiting
           /\ FailWith(total)
        \/ /\ Untouched /\ counters.waiting + n <= Scan.waiting
           /\ state = "STEP_ACTIVE" /\ state' = state
           /\ \/ /\ counters.retry + n <= RetryWaiting
                 /\ counters' = [total EXCEPT !.retry = total.retry + n]
              \/ /\ counters.rate + n <= Scan.rate
                 /\ counters' = [total EXCEPT !.rate = total.rate + n]
    BY DEF CommitRetryWait, CommitRateLimitWait, CommitWait, Untouched
  <1> HIDE DEF total
  <1>4. CASE Fail
    BY <1>4, FailPreserves
  <1>5. CASE Untouched /\ counters.waiting + n <= Scan.waiting /\ FailWith(total)
    <2>1. deadline_started' \in BOOLEAN /\ deadline' \in Nat
      BY <1>5 DEF IInv, TypeOK, Untouched
    <2>2. /\ active_allowance' = active_allowance
          /\ current_step_attempts' = current_step_attempts
          /\ current_step_page_committed' = current_step_page_committed
      BY <1>5 DEF Untouched
    <2> QED
      BY <1>2, <1>5, <2>1, <2>2, FailWithPreserves
  <1>6. CASE /\ Untouched /\ counters.waiting + n <= Scan.waiting
             /\ state = "STEP_ACTIVE" /\ state' = state
             /\ counters.retry + n <= RetryWaiting
             /\ counters' = [total EXCEPT !.retry = total.retry + n]
    <2>1. total.retry + n \in Nat /\ total.retry + n <= RetryWaiting
      BY <1>1, <1>2, <1>6
    <2>2. counters' \in Counters
      BY <1>2, <1>6, <2>1 DEF Counters
    <2>3. /\ counters'.pages = total.pages /\ counters'.attempts = total.attempts
          /\ counters'.active = total.active /\ counters'.bytes = total.bytes
          /\ counters'.body = total.body /\ counters'.records = total.records
      BY <1>2, <1>6 DEF Counters
    <2>4. /\ counters'.retained = total.retained /\ counters'.waiting = total.waiting
          /\ counters'.retry = total.retry + n /\ counters'.rate = total.rate
          /\ counters'.admission = total.admission
      BY <1>2, <1>6 DEF Counters
    <2>5. counters.rate <= Scan.rate /\ counters.admission <= AdmissionWaiting
      BY DEF IInv, WithinBudgets
    <2> QED
      BY <1>2, <1>6, <2>1, <2>2, <2>3, <2>4, <2>5, WaitDebitPreserves
  <1>7. CASE /\ Untouched /\ counters.waiting + n <= Scan.waiting
             /\ state = "STEP_ACTIVE" /\ state' = state
             /\ counters.rate + n <= Scan.rate
             /\ counters' = [total EXCEPT !.rate = total.rate + n]
    <2>1. total.rate + n \in Nat /\ total.rate + n <= Scan.rate
      BY <1>1, <1>2, <1>7
    <2>2. counters' \in Counters
      BY <1>2, <1>7, <2>1 DEF Counters
    <2>3. /\ counters'.pages = total.pages /\ counters'.attempts = total.attempts
          /\ counters'.active = total.active /\ counters'.bytes = total.bytes
          /\ counters'.body = total.body /\ counters'.records = total.records
      BY <1>2, <1>7 DEF Counters
    <2>4. /\ counters'.retained = total.retained /\ counters'.waiting = total.waiting
          /\ counters'.rate = total.rate + n /\ counters'.retry = total.retry
          /\ counters'.admission = total.admission
      BY <1>2, <1>7 DEF Counters
    <2>5. counters.retry <= RetryWaiting /\ counters.admission <= AdmissionWaiting
      BY DEF IInv, WithinBudgets
    <2> QED
      BY <1>2, <1>7, <2>1, <2>2, <2>3, <2>4, <2>5, WaitDebitPreserves
  <1> QED
    BY <1>3, <1>4, <1>5, <1>6, <1>7

\* Waiting for admission is debited to a budget of its own.
LEMMA CommitAdmissionWaitPreserves ==
  ASSUME IInv, NEW n \in Nat, CommitAdmissionWait(n), now' = now PROVE IInv'
  <1>1. CASE Fail
    BY <1>1, FailPreserves
  <1>2. CASE ~Fail
    <2>1. /\ state = "STEP_ACTIVE" /\ state' = state /\ Untouched
          /\ counters.admission + n <= AdmissionWaiting
          /\ counters' = [counters EXCEPT !.admission = counters.admission + n]
      BY <1>2 DEF CommitAdmissionWait, Untouched
    <2>2. counters \in Counters /\ counters.admission + n \in Nat
      BY DEF IInv, TypeOK, Counters
    <2>3. counters' \in Counters
      BY <2>1, <2>2 DEF Counters
    <2>4. /\ counters'.pages = counters.pages /\ counters'.attempts = counters.attempts
          /\ counters'.active = counters.active /\ counters'.bytes = counters.bytes
          /\ counters'.body = counters.body /\ counters'.records = counters.records
      BY <2>1, <2>2 DEF Counters
    <2>5. /\ counters'.retained = counters.retained
          /\ counters'.waiting = counters.waiting /\ counters'.retry = counters.retry
          /\ counters'.rate = counters.rate
          /\ counters'.admission = counters.admission + n
      BY <2>1, <2>2 DEF Counters
    <2>6. /\ counters.waiting <= Scan.waiting /\ counters.retry <= RetryWaiting
          /\ counters.rate <= Scan.rate
      BY DEF IInv, WithinBudgets
    <2> QED
      BY <2>1, <2>3, <2>4, <2>5, <2>6, WaitDebitPreserves
  <1> QED
    BY <1>1, <1>2

-----------------------------------------------------------------------------
\* A step that changes nothing but the clock.
LEMMA StutterPreserves ==
  ASSUME IInv, UNCHANGED accounting, now' \in Nat PROVE IInv'
  BY DEF IInv, TypeOK, WithinBudgets, AllowanceFits, StepBound, accounting

\* Every call keeps the invariant.
LEMMA CallPreserves == ASSUME IInv, Call, now' = now PROVE IInv'
  <1>1. now' \in Nat
    BY DEF IInv, TypeOK
  <1>2. Amounts \subseteq Nat
    BY ProfileTypes DEF Amounts
  <1>3. CASE BeginStep
    BY <1>3, BeginStepPreserves
  <1>4. CASE BeginAttempt
    BY <1>4, BeginAttemptPreserves
  <1>5. CASE \E n \in Amounts : CommitRequestBody(n)
    BY <1>2, <1>5, CommitRequestBodyPreserves
  <1>6. CASE \E u \in [Bytes -> Amounts] : CommitAttemptFailure(u)
    <2>1. PICK u \in [Bytes -> Amounts] : CommitAttemptUsage(u, "STEP_ACTIVE")
      BY <1>6 DEF CommitAttemptFailure
    <2>2. u \in [Bytes -> Nat]
      BY <1>2
    <2> QED
      BY <2>1, <2>2, CommitAttemptUsagePreserves
  <1>7. CASE \E u \in [Bytes -> Amounts] : CommitTransport(u)
    <2>1. PICK u \in [Bytes -> Amounts] : CommitAttemptUsage(u, "TRANSPORT_COMMITTED")
      BY <1>7 DEF CommitTransport
    <2>2. u \in [Bytes -> Nat]
      BY <1>2
    <2> QED
      BY <2>1, <2>2, CommitAttemptUsagePreserves
  <1>8. CASE CommitRemoteTransportTime
    BY <1>1, <1>8, FailPreserves, StutterPreserves DEF CommitRemoteTransportTime
  <1>9. CASE \E r \in Amounts, m \in Amounts : CommitDecodedPage(r, m)
    BY <1>2, <1>9, CommitDecodedPagePreserves
  <1>10. CASE \E has_next \in BOOLEAN : CompletePage(has_next)
    BY <1>10, CompletePagePreserves
  <1>11. CASE \E n \in Amounts : CommitRetryWait(n)
    BY <1>2, <1>11, CommitWaitPreserves
  <1>12. CASE \E n \in Amounts : CommitRateLimitWait(n)
    BY <1>2, <1>12, CommitWaitPreserves
  <1>13. CASE \E n \in Amounts : CommitAdmissionWait(n)
    BY <1>2, <1>13, CommitAdmissionWaitPreserves
  <1>14. CASE AbortPage
    BY <1>14, FailPreserves DEF AbortPage
  <1> QED
    BY <1>3, <1>4, <1>5, <1>6, <1>7, <1>8, <1>9, <1>10, <1>11, <1>12, <1>13, <1>14
    DEF Call

\* The inductive invariant holds in every reachable state.
THEOREM Invariance == Spec => []IInv
  <1>1. ASSUME IInv, [Next]_vars PROVE IInv'
    <2>1. CASE Call /\ UNCHANGED now
      BY <1>1, <2>1, CallPreserves
    <2>2. CASE Tick
      <3>1. now' \in Nat
        BY <1>1, <2>2 DEF Tick, IInv, TypeOK
      <3> QED
        BY <1>1, <2>2, <3>1, StutterPreserves DEF Tick
    <2>3. CASE UNCHANGED vars
      <3>1. now' \in Nat
        BY <1>1, <2>3 DEF vars, IInv, TypeOK
      <3> QED
        BY <1>1, <2>3, <3>1, StutterPreserves DEF vars
    <2> QED
      BY <1>1, <2>1, <2>2, <2>3 DEF Next
  <1> QED
    BY Initially, <1>1, PTL DEF Spec

\* Every variable keeps its type, and no step attempts a page more often than
\* the page profile allows (BeginAttempt).
THEOREM TypeCorrect == Spec => []TypeOK
  BY Invariance, PTL DEF IInv

\* No counter of a scan exceeds its budget, for every profile that
\* ValidateProfile accepts and every sequence of calls.
THEOREM BudgetsHold == Spec => []WithinBudgets
  BY Invariance, PTL DEF IInv

\* What an attempt was allowed fits what the scan has left for as long as the
\* attempt is in flight: AddChecked never throws once RequireWithin has passed.
THEOREM AllowancesFit == Spec => []AllowanceFits
  BY Invariance, PTL DEF IInv

-----------------------------------------------------------------------------
(* The deadline *)

\* Past its first step a scan that has not failed has a deadline.
ClockRuns == state \notin {"READY", "FAILED"} => deadline_started

\* What DeadlineKept says of one step.
DeadlineStep ==
  /\ deadline_started => deadline_started' /\ deadline' = deadline
  /\ counters'.attempts # counters.attempts => deadline_started /\ now < deadline

\* No call other than BeginStep and BeginAttempt touches the deadline or debits
\* an attempt, and none but BeginStep leaves the initial state.
LEMMA OtherCalls ==
  ASSUME TypeOK, Call, ~BeginStep, ~BeginAttempt
  PROVE  /\ UNCHANGED <<deadline_started, deadline>>
         /\ counters'.attempts = counters.attempts
         /\ state' \in {"READY", "FAILED"} \/ state \notin {"READY", "FAILED"}
  <1>1. counters \in Counters
    BY DEF TypeOK
  <1>2. \A c \in Counters : Idle(c).attempts = c.attempts
    BY IdleCounters
  <1>3. ASSUME Fail
        PROVE  /\ UNCHANGED <<deadline_started, deadline>>
               /\ counters'.attempts = counters.attempts /\ state' = "FAILED"
    BY <1>1, <1>2, <1>3 DEF Fail, FailWith
  <1>4. CASE \E n \in Amounts : CommitRequestBody(n)
    BY <1>1, <1>3, <1>4 DEF CommitRequestBody, MayCommitRequestBody, Counters
  <1>5. CASE \E u \in [Bytes -> Amounts] : CommitAttemptFailure(u) \/ CommitTransport(u)
    BY <1>1, <1>3, <1>5 DEF CommitAttemptFailure, CommitTransport, CommitAttemptUsage,
                            MayCommitAttemptUsage, RequestSent, Counters
  <1>6. CASE CommitRemoteTransportTime
    BY <1>3, <1>6 DEF CommitRemoteTransportTime, accounting, Requesting
  <1>7. CASE \E r \in Amounts, m \in Amounts : CommitDecodedPage(r, m)
    BY <1>1, <1>3, <1>7 DEF CommitDecodedPage, MayCommitDecodedPage, Counters
  <1>8. CASE \E has_next \in BOOLEAN : CompletePage(has_next)
    BY <1>1, <1>2, <1>3, <1>8 DEF CompletePage, FailWith, Counters
  <1>9. CASE \E n \in Amounts : CommitRetryWait(n) \/ CommitRateLimitWait(n)
    <2>1. PICK n \in Amounts : CommitRetryWait(n) \/ CommitRateLimitWait(n)
      BY <1>9
    <2> DEFINE total == [counters EXCEPT !.waiting = counters.waiting + n]
    <2>2. counters.waiting + n \in Nat /\ counters.retry \in Nat /\ counters.rate \in Nat
      BY <1>1, ProfileTypes DEF Counters, Amounts
    <2>3. total \in Counters /\ total.attempts = counters.attempts
      BY <1>1, <2>2, AggregateDebit
    <2>4. \/ Fail
          \/ /\ UNCHANGED <<deadline_started, deadline>>
             /\ state = "STEP_ACTIVE"
             /\ \/ FailWith(total)
                \/ counters' = [total EXCEPT !.retry = @ + n]
                \/ counters' = [total EXCEPT !.rate = @ + n]
      BY <2>1 DEF CommitRetryWait, CommitRateLimitWait, CommitWait
    <2>5. CASE Fail
      BY <1>3, <2>5
    <2> HIDE DEF total
    <2>6. CASE FailWith(total)
      BY <1>2, <2>3, <2>4, <2>6, <1>3 DEF FailWith
    <2>7. CASE \/ counters' = [total EXCEPT !.retry = @ + n]
               \/ counters' = [total EXCEPT !.rate = @ + n]
      BY <1>3, <2>3, <2>4, <2>7 DEF Counters
    <2> QED
      BY <2>4, <2>5, <2>6, <2>7
  <1>10. CASE \E n \in Amounts : CommitAdmissionWait(n)
    BY <1>1, <1>3, <1>10 DEF CommitAdmissionWait, Counters
  <1>11. CASE AbortPage
    BY <1>3, <1>11 DEF AbortPage
  <1> QED
    BY <1>4, <1>5, <1>6, <1>7, <1>8, <1>9, <1>10, <1>11 DEF Call

\* Every step keeps the deadline and the fact that it runs.
LEMMA DeadlineOfStep ==
  ASSUME TypeOK, ClockRuns, [Next]_vars PROVE ClockRuns' /\ DeadlineStep
  <1>1. counters \in Counters
    BY DEF TypeOK
  <1>2. Idle(counters).attempts = counters.attempts
    BY <1>1, IdleCounters
  <1>3. CASE BeginStep
    BY <1>2, <1>3 DEF BeginStep, Fail, FailWith, ClockRuns, DeadlineStep, StepDeadline
  <1>4. CASE BeginAttempt
    BY <1>2, <1>4 DEF BeginAttempt, MayBeginAttempt, Fail, FailWith, ClockRuns,
                      DeadlineStep
  <1>5. CASE Call /\ ~BeginStep /\ ~BeginAttempt
    BY <1>5, OtherCalls DEF ClockRuns, DeadlineStep
  <1>6. CASE Tick \/ UNCHANGED vars
    BY <1>6 DEF Tick, vars, accounting, ClockRuns, DeadlineStep
  <1> QED
    BY <1>3, <1>4, <1>5, <1>6 DEF Next

\* The first step fixes the deadline for good and no attempt is debited after it
\* (BeginStep, BeginAttempt).
THEOREM DeadlineIsKept == Spec => DeadlineKept
  <1>1. Init => ClockRuns
    BY DEF Init, ClockRuns
  <1>2. TypeOK /\ ClockRuns /\ [Next]_vars => ClockRuns' /\ [DeadlineStep]_vars
    BY DeadlineOfStep
  <1>3. DeadlineKept <=> [][DeadlineStep]_vars
    BY DEF DeadlineKept, DeadlineStep
  <1> QED
    BY <1>1, <1>2, <1>3, TypeCorrect, PTL DEF Spec
=============================================================================

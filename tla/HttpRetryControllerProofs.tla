---------------------- MODULE HttpRetryControllerProofs ----------------------
(***************************************************************************)
(* Proofs about the attempt loop, for every profile, policy and request    *)
(* that plan admission lets through, every answer of the components it     *)
(* waits for and every instant at which it is cancelled.                   *)
(*                                                                         *)
(* The loop's own counts are exact because of where they are changed       *)
(* relative to the accounting's: the proof follows the position of the     *)
(* thread, and for every position says in which state the accounting is,   *)
(* what the step holds and how far its attempts are ahead of its repeats.  *)
(* What a call does to the accounting itself is taken from the proofs of   *)
(* that component.                                                         *)
(***************************************************************************)
EXTENDS HttpRetryController, TLAPS

Accounting == INSTANCE ScanResourceAccountingProofs

-----------------------------------------------------------------------------
(* The inductive invariant *)

WaitTypes ==
  /\ wait \in [started : Nat, end : Nat, eligible : Nat, delay : Nat, waited : Nat]
  /\ wait.started <= now
  /\ wait.waited <= wait.delay

LoopTypes ==
  /\ pc \in Outside \cup Asking \cup Attempting
  /\ held \subseteq Holdings
  /\ step \in [ordinary : 0..(Retry.step - 1), limited : 0..(RateLimit.step - 1),
               immediate : BOOLEAN, bucket : SUBSET (RemoteBuckets \cup {Absent}),
               quota : BOOLEAN]
  /\ repeats \in [ordinary : Nat, limited : Nat]
  /\ cancelled \in BOOLEAN
  /\ seen \in Nat

\* The state of the accounting at every position of the thread.
InStep == Asking \cup (Attempting \ {"building", "transport"})

Positions ==
  /\ pc \in InStep => state = "STEP_ACTIVE"
  /\ pc = "building" => state = "REQUEST_ACTIVE"
  /\ pc = "responded" => state = "TRANSPORT_COMMITTED"
  /\ pc = "between" => state \in {"READY", "PAGE_DECODED", "EXHAUSTED"}

StepRepeats == step.ordinary + step.limited

AllRepeats == repeats.ordinary + repeats.limited

\* How the attempts of the accounting relate to the repeats of the loop.
Ordinals ==
  /\ pc \in Asking =>
       /\ current_step_attempts = StepRepeats
       /\ current_step_page_committed <=> StepRepeats > 0
       /\ counters.attempts + (IF StepRepeats > 0 THEN 1 ELSE 0)
            = counters.pages + AllRepeats
  /\ pc \in Attempting =>
       /\ current_step_attempts = StepRepeats + 1
       /\ current_step_page_committed
  /\ pc \in Attempting \cup {"between", "responded"} =>
       counters.attempts = counters.pages + AllRepeats

\* A repeat is decided before its wait and counted after it.
Authority ==
  /\ repeats.ordinary <= RepeatLimit(Retry.scan)
  /\ repeats.limited <= RepeatLimit(RateLimit.scan)
  /\ pc \in RetryWaits => /\ step.ordinary < Retry.step - 1
                          /\ repeats.ordinary < RepeatLimit(Retry.scan)
  /\ pc = "rate wait" => /\ step.limited < RateLimit.step - 1
                         /\ repeats.limited < RepeatLimit(RateLimit.scan)

\* What the step holds at every position.
HoldingsAt ==
  /\ NothingHeldWhileWaiting
  /\ pc \in {"top", "admission"} => held \subseteq {"permit"}
  /\ pc = "admitted" => held \subseteq {"permit", "request"}
  /\ pc \in {"building", "transport"} => held \subseteq {"permit", "request", "buffers"}
  /\ pc \in {"limited", "failed"} => held \subseteq {"permit", "buffers"}

\* A cancelled stream that still waits has begun nothing since.
CancelSeen ==
  cancelled => /\ counters.attempts <= seen + 1
               /\ pc \in {"quota wait", "admission", "admitted"} =>
                    counters.attempts <= seen

IInv ==
  /\ Accounting!IInv
  /\ WaitTypes
  /\ LoopTypes
  /\ Positions
  /\ Ordinals
  /\ Authority
  /\ HoldingsAt
  /\ CancelSeen

-----------------------------------------------------------------------------
(* What the calls do to the accounting *)

\* The assumptions of the accounting's proofs.
LEMMA ValidProfile ==
  /\ ClockMax \in Nat /\ AdmissionWaiting \in Nat
  /\ MaxAmount \in Nat /\ MaxTime \in Nat
  /\ Accounting!ValidateProfile
BY AccountingAssumption
DEF Accounting!ValidateProfile, Acc!ValidateProfile, Accounting!PageProfile,
    Acc!PageProfile, Accounting!ScanProfile, Acc!ScanProfile,
    Accounting!Positive, Acc!Positive

\* The types that the accounting's invariant gives.
LEMMA AccountingTypes ==
  ASSUME Accounting!IInv
  PROVE  /\ Acc!TypeOK /\ Acc!WithinBudgets
         /\ counters \in Acc!Counters
         /\ counters.attempts \in Nat /\ counters.pages \in Nat
         /\ counters.waiting \in Nat /\ counters.rate \in Nat
         /\ counters.retry \in Nat /\ counters.admission \in Nat
         /\ current_step_attempts \in Nat
         /\ current_step_page_committed \in BOOLEAN
         /\ state \in Acc!States /\ deadline \in Nat /\ now \in Nat
<1>1. Acc!TypeOK /\ Acc!WithinBudgets
  BY DEF Accounting!IInv, Accounting!TypeOK, Acc!TypeOK, Accounting!WithinBudgets,
         Acc!WithinBudgets, Accounting!States, Acc!States, Accounting!Counters,
         Acc!Counters, Accounting!Allowance, Acc!Allowance,
         Accounting!RetryWaiting, Acc!RetryWaiting
<1>2. Page.attempts \in Nat
  BY AccountingAssumption DEF Acc!ValidateProfile
<1>3. counters \in Acc!Counters
  BY <1>1 DEF Acc!TypeOK
<1>4. /\ counters.attempts \in Nat /\ counters.pages \in Nat
      /\ counters.waiting \in Nat /\ counters.rate \in Nat
      /\ counters.retry \in Nat /\ counters.admission \in Nat
  BY <1>3 DEF Acc!Counters
<1> QED
  BY <1>1, <1>2, <1>3, <1>4 DEF Acc!TypeOK

\* Failing the scan leaves the counts of pages and attempts.
LEMMA FailCall ==
  ASSUME Accounting!IInv, Acc!Fail, now' = now
  PROVE  /\ Accounting!IInv' /\ state' = "FAILED"
         /\ counters'.attempts = counters.attempts
<1>1. Accounting!Fail
  BY Zenon DEF Acc!Fail, Accounting!Fail, Acc!FailWith, Accounting!FailWith, Acc!Idle,
               Accounting!Idle
<1>2. Accounting!IInv'
  BY <1>1, Accounting!FailPreserves, ValidProfile
<1>3. state' = "FAILED" /\ counters' = [counters EXCEPT !.active = 0, !.retained = 0]
  BY DEF Acc!Fail, Acc!FailWith, Acc!Idle
<1>4. counters \in Acc!Counters
  BY AccountingTypes
<1>5. counters'.attempts = counters.attempts
  BY <1>3, <1>4 DEF Acc!Counters
<1> QED
  BY <1>2, <1>3, <1>5

\* A call that moves neither the attempts nor the pages nor the step.
Quiet ==
  /\ counters'.attempts = counters.attempts
  /\ counters'.pages = counters.pages
  /\ current_step_attempts' = current_step_attempts
  /\ current_step_page_committed' = current_step_page_committed

\* A call that fails the scan, or is quiet and leaves the accounting in one of
\* the states S.
QuietCall(S) ==
  /\ Accounting!IInv'
  /\ counters'.attempts = counters.attempts
  /\ state' = "FAILED" \/ (Quiet /\ state' \in S)

\* Every debit of a wait, and the absence of one.
LEMMA WaitCall ==
  ASSUME Accounting!IInv, now' = now, NEW n \in Nat,
         \/ UNCHANGED accounting
         \/ Acc!CommitRetryWait(n)
         \/ Acc!CommitRateLimitWait(n)
         \/ Acc!CommitAdmissionWait(n)
  PROVE  QuietCall({state})
<1>0. counters \in Acc!Counters /\ now \in Nat
  BY AccountingTypes
<1>1. CASE UNCHANGED accounting
  <2>1. UNCHANGED Accounting!accounting
    BY <1>1 DEF accounting, Accounting!accounting
  <2>2. Accounting!IInv'
    BY <1>0, <2>1, Accounting!StutterPreserves, ValidProfile
  <2> QED
    BY <1>1, <2>2 DEF accounting, QuietCall, Quiet
<1>2. CASE Acc!Fail
  BY <1>2, FailCall DEF QuietCall
<1>3. CASE Acc!CommitRetryWait(n) /\ ~Acc!Fail
  <2>1. Accounting!CommitRetryWait(n)
    BY <1>3, Zenon
    DEF Acc!CommitRetryWait, Accounting!CommitRetryWait, Acc!CommitWait,
        Accounting!CommitWait, Acc!Fail, Accounting!Fail, Acc!FailWith,
        Accounting!FailWith, Acc!Idle, Accounting!Idle, Acc!RetryWaiting,
        Accounting!RetryWaiting
  <2>2. Accounting!IInv'
    BY <2>1, Accounting!CommitWaitPreserves, ValidProfile
  <2>3. Quiet /\ state' \in {state, "FAILED"}
    <3> DEFINE total == [counters EXCEPT !.waiting = @ + n]
    <3>1. total \in Acc!Counters /\ total.attempts = counters.attempts
          /\ total.pages = counters.pages
      BY <1>0 DEF Acc!Counters
    <3>2. /\ UNCHANGED <<current_step_attempts, current_step_page_committed>>
          /\ \/ counters' = [total EXCEPT !["retry"] = @ + n] /\ state' = state
             \/ counters' = Acc!Idle(total) /\ state' = "FAILED"
      BY <1>3 DEF Acc!CommitRetryWait, Acc!CommitWait, Acc!FailWith
    <3> HIDE DEF total
    <3> QED
      BY <3>1, <3>2 DEF Quiet, Acc!Idle, Acc!Counters
  <2> QED
    BY <2>2, <2>3 DEF QuietCall, Quiet
<1>4. CASE Acc!CommitRateLimitWait(n) /\ ~Acc!Fail
  <2>1. Accounting!CommitRateLimitWait(n)
    BY <1>4, Zenon
    DEF Acc!CommitRateLimitWait, Accounting!CommitRateLimitWait, Acc!CommitWait,
        Accounting!CommitWait, Acc!Fail, Accounting!Fail, Acc!FailWith,
        Accounting!FailWith, Acc!Idle, Accounting!Idle
  <2>2. Accounting!IInv'
    BY <2>1, Accounting!CommitWaitPreserves, ValidProfile
  <2>3. Quiet /\ state' \in {state, "FAILED"}
    <3> DEFINE total == [counters EXCEPT !.waiting = @ + n]
    <3>1. total \in Acc!Counters /\ total.attempts = counters.attempts
          /\ total.pages = counters.pages
      BY <1>0 DEF Acc!Counters
    <3>2. /\ UNCHANGED <<current_step_attempts, current_step_page_committed>>
          /\ \/ counters' = [total EXCEPT !["rate"] = @ + n] /\ state' = state
             \/ counters' = Acc!Idle(total) /\ state' = "FAILED"
      BY <1>4 DEF Acc!CommitRateLimitWait, Acc!CommitWait, Acc!FailWith
    <3> HIDE DEF total
    <3> QED
      BY <3>1, <3>2 DEF Quiet, Acc!Idle, Acc!Counters
  <2> QED
    BY <2>2, <2>3 DEF QuietCall, Quiet
<1>5. CASE Acc!CommitAdmissionWait(n) /\ ~Acc!Fail
  <2>1. Accounting!CommitAdmissionWait(n)
    BY <1>5, Zenon
    DEF Acc!CommitAdmissionWait, Accounting!CommitAdmissionWait, Acc!Fail,
        Accounting!Fail, Acc!FailWith, Accounting!FailWith, Acc!Idle,
        Accounting!Idle
  <2>2. Accounting!IInv'
    BY <2>1, Accounting!CommitAdmissionWaitPreserves, ValidProfile
  <2>3. /\ counters' = [counters EXCEPT !.admission = @ + n]
        /\ UNCHANGED <<state, current_step_attempts, current_step_page_committed>>
    BY <1>5 DEF Acc!CommitAdmissionWait
  <2>4. Quiet
    BY <1>0, <2>3 DEF Quiet, Acc!Counters
  <2> QED
    BY <2>2, <2>3, <2>4 DEF QuietCall, Quiet
<1> QED
  BY <1>1, <1>2, <1>3, <1>4, <1>5

\* BeginStep fails or opens a step without attempts.
LEMMA BeginStepCall ==
  ASSUME Accounting!IInv, now' = now, Acc!BeginStep
  PROVE  /\ Accounting!IInv'
         /\ counters'.attempts = counters.attempts
         /\ \/ state' = "FAILED"
            \/ /\ state' = "STEP_ACTIVE" /\ counters' = counters
               /\ current_step_attempts' = 0
               /\ current_step_page_committed' = FALSE
<1>1. Accounting!BeginStep
  BY Zenon
  DEF Acc!BeginStep, Accounting!BeginStep, Acc!MayBeginStep, Accounting!MayBeginStep,
      Acc!Fail, Accounting!Fail, Acc!FailWith, Accounting!FailWith, Acc!Idle,
      Accounting!Idle, Acc!StepDeadline, Accounting!StepDeadline,
      Acc!RequireReadyForNext, Accounting!RequireReadyForNext
<1>2. Accounting!IInv'
  BY <1>1, Accounting!BeginStepPreserves, ValidProfile
<1>3. CASE Acc!Fail
  BY <1>3, FailCall
<1>4. CASE ~Acc!Fail
  <2>1. counters \in Acc!Counters
    BY AccountingTypes
  <2>2. \/ state' = "FAILED" /\ counters' = Acc!Idle(counters)
        \/ /\ state' = "STEP_ACTIVE" /\ counters' = counters
           /\ current_step_attempts' = 0
           /\ current_step_page_committed' = FALSE
    BY <1>4 DEF Acc!BeginStep, Acc!FailWith
  <2>3. Acc!Idle(counters).attempts = counters.attempts
    BY <2>1 DEF Acc!Idle, Acc!Counters
  <2> QED
    BY <1>2, <2>2, <2>3
<1> QED
  BY <1>3, <1>4

\* BeginAttempt fails or debits one attempt, and a page with the step's first.
LEMMA BeginAttemptCall ==
  ASSUME Accounting!IInv, now' = now, Acc!BeginAttempt
  PROVE  /\ Accounting!IInv'
         /\ \/ state' = "FAILED" /\ counters'.attempts = counters.attempts
            \/ /\ state' = "REQUEST_ACTIVE"
               /\ counters'.attempts = counters.attempts + 1
               /\ counters'.pages = counters.pages +
                    (IF current_step_page_committed THEN 0 ELSE 1)
               /\ current_step_attempts' = current_step_attempts + 1
               /\ current_step_page_committed' = TRUE
<1>1. Accounting!BeginAttempt
  BY Zenon
  DEF Acc!BeginAttempt, Accounting!BeginAttempt, Acc!MayBeginAttempt,
      Accounting!MayBeginAttempt, Acc!Fail, Accounting!Fail, Acc!FailWith,
      Accounting!FailWith, Acc!Idle, Accounting!Idle, Acc!AttemptAllowance,
      Accounting!AttemptAllowance, Acc!Smaller, Accounting!Smaller
<1>2. Accounting!IInv'
  BY <1>1, Accounting!BeginAttemptPreserves, ValidProfile
<1>3. CASE Acc!Fail
  BY <1>3, FailCall
<1>4. CASE ~Acc!Fail
  <2>1. counters \in Acc!Counters /\ counters.pages \in Nat
    BY AccountingTypes
  <2>2. /\ state' = "REQUEST_ACTIVE"
        /\ current_step_attempts' = current_step_attempts + 1
        /\ current_step_page_committed' = TRUE
        /\ counters' = [counters EXCEPT
                          !.attempts = @ + 1,
                          !.active   = @ + 1,
                          !.pages    = IF current_step_page_committed THEN @ ELSE @ + 1]
    BY <1>4 DEF Acc!BeginAttempt
  <2>3. /\ counters'.attempts = counters.attempts + 1
        /\ counters'.pages = (IF current_step_page_committed THEN counters.pages
                              ELSE counters.pages + 1)
    BY <2>1, <2>2 DEF Acc!Counters
  <2> QED
    BY <1>2, <2>1, <2>2, <2>3
<1> QED
  BY <1>3, <1>4

\* Debiting the request body, or having none.
LEMMA BodyCall ==
  ASSUME Accounting!IInv, now' = now, state = "REQUEST_ACTIVE",
         IF RequestBody = 0 THEN UNCHANGED accounting
         ELSE Acc!CommitRequestBody(RequestBody)
  PROVE  QuietCall({state, "REQUEST_BODY_COMMITTED"})
<1>1. CASE RequestBody = 0
  BY <1>1, WaitCall DEF QuietCall
<1>2. CASE RequestBody # 0
  <2>1. Accounting!CommitRequestBody(RequestBody)
    BY <1>2, Zenon
    DEF Acc!CommitRequestBody, Accounting!CommitRequestBody,
        Acc!MayCommitRequestBody, Accounting!MayCommitRequestBody,
        Acc!Fail, Accounting!Fail, Acc!FailWith, Accounting!FailWith, Acc!Idle,
        Accounting!Idle
  <2>2. Accounting!IInv'
    BY <2>1, Accounting!CommitRequestBodyPreserves, ValidProfile, PolicyAssumption
  <2>3. CASE Acc!Fail
    BY <2>3, FailCall DEF QuietCall
  <2>4. CASE ~Acc!Fail
    <3>1. counters \in Acc!Counters
      BY AccountingTypes
    <3>2. /\ state' = "REQUEST_BODY_COMMITTED"
          /\ counters' = [counters EXCEPT !.body = @ + RequestBody]
          /\ UNCHANGED <<current_step_attempts, current_step_page_committed>>
      BY <1>2, <2>4 DEF Acc!CommitRequestBody
    <3>3. Quiet
      BY <3>1, <3>2 DEF Quiet, Acc!Counters
    <3> QED
      BY <2>2, <3>2, <3>3 DEF QuietCall, Quiet
  <2> QED
    BY <2>3, <2>4
<1> QED
  BY <1>1, <1>2

\* Debiting what the transport has used.
LEMMA UsageCall ==
  ASSUME Accounting!IInv, now' = now, NEW u \in Usages,
         NEW next \in {"STEP_ACTIVE", "TRANSPORT_COMMITTED"},
         Acc!CommitAttemptUsage(u, next)
  PROVE  QuietCall({next})
<1>1. u \in [Bytes -> Nat]
  BY AccountingAssumption DEF Usages
<1>2. Accounting!CommitAttemptUsage(u, next)
  BY Zenon
  DEF Acc!CommitAttemptUsage, Accounting!CommitAttemptUsage,
      Acc!MayCommitAttemptUsage, Accounting!MayCommitAttemptUsage,
      Acc!RequestSent, Accounting!RequestSent,
      Acc!Fail, Accounting!Fail, Acc!FailWith, Accounting!FailWith, Acc!Idle,
      Accounting!Idle
<1>3. Accounting!IInv'
  BY <1>1, <1>2, Accounting!CommitAttemptUsagePreserves, ValidProfile
<1>4. CASE Acc!Fail
  BY <1>4, FailCall DEF QuietCall
<1>5. CASE ~Acc!Fail
  <2>1. counters \in Acc!Counters
    BY AccountingTypes
  <2>2. /\ state' = next
        /\ counters' = [counters EXCEPT
                          !.bytes  = [d \in Bytes |-> @[d] + u[d]],
                          !.active = 0]
        /\ UNCHANGED <<current_step_attempts, current_step_page_committed>>
    BY <1>5 DEF Acc!CommitAttemptUsage
  <2>3. Quiet
    BY <2>1, <2>2 DEF Quiet, Acc!Counters
  <2> QED
    BY <1>3, <2>2, <2>3 DEF QuietCall, Quiet
<1> QED
  BY <1>4, <1>5

\* Debiting a decoded page.
LEMMA DecodeCall ==
  ASSUME Accounting!IInv, now' = now, NEW r \in 0..MaxAmount,
         Acc!CommitDecodedPage(r, 1)
  PROVE  QuietCall({"PAGE_DECODED"})
<1>1. r \in Nat /\ 1 \in Nat
  BY AccountingAssumption
<1>2. Accounting!CommitDecodedPage(r, 1)
  BY Zenon
  DEF Acc!CommitDecodedPage, Accounting!CommitDecodedPage,
      Acc!MayCommitDecodedPage, Accounting!MayCommitDecodedPage,
      Acc!Fail, Accounting!Fail, Acc!FailWith, Accounting!FailWith, Acc!Idle,
      Accounting!Idle
<1>3. Accounting!IInv'
  BY <1>1, <1>2, Accounting!CommitDecodedPagePreserves, ValidProfile
<1>4. CASE Acc!Fail
  BY <1>4, FailCall DEF QuietCall
<1>5. CASE ~Acc!Fail
  <2>1. counters \in Acc!Counters
    BY AccountingTypes
  <2>2. /\ state' = "PAGE_DECODED"
        /\ counters' = [counters EXCEPT !.records = @ + r, !.retained = 1]
        /\ UNCHANGED <<current_step_attempts, current_step_page_committed>>
    BY <1>5 DEF Acc!CommitDecodedPage
  <2>3. Quiet
    BY <2>1, <2>2 DEF Quiet, Acc!Counters
  <2> QED
    BY <1>3, <2>2, <2>3 DEF QuietCall, Quiet
<1> QED
  BY <1>4, <1>5

\* Completing a page ends its step.
LEMMA CompleteCall ==
  ASSUME Accounting!IInv, now' = now, NEW has_next \in BOOLEAN,
         Acc!CompletePage(has_next)
  PROVE  /\ Accounting!IInv'
         /\ counters'.attempts = counters.attempts
         /\ \/ state' = "FAILED"
            \/ /\ state' \in {"READY", "EXHAUSTED"}
               /\ counters'.pages = counters.pages
<1>1. Accounting!CompletePage(has_next)
  BY Zenon
  DEF Acc!CompletePage, Accounting!CompletePage, Acc!RequireReadyForNext,
      Accounting!RequireReadyForNext, Acc!Fail, Accounting!Fail, Acc!FailWith,
      Accounting!FailWith, Acc!Idle, Accounting!Idle
<1>2. Accounting!IInv'
  BY <1>1, Accounting!CompletePagePreserves, ValidProfile
<1>3. CASE Acc!Fail
  BY <1>3, FailCall
<1>4. CASE ~Acc!Fail
  <2>1. counters \in Acc!Counters
    BY AccountingTypes
  <2>2. \/ state' = "FAILED" /\ counters' = Acc!Idle(counters)
        \/ /\ state' \in {"READY", "EXHAUSTED"}
           /\ counters' = [counters EXCEPT !.retained = 0]
    BY <1>4 DEF Acc!CompletePage, Acc!FailWith
  <2>3. /\ Acc!Idle(counters).attempts = counters.attempts
        /\ [counters EXCEPT !.retained = 0].attempts = counters.attempts
        /\ [counters EXCEPT !.retained = 0].pages = counters.pages
    BY <2>1 DEF Acc!Idle, Acc!Counters
  <2> QED
    BY <1>2, <2>2, <2>3
<1> QED
  BY <1>3, <1>4

-----------------------------------------------------------------------------
(* Moves of the thread *)

\* What no step of the thread changes.
Outer == now' = now /\ cancelled' = cancelled /\ seen' = seen

\* The policies are made of naturals and every step has a first attempt.
LEMMA PolicyTypes ==
  /\ Retry.step \in Nat /\ Retry.step >= 1 /\ RateLimit.step \in Nat /\ RateLimit.step >= 1
  /\ Retry.scan \in Nat /\ RateLimit.scan \in Nat /\ Retry.delay \in Nat
  /\ Retry.waiting \in Nat /\ RateLimit.waiting \in Nat /\ QueueTimeout \in Nat
  /\ AdmissionWaiting \in Nat /\ Scan.waiting \in Nat /\ Scan.pages \in Nat
  /\ RepeatLimit(Retry.scan) \in Nat /\ RepeatLimit(RateLimit.scan) \in Nat
<1>1. Scan \in Acc!ScanProfile
  BY AccountingAssumption DEF Acc!ValidateProfile
<1>2. Scan.waiting \in Nat /\ Scan.pages \in Nat
  BY <1>1 DEF Acc!ScanProfile, Acc!Positive
<1>3. /\ Retry.step \in Nat /\ Retry.step >= 1 /\ RateLimit.step \in Nat
      /\ RateLimit.step >= 1 /\ Retry.scan \in Nat /\ RateLimit.scan \in Nat
      /\ Retry.delay \in Nat /\ Retry.waiting \in Nat /\ RateLimit.waiting \in Nat
  BY PolicyAssumption
<1> QED
  BY <1>2, <1>3, PolicyAssumption, AccountingAssumption DEF RepeatLimit, Remaining

\* A fresh step has the loop's types.
LEMMA FreshStepTyped ==
  FreshStep \in [ordinary : 0..(Retry.step - 1), limited : 0..(RateLimit.step - 1),
                 immediate : BOOLEAN, bucket : SUBSET (RemoteBuckets \cup {Absent}),
                 quota : BOOLEAN]
BY PolicyTypes DEF FreshStep

\* The ordinals of the step and of the scan are naturals.
LEMMA OrdinalTypes ==
  ASSUME LoopTypes
  PROVE  /\ step.ordinary \in Nat /\ step.limited \in Nat /\ StepRepeats \in Nat
         /\ repeats.ordinary \in Nat /\ repeats.limited \in Nat /\ AllRepeats \in Nat
<1>1. step.ordinary \in 0..(Retry.step - 1) /\ step.limited \in 0..(RateLimit.step - 1)
  BY DEF LoopTypes
<1>2. repeats.ordinary \in Nat /\ repeats.limited \in Nat
  BY DEF LoopTypes
<1> QED
  BY <1>1, <1>2, PolicyTypes DEF StepRepeats, AllRepeats

\* An exception leaves the loop with nothing held, whatever was debited before
\* it and wherever it was thrown (the destructors of the permits).
LEMMA ThrowMove ==
  ASSUME IInv, Outer, Accounting!IInv', counters'.attempts = counters.attempts,
         Throw, repeats' = repeats, step' = step \/ step' = FreshStep,
         WaitTypes'
  PROVE  IInv'
<1>1. LoopTypes'
  <2>1. step' \in [ordinary : 0..(Retry.step - 1), limited : 0..(RateLimit.step - 1),
                   immediate : BOOLEAN, bucket : SUBSET (RemoteBuckets \cup {Absent}),
                   quota : BOOLEAN]
    BY FreshStepTyped DEF IInv, LoopTypes
  <2> QED
    BY <2>1 DEF IInv, LoopTypes, Outer, Throw, Outside
<1>2. Positions' /\ Ordinals' /\ HoldingsAt'
  BY DEF Throw, Positions, Ordinals, HoldingsAt, NothingHeldWhileWaiting, InStep,
         Asking, Attempting, RetryWaits, QuotaWaits
<1>3. Authority' /\ CancelSeen'
  BY DEF IInv, Outer, Throw, Authority, CancelSeen, RetryWaits
<1> QED
  BY <1>1, <1>2, <1>3 DEF IInv

\* The thread moves within the part of the loop before an attempt, or within
\* the part after it, and counts nothing.
LEMMA QuietMove ==
  ASSUME IInv, Outer, Accounting!IInv', Quiet, state' = "STEP_ACTIVE",
         StepRepeats' = StepRepeats, repeats' = repeats, LoopTypes', WaitTypes', HoldingsAt',
         \/ pc \in Asking /\ pc' \in Asking
         \/ pc \in Attempting /\ pc' \in Attempting \ {"building", "transport"},
         cancelled /\ pc \notin {"quota wait", "admission"} => pc' \notin Asking,
         pc' \in RetryWaits => /\ step'.ordinary < Retry.step - 1
                               /\ repeats'.ordinary < RepeatLimit(Retry.scan),
         pc' = "rate wait" => /\ step'.limited < RateLimit.step - 1
                              /\ repeats'.limited < RepeatLimit(RateLimit.scan)
  PROVE  IInv'
<1>1. Positions'
  BY DEF Positions, Asking, Attempting, RetryWaits
<1>2. AllRepeats' = AllRepeats
  BY DEF AllRepeats
<1>3. Ordinals'
  <2>1. CASE pc \in Asking /\ pc' \in Asking
    BY <1>2, <2>1 DEF IInv, Ordinals, Quiet, Asking, Attempting, RetryWaits
  <2>2. CASE pc \in Attempting /\ pc' \in Attempting
    BY <1>2, <2>2 DEF IInv, Ordinals, Quiet, Asking, Attempting, RetryWaits
  <2> QED
    BY <2>1, <2>2
<1>4. Authority'
  BY DEF IInv, Authority
<1>5. CancelSeen'
  BY DEF IInv, CancelSeen, Outer, Quiet, Asking
<1> QED
  BY <1>1, <1>3, <1>4, <1>5 DEF IInv

\* A wait that begins now ends at a natural instant.
LEMMA StartTyped ==
  ASSUME IInv, NEW end \in Nat, NEW eligible \in Nat, Start(end, eligible), now' = now
  PROVE  WaitTypes'
<1>1. now \in Nat
  BY AccountingTypes DEF IInv
<1>2. wait' = [started |-> now, end |-> end, eligible |-> eligible, delay |-> 0,
               waited |-> 0]
  BY DEF Start, NoWait
<1> QED
  BY <1>1, <1>2 DEF WaitTypes

\* The ends of the waits are instants.
LEMMA EndsTyped ==
  ASSUME IInv
  PROVE  /\ now \in Nat /\ deadline \in Nat
         /\ WaitAuthority \in Nat /\ QuotaEnd \in Nat /\ AdmissionEnd \in Nat
<1>1. /\ counters.waiting \in Nat /\ counters.rate \in Nat /\ counters.admission \in Nat
      /\ deadline \in Nat /\ now \in Nat
  BY AccountingTypes DEF IInv
<1>2. WaitAuthority \in Nat
  BY <1>1, PolicyTypes DEF WaitAuthority, Smaller, Remaining
<1>3. QuotaEnd \in Nat
  BY <1>1, <1>2 DEF QuotaEnd, Smaller
<1>4. AdmissionEnd \in Nat
  BY <1>1, PolicyTypes DEF AdmissionEnd, Smaller, Remaining
<1> QED
  BY <1>1, <1>2, <1>3, <1>4

\* Between calls nothing is debited.
LEMMA NoCall ==
  ASSUME IInv, now' = now, UNCHANGED accounting
  PROVE  Accounting!IInv' /\ Quiet /\ state' = state
<1>1. 0 \in Nat
  OBVIOUS
<1>2. QuietCall({state})
  BY <1>1, WaitCall DEF IInv
<1> QED
  BY <1>2 DEF QuietCall, Quiet, accounting

\* A wait that is left as it was keeps its types.
LEMMA SameWait ==
  ASSUME IInv, now' = now, wait' = wait
  PROVE  WaitTypes'
BY DEF IInv, WaitTypes

-----------------------------------------------------------------------------
(* The actions *)

\* BeginStep opens a step with fresh ordinals.
LEMMA BeginStepMove == ASSUME IInv, Outer, BeginStep PROVE IInv'
<1>1. /\ Accounting!IInv' /\ counters'.attempts = counters.attempts
      /\ \/ state' = "FAILED"
         \/ /\ state' = "STEP_ACTIVE" /\ counters' = counters
            /\ current_step_attempts' = 0
            /\ current_step_page_committed' = FALSE
  BY BeginStepCall DEF IInv, Outer, BeginStep
<1>2. WaitTypes'
  BY SameWait DEF Outer, BeginStep
<1>3. CASE state' = "FAILED"
  BY <1>1, <1>2, <1>3, ThrowMove DEF BeginStep, Proceed
<1>4. CASE state' # "FAILED"
  <2>1. /\ pc = "between" /\ pc' = "top" /\ held' = held /\ step' = FreshStep
        /\ repeats' = repeats
    BY <1>4 DEF BeginStep, Proceed
  <2>2. LoopTypes'
    BY <2>1, FreshStepTyped DEF IInv, LoopTypes, Outer, Asking
  <2>3. StepRepeats' = 0 /\ AllRepeats' = AllRepeats
    BY <2>1 DEF StepRepeats, FreshStep, AllRepeats
  <2>4. Positions'
    BY <1>1, <1>4, <2>1 DEF Positions, InStep, Asking, Attempting, RetryWaits
  <2>5. counters.attempts = counters.pages + AllRepeats /\ counters.attempts \in Nat
    BY <2>1, AccountingTypes DEF IInv, Ordinals
  <2>6. Ordinals'
    BY <1>1, <1>4, <2>1, <2>3, <2>5 DEF Ordinals, Asking, Attempting, RetryWaits
  <2>7. Authority' /\ HoldingsAt'
    BY <2>1 DEF IInv, Authority, HoldingsAt, NothingHeldWhileWaiting, RetryWaits,
                QuotaWaits
  <2>8. CancelSeen'
    BY <1>1, <2>1 DEF IInv, CancelSeen, Outer
  <2> QED
    BY <1>1, <1>2, <2>2, <2>4, <2>6, <2>7, <2>8 DEF IInv
<1> QED
  BY <1>3, <1>4

\* Cancellation is observed at the top of the loop.
LEMMA LeaveCancelledMove == ASSUME IInv, Outer, LeaveCancelled PROVE IInv'
<1>1. Accounting!IInv' /\ counters'.attempts = counters.attempts
  BY NoCall DEF Outer, LeaveCancelled, Quiet
<1>2. WaitTypes'
  BY SameWait DEF Outer, LeaveCancelled
<1> QED
  BY <1>1, <1>2, ThrowMove DEF LeaveCancelled

\* The wait for a bucket's permit begins with a waiter reservation or not at all.
LEMMA WaitForQuotaMove == ASSUME IInv, Outer, WaitForQuota PROVE IInv'
<1>1. Accounting!IInv' /\ Quiet /\ state' = state
  BY NoCall DEF Outer, WaitForQuota
<1>2. step' = step /\ repeats' = repeats /\ pc = "top" /\ ~cancelled
  BY DEF WaitForQuota, GoesOn
<1>3. CASE Throw /\ wait' = wait
  <2>1. WaitTypes'
    BY <1>3, SameWait DEF Outer
  <2> QED
    BY <1>1, <1>2, <1>3, <2>1, ThrowMove DEF Quiet
<1>4. CASE /\ pc' = "quota wait" /\ held' = held \cup {"rate waiter"}
           /\ Start(QuotaEnd, now) /\ NeedsPermit
  <2>1. WaitTypes'
    BY <1>4, StartTyped, EndsTyped DEF Outer
  <2>2. held' = {"rate waiter"}
    BY <1>2, <1>4 DEF IInv, HoldingsAt, NeedsPermit
  <2>3. HoldingsAt' /\ LoopTypes' /\ StepRepeats' = StepRepeats
    BY <1>2, <1>4, <2>2
    DEF IInv, HoldingsAt, NothingHeldWhileWaiting, LoopTypes, Outer, Holdings, Asking,
        QuotaWaits, RetryWaits, StepRepeats
  <2>4. state = "STEP_ACTIVE"
    BY <1>2 DEF IInv, Positions, InStep, Asking
  <2> QED
    BY <1>1, <1>2, <1>4, <2>1, <2>3, <2>4, QuietMove DEF Asking, RetryWaits
<1> QED
  BY <1>3, <1>4 DEF WaitForQuota

\* The request asks for admission with its permit, if it needs one.
LEMMA AskForRequestMove == ASSUME IInv, Outer, AskForRequest PROVE IInv'
<1>1. Accounting!IInv' /\ Quiet /\ state' = state
  BY NoCall DEF Outer, AskForRequest
<1>2. /\ step' = step /\ repeats' = repeats /\ pc = "top" /\ ~cancelled
      /\ pc' = "admission" /\ held' = held
  BY DEF AskForRequest, GoesOn
<1>3. WaitTypes'
  BY StartTyped, EndsTyped DEF Outer, AskForRequest
<1>4. HoldingsAt' /\ LoopTypes' /\ StepRepeats' = StepRepeats
  BY <1>2
  DEF IInv, HoldingsAt, NothingHeldWhileWaiting, LoopTypes, Outer, Asking,
      QuotaWaits, RetryWaits, StepRepeats
<1>5. state = "STEP_ACTIVE"
  BY <1>2 DEF IInv, Positions, InStep, Asking
<1> QED
  BY <1>1, <1>2, <1>3, <1>4, <1>5, QuietMove DEF Asking, RetryWaits

\* What the debit of a quota wait does.
LEMMA DebitQuotaCall ==
  ASSUME IInv, now' = now, DebitQuotaWait
  PROVE  QuietCall({state})
<1>1. now - wait.started \in Nat
  <2>1. now \in Nat /\ wait.started \in Nat /\ wait.started <= now
    BY EndsTyped DEF IInv, WaitTypes
  <2> QED
    BY <2>1
<1>2. UNCHANGED accounting \/ Acc!CommitRateLimitWait(now - wait.started)
  BY DEF DebitQuotaWait
<1> QED
  BY <1>1, <1>2, WaitCall DEF IInv

\* The quota wait is debited, then its permit is taken to the admission.
LEMMA LeaveQuotaWaitMove == ASSUME IInv, Outer, LeaveQuotaWait PROVE IInv'
<1>1. QuietCall({state})
  BY DebitQuotaCall DEF Outer, LeaveQuotaWait
<1>2. step' = step /\ repeats' = repeats /\ pc = "quota wait"
  BY DEF LeaveQuotaWait
<1>3. WaitTypes'
  BY StartTyped, EndsTyped DEF Outer, LeaveQuotaWait
<1>4. CASE Throw
  BY <1>1, <1>2, <1>3, <1>4, ThrowMove DEF QuietCall
<1>5. CASE /\ state' # "FAILED" /\ pc' = "admission"
           /\ held' = (held \ {"rate waiter"}) \cup {"permit"}
  <2>1. held' = {"permit"}
    BY <1>2, <1>5 DEF IInv, HoldingsAt, NothingHeldWhileWaiting, QuotaWaits
  <2>2. HoldingsAt' /\ LoopTypes' /\ StepRepeats' = StepRepeats
    BY <1>2, <1>5, <2>1
    DEF IInv, HoldingsAt, NothingHeldWhileWaiting, LoopTypes, Outer, Asking, Holdings,
        QuotaWaits, RetryWaits, StepRepeats
  <2>3. state = "STEP_ACTIVE"
    BY <1>2 DEF IInv, Positions, InStep, Asking
  <2>4. Accounting!IInv' /\ Quiet /\ state' = "STEP_ACTIVE"
    BY <1>1, <1>5, <2>3 DEF QuietCall
  <2> QED
    BY <1>2, <1>3, <1>5, <2>2, <2>4, QuietMove DEF Asking, RetryWaits
<1> QED
  BY <1>4, <1>5 DEF LeaveQuotaWait, Proceed

\* The admission wait is debited, then the request slot is held.
LEMMA LeaveAdmissionMove == ASSUME IInv, Outer, LeaveAdmission PROVE IInv'
<1>1. QuietCall({state})
  <2>1. PICK waited \in AccountedWaits :
               UNCHANGED accounting \/ Acc!CommitAdmissionWait(waited)
    BY DEF LeaveAdmission
  <2>2. waited \in Nat
    BY <2>1 DEF AccountedWaits
  <2> QED
    BY <2>1, <2>2, WaitCall DEF IInv, Outer
<1>2. step' = step /\ repeats' = repeats /\ pc = "admission"
  BY DEF LeaveAdmission
<1>3. WaitTypes'
  BY SameWait DEF Outer, LeaveAdmission
<1>4. CASE Throw
  BY <1>1, <1>2, <1>3, <1>4, ThrowMove DEF QuietCall
<1>5. CASE /\ state' # "FAILED" /\ pc' = "admitted"
           /\ held' = held \cup {"request"}
  <2>1. HoldingsAt' /\ LoopTypes' /\ StepRepeats' = StepRepeats
    BY <1>2, <1>5
    DEF IInv, HoldingsAt, NothingHeldWhileWaiting, LoopTypes, Outer, Asking, Holdings,
        QuotaWaits, RetryWaits, StepRepeats
  <2>2. state = "STEP_ACTIVE"
    BY <1>2 DEF IInv, Positions, InStep, Asking
  <2>3. Accounting!IInv' /\ Quiet /\ state' = "STEP_ACTIVE"
    BY <1>1, <1>5, <2>2 DEF QuietCall
  <2> QED
    BY <1>2, <1>3, <1>5, <2>1, <2>3, QuietMove DEF Asking, RetryWaits
<1> QED
  BY <1>4, <1>5 DEF LeaveAdmission, Proceed

\* BeginAttempt debits the attempt whose repeat was counted, or the page.
LEMMA BeginAttemptMove == ASSUME IInv, Outer, BeginAttempt PROVE IInv'
<1>1. step' = step /\ repeats' = repeats /\ pc = "admitted" /\ wait' = wait
  BY DEF BeginAttempt
<1>2. WaitTypes'
  BY <1>1, SameWait DEF Outer
<1>3. CASE Throw /\ UNCHANGED accounting
  <2>1. Accounting!IInv' /\ counters'.attempts = counters.attempts
    BY <1>3, NoCall DEF Outer, Quiet
  <2> QED
    BY <1>1, <1>2, <1>3, <2>1, ThrowMove
<1>4. CASE Acc!BeginAttempt /\ Proceed("building", held \cup {"buffers"})
  <2>1. /\ Accounting!IInv'
        /\ \/ state' = "FAILED" /\ counters'.attempts = counters.attempts
           \/ /\ state' = "REQUEST_ACTIVE"
              /\ counters'.attempts = counters.attempts + 1
              /\ counters'.pages = counters.pages +
                   (IF current_step_page_committed THEN 0 ELSE 1)
              /\ current_step_attempts' = current_step_attempts + 1
              /\ current_step_page_committed' = TRUE
    BY <1>4, BeginAttemptCall DEF IInv, Outer
  <2>2. CASE state' = "FAILED"
    BY <1>1, <1>2, <1>4, <2>1, <2>2, ThrowMove DEF Proceed
  <2>3. CASE state' # "FAILED"
    <3>1. pc' = "building" /\ held' = held \cup {"buffers"}
      BY <1>4, <2>3 DEF Proceed
    <3>2. LoopTypes' /\ HoldingsAt'
      BY <1>1, <3>1
      DEF IInv, LoopTypes, Outer, Attempting, Holdings, HoldingsAt,
          NothingHeldWhileWaiting, QuotaWaits, RetryWaits
    <3>3. Positions' /\ Authority'
      BY <1>1, <2>1, <2>3, <3>1
      DEF IInv, Positions, Authority, InStep, Asking, Attempting, RetryWaits
    <3>4. StepRepeats \in Nat /\ AllRepeats \in Nat /\ counters.attempts \in Nat
          /\ counters.pages \in Nat
      BY OrdinalTypes, AccountingTypes DEF IInv
    <3>5. /\ current_step_attempts = StepRepeats
          /\ current_step_page_committed <=> StepRepeats > 0
          /\ counters.attempts + (IF StepRepeats > 0 THEN 1 ELSE 0)
               = counters.pages + AllRepeats
      BY <1>1 DEF IInv, Ordinals, Asking
    <3>6. StepRepeats' = StepRepeats /\ AllRepeats' = AllRepeats
      BY <1>1 DEF StepRepeats, AllRepeats
    <3>7. counters'.attempts = counters'.pages + AllRepeats
      <4>1. CASE StepRepeats > 0
        BY <2>1, <2>3, <3>4, <3>5, <4>1
      <4>2. CASE ~(StepRepeats > 0)
        BY <2>1, <2>3, <3>4, <3>5, <4>2
      <4> QED
        BY <4>1, <4>2
    <3>8. Ordinals'
      BY <2>1, <2>3, <3>1, <3>5, <3>6, <3>7
      DEF Ordinals, Asking, Attempting, RetryWaits
    <3>9. CancelSeen'
      <4>1. seen \in Nat
        BY DEF IInv, LoopTypes
      <4>2. cancelled => counters.attempts <= seen
        BY <1>1 DEF IInv, CancelSeen
      <4> QED
        BY <2>1, <2>3, <3>1, <3>4, <4>1, <4>2 DEF CancelSeen, Outer
    <3> QED
      BY <1>2, <2>1, <3>2, <3>3, <3>8, <3>9 DEF IInv
  <2> QED
    BY <2>2, <2>3
<1> QED
  BY <1>3, <1>4 DEF BeginAttempt

\* The body of the request is debited before the transport gets it.
LEMMA BuildRequestMove == ASSUME IInv, Outer, BuildRequest PROVE IInv'
<1>1. step' = step /\ repeats' = repeats /\ pc = "building" /\ wait' = wait
  BY DEF BuildRequest
<1>2. WaitTypes'
  BY <1>1, SameWait DEF Outer
<1>3. CASE Throw /\ UNCHANGED accounting
  <2>1. Accounting!IInv' /\ counters'.attempts = counters.attempts
    BY <1>3, NoCall DEF Outer, Quiet
  <2> QED
    BY <1>1, <1>2, <1>3, <2>1, ThrowMove
<1>4. CASE /\ IF RequestBody = 0 THEN UNCHANGED accounting
              ELSE Acc!CommitRequestBody(RequestBody)
           /\ Proceed("transport", held)
  <2>1. state = "REQUEST_ACTIVE"
    BY <1>1 DEF IInv, Positions
  <2>2. QuietCall({state, "REQUEST_BODY_COMMITTED"})
    BY <1>4, <2>1, BodyCall DEF IInv, Outer
  <2>3. CASE state' = "FAILED"
    BY <1>1, <1>2, <1>4, <2>2, <2>3, ThrowMove DEF Proceed, QuietCall
  <2>4. CASE state' # "FAILED"
    <3>1. pc' = "transport" /\ held' = held /\ Accounting!IInv' /\ Quiet
      BY <1>4, <2>2, <2>4 DEF Proceed, QuietCall
    <3>2. LoopTypes' /\ HoldingsAt'
      BY <1>1, <3>1
      DEF IInv, LoopTypes, Outer, Attempting, HoldingsAt,
          NothingHeldWhileWaiting, QuotaWaits, RetryWaits
    <3>3. Positions' /\ Authority'
      BY <1>1, <3>1
      DEF IInv, Positions, Authority, InStep, Asking, Attempting, RetryWaits
    <3>4. StepRepeats' = StepRepeats /\ AllRepeats' = AllRepeats
      BY <1>1 DEF StepRepeats, AllRepeats
    <3>5. Ordinals'
      BY <1>1, <3>1, <3>4
      DEF IInv, Ordinals, Quiet, Asking, Attempting, RetryWaits
    <3>6. CancelSeen'
      BY <3>1 DEF IInv, CancelSeen, Outer, Quiet
    <3> QED
      BY <1>2, <3>1, <3>2, <3>3, <3>5, <3>6 DEF IInv
  <2> QED
    BY <2>3, <2>4
<1> QED
  BY <1>3, <1>4 DEF BuildRequest

\* A response that needs no recovery ends the step's attempts.
LEMMA RespondMove == ASSUME IInv, Outer, Respond PROVE IInv'
<1>1. step' = step /\ repeats' = repeats /\ pc = "transport" /\ wait' = wait
  BY DEF Respond
<1>2. WaitTypes'
  BY <1>1, SameWait DEF Outer
<1>3. QuietCall({"TRANSPORT_COMMITTED"})
  <2>1. PICK u \in Usages : Acc!CommitAttemptUsage(u, "TRANSPORT_COMMITTED")
    BY DEF Respond, Acc!CommitTransport
  <2> QED
    BY <2>1, UsageCall DEF IInv, Outer
<1>4. CASE Throw
  BY <1>1, <1>2, <1>3, <1>4, ThrowMove DEF QuietCall
<1>5. CASE state' # "FAILED" /\ pc' = "responded" /\ held' = {"response"}
  <2>1. Accounting!IInv' /\ Quiet /\ state' = "TRANSPORT_COMMITTED"
    BY <1>3, <1>5 DEF QuietCall
  <2>2. LoopTypes' /\ HoldingsAt'
    BY <1>1, <1>5
    DEF IInv, LoopTypes, Outer, Outside, Holdings, HoldingsAt,
        NothingHeldWhileWaiting, QuotaWaits, RetryWaits
  <2>3. Positions' /\ Authority'
    BY <1>1, <1>5, <2>1
    DEF IInv, Positions, Authority, InStep, Asking, Attempting, RetryWaits
  <2>4. AllRepeats' = AllRepeats
    BY <1>1 DEF AllRepeats
  <2>5. Ordinals'
    BY <1>1, <1>5, <2>1, <2>4
    DEF IInv, Ordinals, Quiet, Asking, Attempting, RetryWaits
  <2>6. CancelSeen'
    BY <1>5, <2>1 DEF IInv, CancelSeen, Outer, Quiet
  <2> QED
    BY <1>2, <2>1, <2>2, <2>3, <2>5, <2>6 DEF IInv
<1> QED
  BY <1>4, <1>5 DEF Respond, Proceed

\* A failed attempt goes on to its recovery without its request slot.
LEMMA AttemptFailedMove ==
  ASSUME IInv, Outer, NEW next \in {"limited", "failed"}, pc = "transport",
         NEW u \in Usages, Acc!CommitAttemptFailure(u),
         Proceed(next, AfterTransport), UNCHANGED <<step, repeats, wait>>
  PROVE  IInv'
<1>1. QuietCall({"STEP_ACTIVE"})
  BY UsageCall DEF IInv, Outer, Acc!CommitAttemptFailure
<1>2. WaitTypes'
  BY SameWait DEF Outer
<1>3. CASE Throw
  BY <1>1, <1>2, <1>3, ThrowMove DEF QuietCall
<1>4. CASE state' # "FAILED" /\ pc' = next /\ held' = held \ {"request"}
  <2>1. Accounting!IInv' /\ Quiet /\ state' = "STEP_ACTIVE"
    BY <1>1, <1>4 DEF QuietCall
  <2>2. HoldingsAt' /\ LoopTypes' /\ StepRepeats' = StepRepeats
    BY <1>4
    DEF IInv, HoldingsAt, NothingHeldWhileWaiting, LoopTypes, Outer, Attempting, Holdings,
        QuotaWaits, RetryWaits, StepRepeats
  <2> QED
    BY <1>2, <1>4, <2>1, <2>2, QuietMove DEF Asking, Attempting, RetryWaits
<1> QED
  BY <1>3, <1>4 DEF Proceed, AfterTransport

\* A limited attempt keeps its permit until its bucket is asked again.
LEMMA RateLimitedMove == ASSUME IInv, Outer, RateLimited PROVE IInv'
<1>1. PICK u \in Usages : Acc!CommitAttemptFailure(u)
  BY DEF RateLimited
<1> QED
  BY <1>1, AttemptFailedMove DEF RateLimited

\* A retryable failure is debited before its recovery is decided.
LEMMA FailRetryablyMove == ASSUME IInv, Outer, FailRetryably PROVE IInv'
<1>1. PICK u \in Usages : Acc!CommitAttemptFailure(u)
  BY DEF FailRetryably
<1> QED
  BY <1>1, AttemptFailedMove DEF FailRetryably

\* A failure that may not be retried is thrown.
LEMMA FailFinallyMove == ASSUME IInv, Outer, FailFinally PROVE IInv'
<1>1. Throw /\ UNCHANGED <<step, repeats, wait>>
  BY DEF FailFinally
<1>2. WaitTypes'
  BY <1>1, SameWait DEF Outer
<1>3. Accounting!IInv' /\ counters'.attempts = counters.attempts
  <2>1. CASE UNCHANGED accounting
    BY <2>1, NoCall DEF Outer, Quiet
  <2>2. CASE \E u \in Usages : Acc!CommitAttemptFailure(u)
    <3>1. PICK u \in Usages : Acc!CommitAttemptUsage(u, "STEP_ACTIVE")
      BY <2>2 DEF Acc!CommitAttemptFailure
    <3> QED
      BY <3>1, UsageCall DEF IInv, Outer, QuietCall
  <2> QED
    BY <2>1, <2>2 DEF FailFinally
<1> QED
  BY <1>1, <1>2, <1>3, ThrowMove

\* The wait for a limited bucket is decided on before it is counted.
LEMMA RecoverFromRateLimitMove == ASSUME IInv, Outer, RecoverFromRateLimit PROVE IInv'
<1>1. pc = "limited" /\ repeats' = repeats /\ UNCHANGED accounting
  BY DEF RecoverFromRateLimit
<1>2. Accounting!IInv' /\ Quiet /\ state' = state
  BY <1>1, NoCall DEF Outer
<1>3. PICK g \in GuidanceDelays \cup {Absent}, b \in RemoteBuckets \cup {Absent},
           reserved \in BOOLEAN :
        IF RefusesGuidance(g, b) \/ ~reserved
        THEN Throw /\ UNCHANGED <<step, wait>>
        ELSE /\ pc' = "rate wait"
             /\ held' = HeldOverQuotaWait
             /\ step' = [step EXCEPT !.bucket = {b}, !.immediate = (g = 0),
                                     !.quota = TRUE]
             /\ Start(QuotaEnd, now + g)
  BY DEF RecoverFromRateLimit
<1>4. CASE Throw /\ UNCHANGED <<step, wait>>
  <2>1. WaitTypes'
    BY <1>4, SameWait DEF Outer
  <2> QED
    BY <1>1, <1>2, <1>4, <2>1, ThrowMove DEF Quiet
<1>5. CASE /\ ~RefusesGuidance(g, b) /\ pc' = "rate wait" /\ held' = HeldOverQuotaWait
           /\ step' = [step EXCEPT !.bucket = {b}, !.immediate = (g = 0), !.quota = TRUE]
           /\ Start(QuotaEnd, now + g)
  <2>1. /\ g \in Nat
        /\ ~(step.limited >= RateLimit.step - 1)
        /\ ~(repeats.limited >= RepeatLimit(RateLimit.scan))
    BY <1>5, PolicyAssumption DEF RefusesGuidance
  <2>2. /\ step.limited < RateLimit.step - 1
        /\ repeats.limited < RepeatLimit(RateLimit.scan)
    <3>1. /\ step.limited \in Nat /\ repeats.limited \in Nat
          /\ RateLimit.step - 1 \in Nat /\ RepeatLimit(RateLimit.scan) \in Nat
      BY OrdinalTypes, PolicyTypes DEF IInv
    <3> QED
      BY <2>1, <3>1
  <2>3. WaitTypes'
    <3>1. now + g \in Nat
      BY <2>1, EndsTyped
    <3> QED
      BY <1>5, <3>1, EndsTyped, StartTyped DEF Outer
  <2>4. /\ step' \in [ordinary : 0..(Retry.step - 1), limited : 0..(RateLimit.step - 1),
                      immediate : BOOLEAN, bucket : SUBSET (RemoteBuckets \cup {Absent}),
                      quota : BOOLEAN]
        /\ step'.ordinary = step.ordinary /\ step'.limited = step.limited
    <3>1. step \in [ordinary : 0..(Retry.step - 1), limited : 0..(RateLimit.step - 1),
                      immediate : BOOLEAN, bucket : SUBSET (RemoteBuckets \cup {Absent}),
                      quota : BOOLEAN]
      BY DEF IInv, LoopTypes
    <3>2. {b} \in SUBSET (RemoteBuckets \cup {Absent}) /\ (g = 0) \in BOOLEAN
      OBVIOUS
    <3> QED
      BY <1>5, <3>1, <3>2
  <2>5. StepRepeats' = StepRepeats
    BY <2>4 DEF StepRepeats
  <2>6. held' = {"rate waiter"}
    BY <1>1, <1>5 DEF IInv, HoldingsAt, HeldOverQuotaWait
  <2>7. LoopTypes' /\ HoldingsAt'
    BY <1>1, <1>5, <2>4, <2>6
    DEF IInv, LoopTypes, Outer, Attempting, Holdings, HoldingsAt,
        NothingHeldWhileWaiting, QuotaWaits, RetryWaits
  <2>8. state = "STEP_ACTIVE"
    BY <1>1 DEF IInv, Positions, InStep, Attempting
  <2> QED
    BY <1>1, <1>2, <1>5, <2>2, <2>3, <2>4, <2>5, <2>7, <2>8, QuietMove
    DEF Asking, Attempting, RetryWaits
<1> QED
  BY <1>3, <1>4, <1>5

\* A counted repeat goes to the top of the loop, where its attempt is due.
LEMMA RepeatMove ==
  ASSUME IInv, Outer, Accounting!IInv', Quiet, state' = "STEP_ACTIVE",
         pc \in Attempting, pc' = "top", held' \subseteq {"permit"}, WaitTypes',
         NEW m \in {"ordinary", "limited"}, CountRepeat(m),
         m = "ordinary" => /\ step.ordinary < Retry.step - 1
                           /\ repeats.ordinary < RepeatLimit(Retry.scan),
         m = "limited" => /\ step.limited < RateLimit.step - 1
                          /\ repeats.limited < RepeatLimit(RateLimit.scan)
  PROVE  IInv'
<1>1. /\ step.ordinary \in Nat /\ step.limited \in Nat /\ StepRepeats \in Nat
      /\ repeats.ordinary \in Nat /\ repeats.limited \in Nat /\ AllRepeats \in Nat
  BY OrdinalTypes DEF IInv
<1>2. /\ step \in [ordinary : 0..(Retry.step - 1), limited : 0..(RateLimit.step - 1),
                   immediate : BOOLEAN, bucket : SUBSET (RemoteBuckets \cup {Absent}),
                   quota : BOOLEAN]
      /\ repeats \in [ordinary : Nat, limited : Nat]
  BY DEF IInv, LoopTypes
<1>3. /\ step' \in [ordinary : 0..(Retry.step - 1), limited : 0..(RateLimit.step - 1),
                    immediate : BOOLEAN, bucket : SUBSET (RemoteBuckets \cup {Absent}),
                    quota : BOOLEAN]
      /\ StepRepeats' = StepRepeats + 1
  <2>1. CASE m = "ordinary"
    <3>1. step' = [step EXCEPT !.ordinary = step.ordinary + 1]
      BY <2>1 DEF CountRepeat
    <3>2. step.ordinary + 1 \in 0..(Retry.step - 1)
      BY <1>1, <2>1, PolicyTypes
    <3> QED
      BY <1>1, <1>2, <3>1, <3>2 DEF StepRepeats
  <2>2. CASE m = "limited"
    <3>1. step' = [step EXCEPT !.limited = step.limited + 1]
      BY <2>2 DEF CountRepeat
    <3>2. step.limited + 1 \in 0..(RateLimit.step - 1)
      BY <1>1, <2>2, PolicyTypes
    <3> QED
      BY <1>1, <1>2, <3>1, <3>2 DEF StepRepeats
  <2> QED
    BY <2>1, <2>2
<1>4. /\ repeats' \in [ordinary : Nat, limited : Nat]
      /\ AllRepeats' = AllRepeats + 1
      /\ repeats'.ordinary <= RepeatLimit(Retry.scan)
      /\ repeats'.limited <= RepeatLimit(RateLimit.scan)
  <2>1. /\ repeats.ordinary <= RepeatLimit(Retry.scan)
        /\ repeats.limited <= RepeatLimit(RateLimit.scan)
    BY DEF IInv, Authority
  <2>2. CASE m = "ordinary"
    <3>1. repeats' = [repeats EXCEPT !.ordinary = repeats.ordinary + 1]
      BY <2>2 DEF CountRepeat
    <3> QED
      BY <1>1, <1>2, <2>1, <2>2, <3>1, PolicyTypes DEF AllRepeats
  <2>3. CASE m = "limited"
    <3>1. repeats' = [repeats EXCEPT !.limited = repeats.limited + 1]
      BY <2>3 DEF CountRepeat
    <3> QED
      BY <1>1, <1>2, <2>1, <2>3, <3>1, PolicyTypes DEF AllRepeats
  <2> QED
    BY <2>2, <2>3
<1>5. LoopTypes'
  <2>1. pc' \in Asking /\ held' \subseteq Holdings
    BY DEF Asking, Holdings
  <2> QED
    BY <1>3, <1>4, <2>1 DEF IInv, LoopTypes, Outer
<1>6. Positions' /\ HoldingsAt'
  BY DEF Positions, HoldingsAt, NothingHeldWhileWaiting, QuotaWaits, RetryWaits
<1>7. Ordinals'
  <2>1. /\ current_step_attempts = StepRepeats + 1
        /\ current_step_page_committed
        /\ counters.attempts = counters.pages + AllRepeats
    BY DEF IInv, Ordinals
  <2>2. StepRepeats' > 0
    BY <1>1, <1>3
  <2>3. counters.pages \in Nat
    BY AccountingTypes DEF IInv
  <2>4. counters.attempts + 1 = counters.pages + (AllRepeats + 1)
    BY <1>1, <2>1, <2>3
  <2>5. /\ current_step_attempts' = StepRepeats'
        /\ current_step_page_committed' <=> StepRepeats' > 0
        /\ counters'.attempts + (IF StepRepeats' > 0 THEN 1 ELSE 0)
             = counters'.pages + AllRepeats'
    BY <1>3, <1>4, <2>1, <2>2, <2>4 DEF Quiet
  <2> QED
    BY <2>5 DEF Ordinals, Attempting, RetryWaits
<1>8. Authority' /\ CancelSeen'
  BY <1>4 DEF IInv, Authority, CancelSeen, Outer, Quiet, RetryWaits
<1> QED
  BY <1>5, <1>6, <1>7, <1>8 DEF IInv

\* The repeat of a limited attempt is counted when its bucket lets it through.
LEMMA LeaveRateWaitMove == ASSUME IInv, Outer, LeaveRateWait PROVE IInv'
<1>1. QuietCall({state})
  BY DebitQuotaCall DEF Outer, LeaveRateWait
<1>2. pc = "rate wait" /\ wait' = wait
  BY DEF LeaveRateWait
<1>3. WaitTypes'
  BY <1>2, SameWait DEF Outer
<1>4. CASE Throw /\ UNCHANGED <<step, repeats>>
  BY <1>1, <1>3, <1>4, ThrowMove DEF QuietCall
<1>5. CASE /\ state' # "FAILED" /\ pc' = "top"
           /\ held' = (held \ {"rate waiter"}) \cup {"permit"} /\ CountRepeat("limited")
  <2>1. held' \subseteq {"permit"}
    BY <1>2, <1>5 DEF IInv, HoldingsAt, NothingHeldWhileWaiting, QuotaWaits
  <2>2. state = "STEP_ACTIVE"
    BY <1>2 DEF IInv, Positions, InStep, Attempting
  <2>3. Accounting!IInv' /\ Quiet /\ state' = "STEP_ACTIVE"
    BY <1>1, <1>5, <2>2 DEF QuietCall
  <2>4. /\ step.limited < RateLimit.step - 1
        /\ repeats.limited < RepeatLimit(RateLimit.scan)
    BY <1>2 DEF IInv, Authority
  <2>5. pc \in Attempting
    BY <1>2 DEF Attempting
  <2> QED
    BY <1>3, <1>5, <2>1, <2>3, <2>4, <2>5, RepeatMove
<1> QED
  BY <1>4, <1>5 DEF LeaveRateWait

\* An ordinary retry is decided on before it is counted.
LEMMA RecoverFromFailureMove == ASSUME IInv, Outer, RecoverFromFailure PROVE IInv'
<1>1. pc = "failed" /\ step' = step /\ repeats' = repeats /\ UNCHANGED accounting
  BY DEF RecoverFromFailure
<1>2. Accounting!IInv' /\ Quiet /\ state' = state
  BY <1>1, NoCall DEF Outer
<1>3. CASE Throw /\ wait' = wait
  <2>1. WaitTypes'
    BY <1>3, SameWait DEF Outer
  <2> QED
    BY <1>1, <1>2, <1>3, <2>1, ThrowMove DEF Quiet
<1>4. ASSUME ~RefusesRetry, NEW d \in RetryDelays, pc' = "retry wait",
             held' = (held \ {"buffers", "permit"}) \cup {"retry waiter"},
             wait' = [NoWait EXCEPT !.end = now + d, !.delay = d]
      PROVE  IInv'
  <2>1. d \in Nat
    <3>1. counters.retry \in Nat /\ counters.waiting \in Nat
      BY AccountingTypes DEF IInv
    <3>2. PICK e \in 1..Retry.delay :
            d = Smaller(e, Smaller(Remaining(Retry.waiting, counters.retry),
                                   Remaining(Scan.waiting, counters.waiting)))
      BY <1>4 DEF RetryDelays
    <3> QED
      BY <3>1, <3>2, PolicyTypes DEF Smaller, Remaining
  <2>2. WaitTypes'
    <3>1. wait' = [started |-> 0, end |-> now + d, eligible |-> 0, delay |-> d,
                   waited |-> 0]
      BY <1>4 DEF NoWait
    <3> QED
      BY <2>1, <3>1, EndsTyped DEF WaitTypes, Outer
  <2>3. /\ step.ordinary < Retry.step - 1
        /\ repeats.ordinary < RepeatLimit(Retry.scan)
    <3>1. /\ step.ordinary \in Nat /\ repeats.ordinary \in Nat
          /\ Retry.step - 1 \in Nat /\ RepeatLimit(Retry.scan) \in Nat
      BY OrdinalTypes, PolicyTypes DEF IInv
    <3>2. /\ ~(step.ordinary >= Retry.step - 1)
          /\ ~(repeats.ordinary >= RepeatLimit(Retry.scan))
      BY <1>4, Zenon DEF RefusesRetry
    <3> QED
      BY <3>1, <3>2
  <2>4. held' = {"retry waiter"}
    BY <1>1, <1>4 DEF IInv, HoldingsAt
  <2>5. LoopTypes' /\ HoldingsAt' /\ StepRepeats' = StepRepeats
    BY <1>1, <1>4, <2>4
    DEF IInv, LoopTypes, Outer, Attempting, Holdings, HoldingsAt, StepRepeats,
        NothingHeldWhileWaiting, QuotaWaits, RetryWaits
  <2>6. state = "STEP_ACTIVE"
    BY <1>1 DEF IInv, Positions, InStep, Attempting
  <2> QED
    BY <1>1, <1>2, <1>4, <2>2, <2>3, <2>5, <2>6, QuietMove
    DEF Asking, Attempting, RetryWaits
<1> QED
  BY <1>3, <1>4 DEF RecoverFromFailure

\* The sliced wait moves among its own positions.
LEMMA RetryWaitMove ==
  ASSUME IInv, Outer, QuietCall({state}), pc \in RetryWaits, WaitTypes',
         NEW next \in RetryWaits, Proceed(next, held), UNCHANGED <<step, repeats>>
  PROVE  IInv'
<1>1. CASE Throw
  BY <1>1, ThrowMove DEF QuietCall
<1>2. CASE state' # "FAILED" /\ pc' = next /\ held' = held
  <2>1. LoopTypes' /\ HoldingsAt' /\ StepRepeats' = StepRepeats
    BY <1>2
    DEF IInv, LoopTypes, Outer, Attempting, Holdings, HoldingsAt, StepRepeats,
        NothingHeldWhileWaiting, QuotaWaits, RetryWaits
  <2>2. state = "STEP_ACTIVE"
    BY DEF IInv, Positions, InStep, Attempting, RetryWaits
  <2>3. Accounting!IInv' /\ Quiet /\ state' = "STEP_ACTIVE"
    BY <1>2, <2>2 DEF QuietCall
  <2>4. /\ step.ordinary < Retry.step - 1
        /\ repeats.ordinary < RepeatLimit(Retry.scan)
    BY DEF IInv, Authority
  <2> QED
    BY <1>2, <2>1, <2>3, <2>4, QuietMove DEF Asking, Attempting, RetryWaits
<1> QED
  BY <1>1, <1>2 DEF Proceed

\* The fields of a wait are instants and lengths.
LEMMA WaitFields ==
  ASSUME IInv
  PROVE  /\ wait.started \in Nat /\ wait.delay \in Nat /\ wait.waited \in Nat
         /\ wait.started <= now /\ wait.waited <= wait.delay /\ now \in Nat
         /\ wait \in [started : Nat, end : Nat, eligible : Nat, delay : Nat, waited : Nat]
BY EndsTyped DEF IInv, WaitTypes

\* One turn of the sliced wait.
LEMMA CheckRetryWaitMove == ASSUME IInv, Outer, CheckRetryWait PROVE IInv'
<1>1. pc = "retry wait" /\ step' = step /\ repeats' = repeats /\ pc \in RetryWaits
  BY DEF CheckRetryWait, RetryWaits
<1>2. CASE Throw /\ UNCHANGED <<accounting, wait>>
  <2>1. Accounting!IInv' /\ counters'.attempts = counters.attempts
    BY <1>2, NoCall DEF Outer, Quiet
  <2>2. WaitTypes'
    BY <1>2, SameWait DEF Outer
  <2> QED
    BY <1>1, <1>2, <2>1, <2>2, ThrowMove
<1>3. CASE /\ Acc!CommitRetryWait(wait.delay - wait.waited) /\ Proceed("retried", held)
           /\ wait' = [wait EXCEPT !.waited = wait.delay]
  <2>1. wait.delay - wait.waited \in Nat
    BY WaitFields
  <2>2. QuietCall({state})
    BY <1>3, <2>1, WaitCall DEF IInv, Outer
  <2>3. WaitTypes'
    BY <1>3, WaitFields DEF WaitTypes, Outer
  <2>4. "retried" \in RetryWaits
    BY DEF RetryWaits
  <2> QED
    BY <1>1, <1>3, <2>2, <2>3, <2>4, RetryWaitMove
<1>4. CASE /\ pc' = "slice" /\ wait' = [wait EXCEPT !.started = now]
           /\ UNCHANGED <<accounting, held>>
  <2>1. Accounting!IInv' /\ Quiet /\ state' = state
    BY <1>4, NoCall DEF Outer
  <2>2. QuietCall({state})
    BY <2>1 DEF QuietCall, Quiet
  <2>3. WaitTypes'
    BY <1>4, WaitFields DEF WaitTypes, Outer
  <2>4. state = "STEP_ACTIVE" /\ "slice" \in RetryWaits
    BY <1>1 DEF IInv, Positions, InStep, Attempting, RetryWaits
  <2>5. Proceed("slice", held)
    BY <1>4, <2>1, <2>4 DEF Proceed
  <2> QED
    BY <1>1, <2>2, <2>3, <2>4, <2>5, RetryWaitMove
<1> QED
  BY <1>2, <1>3, <1>4 DEF CheckRetryWait

\* What a slice has taken is debited, and no more than the delay.
LEMMA EndSliceMove == ASSUME IInv, Outer, EndSlice PROVE IInv'
<1> DEFINE debit == Smaller(wait.delay - wait.waited, now - wait.started)
<1>1. /\ pc \in RetryWaits /\ step' = step /\ repeats' = repeats
      /\ UNCHANGED accounting \/ Acc!CommitRetryWait(debit)
      /\ Proceed(IF wait.waited + debit = wait.delay THEN "retried" ELSE "retry wait",
                 held)
      /\ wait' = [wait EXCEPT !.waited = wait.waited + debit]
  BY DEF EndSlice, RetryWaits
<1>2. debit \in Nat /\ wait.waited + debit <= wait.delay
  BY WaitFields DEF Smaller
<1> HIDE DEF debit
<1>3. QuietCall({state})
  BY <1>1, <1>2, WaitCall DEF IInv, Outer
<1>4. WaitTypes'
  <2>1. PICK w \in Nat : w = wait.waited + debit
    BY <1>2, WaitFields
  <2>2. wait' = [wait EXCEPT !.waited = w] /\ w <= wait.delay
    BY <1>1, <1>2, <2>1
  <2>3. /\ wait' \in [started : Nat, end : Nat, eligible : Nat, delay : Nat, waited : Nat]
        /\ wait'.started = wait.started /\ wait'.waited = w /\ wait'.delay = wait.delay
    BY <2>2, WaitFields
  <2> QED
    BY <2>2, <2>3, WaitFields DEF WaitTypes, Outer
<1>5. PICK next \in RetryWaits : Proceed(next, held)
  BY <1>1 DEF RetryWaits
<1> QED
  BY <1>1, <1>3, <1>4, <1>5, RetryWaitMove

\* The ordinary repeat is counted after its wait.
LEMMA LeaveRetryWaitMove == ASSUME IInv, Outer, LeaveRetryWait PROVE IInv'
<1>1. pc = "retried" /\ UNCHANGED accounting /\ wait' = wait
  BY DEF LeaveRetryWait
<1>2. Accounting!IInv' /\ Quiet /\ state' = state
  BY <1>1, NoCall DEF Outer
<1>3. WaitTypes'
  BY <1>1, SameWait DEF Outer
<1>4. CASE Throw /\ UNCHANGED <<step, repeats>>
  BY <1>2, <1>3, <1>4, ThrowMove DEF Quiet
<1>5. CASE pc' = "top" /\ held' = held \ {"retry waiter"} /\ CountRepeat("ordinary")
  <2>1. held' \subseteq {"permit"}
    BY <1>1, <1>5 DEF IInv, HoldingsAt, NothingHeldWhileWaiting, RetryWaits
  <2>2. state = "STEP_ACTIVE" /\ pc \in Attempting
    BY <1>1 DEF IInv, Positions, InStep, Attempting, RetryWaits
  <2>3. /\ step.ordinary < Retry.step - 1
        /\ repeats.ordinary < RepeatLimit(Retry.scan)
    BY <1>1 DEF IInv, Authority, RetryWaits
  <2> QED
    BY <1>2, <1>3, <1>5, <2>1, <2>2, <2>3, RepeatMove
<1> QED
  BY <1>4, <1>5 DEF LeaveRetryWait

\* The stream decodes the response: the page's memory replaces its bytes.
LEMMA DecodePageMove == ASSUME IInv, Outer, DecodePage PROVE IInv'
<1>1. pc = "responded" /\ step' = step /\ repeats' = repeats /\ wait' = wait
  BY DEF DecodePage
<1>2. WaitTypes'
  BY <1>1, SameWait DEF Outer
<1>3. CASE Throw /\ UNCHANGED accounting
  <2>1. Accounting!IInv' /\ counters'.attempts = counters.attempts
    BY <1>3, NoCall DEF Outer, Quiet
  <2> QED
    BY <1>1, <1>2, <1>3, <2>1, ThrowMove
<1>4. ASSUME NEW r \in 0..MaxAmount, Acc!CommitDecodedPage(r, 1), Proceed("between", {})
      PROVE  IInv'
  <2>1. QuietCall({"PAGE_DECODED"})
    BY <1>4, DecodeCall DEF IInv, Outer
  <2>2. CASE state' = "FAILED"
    BY <1>1, <1>2, <1>4, <2>1, <2>2, ThrowMove DEF Proceed, QuietCall
  <2>3. CASE state' # "FAILED"
    <3>1. /\ pc' = "between" /\ held' = {} /\ Accounting!IInv' /\ Quiet
          /\ state' = "PAGE_DECODED"
      BY <1>4, <2>1, <2>3 DEF Proceed, QuietCall
    <3>2. LoopTypes' /\ HoldingsAt'
      BY <1>1, <3>1
      DEF IInv, LoopTypes, Outer, Outside, HoldingsAt,
          NothingHeldWhileWaiting, QuotaWaits, RetryWaits
    <3>3. Positions' /\ Authority'
      BY <1>1, <3>1
      DEF IInv, Positions, Authority, InStep, Asking, Attempting, RetryWaits
    <3>4. AllRepeats' = AllRepeats
      BY <1>1 DEF AllRepeats
    <3>5. Ordinals' /\ CancelSeen'
      BY <1>1, <3>1, <3>4
      DEF IInv, Ordinals, CancelSeen, Outer, Quiet, Asking, Attempting, RetryWaits
    <3> QED
      BY <1>2, <3>1, <3>2, <3>3, <3>5 DEF IInv
  <2> QED
    BY <2>2, <2>3
<1> QED
  BY <1>3, <1>4 DEF DecodePage

\* Completing a page leaves the repeats of the scan.
LEMMA CompletePageMove == ASSUME IInv, Outer, CompletePage PROVE IInv'
<1>1. pc = "between" /\ step' = step /\ repeats' = repeats /\ wait' = wait
  BY DEF CompletePage
<1>2. WaitTypes'
  BY <1>1, SameWait DEF Outer
<1>3. PICK has_next \in BOOLEAN : Acc!CompletePage(has_next)
  BY DEF CompletePage
<1>4. /\ Accounting!IInv' /\ counters'.attempts = counters.attempts
      /\ \/ state' = "FAILED"
         \/ /\ state' \in {"READY", "EXHAUSTED"}
            /\ counters'.pages = counters.pages
  BY <1>3, CompleteCall DEF IInv, Outer
<1>5. CASE state' = "FAILED"
  BY <1>1, <1>2, <1>4, <1>5, ThrowMove DEF Proceed, CompletePage
<1>6. CASE state' # "FAILED"
  <2>1. pc' = "between" /\ held' = held
    BY <1>6 DEF Proceed, CompletePage
  <2>2. LoopTypes' /\ HoldingsAt'
    BY <1>1, <2>1
    DEF IInv, LoopTypes, Outer, Outside, HoldingsAt,
        NothingHeldWhileWaiting, QuotaWaits, RetryWaits
  <2>3. Positions' /\ Authority'
    BY <1>1, <1>4, <1>6, <2>1
    DEF IInv, Positions, Authority, InStep, Asking, Attempting, RetryWaits
  <2>4. AllRepeats' = AllRepeats
    BY <1>1 DEF AllRepeats
  <2>5. Ordinals' /\ CancelSeen'
    BY <1>1, <1>4, <1>6, <2>1, <2>4
    DEF IInv, Ordinals, CancelSeen, Outer, Asking, Attempting, RetryWaits
  <2> QED
    BY <1>2, <1>4, <2>2, <2>3, <2>5 DEF IInv
<1> QED
  BY <1>5, <1>6

\* A stream that has thrown fails its accounting.
LEMMA ReleasePrivateStateMove == ASSUME IInv, Outer, ReleasePrivateState PROVE IInv'
<1>1. pc = "threw" /\ Acc!Fail /\ pc' = pc /\ held' = held /\ step' = step
      /\ repeats' = repeats /\ wait' = wait
  BY DEF ReleasePrivateState, Acc!AbortPage, loop
<1>2. Accounting!IInv' /\ counters'.attempts = counters.attempts
  BY <1>1, FailCall DEF IInv, Outer
<1>3. WaitTypes'
  BY <1>1, SameWait DEF Outer
<1>4. Throw
  BY <1>1 DEF Throw, IInv, HoldingsAt, NothingHeldWhileWaiting
<1> QED
  BY <1>1, <1>2, <1>3, <1>4, ThrowMove

\* A step that leaves the loop and the accounting where they are.
LEMMA StandStill ==
  ASSUME IInv, UNCHANGED <<accounting, loop>>, now' \in Nat, now <= now',
         cancelled' \in BOOLEAN, seen' \in Nat, CancelSeen'
  PROVE  IInv'
<1>1. Accounting!IInv'
  <2>1. UNCHANGED Accounting!accounting
    BY DEF accounting, Accounting!accounting
  <2> QED
    BY <2>1, Accounting!StutterPreserves, ValidProfile DEF IInv
<1>2. WaitTypes'
  BY WaitFields DEF IInv, WaitTypes, loop
<1>3. LoopTypes'
  BY DEF IInv, LoopTypes, loop
<1>4. StepRepeats' = StepRepeats /\ AllRepeats' = AllRepeats
  BY DEF loop, StepRepeats, AllRepeats
<1>5. Positions' /\ Ordinals'
  BY <1>4 DEF IInv, Positions, Ordinals, loop, accounting
<1>6. Authority' /\ HoldingsAt'
  BY DEF IInv, Authority, HoldingsAt, NothingHeldWhileWaiting, loop
<1> QED
  BY <1>1, <1>2, <1>3, <1>5, <1>6 DEF IInv

\* A request to cancel remembers how many attempts were debited.
LEMMA CancelMove == ASSUME IInv, Cancel PROVE IInv'
<1>1. now \in Nat /\ counters.attempts \in Nat
  BY AccountingTypes DEF IInv
<1>2. counters' = counters /\ seen' = counters.attempts
  BY DEF Cancel, accounting
<1>3. counters'.attempts <= seen' /\ counters'.attempts <= seen' + 1
  BY <1>1, <1>2
<1>4. CancelSeen'
  BY <1>3 DEF CancelSeen
<1> QED
  BY <1>1, <1>2, <1>4, StandStill DEF Cancel

\* The clock runs beside the loop.
LEMMA TickMove == ASSUME IInv, Tick PROVE IInv'
<1>1. now \in Nat
  BY AccountingTypes DEF IInv
<1>2. CancelSeen'
  BY DEF IInv, Tick, CancelSeen, accounting, loop
<1>3. cancelled' \in BOOLEAN /\ seen' \in Nat
  BY DEF IInv, LoopTypes, Tick
<1> QED
  BY <1>1, <1>2, <1>3, StandStill DEF Tick

-----------------------------------------------------------------------------
(* The theorems *)

\* The stream starts between two pages with nothing debited: its constructor.
LEMMA InitIInv == Init => IInv
<1> SUFFICES ASSUME Init PROVE IInv
  OBVIOUS
<1>1. Accounting!IInv
  <2>1. Accounting!Init
    BY Zenon
    DEF Init, Acc!Init, Accounting!Init, Acc!NoBytes, Accounting!NoBytes,
        Acc!NoAllowance, Accounting!NoAllowance
  <2> QED
    BY <2>1, Accounting!Initially, ValidProfile
<1>2. WaitTypes
  BY DEF Init, WaitTypes, NoWait
<1>3. LoopTypes
  BY FreshStepTyped DEF Init, LoopTypes, Outside
<1>4. Positions /\ HoldingsAt
  BY DEF Init, Acc!Init, Positions, InStep, HoldingsAt, NothingHeldWhileWaiting, Asking,
         Attempting, RetryWaits, QuotaWaits
<1>5. Ordinals
  BY DEF Init, Acc!Init, Ordinals, AllRepeats, Asking, Attempting, RetryWaits
<1>6. Authority /\ CancelSeen
  BY PolicyTypes DEF Init, Authority, CancelSeen, RetryWaits
<1> QED
  BY <1>1, <1>2, <1>3, <1>4, <1>5, <1>6 DEF IInv

\* Every step keeps the invariant.
LEMMA NextIInv == ASSUME IInv, [Next]_vars PROVE IInv'
<1>1. CASE Loop /\ UNCHANGED <<now, cancelled, seen>>
  <2>1. Outer
    BY <1>1 DEF Outer
  <2> QED
    BY <1>1, <2>1, LeaveCancelledMove, WaitForQuotaMove, AskForRequestMove,
       LeaveQuotaWaitMove, LeaveAdmissionMove, BeginAttemptMove, BuildRequestMove,
       RespondMove, RateLimitedMove, FailRetryablyMove, FailFinallyMove,
       RecoverFromRateLimitMove, LeaveRateWaitMove, RecoverFromFailureMove,
       CheckRetryWaitMove, EndSliceMove, LeaveRetryWaitMove
    DEF Loop
<1>2. CASE Stream /\ UNCHANGED <<now, cancelled, seen>>
  <2>1. Outer
    BY <1>2 DEF Outer
  <2> QED
    BY <1>2, <2>1, BeginStepMove, DecodePageMove, CompletePageMove,
       ReleasePrivateStateMove
    DEF Stream
<1>3. CASE Cancel
  BY <1>3, CancelMove
<1>4. CASE Tick
  BY <1>4, TickMove
<1>5. CASE UNCHANGED vars
  <2>1. now \in Nat
    BY AccountingTypes DEF IInv
  <2>2. CancelSeen' /\ cancelled' \in BOOLEAN /\ seen' \in Nat
    BY <1>5 DEF IInv, CancelSeen, LoopTypes, vars, accounting, loop
  <2> QED
    BY <1>5, <2>1, <2>2, StandStill DEF vars
<1> QED
  BY <1>1, <1>2, <1>3, <1>4, <1>5 DEF Next

\* The invariant holds in every reachable state of the loop.
THEOREM Invariance == Spec => []IInv
BY InitIInv, NextIInv, PTL DEF Spec

\* Every variable keeps its type: the ordinals of a step stay below the
\* attempts its policies declare, and a step holds only what it can hold.
THEOREM TypeCorrect == Spec => []TypeOK
<1>1. IInv => TypeOK
  BY AccountingTypes DEF IInv, TypeOK, LoopTypes, WaitTypes
<1> QED
  BY <1>1, Invariance, PTL

\* Every attempt after a page's first is the repeat of exactly one recovery
\* mechanism, and each mechanism stays within the repeats that its policy
\* declares, whatever the transport and the coordinator answer (the ordinals of
\* ExecuteHttpStepWithRetry and ResilienceExecutionState).
THEOREM RepeatsAreExact == Spec => []RepeatsExact
<1>1. IInv => RepeatsExact
  <2> SUFFICES ASSUME IInv, pc \in Asking \cup Attempting
               PROVE  RepeatsExact
    BY DEF RepeatsExact
  <2>1. step.ordinary < Retry.step /\ step.limited < RateLimit.step
    <3>1. /\ step.ordinary \in 0..(Retry.step - 1)
          /\ step.limited \in 0..(RateLimit.step - 1)
      BY DEF IInv, LoopTypes
    <3> QED
      BY <3>1, PolicyTypes
  <2>2. /\ repeats.ordinary <= RepeatLimit(Retry.scan)
        /\ repeats.limited <= RepeatLimit(RateLimit.scan)
    BY DEF IInv, Authority
  <2>3. counters.attempts \in Nat
    BY AccountingTypes DEF IInv
  <2>4. CASE pc \in Asking
    <3>1. pc \notin Attempting
      BY <2>4 DEF Asking, Attempting, RetryWaits
    <3>2. /\ current_step_attempts = StepRepeats
          /\ counters.attempts + (IF StepRepeats > 0 THEN 1 ELSE 0)
               = counters.pages + AllRepeats
      BY <2>4 DEF IInv, Ordinals
    <3> QED
      BY <2>1, <2>2, <2>4, <3>1, <3>2 DEF RepeatsExact, StepRepeats, AllRepeats
  <2>5. CASE pc \in Attempting
    <3>1. pc \notin Asking
      BY <2>5 DEF Asking, Attempting, RetryWaits
    <3>2. /\ current_step_attempts = StepRepeats + 1
          /\ counters.attempts + 0 = counters.pages + AllRepeats
      BY <2>3, <2>5 DEF IInv, Ordinals
    <3> QED
      BY <2>1, <2>2, <2>5, <3>1, <3>2 DEF RepeatsExact, StepRepeats, AllRepeats
  <2> QED
    BY <2>4, <2>5
<1> QED
  BY <1>1, Invariance, PTL

\* A stream that waits to recover holds nothing but its waiter reservation, so
\* that waiting streams never keep each other from sending
\* ("buffer_reservation.Release(); permit.Complete();").
THEOREM WaitersHoldNothing == Spec => []NothingHeldWhileWaiting
<1>1. IInv => NothingHeldWhileWaiting
  BY DEF IInv, HoldingsAt
<1> QED
  BY <1>1, Invariance, PTL

\* After a request to cancel at most the attempt whose admission was being
\* waited for is still begun: the checks at the top of the loop and in its waits.
THEOREM CancellationStops == Spec => []CancelStops
<1>1. IInv => CancelStops
  BY DEF IInv, CancelSeen, CancelStops
<1> QED
  BY <1>1, Invariance, PTL

\* The loop as a whole keeps to every budget of the scan, its recoveries and
\* waits included, with the accounting it really makes.
THEOREM LoopWithinBudgets == Spec => []Acc!WithinBudgets
<1>1. IInv => Acc!WithinBudgets
  BY AccountingTypes DEF IInv
<1> QED
  BY <1>1, Invariance, PTL
=============================================================================

----------------------- MODULE HttpScanExecutorProofs -----------------------
(***************************************************************************)
(* Proofs about opening a scan and about the streams it opens, for any     *)
(* number of threads that cancel and close and any number of pulls.        *)
(*                                                                         *)
(* Control, whatever the server sends: a stream is released from the       *)
(* moment it has failed, is exhausted or closed, or a Cancel or Close has  *)
(* returned.  A release needs the mutex or is the consumer's own, and it   *)
(* raises a flag that EnterNext tests, so no pull is ever in progress in a *)
(* released stream and none starts; what a release gave back is never      *)
(* taken again.  While it is not released, the position of the consumer,   *)
(* the page and the accounting move together.                              *)
(*                                                                         *)
(* Data, for documents of any size (DocumentAssumption says they are JSON):*)
(* each reader charges exactly what it keeps or fails, from the bytes of a *)
(* string up to the rows of a page.  And for a server that is honest in    *)
(* what nobody could notice (CollectionAssumption): the page asked for is  *)
(* the one after those handed over, so the rows come in order.             *)
(*                                                                         *)
(* Transport, for any order of calls that curl can make (WireAssumption):  *)
(* no call lets what is counted or kept grow beyond its limit, a body only *)
(* comes after the end of the terminal header section, and between the     *)
(* status line of that section and its end the links and the guidance kept *)
(* are what its lines have said so far.                                    *)
(*                                                                         *)
(* The recursions that are unfolded run down an index: bytes of a string,  *)
(* elements, columns, records, numbers to sum, addresses, calls.           *)
(***************************************************************************)
EXTENDS HttpScanExecutor, WellFoundedInduction, TLAPS

-----------------------------------------------------------------------------
(* The inductive invariant *)

ControlTypes ==
  /\ scan \in Scans
  /\ mutex \in {"consumer", None}
  /\ pc \in {"out", "locking", "pulling", "fetching", "decoding"}
  /\ result \in Results
  /\ call \in [Threads -> {"out", "Cancel", "Close", "returned"}]
  /\ cancelled \in BOOLEAN /\ closed \in BOOLEAN
  /\ exhausted \in BOOLEAN /\ terminal \in BOOLEAN
  /\ page_loaded \in BOOLEAN
  /\ accounting \in {"READY", "TRANSPORT_COMMITTED", "PAGE_DECODED", "EXHAUSTED", "FAILED"}
  /\ pages \in 0..profile.max_pages
  /\ held \subseteq Holdings

Inside == pc \in {"pulling", "fetching", "decoding"}

Released == terminal \/ closed \/ exhausted \/ \E t \in Threads : call[t] = "returned"

\* The consumer has the mutex exactly during a pull, which starts by dropping the
\* last batch.
PullInv ==
  /\ Inside <=> mutex = "consumer"
  /\ Inside => "handoff" \notin held

\* Nobody but the end of the result releases a stream without raising the flag.
FlagInv ==
  /\ terminal \/ closed => cancelled
  /\ \A t \in Threads : call[t] # "out" => cancelled

ReleasedInv ==
  Released => /\ ~Inside
              /\ held = {}
              /\ ~page_loaded
              /\ accounting \in {"EXHAUSTED", "FAILED"}

ActiveInv ==
  ~Released => /\ accounting \notin {"EXHAUSTED", "FAILED"}
               /\ accounting = "READY" => pages < profile.max_pages
               /\ accounting = "TRANSPORT_COMMITTED" <=> pc = "decoding"
               /\ page_loaded <=> accounting = "PAGE_DECODED"
               /\ pc = "fetching" => ~page_loaded

StreamInv ==
  /\ PullInv
  /\ FlagInv
  /\ ReleasedInv
  /\ ActiveInv
  /\ result = "failed" => terminal

\* A call that opens the scan holds what its stage has taken.
OpeningInv ==
  /\ opening \in {"unopened", "resolving", "admitting", "opened", "refused"}
  /\ opening # "opened" => pc = "out" /\ ~Released
  /\ opening = "unopened" => held = {}
  /\ opening \in {"unopened", "resolving"} =>
       capability = "ANONYMOUS" /\ principal = "none"
  /\ opening = "resolving" => profile.requires # "none"
  /\ opening = "refused" => held = {}
  /\ opening \in {"admitting", "opened"} =>
       /\ "provider permit" \notin held
       /\ (capability = "ANONYMOUS") <=> (profile.requires = "none")
       /\ (principal = "anonymous") <=> (capability = "ANONYMOUS")
       /\ profile.requires = "api_key" => capability = "CREDENTIAL"

IInv == ControlTypes /\ StreamInv /\ OpeningInv

-----------------------------------------------------------------------------
(* Constants *)

(* A scan may ask for a page. *)
LEMMA PagesAllowed ==
  ASSUME scan \in Scans
  PROVE  profile.max_pages \in Nat \ {0}
BY StreamAssumption DEF profile

(* What a scan may require. *)
LEMMA Requirements ==
  ASSUME scan \in Scans
  PROVE  profile.requires \in {"none", "bearer", "api_key"}
BY ExecutorAssumption DEF profile

-----------------------------------------------------------------------------
(* The stream *)

\* An opened stream.
Opened == ControlTypes /\ StreamInv /\ "provider permit" \notin held

(* ReleasePrivateState gives everything back and drops the page. *)
LEMMA Releasing ==
  ASSUME ControlTypes, ReleasePrivateState
  PROVE  /\ held' = {} /\ page_loaded' = FALSE /\ pages' = pages
         /\ accounting' \in {"EXHAUSTED", "FAILED"}
BY DEF ReleasePrivateState, ReleasedState, ControlTypes

(* A failure inside a pull: the consumer releases the stream and leaves. *)
LEMMA FailKeeps ==
  ASSUME Opened, Inside, Fail
  PROVE  Opened' /\ scan' = scan
<1>1. ControlTypes /\ StreamInv
  BY DEF Opened
<1>2. /\ held' = {} /\ page_loaded' = FALSE /\ pages' = pages
      /\ accounting' \in {"EXHAUSTED", "FAILED"}
  BY <1>1, Releasing DEF Fail, RememberCurrentFailure
<1>3. /\ cancelled' = TRUE /\ terminal' = TRUE
      /\ mutex' = None /\ pc' = "out" /\ result' = "failed"
      /\ UNCHANGED <<scan, call, closed, exhausted>>
  BY DEF Fail, RememberCurrentFailure, Return
<1>4. profile' = profile
  BY <1>3 DEF profile
<1>5. ControlTypes'
  BY <1>1, <1>2, <1>3, <1>4 DEF ControlTypes, Results
<1>6. PullInv'
  BY <1>2, <1>3, StreamAssumption DEF PullInv, Inside
<1>7. FlagInv'
  BY <1>3 DEF FlagInv
<1>8. ReleasedInv' /\ ActiveInv'
  BY <1>2, <1>3 DEF ReleasedInv, ActiveInv, Released, Inside
<1>. QED  BY <1>2, <1>3, <1>5, <1>6, <1>7, <1>8 DEF Opened, StreamInv

(* A pull is called. *)
LEMMA CallNextKeeps ==
  ASSUME Opened, CallNext
  PROVE  Opened' /\ scan' = scan
<1>1. ControlTypes /\ StreamInv
  BY DEF Opened
<1>2. /\ pc = "out" /\ pc' = "locking"
      /\ UNCHANGED <<scan, mutex, result, call, cancelled, closed, exhausted, terminal,
                     page_loaded, accounting, pages, held>>
  BY DEF CallNext, flags, private
<1>3. profile' = profile /\ Released' = Released
  BY <1>2 DEF profile, Released
<1>4. ControlTypes'
  BY <1>1, <1>2, <1>3 DEF ControlTypes
<1>5. PullInv' /\ FlagInv'
  BY <1>1, <1>2 DEF StreamInv, PullInv, Inside, FlagInv
<1>6. ReleasedInv' /\ ActiveInv'
  BY <1>1, <1>2, <1>3 DEF StreamInv, ReleasedInv, ActiveInv, Inside
<1>. QED  BY <1>1, <1>2, <1>4, <1>5, <1>6 DEF Opened, StreamInv

(* The lock is taken: a released stream is left at once. *)
LEMMA EnterNextKeeps ==
  ASSUME Opened, EnterNext
  PROVE  /\ Opened' /\ scan' = scan
         /\ result = "failed" /\ result' # result => result' = "end" /\ closed
<1>1. ControlTypes /\ StreamInv
  BY DEF Opened
<1>2. /\ pc = "locking" /\ mutex = None
      /\ held' = held \ {"handoff"}
      /\ UNCHANGED <<scan, call, cancelled, closed, exhausted, terminal, page_loaded,
                     accounting, pages>>
      /\ \/ /\ ~closed /\ ~terminal /\ ~exhausted /\ ~cancelled
            /\ mutex' = "consumer" /\ pc' = "pulling" /\ result' = result
         \/ /\ mutex' = None /\ pc' = "out"
            /\ \/ closed /\ result' = "end"
               \/ ~closed /\ terminal /\ result' = "failed"
               \/ ~closed /\ ~terminal /\ result' \in {"end", "cancelled"}
  BY DEF EnterNext, Return, flags
<1>3. profile' = profile /\ Released' = Released
  BY <1>2 DEF profile, Released
<1>4. ControlTypes'
  BY <1>1, <1>2, <1>3 DEF ControlTypes, Results
<1>5. PullInv' /\ FlagInv'
  BY <1>1, <1>2, StreamAssumption DEF StreamInv, PullInv, Inside, FlagInv
<1>6. ~closed /\ ~terminal /\ ~exhausted /\ ~cancelled => ~Released
  BY <1>1 DEF StreamInv, FlagInv, Released
<1>7. ReleasedInv' /\ ActiveInv'
  BY <1>1, <1>2, <1>3, <1>6 DEF StreamInv, ReleasedInv, ActiveInv, Inside
<1>8. result = "failed" => terminal
  BY <1>1 DEF StreamInv
<1>9. result' = "failed" => terminal'
  BY <1>2, <1>8
<1>. QED  BY <1>2, <1>4, <1>5, <1>7, <1>8, <1>9 DEF Opened, StreamInv

(* A batch is handed over. *)
LEMMA ProduceBatchKeeps ==
  ASSUME Opened, ProduceBatch
  PROVE  Opened' /\ scan' = scan /\ ~Released
<1>1. ControlTypes /\ StreamInv
  BY DEF Opened
<1>2. /\ pc = "pulling" /\ ~cancelled /\ page_loaded
      /\ held' = held \cup {"handoff"}
      /\ mutex' = None /\ pc' = "out" /\ result' = "rows"
      /\ UNCHANGED <<scan, call, cancelled, closed, exhausted, terminal, page_loaded,
                     accounting, pages>>
  BY DEF ProduceBatch, Return, flags
<1>3. profile' = profile /\ Released' = Released
  BY <1>2 DEF profile, Released
<1>4. ~Released
  BY <1>1, <1>2 DEF StreamInv, ReleasedInv, Inside
<1>5. ControlTypes'
  BY <1>1, <1>2, <1>3 DEF ControlTypes, Results, Holdings
<1>6. PullInv' /\ FlagInv'
  BY <1>1, <1>2, StreamAssumption DEF StreamInv, PullInv, Inside, FlagInv
<1>7. ReleasedInv' /\ ActiveInv'
  BY <1>1, <1>2, <1>3, <1>4 DEF StreamInv, ReleasedInv, ActiveInv, Inside
<1>8. "provider permit" \notin held'
  BY <1>2 DEF Opened
<1>. QED  BY <1>2, <1>4, <1>5, <1>6, <1>7, <1>8 DEF Opened, StreamInv

(* A page is finished: the next is fetched, or the result has ended and
   everything is given back. *)
LEMMA FinishPageKeeps ==
  ASSUME Opened, FinishPage
  PROVE  Opened' /\ scan' = scan /\ ~Released
<1>1. ControlTypes /\ StreamInv
  BY DEF Opened
<1>2. /\ pc = "pulling" /\ ~cancelled /\ page_loaded /\ page_loaded' = FALSE
      /\ UNCHANGED <<scan, call, cancelled, closed, terminal, pages>>
  BY DEF FinishPage
<1>3. profile' = profile
  BY <1>2 DEF profile
<1>4. ~Released /\ "handoff" \notin held /\ "provider permit" \notin held
  BY <1>1, <1>2 DEF StreamInv, ReleasedInv, PullInv, Inside, Opened
<1>5. FlagInv'
  BY <1>1, <1>2 DEF StreamInv, FlagInv
<1>6. CASE page_has_next
  <2>1. /\ pages < profile.max_pages /\ accounting' = "READY" /\ pc' = "fetching"
        /\ held' = (held \ {"page bytes", "page rows"}) \cup KeptBetweenPages
        /\ UNCHANGED <<mutex, result, exhausted>>
    BY <1>6 DEF FinishPage
  <2>2. KeptBetweenPages \subseteq {"page bytes"}
    BY DEF KeptBetweenPages
  <2>3. held' \subseteq Holdings /\ "handoff" \notin held' /\ "provider permit" \notin held'
    BY <2>1, <2>2, <1>1, <1>4 DEF ControlTypes, Holdings
  <2>4. ~Released'
    BY <1>2, <1>4, <2>1 DEF Released
  <2>5. ControlTypes'
    BY <1>1, <1>2, <1>3, <2>1, <2>3 DEF ControlTypes
  <2>6. PullInv'
    BY <1>1, <1>2, <2>1, <2>3 DEF StreamInv, PullInv, Inside
  <2>7. ReleasedInv' /\ ActiveInv'
    BY <1>2, <1>3, <2>1, <2>4 DEF ReleasedInv, ActiveInv
  <2>. QED  BY <1>1, <1>2, <1>4, <1>5, <2>1, <2>3, <2>5, <2>6, <2>7 DEF Opened, StreamInv
<1>7. CASE ~page_has_next
  <2>1. /\ accounting' = "EXHAUSTED" /\ exhausted' = TRUE
        /\ held' = held \ {"page bytes", "page rows", "authorization", "scan permit"}
        /\ mutex' = None /\ pc' = "out" /\ result' = "end"
    BY <1>7 DEF FinishPage, Return
  <2>2. held' = {}
    BY <2>1, <1>1, <1>4 DEF ControlTypes, Holdings
  <2>3. ControlTypes'
    BY <1>1, <1>2, <1>3, <2>1, <2>2 DEF ControlTypes, Results
  <2>4. PullInv'
    BY <2>1, StreamAssumption DEF PullInv, Inside
  <2>5. ReleasedInv' /\ ActiveInv'
    BY <1>2, <2>1, <2>2 DEF ReleasedInv, ActiveInv, Released, Inside
  <2>. QED  BY <1>2, <1>4, <1>5, <2>1, <2>2, <2>3, <2>4, <2>5 DEF Opened, StreamInv
<1>. QED  BY <1>6, <1>7

(* The first page is to be fetched. *)
LEMMA StartFetchKeeps ==
  ASSUME Opened, StartFetch
  PROVE  Opened' /\ scan' = scan /\ ~Released
<1>1. ControlTypes /\ StreamInv
  BY DEF Opened
<1>2. /\ pc = "pulling" /\ ~page_loaded /\ pc' = "fetching"
      /\ UNCHANGED <<scan, mutex, result, call, cancelled, closed, exhausted, terminal,
                     page_loaded, accounting, pages, held>>
  BY DEF StartFetch, flags, private
<1>3. profile' = profile /\ Released' = Released
  BY <1>2 DEF profile, Released
<1>4. ~Released
  BY <1>1, <1>2 DEF StreamInv, ReleasedInv, Inside
<1>5. ControlTypes'
  BY <1>1, <1>2, <1>3 DEF ControlTypes
<1>6. PullInv' /\ FlagInv'
  BY <1>1, <1>2 DEF StreamInv, PullInv, Inside, FlagInv
<1>7. ReleasedInv' /\ ActiveInv'
  BY <1>1, <1>2, <1>3, <1>4 DEF StreamInv, ReleasedInv, ActiveInv
<1>. QED  BY <1>1, <1>2, <1>4, <1>5, <1>6, <1>7 DEF Opened, StreamInv

(* A response is complete, or the attempt fails. *)
LEMMA ReceiveResponseKeeps ==
  ASSUME Opened, ReceiveResponse
  PROVE  Opened' /\ scan' = scan /\ ~Released
<1>1. ControlTypes /\ StreamInv
  BY DEF Opened
<1>2. /\ pc = "fetching" /\ accounting = "READY" /\ pages < profile.max_pages
      /\ \/ Fail
         \/ /\ accounting' = "TRANSPORT_COMMITTED" /\ pages' = pages + 1 /\ pc' = "decoding"
            /\ UNCHANGED <<scan, mutex, result, call, cancelled, closed, exhausted, terminal,
                           page_loaded, held>>
  BY DEF ReceiveResponse, flags
<1>3. ~Released
  BY <1>1, <1>2 DEF StreamInv, ReleasedInv, Inside
<1>4. CASE Fail
  BY <1>2, <1>3, <1>4, FailKeeps DEF Inside
<1>5. CASE ~Fail
  <2>1. /\ accounting' = "TRANSPORT_COMMITTED" /\ pages' = pages + 1 /\ pc' = "decoding"
        /\ UNCHANGED <<scan, mutex, result, call, cancelled, closed, exhausted, terminal,
                       page_loaded, held>>
    BY <1>2, <1>5
  <2>2. profile' = profile /\ Released' = Released
    BY <2>1 DEF profile, Released
  <2>3. profile.max_pages \in Nat
    BY <1>1, PagesAllowed DEF ControlTypes
  <2>4. pages' \in 0..profile'.max_pages
    BY <1>1, <1>2, <2>1, <2>2, <2>3 DEF ControlTypes
  <2>5. ControlTypes'
    BY <1>1, <2>1, <2>4 DEF ControlTypes
  <2>6. PullInv' /\ FlagInv'
    BY <1>1, <1>2, <2>1 DEF StreamInv, PullInv, Inside, FlagInv
  <2>7. ReleasedInv' /\ ActiveInv'
    BY <1>1, <1>2, <1>3, <2>1, <2>2 DEF StreamInv, ReleasedInv, ActiveInv
  <2>. QED  BY <1>1, <1>3, <2>1, <2>5, <2>6, <2>7 DEF Opened, StreamInv
<1>. QED  BY <1>4, <1>5

(* A page is installed, or the response is refused. *)
LEMMA FetchPageKeeps ==
  ASSUME Opened, FetchPage
  PROVE  Opened' /\ scan' = scan /\ ~Released
<1>1. ControlTypes /\ StreamInv
  BY DEF Opened
<1>2. pc = "decoding" /\ (Fail \/ \E rows, next : InstallPage(rows, next))
  BY DEF FetchPage
<1>3. ~Released
  BY <1>1, <1>2 DEF StreamInv, ReleasedInv, Inside
<1>4. CASE Fail
  BY <1>2, <1>3, <1>4, FailKeeps DEF Inside
<1>5. CASE \E rows, next : InstallPage(rows, next)
  <2>1. /\ page_loaded' = TRUE /\ accounting' = "PAGE_DECODED" /\ pc' = "pulling"
        /\ held' = held \cup {"page bytes", "page rows"}
        /\ UNCHANGED <<scan, mutex, result, call, cancelled, closed, exhausted, terminal,
                       pages>>
    BY <1>5 DEF InstallPage, flags
  <2>2. profile' = profile /\ Released' = Released
    BY <2>1 DEF profile, Released
  <2>3. ControlTypes'
    BY <1>1, <2>1, <2>2 DEF ControlTypes, Holdings
  <2>4. PullInv' /\ FlagInv'
    BY <1>1, <1>2, <2>1 DEF StreamInv, PullInv, Inside, FlagInv
  <2>5. ReleasedInv' /\ ActiveInv'
    BY <1>3, <2>1, <2>2 DEF ReleasedInv, ActiveInv
  <2>6. "provider permit" \notin held'
    BY <2>1 DEF Opened
  <2>. QED  BY <1>1, <1>3, <2>1, <2>3, <2>4, <2>5, <2>6 DEF Opened, StreamInv
<1>. QED  BY <1>2, <1>4, <1>5

(* The flag goes up. *)
LEMMA RequestKeeps ==
  ASSUME Opened, NEW t \in Threads, NEW kind \in {"Cancel", "Close"}, Request(t, kind)
  PROVE  Opened' /\ scan' = scan
<1>1. ControlTypes /\ StreamInv
  BY DEF Opened
<1>2. /\ call[t] = "out" /\ call' = [call EXCEPT ![t] = kind] /\ cancelled' = TRUE
      /\ UNCHANGED <<scan, mutex, pc, result, closed, exhausted, terminal, page_loaded,
                     accounting, pages, held>>
  BY DEF Request, pull, private
<1>3. \A s \in Threads : call'[s] = "returned" <=> call[s] = "returned"
  BY <1>1, <1>2 DEF ControlTypes
<1>4. profile' = profile /\ (Released' <=> Released)
  BY <1>2, <1>3 DEF profile, Released
<1>5. ControlTypes'
  BY <1>1, <1>2, <1>4 DEF ControlTypes
<1>6. PullInv' /\ FlagInv'
  BY <1>1, <1>2 DEF StreamInv, PullInv, Inside, FlagInv
<1>7. ReleasedInv' /\ ActiveInv'
  BY <1>1, <1>2, <1>4 DEF StreamInv, ReleasedInv, ActiveInv, Inside
<1>. QED  BY <1>1, <1>2, <1>5, <1>6, <1>7 DEF Opened, StreamInv

(* Cancel or Close gets the mutex. *)
LEMMA StopKeeps ==
  ASSUME Opened, NEW t \in Threads, Cancel(t) \/ Close(t)
  PROVE  Opened' /\ scan' = scan
<1>1. ControlTypes /\ StreamInv
  BY DEF Opened
<1>2. /\ call[t] \in {"Cancel", "Close"} /\ mutex = None
      /\ call' = [call EXCEPT ![t] = "returned"]
      /\ closed' = closed \/ closed' = TRUE
      /\ IF closed THEN UNCHANGED private ELSE ReleasePrivateState
      /\ UNCHANGED <<scan, mutex, pc, result, cancelled, exhausted, terminal>>
  BY DEF Cancel, Close, pull, flags
<1>3. cancelled /\ ~Inside
  BY <1>1, <1>2, StreamAssumption DEF StreamInv, FlagInv, PullInv
<1>4. /\ held' = {} /\ page_loaded' = FALSE /\ pages' = pages
      /\ accounting' \in {"EXHAUSTED", "FAILED"}
  <2>1. CASE closed
    BY <1>1, <1>2, <2>1 DEF StreamInv, ReleasedInv, Released, ControlTypes, private
  <2>2. CASE ~closed
    BY <1>1, <1>2, <2>2, Releasing
  <2>. QED  BY <2>1, <2>2
<1>5. call'[t] = "returned" /\ profile' = profile
  BY <1>1, <1>2 DEF ControlTypes, profile
<1>6. Released' /\ ~Inside'
  BY <1>2, <1>3, <1>5 DEF Released, Inside
<1>7. ControlTypes'
  BY <1>1, <1>2, <1>4, <1>5 DEF ControlTypes
<1>8. PullInv'
  BY <1>2, <1>6, StreamAssumption DEF PullInv
<1>9. FlagInv'
  BY <1>2, <1>3 DEF FlagInv
<1>10. ReleasedInv' /\ ActiveInv'
  BY <1>4, <1>6 DEF ReleasedInv, ActiveInv
<1>. QED  BY <1>1, <1>2, <1>4, <1>7, <1>8, <1>9, <1>10 DEF Opened, StreamInv

(* Every step of an opened stream keeps it; a pull never forgets a failure. *)
LEMMA NextKeeps ==
  ASSUME Opened, Next
  PROVE  /\ Opened' /\ scan' = scan
         /\ result = "failed" /\ result' # result => result' = "end" /\ closed
<1>1. (result = "failed") => Released
  BY DEF Opened, StreamInv, Released
<1>2. CASE CallNext
  <2>1. result' = result
    BY <1>2 DEF CallNext
  <2>. QED  BY <1>2, <2>1, CallNextKeeps
<1>3. CASE EnterNext
  BY <1>3, EnterNextKeeps
<1>4. CASE ProduceBatch
  BY <1>1, <1>4, ProduceBatchKeeps
<1>5. CASE FinishPage
  BY <1>1, <1>5, FinishPageKeeps
<1>6. CASE StartFetch
  BY <1>1, <1>6, StartFetchKeeps
<1>7. CASE ReceiveResponse
  BY <1>1, <1>7, ReceiveResponseKeeps
<1>8. CASE FetchPage
  BY <1>1, <1>8, FetchPageKeeps
<1>9. CASE FailPull
  <2>1. Inside /\ Fail
    BY <1>9 DEF FailPull, Inside
  <2>2. result' = "failed"
    BY <2>1 DEF Fail, Return
  <2>. QED  BY <2>1, <2>2, FailKeeps
<1>10. ASSUME NEW t \in Threads, Request(t, "Cancel") \/ Request(t, "Close")
       PROVE  Opened' /\ scan' = scan /\ result' = result
  <2>1. result' = result
    BY <1>10 DEF Request, pull
  <2>. QED  BY <1>10, <2>1, RequestKeeps
<1>11. ASSUME NEW t \in Threads, Cancel(t) \/ Close(t)
       PROVE  Opened' /\ scan' = scan /\ result' = result
  <2>1. result' = result
    BY <1>11 DEF Cancel, Close, pull
  <2>. QED  BY <1>11, <2>1, StopKeeps
<1>. QED  BY <1>2, <1>3, <1>4, <1>5, <1>6, <1>7, <1>8, <1>9, <1>10, <1>11 DEF Next, Pull

-----------------------------------------------------------------------------
(* Opening *)

(* What is taken or given back before the stream is opened is nothing to it. *)
LEMMA StreamUntouched ==
  ASSUME IInv, opening # "opened", UNCHANGED stream, held' \subseteq Holdings
  PROVE  ControlTypes' /\ StreamInv' /\ pc' = "out" /\ ~Released' /\ profile' = profile
<1>1. ControlTypes /\ StreamInv /\ pc = "out" /\ ~Released
  BY DEF IInv, OpeningInv
<1>2. UNCHANGED <<scan, mutex, pc, result, call, cancelled, closed, exhausted, terminal,
                  page_loaded, accounting, pages>>
  BY DEF stream, pull, flags
<1>3. profile' = profile /\ Released' = Released
  BY <1>2 DEF profile, Released
<1>4. ControlTypes'
  BY <1>1, <1>2, <1>3 DEF ControlTypes
<1>5. PullInv' /\ FlagInv'
  BY <1>1, <1>2 DEF StreamInv, PullInv, Inside, FlagInv
<1>6. ReleasedInv' /\ ActiveInv'
  BY <1>1, <1>2, <1>3 DEF StreamInv, ReleasedInv, ActiveInv
<1>. QED  BY <1>1, <1>2, <1>3, <1>4, <1>5, <1>6 DEF StreamInv

(* A refused opening keeps nothing. *)
LEMMA RefuseKeeps ==
  ASSUME IInv, opening # "opened", Refuse
  PROVE  IInv'
<1>1. /\ opening' = "refused" /\ held' = {} /\ UNCHANGED stream
  BY DEF Refuse
<1>2. ControlTypes' /\ StreamInv' /\ pc' = "out" /\ ~Released'
  BY <1>1, StreamUntouched
<1>3. OpeningInv'
  BY <1>1, <1>2 DEF OpeningInv
<1>. QED  BY <1>2, <1>3 DEF IInv

(* The anonymous service serves a plan that requires nothing. *)
LEMMA OpenKeeps ==
  ASSUME IInv, Open
  PROVE  IInv'
<1>1. CASE ~AdmitsAnonymous
  <2>1. opening # "opened" /\ Refuse
    BY <1>1 DEF Open
  <2>. QED  BY <2>1, RefuseKeeps
<1>2. CASE AdmitsAnonymous
  <2>1. /\ opening = "unopened" /\ opening' = "admitting" /\ principal' = "anonymous"
        /\ UNCHANGED stream /\ held' = held /\ capability' = capability
    BY <1>2 DEF Open
  <2>2. held = {} /\ capability = "ANONYMOUS"
    BY <2>1 DEF IInv, OpeningInv
  <2>3. ControlTypes' /\ StreamInv' /\ pc' = "out" /\ ~Released' /\ profile' = profile
    BY <2>1, <2>2, StreamUntouched
  <2>4. profile'.requires = "none"
    BY <1>2, <2>3 DEF AdmitsAnonymous
  <2>5. OpeningInv'
    BY <2>1, <2>2, <2>3, <2>4 DEF OpeningInv
  <2>. QED  BY <2>3, <2>5 DEF IInv
<1>. QED  BY <1>1, <1>2

(* A capability is admitted where it is the one that the plan requires. *)
LEMMA OpenAuthorizationKeeps ==
  ASSUME IInv, NEW a \in Alternatives, OpenAuthorizationEnvelope(a)
  PROVE  IInv'
<1>1. CASE ~MatchesRequiredCredential(a)
  <2>1. opening # "opened" /\ Refuse
    BY <1>1 DEF OpenAuthorizationEnvelope
  <2>. QED  BY <2>1, RefuseKeeps
<1>2. CASE MatchesRequiredCredential(a)
  <2>1. /\ opening = "unopened" /\ opening' = "admitting"
        /\ principal' = DirectAdmissionPrincipal(a) /\ capability' = a
        /\ UNCHANGED stream /\ held' = {"authorization"}
    BY <1>2 DEF OpenAuthorizationEnvelope
  <2>2. held' \subseteq Holdings /\ "provider permit" \notin held'
    BY <2>1 DEF Holdings
  <2>3. ControlTypes' /\ StreamInv' /\ pc' = "out" /\ ~Released' /\ profile' = profile
    BY <2>1, <2>2, StreamUntouched
  <2>4. profile.requires \in {"none", "bearer", "api_key"}
    BY Requirements DEF IInv, ControlTypes
  <2>5. /\ (a = "ANONYMOUS") <=> (profile.requires = "none")
        /\ profile.requires = "api_key" => a = "CREDENTIAL"
    BY <1>2, <2>4 DEF MatchesRequiredCredential
  <2>6. (principal' = "anonymous") <=> (a = "ANONYMOUS")
    BY <2>1 DEF DirectAdmissionPrincipal, Alternatives
  <2>7. OpeningInv'
    BY <2>1, <2>2, <2>3, <2>5, <2>6 DEF OpeningInv
  <2>. QED  BY <2>3, <2>7 DEF IInv
<1>. QED  BY <1>1, <1>2

(* The provider's permit is for a plan that requires a credential. *)
LEMMA AcquireCredentialKeeps ==
  ASSUME IInv, AcquireCredentialResolution
  PROVE  IInv'
<1>1. CASE ~(profile.requires # "none" /\ profile.secret /\ running)
  <2>1. opening # "opened" /\ Refuse
    BY <1>1 DEF AcquireCredentialResolution
  <2>. QED  BY <2>1, RefuseKeeps
<1>2. CASE profile.requires # "none" /\ profile.secret /\ running
  <2>1. /\ opening = "unopened" /\ opening' = "resolving"
        /\ held' = {"provider permit"}
        /\ UNCHANGED stream /\ UNCHANGED <<principal, capability>>
    BY <1>2 DEF AcquireCredentialResolution
  <2>2. held' \subseteq Holdings
    BY <2>1 DEF Holdings
  <2>3. ControlTypes' /\ StreamInv' /\ pc' = "out" /\ ~Released' /\ profile' = profile
    BY <2>1, <2>2, StreamUntouched
  <2>4. capability = "ANONYMOUS" /\ principal = "none"
    BY <2>1 DEF IInv, OpeningInv
  <2>5. OpeningInv'
    BY <1>2, <2>1, <2>3, <2>4 DEF OpeningInv
  <2>. QED  BY <2>3, <2>5 DEF IInv
<1>. QED  BY <1>1, <1>2

(* The resolved credential is charged to its authority; its permit has gone. *)
LEMMA ResolveCredentialKeeps ==
  ASSUME IInv, ResolveCredential
  PROVE  IInv'
<1>1. /\ opening = "resolving" /\ opening' = "admitting"
      /\ principal' = "authority" /\ capability' = "CREDENTIAL"
      /\ held' = (held \ {"provider permit"}) \cup {"authorization"}
      /\ UNCHANGED stream
  BY DEF ResolveCredential, ProviderAdmissionPrincipal, HeldAfterResolution
<1>2. held' \subseteq Holdings /\ "provider permit" \notin held'
  BY <1>1 DEF IInv, ControlTypes, Holdings
<1>3. ControlTypes' /\ StreamInv' /\ pc' = "out" /\ ~Released' /\ profile' = profile
  BY <1>1, <1>2, StreamUntouched
<1>4. profile.requires # "none"
  BY <1>1 DEF IInv, OpeningInv
<1>5. OpeningInv'
  BY <1>1, <1>2, <1>3, <1>4 DEF OpeningInv
<1>. QED  BY <1>3, <1>5 DEF IInv

(* The scan's permit is taken with what the stage before it has left. *)
LEMMA AcquireScanKeeps ==
  ASSUME IInv, AcquireScan
  PROVE  IInv'
<1>1. /\ opening = "admitting" /\ opening' = "opened"
      /\ held' = held \cup {"scan permit", "authorization"}
      /\ UNCHANGED stream /\ UNCHANGED <<principal, capability>>
  BY DEF AcquireScan
<1>2. /\ "provider permit" \notin held
      /\ (capability = "ANONYMOUS") <=> (profile.requires = "none")
      /\ (principal = "anonymous") <=> (capability = "ANONYMOUS")
      /\ profile.requires = "api_key" => capability = "CREDENTIAL"
  BY <1>1 DEF IInv, OpeningInv
<1>3. held' \subseteq Holdings /\ "provider permit" \notin held'
  BY <1>1, <1>2 DEF IInv, ControlTypes, Holdings
<1>4. ControlTypes' /\ StreamInv' /\ profile' = profile
  BY <1>1, <1>3, StreamUntouched
<1>5. OpeningInv'
  BY <1>1, <1>2, <1>3, <1>4 DEF OpeningInv
<1>. QED  BY <1>4, <1>5 DEF IInv

(* Nothing that the invariant speaks of has changed. *)
LEMMA SameState ==
  ASSUME IInv, UNCHANGED <<vars, opening, principal, capability>>
  PROVE  IInv'
<1>1. UNCHANGED <<scan, mutex, pc, result, call, cancelled, closed, exhausted, terminal,
                  page_loaded, accounting, pages, held, opening, principal, capability>>
  BY DEF vars, pull, flags, private
<1>2. profile' = profile /\ Released' = Released /\ Inside' = Inside
  BY <1>1 DEF profile, Released, Inside
<1>3. ControlTypes'
  BY <1>1, <1>2 DEF IInv, ControlTypes
<1>4. StreamInv'
  BY <1>1, <1>2 DEF IInv, StreamInv, PullInv, FlagInv, ReleasedInv, ActiveInv
<1>5. OpeningInv'
  BY <1>1, <1>2 DEF IInv, OpeningInv
<1>. QED  BY <1>3, <1>4, <1>5 DEF IInv

(* An opened scan keeps what it was opened with while its stream runs. *)
LEMMA StreamStepKeeps ==
  ASSUME IInv, opening = "opened", Next, UNCHANGED executor
  PROVE  /\ IInv'
         /\ result = "failed" /\ result' # result => result' = "end" /\ closed
<1>1. Opened
  BY DEF IInv, OpeningInv, Opened
<1>2. /\ Opened' /\ scan' = scan
      /\ result = "failed" /\ result' # result => result' = "end" /\ closed
  BY <1>1, NextKeeps
<1>3. UNCHANGED <<opening, principal, capability>> /\ profile' = profile
  BY <1>2 DEF executor, profile
<1>4. ControlTypes' /\ StreamInv' /\ "provider permit" \notin held'
  BY <1>2 DEF Opened
<1>5. OpeningInv'
  BY <1>3, <1>4 DEF IInv, OpeningInv
<1>. QED  BY <1>2, <1>4, <1>5 DEF IInv

-----------------------------------------------------------------------------
(* The invariant of the specification *)

(* The invariant holds before the scan is opened. *)
LEMMA InitIInv ==
  ASSUME ExecutorInit
  PROVE  IInv
<1>1. /\ scan \in Scans /\ mutex = None /\ pc = "out" /\ result = "none"
      /\ call = [t \in Threads |-> "out"]
      /\ cancelled = FALSE /\ closed = FALSE /\ exhausted = FALSE /\ terminal = FALSE
      /\ page_loaded = FALSE /\ accounting = "READY" /\ pages = 0 /\ held = {}
      /\ opening = "unopened" /\ principal = "none" /\ capability = "ANONYMOUS"
  BY DEF ExecutorInit, Init
<1>2. profile.max_pages \in Nat \ {0}
  BY <1>1, PagesAllowed
<1>3. ~Released /\ ~Inside
  BY <1>1 DEF Released, Inside
<1>4. ControlTypes
  <2>1. pages \in 0..profile.max_pages
    BY <1>1, <1>2
  <2>2. call \in [Threads -> {"out", "Cancel", "Close", "returned"}]
    BY <1>1
  <2>. QED  BY <1>1, <2>1, <2>2 DEF ControlTypes, Results
<1>5. PullInv /\ FlagInv
  BY <1>1, <1>3, StreamAssumption DEF PullInv, FlagInv
<1>6. ReleasedInv /\ ActiveInv
  BY <1>1, <1>2, <1>3 DEF ReleasedInv, ActiveInv
<1>7. OpeningInv
  BY <1>1, <1>3 DEF OpeningInv
<1>. QED  BY <1>1, <1>4, <1>5, <1>6, <1>7 DEF IInv, StreamInv

(* A step of an opening leaves the last result alone. *)
LEMMA OpenNextKeeps ==
  ASSUME IInv, OpenNext
  PROVE  IInv' /\ result' = result
<1>1. CASE Open
  <2>1. result' = result
    BY <1>1 DEF Open, Refuse, stream, pull
  <2>. QED  BY <1>1, <2>1, OpenKeeps
<1>2. ASSUME NEW a \in Alternatives, OpenAuthorizationEnvelope(a)
      PROVE  IInv' /\ result' = result
  <2>1. result' = result
    BY <1>2 DEF OpenAuthorizationEnvelope, Refuse, stream, pull
  <2>. QED  BY <1>2, <2>1, OpenAuthorizationKeeps
<1>3. CASE AcquireCredentialResolution
  <2>1. result' = result
    BY <1>3 DEF AcquireCredentialResolution, Refuse, stream, pull
  <2>. QED  BY <1>3, <2>1, AcquireCredentialKeeps
<1>4. CASE ResolveCredential
  <2>1. result' = result
    BY <1>4 DEF ResolveCredential, stream, pull
  <2>. QED  BY <1>4, <2>1, ResolveCredentialKeeps
<1>5. CASE AcquireScan
  <2>1. result' = result
    BY <1>5 DEF AcquireScan, stream, pull
  <2>. QED  BY <1>5, <2>1, AcquireScanKeeps
<1>6. CASE RefuseOpening
  <2>1. opening # "opened" /\ Refuse
    BY <1>6 DEF RefuseOpening
  <2>2. result' = result
    BY <2>1 DEF Refuse, stream, pull
  <2>. QED  BY <2>1, <2>2, RefuseKeeps
<1>7. CASE CloseExecutor
  <2>1. UNCHANGED <<vars, opening, principal, capability>>
    BY <1>7 DEF CloseExecutor, stream, vars, private
  <2>2. result' = result
    BY <2>1 DEF vars, pull
  <2>. QED  BY <2>1, <2>2, SameState
<1>. QED  BY <1>1, <1>2, <1>3, <1>4, <1>5, <1>6, <1>7 DEF OpenNext

(* Every step keeps the invariant, and no pull forgets a failure. *)
LEMMA NextIInv ==
  ASSUME IInv, [ExecutorNext]_allVars
  PROVE  /\ IInv'
         /\ result = "failed" /\ result' # result => result' = "end" /\ closed
<1>1. CASE OpenNext
  BY <1>1, OpenNextKeeps
<1>2. CASE opening = "opened" /\ Next /\ UNCHANGED executor
  BY <1>2, StreamStepKeeps
<1>3. CASE UNCHANGED allVars
  <2>1. UNCHANGED <<vars, opening, principal, capability>>
    BY <1>3 DEF allVars, executor
  <2>2. result' = result
    BY <2>1 DEF vars, pull
  <2>. QED  BY <2>1, <2>2, SameState
<1>. QED  BY <1>1, <1>2, <1>3 DEF ExecutorNext

(* The inductive invariant: the position of the consumer, the flags, the page, the
   accounting and what is held of shared components fit together in every
   reachable state, from the opening of the scan to its last Close. *)
THEOREM Invariance == ExecutorSpec => []IInv
<1>1. ExecutorInit => IInv
  BY InitIInv
<1>2. IInv /\ [ExecutorNext]_allVars => IInv'
  BY NextIInv
<1>. QED  BY <1>1, <1>2, PTL DEF ExecutorSpec

(* What the opening and the stream keep has its type: in particular the
   accounting never counts a page beyond the ones the profile allows. *)
THEOREM TypeCorrect == ExecutorSpec => []ControlTypes
<1>1. IInv => ControlTypes
  BY DEF IInv
<1>. QED  BY <1>1, Invariance, PTL

(* ReleasePrivateState is complete and final: whichever of a failure, the last
   page, Cancel and Close comes first, and whoever is inside the stream, nothing
   of the shared components is left with it or taken again (the permit of the
   scan, reservations of the page, the batch in the caller's hands). *)
THEOREM NothingIsLeftBehind == ExecutorSpec => []NothingLeftBehind
<1>1. IInv => NothingLeftBehind
  <2>. SUFFICES ASSUME IInv
                PROVE  NothingLeftBehind
    OBVIOUS
  <2>1. Released => ~Inside /\ held = {} /\ ~page_loaded
    BY DEF IInv, StreamInv, ReleasedInv
  <2>2. Inside <=> mutex = "consumer"
    BY DEF IInv, StreamInv, PullInv
  <2>. QED  BY <2>1, <2>2 DEF NothingLeftBehind, Released
<1>. QED  BY <1>1, Invariance, PTL

(* ScanResourceAccounting is called in its order by every interleaving of pulls,
   Cancel and Close: its states and the position of the stream are the same. *)
THEOREM AccountingStaysInOrder == ExecutorSpec => []AccountingInOrder
<1>1. IInv => AccountingInOrder
  <2>. SUFFICES ASSUME IInv
                PROVE  AccountingInOrder
    OBVIOUS
  <2>1. ControlTypes /\ ReleasedInv /\ ActiveInv
    BY DEF IInv, StreamInv
  <2>2. CASE Released
    BY <2>1, <2>2 DEF ReleasedInv, Inside, AccountingInOrder, ControlTypes
  <2>3. CASE ~Released
    <3>1. pc = "fetching" => accounting = "READY"
      BY <2>1, <2>3 DEF ActiveInv, ControlTypes
    <3>. QED  BY <2>1, <2>3, <3>1 DEF ActiveInv, AccountingInOrder
  <2>. QED  BY <2>2, <2>3
<1>. QED  BY <1>1, Invariance, PTL

(* terminal_exception is rethrown by every later pull, until the stream is
   closed: a failed scan never delivers another row. *)
THEOREM FailuresAreFinal == ExecutorSpec => FailureIsFinal
<1>1. IInv /\ [ExecutorNext]_allVars =>
        [result = "failed" /\ result' # result => result' = "end" /\ closed]_vars
  BY NextIInv
<1>. QED  BY <1>1, Invariance, PTL DEF ExecutorSpec, FailureIsFinal

(* No opening waits for the scan's permit while it has the provider's, a refused
   one keeps nothing and no service stands in for another: for every profile,
   through every service and whenever the executor is closed. *)
THEOREM OpeningsAreAsRequired == ExecutorSpec => []OpenedAsRequired
<1>1. IInv => OpenedAsRequired
  BY DEF IInv, OpeningInv, OpenedAsRequired
<1>. QED  BY <1>1, Invariance, PTL

-----------------------------------------------------------------------------
(* Induction *)

Less == OpToRel(<, Nat)

(* The order of the natural numbers as a relation. *)
LEMMA LessIs == \A x, y \in Nat : <<x, y>> \in Less <=> x < y
BY DEF Less, OpToRel

(* It is well founded. *)
LEMMA LessFounded == IsWellFoundedOn(Less, Nat)
BY NatLessThanWellFounded DEF Less, OpToRel

(* A set that has 0 and the successor of each of its numbers has them all. *)
LEMMA SetInduction ==
  ASSUME NEW S, 0 \in S, \A n \in Nat : n \in S => n + 1 \in S
  PROVE  \A n \in Nat : n \in S
<1>1. SUFFICES ASSUME {n \in Nat : n \notin S} # {}
               PROVE  FALSE
  OBVIOUS
<1>2. PICK x \in {n \in Nat : n \notin S} :
             \A y \in {n \in Nat : n \notin S} : ~ (<<y, x>> \in Less)
  <2>1. PICK T : T = {n \in Nat : n \notin S}
    OBVIOUS
  <2>2. T \subseteq Nat /\ T # {}
    BY <1>1, <2>1
  <2>3. \E x \in T : \A y \in T : ~ (<<y, x>> \in Less)
    BY <2>2, LessFounded, WFMin
  <2>. QED  BY <2>1, <2>3
<1>3. x # 0 /\ x \in Nat
  OBVIOUS
<1>4. x - 1 \in Nat /\ x - 1 < x /\ (x - 1) + 1 = x
  BY <1>3
<1>5. x - 1 \in S
  BY <1>2, <1>4, <1>3, LessIs
<1>. QED  BY <1>5, <1>4, <1>2

-----------------------------------------------------------------------------
(* Memory of a parse *)

\* What a parse may be refused for.
Errors ==
  {"decoded_memory_bytes", "schema", "string_bytes", "number_bytes", "decoded_records",
   "json", "json_nesting", "remote_protocol"}

Parse ==
  [decoded : Nat, strings : Nat, arrays : Nat, structural : Nat, continuation : Nat,
   peak : Nat, limit : Nat, error : {"none"} \cup Errors]

\* A parse within its memory.
Sane(s) == s \in Parse /\ Live(s) <= s.limit /\ s.peak <= s.limit

\* After t nothing has been charged since s but these amounts, unless it failed.
Charged(s, t, strings, arrays, structural) ==
  /\ Sane(t)
  /\ t.limit = s.limit
  /\ t.error = "none" =>
       /\ s.error = "none"
       /\ t.decoded = s.decoded
       /\ t.continuation = s.continuation
       /\ t.strings = s.strings + strings
       /\ t.arrays = s.arrays + arrays
       /\ t.structural = s.structural + structural

(* A parse that has failed is charged nothing. *)
LEMMA FailedStays ==
  ASSUME NEW s, Sane(s), s.error # "none", NEW a, NEW b, NEW c
  PROVE  Charged(s, s, a, b, c)
BY DEF Charged

(* A rejection charges nothing and is not undone. *)
LEMMA RejectCharges ==
  ASSUME NEW s, Sane(s), NEW error \in Errors, NEW a, NEW b, NEW c
  PROVE  Charged(s, Reject(s, error), a, b, c)
<1>1. CASE s.error = "none"
  <2>. error # "none"
    BY DEF Errors
  <2>1. PICK t : t = [s EXCEPT !.error = error]
    OBVIOUS
  <2>2. t \in Parse /\ Live(t) = Live(s) /\ t.limit = s.limit /\ t.peak = s.peak
        /\ t.error = error
    BY <2>1 DEF Sane, Parse, Live
  <2>. QED  BY <1>1, <2>1, <2>2 DEF Charged, Sane, Reject
<1>2. CASE s.error # "none"
  BY <1>2 DEF Charged, Sane, Reject
<1>. QED  BY <1>1, <1>2

(* A buffer is replaced by another in its pool. *)
LEMMA Recharges ==
  ASSUME NEW s, Sane(s), NEW old \in Nat, NEW new \in Nat, Live(s) + new <= s.limit,
         NEW pool, NEW t, t = Recharge(s, pool, old, new),
         \/ pool = "decoded" /\ old <= s.decoded
         \/ pool = "strings" /\ old <= s.strings
         \/ pool = "arrays" /\ old <= s.arrays
         \/ pool = "structural" /\ old <= s.structural
  PROVE  /\ Sane(t) /\ t.limit = s.limit /\ t.error = s.error
         /\ t.continuation = s.continuation
         /\ t.decoded = IF pool = "decoded" THEN s.decoded - old + new ELSE s.decoded
         /\ t.strings = IF pool = "strings" THEN s.strings - old + new ELSE s.strings
         /\ t.arrays = IF pool = "arrays" THEN s.arrays - old + new ELSE s.arrays
         /\ t.structural = IF pool = "structural" THEN s.structural - old + new ELSE s.structural
<1>1. /\ s.decoded \in Nat /\ s.strings \in Nat /\ s.arrays \in Nat /\ s.structural \in Nat
      /\ s.continuation \in Nat /\ s.peak \in Nat /\ s.limit \in Nat /\ s.error \in {"none"} \cup Errors
      /\ s.decoded + s.strings + s.arrays + s.structural + s.continuation + new <= s.limit
      /\ s.peak <= s.limit
  BY DEF Sane, Parse, Live
<1>2. PICK d, r, a, u, k :
        /\ d = IF pool = "decoded" THEN s.decoded - old + new ELSE s.decoded
        /\ r = IF pool = "strings" THEN s.strings - old + new ELSE s.strings
        /\ a = IF pool = "arrays" THEN s.arrays - old + new ELSE s.arrays
        /\ u = IF pool = "structural" THEN s.structural - old + new ELSE s.structural
        /\ k = IF Live(s) + new > s.peak THEN Live(s) + new ELSE s.peak
  OBVIOUS
<1>3. t = [s EXCEPT !.decoded = d, !.strings = r, !.arrays = a, !.structural = u, !.peak = k]
  BY <1>2 DEF Recharge
<1>4. /\ t.decoded = d /\ t.strings = r /\ t.arrays = a /\ t.structural = u /\ t.peak = k
      /\ t.limit = s.limit /\ t.error = s.error /\ t.continuation = s.continuation
  BY <1>3 DEF Sane, Parse
<1>5. /\ d \in Nat /\ r \in Nat /\ a \in Nat /\ u \in Nat
      /\ d + r + a + u + s.continuation <= s.limit
  BY <1>1, <1>2
<1>6. k \in Nat /\ k <= s.limit
  BY <1>1, <1>2 DEF Live
<1>7. t \in Parse
  BY <1>1, <1>3, <1>5, <1>6 DEF Parse, Sane
<1>8. Live(t) <= t.limit
  BY <1>4, <1>5 DEF Live
<1>. QED  BY <1>2, <1>4, <1>6, <1>7, <1>8 DEF Sane

(* A reservation charges the growth of its buffer. *)
LEMMA ReserveCharges ==
  ASSUME NEW s, Sane(s), NEW old \in Nat, NEW new \in Nat, NEW pool,
         s.error = "none" =>
           \/ pool = "strings" /\ old <= s.strings
           \/ pool = "arrays" /\ old <= s.arrays
           \/ pool = "structural" /\ old <= s.structural
  PROVE  Charged(s, ReserveCoLive(s, pool, old, new),
                 IF pool = "strings" THEN new - old ELSE 0,
                 IF pool = "arrays" THEN new - old ELSE 0,
                 IF pool = "structural" THEN new - old ELSE 0)
<1>1. CASE s.error # "none"
  <2>1. ReserveCoLive(s, pool, old, new) = s
    BY <1>1 DEF ReserveCoLive
  <2>. QED  BY <1>1, <2>1, FailedStays
<1>2. CASE s.error = "none" /\ Live(s) + new > s.limit
  <2>1. ReserveCoLive(s, pool, old, new) = Reject(s, "decoded_memory_bytes")
    BY <1>2 DEF ReserveCoLive
  <2>2. "decoded_memory_bytes" \in Errors
    BY DEF Errors
  <2>3. \A a, b, c : Charged(s, Reject(s, "decoded_memory_bytes"), a, b, c)
    BY <2>2, RejectCharges, Zenon
  <2>. QED  BY <2>1, <2>3, Zenon
<1>3. CASE s.error = "none" /\ ~(Live(s) + new > s.limit)
  <2>1. PICK t : t = ReserveCoLive(s, pool, old, new)
    OBVIOUS
  <2>2. t = Recharge(s, pool, old, new)
    BY <1>3, <2>1 DEF ReserveCoLive
  <2>3. Live(s) + new <= s.limit
    BY <1>3 DEF Sane, Parse, Live
  <2>4. /\ s.decoded \in Nat /\ s.strings \in Nat /\ s.arrays \in Nat /\ s.structural \in Nat
    BY DEF Sane, Parse
  <2>5. /\ Sane(t) /\ t.limit = s.limit /\ t.error = s.error
        /\ t.continuation = s.continuation /\ t.decoded = s.decoded
        /\ t.strings = IF pool = "strings" THEN s.strings - old + new ELSE s.strings
        /\ t.arrays = IF pool = "arrays" THEN s.arrays - old + new ELSE s.arrays
        /\ t.structural = IF pool = "structural" THEN s.structural - old + new ELSE s.structural
    BY <1>3, <2>2, <2>3, Recharges
  <2>6. /\ t.strings = s.strings + (IF pool = "strings" THEN new - old ELSE 0)
        /\ t.arrays = s.arrays + (IF pool = "arrays" THEN new - old ELSE 0)
        /\ t.structural = s.structural + (IF pool = "structural" THEN new - old ELSE 0)
    BY <2>4, <2>5
  <2>. QED  BY <2>1, <2>5, <2>6 DEF Charged
<1>. QED  BY <1>1, <1>2, <1>3

(* Charges add up. *)
LEMMA ChargesAdd ==
  ASSUME NEW s, Sane(s), NEW t, NEW u, NEW a \in Int, NEW b \in Int, NEW c \in Int,
         NEW d \in Int, NEW e \in Int, NEW f \in Int,
         Charged(s, t, a, b, c), Charged(t, u, d, e, f)
  PROVE  Charged(s, u, a + d, b + e, c + f)
<1>1. Sane(u) /\ u.limit = s.limit
  BY DEF Charged
<1>2. ASSUME u.error = "none"
      PROVE  /\ s.error = "none" /\ u.decoded = s.decoded /\ u.continuation = s.continuation
             /\ u.strings = s.strings + (a + d)
             /\ u.arrays = s.arrays + (b + e)
             /\ u.structural = s.structural + (c + f)
  <2>1. /\ t.error = "none" /\ u.decoded = t.decoded /\ u.continuation = t.continuation
        /\ u.strings = t.strings + d /\ u.arrays = t.arrays + e
        /\ u.structural = t.structural + f
    BY <1>2 DEF Charged
  <2>2. /\ s.error = "none" /\ t.decoded = s.decoded /\ t.continuation = s.continuation
        /\ t.strings = s.strings + a /\ t.arrays = s.arrays + b
        /\ t.structural = s.structural + c
    BY <2>1 DEF Charged
  <2>3. s.strings \in Nat /\ s.arrays \in Nat /\ s.structural \in Nat
    BY DEF Sane, Parse
  <2>. QED  BY <2>1, <2>2, <2>3
<1>. QED  BY <1>1, <1>2 DEF Charged

(* Nothing is charged by doing nothing. *)
LEMMA NothingCharged ==
  ASSUME NEW s, Sane(s)
  PROVE  Charged(s, s, 0, 0, 0)
<1>1. s.strings \in Nat /\ s.arrays \in Nat /\ s.structural \in Nat
  BY DEF Sane, Parse
<1>. QED  BY <1>1 DEF Charged

-----------------------------------------------------------------------------
(* Sums *)

(* The recursion of the sums of a sequence. *)
LEMMA SumsDef ==
  ASSUME NEW q
  PROVE  Sums(q) = [i \in 0..Len(q) |-> IF i = 0 THEN 0 ELSE Sums(q)[i - 1] + q[i]]
BY SMTT(60) DEF Sums

(* A sum grows by one number at a time. *)
LEMMA SumsStep ==
  ASSUME NEW q, NEW sum, sum = Sums(q), Len(q) \in Nat
  PROVE  /\ sum[0] = 0
         /\ \A i \in 1..Len(q) : sum[i] = sum[i - 1] + q[i]
<1>1. sum = [i \in 0..Len(q) |-> IF i = 0 THEN 0 ELSE sum[i - 1] + q[i]]
  BY SumsDef
<1>2. sum[0] = 0
  BY <1>1
<1>3. ASSUME NEW i \in 1..Len(q)
      PROVE  sum[i] = sum[i - 1] + q[i]
  <2>1. i \in 0..Len(q) /\ i # 0
    OBVIOUS
  <2>. QED  BY <1>1, <2>1
<1>. QED  BY <1>2, <1>3

(* Sums of natural numbers are natural numbers. *)
LEMMA SumsNat ==
  ASSUME NEW q, Len(q) \in Nat, NEW n \in 0..Len(q), \A i \in 1..n : q[i] \in Nat
  PROVE  Sums(q)[n] \in Nat
<1>1. PICK sum : sum = Sums(q)
  OBVIOUS
<1>2. PICK S : S = {k \in Nat : k <= n => sum[k] \in Nat}
  OBVIOUS
<1>3. 0 \in S
  BY <1>1, <1>2, SumsStep
<1>4. ASSUME NEW k \in Nat, k \in S
      PROVE  k + 1 \in S
  <2>1. ASSUME k + 1 <= n
        PROVE  sum[k + 1] \in Nat
    <3>1. sum[k] \in Nat /\ k + 1 \in 1..Len(q) /\ k + 1 \in 1..n /\ (k + 1) - 1 = k
      BY <1>2, <1>4, <2>1
    <3>2. sum[k + 1] = sum[(k + 1) - 1] + q[k + 1]
      BY <1>1, <3>1, SumsStep
    <3>. QED  BY <3>1, <3>2
  <2>. QED  BY <1>2, <2>1
<1>5. \A k \in Nat : k \in S
  BY <1>3, <1>4, SetInduction
<1>. QED  BY <1>1, <1>2, <1>5

(* Sequences that begin alike have the same first sums. *)
LEMMA SumsAgree ==
  ASSUME NEW q, NEW r, Len(q) \in Nat, Len(r) \in Nat, NEW n \in Nat,
         n <= Len(q), n <= Len(r), \A i \in 1..n : q[i] = r[i]
  PROVE  Sums(q)[n] = Sums(r)[n]
<1>1. PICK f, g : f = Sums(q) /\ g = Sums(r)
  OBVIOUS
<1>2. PICK S : S = {k \in Nat : k <= n => f[k] = g[k]}
  OBVIOUS
<1>3. 0 \in S
  BY <1>1, <1>2, SumsStep
<1>4. ASSUME NEW k \in Nat, k \in S
      PROVE  k + 1 \in S
  <2>1. ASSUME k + 1 <= n
        PROVE  f[k + 1] = g[k + 1]
    <3>1. /\ f[k] = g[k] /\ k + 1 \in 1..Len(q) /\ k + 1 \in 1..Len(r) /\ k + 1 \in 1..n
          /\ (k + 1) - 1 = k
      BY <1>2, <1>4, <2>1
    <3>2. f[k + 1] = f[k] + q[k + 1]
      BY <1>1, <3>1, SumsStep
    <3>3. g[k + 1] = g[k] + r[k + 1]
      BY <1>1, <3>1, SumsStep
    <3>. QED  BY <3>1, <3>2, <3>3
  <2>. QED  BY <1>2, <2>1
<1>5. \A k \in Nat : k \in S
  BY <1>3, <1>4, SetInduction
<1>. QED  BY <1>1, <1>2, <1>5

(* The sums of two sequences add up to those of a third. *)
LEMMA SumsAdd ==
  ASSUME NEW q, NEW r, NEW t, Len(q) \in Nat, Len(r) = Len(q), Len(t) = Len(q),
         \A i \in 1..Len(q) : q[i] \in Nat /\ r[i] \in Nat /\ t[i] = q[i] + r[i]
  PROVE  SumOf(t) = SumOf(q) + SumOf(r)
<1>1. PICK f, g, h, n : f = Sums(q) /\ g = Sums(r) /\ h = Sums(t) /\ n = Len(q)
  OBVIOUS
<1>2. PICK S : S = {k \in Nat : k <= n => h[k] = f[k] + g[k] /\ f[k] \in Nat /\ g[k] \in Nat}
  OBVIOUS
<1>3. 0 \in S
  BY <1>1, <1>2, SumsStep
<1>4. ASSUME NEW k \in Nat, k \in S
      PROVE  k + 1 \in S
  <2>1. ASSUME k + 1 <= n
        PROVE  h[k + 1] = f[k + 1] + g[k + 1] /\ f[k + 1] \in Nat /\ g[k + 1] \in Nat
    <3>1. /\ h[k] = f[k] + g[k] /\ f[k] \in Nat /\ g[k] \in Nat
          /\ k + 1 \in 1..Len(q) /\ (k + 1) - 1 = k
      BY <1>1, <1>2, <1>4, <2>1
    <3>2. f[k + 1] = f[k] + q[k + 1]
      BY <1>1, <3>1, SumsStep, SMTT(30)
    <3>3. g[k + 1] = g[k] + r[k + 1]
      BY <1>1, <3>1, SumsStep, SMTT(30)
    <3>4. h[k + 1] = h[k] + t[k + 1]
      BY <1>1, <3>1, SumsStep, SMTT(30)
    <3>5. q[k + 1] \in Nat /\ r[k + 1] \in Nat /\ t[k + 1] = q[k + 1] + r[k + 1]
      BY <3>1
    <3>. QED  BY <3>1, <3>2, <3>3, <3>4, <3>5
  <2>. QED  BY <1>2, <2>1
<1>5. \A k \in Nat : k \in S
  BY <1>3, <1>4, SetInduction
<1>6. h[n] = f[n] + g[n]
  BY <1>1, <1>2, <1>5
<1>. QED  BY <1>1, <1>6 DEF SumOf

(* One number more. *)
LEMMA SumExtends ==
  ASSUME NEW q, NEW r, Len(q) \in Nat, Len(r) = Len(q) + 1, \A i \in 1..Len(q) : r[i] = q[i]
  PROVE  SumOf(r) = SumOf(q) + r[Len(q) + 1]
<1>1. PICK n : n = Len(q)
  OBVIOUS
<1>2. Sums(r)[n] = Sums(q)[n]
  BY <1>1, SumsAgree
<1>3. PICK f : f = Sums(r)
  OBVIOUS
<1>4. n + 1 \in 1..Len(r) /\ (n + 1) - 1 = n
  BY <1>1
<1>5. f[n + 1] = f[n] + r[n + 1]
  BY <1>1, <1>3, <1>4, SumsStep
<1>. QED  BY <1>1, <1>2, <1>3, <1>5 DEF SumOf

-----------------------------------------------------------------------------
(* Capacities *)

(* The powers of two. *)
LEMMA PowerDef ==
  PowerOf2 = [k \in Nat |-> IF k = 0 THEN 1 ELSE 2 * PowerOf2[k - 1]]
BY SMTT(60) DEF PowerOf2

(* A power of two is twice the one before it. *)
LEMMA PowerStep ==
  PowerOf2[0] = 1 /\ \A k \in Nat : PowerOf2[k + 1] = 2 * PowerOf2[k]
<1>1. PICK f : f = PowerOf2
  OBVIOUS
<1>2. f = [k \in Nat |-> IF k = 0 THEN 1 ELSE 2 * f[k - 1]]
  BY <1>1, PowerDef
<1>3. f[0] = 1
  BY <1>2
<1>4. ASSUME NEW k \in Nat
      PROVE  f[k + 1] = 2 * f[k]
  <2>1. k + 1 \in Nat /\ k + 1 # 0 /\ (k + 1) - 1 = k
    OBVIOUS
  <2>. QED  BY <1>2, <2>1
<1>. QED  BY <1>1, <1>3, <1>4

(* Powers of two are positive. *)
LEMMA PowerNat ==
  \A k \in Nat : PowerOf2[k] \in Nat \ {0}
<1>1. PICK f : f = PowerOf2
  OBVIOUS
<1>2. f[0] = 1 /\ \A k \in Nat : f[k + 1] = 2 * f[k]
  BY <1>1, PowerStep
<1>3. PICK S : S = {k \in Nat : f[k] \in Nat \ {0}}
  OBVIOUS
<1>4. 0 \in S
  BY <1>2, <1>3
<1>5. ASSUME NEW k \in Nat, k \in S
      PROVE  k + 1 \in S
  <2>1. f[k + 1] = 2 * f[k] /\ f[k] \in Nat \ {0}
    BY <1>2, <1>3, <1>5
  <2>2. f[k + 1] \in Nat \ {0}
    BY <2>1
  <2>. QED  BY <1>3, <2>2
<1>6. \A k \in Nat : k \in S
  BY <1>4, <1>5, SetInduction
<1>. QED  BY <1>1, <1>3, <1>6

\* c holds n after k doublings of the unit, and no fewer would do.
Holds(unit, n, k) ==
  /\ k \in 0..n
  /\ unit * PowerOf2[k] >= n
  /\ \A j \in 0..(k - 1) : unit * PowerOf2[j] < n

(* The doubling that holds n is unique. *)
LEMMA HoldsUnique ==
  ASSUME NEW unit \in Nat, NEW n \in Nat, NEW k \in Nat, NEW l \in Nat,
         Holds(unit, n, k), Holds(unit, n, l)
  PROVE  k = l
<1>1. PICK g : g = [i \in Nat |-> unit * PowerOf2[i]]
  OBVIOUS
<1>2. \A i \in Nat : g[i] \in Nat
  BY <1>1, PowerNat
<1>3. /\ g[k] >= n /\ \A j \in 0..(k - 1) : g[j] < n
      /\ g[l] >= n /\ \A j \in 0..(l - 1) : g[j] < n
  BY <1>1 DEF Holds
<1>4. ~(k < l) /\ ~(l < k)
  BY <1>2, <1>3
<1>. QED  BY <1>4

(* What the doubling that holds n is. *)
LEMMA DoubledIs ==
  ASSUME NEW unit \in Nat, NEW n \in Nat, NEW k \in Nat, Holds(unit, n, k)
  PROVE  Doubled(unit, n) = unit * PowerOf2[k]
<1>1. PICK l : l = CHOOSE i \in 0..n : Holds(unit, n, i)
  OBVIOUS
<1>2. l \in 0..n /\ Holds(unit, n, l)
  BY <1>1 DEF Holds
<1>3. l = k
  BY <1>2, HoldsUnique
<1>4. l = CHOOSE i \in 0..n : /\ unit * PowerOf2[i] >= n
                              /\ \A j \in 0..(i - 1) : unit * PowerOf2[j] < n
  <2>1. \A i \in 0..n : Holds(unit, n, i) <=> /\ unit * PowerOf2[i] >= n
                                             /\ \A j \in 0..(i - 1) : unit * PowerOf2[j] < n
    BY DEF Holds
  <2>. QED  BY <1>1, <2>1
<1>. QED  BY <1>3, <1>4 DEF Doubled

(* A capacity that doubles when it is exceeded is the doubling that holds. *)
LEMMA DoublesWhenFull ==
  ASSUME NEW unit \in Nat \ {0}, NEW c,
         \A n \in Nat \ {0} : c[n] = IF n <= unit THEN unit
                                     ELSE IF n <= c[n - 1] THEN c[n - 1] ELSE 2 * c[n - 1]
  PROVE  \A n \in Nat \ {0} : c[n] = Doubled(unit, n) /\ c[n] \in Nat /\ c[n] >= n
<1>1. PICK g : g = [k \in Nat |-> unit * PowerOf2[k]]
  OBVIOUS
<1>2. \A k \in Nat : g[k] = unit * PowerOf2[k]
  BY <1>1
<1>3. g[0] = unit /\ \A k \in Nat : g[k] \in Nat /\ g[k + 1] = 2 * g[k]
  <2>1. g[0] = unit
    BY <1>2, PowerStep
  <2>2. ASSUME NEW k \in Nat
        PROVE  g[k] \in Nat /\ g[k + 1] = 2 * g[k]
    <3>1. PICK p : p = PowerOf2[k]
      OBVIOUS
    <3>2. p \in Nat /\ PowerOf2[k + 1] = 2 * p
      BY <3>1, PowerNat, PowerStep
    <3>3. unit * (2 * p) = 2 * (unit * p) /\ unit * p \in Nat
      BY <3>2
    <3>. QED  BY <1>2, <3>1, <3>2, <3>3
  <2>. QED  BY <2>1, <2>2
<1>4. PICK S : S = {m \in Nat : \E k \in 0..(m + 1) : /\ c[m + 1] = g[k]
                                                       /\ g[k] >= m + 1
                                                       /\ \A j \in 0..(k - 1) : g[j] < m + 1}
  OBVIOUS
<1>5. 0 \in S
  <2>1. c[0 + 1] = g[0] /\ g[0] >= 0 + 1
    BY <1>3
  <2>. QED  BY <1>4, <2>1
<1>6. ASSUME NEW m \in Nat, m \in S
      PROVE  m + 1 \in S
  <2>1. PICK k \in 0..(m + 1) : /\ c[m + 1] = g[k] /\ g[k] >= m + 1
                                /\ \A j \in 0..(k - 1) : g[j] < m + 1
    BY <1>4, <1>6
  <2>2. PICK n : n = m + 2
    OBVIOUS
  <2>3. n \in Nat \ {0} /\ n - 1 = m + 1 /\ (m + 1) + 1 = n
    BY <2>2
  <2>4. c[n] = IF n <= unit THEN unit ELSE IF n <= g[k] THEN g[k] ELSE 2 * g[k]
    BY <2>1, <2>3
  <2>5. g[k] \in Nat /\ g[k + 1] = 2 * g[k] /\ k \in Nat
    BY <1>3
  <2>6. \E l \in 0..n : c[n] = g[l] /\ g[l] >= n /\ \A j \in 0..(l - 1) : g[j] < n
    <3>1. CASE n <= unit
      <4>1. c[n] = g[0] /\ g[0] >= n /\ 0 \in 0..n /\ 0..(0 - 1) = {}
        BY <1>3, <2>3, <2>4, <3>1
      <4>. QED  BY <4>1
    <3>2. CASE ~(n <= unit) /\ n <= g[k]
      <4>1. \A j \in 0..(k - 1) : g[j] < n
        BY <1>3, <2>1, <2>3
      <4>2. c[n] = g[k] /\ g[k] >= n /\ k \in 0..n
        BY <2>3, <2>4, <2>5, <3>2
      <4>. QED  BY <4>1, <4>2
    <3>3. CASE ~(n <= unit) /\ ~(n <= g[k])
      <4>1. g[k] = m + 1
        BY <2>1, <2>3, <2>5, <3>3
      <4>2. c[n] = g[k + 1] /\ g[k + 1] >= n /\ k + 1 \in 0..n
        BY <2>3, <2>4, <2>5, <3>3, <4>1
      <4>3. ASSUME NEW j \in 0..((k + 1) - 1)
            PROVE  g[j] < n
        <5>1. j = k \/ j \in 0..(k - 1)
          BY <2>5
        <5>2. g[j] \in Nat
          BY <1>3
        <5>. QED  BY <2>1, <2>3, <4>1, <5>1, <5>2
      <4>. QED  BY <4>2, <4>3
    <3>. QED  BY <3>1, <3>2, <3>3
  <2>. QED  BY <1>4, <2>3, <2>6
<1>7. \A m \in Nat : m \in S
  BY <1>5, <1>6, SetInduction
<1>8. ASSUME NEW n \in Nat \ {0}
      PROVE  c[n] = Doubled(unit, n) /\ c[n] \in Nat /\ c[n] >= n
  <2>1. n - 1 \in S /\ n - 1 \in Nat /\ (n - 1) + 1 = n
    BY <1>7
  <2>2. PICK k \in 0..n : c[n] = g[k] /\ g[k] >= n /\ \A j \in 0..(k - 1) : g[j] < n
    BY <1>4, <2>1
  <2>3. Holds(unit, n, k)
    BY <1>2, <2>2 DEF Holds
  <2>4. Doubled(unit, n) = unit * PowerOf2[k]
    BY <2>3, DoubledIs
  <2>5. c[n] = unit * PowerOf2[k]
    BY <1>2, <2>2
  <2>6. c[n] = Doubled(unit, n)
    BY <2>4, <2>5
  <2>7. c[n] \in Nat /\ c[n] >= n
    BY <1>3, <2>2
  <2>. QED  BY <2>6, <2>7
<1>. QED  BY <1>8

(* The sizes that the accounting counts in. *)
LEMMA SizesNat ==
  /\ Sizes.row \in Nat /\ Sizes.slot \in Nat /\ Sizes.value \in Nat /\ Sizes.scalar \in Nat
  /\ Sizes.inline \in Nat \ {0}
  /\ Limits.string \in Nat /\ Limits.nesting \in Nat /\ Limits.memory \in Nat
  /\ Limits.cursor \in Nat
BY DecoderAssumption

(* A string grows by doubling, unfolded once. *)
LEMMA StringCapacityDef ==
  StringCapacity = [n \in Nat |-> IF n <= Sizes.inline THEN Sizes.inline
                                  ELSE LET c == StringCapacity[n - 1]
                                       IN  IF n <= c THEN c ELSE 2 * c]
BY SMTT(60) DEF StringCapacity

(* A string's capacity is the doubling of the inline one that holds it. *)
LEMMA StringCapacityIs ==
  \A n \in Nat : StringCapacity[n] = Doubled(Sizes.inline, n) /\ StringCapacity[n] \in Nat
<1>1. PICK c, unit : c = StringCapacity /\ unit = Sizes.inline
  OBVIOUS
<1>2. unit \in Nat \ {0}
  BY <1>1, SizesNat
<1>3. c = [n \in Nat |-> IF n <= unit THEN unit
                         ELSE IF n <= c[n - 1] THEN c[n - 1] ELSE 2 * c[n - 1]]
  BY <1>1, StringCapacityDef
<1>4. \A n \in Nat : c[n] = IF n <= unit THEN unit
                            ELSE IF n <= c[n - 1] THEN c[n - 1] ELSE 2 * c[n - 1]
  BY <1>3
<1>5. \A n \in Nat \ {0} : c[n] = Doubled(unit, n) /\ c[n] \in Nat /\ c[n] >= n
  BY <1>2, <1>4, DoublesWhenFull
<1>6. c[0] = Doubled(unit, 0) /\ c[0] \in Nat
  <2>1. c[0] = unit
    BY <1>2, <1>4
  <2>2. unit * PowerOf2[0] = unit
    BY <1>2, PowerStep
  <2>3. Holds(unit, 0, 0)
    BY <1>2, <2>2 DEF Holds
  <2>4. Doubled(unit, 0) = unit * PowerOf2[0]
    BY <1>2, <2>3, DoubledIs
  <2>. QED  BY <1>2, <2>1, <2>2, <2>4
<1>. QED  BY <1>1, <1>5, <1>6

(* So does the vector of an array. *)
LEMMA ElementCapacityDef ==
  ElementCapacity = [n \in Nat |-> IF n = 0 THEN 0
                                   ELSE LET c == ElementCapacity[n - 1]
                                        IN  IF n <= c THEN c ELSE IF c = 0 THEN 1 ELSE 2 * c]
BY SMTT(60) DEF ElementCapacity

(* A vector's capacity is the doubling of one that holds its elements. *)
LEMMA ElementCapacityIs ==
  /\ ElementCapacity[0] = 0
  /\ \A n \in Nat \ {0} : ElementCapacity[n] = Doubled(1, n)
  /\ \A n \in Nat : ElementCapacity[n] \in Nat
<1>1. PICK c : c = ElementCapacity
  OBVIOUS
<1>2. c = [n \in Nat |-> IF n = 0 THEN 0
                         ELSE IF n <= c[n - 1] THEN c[n - 1]
                         ELSE IF c[n - 1] = 0 THEN 1 ELSE 2 * c[n - 1]]
  BY <1>1, ElementCapacityDef
<1>3. \A n \in Nat : c[n] = IF n = 0 THEN 0
                            ELSE IF n <= c[n - 1] THEN c[n - 1]
                            ELSE IF c[n - 1] = 0 THEN 1 ELSE 2 * c[n - 1]
  BY <1>2
<1>4. c[0] = 0
  BY <1>3
<1>5. c[1] = 1
  <2>1. 1 \in Nat /\ 1 # 0 /\ 1 - 1 = 0 /\ ~(1 <= 0)
    OBVIOUS
  <2>. QED  BY <1>3, <1>4, <2>1
<1>6. PICK S : S = {m \in Nat : c[m + 1] \in Nat \ {0}}
  OBVIOUS
<1>7. 0 \in S
  BY <1>5, <1>6
<1>8. ASSUME NEW m \in Nat, m \in S
      PROVE  m + 1 \in S
  <2>1. PICK n : n = (m + 1) + 1
    OBVIOUS
  <2>2. n \in Nat /\ n # 0 /\ n - 1 = m + 1
    BY <2>1
  <2>3. c[m + 1] \in Nat \ {0}
    BY <1>6, <1>8
  <2>4. c[n] = IF n <= c[m + 1] THEN c[m + 1] ELSE 2 * c[m + 1]
    BY <1>3, <2>2, <2>3
  <2>5. c[n] \in Nat \ {0}
    BY <2>3, <2>4
  <2>. QED  BY <1>6, <2>1, <2>5
<1>9. \A m \in Nat : m \in S
  BY <1>7, <1>8, SetInduction
<1>10. \A n \in Nat \ {0} : c[n] \in Nat \ {0}
  <2>1. \A n \in Nat \ {0} : n - 1 \in Nat /\ (n - 1) + 1 = n
    OBVIOUS
  <2>. QED  BY <1>6, <1>9, <2>1
<1>11. \A n \in Nat \ {0} : c[n] = IF n <= 1 THEN 1
                                   ELSE IF n <= c[n - 1] THEN c[n - 1] ELSE 2 * c[n - 1]
  <2>1. ASSUME NEW n \in Nat \ {0}
        PROVE  c[n] = IF n <= 1 THEN 1
                      ELSE IF n <= c[n - 1] THEN c[n - 1] ELSE 2 * c[n - 1]
    <3>1. CASE n = 1
      BY <1>5, <3>1
    <3>2. CASE n # 1
      <4>1. n - 1 \in Nat \ {0} /\ ~(n <= 1)
        BY <3>2
      <4>2. c[n - 1] # 0
        BY <1>10, <4>1
      <4>3. c[n] = IF n <= c[n - 1] THEN c[n - 1]
                   ELSE IF c[n - 1] = 0 THEN 1 ELSE 2 * c[n - 1]
        BY <1>3
      <4>. QED  BY <4>1, <4>2, <4>3
    <3>. QED  BY <3>1, <3>2
  <2>. QED  BY <2>1
<1>12. \A n \in Nat \ {0} : c[n] = Doubled(1, n)
  BY <1>11, DoublesWhenFull
<1>. QED  BY <1>1, <1>4, <1>10, <1>12

-----------------------------------------------------------------------------
(* Strings *)

(* The next byte of a string, when it has been charged so far. *)
LEMMA ByteCharges ==
  ASSUME NEW s, Sane(s), NEW t, NEW k \in Nat \ {0}, Charged(s, t, StringCapacity[k - 1], 0, 0)
  PROVE  Charged(s, ReserveRetainedString(t, k), StringCapacity[k], 0, 0)
<1>1. PICK a, b : a = StringCapacity[k - 1] /\ b = StringCapacity[k]
  OBVIOUS
<1>2. a \in Nat /\ b \in Nat
  <2>1. k - 1 \in Nat /\ k \in Nat
    OBVIOUS
  <2>. QED  BY <1>1, <2>1, StringCapacityIs
<1>3. Sane(t) /\ (t.error = "none" => a <= t.strings)
  <2>1. s.strings \in Nat
    BY DEF Sane, Parse
  <2>. QED  BY <1>1, <1>2, <2>1 DEF Charged
<1>4. PICK u : u = ReserveRetainedString(t, k)
  OBVIOUS
<1>5. Charged(t, u, b - a, 0, 0)
  <2>1. CASE k > Limits.string
    <3>1. u = Reject(t, "string_bytes")
      BY <1>4, <2>1 DEF ReserveRetainedString
    <3>2. "string_bytes" \in Errors
      BY DEF Errors
    <3>3. \A x, y, z : Charged(t, Reject(t, "string_bytes"), x, y, z)
      BY <1>3, <3>2, RejectCharges, Zenon
    <3>. QED  BY <3>1, <3>3, Zenon
  <2>2. CASE ~(k > Limits.string) /\ b = a
    <3>1. u = t
      BY <1>1, <1>4, <2>2 DEF ReserveRetainedString
    <3>2. b - a = 0
      BY <1>2, <2>2
    <3>. QED  BY <1>3, <3>1, <3>2, NothingCharged
  <2>3. CASE ~(k > Limits.string) /\ b # a
    <3>1. u = ReserveCoLive(t, "strings", a, b)
      BY <1>1, <1>4, <2>3 DEF ReserveRetainedString
    <3>2. Charged(t, ReserveCoLive(t, "strings", a, b),
                  IF "strings" = "strings" THEN b - a ELSE 0,
                  IF "strings" = "arrays" THEN b - a ELSE 0,
                  IF "strings" = "structural" THEN b - a ELSE 0)
      BY <1>2, <1>3, ReserveCharges
    <3>. QED  BY <3>1, <3>2
  <2>. QED  BY <2>1, <2>2, <2>3
<1>6. Charged(s, u, a + (b - a), 0 + 0, 0 + 0)
  BY <1>1, <1>2, <1>5, ChargesAdd
<1>7. a + (b - a) = b /\ 0 + 0 = 0
  BY <1>2
<1>. QED  BY <1>1, <1>4, <1>6, <1>7

(* A walk over the bytes of a string charges its capacity. *)
LEMMA BytesCharge ==
  ASSUME NEW s, Sane(s), NEW bytes \in Nat, NEW f,
         f[0] = ReserveCoLive(s, "strings", 0, Sizes.inline),
         \A k \in 1..bytes : Sane(f[k - 1]) => f[k] = ReserveRetainedString(f[k - 1], k)
  PROVE  Charged(s, f[bytes], StringCapacity[bytes], 0, 0)
<1>1. PICK S : S = {k \in Nat : k <= bytes => Charged(s, f[k], StringCapacity[k], 0, 0)}
  OBVIOUS
<1>2. 0 \in S
  <2>1. PICK c : c = Sizes.inline
    OBVIOUS
  <2>2. c \in Nat /\ StringCapacity[0] = c
    <3>1. PICK g : g = StringCapacity
      OBVIOUS
    <3>2. g[0] = IF 0 <= c THEN c ELSE IF 0 <= g[0 - 1] THEN g[0 - 1] ELSE 2 * g[0 - 1]
      BY <2>1, <3>1, StringCapacityDef
    <3>. QED  BY <2>1, <3>1, <3>2, SizesNat
  <2>3. s.error = "none" => 0 <= s.strings
    BY DEF Sane, Parse
  <2>4. Charged(s, ReserveCoLive(s, "strings", 0, c),
                IF "strings" = "strings" THEN c - 0 ELSE 0,
                IF "strings" = "arrays" THEN c - 0 ELSE 0,
                IF "strings" = "structural" THEN c - 0 ELSE 0)
    BY <2>2, <2>3, ReserveCharges
  <2>5. c - 0 = c
    BY <2>2
  <2>6. Charged(s, f[0], StringCapacity[0], 0, 0)
    BY <2>1, <2>2, <2>4, <2>5
  <2>. QED  BY <1>1, <2>6
<1>3. ASSUME NEW k \in Nat, k \in S
      PROVE  k + 1 \in S
  <2>1. ASSUME k + 1 <= bytes
        PROVE  Charged(s, f[k + 1], StringCapacity[k + 1], 0, 0)
    <3>1. k + 1 \in 1..bytes /\ k + 1 \in Nat \ {0} /\ (k + 1) - 1 = k /\ k <= bytes
      BY <2>1
    <3>2. Charged(s, f[k], StringCapacity[k], 0, 0)
      BY <1>1, <1>3, <3>1
    <3>3. Sane(f[k])
      BY <3>2 DEF Charged
    <3>4. f[k + 1] = ReserveRetainedString(f[k], k + 1)
      BY <3>1, <3>3
    <3>5. Charged(s, ReserveRetainedString(f[k], k + 1), StringCapacity[k + 1], 0, 0)
      BY <3>1, <3>2, ByteCharges
    <3>. QED  BY <3>4, <3>5
  <2>. QED  BY <1>1, <2>1
<1>4. \A k \in Nat : k \in S
  BY <1>2, <1>3, SetInduction
<1>. QED  BY <1>1, <1>4

(* The bytes of a string are charged one after the other. *)
LEMMA StringAfterDef ==
  ASSUME NEW s, NEW bytes \in Nat
  PROVE  StringAfter(s, bytes) =
           [k \in 0..bytes |-> IF k = 0 THEN ReserveCoLive(s, "strings", 0, Sizes.inline)
                               ELSE ReserveRetainedString(StringAfter(s, bytes)[k - 1], k)]
BY SMTT(60) DEF StringAfter

(* A string is charged its capacity. *)
LEMMA StringCharges ==
  ASSUME NEW s, Sane(s), NEW bytes \in Nat
  PROVE  Charged(s, ParseString(s, bytes), StringCapacity[bytes], 0, 0)
<1>1. PICK f : f = StringAfter(s, bytes)
  OBVIOUS
<1>2. f = [k \in 0..bytes |-> IF k = 0 THEN ReserveCoLive(s, "strings", 0, Sizes.inline)
                              ELSE ReserveRetainedString(f[k - 1], k)]
  BY <1>1, StringAfterDef
<1>3. f[0] = ReserveCoLive(s, "strings", 0, Sizes.inline)
  BY <1>2
<1>4. ASSUME NEW k \in 1..bytes
      PROVE  f[k] = ReserveRetainedString(f[k - 1], k)
  <2>1. k \in 0..bytes /\ k # 0
    OBVIOUS
  <2>. QED  BY <1>2, <2>1
<1>5. Charged(s, f[bytes], StringCapacity[bytes], 0, 0)
  BY <1>3, <1>4, BytesCharge
<1>. QED  BY <1>1, <1>5 DEF ParseString

(* The strict reader reserves as the other does. *)
LEMMA StrictReserves ==
  ASSUME NEW s, Sane(s), NEW old \in Nat, NEW new \in Nat
  PROVE  ReserveStringCapacity(s, old, new) = ReserveCoLive(s, "strings", old, new)
<1>1. PICK r, k : r = s.strings - old + new /\ k = IF Live(s) + new > s.peak THEN Live(s) + new ELSE s.peak
  OBVIOUS
<1>2. s \in Parse
  BY DEF Sane
<1>3. [s EXCEPT !.strings = r, !.peak = k]
        = [s EXCEPT !.decoded = s.decoded, !.strings = r, !.arrays = s.arrays,
                    !.structural = s.structural, !.peak = k]
  BY <1>2 DEF Parse
<1>4. Recharge(s, "strings", old, new)
        = [s EXCEPT !.decoded = s.decoded, !.strings = r, !.arrays = s.arrays,
                    !.structural = s.structural, !.peak = k]
  BY <1>1 DEF Recharge
<1>. QED  BY <1>1, <1>3, <1>4 DEF ReserveStringCapacity, ReserveCoLive

(* By the strict reader too. *)
LEMMA StrictStringDef ==
  ASSUME NEW s, NEW bytes \in Nat
  PROVE  StrictString(s, bytes) =
           [k \in 0..bytes |-> IF k = 0 THEN ReserveStringCapacity(s, 0, Sizes.inline)
                               ELSE ReserveAppend(StrictString(s, bytes)[k - 1], k)]
BY SMTT(60) DEF StrictString

(* A string of the strict reader is charged its capacity. *)
LEMMA StrictStringCharges ==
  ASSUME NEW s, Sane(s), NEW bytes \in Nat
  PROVE  Charged(s, StrictString(s, bytes)[bytes], StringCapacity[bytes], 0, 0)
<1>1. PICK f : f = StrictString(s, bytes)
  OBVIOUS
<1>2. f = [k \in 0..bytes |-> IF k = 0 THEN ReserveStringCapacity(s, 0, Sizes.inline)
                              ELSE ReserveAppend(f[k - 1], k)]
  BY <1>1, StrictStringDef
<1>3. f[0] = ReserveStringCapacity(s, 0, Sizes.inline)
  BY <1>2
<1>4. f[0] = ReserveCoLive(s, "strings", 0, Sizes.inline)
  BY <1>3, SizesNat, StrictReserves
<1>5. ASSUME NEW k \in 1..bytes, Sane(f[k - 1])
      PROVE  f[k] = ReserveRetainedString(f[k - 1], k)
  <2>1. k \in 0..bytes /\ k # 0 /\ k \in Nat /\ k - 1 \in Nat
    OBVIOUS
  <2>2. f[k] = ReserveAppend(f[k - 1], k)
    BY <1>2, <2>1
  <2>3. StringCapacity[k] \in Nat /\ StringCapacity[k - 1] \in Nat
    BY <2>1, StringCapacityIs
  <2>4. ReserveStringCapacity(f[k - 1], StringCapacity[k - 1], StringCapacity[k])
          = ReserveCoLive(f[k - 1], "strings", StringCapacity[k - 1], StringCapacity[k])
    BY <1>5, <2>3, StrictReserves
  <2>. QED  BY <2>2, <2>4 DEF ReserveAppend, ReserveRetainedString
<1>6. Charged(s, f[bytes], StringCapacity[bytes], 0, 0)
  BY <1>4, <1>5, BytesCharge
<1>. QED  BY <1>1, <1>6

-----------------------------------------------------------------------------
(* Values *)

IsColumn(column) ==
  /\ column.kind \in {"BIGINT", "VARCHAR", "BOOLEAN", "DOUBLE"}
  /\ column.array \in BOOLEAN /\ column.element_nullable \in BOOLEAN
  /\ column.nullable \in BOOLEAN

(* The columns are. *)
LEMMA ColumnsAre ==
  /\ Len(Columns) \in Nat /\ Len(Columns) >= 1 /\ DOMAIN Columns = 1..Len(Columns)
  /\ \A i \in 1..Len(Columns) : IsColumn(Columns[i])
<1>1. PICK T : T = [kind : {"BIGINT", "VARCHAR", "BOOLEAN", "DOUBLE"}, array : BOOLEAN,
                    element_nullable : BOOLEAN, nullable : BOOLEAN]
  OBVIOUS
<1>2. Columns \in Seq(T) /\ Len(Columns) >= 1
  BY <1>1, DecoderAssumption
<1>3. Len(Columns) \in Nat /\ DOMAIN Columns = 1..Len(Columns)
  BY <1>2
<1>4. \A i \in 1..Len(Columns) : Columns[i] \in T
  BY <1>2, <1>3
<1>5. \A c \in T : IsColumn(c)
  BY <1>1 DEF IsColumn
<1>. QED  BY <1>2, <1>3, <1>4, <1>5

\* Values that a column may have, as far as the accounting and the shape of a row
\* tell them apart.
FitsScalar(column, v) ==
  /\ ~IsNull(v)
  /\ column.kind = "VARCHAR" => v.json = "string" /\ v.bytes \in Nat
  /\ column.kind = "BIGINT" => v.json = "number"

FitsElement(column, v) ==
  IF IsNull(v) THEN column.element_nullable ELSE FitsScalar(column, v)

FitsArray(column, v) ==
  /\ IsList(v.elements)
  /\ \A i \in 1..Len(v.elements) : FitsElement(column, v.elements[i])

Fits(column, v) ==
  CASE IsNull(v) -> column.nullable
    [] ~IsNull(v) /\ column.array -> FitsArray(column, v)
    [] OTHER -> FitsScalar(column, v)

\* From s to t something that fits has been read, and this much was charged for it.
Reads(s, t, fits, strings, arrays) ==
  Charged(s, t, strings, arrays, 0) /\ (t.error = "none" => fits)

(* What failed has charged whatever it may be. *)
LEMMA FailedReads ==
  ASSUME NEW s, NEW t, Sane(t), t.limit = s.limit, t.error # "none"
  PROVE  \A fits, x, y : Reads(s, t, fits, x, y)
BY DEF Reads, Charged

(* What is refused as no value of its column. *)
LEMMA RejectReads ==
  ASSUME NEW s, Sane(s), NEW error \in Errors
  PROVE  \A fits, x, y : Reads(s, Reject(s, error), fits, x, y)
<1>1. Charged(s, Reject(s, error), 0, 0, 0)
  BY RejectCharges
<1>2. Reject(s, error).error # "none"
  <2>1. CASE s.error # "none"
    BY <2>1 DEF Reject
  <2>2. CASE s.error = "none"
    <3>1. PICK t : t = Reject(s, error)
      OBVIOUS
    <3>2. t = [s EXCEPT !.error = error]
      BY <2>2, <3>1 DEF Reject
    <3>3. t.error = error
      BY <3>2 DEF Sane, Parse
    <3>4. error # "none"
      BY DEF Errors
    <3>. QED  BY <3>1, <3>3, <3>4
  <2>. QED  BY <2>1, <2>2
<1>3. Sane(Reject(s, error)) /\ Reject(s, error).limit = s.limit
  BY <1>1 DEF Charged
<1>. QED  BY <1>2, <1>3, FailedReads, Zenon

(* What fits without being charged. *)
LEMMA FreeReads ==
  ASSUME NEW s, Sane(s), NEW fits, fits
  PROVE  Reads(s, s, fits, 0, 0)
BY NothingCharged DEF Reads

\* Bytes of a scalar of no string column, or of none at all.
LEMMA ScalarBytes ==
  ASSUME NEW column, NEW v
  PROVE  /\ column.kind # "VARCHAR" \/ IsNull(v) => ScalarStringBytes(column, v) = 0
         /\ FitsElement(column, v) \/ FitsScalar(column, v) => ScalarStringBytes(column, v) \in Nat
<1>1. column.kind # "VARCHAR" \/ IsNull(v) => ScalarStringBytes(column, v) = 0
  BY DEF ScalarStringBytes
<1>2. ASSUME FitsElement(column, v) \/ FitsScalar(column, v),
             column.kind = "VARCHAR" /\ ~IsNull(v)
      PROVE  ScalarStringBytes(column, v) \in Nat
  <2>1. v.bytes \in Nat
    BY <1>2 DEF FitsElement, FitsScalar
  <2>. QED  BY <1>2, <2>1, StringCapacityIs DEF ScalarStringBytes
<1>. QED  BY <1>1, <1>2

(* A scalar is converted and its string charged, or it is refused. *)
LEMMA ScalarReads ==
  ASSUME NEW s, Sane(s), NEW column, IsColumn(column), NEW v, IsScalar(v), ~IsNull(v)
  PROVE  Reads(s, ParseScalarElement(s, column, v), FitsScalar(column, v),
               ScalarStringBytes(column, v), 0)
<1>1. PICK t, x : t = ParseScalarElement(s, column, v) /\ x = ScalarStringBytes(column, v)
  OBVIOUS
<1>2. \A fits, a, b : Reads(s, Reject(s, "schema"), fits, a, b)
  <2>1. "schema" \in Errors
    BY DEF Errors
  <2>. QED  BY <2>1, RejectReads, Zenon
<1>3. CASE t = Reject(s, "schema")
  BY <1>1, <1>2, <1>3, Zenon
<1>4. CASE column.kind = "VARCHAR" /\ v.json = "string"
  <2>1. t = ParseString(s, v.bytes)
    BY <1>1, <1>4 DEF ParseScalarElement
  <2>2. v.bytes \in Nat
    BY <1>4 DEF IsScalar
  <2>3. x = StringCapacity[v.bytes]
    BY <1>1, <1>4 DEF ScalarStringBytes
  <2>4. Charged(s, t, x, 0, 0)
    BY <2>1, <2>2, <2>3, StringCharges
  <2>5. FitsScalar(column, v)
    BY <1>4, <2>2 DEF FitsScalar
  <2>. QED  BY <1>1, <2>4, <2>5 DEF Reads
<1>5. CASE column.kind # "VARCHAR" /\ t = s /\ (column.kind = "BIGINT" => ParseBigInt(v))
  <2>1. x = 0
    BY <1>1, <1>5, ScalarBytes
  <2>2. FitsScalar(column, v)
    BY <1>5 DEF FitsScalar, ParseBigInt
  <2>. QED  BY <1>1, <1>5, <2>1, <2>2, FreeReads
<1>6. \/ t = Reject(s, "schema")
      \/ column.kind = "VARCHAR" /\ v.json = "string"
      \/ column.kind # "VARCHAR" /\ t = s /\ (column.kind = "BIGINT" => ParseBigInt(v))
  BY <1>1 DEF ParseScalarElement, IsColumn
<1>. QED  BY <1>3, <1>4, <1>5, <1>6

(* The same of a scalar of a node. *)
LEMMA GraphqlScalarReads ==
  ASSUME NEW s, Sane(s), NEW column, IsColumn(column), NEW v, IsScalar(v), ~IsNull(v)
  PROVE  Reads(s, GraphqlScalarElement(s, column, v), FitsScalar(column, v),
               ScalarStringBytes(column, v), 0)
<1>1. PICK t, x : t = GraphqlScalarElement(s, column, v) /\ x = ScalarStringBytes(column, v)
  OBVIOUS
<1>2. \A fits, a, b : /\ Reads(s, Reject(s, "schema"), fits, a, b)
                      /\ Reads(s, Reject(s, "number_bytes"), fits, a, b)
  <2>1. "schema" \in Errors /\ "number_bytes" \in Errors
    BY DEF Errors
  <2>. QED  BY <2>1, RejectReads, Zenon
<1>3. CASE t = Reject(s, "schema") \/ t = Reject(s, "number_bytes")
  BY <1>1, <1>2, <1>3, Zenon
<1>4. CASE column.kind = "VARCHAR" /\ v.json = "string"
  <2>1. t = StrictString(s, v.bytes)[v.bytes]
    BY <1>1, <1>4 DEF GraphqlScalarElement, ParseBoundedString
  <2>2. v.bytes \in Nat
    BY <1>4 DEF IsScalar
  <2>3. x = StringCapacity[v.bytes]
    BY <1>1, <1>4 DEF ScalarStringBytes
  <2>4. Charged(s, t, x, 0, 0)
    BY <2>1, <2>2, <2>3, StrictStringCharges
  <2>5. FitsScalar(column, v)
    BY <1>4, <2>2 DEF FitsScalar
  <2>. QED  BY <1>1, <2>4, <2>5 DEF Reads
<1>5. CASE column.kind # "VARCHAR" /\ t = s /\ (column.kind = "BIGINT" => ParseBigInt(v))
  <2>1. x = 0
    BY <1>1, <1>5, ScalarBytes
  <2>2. FitsScalar(column, v)
    BY <1>5 DEF FitsScalar, ParseBigInt
  <2>. QED  BY <1>1, <1>5, <2>1, <2>2, FreeReads
<1>6. \/ t = Reject(s, "schema") \/ t = Reject(s, "number_bytes")
      \/ column.kind = "VARCHAR" /\ v.json = "string"
      \/ column.kind # "VARCHAR" /\ t = s /\ (column.kind = "BIGINT" => ParseBigInt(v))
  BY <1>1 DEF GraphqlScalarElement, ParseBoundedString, IsColumn
<1>. QED  BY <1>3, <1>4, <1>5, <1>6

(* An element is converted, or null where it may be. *)
LEMMA ElementReads ==
  ASSUME NEW s, Sane(s), NEW column, IsColumn(column), NEW v, IsScalar(v)
  PROVE  /\ Reads(s, ParseElement(s, column, v), FitsElement(column, v),
                  ScalarStringBytes(column, v), 0)
         /\ Reads(s, GraphqlElement(s, column, v), FitsElement(column, v),
                  ScalarStringBytes(column, v), 0)
<1>1. \A fits, a, b : Reads(s, Reject(s, "schema"), fits, a, b)
  <2>1. "schema" \in Errors
    BY DEF Errors
  <2>. QED  BY <2>1, RejectReads, Zenon
<1>2. CASE IsNull(v) /\ column.element_nullable
  <2>1. /\ ParseElement(s, column, v) = s /\ GraphqlElement(s, column, v) = s
        /\ FitsElement(column, v)
    BY <1>2, Zenon DEF ParseElement, GraphqlElement, FitsElement
  <2>2. ScalarStringBytes(column, v) = 0
    BY <1>2, ScalarBytes
  <2>3. Reads(s, s, FitsElement(column, v), 0, 0)
    BY <2>1, FreeReads
  <2>. QED  BY <2>1, <2>2, <2>3
<1>3. CASE IsNull(v) /\ ~column.element_nullable
  <2>1. /\ ParseElement(s, column, v) = Reject(s, "schema")
        /\ GraphqlElement(s, column, v) = Reject(s, "schema")
    BY <1>3, Zenon DEF ParseElement, GraphqlElement
  <2>. QED  BY <1>1, <2>1, Zenon
<1>4. CASE ~IsNull(v)
  <2>1. /\ ParseElement(s, column, v) = ParseScalarElement(s, column, v)
        /\ GraphqlElement(s, column, v) = GraphqlScalarElement(s, column, v)
        /\ FitsElement(column, v) = FitsScalar(column, v)
    BY <1>4, Zenon DEF ParseElement, GraphqlElement, FitsElement
  <2>2. Reads(s, ParseScalarElement(s, column, v), FitsScalar(column, v),
              ScalarStringBytes(column, v), 0)
    BY <1>4, ScalarReads
  <2>3. Reads(s, GraphqlScalarElement(s, column, v), FitsScalar(column, v),
              ScalarStringBytes(column, v), 0)
    BY <1>4, GraphqlScalarReads
  <2>. QED  BY <2>1, <2>2, <2>3, Zenon
<1>. QED  BY <1>2, <1>3, <1>4

-----------------------------------------------------------------------------
(* Arrays *)

\* Bytes of a vector of n elements.
VectorBytes(n) == Sizes.scalar * ElementCapacity[n]

(* The bytes of a vector are a number, and none for no element. *)
LEMMA VectorBytesNat ==
  VectorBytes(0) = 0 /\ \A n \in Nat : VectorBytes(n) \in Nat
<1>1. VectorBytes(0) = 0
  BY ElementCapacityIs, SizesNat DEF VectorBytes
<1>2. ASSUME NEW n \in Nat
      PROVE  VectorBytes(n) \in Nat
  <2>1. PICK a, b : a = Sizes.scalar /\ b = ElementCapacity[n]
    OBVIOUS
  <2>2. a \in Nat /\ b \in Nat
    BY <2>1, ElementCapacityIs, SizesNat
  <2>3. a * b \in Nat
    BY <2>2
  <2>. QED  BY <2>1, <2>3 DEF VectorBytes
<1>. QED  BY <1>1, <1>2

(* Room for one element more, when there is room for those before. *)
LEMMA RoomCharges ==
  ASSUME NEW s, Sane(s), NEW i \in Nat \ {0},
         s.error = "none" => VectorBytes(i - 1) <= s.arrays
  PROVE  /\ Charged(s, ReserveArrayElement(s, i), 0, VectorBytes(i) - VectorBytes(i - 1), 0)
         /\ GraphqlReserveElement(s, i) = ReserveArrayElement(s, i)
<1>1. PICK a, b : a = VectorBytes(i - 1) /\ b = VectorBytes(i)
  OBVIOUS
<1>2. a \in Nat /\ b \in Nat
  <2>1. i - 1 \in Nat /\ i \in Nat
    OBVIOUS
  <2>. QED  BY <1>1, <2>1, VectorBytesNat
<1>3. CASE ElementCapacity[i] = ElementCapacity[i - 1]
  <2>1. a = b
    BY <1>1, <1>3 DEF VectorBytes
  <2>2. ReserveArrayElement(s, i) = s
    BY <1>3 DEF ReserveArrayElement
  <2>3. b - a = 0
    BY <1>2, <2>1
  <2>. QED  BY <1>1, <2>2, <2>3, NothingCharged DEF ReserveArrayElement, GraphqlReserveElement
<1>4. CASE ElementCapacity[i] # ElementCapacity[i - 1]
  <2>1. ReserveArrayElement(s, i) = ReserveCoLive(s, "arrays", a, b)
    BY <1>1, <1>4 DEF ReserveArrayElement, VectorBytes
  <2>2. s.error = "none" => a <= s.arrays
    BY <1>1
  <2>3. Charged(s, ReserveCoLive(s, "arrays", a, b),
                IF "arrays" = "strings" THEN b - a ELSE 0,
                IF "arrays" = "arrays" THEN b - a ELSE 0,
                IF "arrays" = "structural" THEN b - a ELSE 0)
    BY <1>2, <2>2, ReserveCharges
  <2>4. Charged(s, ReserveCoLive(s, "arrays", a, b), 0, b - a, 0)
    BY <2>3
  <2>5. GraphqlReserveElement(s, i) = ReserveArrayElement(s, i)
    BY DEF ReserveArrayElement, GraphqlReserveElement
  <2>. QED  BY <1>1, <2>1, <2>4, <2>5
<1>. QED  BY <1>3, <1>4

\* Bytes of the strings among the elements.
ElementStrings(column, elements) ==
  [i \in 1..Len(elements) |-> ScalarStringBytes(column, elements[i])]

(* One element more is charged. *)
LEMMA ElementStep ==
  ASSUME NEW s, Sane(s), NEW t, NEW w, NEW k \in Nat, NEW x \in Nat, NEW y \in Nat,
         Charged(s, t, x, VectorBytes(k), 0),
         Charged(ReserveArrayElement(t, k + 1), w, y, 0, 0)
  PROVE  Charged(s, w, x + y, VectorBytes(k + 1), 0)
<1>1. PICK u, a, b : u = ReserveArrayElement(t, k + 1) /\ a = VectorBytes(k) /\ b = VectorBytes(k + 1)
  OBVIOUS
<1>2. a \in Nat /\ b \in Nat /\ (k + 1) - 1 = k /\ k + 1 \in Nat \ {0}
  <2>1. k + 1 \in Nat
    OBVIOUS
  <2>. QED  BY <1>1, <2>1, VectorBytesNat
<1>3. Charged(s, t, x, a, 0) /\ Charged(u, w, y, 0, 0)
  BY <1>1
<1>4. Sane(t) /\ (t.error = "none" => a <= t.arrays)
  <2>1. s.arrays \in Nat
    BY DEF Sane, Parse
  <2>. QED  BY <1>2, <1>3, <2>1 DEF Charged
<1>5. Charged(t, u, 0, b - a, 0)
  BY <1>1, <1>2, <1>4, RoomCharges
<1>6. Charged(s, u, x + 0, a + (b - a), 0 + 0)
  BY <1>2, <1>3, <1>5, ChargesAdd
<1>7. x + 0 = x /\ a + (b - a) = b /\ 0 + 0 = 0 /\ b + 0 = b
  BY <1>2
<1>8. Charged(s, u, x, b, 0)
  BY <1>6, <1>7
<1>9. Charged(s, w, x + y, b + 0, 0 + 0)
  BY <1>2, <1>3, <1>8, ChargesAdd
<1>. QED  BY <1>1, <1>7, <1>9

FitsUpTo(column, elements, k) == \A i \in 1..k : FitsElement(column, elements[i])

\* The first k elements have been read, with x bytes of strings.
Walked(s, t, column, elements, k, x) ==
  /\ Sane(t) /\ t.limit = s.limit
  /\ t.error = "none" => x \in Nat
  /\ Reads(s, t, FitsUpTo(column, elements, k), x, VectorBytes(k))

(* A walk over the elements charges the vector and their strings. *)
LEMMA WalkCharges ==
  ASSUME NEW s, Sane(s), NEW column, NEW elements, IsList(elements), NEW f, f[0] = s,
         \A i \in 1..Len(elements) : \A u :
           Sane(u) /\ u = ReserveArrayElement(f[i - 1], i) =>
             Reads(u, f[i], FitsElement(column, elements[i]),
                   ScalarStringBytes(column, elements[i]), 0)
  PROVE  Walked(s, f[Len(elements)], column, elements, Len(elements),
                SumOf(ElementStrings(column, elements)))
<1>1. PICK n, q, sum : n = Len(elements) /\ q = ElementStrings(column, elements) /\ sum = Sums(q)
  OBVIOUS
<1>2. n \in Nat /\ Len(q) = n /\ \A i \in 1..n : q[i] = ScalarStringBytes(column, elements[i])
  BY <1>1 DEF IsList, ElementStrings
<1>3. sum[0] = 0 /\ \A i \in 1..n : sum[i] = sum[i - 1] + q[i]
  BY <1>1, <1>2, SumsStep
<1>4. PICK S : S = {k \in Nat : k <= n => Walked(s, f[k], column, elements, k, sum[k])}
  OBVIOUS
<1>5. 0 \in S
  <2>1. FitsUpTo(column, elements, 0)
    BY DEF FitsUpTo
  <2>2. Reads(s, s, FitsUpTo(column, elements, 0), 0, 0)
    BY <2>1, FreeReads
  <2>3. Walked(s, f[0], column, elements, 0, sum[0])
    BY <1>3, <2>2, VectorBytesNat DEF Walked
  <2>. QED  BY <1>4, <2>3
<1>6. ASSUME NEW k \in Nat, k \in S
      PROVE  k + 1 \in S
  <2>1. ASSUME k + 1 <= n
        PROVE  Walked(s, f[k + 1], column, elements, k + 1, sum[k + 1])
    <3>1. k + 1 \in 1..n /\ (k + 1) - 1 = k /\ k <= n /\ k + 1 \in Nat \ {0}
      BY <1>2, <2>1
    <3>2. Walked(s, f[k], column, elements, k, sum[k])
      BY <1>4, <1>6, <3>1
    <3>3. PICK t, u, y, w : /\ t = f[k] /\ u = ReserveArrayElement(t, k + 1)
                            /\ y = ScalarStringBytes(column, elements[k + 1])
                            /\ w = f[k + 1]
      OBVIOUS
    <3>4. Sane(t) /\ t.limit = s.limit /\ (t.error = "none" => VectorBytes(k) <= t.arrays)
      <4>1. VectorBytes(k) \in Nat
        BY VectorBytesNat
      <4>2. s.arrays \in Nat
        BY DEF Sane, Parse
      <4>. QED  BY <3>2, <3>3, <4>1, <4>2 DEF Walked, Reads, Charged
    <3>5. Charged(t, u, 0, VectorBytes(k + 1) - VectorBytes(k), 0)
      BY <3>1, <3>3, <3>4, RoomCharges
    <3>6. Sane(u) /\ u.limit = s.limit /\ (u.error = "none" => t.error = "none")
      BY <3>4, <3>5 DEF Charged
    <3>7. Reads(u, w, FitsElement(column, elements[k + 1]), y, 0)
      BY <1>1, <3>1, <3>3, <3>6
    <3>8. Sane(w) /\ w.limit = s.limit /\ (w.error = "none" => t.error = "none")
      BY <3>6, <3>7 DEF Reads, Charged
    <3>9. w.error = "none" => FitsElement(column, elements[k + 1])
      BY <3>7 DEF Reads
    <3>10. w.error = "none" => y \in Nat
      BY <3>3, <3>9, ScalarBytes
    <3>11. sum[k + 1] = sum[k] + y
      BY <1>2, <1>3, <3>1, <3>3
    <3>12. CASE w.error # "none"
      <4>1. Reads(s, w, FitsUpTo(column, elements, k + 1), sum[k + 1], VectorBytes(k + 1))
        BY <3>8, <3>12, FailedReads, Zenon
      <4>. QED  BY <3>3, <3>8, <3>12, <4>1 DEF Walked
    <3>13. CASE w.error = "none"
      <4>1. sum[k] \in Nat /\ y \in Nat
        BY <3>2, <3>3, <3>8, <3>10, <3>13 DEF Walked
      <4>2. Charged(s, t, sum[k], VectorBytes(k), 0) /\ Charged(u, w, y, 0, 0)
        BY <3>2, <3>3, <3>7 DEF Walked, Reads
      <4>3. Charged(s, w, sum[k] + y, VectorBytes(k + 1), 0)
        BY <3>3, <4>1, <4>2, ElementStep
      <4>4. FitsUpTo(column, elements, k)
        BY <3>2, <3>3, <3>8, <3>13 DEF Walked, Reads
      <4>5. \A i \in 1..(k + 1) : i = k + 1 \/ i \in 1..k
        OBVIOUS
      <4>6. FitsUpTo(column, elements, k + 1)
        BY <3>9, <3>13, <4>4, <4>5 DEF FitsUpTo
      <4>7. Charged(s, w, sum[k + 1], VectorBytes(k + 1), 0)
        BY <3>11, <4>3
      <4>8. Reads(s, w, FitsUpTo(column, elements, k + 1), sum[k + 1], VectorBytes(k + 1))
        BY <4>6, <4>7 DEF Reads
      <4>. QED  BY <3>3, <3>8, <3>11, <4>1, <4>8 DEF Walked
    <3>. QED  BY <3>12, <3>13
  <2>. QED  BY <1>4, <2>1
<1>7. \A k \in Nat : k \in S
  BY <1>5, <1>6, SetInduction
<1>8. Walked(s, f[n], column, elements, n, sum[n])
  BY <1>2, <1>4, <1>7
<1>. QED  BY <1>1, <1>2, <1>8 DEF SumOf

(* The elements of an array are read one after the other. *)
LEMMA ElementsAfterDef ==
  ASSUME NEW s, NEW column, NEW elements, Len(elements) \in Nat
  PROVE  ElementsAfter(s, column, elements) =
           [i \in 0..Len(elements) |->
              IF i = 0 THEN s
              ELSE ParseElement(ReserveArrayElement(ElementsAfter(s, column, elements)[i - 1], i),
                                column, elements[i])]
BY SMTT(60) DEF ElementsAfter

(* Those of a GraphQL response too. *)
LEMMA GraphqlElementsDef ==
  ASSUME NEW s, NEW column, NEW elements, Len(elements) \in Nat
  PROVE  GraphqlElements(s, column, elements) =
           [i \in 0..Len(elements) |->
              IF i = 0 THEN s
              ELSE GraphqlElement(GraphqlReserveElement(GraphqlElements(s, column, elements)[i - 1], i),
                                  column, elements[i])]
BY SMTT(60) DEF GraphqlElements

(* An array's vector and strings are charged, or it is refused. *)
LEMMA ElementsRead ==
  ASSUME NEW s, Sane(s), NEW column, IsColumn(column), NEW elements, IsList(elements),
         \A i \in DOMAIN elements : IsScalar(elements[i])
  PROVE  /\ Walked(s, ElementsAfter(s, column, elements)[Len(elements)], column, elements,
                   Len(elements), SumOf(ElementStrings(column, elements)))
         /\ Walked(s, GraphqlElements(s, column, elements)[Len(elements)], column, elements,
                   Len(elements), SumOf(ElementStrings(column, elements)))
<1>1. PICK n : n = Len(elements)
  OBVIOUS
<1>2. n \in Nat /\ DOMAIN elements = 1..n
  BY <1>1 DEF IsList
<1>3. Walked(s, ElementsAfter(s, column, elements)[n], column, elements, n,
             SumOf(ElementStrings(column, elements)))
  <2>1. PICK f : f = ElementsAfter(s, column, elements)
    OBVIOUS
  <2>2. f = [i \in 0..n |-> IF i = 0 THEN s
                            ELSE ParseElement(ReserveArrayElement(f[i - 1], i), column, elements[i])]
    BY <1>1, <1>2, <2>1, ElementsAfterDef
  <2>3. f[0] = s
    BY <1>2, <2>2
  <2>4. ASSUME NEW i \in 1..n, NEW u, Sane(u), u = ReserveArrayElement(f[i - 1], i)
        PROVE  Reads(u, f[i], FitsElement(column, elements[i]),
                     ScalarStringBytes(column, elements[i]), 0)
    <3>1. i \in 0..n /\ i # 0 /\ i \in DOMAIN elements
      BY <1>2
    <3>2. f[i] = ParseElement(ReserveArrayElement(f[i - 1], i), column, elements[i])
      BY <2>2, <3>1
    <3>3. f[i] = ParseElement(u, column, elements[i])
      BY <2>4, <3>2
    <3>4. Reads(u, ParseElement(u, column, elements[i]), FitsElement(column, elements[i]),
                ScalarStringBytes(column, elements[i]), 0)
      BY <2>4, <3>1, ElementReads
    <3>. QED  BY <3>3, <3>4, Zenon
  <2>5. Walked(s, f[n], column, elements, n, SumOf(ElementStrings(column, elements)))
    BY <1>1, <2>3, <2>4, WalkCharges
  <2>. QED  BY <2>1, <2>5
<1>4. Walked(s, GraphqlElements(s, column, elements)[n], column, elements, n,
             SumOf(ElementStrings(column, elements)))
  <2>1. PICK f : f = GraphqlElements(s, column, elements)
    OBVIOUS
  <2>2. f = [i \in 0..n |-> IF i = 0 THEN s
                            ELSE GraphqlElement(GraphqlReserveElement(f[i - 1], i), column, elements[i])]
    BY <1>1, <1>2, <2>1, GraphqlElementsDef
  <2>3. f[0] = s
    BY <1>2, <2>2
  <2>4. ASSUME NEW i \in 1..n, NEW u, Sane(u), u = ReserveArrayElement(f[i - 1], i)
        PROVE  Reads(u, f[i], FitsElement(column, elements[i]),
                     ScalarStringBytes(column, elements[i]), 0)
    <3>1. i \in 0..n /\ i # 0 /\ i \in DOMAIN elements
      BY <1>2
    <3>2. f[i] = GraphqlElement(GraphqlReserveElement(f[i - 1], i), column, elements[i])
      BY <2>2, <3>1
    <3>3. GraphqlReserveElement(f[i - 1], i) = ReserveArrayElement(f[i - 1], i)
      BY DEF ReserveArrayElement, GraphqlReserveElement
    <3>4. f[i] = GraphqlElement(u, column, elements[i])
      BY <2>4, <3>2, <3>3
    <3>5. Reads(u, GraphqlElement(u, column, elements[i]), FitsElement(column, elements[i]),
                ScalarStringBytes(column, elements[i]), 0)
      BY <2>4, <3>1, ElementReads
    <3>. QED  BY <3>4, <3>5, Zenon
  <2>5. Walked(s, f[n], column, elements, n, SumOf(ElementStrings(column, elements)))
    BY <1>1, <2>3, <2>4, WalkCharges
  <2>. QED  BY <2>1, <2>5
<1>. QED  BY <1>1, <1>3, <1>4

-----------------------------------------------------------------------------
(* Columns *)

\* From s to t a value of a column has been read.
ReadsValue(s, t, column, v) ==
  Reads(s, t, Fits(column, v), ValueStringBytes(column, v), ValueElementBytes(column, v))

(* What was refused. *)
LEMMA RejectReadsValue ==
  ASSUME NEW s, Sane(s), NEW column, NEW v
  PROVE  ReadsValue(s, Reject(s, "schema"), column, v)
<1>1. "schema" \in Errors
  BY DEF Errors
<1>2. \A fits, x, y : Reads(s, Reject(s, "schema"), fits, x, y)
  BY <1>1, RejectReads, Zenon
<1>. QED  BY <1>2, Zenon DEF ReadsValue

(* A null where it may be. *)
LEMMA NullReadsValue ==
  ASSUME NEW s, Sane(s), NEW column, NEW v, IsNull(v), column.nullable
  PROVE  ReadsValue(s, s, column, v)
<1>1. Fits(column, v)
  BY DEF Fits
<1>2. ValueStringBytes(column, v) = 0 /\ ValueElementBytes(column, v) = 0
  BY DEF ValueStringBytes, ValueElementBytes
<1>3. Charged(s, s, 0, 0, 0)
  BY NothingCharged
<1>. QED  BY <1>1, <1>2, <1>3 DEF ReadsValue, Reads

(* A scalar column. *)
LEMMA ScalarReadsValue ==
  ASSUME NEW s, NEW t, NEW column, IsColumn(column), NEW v, ~IsNull(v), ~column.array,
         Reads(s, t, FitsScalar(column, v), ScalarStringBytes(column, v), 0)
  PROVE  ReadsValue(s, t, column, v)
<1>1. /\ ValueStringBytes(column, v) = ScalarStringBytes(column, v)
      /\ ValueElementBytes(column, v) = 0
  BY DEF ValueStringBytes, ValueElementBytes
<1>2. FitsScalar(column, v) => Fits(column, v)
  BY DEF Fits
<1>. QED  BY <1>1, <1>2 DEF ReadsValue, Reads

(* An array column. *)
LEMMA ArrayReadsValue ==
  ASSUME NEW s, NEW t, NEW column, IsColumn(column), NEW v, ~IsNull(v), column.array,
         IsList(v.elements),
         Walked(s, t, column, v.elements, Len(v.elements), SumOf(ElementStrings(column, v.elements)))
  PROVE  ReadsValue(s, t, column, v)
<1>1. ValueStringBytes(column, v) = SumOf(ElementStrings(column, v.elements))
  BY DEF ValueStringBytes, ElementStrings
<1>2. ValueElementBytes(column, v) = VectorBytes(Len(v.elements))
  BY DEF ValueElementBytes, VectorBytes
<1>3. FitsUpTo(column, v.elements, Len(v.elements)) => Fits(column, v)
  BY DEF Fits, FitsArray, FitsUpTo
<1>. QED  BY <1>1, <1>2, <1>3 DEF ReadsValue, Reads, Walked

(* A column's value is converted and charged, or refused. *)
LEMMA ColumnValueReads ==
  ASSUME NEW s, Sane(s), NEW column, IsColumn(column), NEW v, IsValue(v)
  PROVE  ReadsValue(s, ParseColumnValue(s, column, v), column, v)
<1>1. CASE ParseColumnValue(s, column, v) = Reject(s, "schema")
  BY <1>1, RejectReadsValue
<1>2. CASE IsNull(v) /\ column.nullable
  <2>1. ParseColumnValue(s, column, v) = s
    BY <1>2 DEF ParseColumnValue
  <2>. QED  BY <1>2, <2>1, NullReadsValue
<1>3. CASE ~IsNull(v) /\ column.array /\ v.json = "array"
  <2>1. ParseColumnValue(s, column, v) = ElementsAfter(s, column, v.elements)[Len(v.elements)]
    BY <1>3 DEF ParseColumnValue, ParseArray
  <2>2. IsList(v.elements) /\ \A i \in DOMAIN v.elements : IsScalar(v.elements[i])
    BY <1>3 DEF IsValue
  <2>3. Walked(s, ElementsAfter(s, column, v.elements)[Len(v.elements)], column, v.elements,
               Len(v.elements), SumOf(ElementStrings(column, v.elements)))
    BY <2>2, ElementsRead
  <2>. QED  BY <1>3, <2>1, <2>2, <2>3, ArrayReadsValue
<1>4. CASE ~IsNull(v) /\ ~column.array
  <2>1. ParseColumnValue(s, column, v) = ParseScalarElement(s, column, v)
    BY <1>4 DEF ParseColumnValue
  <2>2. IsScalar(v)
    BY DEF IsValue
  <2>3. Reads(s, ParseScalarElement(s, column, v), FitsScalar(column, v),
              ScalarStringBytes(column, v), 0)
    BY <1>4, <2>2, ScalarReads
  <2>. QED  BY <1>4, <2>1, <2>3, ScalarReadsValue
<1>5. \/ ParseColumnValue(s, column, v) = Reject(s, "schema")
      \/ IsNull(v) /\ column.nullable
      \/ ~IsNull(v) /\ column.array /\ v.json = "array"
      \/ ~IsNull(v) /\ ~column.array
  BY DEF ParseColumnValue, ParseArray, IsColumn
<1>. QED  BY <1>1, <1>2, <1>3, <1>4, <1>5

(* What a record has at a column's path, in a REST response. *)
LEMMA SelectedReads ==
  ASSUME NEW s, Sane(s), NEW column, IsColumn(column), NEW found, IsFound(found)
  PROVE  ReadsValue(s, ParseSelectedObject(s, column, found), column, found.values[1])
<1>1. CASE found.parent = "object" /\ Len(found.values) = 1
  <2>1. IsValue(found.values[1])
    BY <1>1 DEF IsFound, IsList
  <2>2. ParseSelectedObject(s, column, found) = ParseColumnValue(s, column, found.values[1])
    BY <1>1 DEF ParseSelectedObject
  <2>. QED  BY <2>1, <2>2, ColumnValueReads
<1>2. CASE ~(found.parent = "object" /\ Len(found.values) = 1)
  <2>1. ParseSelectedObject(s, column, found) = Reject(s, "schema")
    BY <1>2 DEF ParseSelectedObject
  <2>. QED  BY <2>1, RejectReadsValue
<1>. QED  BY <1>1, <1>2

(* And in a GraphQL response. *)
LEMMA NodeColumnReads ==
  ASSUME NEW s, Sane(s), NEW column, IsColumn(column), NEW found, IsFound(found)
  PROVE  ReadsValue(s, ParseColumn(s, column, found), column, NodeValue(column, found))
<1>1. PICK t, v : t = ParseColumn(s, column, found) /\ v = NodeValue(column, found)
  OBVIOUS
<1>2. CASE t = Reject(s, "schema")
  BY <1>1, <1>2, RejectReadsValue
<1>3. CASE t = s /\ IsNull(v) /\ column.nullable
  BY <1>1, <1>3, NullReadsValue
<1>4. CASE found.parent = "object" /\ Len(found.values) = 1 /\ ~IsNull(found.values[1])
  <2>1. v = found.values[1] /\ ~IsNull(v)
    BY <1>1, <1>4 DEF NodeValue
  <2>2. IsValue(v)
    BY <1>4, <2>1 DEF IsFound, IsList
  <2>3. t = IF column.array THEN GraphqlArray(s, column, v) ELSE GraphqlScalarElement(s, column, v)
    BY <1>1, <1>4, <2>1 DEF ParseColumn
  <2>4. CASE column.array /\ v.json = "array"
    <3>1. t = GraphqlElements(s, column, v.elements)[Len(v.elements)]
      BY <2>3, <2>4 DEF GraphqlArray
    <3>2. IsList(v.elements) /\ \A i \in DOMAIN v.elements : IsScalar(v.elements[i])
      BY <2>2, <2>4 DEF IsValue
    <3>3. Walked(s, GraphqlElements(s, column, v.elements)[Len(v.elements)], column, v.elements,
                 Len(v.elements), SumOf(ElementStrings(column, v.elements)))
      BY <3>2, ElementsRead
    <3>. QED  BY <1>1, <2>1, <2>4, <3>1, <3>2, <3>3, ArrayReadsValue
  <2>5. CASE column.array /\ v.json # "array"
    <3>1. t = Reject(s, "schema")
      BY <2>3, <2>5 DEF GraphqlArray
    <3>. QED  BY <1>2, <3>1
  <2>6. CASE ~column.array
    <3>1. IsScalar(v)
      BY <2>2 DEF IsValue
    <3>2. Reads(s, GraphqlScalarElement(s, column, v), FitsScalar(column, v),
                ScalarStringBytes(column, v), 0)
      BY <2>1, <3>1, GraphqlScalarReads
    <3>. QED  BY <1>1, <2>1, <2>3, <2>6, <3>2, ScalarReadsValue
  <2>. QED  BY <2>4, <2>5, <2>6 DEF IsColumn
<1>5. \/ t = Reject(s, "schema")
      \/ t = s /\ IsNull(v) /\ column.nullable
      \/ found.parent = "object" /\ Len(found.values) = 1 /\ ~IsNull(found.values[1])
  <2>1. CASE found.parent = "null"
    <3>1. v = [json |-> "null"]
      BY <1>1, <2>1 DEF NodeValue
    <3>2. IsNull(v)
      BY <3>1 DEF IsNull
    <3>3. t = IF column.nullable THEN s ELSE Reject(s, "schema")
      BY <1>1, <2>1 DEF ParseColumn
    <3>. QED  BY <3>2, <3>3
  <2>2. CASE found.parent = "object"
    <3>1. v = found.values[1]
      BY <1>1, <2>2 DEF NodeValue
    <3>. QED  BY <1>1, <2>2, <3>1 DEF ParseColumn
  <2>3. CASE found.parent # "null" /\ found.parent # "object"
    BY <1>1, <2>3 DEF ParseColumn
  <2>. QED  BY <2>1, <2>2, <2>3
<1>. QED  BY <1>2, <1>3, <1>4, <1>5

-----------------------------------------------------------------------------
(* Rows *)

\* What a typed scalar owns.
StringOwned(value) ==
  IF value.valid /\ value.kind = "VARCHAR" THEN Doubled(Sizes.inline, value.bytes) ELSE 0

(* A typed scalar: no elements, its kind, and valid unless it is null. *)
LEMMA TypedScalar ==
  ASSUME NEW kind, NEW v, NEW t, t = TypedScalarValue(kind, v)
  PROVE  /\ "elements" \notin DOMAIN t
         /\ t.kind = kind
         /\ IsNull(v) => t.valid = FALSE
         /\ ~IsNull(v) => t.valid = TRUE
         /\ ~IsNull(v) => t.value = Content(v)
         /\ ~IsNull(v) /\ kind = "VARCHAR" => t.bytes = v.bytes
<1>1. CASE IsNull(v)
  <2>1. t = [kind |-> kind, valid |-> FALSE]
    BY <1>1 DEF TypedScalarValue
  <2>2. "elements" \notin DOMAIN t /\ t.kind = kind /\ t.valid = FALSE
    BY <2>1
  <2>. QED  BY <1>1, <2>2
<1>2. CASE ~IsNull(v) /\ kind = "VARCHAR"
  <2>1. t = [kind |-> kind, valid |-> TRUE, value |-> Content(v), bytes |-> v.bytes]
    BY <1>2 DEF TypedScalarValue
  <2>2. /\ "elements" \notin DOMAIN t /\ t.kind = kind /\ t.valid = TRUE
        /\ t.value = Content(v) /\ t.bytes = v.bytes
    BY <2>1
  <2>. QED  BY <1>2, <2>2
<1>3. CASE ~IsNull(v) /\ kind # "VARCHAR"
  <2>1. t = [kind |-> kind, valid |-> TRUE, value |-> Content(v)]
    BY <1>3 DEF TypedScalarValue
  <2>2. /\ "elements" \notin DOMAIN t /\ t.kind = kind /\ t.valid = TRUE
        /\ t.value = Content(v)
    BY <2>1
  <2>. QED  BY <1>3, <2>2
<1>. QED  BY <1>1, <1>2, <1>3

(* A typed scalar owns what was charged for its string. *)
LEMMA ScalarOwns ==
  ASSUME NEW column, NEW v, FitsElement(column, v) \/ FitsScalar(column, v)
  PROVE  StringOwned(TypedScalarValue(column.kind, v)) = ScalarStringBytes(column, v)
<1>1. PICK t : t = TypedScalarValue(column.kind, v)
  OBVIOUS
<1>2. /\ t.kind = column.kind
      /\ IsNull(v) => t.valid = FALSE
      /\ ~IsNull(v) => t.valid = TRUE
      /\ ~IsNull(v) /\ column.kind = "VARCHAR" => t.bytes = v.bytes
  BY <1>1, TypedScalar
<1>3. CASE column.kind = "VARCHAR" /\ ~IsNull(v)
  <2>1. v.bytes \in Nat
    BY <1>3 DEF FitsElement, FitsScalar
  <2>2. StringOwned(t) = Doubled(Sizes.inline, v.bytes)
    BY <1>2, <1>3 DEF StringOwned
  <2>3. ScalarStringBytes(column, v) = StringCapacity[v.bytes]
    BY <1>3 DEF ScalarStringBytes
  <2>. QED  BY <1>1, <2>1, <2>2, <2>3, StringCapacityIs
<1>4. CASE ~(column.kind = "VARCHAR" /\ ~IsNull(v))
  <2>1. StringOwned(t) = 0
    BY <1>2, <1>4 DEF StringOwned
  <2>2. ScalarStringBytes(column, v) = 0
    BY <1>4 DEF ScalarStringBytes
  <2>. QED  BY <1>1, <2>1, <2>2
<1>. QED  BY <1>3, <1>4

(* A value owns the bytes it was charged. *)
LEMMA ValueOwns ==
  ASSUME NEW column, IsColumn(column), NEW v, Fits(column, v)
  PROVE  /\ ValueStringBytes(column, v) \in Nat /\ ValueElementBytes(column, v) \in Nat
         /\ OwnedBytes(TypedValue(column, v))
              = ValueStringBytes(column, v) + ValueElementBytes(column, v)
<1>1. PICK t : t = TypedValue(column, v)
  OBVIOUS
<1>2. CASE IsNull(v) \/ ~column.array
  <2>1. t = TypedScalarValue(column.kind, v)
    BY <1>1, <1>2 DEF TypedValue
  <2>2. "elements" \notin DOMAIN t
    BY <2>1, TypedScalar
  <2>3. OwnedBytes(t) = StringOwned(t)
    BY <2>2 DEF OwnedBytes, StringOwned
  <2>4. /\ ValueStringBytes(column, v) = ScalarStringBytes(column, v)
        /\ ValueElementBytes(column, v) = 0
    BY <1>2 DEF ValueStringBytes, ValueElementBytes, ScalarStringBytes
  <2>5. CASE IsNull(v)
    <3>1. StringOwned(t) = 0
      <4>1. t.valid = FALSE
        BY <2>1, <2>5, TypedScalar
      <4>. QED  BY <4>1 DEF StringOwned
    <3>2. ScalarStringBytes(column, v) = 0
      BY <2>5, ScalarBytes
    <3>. QED  BY <1>1, <2>3, <2>4, <3>1, <3>2
  <2>6. CASE ~IsNull(v)
    <3>1. FitsScalar(column, v)
      BY <1>2, <2>6 DEF Fits
    <3>2. ScalarStringBytes(column, v) \in Nat
      BY <3>1, ScalarBytes
    <3>3. StringOwned(t) = ScalarStringBytes(column, v)
      BY <2>1, <3>1, ScalarOwns
    <3>. QED  BY <1>1, <2>3, <2>4, <3>2, <3>3
  <2>. QED  BY <2>5, <2>6
<1>3. CASE ~IsNull(v) /\ column.array
  <2>1. PICK e, n, q : e = v.elements /\ n = Len(e) /\ q = ElementStrings(column, e)
    OBVIOUS
  <2>2. n \in Nat /\ DOMAIN e = 1..n /\ \A i \in 1..n : FitsElement(column, e[i])
    BY <1>3, <2>1 DEF Fits, FitsArray, IsList
  <2>3. Len(q) = n /\ \A i \in 1..n : q[i] = ScalarStringBytes(column, e[i]) /\ q[i] \in Nat
    <3>1. Len(q) = n /\ \A i \in 1..n : q[i] = ScalarStringBytes(column, e[i])
      BY <2>1, <2>2 DEF ElementStrings
    <3>. QED  BY <2>2, <3>1, ScalarBytes
  <2>4. SumOf(q) \in Nat
    <3>1. n \in 0..Len(q)
      BY <2>2, <2>3
    <3>2. Sums(q)[n] \in Nat
      BY <2>2, <2>3, <3>1, SumsNat
    <3>. QED  BY <2>3, <3>2 DEF SumOf
  <2>5. /\ ValueStringBytes(column, v) = SumOf(q)
        /\ ValueElementBytes(column, v) = VectorBytes(n)
    BY <1>3, <2>1 DEF ValueStringBytes, ValueElementBytes, VectorBytes, ElementStrings
  <2>6. VectorBytes(n) \in Nat
    BY <2>2, VectorBytesNat
  <2>7. PICK d : d = t.elements
    OBVIOUS
  <2>8. "elements" \in DOMAIN t /\ d = [i \in 1..n |-> TypedScalarValue(column.kind, e[i])]
    <3>1. /\ "elements" \in DOMAIN t
          /\ t.elements = [i \in DOMAIN v.elements |-> TypedScalarValue(column.kind, v.elements[i])]
      <4>1. t = [kind |-> column.kind, valid |-> TRUE,
                 elements |-> [i \in DOMAIN v.elements |->
                                 TypedScalarValue(column.kind, v.elements[i])]]
        BY <1>1, <1>3 DEF TypedValue
      <4>. QED  BY <4>1
    <3>. QED  BY <2>1, <2>2, <2>7, <3>1
  <2>9. Len(d) = n
    BY <2>2, <2>8
  <2>10. \A i \in 1..n : StringOwned(d[i]) = q[i]
    BY <2>2, <2>3, <2>8, ScalarOwns
  <2>11. [i \in 1..n |-> StringOwned(d[i])] = q
    <3>1. q = [i \in 1..n |-> ScalarStringBytes(column, e[i])]
      BY <2>1 DEF ElementStrings
    <3>. QED  BY <2>3, <2>10, <3>1
  <2>12. OwnedBytes(t) = (IF n = 0 THEN 0 ELSE Sizes.scalar * Doubled(1, n))
                           + SumOf([i \in 1..n |-> StringOwned(d[i])])
    BY <2>7, <2>8, <2>9 DEF OwnedBytes, StringOwned
  <2>13. (IF n = 0 THEN 0 ELSE Sizes.scalar * Doubled(1, n)) = VectorBytes(n)
    BY <2>2, ElementCapacityIs, VectorBytesNat DEF VectorBytes
  <2>14. OwnedBytes(t) = VectorBytes(n) + SumOf(q)
    BY <2>11, <2>12, <2>13
  <2>. QED  BY <1>1, <2>4, <2>5, <2>6, <2>14
<1>. QED  BY <1>2, <1>3 DEF IsColumn

\* The values of a record fit its columns.
FitsColumns(values, k) == \A i \in 1..k : Fits(Columns[i], values[i])

RowStrings(values) == [i \in 1..Len(Columns) |-> ValueStringBytes(Columns[i], values[i])]
RowArrays(values) == [i \in 1..Len(Columns) |-> ValueElementBytes(Columns[i], values[i])]

(* A row owns the bytes of its strings and arrays, besides its values. *)
LEMMA RowOwns ==
  ASSUME NEW values, FitsColumns(values, Len(Columns))
  PROVE  /\ SumOf(RowStrings(values)) \in Nat /\ SumOf(RowArrays(values)) \in Nat
         /\ RowBytes(TypedRow(values)) =
              Len(Columns) * Sizes.value + (SumOf(RowStrings(values)) + SumOf(RowArrays(values)))
<1>1. PICK n, q, r, row, t :
        /\ n = Len(Columns) /\ q = RowStrings(values) /\ r = RowArrays(values)
        /\ row = TypedRow(values)
        /\ t = [i \in 1..n |-> OwnedBytes(row[i])]
  OBVIOUS
<1>2. n \in Nat /\ \A i \in 1..n : IsColumn(Columns[i])
  BY <1>1, ColumnsAre
<1>3. /\ Len(q) = n /\ \A i \in 1..n : q[i] = ValueStringBytes(Columns[i], values[i])
      /\ Len(r) = n /\ \A i \in 1..n : r[i] = ValueElementBytes(Columns[i], values[i])
  BY <1>1, <1>2 DEF RowStrings, RowArrays
<1>4. /\ Len(row) = n /\ \A i \in 1..n : row[i] = TypedValue(Columns[i], values[i])
      /\ Len(t) = n /\ \A i \in 1..n : t[i] = OwnedBytes(row[i])
  BY <1>1, <1>2 DEF TypedRow
<1>5. \A i \in 1..n : q[i] \in Nat /\ r[i] \in Nat /\ t[i] = q[i] + r[i]
  <2>1. \A i \in 1..n : Fits(Columns[i], values[i])
    BY <1>1 DEF FitsColumns
  <2>2. ASSUME NEW i \in 1..n
        PROVE  q[i] \in Nat /\ r[i] \in Nat /\ t[i] = q[i] + r[i]
    <3>1. /\ ValueStringBytes(Columns[i], values[i]) \in Nat
          /\ ValueElementBytes(Columns[i], values[i]) \in Nat
          /\ OwnedBytes(TypedValue(Columns[i], values[i]))
               = ValueStringBytes(Columns[i], values[i]) + ValueElementBytes(Columns[i], values[i])
      BY <1>2, <2>1, ValueOwns
    <3>. QED  BY <1>3, <1>4, <3>1
  <2>. QED  BY <2>2
<1>6. SumOf(t) = SumOf(q) + SumOf(r)
  BY <1>2, <1>3, <1>4, <1>5, SumsAdd
<1>7. SumOf(q) \in Nat /\ SumOf(r) \in Nat
  <2>1. n \in 0..Len(q) /\ n \in 0..Len(r)
    BY <1>2, <1>3
  <2>2. Sums(q)[n] \in Nat
    BY <1>2, <1>3, <1>5, <2>1, SumsNat
  <2>3. Sums(r)[n] \in Nat
    BY <1>2, <1>3, <1>5, <2>1, SumsNat
  <2>. QED  BY <1>3, <2>2, <2>3 DEF SumOf
<1>8. RowBytes(row) = n * Sizes.value + SumOf(t)
  BY <1>1, <1>4 DEF RowBytes
<1>. QED  BY <1>1, <1>6, <1>7, <1>8

\* A value has the shape of its column.
Shaped(column, value) ==
  /\ value.kind = column.kind
  /\ value.valid \/ column.nullable
  /\ value.valid => (("elements" \in DOMAIN value) <=> column.array)
  /\ value.valid /\ column.array =>
       \A e \in DOMAIN value.elements : value.elements[e].valid \/ column.element_nullable

(* What fits is converted to a value of the column's shape. *)
LEMMA ValueShaped ==
  ASSUME NEW column, IsColumn(column), NEW v, Fits(column, v)
  PROVE  Shaped(column, TypedValue(column, v))
<1>1. PICK t : t = TypedValue(column, v)
  OBVIOUS
<1>2. CASE IsNull(v)
  <2>1. t = TypedScalarValue(column.kind, v)
    BY <1>1, <1>2 DEF TypedValue
  <2>2. t.kind = column.kind /\ t.valid = FALSE
    BY <1>2, <2>1, TypedScalar
  <2>3. column.nullable
    BY <1>2 DEF Fits
  <2>. QED  BY <1>1, <2>2, <2>3 DEF Shaped
<1>3. CASE ~IsNull(v) /\ ~column.array
  <2>1. t = TypedScalarValue(column.kind, v)
    BY <1>1, <1>3 DEF TypedValue
  <2>2. t.kind = column.kind /\ t.valid = TRUE /\ "elements" \notin DOMAIN t
    BY <1>3, <2>1, TypedScalar
  <2>. QED  BY <1>1, <1>3, <2>2 DEF Shaped
<1>4. CASE ~IsNull(v) /\ column.array
  <2>1. t = [kind |-> column.kind, valid |-> TRUE,
             elements |-> [i \in DOMAIN v.elements |-> TypedScalarValue(column.kind, v.elements[i])]]
    BY <1>1, <1>4 DEF TypedValue
  <2>2. /\ "elements" \in DOMAIN t /\ t.kind = column.kind /\ t.valid = TRUE
        /\ t.elements = [i \in DOMAIN v.elements |-> TypedScalarValue(column.kind, v.elements[i])]
    BY <2>1
  <2>3. DOMAIN v.elements = 1..Len(v.elements)
        /\ \A i \in 1..Len(v.elements) : FitsElement(column, v.elements[i])
    BY <1>4 DEF Fits, FitsArray, IsList
  <2>4. ASSUME NEW e \in DOMAIN t.elements
        PROVE  t.elements[e].valid \/ column.element_nullable
    <3>1. e \in DOMAIN v.elements /\ t.elements[e] = TypedScalarValue(column.kind, v.elements[e])
      BY <2>2, <2>4
    <3>2. FitsElement(column, v.elements[e])
      BY <2>3, <3>1
    <3>3. CASE IsNull(v.elements[e])
      BY <3>2, <3>3 DEF FitsElement
    <3>4. CASE ~IsNull(v.elements[e])
      <4>1. PICK x, w : x = t.elements[e] /\ w = v.elements[e]
        OBVIOUS
      <4>2. x = TypedScalarValue(column.kind, w) /\ ~IsNull(w)
        BY <3>1, <3>4, <4>1
      <4>3. x.valid = TRUE
        BY <4>2, TypedScalar
      <4>. QED  BY <4>1, <4>3
    <3>. QED  BY <3>3, <3>4
  <2>. QED  BY <1>1, <1>4, <2>2, <2>4 DEF Shaped
<1>. QED  BY <1>2, <1>3, <1>4 DEF IsColumn

(* A row of values that fit has the declared shape. *)
LEMMA RowShaped ==
  ASSUME NEW values, FitsColumns(values, Len(Columns))
  PROVE  \A c \in DOMAIN Columns : Shaped(Columns[c], TypedRow(values)[c])
<1>1. ASSUME NEW c \in DOMAIN Columns
      PROVE  Shaped(Columns[c], TypedRow(values)[c])
  <2>1. c \in 1..Len(Columns) /\ IsColumn(Columns[c])
    BY ColumnsAre
  <2>2. Fits(Columns[c], values[c])
    BY <2>1 DEF FitsColumns
  <2>3. TypedRow(values)[c] = TypedValue(Columns[c], values[c])
    BY <2>1 DEF TypedRow
  <2>. QED  BY <2>1, <2>2, <2>3, ValueShaped
<1>. QED  BY <1>1

(* The first column carries the position. *)
LEMMA RowPosition ==
  ASSUME NEW values, FitsColumns(values, Len(Columns))
  PROVE  /\ Position(TypedRow(values)) = values[1].n
         /\ ~IsNull(values[1])
<1>1. 1 \in 1..Len(Columns)
  BY ColumnsAre
<1>2. Fits(Columns[1], values[1])
  BY <1>1 DEF FitsColumns
<1>3. PICK column, v : column = Columns[1] /\ v = values[1]
  OBVIOUS
<1>4. column.kind = "BIGINT" /\ ~column.array /\ ~column.nullable
  BY <1>3, CollectionAssumption
<1>5. ~IsNull(v) /\ v.json = "number"
  BY <1>2, <1>3, <1>4 DEF Fits, FitsScalar
<1>6. TypedRow(values)[1] = TypedScalarValue(column.kind, v)
  BY <1>1, <1>3, <1>4 DEF TypedRow, TypedValue
<1>7. TypedRow(values)[1].value = Content(v)
  <2>1. PICK t : t = TypedRow(values)[1]
    OBVIOUS
  <2>2. t = TypedScalarValue(column.kind, v)
    BY <1>6, <2>1
  <2>3. t.value = Content(v)
    BY <1>5, <2>2, TypedScalar
  <2>. QED  BY <2>1, <2>3
<1>8. Content(v) = v.n
  BY <1>5 DEF Content
<1>. QED  BY <1>3, <1>5, <1>7, <1>8 DEF Position

-----------------------------------------------------------------------------
(* Records *)

\* The first k columns of a record have been read since s.
Staged(s, t, values, k, x, y) ==
  /\ Charged(s, t, x, y, Len(Columns) * Sizes.slot)
  /\ t.error = "none" => x \in Nat /\ y \in Nat /\ FitsColumns(values, k)

SlotBytes == Len(Columns) * Sizes.slot
ValueBytes == Len(Columns) * Sizes.value

(* The bytes of the slots and the values of a record are numbers. *)
LEMMA SlotsNat == SlotBytes \in Nat /\ ValueBytes \in Nat
<1>1. PICK n, a, b : n = Len(Columns) /\ a = Sizes.slot /\ b = Sizes.value
  OBVIOUS
<1>2. n \in Nat /\ a \in Nat /\ b \in Nat
  BY <1>1, ColumnsAre, SizesNat
<1>3. n * a \in Nat /\ n * b \in Nat
  BY <1>2
<1>. QED  BY <1>1, <1>3 DEF SlotBytes, ValueBytes

(* Structural memory. *)
LEMMA StructuralCharges ==
  ASSUME NEW s, Sane(s), NEW b \in Nat
  PROVE  Charged(s, ReserveStructuralMemory(s, b), 0, 0, b)
<1>1. s.error = "none" => 0 <= s.structural
  BY DEF Sane, Parse
<1>2. Charged(s, ReserveCoLive(s, "structural", 0, b),
              IF "structural" = "strings" THEN b - 0 ELSE 0,
              IF "structural" = "arrays" THEN b - 0 ELSE 0,
              IF "structural" = "structural" THEN b - 0 ELSE 0)
  BY <1>1, ReserveCharges
<1>3. b - 0 = b
  OBVIOUS
<1>. QED  BY <1>2, <1>3 DEF ReserveStructuralMemory

(* A walk over the columns of a record charges its strings and arrays. *)
LEMMA ColumnsCharge ==
  ASSUME NEW s, Sane(s), NEW values, NEW f, f[0] = StageRecord(s),
         \A i \in 1..Len(Columns) :
           Sane(f[i - 1]) => ReadsValue(f[i - 1], f[i], Columns[i], values[i])
  PROVE  Staged(s, f[Len(Columns)], values, Len(Columns),
                SumOf(RowStrings(values)), SumOf(RowArrays(values)))
<1>1. PICK n, q, r, sum, tot : /\ n = Len(Columns) /\ q = RowStrings(values) /\ sum = Sums(q)
                               /\ r = RowArrays(values) /\ tot = Sums(r)
  OBVIOUS
<1>2. /\ n \in Nat /\ Len(q) = n /\ Len(r) = n
      /\ \A i \in 1..n : q[i] = ValueStringBytes(Columns[i], values[i])
      /\ \A i \in 1..n : r[i] = ValueElementBytes(Columns[i], values[i])
  BY <1>1, ColumnsAre DEF RowStrings, RowArrays
<1>3. sum[0] = 0 /\ \A i \in 1..n : sum[i] = sum[i - 1] + q[i]
  BY <1>1, <1>2, SumsStep
<1>4. tot[0] = 0 /\ \A i \in 1..n : tot[i] = tot[i - 1] + r[i]
  BY <1>1, <1>2, SumsStep
<1>5. PICK S : S = {k \in Nat : k <= n => Staged(s, f[k], values, k, sum[k], tot[k])}
  OBVIOUS
<1>6. 0 \in S
  <2>1. FitsColumns(values, 0)
    BY DEF FitsColumns
  <2>2. Charged(s, f[0], 0, 0, SlotBytes)
    BY SlotsNat, StructuralCharges DEF StageRecord, SlotBytes
  <2>3. Staged(s, f[0], values, 0, sum[0], tot[0])
    BY <1>3, <1>4, <2>1, <2>2 DEF Staged, SlotBytes
  <2>. QED  BY <1>5, <2>3
<1>7. ASSUME NEW k \in Nat, k \in S
      PROVE  k + 1 \in S
  <2>1. ASSUME k + 1 <= n
        PROVE  Staged(s, f[k + 1], values, k + 1, sum[k + 1], tot[k + 1])
    <3>1. k + 1 \in 1..n /\ (k + 1) - 1 = k /\ k <= n
      BY <1>2, <2>1
    <3>2. Staged(s, f[k], values, k, sum[k], tot[k])
      BY <1>5, <1>7, <3>1
    <3>3. PICK t, w, x, y : /\ t = f[k] /\ w = f[k + 1]
                            /\ x = ValueStringBytes(Columns[k + 1], values[k + 1])
                            /\ y = ValueElementBytes(Columns[k + 1], values[k + 1])
      OBVIOUS
    <3>4. Sane(t) /\ t.limit = s.limit /\ Charged(s, t, sum[k], tot[k], SlotBytes)
      BY <3>2, <3>3 DEF Staged, Charged, SlotBytes
    <3>5. ReadsValue(t, w, Columns[k + 1], values[k + 1])
      BY <1>1, <3>1, <3>3, <3>4
    <3>6. Charged(t, w, x, y, 0)
      BY <3>3, <3>5 DEF ReadsValue, Reads
    <3>7. w.error = "none" => Fits(Columns[k + 1], values[k + 1])
      BY <3>5 DEF ReadsValue, Reads
    <3>8. Sane(w) /\ w.limit = s.limit /\ (w.error = "none" => t.error = "none")
      BY <3>4, <3>6 DEF Charged
    <3>9. CASE w.error # "none"
      BY <3>3, <3>8, <3>9 DEF Staged, Charged
    <3>10. CASE w.error = "none"
      <4>1. sum[k] \in Nat /\ tot[k] \in Nat /\ FitsColumns(values, k)
        BY <3>2, <3>3, <3>8, <3>10 DEF Staged
      <4>2. IsColumn(Columns[k + 1])
        BY <1>1, <3>1, ColumnsAre
      <4>3. Fits(Columns[k + 1], values[k + 1])
        BY <3>7, <3>10
      <4>4. x \in Nat /\ y \in Nat
        BY <3>3, <4>2, <4>3, ValueOwns
      <4>5. SlotBytes \in Nat
        BY SlotsNat
      <4>6. Charged(s, w, sum[k] + x, tot[k] + y, SlotBytes + 0)
        BY <3>4, <3>6, <4>1, <4>4, <4>5, ChargesAdd
      <4>7. SlotBytes + 0 = SlotBytes /\ sum[k + 1] = sum[k] + x /\ tot[k + 1] = tot[k] + y
        BY <1>2, <1>3, <1>4, <3>1, <3>3, <4>5
      <4>8. Charged(s, w, sum[k + 1], tot[k + 1], SlotBytes)
        BY <4>6, <4>7
      <4>9. sum[k + 1] \in Nat /\ tot[k + 1] \in Nat
        BY <4>1, <4>4, <4>7
      <4>10. \A i \in 1..(k + 1) : i = k + 1 \/ i \in 1..k
        OBVIOUS
      <4>11. FitsColumns(values, k + 1)
        BY <4>1, <4>3, <4>10 DEF FitsColumns
      <4>. QED  BY <3>3, <4>8, <4>9, <4>11 DEF Staged, SlotBytes
    <3>. QED  BY <3>9, <3>10
  <2>. QED  BY <1>5, <2>1
<1>8. \A k \in Nat : k \in S
  BY <1>6, <1>7, SetInduction
<1>9. Staged(s, f[n], values, n, sum[n], tot[n])
  BY <1>2, <1>5, <1>8
<1>. QED  BY <1>1, <1>2, <1>9 DEF SumOf

(* A finished row moves from pending to decoded. *)
LEMMA CommitCharges ==
  ASSUME NEW r, Sane(r), r.error = "none", NEW values, FitsColumns(values, Len(Columns)),
         r.strings = SumOf(RowStrings(values)), r.arrays = SumOf(RowArrays(values)),
         r.structural = SlotBytes + ValueBytes, r.continuation = 0,
         NEW t, t = CommitRow(r, values)
  PROVE  /\ Sane(t) /\ t.limit = r.limit
         /\ t.error = "none" =>
              /\ t.strings = 0 /\ t.arrays = 0 /\ t.structural = 0 /\ t.continuation = 0
              /\ t.decoded = r.decoded + RowBytes(TypedRow(values))
<1>1. PICK x, y, b, v : /\ x = SumOf(RowStrings(values)) /\ y = SumOf(RowArrays(values))
                        /\ b = SlotBytes /\ v = ValueBytes
  OBVIOUS
<1>2. x \in Nat /\ y \in Nat /\ b \in Nat /\ v \in Nat
  BY <1>1, RowOwns, SlotsNat
<1>3. Len(Columns) * (Sizes.value + Sizes.slot) = b + v
  <2>1. PICK n, p, q : n = Len(Columns) /\ p = Sizes.value /\ q = Sizes.slot
    OBVIOUS
  <2>2. n \in Nat /\ p \in Nat /\ q \in Nat
    BY <2>1, ColumnsAre, SizesNat
  <2>3. n * (p + q) = n * q + n * p
    BY <2>2
  <2>. QED  BY <1>1, <2>1, <2>3 DEF SlotBytes, ValueBytes
<1>4. RowBytes(TypedRow(values)) = v + (x + y)
  BY <1>1, RowOwns DEF ValueBytes
<1>5. CASE t = Reject(r, "decoded_memory_bytes")
  <2>1. "decoded_memory_bytes" \in Errors
    BY DEF Errors
  <2>2. Charged(r, Reject(r, "decoded_memory_bytes"), 0, 0, 0)
    BY <2>1, RejectCharges
  <2>3. PICK e : e = "decoded_memory_bytes"
    OBVIOUS
  <2>4. t = [r EXCEPT !.error = e]
    BY <1>5, <2>3 DEF Reject
  <2>5. t.error = e
    BY <2>4 DEF Sane, Parse
  <2>. QED  BY <1>5, <2>2, <2>3, <2>5 DEF Charged
<1>6. CASE t = [r EXCEPT !.decoded = @ + (v + x + y), !.strings = @ - x, !.arrays = @ - y,
                         !.structural = @ - (b + v)]
  <2>1. /\ r.decoded \in Nat /\ r.limit \in Nat /\ r.peak \in Nat /\ r.peak <= r.limit
        /\ r.decoded + x + y + (b + v) + 0 <= r.limit
    BY <1>1 DEF Sane, Parse, Live
  <2>2. PICK d : d = r.decoded + (v + x + y)
    OBVIOUS
  <2>3. t = [r EXCEPT !.decoded = d, !.strings = r.strings - x, !.arrays = r.arrays - y,
                      !.structural = r.structural - (b + v)]
    BY <1>6, <2>2
  <2>4. r.strings - x = 0 /\ r.arrays - y = 0 /\ r.structural - (b + v) = 0
    BY <1>1, <1>2
  <2>5. t = [r EXCEPT !.decoded = d, !.strings = 0, !.arrays = 0, !.structural = 0]
    BY <2>3, <2>4
  <2>6. d \in Nat /\ d <= r.limit
    <3>1. PICK z, l : z = r.decoded /\ l = r.limit
      OBVIOUS
    <3>2. z \in Nat /\ l \in Nat /\ z + x + y + (b + v) + 0 <= l /\ d = z + (v + x + y)
      BY <2>1, <2>2, <3>1
    <3>3. d \in Nat /\ d <= l
      BY <1>2, <3>2
    <3>. QED  BY <3>1, <3>3
  <2>7. t \in Parse
    BY <2>5, <2>6 DEF Sane, Parse
  <2>8. /\ t.decoded = d /\ t.strings = 0 /\ t.arrays = 0 /\ t.structural = 0
        /\ t.continuation = 0 /\ t.limit = r.limit /\ t.peak = r.peak
    BY <2>5 DEF Sane, Parse
  <2>9. Live(t) <= t.limit
    BY <2>6, <2>8 DEF Live
  <2>10. d = r.decoded + RowBytes(TypedRow(values))
    BY <1>2, <1>4, <2>1, <2>2
  <2>. QED  BY <2>1, <2>7, <2>8, <2>9, <2>10 DEF Sane
<1>7. \/ t = Reject(r, "decoded_memory_bytes")
      \/ t = [r EXCEPT !.decoded = @ + (v + x + y), !.strings = @ - x, !.arrays = @ - y,
                       !.structural = @ - (b + v)]
  BY <1>1, <1>3 DEF CommitRow, RowStrings, RowArrays, ValueBytes
<1>. QED  BY <1>5, <1>6, <1>7

RowSizes(rows) == [i \in 1..Len(rows) |-> RowBytes(rows[i])]

\* The rows of these values, read and accounted for so far.
Rows(rows, vals, n, k) ==
  /\ rows \in Seq({TypedRow(vals[j]) : j \in 1..n})
  /\ Len(rows) = k
  /\ \A j \in 1..k : rows[j] = TypedRow(vals[j]) /\ FitsColumns(vals[j], Len(Columns))

Settled(s, rows, max) ==
  /\ s.strings = 0 /\ s.arrays = 0 /\ s.structural = 0 /\ s.continuation = 0
  /\ s.decoded = max * Sizes.row + SumOf(RowSizes(rows))

Counted(acc, limit, max, vals, n, k) ==
  /\ acc = [s |-> acc.s, rows |-> acc.rows]
  /\ Sane(acc.s) /\ acc.s.limit = limit
  /\ acc.s.error = "none" => Rows(acc.rows, vals, n, k) /\ k <= max /\ Settled(acc.s, acc.rows, max)

(* A page that has failed counts as anything. *)
LEMMA FailedCounts ==
  ASSUME NEW s, Sane(s), s.error # "none", NEW rows
  PROVE  \A max, vals, n, k : Counted([s |-> s, rows |-> rows], s.limit, max, vals, n, k)
BY DEF Counted

(* The size of one row more. *)
LEMMA RowSizesExtend ==
  ASSUME NEW T, NEW rows \in Seq(T), NEW row \in T
  PROVE  SumOf(RowSizes(Append(rows, row))) = SumOf(RowSizes(rows)) + RowBytes(row)
<1>1. PICK n, q, r, more : /\ n = Len(rows) /\ more = Append(rows, row)
                           /\ q = RowSizes(rows) /\ r = RowSizes(more)
  OBVIOUS
<1>2. /\ n \in Nat /\ Len(more) = n + 1 /\ more[n + 1] = row
      /\ \A i \in 1..n : more[i] = rows[i]
  BY <1>1
<1>3. /\ Len(q) = n /\ \A i \in 1..n : q[i] = RowBytes(rows[i])
      /\ Len(r) = n + 1 /\ \A i \in 1..(n + 1) : r[i] = RowBytes(more[i])
  BY <1>1, <1>2 DEF RowSizes
<1>4. \A i \in 1..Len(q) : r[i] = q[i]
  BY <1>2, <1>3
<1>5. SumOf(r) = SumOf(q) + r[Len(q) + 1]
  BY <1>2, <1>3, <1>4, SumExtends
<1>6. r[n + 1] = RowBytes(row)
  BY <1>2, <1>3
<1>. QED  BY <1>1, <1>3, <1>5, <1>6

(* The sizes of rows that fit are natural numbers. *)
LEMMA RowSizesNat ==
  ASSUME NEW rows, NEW vals, NEW n, NEW k \in Nat, Rows(rows, vals, n, k)
  PROVE  SumOf(RowSizes(rows)) \in Nat
<1>1. PICK q : q = RowSizes(rows)
  OBVIOUS
<1>2. Len(q) = k /\ \A i \in 1..k : q[i] = RowBytes(rows[i])
  BY <1>1 DEF RowSizes, Rows
<1>3. ASSUME NEW i \in 1..k
      PROVE  q[i] \in Nat
  <2>1. q[i] = RowBytes(TypedRow(vals[i])) /\ FitsColumns(vals[i], Len(Columns))
    BY <1>2 DEF Rows
  <2>2. PICK x, y, v : /\ x = SumOf(RowStrings(vals[i])) /\ y = SumOf(RowArrays(vals[i]))
                       /\ v = ValueBytes
    OBVIOUS
  <2>3. x \in Nat /\ y \in Nat /\ v \in Nat /\ RowBytes(TypedRow(vals[i])) = v + (x + y)
    BY <2>1, <2>2, RowOwns, SlotsNat DEF ValueBytes
  <2>. QED  BY <2>1, <2>3
<1>4. k \in 0..Len(q)
  BY <1>2
<1>5. Sums(q)[k] \in Nat
  BY <1>2, <1>3, <1>4, SumsNat
<1>. QED  BY <1>1, <1>2, <1>5 DEF SumOf

(* A record is finished: a row more, fully accounted for, or the page has failed. *)
LEMMA FinishCounts ==
  ASSUME NEW acc, NEW limit, NEW max \in Nat, NEW vals, NEW n \in Nat, NEW k \in Nat,
         k + 1 <= n, k + 1 <= max, Counted(acc, limit, max, vals, n, k),
         NEW record, NEW parsed,
         acc.s.error = "none" /\ record.json = "object" =>
           Staged(acc.s, parsed, vals[k + 1], Len(Columns), SumOf(RowStrings(vals[k + 1])),
                  SumOf(RowArrays(vals[k + 1])))
  PROVE  Counted(FinishRecord(acc, record, parsed, vals[k + 1]), limit, max, vals, n, k + 1)
<1>1. PICK s, rows, values : s = acc.s /\ rows = acc.rows /\ values = vals[k + 1]
  OBVIOUS
<1>2. acc = [s |-> s, rows |-> rows] /\ Sane(s) /\ s.limit = limit
  BY <1>1 DEF Counted
<1>3. CASE s.error # "none"
  <2>1. FinishRecord(acc, record, parsed, values) = acc
    BY <1>1, <1>3 DEF FinishRecord
  <2>2. Counted([s |-> s, rows |-> rows], s.limit, max, vals, n, k + 1)
    BY <1>2, <1>3, FailedCounts
  <2>. QED  BY <1>1, <1>2, <2>1, <2>2, Zenon
<1>4. CASE s.error = "none" /\ record.json # "object"
  <2>1. PICK t : t = Reject(s, "schema")
    OBVIOUS
  <2>2. [acc EXCEPT !.s = Reject(acc.s, "schema")] = [s |-> t, rows |-> rows]
    BY <1>1, <1>2, <2>1
  <2>3. FinishRecord(acc, record, parsed, values) = [acc EXCEPT !.s = Reject(acc.s, "schema")]
    BY <1>1, <1>4 DEF FinishRecord
  <2>4. \A fits, x, y : Reads(s, Reject(s, "schema"), fits, x, y)
    <3>1. "schema" \in Errors
      BY DEF Errors
    <3>. QED  BY <1>2, <3>1, RejectReads, Zenon
  <2>5. Reads(s, t, FALSE, 0, 0)
    BY <2>1, <2>4
  <2>6. Sane(t) /\ t.limit = limit /\ t.error # "none"
    BY <1>2, <2>5 DEF Reads, Charged
  <2>7. Counted([s |-> t, rows |-> rows], limit, max, vals, n, k + 1)
    BY <2>6, FailedCounts
  <2>. QED  BY <1>1, <2>2, <2>3, <2>7, Zenon
<1>5. CASE s.error = "none" /\ record.json = "object"
  <2>1. Staged(s, parsed, values, Len(Columns), SumOf(RowStrings(values)), SumOf(RowArrays(values)))
    BY <1>1, <1>5
  <2>2. PICK x, y, ready : /\ x = SumOf(RowStrings(values)) /\ y = SumOf(RowArrays(values))
                           /\ ready = ReserveStructuralMemory(parsed, ValueBytes)
    OBVIOUS
  <2>3. Charged(s, parsed, x, y, SlotBytes) /\ Sane(parsed) /\ parsed.limit = limit
    BY <1>2, <2>1, <2>2 DEF Staged, Charged, SlotBytes
  <2>4. Charged(parsed, ready, 0, 0, ValueBytes)
    BY <2>2, <2>3, SlotsNat, StructuralCharges
  <2>5. Sane(ready) /\ ready.limit = limit /\ (ready.error = "none" => parsed.error = "none")
    BY <2>3, <2>4 DEF Charged
  <2>6. CASE ready.error # "none"
    <3>1. [acc EXCEPT !.s = ready] = [s |-> ready, rows |-> rows]
      BY <1>2
    <3>2. FinishRecord(acc, record, parsed, values) = [acc EXCEPT !.s = ready]
      BY <1>1, <1>5, <2>2, <2>6 DEF FinishRecord, ValueBytes
    <3>. QED  BY <1>1, <2>5, <2>6, <3>1, <3>2, FailedCounts
  <2>7. CASE ready.error = "none"
    <3>1. PICK t, row, more : /\ t = CommitRow(ready, values) /\ row = TypedRow(values)
                              /\ more = Append(rows, row)
      OBVIOUS
    <3>2. FinishRecord(acc, record, parsed, values) = [s |-> t, rows |-> more]
      BY <1>1, <1>5, <2>2, <2>7, <3>1 DEF FinishRecord, ValueBytes
    <3>3. x \in Nat /\ y \in Nat /\ FitsColumns(values, Len(Columns))
      BY <2>1, <2>2, <2>5, <2>7 DEF Staged
    <3>4. Rows(rows, vals, n, k) /\ k <= max /\ Settled(s, rows, max)
      BY <1>1, <1>5 DEF Counted
    <3>5. /\ parsed.strings = s.strings + x /\ parsed.arrays = s.arrays + y
          /\ parsed.structural = s.structural + SlotBytes
          /\ parsed.decoded = s.decoded /\ parsed.continuation = s.continuation
      BY <2>3, <2>5, <2>7 DEF Charged
    <3>6. /\ ready.strings = parsed.strings + 0 /\ ready.arrays = parsed.arrays + 0
          /\ ready.structural = parsed.structural + ValueBytes
          /\ ready.decoded = parsed.decoded /\ ready.continuation = parsed.continuation
      BY <2>4, <2>7 DEF Charged
    <3>7. s.strings = 0 /\ s.arrays = 0 /\ s.structural = 0 /\ s.continuation = 0
      BY <3>4 DEF Settled
    <3>8. /\ ready.strings = x /\ ready.arrays = y
          /\ ready.structural = SlotBytes + ValueBytes
          /\ ready.decoded = s.decoded /\ ready.continuation = 0
      BY <3>3, <3>5, <3>6, <3>7, SlotsNat
    <3>9. /\ Sane(t) /\ t.limit = limit
          /\ t.error = "none" =>
               /\ t.strings = 0 /\ t.arrays = 0 /\ t.structural = 0 /\ t.continuation = 0
               /\ t.decoded = ready.decoded + RowBytes(TypedRow(values))
      BY <2>2, <2>5, <2>7, <3>1, <3>3, <3>8, CommitCharges
    <3>10. CASE t.error # "none"
      BY <1>1, <3>2, <3>9, <3>10, FailedCounts
    <3>11. CASE t.error = "none"
      <4>1. PICK T : T = {TypedRow(vals[j]) : j \in 1..n}
        OBVIOUS
      <4>2. rows \in Seq(T) /\ Len(rows) = k
        BY <3>4, <4>1 DEF Rows
      <4>3. row \in T
        BY <1>1, <3>1, <4>1
      <4>4. /\ more \in Seq(T) /\ Len(more) = k + 1 /\ more[k + 1] = row
            /\ \A j \in 1..k : more[j] = rows[j]
        BY <3>1, <4>2, <4>3
      <4>5. \A j \in 1..(k + 1) : j = k + 1 \/ j \in 1..k
        OBVIOUS
      <4>6. Rows(more, vals, n, k + 1)
        BY <1>1, <3>1, <3>3, <3>4, <4>1, <4>4, <4>5 DEF Rows
      <4>7. SumOf(RowSizes(more)) = SumOf(RowSizes(rows)) + RowBytes(row)
        BY <3>1, <4>2, <4>3, RowSizesExtend
      <4>8. PICK base, z, b : base = max * Sizes.row /\ z = SumOf(RowSizes(rows)) /\ b = RowBytes(row)
        OBVIOUS
      <4>9. base \in Nat /\ z \in Nat /\ b \in Nat
        <5>1. z \in Nat
          BY <3>4, <4>8, RowSizesNat
        <5>2. base \in Nat
          <6>1. PICK a : a = Sizes.row
            OBVIOUS
          <6>2. a \in Nat
            BY <6>1, SizesNat
          <6>3. max * a \in Nat
            BY <6>2
          <6>. QED  BY <4>8, <6>1, <6>3
        <5>3. b \in Nat
          <6>1. PICK v : v = ValueBytes
            OBVIOUS
          <6>2. b = v + (x + y) /\ v \in Nat
            BY <2>2, <3>1, <3>3, <4>8, <6>1, RowOwns, SlotsNat DEF ValueBytes
          <6>. QED  BY <3>3, <6>2
        <5>. QED  BY <5>1, <5>2, <5>3
      <4>10. t.decoded = (base + z) + b
        BY <3>1, <3>4, <3>8, <3>9, <3>11, <4>8 DEF Settled
      <4>11. t.decoded = base + (z + b)
        BY <4>9, <4>10
      <4>12. Settled(t, more, max)
        BY <3>9, <3>11, <4>7, <4>8, <4>11 DEF Settled
      <4>. QED  BY <1>1, <3>2, <3>9, <4>6, <4>12 DEF Counted
    <3>. QED  BY <3>10, <3>11
  <2>. QED  BY <2>6, <2>7
<1>. QED  BY <1>3, <1>4, <1>5

\* A record, unless there are enough.
NextAcc(acc, record, parsed, values, max) ==
  IF Len(acc.rows) >= max THEN [acc EXCEPT !.s = Reject(@, "decoded_records")]
  ELSE FinishRecord(acc, record, parsed, values)

(* The next record. *)
LEMMA NextCounts ==
  ASSUME NEW acc, NEW limit, NEW max \in Nat, NEW vals, NEW n \in Nat, NEW k \in Nat,
         k + 1 <= n, Counted(acc, limit, max, vals, n, k),
         NEW record, NEW parsed,
         acc.s.error = "none" /\ record.json = "object" =>
           Staged(acc.s, parsed, vals[k + 1], Len(Columns), SumOf(RowStrings(vals[k + 1])),
                  SumOf(RowArrays(vals[k + 1])))
  PROVE  Counted(NextAcc(acc, record, parsed, vals[k + 1], max), limit, max, vals, n, k + 1)
<1>1. PICK s, rows : s = acc.s /\ rows = acc.rows
  OBVIOUS
<1>2. acc = [s |-> s, rows |-> rows] /\ Sane(s) /\ s.limit = limit
  BY <1>1 DEF Counted
<1>3. CASE Len(rows) >= max
  <2>1. PICK t : t = Reject(s, "decoded_records")
    OBVIOUS
  <2>2. [acc EXCEPT !.s = Reject(acc.s, "decoded_records")] = [s |-> t, rows |-> rows]
    BY <1>1, <1>2, <2>1
  <2>3. NextAcc(acc, record, parsed, vals[k + 1], max)
          = [acc EXCEPT !.s = Reject(acc.s, "decoded_records")]
    BY <1>1, <1>3 DEF NextAcc
  <2>4. \A fits, x, y : Reads(s, Reject(s, "decoded_records"), fits, x, y)
    <3>1. "decoded_records" \in Errors
      BY DEF Errors
    <3>. QED  BY <1>2, <3>1, RejectReads, Zenon
  <2>5. Reads(s, t, FALSE, 0, 0)
    BY <2>1, <2>4
  <2>6. Sane(t) /\ t.limit = limit /\ t.error # "none"
    BY <1>2, <2>5 DEF Reads, Charged
  <2>7. Counted([s |-> t, rows |-> rows], limit, max, vals, n, k + 1)
    BY <2>6, FailedCounts
  <2>. QED  BY <2>2, <2>3, <2>7, Zenon
<1>4. CASE ~(Len(rows) >= max)
  <2>1. NextAcc(acc, record, parsed, vals[k + 1], max)
          = FinishRecord(acc, record, parsed, vals[k + 1])
    BY <1>1, <1>4 DEF NextAcc
  <2>2. CASE s.error # "none"
    <3>1. FinishRecord(acc, record, parsed, vals[k + 1]) = acc
      BY <1>1, <2>2 DEF FinishRecord
    <3>2. Counted([s |-> s, rows |-> rows], s.limit, max, vals, n, k + 1)
      BY <1>2, <2>2, FailedCounts
    <3>. QED  BY <1>2, <2>1, <3>1, <3>2, Zenon
  <2>3. CASE s.error = "none"
    <3>1. Len(rows) = k
      BY <1>1, <2>3 DEF Counted, Rows
    <3>2. k + 1 <= max
      BY <1>4, <3>1
    <3>3. Counted(FinishRecord(acc, record, parsed, vals[k + 1]), limit, max, vals, n, k + 1)
      BY <3>2, FinishCounts
    <3>. QED  BY <2>1, <3>3
  <2>. QED  BY <2>2, <2>3
<1>. QED  BY <1>3, <1>4

(* A walk over the records. *)
LEMMA RecordsCount ==
  ASSUME NEW limit, NEW max \in Nat, NEW vals, NEW n \in Nat, NEW records, NEW f,
         Counted(f[0], limit, max, vals, n, 0),
         \A i \in 1..n : Sane(f[i - 1].s) =>
           \E parsed :
             /\ f[i] = NextAcc(f[i - 1], records[i], parsed, vals[i], max)
             /\ records[i].json = "object" =>
                  Staged(f[i - 1].s, parsed, vals[i], Len(Columns), SumOf(RowStrings(vals[i])),
                         SumOf(RowArrays(vals[i])))
  PROVE  Counted(f[n], limit, max, vals, n, n)
<1>1. PICK S : S = {k \in Nat : k <= n => Counted(f[k], limit, max, vals, n, k)}
  OBVIOUS
<1>2. 0 \in S
  BY <1>1
<1>3. ASSUME NEW k \in Nat, k \in S
      PROVE  k + 1 \in S
  <2>1. ASSUME k + 1 <= n
        PROVE  Counted(f[k + 1], limit, max, vals, n, k + 1)
    <3>1. k + 1 \in 1..n /\ (k + 1) - 1 = k /\ k <= n
      BY <2>1
    <3>2. Counted(f[k], limit, max, vals, n, k)
      BY <1>1, <1>3, <3>1
    <3>3. Sane(f[k].s)
      BY <3>2 DEF Counted
    <3>4. PICK parsed :
            /\ f[k + 1] = NextAcc(f[k], records[k + 1], parsed, vals[k + 1], max)
            /\ records[k + 1].json = "object" =>
                 Staged(f[k].s, parsed, vals[k + 1], Len(Columns), SumOf(RowStrings(vals[k + 1])),
                        SumOf(RowArrays(vals[k + 1])))
      BY <3>1, <3>3
    <3>5. PICK acc, record : acc = f[k] /\ record = records[k + 1]
      OBVIOUS
    <3>6. Counted(NextAcc(acc, record, parsed, vals[k + 1], max), limit, max, vals, n, k + 1)
      BY <2>1, <3>2, <3>4, <3>5, NextCounts
    <3>. QED  BY <3>4, <3>5, <3>6
  <2>. QED  BY <1>1, <2>1
<1>4. \A k \in Nat : k \in S
  BY <1>2, <1>3, SetInduction
<1>. QED  BY <1>1, <1>4

(* The columns of a record are read one after the other. *)
LEMMA ColumnsAfterDef ==
  ASSUME NEW s, NEW record
  PROVE  ColumnsAfter(s, record) =
           [i \in Nat |->
              IF i = 0 THEN StageRecord(s)
              ELSE RecordColumn(ColumnsAfter(s, record)[i - 1], record, i)]
BY SMTT(60) DEF ColumnsAfter

(* Those of a GraphQL node too. *)
LEMMA NodeColumnsDef ==
  ASSUME NEW s, NEW record
  PROVE  NodeColumns(s, record) =
           [i \in Nat |->
              IF i = 0 THEN StageRecord(s)
              ELSE NodeColumn(NodeColumns(s, record)[i - 1], record, i)]
BY SMTT(60) DEF NodeColumns

(* The columns of a record of either response are read and charged. *)
LEMMA RecordStaged ==
  ASSUME NEW s, Sane(s), NEW record, IsRecord(record), record.json = "object"
  PROVE  /\ Staged(s, ColumnsAfter(s, record)[Len(Columns)], RecordValues(record), Len(Columns),
                   SumOf(RowStrings(RecordValues(record))), SumOf(RowArrays(RecordValues(record))))
         /\ Staged(s, NodeColumns(s, record)[Len(Columns)], NodeValues(record), Len(Columns),
                   SumOf(RowStrings(NodeValues(record))), SumOf(RowArrays(NodeValues(record))))
<1>1. PICK n : n = Len(Columns)
  OBVIOUS
<1>2. n \in Nat /\ DOMAIN Columns = 1..n /\ \A i \in 1..n : IsColumn(Columns[i])
  BY <1>1, ColumnsAre
<1>3. \A i \in 1..n : IsFound(record.fields[i])
  BY <1>2 DEF IsRecord
<1>4. Staged(s, ColumnsAfter(s, record)[n], RecordValues(record), n,
             SumOf(RowStrings(RecordValues(record))), SumOf(RowArrays(RecordValues(record))))
  <2>1. PICK f, values : f = ColumnsAfter(s, record) /\ values = RecordValues(record)
    OBVIOUS
  <2>2. f = [i \in Nat |-> IF i = 0 THEN StageRecord(s)
                            ELSE RecordColumn(f[i - 1], record, i)]
    BY <2>1, ColumnsAfterDef
  <2>3. f[0] = StageRecord(s)
    BY <1>2, <2>2
  <2>4. ASSUME NEW i \in 1..n, Sane(f[i - 1])
        PROVE  ReadsValue(f[i - 1], f[i], Columns[i], values[i])
    <3>1. i \in Nat /\ i # 0
      BY <1>2
    <3>2. f[i] = ParseSelectedObject(f[i - 1], Columns[i], record.fields[i])
      BY <2>2, <3>1 DEF RecordColumn, NodeColumn
    <3>3. values[i] = record.fields[i].values[1]
      BY <1>1, <2>1 DEF RecordValues
    <3>. QED  BY <1>2, <1>3, <2>4, <3>2, <3>3, SelectedReads
  <2>5. Staged(s, f[n], values, n, SumOf(RowStrings(values)), SumOf(RowArrays(values)))
    BY <1>1, <2>3, <2>4, ColumnsCharge
  <2>. QED  BY <2>1, <2>5
<1>5. Staged(s, NodeColumns(s, record)[n], NodeValues(record), n,
             SumOf(RowStrings(NodeValues(record))), SumOf(RowArrays(NodeValues(record))))
  <2>1. PICK f, values : f = NodeColumns(s, record) /\ values = NodeValues(record)
    OBVIOUS
  <2>2. f = [i \in Nat |-> IF i = 0 THEN StageRecord(s)
                            ELSE NodeColumn(f[i - 1], record, i)]
    BY <2>1, NodeColumnsDef
  <2>3. f[0] = StageRecord(s)
    BY <1>2, <2>2
  <2>4. ASSUME NEW i \in 1..n, Sane(f[i - 1])
        PROVE  ReadsValue(f[i - 1], f[i], Columns[i], values[i])
    <3>1. i \in Nat /\ i # 0
      BY <1>2
    <3>2. f[i] = ParseColumn(f[i - 1], Columns[i], record.fields[i])
      BY <2>2, <3>1 DEF RecordColumn, NodeColumn
    <3>3. values[i] = NodeValue(Columns[i], record.fields[i])
      BY <1>1, <2>1 DEF NodeValues
    <3>. QED  BY <1>2, <1>3, <2>4, <3>2, <3>3, NodeColumnReads
  <2>5. Staged(s, f[n], values, n, SumOf(RowStrings(values)), SumOf(RowArrays(values)))
    BY <1>1, <2>3, <2>4, ColumnsCharge
  <2>. QED  BY <2>1, <2>5
<1>. QED  BY <1>1, <1>4, <1>5

(* The records of a response are read one after the other. *)
LEMMA ParseRecordsDef ==
  ASSUME NEW s, NEW records, Len(records) \in Nat, NEW max
  PROVE  ParseRecords(s, records, max) =
           [i \in 0..Len(records) |->
              IF i = 0 THEN [s |-> s, rows |-> <<>>]
              ELSE NextRecord(ParseRecords(s, records, max)[i - 1], records[i], max)]
BY SMTT(60) DEF ParseRecords

(* The nodes of a GraphQL response too. *)
LEMMA ParseNodesDef ==
  ASSUME NEW s, NEW records, Len(records) \in Nat, NEW max
  PROVE  ParseNodes(s, records, max) =
           [i \in 0..Len(records) |->
              IF i = 0 THEN [s |-> s, rows |-> <<>>]
              ELSE NextNode(ParseNodes(s, records, max)[i - 1], records[i], max)]
BY SMTT(60) DEF ParseNodes

(* The records of a REST response are all read and accounted for, or it has failed. *)
LEMMA ParseRecordsCount ==
  ASSUME NEW s, NEW limit, NEW max \in Nat, NEW records, IsList(records),
         \A i \in DOMAIN records : IsRecord(records[i]),
         NEW vals, vals = [j \in 1..Len(records) |-> RecordValues(records[j])],
         Counted([s |-> s, rows |-> <<>>], limit, max, vals, Len(records), 0)
  PROVE  Counted(ParseRecords(s, records, max)[Len(records)], limit, max, vals,
                 Len(records), Len(records))
<1>1. PICK n, f : n = Len(records) /\ f = ParseRecords(s, records, max)
  OBVIOUS
<1>2. n \in Nat /\ DOMAIN records = 1..n
  BY <1>1 DEF IsList
<1>3. f = [i \in 0..n |-> IF i = 0 THEN [s |-> s, rows |-> <<>>]
                          ELSE NextRecord(f[i - 1], records[i], max)]
  BY <1>1, <1>2, ParseRecordsDef
<1>4. f[0] = [s |-> s, rows |-> <<>>]
  BY <1>2, <1>3
<1>5. Counted(f[0], limit, max, vals, n, 0)
  BY <1>1, <1>4
<1>6. ASSUME NEW i \in 1..n, Sane(f[i - 1].s)
      PROVE  \E parsed :
               /\ f[i] = NextAcc(f[i - 1], records[i], parsed, vals[i], max)
               /\ records[i].json = "object" =>
                    Staged(f[i - 1].s, parsed, vals[i], Len(Columns), SumOf(RowStrings(vals[i])),
                           SumOf(RowArrays(vals[i])))
  <2>1. i \in 0..n /\ i # 0 /\ i \in DOMAIN records
    BY <1>2
  <2>2. PICK acc, record, parsed : /\ acc = f[i - 1] /\ record = records[i]
                                   /\ parsed = ColumnsAfter(acc.s, record)[Len(Columns)]
    OBVIOUS
  <2>3. f[i] = NextRecord(acc, record, max)
    BY <1>3, <2>1, <2>2
  <2>4. vals[i] = RecordValues(record)
    BY <1>1, <2>2
  <2>5. f[i] = NextAcc(acc, record, parsed, vals[i], max)
    BY <2>2, <2>3, <2>4 DEF NextRecord, NextAcc, ParseRecord
  <2>6. ASSUME record.json = "object"
        PROVE  Staged(acc.s, parsed, vals[i], Len(Columns), SumOf(RowStrings(vals[i])),
                      SumOf(RowArrays(vals[i])))
    <3>1. IsRecord(record) /\ Sane(acc.s)
      BY <1>6, <2>1, <2>2
    <3>2. Staged(acc.s, ColumnsAfter(acc.s, record)[Len(Columns)], RecordValues(record), Len(Columns),
                 SumOf(RowStrings(RecordValues(record))), SumOf(RowArrays(RecordValues(record))))
      BY <2>6, <3>1, RecordStaged
    <3>. QED  BY <2>2, <2>4, <3>2
  <2>. QED  BY <2>2, <2>5, <2>6
<1>7. Counted(f[n], limit, max, vals, n, n)
  BY <1>2, <1>5, <1>6, RecordsCount
<1>. QED  BY <1>1, <1>7

(* And those of a GraphQL response. *)
LEMMA ParseNodesCount ==
  ASSUME NEW s, NEW limit, NEW max \in Nat, NEW records, IsList(records),
         \A i \in DOMAIN records : IsRecord(records[i]),
         NEW vals, vals = [j \in 1..Len(records) |-> NodeValues(records[j])],
         Counted([s |-> s, rows |-> <<>>], limit, max, vals, Len(records), 0)
  PROVE  Counted(ParseNodes(s, records, max)[Len(records)], limit, max, vals,
                 Len(records), Len(records))
<1>1. PICK n, f : n = Len(records) /\ f = ParseNodes(s, records, max)
  OBVIOUS
<1>2. n \in Nat /\ DOMAIN records = 1..n
  BY <1>1 DEF IsList
<1>3. f = [i \in 0..n |-> IF i = 0 THEN [s |-> s, rows |-> <<>>]
                          ELSE NextNode(f[i - 1], records[i], max)]
  BY <1>1, <1>2, ParseNodesDef
<1>4. f[0] = [s |-> s, rows |-> <<>>]
  BY <1>2, <1>3
<1>5. Counted(f[0], limit, max, vals, n, 0)
  BY <1>1, <1>4
<1>6. ASSUME NEW i \in 1..n, Sane(f[i - 1].s)
      PROVE  \E parsed :
               /\ f[i] = NextAcc(f[i - 1], records[i], parsed, vals[i], max)
               /\ records[i].json = "object" =>
                    Staged(f[i - 1].s, parsed, vals[i], Len(Columns), SumOf(RowStrings(vals[i])),
                           SumOf(RowArrays(vals[i])))
  <2>1. i \in 0..n /\ i # 0 /\ i \in DOMAIN records
    BY <1>2
  <2>2. PICK acc, record, parsed : /\ acc = f[i - 1] /\ record = records[i]
                                   /\ parsed = NodeColumns(acc.s, record)[Len(Columns)]
    OBVIOUS
  <2>3. f[i] = NextNode(acc, record, max)
    BY <1>3, <2>1, <2>2
  <2>4. vals[i] = NodeValues(record)
    BY <1>1, <2>2
  <2>5. f[i] = NextAcc(acc, record, parsed, vals[i], max)
    BY <2>2, <2>3, <2>4 DEF NextNode, NextAcc, ParseNode
  <2>6. ASSUME record.json = "object"
        PROVE  Staged(acc.s, parsed, vals[i], Len(Columns), SumOf(RowStrings(vals[i])),
                      SumOf(RowArrays(vals[i])))
    <3>1. IsRecord(record) /\ Sane(acc.s)
      BY <1>6, <2>1, <2>2
    <3>2. Staged(acc.s, NodeColumns(acc.s, record)[Len(Columns)], NodeValues(record), Len(Columns),
                 SumOf(RowStrings(NodeValues(record))), SumOf(RowArrays(NodeValues(record))))
      BY <2>6, <3>1, RecordStaged
    <3>. QED  BY <2>2, <2>4, <3>2
  <2>. QED  BY <2>2, <2>5, <2>6
<1>7. Counted(f[n], limit, max, vals, n, n)
  BY <1>2, <1>5, <1>6, RecordsCount
<1>. QED  BY <1>1, <1>7

-----------------------------------------------------------------------------
(* Documents *)

(* A parse starts with nothing charged. *)
LEMMA FreshSane ==
  ASSUME NEW memory \in Nat
  PROVE  /\ Sane(Fresh(memory)) /\ Fresh(memory).limit = memory /\ Fresh(memory).error = "none"
         /\ Fresh(memory).decoded = 0 /\ Fresh(memory).strings = 0 /\ Fresh(memory).arrays = 0
         /\ Fresh(memory).structural = 0 /\ Fresh(memory).continuation = 0
<1>1. PICK s : s = Fresh(memory)
  OBVIOUS
<1>2. s = [decoded |-> 0, strings |-> 0, arrays |-> 0, structural |-> 0, continuation |-> 0,
           peak |-> 0, limit |-> memory, error |-> "none"]
  BY <1>1 DEF Fresh
<1>3. /\ s.decoded = 0 /\ s.strings = 0 /\ s.arrays = 0 /\ s.structural = 0
      /\ s.continuation = 0 /\ s.peak = 0 /\ s.limit = memory /\ s.error = "none"
  BY <1>2
<1>4. s \in Parse
  BY <1>2 DEF Parse
<1>5. Live(s) = 0
  BY <1>3 DEF Live
<1>. QED  BY <1>1, <1>3, <1>4, <1>5 DEF Sane

(* Room for the rows, before the first of them. *)
LEMMA AllocateCounts ==
  ASSUME NEW memory \in Nat, NEW max \in Nat, NEW s,
         s = ReserveCoLive(Fresh(memory), "decoded", 0, max * Sizes.row)
  PROVE  \A vals, n : Counted([s |-> s, rows |-> <<>>], memory, max, vals, n, 0)
<1>1. PICK z, b : z = Fresh(memory) /\ b = max * Sizes.row
  OBVIOUS
<1>2. b \in Nat
  <2>1. PICK a : a = Sizes.row
    OBVIOUS
  <2>2. a \in Nat
    BY <2>1, SizesNat
  <2>3. max * a \in Nat
    BY <2>2
  <2>. QED  BY <1>1, <2>1, <2>3
<1>3. /\ Sane(z) /\ z.limit = memory /\ z.error = "none" /\ z.decoded = 0 /\ z.strings = 0
      /\ z.arrays = 0 /\ z.structural = 0 /\ z.continuation = 0
  BY <1>1, FreshSane
<1>4. CASE Live(z) + b > z.limit
  <2>1. s = Reject(z, "decoded_memory_bytes")
    BY <1>1, <1>3, <1>4 DEF ReserveCoLive
  <2>2. \A fits, x, y : Reads(z, Reject(z, "decoded_memory_bytes"), fits, x, y)
    <3>1. "decoded_memory_bytes" \in Errors
      BY DEF Errors
    <3>. QED  BY <1>3, <3>1, RejectReads, Zenon
  <2>3. Reads(z, s, FALSE, 0, 0)
    BY <2>1, <2>2
  <2>4. Sane(s) /\ s.limit = memory /\ s.error # "none"
    BY <1>3, <2>3 DEF Reads, Charged
  <2>. QED  BY <2>4, FailedCounts
<1>5. CASE ~(Live(z) + b > z.limit)
  <2>1. s = Recharge(z, "decoded", 0, b)
    BY <1>1, <1>3, <1>5 DEF ReserveCoLive
  <2>2. Live(z) = 0
    BY <1>3 DEF Live
  <2>3. Live(z) + b <= z.limit
    BY <1>2, <1>3, <1>5, <2>2
  <2>4. PICK pool : pool = "decoded"
    OBVIOUS
  <2>5. pool = "decoded" /\ 0 <= z.decoded
    BY <1>3, <2>4
  <2>6. s = Recharge(z, pool, 0, b)
    BY <2>1, <2>4
  <2>7. /\ Sane(s) /\ s.limit = z.limit /\ s.error = z.error
        /\ s.continuation = z.continuation
        /\ s.decoded = IF pool = "decoded" THEN z.decoded - 0 + b ELSE z.decoded
        /\ s.strings = IF pool = "strings" THEN z.strings - 0 + b ELSE z.strings
        /\ s.arrays = IF pool = "arrays" THEN z.arrays - 0 + b ELSE z.arrays
        /\ s.structural = IF pool = "structural" THEN z.structural - 0 + b ELSE z.structural
    BY <1>2, <1>3, <2>3, <2>5, <2>6, Recharges
  <2>8. /\ s.decoded = b /\ s.strings = 0 /\ s.arrays = 0 /\ s.structural = 0
        /\ s.continuation = 0
    BY <1>2, <1>3, <2>4, <2>7
  <2>9. SumOf(RowSizes(<<>>)) = 0
    <3>1. PICK q : q = RowSizes(<<>>)
      OBVIOUS
    <3>2. Len(q) = 0
      BY <3>1 DEF RowSizes
    <3>3. Sums(q)[0] = 0
      BY <3>2, SumsStep
    <3>. QED  BY <3>1, <3>2, <3>3 DEF SumOf
  <2>10. Settled(s, <<>>, max)
    BY <1>1, <1>2, <2>8, <2>9 DEF Settled
  <2>11. ASSUME NEW vals, NEW n
        PROVE  Counted([s |-> s, rows |-> <<>>], memory, max, vals, n, 0)
    <3>1. Rows(<<>>, vals, n, 0)
      BY DEF Rows
    <3>2. PICK acc : acc = [s |-> s, rows |-> <<>>]
      OBVIOUS
    <3>3. acc.s = s /\ acc.rows = <<>>
      BY <3>2
    <3>4. 0 <= max
      OBVIOUS
    <3>5. Counted(acc, memory, max, vals, n, 0)
      BY <1>3, <2>7, <2>10, <3>1, <3>2, <3>3, <3>4 DEF Counted
    <3>. QED  BY <3>2, <3>5
  <2>. QED  BY <2>11
<1>. QED  BY <1>4, <1>5

\* A decoded page: n rows of these values, paid for, and x bytes for what comes
\* besides; or the parse was refused.
Whole(d, memory, max, vals, n, x) ==
  /\ Sane(d.s) /\ d.s.limit = memory
  /\ d.s.error = "none" =>
       /\ Rows(d.rows, vals, n, n) /\ n <= max
       /\ d.s.strings = x /\ d.s.arrays = 0 /\ d.s.structural = 0
       /\ d.s.decoded = max * Sizes.row + SumOf(RowSizes(d.rows))

(* What a decoder returns. *)
LEMMA OutcomeIs ==
  ASSUME NEW s, NEW rows, NEW d, d = Outcome([s |-> s, rows |-> rows])
  PROVE  d.s = s /\ (s.error = "none" => d.rows = rows)
<1>1. PICK acc : acc = [s |-> s, rows |-> rows]
  OBVIOUS
<1>2. acc.s = s /\ acc.rows = rows
  BY <1>1
<1>3. d = [s |-> acc.s, rows |-> IF acc.s.error = "none" THEN acc.rows ELSE <<>>]
  BY <1>1 DEF Outcome
<1>. QED  BY <1>2, <1>3

(* A refused parse is a failed page. *)
LEMMA RefusedWhole ==
  ASSUME NEW memory \in Nat, NEW s, Sane(s), s.limit = memory, NEW error \in Errors,
         NEW rows, NEW d, d = Outcome([s |-> Reject(s, error), rows |-> rows])
  PROVE  /\ d.s.error # "none"
         /\ \A max, vals, n, x : Whole(d, memory, max, vals, n, x)
<1>1. PICK t : t = Reject(s, error)
  OBVIOUS
<1>2. \A fits, x, y : Reads(s, t, fits, x, y)
  BY <1>1, RejectReads, Zenon
<1>3. Reads(s, t, FALSE, 0, 0)
  BY <1>2
<1>4. Sane(t) /\ t.limit = memory /\ t.error # "none"
  BY <1>3 DEF Reads, Charged
<1>5. d.s = t
  BY <1>1, OutcomeIs
<1>. QED  BY <1>4, <1>5 DEF Whole

(* So is one whose memory failed. *)
LEMMA FailedWhole ==
  ASSUME NEW s, Sane(s), s.error # "none", NEW rows, NEW d,
         d = Outcome([s |-> s, rows |-> rows])
  PROVE  /\ d.s.error # "none"
         /\ \A max, vals, n, x : Whole(d, s.limit, max, vals, n, x)
<1>1. d.s = s
  BY OutcomeIs
<1>. QED  BY <1>1 DEF Whole

(* A page that counts its rows is whole. *)
LEMMA CountedWhole ==
  ASSUME NEW acc, NEW memory, NEW max, NEW vals, NEW n, Counted(acc, memory, max, vals, n, n),
         NEW t, Sane(t), t.limit = memory, NEW x,
         t.error = "none" =>
           /\ acc.s.error = "none" /\ t.decoded = acc.s.decoded
           /\ t.strings = acc.s.strings + x /\ t.arrays = acc.s.arrays
           /\ t.structural = acc.s.structural,
         x \in Nat, NEW d, d = Outcome([s |-> t, rows |-> acc.rows])
  PROVE  Whole(d, memory, max, vals, n, x)
<1>1. d.s = t /\ (t.error = "none" => d.rows = acc.rows)
  BY OutcomeIs
<1>2. ASSUME t.error = "none"
      PROVE  /\ Rows(d.rows, vals, n, n) /\ n <= max
             /\ d.s.strings = x /\ d.s.arrays = 0 /\ d.s.structural = 0
             /\ d.s.decoded = max * Sizes.row + SumOf(RowSizes(d.rows))
  BY <1>1, <1>2 DEF Counted, Settled
<1>. QED  BY <1>1, <1>2 DEF Whole

(* What is found is a value, if there is one. *)
LEMMA FoundValue ==
  ASSUME NEW found, IsFound(found), found.values # <<>>, ~(Len(found.values) > 1)
  PROVE  IsValue(found.values[1])
<1>1. PICK q, n : q = found.values /\ n = Len(q)
  OBVIOUS
<1>2. n \in Nat /\ q = [i \in 1..n |-> q[i]] /\ \A i \in DOMAIN q : IsValue(q[i])
  BY <1>1 DEF IsFound, IsList
<1>3. CASE n = 0
  <2>1. q = [i \in 1..0 |-> q[i]]
    BY <1>2, <1>3
  <2>2. q = <<>>
    BY <2>1
  <2>. QED  BY <1>1, <2>2
<1>4. CASE n # 0
  <2>1. n = 1
    <3>1. ~(n > 1)
      BY <1>1
    <3>. QED  BY <1>2, <1>4, <3>1
  <2>2. 1 \in DOMAIN q
    BY <1>2, <2>1
  <2>. QED  BY <1>1, <1>2, <2>2
<1>. QED  BY <1>3, <1>4

(* The continuation is charged as a string and then kept as what it is. *)
LEMMA ContinuationCharges ==
  ASSUME NEW s, Sane(s), s.error = "none", s.continuation = 0, NEW found, IsFound(found),
         NEW u, u = ExtractContinuation(s, found)
  PROVE  /\ Sane(u) /\ u.limit = s.limit
         /\ u.error = "none" =>
              /\ u.decoded = s.decoded /\ u.strings = s.strings /\ u.arrays = s.arrays
              /\ u.structural = s.structural
<1>1. \A fits, x, y : Reads(s, Reject(s, "schema"), fits, x, y)
  <2>1. "schema" \in Errors
    BY DEF Errors
  <2>. QED  BY <2>1, RejectReads, Zenon
<1>2. CASE u = Reject(s, "schema")
  <2>1. Reads(s, u, FALSE, 0, 0)
    BY <1>1, <1>2
  <2>. QED  BY <2>1 DEF Reads, Charged
<1>3. CASE u = s
  BY <1>3
<1>4. CASE found.parent = "twice" \/ Len(found.values) > 1
  BY <1>2, <1>4 DEF ExtractContinuation
<1>5. CASE ~(found.parent = "twice" \/ Len(found.values) > 1)
           /\ (found.parent # "object" \/ found.values = <<>>)
  BY <1>3, <1>5 DEF ExtractContinuation
<1>6. CASE ~(found.parent = "twice" \/ Len(found.values) > 1)
           /\ ~(found.parent # "object" \/ found.values = <<>>)
  <2>1. PICK v, t : v = found.values[1] /\ t = ParseString(s, v.bytes)
    OBVIOUS
  <2>2. ~(Len(found.values) > 1) /\ found.values # <<>>
    BY <1>6
  <2>3. CASE IsNull(v)
    <3>1. u = s
      BY <1>6, <2>1, <2>3 DEF ExtractContinuation, IsNull
    <3>. QED  BY <1>3, <3>1
  <2>4. CASE v.json = "string"
    <3>0. u = IF t.error # "none" THEN t
              ELSE [t EXCEPT !.continuation = StringCapacity[v.bytes],
                             !.strings = @ - StringCapacity[v.bytes]]
      BY <1>6, <2>1, <2>4 DEF ExtractContinuation, IsNull
    <3>1. v.bytes \in Nat
      <4>1. IsValue(v)
        BY <2>1, <2>2, FoundValue
      <4>. QED  BY <2>4, <4>1 DEF IsValue, IsScalar
    <3>2. PICK c : c = StringCapacity[v.bytes]
      OBVIOUS
    <3>3. c \in Nat
      BY <3>1, <3>2, StringCapacityIs
    <3>4. Charged(s, t, c, 0, 0)
      BY <2>1, <3>1, <3>2, StringCharges
    <3>5. CASE t.error # "none"
      <4>1. u = t
        BY <3>0, <3>5
      <4>. QED  BY <3>4, <3>5, <4>1 DEF Charged
    <3>6. CASE t.error = "none"
      <4>1. u = [t EXCEPT !.continuation = c, !.strings = @ - c]
        BY <3>0, <3>2, <3>6
      <4>2. /\ t \in Parse /\ Live(t) <= t.limit /\ t.peak <= t.limit /\ t.limit = s.limit
            /\ t.strings = s.strings + c /\ t.arrays = s.arrays + 0
            /\ t.structural = s.structural + 0 /\ t.decoded = s.decoded /\ t.continuation = 0
        BY <3>4, <3>6 DEF Charged, Sane
      <4>3. s.strings \in Nat /\ s.arrays \in Nat /\ s.structural \in Nat /\ s.decoded \in Nat
        BY DEF Sane, Parse
      <4>4. t.strings - c = s.strings
        BY <3>3, <4>2, <4>3
      <4>5. u = [t EXCEPT !.continuation = c, !.strings = s.strings]
        BY <4>1, <4>4
      <4>6. u \in Parse
        BY <3>3, <4>2, <4>3, <4>5 DEF Parse
      <4>7. /\ u.decoded = t.decoded /\ u.strings = s.strings /\ u.arrays = t.arrays
            /\ u.structural = t.structural /\ u.continuation = c /\ u.limit = t.limit
            /\ u.peak = t.peak
        BY <4>2, <4>5 DEF Parse
      <4>8. t.arrays \in Nat /\ t.structural \in Nat
        BY <4>2 DEF Parse
      <4>9. Live(u) = Live(t)
        BY <3>3, <4>2, <4>3, <4>7, <4>8 DEF Live
      <4>10. Sane(u)
        BY <4>2, <4>6, <4>7, <4>9 DEF Sane
      <4>. QED  BY <4>2, <4>3, <4>7, <4>10
    <3>. QED  BY <3>5, <3>6
  <2>5. CASE v.json # "string" /\ ~IsNull(v)
    <3>1. u = Reject(s, "schema")
      BY <1>6, <2>1, <2>5 DEF ExtractContinuation
    <3>. QED  BY <1>2, <3>1
  <2>. QED  BY <2>3, <2>4, <2>5
<1>. QED  BY <1>4, <1>5, <1>6

(* A document that is not well formed, or too deep, is refused. *)
LEMMA SyntaxChecked ==
  ASSUME NEW body
  PROVE  /\ ValidateDocument(body) = "none" \/ ValidateDocument(body) \in Errors
         /\ StrictDocument(body) = "none" \/ StrictDocument(body) \in Errors
         /\ body.wellformed = FALSE =>
              ValidateDocument(body) \in Errors /\ StrictDocument(body) \in Errors
<1>1. "json" \in Errors /\ "json_nesting" \in Errors /\ "none" \notin Errors
  BY DEF Errors
<1>2. CASE ~body.wellformed
  BY <1>1, <1>2 DEF ValidateDocument, StrictDocument
<1>3. CASE body.wellformed
  BY <1>1, <1>3 DEF ValidateDocument, StrictDocument
<1>. QED  BY <1>2, <1>3

\* The records of a document are JSON.
AreRecords(records) == IsList(records) /\ \A i \in DOMAIN records : IsRecord(records[i])

(* A REST page is whole, or refused. *)
LEMMA JsonPageWhole ==
  ASSUME NEW source, NEW memory \in Nat, NEW max \in Nat, NEW continues, NEW body,
         IsFound(body.next), NEW records, records = RecordsOf(source, body),
         RootMatches(source, body)
           /\ (source = "JSON_PATH_MANY" => ParseRecordArrayObject(body)) => AreRecords(records),
         NEW vals, vals = [j \in 1..Len(records) |-> RecordValues(records[j])],
         NEW d, d = DecodeJsonPage(source, memory, max, continues, body)
  PROVE  Whole(d, memory, max, vals, Len(records), 0)
<1>1. PICK allocated, syntax :
        /\ allocated = ReserveCoLive(Fresh(memory), "decoded", 0, max * Sizes.row)
        /\ syntax = ValidateDocument(body)
  OBVIOUS
<1>2. allocated = AllocateResult(memory, max)
  BY <1>1 DEF AllocateResult
<1>3. Counted([s |-> allocated, rows |-> <<>>], memory, max, vals, Len(records), 0)
  BY <1>1, AllocateCounts
<1>4. CASE syntax # "none" \/ ~RootMatches(source, body)
           \/ (source = "JSON_PATH_MANY" /\ ~ParseRecordArrayObject(body))
  <2>1. PICK e : e = IF syntax = "none" THEN "schema" ELSE syntax
    OBVIOUS
  <2>2. e \in Errors
    <3>1. "schema" \in Errors
      BY DEF Errors
    <3>. QED  BY <1>1, <2>1, <3>1, SyntaxChecked
  <2>3. d = Outcome([s |-> Reject(Fresh(memory), e), rows |-> <<>>])
    BY <1>1, <1>4, <2>1 DEF DecodeJsonPage
  <2>. QED  BY <2>2, <2>3, FreshSane, RefusedWhole
<1>5. CASE ~(syntax # "none" \/ ~RootMatches(source, body)
             \/ (source = "JSON_PATH_MANY" /\ ~ParseRecordArrayObject(body)))
  <2>1. AreRecords(records)
    BY <1>5
  <2>2. CASE allocated.error # "none"
    <3>1. d = Outcome([s |-> allocated, rows |-> <<>>])
      BY <1>1, <1>2, <1>5, <2>2 DEF DecodeJsonPage
    <3>2. PICK z : z = [s |-> allocated, rows |-> <<>>]
      OBVIOUS
    <3>3. z.s = allocated
      BY <3>2
    <3>4. Sane(allocated) /\ allocated.limit = memory
      BY <1>3, <3>2, <3>3 DEF Counted
    <3>. QED  BY <2>2, <3>1, <3>4, FailedWhole
  <2>3. CASE allocated.error = "none"
    <3>1. PICK acc, t : /\ acc = ParseRecords(allocated, records, max)[Len(records)]
                        /\ t = ExtractContinuation(acc.s, body.next)
      OBVIOUS
    <3>2. Counted(acc, memory, max, vals, Len(records), Len(records))
      BY <1>3, <2>1, <3>1, ParseRecordsCount DEF AreRecords
    <3>3. PICK s, rows : s = acc.s /\ rows = acc.rows
      OBVIOUS
    <3>4. acc = [s |-> s, rows |-> rows] /\ Sane(s) /\ s.limit = memory
      BY <3>2, <3>3 DEF Counted
    <3>5. CASE continues /\ source = "JSON_PATH_MANY" /\ acc.s.error = "none"
      <4>1. d = Outcome([acc EXCEPT !.s = t])
        BY <1>1, <1>2, <1>5, <2>3, <3>1, <3>5 DEF DecodeJsonPage
      <4>2. [acc EXCEPT !.s = t] = [s |-> t, rows |-> rows]
        BY <3>4
      <4>3. s.error = "none" /\ s.continuation = 0
        BY <3>2, <3>3, <3>5 DEF Counted, Settled
      <4>4. /\ Sane(t) /\ t.limit = s.limit
            /\ t.error = "none" =>
                 /\ t.decoded = s.decoded /\ t.strings = s.strings /\ t.arrays = s.arrays
                 /\ t.structural = s.structural
        BY <3>1, <3>3, <3>4, <4>3, ContinuationCharges
      <4>5. s.strings \in Nat
        BY <3>4 DEF Sane, Parse
      <4>6. t.error = "none" => t.strings = s.strings + 0
        BY <4>4, <4>5
      <4>7. d = Outcome([s |-> t, rows |-> acc.rows])
        BY <3>3, <4>1, <4>2
      <4>8. /\ acc.s.error = "none" /\ t.limit = memory /\ Sane(t)
            /\ t.error = "none" =>
                 /\ acc.s.error = "none" /\ t.decoded = acc.s.decoded
                 /\ t.strings = acc.s.strings + 0 /\ t.arrays = acc.s.arrays
                 /\ t.structural = acc.s.structural
        BY <3>3, <3>4, <4>3, <4>4, <4>6
      <4>. QED  BY <3>2, <4>7, <4>8, CountedWhole
    <3>6. CASE ~(continues /\ source = "JSON_PATH_MANY" /\ acc.s.error = "none")
      <4>1. d = Outcome(acc)
        BY <1>1, <1>2, <1>5, <2>3, <3>1, <3>6 DEF DecodeJsonPage
      <4>2. d = Outcome([s |-> s, rows |-> rows])
        BY <3>4, <4>1
      <4>3. s.strings \in Nat
        BY <3>4 DEF Sane, Parse
      <4>4. s.strings = s.strings + 0
        BY <4>3
      <4>. QED  BY <3>2, <3>3, <3>4, <4>2, <4>4, CountedWhole
    <3>. QED  BY <3>5, <3>6
  <2>. QED  BY <2>2, <2>3
<1>. QED  BY <1>4, <1>5

(* What is no JSON is refused by both decoders. *)
LEMMA MalformedWhole ==
  ASSUME NEW memory \in Nat, NEW max, NEW body, body.wellformed = FALSE, NEW d,
         \/ d = DecodeGraphqlResponse(memory, max, body)
         \/ \E source, continues : d = DecodeJsonPage(source, memory, max, continues, body)
  PROVE  /\ d.s.error # "none"
         /\ \A m, vals, n, x : Whole(d, memory, m, vals, n, x)
<1>1. PICK e, f : e = ValidateDocument(body) /\ f = StrictDocument(body)
  OBVIOUS
<1>2. e \in Errors /\ f \in Errors /\ e # "none" /\ f # "none"
  <2>1. e \in Errors /\ f \in Errors
    BY <1>1, SyntaxChecked
  <2>2. "none" \notin Errors
    BY DEF Errors
  <2>. QED  BY <2>1, <2>2
<1>3. \/ d = Outcome([s |-> Reject(Fresh(memory), f), rows |-> <<>>])
      \/ d = Outcome([s |-> Reject(Fresh(memory), e), rows |-> <<>>])
  <2>1. CASE d = DecodeGraphqlResponse(memory, max, body)
    BY <1>1, <1>2, <2>1 DEF DecodeGraphqlResponse
  <2>2. ASSUME NEW source, NEW continues,
               d = DecodeJsonPage(source, memory, max, continues, body)
        PROVE  d = Outcome([s |-> Reject(Fresh(memory), e), rows |-> <<>>])
    BY <1>1, <1>2, <2>2 DEF DecodeJsonPage
  <2>. QED  BY <2>1, <2>2
<1>. QED  BY <1>2, <1>3, FreshSane, RefusedWhole

\* Bytes of the end cursor of a GraphQL page.
EndBytes(cursor) == IF IsNull(cursor) THEN 0 ELSE Doubled(Sizes.inline, cursor.bytes)

(* The errors field of a GraphQL response. *)
LEMMA ErrorsChecked ==
  ASSUME NEW s, Sane(s), NEW found, NEW t, t = CheckErrors(s, found)
  PROVE  Sane(t) /\ t.limit = s.limit
<1>1. "schema" \in Errors /\ "remote_protocol" \in Errors
  BY DEF Errors
<1>2. t = s \/ t = Reject(s, "schema") \/ t = Reject(s, "remote_protocol")
  BY DEF CheckErrors
<1>3. Charged(s, Reject(s, "schema"), 0, 0, 0) /\ Charged(s, Reject(s, "remote_protocol"), 0, 0, 0)
  BY <1>1, RejectCharges
<1>. QED  BY <1>2, <1>3 DEF Charged

(* Whether there is a next page. *)
LEMMA HasNextReads ==
  ASSUME NEW s, Sane(s), NEW found
  PROVE  Charged(s, ParseHasNext(s, found), 0, 0, 0)
<1>1. "schema" \in Errors
  BY DEF Errors
<1>2. ParseHasNext(s, found) = s \/ ParseHasNext(s, found) = Reject(s, "schema")
  BY DEF ParseHasNext
<1>. QED  BY <1>1, <1>2, RejectCharges, NothingCharged

(* The end cursor, which is null or a string. *)
LEMMA EndCursorReads ==
  ASSUME NEW s, Sane(s), NEW found, IsFound(found), NEW t, t = ParseEndCursor(s, found)
  PROVE  /\ Charged(s, t, EndBytes(found.values[1]), 0, 0)
         /\ t.error = "none" =>
              /\ EndBytes(found.values[1]) \in Nat
              /\ IsNull(found.values[1])
                   \/ (found.values[1].json = "string" /\ found.values[1].bytes \in Nat)
<1>1. PICK v, x : v = found.values[1] /\ x = EndBytes(v)
  OBVIOUS
<1>2. "schema" \in Errors
  BY DEF Errors
<1>3. CASE t = Reject(s, "schema")
  <2>1. \A fits, a, b : Reads(s, t, fits, a, b)
    BY <1>2, <1>3, RejectReads, Zenon
  <2>2. Reads(s, t, FALSE, x, 0)
    BY <2>1
  <2>. QED  BY <1>1, <2>2 DEF Reads
<1>4. CASE t # Reject(s, "schema")
  <2>1. Traverse(found)
    BY <1>4 DEF ParseEndCursor
  <2>2. CASE IsNull(v)
    <3>1. t = s
      BY <1>1, <2>1, <2>2 DEF ParseEndCursor
    <3>2. x = 0
      BY <1>1, <2>2 DEF EndBytes
    <3>. QED  BY <1>1, <2>2, <3>1, <3>2, NothingCharged
  <2>3. CASE ~IsNull(v)
    <3>1. t = ParseBoundedString(s, v)
      BY <1>1, <2>1, <2>3 DEF ParseEndCursor
    <3>2. v.json = "string" /\ t = StrictString(s, v.bytes)[v.bytes]
      BY <1>4, <3>1 DEF ParseBoundedString
    <3>3. IsValue(v)
      <4>1. PICK q : q = found.values
        OBVIOUS
      <4>2. Len(q) = 1
        BY <2>1, <4>1 DEF Traverse
      <4>3. q # <<>> /\ ~(Len(q) > 1)
        BY <4>2
      <4>. QED  BY <1>1, <4>1, <4>3, FoundValue
    <3>4. v.bytes \in Nat
      BY <3>2, <3>3 DEF IsValue, IsScalar
    <3>5. Charged(s, t, StringCapacity[v.bytes], 0, 0)
      BY <3>2, <3>4, StrictStringCharges
    <3>6. StringCapacity[v.bytes] = x /\ x \in Nat
      BY <1>1, <2>3, <3>4, StringCapacityIs DEF EndBytes
    <3>. QED  BY <1>1, <3>2, <3>4, <3>5, <3>6
  <2>. QED  BY <2>2, <2>3
<1>. QED  BY <1>3, <1>4

(* A page whose next one has no name is refused. *)
LEMMA CursorChecked ==
  ASSUME NEW s, Sane(s), NEW has_next, NEW cursor, NEW t, t = CursorPresent(s, has_next, cursor)
  PROVE  Charged(s, t, 0, 0, 0)
<1>1. "schema" \in Errors
  BY DEF Errors
<1>2. t = s \/ t = Reject(s, "schema")
  BY DEF CursorPresent
<1>. QED  BY <1>1, <1>2, RejectCharges, NothingCharged

(* The nodes of a GraphQL response, or a refusal. *)
LEMMA RowsCount ==
  ASSUME NEW memory \in Nat, NEW max \in Nat, NEW found, NEW records,
         records = found.values[1].elements,
         Traverse(found) /\ found.values[1].json = "array" => AreRecords(records),
         NEW vals, vals = [j \in 1..Len(records) |-> NodeValues(records[j])],
         NEW acc, acc = ParseRows(AllocateRows(memory, max), found, max)
  PROVE  Counted(acc, memory, max, vals, Len(records), Len(records))
<1>1. PICK s : s = ReserveCoLive(Fresh(memory), "decoded", 0, max * Sizes.row)
  OBVIOUS
<1>2. acc = ParseRows(s, found, max)
  BY <1>1 DEF AllocateRows
<1>3. Counted([s |-> s, rows |-> <<>>], memory, max, vals, Len(records), 0)
  BY <1>1, AllocateCounts
<1>4. CASE ~Traverse(found) \/ found.values[1].json # "array"
  <2>1. PICK t : t = Reject(s, "schema")
    OBVIOUS
  <2>2. acc = [s |-> t, rows |-> <<>>]
    BY <1>2, <1>4, <2>1 DEF ParseRows
  <2>3. Sane(s) /\ s.limit = memory
    <3>1. PICK z : z = [s |-> s, rows |-> <<>>]
      OBVIOUS
    <3>2. z.s = s
      BY <3>1
    <3>. QED  BY <1>3, <3>1, <3>2 DEF Counted
  <2>4. "schema" \in Errors
    BY DEF Errors
  <2>5. \A fits, a, b : Reads(s, t, fits, a, b)
    BY <2>1, <2>3, <2>4, RejectReads, Zenon
  <2>6. Reads(s, t, FALSE, 0, 0)
    BY <2>5
  <2>7. Sane(t) /\ t.limit = memory /\ t.error # "none"
    BY <2>3, <2>6 DEF Reads, Charged
  <2>. QED  BY <2>2, <2>7, FailedCounts
<1>5. CASE ~(~Traverse(found) \/ found.values[1].json # "array")
  <2>1. AreRecords(records)
    BY <1>5
  <2>2. acc = ParseNodes(s, records, max)[Len(records)]
    BY <1>2, <1>5 DEF ParseRows
  <2>3. Counted(ParseNodes(s, records, max)[Len(records)], memory, max, vals,
                Len(records), Len(records))
    BY <1>3, <2>1, ParseNodesCount DEF AreRecords
  <2>. QED  BY <2>2, <2>3
<1>. QED  BY <1>4, <1>5

(* A GraphQL page is whole, and its end cursor is null or a string; or it is refused. *)
LEMMA GraphqlPageWhole ==
  ASSUME NEW memory \in Nat, NEW max \in Nat, NEW body, IsFound(body.end_cursor),
         NEW records, records = body.records.values[1].elements,
         Traverse(body.records) /\ body.records.values[1].json = "array" => AreRecords(records),
         NEW vals, vals = [j \in 1..Len(records) |-> NodeValues(records[j])],
         NEW cursor, cursor = body.end_cursor.values[1],
         NEW d, d = DecodeGraphqlResponse(memory, max, body)
  PROVE  /\ Whole(d, memory, max, vals, Len(records), EndBytes(cursor))
         /\ d.s.error = "none" => IsNull(cursor) \/ (cursor.json = "string" /\ cursor.bytes \in Nat)
<1>1. PICK syntax, checked, acc, told, signalled, final :
        /\ syntax = StrictDocument(body)
        /\ checked = CheckErrors(Fresh(memory), body.errors)
        /\ acc = ParseRows(AllocateRows(memory, max), body.records, max)
        /\ told = ParseHasNext(acc.s, body.has_next)
        /\ signalled = ParseEndCursor(told, body.end_cursor)
        /\ final = CursorPresent(signalled, body.has_next.values[1].json = "true", cursor)
  OBVIOUS
<1>2. PICK s, rows : s = acc.s /\ rows = acc.rows
  OBVIOUS
<1>3. Counted(acc, memory, max, vals, Len(records), Len(records))
  BY <1>1, RowsCount
<1>4. acc = [s |-> s, rows |-> rows] /\ Sane(s) /\ s.limit = memory
  BY <1>2, <1>3 DEF Counted
<1>5. Charged(s, told, 0, 0, 0)
  BY <1>1, <1>2, <1>4, HasNextReads
<1>6. /\ Charged(told, signalled, EndBytes(cursor), 0, 0)
      /\ signalled.error = "none" =>
           /\ EndBytes(cursor) \in Nat
           /\ IsNull(cursor) \/ (cursor.json = "string" /\ cursor.bytes \in Nat)
  <2>1. Sane(told)
    BY <1>5 DEF Charged
  <2>. QED  BY <1>1, <2>1, EndCursorReads
<1>7. Sane(signalled) /\ signalled.limit = memory
  BY <1>4, <1>5, <1>6 DEF Charged
<1>8. CASE syntax # "none"
  <2>1. d = Outcome([s |-> Reject(Fresh(memory), syntax), rows |-> <<>>])
    BY <1>1, <1>8 DEF DecodeGraphqlResponse
  <2>2. syntax \in Errors
    BY <1>1, <1>8, SyntaxChecked
  <2>. QED  BY <2>1, <2>2, FreshSane, RefusedWhole
<1>9. CASE syntax = "none" /\ checked.error # "none"
  <2>1. d = Outcome([s |-> checked, rows |-> <<>>])
    BY <1>1, <1>9 DEF DecodeGraphqlResponse
  <2>2. Sane(checked) /\ checked.limit = memory
    BY <1>1, FreshSane, ErrorsChecked
  <2>. QED  BY <1>9, <2>1, <2>2, FailedWhole
<1>10. CASE syntax = "none" /\ checked.error = "none" /\ signalled.error # "none"
  <2>1. d = Outcome([acc EXCEPT !.s = signalled])
    BY <1>1, <1>10 DEF DecodeGraphqlResponse
  <2>2. d = Outcome([s |-> signalled, rows |-> rows])
    BY <1>4, <2>1
  <2>. QED  BY <1>7, <1>10, <2>2, FailedWhole
<1>11. CASE syntax = "none" /\ checked.error = "none" /\ signalled.error = "none"
  <2>1. d = Outcome([acc EXCEPT !.s = final])
    BY <1>1, <1>11 DEF DecodeGraphqlResponse
  <2>2. d = Outcome([s |-> final, rows |-> acc.rows])
    BY <1>2, <1>4, <2>1
  <2>3. Charged(signalled, final, 0, 0, 0)
    BY <1>1, <1>7, CursorChecked
  <2>4. PICK x : x = EndBytes(cursor)
    OBVIOUS
  <2>5. x \in Nat /\ (IsNull(cursor) \/ (cursor.json = "string" /\ cursor.bytes \in Nat))
    BY <1>6, <1>11, <2>4
  <2>6. Sane(final) /\ final.limit = memory
    BY <1>7, <2>3 DEF Charged
  <2>7. ASSUME final.error = "none"
        PROVE  /\ acc.s.error = "none" /\ final.decoded = acc.s.decoded
               /\ final.strings = acc.s.strings + x /\ final.arrays = acc.s.arrays
               /\ final.structural = acc.s.structural
    <3>1. /\ signalled.decoded = told.decoded /\ signalled.strings = told.strings + x
          /\ signalled.arrays = told.arrays + 0 /\ signalled.structural = told.structural + 0
          /\ told.error = "none"
      BY <1>6, <1>11, <2>4 DEF Charged
    <3>2. /\ told.decoded = s.decoded /\ told.strings = s.strings + 0
          /\ told.arrays = s.arrays + 0 /\ told.structural = s.structural + 0
          /\ s.error = "none"
      BY <1>5, <3>1 DEF Charged
    <3>3. /\ final.decoded = signalled.decoded /\ final.strings = signalled.strings + 0
          /\ final.arrays = signalled.arrays + 0 /\ final.structural = signalled.structural + 0
      BY <2>3, <2>7 DEF Charged
    <3>4. s.strings \in Nat /\ s.arrays \in Nat /\ s.structural \in Nat
      BY <1>4 DEF Sane, Parse
    <3>5. final.strings = s.strings + x /\ final.arrays = s.arrays /\ final.structural = s.structural
      BY <2>5, <3>1, <3>2, <3>3, <3>4
    <3>. QED  BY <1>2, <3>1, <3>2, <3>3, <3>5
  <2>8. Whole(d, memory, max, vals, Len(records), x)
    BY <1>3, <2>2, <2>5, <2>6, <2>7, CountedWhole
  <2>. QED  BY <2>4, <2>5, <2>8
<1>. QED  BY <1>8, <1>9, <1>10, <1>11

-----------------------------------------------------------------------------
(* Responses *)

(* An exchange and what becomes of it. *)
LEMMA ReceivedIs ==
  ASSUME NEW n \in Scans, NEW p \in DOMAIN Remote[n]
  PROVE  /\ DOMAIN Received[n] = DOMAIN Remote[n]
         /\ DOMAIN Received[n][p] = DOMAIN Remote[n][p]
         /\ \A k \in DOMAIN Remote[n][p] :
              Received[n][p][k] = [exchange |-> Remote[n][p][k],
                                   outcome |-> PerformCurlTransfer(HttpLimits[n], Remote[n][p][k])]
BY DEF Received, Map

\* What a decoder makes of a document of this scan.
DecodedAs(admitted, memory, document) ==
  IF admitted.strategy = "graphql_cursor"
  THEN DecodeGraphqlResponse(memory, admitted.max_records, document)
  ELSE DecodeJsonPage(admitted.source, memory, admitted.max_records,
                      admitted.strategy = "response_next", document)

(* And what it is decoded to. *)
LEMMA DecodedBodyIs ==
  ASSUME NEW n \in Scans, NEW p \in DOMAIN Remote[n], NEW k \in DOMAIN Remote[n][p],
         NEW memory \in 0..Limits.memory, NEW r, r = Received[n][p][k]
  PROVE  DecodedBody[n][p][k][memory] =
           DecodedAs(ScanProfile[n], memory, Document(r.exchange, r.outcome.body))
<1>1. DOMAIN Received[n][p] = DOMAIN Remote[n][p]
  BY ReceivedIs
<1>2. PICK q : q = Received[n][p]
  OBVIOUS
<1>3. DecodedBody[n][p] =
        [i \in DOMAIN q |->
          [m \in 0..Limits.memory |->
             DecodedAs(ScanProfile[n], m, Document(q[i].exchange, q[i].outcome.body))]]
  BY <1>2 DEF DecodedBody, Map, DecodedAs
<1>. QED  BY <1>1, <1>2, <1>3

\* The values that a scan's columns have in these records, one row each.
ValuesIn(admitted, records) ==
  [j \in 1..Len(records) |->
     IF admitted.strategy = "graphql_cursor" THEN NodeValues(records[j]) ELSE RecordValues(records[j])]

\* Bytes handed over with a page besides its rows.
HandedOver(admitted, body) ==
  IF admitted.strategy = "graphql_cursor" THEN EndBytes(body.end_cursor.values[1]) ELSE 0

\* The end cursor of a GraphQL page can be kept.
CursorKept(admitted, body) ==
  admitted.strategy = "graphql_cursor" =>
    \/ IsNull(body.end_cursor.values[1])
    \/ body.end_cursor.values[1].json = "string" /\ body.end_cursor.values[1].bytes \in Nat

(* What is decoded of a document is whole, or refused. *)
LEMMA DocumentWhole ==
  ASSUME NEW n \in Scans, NEW memory \in Nat, NEW body, IsBody(ScanProfile[n], body),
         NEW admitted, admitted = ScanProfile[n],
         NEW records, records = RecordsIn(admitted, body),
         NEW d, d = DecodedAs(admitted, memory, body)
  PROVE  /\ Whole(d, memory, admitted.max_records, ValuesIn(admitted, records), Len(records),
                  HandedOver(admitted, body))
         /\ d.s.error = "none" => CursorKept(admitted, body)
<1>1. PICK max, vals : max = admitted.max_records /\ vals = ValuesIn(admitted, records)
  OBVIOUS
<1>2. max \in Nat
  BY <1>1, StreamAssumption
<1>3. HasRecords(admitted, body) => AreRecords(records)
  BY DEF IsBody, AreRecords
<1>4. CASE admitted.strategy = "graphql_cursor"
  <2>1. PICK cursor : cursor = body.end_cursor.values[1]
    OBVIOUS
  <2>2. vals = [j \in 1..Len(records) |-> NodeValues(records[j])]
    BY <1>1, <1>4 DEF ValuesIn
  <2>3. records = body.records.values[1].elements
    BY <1>4 DEF RecordsIn
  <2>4. Traverse(body.records) /\ body.records.values[1].json = "array" => AreRecords(records)
    BY <1>3, <1>4 DEF HasRecords
  <2>5. IsFound(body.end_cursor)
    BY DEF IsBody
  <2>6. d = DecodeGraphqlResponse(memory, max, body)
    BY <1>1, <1>4 DEF DecodedAs
  <2>7. /\ Whole(d, memory, max, vals, Len(records), EndBytes(cursor))
        /\ d.s.error = "none" => IsNull(cursor) \/ (cursor.json = "string" /\ cursor.bytes \in Nat)
    BY <1>2, <2>1, <2>2, <2>3, <2>4, <2>5, <2>6, GraphqlPageWhole, SMTT(60)
  <2>8. HandedOver(admitted, body) = EndBytes(cursor)
    BY <1>4, <2>1 DEF HandedOver
  <2>. QED  BY <1>1, <2>1, <2>7, <2>8 DEF CursorKept
<1>5. CASE admitted.strategy # "graphql_cursor"
  <2>1. PICK source : source = admitted.source
    OBVIOUS
  <2>2. vals = [j \in 1..Len(records) |-> RecordValues(records[j])]
    BY <1>1, <1>5 DEF ValuesIn
  <2>3. records = RecordsOf(source, body)
    BY <1>5, <2>1 DEF RecordsIn
  <2>4. RootMatches(source, body)
          /\ (source = "JSON_PATH_MANY" => ParseRecordArrayObject(body)) => AreRecords(records)
    BY <1>3, <1>5, <2>1 DEF HasRecords
  <2>5. IsFound(body.next)
    BY DEF IsBody
  <2>6. d = DecodeJsonPage(source, memory, max, admitted.strategy = "response_next", body)
    BY <1>1, <1>5, <2>1 DEF DecodedAs
  <2>7. Whole(d, memory, max, vals, Len(records), 0)
    BY <1>2, <2>2, <2>3, <2>4, <2>5, <2>6, JsonPageWhole
  <2>8. HandedOver(admitted, body) = 0 /\ CursorKept(admitted, body)
    BY <1>5 DEF HandedOver, CursorKept
  <2>. QED  BY <1>1, <2>7, <2>8
<1>. QED  BY <1>4, <1>5

(* So is what is decoded of an exchange, which is the text of its document. *)
LEMMA PageWhole ==
  ASSUME NEW n \in Scans, NEW p \in DOMAIN Remote[n], NEW k \in DOMAIN Remote[n][p],
         NEW memory \in 0..Limits.memory, NEW d, d = DecodedBody[n][p][k][memory],
         NEW admitted, admitted = ScanProfile[n],
         NEW body, body = Received[n][p][k].exchange.body,
         NEW records, records = RecordsIn(admitted, body)
  PROVE  /\ Whole(d, memory, admitted.max_records, ValuesIn(admitted, records), Len(records),
                  HandedOver(admitted, body))
         /\ d.s.error = "none" => CursorKept(admitted, body)
<1>1. PICK r : r = Received[n][p][k]
  OBVIOUS
<1>2. memory \in Nat
  BY DecoderAssumption
<1>3. IsBody(admitted, body)
  BY DocumentAssumption, ReceivedIs
<1>4. PICK x, o, document : x = r.exchange /\ o = r.outcome.body /\ document = Document(x, o)
  OBVIOUS
<1>5. d = DecodedAs(admitted, memory, document)
  BY <1>1, <1>4, DecodedBodyIs
<1>6. x.body = body
  BY <1>1, <1>4
<1>7. CASE o = x.payload
  <2>1. document = body
    BY <1>4, <1>6, <1>7 DEF Document
  <2>. QED  BY <1>2, <1>3, <1>5, <2>1, DocumentWhole
<1>8. CASE o # x.payload
  <2>1. document = [body EXCEPT !.wellformed = FALSE]
    BY <1>4, <1>6, <1>8 DEF Document
  <2>2. document.wellformed = FALSE
    BY <1>3, <2>1, Zenon DEF IsBody
  <2>3. /\ d.s.error # "none"
        /\ \A m, vals, c, y : Whole(d, memory, m, vals, c, y)
    <3>1. \/ d = DecodeGraphqlResponse(memory, admitted.max_records, document)
          \/ d = DecodeJsonPage(admitted.source, memory, admitted.max_records,
                                admitted.strategy = "response_next", document)
      BY <1>5 DEF DecodedAs
    <3>2. CASE d = DecodeGraphqlResponse(memory, admitted.max_records, document)
      BY <1>2, <2>2, <3>2, MalformedWhole
    <3>3. CASE d = DecodeJsonPage(admitted.source, memory, admitted.max_records,
                                  admitted.strategy = "response_next", document)
      <4>1. \E source, continues : d = DecodeJsonPage(source, memory, admitted.max_records,
                                                      continues, document)
        BY <3>3, Zenon
      <4>. QED  BY <1>2, <2>2, <4>1, MalformedWhole
    <3>. QED  BY <3>1, <3>2, <3>3
  <2>. QED  BY <2>3
<1>. QED  BY <1>7, <1>8

(* A whole page has the shape of its columns. *)
LEMMA WholeShaped ==
  ASSUME NEW rows, NEW vals, NEW n \in Nat, Rows(rows, vals, n, n)
  PROVE  ShapeHolds(rows)
<1>1. DOMAIN rows = 1..n
  BY DEF Rows
<1>2. ASSUME NEW i \in DOMAIN rows, NEW c \in DOMAIN Columns
      PROVE  Shaped(Columns[c], rows[i][c])
  <2>1. rows[i] = TypedRow(vals[i]) /\ FitsColumns(vals[i], Len(Columns))
    BY <1>1, <1>2 DEF Rows
  <2>. QED  BY <2>1, RowShaped
<1>. QED  BY <1>2 DEF ShapeHolds, Shaped

-----------------------------------------------------------------------------
(* Sequences *)

(* A list is a sequence of its elements. *)
LEMMA ListSeq ==
  ASSUME NEW s, IsList(s)
  PROVE  s \in Seq({s[i] : i \in 1..Len(s)}) /\ DOMAIN s = 1..Len(s) /\ Len(s) \in Nat
<1>1. PICK n : n = Len(s)
  OBVIOUS
<1>2. n \in Nat /\ s = [i \in 1..n |-> s[i]]
  BY <1>1 DEF IsList
<1>3. PICK S : S = {s[i] : i \in 1..n}
  OBVIOUS
<1>4. s \in [1..n -> S]
  BY <1>2, <1>3
<1>5. s \in Seq(S)
  BY <1>2, <1>4
<1>6. DOMAIN s = 1..n
  BY <1>2
<1>. QED  BY <1>1, <1>2, <1>3, <1>5, <1>6

(* A sequence is a list. *)
LEMMA SeqList ==
  ASSUME NEW S, NEW s \in Seq(S)
  PROVE  IsList(s)
BY DEF IsList

(* One list after another. *)
LEMMA ListsJoin ==
  ASSUME NEW s, IsList(s), NEW t, IsList(t), NEW u, u = s \o t
  PROVE  /\ IsList(u) /\ Len(u) = Len(s) + Len(t)
         /\ \A i \in 1..Len(s) : u[i] = s[i]
         /\ \A i \in 1..Len(t) : u[Len(s) + i] = t[i]
<1>1. PICK S, T : S = {s[i] : i \in 1..Len(s)} /\ T = {t[i] : i \in 1..Len(t)}
  OBVIOUS
<1>2. s \in Seq(S) /\ t \in Seq(T)
  BY <1>1, ListSeq
<1>3. PICK U : U = S \cup T
  OBVIOUS
<1>4. s \in Seq(U) /\ t \in Seq(U)
  BY <1>2, <1>3
<1>5. u \in Seq(U) /\ Len(u) = Len(s) + Len(t)
  BY <1>4
<1>6. ASSUME NEW i \in 1..Len(s)
      PROVE  u[i] = s[i]
  BY <1>4
<1>7. ASSUME NEW i \in 1..Len(t)
      PROVE  u[Len(s) + i] = t[i]
  BY <1>4
<1>8. IsList(u)
  BY <1>5, SeqList
<1>. QED  BY <1>5, <1>6, <1>7, <1>8

(* A stretch of a list. *)
LEMMA ListStretch ==
  ASSUME NEW s, IsList(s), NEW a \in Nat, NEW m \in Nat, a + m <= Len(s),
         NEW u, u = SubSeq(s, a + 1, a + m)
  PROVE  IsList(u) /\ Len(u) = m /\ \A i \in 1..m : u[i] = s[a + i]
<1>1. PICK S : S = {s[i] : i \in 1..Len(s)}
  OBVIOUS
<1>2. s \in Seq(S) /\ Len(s) \in Nat
  BY <1>1, ListSeq
<1>3. u \in Seq(S)
  <2>1. ASSUME NEW i \in (a + 1)..(a + m)
        PROVE  s[i] \in S
    <3>1. i \in 1..Len(s)
      BY <1>2
    <3>. QED  BY <1>1, <3>1
  <2>. QED  BY <1>2, <2>1
<1>4. Len(u) = m
  BY <1>2
<1>5. ASSUME NEW i \in 1..m
      PROVE  u[i] = s[a + i]
  <2>1. Len(u) = (a + m) - (a + 1) + 1 /\ i \in 1..((a + m) - (a + 1) + 1)
    BY <1>4
  <2>2. u[i] = s[i + (a + 1) - 1]
    BY <1>2, <2>1
  <2>3. i + (a + 1) - 1 = a + i
    OBVIOUS
  <2>. QED  BY <2>2, <2>3
<1>6. IsList(u)
  BY <1>3, SeqList
<1>. QED  BY <1>4, <1>5, <1>6

(* A list and one element more. *)
LEMMA ListAppend ==
  ASSUME NEW s, IsList(s), NEW e, NEW u, u = Append(s, e)
  PROVE  /\ IsList(u) /\ Len(u) = Len(s) + 1 /\ u[Len(s) + 1] = e
         /\ \A i \in 1..Len(s) : u[i] = s[i]
<1>1. PICK S : S = {s[i] : i \in 1..Len(s)} \cup {e}
  OBVIOUS
<1>2. PICK T : T = {s[i] : i \in 1..Len(s)}
  OBVIOUS
<1>3. s \in Seq(T) /\ Len(s) \in Nat
  BY <1>2, ListSeq
<1>4. s \in Seq(S) /\ e \in S
  BY <1>1, <1>2, <1>3
<1>5. u \in Seq(S) /\ Len(u) = Len(s) + 1 /\ u[Len(s) + 1] = e
  BY <1>4
<1>6. ASSUME NEW i \in 1..Len(s)
      PROVE  u[i] = s[i]
  BY <1>4
<1>7. IsList(u)
  BY <1>5, SeqList
<1>. QED  BY <1>5, <1>6, <1>7

-----------------------------------------------------------------------------
(* The pages of the remote result *)

(* The first of some numbers. *)
LEMMA LeastOf ==
  ASSUME NEW S, S \subseteq Nat, S # {}
  PROVE  \E x \in S : \A y \in S : ~(y < x)
<1>1. \E x \in S : \A y \in S : ~(<<y, x>> \in Less)
  BY LessFounded, WFMin
<1>. QED  BY <1>1, LessIs

(* The pages of a scan's result, and the rows before each. *)
LEMMA PagesAre ==
  ASSUME scan \in Scans, NEW n, n = Len(profile.page_rows)
  PROVE  /\ n \in Nat /\ n >= 1 /\ DOMAIN Remote[scan] = 1..n
         /\ DOMAIN profile.page_rows = 1..n
         /\ \A p \in 1..n : /\ profile.page_rows[p] \in Nat /\ Before(p) \in Nat
                            /\ Before(p + 1) = Before(p) + profile.page_rows[p]
         /\ Before(1) = 0
<1>1. PICK q : q = profile.page_rows
  OBVIOUS
<1>2. q \in Seq(Nat) /\ n = Len(q) /\ n >= 1
  BY <1>1, StreamAssumption DEF profile
<1>3. n \in Nat /\ DOMAIN q = 1..n /\ \A p \in 1..n : q[p] \in Nat
  BY <1>2
<1>4. DOMAIN Remote[scan] = 1..n
  BY <1>1, <1>3, DocumentAssumption DEF profile
<1>5. PICK sum : sum = Sums(q)
  OBVIOUS
<1>6. sum[0] = 0 /\ \A i \in 1..n : sum[i] = sum[i - 1] + q[i]
  BY <1>2, <1>3, <1>5, SumsStep
<1>7. \A p \in 1..(n + 1) : Before(p) = sum[p - 1]
  BY <1>1, <1>5 DEF Before
<1>8. ASSUME NEW p \in 1..n
      PROVE  Before(p) \in Nat /\ Before(p + 1) = Before(p) + q[p]
  <2>1. p - 1 \in 0..Len(q)
    BY <1>2, <1>3
  <2>2. sum[p - 1] \in Nat
    <3>1. \A i \in 1..(p - 1) : q[i] \in Nat
      BY <1>3
    <3>2. Len(q) \in Nat
      BY <1>2
    <3>3. Sums(q)[p - 1] \in Nat
      BY <2>1, <3>1, <3>2, SumsNat
    <3>. QED  BY <1>5, <3>3
  <2>3. Before(p) = sum[p - 1] /\ Before(p + 1) = sum[p]
    <3>1. p \in 1..(n + 1) /\ p + 1 \in 1..(n + 1) /\ (p + 1) - 1 = p
      BY <1>3
    <3>. QED  BY <1>7, <3>1
  <2>. QED  BY <1>6, <2>2, <2>3
<1>9. Before(1) = 0
  <2>1. 1 \in 1..(n + 1) /\ 1 - 1 = 0
    BY <1>3
  <2>. QED  BY <1>6, <1>7, <2>1
<1>. QED  BY <1>1, <1>2, <1>3, <1>4, <1>8, <1>9

\* The first page that is short.
IsShort(p) ==
  /\ profile.page_rows[p] < profile.page_size
  /\ \A q \in 1..(p - 1) : profile.page_rows[q] >= profile.page_size

(* The last page is one of them; where the row count decides, it is the first
   that is short. *)
LEMMA LastPageIs ==
  ASSUME scan \in Scans, NEW n, n = Len(profile.page_rows)
  PROVE  /\ LastPage \in 1..n
         /\ profile.strategy = "disabled" => LastPage = 1
         /\ profile.strategy = "short_page" => IsShort(LastPage)
         /\ profile.strategy \in {"link_next", "response_next", "graphql_cursor"} => LastPage = n
<1>1. n \in Nat /\ n >= 1 /\ DOMAIN profile.page_rows = 1..n
      /\ \A p \in 1..n : profile.page_rows[p] \in Nat
  BY PagesAre
<1>2. profile.strategy \in Strategies
  BY StreamAssumption DEF profile
<1>3. CASE profile.strategy = "short_page"
  <2>1. PICK S : S = {p \in 1..n : profile.page_rows[p] < profile.page_size}
    OBVIOUS
  <2>2. S # {}
    BY <1>1, <1>3, <2>1, CollectionAssumption DEF profile
  <2>3. S \subseteq Nat
    BY <2>1
  <2>4. PICK x \in S : \A y \in S : ~(y < x)
    BY <2>2, <2>3, LeastOf
  <2>5. profile.page_size \in Nat
    BY StreamAssumption DEF profile
  <2>6. x \in DOMAIN profile.page_rows /\ IsShort(x)
    <3>1. x \in 1..n /\ profile.page_rows[x] < profile.page_size
      BY <2>1, <2>4
    <3>2. ASSUME NEW q \in 1..(x - 1)
          PROVE  profile.page_rows[q] >= profile.page_size
      <4>1. q \in 1..n /\ q < x
        BY <1>1, <3>1
      <4>2. q \notin S
        BY <2>4, <4>1
      <4>3. ~(profile.page_rows[q] < profile.page_size)
        BY <2>1, <4>1, <4>2
      <4>. QED  BY <1>1, <2>5, <4>1, <4>3
    <3>. QED  BY <1>1, <3>1, <3>2 DEF IsShort
  <2>7. LastPage = CHOOSE p \in DOMAIN profile.page_rows : IsShort(p)
    BY <1>3 DEF LastPage, LastPageOf, IsShort
  <2>8. LastPage \in DOMAIN profile.page_rows /\ IsShort(LastPage)
    BY <2>6, <2>7
  <2>. QED  BY <1>1, <1>3, <2>8
<1>4. CASE profile.strategy = "disabled"
  BY <1>1, <1>4 DEF LastPage, LastPageOf
<1>5. CASE profile.strategy \in {"link_next", "response_next", "graphql_cursor"}
  BY <1>1, <1>5 DEF LastPage, LastPageOf
<1>. QED  BY <1>2, <1>3, <1>4, <1>5 DEF Strategies

-----------------------------------------------------------------------------
(* The order of rows and pages *)

\* The pagination of a running scan: cursor i names page i + 1.
PaginationIs(p) ==
  /\ p = [page |-> p.page, seen |-> p.seen, requested |-> p.requested, state |-> p.state]
  /\ p.page \in Nat
  /\ IsList(p.seen)
  /\ IsGraphql => p.page = 1
  /\ ~IsGraphql => p.seen = <<>>
  /\ \A i \in 1..Len(p.seen) : p.seen[i].bytes \in Nat /\ p.seen[i].text = i + 1
  /\ CursorBytes(p) <= Limits.memory

\* The page that is asked for from this pagination.
PageOf(p) == IF IsGraphql /\ p.seen # <<>> THEN p.seen[Len(p.seen)].text ELSE p.page

\* These rows are page d of the result.
RowsOfPage(rows, d) ==
  /\ IsList(rows) /\ Len(rows) = profile.page_rows[d]
  /\ \A i \in 1..Len(rows) : Position(rows[i]) = Before(d) + i

\* After page d comes the next one, or the end.
FollowsPage(p, d) ==
  /\ p.state = "active" => PageOf(p) = d + 1 /\ d < LastPage
  /\ p.state # "active" => d = LastPage

\* Page d is being handed over.
Loaded(d) ==
  /\ RowsOfPage(page, d)
  /\ offset \in 0..Len(page)
  /\ Len(delivered) = Before(d) + offset
  /\ FollowsPage(pagination, d)
  /\ page_has_next <=> pagination.state = "active"

\* The pages before the one to ask for have been handed over.
Between ==
  /\ pagination.state = "active"
  /\ PageOf(pagination) \in 1..LastPage
  /\ Len(delivered) = Before(PageOf(pagination))

\* The response at hand is the answer for the page that was asked for.
Answered ==
  \E k \in DOMAIN Remote[scan][PageOf(pagination)] :
    /\ response = <<PageOf(pagination), k>>
    /\ Received[scan][PageOf(pagination)][k].outcome.failure = "none"

ProgressInv ==
  ~Released => /\ PaginationIs(pagination)
               /\ ~page_loaded => Between
               /\ page_loaded => \E d \in 1..LastPage : Loaded(d)
               /\ pc = "decoding" => Answered

OrderInv ==
  /\ IsList(delivered)
  /\ RowsInOrder
  /\ ProgressInv

(* The page that is asked for, of any pagination of a running scan. *)
LEMMA PageOfIs ==
  ASSUME NEW p, PaginationIs(p)
  PROVE  /\ PageOf(p) \in Nat
         /\ IsGraphql => PageOf(p) = Len(p.seen) + 1
         /\ ~IsGraphql => PageOf(p) = p.page
<1>1. PICK q, n : q = p.seen /\ n = Len(q)
  OBVIOUS
<1>2. n \in Nat /\ q = [i \in 1..n |-> q[i]]
  BY <1>1 DEF PaginationIs, IsList
<1>3. CASE ~IsGraphql
  BY <1>3 DEF PageOf, PaginationIs
<1>4. CASE IsGraphql /\ q = <<>>
  <2>1. n = 0
    BY <1>1, <1>4
  <2>2. PageOf(p) = 1
    BY <1>1, <1>4 DEF PageOf, PaginationIs
  <2>. QED  BY <1>1, <1>4, <2>1, <2>2
<1>5. CASE IsGraphql /\ q # <<>>
  <2>1. n # 0
    <3>1. SUFFICES ASSUME n = 0 PROVE FALSE
      OBVIOUS
    <3>2. q = [i \in 1..0 |-> q[i]]
      BY <1>2, <3>1
    <3>3. q = <<>>
      BY <3>2
    <3>. QED  BY <1>5, <3>3
  <2>2. n \in 1..n
    BY <1>2, <2>1
  <2>3. q[n].text = n + 1
    BY <1>1, <2>2 DEF PaginationIs
  <2>4. PageOf(p) = q[n].text
    BY <1>1, <1>5 DEF PageOf
  <2>. QED  BY <1>1, <1>2, <1>5, <2>3, <2>4
<1>. QED  BY <1>1, <1>3, <1>4, <1>5

(* The cursors of a running scan leave a parse some of the memory. *)
LEMMA CursorBytesNat ==
  ASSUME NEW p, IsList(p.seen), \A i \in 1..Len(p.seen) : p.seen[i].bytes \in Nat
  PROVE  CursorBytes(p) \in Nat
<1>1. PICK q, n, r : /\ q = p.seen /\ n = Len(q)
                     /\ r = [i \in 1..n |-> IF q[i].bytes <= Sizes.inline THEN 0
                                            ELSE StringCapacity[q[i].bytes] + 1]
  OBVIOUS
<1>2. n \in Nat /\ Len(r) = n
  BY <1>1 DEF IsList
<1>3. ASSUME NEW i \in 1..n
      PROVE  r[i] \in Nat
  <2>1. q[i].bytes \in Nat
    BY <1>1
  <2>2. StringCapacity[q[i].bytes] \in Nat
    BY <2>1, StringCapacityIs
  <2>. QED  BY <1>1, <2>2
<1>4. n \in 0..Len(r)
  BY <1>2
<1>5. Sums(r)[n] \in Nat
  BY <1>2, <1>3, <1>4, SumsNat
<1>6. CursorBytes(p) = SumOf(r)
  BY <1>1 DEF CursorBytes
<1>. QED  BY <1>2, <1>5, <1>6 DEF SumOf

(* The memory that a parse is given. *)
LEMMA MemoryLeft ==
  ASSUME PaginationIs(pagination)
  PROVE  /\ Limits.memory - (IF IsGraphql THEN CursorBytes(pagination) ELSE 0) \in 0..Limits.memory
         /\ ~IsGraphql =>
              Limits.memory - (IF IsGraphql THEN CursorBytes(pagination) ELSE 0) = Limits.memory
<1>1. PICK b, m : b = CursorBytes(pagination) /\ m = Limits.memory
  OBVIOUS
<1>2. b \in Nat /\ b <= m /\ m \in Nat
  BY <1>1, CursorBytesNat, DecoderAssumption DEF PaginationIs
<1>3. m - b \in 0..m /\ m - 0 \in 0..m /\ m - 0 = m
  BY <1>2
<1>. QED  BY <1>1, <1>3

(* The response at hand and what it is decoded to. *)
LEMMA AnswerIs ==
  ASSUME scan \in Scans, PaginationIs(pagination), Between, Answered
  PROVE  \E p \in DOMAIN Remote[scan] : \E k \in DOMAIN Remote[scan][p] :
           \E memory \in 0..Limits.memory :
             /\ p = PageOf(pagination) /\ p \in 1..LastPage
             /\ ReceivedAs(response) = Received[scan][p][k]
             /\ Received[scan][p][k].outcome.failure = "none"
             /\ Decode(response) = DecodedBody[scan][p][k][memory]
             /\ ~IsGraphql => memory = Limits.memory
<1>1. PICK p : p = PageOf(pagination)
  OBVIOUS
<1>2. p \in 1..LastPage /\ p \in DOMAIN Remote[scan]
  <2>1. PICK n : n = Len(profile.page_rows)
    OBVIOUS
  <2>2. n \in Nat /\ DOMAIN Remote[scan] = 1..n /\ LastPage \in 1..n
    BY <2>1, PagesAre, LastPageIs
  <2>3. p \in 1..LastPage
    BY <1>1 DEF Between
  <2>. QED  BY <2>2, <2>3
<1>3. PICK k \in DOMAIN Remote[scan][p] :
        response = <<p, k>> /\ Received[scan][p][k].outcome.failure = "none"
  BY <1>1 DEF Answered
<1>4. PICK memory : memory = Limits.memory - (IF IsGraphql THEN CursorBytes(pagination) ELSE 0)
  OBVIOUS
<1>5. memory \in 0..Limits.memory /\ (~IsGraphql => memory = Limits.memory)
  BY <1>4, MemoryLeft
<1>6. response[1] = p /\ response[2] = k
  BY <1>3
<1>7. ReceivedAs(response) = Received[scan][p][k]
  BY <1>6 DEF ReceivedAs
<1>8. Decode(response) = DecodedBody[scan][p][k][memory]
  BY <1>4, <1>6 DEF Decode
<1>. QED  BY <1>1, <1>2, <1>3, <1>5, <1>7, <1>8

\* What DecodedExactly says of one response.
ExactlyDecoded(s, rows, cursor) ==
  /\ s.peak <= s.limit
  /\ Live(s) <= s.limit
  /\ s.error = "none" =>
       /\ ShapeHolds(rows)
       /\ Len(rows) <= profile.max_records
       /\ s.strings = cursor /\ s.arrays = 0 /\ s.structural = 0
       /\ s.decoded = profile.max_records * Sizes.row
                       + SumOf([i \in 1..Len(rows) |-> RowBytes(rows[i])])

(* A whole page is exactly what DecodedExactly asks for. *)
LEMMA WholeIsExact ==
  ASSUME NEW d, NEW memory, NEW vals, NEW n \in Nat, NEW x,
         Whole(d, memory, profile.max_records, vals, n, x)
  PROVE  ExactlyDecoded(d.s, d.rows, x)
<1>1. PICK s, rows, max : s = d.s /\ rows = d.rows /\ max = profile.max_records
  OBVIOUS
<1>2. s.peak <= s.limit /\ Live(s) <= s.limit
  BY <1>1 DEF Whole, Sane
<1>3. ASSUME s.error = "none"
      PROVE  /\ ShapeHolds(rows)
             /\ Len(rows) <= max
             /\ s.strings = x /\ s.arrays = 0 /\ s.structural = 0
             /\ s.decoded = max * Sizes.row + SumOf([i \in 1..Len(rows) |-> RowBytes(rows[i])])
  <2>1. /\ Rows(rows, vals, n, n) /\ n <= max
        /\ s.strings = x /\ s.arrays = 0 /\ s.structural = 0
        /\ s.decoded = max * Sizes.row + SumOf(RowSizes(rows))
    BY <1>1, <1>3 DEF Whole
  <2>2. ShapeHolds(rows)
    BY <2>1, WholeShaped
  <2>3. Len(rows) = n
    BY <2>1 DEF Rows
  <2>. QED  BY <2>1, <2>2, <2>3 DEF RowSizes
<1>. QED  BY <1>1, <1>2, <1>3 DEF ExactlyDecoded

(* What is at hand is whole. *)
LEMMA AnswerWhole ==
  ASSUME scan \in Scans, PaginationIs(pagination), Between, Answered,
         NEW d, d = Decode(response), NEW body, body = ReceivedAs(response).exchange.body,
         NEW records, records = RecordsIn(profile, body)
  PROVE  \E memory : /\ Whole(d, memory, profile.max_records, ValuesIn(profile, records),
                              Len(records), HandedOver(profile, body))
                     /\ d.s.error = "none" => CursorKept(profile, body) /\ Len(records) \in Nat
<1>1. PICK p \in DOMAIN Remote[scan] : \E k \in DOMAIN Remote[scan][p] :
        \E memory \in 0..Limits.memory :
          /\ ReceivedAs(response) = Received[scan][p][k]
          /\ Decode(response) = DecodedBody[scan][p][k][memory]
  BY AnswerIs
<1>2. PICK k \in DOMAIN Remote[scan][p] : \E memory \in 0..Limits.memory :
          /\ ReceivedAs(response) = Received[scan][p][k]
          /\ Decode(response) = DecodedBody[scan][p][k][memory]
  BY <1>1
<1>3. PICK memory \in 0..Limits.memory :
          /\ ReceivedAs(response) = Received[scan][p][k]
          /\ Decode(response) = DecodedBody[scan][p][k][memory]
  BY <1>2
<1>4. body = Received[scan][p][k].exchange.body /\ d = DecodedBody[scan][p][k][memory]
  BY <1>3
<1>5. /\ Whole(d, memory, profile.max_records, ValuesIn(profile, records), Len(records),
               HandedOver(profile, body))
      /\ d.s.error = "none" => CursorKept(profile, body)
  BY <1>4, PageWhole DEF profile
<1>6. ASSUME d.s.error = "none"
      PROVE  Len(records) \in Nat
  <2>1. PICK vals, n : vals = ValuesIn(profile, records) /\ n = Len(records)
    OBVIOUS
  <2>2. Rows(d.rows, vals, n, n)
    BY <1>5, <1>6, <2>1 DEF Whole
  <2>3. n \in Nat
    BY <2>2 DEF Rows
  <2>. QED  BY <2>1, <2>3
<1>. QED  BY <1>5, <1>6

(* So what is at hand was decoded exactly. *)
LEMMA AnswerExact ==
  ASSUME scan \in Scans, pc = "decoding", PaginationIs(pagination), Between, Answered
  PROVE  DecodedExactly
<1>1. PICK d, r, body, end, records :
        /\ d = Decode(response) /\ r = ReceivedAs(response) /\ body = r.exchange.body
        /\ end = body.end_cursor /\ records = RecordsIn(profile, body)
  OBVIOUS
<1>2. PICK memory : Whole(d, memory, profile.max_records, ValuesIn(profile, records),
                          Len(records), HandedOver(profile, body))
                    /\ (d.s.error = "none" => Len(records) \in Nat)
  BY <1>1, AnswerWhole
<1>3. PICK cursor : cursor = IF IsGraphql /\ d.s.error = "none" /\ ~IsNull(end.values[1])
                             THEN Doubled(Sizes.inline, end.values[1].bytes) ELSE 0
  OBVIOUS
<1>4. ExactlyDecoded(d.s, d.rows, cursor)
  <2>1. CASE d.s.error # "none"
    BY <1>2, <2>1 DEF ExactlyDecoded, Whole, Sane
  <2>2. CASE d.s.error = "none"
    <3>1. cursor = HandedOver(profile, body)
      BY <1>1, <1>3, <2>2 DEF HandedOver, EndBytes, IsGraphql
    <3>. QED  BY <1>2, <2>2, <3>1, WholeIsExact
  <2>. QED  BY <2>1, <2>2
<1>5. \A decoded \in {Decode(response)}, x \in {ReceivedAs(response)} : decoded = d /\ x = r
  BY <1>1
<1>. QED  BY <1>1, <1>3, <1>4, <1>5 DEF DecodedExactly, ExactlyDecoded

(* An invariant state decodes exactly. *)
LEMMA InvDecodes ==
  ASSUME IInv, OrderInv
  PROVE  DecodedExactly
<1>1. CASE pc # "decoding"
  BY <1>1 DEF DecodedExactly
<1>2. CASE pc = "decoding"
  <2>1. scan \in Scans /\ ~Released /\ ~page_loaded
    <3>1. ControlTypes /\ ReleasedInv /\ ActiveInv
      BY DEF IInv, StreamInv
    <3>2. ~Released
      BY <1>2, <3>1 DEF ReleasedInv, Inside
    <3>3. accounting = "TRANSPORT_COMMITTED" /\ (page_loaded <=> accounting = "PAGE_DECODED")
      BY <1>2, <3>1, <3>2 DEF ActiveInv
    <3>. QED  BY <3>1, <3>2, <3>3 DEF ControlTypes
  <2>2. PaginationIs(pagination) /\ Between /\ Answered
    BY <1>2, <2>1 DEF OrderInv, ProgressInv
  <2>. QED  BY <1>2, <2>1, <2>2, AnswerExact
<1>. QED  BY <1>1, <1>2

(* An accepted response is honest in what nobody could notice. *)
LEMMA AnswerHonest ==
  ASSUME scan \in Scans, PaginationIs(pagination), Between, Answered,
         NEW r, r = ReceivedAs(response), Decode(response).s.error = "none",
         CheckStatus(profile, r.outcome.status)
  PROVE  /\ HonestRecords(profile, PageOf(pagination), r.exchange.body)
         /\ HonestSignal(profile, PageOf(pagination), r.exchange.body, r.outcome)
<1>1. PICK p \in DOMAIN Remote[scan] : \E k \in DOMAIN Remote[scan][p] :
        \E memory \in 0..Limits.memory :
          /\ p = PageOf(pagination)
          /\ ReceivedAs(response) = Received[scan][p][k]
          /\ Received[scan][p][k].outcome.failure = "none"
          /\ Decode(response) = DecodedBody[scan][p][k][memory]
          /\ ~IsGraphql => memory = Limits.memory
  BY AnswerIs
<1>2. PICK k \in DOMAIN Remote[scan][p] : \E memory \in 0..Limits.memory :
          /\ p = PageOf(pagination)
          /\ ReceivedAs(response) = Received[scan][p][k]
          /\ Received[scan][p][k].outcome.failure = "none"
          /\ Decode(response) = DecodedBody[scan][p][k][memory]
          /\ ~IsGraphql => memory = Limits.memory
  BY <1>1
<1>3. PICK memory \in 0..Limits.memory :
          /\ p = PageOf(pagination)
          /\ ReceivedAs(response) = Received[scan][p][k]
          /\ Received[scan][p][k].outcome.failure = "none"
          /\ Decode(response) = DecodedBody[scan][p][k][memory]
          /\ ~IsGraphql => memory = Limits.memory
  BY <1>2
<1>4. PICK M : M = IF ScanProfile[scan].strategy = "graphql_cursor"
                   THEN 0..Limits.memory ELSE {Limits.memory}
  OBVIOUS
<1>5. memory \in M
  BY <1>3, <1>4 DEF IsGraphql, profile
<1>6. DecodedBody[scan][p][k][memory].s.error = "none"
  BY <1>3
<1>7. \E m \in M : DecodedBody[scan][p][k][m].s.error = "none"
  BY <1>5, <1>6
<1>8. Accepted(scan, p, k)
  BY <1>3, <1>4, <1>7 DEF Accepted, profile
<1>9. k \in DOMAIN Received[scan][p]
  BY ReceivedIs
<1>10. /\ HonestRecords(ScanProfile[scan], p, Received[scan][p][k].exchange.body)
       /\ HonestSignal(ScanProfile[scan], p, Received[scan][p][k].exchange.body,
                       Received[scan][p][k].outcome)
  BY <1>8, <1>9, CollectionAssumption
<1>. QED  BY <1>3, <1>10 DEF profile

(* The first value of a record that has one. *)
LEMMA FirstValue ==
  ASSUME NEW admitted, NEW records, NEW j \in 1..Len(records), NEW values,
         values = ValuesIn(admitted, records)[j], ~IsNull(values[1])
  PROVE  values[1] = records[j].fields[1].values[1]
<1>1. 1 \in 1..Len(Columns)
  BY ColumnsAre
<1>2. CASE admitted.strategy = "graphql_cursor"
  <2>1. values = NodeValues(records[j])
    BY <1>2 DEF ValuesIn
  <2>2. values[1] = NodeValue(Columns[1], records[j].fields[1])
    BY <1>1, <2>1 DEF NodeValues
  <2>3. PICK null : null = [json |-> "null"]
    OBVIOUS
  <2>4. IsNull(null)
    BY <2>3 DEF IsNull
  <2>5. records[j].fields[1].parent # "null"
    BY <2>2, <2>3, <2>4 DEF NodeValue
  <2>. QED  BY <2>2, <2>5 DEF NodeValue
<1>3. CASE admitted.strategy # "graphql_cursor"
  <2>1. values = RecordValues(records[j])
    BY <1>3 DEF ValuesIn
  <2>. QED  BY <1>1, <2>1 DEF RecordValues
<1>. QED  BY <1>2, <1>3

(* The rows of an accepted response are those of the page that was asked for. *)
LEMMA AnswerRows ==
  ASSUME scan \in Scans, PaginationIs(pagination), Between, Answered,
         NEW r, r = ReceivedAs(response), NEW d, d = Decode(response), d.s.error = "none",
         CheckStatus(profile, r.outcome.status)
  PROVE  RowsOfPage(d.rows, PageOf(pagination))
<1>1. PICK p, body, records, vals, n, rows :
        /\ p = PageOf(pagination) /\ body = r.exchange.body /\ records = RecordsIn(profile, body)
        /\ vals = ValuesIn(profile, records) /\ n = Len(records) /\ rows = d.rows
  OBVIOUS
<1>2. HonestRecords(profile, p, body)
  BY <1>1, AnswerHonest
<1>3. n = profile.page_rows[p]
  BY <1>1, <1>2 DEF HonestRecords
<1>4. \A j \in 1..n : records[j].fields[1].values[1].n = Before(p) + j
  BY <1>1, <1>2, <1>3 DEF HonestRecords, Before
<1>5. Rows(rows, vals, n, n) /\ n \in Nat
  <2>1. PICK memory : Whole(d, memory, profile.max_records, vals, n, HandedOver(profile, body))
                      /\ n \in Nat
    BY <1>1, AnswerWhole
  <2>. QED  BY <1>1, <2>1 DEF Whole
<1>6. IsList(rows) /\ Len(rows) = n
  BY <1>5, SeqList DEF Rows
<1>7. ASSUME NEW j \in 1..n
      PROVE  Position(rows[j]) = Before(p) + j
  <2>1. PICK values : values = vals[j]
    OBVIOUS
  <2>2. rows[j] = TypedRow(values) /\ FitsColumns(values, Len(Columns))
    BY <1>5, <2>1 DEF Rows
  <2>3. Position(rows[j]) = values[1].n /\ ~IsNull(values[1])
    BY <2>2, RowPosition
  <2>4. values[1] = records[j].fields[1].values[1]
    BY <1>1, <2>1, <2>3, FirstValue
  <2>. QED  BY <1>4, <2>3, <2>4
<1>. QED  BY <1>1, <1>3, <1>6, <1>7 DEF RowsOfPage

-----------------------------------------------------------------------------
(* Which page follows *)

\* The cursors fit into the memory, with what is decoded.
Paid(q) == \E decoded \in Nat : decoded + CursorBytes(q) <= Limits.memory

(* Then they fit by themselves. *)
LEMMA PaidBytes ==
  ASSUME NEW q, Paid(q), IsList(q.seen), \A i \in 1..Len(q.seen) : q.seen[i].bytes \in Nat
  PROVE  CursorBytes(q) <= Limits.memory
<1>1. PICK b, m : b = CursorBytes(q) /\ m = Limits.memory
  OBVIOUS
<1>2. b \in Nat
  BY <1>1, CursorBytesNat
<1>3. PICK decoded \in Nat : decoded + b <= m
  BY <1>1 DEF Paid
<1>4. m \in Nat
  BY <1>1, DecoderAssumption
<1>5. b <= m
  BY <1>2, <1>3, <1>4
<1>. QED  BY <1>1, <1>5

(* The end of the result. *)
LEMMA ExhaustedFollows ==
  ASSUME NEW p, PaginationIs(p), NEW q, q = Exhausted(p), Paid(q)
  PROVE  PaginationIs(q) /\ FollowsPage(q, LastPage)
<1>1. PICK g, u, m, a : g = p.page /\ u = p.seen /\ m = p.requested /\ a = p.state
  OBVIOUS
<1>2. p = [page |-> g, seen |-> u, requested |-> m, state |-> a]
  BY <1>1 DEF PaginationIs
<1>3. PICK e : e = "exhausted"
  OBVIOUS
<1>4. q = [page |-> g, seen |-> u, requested |-> m, state |-> e]
  BY <1>2, <1>3 DEF Exhausted
<1>5. q.page = g /\ q.seen = u /\ q.requested = m /\ q.state = e
  BY <1>4
<1>6. PaginationIs(q)
  <2>1. IsList(u) /\ \A i \in 1..Len(u) : u[i].bytes \in Nat
    BY <1>1 DEF PaginationIs
  <2>2. CursorBytes(q) <= Limits.memory
    BY <1>5, <2>1, PaidBytes
  <2>. QED  BY <1>1, <1>4, <1>5, <2>2 DEF PaginationIs
<1>. QED  BY <1>3, <1>5, <1>6 DEF FollowsPage

(* The next page of a REST result. *)
LEMMA FollowingFollows ==
  ASSUME NEW p, PaginationIs(p), ~IsGraphql, p.state = "active", p.page < LastPage,
         NEW q, q = Following(p, p.page + 1), Paid(q)
  PROVE  PaginationIs(q) /\ FollowsPage(q, p.page)
<1>1. PICK g, u, m, a : g = p.page /\ u = p.seen /\ m = p.requested /\ a = p.state
  OBVIOUS
<1>2. p = [page |-> g, seen |-> u, requested |-> m, state |-> a] /\ g \in Nat
  BY <1>1 DEF PaginationIs
<1>3. PICK h : h = g + 1
  OBVIOUS
<1>4. q = [page |-> h, seen |-> u, requested |-> m, state |-> a]
  BY <1>1, <1>2, <1>3 DEF Following
<1>5. q.page = h /\ q.seen = u /\ q.requested = m /\ q.state = a /\ h \in Nat
  BY <1>2, <1>3, <1>4
<1>6. PaginationIs(q)
  <2>1. IsList(u) /\ \A i \in 1..Len(u) : u[i].bytes \in Nat
    BY <1>1 DEF PaginationIs
  <2>2. CursorBytes(q) <= Limits.memory
    BY <1>5, <2>1, PaidBytes
  <2>. QED  BY <1>1, <1>4, <1>5, <2>2 DEF PaginationIs
<1>7. PageOf(q) = g + 1
  BY <1>3, <1>5 DEF PageOf
<1>. QED  BY <1>1, <1>5, <1>6, <1>7 DEF FollowsPage

(* The end of a GraphQL result, which forgets the cursors. *)
LEMMA CursorsForgotten ==
  ASSUME NEW p, PaginationIs(p), NEW q, q = [Exhausted(p) EXCEPT !.seen = <<>>],
         Paid(q)
  PROVE  PaginationIs(q) /\ FollowsPage(q, LastPage)
<1>1. PICK g, u, m, a : g = p.page /\ u = p.seen /\ m = p.requested /\ a = p.state
  OBVIOUS
<1>2. p = [page |-> g, seen |-> u, requested |-> m, state |-> a]
  BY <1>1 DEF PaginationIs
<1>3. PICK e, z : e = "exhausted" /\ z = <<>>
  OBVIOUS
<1>4. q = [page |-> g, seen |-> z, requested |-> m, state |-> e]
  BY <1>2, <1>3 DEF Exhausted
<1>5. q.page = g /\ q.seen = z /\ q.requested = m /\ q.state = e
  BY <1>4
<1>6. IsList(z) /\ Len(z) = 0
  BY <1>3 DEF IsList
<1>7. \A i \in 1..Len(z) : z[i].bytes \in Nat /\ z[i].text = i + 1
  BY <1>6
<1>8. PaginationIs(q)
  <2>1. CursorBytes(q) <= Limits.memory
    BY <1>5, <1>6, <1>7, PaidBytes
  <2>. QED  BY <1>1, <1>3, <1>4, <1>5, <1>6, <1>7, <2>1 DEF PaginationIs
<1>. QED  BY <1>3, <1>5, <1>8 DEF FollowsPage

(* The next page of a GraphQL result is named by a new cursor. *)
LEMMA CursorFollows ==
  ASSUME NEW p, PaginationIs(p), IsGraphql, p.state = "active", PageOf(p) < LastPage,
         NEW cursor, cursor.bytes \in Nat, cursor.text = PageOf(p) + 1,
         NEW q, q = [p EXCEPT !.seen = Append(@, cursor)], Paid(q)
  PROVE  PaginationIs(q) /\ FollowsPage(q, PageOf(p))
<1>1. PICK g, u, m, a, v, n : /\ g = p.page /\ u = p.seen /\ m = p.requested /\ a = p.state
                              /\ v = Append(u, cursor) /\ n = Len(u)
  OBVIOUS
<1>2. p = [page |-> g, seen |-> u, requested |-> m, state |-> a] /\ IsList(u)
  BY <1>1 DEF PaginationIs
<1>3. q = [page |-> g, seen |-> v, requested |-> m, state |-> a]
  BY <1>1, <1>2
<1>4. q.page = g /\ q.seen = v /\ q.requested = m /\ q.state = a
  BY <1>3
<1>5. /\ IsList(v) /\ Len(v) = n + 1 /\ v[n + 1] = cursor
      /\ \A i \in 1..n : v[i] = u[i]
  <2>1. v = Append(u, cursor) /\ n = Len(u) /\ IsList(u)
    BY <1>1, <1>2
  <2>2. IsList(v)
    BY <2>1, ListAppend
  <2>3. Len(v) = Len(u) + 1 /\ v[Len(u) + 1] = cursor
    BY <2>1, ListAppend
  <2>4. \A i \in 1..Len(u) : v[i] = u[i]
    BY <2>1, ListAppend
  <2>. QED  BY <2>1, <2>2, <2>3, <2>4
<1>6. n \in Nat /\ PageOf(p) = n + 1
  BY <1>1, <1>2, PageOfIs DEF IsList
<1>7. \A i \in 1..n : u[i].bytes \in Nat /\ u[i].text = i + 1
  BY <1>1 DEF PaginationIs
<1>8. ASSUME NEW i \in 1..Len(v)
      PROVE  v[i].bytes \in Nat /\ v[i].text = i + 1
  <2>1. i \in 1..n \/ i = n + 1
    BY <1>5, <1>6
  <2>. QED  BY <1>5, <1>6, <1>7, <2>1
<1>9. PaginationIs(q)
  <2>1. CursorBytes(q) <= Limits.memory
    BY <1>4, <1>5, <1>8, PaidBytes
  <2>. QED  BY <1>1, <1>3, <1>4, <1>5, <1>8, <2>1 DEF PaginationIs
<1>10. PageOf(q) = PageOf(p) + 1
  BY <1>4, <1>5, <1>6, <1>9, PageOfIs
<1>. QED  BY <1>1, <1>4, <1>9, <1>10 DEF FollowsPage

(* A pagination that has failed. *)
LEMMA FailedState ==
  ASSUME NEW p, PaginationIs(p)
  PROVE  Failed(p).state = "failed" /\ [Failed(p) EXCEPT !.seen = <<>>].state = "failed"
<1>1. PICK g, u, m, a, e :
        /\ g = p.page /\ u = p.seen /\ m = p.requested /\ a = p.state /\ e = "failed"
  OBVIOUS
<1>2. p = [page |-> g, seen |-> u, requested |-> m, state |-> a]
  BY <1>1 DEF PaginationIs
<1>3. PICK f, h : f = Failed(p) /\ h = [f EXCEPT !.seen = <<>>]
  OBVIOUS
<1>4. f = [page |-> g, seen |-> u, requested |-> m, state |-> e]
  BY <1>1, <1>2, <1>3 DEF Failed
<1>5. h = [page |-> g, seen |-> <<>>, requested |-> m, state |-> e]
  BY <1>3, <1>4
<1>. QED  BY <1>1, <1>3, <1>4, <1>5

(* Links: one that is due, or none. *)
LEMMA LinksFollow ==
  ASSUME scan \in Scans, NEW p, PaginationIs(p), p.state = "active",
         profile.strategy = "link_next", NEW body, NEW outcome,
         HonestSignal(profile, PageOf(p), body, outcome),
         NEW q, q = AdvanceByLinks(p, LinksOf(outcome)), q.state # "failed",
         Paid(q)
  PROVE  PaginationIs(q) /\ FollowsPage(q, PageOf(p))
<1>1. PICK links, next, last, c : /\ links = LinksOf(outcome) /\ last = Len(profile.page_rows)
                                  /\ next = {i \in DOMAIN links : HasNextRelation(links[i])}
                                  /\ c = PageOf(p)
  OBVIOUS
<1>2. ~IsGraphql /\ c = p.page /\ LastPage = last
  BY <1>1, LastPageIs, PageOfIs DEF IsGraphql
<1>3. /\ ParseLinkHeaderFields(links) /\ next = {} => c = last
      /\ next # {} /\ (\A i \in next : ValidateNextTarget(links[i].target, c))
           /\ (\A i, j \in next : i = j) => c < last
  BY <1>1 DEF HonestSignal
<1>4. Failed(p).state = "failed"
  BY FailedState
<1>5. ParseLinkHeaderFields(links) /\ \A i, j \in next : i = j
  <2>1. CASE \/ ~ParseLinkHeaderFields(links)
             \/ \E i, j \in next : i # j
    <3>1. q = Failed(p)
      BY <1>1, <2>1 DEF AdvanceByLinks
    <3>. QED  BY <1>4, <3>1
  <2>. QED  BY <2>1
<1>6. CASE next = {}
  <2>1. q = Exhausted(p)
    BY <1>1, <1>5, <1>6 DEF AdvanceByLinks
  <2>2. c = LastPage
    BY <1>2, <1>3, <1>5, <1>6
  <2>. QED  BY <1>1, <2>1, <2>2, ExhaustedFollows
<1>7. CASE next # {}
  <2>1. PICK i : i = CHOOSE j \in next : TRUE
    OBVIOUS
  <2>2. i \in next
    BY <1>7, <2>1
  <2>3. q = IF ValidateNextTarget(links[i].target, p.page)
            THEN Following(p, links[i].target.number) ELSE Failed(p)
    BY <1>1, <1>5, <1>7, <2>1 DEF AdvanceByLinks
  <2>4. ValidateNextTarget(links[i].target, c) /\ q = Following(p, links[i].target.number)
    BY <1>2, <1>4, <2>3
  <2>5. c < last
    BY <1>3, <1>5, <1>7, <2>2, <2>4
  <2>6. q = Following(p, p.page + 1)
    BY <1>2, <2>4 DEF ValidateNextTarget
  <2>. QED  BY <1>1, <1>2, <2>5, <2>6, FollowingFollows
<1>. QED  BY <1>6, <1>7

(* The next URL of the body: one that is due, or none. *)
LEMMA BodyFollows ==
  ASSUME scan \in Scans, NEW p, PaginationIs(p), p.state = "active",
         profile.strategy = "response_next", NEW body, NEW outcome,
         HonestSignal(profile, PageOf(p), body, outcome),
         NEW q, q = AdvanceBody(p, TakeNextUrl(body.next)), q.state # "failed",
         Paid(q)
  PROVE  PaginationIs(q) /\ FollowsPage(q, PageOf(p))
<1>1. PICK url, last, c : /\ url = TakeNextUrl(body.next) /\ last = Len(profile.page_rows)
                          /\ c = PageOf(p)
  OBVIOUS
<1>2. ~IsGraphql /\ c = p.page /\ LastPage = last
  BY <1>1, LastPageIs, PageOfIs DEF IsGraphql
<1>3. IF url = <<>> \/ url[1].bytes = 0 THEN c = last
      ELSE ValidateNextTarget(url[1].target, c) => c < last
  BY <1>1 DEF HonestSignal
<1>4. CASE url = <<>> \/ url[1].bytes = 0
  <2>1. q = Exhausted(p)
    BY <1>1, <1>4 DEF AdvanceBody
  <2>2. c = LastPage
    BY <1>2, <1>3, <1>4
  <2>. QED  BY <1>1, <2>1, <2>2, ExhaustedFollows
<1>5. CASE ~(url = <<>> \/ url[1].bytes = 0)
  <2>1. q = IF ValidateNextTarget(url[1].target, p.page)
            THEN Following(p, url[1].target.number) ELSE Failed(p)
    BY <1>1, <1>5 DEF AdvanceBody
  <2>2. ValidateNextTarget(url[1].target, c) /\ q = Following(p, url[1].target.number)
    BY <1>2, <2>1, FailedState
  <2>3. c < last
    BY <1>3, <1>5, <2>2
  <2>4. q = Following(p, p.page + 1)
    BY <1>2, <2>2 DEF ValidateNextTarget
  <2>. QED  BY <1>1, <1>2, <2>3, <2>4, FollowingFollows
<1>. QED  BY <1>4, <1>5

(* The row count: the first short page is the last. *)
LEMMA CountFollows ==
  ASSUME scan \in Scans, NEW p, PaginationIs(p), p.state = "active",
         profile.strategy = "short_page", PageOf(p) \in 1..LastPage,
         NEW rows, rows = profile.page_rows[PageOf(p)],
         NEW q, q = AdvanceByCount(p, rows, profile.page_size),
         Paid(q)
  PROVE  PaginationIs(q) /\ FollowsPage(q, PageOf(p))
<1>1. PICK n, c, last : n = Len(profile.page_rows) /\ c = PageOf(p) /\ last = LastPage
  OBVIOUS
<1>2. /\ ~IsGraphql /\ c = p.page /\ IsShort(last) /\ last \in 1..n /\ n \in Nat
      /\ \A i \in 1..n : profile.page_rows[i] \in Nat
  BY <1>1, LastPageIs, PageOfIs, PagesAre DEF IsGraphql
<1>3. c \in 1..last /\ c \in 1..n /\ rows \in Nat /\ profile.page_size \in Nat
  <2>1. c \in 1..last
    BY <1>1
  <2>2. c \in 1..n
    BY <1>2, <2>1
  <2>3. rows \in Nat
    BY <1>1, <1>2, <2>2
  <2>. QED  BY <2>1, <2>2, <2>3, StreamAssumption DEF profile
<1>4. profile.page_rows[last] < profile.page_size /\ profile.page_rows[last] \in Nat
  BY <1>2 DEF IsShort
<1>5. CASE rows = 0 \/ rows < profile.page_size
  <2>1. q = Exhausted(p)
    BY <1>5 DEF AdvanceByCount
  <2>2. rows < profile.page_size
    BY <1>3, <1>4, <1>5
  <2>3. c = last
    <3>1. SUFFICES ASSUME c # last PROVE FALSE
      OBVIOUS
    <3>2. c \in 1..(last - 1)
      BY <1>2, <1>3, <3>1
    <3>3. rows >= profile.page_size
      BY <1>1, <1>2, <3>2 DEF IsShort
    <3>. QED  BY <1>3, <2>2, <3>3
  <2>. QED  BY <1>1, <2>1, <2>3, ExhaustedFollows
<1>6. CASE ~(rows = 0 \/ rows < profile.page_size)
  <2>1. q = Following(p, p.page + 1)
    BY <1>6 DEF AdvanceByCount
  <2>2. c # last
    BY <1>1, <1>4, <1>6
  <2>3. c < last
    BY <1>2, <1>3, <2>2
  <2>. QED  BY <1>1, <1>2, <2>1, <2>3, FollowingFollows
<1>. QED  BY <1>5, <1>6

(* The end cursor: a new one, or none. *)
LEMMA CursorsFollow ==
  ASSUME scan \in Scans, NEW p, PaginationIs(p), p.state = "active",
         profile.strategy = "graphql_cursor", NEW body, NEW outcome,
         HonestSignal(profile, PageOf(p), body, outcome), CursorKept(profile, body),
         NEW q, q = AdvanceCursor(p, body.has_next.values[1].json = "true",
                                  body.end_cursor.values[1]),
         q.state # "failed", Paid(q)
  PROVE  PaginationIs(q) /\ FollowsPage(q, PageOf(p))
<1>1. PICK cursor, last, c, n : /\ cursor = body.end_cursor.values[1]
                                /\ last = Len(profile.page_rows)
                                /\ c = PageOf(p) /\ n = Len(p.seen)
  OBVIOUS
<1>2. IsGraphql /\ c = n + 1 /\ LastPage = last /\ n \in Nat
  BY <1>1, LastPageIs, PageOfIs DEF IsGraphql, PaginationIs, IsList
<1>3. CASE body.has_next.values[1].json # "true"
  <2>1. q = [Exhausted(p) EXCEPT !.seen = <<>>]
    BY <1>3 DEF AdvanceCursor
  <2>2. c = last
    BY <1>1, <1>3 DEF HonestSignal
  <2>. QED  BY <1>1, <1>2, <2>1, <2>2, CursorsForgotten
<1>4. CASE body.has_next.values[1].json = "true"
  <2>1. CASE IsNull(cursor) \/ cursor.bytes = 0
    <3>1. q = [Failed(p) EXCEPT !.seen = <<>>]
      BY <1>1, <1>4, <2>1 DEF AdvanceCursor
    <3>. QED  BY <3>1, FailedState
  <2>2. CASE ~(IsNull(cursor) \/ cursor.bytes = 0)
    <3>1. q = IF cursor.bytes > Limits.cursor \/ Repeated(p, cursor)
              THEN [Failed(p) EXCEPT !.seen = <<>>]
              ELSE [p EXCEPT !.seen = Append(@, cursor)]
      BY <1>1, <1>4, <2>2 DEF AdvanceCursor
    <3>2. /\ ~(cursor.bytes > Limits.cursor) /\ ~Repeated(p, cursor)
          /\ q = [p EXCEPT !.seen = Append(@, cursor)]
      BY <3>1, FailedState
    <3>3. cursor.bytes \in Nat
      BY <1>1, <2>2 DEF CursorKept
    <3>4. cursor.bytes \in 1..Limits.cursor
      BY <2>2, <3>2, <3>3, DecoderAssumption
    <3>5. cursor.text \notin 2..c
      <4>1. SUFFICES ASSUME cursor.text \in 2..c PROVE FALSE
        OBVIOUS
      <4>2. PICK i : i = cursor.text - 1
        OBVIOUS
      <4>3. i \in 1..n /\ cursor.text = i + 1
        BY <1>2, <4>1, <4>2
      <4>4. p.seen[i].text = i + 1 /\ i \in DOMAIN p.seen
        BY <1>1, <4>3 DEF PaginationIs, IsList
      <4>. QED  BY <3>2, <4>3, <4>4 DEF Repeated
    <3>6. cursor.text = c + 1 /\ c < last
      BY <1>1, <1>4, <2>2, <3>4, <3>5 DEF HonestSignal
    <3>. QED  BY <1>1, <1>2, <3>2, <3>3, <3>6, CursorFollows
  <2>. QED  BY <2>1, <2>2
<1>. QED  BY <1>3, <1>4

(* A response that is taken has the rows of its page and says what follows. *)
LEMMA TransitionFollows ==
  ASSUME scan \in Scans, PaginationIs(pagination), Between, Answered,
         NEW r, r = ReceivedAs(response), NEW d, d = Decode(response), d.s.error = "none",
         CheckStatus(profile, r.outcome.status),
         NEW next, next = Transition(r.exchange.body, r.outcome, Len(d.rows)),
         next.state # "failed", d.s.decoded + CursorBytes(next) <= Limits.memory
  PROVE  /\ PaginationIs(next)
         /\ RowsOfPage(d.rows, PageOf(pagination))
         /\ FollowsPage(next, PageOf(pagination))
<1>1. PICK body, outcome, c, p : /\ body = r.exchange.body /\ outcome = r.outcome
                                 /\ p = pagination /\ c = PageOf(p)
  OBVIOUS
<1>2. PICK rows : rows = Len(d.rows)
  OBVIOUS
<1>3. /\ next = Transition(body, outcome, rows) /\ PaginationIs(p) /\ p.state = "active"
      /\ c \in 1..LastPage
  BY <1>1, <1>2 DEF Between
<1>4. RowsOfPage(d.rows, c)
  BY <1>1, AnswerRows
<1>5. rows = profile.page_rows[PageOf(p)]
  BY <1>1, <1>2, <1>4 DEF RowsOfPage
<1>6. HonestSignal(profile, PageOf(p), body, outcome)
  BY <1>1, AnswerHonest
<1>7. Paid(next) /\ CursorKept(profile, body)
  <2>1. PICK records : records = RecordsIn(profile, body)
    OBVIOUS
  <2>2. PICK memory : /\ Whole(d, memory, profile.max_records, ValuesIn(profile, records),
                               Len(records), HandedOver(profile, body))
                      /\ CursorKept(profile, body)
    BY <1>1, <2>1, AnswerWhole
  <2>3. d.s.decoded \in Nat
    <3>1. PICK s : s = d.s
      OBVIOUS
    <3>2. s \in Parse
      BY <2>2, <3>1 DEF Whole, Sane
    <3>3. s.decoded \in Nat
      BY <3>2 DEF Parse
    <3>. QED  BY <3>1, <3>3
  <2>. QED  BY <2>2, <2>3 DEF Paid
<1>8. PaginationIs(next) /\ FollowsPage(next, PageOf(p))
  <2>1. profile.strategy \in Strategies
    BY StreamAssumption DEF profile
  <2>2. CASE profile.strategy = "disabled"
    <3>1. next = Exhausted(p)
      BY <1>1, <1>3, <2>2 DEF Transition
    <3>2. PICK last : last = LastPage
      OBVIOUS
    <3>3. last = 1
      BY <2>2, <3>2, LastPageIs
    <3>4. c = last
      BY <1>3, <3>2, <3>3
    <3>. QED  BY <1>1, <1>3, <1>7, <3>1, <3>2, <3>4, ExhaustedFollows
  <2>3. CASE profile.strategy = "link_next"
    <3>1. next = AdvanceByLinks(p, LinksOf(outcome))
      BY <1>1, <1>3, <2>3 DEF Transition
    <3>. QED  BY <1>3, <1>6, <1>7, <2>3, <3>1, LinksFollow
  <2>4. CASE profile.strategy = "response_next"
    <3>1. next = AdvanceBody(p, TakeNextUrl(body.next))
      BY <1>1, <1>3, <2>4 DEF Transition
    <3>. QED  BY <1>3, <1>6, <1>7, <2>4, <3>1, BodyFollows
  <2>5. CASE profile.strategy = "short_page"
    <3>1. next = AdvanceByCount(p, rows, profile.page_size)
      BY <1>1, <1>3, <2>5 DEF Transition
    <3>. QED  BY <1>1, <1>3, <1>5, <1>7, <2>5, <3>1, CountFollows
  <2>6. CASE profile.strategy = "graphql_cursor"
    <3>1. next = AdvanceCursor(p, body.has_next.values[1].json = "true",
                               body.end_cursor.values[1])
      BY <1>1, <1>3, <2>6, Zenon DEF Transition
    <3>. QED  BY <1>3, <1>6, <1>7, <2>6, <3>1, CursorsFollow
  <2>. QED  BY <2>1, <2>2, <2>3, <2>4, <2>5, <2>6 DEF Strategies
<1>. QED  BY <1>1, <1>4, <1>8

-----------------------------------------------------------------------------
(* The rows, step by step *)

(* The scan and its result stay what they are. *)
LEMMA ScanKept ==
  ASSUME UNCHANGED scan
  PROVE  /\ profile' = profile /\ IsGraphql' = IsGraphql
         /\ LastPage' = LastPage /\ TotalRows' = TotalRows
BY DEF profile, IsGraphql, LastPage, TotalRows, Before

(* A stream that has been released hands over nothing. *)
LEMMA OrderReleased ==
  ASSUME OrderInv, UNCHANGED <<scan, delivered, exhausted>>, closed => closed', Released',
         result' = "end" => result = "end" \/ exhausted \/ closed
  PROVE  OrderInv'
<1>1. TotalRows' = TotalRows
  BY ScanKept
<1>2. RowsInOrder'
  BY <1>1 DEF OrderInv, RowsInOrder, Position
<1>3. IsList(delivered)'
  BY DEF OrderInv, IsList
<1>. QED  BY <1>2, <1>3 DEF OrderInv, ProgressInv

(* Nor does a step that leaves the page and the pagination alone. *)
LEMMA OrderUnmoved ==
  ASSUME OrderInv,
         UNCHANGED <<scan, delivered, exhausted, pagination, response, page, page_loaded,
                     page_has_next, offset>>,
         closed => closed', Released => Released',
         result' = "end" => result = "end" \/ exhausted \/ closed,
         pc' = "decoding" => pc = "decoding"
  PROVE  OrderInv'
<1>1. TotalRows' = TotalRows
  BY ScanKept
<1>2. RowsInOrder'
  BY <1>1 DEF OrderInv, RowsInOrder, Position
<1>3. IsList(delivered)'
  BY DEF OrderInv, IsList
<1>4. ProgressInv'
  <2>. SUFFICES ASSUME ~Released'
                PROVE  ProgressInv'
    BY DEF ProgressInv
  <2>1. /\ PaginationIs(pagination)
        /\ ~page_loaded => Between
        /\ page_loaded => \E d \in 1..LastPage : Loaded(d)
        /\ pc = "decoding" => Answered
    BY DEF OrderInv, ProgressInv
  <2>2. PaginationIs(pagination)'
    BY <2>1 DEF PaginationIs, IsGraphql, profile
  <2>3. Between' <=> Between
    BY ScanKept DEF Between, PageOf, Before, profile
  <2>4. \A d : Loaded(d)' <=> Loaded(d)
    BY ScanKept DEF Loaded, RowsOfPage, FollowsPage, PageOf, Before, profile
  <2>5. Answered' <=> Answered
    BY ScanKept DEF Answered, PageOf
  <2>6. page_loaded' => \E d \in 1..LastPage' : Loaded(d)'
    BY <2>1, <2>4, ScanKept
  <2>. QED  BY <2>1, <2>2, <2>3, <2>5, <2>6 DEF ProgressInv
<1>. QED  BY <1>2, <1>3, <1>4 DEF OrderInv

(* A batch is the next rows of the page. *)
LEMMA ProduceBatchOrder ==
  ASSUME IInv, OrderInv, ProduceBatch
  PROVE  OrderInv'
<1>1. PICK b, p, o, t, u : /\ b = delivered /\ p = page /\ o = offset
                           /\ t = Produced.rows /\ u = delivered'
  OBVIOUS
<1>2. /\ pc = "pulling" /\ page_loaded /\ o < Len(p)
      /\ u = b \o t /\ offset' = Produced.offset
      /\ result' = "rows" /\ pc' = "out"
      /\ UNCHANGED <<scan, call, cancelled, closed, exhausted, terminal, pagination, response,
                     page, page_loaded, page_has_next>>
  BY <1>1 DEF ProduceBatch, Return, flags
<1>3. scan \in Scans /\ ~Released /\ ~exhausted
  <2>1. ControlTypes /\ ReleasedInv
    BY DEF IInv, StreamInv
  <2>. QED  BY <1>2, <2>1 DEF ControlTypes, ReleasedInv, Inside, Released
<1>4. PaginationIs(pagination) /\ \E d \in 1..LastPage : Loaded(d)
  BY <1>2, <1>3 DEF OrderInv, ProgressInv
<1>5. PICK d \in 1..LastPage : Loaded(d)
  BY <1>4
<1>6. PICK first : first = Before(d)
  OBVIOUS
<1>7. /\ IsList(p) /\ o \in 0..Len(p) /\ Len(b) = first + o
      /\ \A i \in 1..Len(p) : Position(p[i]) = first + i
      /\ FollowsPage(pagination, d) /\ (page_has_next <=> pagination.state = "active")
  BY <1>1, <1>5, <1>6 DEF Loaded, RowsOfPage
<1>8. /\ IsList(b) /\ \A i \in 1..Len(b) : Position(b[i]) = i
  <2>1. IsList(b) /\ \A i \in DOMAIN b : Position(b[i]) = i
    BY <1>1 DEF OrderInv, RowsInOrder
  <2>. QED  BY <2>1, ListSeq
<1>9. first \in Nat
  <2>1. PICK n : n = Len(profile.page_rows)
    OBVIOUS
  <2>2. LastPage \in 1..n /\ n \in Nat /\ \A i \in 1..n : Before(i) \in Nat
    BY <1>3, <2>1, LastPageIs, PagesAre
  <2>3. d \in 1..n
    BY <2>2
  <2>. QED  BY <1>6, <2>2, <2>3
<1>10. PICK m : /\ m = IF Len(p) - o < BatchRows THEN Len(p) - o ELSE BatchRows
  OBVIOUS
<1>11. /\ m \in Nat /\ o \in Nat /\ o + m <= Len(p) /\ Len(p) \in Nat
  <2>1. Len(p) \in Nat
    BY <1>7 DEF IsList
  <2>2. BatchRows \in Nat
    BY StreamAssumption
  <2>. QED  BY <1>2, <1>7, <1>10, <2>1, <2>2
<1>12. t = SubSeq(p, o + 1, o + m) /\ Produced.offset = o + m
  BY <1>1, <1>10 DEF Produced
<1>13. IsList(t) /\ Len(t) = m /\ \A i \in 1..m : t[i] = p[o + i]
  <2>1. IsList(p) /\ o \in Nat /\ m \in Nat /\ o + m <= Len(p) /\ t = SubSeq(p, o + 1, o + m)
    BY <1>7, <1>11, <1>12
  <2>2. IsList(t)
    BY <2>1, ListStretch
  <2>3. Len(t) = m
    BY <2>1, ListStretch
  <2>4. \A i \in 1..m : t[i] = p[o + i]
    BY <2>1, ListStretch
  <2>. QED  BY <2>2, <2>3, <2>4
<1>14. /\ IsList(u) /\ Len(u) = Len(b) + Len(t)
       /\ \A i \in 1..Len(b) : u[i] = b[i]
       /\ \A i \in 1..Len(t) : u[Len(b) + i] = t[i]
  <2>1. u = b \o t /\ IsList(b) /\ IsList(t)
    BY <1>2, <1>8, <1>13
  <2>2. IsList(u) /\ Len(u) = Len(b) + Len(t)
    BY <2>1, ListsJoin
  <2>3. \A i \in 1..Len(b) : u[i] = b[i]
    BY <2>1, ListsJoin
  <2>4. \A i \in 1..Len(t) : u[Len(b) + i] = t[i]
    BY <2>1, ListsJoin
  <2>. QED  BY <2>2, <2>3, <2>4
<1>15. PICK k : k = Len(b)
  OBVIOUS
<1>16. k \in Nat /\ k = first + o /\ Len(u) = k + m
  BY <1>7, <1>8, <1>13, <1>14, <1>15 DEF IsList
<1>17. ASSUME NEW i \in 1..(k + m)
       PROVE  Position(u[i]) = i
  <2>1. CASE i <= k
    <3>1. i \in 1..Len(b)
      BY <1>15, <1>16, <2>1
    <3>. QED  BY <1>8, <1>14, <3>1
  <2>2. CASE ~(i <= k)
    <3>1. PICK j : j = i - k
      OBVIOUS
    <3>2. j \in 1..m /\ i = k + j /\ o + j \in 1..Len(p)
      <4>1. k \in Nat /\ m \in Nat
        BY <1>11, <1>16
      <4>2. j \in 1..m /\ i = k + j
        BY <2>2, <3>1, <4>1
      <4>3. o + j \in 1..Len(p)
        BY <1>11, <4>2
      <4>. QED  BY <4>2, <4>3
    <3>3. u[i] = t[j] /\ t[j] = p[o + j]
      BY <1>13, <1>14, <1>15, <3>2
    <3>4. Position(p[o + j]) = first + (o + j)
      BY <1>7, <3>2
    <3>5. first + (o + j) = i
      BY <1>9, <1>11, <1>16, <3>2
    <3>. QED  BY <3>3, <3>4, <3>5
  <2>. QED  BY <2>1, <2>2
<1>18. RowsInOrder'
  <2>1. \A i \in DOMAIN u : Position(u[i]) = i
    BY <1>14, <1>16, <1>17, ListSeq
  <2>. QED  BY <1>1, <1>2, <1>3, <2>1 DEF RowsInOrder, Position
<1>19. Loaded(d)'
  <2>1. offset' \in 0..Len(p) /\ Len(u) = first + offset'
    BY <1>2, <1>9, <1>11, <1>12, <1>16
  <2>2. RowsOfPage(page, d)' <=> RowsOfPage(page, d)
    BY <1>2 DEF RowsOfPage, Before, profile
  <2>3. FollowsPage(pagination, d)' <=> FollowsPage(pagination, d)
    BY <1>2, ScanKept DEF FollowsPage, PageOf
  <2>4. Before(d)' = first
    BY <1>2, <1>6 DEF Before, profile
  <2>5. RowsOfPage(page, d)
    BY <1>5 DEF Loaded
  <2>. QED  BY <1>1, <1>2, <1>7, <2>1, <2>2, <2>3, <2>4, <2>5 DEF Loaded
<1>20. ProgressInv'
  <2>1. PaginationIs(pagination)'
    BY <1>2, <1>4 DEF PaginationIs, IsGraphql, profile
  <2>2. LastPage' = LastPage
    BY <1>2, ScanKept
  <2>3. \E x \in 1..LastPage' : Loaded(x)'
    BY <1>19, <2>2
  <2>. QED  BY <1>2, <2>1, <2>3 DEF ProgressInv
<1>21. IsList(delivered)'
  BY <1>1, <1>14 DEF IsList
<1>. QED  BY <1>18, <1>20, <1>21 DEF OrderInv

(* All rows of a page are out: the next page is due, or there is none. *)
LEMMA FinishPageOrder ==
  ASSUME IInv, OrderInv, FinishPage
  PROVE  OrderInv'
<1>1. /\ pc = "pulling" /\ page_loaded /\ offset = Len(page) /\ page_loaded' = FALSE
      /\ UNCHANGED <<scan, delivered, call, closed, terminal, pagination>>
  BY Zenon DEF FinishPage
<1>2. scan \in Scans /\ ~Released
  <2>1. ControlTypes /\ ReleasedInv
    BY DEF IInv, StreamInv
  <2>. QED  BY <1>1, <2>1 DEF ControlTypes, ReleasedInv, Inside
<1>3. PaginationIs(pagination) /\ \E d \in 1..LastPage : Loaded(d)
  BY <1>1, <1>2 DEF OrderInv, ProgressInv
<1>4. PICK d \in 1..LastPage : Loaded(d)
  BY <1>3
<1>5. PICK n, last : n = Len(profile.page_rows) /\ last = LastPage
  OBVIOUS
<1>6. /\ last \in 1..n /\ n \in Nat /\ d \in 1..last
      /\ Before(d) \in Nat /\ Before(d + 1) = Before(d) + profile.page_rows[d]
  <2>1. last \in 1..n /\ n \in Nat
    BY <1>2, <1>5, LastPageIs, PagesAre
  <2>2. d \in 1..last
    BY <1>5
  <2>3. d \in 1..n
    BY <2>1, <2>2
  <2>. QED  BY <1>2, <1>5, <2>1, <2>2, <2>3, PagesAre
<1>7. Len(delivered) = Before(d + 1)
  BY <1>1, <1>4, <1>6 DEF Loaded, RowsOfPage
<1>8. /\ profile' = profile /\ IsGraphql' = IsGraphql
      /\ LastPage' = LastPage /\ TotalRows' = TotalRows
  BY <1>1, ScanKept
<1>9. /\ IsList(delivered)'
      /\ (\A i \in DOMAIN delivered : Position(delivered[i]) = i)'
  BY <1>1 DEF OrderInv, RowsInOrder, IsList, Position
<1>10. CASE page_has_next
  <2>1. pc' = "fetching" /\ UNCHANGED <<result, exhausted>>
    BY <1>10, Zenon DEF FinishPage
  <2>2. pagination.state = "active" /\ PageOf(pagination) = d + 1 /\ d < last
    BY <1>4, <1>5, <1>10 DEF Loaded, FollowsPage
  <2>3. PageOf(pagination) \in 1..LastPage /\ Len(delivered) = Before(PageOf(pagination))
    BY <1>5, <1>6, <1>7, <2>2
  <2>4. Between
    BY <2>2, <2>3 DEF Between
  <2>5. Between'
    BY <1>1, <1>8, <2>4 DEF Between, PageOf, Before
  <2>6. PaginationIs(pagination)'
    BY <1>1, <1>3, <1>8 DEF PaginationIs
  <2>7. ProgressInv'
    BY <1>1, <2>1, <2>5, <2>6 DEF ProgressInv
  <2>8. RowsInOrder'
    BY <1>1, <1>8, <1>9, <2>1 DEF OrderInv, RowsInOrder
  <2>. QED  BY <1>9, <2>7, <2>8 DEF OrderInv
<1>11. CASE ~page_has_next
  <2>1. exhausted' = TRUE
    BY <1>11, Zenon DEF FinishPage
  <2>2. d = LastPage
    BY <1>4, <1>11 DEF Loaded, FollowsPage
  <2>3. Len(delivered) = TotalRows
    BY <1>7, <2>2 DEF TotalRows
  <2>4. RowsInOrder'
    BY <1>1, <1>8, <1>9, <2>1, <2>3 DEF RowsInOrder
  <2>5. ProgressInv'
    BY <2>1 DEF ProgressInv, Released
  <2>. QED  BY <1>9, <2>4, <2>5 DEF OrderInv
<1>. QED  BY <1>10, <1>11

(* A request that has started asks for the same page. *)
LEMMA StartedIs ==
  ASSUME PaginationIs(pagination), NEW q, q = RequestStarted, q.state = "active"
  PROVE  PaginationIs(q) /\ PageOf(q) = PageOf(pagination) /\ pagination.state = "active"
<1>1. CASE ~IsGraphql
  <2>1. q = pagination
    BY <1>1 DEF RequestStarted
  <2>. QED  BY <2>1
<1>2. CASE IsGraphql
  <2>1. PICK p, g, u, m, a, h : /\ p = pagination /\ g = p.page /\ u = p.seen /\ h = p.requested + 1
                                /\ m = p.requested /\ a = p.state
    OBVIOUS
  <2>2. p = [page |-> g, seen |-> u, requested |-> m, state |-> a] /\ PaginationIs(p)
    BY <2>1 DEF PaginationIs
  <2>3. a = "active" /\ q = [p EXCEPT !.requested = h]
    <3>1. q = IF a # "active" \/ p.requested >= profile.max_pages THEN Failed(p)
              ELSE [p EXCEPT !.requested = h]
      BY <1>2, <2>1 DEF RequestStarted, MarkRequestStarted
    <3>. QED  BY <2>2, <3>1, FailedState
  <2>4. q = [page |-> g, seen |-> u, requested |-> h, state |-> a]
    BY <2>2, <2>3
  <2>5. q.page = g /\ q.seen = u /\ q.requested = h /\ q.state = a
    BY <2>4
  <2>6. CursorBytes(q) = CursorBytes(p)
    BY <2>1, <2>5 DEF CursorBytes
  <2>7. PaginationIs(q)
    BY <2>1, <2>2, <2>4, <2>5, <2>6 DEF PaginationIs
  <2>8. PageOf(q) = PageOf(p)
    BY <2>1, <2>5 DEF PageOf
  <2>. QED  BY <2>1, <2>3, <2>7, <2>8
<1>. QED  BY <1>1, <1>2

(* The response at hand answers the request that was made, or there is none. *)
LEMMA ReceiveResponseOrder ==
  ASSUME IInv, OrderInv, ReceiveResponse, ~Fail
  PROVE  OrderInv'
<1>1. PICK c, q : c = RequestedPage /\ q = RequestStarted
  OBVIOUS
<1>2. PICK k \in DOMAIN Received[scan][c] :
        /\ pc = "fetching" /\ q.state = "active"
        /\ Received[scan][c][k].outcome.failure = "none"
        /\ response' = <<c, k>> /\ pagination' = q /\ pc' = "decoding"
        /\ UNCHANGED <<scan, result, delivered, call, cancelled, closed, exhausted, terminal,
                       page_loaded>>
  BY <1>1 DEF ReceiveResponse, flags
<1>3. scan \in Scans /\ ~Released /\ ~page_loaded
  <2>1. ControlTypes /\ ReleasedInv /\ ActiveInv
    BY DEF IInv, StreamInv
  <2>2. ~Released
    BY <1>2, <2>1 DEF ReleasedInv, Inside
  <2>. QED  BY <1>2, <2>1, <2>2 DEF ControlTypes, ActiveInv
<1>4. PaginationIs(pagination) /\ Between
  BY <1>3 DEF OrderInv, ProgressInv
<1>5. PaginationIs(q) /\ PageOf(q) = PageOf(pagination) /\ c = PageOf(pagination)
  BY <1>1, <1>2, <1>4, StartedIs DEF RequestedPage, PageOf
<1>6. /\ profile' = profile /\ IsGraphql' = IsGraphql
      /\ LastPage' = LastPage /\ TotalRows' = TotalRows
  BY <1>2, ScanKept
<1>7. PaginationIs(pagination)'
  BY <1>2, <1>5, <1>6 DEF PaginationIs
<1>8. PageOf(pagination)' = c
  BY <1>2, <1>5, <1>6 DEF PageOf
<1>9. Between'
  <2>1. c \in 1..LastPage /\ Len(delivered) = Before(c)
    BY <1>4, <1>5 DEF Between
  <2>. QED  BY <1>2, <1>6, <1>8, <2>1 DEF Between, Before
<1>10. Answered'
  <2>1. k \in DOMAIN Remote[scan][c]
    <3>1. PICK n : n = Len(profile.page_rows)
      OBVIOUS
    <3>2. n \in Nat /\ DOMAIN Remote[scan] = 1..n /\ LastPage \in 1..n
      BY <1>3, <3>1, PagesAre, LastPageIs
    <3>3. c \in 1..LastPage
      BY <1>4, <1>5 DEF Between
    <3>4. c \in DOMAIN Remote[scan]
      BY <3>2, <3>3
    <3>. QED  BY <1>2, <1>3, <3>4, ReceivedIs
  <2>. QED  BY <1>2, <1>8, <2>1 DEF Answered
<1>11. RowsInOrder' /\ IsList(delivered)'
  BY <1>2, <1>6 DEF OrderInv, RowsInOrder, Position, IsList
<1>12. ProgressInv'
  BY <1>2, <1>3, <1>7, <1>9, <1>10 DEF ProgressInv
<1>. QED  BY <1>11, <1>12 DEF OrderInv

(* A page is installed with the pagination that follows it. *)
LEMMA FetchPageOrder ==
  ASSUME IInv, OrderInv, FetchPage, ~Fail
  PROVE  OrderInv'
<1>1. PICK d, r : d = Decode(response) /\ r = ReceivedAs(response)
  OBVIOUS
<1>2. PICK next : next = Transition(r.exchange.body, r.outcome, Len(d.rows))
  OBVIOUS
<1>3. /\ pc = "decoding" /\ CheckStatus(profile, r.outcome.status) /\ d.s.error = "none"
      /\ next.state # "failed" /\ d.s.decoded + CursorBytes(next) <= Limits.memory
      /\ InstallPage(d.rows, next)
  BY <1>1, <1>2, Zenon DEF FetchPage
<1>4. /\ page' = d.rows /\ offset' = 0 /\ page_loaded' = TRUE
      /\ page_has_next' = (next.state = "active") /\ pagination' = next /\ pc' = "pulling"
      /\ UNCHANGED <<scan, result, delivered, call, cancelled, closed, exhausted, terminal>>
  BY <1>3, Zenon DEF InstallPage, flags
<1>5. scan \in Scans /\ ~Released /\ ~page_loaded
  <2>1. ControlTypes /\ ReleasedInv /\ ActiveInv
    BY DEF IInv, StreamInv
  <2>2. ~Released
    BY <1>3, <2>1 DEF ReleasedInv, Inside
  <2>. QED  BY <1>3, <2>1, <2>2 DEF ControlTypes, ActiveInv
<1>6. PaginationIs(pagination) /\ Between /\ Answered
  BY <1>3, <1>5 DEF OrderInv, ProgressInv
<1>7. PICK c : c = PageOf(pagination)
  OBVIOUS
<1>8. PaginationIs(next) /\ RowsOfPage(d.rows, c) /\ FollowsPage(next, c)
  BY <1>1, <1>2, <1>3, <1>5, <1>6, <1>7, TransitionFollows
<1>9. /\ profile' = profile /\ IsGraphql' = IsGraphql
      /\ LastPage' = LastPage /\ TotalRows' = TotalRows
  BY <1>4, ScanKept
<1>10. PaginationIs(pagination)'
  BY <1>4, <1>8, <1>9 DEF PaginationIs
<1>11. Loaded(c)'
  <2>1. RowsOfPage(page, c)'
    BY <1>4, <1>8, <1>9 DEF RowsOfPage, Before, Position
  <2>2. FollowsPage(pagination, c)'
    BY <1>4, <1>8, <1>9 DEF FollowsPage, PageOf
  <2>3. offset' \in 0..Len(page')
    <3>1. Len(d.rows) \in Nat
      BY <1>8 DEF RowsOfPage, IsList
    <3>. QED  BY <1>4, <3>1
  <2>4. Len(delivered') = Before(c)' + offset'
    <3>1. PICK b : b = Before(c)
      OBVIOUS
    <3>2. Len(delivered) = b
      BY <1>6, <1>7, <3>1 DEF Between
    <3>3. PICK n : n = Len(profile.page_rows)
      OBVIOUS
    <3>4. n \in Nat /\ LastPage \in 1..n /\ \A i \in 1..n : Before(i) \in Nat
      BY <1>5, <3>3, PagesAre, LastPageIs
    <3>5. c \in 1..LastPage
      BY <1>6, <1>7 DEF Between
    <3>6. c \in 1..n
      BY <3>4, <3>5
    <3>7. b \in Nat
      BY <3>1, <3>4, <3>6
    <3>8. Before(c)' = b
      BY <1>9, <3>1 DEF Before
    <3>. QED  BY <1>4, <3>2, <3>7, <3>8
  <2>5. (page_has_next <=> pagination.state = "active")'
    BY <1>4, Zenon
  <2>. QED  BY <2>1, <2>2, <2>3, <2>4, <2>5 DEF Loaded
<1>12. c \in 1..LastPage'
  BY <1>6, <1>7, <1>9 DEF Between
<1>13. RowsInOrder' /\ IsList(delivered)'
  BY <1>4, <1>9 DEF OrderInv, RowsInOrder, Position, IsList
<1>14. \E x \in 1..LastPage' : Loaded(x)'
  BY <1>11, <1>12
<1>15. ProgressInv'
  BY <1>4, <1>10, <1>14 DEF ProgressInv
<1>. QED  BY <1>13, <1>15 DEF OrderInv

(* A failure hands over nothing. *)
LEMMA FailOrder ==
  ASSUME OrderInv, Fail
  PROVE  OrderInv'
<1>1. terminal' = TRUE /\ result' = "failed" /\ UNCHANGED <<scan, delivered, closed, exhausted>>
  BY DEF Fail, RememberCurrentFailure, Return
<1>2. Released'
  BY <1>1 DEF Released
<1>. QED  BY <1>1, <1>2, OrderReleased

(* A call, and the entry into it: the end is reported of a stream that was
   exhausted or closed. *)
LEMMA EnterOrder ==
  ASSUME OrderInv, CallNext \/ EnterNext \/ StartFetch
  PROVE  OrderInv'
<1>1. /\ UNCHANGED <<scan, delivered, exhausted, pagination, response, page, page_loaded,
                     page_has_next, offset, call, closed, terminal>>
      /\ pc' \in {"locking", "out", "pulling", "fetching"}
      /\ result' = "end" => result = "end" \/ exhausted \/ closed
  <2>1. CASE CallNext
    BY <2>1 DEF CallNext, flags, private
  <2>2. CASE EnterNext
    BY <2>2 DEF EnterNext, Return, flags
  <2>3. CASE StartFetch
    BY <2>3 DEF StartFetch, flags, private
  <2>. QED  BY <2>1, <2>2, <2>3
<1>2. Released' <=> Released
  BY <1>1 DEF Released
<1>3. pc' # "decoding"
  BY <1>1
<1>. QED  BY <1>1, <1>2, <1>3, OrderUnmoved

(* The flag moves nothing, and who gets the mutex after it releases the stream. *)
LEMMA StopOrder ==
  ASSUME IInv, OrderInv, NEW t \in Threads,
         \/ Request(t, "Cancel") \/ Request(t, "Close")
         \/ Cancel(t) \/ Close(t)
  PROVE  OrderInv'
<1>1. call \in [Threads -> {"out", "Cancel", "Close", "returned"}]
  BY DEF IInv, ControlTypes
<1>2. CASE Request(t, "Cancel") \/ Request(t, "Close")
  <2>1. PICK kind \in {"Cancel", "Close"} : Request(t, kind)
    BY <1>2
  <2>2. /\ call[t] = "out" /\ call' = [call EXCEPT ![t] = kind]
        /\ UNCHANGED <<scan, pc, result, delivered, closed, exhausted, terminal, pagination,
                       response, page, page_loaded, page_has_next, offset>>
    BY <2>1 DEF Request, pull, private
  <2>3. \A s \in Threads : call'[s] = "returned" <=> call[s] = "returned"
    BY <1>1, <2>2
  <2>4. Released => Released'
    BY <2>2, <2>3 DEF Released
  <2>. QED  BY <2>2, <2>4, OrderUnmoved
<1>3. CASE Cancel(t) \/ Close(t)
  <2>1. /\ call' = [call EXCEPT ![t] = "returned"]
        /\ UNCHANGED <<scan, result, delivered, exhausted>>
        /\ closed => closed'
    BY <1>3 DEF Cancel, Close, pull, flags
  <2>2. call'[t] = "returned"
    BY <1>1, <2>1
  <2>3. Released'
    BY <2>2 DEF Released
  <2>. QED  BY <2>1, <2>3, OrderReleased
<1>. QED  BY <1>2, <1>3

(* Opening a scan hands over nothing, and neither does a step of nobody. *)
LEMMA OpeningOrder ==
  ASSUME OrderInv, UNCHANGED stream
  PROVE  OrderInv'
<1>1. UNCHANGED <<scan, pc, result, delivered, exhausted, pagination, response, page,
                  page_loaded, page_has_next, offset, call, closed, terminal>>
  BY DEF stream, pull, flags
<1>2. Released' <=> Released
  BY <1>1 DEF Released
<1>. QED  BY <1>1, <1>2, OrderUnmoved

(* Every step keeps the order. *)
LEMMA NextOrder ==
  ASSUME IInv, OrderInv, [ExecutorNext]_allVars
  PROVE  OrderInv'
<1>1. CASE OpenNext
  <2>1. UNCHANGED stream
    <3>1. CASE Open
      BY <3>1 DEF Open, Refuse
    <3>2. ASSUME NEW a \in Alternatives, OpenAuthorizationEnvelope(a)
          PROVE  UNCHANGED stream
      BY <3>2, Zenon DEF OpenAuthorizationEnvelope, Refuse
    <3>3. CASE AcquireCredentialResolution
      BY <3>3, Zenon DEF AcquireCredentialResolution, Refuse
    <3>4. CASE ResolveCredential \/ AcquireScan \/ RefuseOpening \/ CloseExecutor
      BY <3>4, Zenon DEF ResolveCredential, AcquireScan, RefuseOpening, CloseExecutor, Refuse
    <3>. QED  BY <1>1, <3>1, <3>2, <3>3, <3>4 DEF OpenNext
  <2>. QED  BY <2>1, OpeningOrder
<1>2. CASE Next
  <2>1. CASE CallNext \/ EnterNext \/ StartFetch
    BY <2>1, EnterOrder
  <2>2. CASE ProduceBatch
    BY <2>2, ProduceBatchOrder
  <2>3. CASE FinishPage
    BY <2>3, FinishPageOrder
  <2>4. CASE ReceiveResponse
    BY <2>4, ReceiveResponseOrder, FailOrder
  <2>5. CASE FetchPage
    BY <2>5, FetchPageOrder, FailOrder
  <2>6. CASE FailPull
    <3>1. Fail
      BY <2>6 DEF FailPull
    <3>. QED  BY <3>1, FailOrder
  <2>7. CASE \E t \in Threads : \/ Request(t, "Cancel") \/ Request(t, "Close")
                                \/ Cancel(t) \/ Close(t)
    BY <2>7, StopOrder
  <2>. QED  BY <1>2, <2>1, <2>2, <2>3, <2>4, <2>5, <2>6, <2>7 DEF Next, Pull
<1>3. CASE UNCHANGED allVars
  <2>1. UNCHANGED stream
    BY <1>3 DEF allVars, vars, stream, private
  <2>. QED  BY <2>1, OpeningOrder
<1>. QED  BY <1>1, <1>2, <1>3 DEF ExecutorNext

(* The order holds before the scan is opened. *)
LEMMA InitOrder ==
  ASSUME ExecutorInit
  PROVE  OrderInv
<1>1. /\ scan \in Scans /\ delivered = <<>> /\ exhausted = FALSE /\ result = "none"
      /\ pagination = FirstPage /\ page_loaded = FALSE /\ pc = "out"
  BY DEF ExecutorInit, Init
<1>2. IsList(delivered) /\ Len(delivered) = 0 /\ DOMAIN delivered = {}
  BY <1>1 DEF IsList
<1>3. RowsInOrder
  BY <1>1, <1>2 DEF RowsInOrder
<1>4. PICK p, z : p = pagination /\ z = p.seen
  OBVIOUS
<1>5. p = [page |-> 1, seen |-> <<>>, requested |-> 0, state |-> "active"]
  BY <1>1, <1>4 DEF FirstPage
<1>6. p.page = 1 /\ z = <<>> /\ p.requested = 0 /\ p.state = "active"
  BY <1>4, <1>5
<1>7. IsList(z) /\ Len(z) = 0
  BY <1>6 DEF IsList
<1>8. CursorBytes(p) <= Limits.memory
  <2>1. PICK none : none = [i \in 1..Len(z) |-> IF z[i].bytes <= Sizes.inline THEN 0
                                                ELSE StringCapacity[z[i].bytes] + 1]
    OBVIOUS
  <2>2. CursorBytes(p) = SumOf(none) /\ Len(none) = 0
    BY <1>4, <1>7, <2>1 DEF CursorBytes
  <2>3. Sums(none)[0] = 0
    BY <2>2, SumsStep
  <2>4. Limits.memory \in Nat
    BY DecoderAssumption
  <2>. QED  BY <2>2, <2>3, <2>4 DEF SumOf
<1>9. PaginationIs(p)
  BY <1>4, <1>5, <1>6, <1>7, <1>8 DEF PaginationIs
<1>10. PageOf(p) = 1
  BY <1>4, <1>6 DEF PageOf
<1>11. Between
  <2>1. PICK n, last : n = Len(profile.page_rows) /\ last = LastPage
    OBVIOUS
  <2>2. last \in 1..n /\ n \in Nat /\ Before(1) = 0
    BY <1>1, <2>1, PagesAre, LastPageIs
  <2>3. 1 \in 1..last
    BY <2>2
  <2>. QED  BY <1>2, <1>4, <1>6, <1>10, <2>1, <2>2, <2>3 DEF Between
<1>12. ProgressInv
  BY <1>1, <1>4, <1>9, <1>11 DEF ProgressInv
<1>. QED  BY <1>2, <1>3, <1>12 DEF OrderInv

(* The pages before the one at hand have been handed over, and that one up to the
   offset: an invariant of every opening, pull, Cancel and Close. *)
THEOREM OrderInvariance == ExecutorSpec => []OrderInv
<1>1. ExecutorInit => OrderInv
  BY InitOrder
<1>2. IInv /\ OrderInv /\ [ExecutorNext]_allVars => OrderInv'
  BY NextOrder
<1>. QED  BY <1>1, <1>2, Invariance, PTL DEF ExecutorSpec

(* The consumer gets the rows of the result once each and in order, in batches of
   any size, from pages of any number and any size, by every strategy, and hears
   of the end after the last one, unless the stream was closed: ProduceBatch,
   FinishPage and FetchPage neither lose, repeat nor reorder a row, and no
   response that is refused, cancelled or late disturbs the pages after it. *)
THEOREM RowsStayInOrder == ExecutorSpec => []RowsInOrder
<1>1. OrderInv => RowsInOrder
  BY DEF OrderInv
<1>. QED  BY <1>1, OrderInvariance, PTL

(* Whatever document is received, of any size, a parse never holds more than its
   memory, and one without an error has kept every column's shape, the record
   budget and the exact balance of what its rows own: by DecodeJsonPage and by
   DecodeGraphqlResponse, within any limits. *)
THEOREM DecodingIsExact == ExecutorSpec => []DecodedExactly
<1>1. IInv /\ OrderInv => DecodedExactly
  BY InvDecodes
<1>. QED  BY <1>1, Invariance, OrderInvariance, PTL

-----------------------------------------------------------------------------
(* Lists of lists *)

(* Lists with the same elements are the same. *)
LEMMA SameList ==
  ASSUME NEW s, IsList(s), NEW t, IsList(t), Len(s) = Len(t), \A i \in 1..Len(s) : s[i] = t[i]
  PROVE  s = t
<1>1. PICK n : n = Len(s)
  OBVIOUS
<1>2. s = [i \in 1..n |-> s[i]] /\ t = [i \in 1..n |-> t[i]]
  BY <1>1 DEF IsList
<1>. QED  BY <1>1, <1>2

(* It does not matter in which order lists are put together. *)
LEMMA JoinsAssociate ==
  ASSUME NEW a, IsList(a), NEW b, IsList(b), NEW c, IsList(c)
  PROVE  (a \o b) \o c = a \o (b \o c)
<1>1. PICK ab, bc, l, r : ab = a \o b /\ bc = b \o c /\ l = ab \o c /\ r = a \o bc
  OBVIOUS
<1>2. /\ IsList(ab) /\ Len(ab) = Len(a) + Len(b) /\ \A i \in 1..Len(a) : ab[i] = a[i]
      /\ \A i \in 1..Len(b) : ab[Len(a) + i] = b[i]
  <2>1. IsList(ab)
    BY <1>1, ListsJoin
  <2>2. Len(ab) = Len(a) + Len(b)
    BY <1>1, ListsJoin
  <2>3. \A i \in 1..Len(a) : ab[i] = a[i]
    BY <1>1, ListsJoin
  <2>4. \A i \in 1..Len(b) : ab[Len(a) + i] = b[i]
    BY <1>1, ListsJoin
  <2>. QED  BY <2>1, <2>2, <2>3, <2>4
<1>3. /\ IsList(bc) /\ Len(bc) = Len(b) + Len(c) /\ \A i \in 1..Len(b) : bc[i] = b[i]
      /\ \A i \in 1..Len(c) : bc[Len(b) + i] = c[i]
  <2>1. IsList(bc)
    BY <1>1, ListsJoin
  <2>2. Len(bc) = Len(b) + Len(c)
    BY <1>1, ListsJoin
  <2>3. \A i \in 1..Len(b) : bc[i] = b[i]
    BY <1>1, ListsJoin
  <2>4. \A i \in 1..Len(c) : bc[Len(b) + i] = c[i]
    BY <1>1, ListsJoin
  <2>. QED  BY <2>1, <2>2, <2>3, <2>4
<1>4. /\ IsList(l) /\ Len(l) = Len(ab) + Len(c) /\ \A i \in 1..Len(ab) : l[i] = ab[i]
      /\ \A i \in 1..Len(c) : l[Len(ab) + i] = c[i]
  <2>1. IsList(l)
    BY <1>1, <1>2, ListsJoin
  <2>2. Len(l) = Len(ab) + Len(c)
    BY <1>1, <1>2, ListsJoin
  <2>3. \A i \in 1..Len(ab) : l[i] = ab[i]
    BY <1>1, <1>2, ListsJoin
  <2>4. \A i \in 1..Len(c) : l[Len(ab) + i] = c[i]
    BY <1>1, <1>2, ListsJoin
  <2>. QED  BY <2>1, <2>2, <2>3, <2>4
<1>5. /\ IsList(r) /\ Len(r) = Len(a) + Len(bc) /\ \A i \in 1..Len(a) : r[i] = a[i]
      /\ \A i \in 1..Len(bc) : r[Len(a) + i] = bc[i]
  <2>1. IsList(r)
    BY <1>1, <1>3, ListsJoin
  <2>2. Len(r) = Len(a) + Len(bc)
    BY <1>1, <1>3, ListsJoin
  <2>3. \A i \in 1..Len(a) : r[i] = a[i]
    BY <1>1, <1>3, ListsJoin
  <2>4. \A i \in 1..Len(bc) : r[Len(a) + i] = bc[i]
    BY <1>1, <1>3, ListsJoin
  <2>. QED  BY <2>1, <2>2, <2>3, <2>4
<1>6. PICK x, y, z : x = Len(a) /\ y = Len(b) /\ z = Len(c) /\ x \in Nat /\ y \in Nat /\ z \in Nat
  BY DEF IsList
<1>7. Len(l) = x + y + z /\ Len(r) = x + y + z
  BY <1>2, <1>3, <1>4, <1>5, <1>6
<1>8. ASSUME NEW i \in 1..(x + y + z)
      PROVE  l[i] = r[i]
  <2>1. CASE i <= x
    <3>1. l[i] = ab[i] /\ ab[i] = a[i] /\ r[i] = a[i]
      BY <1>2, <1>4, <1>5, <1>6, <2>1
    <3>. QED  BY <3>1
  <2>2. CASE i > x /\ i <= x + y
    <3>1. PICK j : j = i - x
      OBVIOUS
    <3>2. j \in 1..y /\ j \in 1..(y + z) /\ i = x + j /\ i \in 1..(x + y)
      BY <1>6, <2>2, <3>1
    <3>3. l[i] = ab[i]
      BY <1>2, <1>4, <1>6, <3>2
    <3>4. ab[i] = b[j]
      BY <1>2, <1>6, <3>2
    <3>5. r[i] = bc[j]
      BY <1>3, <1>5, <1>6, <3>2
    <3>6. bc[j] = b[j]
      BY <1>3, <1>6, <3>2
    <3>. QED  BY <3>3, <3>4, <3>5, <3>6
  <2>3. CASE i > x + y
    <3>1. PICK j, k : j = i - (x + y) /\ k = i - x
      OBVIOUS
    <3>2. j \in 1..z /\ k \in 1..(y + z) /\ i = (x + y) + j /\ i = x + k /\ k = y + j
      BY <1>6, <2>3, <3>1
    <3>3. l[i] = c[j]
      BY <1>2, <1>4, <1>6, <3>2
    <3>4. r[i] = bc[k]
      BY <1>3, <1>5, <1>6, <3>2
    <3>5. bc[k] = c[j]
      BY <1>3, <1>6, <3>2
    <3>. QED  BY <3>3, <3>4, <3>5
  <2>. QED  BY <1>6, <2>1, <2>2, <2>3
<1>9. l = r
  BY <1>4, <1>5, <1>7, <1>8, SameList
<1>. QED  BY <1>1, <1>9

(* Nothing put before or after a list leaves it as it is. *)
LEMMA JoinsEmpty ==
  ASSUME NEW a, IsList(a)
  PROVE  <<>> \o a = a /\ a \o <<>> = a /\ IsList(<<>>)
<1>1. PICK e, l, r : e = <<>> /\ l = e \o a /\ r = a \o e
  OBVIOUS
<1>2. IsList(e) /\ Len(e) = 0
  BY <1>1 DEF IsList
<1>3. Len(a) \in Nat
  BY DEF IsList
<1>4. l = a
  <2>1. IsList(l)
    BY <1>1, <1>2, ListsJoin
  <2>2. Len(l) = Len(a)
    BY <1>1, <1>2, <1>3, ListsJoin
  <2>3. \A i \in 1..Len(a) : l[Len(e) + i] = a[i]
    BY <1>1, <1>2, ListsJoin
  <2>4. \A i \in 1..Len(a) : l[i] = a[i]
    BY <1>2, <1>3, <2>3
  <2>. QED  BY <2>1, <2>2, <2>4, SameList
<1>5. r = a
  <2>1. IsList(r)
    BY <1>1, <1>2, ListsJoin
  <2>2. Len(r) = Len(a)
    BY <1>1, <1>2, <1>3, ListsJoin
  <2>3. \A i \in 1..Len(a) : r[i] = a[i]
    BY <1>1, <1>2, ListsJoin
  <2>. QED  BY <2>1, <2>2, <2>3, SameList
<1>. QED  BY <1>1, <1>2, <1>4, <1>5

AreLists(q) == IsList(q) /\ \A i \in 1..Len(q) : IsList(q[i])

Joined(a, b) == a \o b

Flattened(q) ==
  LET flatten[i \in 1..Len(q)] == IF i = 1 THEN q[i] ELSE Joined(flatten[i - 1], q[i])
  IN  flatten

(* The lists of a list, one after the other. *)
LEMMA FlattenedDef ==
  ASSUME NEW q
  PROVE  Flattened(q) = [i \in 1..Len(q) |->
                           IF i = 1 THEN q[i] ELSE Joined(Flattened(q)[i - 1], q[i])]
BY SMTT(60) DEF Flattened

(* FlattenSeq is the last of them. *)
LEMMA FlattenIs ==
  ASSUME NEW q
  PROVE  FlattenSeq(q) = IF Len(q) = 0 THEN q ELSE Flattened(q)[Len(q)]
BY DEF FlattenSeq, Flattened, Joined

(* One list at a time is added. *)
LEMMA FlattenedStep ==
  ASSUME NEW q, AreLists(q), NEW f, f = Flattened(q)
  PROVE  /\ Len(q) >= 1 => f[1] = q[1]
         /\ \A i \in 1..Len(q) : i > 1 => f[i] = Joined(f[i - 1], q[i])
<1>1. f = [i \in 1..Len(q) |-> IF i = 1 THEN q[i] ELSE Joined(f[i - 1], q[i])]
  BY FlattenedDef
<1>2. Len(q) \in Nat
  BY DEF AreLists, IsList
<1>. QED  BY <1>1, <1>2

(* What is put together is a list, and that of a prefix depends on it alone. *)
LEMMA FlattenedAgree ==
  ASSUME NEW q, AreLists(q), NEW r, AreLists(r), NEW n \in Nat, n <= Len(q), n <= Len(r),
         \A i \in 1..n : q[i] = r[i]
  PROVE  \A i \in 1..n : Flattened(q)[i] = Flattened(r)[i] /\ IsList(Flattened(q)[i])
<1>1. PICK f, g : f = Flattened(q) /\ g = Flattened(r)
  OBVIOUS
<1>2. Len(q) \in Nat /\ Len(r) \in Nat
  BY DEF AreLists, IsList
<1>3. PICK S : S = {k \in Nat : k + 1 <= n => f[k + 1] = g[k + 1] /\ IsList(f[k + 1])}
  OBVIOUS
<1>4. 0 \in S
  <2>1. ASSUME 0 + 1 <= n
        PROVE  f[0 + 1] = g[0 + 1] /\ IsList(f[0 + 1])
    <3>1. f[1] = q[1] /\ g[1] = r[1]
      BY <1>1, <1>2, <2>1, FlattenedStep
    <3>2. q[1] = r[1] /\ IsList(q[1])
      BY <1>2, <2>1 DEF AreLists
    <3>. QED  BY <3>1, <3>2
  <2>. QED  BY <1>3, <2>1
<1>5. ASSUME NEW k \in Nat, k \in S
      PROVE  k + 1 \in S
  <2>1. ASSUME (k + 1) + 1 <= n
        PROVE  f[(k + 1) + 1] = g[(k + 1) + 1] /\ IsList(f[(k + 1) + 1])
    <3>1. PICK m : m = k + 1
      OBVIOUS
    <3>2. /\ m \in Nat /\ m + 1 \in 1..Len(q) /\ m + 1 \in 1..Len(r) /\ m + 1 \in 1..n
          /\ (m + 1) - 1 = m /\ m + 1 > 1
      BY <1>2, <2>1, <3>1
    <3>3. f[m] = g[m] /\ IsList(f[m])
      BY <1>3, <1>5, <2>1, <3>1
    <3>4. f[m + 1] = Joined(f[m], q[m + 1])
      BY <1>1, <3>2, FlattenedStep
    <3>5. g[m + 1] = Joined(g[m], r[m + 1])
      BY <1>1, <3>2, FlattenedStep
    <3>6. q[m + 1] = r[m + 1] /\ IsList(q[m + 1])
      BY <3>2 DEF AreLists
    <3>7. IsList(f[m + 1])
      <4>1. PICK a, b : a = f[m] /\ b = q[m + 1]
        OBVIOUS
      <4>2. IsList(a) /\ IsList(b) /\ f[m + 1] = a \o b
        BY <3>3, <3>4, <3>6, <4>1 DEF Joined
      <4>. QED  BY <4>2, ListsJoin
    <3>. QED  BY <3>1, <3>3, <3>4, <3>5, <3>6, <3>7
  <2>. QED  BY <1>3, <2>1
<1>6. \A k \in Nat : k \in S
  BY <1>4, <1>5, SetInduction
<1>7. ASSUME NEW i \in 1..n
      PROVE  f[i] = g[i] /\ IsList(f[i])
  <2>1. PICK k : k = i - 1
    OBVIOUS
  <2>2. k \in Nat /\ k + 1 = i /\ k + 1 <= n
    BY <2>1
  <2>. QED  BY <1>3, <1>6, <2>2
<1>. QED  BY <1>1, <1>7

(* Lists put together are a list. *)
LEMMA FlattenList ==
  ASSUME NEW q, AreLists(q)
  PROVE  IsList(FlattenSeq(q))
<1>1. Len(q) \in Nat
  BY DEF AreLists, IsList
<1>2. CASE Len(q) = 0
  BY <1>2, FlattenIs DEF AreLists
<1>3. CASE Len(q) # 0
  <2>1. Len(q) \in 1..Len(q)
    BY <1>1, <1>3
  <2>2. IsList(Flattened(q)[Len(q)])
    BY <1>1, <2>1, FlattenedAgree
  <2>. QED  BY <1>3, <2>2, FlattenIs
<1>. QED  BY <1>2, <1>3

(* One list more. *)
LEMMA FlattenExtends ==
  ASSUME NEW q, AreLists(q), NEW r, AreLists(r), Len(r) = Len(q) + 1,
         \A i \in 1..Len(q) : r[i] = q[i]
  PROVE  FlattenSeq(r) = FlattenSeq(q) \o r[Len(q) + 1]
<1>1. PICK n : n = Len(q) /\ n \in Nat
  BY DEF AreLists, IsList
<1>2. PICK f : f = Flattened(r)
  OBVIOUS
<1>3. n + 1 \in 1..Len(r) /\ Len(r) # 0 /\ IsList(r[n + 1])
  BY <1>1 DEF AreLists
<1>4. FlattenSeq(r) = f[n + 1]
  BY <1>1, <1>2, <1>3, FlattenIs
<1>5. CASE n = 0
  <2>1. FlattenSeq(q) = q
    BY <1>1, <1>5, FlattenIs
  <2>2. q = <<>>
    BY <1>1, <1>5 DEF AreLists, IsList
  <2>3. f[1] = r[1]
    BY <1>1, <1>2, <1>3, FlattenedStep
  <2>4. n + 1 = 1
    BY <1>5
  <2>5. <<>> \o r[n + 1] = r[n + 1]
    BY <1>3, JoinsEmpty
  <2>. QED  BY <1>1, <1>4, <2>1, <2>2, <2>3, <2>4, <2>5
<1>6. CASE n # 0
  <2>1. n \in 1..n /\ n <= Len(q) /\ n <= Len(r) /\ n + 1 > 1 /\ (n + 1) - 1 = n
    BY <1>1, <1>6
  <2>2. Flattened(q)[n] = f[n]
    BY <1>1, <1>2, <2>1, FlattenedAgree
  <2>3. FlattenSeq(q) = Flattened(q)[n]
    BY <1>1, <1>6, FlattenIs
  <2>4. f[n + 1] = Joined(f[n], r[n + 1])
    BY <1>2, <1>3, <2>1, FlattenedStep
  <2>. QED  BY <1>1, <1>4, <2>2, <2>3, <2>4 DEF Joined
<1>. QED  BY <1>5, <1>6

(* More at the end of the last list. *)
LEMMA FlattenGrows ==
  ASSUME NEW q, AreLists(q), NEW r, AreLists(r), Len(r) = Len(q), Len(q) >= 1, NEW e, IsList(e),
         \A i \in 1..(Len(q) - 1) : r[i] = q[i], r[Len(q)] = q[Len(q)] \o e
  PROVE  FlattenSeq(r) = FlattenSeq(q) \o e
<1>1. PICK n : n = Len(q) - 1 /\ n \in Nat /\ Len(q) = n + 1
  BY DEF AreLists, IsList
<1>2. PICK p : p = [i \in 1..n |-> q[i]]
  OBVIOUS
<1>3. Len(p) = n /\ IsList(p)
  BY <1>1, <1>2 DEF IsList
<1>4. AreLists(p) /\ \A i \in 1..n : p[i] = q[i] /\ p[i] = r[i]
  BY <1>1, <1>2, <1>3 DEF AreLists
<1>5. FlattenSeq(q) = FlattenSeq(p) \o q[n + 1]
  BY <1>1, <1>3, <1>4, FlattenExtends
<1>6. FlattenSeq(r) = FlattenSeq(p) \o r[n + 1]
  BY <1>1, <1>3, <1>4, FlattenExtends
<1>7. IsList(FlattenSeq(p))
  BY <1>4, FlattenList
<1>8. IsList(q[n + 1])
  BY <1>1 DEF AreLists
<1>9. PICK a, b : a = FlattenSeq(p) /\ b = q[n + 1]
  OBVIOUS
<1>10. (a \o b) \o e = a \o (b \o e)
  <2>1. IsList(a) /\ IsList(b)
    BY <1>7, <1>8, <1>9
  <2>. QED  BY <2>1, JoinsAssociate
<1>11. FlattenSeq(r) = a \o (b \o e)
  BY <1>1, <1>6, <1>9
<1>. QED  BY <1>5, <1>9, <1>10, <1>11

-----------------------------------------------------------------------------
(* The metadata of a response *)

IsKept(e) == {"bytes", "items"} \subseteq DOMAIN e /\ e.bytes \in Nat /\ IsList(e.items)

AreValues(v) == IsList(v) /\ \A i \in 1..Len(v) : IsKept(v[i])

StringSizes(v) == [i \in DOMAIN v |-> StringBytes(v[i].bytes)]

\* What a vector of values costs, at so much for each beside its string.
Kept(v, unit) == Len(v) * unit + SumOf(StringSizes(v))

(* A string costs no more than was planned for it. *)
LEMMA EnvelopeHolds ==
  ASSUME NEW size \in Nat
  PROVE  /\ StringBytes(size) \in Nat /\ StringAllocationEnvelope(size) \in Nat
         /\ StringBytes(size) <= StringAllocationEnvelope(size)
BY TransportAssumption DEF StringBytes, StringAllocationEnvelope

(* The sizes of the strings. *)
LEMMA StringSizesAre ==
  ASSUME NEW v, AreValues(v)
  PROVE  /\ Len(StringSizes(v)) = Len(v) /\ Len(v) \in Nat /\ DOMAIN v = 1..Len(v)
         /\ \A i \in 1..Len(v) : StringSizes(v)[i] = StringBytes(v[i].bytes)
                                 /\ StringSizes(v)[i] \in Nat
<1>1. DOMAIN v = 1..Len(v) /\ Len(v) \in Nat
  BY ListSeq DEF AreValues
<1>2. PICK q : q = StringSizes(v)
  OBVIOUS
<1>3. q = [i \in 1..Len(v) |-> StringBytes(v[i].bytes)]
  BY <1>1, <1>2 DEF StringSizes
<1>4. Len(q) = Len(v)
  BY <1>1, <1>3
<1>5. ASSUME NEW i \in 1..Len(v)
      PROVE  q[i] = StringBytes(v[i].bytes) /\ q[i] \in Nat
  BY <1>3, EnvelopeHolds DEF AreValues, IsKept
<1>. QED  BY <1>1, <1>2, <1>4, <1>5

(* Costs are numbers. *)
LEMMA KeptNat ==
  ASSUME NEW v, AreValues(v), NEW unit \in Nat
  PROVE  Kept(v, unit) \in Nat /\ SumOf(StringSizes(v)) \in Nat
<1>1. PICK q : q = StringSizes(v)
  OBVIOUS
<1>2. Len(q) \in Nat /\ Len(q) = Len(v) /\ \A i \in 1..Len(q) : q[i] \in Nat
  BY <1>1, StringSizesAre
<1>3. Sums(q)[Len(q)] \in Nat
  <2>1. Len(q) \in 0..Len(q)
    BY <1>2
  <2>. QED  BY <1>2, <2>1, SumsNat
<1>. QED  BY <1>1, <1>2, <1>3 DEF Kept, SumOf

(* No values cost nothing. *)
LEMMA KeptNone ==
  ASSUME NEW unit \in Nat
  PROVE  Kept(<<>>, unit) = 0 /\ AreValues(<<>>)
<1>1. PICK v : v = <<>>
  OBVIOUS
<1>2. IsList(v) /\ Len(v) = 0
  BY <1>1 DEF IsList
<1>3. AreValues(v)
  BY <1>2 DEF AreValues
<1>4. PICK q : q = StringSizes(v)
  OBVIOUS
<1>5. Len(q) = 0
  BY <1>2, <1>3, <1>4, StringSizesAre
<1>6. Sums(q)[0] = 0
  BY <1>5, SumsStep
<1>7. Kept(v, unit) = 0
  BY <1>2, <1>4, <1>5, <1>6 DEF Kept, SumOf
<1>. QED  BY <1>1, <1>3, <1>7

(* One value more. *)
LEMMA KeptAppend ==
  ASSUME NEW v, AreValues(v), NEW unit \in Nat, NEW e, IsKept(e), NEW u, u = Append(v, e)
  PROVE  AreValues(u) /\ Kept(u, unit) = Kept(v, unit) + unit + StringBytes(e.bytes)
<1>1. IsList(v)
  BY DEF AreValues
<1>2. IsList(u)
  BY <1>1, ListAppend
<1>3. Len(u) = Len(v) + 1 /\ u[Len(v) + 1] = e
  BY <1>1, ListAppend
<1>4. \A i \in 1..Len(v) : u[i] = v[i]
  BY <1>1, ListAppend
<1>5. PICK n : n = Len(v) /\ n \in Nat
  BY <1>1 DEF IsList
<1>6. AreValues(u)
  <2>1. ASSUME NEW i \in 1..(n + 1)
        PROVE  IsKept(u[i])
    <3>1. CASE i = n + 1
      BY <1>3, <1>5, <3>1
    <3>2. CASE i # n + 1
      <4>1. i \in 1..n
        BY <1>5, <3>2
      <4>. QED  BY <1>4, <1>5, <4>1 DEF AreValues
    <3>. QED  BY <3>1, <3>2
  <2>. QED  BY <1>2, <1>3, <1>5, <2>1 DEF AreValues
<1>7. PICK q, r : q = StringSizes(v) /\ r = StringSizes(u)
  OBVIOUS
<1>8. Len(q) = n /\ \A i \in 1..n : q[i] = StringBytes(v[i].bytes)
  BY <1>5, <1>7, StringSizesAre
<1>9. Len(r) = n + 1 /\ \A i \in 1..(n + 1) : r[i] = StringBytes(u[i].bytes)
  BY <1>3, <1>5, <1>6, <1>7, StringSizesAre
<1>10. \A i \in 1..n : r[i] = q[i]
  BY <1>4, <1>5, <1>8, <1>9
<1>11. r[n + 1] = StringBytes(e.bytes)
  BY <1>3, <1>5, <1>9
<1>12. SumOf(r) = SumOf(q) + r[n + 1]
  BY <1>5, <1>8, <1>9, <1>10, SumExtends
<1>13. SumOf(q) \in Nat /\ StringBytes(e.bytes) \in Nat
  BY <1>7, KeptNat, EnvelopeHolds DEF IsKept
<1>14. (n + 1) * unit = n * unit + unit /\ n * unit \in Nat
  BY <1>5
<1>15. Kept(u, unit) = (n + 1) * unit + SumOf(r) /\ Kept(v, unit) = n * unit + SumOf(q)
  BY <1>3, <1>5, <1>7 DEF Kept
<1>. QED  BY <1>6, <1>11, <1>12, <1>13, <1>14, <1>15

(* The last value grows. *)
LEMMA KeptGrows ==
  ASSUME NEW v, AreValues(v), Len(v) >= 1, NEW unit \in Nat, NEW size \in Nat, NEW items,
         IsList(items), NEW u, IsList(u), {"bytes", "items"} \subseteq DOMAIN u[Len(v)], Len(u) = Len(v), \A i \in 1..(Len(v) - 1) : u[i] = v[i],
         u[Len(v)].bytes = v[Len(v)].bytes + size, u[Len(v)].items = v[Len(v)].items \o items
  PROVE  /\ AreValues(u)
         /\ Kept(u, unit) <= Kept(v, unit) + StringBytes(v[Len(v)].bytes + size)
<1>1. PICK n : n = Len(v) - 1 /\ n \in Nat /\ Len(v) = n + 1
  BY DEF AreValues, IsList
<1>2. PICK big : big = v[n + 1].bytes + size
  OBVIOUS
<1>3. v[n + 1].bytes \in Nat /\ IsList(v[n + 1].items) /\ big \in Nat
  BY <1>1, <1>2 DEF AreValues, IsKept
<1>4. u[n + 1].bytes = big /\ IsList(u[n + 1].items)
  <2>1. PICK a, b : a = v[n + 1].items /\ b = u[n + 1].items
    OBVIOUS
  <2>2. IsList(a) /\ b = a \o items
    BY <1>1, <1>3, <2>1
  <2>3. IsList(b)
    BY <2>2, ListsJoin
  <2>. QED  BY <1>1, <1>2, <2>1, <2>3
<1>5. AreValues(u)
  <2>1. ASSUME NEW i \in 1..(n + 1)
        PROVE  IsKept(u[i])
    <3>1. CASE i = n + 1
      BY <1>1, <1>3, <1>4, <3>1 DEF IsKept
    <3>2. CASE i # n + 1
      <4>1. i \in 1..n /\ i \in 1..Len(v)
        BY <1>1, <3>2
      <4>. QED  BY <1>1, <4>1 DEF AreValues
    <3>. QED  BY <3>1, <3>2
  <2>. QED  BY <1>1, <2>1 DEF AreValues
<1>6. PICK q, r : q = StringSizes(v) /\ r = StringSizes(u)
  OBVIOUS
<1>7. Len(q) = n + 1 /\ \A i \in 1..(n + 1) : q[i] = StringBytes(v[i].bytes) /\ q[i] \in Nat
  BY <1>1, <1>6, StringSizesAre
<1>8. Len(r) = n + 1 /\ \A i \in 1..(n + 1) : r[i] = StringBytes(u[i].bytes) /\ r[i] \in Nat
  BY <1>1, <1>5, <1>6, StringSizesAre
<1>9. PICK f, g : f = Sums(q) /\ g = Sums(r)
  OBVIOUS
<1>10. /\ n + 1 \in 1..Len(q) /\ n + 1 \in 1..Len(r) /\ (n + 1) - 1 = n /\ n \in 0..Len(q)
       /\ Len(q) \in Nat /\ Len(r) \in Nat /\ n <= Len(q) /\ n <= Len(r)
  BY <1>1, <1>7, <1>8
<1>11. f[n + 1] = f[n] + q[n + 1]
  BY <1>9, <1>10, SumsStep
<1>12. g[n + 1] = g[n] + r[n + 1]
  BY <1>9, <1>10, SumsStep
<1>13. ASSUME NEW i \in 1..n
       PROVE  q[i] = r[i]
  <2>1. i \in 1..(n + 1) /\ i \in 1..(Len(v) - 1)
    BY <1>1
  <2>2. q[i] = StringBytes(v[i].bytes) /\ r[i] = StringBytes(u[i].bytes) /\ u[i] = v[i]
    BY <1>7, <1>8, <2>1
  <2>. QED  BY <2>2
<1>14. f[n] = g[n]
  BY <1>1, <1>9, <1>10, <1>13, SumsAgree
<1>15. f[n] \in Nat
  BY <1>1, <1>7, <1>9, <1>10, SumsNat
<1>16. q[n + 1] \in Nat /\ r[n + 1] = StringBytes(big) /\ StringBytes(big) \in Nat
  BY <1>3, <1>4, <1>7, <1>8, <1>10, EnvelopeHolds
<1>17. SumOf(q) = f[n + 1] /\ SumOf(r) = g[n + 1]
  BY <1>7, <1>8, <1>9 DEF SumOf
<1>18. SumOf(r) <= SumOf(q) + StringBytes(big)
  BY <1>11, <1>12, <1>14, <1>15, <1>16, <1>17
<1>19. SumOf(r) \in Nat /\ SumOf(q) \in Nat /\ (n + 1) * unit \in Nat
  BY <1>1, <1>5, <1>6, KeptNat
<1>20. Kept(u, unit) = (n + 1) * unit + SumOf(r) /\ Kept(v, unit) = (n + 1) * unit + SumOf(q)
  BY <1>1, <1>6 DEF Kept
<1>. QED  BY <1>1, <1>2, <1>5, <1>16, <1>18, <1>19, <1>20

(* What is retained is what its three vectors cost. *)
LEMMA RetainedIs ==
  ASSUME NEW s, AreValues(s.links), AreValues(s.dates), AreValues(s.fields)
  PROVE  RetainedMetadataBytes(s) =
           Kept(s.links, Storage.string) + Kept(s.dates, Storage.string)
           + Kept(s.fields, Storage.field + Storage.name)
<1>1. Storage.string \in Nat /\ Storage.field \in Nat /\ Storage.name \in Nat
  BY TransportAssumption
<1>2. PICK l, d, f : l = s.links /\ d = s.dates /\ f = s.fields
  OBVIOUS
<1>3. PICK a, b, c : a = SumOf(StringSizes(l)) /\ b = SumOf(StringSizes(d)) /\ c = SumOf(StringSizes(f))
  OBVIOUS
<1>4. a \in Nat /\ b \in Nat /\ c \in Nat /\ Len(l) \in Nat /\ Len(d) \in Nat /\ Len(f) \in Nat
  BY <1>1, <1>2, <1>3, KeptNat, StringSizesAre
<1>5. \A q : Total(q) = SumOf(q)
  BY DEF Total, SumOf, Sums
<1>6. RetainedMetadataBytes(s) =
        (Len(l) + Len(d)) * Storage.string + a + b + Len(f) * (Storage.field + Storage.name) + c
  BY <1>2, <1>3, <1>5, Zenon DEF RetainedMetadataBytes, StringSizes
<1>7. PICK x, y, z : /\ x = Len(l) * Storage.string /\ y = Len(d) * Storage.string
                     /\ z = Len(f) * (Storage.field + Storage.name)
  OBVIOUS
<1>8. (Len(l) + Len(d)) * Storage.string = x + y /\ x \in Nat /\ y \in Nat
  <2>1. \A i, j, unit \in Nat : /\ (i + j) * unit = i * unit + j * unit
                               /\ i * unit \in Nat /\ j * unit \in Nat
    OBVIOUS
  <2>2. PICK i, j, unit \in Nat : i = Len(l) /\ j = Len(d) /\ unit = Storage.string
    BY <1>1, <1>4
  <2>3. (i + j) * unit = i * unit + j * unit /\ i * unit \in Nat /\ j * unit \in Nat
    BY <2>1
  <2>. QED  BY <1>7, <2>2, <2>3
<1>10. PICK unit : unit = Storage.field + Storage.name /\ unit \in Nat
  BY <1>1
<1>11. z \in Nat
  BY <1>4, <1>7, <1>10
<1>12. Kept(l, Storage.string) = x + a /\ Kept(d, Storage.string) = y + b
  BY <1>3, <1>7 DEF Kept
<1>13. Kept(f, Storage.field + Storage.name) = z + c
  BY <1>3, <1>7 DEF Kept
<1>14. RetainedMetadataBytes(s) = x + y + a + b + z + c
  BY <1>6, <1>7, <1>8
<1>. QED  BY <1>2, <1>4, <1>8, <1>11, <1>12, <1>13, <1>14

-----------------------------------------------------------------------------
(* The accumulator of a transfer *)

AccFields ==
  {"header_bytes", "response_bytes", "body", "links", "fields", "dates", "complete",
   "retry_after", "encoding_seen", "chunked", "content_encoded", "kind", "status", "socket",
   "flags", "aborted"}

IsAcc(s) == s = [f \in AccFields |-> s[f]]

Kinds == {"fields", "dates", "links"}

WellKept(s) ==
  /\ IsAcc(s)
  /\ AreValues(s.links) /\ AreValues(s.dates) /\ AreValues(s.fields)
  /\ \A i \in 1..Len(s.fields) : "name" \in DOMAIN s.fields[i]
  /\ s.kind \subseteq Kinds
  /\ ~s.aborted => \A k \in s.kind : Len(s[k]) >= 1

SameValues(s, t) == t.links = s.links /\ t.dates = s.dates /\ t.fields = s.fields

\* Only what is retained may differ.
Quiet(s, t) ==
  /\ t.header_bytes = s.header_bytes
  /\ t.response_bytes = s.response_bytes
  /\ t.body = s.body
  /\ t.socket = s.socket
  /\ t.status = s.status
  /\ t.complete = s.complete
  /\ t.chunked = s.chunked

Refused(limits, s, t) ==
  /\ WellKept(t) /\ Quiet(s, t) /\ t.aborted
  /\ RetainedMetadataBytes(t) <= limits.metadata

(* A refusal ends the transfer and changes nothing else. *)
LEMMA Aborts ==
  ASSUME NEW s, IsAcc(s), NEW flag, NEW t, t = Abort(s, flag)
  PROVE  IsAcc(t) /\ Quiet(s, t) /\ SameValues(s, t) /\ t.kind = s.kind /\ t.aborted
BY DEF IsAcc, AccFields, Abort, Quiet, SameValues

(* Retained metadata is given up. *)
LEMMA ReleasesAll ==
  ASSUME NEW s, IsAcc(s), NEW t, t = ReleaseAllCurlMetadata(s)
  PROVE  /\ IsAcc(t) /\ Quiet(s, t) /\ t.kind = s.kind /\ t.aborted = s.aborted
         /\ t.links = <<>> /\ t.dates = <<>> /\ t.fields = <<>>
BY DEF IsAcc, AccFields, ReleaseAllCurlMetadata, Quiet

(* Nothing retained costs nothing. *)
LEMMA NothingRetained ==
  ASSUME NEW s, s.links = <<>>, s.dates = <<>>, s.fields = <<>>
  PROVE  /\ RetainedMetadataBytes(s) = 0
         /\ AreValues(s.links) /\ AreValues(s.dates) /\ AreValues(s.fields) /\ Len(s.fields) = 0
<1>1. Storage.string \in Nat /\ Storage.field + Storage.name \in Nat
  BY TransportAssumption
<1>2. AreValues(<<>>)
  BY <1>1, KeptNone
<1>3. Kept(<<>>, Storage.string) = 0
  BY <1>1, KeptNone
<1>4. Kept(<<>>, Storage.field + Storage.name) = 0
  BY <1>1, KeptNone
<1>5. RetainedMetadataBytes(s) =
        Kept(s.links, Storage.string) + Kept(s.dates, Storage.string)
        + Kept(s.fields, Storage.field + Storage.name)
  BY <1>2, RetainedIs
<1>. QED  BY <1>2, <1>3, <1>4, <1>5

(* What is retained is a number, and the same for the same values. *)
LEMMA RetainedNat ==
  ASSUME NEW s, WellKept(s)
  PROVE  RetainedMetadataBytes(s) \in Nat
<1>1. Storage.string \in Nat /\ Storage.field + Storage.name \in Nat
  BY TransportAssumption
<1>2. Kept(s.links, Storage.string) \in Nat /\ Kept(s.dates, Storage.string) \in Nat
  BY <1>1, KeptNat DEF WellKept
<1>3. Kept(s.fields, Storage.field + Storage.name) \in Nat
  BY <1>1, KeptNat DEF WellKept
<1>. QED  BY <1>2, <1>3, RetainedIs DEF WellKept

(* It depends on the values alone. *)
LEMMA RetainedSame ==
  ASSUME NEW s, NEW t, SameValues(s, t)
  PROVE  RetainedMetadataBytes(t) = RetainedMetadataBytes(s)
BY DEF RetainedMetadataBytes, SameValues

(* A refusal with the metadata kept. *)
LEMMA AbortRefuses ==
  ASSUME NEW limits, NEW s, WellKept(s), RetainedMetadataBytes(s) <= limits.metadata,
         NEW flag, NEW t, t = Abort(s, flag)
  PROVE  Refused(limits, s, t)
<1>1. IsAcc(t) /\ Quiet(s, t) /\ SameValues(s, t) /\ t.kind = s.kind /\ t.aborted
  BY Aborts DEF WellKept
<1>2. RetainedMetadataBytes(t) = RetainedMetadataBytes(s)
  BY <1>1, RetainedSame
<1>3. WellKept(t)
  BY <1>1 DEF WellKept, SameValues
<1>. QED  BY <1>1, <1>2, <1>3 DEF Refused

(* A refusal that gives it up. *)
LEMMA ReleaseRefuses ==
  ASSUME NEW limits, limits.metadata \in Nat, NEW s, WellKept(s),
         NEW flag, NEW t, t = ReleaseAllCurlMetadata(Abort(s, flag))
  PROVE  Refused(limits, s, t)
<1>1. PICK a : a = Abort(s, flag)
  OBVIOUS
<1>2. IsAcc(a) /\ Quiet(s, a) /\ a.kind = s.kind /\ a.aborted
  BY <1>1, Aborts DEF WellKept
<1>3. /\ IsAcc(t) /\ Quiet(a, t) /\ t.kind = a.kind /\ t.aborted = a.aborted
      /\ t.links = <<>> /\ t.dates = <<>> /\ t.fields = <<>>
  BY <1>1, <1>2, ReleasesAll
<1>4. /\ RetainedMetadataBytes(t) = 0
      /\ AreValues(t.links) /\ AreValues(t.dates) /\ AreValues(t.fields) /\ Len(t.fields) = 0
  BY <1>3, NothingRetained
<1>5. WellKept(t)
  BY <1>2, <1>3, <1>4 DEF WellKept
<1>6. Quiet(s, t)
  BY <1>2, <1>3 DEF Quiet
<1>. QED  BY <1>2, <1>3, <1>4, <1>5, <1>6 DEF Refused

(* A change is made only if its peak fits. *)
LEMMA RetainsOrRefuses ==
  ASSUME NEW limits, limits.metadata \in Nat, NEW x, NEW peak \in Nat, NEW s, WellKept(s),
         NEW changed, NEW t, t = Retained(limits, x, peak, s, changed)
  PROVE  \/ Refused(limits, s, t)
         \/ t = changed /\ RetainedMetadataBytes(s) + peak <= limits.metadata
<1>1. RetainedMetadataBytes(s) \in Nat
  BY RetainedNat
<1>2. CASE RetainedMetadataBytes(s) + peak > limits.metadata
  <2>1. t = ReleaseAllCurlMetadata(Abort(s, "metadata_oversized"))
    BY <1>2 DEF Retained
  <2>. QED  BY <2>1, ReleaseRefuses
<1>3. CASE ~(RetainedMetadataBytes(s) + peak > limits.metadata) /\ "metadata" \in x.lacking
  <2>1. t = ReleaseAllCurlMetadata(Abort(s, "metadata_allocation_failed"))
    BY <1>3 DEF Retained
  <2>. QED  BY <2>1, ReleaseRefuses
<1>4. CASE ~(RetainedMetadataBytes(s) + peak > limits.metadata) /\ "metadata" \notin x.lacking
  <2>1. t = changed
    BY <1>4 DEF Retained
  <2>. QED  BY <1>1, <1>4, <2>1
<1>. QED  BY <1>2, <1>3, <1>4

\* A field has been kept as each of these kinds.
Added(limits, s, t, e, kinds) ==
  /\ WellKept(t) /\ Quiet(s, t) /\ t.aborted = s.aborted /\ t.kind = kinds
  /\ RetainedMetadataBytes(t) <= limits.metadata
  /\ t.links = IF "links" \in kinds THEN Append(s.links, [bytes |-> e.size, items |-> e.items])
               ELSE s.links
  /\ t.dates = IF "dates" \in kinds THEN Append(s.dates, [bytes |-> e.size, items |-> e.items])
               ELSE s.dates
  /\ t.fields = IF "fields" \in kinds
                THEN Append(s.fields, [name |-> e.name, bytes |-> e.size, items |-> e.items])
                ELSE s.fields

(* Keeping one value more, or not, costs at most what was planned. *)
LEMMA KeptWith ==
  ASSUME NEW v, AreValues(v), NEW unit \in Nat, NEW added \in BOOLEAN, NEW e, IsKept(e),
         NEW plan \in Nat, plan >= unit, NEW u, u = IF added THEN Append(v, e) ELSE v
  PROVE  /\ AreValues(u)
         /\ added => Len(u) >= 1
         /\ Kept(u, unit) <=
              Kept(v, unit) + (IF added THEN plan + StringAllocationEnvelope(e.bytes) ELSE 0)
<1>1. Kept(v, unit) \in Nat
  BY KeptNat
<1>2. CASE added
  <2>1. u = Append(v, e)
    BY <1>2
  <2>2. AreValues(u)
    BY <2>1, KeptAppend
  <2>3. Kept(u, unit) = Kept(v, unit) + unit + StringBytes(e.bytes)
    <3>1. \A w : w = Append(v, e)  => Kept(w, unit) = Kept(v, unit) + unit + StringBytes(e.bytes)
      BY KeptAppend, ZenonT(60)
    <3>. QED  BY <2>1, <3>1
  <2>4. /\ StringBytes(e.bytes) \in Nat /\ StringAllocationEnvelope(e.bytes) \in Nat
        /\ StringBytes(e.bytes) <= StringAllocationEnvelope(e.bytes)
    BY EnvelopeHolds DEF IsKept
  <2>5. Len(u) = Len(v) + 1 /\ Len(v) \in Nat
    BY <2>1, ListAppend DEF AreValues, IsList
  <2>. QED  BY <1>1, <1>2, <2>2, <2>3, <2>4, <2>5
<1>3. CASE ~added
  BY <1>1, <1>3
<1>. QED  BY <1>2, <1>3

(* A field is kept, or refused. *)
LEMMA InitialRetained ==
  ASSUME NEW limits, limits.metadata \in Nat, NEW x, NEW s, WellKept(s), NEW e, e.size \in Nat,
         IsList(e.items), NEW kinds, kinds \subseteq Kinds,
         NEW t, t = RetainInitialMetadata(limits, x, s, e, kinds)
  PROVE  Refused(limits, s, t) \/ Added(limits, s, t, e, kinds)
<1>1. Storage.string \in Nat /\ Storage.field \in Nat /\ Storage.name \in Nat
  BY TransportAssumption
<1>2. PICK l, d, f : l = s.links /\ d = s.dates /\ f = s.fields
  OBVIOUS
<1>3. AreValues(l) /\ AreValues(d) /\ AreValues(f) /\ IsAcc(s)
  BY <1>2 DEF WellKept
<1>4. PICK value, field : /\ value = [bytes |-> e.size, items |-> e.items]
                          /\ field = [name |-> e.name, bytes |-> e.size, items |-> e.items]
  OBVIOUS
<1>5. /\ IsKept(value) /\ value.bytes = e.size
      /\ IsKept(field) /\ field.bytes = e.size /\ "name" \in DOMAIN field
  BY <1>4 DEF IsKept
<1>6. PICK env : env = StringAllocationEnvelope(e.size) /\ env \in Nat
  BY EnvelopeHolds
<1>7. PICK lp, dp, fp : /\ lp = (Len(l) + 1) * Storage.string
                        /\ dp = (Len(d) + 1) * Storage.string
                        /\ fp = (Len(f) + 1) * Storage.field
  OBVIOUS
<1>8. /\ lp \in Nat /\ lp >= Storage.string
      /\ dp \in Nat /\ dp >= Storage.string
      /\ fp \in Nat /\ fp >= Storage.field
  <2>1. \A i, unit \in Nat : (i + 1) * unit \in Nat /\ (i + 1) * unit >= unit
    <3>1. \A i, unit \in Nat : (i + 1) * unit = i * unit + unit /\ i * unit \in Nat
      OBVIOUS
    <3>. QED  BY <3>1
  <2>2. Len(l) \in Nat /\ Len(d) \in Nat /\ Len(f) \in Nat
    BY <1>3 DEF AreValues, IsList
  <2>. QED  BY <1>1, <1>7, <2>1, <2>2
<1>9. PICK peak :
        peak = (IF "fields" \in kinds THEN fp + env ELSE 0)
               + (IF "fields" \in kinds THEN Storage.name ELSE 0)
               + (IF "dates" \in kinds THEN dp + env ELSE 0)
               + (IF "links" \in kinds THEN lp + env ELSE 0)
  OBVIOUS
<1>10. peak \in Nat
  BY <1>1, <1>6, <1>8, <1>9
<1>11. PICK nl, nd, nf :
         /\ nl = IF "links" \in kinds THEN Append(l, value) ELSE l
         /\ nd = IF "dates" \in kinds THEN Append(d, value) ELSE d
         /\ nf = IF "fields" \in kinds THEN Append(f, field) ELSE f
  OBVIOUS
<1>12. PICK c : c = [s EXCEPT !.fields = nf, !.dates = nd, !.links = nl, !.kind = kinds]
  OBVIOUS
<1>13. t = Retained(limits, x, peak, s, c)
  BY <1>2, <1>4, <1>6, <1>7, <1>9, <1>11, <1>12 DEF RetainInitialMetadata
<1>14. \/ Refused(limits, s, t)
       \/ t = c /\ RetainedMetadataBytes(s) + peak <= limits.metadata
  BY <1>10, <1>13, RetainsOrRefuses
<1>15. /\ c.links = nl /\ c.dates = nd /\ c.fields = nf /\ c.kind = kinds
       /\ IsAcc(c) /\ Quiet(s, c) /\ c.aborted = s.aborted
  BY <1>3, <1>12 DEF IsAcc, AccFields, Quiet
<1>16. /\ AreValues(nl) /\ ("links" \in kinds => Len(nl) >= 1)
       /\ Kept(nl, Storage.string) <=
            Kept(l, Storage.string) + (IF "links" \in kinds THEN lp + env ELSE 0)
  BY <1>1, <1>3, <1>5, <1>6, <1>8, <1>11, KeptWith
<1>17. /\ AreValues(nd) /\ ("dates" \in kinds => Len(nd) >= 1)
       /\ Kept(nd, Storage.string) <=
            Kept(d, Storage.string) + (IF "dates" \in kinds THEN dp + env ELSE 0)
  BY <1>1, <1>3, <1>5, <1>6, <1>8, <1>11, KeptWith
<1>18. PICK unit, plan : /\ unit = Storage.field + Storage.name /\ plan = fp + Storage.name
                         /\ unit \in Nat /\ plan \in Nat /\ plan >= unit
  BY <1>1, <1>8
<1>19. /\ AreValues(nf) /\ ("fields" \in kinds => Len(nf) >= 1)
       /\ Kept(nf, unit) <= Kept(f, unit) + (IF "fields" \in kinds THEN plan + env ELSE 0)
  BY <1>3, <1>5, <1>6, <1>11, <1>18, KeptWith
<1>20. RetainedMetadataBytes(c) <= RetainedMetadataBytes(s) + peak
  <2>1. RetainedMetadataBytes(c) =
          Kept(nl, Storage.string) + Kept(nd, Storage.string) + Kept(nf, unit)
    BY <1>15, <1>16, <1>17, <1>18, <1>19, RetainedIs
  <2>2. RetainedMetadataBytes(s) =
          Kept(l, Storage.string) + Kept(d, Storage.string) + Kept(f, unit)
    BY <1>2, <1>3, <1>18, RetainedIs
  <2>3. /\ Kept(l, Storage.string) \in Nat /\ Kept(d, Storage.string) \in Nat
        /\ Kept(f, unit) \in Nat
    BY <1>1, <1>3, <1>18, KeptNat
  <2>4. /\ Kept(nl, Storage.string) \in Nat /\ Kept(nd, Storage.string) \in Nat
        /\ Kept(nf, unit) \in Nat
    BY <1>1, <1>16, <1>17, <1>18, <1>19, KeptNat
  <2>5. PICK a, b, g : /\ a = IF "links" \in kinds THEN lp + env ELSE 0
                       /\ b = IF "dates" \in kinds THEN dp + env ELSE 0
                       /\ g = IF "fields" \in kinds THEN plan + env ELSE 0
    OBVIOUS
  <2>6. a \in Nat /\ b \in Nat /\ g \in Nat
    BY <1>6, <1>8, <1>18, <2>5
  <2>7. peak = g + b + a
    BY <1>1, <1>6, <1>8, <1>9, <1>18, <2>5
  <2>8. /\ Kept(nl, Storage.string) <= Kept(l, Storage.string) + a
        /\ Kept(nd, Storage.string) <= Kept(d, Storage.string) + b
        /\ Kept(nf, unit) <= Kept(f, unit) + g
    BY <1>16, <1>17, <1>19, <2>5
  <2>. QED  BY <2>1, <2>2, <2>3, <2>4, <2>6, <2>7, <2>8
<1>21. \A i \in 1..Len(nf) : "name" \in DOMAIN nf[i]
  <2>1. \A i \in 1..Len(f) : "name" \in DOMAIN f[i]
    BY <1>2 DEF WellKept
  <2>2. CASE "fields" \in kinds
    <3>1. nf = Append(f, field) /\ IsList(f)
      BY <1>3, <1>11, <2>2 DEF AreValues
    <3>2. Len(nf) = Len(f) + 1 /\ nf[Len(f) + 1] = field
      BY <3>1, ListAppend
    <3>3. \A i \in 1..Len(f) : nf[i] = f[i]
      BY <3>1, ListAppend
    <3>4. Len(f) \in Nat
      BY <3>1 DEF IsList
    <3>. QED  BY <1>5, <2>1, <3>2, <3>3, <3>4
  <2>3. CASE "fields" \notin kinds
    BY <1>11, <2>1, <2>3
  <2>. QED  BY <2>2, <2>3
<1>22. WellKept(c)
  <2>1. \A k \in c.kind : Len(c[k]) >= 1
    BY <1>15, <1>16, <1>17, <1>19 DEF Kinds
  <2>. QED  BY <1>15, <1>16, <1>17, <1>19, <1>21, <2>1 DEF WellKept
<1>23. ASSUME t = c, RetainedMetadataBytes(s) + peak <= limits.metadata
       PROVE  Added(limits, s, t, e, kinds)
  <2>1. RetainedMetadataBytes(s) \in Nat /\ RetainedMetadataBytes(c) \in Nat
    BY <1>22, RetainedNat
  <2>2. RetainedMetadataBytes(t) <= limits.metadata
    BY <1>10, <1>20, <1>23, <2>1
  <2>. QED  BY <1>2, <1>4, <1>11, <1>15, <1>22, <1>23, <2>2 DEF Added
<1>. QED  BY <1>14, <1>23

Folded(values, e) ==
  [values EXCEPT ![Len(values)].bytes = @ + e.size, ![Len(values)].items = @ \o e.items]

IsFolded(v, u, e) ==
  /\ IsList(u) /\ Len(u) = Len(v) /\ \A i \in 1..(Len(v) - 1) : u[i] = v[i]
  /\ u[Len(v)].bytes = v[Len(v)].bytes + e.size
  /\ u[Len(v)].items = v[Len(v)].items \o e.items
  /\ DOMAIN u[Len(v)] = DOMAIN v[Len(v)]
  /\ "name" \in DOMAIN v[Len(v)] => u[Len(v)].name = v[Len(v)].name

(* A folded line continues the last value. *)
LEMMA FoldedIs ==
  ASSUME NEW v, AreValues(v), Len(v) >= 1, NEW e, e.size \in Nat, IsList(e.items),
         NEW u, u = Folded(v, e)
  PROVE  IsFolded(v, u, e)
<1>1. DOMAIN v = 1..Len(v) /\ Len(v) \in Nat /\ v \in Seq({v[i] : i \in 1..Len(v)})
  BY ListSeq DEF AreValues
<1>2. PICK n : n = Len(v) /\ n \in 1..n /\ n \in Nat
  BY <1>1
<1>3. IsKept(v[n])
  BY <1>2 DEF AreValues
<1>4. PICK b, g : b = [v[n] EXCEPT !.bytes = @ + e.size] /\ g = [b EXCEPT !.items = @ \o e.items]
  OBVIOUS
<1>5. b.bytes = v[n].bytes + e.size /\ b.items = v[n].items /\ DOMAIN b = DOMAIN v[n]
  BY <1>3, <1>4 DEF IsKept
<1>6. g.bytes = b.bytes /\ g.items = b.items \o e.items /\ DOMAIN g = DOMAIN v[n]
  BY <1>3, <1>4, <1>5 DEF IsKept
<1>7. "name" \in DOMAIN v[n] => g.name = v[n].name
  BY <1>4, <1>5
<1>8. u = [v EXCEPT ![n] = g]
  BY <1>1, <1>2, <1>4 DEF Folded
<1>9. DOMAIN u = 1..n /\ u[n] = g /\ \A i \in 1..(n - 1) : u[i] = v[i]
  BY <1>1, <1>2, <1>8
<1>10. Len(u) = n /\ IsList(u)
  <2>1. u = [i \in 1..n |-> u[i]]
    BY <1>1, <1>2, <1>8
  <2>2. Len(u) = n
    BY <1>2, <2>1
  <2>. QED  BY <1>2, <2>1, <2>2 DEF IsList
<1>. QED  BY <1>2, <1>5, <1>6, <1>7, <1>9, <1>10 DEF IsFolded

FoldFits(v, u, unit, plan) ==
  /\ AreValues(u) /\ Len(u) = Len(v) /\ plan \in Nat
  /\ Kept(u, unit) <= Kept(v, unit) + plan
  /\ (\A i \in 1..Len(v) : "name" \in DOMAIN v[i]) => \A i \in 1..Len(u) : "name" \in DOMAIN u[i]

(* A value that grows, or not, costs at most what was planned. *)
LEMMA KeptFolded ==
  ASSUME NEW v, AreValues(v), NEW unit \in Nat, NEW grows \in BOOLEAN, grows => Len(v) >= 1,
         NEW e, e.size \in Nat, IsList(e.items), NEW u, u = IF grows THEN Folded(v, e) ELSE v,
         NEW plan, plan = IF grows THEN StringAllocationEnvelope(v[Len(v)].bytes + e.size) ELSE 0
  PROVE  FoldFits(v, u, unit, plan)
<1>1. Kept(v, unit) \in Nat /\ Len(v) \in Nat
  BY KeptNat, StringSizesAre
<1>2. CASE grows
  <2>1. u = Folded(v, e) /\ Len(v) >= 1
    BY <1>2
  <2>2. PICK n : n = Len(v) /\ n \in 1..n /\ n \in Nat
    BY <1>1, <2>1
  <2>3. /\ IsList(u) /\ Len(u) = n /\ (\A i \in 1..(n - 1) : u[i] = v[i])
        /\ u[n].bytes = v[n].bytes + e.size /\ u[n].items = v[n].items \o e.items
        /\ DOMAIN u[n] = DOMAIN v[n]
    <3>1. IsFolded(v, u, e)
      BY <2>1, FoldedIs
    <3>. QED  BY <2>2, <3>1 DEF IsFolded
  <2>4. IsKept(v[n])
    BY <2>2 DEF AreValues
  <2>5. {"bytes", "items"} \subseteq DOMAIN u[n]
    BY <2>3, <2>4 DEF IsKept
  <2>6. AreValues(u)
    BY <2>1, <2>2, <2>3, <2>5, KeptGrows
  <2>7. Kept(u, unit) <= Kept(v, unit) + StringBytes(v[n].bytes + e.size)
    BY <2>1, <2>2, <2>3, <2>5, KeptGrows
  <2>8. v[n].bytes + e.size \in Nat
    BY <2>4 DEF IsKept
  <2>9. /\ StringBytes(v[n].bytes + e.size) \in Nat /\ plan \in Nat
        /\ StringBytes(v[n].bytes + e.size) <= plan
    BY <1>2, <2>2, <2>8, EnvelopeHolds
  <2>10. Kept(u, unit) \in Nat
    BY <2>6, KeptNat
  <2>11. ASSUME \A i \in 1..Len(v) : "name" \in DOMAIN v[i], NEW i \in 1..Len(u)
         PROVE  "name" \in DOMAIN u[i]
    BY <2>2, <2>3, <2>11
  <2>12. Kept(u, unit) <= Kept(v, unit) + plan
    BY <1>1, <2>7, <2>9, <2>10
  <2>. QED  BY <2>2, <2>3, <2>6, <2>9, <2>11, <2>12 DEF FoldFits
<1>3. CASE ~grows
  BY <1>1, <1>3 DEF FoldFits
<1>. QED  BY <1>2, <1>3

\* Every copy of the last field has been continued.
Grown(limits, s, t, e) ==
  /\ WellKept(t) /\ Quiet(s, t) /\ t.aborted = s.aborted /\ t.kind = s.kind
  /\ RetainedMetadataBytes(t) <= limits.metadata
  /\ t.links = IF "links" \in s.kind THEN Folded(s.links, e) ELSE s.links
  /\ t.dates = IF "dates" \in s.kind THEN Folded(s.dates, e) ELSE s.dates
  /\ t.fields = IF "fields" \in s.kind THEN Folded(s.fields, e) ELSE s.fields

(* A folded line continues all copies of its field, or is refused. *)
LEMMA FoldRetained ==
  ASSUME NEW limits, limits.metadata \in Nat, NEW x, NEW s, WellKept(s), ~s.aborted,
         NEW e, e.size \in Nat, IsList(e.items),
         NEW t, t = AppendFoldedMetadata(limits, x, s, e)
  PROVE  Refused(limits, s, t) \/ Grown(limits, s, t, e)
<1>1. Storage.string \in Nat /\ Storage.field \in Nat /\ Storage.name \in Nat
  BY TransportAssumption
<1>2. PICK l, d, f, unit : /\ l = s.links /\ d = s.dates /\ f = s.fields
                           /\ unit = Storage.field + Storage.name /\ unit \in Nat
  BY <1>1
<1>3. /\ AreValues(l) /\ AreValues(d) /\ AreValues(f) /\ IsAcc(s)
      /\ "links" \in s.kind => Len(l) >= 1
      /\ "dates" \in s.kind => Len(d) >= 1
      /\ "fields" \in s.kind => Len(f) >= 1
  BY <1>2 DEF WellKept
<1>4. PICK lp, dp, fp :
        /\ lp = IF "links" \in s.kind
                THEN StringAllocationEnvelope(l[Len(l)].bytes + e.size) ELSE 0
        /\ dp = IF "dates" \in s.kind
                THEN StringAllocationEnvelope(d[Len(d)].bytes + e.size) ELSE 0
        /\ fp = IF "fields" \in s.kind
                THEN StringAllocationEnvelope(f[Len(f)].bytes + e.size) ELSE 0
  OBVIOUS
<1>5. PICK nl, nd, nf :
        /\ nl = IF "links" \in s.kind THEN Folded(l, e) ELSE l
        /\ nd = IF "dates" \in s.kind THEN Folded(d, e) ELSE d
        /\ nf = IF "fields" \in s.kind THEN Folded(f, e) ELSE f
  OBVIOUS
<1>6. PICK c : c = [s EXCEPT !.fields = nf, !.dates = nd, !.links = nl]
  OBVIOUS
<1>7. t = Retained(limits, x, fp + dp + lp, s, c)
  BY <1>2, <1>4, <1>5, <1>6 DEF AppendFoldedMetadata, Folded
<1>8. FoldFits(l, nl, Storage.string, lp)
  <2>1. PICK grows \in BOOLEAN : grows <=> "links" \in s.kind
    OBVIOUS
  <2>2. /\ grows => Len(l) >= 1
        /\ nl = IF grows THEN Folded(l, e) ELSE l
        /\ lp = IF grows THEN StringAllocationEnvelope(l[Len(l)].bytes + e.size) ELSE 0
    BY <1>3, <1>4, <1>5, <2>1
  <2>. QED  BY <1>1, <1>2, <1>3, <2>1, <2>2, KeptFolded
<1>9. FoldFits(d, nd, Storage.string, dp)
  <2>1. PICK grows \in BOOLEAN : grows <=> "dates" \in s.kind
    OBVIOUS
  <2>2. /\ grows => Len(d) >= 1
        /\ nd = IF grows THEN Folded(d, e) ELSE d
        /\ dp = IF grows THEN StringAllocationEnvelope(d[Len(d)].bytes + e.size) ELSE 0
    BY <1>3, <1>4, <1>5, <2>1
  <2>. QED  BY <1>1, <1>2, <1>3, <2>1, <2>2, KeptFolded
<1>10. FoldFits(f, nf, unit, fp)
  <2>1. PICK grows \in BOOLEAN : grows <=> "fields" \in s.kind
    OBVIOUS
  <2>2. /\ grows => Len(f) >= 1
        /\ nf = IF grows THEN Folded(f, e) ELSE f
        /\ fp = IF grows THEN StringAllocationEnvelope(f[Len(f)].bytes + e.size) ELSE 0
    BY <1>3, <1>4, <1>5, <2>1
  <2>. QED  BY <1>1, <1>2, <1>3, <2>1, <2>2, KeptFolded
<1>11. \A i \in 1..Len(nf) : "name" \in DOMAIN nf[i]
  <2>1. \A i \in 1..Len(f) : "name" \in DOMAIN f[i]
    BY <1>2 DEF WellKept
  <2>. QED  BY <1>10, <2>1 DEF FoldFits
<1>12. \/ Refused(limits, s, t)
       \/ t = c /\ RetainedMetadataBytes(s) + (fp + dp + lp) <= limits.metadata
  <2>1. fp + dp + lp \in Nat
    BY <1>8, <1>9, <1>10 DEF FoldFits
  <2>. QED  BY <1>7, <2>1, RetainsOrRefuses
<1>13. /\ c.links = nl /\ c.dates = nd /\ c.fields = nf /\ c.kind = s.kind
       /\ IsAcc(c) /\ Quiet(s, c) /\ c.aborted = s.aborted
  BY <1>3, <1>6 DEF IsAcc, AccFields, Quiet
<1>14. WellKept(c)
  <2>1. c.kind \subseteq Kinds
    BY <1>13 DEF WellKept
  <2>2. \A k \in c.kind : Len(c[k]) >= 1
    BY <1>3, <1>8, <1>9, <1>10, <1>13, <2>1 DEF Kinds, FoldFits
  <2>. QED  BY <1>8, <1>9, <1>10, <1>11, <1>13, <2>1, <2>2 DEF WellKept, FoldFits
<1>15. RetainedMetadataBytes(c) <= RetainedMetadataBytes(s) + (fp + dp + lp)
  <2>1. RetainedMetadataBytes(c) =
          Kept(nl, Storage.string) + Kept(nd, Storage.string) + Kept(nf, unit)
    BY <1>2, <1>8, <1>9, <1>10, <1>13, RetainedIs DEF FoldFits
  <2>2. RetainedMetadataBytes(s) =
          Kept(l, Storage.string) + Kept(d, Storage.string) + Kept(f, unit)
    BY <1>2, <1>3, RetainedIs
  <2>3. /\ Kept(l, Storage.string) \in Nat /\ Kept(d, Storage.string) \in Nat
        /\ Kept(f, unit) \in Nat
    BY <1>1, <1>2, <1>3, KeptNat
  <2>4. /\ Kept(nl, Storage.string) \in Nat /\ Kept(nd, Storage.string) \in Nat
        /\ Kept(nf, unit) \in Nat
    BY <1>1, <1>2, <1>8, <1>9, <1>10, KeptNat DEF FoldFits
  <2>5. /\ Kept(nl, Storage.string) <= Kept(l, Storage.string) + lp /\ lp \in Nat
        /\ Kept(nd, Storage.string) <= Kept(d, Storage.string) + dp /\ dp \in Nat
        /\ Kept(nf, unit) <= Kept(f, unit) + fp /\ fp \in Nat
    BY <1>8, <1>9, <1>10 DEF FoldFits
  <2>. QED  BY <2>1, <2>2, <2>3, <2>4, <2>5
<1>16. ASSUME t = c, RetainedMetadataBytes(s) + (fp + dp + lp) <= limits.metadata
       PROVE  Grown(limits, s, t, e)
  <2>1. RetainedMetadataBytes(s) \in Nat /\ RetainedMetadataBytes(c) \in Nat
    BY <1>14, RetainedNat
  <2>2. RetainedMetadataBytes(t) <= limits.metadata
    <3>1. fp + dp + lp \in Nat
      BY <1>8, <1>9, <1>10 DEF FoldFits
    <3>2. PICK m, n, o, p : /\ m = RetainedMetadataBytes(s) /\ n = RetainedMetadataBytes(c)
                            /\ o = fp + dp + lp /\ p = limits.metadata
      OBVIOUS
    <3>3. m \in Nat /\ n \in Nat /\ o \in Nat /\ p \in Nat /\ n <= m + o /\ m + o <= p
      BY <1>15, <1>16, <2>1, <3>1, <3>2
    <3>4. n <= p
      BY <3>3
    <3>. QED  BY <1>16, <3>2, <3>4
  <2>. QED  BY <1>2, <1>5, <1>13, <1>14, <1>16, <2>2 DEF Grown
<1>. QED  BY <1>12, <1>16

-----------------------------------------------------------------------------
(* Header lines *)

\* What is bounded of an accumulator whatever curl calls.
Sound(limits, s) ==
  /\ WellKept(s)
  /\ RetainedMetadataBytes(s) <= limits.metadata
  /\ s.header_bytes \in Nat /\ s.header_bytes <= limits.header
  /\ s.response_bytes \in Nat /\ s.response_bytes <= limits.response
  /\ IsList(s.body)
  /\ s.socket # <<>> /\ s.socket[1].allowed

AreLimits(limits) ==
  \A l \in {"header", "response", "decompressed", "metadata"} : limits[l] \in Nat

(* A field that is not kept leaves the values alone. *)
LEMMA FieldRead ==
  ASSUME NEW limits, AreLimits(limits), NEW x, NEW s, WellKept(s),
         RetainedMetadataBytes(s) <= limits.metadata, NEW e, e.size \in Nat, IsList(e.items),
         NEW t, t = ReadField(limits, x, s, e)
  PROVE  LET kinds == KindsOf(limits, e)
         IN  /\ WellKept(t) /\ RetainedMetadataBytes(t) <= limits.metadata
             /\ t.header_bytes = s.header_bytes /\ t.response_bytes = s.response_bytes
             /\ t.body = s.body /\ t.socket = s.socket /\ t.status = s.status
             /\ t.complete = s.complete
             /\ \/ t.aborted
                \/ /\ t.aborted = s.aborted /\ t.kind = kinds
                   /\ kinds # {} => limits.metadata > 0
                   /\ t.links = IF "links" \in kinds
                                THEN Append(s.links, [bytes |-> e.size, items |-> e.items])
                                ELSE s.links
                   /\ t.fields = IF "fields" \in kinds
                                 THEN Append(s.fields, [name |-> e.name, bytes |-> e.size,
                                                        items |-> e.items])
                                 ELSE s.fields
<1>. DEFINE kinds == KindsOf(limits, e)
<1>1. kinds \subseteq Kinds
  BY DEF KindsOf, Kinds
<1>2. PICK a, b, c, d : /\ a = (s.encoding_seen \/ e.name = "transfer-encoding")
                        /\ b = (s.chunked \/ e.name = "transfer-encoding")
                        /\ c = IF e.name = "content-encoding" THEN e.items # <<"identity">>
                               ELSE s.content_encoded
                        /\ d = (s.retry_after \/ e.name = "retry-after")
  OBVIOUS
<1>3. PICK seen : seen = [s EXCEPT !.kind = {}, !.encoding_seen = a, !.chunked = b,
                                   !.content_encoded = c, !.retry_after = d]
  OBVIOUS
<1>4. /\ IsAcc(seen) /\ SameValues(s, seen) /\ seen.kind = {} /\ seen.aborted = s.aborted
      /\ seen.header_bytes = s.header_bytes /\ seen.response_bytes = s.response_bytes
      /\ seen.body = s.body /\ seen.socket = s.socket /\ seen.status = s.status
      /\ seen.complete = s.complete
  BY <1>3 DEF WellKept, IsAcc, AccFields, SameValues
<1>5. WellKept(seen)
  BY <1>4 DEF WellKept, SameValues
<1>6. RetainedMetadataBytes(seen) = RetainedMetadataBytes(s)
  BY <1>4, RetainedSame
<1>7. \/ t = Abort(s, "transfer_encoding_unsupported")
      \/ kinds = {} /\ t = seen
      \/ kinds # {} /\ limits.metadata = 0 /\ t = Abort(seen, "metadata_oversized")
      \/ /\ kinds # {} /\ limits.metadata # 0
         /\ t = RetainInitialMetadata(limits, x, seen, e, kinds)
  BY <1>2, <1>3 DEF ReadField
<1>8. limits.metadata \in Nat
  BY DEF AreLimits
<1>9. CASE t = Abort(s, "transfer_encoding_unsupported")
  <2>1. Refused(limits, s, t)
    BY <1>9, AbortRefuses
  <2>. QED  BY <2>1 DEF Refused, Quiet
<1>10. CASE kinds = {} /\ t = seen
  BY <1>4, <1>5, <1>6, <1>10 DEF SameValues
<1>11. CASE t = Abort(seen, "metadata_oversized")
  <2>1. Refused(limits, seen, t)
    BY <1>5, <1>6, <1>11, AbortRefuses
  <2>. QED  BY <1>4, <2>1 DEF Refused, Quiet
<1>12. CASE /\ kinds # {} /\ limits.metadata # 0
            /\ t = RetainInitialMetadata(limits, x, seen, e, kinds)
  <2>1. Refused(limits, seen, t) \/ Added(limits, seen, t, e, kinds)
    BY <1>1, <1>5, <1>8, <1>12, InitialRetained
  <2>2. CASE Refused(limits, seen, t)
    BY <1>4, <2>2 DEF Refused, Quiet
  <2>3. CASE Added(limits, seen, t, e, kinds)
    <3>1. limits.metadata > 0
      BY <1>8, <1>12
    <3>. QED  BY <1>4, <2>3, <3>1 DEF Added, Quiet, SameValues
  <2>. QED  BY <2>1, <2>2, <2>3
<1>. QED  BY <1>7, <1>9, <1>10, <1>11, <1>12

\* What a header line does to what is retained, if it is not refused.
Passed(s, t) ==
  /\ SameValues(s, t) /\ t.kind = s.kind /\ t.complete = s.complete /\ t.status = s.status

Begun(t, e) ==
  /\ t.links = <<>> /\ t.fields = <<>> /\ t.kind = {} /\ ~t.complete /\ t.status = e.code

Ended(s, t) == SameValues(s, t) /\ t.kind = {} /\ t.complete /\ t.status = s.status

Continued(s, t, e) ==
  /\ t.kind = s.kind /\ t.complete = s.complete /\ t.status = s.status
  /\ t.links = IF "links" \in s.kind THEN Folded(s.links, e) ELSE s.links
  /\ t.fields = IF "fields" \in s.kind THEN Folded(s.fields, e) ELSE s.fields

Entered(limits, s, t, e) ==
  LET kinds == KindsOf(limits, e)
  IN  /\ t.kind = kinds /\ t.complete = s.complete /\ t.status = s.status
      /\ kinds # {} => limits.metadata > 0
      /\ t.links = IF "links" \in kinds
                   THEN Append(s.links, [bytes |-> e.size, items |-> e.items]) ELSE s.links
      /\ t.fields = IF "fields" \in kinds
                    THEN Append(s.fields, [name |-> e.name, bytes |-> e.size, items |-> e.items])
                    ELSE s.fields

HeaderEffect(limits, s, t, e) ==
  \/ e.line = "status" /\ Begun(t, e)
  \/ e.line = "end" /\ Ended(s, t)
  \/ e.line \in {"field", "fold"} /\ s.complete /\ Passed(s, t)
  \/ e.line = "fold" /\ ~s.complete /\ s.kind = {} /\ Passed(s, t)
  \/ e.line = "fold" /\ ~s.complete /\ s.kind # {} /\ Continued(s, t, e)
  \/ e.line = "field" /\ ~s.complete /\ Entered(limits, s, t, e)

(* A status line forgets what came before it. *)
LEMMA StatusRead ==
  ASSUME NEW s, IsAcc(s), NEW e, NEW t, t = StatusLine(s, e)
  PROVE  /\ IsAcc(t) /\ Begun(t, e) /\ t.dates = <<>> /\ t.aborted = s.aborted
         /\ t.header_bytes = s.header_bytes /\ t.response_bytes = s.response_bytes
         /\ t.body = s.body /\ t.socket = s.socket
<1>1. PICK r : r = ReleaseAllCurlMetadata(s)
  OBVIOUS
<1>2. /\ IsAcc(r) /\ Quiet(s, r) /\ r.kind = s.kind /\ r.aborted = s.aborted
      /\ r.links = <<>> /\ r.dates = <<>> /\ r.fields = <<>>
  BY <1>1, ReleasesAll
<1>3. t = [r EXCEPT !.complete = FALSE, !.retry_after = FALSE, !.encoding_seen = FALSE,
                    !.chunked = FALSE, !.content_encoded = FALSE, !.kind = {}, !.status = e.code]
  BY <1>1 DEF StatusLine
<1>4. /\ IsAcc(t) /\ t.complete = FALSE /\ t.kind = {} /\ t.status = e.code
      /\ SameValues(r, t) /\ t.aborted = r.aborted
      /\ t.header_bytes = r.header_bytes /\ t.response_bytes = r.response_bytes
      /\ t.body = r.body /\ t.socket = r.socket
  BY <1>2, <1>3 DEF IsAcc, AccFields, SameValues
<1>. QED  BY <1>2, <1>4 DEF Begun, Quiet, SameValues

(* A header line keeps within the limits and does to what is retained what its kind says. *)
LEMMA HeaderRead ==
  ASSUME NEW limits, AreLimits(limits), NEW x, NEW s, Sound(limits, s), ~s.aborted,
         NEW e, IsCall(e), e.callback = "header", NEW t, t = ReadCurlHeader(limits, x, s, e)
  PROVE  /\ Sound(limits, t) /\ t.body = s.body
         /\ t.aborted \/ HeaderEffect(limits, s, t, e)
         /\ s.complete /\ e.line # "status" => t.complete /\ t.chunked = s.chunked
         /\ e.line = "end" => t.complete \/ t.aborted
<1>1. e.bytes \in Nat /\ e.line \in {"status", "end", "field", "fold"}
  BY DEF IsCall
<1>2. e.line \in {"field", "fold"} => e.size \in Nat /\ IsList(e.items)
  BY DEF IsCall
<1>3. /\ WellKept(s) /\ IsAcc(s) /\ RetainedMetadataBytes(s) <= limits.metadata
      /\ s.header_bytes \in Nat /\ limits.header \in Nat /\ limits.metadata \in Nat
  BY DEF Sound, WellKept, AreLimits
<1>4. PICK c : c = [s EXCEPT !.header_bytes = s.header_bytes + e.bytes]
  OBVIOUS
<1>5. /\ IsAcc(c) /\ SameValues(s, c) /\ c.kind = s.kind /\ c.aborted = s.aborted
      /\ c.header_bytes = s.header_bytes + e.bytes /\ c.response_bytes = s.response_bytes
      /\ c.body = s.body /\ c.socket = s.socket /\ c.status = s.status
      /\ c.complete = s.complete /\ c.chunked = s.chunked
  BY <1>3, <1>4 DEF IsAcc, AccFields, SameValues
<1>6. WellKept(c)
  <2>1. \A k \in c.kind : Len(c[k]) >= 1
    <3>1. \A k \in s.kind : Len(s[k]) >= 1 /\ k \in Kinds
      BY <1>3 DEF WellKept
    <3>. QED  BY <1>5, <3>1 DEF SameValues, Kinds
  <2>. QED  BY <1>3, <1>5, <2>1 DEF WellKept, SameValues
<1>7. RetainedMetadataBytes(c) = RetainedMetadataBytes(s)
  BY <1>5, RetainedSame
<1>8. CASE c.header_bytes > limits.header
  <2>1. t = Abort(s, "header_oversized")
    BY <1>4, <1>8 DEF ReadCurlHeader
  <2>2. Refused(limits, s, t)
    BY <1>3, <2>1, AbortRefuses
  <2>3. Sound(limits, t)
    BY <2>2 DEF Sound, Refused, Quiet
  <2>. QED  BY <2>2, <2>3 DEF Refused, Quiet
<1>9. CASE ~(c.header_bytes > limits.header)
  <2>1. c.header_bytes \in Nat /\ c.header_bytes <= limits.header
    BY <1>1, <1>3, <1>5, <1>9
  <2>2. Sound(limits, c)
    BY <1>3, <1>5, <1>6, <1>7, <2>1 DEF Sound
  <2>3. CASE e.line = "status"
    <3>1. t = StatusLine(c, e)
      BY <1>4, <1>9, <2>3 DEF ReadCurlHeader
    <3>2. /\ IsAcc(t) /\ Begun(t, e) /\ t.dates = <<>> /\ t.aborted = c.aborted
          /\ t.header_bytes = c.header_bytes /\ t.response_bytes = c.response_bytes
          /\ t.body = c.body /\ t.socket = c.socket
      BY <1>5, <3>1, StatusRead
    <3>3. /\ RetainedMetadataBytes(t) = 0
          /\ AreValues(t.links) /\ AreValues(t.dates) /\ AreValues(t.fields) /\ Len(t.fields) = 0
      BY <3>2, NothingRetained DEF Begun
    <3>4. WellKept(t)
      BY <3>2, <3>3 DEF WellKept, Begun
    <3>5. Sound(limits, t)
      BY <1>3, <2>2, <3>2, <3>3, <3>4 DEF Sound
    <3>. QED  BY <1>5, <2>3, <3>2, <3>5 DEF HeaderEffect
  <2>4. CASE e.line = "end"
    <3>1. t = [c EXCEPT !.complete = TRUE, !.kind = {}]
      BY <1>4, <1>9, <2>4 DEF ReadCurlHeader
    <3>2. /\ IsAcc(t) /\ SameValues(c, t) /\ t.kind = {} /\ t.complete = TRUE
          /\ t.status = c.status /\ t.aborted = c.aborted /\ t.chunked = c.chunked
          /\ t.header_bytes = c.header_bytes /\ t.response_bytes = c.response_bytes
          /\ t.body = c.body /\ t.socket = c.socket
      BY <1>5, <3>1 DEF IsAcc, AccFields, SameValues
    <3>3. RetainedMetadataBytes(t) = RetainedMetadataBytes(c)
      BY <3>2, RetainedSame
    <3>4. WellKept(t)
      BY <1>6, <3>2 DEF WellKept, SameValues
    <3>5. Sound(limits, t)
      BY <2>2, <3>2, <3>3, <3>4 DEF Sound
    <3>6. Ended(s, t)
      BY <1>5, <3>2 DEF Ended, SameValues
    <3>. QED  BY <1>5, <2>4, <3>2, <3>5, <3>6 DEF HeaderEffect
  <2>5. CASE e.line \in {"field", "fold"} /\ (s.complete \/ (e.line = "fold" /\ s.kind = {}))
    <3>1. t = c
      BY <1>4, <1>9, <2>5 DEF ReadCurlHeader
    <3>2. Passed(s, t)
      BY <1>5, <3>1 DEF Passed
    <3>. QED  BY <1>5, <2>2, <2>5, <3>1, <3>2 DEF HeaderEffect
  <2>6. CASE e.line = "fold" /\ ~s.complete /\ s.kind # {}
    <3>1. t = AppendFoldedMetadata(limits, x, c, e)
      BY <1>4, <1>9, <2>6 DEF ReadCurlHeader
    <3>2. Refused(limits, c, t) \/ Grown(limits, c, t, e)
      BY <1>2, <1>3, <1>5, <1>6, <2>6, <3>1, FoldRetained
    <3>3. CASE Refused(limits, c, t)
      <4>1. Sound(limits, t)
        BY <2>2, <3>3 DEF Sound, Refused, Quiet
      <4>. QED  BY <1>5, <2>6, <3>3, <4>1 DEF Refused, Quiet
    <3>4. CASE Grown(limits, c, t, e)
      <4>1. Sound(limits, t)
        BY <2>2, <3>4 DEF Sound, Grown, Quiet
      <4>2. Continued(s, t, e)
        BY <1>5, <3>4 DEF Grown, Quiet, Continued, SameValues
      <4>. QED  BY <1>5, <2>6, <3>4, <4>1, <4>2 DEF Grown, Quiet, HeaderEffect
    <3>. QED  BY <3>2, <3>3, <3>4
  <2>7. CASE e.line = "field" /\ ~s.complete
    <3>1. t = ReadField(limits, x, c, e)
      BY <1>4, <1>9, <2>7 DEF ReadCurlHeader
    <3>2. /\ WellKept(t) /\ RetainedMetadataBytes(t) <= limits.metadata
          /\ t.header_bytes = c.header_bytes /\ t.response_bytes = c.response_bytes
          /\ t.body = c.body /\ t.socket = c.socket
          /\ t.aborted \/ Entered(limits, c, t, e)
      BY <1>2, <1>3, <1>6, <1>7, <2>7, <3>1, FieldRead DEF Entered
    <3>3. Sound(limits, t)
      BY <2>2, <3>2 DEF Sound
    <3>4. Entered(limits, c, t, e) => Entered(limits, s, t, e)
      BY <1>5 DEF Entered, SameValues
    <3>. QED  BY <1>5, <2>7, <3>2, <3>3, <3>4 DEF HeaderEffect
  <2>. QED  BY <1>1, <2>3, <2>4, <2>5, <2>6, <2>7
<1>. QED  BY <1>8, <1>9

-----------------------------------------------------------------------------
(* The calls of a transfer *)

\* A body is written within the limit of its kind, or refused; nothing else changes.
Written(s, t, octets) ==
  /\ SameValues(s, t) /\ t.kind = s.kind /\ t.complete = s.complete /\ t.status = s.status
  /\ t.chunked = s.chunked
  /\ t.body = s.body \/ t.body = s.body \o octets
  /\ ~t.aborted => t.body = s.body \o octets

BodyLimit(limits, s) == IF s.chunked THEN limits.response ELSE limits.decompressed

(* What changes neither values nor counters is as sound. *)
LEMMA SameSound ==
  ASSUME NEW limits, NEW s, Sound(limits, s), NEW t, IsAcc(t), SameValues(s, t), t.kind = s.kind,
         s.aborted => t.aborted, t.header_bytes = s.header_bytes,
         t.response_bytes \in Nat, t.response_bytes <= limits.response,
         IsList(t.body), t.socket = s.socket
  PROVE  Sound(limits, t)
<1>1. RetainedMetadataBytes(t) = RetainedMetadataBytes(s)
  BY RetainedSame
<1>2. WellKept(t)
  <2>1. ASSUME ~t.aborted
        PROVE  \A k \in t.kind : Len(t[k]) >= 1
    <3>1. \A k \in s.kind : Len(s[k]) >= 1 /\ k \in Kinds
      BY <2>1 DEF Sound, WellKept
    <3>. QED  BY <3>1 DEF SameValues, Kinds
  <2>. QED  BY <2>1 DEF Sound, WellKept, SameValues
<1>. QED  BY <1>1, <1>2 DEF Sound

(* Incoming bytes are counted up to the limit. *)
LEMMA BytesCounted ==
  ASSUME NEW limits, AreLimits(limits), NEW s, Sound(limits, s), NEW e, e.wire \in Nat,
         NEW t, t = CountIncomingCurlProtocolData(limits, s, e)
  PROVE  /\ Sound(limits, t) /\ IsAcc(t) /\ t.body = s.body /\ t.aborted = s.aborted
         /\ Passed(s, t) /\ t.chunked = s.chunked
<1>1. IsAcc(s) /\ s.response_bytes \in Nat /\ limits.response \in Nat /\ IsList(s.body)
      /\ s.response_bytes <= limits.response
  BY DEF Sound, WellKept, AreLimits
<1>2. CASE s.response_bytes + e.wire > limits.response
  <2>1. PICK fl : fl = s.flags \cup {"response_oversized"}
    OBVIOUS
  <2>2. t = [s EXCEPT !.flags = fl]
    BY <1>2, <2>1 DEF CountIncomingCurlProtocolData
  <2>3. /\ IsAcc(t) /\ Passed(s, t) /\ t.chunked = s.chunked /\ t.body = s.body
        /\ t.aborted = s.aborted /\ t.header_bytes = s.header_bytes
        /\ t.response_bytes = s.response_bytes /\ t.socket = s.socket
    BY <1>1, <2>2 DEF IsAcc, AccFields, Passed, SameValues
  <2>4. Sound(limits, t)
    BY <1>1, <2>3, SameSound DEF Passed
  <2>. QED  BY <2>3, <2>4
<1>3. CASE ~(s.response_bytes + e.wire > limits.response)
  <2>1. PICK n : n = s.response_bytes + e.wire /\ n \in Nat /\ n <= limits.response
    BY <1>1, <1>3
  <2>2. t = [s EXCEPT !.response_bytes = n]
    BY <1>3, <2>1 DEF CountIncomingCurlProtocolData
  <2>3. /\ IsAcc(t) /\ Passed(s, t) /\ t.chunked = s.chunked /\ t.body = s.body
        /\ t.aborted = s.aborted /\ t.header_bytes = s.header_bytes
        /\ t.response_bytes = n /\ t.socket = s.socket
    BY <1>1, <2>2 DEF IsAcc, AccFields, Passed, SameValues
  <2>4. Sound(limits, t)
    BY <1>1, <2>1, <2>3, SameSound DEF Passed
  <2>. QED  BY <2>3, <2>4
<1>. QED  BY <1>2, <1>3

(* A refusal is sound. *)
LEMMA AbortSound ==
  ASSUME NEW limits, NEW s, Sound(limits, s), NEW flag, NEW t, t = Abort(s, flag)
  PROVE  Sound(limits, t) /\ t.aborted /\ Passed(s, t) /\ t.chunked = s.chunked /\ t.body = s.body
<1>1. IsAcc(t) /\ Quiet(s, t) /\ SameValues(s, t) /\ t.kind = s.kind /\ t.aborted
  BY Aborts DEF Sound, WellKept
<1>2. s.response_bytes \in Nat /\ s.response_bytes <= limits.response /\ IsList(s.body)
  BY DEF Sound
<1>3. Sound(limits, t)
  BY <1>1, <1>2, SameSound DEF Quiet
<1>. QED  BY <1>1, <1>3 DEF Quiet, Passed

(* What is written stays within the limit of its kind. *)
LEMMA BodyWritten ==
  ASSUME NEW limits, AreLimits(limits), NEW s, Sound(limits, s), NEW e, IsList(e.octets),
         Len(s.body) <= BodyLimit(limits, s), NEW t, t = WriteCurlBody(limits, s, e)
  PROVE  Sound(limits, t) /\ Written(s, t, e.octets) /\ Len(t.body) <= BodyLimit(limits, t)
<1>1. /\ IsAcc(s) /\ IsList(s.body) /\ s.response_bytes \in Nat
      /\ s.response_bytes <= limits.response
  BY DEF Sound, WellKept
<1>2. PICK b, o, u : b = s.body /\ o = e.octets /\ u = b \o o
  OBVIOUS
<1>3. IsList(b) /\ IsList(o)
  BY <1>1, <1>2
<1>4. IsList(u)
  BY <1>2, <1>3, ListsJoin
<1>5. Len(u) = Len(b) + Len(o) /\ Len(b) \in Nat /\ Len(o) \in Nat
  <2>1. Len(u) = Len(b) + Len(o)
    BY <1>2, <1>3, ListsJoin
  <2>. QED  BY <1>3, <2>1 DEF IsList
<1>6. BodyLimit(limits, s) \in Nat
  BY DEF BodyLimit, AreLimits
<1>7. CASE Len(b) + Len(o) > BodyLimit(limits, s)
  <2>1. \E flag : t = Abort(s, flag)
    BY <1>2, <1>7 DEF WriteCurlBody, BodyLimit
  <2>2. Sound(limits, t) /\ t.aborted /\ Passed(s, t) /\ t.chunked = s.chunked /\ t.body = s.body
    BY <2>1, AbortSound
  <2>. QED  BY <2>2 DEF Written, Passed, BodyLimit
<1>8. CASE ~(Len(b) + Len(o) > BodyLimit(limits, s))
  <2>1. t = [s EXCEPT !.body = u]
    BY <1>2, <1>8 DEF WriteCurlBody, BodyLimit
  <2>2. /\ IsAcc(t) /\ Passed(s, t) /\ t.chunked = s.chunked /\ t.body = u
        /\ t.aborted = s.aborted /\ t.header_bytes = s.header_bytes
        /\ t.response_bytes = s.response_bytes /\ t.socket = s.socket
    BY <1>1, <2>1 DEF IsAcc, AccFields, Passed, SameValues
  <2>3. Sound(limits, t)
    BY <1>1, <1>4, <2>2, SameSound DEF Passed
  <2>4. Len(t.body) <= BodyLimit(limits, t)
    BY <1>5, <1>6, <1>8, <2>2 DEF BodyLimit
  <2>. QED  BY <1>2, <2>2, <2>3, <2>4 DEF Written, Passed
<1>. QED  BY <1>7, <1>8

\* The bodies came after the end of the last header section.
Reached(limits, x, n, s) ==
  /\ Sound(limits, s)
  /\ Len(s.body) <= BodyLimit(limits, s)
  /\ s.body # <<>> => \E i \in 1..n : EndsLastSection(x.events, i)
  /\ \A i \in 1..n : EndsLastSection(x.events, i) => s.complete \/ s.aborted

(* What a call does, by its kind. *)
LEMMA CallIs ==
  ASSUME NEW limits, AreLimits(limits), NEW x, NEW s, Sound(limits, s), ~s.aborted,
         Len(s.body) <= BodyLimit(limits, s), NEW i, NEW e, e = x.events[i], IsCall(e),
         NEW t, t = Callback(limits, x, s, i)
  PROVE  /\ Sound(limits, t)
         /\ \/ /\ e.callback = "header"
               /\ \/ Passed(s, t) /\ t.chunked = s.chunked /\ t.body = s.body /\ t.aborted
                  \/ t = ReadCurlHeader(limits, x, s, e)
            \/ /\ e.callback = "body"
               /\ Written(s, t, e.octets) /\ Len(t.body) <= BodyLimit(limits, t)
            \/ /\ e.callback = "progress"
               /\ Passed(s, t) /\ t.chunked = s.chunked /\ t.body = s.body
<1>1. CASE e.callback = "header"
  <2>1. t = Abort(s, x.stop.flag) \/ t = ReadCurlHeader(limits, x, s, e)
    BY <1>1 DEF Callback
  <2>2. ASSUME t = Abort(s, x.stop.flag)
        PROVE  Sound(limits, t) /\ Passed(s, t) /\ t.chunked = s.chunked /\ t.body = s.body /\ t.aborted
    BY <2>2, AbortSound
  <2>3. ASSUME t = ReadCurlHeader(limits, x, s, e)
        PROVE  Sound(limits, t)
    BY <1>1, <2>3, HeaderRead
  <2>. QED  BY <1>1, <2>1, <2>2, <2>3
<1>2. CASE e.callback = "body"
  <2>1. e.wire \in Nat /\ IsList(e.octets)
    BY <1>2 DEF IsCall
  <2>2. PICK c : c = CountIncomingCurlProtocolData(limits, s, e)
    OBVIOUS
  <2>3. /\ Sound(limits, c) /\ IsAcc(c) /\ c.body = s.body /\ c.aborted = s.aborted
        /\ Passed(s, c) /\ c.chunked = s.chunked
    BY <2>1, <2>2, BytesCounted
  <2>4. Len(c.body) <= BodyLimit(limits, c)
    BY <2>3 DEF BodyLimit
  <2>5. \/ t = [c EXCEPT !.aborted = TRUE]
        \/ t = Abort(c, x.stop.flag)
        \/ t = WriteCurlBody(limits, c, e)
    BY <1>2, <2>2 DEF Callback
  <2>6. CASE t = [c EXCEPT !.aborted = TRUE]
    <3>1. /\ IsAcc(t) /\ Passed(c, t) /\ t.chunked = c.chunked /\ t.body = c.body
          /\ t.aborted = TRUE /\ t.header_bytes = c.header_bytes
          /\ t.response_bytes = c.response_bytes /\ t.socket = c.socket
      BY <2>3, <2>6 DEF IsAcc, AccFields, Passed, SameValues
    <3>2. c.response_bytes \in Nat /\ c.response_bytes <= limits.response /\ IsList(c.body)
      BY <2>3 DEF Sound
    <3>3. Sound(limits, t)
      BY <2>3, <3>1, <3>2, SameSound DEF Passed
    <3>4. Written(s, t, e.octets)
      BY <2>3, <3>1 DEF Written, Passed, SameValues
    <3>. QED  BY <1>2, <2>4, <3>1, <3>3, <3>4 DEF BodyLimit
  <2>7. CASE t = Abort(c, x.stop.flag)
    <3>1. Sound(limits, t) /\ t.aborted /\ Passed(c, t) /\ t.chunked = c.chunked /\ t.body = c.body
      BY <2>3, <2>7, AbortSound
    <3>2. Written(s, t, e.octets)
      BY <2>3, <3>1 DEF Written, Passed, SameValues
    <3>. QED  BY <1>2, <2>4, <3>1, <3>2 DEF BodyLimit
  <2>8. CASE t = WriteCurlBody(limits, c, e)
    <3>1. Sound(limits, t) /\ Written(c, t, e.octets) /\ Len(t.body) <= BodyLimit(limits, t)
      BY <2>1, <2>3, <2>4, <2>8, BodyWritten
    <3>2. Written(s, t, e.octets)
      BY <2>3, <3>1 DEF Written, Passed, SameValues
    <3>. QED  BY <1>2, <3>1, <3>2
  <2>. QED  BY <2>5, <2>6, <2>7, <2>8
<1>3. CASE e.callback = "progress"
  <2>1. PICK c : c = ObserveCurlTransferProgress(limits, s, e)
    OBVIOUS
  <2>2. Sound(limits, c) /\ Passed(s, c) /\ c.chunked = s.chunked /\ c.body = s.body
    <3>1. c = s \/ c = Abort(s, "response_oversized")
      BY <2>1 DEF ObserveCurlTransferProgress
    <3>2. CASE c = s
      BY <3>2 DEF Passed, SameValues
    <3>3. CASE c = Abort(s, "response_oversized")
      BY <3>3, AbortSound
    <3>. QED  BY <3>1, <3>2, <3>3
  <2>3. \/ t = [c EXCEPT !.aborted = TRUE]
        \/ t = Abort(c, x.stop.flag)
        \/ t = c
    BY <1>3, <2>1 DEF Callback
  <2>4. CASE t = [c EXCEPT !.aborted = TRUE]
    <3>1. IsAcc(c) /\ c.response_bytes \in Nat /\ c.response_bytes <= limits.response /\ IsList(c.body)
      BY <2>2 DEF Sound, WellKept
    <3>2. /\ IsAcc(t) /\ Passed(c, t) /\ t.chunked = c.chunked /\ t.body = c.body
          /\ t.aborted = TRUE /\ t.header_bytes = c.header_bytes
          /\ t.response_bytes = c.response_bytes /\ t.socket = c.socket
      BY <2>4, <3>1 DEF IsAcc, AccFields, Passed, SameValues
    <3>3. Sound(limits, t)
      BY <2>2, <3>1, <3>2, SameSound DEF Passed
    <3>4. Passed(s, t) /\ t.chunked = s.chunked /\ t.body = s.body
      BY <2>2, <3>2 DEF Passed, SameValues
    <3>. QED  BY <1>3, <3>3, <3>4
  <2>5. CASE t = Abort(c, x.stop.flag)
    <3>1. Sound(limits, t) /\ Passed(c, t) /\ t.chunked = c.chunked /\ t.body = c.body
      BY <2>2, <2>5, AbortSound
    <3>2. Passed(s, t) /\ t.chunked = s.chunked /\ t.body = s.body
      BY <2>2, <3>1 DEF Passed, SameValues
    <3>. QED  BY <1>3, <3>1, <3>2
  <2>6. CASE t = c
    BY <1>3, <2>2, <2>6
  <2>. QED  BY <2>3, <2>4, <2>5, <2>6
<1>. QED  BY <1>1, <1>2, <1>3 DEF IsCall

(* Every call leaves a transfer within its limits. *)
LEMMA CallReaches ==
  ASSUME NEW limits, AreLimits(limits), NEW x, IsExchange(x), NEW n \in 1..Len(x.events), NEW s,
         Reached(limits, x, n - 1, s), NEW t, t = Callback(limits, x, s, n)
  PROVE  Reached(limits, x, n, t)
<1>1. PICK e : e = x.events[n]
  OBVIOUS
<1>2. Len(x.events) \in Nat /\ DOMAIN x.events = 1..Len(x.events)
  BY ListSeq DEF IsExchange
<1>3. IsCall(e)
  BY <1>1, <1>2 DEF IsExchange
<1>4. CASE s.aborted
  <2>1. t = s
    BY <1>4 DEF Callback
  <2>2. \A i \in 1..(n - 1) : i \in 1..n
    BY <1>2
  <2>. QED  BY <1>4, <2>1, <2>2 DEF Reached
<1>5. CASE ~s.aborted
  <2>1. Sound(limits, s) /\ Len(s.body) <= BodyLimit(limits, s)
    BY DEF Reached
  <2>2. ASSUME \E i \in 1..(n - 1) : EndsLastSection(x.events, i)
        PROVE  s.complete /\ ~IsLine(e, "status") /\ \E i \in 1..n : EndsLastSection(x.events, i)
    <3>1. PICK i \in 1..(n - 1) : EndsLastSection(x.events, i)
      BY <2>2
    <3>2. n \in (i + 1)..Len(x.events) /\ i \in 1..n
      BY <1>2
    <3>3. s.complete
      BY <1>5, <3>1 DEF Reached
    <3>. QED  BY <1>1, <3>1, <3>2, <3>3 DEF EndsLastSection
  <2>3. s.body # <<>> => \E i \in 1..(n - 1) : EndsLastSection(x.events, i)
    BY DEF Reached
  <2>4. CASE e.callback = "header"
    <3>1. \/ Passed(s, t) /\ t.chunked = s.chunked /\ t.body = s.body /\ t.aborted
          \/ t = ReadCurlHeader(limits, x, s, e)
      BY <1>1, <1>3, <1>5, <2>1, <2>4, CallIs
    <3>2. Sound(limits, t)
      BY <1>1, <1>3, <1>5, <2>1, <2>4, CallIs
    <3>3. CASE Passed(s, t) /\ t.chunked = s.chunked /\ t.body = s.body /\ t.aborted
      BY <2>1, <2>2, <2>3, <3>2, <3>3 DEF Reached, BodyLimit
    <3>4. CASE t = ReadCurlHeader(limits, x, s, e)
      <4>1. /\ t.body = s.body
            /\ s.complete /\ e.line # "status" => t.complete /\ t.chunked = s.chunked
            /\ e.line = "end" => t.complete \/ t.aborted
        BY <1>3, <1>5, <2>1, <2>4, <3>4, HeaderRead
      <4>2. Len(t.body) <= BodyLimit(limits, t)
        <5>1. CASE s.body = <<>>
          BY <4>1, <5>1 DEF BodyLimit, AreLimits
        <5>2. CASE s.body # <<>>
          <6>1. t.chunked = s.chunked
            BY <2>2, <2>3, <2>4, <4>1, <5>2 DEF IsLine
          <6>. QED  BY <2>1, <4>1, <6>1 DEF BodyLimit
        <5>. QED  BY <5>1, <5>2
      <4>3. ASSUME NEW i \in 1..n, EndsLastSection(x.events, i)
            PROVE  t.complete \/ t.aborted
        <5>1. CASE i = n
          BY <1>1, <4>1, <4>3, <5>1 DEF EndsLastSection, IsLine
        <5>2. CASE i # n
          <6>1. i \in 1..(n - 1)
            BY <1>2, <5>2
          <6>2. s.complete /\ ~IsLine(e, "status")
            BY <2>2, <4>3, <6>1
          <6>. QED  BY <2>4, <4>1, <6>2 DEF IsLine
        <5>. QED  BY <5>1, <5>2
      <4>. QED  BY <2>2, <2>3, <3>2, <4>1, <4>2, <4>3 DEF Reached
    <3>. QED  BY <3>1, <3>3, <3>4
  <2>5. CASE e.callback = "body"
    <3>1. Sound(limits, t) /\ Written(s, t, e.octets) /\ Len(t.body) <= BodyLimit(limits, t)
      BY <1>1, <1>3, <1>5, <2>1, <2>5, CallIs
    <3>2. \E i \in 1..(n - 1) : EndsLastSection(x.events, i)
      BY <1>1, <1>2, <2>5 DEF IsExchange
    <3>. QED  BY <2>2, <3>1, <3>2 DEF Reached, Written
  <2>6. CASE e.callback = "progress"
    <3>1. Sound(limits, t) /\ Passed(s, t) /\ t.chunked = s.chunked /\ t.body = s.body
      BY <1>1, <1>3, <1>5, <2>1, <2>6, CallIs
    <3>2. ASSUME NEW i \in 1..n, EndsLastSection(x.events, i)
          PROVE  i \in 1..(n - 1)
      <4>1. i # n
        BY <1>1, <2>6, <3>2 DEF EndsLastSection, IsLine
      <4>. QED  BY <1>2, <4>1
    <3>. QED  BY <2>1, <2>2, <2>3, <3>1, <3>2 DEF Reached, Passed, BodyLimit
  <2>. QED  BY <1>3, <2>4, <2>5, <2>6 DEF IsCall
<1>. QED  BY <1>4, <1>5

-----------------------------------------------------------------------------
(* The outcome of a transfer *)

\* Before the first call nothing has been received, and a socket is to an allowed address.
Connecting(x, s) ==
  /\ IsAcc(s) /\ s.header_bytes = 0 /\ s.response_bytes = 0 /\ s.body = <<>>
  /\ s.links = <<>> /\ s.dates = <<>> /\ s.fields = <<>> /\ s.kind = {} /\ s.aborted = FALSE
  /\ s.complete = FALSE
  /\ s.socket # <<>> => s.socket[1].allowed

(* Nothing is a list. *)
LEMMA ListNone == IsList(<<>>) /\ Len(<<>>) = 0
BY DEF IsList

(* The sockets, one address after another. *)
LEMMA SocketsOpenedDef ==
  ASSUME NEW x
  PROVE  SocketsOpened(x) =
           [i \in 0..Len(x.addresses) |->
              IF i = 0 THEN Started(x)
              ELSE OpenCurlPolicySocket(SocketsOpened(x)[i - 1], x.addresses[i])]
BY SMTT(60) DEF SocketsOpened

(* The states after the calls, one after another. *)
LEMMA CallsMadeDef ==
  ASSUME NEW limits, NEW x, NEW s
  PROVE  CallsMade(limits, x, s) =
           [i \in 0..Len(x.events) |->
              IF i = 0 THEN s ELSE Callback(limits, x, CallsMade(limits, x, s)[i - 1], i)]
BY SMTT(60) DEF CallsMade

(* Opening a socket receives nothing. *)
LEMMA SocketOpens ==
  ASSUME NEW x, NEW s, Connecting(x, s), NEW address, NEW t, t = OpenCurlPolicySocket(s, address)
  PROVE  Connecting(x, t)
<1>1. PICK fl : fl = s.flags \cup {"address_denied"}
  OBVIOUS
<1>2. \/ t = s
      \/ t = [s EXCEPT !.flags = fl]
      \/ address.allowed /\ t = [s EXCEPT !.socket = <<address>>]
  BY <1>1 DEF OpenCurlPolicySocket
<1>3. CASE t = [s EXCEPT !.flags = fl]
  BY <1>3 DEF Connecting, IsAcc, AccFields
<1>4. CASE address.allowed /\ t = [s EXCEPT !.socket = <<address>>]
  <2>1. t.socket = <<address>>
    BY <1>4 DEF Connecting, IsAcc, AccFields
  <2>2. t.socket[1].allowed
    BY <1>4, <2>1
  <2>. QED  BY <1>4, <2>2 DEF Connecting, IsAcc, AccFields
<1>. QED  BY <1>2, <1>3, <1>4

(* However many addresses are tried. *)
LEMMA SocketsOpen ==
  ASSUME NEW x, IsExchange(x)
  PROVE  Connecting(x, SocketsOpened(x)[Len(x.addresses)])
<1>1. PICK f, n : f = SocketsOpened(x) /\ n = Len(x.addresses)
  OBVIOUS
<1>2. n \in Nat
  BY <1>1 DEF IsExchange, IsList
<1>3. f = [i \in 0..n |-> IF i = 0 THEN Started(x) ELSE OpenCurlPolicySocket(f[i - 1], x.addresses[i])]
  BY <1>1, SocketsOpenedDef
<1>4. Connecting(x, f[0])
  <2>1. f[0] = Started(x)
    BY <1>2, <1>3
  <2>2. PICK fl : fl = IF "body" \in x.lacking THEN {"body_allocation_failed"} ELSE {}
    OBVIOUS
  <2>3. PICK z : z = Started(x)
    OBVIOUS
  <2>4. Connecting(x, z)
    BY <2>2, <2>3 DEF Started, Connecting, IsAcc, AccFields
  <2>. QED  BY <2>1, <2>3, <2>4
<1>5. PICK S : S = {i \in Nat : i <= n => Connecting(x, f[i])}
  OBVIOUS
<1>6. ASSUME NEW i \in Nat, i \in S
      PROVE  i + 1 \in S
  <2>1. SUFFICES ASSUME i + 1 <= n
                 PROVE  Connecting(x, f[i + 1])
    BY <1>5
  <2>2. i + 1 \in 0..n /\ i + 1 # 0 /\ (i + 1) - 1 = i /\ i <= n
    BY <1>2, <2>1
  <2>3. Connecting(x, f[i])
    BY <1>5, <1>6, <2>2
  <2>4. f[i + 1] = OpenCurlPolicySocket(f[i], x.addresses[i + 1])
    BY <1>3, <2>2
  <2>. QED  BY <2>3, <2>4, SocketOpens
<1>7. 0 \in S
  BY <1>4, <1>5
<1>8. n \in S
  BY <1>2, <1>6, <1>7, SetInduction
<1>. QED  BY <1>1, <1>2, <1>5, <1>8

(* A connected transfer that has received nothing is within its limits. *)
LEMMA ConnectedReaches ==
  ASSUME NEW limits, AreLimits(limits), NEW x, NEW s, Connecting(x, s), s.socket # <<>>
  PROVE  Reached(limits, x, 0, s)
<1>1. /\ RetainedMetadataBytes(s) = 0
      /\ AreValues(s.links) /\ AreValues(s.dates) /\ AreValues(s.fields) /\ Len(s.fields) = 0
  BY NothingRetained DEF Connecting
<1>2. WellKept(s)
  BY <1>1 DEF WellKept, Connecting, Kinds
<1>3. IsList(s.body) /\ Len(s.body) = 0
  BY ListNone DEF Connecting
<1>4. Sound(limits, s)
  BY <1>1, <1>2, <1>3 DEF Sound, Connecting, AreLimits
<1>5. Len(s.body) <= BodyLimit(limits, s)
  BY <1>3 DEF BodyLimit, AreLimits
<1>6. s.body = <<>>
  BY DEF Connecting
<1>. QED  BY <1>4, <1>5, <1>6 DEF Reached

(* And so it is after its calls. *)
LEMMA CallsReach ==
  ASSUME NEW limits, AreLimits(limits), NEW x, IsExchange(x), NEW s, Reached(limits, x, 0, s),
         NEW f, f = CallsMade(limits, x, s)
  PROVE  /\ f[0] = s
         /\ \A n \in 0..Len(x.events) : Reached(limits, x, n, f[n])
         /\ \A n \in 1..Len(x.events) : f[n] = Callback(limits, x, f[n - 1], n)
<1>1. PICK n : n = Len(x.events)
  OBVIOUS
<1>2. n \in Nat
  BY <1>1 DEF IsExchange, IsList
<1>3. f = [i \in 0..n |-> IF i = 0 THEN s ELSE Callback(limits, x, f[i - 1], i)]
  BY <1>1, CallsMadeDef
<1>4. f[0] = s
  BY <1>2, <1>3
<1>5. ASSUME NEW i \in 1..n
      PROVE  f[i] = Callback(limits, x, f[i - 1], i)
  <2>1. i \in 0..n /\ i # 0
    BY <1>2
  <2>. QED  BY <1>3, <2>1
<1>6. PICK S : S = {i \in Nat : i <= n => Reached(limits, x, i, f[i])}
  OBVIOUS
<1>7. ASSUME NEW i \in Nat, i \in S
      PROVE  i + 1 \in S
  <2>1. SUFFICES ASSUME i + 1 <= n
                 PROVE  Reached(limits, x, i + 1, f[i + 1])
    BY <1>6
  <2>2. i + 1 \in 1..n /\ (i + 1) - 1 = i /\ i <= n
    BY <1>2, <2>1
  <2>3. Reached(limits, x, i, f[i])
    BY <1>6, <1>7, <2>2
  <2>4. PICK j : j = i + 1
    OBVIOUS
  <2>5. j \in 1..n /\ j - 1 = i
    BY <2>2, <2>4
  <2>6. f[j] = Callback(limits, x, f[i], j) /\ Reached(limits, x, j - 1, f[i])
    BY <1>5, <2>3, <2>5
  <2>7. Reached(limits, x, j, f[j])
    BY <1>1, <2>5, <2>6, CallReaches
  <2>. QED  BY <2>4, <2>7
<1>8. 0 \in S
  BY <1>4, <1>6
<1>9. \A i \in Nat : i \in S
  BY <1>7, <1>8, SetInduction
<1>10. \A i \in 0..n : Reached(limits, x, i, f[i])
  BY <1>2, <1>6, <1>9
<1>. QED  BY <1>1, <1>4, <1>5, <1>10

\* What is handed over of a transfer that has ended in this state.
Handed(limits, s, o) ==
  /\ o.status = s.status /\ o.fields = s.fields /\ o.dates = s.dates /\ o.socket = s.socket
  /\ o.links = IF o.status \in 200..299 THEN s.links ELSE <<>>
  /\ o.status \notin 200..299 => o.body = <<>>
  /\ o.decompressed <= limits.decompressed

Measured(limits, o) == o.header_bytes <= limits.header /\ o.response_bytes <= limits.response

(* A failure reports what was counted. *)
LEMMA FailureIs ==
  ASSUME NEW limits, NEW s, Measured(limits, s), NEW failure, failure # "none", NEW kind,
         NEW o, o = AttemptFailure(failure, kind, s)
  PROVE  Measured(limits, o) /\ o.failure # "none"
BY DEF AttemptFailure, AttemptOutcome, Measured

(* A response is handed over within the limits, or refused. *)
LEMMA RespondedIs ==
  ASSUME NEW limits, NEW s, IsAcc(s), Measured(limits, s), Len(s.body) <= limits.decompressed,
         NEW o, o = Responded(limits, s)
  PROVE  Measured(limits, o) /\ (o.failure = "none" => Handed(limits, s, o))
<1>1. CASE s.response_bytes > limits.response
  <2>1. o = AttemptFailure("response_oversized", "other", s)
    BY <1>1 DEF Responded
  <2>. QED  BY <2>1, FailureIs
<1>2. CASE ~(s.response_bytes > limits.response)
  <2>1. PICK r : r = [ReleaseCurlLinkMetadata(s) EXCEPT !.body = <<>>]
    OBVIOUS
  <2>2. /\ r.links = <<>> /\ r.body = <<>> /\ r.status = s.status /\ r.fields = s.fields
        /\ r.dates = s.dates /\ r.socket = s.socket /\ r.header_bytes = s.header_bytes
        /\ r.response_bytes = s.response_bytes
    BY <2>1 DEF ReleaseCurlLinkMetadata, IsAcc, AccFields
  <2>3. o = AttemptOutcome("none", "none", IF s.status \in 200..299 THEN s ELSE r, Len(s.body))
    BY <1>2, <2>1 DEF Responded
  <2>4. CASE s.status \in 200..299
    <3>1. o = AttemptOutcome("none", "none", s, Len(s.body))
      BY <2>3, <2>4
    <3>. QED  BY <2>4, <3>1 DEF AttemptOutcome, Measured, Handed
  <2>5. CASE s.status \notin 200..299
    <3>1. o = AttemptOutcome("none", "none", r, Len(s.body))
      BY <2>3, <2>5
    <3>. QED  BY <2>2, <2>5, <3>1 DEF AttemptOutcome, Measured, Handed
  <2>. QED  BY <2>4, <2>5
<1>. QED  BY <1>1, <1>2

(* A decoded body is within the limit. *)
LEMMA DecodedFits ==
  ASSUME NEW encoded, NEW max \in Nat
  PROVE  Len(DecodeHttpChunkedBody(encoded, max).octets) <= max
<1>1. \E d : DecodeHttpChunkedBody(encoded, max) = IF Len(d.octets) <= max THEN d ELSE Malformed
  BY Zenon DEF DecodeHttpChunkedBody
<1>2. Len(Malformed.octets) = 0
  BY ListNone DEF Malformed
<1>. QED  BY <1>1, <1>2

(* Whatever the flags and the result of a transfer make of it. *)
LEMMA ConcludedIs ==
  ASSUME NEW limits, AreLimits(limits), NEW x, IsExchange(x), NEW p, Sound(limits, p.s),
         Len(p.s.body) <= BodyLimit(limits, p.s), NEW failure,
         NEW o, o = Concluded(limits, x, p, failure)
  PROVE  Measured(limits, o) /\ (o.failure = "none" => Handed(limits, p.s, o) /\ p.result = "ok")
<1>1. PICK s : s = p.s
  OBVIOUS
<1>2. PICK raw : raw = [s EXCEPT !.response_bytes = Len(s.body)]
  OBVIOUS
<1>3. IsAcc(s) /\ Measured(limits, s) /\ IsList(s.body)
  BY <1>1 DEF Sound, WellKept, Measured
<1>4. /\ IsAcc(raw) /\ raw.response_bytes = Len(s.body) /\ raw.header_bytes = s.header_bytes
      /\ SameValues(s, raw) /\ raw.status = s.status /\ raw.socket = s.socket
  BY <1>2, <1>3 DEF IsAcc, AccFields, SameValues
<1>5. s.chunked => Measured(limits, raw)
  BY <1>1, <1>3, <1>4 DEF Measured, BodyLimit
<1>6. CASE failure # "none"
  <2>1. o = AttemptFailure(failure, "other", s)
    BY <1>1, <1>6 DEF Concluded
  <2>. QED  BY <1>3, <1>6, <2>1, FailureIs
<1>7. CASE failure = "none" /\ p.result # "ok"
  <2>1. o = AttemptFailure("request failed", ClassifyCurlFailure(p.result), s)
    BY <1>1, <1>7, Zenon DEF Concluded
  <2>2. "request failed" # "none"
    BY Zenon
  <2>. QED  BY <1>3, <2>1, <2>2, FailureIs, Zenon
<1>8. CASE failure = "none" /\ p.result = "ok" /\ ~s.chunked
  <2>1. o = Responded(limits, s)
    BY <1>1, <1>8, Zenon DEF Concluded
  <2>2. Len(s.body) <= limits.decompressed
    BY <1>1, <1>8 DEF BodyLimit
  <2>. QED  BY <1>1, <1>3, <1>8, <2>1, <2>2, RespondedIs
<1>9. CASE failure = "none" /\ p.result = "ok" /\ s.chunked
  <2>1. PICK d : d = DecodeHttpChunkedBody(s.body, limits.decompressed)
    OBVIOUS
  <2>2. \/ o = AttemptFailure("content encoding", "other", s)
        \/ o = AttemptFailure(x.stop.flag, "other", raw)
        \/ o = Dechunked(limits, raw, d)
    BY <1>1, <1>2, <1>9, <2>1, Zenon DEF Concluded
  <2>3. CASE o = AttemptFailure("content encoding", "other", s)
    <3>1. "content encoding" # "none"
      BY Zenon
    <3>. QED  BY <1>3, <2>3, <3>1, FailureIs, Zenon
  <2>4. CASE o = AttemptFailure(x.stop.flag, "other", raw)
    <3>1. x.stop.flag # "none"
      BY DEF IsExchange
    <3>. QED  BY <1>5, <1>9, <2>4, <3>1, FailureIs
  <2>5. CASE o = Dechunked(limits, raw, d)
    <3>1. CASE ~d.ok
      <4>1. o = AttemptFailure("malformed chunks", "other", raw)
        BY <2>5, <3>1, Zenon DEF Dechunked
      <4>2. "malformed chunks" # "none"
        BY Zenon
      <4>. QED  BY <1>5, <1>9, <4>1, <4>2, FailureIs, Zenon
    <3>2. CASE d.ok
      <4>1. PICK b : b = d.octets
        OBVIOUS
      <4>2. PICK u : u = [raw EXCEPT !.body = b]
        OBVIOUS
      <4>3. o = Responded(limits, u)
        BY <2>5, <3>2, <4>1, <4>2, Zenon DEF Dechunked
      <4>4. limits.decompressed \in Nat
        BY DEF AreLimits
      <4>5. Len(b) <= limits.decompressed
        BY <2>1, <4>1, <4>4, DecodedFits
      <4>6. /\ IsAcc(u) /\ u.body = b /\ u.response_bytes = raw.response_bytes
            /\ u.header_bytes = raw.header_bytes /\ SameValues(raw, u) /\ u.status = raw.status
            /\ u.socket = raw.socket
        BY <1>4, <4>2 DEF IsAcc, AccFields, SameValues
      <4>7. Measured(limits, u)
        BY <1>5, <1>9, <4>6 DEF Measured
      <4>8. Measured(limits, o) /\ (o.failure = "none" => Handed(limits, u, o))
        BY <4>3, <4>5, <4>6, <4>7, RespondedIs
      <4>9. Handed(limits, u, o) => Handed(limits, s, o)
        BY <1>4, <4>6 DEF Handed, SameValues
      <4>. QED  BY <1>1, <1>9, <4>8, <4>9
    <3>. QED  BY <3>1, <3>2
  <2>. QED  BY <2>2, <2>3, <2>4, <2>5
<1>10. PICK b \in BOOLEAN : b <=> s.chunked
  OBVIOUS
<1>11. CASE b
  BY <1>6, <1>7, <1>9, <1>10, <1>11
<1>12. CASE ~b
  BY <1>6, <1>7, <1>8, <1>10, <1>12
<1>. QED  BY <1>10, <1>11, <1>12

\* The states of a transfer whose response is handed over.
Transferred(limits, x, f, o) ==
  /\ \E s : Connecting(x, s) /\ s.socket # <<>> /\ f = CallsMade(limits, x, s)
  /\ Sound(limits, f[Len(x.events)])
  /\ ~f[Len(x.events)].aborted
  /\ x.result = "ok"
  /\ Handed(limits, f[Len(x.events)], o)

(* An attempt counts no more than its limits, and hands over what a whole transfer has left. *)
LEMMA AttemptIs ==
  ASSUME NEW limits, AreLimits(limits), AreExecutable(limits), NEW x, IsExchange(x),
         NEW o, o = PerformCurlTransfer(limits, x)
  PROVE  Measured(limits, o) /\ (o.failure = "none" => \E f : Transferred(limits, x, f, o))
<1>1. PICK c, f, n : /\ c = SocketsOpened(x)[Len(x.addresses)] /\ n = Len(x.events)
                     /\ f = CallsMade(limits, x, c)
  OBVIOUS
<1>2. Connecting(x, c)
  BY <1>1, SocketsOpen
<1>3. PICK connected \in BOOLEAN : connected <=> c.socket # <<>> /\ c.socket[1].connects
  OBVIOUS
<1>4. PICK s : s = IF connected THEN f[n] ELSE c
  OBVIOUS
<1>5. PICK p : p = Performed(limits, x)
  OBVIOUS
<1>6. p = [s |-> s, result |-> IF ~connected THEN "could not connect"
                               ELSE IF s.aborted THEN "aborted" ELSE x.result]
  BY <1>1, <1>3, <1>4, <1>5, Zenon DEF Performed
<1>7. PICK failure : failure = FirstOf(FlagsAfter(x, p))
  OBVIOUS
<1>8. o = Concluded(limits, x, p, failure)
  BY <1>5, <1>7, Zenon DEF PerformCurlTransfer
<1>9. p.s = s
  BY <1>6, Zenon
<1>10. CASE ~connected
  <2>1. s = c
    BY <1>4, <1>10
  <2>2. p.result # "ok"
    <3>1. p.result = "could not connect"
      BY <1>6, <1>10, Zenon
    <3>2. "could not connect" # "ok"
      BY Zenon
    <3>. QED  BY <3>1, <3>2, Zenon
  <2>3. Measured(limits, s)
    BY <1>2, <2>1 DEF Connecting, Measured, AreLimits
  <2>4. \E fl, kind : fl # "none" /\ o = AttemptFailure(fl, kind, s)
    <3>1. CASE failure # "none"
      BY <1>8, <1>9, <3>1, Zenon DEF Concluded
    <3>2. CASE failure = "none"
      <4>1. o = AttemptFailure("request failed", ClassifyCurlFailure(p.result), s)
        BY <1>8, <1>9, <2>2, <3>2, Zenon DEF Concluded
      <4>2. "request failed" # "none"
        BY Zenon
      <4>. QED  BY <4>1, <4>2, Zenon
    <3>. QED  BY <3>1, <3>2
  <2>. QED  BY <2>3, <2>4, FailureIs
<1>11. CASE connected
  <2>1. s = f[n] /\ c.socket # <<>>
    BY <1>3, <1>4, <1>11
  <2>2. Reached(limits, x, 0, c)
    BY <1>2, <2>1, ConnectedReaches
  <2>3. n \in 0..n
    BY <1>1 DEF IsExchange, IsList
  <2>4. Reached(limits, x, n, f[n])
    <3>1. \A m \in 0..Len(x.events) : Reached(limits, x, m, f[m])
      BY <1>1, <2>2, CallsReach
    <3>. QED  BY <1>1, <2>3, <3>1
  <2>5. Sound(limits, s) /\ Len(s.body) <= BodyLimit(limits, s)
    BY <2>1, <2>4 DEF Reached
  <2>6. Measured(limits, o) /\ (o.failure = "none" => Handed(limits, s, o) /\ p.result = "ok")
    BY <1>8, <1>9, <2>5, ConcludedIs
  <2>7. p.result = "ok" => ~s.aborted /\ x.result = "ok"
    <3>1. p.result = IF s.aborted THEN "aborted" ELSE x.result
      BY <1>6, <1>11, Zenon
    <3>. QED  BY <3>1
  <2>8. ASSUME o.failure = "none"
        PROVE  Transferred(limits, x, f, o)
    BY <1>1, <1>2, <2>1, <2>5, <2>6, <2>7, <2>8 DEF Transferred
  <2>. QED  BY <2>6, <2>8
<1>. QED  BY <1>10, <1>11

(* What is handed over costs no more to keep than it did during the transfer. *)
LEMMA HandedFits ==
  ASSUME NEW limits, AreLimits(limits), NEW s, Sound(limits, s), NEW o, Handed(limits, s, o)
  PROVE  RetainedMetadataBytes(o) <= limits.metadata
<1>1. Storage.string \in Nat /\ Storage.field + Storage.name \in Nat
  BY TransportAssumption
<1>2. RetainedMetadataBytes(s) <= limits.metadata /\ limits.metadata \in Nat /\ WellKept(s)
  BY DEF Sound, AreLimits
<1>3. CASE o.status \in 200..299
  BY <1>2, <1>3, RetainedSame DEF Handed, SameValues
<1>4. CASE o.status \notin 200..299
  <2>1. PICK l, d, f : l = s.links /\ d = s.dates /\ f = s.fields
    OBVIOUS
  <2>2. AreValues(l) /\ AreValues(d) /\ AreValues(f) /\ AreValues(<<>>)
    BY <1>1, <1>2, <2>1, KeptNone DEF WellKept
  <2>3. o.links = <<>> /\ o.dates = d /\ o.fields = f
    BY <1>4, <2>1 DEF Handed
  <2>4. RetainedMetadataBytes(o) =
          Kept(<<>>, Storage.string) + Kept(d, Storage.string) + Kept(f, Storage.field + Storage.name)
    BY <2>2, <2>3, RetainedIs
  <2>5. RetainedMetadataBytes(s) =
          Kept(l, Storage.string) + Kept(d, Storage.string) + Kept(f, Storage.field + Storage.name)
    BY <2>1, <2>2, RetainedIs
  <2>6. Kept(<<>>, Storage.string) = 0
    BY <1>1, KeptNone
  <2>7. /\ Kept(l, Storage.string) \in Nat /\ Kept(d, Storage.string) \in Nat
    BY <1>1, <2>2, KeptNat
  <2>8. Kept(f, Storage.field + Storage.name) \in Nat
    BY <1>1, <2>2, KeptNat
  <2>. QED  BY <1>2, <2>4, <2>5, <2>6, <2>7, <2>8
<1>. QED  BY <1>3, <1>4

(* Whatever is sent in answer to a request, an attempt counts no more bytes than    *)
(* its limits, and a response that it hands over has a body and metadata within     *)
(* them and came from an address the policy allows (curl_response_accumulator.cpp). *)
THEOREM TransfersStayWithinLimits ==
  \A n \in Scans : \A p \in DOMAIN Remote[n] : \A k \in DOMAIN Received[n][p] :
    WithinLimits(HttpLimits[n], Received[n][p][k].outcome)
<1>1. SUFFICES ASSUME NEW n \in Scans, NEW p \in DOMAIN Remote[n], NEW k \in DOMAIN Received[n][p]
               PROVE  WithinLimits(HttpLimits[n], Received[n][p][k].outcome)
  OBVIOUS
<1>2. PICK limits, x, o : /\ limits = HttpLimits[n] /\ x = Remote[n][p][k]
                          /\ o = Received[n][p][k].outcome
  OBVIOUS
<1>3. k \in DOMAIN Remote[n][p] /\ o = PerformCurlTransfer(limits, x)
  <2>1. k \in DOMAIN Remote[n][p]
    BY ReceivedIs
  <2>2. Received[n][p][k] = [exchange |-> x, outcome |-> PerformCurlTransfer(limits, x)]
    BY <1>2, <2>1, ReceivedIs
  <2>. QED  BY <1>2, <2>1, <2>2
<1>4. AreLimits(limits) /\ AreExecutable(limits)
  BY <1>2, StreamAssumption DEF AreLimits
<1>5. IsExchange(x)
  <2>1. x \in Range(Remote[n][p])
    BY <1>2, <1>3 DEF Range
  <2>. QED  BY <2>1, WireAssumption
<1>6. Measured(limits, o) /\ (o.failure = "none" => \E f : Transferred(limits, x, f, o))
  BY <1>3, <1>4, <1>5, AttemptIs
<1>7. ASSUME o.failure = "none"
      PROVE  /\ o.decompressed <= limits.decompressed
             /\ RetainedMetadataBytes(o) <= limits.metadata
             /\ o.socket[1].allowed
  <2>1. PICK s : Sound(limits, s) /\ Handed(limits, s, o)
    BY <1>6, <1>7 DEF Transferred
  <2>2. RetainedMetadataBytes(o) <= limits.metadata
    BY <1>4, <2>1, HandedFits
  <2>. QED  BY <2>1, <2>2 DEF Handed, Sound
<1>. QED  BY <1>2, <1>6, <1>7 DEF WithinLimits, Measured

-----------------------------------------------------------------------------
(* The items that are kept *)

\* The items of all values, and of those with a name, value by value.
ItemLists(v) == [i \in DOMAIN v |-> v[i].items]

NamedLists(v, name) == [i \in DOMAIN v |-> IF v[i].name = name THEN v[i].items ELSE <<>>]

ListsOf(v, name, q, r) ==
  /\ AreLists(q) /\ Len(q) = Len(v) /\ AreLists(r) /\ Len(r) = Len(v)
  /\ \A i \in 1..Len(v) : /\ q[i] = v[i].items
                          /\ r[i] = IF v[i].name = name THEN v[i].items ELSE <<>>

(* They are lists of lists. *)
LEMMA ListsAre ==
  ASSUME NEW v, AreValues(v), NEW name
  PROVE  ListsOf(v, name, ItemLists(v), NamedLists(v, name))
<1>1. PICK n : n = Len(v) /\ n \in Nat
  BY DEF AreValues, IsList
<1>2. DOMAIN v = 1..n
  BY <1>1, ListSeq DEF AreValues
<1>3. PICK q, r : q = ItemLists(v) /\ r = NamedLists(v, name)
  OBVIOUS
<1>4. q = [i \in 1..n |-> v[i].items]
  BY <1>2, <1>3 DEF ItemLists
<1>5. r = [i \in 1..n |-> IF v[i].name = name THEN v[i].items ELSE <<>>]
  BY <1>2, <1>3 DEF NamedLists
<1>6. Len(q) = n /\ IsList(q) /\ Len(r) = n /\ IsList(r)
  BY <1>1, <1>4, <1>5 DEF IsList
<1>7. \A i \in 1..n : IsList(v[i].items)
  BY <1>1 DEF AreValues, IsKept
<1>8. IsList(<<>>)
  BY ListNone
<1>9. /\ \A i \in 1..n : q[i] = v[i].items /\ IsList(q[i])
      /\ \A i \in 1..n : r[i] = IF v[i].name = name THEN v[i].items ELSE <<>>
      /\ \A i \in 1..n : IsList(r[i])
  BY <1>4, <1>5, <1>7, <1>8
<1>. QED  BY <1>1, <1>3, <1>6, <1>9 DEF AreLists, ListsOf

\* From v to u these items have been added, under the name said.
Gains(v, u, items, said, name) ==
  /\ FlattenSeq(ItemLists(u)) = FlattenSeq(ItemLists(v)) \o items
  /\ FlattenSeq(NamedLists(u, name)) =
       FlattenSeq(NamedLists(v, name)) \o (IF said = name THEN items ELSE <<>>)

(* A value more adds its items. *)
LEMMA ItemsAppend ==
  ASSUME NEW v, AreValues(v), NEW e, IsKept(e), NEW u, u = Append(v, e), NEW name
  PROVE  Gains(v, u, e.items, e.name, name)
<1>1. /\ IsList(u) /\ Len(u) = Len(v) + 1 /\ u[Len(v) + 1] = e
      /\ \A i \in 1..Len(v) : u[i] = v[i]
  <2>1. IsList(v)
    BY DEF AreValues
  <2>2. IsList(u)
    BY <2>1, ListAppend
  <2>3. Len(u) = Len(v) + 1
    BY <2>1, ListAppend
  <2>4. u[Len(v) + 1] = e
    BY <2>1, ListAppend
  <2>5. \A i \in 1..Len(v) : u[i] = v[i]
    BY <2>1, ListAppend
  <2>. QED  BY <2>2, <2>3, <2>4, <2>5
<1>2. PICK n : n = Len(v) /\ n \in Nat
  BY DEF AreValues, IsList
<1>3. AreValues(u)
  <2>1. ASSUME NEW i \in 1..Len(u)
        PROVE  IsKept(u[i])
    <3>1. i \in 1..n \/ i = n + 1
      BY <1>1, <1>2
    <3>. QED  BY <1>1, <1>2, <3>1 DEF AreValues
  <2>. QED  BY <1>1, <2>1 DEF AreValues
<1>4. PICK p, q, r, s : /\ p = ItemLists(v) /\ q = ItemLists(u)
                        /\ r = NamedLists(v, name) /\ s = NamedLists(u, name)
  OBVIOUS
<1>5. /\ AreLists(p) /\ Len(p) = n /\ AreLists(r) /\ Len(r) = n
      /\ \A i \in 1..n : /\ p[i] = v[i].items
                         /\ r[i] = IF v[i].name = name THEN v[i].items ELSE <<>>
  <2>1. ListsOf(v, name, p, r)
    BY <1>4, ListsAre
  <2>. QED  BY <1>2, <2>1 DEF ListsOf
<1>6. /\ AreLists(q) /\ Len(q) = n + 1 /\ AreLists(s) /\ Len(s) = n + 1
      /\ \A i \in 1..(n + 1) : /\ q[i] = u[i].items
                               /\ s[i] = IF u[i].name = name THEN u[i].items ELSE <<>>
  <2>1. ListsOf(u, name, q, s)
    BY <1>3, <1>4, ListsAre
  <2>. QED  BY <1>1, <1>2, <2>1 DEF ListsOf
<1>7. \A i \in 1..n : i \in 1..(n + 1)
  BY <1>2
<1>8. /\ \A i \in 1..n : q[i] = p[i] /\ s[i] = r[i]
      /\ q[n + 1] = e.items /\ s[n + 1] = IF e.name = name THEN e.items ELSE <<>>
  BY <1>1, <1>2, <1>5, <1>6, <1>7
<1>9. FlattenSeq(q) = FlattenSeq(p) \o q[n + 1]
  BY <1>5, <1>6, <1>8, FlattenExtends
<1>10. FlattenSeq(s) = FlattenSeq(r) \o s[n + 1]
  BY <1>5, <1>6, <1>8, FlattenExtends
<1>. QED  BY <1>4, <1>8, <1>9, <1>10 DEF Gains

(* A folded line adds its items. *)
LEMMA ItemsFold ==
  ASSUME NEW v, AreValues(v), Len(v) >= 1, NEW e, e.size \in Nat, IsList(e.items),
         NEW u, u = Folded(v, e), AreValues(u), NEW name
  PROVE  /\ FlattenSeq(ItemLists(u)) = FlattenSeq(ItemLists(v)) \o e.items
         /\ "name" \in DOMAIN v[Len(v)] => Gains(v, u, e.items, v[Len(v)].name, name)
<1>1. IsFolded(v, u, e)
  BY FoldedIs
<1>2. PICK n : n = Len(v) /\ n \in Nat /\ n \in 1..n
  BY DEF AreValues, IsList
<1>3. /\ Len(u) = n /\ (\A i \in 1..(n - 1) : u[i] = v[i])
      /\ u[n].items = v[n].items \o e.items
      /\ "name" \in DOMAIN v[n] => u[n].name = v[n].name
  BY <1>1, <1>2 DEF IsFolded
<1>4. PICK p, q, r, s : /\ p = ItemLists(v) /\ q = ItemLists(u)
                        /\ r = NamedLists(v, name) /\ s = NamedLists(u, name)
  OBVIOUS
<1>5. /\ AreLists(p) /\ Len(p) = n /\ AreLists(r) /\ Len(r) = n
      /\ \A i \in 1..n : /\ p[i] = v[i].items
                         /\ r[i] = IF v[i].name = name THEN v[i].items ELSE <<>>
  <2>1. ListsOf(v, name, p, r)
    BY <1>4, ListsAre
  <2>. QED  BY <1>2, <2>1 DEF ListsOf
<1>6. /\ AreLists(q) /\ Len(q) = n /\ AreLists(s) /\ Len(s) = n
      /\ \A i \in 1..n : /\ q[i] = u[i].items
                         /\ s[i] = IF u[i].name = name THEN u[i].items ELSE <<>>
  <2>1. ListsOf(u, name, q, s)
    BY <1>4, ListsAre
  <2>. QED  BY <1>3, <2>1 DEF ListsOf
<1>7. \A i \in 1..(n - 1) : i \in 1..n
  BY <1>2
<1>8. \A i \in 1..(n - 1) : q[i] = p[i] /\ s[i] = r[i]
  BY <1>3, <1>5, <1>6, <1>7
<1>9. q[n] = p[n] \o e.items
  BY <1>2, <1>3, <1>5, <1>6
<1>10. FlattenSeq(q) = FlattenSeq(p) \o e.items
  <2>1. /\ Len(q) = Len(p) /\ Len(p) >= 1 /\ q[Len(p)] = p[Len(p)] \o e.items
        /\ \A i \in 1..(Len(p) - 1) : q[i] = p[i]
    BY <1>2, <1>5, <1>6, <1>8, <1>9
  <2>2. AreLists(p) /\ AreLists(q)
    BY <1>5, <1>6
  <2>. QED  BY <2>1, <2>2, FlattenGrows
<1>11. PICK d : d = IF v[n].name = name THEN e.items ELSE <<>>
  OBVIOUS
<1>12. IsList(d)
  BY <1>11, ListNone
<1>13. ASSUME "name" \in DOMAIN v[n]
       PROVE  FlattenSeq(s) = FlattenSeq(r) \o d
  <2>1. s[n] = r[n] \o d
    <3>1. CASE v[n].name = name
      BY <1>2, <1>3, <1>5, <1>6, <1>11, <1>13, <3>1
    <3>2. CASE v[n].name # name
      <4>1. s[n] = <<>> /\ r[n] = <<>> /\ d = <<>>
        BY <1>2, <1>3, <1>5, <1>6, <1>11, <1>13, <3>2
      <4>2. <<>> \o <<>> = <<>>
        BY ListNone, JoinsEmpty
      <4>. QED  BY <4>1, <4>2
    <3>. QED  BY <3>1, <3>2
  <2>2. /\ Len(s) = Len(r) /\ Len(r) >= 1 /\ s[Len(r)] = r[Len(r)] \o d
        /\ \A i \in 1..(Len(r) - 1) : s[i] = r[i]
    BY <1>2, <1>5, <1>6, <1>8, <2>1
  <2>3. AreLists(r) /\ AreLists(s)
    BY <1>5, <1>6
  <2>. QED  BY <1>12, <2>2, <2>3, FlattenGrows
<1>. QED  BY <1>2, <1>4, <1>10, <1>11, <1>13 DEF Gains

\* What the first m calls of a section say under a name, call by call, and the next one.
Said(section, name, m) ==
  [i \in 1..m |-> IF Belongs(section, i, name) THEN section[i].items ELSE <<>>]

SaidAt(section, name, i) == IF Belongs(section, i, name) THEN section[i].items ELSE <<>>

\* A header section as it is between its status line and its end.
IsSection(section) ==
  /\ IsList(section)
  /\ \A i \in 1..Len(section) :
       /\ IsCall(section[i])
       /\ section[i].callback \in {"header", "progress"}
       /\ section[i].callback = "header" => section[i].line \in {"field", "fold"}

(* One call at a time is read. *)
LEMMA SaidMore ==
  ASSUME NEW section, IsSection(section), NEW name, NEW m \in 0..(Len(section) - 1)
  PROVE  /\ FlattenSeq(Said(section, name, m + 1)) =
              FlattenSeq(Said(section, name, m)) \o SaidAt(section, name, m + 1)
         /\ IsList(FlattenSeq(Said(section, name, m)))
         /\ IsList(SaidAt(section, name, m + 1))
<1>1. Len(section) \in Nat /\ m \in Nat /\ m + 1 <= Len(section)
  BY DEF IsSection, IsList
<1>2. ASSUME NEW i \in 1..(m + 1)
      PROVE  IsList(SaidAt(section, name, i))
  <2>1. i \in 1..Len(section)
    BY <1>1
  <2>2. Belongs(section, i, name) => IsList(section[i].items)
    BY <2>1 DEF Belongs, IsSection, IsCall
  <2>. QED  BY <2>2, ListNone DEF SaidAt
<1>3. ASSUME NEW k \in {m, m + 1}
      PROVE  /\ AreLists(Said(section, name, k)) /\ Len(Said(section, name, k)) = k
             /\ \A i \in 1..k : Said(section, name, k)[i] = SaidAt(section, name, i)
  <2>1. k \in Nat /\ \A i \in 1..k : i \in 1..(m + 1)
    BY <1>1
  <2>2. PICK q : q = Said(section, name, k)
    OBVIOUS
  <2>3. q = [i \in 1..k |-> SaidAt(section, name, i)]
    BY <2>2 DEF Said, SaidAt
  <2>4. Len(q) = k /\ IsList(q)
    BY <2>1, <2>3 DEF IsList
  <2>5. \A i \in 1..k : q[i] = SaidAt(section, name, i)
    BY <2>3
  <2>6. AreLists(q)
    BY <1>2, <2>1, <2>4, <2>5 DEF AreLists
  <2>. QED  BY <2>2, <2>4, <2>5, <2>6
<1>4. PICK q, r : q = Said(section, name, m) /\ r = Said(section, name, m + 1)
  OBVIOUS
<1>5. /\ AreLists(q) /\ Len(q) = m /\ \A i \in 1..m : q[i] = SaidAt(section, name, i)
  BY <1>3, <1>4
<1>6. /\ AreLists(r) /\ Len(r) = m + 1 /\ \A i \in 1..(m + 1) : r[i] = SaidAt(section, name, i)
  BY <1>3, <1>4
<1>7. (\A i \in 1..m : i \in 1..(m + 1)) /\ m + 1 \in 1..(m + 1)
  BY <1>1
<1>8. FlattenSeq(r) = FlattenSeq(q) \o r[Len(q) + 1]
  BY <1>5, <1>6, <1>7, FlattenExtends
<1>9. IsList(FlattenSeq(q))
  BY <1>5, FlattenList
<1>. QED  BY <1>2, <1>4, <1>5, <1>6, <1>7, <1>8, <1>9

(* Before the first call nothing is said. *)
LEMMA SaidNothing ==
  ASSUME NEW section, NEW name
  PROVE  FlattenSeq(Said(section, name, 0)) = <<>>
<1>1. PICK q : q = Said(section, name, 0)
  OBVIOUS
<1>2. q = <<>>
  BY <1>1 DEF Said
<1>3. Len(q) = 0
  BY <1>2, ListNone
<1>. QED  BY <1>1, <1>2, <1>3, FlattenIs

LastField(section, m, j) ==
  IsLine(section[j], "field") /\ \A k \in (j + 1)..m : ~IsLine(section[k], "field")

(* A line belongs to the last field before it. *)
LEMMA BelongsToLast ==
  ASSUME NEW section, NEW i \in Nat, NEW j \in 1..i, LastField(section, i, j), NEW name
  PROVE  Belongs(section, i, name) <=> section[i].callback = "header" /\ section[j].name = name
<1>1. ASSUME Belongs(section, i, name)
      PROVE  section[i].callback = "header" /\ section[j].name = name
  <2>1. PICK k \in 1..i : /\ IsLine(section[k], "field") /\ section[k].name = name
                          /\ \A l \in (k + 1)..i : ~IsLine(section[l], "field")
    BY <1>1 DEF Belongs
  <2>2. ~(k < j)
    <3>1. SUFFICES ASSUME k < j PROVE FALSE
      OBVIOUS
    <3>2. j \in (k + 1)..i
      BY <3>1
    <3>. QED  BY <2>1, <3>2 DEF LastField
  <2>3. ~(j < k)
    <3>1. SUFFICES ASSUME j < k PROVE FALSE
      OBVIOUS
    <3>2. k \in (j + 1)..i
      BY <3>1
    <3>. QED  BY <2>1, <3>2 DEF LastField
  <2>4. j = k
    BY <2>2, <2>3
  <2>. QED  BY <1>1, <2>1, <2>4 DEF Belongs
<1>2. ASSUME section[i].callback = "header", section[j].name = name
      PROVE  Belongs(section, i, name)
  BY <1>2 DEF Belongs, LastField
<1>. QED  BY <1>1, <1>2

-----------------------------------------------------------------------------
(* The terminal header section *)

\* What is to be continued is the field read last.
Continuing(limits, section, m, s) ==
  \/ (\A i \in 1..m : ~IsLine(section[i], "field")) /\ s.kind = {}
  \/ \E j \in 1..m :
       /\ LastField(section, m, j)
       /\ s.kind = KindsOf(limits, section[j])
       /\ s.kind # {} => limits.metadata > 0
       /\ "fields" \in s.kind => s.fields[Len(s.fields)].name = section[j].name

\* Links and guidance are what the first calls of the section say.
Gathered(limits, section, m, s) ==
  /\ ~s.complete
  /\ Continuing(limits, section, m, s)
  /\ FlattenSeq(ItemLists(s.links)) =
       IF limits.metadata > 0 THEN FlattenSeq(Said(section, "link", m)) ELSE <<>>
  /\ \A name \in limits.retained :
       FlattenSeq(NamedLists(s.fields, name)) = FlattenSeq(Said(section, name, m))

(* Nothing is said by a call that belongs to no field, or to another one. *)
LEMMA SaysNothing ==
  ASSUME NEW section, IsSection(section), NEW name, NEW m \in 0..(Len(section) - 1),
         ~Belongs(section, m + 1, name)
  PROVE  FlattenSeq(Said(section, name, m + 1)) = FlattenSeq(Said(section, name, m))
<1>1. PICK a : a = FlattenSeq(Said(section, name, m))
  OBVIOUS
<1>2. FlattenSeq(Said(section, name, m + 1)) = a \o SaidAt(section, name, m + 1)
  BY <1>1, SaidMore
<1>3. IsList(a)
  BY <1>1, SaidMore
<1>4. SaidAt(section, name, m + 1) = <<>>
  BY DEF SaidAt
<1>5. a \o <<>> = a
  BY <1>3, JoinsEmpty
<1>. QED  BY <1>1, <1>2, <1>4, <1>5

(* A call that is no field leaves the last one the last. *)
LEMMA LastStays ==
  ASSUME NEW section, NEW m \in Nat, ~IsLine(section[m + 1], "field")
  PROVE  /\ \A j \in 1..m : LastField(section, m, j) => LastField(section, m + 1, j) /\ j \in 1..(m + 1)
         /\ (\A i \in 1..m : ~IsLine(section[i], "field")) =>
              /\ \A i \in 1..(m + 1) : ~IsLine(section[i], "field")
              /\ \A name : ~Belongs(section, m + 1, name)
<1>1. ASSUME NEW j \in 1..m, LastField(section, m, j)
      PROVE  LastField(section, m + 1, j) /\ j \in 1..(m + 1)
  <2>1. ASSUME NEW k \in (j + 1)..(m + 1)
        PROVE  ~IsLine(section[k], "field")
    <3>1. k = m + 1 \/ k \in (j + 1)..m
      OBVIOUS
    <3>. QED  BY <1>1, <3>1 DEF LastField
  <2>. QED  BY <1>1, <2>1 DEF LastField
<1>2. ASSUME \A i \in 1..m : ~IsLine(section[i], "field"), NEW i \in 1..(m + 1)
      PROVE  ~IsLine(section[i], "field")
  <2>1. i = m + 1 \/ i \in 1..m
    OBVIOUS
  <2>. QED  BY <1>2, <2>1
<1>. QED  BY <1>1, <1>2 DEF Belongs

(* A call that changes nothing, and belongs to nothing that is kept, says nothing. *)
LEMMA PassedGathers ==
  ASSUME NEW limits, NEW section, IsSection(section), NEW m \in 0..(Len(section) - 1),
         NEW s, Gathered(limits, section, m, s), NEW t, Passed(s, t),
         ~IsLine(section[m + 1], "field"),
         limits.metadata > 0 => ~Belongs(section, m + 1, "link"),
         \A name \in limits.retained : ~Belongs(section, m + 1, name)
  PROVE  Gathered(limits, section, m + 1, t)
<1>1. m \in Nat
  OBVIOUS
<1>2. t.links = s.links /\ t.fields = s.fields /\ t.kind = s.kind /\ t.complete = s.complete
  BY DEF Passed, SameValues
<1>3. Continuing(limits, section, m + 1, t)
  <2>1. Continuing(limits, section, m, s)
    BY DEF Gathered
  <2>2. CASE (\A i \in 1..m : ~IsLine(section[i], "field")) /\ s.kind = {}
    BY <1>1, <1>2, <2>2, LastStays DEF Continuing
  <2>3. ASSUME NEW j \in 1..m, LastField(section, m, j), s.kind = KindsOf(limits, section[j]),
               s.kind # {} => limits.metadata > 0,
               "fields" \in s.kind => s.fields[Len(s.fields)].name = section[j].name
        PROVE  Continuing(limits, section, m + 1, t)
    <3>1. LastField(section, m + 1, j) /\ j \in 1..(m + 1)
      BY <1>1, <2>3, LastStays
    <3>. QED  BY <1>2, <2>3, <3>1 DEF Continuing
  <2>. QED  BY <2>1, <2>2, <2>3 DEF Continuing
<1>4. FlattenSeq(ItemLists(t.links)) =
        IF limits.metadata > 0 THEN FlattenSeq(Said(section, "link", m + 1)) ELSE <<>>
  <2>1. limits.metadata > 0 =>
          FlattenSeq(Said(section, "link", m + 1)) = FlattenSeq(Said(section, "link", m))
    BY SaysNothing
  <2>. QED  BY <1>2, <2>1 DEF Gathered
<1>5. ASSUME NEW name \in limits.retained
      PROVE  FlattenSeq(NamedLists(t.fields, name)) = FlattenSeq(Said(section, name, m + 1))
  <2>1. FlattenSeq(Said(section, name, m + 1)) = FlattenSeq(Said(section, name, m))
    BY SaysNothing
  <2>. QED  BY <1>2, <2>1 DEF Gathered
<1>. QED  BY <1>2, <1>3, <1>4, <1>5 DEF Gathered

(* What is kept of a field. *)
LEMMA KindsAre ==
  ASSUME NEW limits, NEW e
  PROVE  /\ "fields" \in KindsOf(limits, e) <=> e.name \in limits.retained
         /\ "links" \in KindsOf(limits, e) => e.name = "link"
         /\ e.name = "link" /\ limits.metadata > 0 => "links" \in KindsOf(limits, e)
BY DEF KindsOf

(* A folded line says what is added to the copies of its field. *)
LEMMA FoldGathers ==
  ASSUME NEW limits, AreLimits(limits), NEW section, IsSection(section),
         NEW m \in 0..(Len(section) - 1), NEW s, Sound(limits, s), ~s.aborted,
         Gathered(limits, section, m, s), NEW e, e = section[m + 1], e.callback = "header",
         e.line = "fold", s.kind # {}, NEW t, Sound(limits, t), Continued(s, t, e)
  PROVE  Gathered(limits, section, m + 1, t)
<1>1. m \in Nat /\ m + 1 \in 1..Len(section)
  BY DEF IsSection, IsList
<1>2. ~IsLine(e, "field") /\ e.size \in Nat /\ IsList(e.items)
  BY <1>1 DEF IsLine, IsSection, IsCall
<1>3. PICK j \in 1..m : /\ LastField(section, m, j) /\ s.kind = KindsOf(limits, section[j])
                        /\ limits.metadata > 0
                        /\ "fields" \in s.kind => s.fields[Len(s.fields)].name = section[j].name
  BY DEF Gathered, Continuing
<1>4. LastField(section, m + 1, j) /\ j \in 1..(m + 1)
  BY <1>1, <1>2, <1>3, LastStays
<1>5. \A name : Belongs(section, m + 1, name) <=> section[j].name = name
  <2>1. m + 1 \in Nat
    BY <1>1
  <2>. QED  BY <1>4, <2>1, BelongsToLast
<1>6. /\ "fields" \in s.kind <=> section[j].name \in limits.retained
      /\ "links" \in s.kind <=> section[j].name = "link"
  BY <1>3, KindsAre
<1>7. /\ AreValues(s.links) /\ AreValues(s.fields) /\ AreValues(t.links) /\ AreValues(t.fields)
      /\ "links" \in s.kind => Len(s.links) >= 1
      /\ "fields" \in s.kind => Len(s.fields) >= 1
      /\ \A i \in 1..Len(s.fields) : "name" \in DOMAIN s.fields[i]
  BY DEF Sound, WellKept
<1>8. /\ t.kind = s.kind /\ t.complete = s.complete
      /\ t.links = IF "links" \in s.kind THEN Folded(s.links, e) ELSE s.links
      /\ t.fields = IF "fields" \in s.kind THEN Folded(s.fields, e) ELSE s.fields
  BY DEF Continued
<1>9. ASSUME "fields" \in s.kind
      PROVE  /\ "name" \in DOMAIN s.fields[Len(s.fields)]
             /\ t.fields[Len(t.fields)].name = section[j].name
  <2>1. PICK v, u, n : v = s.fields /\ u = t.fields /\ n = Len(v)
    OBVIOUS
  <2>2. n \in Nat /\ n \in 1..n
    BY <1>7, <1>9, <2>1 DEF AreValues, IsList
  <2>3. IsFolded(v, u, e)
    BY <1>2, <1>7, <1>8, <1>9, <2>1, FoldedIs
  <2>4. "name" \in DOMAIN v[n]
    BY <1>7, <2>1, <2>2
  <2>. QED  BY <1>3, <1>9, <2>1, <2>2, <2>3, <2>4 DEF IsFolded
<1>10. Continuing(limits, section, m + 1, t)
  BY <1>3, <1>4, <1>8, <1>9 DEF Continuing
<1>11. FlattenSeq(ItemLists(t.links)) = FlattenSeq(Said(section, "link", m + 1))
  <2>1. FlattenSeq(ItemLists(s.links)) = FlattenSeq(Said(section, "link", m))
    BY <1>3 DEF Gathered
  <2>2. CASE "links" \in s.kind
    <3>1. PICK v, u : v = s.links /\ u = t.links
      OBVIOUS
    <3>2. u = Folded(v, e) /\ AreValues(v) /\ AreValues(u) /\ Len(v) >= 1
      BY <1>7, <1>8, <2>2, <3>1
    <3>3. FlattenSeq(ItemLists(u)) = FlattenSeq(ItemLists(v)) \o e.items
      BY <1>2, <3>2, ItemsFold
    <3>4. SaidAt(section, "link", m + 1) = e.items
      BY <1>5, <1>6, <2>2 DEF SaidAt
    <3>5. FlattenSeq(Said(section, "link", m + 1)) =
            FlattenSeq(Said(section, "link", m)) \o SaidAt(section, "link", m + 1)
      BY SaidMore
    <3>. QED  BY <2>1, <3>1, <3>3, <3>4, <3>5
  <2>3. CASE "links" \notin s.kind
    <3>1. ~Belongs(section, m + 1, "link")
      BY <1>5, <1>6, <2>3
    <3>2. FlattenSeq(Said(section, "link", m + 1)) = FlattenSeq(Said(section, "link", m))
      BY <3>1, SaysNothing
    <3>. QED  BY <1>8, <2>1, <2>3, <3>2
  <2>. QED  BY <2>2, <2>3
<1>12. ASSUME NEW name \in limits.retained
       PROVE  FlattenSeq(NamedLists(t.fields, name)) = FlattenSeq(Said(section, name, m + 1))
  <2>1. FlattenSeq(NamedLists(s.fields, name)) = FlattenSeq(Said(section, name, m))
    BY DEF Gathered
  <2>2. CASE "fields" \in s.kind
    <3>1. PICK v, u, n : v = s.fields /\ u = t.fields /\ n = Len(v)
      OBVIOUS
    <3>2. /\ u = Folded(v, e) /\ AreValues(v) /\ AreValues(u) /\ Len(v) >= 1
          /\ "name" \in DOMAIN v[Len(v)] /\ v[Len(v)].name = section[j].name
      BY <1>3, <1>7, <1>8, <1>9, <2>2, <3>1
    <3>3. FlattenSeq(NamedLists(u, name)) =
            FlattenSeq(NamedLists(v, name)) \o (IF v[Len(v)].name = name THEN e.items ELSE <<>>)
      <4>1. Gains(v, u, e.items, v[Len(v)].name, name)
        BY <1>2, <3>2, ItemsFold
      <4>. QED  BY <4>1 DEF Gains
    <3>4. SaidAt(section, name, m + 1) = IF v[Len(v)].name = name THEN e.items ELSE <<>>
      BY <1>5, <3>2 DEF SaidAt
    <3>5. FlattenSeq(Said(section, name, m + 1)) =
            FlattenSeq(Said(section, name, m)) \o SaidAt(section, name, m + 1)
      BY SaidMore
    <3>. QED  BY <2>1, <3>1, <3>3, <3>4, <3>5
  <2>3. CASE "fields" \notin s.kind
    <3>1. ~Belongs(section, m + 1, name)
      BY <1>5, <1>6, <2>3
    <3>2. FlattenSeq(Said(section, name, m + 1)) = FlattenSeq(Said(section, name, m))
      BY <3>1, SaysNothing
    <3>. QED  BY <1>8, <2>1, <2>3, <3>2
  <2>. QED  BY <2>2, <2>3
<1>13. ~t.complete
  BY <1>8 DEF Gathered
<1>. QED  BY <1>3, <1>10, <1>11, <1>12, <1>13 DEF Gathered

(* A field says what is kept of it. *)
LEMMA FieldGathers ==
  ASSUME NEW limits, AreLimits(limits), NEW section, IsSection(section),
         NEW m \in 0..(Len(section) - 1), NEW s, Sound(limits, s),
         Gathered(limits, section, m, s), NEW e, e = section[m + 1], e.callback = "header",
         e.line = "field", NEW t, Sound(limits, t), Entered(limits, s, t, e)
  PROVE  Gathered(limits, section, m + 1, t)
<1>1. m \in Nat /\ m + 1 \in 1..Len(section) /\ m + 1 \in 1..(m + 1) /\ m + 1 \in Nat
  BY DEF IsSection, IsList
<1>2. IsLine(e, "field") /\ e.size \in Nat /\ IsList(e.items)
  BY <1>1 DEF IsLine, IsSection, IsCall
<1>3. PICK j : j = m + 1
  OBVIOUS
<1>4. LastField(section, j, j) /\ j \in 1..j /\ j \in Nat
  <2>1. \A k \in (j + 1)..j : FALSE
    BY <1>1, <1>3
  <2>. QED  BY <1>1, <1>2, <1>3, <2>1 DEF LastField
<1>5. \A name : Belongs(section, m + 1, name) <=> e.name = name
  BY <1>3, <1>4, BelongsToLast
<1>6. PICK kinds : kinds = KindsOf(limits, e)
  OBVIOUS
<1>7. /\ "fields" \in kinds <=> e.name \in limits.retained
      /\ "links" \in kinds => e.name = "link"
      /\ e.name = "link" /\ limits.metadata > 0 => "links" \in kinds
  BY <1>6, KindsAre
<1>8. PICK value, field : /\ value = [bytes |-> e.size, items |-> e.items]
                          /\ field = [name |-> e.name, bytes |-> e.size, items |-> e.items]
  OBVIOUS
<1>9. /\ IsKept(value) /\ value.items = e.items
      /\ IsKept(field) /\ field.items = e.items /\ field.name = e.name
  BY <1>2, <1>8 DEF IsKept
<1>10. /\ t.kind = kinds /\ t.complete = s.complete /\ (kinds # {} => limits.metadata > 0)
       /\ t.links = IF "links" \in kinds THEN Append(s.links, value) ELSE s.links
       /\ t.fields = IF "fields" \in kinds THEN Append(s.fields, field) ELSE s.fields
  BY <1>6, <1>8 DEF Entered
<1>11. AreValues(s.links) /\ AreValues(s.fields)
  BY DEF Sound, WellKept
<1>12. ASSUME "fields" \in kinds
       PROVE  t.fields[Len(t.fields)].name = e.name
  <2>1. PICK v, u : v = s.fields /\ u = t.fields
    OBVIOUS
  <2>2. u = Append(v, field) /\ IsList(v)
    BY <1>10, <1>11, <1>12, <2>1 DEF AreValues
  <2>3. u[Len(v) + 1] = field
    BY <2>2, ListAppend
  <2>4. Len(u) = Len(v) + 1
    BY <2>2, ListAppend
  <2>. QED  BY <1>9, <2>1, <2>3, <2>4
<1>13. Continuing(limits, section, m + 1, t)
  BY <1>3, <1>4, <1>6, <1>10, <1>12 DEF Continuing
<1>14. FlattenSeq(ItemLists(t.links)) =
         IF limits.metadata > 0 THEN FlattenSeq(Said(section, "link", m + 1)) ELSE <<>>
  <2>1. FlattenSeq(ItemLists(s.links)) =
          IF limits.metadata > 0 THEN FlattenSeq(Said(section, "link", m)) ELSE <<>>
    BY DEF Gathered
  <2>2. CASE "links" \in kinds
    <3>1. PICK v, u : v = s.links /\ u = t.links
      OBVIOUS
    <3>2. u = Append(v, value) /\ AreValues(v)
      BY <1>10, <1>11, <2>2, <3>1
    <3>3. FlattenSeq(ItemLists(u)) = FlattenSeq(ItemLists(v)) \o value.items
      <4>1. Gains(v, u, value.items, value.name, "link")
        BY <1>9, <3>2, ItemsAppend
      <4>. QED  BY <4>1 DEF Gains
    <3>4. SaidAt(section, "link", m + 1) = e.items
      BY <1>5, <1>7, <2>2 DEF SaidAt
    <3>5. FlattenSeq(Said(section, "link", m + 1)) =
            FlattenSeq(Said(section, "link", m)) \o SaidAt(section, "link", m + 1)
      BY SaidMore
    <3>6. limits.metadata > 0
      BY <1>10, <2>2
    <3>. QED  BY <1>9, <2>1, <3>1, <3>3, <3>4, <3>5, <3>6
  <2>3. CASE "links" \notin kinds
    <3>1. limits.metadata > 0 => ~Belongs(section, m + 1, "link")
      BY <1>5, <1>7, <2>3
    <3>2. limits.metadata > 0 =>
            FlattenSeq(Said(section, "link", m + 1)) = FlattenSeq(Said(section, "link", m))
      BY <3>1, SaysNothing
    <3>. QED  BY <1>10, <2>1, <2>3, <3>2
  <2>. QED  BY <2>2, <2>3
<1>15. ASSUME NEW name \in limits.retained
       PROVE  FlattenSeq(NamedLists(t.fields, name)) = FlattenSeq(Said(section, name, m + 1))
  <2>1. FlattenSeq(NamedLists(s.fields, name)) = FlattenSeq(Said(section, name, m))
    BY DEF Gathered
  <2>2. CASE "fields" \in kinds
    <3>1. PICK v, u : v = s.fields /\ u = t.fields
      OBVIOUS
    <3>2. u = Append(v, field) /\ AreValues(v)
      BY <1>10, <1>11, <2>2, <3>1
    <3>3. FlattenSeq(NamedLists(u, name)) =
            FlattenSeq(NamedLists(v, name)) \o (IF field.name = name THEN field.items ELSE <<>>)
      <4>1. Gains(v, u, field.items, field.name, name)
        BY <1>9, <3>2, ItemsAppend
      <4>. QED  BY <4>1 DEF Gains
    <3>4. SaidAt(section, name, m + 1) = IF field.name = name THEN field.items ELSE <<>>
      BY <1>5, <1>9 DEF SaidAt
    <3>5. FlattenSeq(Said(section, name, m + 1)) =
            FlattenSeq(Said(section, name, m)) \o SaidAt(section, name, m + 1)
      BY SaidMore
    <3>. QED  BY <2>1, <3>1, <3>3, <3>4, <3>5
  <2>3. CASE "fields" \notin kinds
    <3>1. ~Belongs(section, m + 1, name)
      BY <1>5, <1>7, <2>3
    <3>2. FlattenSeq(Said(section, name, m + 1)) = FlattenSeq(Said(section, name, m))
      BY <3>1, SaysNothing
    <3>. QED  BY <1>10, <2>1, <2>3, <3>2
  <2>. QED  BY <2>2, <2>3
<1>16. ~t.complete
  BY <1>10 DEF Gathered
<1>. QED  BY <1>13, <1>14, <1>15, <1>16 DEF Gathered

-----------------------------------------------------------------------------
(* A whole transfer *)

\* The states after the calls of a transfer, none of which refuses anything.
Runs(limits, x, f) ==
  /\ \A n \in 0..Len(x.events) : Reached(limits, x, n, f[n]) /\ ~f[n].aborted
  /\ \A n \in 1..Len(x.events) : f[n] = Callback(limits, x, f[n - 1], n)

(* A transfer whose response is handed over has not been refused anything. *)
LEMMA TransferRuns ==
  ASSUME NEW limits, AreLimits(limits), NEW x, IsExchange(x), NEW f, NEW o,
         Transferred(limits, x, f, o)
  PROVE  Runs(limits, x, f)
<1>1. PICK n : n = Len(x.events) /\ n \in Nat
  BY DEF IsExchange, IsList
<1>2. PICK s : Connecting(x, s) /\ s.socket # <<>> /\ f = CallsMade(limits, x, s)
  BY DEF Transferred
<1>3. Reached(limits, x, 0, s)
  BY <1>2, ConnectedReaches
<1>4. \A i \in 0..n : Reached(limits, x, i, f[i])
  BY <1>1, <1>2, <1>3, CallsReach
<1>5. \A i \in 1..n : f[i] = Callback(limits, x, f[i - 1], i)
  BY <1>1, <1>2, <1>3, CallsReach
<1>6. PICK S : S = {k \in Nat : k <= n => ~f[n - k].aborted}
  OBVIOUS
<1>7. 0 \in S
  <2>1. n - 0 = n
    BY <1>1
  <2>. QED  BY <1>1, <1>6, <2>1 DEF Transferred
<1>8. ASSUME NEW k \in Nat, k \in S
      PROVE  k + 1 \in S
  <2>1. SUFFICES ASSUME k + 1 <= n
                 PROVE  ~f[n - (k + 1)].aborted
    BY <1>6
  <2>2. PICK i : i = n - k
    OBVIOUS
  <2>3. i \in 1..n /\ i - 1 = n - (k + 1) /\ k <= n
    BY <1>1, <2>1, <2>2
  <2>4. ~f[i].aborted
    BY <1>6, <1>8, <2>2, <2>3
  <2>5. f[i - 1].aborted => f[i] = f[i - 1]
    BY <1>5, <2>3 DEF Callback
  <2>. QED  BY <2>3, <2>4, <2>5
<1>9. \A k \in Nat : k \in S
  BY <1>7, <1>8, SetInduction
<1>10. ASSUME NEW i \in 0..n
       PROVE  ~f[i].aborted
  <2>1. n - i \in Nat /\ n - i <= n /\ n - (n - i) = i
    BY <1>1
  <2>. QED  BY <1>6, <1>9, <2>1
<1>. QED  BY <1>1, <1>4, <1>5, <1>10 DEF Runs

(* What each call of it does to the metadata. *)
LEMMA RunCall ==
  ASSUME NEW limits, AreLimits(limits), NEW x, IsExchange(x), NEW f, Runs(limits, x, f),
         NEW n \in 1..Len(x.events)
  PROVE  /\ x.events[n].callback = "header" => HeaderEffect(limits, f[n - 1], f[n], x.events[n])
         /\ x.events[n].callback # "header" => Passed(f[n - 1], f[n])
<1>1. PICK e, s, t : e = x.events[n] /\ s = f[n - 1] /\ t = f[n]
  OBVIOUS
<1>2. n - 1 \in 0..Len(x.events) /\ n \in 0..Len(x.events) /\ n \in DOMAIN x.events
  BY ListSeq DEF IsExchange
<1>3. Reached(limits, x, n - 1, s) /\ ~s.aborted /\ ~t.aborted /\ t = Callback(limits, x, s, n)
  BY <1>1, <1>2 DEF Runs
<1>4. Sound(limits, s) /\ Len(s.body) <= BodyLimit(limits, s) /\ IsCall(e)
  BY <1>1, <1>2, <1>3 DEF Reached, IsExchange
<1>5. \/ e.callback = "header" /\ t = ReadCurlHeader(limits, x, s, e)
      \/ e.callback = "body" /\ Written(s, t, e.octets)
      \/ e.callback = "progress" /\ Passed(s, t)
  <2>1. ASSUME e.callback = "header"
        PROVE  t = ReadCurlHeader(limits, x, s, e)
    <3>1. t = Abort(s, x.stop.flag) \/ t = ReadCurlHeader(limits, x, s, e)
      BY <1>1, <1>3, <2>1 DEF Callback
    <3>2. t = Abort(s, x.stop.flag) => t.aborted
      BY <1>4, AbortSound
    <3>. QED  BY <1>3, <3>1, <3>2
  <2>2. ASSUME e.callback = "body"
        PROVE  Written(s, t, e.octets)
    BY <1>1, <1>3, <1>4, <2>2, CallIs
  <2>3. ASSUME e.callback = "progress"
        PROVE  Passed(s, t)
    BY <1>1, <1>3, <1>4, <2>3, CallIs
  <2>. QED  BY <1>4, <2>1, <2>2, <2>3 DEF IsCall
<1>6. CASE e.callback = "header" /\ t = ReadCurlHeader(limits, x, s, e)
  <2>1. t.aborted \/ HeaderEffect(limits, s, t, e)
    BY <1>3, <1>4, <1>6, HeaderRead
  <2>. QED  BY <1>1, <1>3, <1>6, <2>1
<1>7. CASE e.callback = "body" /\ Written(s, t, e.octets)
  BY <1>1, <1>7 DEF Written, Passed
<1>8. CASE e.callback = "progress" /\ Passed(s, t)
  BY <1>1, <1>8
<1>. QED  BY <1>5, <1>6, <1>7, <1>8

\* The terminal section lies between these calls.
SectionBetween(x, section, from, to) ==
  /\ from \in 1..Len(x.events) /\ IsLine(x.events[from], "status")
  /\ \A j \in (from + 1)..Len(x.events) : ~IsLine(x.events[j], "status")
  /\ to \in (from + 1)..Len(x.events) /\ IsLine(x.events[to], "end")
  /\ \A j \in (from + 1)..(to - 1) : ~IsLine(x.events[j], "end")
  /\ section = SubSeq(x.events, from + 1, to - 1)

(* A successful transfer has one. *)
LEMMA SectionExists ==
  ASSUME NEW x, IsExchange(x), x.result = "ok"
  PROVE  \E from, to : SectionBetween(x, HeaderSection(x), from, to)
<1>1. PICK ev, n : ev = x.events /\ n = Len(ev)
  OBVIOUS
<1>2. n \in Nat /\ DOMAIN ev = 1..n
  BY <1>1, ListSeq DEF IsExchange
<1>3. PICK start, end : /\ start \in 1..n /\ end \in (start + 1)..n
                        /\ IsLine(ev[start], "status") /\ EndsLastSection(ev, end)
  BY <1>1, <1>2 DEF IsExchange
<1>4. \E i \in DOMAIN ev : /\ IsLine(ev[i], "status")
                           /\ \A j \in (i + 1)..Len(ev) : ~IsLine(ev[j], "status")
  <2>1. PICK S : S = {k \in 0..n : n - k \in 1..n /\ IsLine(ev[n - k], "status")}
    OBVIOUS
  <2>2. n - start \in S
    <3>1. n - start \in 0..n /\ n - (n - start) = start
      BY <1>2, <1>3
    <3>. QED  BY <1>3, <2>1, <3>1
  <2>3. S \subseteq Nat /\ S # {}
    BY <1>2, <2>1, <2>2
  <2>4. PICK k \in S : \A l \in S : ~(l < k)
    BY <2>3, LeastOf
  <2>5. PICK i : i = n - k
    OBVIOUS
  <2>6. i \in 1..n /\ k \in 0..n /\ IsLine(ev[i], "status")
    BY <2>1, <2>4, <2>5
  <2>7. ASSUME NEW j \in (i + 1)..n
        PROVE  ~IsLine(ev[j], "status")
    <3>1. n - j \in 0..n /\ n - j < k /\ n - (n - j) = j /\ j \in 1..n
      BY <1>2, <2>5, <2>6
    <3>2. n - j \notin S
      BY <2>4, <3>1
    <3>. QED  BY <2>1, <3>1, <3>2
  <2>. QED  BY <1>1, <1>2, <2>6, <2>7
<1>5. PICK from : from = CHOOSE i \in DOMAIN ev :
                           /\ IsLine(ev[i], "status")
                           /\ \A j \in (i + 1)..Len(ev) : ~IsLine(ev[j], "status")
  OBVIOUS
<1>6. /\ from \in 1..n /\ IsLine(ev[from], "status")
      /\ \A j \in (from + 1)..n : ~IsLine(ev[j], "status")
  BY <1>1, <1>2, <1>4, <1>5
<1>7. end \in (from + 1)..n
  <2>1. ~(from > end)
    <3>1. SUFFICES ASSUME from > end PROVE FALSE
      OBVIOUS
    <3>2. from \in (end + 1)..Len(ev)
      BY <1>1, <1>2, <1>3, <1>6, <3>1
    <3>. QED  BY <1>3, <1>6, <3>2 DEF EndsLastSection
  <2>2. from # end
    BY <1>3, <1>6 DEF EndsLastSection, IsLine
  <2>. QED  BY <1>2, <1>3, <1>6, <2>1, <2>2
<1>8. \E i \in (from + 1)..Len(ev) : /\ IsLine(ev[i], "end")
                                     /\ \A j \in (from + 1)..(i - 1) : ~IsLine(ev[j], "end")
  <2>1. PICK S : S = {i \in (from + 1)..n : IsLine(ev[i], "end")}
    OBVIOUS
  <2>2. end \in S
    BY <1>3, <1>7, <2>1 DEF EndsLastSection
  <2>3. S \subseteq Nat /\ S # {}
    BY <1>2, <1>6, <2>1, <2>2
  <2>4. PICK i \in S : \A l \in S : ~(l < i)
    BY <2>3, LeastOf
  <2>5. i \in (from + 1)..n /\ IsLine(ev[i], "end")
    BY <2>1
  <2>6. ASSUME NEW j \in (from + 1)..(i - 1)
        PROVE  ~IsLine(ev[j], "end")
    <3>1. j \in (from + 1)..n /\ j < i
      BY <1>2, <1>6, <2>5
    <3>2. j \notin S
      BY <2>4, <3>1
    <3>. QED  BY <2>1, <3>1, <3>2
  <2>. QED  BY <1>1, <2>5, <2>6
<1>9. PICK to : to = CHOOSE i \in (from + 1)..Len(ev) :
                       /\ IsLine(ev[i], "end")
                       /\ \A j \in (from + 1)..(i - 1) : ~IsLine(ev[j], "end")
  OBVIOUS
<1>10. /\ to \in (from + 1)..n /\ IsLine(ev[to], "end")
       /\ \A j \in (from + 1)..(to - 1) : ~IsLine(ev[j], "end")
  BY <1>1, <1>8, <1>9
<1>11. HeaderSection(x) = SubSeq(ev, from + 1, to - 1)
  BY <1>1, <1>5, <1>9, Zenon DEF HeaderSection
<1>. QED  BY <1>1, <1>6, <1>10, <1>11 DEF SectionBetween

(* In it there are fields and folded lines alone. *)
LEMMA SectionIs ==
  ASSUME NEW x, IsExchange(x), NEW section, NEW from, NEW to, SectionBetween(x, section, from, to)
  PROVE  /\ IsSection(section) /\ Len(section) = to - 1 - from
         /\ \A i \in 1..Len(section) : section[i] = x.events[from + i]
<1>1. PICK ev, n, m : ev = x.events /\ n = Len(ev) /\ m = to - 1 - from
  OBVIOUS
<1>2. n \in Nat /\ DOMAIN ev = 1..n /\ IsList(ev)
  BY <1>1, ListSeq DEF IsExchange
<1>3. from \in 1..n /\ to \in (from + 1)..n /\ m \in Nat /\ from + m = to - 1 /\ from \in Nat
  BY <1>1, <1>2 DEF SectionBetween
<1>4. from + m <= Len(ev) /\ section = SubSeq(ev, from + 1, from + m)
  BY <1>1, <1>2, <1>3 DEF SectionBetween
<1>5. IsList(section)
  <2>1. \A u : u = SubSeq(ev, from + 1, from + m) => IsList(u)
    BY <1>2, <1>3, <1>4, ListStretch, ZenonT(60)
  <2>. QED  BY <1>4, <2>1
<1>6. Len(section) = m
  BY <1>2, <1>3, <1>4, ListStretch
<1>7. \A i \in 1..m : section[i] = ev[from + i]
  BY <1>2, <1>3, <1>4, ListStretch
<1>8. ASSUME NEW i \in 1..m
      PROVE  /\ IsCall(section[i])
             /\ section[i].callback \in {"header", "progress"}
             /\ section[i].callback = "header" => section[i].line \in {"field", "fold"}
  <2>1. PICK k, e : k = from + i /\ e = ev[k]
    OBVIOUS
  <2>2. k \in 1..n /\ k \in (from + 1)..n /\ k \in (from + 1)..(to - 1)
    BY <1>2, <1>3, <2>1
  <2>3. section[i] = e /\ IsCall(e)
    BY <1>1, <1>2, <1>7, <2>1, <2>2 DEF IsExchange
  <2>4. ~IsLine(e, "status") /\ ~IsLine(e, "end")
    BY <1>1, <2>1, <2>2 DEF SectionBetween
  <2>5. e.callback # "body"
    <3>1. SUFFICES ASSUME e.callback = "body" PROVE FALSE
      OBVIOUS
    <3>2. PICK end \in 1..(k - 1) : EndsLastSection(ev, end)
      BY <1>1, <1>2, <2>1, <2>2, <3>1 DEF IsExchange
    <3>3. IsLine(ev[end], "end") /\ \A j \in (end + 1)..n : ~IsLine(ev[j], "status")
      BY <1>1, <3>2 DEF EndsLastSection
    <3>4. ~(end < from)
      <4>1. SUFFICES ASSUME end < from PROVE FALSE
        OBVIOUS
      <4>2. from \in (end + 1)..n
        BY <1>2, <1>3, <4>1
      <4>. QED  BY <1>1, <3>3, <4>2 DEF SectionBetween
    <3>5. end # from
      BY <1>1, <3>3 DEF SectionBetween, IsLine
    <3>6. end \in (from + 1)..(to - 1)
      BY <1>3, <2>2, <3>4, <3>5
    <3>. QED  BY <1>1, <3>3, <3>6 DEF SectionBetween
  <2>. QED  BY <2>3, <2>4, <2>5 DEF IsCall, IsLine
<1>. QED  BY <1>1, <1>5, <1>6, <1>7, <1>8 DEF IsSection

(* Up to its end, links and guidance are what the section has said. *)
LEMMA SectionGathers ==
  ASSUME NEW limits, AreLimits(limits), NEW x, IsExchange(x), NEW f, Runs(limits, x, f),
         NEW section, NEW from, NEW to, SectionBetween(x, section, from, to)
  PROVE  Gathered(limits, section, Len(section), f[to - 1])
<1>1. PICK ev, n, m : ev = x.events /\ n = Len(ev) /\ m = Len(section)
  OBVIOUS
<1>2. n \in Nat /\ IsList(ev)
  BY <1>1 DEF IsExchange, IsList
<1>3. IsSection(section)
  BY SectionIs
<1>4. m = to - 1 - from
  BY <1>1, SectionIs
<1>5. \A i \in 1..m : section[i] = ev[from + i]
  BY <1>1, SectionIs
<1>6. from \in 1..n /\ to \in (from + 1)..n /\ m \in Nat /\ from + m = to - 1 /\ IsLine(ev[from], "status")
  BY <1>1, <1>2, <1>4 DEF SectionBetween
<1>7. PICK S : S = {i \in Nat : i <= m => Gathered(limits, section, i, f[from + i])}
  OBVIOUS
<1>8. 0 \in S
  <2>1. from + 0 = from
    BY <1>6
  <2>2. HeaderEffect(limits, f[from - 1], f[from], ev[from])
    BY <1>1, <1>6, RunCall DEF IsLine
  <2>3. PICK t : t = f[from]
    OBVIOUS
  <2>4. t.links = <<>> /\ t.fields = <<>> /\ t.kind = {} /\ ~t.complete
    BY <1>6, <2>2, <2>3 DEF HeaderEffect, Begun, IsLine
  <2>5. Continuing(limits, section, 0, t)
    BY <2>4 DEF Continuing
  <2>6. AreValues(<<>>) /\ Len(<<>>) = 0
    <3>1. Storage.string \in Nat
      BY TransportAssumption
    <3>. QED  BY <3>1, KeptNone, ListNone
  <2>7. FlattenSeq(ItemLists(t.links)) = <<>>
    <3>1. ItemLists(<<>>) = <<>>
      BY DEF ItemLists
    <3>. QED  BY <2>4, <2>6, <3>1, FlattenIs
  <2>8. \A name : FlattenSeq(NamedLists(t.fields, name)) = <<>>
    <3>1. \A name : NamedLists(<<>>, name) = <<>>
      BY DEF NamedLists
    <3>2. FlattenSeq(<<>>) = <<>>
      BY <2>6, FlattenIs
    <3>. QED  BY <2>4, <3>1, <3>2
  <2>9. \A name : FlattenSeq(Said(section, name, 0)) = <<>>
    BY SaidNothing
  <2>10. Gathered(limits, section, 0, t)
    BY <2>4, <2>5, <2>7, <2>8, <2>9 DEF Gathered
  <2>. QED  BY <1>7, <2>1, <2>3, <2>10
<1>9. ASSUME NEW i \in Nat, i \in S
      PROVE  i + 1 \in S
  <2>1. SUFFICES ASSUME i + 1 <= m
                 PROVE  Gathered(limits, section, i + 1, f[from + (i + 1)])
    BY <1>7
  <2>2. PICK k, e, s, t : k = from + (i + 1) /\ e = ev[k] /\ s = f[k - 1] /\ t = f[k]
    OBVIOUS
  <2>3. /\ k \in 1..n /\ k - 1 = from + i /\ k - 1 \in 0..n /\ k \in 0..n
        /\ i + 1 \in 1..m /\ i \in 0..(m - 1) /\ i <= m
    BY <1>2, <1>6, <2>1, <2>2
  <2>4. Gathered(limits, section, i, s)
    BY <1>7, <1>9, <2>2, <2>3
  <2>5. section[i + 1] = e
    BY <1>5, <2>2, <2>3
  <2>6. /\ Sound(limits, s) /\ ~s.aborted /\ Sound(limits, t) /\ ~t.aborted
    BY <1>1, <2>2, <2>3 DEF Runs, Reached
  <2>7. /\ e.callback = "header" => HeaderEffect(limits, s, t, e)
        /\ e.callback # "header" => Passed(s, t)
    BY <1>1, <2>2, <2>3, RunCall
  <2>8. /\ e.callback \in {"header", "progress"}
        /\ e.callback = "header" => e.line \in {"field", "fold"}
    BY <1>1, <1>3, <2>3, <2>5 DEF IsSection
  <2>9. ~s.complete /\ Continuing(limits, section, i, s)
    BY <2>4 DEF Gathered
  <2>10. CASE e.callback # "header"
    <3>1. ~IsLine(section[i + 1], "field") /\ \A name : ~Belongs(section, i + 1, name)
      BY <2>5, <2>10 DEF IsLine, Belongs
    <3>2. Passed(s, t)
      BY <2>7, <2>10
    <3>3. Gathered(limits, section, i + 1, t)
      BY <1>1, <1>3, <2>3, <2>4, <3>1, <3>2, PassedGathers
    <3>. QED  BY <2>2, <3>3
  <2>11. CASE e.callback = "header" /\ e.line = "fold" /\ s.kind = {}
    <3>1. Passed(s, t)
      BY <2>7, <2>9, <2>11 DEF HeaderEffect
    <3>2. ~IsLine(section[i + 1], "field")
      BY <2>5, <2>11 DEF IsLine
    <3>3. /\ limits.metadata > 0 => ~Belongs(section, i + 1, "link")
          /\ \A name \in limits.retained : ~Belongs(section, i + 1, name)
      <4>1. CASE \A j \in 1..i : ~IsLine(section[j], "field")
        BY <3>2, <4>1, LastStays
      <4>2. ASSUME NEW j \in 1..i, LastField(section, i, j), s.kind = KindsOf(limits, section[j])
            PROVE  /\ limits.metadata > 0 => ~Belongs(section, i + 1, "link")
                   /\ \A name \in limits.retained : ~Belongs(section, i + 1, name)
        <5>1. LastField(section, i + 1, j) /\ j \in 1..(i + 1) /\ i + 1 \in Nat
          BY <3>2, <4>2, LastStays
        <5>2. \A name : Belongs(section, i + 1, name) => section[j].name = name
          BY <5>1, BelongsToLast
        <5>3. /\ section[j].name \notin limits.retained
              /\ limits.metadata > 0 => section[j].name # "link"
          BY <2>11, <4>2, KindsAre
        <5>. QED  BY <5>2, <5>3
      <4>. QED  BY <2>9, <4>1, <4>2 DEF Continuing
    <3>4. Gathered(limits, section, i + 1, t)
      BY <1>1, <1>3, <2>3, <2>4, <3>1, <3>2, <3>3, PassedGathers
    <3>. QED  BY <2>2, <3>4
  <2>12. CASE e.callback = "header" /\ e.line = "fold" /\ s.kind # {}
    <3>1. Continued(s, t, e)
      BY <2>7, <2>9, <2>12 DEF HeaderEffect
    <3>2. Gathered(limits, section, i + 1, t)
      BY <1>1, <1>3, <2>3, <2>4, <2>5, <2>6, <2>12, <3>1, FoldGathers
    <3>. QED  BY <2>2, <3>2
  <2>13. CASE e.callback = "header" /\ e.line = "field"
    <3>1. Entered(limits, s, t, e)
      BY <2>7, <2>9, <2>13 DEF HeaderEffect
    <3>2. Gathered(limits, section, i + 1, t)
      BY <1>1, <1>3, <2>3, <2>4, <2>5, <2>6, <2>13, <3>1, FieldGathers
    <3>. QED  BY <2>2, <3>2
  <2>. QED  BY <2>8, <2>10, <2>11, <2>12, <2>13
<1>10. m \in S
  BY <1>6, <1>8, <1>9, SetInduction
<1>11. m <= m
  BY <1>6
<1>12. Gathered(limits, section, m, f[from + m])
  BY <1>7, <1>10, <1>11
<1>. QED  BY <1>1, <1>6, <1>12

(* After its end they stay what they are. *)
LEMMA SectionKept ==
  ASSUME NEW limits, AreLimits(limits), NEW x, IsExchange(x), NEW f, Runs(limits, x, f),
         NEW section, NEW from, NEW to, SectionBetween(x, section, from, to)
  PROVE  SameValues(f[to - 1], f[Len(x.events)])
<1>1. PICK ev, n : ev = x.events /\ n = Len(ev)
  OBVIOUS
<1>2. n \in Nat
  BY <1>1 DEF IsExchange, IsList
<1>3. /\ from \in 1..n /\ to \in (from + 1)..n /\ to \in 1..n /\ IsLine(ev[to], "end")
      /\ \A j \in (from + 1)..n : ~IsLine(ev[j], "status")
  BY <1>1, <1>2 DEF SectionBetween
<1>4. PICK S : S = {i \in Nat : to + i <= n => SameValues(f[to - 1], f[to + i]) /\ f[to + i].complete}
  OBVIOUS
<1>5. 0 \in S
  <2>1. to + 0 = to
    BY <1>2, <1>3
  <2>2. HeaderEffect(limits, f[to - 1], f[to], ev[to])
    BY <1>1, <1>3, RunCall DEF IsLine
  <2>3. SameValues(f[to - 1], f[to]) /\ f[to].complete
    BY <1>3, <2>2 DEF HeaderEffect, Ended, IsLine
  <2>. QED  BY <1>4, <2>1, <2>3
<1>6. ASSUME NEW i \in Nat, i \in S
      PROVE  i + 1 \in S
  <2>1. SUFFICES ASSUME to + (i + 1) <= n
                 PROVE  SameValues(f[to - 1], f[to + (i + 1)]) /\ f[to + (i + 1)].complete
    BY <1>4
  <2>2. PICK k, e, s, t : k = to + (i + 1) /\ e = ev[k] /\ s = f[k - 1] /\ t = f[k]
    OBVIOUS
  <2>3. k \in 1..n /\ k - 1 = to + i /\ k \in (from + 1)..n /\ to + i <= n
    BY <1>2, <1>3, <2>1, <2>2
  <2>4. SameValues(f[to - 1], s) /\ s.complete
    BY <1>4, <1>6, <2>2, <2>3
  <2>5. /\ e.callback = "header" => HeaderEffect(limits, s, t, e)
        /\ e.callback # "header" => Passed(s, t)
    BY <1>1, <2>2, <2>3, RunCall
  <2>6. e.callback = "header" => e.line # "status"
    BY <1>3, <2>2, <2>3 DEF IsLine
  <2>7. SameValues(s, t) /\ t.complete
    BY <2>4, <2>5, <2>6 DEF HeaderEffect, Passed, Ended
  <2>. QED  BY <2>2, <2>4, <2>7 DEF SameValues
<1>7. n - to \in Nat /\ to + (n - to) = n
  BY <1>2, <1>3
<1>8. n - to \in S
  BY <1>5, <1>6, <1>7, SetInduction
<1>. QED  BY <1>1, <1>2, <1>4, <1>7, <1>8

(* Links and guidance that are handed over are those of the terminal header section, *)
(* with every folded line and nothing of an interim response or a trailer, whatever  *)
(* else comes; a response that is no success has neither links nor a body            *)
(* (ReadCurlHeader, PerformCurlTransfer).                                            *)
THEOREM MetadataIsTerminal ==
  \A n \in Scans : \A p \in DOMAIN Remote[n] : \A k \in DOMAIN Received[n][p] :
    TerminalMetadata(HttpLimits[n], Received[n][p][k].exchange, Received[n][p][k].outcome)
<1>1. SUFFICES ASSUME NEW n \in Scans, NEW p \in DOMAIN Remote[n], NEW k \in DOMAIN Received[n][p]
               PROVE  TerminalMetadata(HttpLimits[n], Received[n][p][k].exchange,
                                       Received[n][p][k].outcome)
  OBVIOUS
<1>2. PICK limits, x, o : limits = HttpLimits[n] /\ x = Remote[n][p][k] /\ o = Received[n][p][k].outcome
  OBVIOUS
<1>3. /\ k \in DOMAIN Remote[n][p] /\ o = PerformCurlTransfer(limits, x)
      /\ Received[n][p][k].exchange = x
  <2>1. k \in DOMAIN Remote[n][p]
    BY ReceivedIs
  <2>2. Received[n][p][k] = [exchange |-> x, outcome |-> PerformCurlTransfer(limits, x)]
    BY <1>2, <2>1, ReceivedIs
  <2>. QED  BY <1>2, <2>1, <2>2
<1>4. AreLimits(limits) /\ AreExecutable(limits)
  BY <1>2, StreamAssumption DEF AreLimits
<1>5. IsExchange(x)
  <2>1. x \in Range(Remote[n][p])
    BY <1>2, <1>3 DEF Range
  <2>. QED  BY <2>1, WireAssumption
<1>6. SUFFICES ASSUME o.failure = "none"
               PROVE  TerminalMetadata(limits, x, o)
  BY <1>2, <1>3 DEF TerminalMetadata
<1>7. PICK f : Transferred(limits, x, f, o)
  BY <1>3, <1>4, <1>5, <1>6, AttemptIs
<1>8. PICK t, section : t = f[Len(x.events)] /\ section = HeaderSection(x)
  OBVIOUS
<1>9. Handed(limits, t, o) /\ x.result = "ok"
  BY <1>7, <1>8 DEF Transferred
<1>10. PICK from, to : SectionBetween(x, section, from, to)
  BY <1>5, <1>8, <1>9, SectionExists
<1>11. Runs(limits, x, f)
  BY <1>4, <1>5, <1>7, TransferRuns
<1>12. Gathered(limits, section, Len(section), f[to - 1])
  BY <1>4, <1>5, <1>10, <1>11, SectionGathers
<1>13. t.links = f[to - 1].links /\ t.fields = f[to - 1].fields
  BY <1>4, <1>5, <1>8, <1>10, <1>11, SectionKept DEF SameValues
<1>14. \A name : ItemsOf(section, name) = FlattenSeq(Said(section, name, Len(section)))
  <2>1. DOMAIN section = 1..Len(section)
    BY <1>5, <1>10, SectionIs, ListSeq DEF IsSection
  <2>. QED  BY <2>1 DEF ItemsOf, Said
<1>15. \A v : v.links = o.links => LinksOf(v) = FlattenSeq(ItemLists(o.links))
  BY DEF LinksOf, ItemLists
<1>16. \A name : GuidanceOf(o, name) = FlattenSeq(NamedLists(o.fields, name))
  BY DEF GuidanceOf, NamedLists
<1>17. LinksOf(o) = IF o.status \in 200..299 /\ limits.metadata > 0
                    THEN ItemsOf(section, "link") ELSE <<>>
  <2>1. CASE o.status \in 200..299
    <3>1. o.links = f[to - 1].links
      BY <1>9, <1>13, <2>1 DEF Handed
    <3>2. LinksOf(o) = FlattenSeq(ItemLists(f[to - 1].links))
      BY <1>15, <3>1
    <3>. QED  BY <1>12, <1>14, <2>1, <3>2 DEF Gathered
  <2>2. CASE o.status \notin 200..299
    <3>1. o.links = <<>>
      BY <1>9, <2>2 DEF Handed
    <3>2. ItemLists(<<>>) = <<>>
      BY DEF ItemLists
    <3>3. FlattenSeq(<<>>) = <<>>
      BY ListNone, FlattenIs
    <3>. QED  BY <1>15, <2>2, <3>1, <3>2, <3>3
  <2>. QED  BY <2>1, <2>2
<1>18. ASSUME NEW name \in limits.retained
       PROVE  GuidanceOf(o, name) = ItemsOf(section, name)
  <2>1. o.fields = f[to - 1].fields
    BY <1>9, <1>13 DEF Handed
  <2>2. FlattenSeq(NamedLists(f[to - 1].fields, name)) = FlattenSeq(Said(section, name, Len(section)))
    BY <1>12 DEF Gathered
  <2>. QED  BY <1>14, <1>16, <2>1, <2>2
<1>19. o.status \notin 200..299 => o.body = <<>>
  BY <1>9 DEF Handed
<1>. QED  BY <1>8, <1>17, <1>18, <1>19 DEF TerminalMetadata
=============================================================================

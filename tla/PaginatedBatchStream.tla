------------------------ MODULE PaginatedBatchStream ------------------------
(***************************************************************************)
(* The pull-driven streams of a scan: the paginated REST stream            *)
(* (src/src/runtime/execution/http_paginated_scan.cpp), the GraphQL stream *)
(* (graphql_paginated_scan.cpp) and the single-response stream             *)
(* (http_scan_executor.cpp), which share their control and differ in how a *)
(* response is decoded and which page follows it.                          *)
(*                                                                         *)
(* One consumer calls Next; other threads may call Cancel and Close at any *)
(* time, in any number.  Next keeps the stream's mutex for the whole pull, *)
(* network included; Cancel and Close first raise an atomic flag and then  *)
(* queue for the mutex.  A pull is several steps here, so that they        *)
(* interleave with the flag.                                               *)
(*                                                                         *)
(* The server is not trusted: what happens on the wire is any of Remote,   *)
(* exchanges of HttpTransport that also say which document their payload   *)
(* is the text of; among them are transfers, bodies and continuation       *)
(* signals that must be refused.                                           *)
(*                                                                         *)
(* Abstractions: the accounting is the state it is in and its page counter *)
(* (its module is ScanResourceAccounting) and the attempt loop             *)
(* (HttpRetryController) is one attempt; the deadline, the caller's own    *)
(* interruption and a refused reservation are failures that may come at    *)
(* every check.  Diagnostics, which changes nothing, is left out, and so   *)
(* are the bytes of response metadata among those of the page.             *)
(***************************************************************************)
EXTENDS PageTransition, HttpTransport, FiniteSets

CONSTANTS
  Threads,     \* threads that call Cancel or Close
  Scans,       \* names of the scans that may be opened
  ScanProfile, \* ScanProfile[n] : the admitted profile of scan n
  HttpLimits,  \* HttpLimits[n] : the limits of an attempt of scan n
  Remote,      \* Remote[n][p] : the exchanges that a request for page p of scan n may meet
  BatchRows,   \* PageBudgets().batch_rows
  MaxPulls,    \* bound: calls of Next
  None         \* nobody has the mutex; no response is at hand

Strategies == {"disabled", "link_next", "response_next", "short_page", "graphql_cursor"}

ASSUME StreamAssumption ==
  /\ IsFiniteSet(Threads)
  /\ \A n \in Scans :
       /\ ScanProfile[n].strategy \in Strategies
       /\ ScanProfile[n].source \in {"ROOT_OBJECT", "ROOT_ARRAY", "JSON_PATH_MANY"}
       /\ ScanProfile[n].page_rows \in Seq(Nat)
       /\ Len(ScanProfile[n].page_rows) >= 1
       /\ ScanProfile[n].max_records \in Nat \ {0}
       /\ ScanProfile[n].max_pages \in Nat \ {0}
       /\ ScanProfile[n].page_size \in Nat
       /\ \A l \in {"header", "response", "decompressed", "metadata"} : HttpLimits[n][l] \in Nat
       /\ AreExecutable(HttpLimits[n])
  /\ BatchRows \in Nat \ {0}
  /\ MaxPulls \in Nat
  /\ None \notin Threads \cup {"consumer"}

VARIABLES
  scan,         \* the name of the scan
  mutex,        \* who has it: "consumer", a thread or None
  pc,           \* the consumer: "out", "locking", "pulling", "fetching", "decoding"
  pulls,        \* how often Next was called
  result,       \* how the last call of Next ended
  batch,        \* the batch it returned
  delivered,    \* history: all rows returned so far
  call,         \* call[t] : "out", "Cancel", "Close" or "returned"
  cancelled, closed, exhausted,
  terminal,     \* terminal_exception is set
  pagination,   \* LinkPaginationState, or GraphqlCursorState
  response,     \* <<page, number>> of the exchange whose response is being decoded, or None
  page,         \* rows of the decoded page
  page_loaded, page_has_next, offset,
  accounting,   \* the accounting's state
  pages,        \* accounting.Counters().pages
  held          \* permits, reservations and authorization of the stream

flags == <<cancelled, closed, exhausted, terminal>>

private == <<pagination, response, page, page_loaded, page_has_next, offset,
             accounting, pages, held>>

pull == <<pc, pulls, result, batch, delivered>>

vars == <<scan, mutex, pull, call, flags, private>>

Holdings ==
  {"provider permit", "scan permit", "authorization", "page bytes", "page rows", "handoff"}

profile == ScanProfile[scan]

IsGraphql == profile.strategy = "graphql_cursor"

\* Rows of the remote result before page p, and in the pages up to p.
Before(p) == Sums(profile.page_rows)[p - 1]

\* The last page of the remote result: the one after which an honest server, or
\* the row count, says that there is no other.
LastPageOf(admitted) ==
  CASE admitted.strategy = "disabled" -> 1
    [] admitted.strategy = "short_page" ->
         CHOOSE p \in DOMAIN admitted.page_rows :
           /\ admitted.page_rows[p] < admitted.page_size
           /\ \A q \in 1..(p - 1) : admitted.page_rows[q] >= admitted.page_size
    [] OTHER -> Len(admitted.page_rows)

LastPage == LastPageOf(profile)

TotalRows == Before(LastPage + 1)

\* "failed": the remembered exception; "cancelled": one that is not remembered.
Results == {"none", "rows", "end", "failed", "cancelled"}

TypeOK ==
  /\ mutex \in Threads \cup {"consumer", None}
  /\ scan \in Scans
  /\ pc \in {"out", "locking", "pulling", "fetching", "decoding"}
  /\ pulls \in 0..MaxPulls
  /\ result \in Results
  /\ Len(batch) <= BatchRows
  /\ call \in [Threads -> {"out", "Cancel", "Close", "returned"}]
  /\ <<cancelled, closed, exhausted, terminal>> \in [1..4 -> BOOLEAN]
  /\ pagination.page \in 1..(Len(profile.page_rows) + 1)
  /\ pagination.state \in {"active", "exhausted", "failed"}
  /\ response # None => response[2] \in 1..Len(Remote[scan][response[1]])
  /\ page_loaded \in BOOLEAN /\ page_has_next \in BOOLEAN
  /\ offset \in 0..Len(page)
  /\ accounting \in {"READY", "TRANSPORT_COMMITTED", "PAGE_DECODED", "EXHAUSTED", "FAILED"}
  /\ pages \in 0..profile.max_pages
  /\ held \subseteq Holdings
  /\ pc \in {"pulling", "fetching", "decoding"} <=> mutex = "consumer"
  /\ pc = "decoding" <=> response # None

\* As it is before the scan is opened (HttpScanExecutor).
Init ==
  /\ scan \in Scans
  /\ mutex = None
  /\ pc = "out"
  /\ pulls = 0
  /\ result = "none"
  /\ batch = <<>>
  /\ delivered = <<>>
  /\ call = [t \in Threads |-> "out"]
  /\ cancelled = FALSE
  /\ closed = FALSE
  /\ exhausted = FALSE
  /\ terminal = FALSE
  /\ pagination = FirstPage
  /\ response = None
  /\ page = <<>>
  /\ page_loaded = FALSE
  /\ page_has_next = FALSE
  /\ offset = 0
  /\ accounting = "READY"
  /\ pages = 0
  /\ held = {}

-----------------------------------------------------------------------------
(* Giving everything back *)

\* Variant: the reservations of the batch handed over are left to the next pull.
ReleasedStateButHandoff == held \cap {"handoff"}

ReleasedState == {}

\* Variant: the page still counts as loaded.
ReleasePrivateStateKeepingPage ==
  /\ accounting' = IF accounting = "EXHAUSTED" THEN accounting ELSE "FAILED"
  /\ held' = {}
  /\ response' = None
  /\ UNCHANGED <<pagination, page, offset, page_loaded, page_has_next, pages>>

\* A response at hand is a local of the pull that fails; GraphQL's cursors go too.
ReleasePrivateState ==
  /\ accounting' = IF accounting = "EXHAUSTED" THEN accounting ELSE "FAILED"
  /\ page' = <<>>
  /\ offset' = 0
  /\ page_loaded' = FALSE
  /\ response' = None
  /\ held' = ReleasedState
  /\ pagination' = IF IsGraphql THEN [Failed(pagination) EXCEPT !.seen = <<>>] ELSE pagination
  /\ UNCHANGED <<page_has_next, pages>>

\* Next returns to its consumer and the guard unlocks.
Return(r) ==
  /\ mutex' = None
  /\ pc' = "out"
  /\ result' = r
  /\ UNCHANGED pulls

\* Variant: the failure is thrown but not kept.
RememberNothing ==
  /\ cancelled' = TRUE
  /\ UNCHANGED terminal
  /\ ReleasePrivateState

\* The failure is kept for every later pull, and everything is given back.
RememberCurrentFailure ==
  /\ cancelled' = TRUE
  /\ terminal' = TRUE
  /\ ReleasePrivateState

Fail ==
  /\ RememberCurrentFailure
  /\ Return("failed")
  /\ UNCHANGED <<scan, batch, delivered, call, closed, exhausted>>

-----------------------------------------------------------------------------
(* Next *)

CallNext ==
  /\ pc = "out"
  /\ pulls < MaxPulls
  /\ pc' = "locking"
  /\ pulls' = pulls + 1
  /\ UNCHANGED <<scan, mutex, result, batch, delivered, call, flags, private>>

\* The lock, the release of the previous batch and the early returns.
EnterNext ==
  /\ pc = "locking"
  /\ mutex = None
  /\ batch' = <<>>
  /\ held' = held \ {"handoff"}
  /\ IF closed THEN Return("end")
     ELSE IF terminal THEN Return("failed")
     ELSE IF exhausted THEN Return("end")
     ELSE IF cancelled THEN Return("cancelled")
     ELSE /\ mutex' = "consumer"
          /\ pc' = "pulling"
          /\ UNCHANGED <<pulls, result>>
  /\ UNCHANGED <<scan, delivered, call, flags, pagination, response, page, page_loaded,
                 page_has_next, offset, accounting, pages>>

\* CheckState fails when the flag is up; the deadline or the caller's own control
\* may make any check fail.
FailPull ==
  /\ pc \in {"pulling", "fetching", "decoding"}
  /\ Fail

\* The rows of the next batch and the offset after it.
Produced ==
  LET n == IF Len(page) - offset < BatchRows THEN Len(page) - offset ELSE BatchRows
  IN  [rows |-> SubSeq(page, offset + 1, offset + n), offset |-> offset + n]

ProduceBatch ==
  /\ pc = "pulling"
  /\ ~cancelled
  /\ page_loaded
  /\ offset < Len(page)
  /\ batch' = Produced.rows
  /\ delivered' = delivered \o Produced.rows
  /\ offset' = Produced.offset
  /\ held' = held \cup {"handoff"}
  /\ Return("rows")
  /\ UNCHANGED <<scan, call, flags, pagination, response, page, page_loaded, page_has_next, accounting, pages>>

\* What is kept between pages: GraphQL's cursors stay charged to the page's bytes.
KeptBetweenPages ==
  IF IsGraphql /\ CursorBytes(pagination) > 0 THEN {"page bytes"} ELSE {}

\* All rows of the page are out: drop it, and end the scan after the last page.
\* A next page beyond the scan's authority makes CompletePage fail instead.
FinishPage ==
  /\ pc = "pulling"
  /\ ~cancelled
  /\ page_loaded
  /\ offset = Len(page)
  /\ page_has_next => pages < profile.max_pages
  /\ page' = <<>>
  /\ offset' = 0
  /\ page_loaded' = FALSE
  /\ accounting' = IF page_has_next THEN "READY" ELSE "EXHAUSTED"
  /\ IF page_has_next
     THEN /\ pc' = "fetching"
          /\ held' = (held \ {"page bytes", "page rows"}) \cup KeptBetweenPages
          /\ UNCHANGED <<mutex, pulls, result, exhausted>>
     ELSE /\ exhausted' = TRUE
          /\ held' = held \ {"page bytes", "page rows", "authorization", "scan permit"}
          /\ Return("end")
  /\ UNCHANGED <<scan, batch, delivered, call, cancelled, closed, terminal, pagination,
                 response, page_has_next, pages>>

StartFetch ==
  /\ pc = "pulling"
  /\ ~cancelled
  /\ ~page_loaded
  /\ pc' = "fetching"
  /\ UNCHANGED <<scan, mutex, pulls, result, batch, delivered, call, flags, private>>

-----------------------------------------------------------------------------
(* Fetching a page *)

\* The cursor state counts a page before it is requested; links count nothing.
RequestStarted ==
  IF IsGraphql THEN MarkRequestStarted(pagination, profile.max_pages) ELSE pagination

\* The page that the request built from the pagination state asks for.
RequestedPage ==
  IF IsGraphql /\ pagination.seen # <<>>
  THEN pagination.seen[Len(pagination.seen)].text ELSE pagination.page

\* The sequence of f of every element of this one.
Map(f(_), seq) == [i \in DOMAIN seq |-> f(seq[i])]

\* What becomes of every exchange that scan n may meet.
Received ==
  [n \in Scans |-> [p \in DOMAIN Remote[n] |->
     Map(LAMBDA x : [exchange |-> x, outcome |-> PerformCurlTransfer(HttpLimits[n], x)],
         Remote[n][p])]]

\* The attempt ends with a complete response, or fails.
ReceiveResponse ==
  /\ pc = "fetching"
  /\ ~cancelled
  /\ accounting = "READY"
  /\ pages < profile.max_pages
  /\ RequestStarted.state = "active"
  /\ \E k \in DOMAIN Received[scan][RequestedPage] :
       IF Received[scan][RequestedPage][k].outcome.failure = "none"
       THEN /\ response' = <<RequestedPage, k>>
            /\ pagination' = RequestStarted
            /\ accounting' = "TRANSPORT_COMMITTED"
            /\ pages' = pages + 1
            /\ pc' = "decoding"
            /\ UNCHANGED <<scan, mutex, pulls, result, batch, delivered, call, flags, page,
                           page_loaded, page_has_next, offset, held>>
       ELSE Fail

\* The single-response stream takes any success, the others 200 only.
CheckStatus(admitted, status) ==
  IF admitted.strategy = "disabled" THEN status \in 200..299 ELSE status = 200

\* The document that these octets of an exchange are the text of.
Document(x, octets) ==
  IF octets = x.payload THEN x.body ELSE [x.body EXCEPT !.wellformed = FALSE]

\* Of every exchange of scan n: the rows, or the first error, and the memory of a
\* parse that has this much.
DecodedBody ==
  [n \in Scans |-> [p \in DOMAIN Remote[n] |->
    Map(LAMBDA r :
          LET admitted == ScanProfile[n]
              document == Document(r.exchange, r.outcome.body)
          IN  [memory \in 0..Limits.memory |->
                IF admitted.strategy = "graphql_cursor"
                THEN DecodeGraphqlResponse(memory, admitted.max_records, document)
                ELSE DecodeJsonPage(admitted.source, memory, admitted.max_records,
                                    admitted.strategy = "response_next", document)],
        Received[n][p])]]

\* A parse has the memory that the cursors seen leave.
Decode(r) ==
  DecodedBody[scan][r[1]][r[2]][Limits.memory - (IF IsGraphql THEN CursorBytes(pagination) ELSE 0)]

\* The exchange of a response and its outcome.
ReceivedAs(r) == Received[scan][r[1]][r[2]]

\* The links of all Link fields, in the order in which they came.
LinksOf(outcome) ==
  FlattenSeq([i \in DOMAIN outcome.links |-> outcome.links[i].items])

\* The pagination after the page, staged until the page is installed.
Transition(document, outcome, rows) ==
  CASE profile.strategy = "disabled" -> Exhausted(pagination)
    [] profile.strategy = "link_next" -> AdvanceByLinks(pagination, LinksOf(outcome))
    [] profile.strategy = "response_next" -> AdvanceBody(pagination, TakeNextUrl(document.next))
    [] profile.strategy = "short_page" -> AdvanceByCount(pagination, rows, profile.page_size)
    [] profile.strategy = "graphql_cursor" ->
         AdvanceCursor(pagination, document.has_next.values[1].json = "true",
                       document.end_cursor.values[1])

-----------------------------------------------------------------------------
(* What is assumed of the server *)

\* Documents are made of JSON values, as far as a plan selects them.
IsList(s) == Len(s) \in Nat /\ s = [i \in 1..Len(s) |-> s[i]]
IsScalar(v) == v.json = "string" => v.bytes \in Nat
IsValue(v) ==
  /\ IsScalar(v)
  /\ v.json = "array" => /\ IsList(v.elements)
                         /\ \A i \in DOMAIN v.elements : IsScalar(v.elements[i])
IsFound(found) ==
  IsList(found.values) /\ \A i \in DOMAIN found.values : IsValue(found.values[i])
IsRecord(r) == r.json = "object" => \A c \in DOMAIN Columns : IsFound(r.fields[c])

\* Where the records of a scan are in its documents, and that they are there.
RecordsIn(admitted, body) ==
  IF admitted.strategy = "graphql_cursor" THEN body.records.values[1].elements
  ELSE RecordsOf(admitted.source, body)
HasRecords(admitted, body) ==
  IF admitted.strategy = "graphql_cursor"
  THEN Traverse(body.records) /\ body.records.values[1].json = "array"
  ELSE /\ RootMatches(admitted.source, body)
       /\ admitted.source = "JSON_PATH_MANY" => ParseRecordArrayObject(body)

IsBody(admitted, body) ==
  /\ "wellformed" \in DOMAIN body
  /\ IsFound(body.next) /\ IsFound(body.errors)
  /\ IsFound(body.has_next) /\ IsFound(body.end_cursor)
  /\ HasRecords(admitted, body) =>
       /\ IsList(RecordsIn(admitted, body))
       /\ \A i \in DOMAIN RecordsIn(admitted, body) : IsRecord(RecordsIn(admitted, body)[i])

ASSUME DocumentAssumption ==
  \A n \in Scans :
    /\ DOMAIN Remote[n] = DOMAIN ScanProfile[n].page_rows
    /\ \A p \in DOMAIN Remote[n] :
         /\ IsList(Remote[n][p])
         /\ \A k \in DOMAIN Received[n][p] : IsBody(ScanProfile[n], Received[n][p][k].exchange.body)

\* Curl hands over a response as it comes: header sections, each begun by a status
\* line and ended by an empty one, then a body, beside which trailers may come; it
\* calls no transfer a success that has no terminal section.
IsLine(e, line) == e.callback = "header" /\ e.line = line
IsCall(e) ==
  \/ /\ e.callback = "header" /\ e.bytes \in Nat
     /\ \/ e.line \in {"status", "end"}
        \/ e.line \in {"field", "fold"} /\ e.size \in Nat /\ IsList(e.items)
  \/ e.callback = "body" /\ e.wire \in Nat /\ IsList(e.octets)
  \/ e.callback = "progress"

EndsLastSection(events, i) ==
  IsLine(events[i], "end") /\ \A j \in (i + 1)..Len(events) : ~IsLine(events[j], "status")

IsExchange(x) ==
  /\ IsList(x.addresses) /\ x.stop.flag \in {"cancelled", "timed_out"}
  /\ IsList(x.events) /\ \A i \in DOMAIN x.events : IsCall(x.events[i])
  /\ \A i \in DOMAIN x.events :
       x.events[i].callback = "body" => \E end \in 1..(i - 1) : EndsLastSection(x.events, end)
  /\ x.result = "ok" =>
       \E start \in DOMAIN x.events : \E end \in (start + 1)..Len(x.events) :
         IsLine(x.events[start], "status") /\ EndsLastSection(x.events, end)

ASSUME WireAssumption ==
  \A n \in Scans : \A p \in DOMAIN Remote[n] : \A x \in Range(Remote[n][p]) : IsExchange(x)

\* An accepted document for page p has the records of that page, the position of
\* each in its first column.
HonestRecords(admitted, p, body) ==
  /\ Len(RecordsIn(admitted, body)) = admitted.page_rows[p]
  /\ \A i \in 1..admitted.page_rows[p] :
       RecordsIn(admitted, body)[i].fields[1].values[1].n = Sums(admitted.page_rows)[p - 1] + i

\* And it does not end the result early, announce a page beyond it, or name by a
\* new cursor any page but the next: nobody could notice.
HonestSignal(admitted, p, body, outcome) ==
  LET last == Len(admitted.page_rows)
      links == LinksOf(outcome)
      next == {i \in DOMAIN links : HasNextRelation(links[i])}
      url == TakeNextUrl(body.next)
      more == body.has_next.values[1].json = "true"
      cursor == body.end_cursor.values[1]
  IN  /\ admitted.strategy = "link_next" =>
           /\ ParseLinkHeaderFields(links) /\ next = {} => p = last
           /\ next # {} /\ (\A i \in next : ValidateNextTarget(links[i].target, p))
                /\ (\A i, j \in next : i = j) => p < last
      /\ admitted.strategy = "response_next" =>
           IF url = <<>> \/ url[1].bytes = 0 THEN p = last
           ELSE ValidateNextTarget(url[1].target, p) => p < last
      /\ admitted.strategy = "graphql_cursor" =>
           IF ~more THEN p = last
           ELSE ~IsNull(cursor) /\ cursor.bytes \in 1..Limits.cursor /\ cursor.text \notin 2..p
                  => cursor.text = p + 1 /\ p < last

\* Of an exchange for page p of scan n the stream takes what it gets.
Accepted(n, p, k) ==
  /\ Received[n][p][k].outcome.failure = "none"
  /\ CheckStatus(ScanProfile[n], Received[n][p][k].outcome.status)
  /\ \E memory \in IF ScanProfile[n].strategy = "graphql_cursor"
                    THEN 0..Limits.memory ELSE {Limits.memory} :
       DecodedBody[n][p][k][memory].s.error = "none"

ASSUME CollectionAssumption ==
  /\ Columns[1].kind = "BIGINT" /\ ~Columns[1].array /\ ~Columns[1].nullable
  /\ \A n \in Scans :
       /\ ScanProfile[n].strategy = "short_page" =>
            \E p \in DOMAIN ScanProfile[n].page_rows :
              ScanProfile[n].page_rows[p] < ScanProfile[n].page_size
       /\ \A p \in DOMAIN Remote[n] : \A k \in DOMAIN Received[n][p] :
            Accepted(n, p, k) =>
              /\ HonestRecords(ScanProfile[n], p, Received[n][p][k].exchange.body)
              /\ HonestSignal(ScanProfile[n], p, Received[n][p][k].exchange.body,
                              Received[n][p][k].outcome)

-----------------------------------------------------------------------------
InstallPage(rows, next) ==
  /\ page' = rows
  /\ offset' = 0
  /\ page_loaded' = TRUE
  /\ page_has_next' = (next.state = "active")
  /\ pagination' = next
  /\ response' = None
  /\ accounting' = "PAGE_DECODED"
  /\ held' = held \cup {"page bytes", "page rows"}
  /\ pc' = "pulling"
  /\ UNCHANGED <<scan, mutex, pulls, result, batch, delivered, call, flags, pages>>

\* The response is decoded, the pagination advanced and the page committed; only
\* then is anything of it installed.
FetchPage ==
  /\ pc = "decoding"
  /\ ~cancelled
  /\ \E decoded \in {Decode(response)}, r \in {ReceivedAs(response)} :
       IF CheckStatus(profile, r.outcome.status) /\ decoded.s.error = "none"
       THEN \E next \in {Transition(r.exchange.body, r.outcome, Len(decoded.rows))} :
              IF /\ next.state # "failed"
                 /\ decoded.s.decoded + CursorBytes(next) <= Limits.memory
              THEN InstallPage(decoded.rows, next) ELSE Fail
       ELSE Fail

-----------------------------------------------------------------------------
(* Cancel and Close *)

\* The flag goes up before the mutex is asked for.
Request(t, kind) ==
  /\ call[t] = "out"
  /\ call' = [call EXCEPT ![t] = kind]
  /\ cancelled' = TRUE
  /\ UNCHANGED <<scan, mutex, pull, closed, exhausted, terminal, private>>

\* Variant: Cancel calls Close with the mutex in its hands.
CancelByClosing(t) ==
  /\ call[t] = "Cancel"
  /\ mutex = None
  /\ mutex' = t
  /\ call' = [call EXCEPT ![t] = "Close"]
  /\ UNCHANGED <<scan, pull, flags, private>>

Cancel(t) ==
  /\ call[t] = "Cancel"
  /\ mutex = None
  /\ call' = [call EXCEPT ![t] = "returned"]
  /\ IF closed THEN UNCHANGED private ELSE ReleasePrivateState
  /\ UNCHANGED <<scan, mutex, pull, flags>>

Close(t) ==
  /\ call[t] = "Close"
  /\ mutex = None
  /\ call' = [call EXCEPT ![t] = "returned"]
  /\ closed' = TRUE
  /\ IF closed THEN UNCHANGED private ELSE ReleasePrivateState
  /\ UNCHANGED <<scan, mutex, pull, cancelled, exhausted, terminal>>

-----------------------------------------------------------------------------
Pull ==
  EnterNext \/ ProduceBatch \/ FinishPage \/ StartFetch \/ ReceiveResponse \/ FetchPage

Next ==
  \/ CallNext
  \/ Pull
  \/ FailPull
  \/ \E t \in Threads : Request(t, "Cancel") \/ Request(t, "Close")
  \/ \E t \in Threads : Cancel(t) \/ Close(t)

-----------------------------------------------------------------------------
(* Properties *)

\* The position of a row in the remote result, which the first column carries.
Position(row) == row[1].value

\* The consumer gets every remote row at most once and in order, across batches,
\* pages (empty ones included) and strategies: of all that the server may answer,
\* what could make the stream repeat or skip a page is refused, but for what it
\* cannot tell from an honest answer (CollectionAssumption).  The end is reported
\* to a pull only after the last row, unless the stream was closed.
RowsInOrder ==
  /\ \A i \in DOMAIN delivered : Position(delivered[i]) = i
  /\ exhausted => Len(delivered) = TotalRows
  /\ result = "end" => exhausted \/ closed

\* Once the stream has failed, was exhausted or closed, and once any Cancel or
\* Close has returned, it holds nothing of the shared components, whoever else
\* is still inside it: ReleasePrivateState is complete and nothing is taken
\* again behind it.
NothingLeftBehind ==
  /\ terminal \/ closed => held = {}
  /\ exhausted /\ mutex = None => held = {}
  /\ (\E t \in Threads : call[t] = "returned") =>
       held = {} /\ ~page_loaded /\ mutex # "consumer"

\* The accounting is never called out of order, whatever Cancel and Close did in
\* between: a fetch finds it ready and within the pages the scan may ask for, a
\* response finds the transport committed and a loaded page finds it decoded.
AccountingInOrder ==
  /\ pc = "fetching" => accounting = "READY" /\ pages < profile.max_pages
  /\ pc = "decoding" <=> accounting = "TRANSPORT_COMMITTED"
  /\ page_loaded <=> accounting = "PAGE_DECODED"

PowerOf2[k \in Nat] == IF k = 0 THEN 1 ELSE 2 * PowerOf2[k - 1]

\* The smallest doubling of `unit` that holds n.
Doubled(unit, n) ==
  unit * PowerOf2[CHOOSE k \in 0..n : /\ unit * PowerOf2[k] >= n
                                     /\ \A j \in 0..(k - 1) : unit * PowerOf2[j] < n]

\* Bytes that a typed value owns besides itself.
OwnedBytes(value) ==
  LET string(v) == IF v.valid /\ v.kind = "VARCHAR" THEN Doubled(Sizes.inline, v.bytes) ELSE 0
  IN  IF "elements" \in DOMAIN value
      THEN LET n == Len(value.elements)
           IN  (IF n = 0 THEN 0 ELSE Sizes.scalar * Doubled(1, n))
               + SumOf([i \in 1..n |-> string(value.elements[i])])
      ELSE string(value)

RowBytes(row) ==
  Len(row) * Sizes.value + SumOf([i \in 1..Len(row) |-> OwnedBytes(row[i])])

\* The rows have the shape of their columns: no null in a column, or in an array,
\* that is not nullable, and every value of its column's type.
ShapeHolds(rows) ==
  \A i \in DOMAIN rows : \A c \in DOMAIN Columns :
    LET value == rows[i][c]
    IN  /\ value.kind = Columns[c].kind
        /\ value.valid \/ Columns[c].nullable
        /\ value.valid => (("elements" \in DOMAIN value) <=> Columns[c].array)
        /\ value.valid /\ Columns[c].array =>
             \A e \in DOMAIN value.elements :
               value.elements[e].valid \/ Columns[c].element_nullable

\* A decoded page is whole and exactly paid for, by both decoders: its rows have
\* the declared shape and stay within the record budget, the parse never held
\* more than its memory, what it reports as retained is what the rows own, and
\* nothing of a finished record stays pending (but GraphQL's end cursor, which
\* it hands over).
DecodedExactly ==
  pc = "decoding" => \A decoded \in {Decode(response)}, r \in {ReceivedAs(response)} :
    LET s == decoded.s
        end == r.exchange.body.end_cursor
        cursor == IF IsGraphql /\ s.error = "none" /\ ~IsNull(end.values[1])
                  THEN Doubled(Sizes.inline, end.values[1].bytes) ELSE 0
    IN  /\ s.peak <= s.limit
        /\ Live(s) <= s.limit
        /\ s.error = "none" =>
             /\ ShapeHolds(decoded.rows)
             /\ Len(decoded.rows) <= profile.max_records
             /\ s.strings = cursor /\ s.arrays = 0 /\ s.structural = 0
             /\ s.decoded = profile.max_records * Sizes.row
                             + SumOf([i \in 1..Len(decoded.rows) |-> RowBytes(decoded.rows[i])])

\* The calls of the terminal header section: those after the last status line, up
\* to the empty line that ends it.
HeaderSection(x) ==
  LET from == CHOOSE i \in DOMAIN x.events :
                /\ IsLine(x.events[i], "status")
                /\ \A j \in (i + 1)..Len(x.events) : ~IsLine(x.events[j], "status")
      to == CHOOSE i \in (from + 1)..Len(x.events) :
              /\ IsLine(x.events[i], "end")
              /\ \A j \in (from + 1)..(i - 1) : ~IsLine(x.events[j], "end")
  IN  SubSeq(x.events, from + 1, to - 1)

\* Call i is a field with this name, or a line that continues one.
Belongs(section, i, name) ==
  /\ section[i].callback = "header"
  /\ \E j \in 1..i : /\ IsLine(section[j], "field") /\ section[j].name = name
                     /\ \A k \in (j + 1)..i : ~IsLine(section[k], "field")

ItemsOf(section, name) ==
  FlattenSeq([i \in DOMAIN section |->
    IF Belongs(section, i, name) THEN section[i].items ELSE <<>>])

\* The items kept as guidance under this name.
GuidanceOf(outcome, name) ==
  FlattenSeq([i \in DOMAIN outcome.fields |->
    IF outcome.fields[i].name = name THEN outcome.fields[i].items ELSE <<>>])

\* The transport counts no more than its limits, and a response that it hands over
\* is within them and from an address the policy allows.
WithinLimits(limits, o) ==
  /\ o.header_bytes <= limits.header
  /\ o.response_bytes <= limits.response
  /\ o.failure = "none" => /\ o.decompressed <= limits.decompressed
                           /\ RetainedMetadataBytes(o) <= limits.metadata
                           /\ o.socket[1].allowed

\* Links and guidance are those of the terminal header section: nothing of an
\* interim response or a trailer, and every folded line.  A response that is no
\* success has neither body nor links.
TerminalMetadata(limits, x, o) ==
  o.failure = "none" =>
    /\ o.status \notin 200..299 => o.body = <<>>
    /\ LinksOf(o) = IF o.status \in 200..299 /\ limits.metadata > 0
                    THEN ItemsOf(HeaderSection(x), "link") ELSE <<>>
    /\ \A name \in limits.retained :
         GuidanceOf(o, name) = ItemsOf(HeaderSection(x), name)

\* The body is the payload, whole, however it was cut and framed, and an honest
\* response that fits is not refused.
PayloadWhole(x, o) ==
  /\ o.failure = "none" /\ o.status \in 200..299 => o.body = x.payload
  /\ x.honest => o.failure = "none"

\* Whatever is sent in answer to the request now made, the transport stays within
\* its limits, and what it hands over is the terminal response's, whole.
TransferExact ==
  pc = "fetching" => \A r \in Range(Received[scan][RequestedPage]) :
    /\ WithinLimits(HttpLimits[scan], r.outcome)
    /\ TerminalMetadata(HttpLimits[scan], r.exchange, r.outcome)
    /\ PayloadWhole(r.exchange, r.outcome)

\* A failure is final: until the stream is closed every later pull throws it
\* again and no row is delivered after it (terminal_exception).
FailureIsFinal ==
  [][result = "failed" /\ result' # result => result' = "end" /\ closed]_vars

\* Cancel, Close and Next all return, however they interleave.
CallsReturn ==
  /\ \A t \in Threads : call[t] \in {"Cancel", "Close"} ~> call[t] = "returned"
  /\ pc # "out" ~> pc = "out"
=============================================================================

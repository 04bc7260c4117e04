# A verification project for duckdb-fdw

duckdb-fdw is a DuckDB extension that turns connector packages into table
functions over remote HTTP services. This directory holds TLA+ models of the
path a statement takes, from the package on disk to the rows of a response, the
TLC configurations that check them on small instances, and proofs that TLAPS
checks for every value of the constants. `PROJECT.json` lists the runs, the
mutants that show what each property can catch, the hazards the properties are
aimed at, and which source lines every definition stands for.

## The system

| part | state it keeps | operations | talks to |
|---|---|---|---|
| package source and compiler (`src/src/connector/package`) | none once compiled | acquire the directory, check, compile | the author's files; its result is published by the query adapter |
| compiled connector model (`src/src/connector`) | immutable records | construct and validate | planner, runtime |
| relational planner (`src/src/semantics`) | none (pure) | resolve inputs, select an operation, classify the predicate, build a `ScanPlan` | reads the connector model |
| query adapter (`src/src/query`) | bound request and selected plan of a statement; published functions, active snapshot | bind, filter callbacks, load, reload, scan | DuckDB; planner; generation registry; runtime |
| credential storage and provider (`src/src/query/duckdb/credential_*`) | an index in memory, a directory of record files, DuckDB's temporary secrets | store, replace, drop, list, resolve | file system; scan executor |
| generation registry (`src/src/runtime/generation`) | active snapshot, stage lock | stage, commit, discard, close | query adapter |
| plan admission (`src/src/runtime/execution/*_admission.cpp`) | none (pure) | check a plan again and narrow it by the operator's profile | planner's output; executor |
| admission controller (`.../admission_controller.cpp`) | counters of seven resources and three FIFO queues, tickets | acquire, resize, release, close | every scan of the process |
| rate-limit coordinator (`.../rate_limit_coordinator.cpp`) | a bucket per quota key: embargo, tickets, permit | acquire, extend, requeue, complete, close | every rate-limited scan |
| scan resource accounting (`src/src/runtime/policy`) | state machine and counters of one scan | begin, commit, complete, abort | stream and resilience loop |
| resilience loop (`http_retry_controller.hpp`) | repeats and waits of one step | attempt, retry, wait, give up | the three above, and the transport |
| scan executor and streams (`http_scan_executor.cpp`, `http_paginated_scan.cpp`, `graphql_paginated_scan.cpp`) | loaded page, offset, pagination, terminal failure, permits | open, Next, Cancel, Close | all of the above; DuckDB's threads |
| pagination (`src/src/runtime/pagination`) | current page or cursors seen | the transition to the next page | the stream |
| decoders (`src/src/runtime/decoding`) | memory charged to a page | decode a body into typed rows | the stream |
| HTTP transport (`src/src/runtime/transport`) | the response accumulator of one transfer | curl's callbacks, chunk decoding, classification | libcurl; the resilience loop |
| authenticators, explain, diagnostics | none | string construction | the above |

What is hard: scans of one process compete for shared counters under several
keys at once, wait in queues with deadlines, and are cancelled by other threads
at any time; a package is replaced by two commits, one of DuckDB's catalog and
one of the registry, while other connections read either; a step repeats for two
unrelated reasons, each with a budget of its own; a process-wide component may
close underneath everybody; a credential is several files, any of whose
operations may fail or be lost in a crash; DuckDB plans a statement again with
other filters as often as it likes; and neither the server nor the package's
author does things in the order one would wish. `PROJECT.json` lists these
hazards at their lines.

What makes each part correct:

* admission: exact counters, limits, work conservation, FIFO order, return;
* rate limits: one permit per key, exact waiter counts, FIFO, embargoes that
  only grow, return;
* accounting: no budget exceeded by any sequence of calls, allowances that fit,
  one deadline;
* resilience: repeats counted once, nothing held while waiting, cancellation
  effective, the step ends;
* streams: rows once and in order whatever the server says, nothing left behind,
  failure final, calls return;
* transport and decoders: the terminal response exactly, or none; rows of the
  declared shape, paid for exactly, within every limit;
* generations: catalog and registry agree, no lost publication, statements end;
* planner and plan admission: no request drops a row the query keeps, an
  operation is selected only for inputs it gets, authority only narrows;
* package source: what is compiled is one revision of the directory;
* credentials: every directory a crash can leave is whole and holds what callers
  were told; a scan gets the credential the names say, or none.

## Modules

| module | models |
|---|---|
| `AdmissionLedger` | abstract: who holds how much, within limits, only shrinking after the close |
| `AdmissionController` | the controller, one action per critical section; implements `AdmissionLedger` |
| `RateLimitCoordinator` | the quota coordinator, one action per critical section or iteration of a wait |
| `ScanResourceAccounting` | the accounting, one action per public function, under arbitrary callers |
| `HttpRetryController` | the resilience loop; instantiates `ScanResourceAccounting` and takes the answers of the admission controller, the coordinator and the transport as inputs |
| `JsonDecoder`, `GraphqlResponseDecoder` | both decoders, as operators from a document to rows and charges |
| `PageTransition` | the transition to the next page, for every pagination strategy |
| `HttpTransport` | one transfer, as a recursion over the calls curl makes |
| `PaginatedBatchStream` | the three streams; composes decoders, transitions and transport |
| `HttpScanExecutor` | opening of a scan by the three services, over the streams |
| `RelationalPredicate` | predicates, their three-valued meaning, and DuckDB's filters translated into them |
| `ConnectorDeclarations` | the compiled connector model and its validation |
| `PackageCompiler` | from declarations to the compiled model |
| `PackageSource` | acquisition of a package directory while it is edited |
| `ScanPlanning` | the planner |
| `PlanAdmission` | the runtime's second look at a plan |
| `PlanningPipeline` | a statement, from the directory to its requests; composes the six above |
| `CredentialStorage` | persistent and temporary secrets over a failing file system |
| `GenerationPublication` | load and reload statements over the registry, the coordinator and DuckDB's catalog |
| `AdmissionControllerProofs`, `RateLimitCoordinatorProofs`, `ScanResourceAccountingProofs`, `HttpRetryControllerProofs`, `HttpScanExecutorProofs`, `GenerationPublicationProofs`, `CredentialStorageProofs`, `PlanningPipelineProofs` | theorems about the module of that name |
| `MC*` | instances for TLC |

### AdmissionController

A caller is a thread with its Permit object. `resources` and `queues` are the
maps of the code (seven resources, three queues), indexed by counter key: global,
connector, destination, principal, bulkhead. `KeysOf(c)` is what an identity is
charged to. `GrantEligibleLocked` describes the pass by its result: the set `G`
of granted tickets is the one in which a ticket is granted exactly when it fits
beside the usage and the earlier tickets of `G`. `pc` is where a caller stands:
`waiting` in its loop, `granted` (the pass erased its ticket, it has not seen it
yet), `unlocked` (permit in hand, cancellation not yet read again), `held`.
`MaterializationThrows` and `WaitThrows` are the two branches of the catch block.
Left out: the observation returned beside a status, and allocation failures of
the counter maps. A critical section reads one instant of the clock.

### RateLimitCoordinator

A bucket has an embargo (`eligible`), a permit flag and a queue of ticket
numbers; a key without a bucket has `NoBucket`. A thread that enters the wait
loop keeps the mutex until its first wait slice (`pc = "entering"`); `Unlocked`
says that no other thread is in that position. Requeue on a closed coordinator
unlocks before it completes the permit: `giving up` is the gap. The branch of
the loop for a missing bucket and the logic error of Requeue are unreachable
(`QueuesExact`, `OnePermitPerKey`). That an embargo is forgotten with its empty
bucket is the documented design (RFC 0025).

### ScanResourceAccounting

The counters, the state and the deadline, with the three response-byte
dimensions as the members of `Bytes`. `Next` lets any call come at any time with
any amount, so the properties hold whatever stream uses the class.

### HttpRetryController

One scan whose steps run `ExecuteHttpStepWithRetry`. Every wait is a control
location with a start, an end and the resources held over it; the answers the
coordinator and the controller may give at that point are those of `Answers`.
Guidance headers are reduced to the delay and the remote bucket they name, and
`RefusesGuidance` to the reasons the code has for not waiting. The measured
length of a quota wait is debited in full even when the answer is positive, so a
late permit can still end the scan; that of an admission wait runs to the grant
and is capped by what the aggregate has left (`AccountedWaits`); an ordinary retry
debits its delay. An
attempt's usage stays within its allowance, which `TransferExact` justifies for
the transport. (The facts of a failed chunked attempt report the size of the raw
body as the decompressed one; such an attempt is final either way.)
`TransportAccepts` is the transport's own check of the limits it is given.

### JsonDecoder and GraphqlResponseDecoder

A document is what is found at the paths a plan selects, with its sizes, and
whether it is well formed; its characters are left out. The accounting of memory
is kept in full: what is committed, what is pending for the record at hand, what
a buffer costs while the one it replaces is still live, and the peak. `Sizes` are
the sizes of the C++ objects, scaled. Each reader is a recursive function of an
index (bytes of a string, elements of a list, columns, records), as the loops of
the code are, so that it can be reasoned about.

### PageTransition

The three REST strategies and the GraphQL cursor. A URI is its origin, path and
query, and a Link field its items; what is refused and in which order is kept.
The capacity of the array of cursors seen is that of the pages a plan may have,
so it cannot overflow before the page limit ends the scan, and is left out.

### HttpTransport

A transfer is a recursion over `exchange.addresses` (`SocketsOpened`) and then
`exchange.events` (`CallsMade`), the calls curl makes, each of which changes the
accumulator; a callback that raises a flag ends it. Header sections are kept apart as
the code does, so are folded and repeated fields, trailers, interim responses, the
capacity of what is retained, and the flags' order of precedence in
`PerformCurlTransfer`. `DecodeHttpChunkedBody` is the chunk decoder over octets in
which a chunk extension is one symbol. Curl is external. `IsExchange` says in which
order it calls: a header section begins with a status line and ends with an empty
one, a body comes only after the end of the last section, trailers may follow, and
nothing is a success without a terminal section; `WireAssumption` claims it of
every exchange. That strings have exactly the capacity that was reserved is assumed.

### PaginatedBatchStream and HttpScanExecutor

`mutex`, the flags and the private state of one stream; the consumer's thread
pulls, others cancel or close. `Request` raises the atomic flag before the mutex
is asked for, `Cancel` and `Close` are the critical sections. `held` is what the
stream owns of the shared components. The executor opens it: credential
requirement and alternative, the permit for the resolution, the principal, the
scan's permit. That the executor is closed in between is an over-approximation:
any acquisition may be refused.

`Remote[scan][page]` is what may happen on the wire. `Received` and `DecodedBody`
are the outcomes of `HttpTransport` and of the decoders on each of them: tables,
because every one is needed in many states and is the same in all. The server may
send anything of `Remote`. `DocumentAssumption` says that its documents are JSON
values as far as the plan looks into them. `CollectionAssumption` says what no
client can detect, and only of responses the transport and the decoder accept: the
document for page p has the records of page p, with the position of each in the
first column; it does not end the collection early or announce a page beyond it;
and a cursor not used before names the next page. Whatever else a dishonest server
does, repeated cursors, foreign targets, malformed bodies, is in `Remote` and
has to be refused by the code.

### RelationalPredicate to PlanningPipeline

Predicates are values of the C++ variant, and `Meaning` gives them, and
DuckDB's filters, DuckDB's three-valued meaning: that is the reference against
which classification is checked. `ConnectorDeclarations` has one `Valid...`
operator per constructor, `PackageCompiler` one phase per file of the compiler;
a package with a diagnostic is not compiled. A filter expression of DuckDB is a
member of `Expressions`, and so are its children (`ExpressionAssumption`). `ScanPlanning`
follows `BuildScanPlan`: inputs, selection, classification, request
fields, budgets, authority. `PlanAdmission` recomputes from the plan what the
runtime recomputes, and fails where it throws. A query field counts with the
length of its encoded text, three bytes for each that is not unreserved. Decoded
memory is left out of the page and scan budgets that are compared: the planner
fills both with the same constant.

`PlanningPipeline` is the statement: `PackageSource` supplies a declaration while
its author edits manifest and relation, the statement binds, the filter callback
comes any number of times up to `MaxCallbacks` with any of `Filters` (DuckDB's
optimizer, external), execution admits the last plan and sends its pages. A file
identity is a fresh number for every edit: the code compares device, inode, mode,
links, size and times, and every edit changes ctime. That is an assumption on the
clock of the file system: two edits of one size within one of its ticks would have
one identity, and `AcquiredWhole` says nothing of them.

### CredentialStorage

A mutation is the sequence of file operations that the code performs
(`op[i].todo`), run under the instance's mutex and the directory's lock; each may
fail, and before each the process may die. `unsynced` holds the directories since
the last fsync and `Images` every directory that may be found after a power loss:
directory operations are assumed to reach the disk in order, which is what a
journalling file system gives. `promise` is a history variable: what a caller was
told a name is bound to. Ids are fresh, as 128 random bits are. An iterator that
is used after its map was replaced reads freed memory (`AuthorityRead`,
`RecordIdRead`): the old value, the id just generated, or `Garbage`, which stands
for bytes that are neither empty nor zero. Zero bytes would also be refused when
the index is decoded again, and an empty id would leave the old record behind;
both are further ways in which finding 2 shows. One
observation beside the findings: a CREATE that ignores a conflict returns the
metadata of the existing entry, also if a failed synchronisation left that entry
visible but not durable.

### GenerationPublication

A connection runs one statement at a time: `bound` (it carries the catalog
snapshot of its transaction), `compiled`, `based` (the registry's snapshot was
read, the stage lock is polled for), `staged`, `published` or `conflicted` (the
client context holds lease and guard), `committed` (the catalog is visible, the
callback has not run), `releasing`. `Fail` is any exception on the way: unwinding
discards the lease. A package is its connector, version, policy and relations; a
directory may hold any of its packages at each read. Snapshot pointers are
compared by value, which is the same because each carries generations compiled
once. DuckDB is external: snapshot isolation, a write conflict on an entry that
changed since the transaction began, callbacks after the commit. The close may
come at any time: the coordinator's flag, the registry's flag, then the wait for
the lock.

## Runs

| run | instance | shows |
|---|---|---|
| `admission` | 3 callers, two of one identity and a third that shares their destination; one request slot, bytes, active scans; 3 tickets, time 0..1, fair | exact counters, limits, work conservation, FIFO, return, refinement of the ledger |
| `rate_limit` | 3 streams, 2 keys, 3 tickets and then exhaustion, time 0..1, fair | one permit per key, exact queues, FIFO, embargoes kept, waits return |
| `accounting` | 2 pages, 3 attempts, amounts 0..2, time 0..4 | budgets under every sequence of calls |
| `retry_loop` | 2 pages, 4 attempts, both repeat mechanisms, time 0..5, fair | the resilience loop |
| `paginated_stream` | 6 scans: single response, links, next URL, short pages, cursors, a capped one; all three services, 2 threads that cancel or close, 7 pulls in batches of 2, fair | the executor, the streams, transport and decoders |
| `generation_publication` | 2 connections (symmetric), 3 statements, a directory with 5 packages and one whose function collides | agreement of catalog and registry, no publication lost, locks owned by live statements |
| `generation_fair` | 2 connections, 3 statements, 2 packages | statements and the close end |
| `planning` | 18 sound packages and 15 with one defect each, 6 arguments, 25 filters, 5 profiles, 2 callbacks, 3 edits, 2 pages | soundness of pushdown, selection, admission, translation and acquisition |
| `credentials` | 2 instances, 2 names, 3 ids (symmetric), 2 live records | the storage over failures, crashes and power losses, and the provider |
| `planning_restricted` | the base package, 1 callback | finding 1 |
| `credentials_replace` | 1 instance, 1 name | finding 2 |
| `retry_metadata` | a single-response scan | finding 3 |

Bounds. `MaxTicket` stands for the largest 64-bit ticket and is reached in the
admission and the coordinator run, so exhaustion happens; three callers are the
least with which a ticket can be overtaken while a third holds the resource, and
two counters must conflict crosswise for one release to unblock two tickets. The
coordinator issues three tickets: with two waiting streams and a third number left,
a permit holder requeues behind a waiter of its own or of the other key.
`MaxTime` lets every deadline pass before and after every event. Identities that
are not complete, and credential resolutions, which differ from other queued
resources only in their keys, are not in the admission run; the theorems cover
them. The budgets of the accounting are small enough that each is exhausted, the
aggregate waiting budget before its splits. Three statements are one that loads
and two that race over what it loaded. The stream's scans have three pages at
most, one of them empty and one that ends with a batch; seven pulls are more
than the longest scan needs. A predicate of depth 3 and 5 nodes is at its limits
with filters that are one past each. Two live records are the least at which a
replacement has an old and a new one; three ids are one more, so that a later
mutation meets the cleanup intent of an earlier one. `retry_loop`,
`paginated_stream`, `planning`, `credentials` and the generation runs end in
states in which nothing is left to do, or no fresh id is left, so deadlock is not
checked there; the other runs check it.

Types are checked by TLC in `admission` and `accounting`. The proof modules have a
theorem `TypeCorrect` each; that of the executor covers the control of a stream.

Fairness. A thread inside a wait of either component is woken by a notification
or by the end of a slice of at most a few milliseconds, so weak fairness of its
own steps is what the condition variable gives; the clock advances. The
resilience loop assumes in addition that the components answer by the end they
were given (`CallReturns`, `WaitReturns`) and that the transport ends, which it
owes to its own time limit. A stream's own steps are fair and so is whoever waits
for its mutex, which is only contended finitely often. A load or reload statement
polls its two locks every ten milliseconds and its transaction ends one way or
the other; the number of statements is bounded, so a statement is not claimed to
get a lock that others take for ever. Nothing is assumed about who releases,
cancels, closes or lets a wait throw. Planning and storage have no fairness and no
liveness property: nothing in them waits.

## Findings

1. `planning_restricted`: a filter with one exactly mapped equality among other
   conjuncts is classified as a superset restriction, but the equality keeps the
   mapping's proof `PRESERVES_EXACT`; the runtime admits a superset only with
   `PRESERVES_ALL` (`rest_relational_admission.cpp:58`), so the statement fails,
   where the documentation says such a restriction is the ordinary case.
2. `credentials_replace`: `StorePersistent` and `DropPersistent` read an entry
   through an iterator that `CleanPriorIntent` has invalidated
   (`credential_storage.cpp:903`, `:946`), whenever an earlier mutation left its
   cleanup intent behind: the replacement fails or loses the retained authority.
3. `retry_metadata`: the transport refuses limits whose metadata bytes exceed
   their header bytes (`curl_transfer.cpp:145`). A single response that waits for
   its rate limit keeps the whole page's metadata limit for a repeat, whose header
   limit is what the first attempt left: the repeat can never be executed.

`PROJECT.json` quotes what the documentation says of each.

## Proofs

`AdmissionControllerProofs` proves, for any set of callers, identities, profile
and bounds: type correctness, exact counters, limits, work conservation, FIFO
order, and refinement of `AdmissionLedger`. The invariant is `IInv`: besides the
types it says that every counter is the cardinality of the set of units charged
to it (a unit is a pair of caller and number, so that byte reservations count
too) and that ticket, permit and `pc` of a caller agree. It is needed because the
code keeps counters and objects separately: neither the limits nor the absence of
an underflow follows from the counters alone. The step proofs go through one
lemma about `Consistent` for each way the code changes a caller, and one about a
granting pass. Work conservation needs that a pass leaves no eligible ticket that
fits (`AllQueuesBusy`) and that every decrement is followed by a pass of the same
resource. The module begins with what is needed about cardinalities.

`ScanResourceAccountingProofs` proves type correctness, the budgets, the fit of
the allowances and the deadline for every valid profile. `IInv` joins them with
`StepBound`, which relates the attempts of the current step to the attempts and
pages of the scan: without it `attempts <= pages * attempts per page` is not
preserved by the first attempt of a step.

`RateLimitCoordinatorProofs`: one permit per key, exact queues and waiter counts,
FIFO order and embargoes, for any number of streams, keys, tickets and instants.
Queues are reasoned about only through the tickets they contain and the fact that
these increase from front to tail; lemmas say what push_back, find/erase and
pop_front do to both. The invariant ties every ticket to one caller, one key and
one queue, and `total_waiters` to the number of callers that wait or own a permit.
FIFO needs the order and the exactness together: the front is the oldest ticket
only because no live ticket is missing.

`HttpRetryControllerProofs`: exact repeats, nothing held while waiting,
cancellation, and the budgets of the scan, for every policy and profile that
admission lets through and every answer of the components waited for. `IInv` has
the accounting's own invariant as its first conjunct, taken through an instance of
`ScanResourceAccountingProofs`; a call of the loop is shown to be a step of the
accounting, so that invariant is reused and not proved again. The rest goes by
the position of the thread: the state of the accounting (`Positions`), how far
attempts are ahead of repeats (`Ordinals`), that a repeat is decided before its
wait and counted after it (`Authority`), and what is held (`HoldingsAt`). Without
`Ordinals` the repeats cannot be exact: the loop counts a repeat and the accounting
an attempt, at different places.

`GenerationPublicationProofs`: agreement of catalog and registry, that no
publication is taken back, and that functions of other extensions stay, for any
number of connections, connectors and statements. No lock covers a publication as
a whole, so the invariant says why the readings made at different times agree: an
entry whose stamp is not later than the start of a transaction is as the
transaction saw it (`SeesUnlessStamped`), a lease pins the registry to the base
that was compared (`LeaseHolds`), what was checked for a publication stays true
until its commit (`PublicationValid`), and between the commit and its callback the
catalog is ahead by exactly the candidate (`AheadBy`).

`CredentialStorageProofs`: every image whole, acknowledgements survive, the live
index is the one on disk, and resolutions are unambiguous, for any number of
instances, names and ids. A mutation is a program of file operations, so the
invariant relates what is left of the program to the directory it will act on:
there is one operator for every rest a program can have, and executing its first
operation leads to the next rest. `Explained` relates each image to what callers
were told. The attempt showed that `Outcome` had been written as a CASE whose
guards overlap, which TLC evaluates in order but TLA+ leaves open; it now has the
order of the tests in `SelectPersistentCredential`.

`HttpScanExecutorProofs`, control: nothing left behind, accounting in order,
failures final, and openings as required, for any number of threads and pulls, any
profile and any server. `Released` is the central notion: failed, exhausted, closed,
or a Cancel or Close has returned. `FlagInv` says that a release which may come while
a pull waits for the mutex has raised a flag that the pull will test; with `PullInv`
(the mutex is held exactly during a pull) it follows that no pull is in progress
in a released stream and none starts. `ActiveInv` relates position, page and
accounting before the release, which is why a release in any position is safe.

`HttpScanExecutorProofs`, data: `DecodedExactly` and `RowsInOrder` for documents and
collections of any size. Decoding goes from the inside out: each reader, from the
bytes of a string to the rows of a page, charges exactly what it keeps or fails
(`Charged`, `Staged`, `Counted`, `Whole`), so that what a page costs is the sum over
its rows although it was charged piece by piece beside buffers that came and went.
`RowsInOrder` is not inductive: `OrderInv` adds to it `ProgressInv`, which ties the
pagination to the rows handed over. `PaginationIs` says which page the stream will
ask for (for cursors, that the i-th one seen names page i + 1), and then one case
for each position of the consumer says how far delivery is: `Between` pages,
`Answered` but not decoded, or `Loaded` with some rows of the page delivered.
Without it nothing excludes that the next page is one already delivered. The
theorems use `DocumentAssumption` and `RowsInOrder` also `CollectionAssumption`.

`HttpScanExecutorProofs`, transport: two of the three parts of `TransferExact`, for
every exchange of `Remote`, whatever the state. `TransfersStayWithinLimits`: no call
lets what is counted or retained pass its limit. The limit on a body depends on
whether the response is chunked, which a later header section could change; it does
not change under a body because bodies come after the last section's end.
`MetadataIsTerminal`: links and guidance of a response are those of its terminal
section. Between the status line of that section and its end, what is kept is what
its lines have said so far (`Gathered`); a folded line belongs to the last field,
which `Continuing` ties to the accumulator's `kind`; after the end nothing is added
(`SectionKept`), which is why trailers do no harm.

`PlanningPipelineProofs`: `AcquiredWhole`, `TranslationFits`, `AdmittedNeverWidens`,
`PushdownSound` and `SelectionJustified`, for any packages and revisions, filters,
arguments, profiles, rows and limits.

* `AcquiredWhole`: the code never looks at both files at once, so the proof has to
  find the moment. `ReadInv` says that a file with its captured identity is as it
  was read, and `VerifyingInv` that from the verification of the root on only an
  unchanged relation is missing.
* `TranslationFits`: the depth and the nodes that the translator counts down bound
  the depth and the nodes of what it builds up.
* `PushdownSound`: a predicate is the translation of DuckDB's filters and keeps every
  row they keep; the walk over its positive conjuncts finds only equalities that
  such a row satisfies; the mappings of one input have distinct texts, so the text
  that is sent names the equality although it forgets the type; and the fields that
  paging adds have names of their own, so no page replaces it.
* `SelectionJustified`: matches that do not conflict are one match, hence the
  selected operation gets the inputs it was selected for.
* `AdmittedNeverWidens`: the retry and the rate-limit policy are narrowed apart and
  their attempts joined by sums and products checked for overflow; the proof follows
  the numbers through both and shows that a page left without an attempt is refused.

In both modules what a recursive function computes is proved by induction on a
number, stated about the set of numbers for which the claim holds (`SetInduction`,
from `WFMin`). The recursions that are unfolded run down an index, the depth that is
left, or an expression, which is a finite tree.

The inductive invariants were checked by TLC on the runs' instances before they
were proved. The assumptions are the named ASSUMEs of the modules, which TLC
evaluates on every run's constants: limits are natural numbers, sets of callers
are finite, special values such as `None` are not also threads or ids, profiles
are those that plan admission lets through. Of planning they say that the host's
ceilings and the contract's widths are positive and fit each other
(`HostAssumption`, `ContractAssumption`), that declarations are the lists and numbers
that the YAML reader yields (`DeclarationAssumption`), and that filters are lists of
expressions (`FilterAssumption`); what a package may declare wrongly is not assumed
away, it is what the compiler refuses.

Only model-checked, and why:

* `CallReturns`, `WaitReturns`, `StepReturns`, `CallsReturn`, `StatementsEnd`:
  liveness under fairness.
* `PayloadWhole`, the third part of `TransferExact`: the body handed over is the
  payload however it was cut and framed, and an honest response that fits is not
  refused. For every input it needs a grammar of chunk framing, against which the
  chunk decoder would be proved; TLC checks it on the exchanges of `MCStream`.

## Not modelled

* libcurl and DuckDB themselves: external, modelled by how the code uses them.
* Characters: the texts of YAML, JSON, URIs, Link fields and headers, and what
  checks their spelling (`ClassifyInstalledHttpRequest`, `BuildHeaders`, curl's
  options, fixed headers and paths). The models start from what they parse to.
* Authenticators, explain, diagnostics and the conversion of batches to DuckDB's
  vectors: string and value construction without a decision.
* Older forms kept for compatibility: the compiler's migrations of earlier
  schemas (`TryCopyLegacy...`), `EvaluateLegacy`, the native GraphQL profile, the
  private VARCHAR bridge, and fixtures, which no statement executes.
* Path traversal and permission checks of package and credential directories.

`components` in `PROJECT.json` gives the status of each part.

## Plan

The models of the plan are written, and every safety invariant and action property
that the passing runs check is proved, except for one part of one. Left are:

1. `PayloadWhole`: a definition of chunk framing by its grammar, and the proof that
   `DecodeHttpChunkedBody` inverts it;
2. a type theorem for the rest of the stream's state (`pagination`, `response`,
   `offset`), of which `OrderInv` now says what the order of rows needs;
3. the parts listed as partly or not modelled in `PROJECT.json`.

Liveness stays with TLC.

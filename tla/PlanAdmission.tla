---------------------------- MODULE PlanAdmission ----------------------------
(***************************************************************************)
(* Runtime admission of a plan (the admission files of runtime/execution): *)
(* the plan is checked again from its own facts, its request is            *)
(* materialised, and its retry and rate-limit authority is narrowed by the *)
(* operator's execution profile.  The result is an admitted profile, or    *)
(* REFUSED.                                                                *)
(*                                                                         *)
(* Fixed headers, paths and their spelling are left out, and so are the    *)
(* fields the planner fills with constants (method, replay class, page     *)
(* dependency, address classes).  Host.targetBytes is what the request     *)
(* target leaves to the query after the fixed path.                        *)
(***************************************************************************)
EXTENDS ScanPlanning

NoConditional == [enabled |-> FALSE, id |-> "", scalar |-> NullScalar("VARCHAR")]

-----------------------------------------------------------------------------
(* The relational envelope.                                                *)

HasMatchingResultColumn(plan, equality) ==
    LET matching == IndexesOf(plan.columns, LAMBDA c : c.name = equality.column) IN
    /\ plan.operation.protocol = "REST"
    /\ Cardinality(matching) = 1
    /\ \A i \in matching : /\ plan.columns[i].shape = "SCALAR"
                           /\ plan.columns[i].type = equality.literal.type

\* The accuracy the plan claims and the occurrence law of its equality.
TryAdmitSelectedEquality(plan) ==
    LET d == plan.decision IN
    /\ d.equality # NoEquality /\ d.equality.input # ""
    /\ HasMatchingResultColumn(plan, d.equality)
    /\ d.remote = "TYPED_EQUALITY"
    /\ d.residual \in {"TYPED_EQUALITY", "COMPLETE_DUCKDB_FILTER"}
    /\ \/ d.accuracy = "EXACT" /\ d.equality.occurrences = "PRESERVES_EXACT"
       \/ d.accuracy = "SUPERSET" /\ d.equality.occurrences = "PRESERVES_ALL"

HasResidualOnlyEquality(plan) ==
    LET d == plan.decision IN
    IF d.equality = NoEquality THEN d.residual # "TYPED_EQUALITY"
    ELSE HasMatchingResultColumn(plan, d.equality) /\ d.residual = "TYPED_EQUALITY"

TryAdmitRestRelationalEnvelope(plan) ==
    LET d == plan.decision IN
    CASE d.conditional = "NONE" ->
           /\ d.remote = "TRUE_FOR_BASE_DOMAIN" /\ d.accuracy = "UNSUPPORTED"
           /\ HasResidualOnlyEquality(plan)
      [] d.conditional = "REST_QUERY_BINDING" -> TryAdmitSelectedEquality(plan)

RestConditionalBindingAuthority(plan) ==
    IF plan.decision.conditional = "NONE" THEN NoConditional
    ELSE [enabled |-> TRUE, id |-> plan.decision.equality.input,
          scalar |-> plan.decision.equality.literal]

-----------------------------------------------------------------------------
(* Materialisation of the request.                                         *)

IsPathPrefix(shorter, longer) ==
    Len(shorter) <= Len(longer) /\ SubSeq(longer, 1, Len(shorter)) = shorter

\* At most the host's columns, and no path that leads into another's value.
TryCopyPermanentColumns(columns) ==
    /\ Len(columns) \in 1..Host.columns
    /\ DistinctBy(columns, LAMBDA c : c.name)
    /\ \A i, j \in DOMAIN columns : i # j => ~IsPathPrefix(columns[i].path, columns[j].path)
    /\ \A i \in DOMAIN columns : columns[i].shape = "SCALAR" => ~columns[i].elementNullable

TryCopyPermanentRecordsPath(operation) ==
    operation.response = "JSON_PATH_MANY" <=> operation.recordsPath # << >>

\* The encoded text is the one this value encodes to, and a conditional
\* binding carries exactly the admitted equality.
HasCanonicalBinding(binding, conditional) ==
    /\ binding.encoded = EncodeCompiledQueryScalar(binding.scalar)
    /\ CASE binding.source \in {"FIXED", "PAGE_SIZE", "PAGE_NUMBER"} -> binding.id = ""
         [] binding.source = "RELATION_INPUT" -> binding.id # ""
         [] binding.source = "CONDITIONAL_INPUT" ->
              /\ conditional.enabled
              /\ binding.id = conditional.id /\ binding.scalar = conditional.scalar

\* Form encoding spells every other byte as a percent sign and two digits.
OneByte == "ABCDEFGHIJKLMNOPQRSTUVWXYZabcdefghijklmnopqrstuvwxyz0123456789-._~ "
FormUrlEncodedSize(text) ==
    Len(text) + 2 * Cardinality({i \in 1..Len(text) : \A j \in 1..Len(OneByte) :
                                    SubSeq(text, i, i) # SubSeq(OneByte, j, j)})

FieldBytes(binding) == 2 + Len(binding.name) + FormUrlEncodedSize(binding.encoded.form)
QueryBytes(query) == FoldSeq(LAMBDA binding, bytes : bytes + FieldBytes(binding), 0, query)

FitsRestRequestTarget(query, additional) == additional + QueryBytes(query) <= Host.targetBytes

TryCopyPermanentQuery(query, conditional) ==
    LET seen == IndexesOf(query, LAMBDA b : b.source = "CONDITIONAL_INPUT") IN
    /\ Len(query) <= Contract.queryFields
    /\ \A i \in DOMAIN query : HasCanonicalBinding(query[i], conditional)
    /\ DistinctBy(query, LAMBDA b : b.name)
    /\ Cardinality(seen) = IF conditional.enabled THEN 1 ELSE 0

\* An API key never takes the name of a field of the request.
TryMaterializeRestRequest(plan) ==
    /\ TryCopyPermanentColumns(plan.columns)
    /\ TryCopyPermanentRecordsPath(plan.operation)
    /\ TryCopyPermanentQuery(plan.query, RestConditionalBindingAuthority(plan))
    /\ FitsRestRequestTarget(plan.query, 0)
    /\ plan.authentication.placement = "QUERY_NAMED" =>
         ~\E i \in DOMAIN plan.query : plan.query[i].name = plan.authentication.placementName

-----------------------------------------------------------------------------
(* Pagination, authority and budgets.                                      *)

LastPage(plan) ==
    plan.operation.pagination.first + (plan.scan.pages - 1) * plan.operation.pagination.increment

\* The longest page number of the sequence also fits.
FitsEveryPageTarget(plan) ==
    LET growth == Len(ToString(LastPage(plan))) - Len(ToString(plan.operation.pagination.first))
    IN  FitsRestRequestTarget(plan.query, Higher(growth, 0))

HasPageBindings(plan) ==
    LET p == plan.operation.pagination
        pages == IndexesOf(plan.query, LAMBDA b : b.source = "PAGE_NUMBER")
    IN  /\ Cardinality(pages) = 1
        /\ \A i \in pages : /\ plan.query[i].name = p.numberParam
                            /\ plan.query[i].scalar = Scalar("BIGINT", ToString(p.first))

CoherentAttempts(plan) ==
    /\ plan.page.attempts > 0 /\ plan.scan.pages <= Contract.maxU64 \div plan.page.attempts
    /\ plan.scan.attempts \in plan.scan.pages..(plan.scan.pages * plan.page.attempts)

\* Decoded memory is the same constant in both budgets.
ScanCoversPage(plan) ==
    /\ plan.scan.bytes >= plan.page.bytes /\ plan.scan.header >= Host.pageHeader
    /\ plan.scan.decompressed >= Host.pageDecompressed
    /\ plan.scan.records >= plan.page.records

HasSupportedRestPagination(plan, profile) ==
    LET p == plan.operation.pagination IN
    /\ plan.operation.cardinality = "ZERO_TO_MANY"
    /\ plan.operation.response \in {"ROOT_ARRAY", "JSON_PATH_MANY"}
    /\ p.strategy \in PageStrategies
    /\ IsWithinPaginatedPageBounds(plan.page) /\ IsWithinPaginatedScanBounds(plan.scan)
    /\ plan.page.body = 0 /\ plan.scan.body = 0
    /\ plan.page.records <= profile.records
    /\ p.strategy = "SHORT_PAGE" => p.sizeParam # ""
    /\ p.first > 0 /\ p.increment > 0 /\ plan.scan.pages > 0
    /\ FitsBigintPageSequence(p.first, p.increment, plan.scan.pages)
    /\ p.sizeParam # "" => p.sizeParam # p.numberParam /\ p.size \in 1..Contract.maxBigint
    /\ HasPageBindings(plan) /\ FitsEveryPageTarget(plan)
    /\ CoherentAttempts(plan) /\ ScanCoversPage(plan)

HasAuthentication(plan) ==
    LET auth == plan.authentication IN
    IF ~auth.required THEN plan.secret = "" /\ auth = Anonymous
    ELSE /\ plan.secret # "" /\ Destination(auth) = plan.origin
         /\ \/ auth.authenticator = "BEARER" /\ auth.placement = "AUTHORIZATION_HEADER"
            \/ /\ auth.authenticator = "API_KEY"
               /\ auth.placement \in {"HEADER_NAMED", "QUERY_NAMED"} /\ auth.placementName # ""

\* The profile may pin one destination.
IsOriginAllowedByExecutionProfile(origin, profile) == profile.origin \in {"", origin}

ExpectedRestDomain(operation) ==
    IF operation.pagination.strategy \in PageStrategies
    THEN IF operation.response = "ROOT_ARRAY" THEN "PAGINATED_ROOT_ARRAY_RECORDS"
         ELSE "PAGINATED_JSON_PATH_RECORDS"
    ELSE CASE operation.response = "ROOT_OBJECT" -> "SUCCESSFUL_ROOT_OBJECT"
           [] operation.response = "ROOT_ARRAY" -> "ROOT_ARRAY_RECORDS"
           [] operation.response = "JSON_PATH_MANY" -> "JSON_PATH_RECORDS"

-----------------------------------------------------------------------------
(* Retry and rate-limit authority.                                         *)

PlannedPages(plan) == plan.scan.pages

\* Mutant: the scan keeps its attempts when the step has lost its own.
RetryShapeOfHost(plan, step) == Host.scanAttempts

\* What a scan of the admitted step can use.
RetryShape(plan, step) ==
    IF plan.paginated /\ PlannedPages(plan) <= Host.scanAttempts \div step
    THEN PlannedPages(plan) * step ELSE step

\* REFUSED, or the plan's retry authority narrowed field by field.
TryAdmitRetryPolicy(plan, profile) ==
    LET planned == plan.retry
        pages == PlannedPages(plan)
        scan == Lower(planned.scan, profile.retryScan)
        delay == Lower(planned.delay, profile.retryDelay)
        wait == Lower(planned.wait, profile.retryWait)
        least == Lower(planned.step, profile.retryStep)
        disabled == least <= 1 \/ delay = 0 \/ wait = 0
        step == IF disabled THEN 1 ELSE least
        narrowed == [step |-> step, scan |-> Lower(scan, RetryShape(plan, step)),
                     delay |-> IF disabled THEN 0 ELSE delay,
                     wait |-> IF disabled THEN 0 ELSE wait]
    IN  IF \/ ~RetryWithinHardBounds(planned)
           \/ profile.retryStep \notin 1..Host.stepAttempts
           \/ profile.retryScan \notin 1..Host.scanAttempts
           \/ profile.retryDelay > Contract.retryDelay \/ profile.retryWait > Contract.retryWait
        THEN REFUSED
        ELSE IF planned.step = 1
        THEN IF scan >= pages THEN [step |-> 1, scan |-> scan, delay |-> 0, wait |-> 0]
             ELSE REFUSED
        ELSE IF narrowed.scan >= pages /\ RetryWithinHardBounds(narrowed) THEN narrowed
        ELSE REFUSED

NoWaiting == [step |-> 1, scan |-> 1, delay |-> 0, wait |-> 0, waiting |-> FALSE]

TryAdmitRateLimitPolicy(plan, profile) ==
    LET planned == plan.rateLimit
        pages == PlannedPages(plan)
        step == Lower(planned.attempts, profile.rateStep)
        delay == Lower(planned.delay, profile.rateDelay)
        wait == Lower(planned.wait, profile.rateWait)
        scan == Lower(profile.rateScan, pages * step)
    IN  IF ~RateLimitWithinHardBounds(planned) THEN REFUSED
        ELSE IF \/ ~WaitingEnabled(planned)
                \/ 0 \in {profile.rateStep, profile.rateScan, profile.rateDelay,
                          profile.rateWait, profile.combinedWait}
                \/ step <= 1 \/ delay = 0 \/ wait = 0
        THEN NoWaiting
        ELSE IF pages > Host.scanAttempts \div step THEN REFUSED
        ELSE [step |-> step, scan |-> scan, delay |-> delay, wait |-> wait,
              waiting |-> scan >= pages]

\* The aggregate of both, never more than the plan's.
TryAdmitResiliencePolicies(plan, profile) ==
    LET planned == plan.resilience
        retry == TryAdmitRetryPolicy(plan, profile)
        rate == TryAdmitRateLimitPolicy(plan, profile)
        scan == Higher(retry.scan, rate.scan)
        cap == IF profile.combinedWait = 0 THEN retry.wait ELSE profile.combinedWait
        wait == Lower(retry.wait + rate.wait, cap)
    IN  IF \/ ~ResilienceWithinHardBounds(planned)
           \/ planned.step # plan.page.attempts \/ planned.scan # plan.scan.attempts
        THEN REFUSED
        ELSE IF REFUSED \in {retry, rate} THEN REFUSED
        ELSE IF \/ scan > planned.scan \/ cap < retry.wait
                \/ scan < PlannedPages(plan) \/ wait > planned.wait
        THEN REFUSED
        ELSE [retry |-> retry, rateLimit |-> rate,
              step |-> Higher(retry.step, rate.step), scan |-> scan, wait |-> wait]

-----------------------------------------------------------------------------
(* Admission of the three kinds of plan.                                   *)

HasCommonRestPlan(plan, profile) ==
    /\ plan.operation.protocol = "REST"
    /\ IsOriginAllowedByExecutionProfile(plan.origin, profile)
    /\ plan.domain = ExpectedRestDomain(plan.operation)
    /\ TryAdmitRestRelationalEnvelope(plan)
    /\ TryMaterializeRestRequest(plan)
    /\ HasAuthentication(plan)
    /\ TryAdmitResiliencePolicies(plan, profile) # REFUSED

HasSingleResponseShape(plan, profile) ==
    /\ HasCommonRestPlan(plan, profile)
    /\ ~plan.paginated
    /\ IsWithinLiveRestBounds(plan.page) /\ plan.page.records <= profile.records
    /\ IF plan.operation.cardinality = "EXACTLY_ONE"
       THEN plan.operation.response = "ROOT_OBJECT" /\ plan.page.records = 1
       ELSE plan.operation.response \in {"ROOT_ARRAY", "JSON_PATH_MANY"}

HasPaginatedShape(plan, profile) ==
    HasCommonRestPlan(plan, profile) /\ HasSupportedRestPagination(plan, profile)

\* The reachable body aggregate is computed again from the plan's attempts.
HasGraphqlBudgets(plan, profile) ==
    LET g == plan.operation.graphql
        pageBody == Lower(g.bodyBytes, Host.pageBody)
        attempts == g.pages * plan.resilience.step
        scanBody == Lower(Lower(g.scanBodyBytes, Host.scanBody), pageBody * attempts)
    IN  /\ g.pages <= Contract.maxU64 \div plan.resilience.step
        /\ pageBody <= Contract.maxU64 \div attempts
        /\ IsWithinPaginatedPageBounds(plan.page) /\ IsWithinPaginatedScanBounds(plan.scan)
        /\ plan.page.records <= profile.records
        /\ plan.page.body > 0 /\ plan.page.body = pageBody /\ plan.scan.body = scanBody
        /\ plan.scan.pages = g.pages
        /\ CoherentAttempts(plan) /\ ScanCoversPage(plan)

HasGraphqlColumns(plan) ==
    /\ Len(plan.columns) \in 1..Host.columns
    /\ DistinctBy(plan.columns, LAMBDA c : c.name)
    /\ DistinctBy(plan.columns, LAMBDA c : c.path)
    /\ \A i \in DOMAIN plan.columns : Len(plan.columns[i].path) \in 1..2

HasGraphqlEnvelope(plan) ==
    /\ plan.decision.remote = "TRUE_FOR_BASE_DOMAIN" /\ plan.decision.accuracy = "UNSUPPORTED"
    /\ plan.decision.conditional = "NONE"

\* GraphQL requests carry a bearer token or nothing.
HasGraphqlAuthority(plan, profile) ==
    /\ HasAuthentication(plan) /\ plan.authentication.authenticator \in {"BEARER", "NONE"}
    /\ IsOriginAllowedByExecutionProfile(plan.origin, profile)
    /\ TryAdmitResiliencePolicies(plan, profile) # REFUSED

IsGraphqlAdmissible(plan, profile) ==
    /\ plan.operation.protocol = "GRAPHQL"
    /\ plan.domain = "GRAPHQL_RELAY_CONNECTION_NODE_OCCURRENCES"
    /\ plan.operation.graphql.pages \in 1..Host.pages
    /\ HasGraphqlColumns(plan) /\ HasGraphqlBudgets(plan, profile)
    /\ HasGraphqlEnvelope(plan) /\ HasGraphqlAuthority(plan, profile)

\* The admitted profile: the plan's request with the admitted attempts in
\* place of the planned ones.
AdmittedProfile(plan, resilience) ==
    [query |-> plan.query, resilience |-> resilience,
     page |-> [plan.page EXCEPT !.attempts = resilience.step],
     scan |-> [plan.scan EXCEPT !.attempts = resilience.scan]]

\* Each stream kind's admission is tried on the plan it is for.
TryAdmitPlan(plan, profile) ==
    IF \/ HasSingleResponseShape(plan, profile)
       \/ plan.paginated /\ HasPaginatedShape(plan, profile)
       \/ IsGraphqlAdmissible(plan, profile)
    THEN AdmittedProfile(plan, TryAdmitResiliencePolicies(plan, profile)) ELSE REFUSED

\* The request of one page: any page of the sequence, none outside it.
BuildAdmittedPageRequest(plan, page) ==
    LET p == plan.operation.pagination IN
    IF page \in p.first..LastPage(plan) /\ (page - p.first) % p.increment = 0
    THEN [query |-> [i \in DOMAIN plan.query |->
            IF plan.query[i].name = p.numberParam
            THEN [plan.query[i] EXCEPT !.scalar = Scalar("BIGINT", ToString(page)),
                                       !.encoded = [form |-> ToString(page)]]
            ELSE plan.query[i]]]
    ELSE REFUSED
=============================================================================

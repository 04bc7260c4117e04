---------------------------- MODULE ScanPlanning ----------------------------
(***************************************************************************)
(* The scan planner (semantics/*.cpp): from a compiled connector and a     *)
(* scan request to an immutable plan, or to a failure code.                *)
(*                                                                         *)
(* A request is [inputs, predicate, scope, selective, retains, secret,     *)
(* secretManager]: inputs is the sequence of explicit [id, scalar] values. *)
(* Scalars keep their encoded text.  Budgets that are constants of the     *)
(* host (nesting, memory, batch rows, time, concurrency) and the text of   *)
(* explanations are left out, as is the legacy native bridge (selector     *)
(* priorities, the fixed visibility predicate).                            *)
(***************************************************************************)
EXTENDS ConnectorDeclarations

CONSTANT Host
  \* The ceilings of scan_plan.hpp, scaled in the model instances:
  \* [pages, liveBytes, liveRecords, liveString, pageBytes, scanBytes,
  \*  pageRecords, scanRecords, pageString, pageHeader, scanHeader,
  \*  pageDecompressed, scanDecompressed, pageBody, scanBody,
  \*  stepAttempts, scanAttempts, waiting, targetBytes, columns]

ASSUME HostAssumption ==
    /\ \A f \in {"pages", "liveBytes", "liveRecords", "liveString", "pageBytes", "scanBytes",
                 "pageRecords", "scanRecords", "pageString", "pageHeader", "scanHeader",
                 "pageDecompressed", "scanDecompressed", "pageBody", "scanBody",
                 "stepAttempts", "scanAttempts", "waiting", "targetBytes", "columns"} :
         Host[f] \in Nat \ {0}
    /\ Host.scanAttempts >= Host.pages * Host.stepAttempts

Failed(code) == [failed |-> code]
INVALID == Failed("INVALID_CONTRACT")
IsPlan(result) == "failed" \notin DOMAIN result
Lower(a, b) == IF a <= b THEN a ELSE b
Higher(a, b) == IF a >= b THEN a ELSE b

\* REFUSED where the code throws on overflow.
BoundedProduct(left, right, ceiling) ==
    IF left = 0 \/ right = 0 \/ left > Contract.maxU64 \div right THEN REFUSED
    ELSE [product |-> Lower(left * right, ceiling)]
BoundedSum(left, right, ceiling) ==
    IF left > Contract.maxU64 - right THEN REFUSED ELSE [sum |-> Lower(left + right, ceiling)]

-----------------------------------------------------------------------------
(* Relation inputs: explicit value over default over unbound.              *)

Unbound == [state |-> "UNBOUND", value |-> NullScalar("VARCHAR")]
BoundInput(scalar) == [state |-> IF scalar.null THEN "BOUND_NULL" ELSE "BOUND_VALUE",
                       value |-> scalar]

ResolvedInput(input, explicit) ==
    LET given == FirstWith(explicit, LAMBDA e : e.id = input.name) IN
    IF given # REFUSED THEN BoundInput(given.scalar)
    ELSE IF input.default # NoDefault THEN BoundInput(input.default) ELSE Unbound

ResolveRelationInputs(relation, explicit) ==
    LET Declared(id) == FirstWith(relation.inputs, LAMBDA n : n.name = id)
        Accepts(e) ==
            LET input == Declared(e.id) IN
            /\ input # REFUSED
            /\ e.scalar.type = input.type
            /\ e.scalar.null => input.nullable
    IN  IF /\ DistinctBy(explicit, LAMBDA e : e.id)
           /\ \A i \in DOMAIN explicit : Accepts(explicit[i])
        THEN [id \in {relation.inputs[i].name : i \in DOMAIN relation.inputs} |->
                ResolvedInput(Declared(id), explicit)]
        ELSE REFUSED

-----------------------------------------------------------------------------
(* The predicate classifier.                                               *)

MappingMatches(relation, operation, mapping, candidate) ==
    /\ candidate.kind = "COMPARISON"
    /\ mapping.operation = operation.name
    /\ LET column == relation.columns[candidate.column] IN
       /\ column.shape = "SCALAR"
       /\ column.name = mapping.column
       /\ column.type = candidate.literal.type
    /\ mapping.literal = candidate.literal

ValidateCandidateBindings(relation, candidate) ==
    \A node \in PredicateNodes(candidate) : node.kind = "COMPARISON" =>
      /\ node.column \in DOMAIN relation.columns
      /\ relation.columns[node.column].shape = "SCALAR"
      /\ relation.columns[node.column].type = node.literal.type

ValidateCandidateContract(relation, request) ==
    /\ request.predicate.depth \in 1..MaxPredicateDepth
    /\ request.predicate.nodes \in 1..MaxPredicateNodes
    /\ ValidateCandidateBindings(relation, request.predicate)

\* Mutant: the walk descends into every boolean node.
DescendsEverywhere(candidate) == candidate.children # << >>

\* CollectConjunctiveMatches looks at the children of conjunctions only.
Descends(candidate) == candidate.kind = "CONJUNCTION"

\* One level down, in order.
NextConjuncts(before) ==
    FlattenSeq([i \in DOMAIN before |->
                  IF Descends(before[i]) THEN before[i].children ELSE <<before[i]>>])

\* The positive conjuncts the walk comes to, level by level.
ConjunctsAfter(candidate) ==
    LET walk[k \in Nat] == IF k = 0 THEN <<candidate>> ELSE NextConjuncts(walk[k - 1]) IN walk
Conjuncts(candidate) == ConjunctsAfter(candidate)[candidate.depth]

\* The mappings that match one conjunct, in order.
MappedComparisons(relation, operation, candidate) ==
    FlattenSeq([k \in DOMAIN relation.mappings |->
                  IF MappingMatches(relation, operation, relation.mappings[k], candidate)
                  THEN <<[mapping |-> relation.mappings[k], candidate |-> candidate]>>
                  ELSE << >>])

\* The (mapping, candidate) pairs of the positive conjuncts, in order.
ConjunctiveMatches(relation, operation, candidate) ==
    LET conjuncts == Conjuncts(candidate) IN
    FlattenSeq([i \in DOMAIN conjuncts |->
                  MappedComparisons(relation, operation, conjuncts[i])])

\* Whether a conjunct has no mapping, or is not a comparison at all.
ContainsUnmappedStructure(relation, operation, candidate) ==
    \E conjunct \in ToSet(Conjuncts(candidate)) :
      /\ conjunct.kind # "UNRESTRICTED"
      /\ conjunct.kind = "COMPARISON" => MappedComparisons(relation, operation, conjunct) = << >>

\* Same comparison, same mapping facts; the name of the mapping may differ.
SameMappingAndBinding(left, right) ==
    /\ left.candidate = right.candidate
    /\ \A f \in DOMAIN left.mapping \ {"name"} : left.mapping[f] = right.mapping[f]

\* Mutant: a mapping matched twice is ambiguous.
AllMatchesEquivalentSingle(matches) == Len(matches) = 1

AllMatchesEquivalent(matches) ==
    \A i \in DOMAIN matches : SameMappingAndBinding(matches[1], matches[i])

PushdownCapable(request) == request.selective /\ request.retains

\* The conditional inputs that matched conjuncts bind, and whether two disagree.
BindingsOf(matches) ==
    LET mappings == {matches[i].mapping : i \in DOMAIN matches}
        conflicting == \E m, n \in mappings : m.input = n.input /\ m.encoded # n.encoded
    IN  [inputs |-> IF conflicting THEN {} ELSE {m.input : m \in mappings},
         conflicting |-> conflicting]

ResolveCandidateInputBindings(relation, operation, request) ==
    BindingsOf(
        IF PushdownCapable(request) /\ request.predicate.kind \in {"COMPARISON", "CONJUNCTION"}
        THEN ConjunctiveMatches(relation, operation, request.predicate) ELSE << >>)

NoEquality == [column |-> "", literal |-> NullScalar("VARCHAR"), input |-> "", occurrences |-> "NONE"]
PlanTypedEquality(mapping) ==
    [column |-> mapping.column, literal |-> mapping.literal, input |-> mapping.input,
     occurrences |-> mapping.occurrences]

\* What DuckDB keeps evaluating: a lone mapped comparison is named, anything
\* else is the complete filter.
ResidualMatches(relation, operation, request) ==
    IF request.scope = "REQUESTED_PREDICATE" /\ request.predicate.kind = "COMPARISON"
    THEN ConjunctiveMatches(relation, operation, request.predicate) ELSE << >>
ResidualPredicate(relation, operation, request) ==
    CASE request.scope = "UNRESTRICTED" -> "TRUE_FOR_BASE_DOMAIN"
      [] request.scope # "UNRESTRICTED" ->
           IF ResidualMatches(relation, operation, request) # << >> THEN "TYPED_EQUALITY"
           ELSE "COMPLETE_DUCKDB_FILTER"
ResidualTypedEquality(relation, operation, request) ==
    LET matches == ResidualMatches(relation, operation, request) IN
    IF matches = << >> THEN NoEquality ELSE PlanTypedEquality(matches[1].mapping)

FallbackDecision(relation, operation, request, category, reason) ==
    [remote |-> "TRUE_FOR_BASE_DOMAIN", accuracy |-> "UNSUPPORTED",
     residual |-> ResidualPredicate(relation, operation, request), conditional |-> "NONE",
     equality |-> ResidualTypedEquality(relation, operation, request),
     category |-> category, reason |-> reason]

Classify(relation, operation, request) ==
    LET candidate == request.predicate
        matches == ConjunctiveMatches(relation, operation, candidate)
        unmapped == ContainsUnmappedStructure(relation, operation, candidate)
        Fallback(category, reason) ==
            FallbackDecision(relation, operation, request, category, reason)
        exact == /\ matches[1].mapping.accuracy = "EXACT"
                 /\ ~unmapped
                 /\ \/ candidate.kind = "COMPARISON"
                    \/ Len(candidate.children) = Len(matches) /\ AllMatchesEquivalent(matches)
        accuracy == IF exact THEN "EXACT" ELSE "SUPERSET"
    IN  IF candidate.kind = "UNRESTRICTED" THEN Fallback("UNSUPPORTED", "NO_REMOTE_CANDIDATE")
        ELSE IF ~PushdownCapable(request) THEN Fallback("UNSUPPORTED", "CAPABILITY_UNAVAILABLE")
        ELSE IF candidate.kind = "DISJUNCTION"
             THEN Fallback("UNSUPPORTED", "DISJUNCTION_ENCODING_UNAVAILABLE")
        ELSE IF candidate.kind = "NEGATION"
             THEN Fallback("UNSUPPORTED", "COMPLEMENT_ENCODING_UNAVAILABLE")
        ELSE IF candidate.kind = "UNSUPPORTED"
             THEN Fallback("UNSUPPORTED", "STRUCTURE_UNSUPPORTED")
        ELSE IF matches = << >>
             THEN Fallback("UNSUPPORTED", IF unmapped THEN "MAPPING_UNAVAILABLE"
                                          ELSE "STRUCTURE_UNSUPPORTED")
        ELSE IF Len(matches) > 1 /\ ~AllMatchesEquivalent(matches)
             THEN Fallback("AMBIGUOUS", "AMBIGUOUS_CONDITIONAL_INPUT")
        ELSE [remote |-> "TYPED_EQUALITY", accuracy |-> accuracy,
              residual |-> ResidualPredicate(relation, operation, request),
              conditional |-> "REST_QUERY_BINDING",
              equality |-> PlanTypedEquality(matches[1].mapping),
              category |-> accuracy, reason |-> "SELECTED_MAPPING"]

-----------------------------------------------------------------------------
(* Operation selection.                                                    *)

RequiredInputIsSatisfied(reference, inputs, bindings) ==
    IF reference[1] = "RELATION_INPUT"
    THEN reference[2] \in DOMAIN inputs /\ inputs[reference[2]].state = "BOUND_VALUE"
    ELSE ~bindings.conflicting /\ reference[2] \in bindings.inputs

\* EvaluateV1; the fallback goes through it too, with no references.
EligibleWith(operation, inputs, bindings) ==
    /\ ~bindings.conflicting
    /\ \A reference \in operation.references :
         RequiredInputIsSatisfied(reference, inputs, bindings)

Eligible(relation, operation, request, inputs) ==
    EligibleWith(operation, inputs, ResolveCandidateInputBindings(relation, operation, request))

SelectOperation(relation, request, inputs) ==
    LET operations == {relation.operations[i] : i \in DOMAIN relation.operations}
        eligible == {o \in operations : ~o.fallback /\ Eligible(relation, o, request, inputs)}
        Rank(o) == Cardinality(o.references)
        best == {o \in eligible : \A p \in eligible : Rank(p) <= Rank(o)}
        fallback == {o \in operations : o.fallback /\ Eligible(relation, o, request, inputs)}
        chosen == IF eligible # {} THEN best ELSE fallback
    IN  IF Cardinality(chosen) = 1 THEN CHOOSE o \in chosen : TRUE
        ELSE Failed("OPERATION_SELECTION_FAILED")

-----------------------------------------------------------------------------
(* Validation of the relation, every operation and the request.            *)

ValidateSchema(relation) ==
    /\ relation.columns # << >>
    /\ \A i \in DOMAIN relation.columns : ValidateColumn(relation.columns[i])
    /\ DistinctBy(relation.columns, LAMBDA c : c.name)

FitsPageSequence(page, scan, pages) ==
    /\ page > 0 /\ scan >= page /\ pages > 0
    /\ page <= Contract.maxU64 \div pages
    /\ scan <= page * pages

ValidateRetryContract(operation) == ValidateRetryRecommendation(operation.retry)
ValidateRateLimitContract(operation) == RateLimitFacts(operation.rateLimit)

ValidateSourceShape(operation, ceilings) ==
    CASE operation.response = "JSON_PATH_MANY" ->
           operation.cardinality = "ZERO_TO_MANY" /\ operation.recordsPath # << >>
      [] operation.response = "ROOT_ARRAY" ->
           operation.cardinality = "ZERO_TO_MANY" /\ operation.recordsPath = << >>
      [] operation.response = "ROOT_OBJECT" ->
           /\ operation.cardinality = "EXACTLY_ONE" /\ operation.recordsPath = << >>
           /\ ceilings.pageRecords = 1 /\ ceilings.scanRecords = 1

\* The planner's page checks: the declared transition and its two structural
\* query fields, at most the host's pages, and a scan within its page sequence.
ValidatePlannedPagination(operation, ceilings, network) ==
    LET p == operation.pagination
        Fields(source) == IndexesOf(operation.query, LAMBDA q : q.source = source)
        Binds(source, name, number) ==
            /\ Cardinality(Fields(source)) = 1
            /\ \A i \in Fields(source) :
                 /\ operation.query[i].name = name
                 /\ operation.query[i].scalar = Scalar("BIGINT", ToString(number))
    IN  IF p.strategy = "DISABLED"
        THEN /\ ceilings.pageRecords = ceilings.scanRecords
             /\ ceilings.pageBytes = ceilings.scanBytes
        ELSE /\ CompiledPagination(p)
             /\ operation.cardinality = "ZERO_TO_MANY"
             /\ operation.response \in {"JSON_PATH_MANY", "ROOT_ARRAY"}
             /\ p.pages <= Host.pages
             /\ p.size <= Contract.maxBigint
             /\ IF p.sizeParam # "" THEN Binds("PAGE_SIZE", p.sizeParam, p.size)
                ELSE Fields("PAGE_SIZE") = {}
             /\ Binds("PAGE_NUMBER", p.numberParam, p.first)
             /\ ceilings.pageBytes <= network.maxResponseBytes
             /\ p.size <= ceilings.pageRecords /\ ceilings.stringBytes > 0
             /\ FitsPageSequence(ceilings.pageBytes, ceilings.scanBytes, p.pages)
             /\ FitsPageSequence(ceilings.pageRecords, ceilings.scanRecords, p.pages)

ValidateExecutableOrigin(operation, network) == ContainsOrigin(network.origins, operation.origin)

\* The generated document, its digest, recipe, variables and paths agree by
\* construction of the compiled operation; the page count has no bound here.
ValidatePackageGraphqlOperationProfile(relation, operation, network) ==
    LET g == operation.graphql
        ceilings == relation.ceilings
    IN  /\ operation.cardinality = "ZERO_TO_MANY"
        /\ ~\E i \in DOMAIN relation.mappings : relation.mappings[i].operation = operation.name
        /\ ContainsOrigin(network.origins, operation.origin)
        /\ g.size > 0 /\ g.pages > 0 /\ g.bodyBytes > 0
        /\ ValidateGraphqlBodyBudget(operation)
        /\ ceilings.pageBytes <= network.maxResponseBytes
        /\ FitsPageSequence(ceilings.pageBytes, ceilings.scanBytes, g.pages)
        /\ ceilings.pageRecords >= g.size
        /\ FitsPageSequence(ceilings.pageRecords, ceilings.scanRecords, g.pages)
        /\ ceilings.stringBytes > 0

ValidatePlannedOperation(relation, operation, network) ==
    /\ relation.ceilings.pageRecords > 0 /\ relation.ceilings.scanRecords > 0
    /\ relation.ceilings.stringBytes > 0
    /\ ValidateRetryContract(operation) /\ ValidateRateLimitContract(operation)
    /\ IF operation.protocol = "GRAPHQL"
       THEN ValidatePackageGraphqlOperationProfile(relation, operation, network)
       ELSE /\ ValidateSourceShape(operation, relation.ceilings)
            /\ ValidateExecutableOrigin(operation, network)
            /\ ValidatePlannedPagination(operation, relation.ceilings, network)

\* A complete-filter scope must show where the unseen structure is.
ValidateRequest(request) ==
    LET kind == request.predicate.kind IN
    /\ kind = "UNRESTRICTED" => request.scope # "REQUESTED_PREDICATE"
    /\ kind # "UNRESTRICTED" => request.scope # "UNRESTRICTED"
    /\ kind # "UNRESTRICTED" /\ request.scope = "COMPLETE_DUCKDB_FILTER" =>
         ContainsOpaqueUnsupportedPosition(request.predicate)

\* The selected operation's origin is the credential's first destination.
ValidateAuthentication(relation, operation, request) ==
    LET auth == relation.authentication IN
    IF ~auth.required THEN auth = Anonymous /\ request.secret = ""
    ELSE /\ ValidAuthenticationPolicy(auth)
         /\ Destination(auth) = operation.origin
         /\ request.secret # ""
         /\ request.secretManager

\* The selected operation, or a failure.  Selection is last but for the
\* credential: what is refused before is refused whatever it selects.
ValidateSelected(connector, request, inputs, selected) ==
    LET relation == connector.relation
    IN  IF ~(ValidateSchema(relation) /\ ValidateRequest(request)) THEN INVALID
        ELSE IF \E i \in DOMAIN relation.operations :
                   ~ValidatePlannedOperation(relation, relation.operations[i], connector.network)
             THEN INVALID
        ELSE IF inputs = REFUSED THEN INVALID
        ELSE IF ~ValidateCandidateContract(relation, request) THEN INVALID
        ELSE IF ~IsPlan(selected) THEN selected
        ELSE IF ~ValidateAuthentication(relation, selected, request) THEN INVALID
        ELSE selected

ValidateAndSelectOperation(connector, request) ==
    LET inputs == ResolveRelationInputs(connector.relation, request.inputs)
    IN  ValidateSelected(connector, request, inputs,
                         SelectOperation(connector.relation, request, inputs))

-----------------------------------------------------------------------------
(* The plan.                                                               *)

PlanBaseDomain(operation) ==
    IF operation.protocol = "GRAPHQL" THEN "GRAPHQL_RELAY_CONNECTION_NODE_OCCURRENCES"
    ELSE IF operation.pagination.strategy # "DISABLED"
    THEN IF operation.response = "ROOT_ARRAY" THEN "PAGINATED_ROOT_ARRAY_RECORDS"
         ELSE "PAGINATED_JSON_PATH_RECORDS"
    ELSE CASE operation.response = "JSON_PATH_MANY" -> "JSON_PATH_RECORDS"
           [] operation.response = "ROOT_ARRAY" -> "ROOT_ARRAY_RECORDS"
           [] operation.response = "ROOT_OBJECT" -> "SUCCESSFUL_ROOT_OBJECT"

\* An unbound or NULL input and an unselected conditional input are omitted.
QueryBinding(field, inputs, decision) ==
    LET scalar == CASE field.source = "RELATION_INPUT" -> inputs[field.id].value
                    [] field.source = "CONDITIONAL_INPUT" -> decision.equality.literal
                    [] OTHER -> field.scalar
    IN  [name |-> field.name, source |-> field.source, id |-> field.id, scalar |-> scalar,
         encoded |-> EncodeCompiledQueryScalar(scalar)]

Emitted(field, inputs, decision) ==
    CASE field.source = "RELATION_INPUT" -> inputs[field.id].state = "BOUND_VALUE"
      [] field.source = "CONDITIONAL_INPUT" -> decision.conditional = "REST_QUERY_BINDING"
      [] OTHER -> TRUE

BuildRestOperation(operation, inputs, decision) ==
    LET fields == operation.query IN
    IF \E i \in DOMAIN fields : /\ fields[i].source = "CONDITIONAL_INPUT"
                                /\ Emitted(fields[i], inputs, decision)
                                /\ fields[i].id # decision.equality.input
    THEN REFUSED
    ELSE [query |-> FlattenSeq([i \in DOMAIN fields |->
                      IF Emitted(fields[i], inputs, decision)
                      THEN <<QueryBinding(fields[i], inputs, decision)>> ELSE << >>])]

RetryPlanOf(operation, scanAttempts) ==
    LET attempts == IF RetryEnabled(operation.retry) THEN operation.retry.attempts ELSE 1 IN
    [step |-> attempts, scan |-> scanAttempts, delay |-> operation.retry.delay,
     wait |-> operation.retry.wait]

\* The host's budgets and the declared ceilings, field by field the lower.
LiveBudgets(operation, ceilings, network) ==
    [attempts |-> AttemptsPerStep(operation),
     bytes |-> Lower(Lower(ceilings.pageBytes, network.maxResponseBytes), Host.liveBytes),
     records |-> Lower(ceilings.pageRecords, Host.liveRecords),
     string |-> Lower(ceilings.stringBytes, Host.liveString), body |-> 0]

PageBudgets(operation, ceilings, network) ==
    [attempts |-> AttemptsPerStep(operation),
     bytes |-> Lower(Lower(ceilings.pageBytes, network.maxResponseBytes), Host.pageBytes),
     records |-> Lower(ceilings.pageRecords, Host.pageRecords),
     string |-> Lower(ceilings.stringBytes, Host.pageString),
     body |-> Lower(operation.graphql.bodyBytes, Host.pageBody)]

\* pages counts every continuation; REFUSED if a product overflows.
ScanBudgets(operation, ceilings, network) ==
    LET pages == PagesOf(operation)
        page == PageBudgets(operation, ceilings, network)
        attempts == BoundedProduct(pages, AttemptsPerStep(operation), Host.scanAttempts)
        header == BoundedProduct(Host.pageHeader, pages, Host.scanHeader)
        decompressed == BoundedProduct(Host.pageDecompressed, pages, Host.scanDecompressed)
        body == IF operation.protocol = "REST" THEN [product |-> 0]
                ELSE IF attempts = REFUSED THEN REFUSED
                ELSE BoundedProduct(page.body, attempts.product, Host.scanBody)
    IN  IF REFUSED \in {attempts, header, decompressed, body} THEN REFUSED
        ELSE [attempts |-> attempts.product, pages |-> pages,
              bytes |-> Lower(ceilings.scanBytes, Host.scanBytes),
              header |-> header.product, decompressed |-> decompressed.product,
              records |-> Lower(ceilings.scanRecords, Host.scanRecords),
              string |-> Lower(ceilings.stringBytes, Host.pageString),
              body |-> Lower(operation.graphql.scanBodyBytes, body.product)]

IsWithinLiveRestBounds(b) ==
    /\ b.attempts \in 1..Host.stepAttempts /\ b.bytes \in 1..Host.liveBytes
    /\ b.records \in 1..Host.liveRecords /\ b.string \in 1..Host.liveString /\ b.body = 0
IsWithinPaginatedPageBounds(b) ==
    /\ b.attempts \in 1..Host.stepAttempts /\ b.bytes \in 1..Host.pageBytes
    /\ b.records \in 1..Host.pageRecords /\ b.string \in 1..Host.pageString
    /\ b.body <= Host.pageBody
IsWithinPaginatedScanBounds(b) ==
    /\ b.pages \in 1..Host.pages
    /\ b.attempts \in b.pages..Host.scanAttempts /\ b.attempts <= b.pages * Host.stepAttempts
    /\ b.bytes \in 1..Host.scanBytes /\ b.header \in 1..Host.scanHeader
    /\ b.decompressed \in 1..Host.scanDecompressed /\ b.records \in 1..Host.scanRecords
    /\ b.string \in 1..Host.pageString /\ b.body <= Host.scanBody

RetryWithinHardBounds(retry) ==
    IF retry.step = 1 THEN retry.scan > 0 /\ retry.delay = 0 /\ retry.wait = 0
    ELSE /\ retry.step \in 2..Host.stepAttempts /\ retry.scan \in 1..Host.scanAttempts
         /\ retry.delay \in 1..Contract.retryDelay /\ retry.wait \in 1..Contract.retryWait
RateLimitWithinHardBounds(policy) == RateLimitFacts(policy)
ResilienceWithinHardBounds(resilience) ==
    /\ resilience.step \in 1..Host.stepAttempts
    /\ resilience.scan \in resilience.step..Host.scanAttempts
    /\ resilience.wait <= Host.waiting

\* The typed equality, the predicates that own it and the emitted conditional
\* bindings agree, or the plan is refused.
ValidatePredicateMaterialization(plan) ==
    LET equality == plan.decision.equality
        remoteTyped == plan.decision.remote = "TYPED_EQUALITY"
        residualTyped == plan.decision.residual = "TYPED_EQUALITY"
        conditional == plan.decision.conditional = "REST_QUERY_BINDING"
        emitted == IndexesOf(plan.query, LAMBDA q : q.source = "CONDITIONAL_INPUT")
        columns == IndexesOf(plan.columns, LAMBDA c : c.name = equality.column)
    IN  IF equality = NoEquality THEN ~remoteTyped /\ ~residualTyped /\ ~conditional
        ELSE /\ remoteTyped \/ residualTyped
             /\ plan.operation.protocol = "REST"
             /\ Cardinality(columns) = 1
             /\ \A i \in columns : plan.columns[i].type = equality.literal.type
             /\ IF remoteTyped
                THEN /\ conditional
                     /\ plan.decision.residual \in {"TYPED_EQUALITY", "COMPLETE_DUCKDB_FILTER"}
                     /\ plan.decision.accuracy \in {"EXACT", "SUPERSET"}
                     /\ plan.decision.accuracy = plan.decision.category
                     /\ plan.decision.accuracy = "EXACT" => equality.occurrences = "PRESERVES_EXACT"
                     /\ Cardinality(emitted) = 1
                     /\ \A i \in emitted : /\ plan.query[i].id = equality.input
                                           /\ plan.query[i].scalar = equality.literal
                ELSE /\ ~conditional /\ residualTyped
                     /\ plan.decision.remote = "TRUE_FOR_BASE_DOMAIN"
                     /\ plan.decision.accuracy = "UNSUPPORTED"
                     /\ plan.decision.category \in {"UNSUPPORTED", "AMBIGUOUS"}
                     /\ emitted = {}

\* The plan of a selected operation and the decision on its predicate.
PlanSelected(connector, request, operation, decision) ==
    LET relation == connector.relation
        inputs == ResolveRelationInputs(relation, request.inputs)
        rest == IF operation.protocol = "REST" THEN BuildRestOperation(operation, inputs, decision)
                ELSE [query |-> << >>]
        paginated == Paginated(operation)
        step == AttemptsPerStep(operation)
        retryStep == IF RetryEnabled(operation.retry) THEN operation.retry.attempts ELSE 1
        wait == BoundedSum(operation.retry.wait, operation.rateLimit.wait, Host.waiting)
        page == IF paginated THEN PageBudgets(operation, relation.ceilings, connector.network)
                ELSE LiveBudgets(operation, relation.ceilings, connector.network)
        scan == IF paginated THEN ScanBudgets(operation, relation.ceilings, connector.network)
                ELSE [attempts |-> step, pages |-> 1]
        retryScan == IF paginated
                     THEN BoundedProduct(PagesOf(operation), retryStep, Host.scanAttempts)
                     ELSE [product |-> retryStep]
        plan == [operation |-> operation, columns |-> relation.columns, query |-> rest.query,
                 domain |-> PlanBaseDomain(operation), decision |-> decision,
                 retry |-> RetryPlanOf(operation, retryScan.product),
                 rateLimit |-> operation.rateLimit,
                 resilience |-> [step |-> step, scan |-> scan.attempts, wait |-> wait.sum],
                 secret |-> request.secret, authentication |-> relation.authentication,
                 origin |-> operation.origin, paginated |-> paginated,
                 page |-> page, scan |-> scan]
    IN  IF REFUSED \in {rest, wait, scan, retryScan} THEN INVALID
        ELSE IF ~paginated /\ ~IsWithinLiveRestBounds(page) THEN INVALID
        ELSE IF /\ paginated
                /\ \/ ~IsWithinPaginatedPageBounds(page) \/ ~IsWithinPaginatedScanBounds(scan)
                   \/ scan.records < page.records
                   \/ /\ operation.protocol = "REST"
                      /\ \/ scan.bytes < page.bytes
                         \/ scan.header < Host.pageHeader
                         \/ scan.decompressed < Host.pageDecompressed
                   \/ operation.protocol = "GRAPHQL" /\ scan.body < page.body
             THEN INVALID
        ELSE IF /\ RetryWithinHardBounds(plan.retry)
                /\ RateLimitWithinHardBounds(plan.rateLimit)
                /\ ResilienceWithinHardBounds(plan.resilience)
                /\ ValidatePredicateMaterialization(plan)
             THEN plan ELSE INVALID

PlanOperation(connector, request, operation) ==
    IF ~IsPlan(operation) THEN operation
    ELSE PlanSelected(connector, request, operation,
                      Classify(connector.relation, operation, request))

\* ScanPlanBuilder::Build.  A logic error becomes an invalid contract.
BuildScanPlan(connector, request) ==
    PlanOperation(connector, request, ValidateAndSelectOperation(connector, request))
=============================================================================

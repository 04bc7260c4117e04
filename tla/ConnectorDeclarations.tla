------------------------ MODULE ConnectorDeclarations ------------------------
(***************************************************************************)
(* The compiled connector model: the records a package compiles to and     *)
(* the validation their constructors run (connector/*.cpp).  A constructor *)
(* that throws makes the corresponding Valid... operator FALSE.            *)
(*                                                                         *)
(* Identifier, header and extractor spelling, and the text of snapshots,   *)
(* are left out: names are model strings, a path is a sequence of names,   *)
(* an origin is a model string.  Numbers keep their comparisons; the       *)
(* numeric contract is the record Contract, scaled in the model instances. *)
(***************************************************************************)
EXTENDS RelationalPredicate

CONSTANT Contract
  \* [maxBigint, maxU64      : the widths of int64_t and uint64_t,
  \*  queryFields            : 64, statuses : 8, guidance : 4,
  \*  retryAttempts          : 3, retryDelay : 100, retryWait : 250,
  \*  rateDelay, rateWait    : 30000]

ASSUME ContractAssumption ==
    /\ DOMAIN Contract = {"maxBigint", "maxU64", "queryFields", "statuses", "guidance",
                          "retryAttempts", "retryDelay", "retryWait", "rateDelay", "rateWait"}
    /\ \A f \in DOMAIN Contract : Contract[f] \in Nat \ {0}
    /\ Contract.maxBigint < Contract.maxU64

IndexesOf(seq, Test(_)) == {i \in DOMAIN seq : Test(seq[i])}
DistinctBy(seq, Key(_)) == \A i, j \in DOMAIN seq : Key(seq[i]) = Key(seq[j]) => i = j
FirstWith(seq, Test(_)) ==
    LET found == IndexesOf(seq, Test)
    IN  IF found = {} THEN REFUSED ELSE seq[CHOOSE i \in found : \A j \in found : i <= j]

-----------------------------------------------------------------------------
(* Scalars on the wire.  BIGINT 1 and VARCHAR '1' are sent as the same     *)
(* text: the encoding forgets the type.  Form encoding itself is injective. *)

EncodeCompiledQueryScalar(scalar) == [form |-> scalar.value]
NoText == [form |-> ""]

\* A query field: FIXED, PAGE_SIZE and PAGE_NUMBER carry a value,
\* RELATION_INPUT and CONDITIONAL_INPUT the id of their source.
CompiledQueryParameter(name, source, id, scalar) ==
    [name |-> name, source |-> source, id |-> id, scalar |-> scalar,
     encoded |-> IF source \in {"RELATION_INPUT", "CONDITIONAL_INPUT"} THEN NoText
                 ELSE EncodeCompiledQueryScalar(scalar)]

ValidateQueryParameters(parameters) ==
    /\ Len(parameters) <= Contract.queryFields
    /\ DistinctBy(parameters, LAMBDA p : p.name)
    /\ \A i \in DOMAIN parameters :
         LET p == parameters[i] IN
         CASE p.source \in {"RELATION_INPUT", "CONDITIONAL_INPUT"} ->
                p.id # "" /\ p.encoded = NoText
           [] p.source \in {"PAGE_SIZE", "PAGE_NUMBER"} ->
                p.id = "" /\ p.scalar.type = "BIGINT" /\ ~p.scalar.null /\ p.scalar.value # "0"
           [] p.source = "FIXED" -> p.id = "" /\ ~p.scalar.null

-----------------------------------------------------------------------------
(* Pagination.                                                             *)

PageStrategies == {"LINK_HEADER", "RESPONSE_NEXT_URL", "SHORT_PAGE"}

FitsBigintPageSequence(first, increment, pages) ==
    /\ first <= Contract.maxBigint
    /\ pages - 1 <= (Contract.maxBigint - first) \div increment

DisabledPagination ==
    [strategy |-> "DISABLED", sizeParam |-> "", size |-> 0, numberParam |-> "",
     first |-> 0, increment |-> 0, pages |-> 0]

\* The three constructors: a page size is optional unless termination
\* depends on it (SHORT_PAGE).
CompiledPagination(p) ==
    \/ p = DisabledPagination
    \/ /\ p.strategy \in PageStrategies
       /\ p.numberParam # ""
       /\ p.first > 0 /\ p.increment > 0 /\ p.pages > 0
       /\ FitsBigintPageSequence(p.first, p.increment, p.pages)
       /\ p.sizeParam # "" => p.sizeParam # p.numberParam /\ p.size > 0
       /\ p.sizeParam = "" => p.size = 0 /\ p.strategy # "SHORT_PAGE"
       /\ p.strategy = "SHORT_PAGE" => p.size <= Contract.maxBigint

\* The structural page fields of the request agree with the pagination.
ValidatePagination(operation) ==
    LET p == operation.pagination
        Of(source) == {operation.query[i] : i \in
                        IndexesOf(operation.query, LAMBDA q : q.source = source)}
        Count(source) == Cardinality(IndexesOf(operation.query, LAMBDA q : q.source = source))
    IN  IF p.strategy = "DISABLED"
        THEN Count("PAGE_SIZE") = 0 /\ Count("PAGE_NUMBER") = 0
        ELSE /\ CompiledPagination(p)
             /\ p.size <= Contract.maxBigint
             /\ operation.cardinality = "ZERO_TO_MANY"
             /\ operation.response \in {"JSON_PATH_MANY", "ROOT_ARRAY"}
             /\ Count("PAGE_SIZE") <= 1 /\ Count("PAGE_NUMBER") = 1
             /\ \A q \in Of("PAGE_NUMBER") : q.name = p.numberParam /\ q.scalar.value = ToString(p.first)
             /\ p.sizeParam # "" =>
                  /\ Count("PAGE_SIZE") = 1
                  /\ \A q \in Of("PAGE_SIZE") : q.name = p.sizeParam /\ q.scalar.value = ToString(p.size)

-----------------------------------------------------------------------------
(* Retry and rate limits.                                                  *)

NoRetry == [attempts |-> 0, delay |-> 0, wait |-> 0]
RetryEnabled(retry) == retry.attempts # 0

ValidateRetryRecommendation(retry) ==
    \/ retry = NoRetry
    \/ /\ retry.attempts \in 2..Contract.retryAttempts
       /\ retry.delay \in 1..Contract.retryDelay
       /\ retry.wait \in 1..Contract.retryWait

NoRateLimit == [declared |-> FALSE, mode |-> "FAIL", statuses |-> {}, family |-> "",
                scope |-> "CREDENTIAL_AUTHORITY", guidance |-> << >>, optional |-> << >>,
                attempts |-> 0, delay |-> 0, wait |-> 0]
WaitingEnabled(policy) == policy.declared /\ policy.mode # "FAIL"

\* statuses is a set: the compiler sorts them and a repeated one is refused.
\* guidance lists header names, optional the quota and bucket headers; the
\* names are one name space.  Only a waiting mode has waiting authority.
RateLimitFacts(policy) ==
    IF ~policy.declared THEN policy = NoRateLimit
    ELSE /\ policy.statuses # {} /\ Cardinality(policy.statuses) <= Contract.statuses
         /\ policy.statuses \subseteq (400..599) \ {401, 403, 407}
         /\ policy.family # ""
         /\ DistinctBy(policy.guidance \o policy.optional, LAMBDA h : h)
         /\ IF policy.mode = "FAIL"
            THEN /\ policy.guidance = << >> /\ policy.optional = << >>
                 /\ <<policy.attempts, policy.delay, policy.wait>> = <<0, 0, 0>>
            ELSE /\ Len(policy.guidance) \in 1..Contract.guidance
                 /\ policy.attempts \in 2..Contract.retryAttempts
                 /\ policy.delay \in 1..Contract.rateDelay
                 /\ policy.wait \in 1..Contract.rateWait

ValidateRateLimitPolicy(operation) ==
    /\ operation.rateLimit.declared => operation.supportsRateLimit
    /\ RateLimitFacts(operation.rateLimit)

\* Attempts of one logical step: what retry and rate limit each allow.
AttemptsPerStep(operation) ==
    LET retry == IF RetryEnabled(operation.retry) THEN operation.retry.attempts ELSE 1
        rate == IF WaitingEnabled(operation.rateLimit) THEN operation.rateLimit.attempts ELSE 1
    IN  IF retry > rate THEN retry ELSE rate

-----------------------------------------------------------------------------
(* Operations.  A GraphQL operation has graphql = [size, pages, bodyBytes, *)
(* scanBodyBytes]; its cursor pagination is that record's.                 *)

NoGraphql == [size |-> 0, pages |-> 0, bodyBytes |-> 0, scanBodyBytes |-> 0]

ValidateRestOperation(operation) ==
    /\ ValidateRetryRecommendation(operation.retry)
    /\ ValidateRateLimitPolicy(operation)
    /\ ValidateQueryParameters(operation.query)
    /\ operation.response = "ROOT_OBJECT" <=> operation.cardinality = "EXACTLY_ONE"
    /\ operation.response = "JSON_PATH_MANY" <=> operation.recordsPath # << >>
    /\ ValidatePagination(operation)

\* The body budget of a scan holds one request and at most every attempt.
ValidateGraphqlBodyBudget(operation) ==
    LET g == operation.graphql
        attempts == g.pages * AttemptsPerStep(operation)
    IN  /\ g.pages <= Contract.maxU64 \div AttemptsPerStep(operation)
        /\ g.bodyBytes <= Contract.maxU64 \div attempts
        /\ g.scanBodyBytes \in g.bodyBytes..(g.bodyBytes * attempts)

ValidateGraphqlOperation(operation) ==
    LET g == operation.graphql IN
    /\ operation.cardinality = "ZERO_TO_MANY"
    /\ ValidateRetryRecommendation(operation.retry)
    /\ ValidateRateLimitPolicy(operation)
    /\ g.size > 0 /\ g.pages > 0 /\ g.bodyBytes > 0
    /\ ValidateGraphqlBodyBudget(operation)

ValidateProtocolOperation(operation) ==
    IF operation.protocol = "REST" THEN ValidateRestOperation(operation)
    ELSE ValidateGraphqlOperation(operation)

Paginated(operation) ==
    operation.protocol = "GRAPHQL" \/ operation.pagination.strategy # "DISABLED"
PageSizeOf(operation) ==
    IF operation.protocol = "GRAPHQL" THEN operation.graphql.size ELSE operation.pagination.size
PagesOf(operation) ==
    IF operation.protocol = "GRAPHQL" THEN operation.graphql.pages ELSE operation.pagination.pages

-----------------------------------------------------------------------------
(* Resource ceilings of a relation, checked against each operation.        *)

ValidateResourceCeilings(operation, c) ==
    /\ c.pageRecords > 0 /\ c.scanRecords >= c.pageRecords /\ c.stringBytes > 0
    /\ c.pageBytes > 0 /\ c.scanBytes >= c.pageBytes
    /\ IF ~Paginated(operation)
       THEN c.scanRecords = c.pageRecords /\ c.scanBytes = c.pageBytes
       ELSE /\ PageSizeOf(operation) <= c.pageRecords
            /\ c.pageRecords <= Contract.maxU64 \div PagesOf(operation)
            /\ c.pageBytes <= Contract.maxU64 \div PagesOf(operation)
            /\ c.scanRecords <= c.pageRecords * PagesOf(operation)
            /\ c.scanBytes <= c.pageBytes * PagesOf(operation)
    /\ operation.cardinality = "EXACTLY_ONE" => c.pageRecords = 1 /\ c.scanRecords = 1

-----------------------------------------------------------------------------
(* Authentication, network policy, columns and inputs.                     *)

Anonymous == [required |-> FALSE, authenticator |-> "NONE", placement |-> "NONE",
              placementName |-> "", destinations |-> << >>]

ValidAuthenticationPolicy(auth) ==
    IF ~auth.required THEN auth = Anonymous
    ELSE /\ auth.destinations # << >>
         /\ DistinctBy(auth.destinations, LAMBDA d : d)
         /\ \/ /\ auth.authenticator = "BEARER" /\ auth.placement = "AUTHORIZATION_HEADER"
               /\ auth.placementName = ""
            \/ /\ auth.authenticator = "API_KEY"
               /\ auth.placement \in {"HEADER_NAMED", "QUERY_NAMED"} /\ auth.placementName # ""

\* The first destination: what Destination() returns of a non-empty set.
Destination(auth) == auth.destinations[1]

ValidateNetworkPolicy(network) ==
    /\ network.origins # << >> /\ network.maxResponseBytes > 0
    /\ DistinctBy(network.origins, LAMBDA o : o)

ContainsOrigin(origins, origin) == \E i \in DOMAIN origins : origins[i] = origin

ValidateColumn(column) ==
    /\ column.type \in ScalarTypes
    /\ column.path # << >>
    /\ column.shape = "SCALAR" => ~column.elementNullable

\* An input's default: NoDefault, a typed value, or NULL if the input is nullable.
NoDefault == [default |-> "NONE"]
ValidRelationInput(input) ==
    input.default = NoDefault
      \/ (input.default.type = input.type /\ (input.default.null => input.nullable))

-----------------------------------------------------------------------------
(* Predicate mappings: a column equality an operation can restrict by.     *)

FindOperation(operations, name) == FirstWith(operations, LAMBDA o : o.name = name)
FindColumn(columns, name) == FirstWith(columns, LAMBDA c : c.name = name)
FindConditionalQueryBinding(operation, id) ==
    FirstWith(operation.query, LAMBDA q : q.source = "CONDITIONAL_INPUT" /\ q.id = id)

CompiledPredicateMapping(name, column, literal, operation, input, accuracy, fixtures) ==
    [name |-> name, column |-> column, literal |-> literal, operation |-> operation,
     input |-> input, encoded |-> EncodeCompiledQueryScalar(literal), accuracy |-> accuracy,
     fixtures |-> fixtures,
     occurrences |-> IF accuracy = "EXACT" THEN "PRESERVES_EXACT" ELSE "PRESERVES_ALL"]

\* Two mappings of one operation share its one conditional input and are
\* told apart by literal and by encoded text.
ValidatePredicateMappings(relation) ==
    \A i \in DOMAIN relation.mappings :
      LET m == relation.mappings[i]
          column == FindColumn(relation.columns, m.column)
          operation == FindOperation(relation.operations, m.operation)
      IN  /\ column # REFUSED /\ operation # REFUSED
          /\ column.shape = "SCALAR" /\ column.type = m.literal.type /\ ~m.literal.null
          /\ operation.protocol = "REST"
          /\ LET binding == FindConditionalQueryBinding(operation, m.input) IN
             /\ binding # REFUSED
             /\ ~\E j \in DOMAIN operation.query :
                   operation.query[j].name = binding.name /\ operation.query[j].source = "FIXED"
             /\ operation.pagination.strategy # "DISABLED" =>
                  binding.name \notin {operation.pagination.sizeParam,
                                       operation.pagination.numberParam}
          /\ \A j \in DOMAIN relation.mappings :
               LET other == relation.mappings[j] IN
               i < j /\ m.operation = other.operation =>
                 /\ m.input = other.input
                 /\ m.literal # other.literal
                 /\ m.encoded # other.encoded

\* A selector's references name declared inputs, or conditional inputs that
\* mappings of this very operation emit; the fallback has none.
ValidateOperationSelectorReferences(relation, operation) ==
    /\ operation.fallback <=> operation.references = {}
    /\ \A reference \in operation.references :
         IF reference[1] = "RELATION_INPUT"
         THEN \E i \in DOMAIN relation.inputs : relation.inputs[i].name = reference[2]
         ELSE \E i \in DOMAIN relation.mappings :
                /\ relation.mappings[i].operation = operation.name
                /\ relation.mappings[i].input = reference[2]

-----------------------------------------------------------------------------
(* Relations and connectors.                                               *)

CompiledRelation(relation) ==
    LET operations == relation.operations IN
    /\ relation.columns # << >> /\ operations # << >>
    /\ \A i \in DOMAIN relation.columns : ValidateColumn(relation.columns[i])
    /\ DistinctBy(relation.columns, LAMBDA c : c.name)
    /\ \A i \in DOMAIN relation.inputs : ValidRelationInput(relation.inputs[i])
    /\ DistinctBy(relation.inputs, LAMBDA n : n.name)
    /\ DistinctBy(operations, LAMBDA o : o.name)
    /\ ValidAuthenticationPolicy(relation.authentication)
    /\ \A i \in DOMAIN operations :
         /\ ValidateProtocolOperation(operations[i])
         /\ ValidateResourceCeilings(operations[i], relation.ceilings)
         /\ ValidateOperationSelectorReferences(relation, operations[i])
         /\ relation.authentication.required =>
              ContainsOrigin(relation.authentication.destinations, operations[i].origin)
    /\ Cardinality(IndexesOf(operations, LAMBDA o : o.fallback)) <= 1
    /\ ValidatePredicateMappings(relation)

CompiledConnector(connector) ==
    LET relation == connector.relation
        origins == connector.network.origins
    IN  /\ ValidateNetworkPolicy(connector.network)
        /\ \A i \in DOMAIN relation.operations :
             ContainsOrigin(origins, relation.operations[i].origin)
        /\ \A i \in DOMAIN relation.authentication.destinations :
             ContainsOrigin(origins, relation.authentication.destinations[i])
        /\ relation.ceilings.pageBytes <= connector.network.maxResponseBytes
=============================================================================

--------------------------- MODULE PackageCompiler ---------------------------
(***************************************************************************)
(* The connector package compiler (connector/package/*.cpp): a declaration *)
(* read from YAML is checked against the closed schema, then compiled.     *)
(* Each phase collects diagnostics and stops the compilation if it found   *)
(* one; the constructors of the compiled model throw.                      *)
(*                                                                         *)
(* A declaration is a record.  Spelling (identifiers, header and path      *)
(* syntax, numerals), source positions and diagnostic texts are left out:  *)
(* a numeral is a natural number and 0 stands for a field that is absent   *)
(* or not a canonical positive numeral, an absent name is "".              *)
(***************************************************************************)
EXTENDS ConnectorDeclarations

-----------------------------------------------------------------------------
(* Schema phase.                                                           *)

SpecVersions == {"duckdb_api/v1", "duckdb_api/v2", "duckdb_api/v3"}

\* Exactly one of fallback and when; when lists at least one required input.
DecodeSelector(operation) ==
    IF operation.fallback THEN operation.when = << >> ELSE operation.when # << >>

DecodeRetry(retry) == ValidateRetryRecommendation(retry)

DecodeRateLimit(policy) ==
    /\ policy.mode \in {"FAIL", "WAIT", "WAIT_IF_DEADLINE_ALLOWS"}
    /\ policy.scope \in {"CREDENTIAL_AUTHORITY", "SHARED"}
    /\ RateLimitFacts(policy)

DecodeRestResponseSchema(response) ==
    /\ response.source \in {"terminal_collection", "root_object", "root_array"}
    /\ response.source = "terminal_collection" <=> response.records # << >>

\* A page size is optional unless the strategy ends on a short page, and a
\* declared parameter need not come with its size.
DecodeRestPaginationSchema(p) ==
    IF p.strategy = "disabled"
    THEN /\ <<p.sizeParam, p.numberParam>> = <<"", "">>
         /\ <<p.size, p.first, p.increment, p.pages>> = <<0, 0, 0, 0>> /\ p.next = << >>
    ELSE /\ p.strategy \in {"link_next", "response_next", "short_page"}
         /\ p.strategy = "response_next" <=> p.next # << >>
         /\ p.strategy = "short_page" => p.sizeParam # "" /\ p.size # 0
         /\ p.numberParam # "" /\ p.first # 0 /\ p.increment # 0 /\ p.pages # 0

DecodeRestRequestSchema(operation) == Len(operation.query) <= Contract.queryFields

DecodeGraphqlRequestSchema(g) ==
    g.size # 0 /\ g.pages # 0 /\ g.documentBytes # 0 /\ g.bodyBytes # 0 /\ g.scanBodyBytes # 0

\* Retry is declared from version 2 on, rate limits from version 3.
DecodeOperationSchema(operation, version) ==
    /\ operation.retry # NoRetry => version # "duckdb_api/v1" /\ DecodeRetry(operation.retry)
    /\ operation.rateLimit.declared =>
         version = "duckdb_api/v3" /\ DecodeRateLimit(operation.rateLimit)
    /\ DecodeSelector(operation)
    /\ IF operation.protocol = "GRAPHQL"
       THEN operation.cardinality = "many" /\ DecodeGraphqlRequestSchema(operation.graphql)
       ELSE /\ operation.cardinality \in {"one", "many"}
            /\ DecodeRestRequestSchema(operation)
            /\ DecodeRestResponseSchema(operation.response)
            /\ DecodeRestPaginationSchema(operation.pagination)

\* An ARRAY column names its element's type; a scalar column has none.
DecodeColumn(column) ==
    /\ IF column.type = "ARRAY" THEN column.elementType \in ScalarTypes
       ELSE column.type \in ScalarTypes /\ column.elementType = "" /\ ~column.elementNullable
    /\ column.extract # << >>

DecodeInput(input) == input.id # "secret" /\ input.type \in ScalarTypes

DecodePredicateSchema(predicate) ==
    /\ predicate.operations # << >>
    /\ predicate.literal.type \in ScalarTypes
    /\ predicate.accuracy \in {"EXACT", "SUPERSET"}

DecodeRelationSchema(relation, version) ==
    /\ relation.version = version /\ version \in SpecVersions
    /\ relation.columns # << >> /\ relation.operations # << >>
    /\ \A f \in {"pageBytes", "scanBytes", "pageRecords", "scanRecords", "stringBytes"} :
         relation.resources[f] # 0
    /\ \A i \in DOMAIN relation.columns : DecodeColumn(relation.columns[i])
    /\ \A i \in DOMAIN relation.inputs : DecodeInput(relation.inputs[i])
    /\ \A i \in DOMAIN relation.operations :
         DecodeOperationSchema(relation.operations[i], version)
    /\ \A i \in DOMAIN relation.predicates : DecodePredicateSchema(relation.predicates[i])
    /\ \A f \in {"columns", "inputs", "operations", "predicates"} :
         DistinctBy(relation[f], LAMBDA d : d.id)

DecodeCredential(credential) ==
    /\ credential.destinations # << >> /\ DistinctBy(credential.destinations, LAMBDA d : d)
    /\ \/ credential.kind = "bearer" /\ credential.placement = "authorization_header"
                                    /\ credential.name = ""
       \/ credential.kind = "api_key" /\ credential.placement \in {"header", "query"}
                                     /\ credential.name # ""

DecodeManifestSchema(manifest) ==
    /\ manifest.version \in SpecVersions
    /\ manifest.origins # << >> /\ DistinctBy(manifest.origins, LAMBDA o : o)
    /\ manifest.maxResponseBytes # 0
    /\ \A i \in DOMAIN manifest.credentials : DecodeCredential(manifest.credentials[i])
    /\ DistinctBy(manifest.credentials, LAMBDA c : c.id)

DecodePackageSchema(package) ==
    /\ DecodeManifestSchema(package.manifest)
    /\ DecodeRelationSchema(package.relation, package.manifest.version)

-----------------------------------------------------------------------------
(* Compile phase, operation by operation.                                  *)

PredicateTargets(relation, operation, conditional) ==
    \E i \in DOMAIN relation.predicates :
        /\ relation.predicates[i].input = conditional
        /\ \E j \in DOMAIN relation.predicates[i].operations :
              relation.predicates[i].operations[j] = operation

HasInput(relation, id) == \E i \in DOMAIN relation.inputs : relation.inputs[i].id = id

CompileSelector(relation, operation) ==
    /\ DistinctBy(operation.when, LAMBDA r : r)
    /\ \A i \in DOMAIN operation.when :
         LET reference == operation.when[i] IN
         \/ reference[1] = "RELATION_INPUT" /\ HasInput(relation, reference[2])
         \/ /\ reference[1] = "CONDITIONAL_INPUT"
            /\ PredicateTargets(relation, operation.id, reference[2])

\* The compiler's own page-sequence check: an absent size parameter is the
\* empty text, which differs from the declared number parameter.
PageSequenceFits(p) ==
    p.strategy = "disabled"
      \/ /\ p.sizeParam # p.numberParam
         /\ p.size <= Contract.maxBigint
         /\ FitsBigintPageSequence(p.first, p.increment, p.pages)

CompilePagination(p) ==
    IF p.strategy = "disabled" THEN DisabledPagination
    ELSE [strategy |-> CASE p.strategy = "link_next" -> "LINK_HEADER"
                         [] p.strategy = "response_next" -> "RESPONSE_NEXT_URL"
                         [] p.strategy = "short_page" -> "SHORT_PAGE",
          sizeParam |-> p.sizeParam, size |-> IF p.sizeParam = "" THEN 0 ELSE p.size,
          numberParam |-> p.numberParam,
          first |-> p.first, increment |-> p.increment, pages |-> p.pages]

\* A literal with the name of a page parameter becomes the page field if its
\* text is the declared size or first page, and is refused otherwise.
CompileQueryField(field, p) ==
    LET paged == p.strategy # "disabled"
        Page(source, number) ==
            IF field.source # ToString(number) THEN REFUSED
            ELSE CompiledQueryParameter(field.name, source, "", Scalar("BIGINT", ToString(number)))
    IN  CASE field.kind = "LITERAL" ->
               IF paged /\ field.name = p.sizeParam THEN Page("PAGE_SIZE", p.size)
               ELSE IF paged /\ field.name = p.numberParam THEN Page("PAGE_NUMBER", p.first)
               ELSE CompiledQueryParameter(field.name, "FIXED", "", Scalar("VARCHAR", field.source))
          [] field.kind = "INPUT" ->
               CompiledQueryParameter(field.name, "RELATION_INPUT", field.source,
                                      NullScalar("VARCHAR"))
          [] field.kind = "CONDITIONAL" ->
               CompiledQueryParameter(field.name, "CONDITIONAL_INPUT", field.source,
                                      NullScalar("VARCHAR"))

CompileQuery(relation, operation) ==
    LET p == operation.pagination
        query == operation.query
        conditional == IndexesOf(query, LAMBDA f : f.kind = "CONDITIONAL")
    IN  /\ DistinctBy(query, LAMBDA f : f.name)
        /\ \A i \in DOMAIN query :
             /\ CompileQueryField(query[i], p) # REFUSED
             /\ query[i].kind = "INPUT" => HasInput(relation, query[i].source)
        /\ Cardinality(conditional) <= 1
        /\ \A i \in conditional : PredicateTargets(relation, operation.id, query[i].source)
        /\ p.strategy # "disabled" =>
             \E i \in DOMAIN query : query[i].kind = "LITERAL" /\ query[i].name = p.numberParam

\* What Compile{Rest,Graphql}Operation diagnose.
OperationDiagnosed(relation, operation) ==
    \/ ~CompileSelector(relation, operation)
    \/ /\ operation.protocol = "GRAPHQL"
       /\ \/ [i \in DOMAIN relation.columns |-> relation.columns[i].id] # operation.graphql.selection
          \/ \E i \in DOMAIN relation.columns :
               "DOUBLE" \in {relation.columns[i].type, relation.columns[i].elementType}
    \/ /\ operation.protocol = "REST"
       /\ \/ ~PageSequenceFits(operation.pagination)
          \/ (operation.cardinality = "one") # (operation.response.source = "root_object")
          \/ ~CompileQuery(relation, operation)

CompileOperation(relation, operation) ==
    LET rest == operation.protocol = "REST" IN
    [name |-> operation.id, fallback |-> operation.fallback, protocol |-> operation.protocol,
     references |-> {operation.when[i] : i \in DOMAIN operation.when},
     cardinality |-> IF operation.cardinality = "one" THEN "EXACTLY_ONE" ELSE "ZERO_TO_MANY",
     origin |-> operation.origin,
     query |-> IF rest THEN [i \in DOMAIN operation.query |->
                               CompileQueryField(operation.query[i], operation.pagination)]
               ELSE << >>,
     response |-> CASE ~rest \/ operation.response.source = "terminal_collection" -> "JSON_PATH_MANY"
                    [] rest /\ operation.response.source = "root_object" -> "ROOT_OBJECT"
                    [] rest /\ operation.response.source = "root_array" -> "ROOT_ARRAY",
     recordsPath |-> IF rest THEN operation.response.records ELSE <<"nodes">>,
     pagination |-> IF rest THEN CompilePagination(operation.pagination) ELSE DisabledPagination,
     retry |-> operation.retry, rateLimit |-> operation.rateLimit,
     supportsRateLimit |-> relation.version = "duckdb_api/v3",
     graphql |-> IF rest THEN NoGraphql
                 ELSE [f \in DOMAIN NoGraphql |-> operation.graphql[f]]]

\* Constructing the operation throws: in the pagination before the other
\* diagnostics are known, in the operation only once there are none.
OperationThrows(relation, operation) ==
    \/ /\ operation.protocol = "REST" /\ CompileSelector(relation, operation)
       /\ PageSequenceFits(operation.pagination)
       /\ ~CompiledPagination(CompilePagination(operation.pagination))
    \/ /\ ~OperationDiagnosed(relation, operation)
       /\ ~ValidateProtocolOperation(CompileOperation(relation, operation))

-----------------------------------------------------------------------------
(* Compile phase, relation and package.                                    *)

CompileColumn(column) ==
    [name |-> column.id, nullable |-> column.nullable, path |-> column.extract,
     type |-> IF column.type = "ARRAY" THEN column.elementType ELSE column.type,
     shape |-> IF column.type = "ARRAY" THEN "ARRAY" ELSE "SCALAR",
     elementNullable |-> column.elementNullable]

\* A null default needs a nullable input; -0 is normalised.
CompileInput(input) ==
    [name |-> input.id, type |-> input.type, nullable |-> input.nullable,
     default |-> IF input.default = NoDefault THEN NoDefault ELSE Canonical(input.default)]

\* CompilePredicateMappings: one mapping per predicate and target operation,
\* and what it diagnoses.
CompilePredicateMappings(relation) ==
    FlattenSeq([i \in DOMAIN relation.predicates |->
      LET predicate == relation.predicates[i] IN
      [j \in DOMAIN predicate.operations |->
         CompiledPredicateMapping(predicate.id, predicate.column, Canonical(predicate.literal),
             predicate.operations[j], predicate.input, predicate.accuracy, predicate.fixtures)]])

PredicatesDiagnosed(relation) ==
    LET mappings == CompilePredicateMappings(relation) IN
    \/ \E i \in DOMAIN relation.predicates :
         LET predicate == relation.predicates[i]
             column == FirstWith(relation.columns, LAMBDA c : c.id = predicate.column)
         IN  \/ column = REFUSED \/ column.type # predicate.literal.type
             \/ ~DistinctBy(predicate.fixtures, LAMBDA f : f)
             \/ ~DistinctBy(predicate.operations, LAMBDA o : o)
    \/ \E k \in DOMAIN mappings :
         LET target == FirstWith(relation.operations, LAMBDA o : o.id = mappings[k].operation) IN
         \/ target = REFUSED \/ target.protocol # "REST"
         \/ ~\E i \in DOMAIN target.query :
               target.query[i].kind = "CONDITIONAL" /\ target.query[i].source = mappings[k].input
         \/ \E l \in 1..(k - 1) :
               /\ mappings[l].operation = mappings[k].operation
               /\ \/ mappings[l].input # mappings[k].input
                  \/ mappings[l].literal = mappings[k].literal
                  \/ mappings[l].encoded = mappings[k].encoded

FindCredential(manifest, id) == FirstWith(manifest.credentials, LAMBDA c : c.id = id)

CompileAuthentication(manifest, relation) ==
    LET credential == FindCredential(manifest, relation.credential) IN
    IF relation.credential = "" THEN Anonymous
    ELSE [required |-> TRUE, destinations |-> credential.destinations,
          placementName |-> credential.name,
          authenticator |-> IF credential.kind = "bearer" THEN "BEARER" ELSE "API_KEY",
          placement |-> CASE credential.placement = "authorization_header" -> "AUTHORIZATION_HEADER"
                          [] credential.placement = "header" -> "HEADER_NAMED"
                          [] credential.placement = "query" -> "QUERY_NAMED"]

\* Every operation's origin is a destination of the credential, whichever.
AuthenticationDiagnosed(manifest, relation) ==
    LET credential == FindCredential(manifest, relation.credential) IN
    /\ relation.credential # ""
    /\ \/ credential = REFUSED
       \/ \E i \in DOMAIN relation.operations :
            \/ ~ContainsOrigin(credential.destinations, relation.operations[i].origin)
            \/ credential.kind = "api_key" /\ relation.operations[i].protocol = "GRAPHQL"

\* The ceilings against each declared operation, by the same rules as the
\* compiled model; a GraphQL body budget covers one request and at most all.
ResourcesDiagnosed(relation) ==
    \E i \in DOMAIN relation.operations :
        LET operation == relation.operations[i]
            page == CompileOperation(relation, operation)
        IN  \/ relation.resources.scanBytes < relation.resources.pageBytes
            \/ relation.resources.scanRecords < relation.resources.pageRecords
            \/ ~ValidateResourceCeilings(page, relation.resources)
            \/ operation.pagination.size > relation.resources.pageRecords
            \/ operation.protocol = "GRAPHQL" /\ ~ValidateGraphqlBodyBudget(page)

ValidateManifestPolicy(package) ==
    LET manifest == package.manifest
        relation == package.relation
    IN  /\ \A i \in DOMAIN manifest.credentials :
             \A j \in DOMAIN manifest.credentials[i].destinations :
               ContainsOrigin(manifest.origins, manifest.credentials[i].destinations[j])
        /\ relation.resources.pageBytes <= manifest.maxResponseBytes
        /\ \A i \in DOMAIN relation.operations :
             ContainsOrigin(manifest.origins, relation.operations[i].origin)

CompileDiagnosed(package) ==
    LET manifest == package.manifest
        relation == package.relation
    IN  \/ ~ValidateManifestPolicy(package)
        \/ \E i \in DOMAIN relation.inputs :
             LET input == relation.inputs[i] IN
             input.default # NoDefault /\ input.default.null /\ ~input.nullable
        \/ \E i \in DOMAIN relation.operations :
             OperationDiagnosed(relation, relation.operations[i])
        \/ Cardinality(IndexesOf(relation.operations, LAMBDA o : o.fallback)) > 1
        \/ PredicatesDiagnosed(relation)
        \/ AuthenticationDiagnosed(manifest, relation)
        \/ ResourcesDiagnosed(relation)

CompilePackageDeclaration(package) ==
    LET manifest == package.manifest
        relation == package.relation
    IN  [network |-> [origins |-> manifest.origins,
                      maxResponseBytes |-> manifest.maxResponseBytes],
         relation |->
           [columns |-> [i \in DOMAIN relation.columns |-> CompileColumn(relation.columns[i])],
            inputs |-> [i \in DOMAIN relation.inputs |-> CompileInput(relation.inputs[i])],
            mappings |-> CompilePredicateMappings(relation),
            operations |-> [i \in DOMAIN relation.operations |->
                              CompileOperation(relation, relation.operations[i])],
            authentication |-> CompileAuthentication(manifest, relation),
            ceilings |-> relation.resources]]

\* The outcome of CompilePackage: diagnosed by a phase, an exception out of
\* the compiled model's constructors, or a compiled connector.
CompilePackage(package) ==
    LET relation == package.relation IN
    IF ~DecodePackageSchema(package) THEN "SCHEMA"
    ELSE IF \E i \in DOMAIN relation.operations :
              OperationThrows(relation, relation.operations[i]) THEN "THROWN"
    ELSE IF CompileDiagnosed(package) THEN "COMPILE"
    ELSE LET connector == CompilePackageDeclaration(package) IN
         IF CompiledRelation(connector.relation) /\ CompiledConnector(connector)
         THEN "COMPILED" ELSE "THROWN"
=============================================================================

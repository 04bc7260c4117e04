----------------------------- MODULE MCPlanning -----------------------------
(***************************************************************************)
(* Packages around one relation: an item has a number, a name and a list   *)
(* of tags.  Numbers are scaled: two pages, three attempts, a predicate of *)
(* depth three and five nodes.  The text takes three bytes and five when   *)
(* it is encoded, so that a request with two of them is over the target.   *)
(***************************************************************************)
EXTENDS PlanningPipeline

Column(id, type, element, path) ==
    [id |-> id, type |-> type, elementType |-> element, elementNullable |-> FALSE,
     nullable |-> TRUE, extract |-> path]
Input(id, nullable, default) ==
    [id |-> id, type |-> "VARCHAR", nullable |-> nullable, default |-> default]
Field(name, kind, source) == [name |-> name, kind |-> kind, source |-> source]
Predicate(id, column, literal, operations, accuracy) ==
    [id |-> id, column |-> column, literal |-> literal, input |-> "match",
     operations |-> operations, accuracy |-> accuracy, fixtures |-> <<"f">>]

One == Scalar("BIGINT", "1")
Two == Scalar("BIGINT", "2")
OneText == Scalar("VARCHAR", "1")
Text == Scalar("VARCHAR", "x/y")

Paging == [strategy |-> "link_next", sizeParam |-> "size", size |-> 2, numberParam |-> "page",
           first |-> 1, increment |-> 1, pages |-> 2, next |-> << >>]
NoPaging == [strategy |-> "disabled", sizeParam |-> "", size |-> 0, numberParam |-> "",
             first |-> 0, increment |-> 0, pages |-> 0, next |-> << >>]
PageFields == <<Field("size", "LITERAL", "2"), Field("page", "LITERAL", "1")>>
NoGraphqlRequest == [size |-> 0, pages |-> 0, documentBytes |-> 0, bodyBytes |-> 0,
                     scanBodyBytes |-> 0, selection |-> << >>]

Operation(id, when, query) ==
    [id |-> id, fallback |-> when = << >>, when |-> when, cardinality |-> "many",
     protocol |-> "REST", retry |-> NoRetry, rateLimit |-> NoRateLimit, origin |-> "api",
     query |-> query, response |-> [source |-> "root_array", records |-> << >>],
     pagination |-> Paging, graphql |-> NoGraphqlRequest]

All == Operation("all", << >>, PageFields \o <<Field("q", "INPUT", "q")>>)
Matching == Operation("matching", <<<<"CONDITIONAL_INPUT", "match">>>>,
                      PageFields \o <<Field("is", "CONDITIONAL", "match")>>)
Searching == Operation("searching", <<<<"RELATION_INPUT", "q">>>>,
                       PageFields \o <<Field("q", "INPUT", "q"), Field("is", "CONDITIONAL", "match")>>)

Relation ==
    [version |-> "duckdb_api/v3",
     columns |-> <<Column("number", "BIGINT", "", <<"n">>), Column("name", "VARCHAR", "", <<"s">>),
                   Column("tags", "ARRAY", "VARCHAR", <<"t">>)>>,
     inputs |-> <<Input("q", TRUE, NoDefault)>>,
     predicates |-> <<Predicate("one", "number", One, <<"matching", "searching">>, "EXACT"),
                      Predicate("x", "name", Text, <<"matching">>, "SUPERSET")>>,
     operations |-> <<All, Matching, Searching>>, credential |-> "",
     resources |-> [pageBytes |-> 4, scanBytes |-> 8, pageRecords |-> 2, scanRecords |-> 4,
                    stringBytes |-> 2]]
Credential(kind, placement, name, destinations) ==
    <<[id |-> "token", kind |-> kind, placement |-> placement, name |-> name,
       destinations |-> destinations]>>
Base == [manifest |-> [version |-> "duckdb_api/v3", origins |-> <<"api", "cdn">>,
                       maxResponseBytes |-> 6, credentials |-> << >>],
         relation |-> Relation]

\* Every operation of the base package, changed the same way.
WithAll(Change(_)) ==
    [Base EXCEPT !.relation.operations = [i \in DOMAIN @ |-> Change(@[i])]]
Retry == [attempts |-> 3, delay |-> 2, wait |-> 4]
RateLimit == [declared |-> TRUE, mode |-> "WAIT", statuses |-> {429}, family |-> "core",
              scope |-> "CREDENTIAL_AUTHORITY", guidance |-> <<"retry-after">>,
              optional |-> <<"bucket">>, attempts |-> 2, delay |-> 3, wait |-> 5]
Graphql == [All EXCEPT !.protocol = "GRAPHQL", !.query = << >>,
                       !.graphql = [size |-> 2, pages |-> 2, documentBytes |-> 3, bodyBytes |-> 2,
                                    scanBodyBytes |-> 4, selection |-> <<"number", "name", "tags">>]]
WithGraphql(operation) == [Base EXCEPT !.relation.operations = <<operation>>,
                                       !.relation.predicates = << >>]
Single(source, cardinality) ==
    [Base EXCEPT !.relation.operations =
                    <<[All EXCEPT !.pagination = NoPaging, !.cardinality = cardinality,
                         !.query = <<Field("q", "INPUT", "q")>>, !.retry = Retry,
                         !.response = [source |-> source,
                            records |-> IF source = "terminal_collection" THEN <<"items">>
                                        ELSE << >>]]>>,
                 !.relation.predicates = << >>,
                 !.relation.resources.scanBytes = 4,
                 !.relation.resources.pageRecords = IF cardinality = "one" THEN 1 ELSE 2,
                 !.relation.resources.scanRecords = IF cardinality = "one" THEN 1 ELSE 2]
WithCredential(credential) ==
    [Base EXCEPT !.manifest.credentials = credential, !.relation.credential = "token"]

Sound ==
    { Base,
      WithAll(LAMBDA o : [o EXCEPT !.retry = Retry]),
      WithAll(LAMBDA o : [o EXCEPT !.rateLimit = RateLimit]),
      WithAll(LAMBDA o : [o EXCEPT !.retry = Retry, !.rateLimit = RateLimit]),
      WithAll(LAMBDA o : [o EXCEPT !.pagination.strategy = "short_page"]),
      WithGraphql(Graphql), WithGraphql([Graphql EXCEPT !.retry = Retry, !.graphql.scanBodyBytes = 9]),
      Single("root_array", "many"), Single("terminal_collection", "many"),
      Single("root_object", "one"),
      WithCredential(Credential("bearer", "authorization_header", "", <<"api">>)),
      WithCredential(Credential("bearer", "authorization_header", "", <<"cdn", "api">>)),
      WithCredential(Credential("api_key", "query", "key", <<"api">>)),
      WithCredential(Credential("api_key", "query", "is", <<"api">>)),
      [Base EXCEPT !.relation.predicates[2].operations = <<"searching">>],
      [Base EXCEPT !.relation.inputs = <<Input("q", TRUE, Text)>>],
      [Base EXCEPT !.relation.operations = <<Matching>>,
                   !.relation.predicates[1].operations = <<"matching">>],
      [Base EXCEPT !.relation.columns[2].extract = <<"n", "s">>] }

\* One defect each: the phase that should find it, or none.
Defective ==
    { \* the number 1 and the text '1' are the same on the wire
      [Base EXCEPT !.relation.predicates[2].literal = OneText],
      [Base EXCEPT !.relation.version = "duckdb_api/v2"],
      [Base EXCEPT !.relation.columns[1].elementType = "BIGINT"],
      [Base EXCEPT !.relation.operations[1].fallback = FALSE],
      [Base EXCEPT !.relation.operations[2].when = << >>, !.relation.operations[2].fallback = TRUE],
      [Base EXCEPT !.relation.operations[1].pagination.pages = 9],
      [Base EXCEPT !.relation.operations[1].origin = "cdn2"],
      [Base EXCEPT !.relation.operations[1].pagination.size = 0],
      [Base EXCEPT !.relation.operations[1].query = <<Field("page", "LITERAL", "1")>>],
      [Base EXCEPT !.relation.operations[1].query[2].source = "3"],
      [Base EXCEPT !.relation.predicates[2].operations = <<"all">>],
      [Base EXCEPT !.relation.resources.scanRecords = 5],
      [Base EXCEPT !.relation.inputs = <<Input("q", FALSE, NullScalar("VARCHAR"))>>],
      [Base EXCEPT !.relation.credential = "token"],
      [Base EXCEPT !.manifest.maxResponseBytes = 3] }

MCPackages == Sound \cup Defective
MCBasePackage == {Base}

\* The author moves the base package between two versions of the language.
Older == [Base EXCEPT !.manifest.version = "duckdb_api/v2", !.relation.version = "duckdb_api/v2"]
MCRevisions == {<<Base, Older>>}

MCArguments ==
    [inputs : {<< >>, [q |-> Text], [q |-> NullScalar("VARCHAR")]}, secret : {"", "s"}]

Number == ColumnRef(1, "BIGINT", TRUE)
Name == ColumnRef(2, "VARCHAR", TRUE)
IsOne == Equal(Number, Constant(One))
IsTwo == Equal(Constant(Two), Number)
IsText == Equal(Name, Constant(Text))
IsOneText == Equal(Name, Constant(OneText))
Other == Equal(ColumnRef(1, "BIGINT", FALSE), Constant(One))

MCFilters ==
    { << >>, <<IsOne>>, <<IsTwo>>, <<IsText>>, <<IsOneText>>, <<Other>>,
      <<IsOne, IsOne>>, <<IsOne, IsText>>, <<IsOne, IsTwo>>, <<IsOne, Other>>,
      <<AllOf(<<IsOne, IsOne>>)>>, <<AllOf(<<IsOne, NotEqual(Name, Constant(Text))>>)>>,
      <<AnyOf(<<IsOne, IsTwo>>)>>, <<NotOf(IsOne)>>, <<IsOne, NotOf(IsTwo)>>, <<NotOf(IsText), IsTwo>>,
      <<AnyOf(<<IsOne, IsTwo>>), IsText>>, <<AnyOf(<<IsOne>>)>>,
      <<Equal(Name, Constant(NullScalar("VARCHAR")))>>,
      <<NotOf(NotOf(IsOne))>>, <<NotOf(NotOf(NotOf(IsOne)))>>,
      <<IsOne, IsTwo, IsText, IsOne>>, <<IsOne, IsTwo, IsText, IsOne, IsOne>>,
      <<IsOne, AllOf(<<IsOne, NotOf(IsOne)>>)>>,
      <<AllOf(<<IsOne, IsText>>), AllOf(<<IsOne, IsText>>)>> }

\* The expressions of these filters and their parts, three levels down.
Parts(expressions) == expressions \cup UNION {ToSet(e.children) : e \in expressions}
MCExpressions == Parts(Parts(Parts(UNION {ToSet(f) : f \in MCFilters})))

Cell(values) == values \cup {NullScalar("BIGINT")}
MCRows == Cell({One, Two}) \X Cell({Text, OneText, Scalar("VARCHAR", "y")}) \X {One}

DefaultProfile ==
    [retryStep |-> 3, retryScan |-> 6, retryDelay |-> 2, retryWait |-> 4, rateStep |-> 3,
     rateScan |-> 6, rateDelay |-> 3, rateWait |-> 5, combinedWait |-> 8, records |-> 3, origin |-> ""]
MCDefaultProfile == {DefaultProfile}
MCProfiles ==
    { DefaultProfile,
      [DefaultProfile EXCEPT !.retryStep = 1, !.rateStep = 2],
      [DefaultProfile EXCEPT !.retryScan = 2, !.rateScan = 1, !.combinedWait = 4],
      [DefaultProfile EXCEPT !.rateStep = 0, !.combinedWait = 0, !.retryScan = 3],
      [DefaultProfile EXCEPT !.records = 1, !.origin = "api"] }

MCContract == [maxBigint |-> 100, maxU64 |-> 201, queryFields |-> 4, statuses |-> 2, guidance |-> 2,
               retryAttempts |-> 3, retryDelay |-> 2, retryWait |-> 4, rateDelay |-> 3, rateWait |-> 5]
MCHost == [pages |-> 2, liveBytes |-> 3, liveRecords |-> 3, liveString |-> 2, pageBytes |-> 3,
           scanBytes |-> 8, pageRecords |-> 3, scanRecords |-> 4, pageString |-> 2,
           pageHeader |-> 2, scanHeader |-> 4, pageDecompressed |-> 2, scanDecompressed |-> 4,
           pageBody |-> 2, scanBody |-> 9, stepAttempts |-> 3, scanAttempts |-> 6, waiting |-> 9,
           targetBytes |-> 30, columns |-> 3]
=============================================================================

-------------------------- MODULE PlanningPipeline --------------------------
(***************************************************************************)
(* A statement over a generated relation, from its package to its requests *)
(* (query/duckdb/generated_relation_adapter.cpp, relation_execution.cpp,   *)
(* table_function_adapter.cpp, scan_request.cpp).                          *)
(*                                                                         *)
(* A package is taken from its directory and compiled once.  A statement   *)
(* binds it with named arguments and plans the unrestricted request.       *)
(* DuckDB's optimizer may then call the filter callback any number of      *)
(* times, each time with the filters it holds at that moment: each call    *)
(* plans again from the request kept at bind and replaces the selected     *)
(* plan, or ends the statement.  Execution admits the selected plan under  *)
(* the operator's profile.  DuckDB itself evaluates the filters it passed  *)
(* last, whatever was pushed.                                              *)
(***************************************************************************)
EXTENDS PackageCompiler, PlanAdmission, PackageSource

CONSTANTS
    Arguments,     \* named arguments of a call: [inputs, secret]
    Filters,       \* what DuckDB may pass to one filter callback
    Profiles,      \* execution profiles an operator may construct
    Rows,          \* rows of the remote collection, by column
    MaxCallbacks   \* filter callbacks per statement

\* Lists are lists, and a number is what the parser and the unsigned fields
\* of the code can hold; nothing else is assumed of what an author writes.
IsSequence(s) == s \in Seq(ToSet(s))

DeclaredOperation(operation) ==
    /\ IsSequence(operation.query)
    /\ \A f \in {"size", "first", "increment", "pages"} : operation.pagination[f] \in Nat
    /\ \A f \in {"size", "pages", "bodyBytes", "scanBodyBytes"} : operation.graphql[f] \in Nat

DeclaredRelation(relation) ==
    /\ \A f \in {"pageBytes", "scanBytes", "pageRecords", "scanRecords", "stringBytes"} :
         relation.resources[f] \in Nat
    /\ IsSequence(relation.operations) /\ IsSequence(relation.predicates)
    /\ \A i \in DOMAIN relation.operations : DeclaredOperation(relation.operations[i])
    /\ \A i \in DOMAIN relation.predicates : IsSequence(relation.predicates[i].operations)

Declarations == Packages \cup UNION {{r[1], r[2]} : r \in Revisions}

ASSUME DeclarationAssumption ==
    \A declaration \in Declarations :
      /\ declaration.manifest.maxResponseBytes \in Nat
      /\ DeclaredRelation(declaration.relation)

ASSUME FilterAssumption == Filters \subseteq Seq(Expressions)

ASSUME ProfileAssumption ==
    \A configured \in Profiles :
      \A f \in {"retryStep", "retryScan", "retryDelay", "retryWait", "rateStep", "rateScan",
                "rateDelay", "rateWait", "combinedWait", "records"} : configured[f] \in Nat

VARIABLES
    package,       \* the declaration
    profile,       \* the operator's profile, once it is read
    phase,         \* SOURCE, REJECTED, PUBLISHED, BOUND, FAILED, RUNNING, REFUSED, THROWN
    baseline,      \* the request kept at bind
    request,       \* the selected request
    plan,          \* the selected plan
    filters,       \* the filters DuckDB evaluates
    callbacks,     \* filter callbacks so far
    admitted,      \* the admitted profile
    sent           \* the query of the last request sent

vars == <<folder, acquisition, package, profile, phase, baseline, request, plan, filters, callbacks, admitted, sent>>

NoValue == [none |-> TRUE]
Connector == CompilePackageDeclaration(package)

\* The types DuckDB returns: a list for an array column.
ColumnTypes == [i \in DOMAIN Connector.relation.columns |->
                  IF Connector.relation.columns[i].shape = "ARRAY" THEN "LIST"
                  ELSE Connector.relation.columns[i].type]

\* Capabilities of a package request: cancellation and the secret manager.
BuildPackageScanRequest(inputs, secret) ==
    [inputs |-> inputs, predicate |-> Unrestricted, scope |-> "UNRESTRICTED",
     selective |-> FALSE, retains |-> FALSE, secret |-> secret, secretManager |-> TRUE]

\* The named arguments a registration declares, in its order, typed by it.
ExplicitInputs(given) ==
    LET declared == SelectSeq(Connector.relation.inputs,
                              LAMBDA input : input.name \in DOMAIN given)
    IN  [i \in DOMAIN declared |->
           [id |-> declared[i].name, scalar |-> Canonical(given[declared[i].name])]]

\* secret is required exactly for an authenticated relation, and not empty.
BindGeneratedSecret(secret) ==
    IF Connector.relation.authentication.required THEN secret # "" ELSE secret = ""

\* DuckDB itself rejects an argument the table function does not declare or
\* cannot cast: these never reach the bind callback.
AcceptedArguments(arguments) ==
    \A name \in DOMAIN arguments.inputs :
      \E i \in DOMAIN Connector.relation.inputs :
        /\ Connector.relation.inputs[i].name = name
        /\ Connector.relation.inputs[i].type = arguments.inputs[name].type

ValidateGeneratedRelationSchema(result) == result.columns = Connector.relation.columns

-----------------------------------------------------------------------------

Init ==
    /\ SourceInit /\ package = NoValue /\ profile = NoValue
    /\ phase = "SOURCE" /\ baseline = NoValue /\ request = NoValue /\ plan = NoValue
    /\ filters = << >> /\ callbacks = 0 /\ admitted = NoValue /\ sent = << >>

\* The author edits and the acquisition runs.
AcquireStep ==
    /\ phase = "SOURCE"
    /\ SourceNext
    /\ UNCHANGED <<package, profile, phase, baseline, request, plan, filters, callbacks,
                   admitted, sent>>

\* The snapshot keeps what was read; the directory is not looked at again.
CustodyEnds == acquisition' = Unopened /\ folder' = NoFile

\* CompileLocalPackageRoot after an acquisition that threw.
SourceFailure ==
    /\ phase = "SOURCE" /\ acquisition.stage = "FAILED"
    /\ phase' = "REJECTED"
    /\ CustodyEnds
    /\ UNCHANGED <<package, profile, baseline, request, plan, filters, callbacks, admitted, sent>>

\* CompilePackage: all or nothing.
Compile ==
    /\ phase = "SOURCE" /\ acquisition.stage = "ACQUIRED"
    /\ package' = Acquired
    /\ \E outcome \in {CompilePackage(Acquired)} :
         phase' = CASE outcome = "COMPILED" -> "PUBLISHED"
                    [] outcome \in {"SCHEMA", "COMPILE"} -> "REJECTED"
                    [] outcome = "THROWN" -> "THROWN"
    /\ CustodyEnds
    /\ UNCHANGED <<profile, baseline, request, plan, filters, callbacks, admitted, sent>>

BindGeneratedRelation(arguments) ==
    /\ phase = "PUBLISHED"
    /\ AcceptedArguments(arguments)
    /\ \E candidate \in {BuildPackageScanRequest(ExplicitInputs(arguments.inputs), arguments.secret)} :
       \E result \in {BuildScanPlan(Connector, candidate)} :
       LET bound == BindGeneratedSecret(arguments.secret) /\ IsPlan(result)
       IN  /\ phase' = IF bound THEN "BOUND" ELSE "FAILED"
           /\ baseline' = IF bound THEN candidate ELSE NoValue
           /\ request' = IF bound THEN candidate ELSE NoValue
           /\ plan' = IF bound THEN result ELSE NoValue
    /\ UNCHANGED <<folder, acquisition, package, profile, filters, callbacks, admitted, sent>>

\* The candidate request of one callback, built on the request kept at bind.
FilterCandidate(translated) ==
    [baseline EXCEPT !.selective = TRUE, !.retains = TRUE,
                     !.predicate = translated.candidate, !.scope = translated.scope]

\* The filters stay with DuckDB whatever the callback plans.
GeneratedRelationPushdown(offered) ==
    /\ phase = "BOUND"
    /\ callbacks < MaxCallbacks
    /\ callbacks' = callbacks + 1
    /\ filters' = offered
    /\ \E translated \in {TranslateComplexFilters(ColumnTypes, offered)} :
       \E candidate \in {FilterCandidate(translated)} :
       \E result \in {IF translated.candidate = REFUSED THEN INVALID
                      ELSE BuildScanPlan(Connector, candidate)} :
         /\ phase' = IF translated.candidate = REFUSED THEN "THROWN"
                     ELSE IF IsPlan(result) /\ ValidateGeneratedRelationSchema(result) THEN "BOUND"
                     ELSE "FAILED"
         /\ request' = IF IsPlan(result) THEN candidate ELSE request
         /\ plan' = IF IsPlan(result) THEN result ELSE plan
    /\ UNCHANGED <<folder, acquisition, package, profile, baseline, admitted, sent>>

\* Open the stream the plan asks for.  The executor's profile was fixed when
\* it was constructed; nothing before this step reads it.
InitializeRelationExecution(configured) ==
    /\ phase = "BOUND"
    /\ profile' = configured
    /\ \E result \in {TryAdmitPlan(plan, configured)} :
         /\ phase' = IF result = REFUSED THEN "REFUSED" ELSE "RUNNING"
         /\ admitted' = IF result = REFUSED THEN NoValue ELSE result
    /\ UNCHANGED <<folder, acquisition, package, baseline, request, plan, filters, callbacks, sent>>

\* One request: the page of a REST scan, or the one query.
SendRequest(page) ==
    /\ phase = "RUNNING"
    /\ IF plan.paginated /\ plan.operation.protocol = "REST"
       THEN /\ BuildAdmittedPageRequest(plan, page) # REFUSED
            /\ sent' = BuildAdmittedPageRequest(plan, page).query
       ELSE page = 1 /\ sent' = admitted.query
    /\ UNCHANGED <<folder, acquisition, package, profile, phase, baseline, request, plan, filters, callbacks, admitted>>

\* The statement ends and the relation can be bound again.
EndStatement ==
    /\ phase \in {"FAILED", "REFUSED", "RUNNING", "BOUND"}
    /\ phase' = "PUBLISHED"
    /\ baseline' = NoValue /\ request' = NoValue /\ plan' = NoValue /\ filters' = << >>
    /\ callbacks' = 0 /\ admitted' = NoValue /\ sent' = << >> /\ profile' = NoValue
    /\ UNCHANGED <<folder, acquisition, package>>

Next ==
    \/ AcquireStep
    \/ SourceFailure
    \/ Compile
    \/ \E arguments \in Arguments : BindGeneratedRelation(arguments)
    \/ \E offered \in Filters : GeneratedRelationPushdown(offered)
    \/ \E configured \in Profiles : InitializeRelationExecution(configured)
    \/ \E page \in 1..Host.pages : SendRequest(page)
    \/ EndStatement

Spec == Init /\ [][Next]_vars

-----------------------------------------------------------------------------
(* Properties.                                                             *)

\* A request that carries a conditional value returns every row DuckDB's
\* filters keep: such a row satisfies the equality the package maps to that
\* very text on that operation.  When the plan claims an exact restriction,
\* the rows of the equality are the rows the filters keep.  The wire forgets
\* the type of a value, callbacks replace one another, and only positive
\* conjuncts justify a restriction.
PushdownSound ==
    \A i \in DOMAIN sent : sent[i].source = "CONDITIONAL_INPUT" =>
      LET relation == Connector.relation
          mapped == {relation.mappings[k] : k \in
                      IndexesOf(relation.mappings, LAMBDA m :
                        /\ m.operation = plan.operation.name /\ m.input = sent[i].id
                        /\ m.encoded = sent[i].encoded)}
          Satisfies(row, m) ==
            \E c \in DOMAIN relation.columns :
              relation.columns[c].name = m.column /\ row[c] = m.literal
      IN  /\ mapped # {}
          /\ \A row \in Rows : \A m \in mapped :
               /\ Keeps(filters, row) => Satisfies(row, m)
               /\ plan.decision.accuracy = "EXACT" => (Satisfies(row, m) <=> Keeps(filters, row))

\* An operation is selected because its required inputs have values, and the
\* request carries those it declares as query fields: the selector's view of
\* the filter and the classifier's, computed apart, agree.
SelectionJustified ==
    phase = "RUNNING" =>
      \A reference \in plan.operation.references :
        IF reference[1] = "CONDITIONAL_INPUT"
        THEN \E i \in DOMAIN admitted.query :
               admitted.query[i].source = "CONDITIONAL_INPUT" /\ admitted.query[i].id = reference[2]
        ELSE (\E i \in DOMAIN plan.operation.query :
                plan.operation.query[i].source = "RELATION_INPUT"
                  /\ plan.operation.query[i].id = reference[2]) =>
               \E i \in DOMAIN admitted.query :
                 admitted.query[i].source = "RELATION_INPUT" /\ admitted.query[i].id = reference[2]

\* Authority only narrows: what a scan may attempt, wait and request is
\* within the declaration, the plan and the operator's profile, and every
\* page the plan allows still has an attempt.
AdmittedNeverWidens ==
    phase = "RUNNING" =>
      LET a == admitted.resilience
          o == plan.operation
          pages == plan.scan.pages
      IN  /\ a.step <= AttemptsPerStep(o) /\ a.step <= Higher(profile.retryStep, profile.rateStep)
          /\ a.scan \in pages..Lower(plan.scan.attempts, pages * a.step)
          /\ a.scan <= Higher(profile.retryScan, profile.rateScan)
          /\ a.retry.wait <= profile.retryWait
          /\ a.wait <= o.retry.wait + o.rateLimit.wait
          /\ a.rateLimit.wait > 0 => a.wait <= profile.combinedWait
          /\ pages <= Host.pages /\ PagesOf(o) <= Higher(pages, 1)
          /\ admitted.page.bytes <= Connector.relation.ceilings.pageBytes
          /\ admitted.page.records <= profile.records

\* No filter makes a callback throw: the depth and the nodes the translation
\* counts on its way down are the ones the predicate's constructors check.
TranslationFits == phase = "THROWN" => request = NoValue

\* What the documentation says of an exact leaf of a larger conjunction: it
\* is a superset restriction, and the plan holds all that execution needs.
RestrictedPlansAdmitted ==
    phase = "REFUSED" => plan.decision.accuracy # "SUPERSET"
=============================================================================

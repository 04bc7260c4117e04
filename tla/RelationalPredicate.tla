------------------------ MODULE RelationalPredicate ------------------------
(***************************************************************************)
(* The structured predicate a scan request carries                         *)
(* (semantics/relational_predicate.cpp), its translation from the filter   *)
(* expressions DuckDB offers (query/duckdb/complex_filter_adapter.cpp),    *)
(* and the three-valued meaning of both, which is DuckDB's.                *)
(*                                                                         *)
(* A typed scalar is a record [type, null, value] whose value is its       *)
(* canonical text.  A row maps declared column indexes to typed scalars.   *)
(* Names and texts are model strings: only equality of them matters here.  *)
(* Predicates and expressions are finite trees.                            *)
(***************************************************************************)
EXTENDS Integers, Sequences, SequencesExt, FiniteSets

CONSTANTS
    MaxPredicateDepth,   \* MAX_REQUESTED_PREDICATE_DEPTH
    MaxPredicateNodes,   \* MAX_REQUESTED_PREDICATE_NODES
    Expressions          \* the filter expressions of DuckDB, with their parts

ASSUME PredicateLimits ==
    /\ MaxPredicateDepth \in Nat \ {0}
    /\ MaxPredicateNodes \in Nat \ {0}

ASSUME ExpressionAssumption == \A e \in Expressions : e.children \in Seq(Expressions)

ScalarTypes == {"BIGINT", "VARCHAR", "BOOLEAN", "DOUBLE"}

\* A constructor that throws yields this value.
REFUSED == [refused |-> TRUE]

Scalar(type, value) == [type |-> type, null |-> FALSE, value |-> value]
NullScalar(type) == [type |-> type, null |-> TRUE, value |-> ""]

\* DOUBLE values are normalised when they enter a predicate or an explicit
\* input: negative zero becomes the one canonical zero.
Canonical(scalar) ==
    IF scalar.type = "DOUBLE" /\ scalar.value = "-0"
    THEN [scalar EXCEPT !.value = "0"] ELSE scalar

-----------------------------------------------------------------------------
(* RequestedPredicate.                                                     *)

Leaf(kind) == [kind |-> kind, column |-> 0, literal |-> NullScalar("BIGINT"),
               children |-> << >>, depth |-> 1, nodes |-> 1]

Unrestricted == Leaf("UNRESTRICTED")
Unsupported == Leaf("UNSUPPORTED")

Comparison(column, type, literal) ==
    IF type # literal.type THEN REFUSED
    ELSE [Leaf("COMPARISON") EXCEPT !.column = column, !.literal = literal]

\* The count of a node and its first i children, or -1 when a child does not
\* fit: the loop compares each with what is left before it adds it.
NodesAfter(children) ==
    LET after[i \in 0..Len(children)] ==
          IF i = 0 THEN 1
          ELSE LET before == after[i - 1] IN
               IF before = -1 \/ children[i].nodes > MaxPredicateNodes - before THEN -1
               ELSE before + children[i].nodes
    IN  after

\* A child that was refused has thrown already.
BooleanNode(kind, children) ==
    IF \E i \in DOMAIN children : children[i] = REFUSED THEN REFUSED
    ELSE
    LET depths == {1} \cup {children[i].depth + 1 : i \in DOMAIN children}
        depth == CHOOSE d \in depths : \A e \in depths : e <= d
        nodes == NodesAfter(children)[Len(children)]
    IN  IF \/ Len(children) < 2
           \/ nodes = -1
           \/ depth > MaxPredicateDepth
           \/ nodes > MaxPredicateNodes
        THEN REFUSED
        ELSE [Leaf(kind) EXCEPT !.children = children,
                                !.depth = depth, !.nodes = nodes]

Negation(child) ==
    IF child = REFUSED THEN REFUSED
    ELSE IF child.depth + 1 > MaxPredicateDepth \/ child.nodes + 1 > MaxPredicateNodes
    THEN REFUSED
    ELSE [Leaf("NEGATION") EXCEPT !.children = <<child>>,
              !.depth = child.depth + 1, !.nodes = child.nodes + 1]

\* The nodes of a predicate, level by level.
PredicateNodes(p) ==
    LET level[k \in Nat] ==
          IF k = 0 THEN {p} ELSE UNION {ToSet(node.children) : node \in level[k - 1]}
    IN  UNION {level[k] : k \in 0..p.depth}

\* An opaque leaf anywhere: what the planner requires of a request whose
\* retained scope is the complete DuckDB filter.
ContainsOpaqueUnsupportedPosition(p) ==
    \E node \in PredicateNodes(p) : node.kind = "UNSUPPORTED"

-----------------------------------------------------------------------------
(* DuckDB's expressions, and their translation.  An operand is a column    *)
(* reference (own: bound to this scan at depth 0) or a constant.           *)

ColumnRef(index, type, own) ==
    [operand |-> "COLUMN", column |-> index, own |-> own, scalar |-> NullScalar(type)]
Constant(scalar) ==
    [operand |-> "CONSTANT", column |-> 0, own |-> FALSE, scalar |-> scalar]

Expr(class, left, right, children) ==
    [class |-> class, left |-> left, right |-> right, children |-> children]
NoOperand == Constant(NullScalar("BIGINT"))
Equal(left, right) == Expr("COMPARE_EQUAL", left, right, << >>)
NotEqual(left, right) == Expr("COMPARE_NOTEQUAL", left, right, << >>)
AllOf(children) == Expr("CONJUNCTION_AND", NoOperand, NoOperand, children)
AnyOf(children) == Expr("CONJUNCTION_OR", NoOperand, NoOperand, children)
NotOf(child) == Expr("OPERATOR_NOT", NoOperand, NoOperand, <<child>>)

\* columnTypes: the returned types of the scan, "LIST" for an array column.
ResolveBoundColumn(columnTypes, operand) ==
    /\ operand.operand = "COLUMN"
    /\ operand.own
    /\ operand.column \in DOMAIN columnTypes
    /\ operand.scalar.type = columnTypes[operand.column]
    /\ operand.scalar.type \in ScalarTypes

RequestedLiteral(operand, type) ==
    /\ operand.operand = "CONSTANT"
    /\ ~operand.scalar.null
    /\ operand.scalar.type = type

\* The comparison of a column with a literal, on whichever side they stand;
\* REFUSED stands for "not translated".
TranslateComparison(columnTypes, expression) ==
    LET Take(column, literal) ==
            IF ResolveBoundColumn(columnTypes, column)
                 /\ RequestedLiteral(literal, column.scalar.type)
            THEN Comparison(column.column, column.scalar.type,
                            Canonical(literal.scalar))
            ELSE REFUSED
        forward == Take(expression.left, expression.right)
    IN  IF expression.class # "COMPARE_EQUAL" THEN REFUSED
        ELSE IF forward # REFUSED THEN forward
        ELSE Take(expression.right, expression.left)

\* Mutant: the budget is noticed one node too late.
OverBudgetLate(depth, count) == depth > MaxPredicateDepth \/ count > MaxPredicateNodes

OverBudget(depth, count) == depth > MaxPredicateDepth \/ count >= MaxPredicateNodes

\* A translation threads the node count and the budget flag through the
\* children: a result is [candidate, complete, count, exceeded].
Opaque(count, exceeded) == [candidate |-> Unsupported, complete |-> FALSE,
                            count |-> count, exceeded |-> exceeded]

\* No child translated, and one more; nothing is done once one exceeds.
\* translation is the function from an expression, its depth and the nodes
\* counted so far.
NoChild(count) == [candidates |-> << >>, complete |-> TRUE, count |-> count, exceeded |-> FALSE]
NextChild(translation, child, depth, before) ==
    LET next == translation[<<child, depth, before.count>>]
    IN  IF before.exceeded THEN before
        ELSE [candidates |-> Append(before.candidates, next.candidate),
              complete |-> before.complete /\ next.complete,
              count |-> next.count, exceeded |-> next.exceeded]

\* The candidates of the first i children.
TranslateChildren(translation, children, depth, count) ==
    LET after[i \in 0..Len(children)] ==
          IF i = 0 THEN NoChild(count)
          ELSE NextChild(translation, children[i], depth, after[i - 1])
    IN  after

\* A boolean expression with the translations of its children.
TranslateBoolean(expression, count, inner) ==
    LET Result(candidate) == [candidate |-> candidate, complete |-> inner.complete,
                              count |-> inner.count, exceeded |-> FALSE]
    IN  CASE expression.class \in {"CONJUNCTION_AND", "CONJUNCTION_OR"} ->
               IF Len(expression.children) < 2 THEN Opaque(count + 1, FALSE)
               ELSE IF inner.exceeded THEN Opaque(inner.count, TRUE)
               ELSE IF expression.class = "CONJUNCTION_AND"
               THEN Result(BooleanNode("CONJUNCTION", inner.candidates))
               ELSE Result(BooleanNode("DISJUNCTION", inner.candidates))
          [] expression.class = "OPERATOR_NOT" ->
               IF Len(expression.children) # 1 THEN Opaque(count + 1, FALSE)
               ELSE IF inner.exceeded THEN Opaque(inner.count, TRUE)
               ELSE Result(Negation(inner.candidates[1]))
          [] OTHER -> Opaque(count + 1, FALSE)

TranslateNode(translation, columnTypes, expression, depth, count) ==
    LET comparison == TranslateComparison(columnTypes, expression) IN
    IF OverBudget(depth, count) THEN Opaque(count, TRUE)
    ELSE IF comparison # REFUSED
    THEN [candidate |-> comparison, complete |-> TRUE, count |-> count + 1, exceeded |-> FALSE]
    ELSE TranslateBoolean(expression, count,
             TranslateChildren(translation, expression.children, depth + 1, count + 1)
               [Len(expression.children)])

TranslateExpression(columnTypes) ==
    LET translation[at \in Expressions \X Nat \X Nat] ==
          TranslateNode(translation, columnTypes, at[1], at[2], at[3])
    IN  translation

\* The candidate of all translated filters and the scope DuckDB retains.
Translated(all) ==
    IF all.exceeded THEN [candidate |-> Unsupported, scope |-> "COMPLETE_DUCKDB_FILTER"]
    ELSE [candidate |-> IF Len(all.candidates) = 1 THEN all.candidates[1]
                        ELSE BooleanNode("CONJUNCTION", all.candidates),
          scope |-> IF all.complete THEN "REQUESTED_PREDICATE"
                    ELSE "COMPLETE_DUCKDB_FILTER"]

TranslateComplexFilters(columnTypes, filters) ==
    LET present == Len(filters)
    IN  IF present = 0 THEN [candidate |-> Unrestricted, scope |-> "UNRESTRICTED"]
        ELSE Translated(TranslateChildren(TranslateExpression(columnTypes), filters,
                                          IF present > 1 THEN 2 ELSE 1,
                                          IF present > 1 THEN 1 ELSE 0)[present])

-----------------------------------------------------------------------------
(* The meaning DuckDB gives the filter: TRUE, FALSE or NULL.               *)

OperandValue(operand, row) ==
    IF operand.operand = "CONSTANT" THEN Canonical(operand.scalar) ELSE row[operand.column]

\* The meaning of an expression, given that of its children.
MeaningOf(meaning, expression, row) ==
    LET left == OperandValue(expression.left, row)
        right == OperandValue(expression.right, row)
        inner == {meaning[child] : child \in ToSet(expression.children)}
        Truth(b) == IF b THEN "TRUE" ELSE "FALSE"
    IN  CASE expression.class \in {"COMPARE_EQUAL", "COMPARE_NOTEQUAL"} ->
               IF left.null \/ right.null THEN "NULL"
               ELSE Truth((left = right) <=> (expression.class = "COMPARE_EQUAL"))
          [] expression.class = "CONJUNCTION_AND" ->
               IF "FALSE" \in inner THEN "FALSE" ELSE IF inner \subseteq {"TRUE"} THEN "TRUE" ELSE "NULL"
          [] expression.class = "CONJUNCTION_OR" ->
               IF "TRUE" \in inner THEN "TRUE" ELSE IF inner \subseteq {"FALSE"} THEN "FALSE" ELSE "NULL"
          [] expression.class = "OPERATOR_NOT" ->
               IF inner = {"TRUE"} THEN "FALSE" ELSE IF inner = {"FALSE"} THEN "TRUE" ELSE "NULL"

Meaning(row) ==
    LET meaning[expression \in Expressions] == MeaningOf(meaning, expression, row) IN meaning

\* The rows a query keeps: every filter TRUE.
Keeps(filters, row) == \A i \in DOMAIN filters : Meaning(row)[filters[i]] = "TRUE"
=============================================================================

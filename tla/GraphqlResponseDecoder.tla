----------------------- MODULE GraphqlResponseDecoder -----------------------
(***************************************************************************)
(* From the body of a GraphQL response to typed rows and a cursor          *)
(* (src/src/runtime/decoding/graphql_response_decoder.cpp over             *)
(* strict_json_reader.cpp): one walk of the document for each of errors,   *)
(* nodes, has-next and end cursor, and one walk of a node for each column. *)
(*                                                                         *)
(* Documents, values and the memory of a parse are those of JsonDecoder,   *)
(* with which this decoder shares its rules but not its code.  Unlike      *)
(* there a null parent makes a nullable column null, and a number may only *)
(* have so many characters.                                                *)
(***************************************************************************)
EXTENDS JsonDecoder

\* strict_json_reader.cpp: syntax, UTF-8 and nesting of the whole document.
StrictDocument(body) ==
  CASE ~body.wellformed -> "json"
    [] body.wellformed /\ body.nesting > Limits.nesting -> "json_nesting"
    [] OTHER -> "none"

\* One value at the end of a required path, with objects along it.
Traverse(found) == found.parent = "object" /\ Len(found.values) = 1

\* No errors field, or an empty array of them.
CheckErrors(s, found) ==
  CASE found.parent = "twice" \/ Len(found.values) > 1 -> Reject(s, "schema")
    [] found.parent = "object" /\ Len(found.values) = 1 ->
         (CASE found.values[1].json # "array" -> Reject(s, "schema")
            [] found.values[1].json = "array" /\ found.values[1].elements # <<>> ->
                 Reject(s, "remote_protocol")
            [] OTHER -> s)
    [] OTHER -> s

AllocateRows(memory, max_records) ==
  ReserveCoLive(Fresh(memory), "decoded", 0, max_records * Sizes.row)

\* The observer of the reader's strings: what the requested buffer takes is
\* charged with the current one still live, then the current one goes.
ReserveStringCapacity(s, current, requested) ==
  IF s.error # "none" THEN s
  ELSE IF Live(s) + requested > s.limit THEN Reject(s, "decoded_memory_bytes")
  ELSE [s EXCEPT !.strings = @ - current + requested,
                 !.peak = IF Live(s) + requested > @ THEN Live(s) + requested ELSE @]

\* strict_json_reader.cpp: the k-th byte of a string.
ReserveAppend(s, k) ==
  IF k > Limits.string THEN Reject(s, "string_bytes")
  ELSE IF StringCapacity[k] = StringCapacity[k - 1] THEN s
  ELSE ReserveStringCapacity(s, StringCapacity[k - 1], StringCapacity[k])

StrictString(s, bytes) ==
  LET after[k \in 0..bytes] ==
        IF k = 0 THEN ReserveStringCapacity(s, 0, Sizes.inline)
        ELSE ReserveAppend(after[k - 1], k)
  IN  after

\* strict_json_reader.cpp: a number's token may only have so many characters.
NumberTokenFits(v) == v.json = "number" => v.class # "long"

ParseBoundedString(s, v) ==
  IF v.json # "string" THEN Reject(s, "schema") ELSE StrictString(s, v.bytes)[v.bytes]

GraphqlScalarElement(s, column, v) ==
  IF column.kind = "VARCHAR" THEN ParseBoundedString(s, v)
  ELSE LET fits == CASE column.kind = "BIGINT" -> ParseBigInt(v)
                     [] column.kind = "DOUBLE" -> ParseDouble(v)
                     [] column.kind = "BOOLEAN" -> ParseBoolean(v)
       IN  IF ~fits THEN Reject(s, "schema")
           ELSE IF NumberTokenFits(v) THEN s ELSE Reject(s, "number_bytes")

GraphqlReserveElement(s, i) ==
  IF ElementCapacity[i] = ElementCapacity[i - 1] THEN s
  ELSE ReserveCoLive(s, "arrays", Sizes.scalar * ElementCapacity[i - 1],
                     Sizes.scalar * ElementCapacity[i])

GraphqlElement(s, column, element) ==
  IF IsNull(element)
  THEN IF column.element_nullable THEN s ELSE Reject(s, "schema")
  ELSE GraphqlScalarElement(s, column, element)

GraphqlElements(s, column, elements) ==
  LET after[i \in 0..Len(elements)] ==
        IF i = 0 THEN s
        ELSE GraphqlElement(GraphqlReserveElement(after[i - 1], i), column, elements[i])
  IN  after

GraphqlArray(s, column, v) ==
  IF v.json # "array" THEN Reject(s, "schema")
  ELSE GraphqlElements(s, column, v.elements)[Len(v.elements)]

\* The value of a column in a node: null when a parent is.
NodeValue(column, found) ==
  IF found.parent = "null" THEN [json |-> "null"] ELSE found.values[1]

ParseColumn(s, column, found) ==
  CASE found.parent = "null" -> IF column.nullable THEN s ELSE Reject(s, "schema")
    [] found.parent = "object" /\ Len(found.values) = 1 ->
         LET v == found.values[1]
         IN  IF IsNull(v) THEN IF column.nullable THEN s ELSE Reject(s, "schema")
             ELSE IF column.array THEN GraphqlArray(s, column, v)
             ELSE GraphqlScalarElement(s, column, v)
    [] OTHER -> Reject(s, "schema")

NodeColumn(s, record, i) == ParseColumn(s, Columns[i], record.fields[i])

\* The memory after each column of a node.
NodeColumns(s, record) ==
  LET after[i \in Nat] ==
        IF i = 0 THEN StageRecord(s) ELSE NodeColumn(after[i - 1], record, i)
  IN  after

NodeValues(record) == [i \in 1..Len(Columns) |-> NodeValue(Columns[i], record.fields[i])]

ParseNode(acc, record) ==
  FinishRecord(acc, record, NodeColumns(acc.s, record)[Len(Columns)], NodeValues(record))

NextNode(acc, record, max_records) ==
  IF Len(acc.rows) >= max_records
  THEN [acc EXCEPT !.s = Reject(@, "decoded_records")] ELSE ParseNode(acc, record)

ParseNodes(s, records, max_records) ==
  LET after[i \in 0..Len(records)] ==
        IF i = 0 THEN [s |-> s, rows |-> <<>>]
        ELSE NextNode(after[i - 1], records[i], max_records)
  IN  after

ParseRows(s, found, max_records) ==
  IF ~Traverse(found) \/ found.values[1].json # "array"
  THEN [s |-> Reject(s, "schema"), rows |-> <<>>]
  ELSE ParseNodes(s, found.values[1].elements, max_records)[Len(found.values[1].elements)]

ParseHasNext(s, found) ==
  IF Traverse(found) /\ ParseBoolean(found.values[1]) THEN s ELSE Reject(s, "schema")

ParseEndCursor(s, found) ==
  CASE ~Traverse(found) -> Reject(s, "schema")
    [] Traverse(found) /\ IsNull(found.values[1]) -> s
    [] OTHER -> ParseBoundedString(s, found.values[1])

\* A page that has a next one names it.
CursorPresent(s, has_next, cursor) ==
  IF has_next /\ (IsNull(cursor) \/ (cursor.json = "string" /\ cursor.bytes = 0))
  THEN Reject(s, "schema") ELSE s

DecodeGraphqlResponse(memory, max_records, body) ==
  LET syntax == StrictDocument(body)
      checked == CheckErrors(Fresh(memory), body.errors)
      acc == ParseRows(AllocateRows(memory, max_records), body.records, max_records)
      signalled == ParseEndCursor(ParseHasNext(acc.s, body.has_next), body.end_cursor)
  IN  CASE syntax # "none" -> Outcome([s |-> Reject(Fresh(memory), syntax), rows |-> <<>>])
        [] syntax = "none" /\ checked.error # "none" -> Outcome([s |-> checked, rows |-> <<>>])
        [] syntax = "none" /\ checked.error = "none" /\ signalled.error # "none" ->
             Outcome([acc EXCEPT !.s = signalled])
        [] OTHER -> Outcome([acc EXCEPT !.s = CursorPresent(signalled,
                               body.has_next.values[1].json = "true", body.end_cursor.values[1])])
=============================================================================

---------------------------- MODULE JsonDecoder ----------------------------
(***************************************************************************)
(* From the body of a REST response to typed rows                          *)
(* (src/src/runtime/decoding/json_decoder.cpp): the document is validated  *)
(* as a whole, then walked once; every selected value is converted or the  *)
(* page is refused, and every allocation is charged, with the buffer it    *)
(* replaces still live, against the page's memory before it is made.       *)
(*                                                                         *)
(* A document is not its characters: it says whether it is well formed,    *)
(* how deep it is, what its root is and what is found at the paths that    *)
(* the plan selects.  What is found at a path is its parent ("object",     *)
(* "null", "scalar", "missing" or "twice") and the values there in         *)
(* document order, none or several included.  A JSON value is              *)
(* [json |-> ...]; numbers have a class ("integer", "wide", "fraction",    *)
(* "overflow", and "long" for one of many digits) and a value, strings a   *)
(* length and a text.                                                      *)
(*                                                                         *)
(* The first error is kept; which of several errors it is depends on the   *)
(* order of the keys in the document, which is left out.  Cancellation and *)
(* the deadline are checked at every byte and belong to the stream.        *)
(***************************************************************************)
EXTENDS Integers, Sequences

CONSTANTS
  Columns,  \* sequence of [kind, array, element_nullable, nullable]
  Sizes,    \* [row, slot, value, scalar, inline] : bytes, and std::string's own
  Limits    \* [string, nesting, memory, cursor] : the page's budgets

ASSUME DecoderAssumption ==
  /\ Columns \in Seq([kind : {"BIGINT", "VARCHAR", "BOOLEAN", "DOUBLE"}, array : BOOLEAN,
                      element_nullable : BOOLEAN, nullable : BOOLEAN])
  /\ Len(Columns) >= 1
  /\ Sizes \in [row : Nat, slot : Nat, value : Nat, scalar : Nat, inline : Nat \ {0}]
  /\ Limits \in [string : Nat, nesting : Nat, memory : Nat, cursor : Nat]

-----------------------------------------------------------------------------
(* The memory of one parse *)

\* What is retained by finished rows, pending for the record at hand and kept for
\* the continuation, the largest sum so far, and the first error.
Fresh(memory) ==
  [decoded |-> 0, strings |-> 0, arrays |-> 0, structural |-> 0, continuation |-> 0,
   peak |-> 0, limit |-> memory, error |-> "none"]

Reject(s, error) == IF s.error = "none" THEN [s EXCEPT !.error = error] ELSE s

Live(s) == s.decoded + s.strings + s.arrays + s.structural + s.continuation

\* In a pool this many bytes come and these go.
Recharge(s, pool, old, new) ==
  LET In(name, bytes) == IF pool = name THEN bytes - old + new ELSE bytes
  IN  [s EXCEPT !.decoded = In("decoded", @), !.strings = In("strings", @),
                !.arrays = In("arrays", @), !.structural = In("structural", @),
                !.peak = IF Live(s) + new > @ THEN Live(s) + new ELSE @]

\* Variant: the buffer that is replaced is forgotten without being given back.
ReserveBesides(s, pool, old, new) ==
  IF s.error # "none" THEN s
  ELSE IF Live(s) + new > s.limit THEN Reject(s, "decoded_memory_bytes")
  ELSE Recharge(s, pool, 0, new)

\* A buffer of `new` bytes is allocated while the one of `old` bytes it replaces
\* is still live; then the old one goes.
ReserveCoLive(s, pool, old, new) ==
  IF s.error # "none" THEN s
  ELSE IF Live(s) + new > s.limit THEN Reject(s, "decoded_memory_bytes")
  ELSE Recharge(s, pool, old, new)

ReserveStructuralMemory(s, addition) == ReserveCoLive(s, "structural", 0, addition)

AllocateResult(memory, max_records) ==
  ReserveCoLive(Fresh(memory), "decoded", 0, max_records * Sizes.row)

\* std::string::capacity after n bytes, one push at a time.
StringCapacity[n \in Nat] ==
  IF n <= Sizes.inline THEN Sizes.inline
  ELSE LET c == StringCapacity[n - 1] IN IF n <= c THEN c ELSE 2 * c

\* The capacity a vector of n elements has when it doubles from one.
ElementCapacity[n \in Nat] ==
  IF n = 0 THEN 0
  ELSE LET c == ElementCapacity[n - 1]
       IN  IF n <= c THEN c ELSE IF c = 0 THEN 1 ELSE 2 * c

\* The k-th byte of a retained string.
ReserveRetainedString(s, k) ==
  IF k > Limits.string THEN Reject(s, "string_bytes")
  ELSE IF StringCapacity[k] = StringCapacity[k - 1] THEN s
  ELSE ReserveCoLive(s, "strings", StringCapacity[k - 1], StringCapacity[k])

\* The memory after each byte of a string.
StringAfter(s, bytes) ==
  LET after[k \in 0..bytes] ==
        IF k = 0 THEN ReserveCoLive(s, "strings", 0, Sizes.inline)
        ELSE ReserveRetainedString(after[k - 1], k)
  IN  after

ParseString(s, bytes) == StringAfter(s, bytes)[bytes]

\* Room for the i-th element.
ReserveArrayElement(s, i) ==
  IF ElementCapacity[i] = ElementCapacity[i - 1] THEN s
  ELSE ReserveCoLive(s, "arrays", Sizes.scalar * ElementCapacity[i - 1],
                     Sizes.scalar * ElementCapacity[i])

-----------------------------------------------------------------------------
(* Values *)

IsNull(v) == v.json = "null"

\* No fraction, no exponent and inside the range of int64_t.
ParseBigInt(v) == v.json = "number" /\ v.class = "integer"

\* Every number but one whose magnitude overflows.
ParseDouble(v) == v.json = "number" /\ v.class # "overflow"

ParseBoolean(v) == v.json \in {"true", "false"}

ParseScalarElement(s, column, v) ==
  IF column.kind = "VARCHAR"
  THEN IF v.json = "string" THEN ParseString(s, v.bytes) ELSE Reject(s, "schema")
  ELSE LET fits == CASE column.kind = "BIGINT" -> ParseBigInt(v)
                     [] column.kind = "DOUBLE" -> ParseDouble(v)
                     [] column.kind = "BOOLEAN" -> ParseBoolean(v)
       IN  IF fits THEN s ELSE Reject(s, "schema")

ParseElement(s, column, element) ==
  IF IsNull(element)
  THEN IF column.element_nullable THEN s ELSE Reject(s, "schema")
  ELSE ParseScalarElement(s, column, element)

\* The memory after each element of an array.
ElementsAfter(s, column, elements) ==
  LET after[i \in 0..Len(elements)] ==
        IF i = 0 THEN s
        ELSE ParseElement(ReserveArrayElement(after[i - 1], i), column, elements[i])
  IN  after

ParseArray(s, column, v) ==
  IF v.json # "array" THEN Reject(s, "schema")
  ELSE ElementsAfter(s, column, v.elements)[Len(v.elements)]

ParseColumnValue(s, column, v) ==
  CASE IsNull(v) -> IF column.nullable THEN s ELSE Reject(s, "schema")
    [] ~IsNull(v) /\ column.array -> ParseArray(s, column, v)
    [] OTHER -> ParseScalarElement(s, column, v)

\* Of what a record has at a column's path: exactly one value, under an object.
ParseSelectedObject(s, column, found) ==
  IF found.parent = "object" /\ Len(found.values) = 1
  THEN ParseColumnValue(s, column, found.values[1])
  ELSE Reject(s, "schema")

\* What a converted value carries.
Content(v) ==
  CASE v.json = "number" -> v.n
    [] v.json = "string" -> v.text
    [] OTHER -> IF v.json = "true" THEN 1 ELSE 0

TypedScalarValue(kind, v) ==
  CASE IsNull(v) -> [kind |-> kind, valid |-> FALSE]
    [] ~IsNull(v) /\ kind = "VARCHAR" ->
         [kind |-> kind, valid |-> TRUE, value |-> Content(v), bytes |-> v.bytes]
    [] OTHER -> [kind |-> kind, valid |-> TRUE, value |-> Content(v)]

TypedValue(column, v) ==
  IF column.array /\ ~IsNull(v)
  THEN [kind |-> column.kind, valid |-> TRUE,
        elements |-> [i \in DOMAIN v.elements |-> TypedScalarValue(column.kind, v.elements[i])]]
  ELSE TypedScalarValue(column.kind, v)

-----------------------------------------------------------------------------
(* Records *)

\* The sums of the first numbers of a sequence, and of all of them.
Sums(seq) ==
  LET sum[i \in 0..Len(seq)] == IF i = 0 THEN 0 ELSE sum[i - 1] + seq[i]
  IN  sum

SumOf(seq) == Sums(seq)[Len(seq)]

ScalarStringBytes(column, v) ==
  IF column.kind = "VARCHAR" /\ ~IsNull(v) THEN StringCapacity[v.bytes] ELSE 0

\* Bytes of the strings, and of the elements, that a column's value keeps.
ValueStringBytes(column, v) ==
  CASE IsNull(v) -> 0
    [] ~IsNull(v) /\ column.array ->
         SumOf([i \in 1..Len(v.elements) |-> ScalarStringBytes(column, v.elements[i])])
    [] OTHER -> ScalarStringBytes(column, v)

ValueElementBytes(column, v) ==
  IF column.array /\ ~IsNull(v) THEN Sizes.scalar * ElementCapacity[Len(v.elements)] ELSE 0

\* The row is finished: its memory moves from pending to decoded and the staging
\* slots go.
CommitRow(s, values) ==
  LET n == Len(Columns)
      strings == SumOf([i \in 1..n |-> ValueStringBytes(Columns[i], values[i])])
      arrays == SumOf([i \in 1..n |-> ValueElementBytes(Columns[i], values[i])])
      row_memory == n * Sizes.value + strings + arrays
  IN  IF \/ strings > s.strings
         \/ arrays > s.arrays
         \/ n * (Sizes.value + Sizes.slot) > s.structural
         \/ s.decoded + row_memory > s.limit
      THEN Reject(s, "decoded_memory_bytes")
      ELSE [s EXCEPT !.decoded = @ + row_memory, !.strings = @ - strings,
                     !.arrays = @ - arrays, !.structural = @ - n * (Sizes.value + Sizes.slot)]

\* A record begins with a staging slot for every column.
StageRecord(s) == ReserveStructuralMemory(s, Len(Columns) * Sizes.slot)

TypedRow(values) == [i \in 1..Len(Columns) |-> TypedValue(Columns[i], values[i])]

\* A record whose columns have left this memory and these values.
FinishRecord(acc, record, parsed, values) ==
  LET ready == ReserveStructuralMemory(parsed, Len(Columns) * Sizes.value)
  IN  CASE acc.s.error # "none" -> acc
        [] acc.s.error = "none" /\ record.json # "object" ->
             [acc EXCEPT !.s = Reject(@, "schema")]
        [] acc.s.error = "none" /\ record.json = "object" /\ ready.error # "none" ->
             [acc EXCEPT !.s = ready]
        [] OTHER -> [s |-> CommitRow(ready, values), rows |-> Append(acc.rows, TypedRow(values))]

RecordColumn(s, record, i) == ParseSelectedObject(s, Columns[i], record.fields[i])

\* The memory after each column of a record.
ColumnsAfter(s, record) ==
  LET after[i \in Nat] ==
        IF i = 0 THEN StageRecord(s) ELSE RecordColumn(after[i - 1], record, i)
  IN  after

RecordValues(record) == [i \in 1..Len(Columns) |-> record.fields[i].values[1]]

ParseRecord(acc, record) ==
  FinishRecord(acc, record, ColumnsAfter(acc.s, record)[Len(Columns)], RecordValues(record))

\* A record beyond those allowed is refused unread.
NextRecord(acc, record, max_records) ==
  IF Len(acc.rows) >= max_records
  THEN [acc EXCEPT !.s = Reject(@, "decoded_records")] ELSE ParseRecord(acc, record)

ParseRecords(s, records, max_records) ==
  LET after[i \in 0..Len(records)] ==
        IF i = 0 THEN [s |-> s, rows |-> <<>>]
        ELSE NextRecord(after[i - 1], records[i], max_records)
  IN  after

-----------------------------------------------------------------------------
(* Documents *)

\* The records of the document for one of the three response sources.
RecordsOf(source, body) ==
  CASE source = "ROOT_OBJECT" -> <<body.root>>
    [] source = "ROOT_ARRAY" -> body.root.elements
    [] source = "JSON_PATH_MANY" -> body.records.values[1].elements

RootMatches(source, body) ==
  body.root.json = IF source = "ROOT_ARRAY" THEN "array" ELSE "object"

\* One array at the end of the records path, with objects along it.
ParseRecordArrayObject(body) ==
  /\ body.records.parent = "object"
  /\ Len(body.records.values) = 1
  /\ body.records.values[1].json = "array"

\* Objects and arrays may only be so deep, selected or not.
SkipValue(nesting) == nesting <= Limits.nesting

ValidateDocument(body) ==
  CASE ~body.wellformed -> "json"
    [] body.wellformed /\ ~SkipValue(body.nesting) -> "json_nesting"
    [] OTHER -> "none"

\* The continuation scalar: absent along the path or null is no next page, twice
\* or of another type is an error.
ExtractContinuation(s, found) ==
  IF found.parent = "twice" \/ Len(found.values) > 1 THEN Reject(s, "schema")
  ELSE IF found.parent # "object" \/ found.values = <<>> THEN s
  ELSE LET v == found.values[1]
       IN  CASE IsNull(v) -> s
             [] v.json = "string" ->
                  LET t == ParseString(s, v.bytes)
                  IN  IF t.error # "none" THEN t
                      ELSE [t EXCEPT !.continuation = StringCapacity[v.bytes],
                                     !.strings = @ - StringCapacity[v.bytes]]
             [] OTHER -> Reject(s, "schema")

\* What the stream is told of the continuation: the candidate, or <<>>.
TakeNextUrl(found) ==
  IF found.parent = "object" /\ Len(found.values) = 1 /\ found.values[1].json = "string"
  THEN <<found.values[1]>> ELSE <<>>

Outcome(acc) == [s |-> acc.s, rows |-> IF acc.s.error = "none" THEN acc.rows ELSE <<>>]

DecodeJsonPage(source, memory, max_records, continues, body) ==
  LET allocated == AllocateResult(memory, max_records)
      syntax == ValidateDocument(body)
  IN  IF syntax # "none" \/ ~RootMatches(source, body)
         \/ (source = "JSON_PATH_MANY" /\ ~ParseRecordArrayObject(body))
      THEN Outcome([s |-> Reject(Fresh(memory), IF syntax = "none" THEN "schema" ELSE syntax),
                    rows |-> <<>>])
      ELSE IF allocated.error # "none" THEN Outcome([s |-> allocated, rows |-> <<>>])
      ELSE LET records == RecordsOf(source, body)
               acc == ParseRecords(allocated, records, max_records)[Len(records)]
           IN  IF continues /\ source = "JSON_PATH_MANY" /\ acc.s.error = "none"
               THEN Outcome([acc EXCEPT !.s = ExtractContinuation(@, body.next)])
               ELSE Outcome(acc)
=============================================================================

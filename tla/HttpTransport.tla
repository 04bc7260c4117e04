---------------------------- MODULE HttpTransport ----------------------------
(***************************************************************************)
(* One attempt over the wire (src/src/runtime/transport/): the callbacks   *)
(* through which libcurl hands over a response as it arrives               *)
(* (curl_response_accumulator.cpp), what is made of their flags once the   *)
(* transfer has ended (curl_transfer.cpp), and the decoding of a chunked   *)
(* body, which curl is told to leave alone (http_chunk_decoder.cpp).       *)
(*                                                                         *)
(* An exchange is what curl meets while it performs one request:           *)
(*   addresses  the resolved addresses, [allowed, connects]                *)
(*   events     the calls it makes, in order:                              *)
(*              [callback |-> "header", line |-> "status", "end", "fold"   *)
(*               or "field", bytes, ...], with a code, or a name, and the  *)
(*               items and the size of the value;                          *)
(*              [callback |-> "body", wire |-> bytes on the wire, octets]; *)
(*              [callback |-> "progress", total, current]                  *)
(*   result     curl's own result if no callback stops it                  *)
(*   stop       [at, flag] : from this call on the scan is "cancelled" or  *)
(*              "timed_out"; one past the last call is after the transfer  *)
(*   lacking    "body", "metadata" : allocations that fail                 *)
(* A header value is the sequence of its items (links, for a Link field).  *)
(* An octet is a hex digit, "cr", "lf", "ows", "ext" (a chunk extension),  *)
(* "field" (a trailer field) or some other character of a payload.         *)
(*                                                                         *)
(* Limits are [header, response, decompressed, metadata : bytes,           *)
(* retained : names of fields to keep, retain_date].  The options that     *)
(* curl is given, the spelling of field names and the wording of errors    *)
(* are left out; strings have the capacity they were reserved with.        *)
(***************************************************************************)
EXTENDS Naturals, Sequences, SequencesExt

CONSTANTS
  Storage,      \* [string, field, name, inline, slop] : bytes
  ChunkSizeMax  \* numeric_limits<uint64_t>::max()

ASSUME TransportAssumption ==
  /\ Storage \in [string : Nat, field : Nat, name : Nat, inline : Nat, slop : Nat \ {0}]
  /\ ChunkSizeMax \in Nat

\* ValidateInputs, of the budgets.
AreExecutable(limits) ==
  /\ limits.header # 0 /\ limits.response # 0 /\ limits.decompressed # 0
  /\ limits.metadata <= limits.header

-----------------------------------------------------------------------------
(* The state of a transfer *)

\* CurlTransferState: flags are the conditions that end the attempt, and aborted
\* says that a callback has refused the data.
Started(x) ==
  [header_bytes |-> 0, response_bytes |-> 0, body |-> <<>>, links |-> <<>>, fields |-> <<>>,
   dates |-> <<>>, complete |-> FALSE, retry_after |-> FALSE, encoding_seen |-> FALSE,
   chunked |-> FALSE, content_encoded |-> FALSE, kind |-> {}, status |-> 0, socket |-> <<>>,
   flags |-> IF "body" \in x.lacking THEN {"body_allocation_failed"} ELSE {},
   aborted |-> FALSE]

Abort(s, flag) == [s EXCEPT !.flags = @ \cup {flag}, !.aborted = TRUE]

ReleaseCurlLinkMetadata(s) == [s EXCEPT !.links = <<>>]

ReleaseAllCurlMetadata(s) == [s EXCEPT !.links = <<>>, !.fields = <<>>, !.dates = <<>>]

\* At most one socket is opened, and none for an address outside the policy.
OpenCurlPolicySocket(s, address) ==
  IF s.socket # <<>> THEN s
  ELSE IF "address_denied" \in s.flags \/ ~address.allowed
  THEN [s EXCEPT !.flags = @ \cup {"address_denied"}]
  ELSE [s EXCEPT !.socket = <<address>>]

-----------------------------------------------------------------------------
(* Metadata of the response *)

Total(sizes) ==
  LET total[i \in 0..Len(sizes)] == IF i = 0 THEN 0 ELSE total[i - 1] + sizes[i]
  IN  total[Len(sizes)]

\* Bytes that a string of this size owns, and at most owns when it is planned.
StringBytes(size) == IF size <= Storage.inline THEN 0 ELSE size + 1

StringAllocationEnvelope(size) == IF size <= Storage.inline THEN 0 ELSE size + Storage.slop

\* TryRetainedMetadataBytes: the three vectors and the strings in them.
RetainedMetadataBytes(s) ==
  LET strings(values) == Total([i \in DOMAIN values |-> StringBytes(values[i].bytes)])
  IN  (Len(s.links) + Len(s.dates)) * Storage.string + strings(s.links) + strings(s.dates)
      + Len(s.fields) * (Storage.field + Storage.name) + strings(s.fields)

\* The change is refused before anything is allocated if its peak, old vectors
\* included, is beyond the limit.
Retained(limits, x, peak, s, changed) ==
  IF RetainedMetadataBytes(s) + peak > limits.metadata
  THEN ReleaseAllCurlMetadata(Abort(s, "metadata_oversized"))
  ELSE IF "metadata" \in x.lacking
  THEN ReleaseAllCurlMetadata(Abort(s, "metadata_allocation_failed"))
  ELSE changed

\* A field is kept as guidance, as the date or as links, or as guidance and links.
RetainInitialMetadata(limits, x, s, e, kinds) ==
  LET value == [bytes |-> e.size, items |-> e.items]
      new(kind, used, unit) ==
        IF kind \in kinds THEN (used + 1) * unit + StringAllocationEnvelope(e.size) ELSE 0
      peak == new("fields", Len(s.fields), Storage.field)
              + (IF "fields" \in kinds THEN Storage.name ELSE 0)
              + new("dates", Len(s.dates), Storage.string)
              + new("links", Len(s.links), Storage.string)
      with(values, kind, v) == IF kind \in kinds THEN Append(values, v) ELSE values
  IN  Retained(limits, x, peak, s,
        [s EXCEPT !.fields = with(@, "fields", [name |-> e.name, bytes |-> e.size, items |-> e.items]),
                  !.dates = with(@, "dates", value),
                  !.links = with(@, "links", value),
                  !.kind = kinds])

\* A folded line continues every copy of the field that came before it.
AppendFoldedMetadata(limits, x, s, e) ==
  LET size(kind) == s[kind][Len(s[kind])].bytes + e.size
      grown(kind) == IF kind \in s.kind THEN StringAllocationEnvelope(size(kind)) ELSE 0
      folded(values, kind) ==
        IF kind \in s.kind
        THEN [values EXCEPT ![Len(values)].bytes = @ + e.size, ![Len(values)].items = @ \o e.items]
        ELSE values
  IN  Retained(limits, x, grown("fields") + grown("dates") + grown("links"), s,
        [s EXCEPT !.fields = folded(@, "fields"), !.dates = folded(@, "dates"),
                  !.links = folded(@, "links")])

\* What of a field is kept: guidance goes before the date; links only where there
\* is room for them at all.
KindsOf(limits, e) ==
  LET guidance == e.name \in limits.retained
      date == e.name = "date" /\ limits.retain_date
      link == e.name = "link"
  IN  (IF guidance THEN {"fields"} ELSE IF date THEN {"dates"} ELSE {})
      \cup (IF link /\ (guidance \/ limits.metadata > 0) THEN {"links"} ELSE {})

ReadField(limits, x, s, e) ==
  LET kinds == KindsOf(limits, e)
      seen == [s EXCEPT !.kind = {},
                        !.encoding_seen = @ \/ e.name = "transfer-encoding",
                        !.chunked = @ \/ e.name = "transfer-encoding",
                        !.content_encoded =
                          IF e.name = "content-encoding" THEN e.items # <<"identity">> ELSE @,
                        !.retry_after = @ \/ e.name = "retry-after"]
  IN  IF e.name = "transfer-encoding" /\ (s.encoding_seen \/ e.items # <<"chunked">>)
      THEN Abort(s, "transfer_encoding_unsupported")
      ELSE IF kinds = {} THEN seen
      ELSE IF limits.metadata = 0 THEN Abort(seen, "metadata_oversized")
      ELSE RetainInitialMetadata(limits, x, seen, e, kinds)

-----------------------------------------------------------------------------
(* The callbacks *)

\* Variant: interim metadata is left to be overwritten.
StatusLineKeepingFields(s, e) == [s EXCEPT !.complete = FALSE, !.kind = {}, !.status = e.code]

\* A status line begins a new header section: nothing of an interim response stays.
StatusLine(s, e) ==
  [ReleaseAllCurlMetadata(s) EXCEPT
     !.complete = FALSE, !.retry_after = FALSE, !.encoding_seen = FALSE, !.chunked = FALSE,
     !.content_encoded = FALSE, !.kind = {}, !.status = e.code]

\* Trailers are charged and otherwise ignored.
ReadCurlHeader(limits, x, s, e) ==
  LET charged == [s EXCEPT !.header_bytes = @ + e.bytes]
  IN  IF charged.header_bytes > limits.header THEN Abort(s, "header_oversized")
      ELSE IF e.line = "status" THEN StatusLine(charged, e)
      ELSE IF e.line = "end" THEN [charged EXCEPT !.complete = TRUE, !.kind = {}]
      ELSE IF s.complete \/ (e.line = "fold" /\ s.kind = {}) THEN charged
      ELSE IF e.line = "fold" THEN AppendFoldedMetadata(limits, x, charged, e)
      ELSE ReadField(limits, x, charged, e)

\* Called for what has come in before it is decoded; it cannot stop the transfer.
CountIncomingCurlProtocolData(limits, s, e) ==
  IF s.response_bytes + e.wire > limits.response
  THEN [s EXCEPT !.flags = @ \cup {"response_oversized"}]
  ELSE [s EXCEPT !.response_bytes = @ + e.wire]

\* A chunked body is raw here and bounded by the bytes of the wire.
WriteCurlBody(limits, s, e) ==
  LET limit == IF s.chunked THEN limits.response ELSE limits.decompressed
  IN  IF Len(s.body) + Len(e.octets) > limit
      THEN Abort(s, IF s.chunked THEN "response_oversized" ELSE "decompressed_oversized")
      ELSE [s EXCEPT !.body = @ \o e.octets]

ObserveCurlTransferProgress(limits, s, e) ==
  IF e.total > limits.response \/ e.current > limits.response
  THEN Abort(s, "response_oversized") ELSE s

\* One call of curl.  Every callback but the counting one asks whether the scan goes
\* on (ShouldContinue); the ones for data ask first whether it is too late, and the
\* one for progress also looks at the sizes first.
Callback(limits, x, s, i) ==
  LET e == x.events[i]
      counted == CASE e.callback = "header" -> s
                   [] e.callback = "body" -> CountIncomingCurlProtocolData(limits, s, e)
                   [] e.callback = "progress" -> ObserveCurlTransferProgress(limits, s, e)
      late == CASE e.callback = "header" -> {}
                [] e.callback = "body" -> {"response_oversized", "body_allocation_failed"}
                [] e.callback = "progress" -> {"response_oversized"}
  IN  IF s.aborted THEN s
      ELSE IF late \cap counted.flags # {} THEN [counted EXCEPT !.aborted = TRUE]
      ELSE IF i >= x.stop.at THEN Abort(counted, x.stop.flag)
      ELSE CASE e.callback = "header" -> ReadCurlHeader(limits, x, s, e)
             [] e.callback = "body" -> WriteCurlBody(limits, counted, e)
             [] e.callback = "progress" -> counted

-----------------------------------------------------------------------------
(* Chunked bodies *)

HexValue == [d \in {"0", "1", "2", "3", "f"} |->
               CASE d = "0" -> 0 [] d = "1" -> 1 [] d = "2" -> 2 [] d = "3" -> 3 [] d = "f" -> 15]

Malformed == [ok |-> FALSE, octets |-> <<>>]

\* The position of the first CRLF at or after this one, 0 if there is none.
FindCrlf(encoded, from) ==
  LET at == {i \in from..(Len(encoded) - 1) : encoded[i] = "cr" /\ encoded[i + 1] = "lf"}
  IN  IF at = {} THEN 0 ELSE CHOOSE i \in at : \A j \in at : i <= j

\* The value of hex digits, once past ChunkSizeMax any number past it.
HexNumber(digits) ==
  FoldLeft(LAMBDA n, d : IF n > ChunkSizeMax THEN n ELSE 16 * n + HexValue[d], 0, digits)

ChunkSize(digits, rest) ==
  IF /\ digits # <<>> /\ HexNumber(digits) <= ChunkSizeMax
     /\ \A i \in DOMAIN rest : rest[i] \in {"ext", "ows"}
     /\ rest # <<>> => Last(rest) = "ext"
  THEN [ok |-> TRUE, size |-> HexNumber(digits)]
  ELSE [ok |-> FALSE, size |-> 0]

\* Hex digits that fit, then extensions, with white space only before one.
ParseChunkSize(line) ==
  LET other == SelectInSeq(line, LAMBDA o : o \notin DOMAIN HexValue)
      digits == IF other = 0 THEN Len(line) ELSE other - 1
  IN  ChunkSize(SubSeq(line, 1, digits), SubSeq(line, digits + 1, Len(line)))

\* Fields, then an empty line: where the body ends, 0 if it does not.
ValidateTrailers(encoded, from) ==
  LET trailer[at \in 1..(Len(encoded) + 1)] ==
        LET line == FindCrlf(encoded, at)
        IN  IF line = 0 THEN 0
            ELSE IF line = at THEN at + 2
            ELSE IF SubSeq(encoded, at, line - 1) = <<"field">> THEN trailer[line + 2]
            ELSE 0
  IN  trailer[from]

\* The chunks up to the one of size 0, after which nothing may follow.
DecodeHttpChunkedBody(encoded, max) ==
  LET chunk[at \in 1..(Len(encoded) + 1)] ==
        LET line == FindCrlf(encoded, at)
            parsed == ParseChunkSize(SubSeq(encoded, at, line - 1))
            data == line + 2
            end == data + parsed.size
        IN  IF line = 0 \/ ~parsed.ok THEN Malformed
            ELSE IF parsed.size = 0
            THEN IF ValidateTrailers(encoded, data) = Len(encoded) + 1
                 THEN [ok |-> TRUE, octets |-> <<>>] ELSE Malformed
            ELSE IF end + 1 > Len(encoded) \/ encoded[end] # "cr" \/ encoded[end + 1] # "lf"
            THEN Malformed
            ELSE LET rest == chunk[end + 2]
                 IN  [rest EXCEPT !.octets =
                        IF rest.ok THEN SubSeq(encoded, data, end - 1) \o @ ELSE @]
      within(decoded) == IF Len(decoded.octets) <= max THEN decoded ELSE Malformed
  IN  within(chunk[1])

-----------------------------------------------------------------------------
(* The attempt *)

\* The flags in the order in which they are looked at.
Checks ==
  <<"cancelled", "address_denied", "timed_out", "header_oversized", "response_oversized",
    "transfer_encoding_unsupported", "decompressed_oversized", "metadata_oversized",
    "body_allocation_failed", "metadata_allocation_failed">>

FirstOf(flags) ==
  LET set == SelectSeq(Checks, LAMBDA f : f \in flags)
  IN  IF set = <<>> THEN "none" ELSE set[1]

\* The results of curl that may be retried when nothing was received.
ClassifyCurlFailure(code) ==
  IF code \in {"could not resolve", "could not connect", "send failed", "empty response",
               "receive failed"}
  THEN code ELSE "other"

\* What is left by a socket for each of the first addresses, and by the first calls.
SocketsOpened(x) ==
  LET opened[i \in 0..Len(x.addresses)] ==
        IF i = 0 THEN Started(x) ELSE OpenCurlPolicySocket(opened[i - 1], x.addresses[i])
  IN  opened

CallsMade(limits, x, s) ==
  LET made[i \in 0..Len(x.events)] ==
        IF i = 0 THEN s ELSE Callback(limits, x, made[i - 1], i)
  IN  made

\* curl_easy_perform
Performed(limits, x) ==
  LET connecting == SocketsOpened(x)[Len(x.addresses)]
      connected == connecting.socket # <<>> /\ connecting.socket[1].connects
      s == IF connected THEN CallsMade(limits, x, connecting)[Len(x.events)] ELSE connecting
  IN  [s |-> s, result |-> IF ~connected THEN "could not connect"
                           ELSE IF s.aborted THEN "aborted" ELSE x.result]

\* Flags that the result stands for, and the cancellation that no callback has seen.
FlagsAfter(x, performed) ==
  performed.s.flags
    \cup (IF performed.result = "operation timed out" THEN {"timed_out"} ELSE {})
    \cup (IF performed.result = "filesize exceeded" THEN {"response_oversized"} ELSE {})
    \cup (IF x.stop.flag = "cancelled" /\ x.stop.at <= Len(x.events) + 1 THEN {"cancelled"} ELSE {})

\* What has been received, of a body of this size; socket is kept to speak of.
AttemptOutcome(failure, kind, s, decompressed) ==
  [failure |-> failure, kind |-> kind, status |-> s.status, header_bytes |-> s.header_bytes,
   response_bytes |-> s.response_bytes, decompressed |-> decompressed, body |-> s.body,
   links |-> s.links, fields |-> s.fields, dates |-> s.dates, retry_after |-> s.retry_after,
   socket |-> s.socket]

AttemptFailure(failure, kind, s) == AttemptOutcome(failure, kind, s, Len(s.body))

\* A complete response; one that is no success is handed over without body and links.
Responded(limits, s) ==
  LET released == [ReleaseCurlLinkMetadata(s) EXCEPT !.body = <<>>]
  IN  IF s.response_bytes > limits.response THEN AttemptFailure("response_oversized", "other", s)
      ELSE AttemptOutcome("none", "none", IF s.status \in 200..299 THEN s ELSE released, Len(s.body))

Dechunked(limits, raw, decoded) ==
  IF ~decoded.ok THEN AttemptFailure("malformed chunks", "other", raw)
  ELSE Responded(limits, [raw EXCEPT !.body = decoded.octets])

\* What is made of the flags and the result of a transfer, in this order.
Concluded(limits, x, performed, failure) ==
  LET s == performed.s
      raw == [s EXCEPT !.response_bytes = Len(s.body)]
  IN  IF failure # "none" THEN AttemptFailure(failure, "other", s)
      ELSE IF performed.result # "ok"
      THEN AttemptFailure("request failed", ClassifyCurlFailure(performed.result), s)
      ELSE IF ~s.chunked THEN Responded(limits, s)
      ELSE IF s.content_encoded THEN AttemptFailure("content encoding", "other", s)
      ELSE IF x.stop.at <= Len(x.events) + 1 THEN AttemptFailure(x.stop.flag, "other", raw)
      ELSE Dechunked(limits, raw, DecodeHttpChunkedBody(s.body, limits.decompressed))

\* The response, or the failure of the attempt, with what it has received.
PerformCurlTransfer(limits, x) ==
  LET concluded(performed) ==
        Concluded(limits, x, performed, FirstOf(FlagsAfter(x, performed)))
  IN  IF AreExecutable(limits) THEN concluded(Performed(limits, x))
      ELSE AttemptFailure("invalid budget", "none", Started(x))
=============================================================================

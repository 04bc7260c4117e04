------------------------------ MODULE MCStream ------------------------------
(***************************************************************************)
(* A small instance of HttpScanExecutor: one scan for each pagination      *)
(* strategy and one whose page authority is smaller than its result,       *)
(* against a server that answers every page honestly or with one of the    *)
(* bodies, statuses and continuation signals that it may have to refuse.   *)
(*                                                                         *)
(* What the server never does here, since no client could notice: end the  *)
(* result early, or give a cursor it has not given before for a page that  *)
(* is not the next.                                                        *)
(***************************************************************************)
EXTENDS HttpScanExecutor, FiniteSetsExt, TLC

CONSTANTS t1, t2

MCThreads == {t1, t2}

MCColumns ==
  << [kind |-> "BIGINT", array |-> FALSE, element_nullable |-> FALSE, nullable |-> FALSE],
     [kind |-> "VARCHAR", array |-> FALSE, element_nullable |-> FALSE, nullable |-> TRUE],
     [kind |-> "VARCHAR", array |-> TRUE, element_nullable |-> TRUE, nullable |-> FALSE],
     [kind |-> "DOUBLE", array |-> TRUE, element_nullable |-> FALSE, nullable |-> TRUE],
     [kind |-> "BOOLEAN", array |-> FALSE, element_nullable |-> FALSE, nullable |-> TRUE] >>

MCSizes == [row |-> 2, slot |-> 1, value |-> 2, scalar |-> 1, inline |-> 2]

MCLimits == [string |-> 8, nesting |-> 4, memory |-> 80, cursor |-> 5]

MCScans == {"single", "links", "body", "count", "cursors", "capped"}

Profile(strategy, source, page_rows, max_records, max_pages, requires, secret) ==
  [strategy |-> strategy, source |-> source, page_rows |-> page_rows,
   max_records |-> max_records, max_pages |-> max_pages, page_size |-> 2,
   requires |-> requires, secret |-> secret]

MCScanProfile ==
  [n \in MCScans |->
     CASE n = "single" -> Profile("disabled", "ROOT_OBJECT", <<1>>, 1, 1, "none", FALSE)
       [] n = "links" -> Profile("link_next", "ROOT_ARRAY", <<3, 0, 1>>, 3, 3, "bearer", TRUE)
       [] n = "body" -> Profile("response_next", "JSON_PATH_MANY", <<1, 0, 2>>, 3, 3, "api_key", TRUE)
       [] n = "count" -> Profile("short_page", "ROOT_ARRAY", <<2, 2, 0>>, 2, 3, "api_key", FALSE)
       [] n = "cursors" -> Profile("graphql_cursor", "ROOT_OBJECT", <<1, 1, 1>>, 2, 4, "bearer", FALSE)
       [] n = "capped" -> Profile("graphql_cursor", "ROOT_OBJECT", <<1, 1>>, 2, 1, "none", FALSE)]

-----------------------------------------------------------------------------
(* JSON values, and what is found at a path *)

Null == [json |-> "null"]
Bool(b) == [json |-> IF b THEN "true" ELSE "false"]
Number(class, n) == [json |-> "number", class |-> class, n |-> n]
String(bytes, text) == [json |-> "string", bytes |-> bytes, text |-> text]
Array(elements) == [json |-> "array", elements |-> elements]

At(v) == [parent |-> "object", values |-> <<v>>]
Twice(v) == [parent |-> "object", values |-> <<v, v>>]
Absent == [parent |-> "object", values |-> <<>>]
Under(parent) == [parent |-> parent, values |-> <<>>]

\* Row i of a result: short and long strings, nulls and arrays of every length
\* up to three come up in turn.
Row(i) ==
  [json |-> "object",
   fields |->
     << At(Number("integer", i)),
        At(IF i % 3 = 0 THEN Null ELSE String(IF i % 3 = 1 THEN 5 ELSE 1, i)),
        At(Array([k \in 1..(i % 4) |-> IF k = 2 THEN Null ELSE String(k, k)])),
        At(IF i % 2 = 0 THEN Null
           ELSE Array([k \in 1..(4 - i) |-> Number(IF k = 1 THEN "fraction" ELSE "wide", k)])),
        At(IF i = 4 THEN Null ELSE Bool(i = 1)) >>]

RowWith(i, column, found) == [Row(i) EXCEPT !.fields[column] = found]

\* Rows in place of row 1 that no decoder may take.
BadRows ==
  { RowWith(1, 1, At(Null)), RowWith(1, 1, At(Number("wide", 1))), RowWith(1, 1, Absent),
    RowWith(1, 1, Twice(Number("integer", 1))), RowWith(1, 1, Under("scalar")),
    RowWith(1, 1, Under("null")), RowWith(1, 2, At(String(9, 1))), RowWith(1, 2, Under("twice")),
    RowWith(1, 3, At(Null)), RowWith(1, 3, At(String(1, 1))),
    RowWith(1, 4, At(Array(<<Null>>))), RowWith(1, 4, At(Array(<<Number("overflow", 1)>>))),
    RowWith(1, 5, At(Number("integer", 1))), [json |-> "scalar"] }

\* Rows in place of row 1 that depend on the decoder and on what else is in the page
\* (memory, a null parent, a number of many digits).
LongRow == [RowWith(1, 2, At(String(8, 1))) EXCEPT
              !.fields[3] = At(Array([k \in 1..5 |-> String(5, k)]))]
UnderNull == RowWith(1, 2, Under("null"))
LongNumber == RowWith(1, 4, At(Array(<<Number("long", 1)>>)))

-----------------------------------------------------------------------------
(* Signals of a next page *)

Target(number) ==
  [reference |-> TRUE, origin |-> "same", path |-> "same", query |-> "fields", number |-> number]

BadTargets(p) ==
  { [Target(p + 1) EXCEPT !.origin = "other"], [Target(p + 1) EXCEPT !.path = "other"],
    [Target(p + 1) EXCEPT !.query = "twice"], [Target(p + 1) EXCEPT !.query = "malformed"],
    Target(p), Target(0) } \cup {Target(q) : q \in (p + 2)..3}

Link(target, rel) == [target |-> target, rel |-> rel, anchored |-> FALSE]
Anchored == [Link(Target(1), {"next"}) EXCEPT !.anchored = TRUE]

NextUrl(target) == [json |-> "string", bytes |-> 3, text |-> 0, target |-> target]
EmptyUrl == [json |-> "string", bytes |-> 0, text |-> 0]

Links(n, p) ==
  LET first == Link(Target(1), {"first"})
  IN  IF MCScanProfile[n].strategy = "link_next" /\ p < Len(MCScanProfile[n].page_rows)
      THEN <<first, Anchored, Link(Target(p + 1), {"next", "last"})>> ELSE <<Anchored, first>>

BadLinks(p) ==
  {<<Link(t, {"next"})>> : t \in BadTargets(p)} \cup
  { <<Link(Target(p + 1), {"next"}), Link(Target(p + 1), {"next"})>>,
    <<Link(Target(p + 1), {})>>,
    <<Link([Target(p + 1) EXCEPT !.reference = FALSE], {"first"})>> }

-----------------------------------------------------------------------------
(* Responses *)

RowsOfPage(n, p) ==
  LET rows == MCScanProfile[n].page_rows
      before == Sums(rows)[p - 1]
  IN  [i \in 1..rows[p] |-> Row(before + i)]

\* The body with these records, for the source of scan n.
Body(n, p, records) ==
  LET more == p < Len(MCScanProfile[n].page_rows)
      source == MCScanProfile[n].source
  IN  [wellformed |-> TRUE, nesting |-> 4,
       root |-> CASE source = "ROOT_ARRAY" -> Array(records)
                  [] source = "ROOT_OBJECT" /\ MCScanProfile[n].strategy = "disabled" -> records[1]
                  [] OTHER -> [json |-> "object"],
       records |-> At(Array(records)),
       next |-> IF more THEN At(NextUrl(Target(p + 1)))
                ELSE IF n = "body" THEN At(EmptyUrl) ELSE Absent,
       errors |-> IF p = 1 THEN Absent ELSE At(Array(<<>>)),
       has_next |-> At(Bool(more)),
       end_cursor |-> IF more THEN At(String(2 * p + 1, p + 1)) ELSE At(Null)]

Honest(n, p) == Body(n, p, RowsOfPage(n, p))

\* Bodies in place of page p's whose records are as they should be.
BadSignals(n, p) ==
  LET body == Honest(n, p)
  IN  CASE MCScanProfile[n].strategy = "response_next" ->
             {[body EXCEPT !.next = At(NextUrl(t))] : t \in BadTargets(p)} \cup
             {[body EXCEPT !.next = f] :
                f \in {Twice(Null), At(Bool(TRUE)), Under("twice"),
                       At([NextUrl(Target(p + 1)) EXCEPT !.bytes = 9])}}
        [] MCScanProfile[n].strategy = "graphql_cursor" ->
             {[body EXCEPT !.errors = f] :
                f \in {At(Array(<<Null>>)), At(Null), Twice(Array(<<>>))}} \cup
             {[body EXCEPT !.has_next = f] : f \in {Absent, At(Null)}} \cup
             {[body EXCEPT !.has_next = At(Bool(TRUE)), !.end_cursor = f] :
                f \in {At(Null), At(String(0, 0)), At(String(6, 9)), Absent, At(Bool(TRUE))}
                      \cup {At(String(1, q)) : q \in 2..p}}
        [] OTHER -> {}

BadBodies(n, p) ==
  LET body == Honest(n, p)
      rows == MCScanProfile[n].page_rows
      rest == Tail(RowsOfPage(n, p))
  IN  { [body EXCEPT !.wellformed = FALSE], [body EXCEPT !.nesting = 5],
        [body EXCEPT !.root = [json |-> "scalar"], !.records = Twice(Array(<<>>))] }
      \cup BadSignals(n, p)
      \cup (IF p = 1
            THEN {Body(n, p, <<row>> \o rest) :
                    row \in BadRows \cup {LongRow, UnderNull, LongNumber}} \cup
                 {Body(n, p, [i \in 1..(MCScanProfile[n].max_records + 1) |-> Row(i)])}
            ELSE {})

-----------------------------------------------------------------------------
(* What is on the wire *)

Status(code) == [callback |-> "header", line |-> "status", bytes |-> 2, code |-> code]
Field(name, items, size) ==
  [callback |-> "header", line |-> "field", bytes |-> size + 1, size |-> size, name |-> name,
   items |-> items]
Fold(items, size) ==
  [callback |-> "header", line |-> "fold", bytes |-> size + 1, size |-> size, items |-> items]
End == [callback |-> "header", line |-> "end", bytes |-> 1]
Piece(octets) == [callback |-> "body", wire |-> Len(octets), octets |-> octets]
Progress(total, current) == [callback |-> "progress", total |-> total, current |-> current]

LinkField(links) == IF links = <<>> THEN <<>> ELSE <<Field("link", links, 2 * Len(links))>>
Chunked == Field("transfer-encoding", <<"chunked">>, 1)
Zipped == Field("content-encoding", <<"zip">>, 1)
Reset(item) == Field("reset", <<item>>, 3)

Payload == <<"p", "q", "r">>
CRLF == <<"cr", "lf">>
Chunk(size, octets) == size \o CRLF \o octets \o CRLF
LastChunk == <<"0">> \o CRLF

Address(allowed, connects) == [allowed |-> allowed, connects |-> connects]

Exchanged(fields, data, body) ==
  [addresses |-> <<Address(TRUE, TRUE)>>, events |-> <<Status(200)>> \o fields \o <<End>> \o data,
   result |-> "ok", stop |-> [at |-> 99, flag |-> "cancelled"], lacking |-> {},
   payload |-> Payload, body |-> body, honest |-> TRUE]

Plain(links, body) == Exchanged(LinkField(links), <<Piece(Payload)>>, body)

Answering(status, links, body) == [Plain(links, body) EXCEPT !.events[1].code = status]

\* Bodies that are no sequence of chunks with Payload in it, or one beyond the limits.
BadChunks ==
  { Chunk(<<"3">>, Payload),                                       \* cut at a boundary
    Chunk(<<"3">>, Payload) \o <<"0">>, Chunk(<<"3">>, Payload) \o LastChunk,
    Chunk(<<"2">>, Payload) \o LastChunk \o CRLF, Chunk(<<"f">>, Payload) \o LastChunk \o CRLF,
    Chunk(<<"1", "0", "0">>, Payload), <<"1", "0", "0">> \o CRLF \o CRLF,  \* beyond 64 bits
    Chunk(<<"3", "ows">>, Payload) \o LastChunk \o CRLF, Chunk(<<"ext">>, Payload) \o LastChunk \o CRLF,
    Chunk(<<"3">>, Payload) \o LastChunk \o CRLF \o <<"p">>,
    Chunk(<<"3">>, Payload) \o LastChunk \o <<"p">> \o CRLF \o CRLF,
    Chunk(<<"3">>, Payload) \o Chunk(<<"3">>, Payload) \o LastChunk \o CRLF,
    <<>> }

GoodChunks ==
  Chunk(<<"1">>, <<"p">>) \o Chunk(<<"2", "ows", "ext">>, <<"q", "r">>) \o LastChunk
    \o <<"field">> \o CRLF \o CRLF

\* Honest exchanges for this response, whose links may come in any form.
GoodExchanges(links, body) ==
  LET plain == Plain(links, body)
      interim == <<Status(100)>> \o <<Field("link", <<Anchored>>, 2), Reset("a"), Chunked, End>>
  IN  { [plain EXCEPT !.events = interim \o @],
        Exchanged(<<Field("link", <<links[1]>>, 2), Fold(Tail(links), 4)>>, <<Piece(Payload)>>, body),
        Exchanged(<<Field("link", <<links[1]>>, 2), Reset("a"), Fold(<<"b">>, 2),
                    Field("link", Tail(links), 2), Field("date", <<"c">>, 2)>>,
                  <<Piece(Payload)>>, body),
        Exchanged(LinkField(links) \o <<Chunked>>,
                  <<Piece(SubSeq(GoodChunks, 1, 4)), Progress(0, 4),
                    Piece(SubSeq(GoodChunks, 5, Len(GoodChunks)))>>, body),
        Exchanged(LinkField(links) \o <<Field("content-encoding", <<"identity">>, 1), Chunked>>,
                  <<Piece(GoodChunks)>>, body),
        Exchanged(LinkField(links) \o <<Zipped, Field("retry-after", <<"d">>, 2)>>,
                  <<[callback |-> "body", wire |-> 1, octets |-> <<"p">>],
                    [callback |-> "body", wire |-> 0, octets |-> <<"q", "r">>]>>, body),
        [plain EXCEPT !.events = @ \o <<Field("link", <<Anchored>>, 2), Fold(<<Anchored>>, 2)>>],
        [plain EXCEPT !.addresses = @ \o <<Address(FALSE, TRUE)>>] }

\* Exchanges that end in a failure, whatever the response was to be.
BadExchanges(links, body) ==
  LET plain == Plain(links, body)
      chunked == Exchanged(LinkField(links) \o <<Chunked>>, <<Piece(GoodChunks)>>, body)
      with(field) == Exchanged(LinkField(links) \o <<field>>, <<Piece(Payload)>>, body)
      big == [i \in 1..13 |-> "p"]
  IN  {Exchanged(LinkField(links) \o <<Chunked>>, <<Piece(b)>>, body) : b \in BadChunks} \cup
      {[x EXCEPT !.stop = [at |-> n, flag |-> f]] :
         x \in {plain, chunked}, n \in {1, 3, 4, 5}, f \in {"cancelled", "timed_out"}} \cup
      {[plain EXCEPT !.result = c] :
         c \in {"receive failed", "partial file", "operation timed out", "filesize exceeded"}} \cup
      {[plain EXCEPT !.addresses = a] :
         a \in { <<Address(FALSE, TRUE), Address(TRUE, TRUE)>>,
                 <<Address(TRUE, FALSE), Address(TRUE, TRUE)>> }} \cup
      {[plain EXCEPT !.lacking = l] : l \in {{"body"}, {"metadata"}}} \cup
      { [chunked EXCEPT !.events = SubSeq(@, 1, 2) \o <<Chunked>> \o SubSeq(@, 3, Len(@))],
        [chunked EXCEPT !.events = SubSeq(@, 1, 2) \o <<Zipped>> \o SubSeq(@, 3, Len(@))],
        with(Field("transfer-encoding", <<"zip">>, 1)),
        with(Field("other", <<"e">>, 40)), with(Field("link", links, 12)), with(Reset("a")),
        with([Reset("a") EXCEPT !.size = 20]),
        Exchanged(<<Field("link", <<links[1]>>, 6), Fold(Tail(links), 12)>>, <<Piece(Payload)>>, body),
        Exchanged(LinkField(links) \o <<Zipped>>,
                  <<[callback |-> "body", wire |-> 1, octets |-> big]>>, body),
        Exchanged(LinkField(links), <<Progress(25, 0), Piece(Payload)>>, body),
        Exchanged(LinkField(links), <<[callback |-> "body", wire |-> 25, octets |-> Payload]>>, body),
        Exchanged(LinkField(links) \o <<Chunked>>, <<Piece(big), Piece(big)>>, body) }

Dishonest(exchanges) == {[x EXCEPT !.honest = FALSE] : x \in exchanges}

Listed(exchanges) == FoldSet(LAMBDA x, list : Append(list, x), <<>>, exchanges)

\* The same function, as a table that TLC computes once.
Tabulated(f) == f @@ <<>>

MCRemote ==
  Tabulated([n \in MCScans |->
     Tabulated([p \in DOMAIN MCScanProfile[n].page_rows |->
        LET links == Links(n, p)
            honest == Honest(n, p)
        IN  Listed(
              {Plain(links, honest)}
              \cup {Answering(status, links, honest) : status \in {401, 500}}
              \cup (IF n = "single" THEN {Answering(203, links, honest)} ELSE {})
              \cup {Plain(links, body) : body \in BadBodies(n, p)}
              \cup (IF n = "links" THEN {Plain(l, honest) : l \in BadLinks(p)} ELSE {})
              \cup (IF n \in {"links", "single"} THEN GoodExchanges(links, honest) ELSE {})
              \cup (IF n \in {"links", "single"} /\ p = 1
                    THEN Dishonest(BadExchanges(links, honest)) ELSE {}))])])

\* Only the streams that look for links, or wait for quota, keep metadata.
MCHttpLimits ==
  [n \in MCScans |->
     LET keeps == n \in {"links", "body", "count"}
     IN  [header |-> 40, response |-> 24, decompressed |-> 5,
          metadata |-> IF keeps THEN 30 ELSE 0, retained |-> IF keeps THEN {"reset"} ELSE {},
          retain_date |-> keeps]]

MCStorage == [string |-> 2, field |-> 3, name |-> 1, inline |-> 3, slop |-> 2]
=============================================================================

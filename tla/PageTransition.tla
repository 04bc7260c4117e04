--------------------------- MODULE PageTransition ---------------------------
(***************************************************************************)
(* Which page follows the one just decoded, for each pagination strategy   *)
(* (src/src/runtime/pagination/).  What the server says is a signal to     *)
(* verify, never an address to fetch: the next request is built from the   *)
(* page number, or the cursor, that passed the checks.                     *)
(*                                                                         *)
(* A link target or next URL is                                            *)
(*   [reference |-> it is a URI reference, origin |-> "same" or "other",   *)
(*    path |-> "same" or "other",                                          *)
(*    query |-> "fields", "twice" or "malformed", number |-> page or 0]    *)
(* with 0 for a page parameter that is absent or no positive decimal.  A   *)
(* link has a target, its first rel values and whether it is anchored.     *)
(* A cursor is a string of the response, [json, bytes, text].              *)
(*                                                                         *)
(* The pagination of a scan is                                             *)
(*   [page |-> current_page, seen |-> cursors seen, requested |-> pages    *)
(*    asked for, state |-> "active", "exhausted" or "failed"].             *)
(***************************************************************************)
EXTENDS GraphqlResponseDecoder

FirstPage == [page |-> 1, seen |-> <<>>, requested |-> 0, state |-> "active"]

-----------------------------------------------------------------------------
(* Links *)

\* uri_reference.cpp: the syntax of RFC 3986, as the parser of links asks for it.
IsValidUriReference(target) == target.reference

\* A link whose own context is not the response is not followed.
HasNextRelation(link) == "next" \in link.rel /\ ~link.anchored

ParseLinkValue(link) == link.rel # {} /\ IsValidUriReference(link.target)

ParseLinkHeaderFields(links) == \A i \in DOMAIN links : ParseLinkValue(links[i])

\* Same origin and path, a query of distinct fields, and the page that is due.
ValidateNextTarget(target, current) ==
  /\ target.origin = "same"
  /\ target.path = "same"
  /\ target.query = "fields"
  /\ target.number = current + 1

Failed(p) == [p EXCEPT !.state = "failed"]

Exhausted(p) == [p EXCEPT !.state = "exhausted"]

Following(p, number) == [p EXCEPT !.page = number]

\* NextTargetSelector, ParseTransition and Advance: at most one next link.
AdvanceByLinks(p, links) ==
  LET next == {i \in DOMAIN links : HasNextRelation(links[i])}
  IN  CASE \/ ~ParseLinkHeaderFields(links)
           \/ \E i, j \in next : i # j -> Failed(p)
        [] ParseLinkHeaderFields(links) /\ next = {} -> Exhausted(p)
        [] OTHER -> LET target == links[CHOOSE i \in next : TRUE].target
                    IN  IF ValidateNextTarget(target, p.page)
                        THEN Following(p, target.number) ELSE Failed(p)

\* The next URL of the body: a string of the response, with its target.
AdvanceBody(p, next_url) ==
  CASE next_url = <<>> -> Exhausted(p)
    [] next_url # <<>> /\ next_url[1].bytes = 0 -> Exhausted(p)
    [] OTHER -> IF ValidateNextTarget(next_url[1].target, p.page)
                THEN Following(p, next_url[1].target.number) ELSE Failed(p)

AdvanceByCount(p, rows, page_size) ==
  IF rows = 0 \/ rows < page_size THEN Exhausted(p) ELSE Following(p, p.page + 1)

-----------------------------------------------------------------------------
(* Cursors *)

\* Bytes kept by the cursors seen: those that do not fit into the string itself.
CursorBytes(p) ==
  SumOf([i \in 1..Len(p.seen) |-> IF p.seen[i].bytes <= Sizes.inline THEN 0
                                 ELSE StringCapacity[p.seen[i].bytes] + 1])

MarkRequestStarted(p, max_pages) ==
  IF p.state # "active" \/ p.requested >= max_pages THEN Failed(p)
  ELSE [p EXCEPT !.requested = @ + 1]

\* Variant: only the cursor before this one is compared.
RepeatedLast(p, cursor) == p.seen # <<>> /\ p.seen[Len(p.seen)].text = cursor.text

Repeated(p, cursor) == \E i \in DOMAIN p.seen : p.seen[i].text = cursor.text

\* GraphqlCursorState::Advance; Release empties the cursors that were seen.
AdvanceCursor(p, has_next, cursor) ==
  CASE ~has_next -> [Exhausted(p) EXCEPT !.seen = <<>>]
    [] has_next /\ (IsNull(cursor) \/ cursor.bytes = 0) -> [Failed(p) EXCEPT !.seen = <<>>]
    [] OTHER -> IF cursor.bytes > Limits.cursor \/ Repeated(p, cursor)
                THEN [Failed(p) EXCEPT !.seen = <<>>]
                ELSE [p EXCEPT !.seen = Append(@, cursor)]
=============================================================================

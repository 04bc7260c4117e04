------------------------------ MODULE MCRetry ------------------------------
(***************************************************************************)
(* A small instance of HttpRetryController: two pages, three attempts for  *)
(* a page and four for the scan, shared by two ordinary and two rate-limit *)
(* attempts for each step; two time units of each kind of recovery wait,   *)
(* three together.  And a single-response scan, whose page and scan have   *)
(* one budget of headers, all of which may be kept as metadata             *)
(* (BuildSingleResourceProfile, SingleResponseMetadataBudget).             *)
(***************************************************************************)
EXTENDS HttpRetryController

CONSTANTS wire, other

MCPage == [attempts |-> 3, bytes |-> [d \in Bytes |-> 1], body |-> 1,
           records |-> 1, memory |-> 1]

MCScan == [attempts |-> 4, pages |-> 2, bytes |-> [d \in Bytes |-> 2], body |-> 4,
           records |-> 2, memory |-> 1, wall |-> 4, waiting |-> 3, retry |-> 2,
           rate |-> 2]

MCRetryPolicy == [step |-> 2, scan |-> 4, delay |-> 2, waiting |-> 2]

MCRateLimit == [mode |-> "WAIT_IF_DEADLINE_ALLOWS", step |-> 3, scan |-> 4,
                waiting |-> 2]

MCSinglePage == [MCPage EXCEPT !.bytes = [d \in Bytes |-> 2]]

MCSingleScan == [MCScan EXCEPT !.pages = 1]
=============================================================================

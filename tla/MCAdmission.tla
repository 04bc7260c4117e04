---------------------------- MODULE MCAdmission ----------------------------
(***************************************************************************)
(* A small instance of AdmissionController: two scans with one identity    *)
(* and a third that shares only their destination compete for one request  *)
(* slot; beside it byte reservations, and active scans of which one never  *)
(* fits its principal and the other finds no room in the queue.            *)
(***************************************************************************)
EXTENDS AdmissionController, TLC

CONSTANTS c1, c2, c3

Opaque == [kind |-> "OPAQUE_AUTHORITY", token |-> 1]
Anonymous == [kind |-> "ANONYMOUS", token |-> 0]

Id(connector, destination, principal) ==
  [connector |-> connector, destination |-> destination, operation |-> "list",
   principal |-> principal, complete |-> TRUE]

MCIdentity ==
  (c1 :> Id("A", "X", Opaque)) @@ (c2 :> Id("A", "X", Opaque))
    @@ (c3 :> Id("B", "X", Anonymous))

MCCalls ==
  (c1 :> {"REQUEST", "ACTIVE_SCAN"}) @@ (c2 :> {"REQUEST"})
    @@ (c3 :> {"REQUEST", "ACTIVE_SCAN", "BUFFERED_BYTES"})

MCResourceLimits ==
  [r \in Resources |->
     IF r = "REQUEST"
     THEN [GLOBAL |-> 2, CONNECTOR |-> 2, DESTINATION |-> 1, PRINCIPAL |-> 2,
           BULKHEAD |-> 1]
     ELSE IF r = "ACTIVE_SCAN"
     THEN [GLOBAL |-> 1, CONNECTOR |-> 1, DESTINATION |-> 1, PRINCIPAL |-> 0,
           BULKHEAD |-> 1]
     ELSE [GLOBAL |-> 3, CONNECTOR |-> 2, DESTINATION |-> 2, PRINCIPAL |-> 2,
           BULKHEAD |-> 2]]

MCQueueLimits ==
  [r \in QueuedResources |->
     [s \in Scopes |-> IF r = "ACTIVE_SCAN" THEN 0 ELSE 2]]

Policies ==
  {[queue |-> 1, aggregate |-> NoDeadline, scan |-> NoDeadline],
   [queue |-> NoDeadline, aggregate |-> 1, scan |-> 1]}
=============================================================================

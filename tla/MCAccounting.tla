---------------------------- MODULE MCAccounting ----------------------------
(***************************************************************************)
(* A small instance of ScanResourceAccounting: two pages, two attempts for *)
(* a page but only three for the scan, one byte dimension, request bodies, *)
(* and two waiting budgets that exceed their aggregate together.           *)
(***************************************************************************)
EXTENDS ScanResourceAccounting

CONSTANT wire

MCPage == [attempts |-> 2, bytes |-> [d \in Bytes |-> 2], body |-> 1,
           records |-> 1, memory |-> 1]

MCScan == [attempts |-> 3, pages |-> 2, bytes |-> [d \in Bytes |-> 3], body |-> 2,
           records |-> 2, memory |-> 1, wall |-> 2, waiting |-> 1, retry |-> 1,
           rate |-> 1]
=============================================================================

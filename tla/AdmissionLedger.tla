--------------------------- MODULE AdmissionLedger ---------------------------
(***************************************************************************)
(* What the admission controller promises, without counters, queues or     *)
(* tickets: a ledger of who holds how much of which resource.  While it is *)
(* open the holdings may change in any way that keeps every counter key    *)
(* within its limit; from the moment it closes they only shrink.           *)
(***************************************************************************)
EXTENDS Naturals, FiniteSets

CONSTANTS
  Callers,
  Resources,
  CounterKeys,
  Keys,       \* Keys[c] : the counter keys caller c is charged to
  Limits,     \* Limits[r][k]
  MaxAmount

VARIABLES open, held

vars == <<open, held>>

Nothing == [resource |-> "NONE", amount |-> 0]

Holdings == [resource : Resources, amount : 1..MaxAmount] \cup {Nothing}

Units(r, k) ==
  {u \in Callers \X (1..MaxAmount) :
     /\ held[u[1]].resource = r
     /\ u[2] <= held[u[1]].amount
     /\ k \in Keys[u[1]]}

WithinCapacity ==
  \A r \in Resources, k \in CounterKeys :
    Cardinality(Units(r, k)) <= Limits[r][k]

Init == open = TRUE /\ held = [c \in Callers |-> Nothing]

\* A permit is never turned into a permit for another resource.
KeepsResource(c) ==
  held[c] = Nothing \/ held'[c] = Nothing
    \/ held'[c].resource = held[c].resource

Exchange ==
  /\ open
  /\ UNCHANGED open
  /\ held' \in [Callers -> Holdings]
  /\ \A c \in Callers : KeepsResource(c)
  /\ WithinCapacity'

Shrinks(c) ==
  \/ held'[c] = held[c]
  \/ held'[c] = Nothing
  \/ /\ held'[c].resource = held[c].resource
     /\ held'[c].amount < held[c].amount

Settle ==
  /\ UNCHANGED open
  /\ held' \in [Callers -> Holdings]
  /\ \A c \in Callers : Shrinks(c)

CloseDown == open /\ open' = FALSE /\ UNCHANGED held

Next == Exchange \/ Settle \/ CloseDown

Spec == Init /\ [][Next]_vars
=============================================================================

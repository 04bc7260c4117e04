---------------------- MODULE AdmissionControllerProofs ----------------------
(***************************************************************************)
(* Proofs about AdmissionController, for any number of callers, any        *)
(* identities, any profile and any bounds.                                 *)
(*                                                                         *)
(* A critical section first changes the counters itself and then runs a    *)
(* granting pass, so the inductive invariant is stated about a tuple of    *)
(* values (Consistent) and shown to survive each half: GrantKeepsConsistent *)
(* is the pass, the lemmas about units are the first half.                 *)
(***************************************************************************)
EXTENDS AdmissionController, FiniteSetTheorems, TLAPS

-----------------------------------------------------------------------------
(* Counting: a counter is kept by addition and subtraction, what it counts is *)
(* the cardinality of a set.                                                *)

\* Adding a disjoint finite set adds its cardinality: what AddUsage relies on.
LEMMA DisjointUnion ==
  ASSUME NEW S, NEW T, IsFiniteSet(S), IsFiniteSet(T), S \cap T = {}
  PROVE  /\ IsFiniteSet(S \cup T)
         /\ Cardinality(S \cup T) = Cardinality(S) + Cardinality(T)
         /\ Cardinality(S) \in Nat
         /\ Cardinality(T) \in Nat
BY FS_Union, FS_EmptySet, FS_CardinalityType

\* One holder with the units m+1 .. n has n - m of them: the amount that
\* SubtractUsage and AddUsage are called with.
LEMMA UnitInterval ==
  ASSUME NEW x, NEW m \in Nat, NEW n \in Nat, m <= n
  PROVE  /\ IsFiniteSet({x} \X ((m + 1)..n))
         /\ Cardinality({x} \X ((m + 1)..n)) = n - m
<1>1. IsFiniteSet((m + 1)..n) /\ Cardinality((m + 1)..n) = n - m
  <2>1. PICK a \in Int : a = m + 1
    OBVIOUS
  <2>2. /\ IsFiniteSet(a..n)
        /\ Cardinality(a..n) = IF a > n THEN 0 ELSE n - a + 1
    BY FS_Interval
  <2> QED
    BY <2>1, <2>2
<1>2. IsFiniteSet({x}) /\ Cardinality({x}) = 1
  BY FS_Singleton
<1>3. /\ IsFiniteSet({x} \X ((m + 1)..n))
      /\ Cardinality({x} \X ((m + 1)..n)) = 1 * (n - m)
  BY <1>1, <1>2, FS_Product
<1> QED
  BY <1>3

\* Tagging every element of a finite set does not change how many there are.
LEMMA Tagged ==
  ASSUME NEW S, IsFiniteSet(S), NEW x
  PROVE  /\ IsFiniteSet(S \X {x})
         /\ Cardinality(S \X {x}) = Cardinality(S)
<1>1. IsFiniteSet({x}) /\ Cardinality({x}) = 1
  BY FS_Singleton
<1>2. Cardinality(S) \in Nat
  BY FS_CardinalityType
<1>3. /\ IsFiniteSet(S \X {x})
      /\ Cardinality(S \X {x}) = Cardinality(S) * 1
  BY <1>1, FS_Product
<1> QED
  BY <1>2, <1>3

\* A non-empty finite set of tickets has one with the greatest ordinal.
LEMMA MaximumExists ==
  ASSUME NEW S, IsFiniteSet(S), S # {}, NEW f, \A x \in S : f[x] \in Nat
  PROVE  \E x \in S : \A y \in S : f[y] <= f[x]
<1> DEFINE Later(x) == {y \in S : f[y] > f[x]}
           T == {Later(x) : x \in S}
<1>1. IsWellFoundedOn(StrictSubsetOrdering(S), SUBSET S)
  BY FS_StrictSubsetOrderingWellFounded, FS_FiniteSubsetsOfFinite
<1>2. T \subseteq SUBSET S /\ T # {}
  OBVIOUS
<1>3. PICK L \in T : \A M \in T : ~(<<M, L>> \in StrictSubsetOrdering(S))
  <2> HIDE DEF T
  <2> QED BY <1>1, <1>2, WFMin
<1>4. PICK x \in S : L = Later(x)
  BY <1>3
<1>5. ASSUME NEW y \in S, ~(f[y] <= f[x]) PROVE FALSE
  <2>1. y \in Later(x)
    BY <1>5
  <2>2. Later(y) \subseteq Later(x)
    BY <2>1
  <2>3. y \notin Later(y)
    OBVIOUS
  <2>4. <<Later(y), Later(x)>> \in StrictSubsetOrdering(S)
    BY <2>1, <2>2, <2>3 DEF StrictSubsetOrdering
  <2> QED
    BY <1>3, <1>4, <2>4
<1> QED
  BY <1>5

-----------------------------------------------------------------------------
(* The inductive invariant *)

UnitsIn(per, r, k) ==
  {u \in Callers \X (1..MaxAmount) :
     /\ per[u[1]].resource = r
     /\ u[2] <= per[u[1]].amount
     /\ k \in KeysOf(u[1])}

TicketsIn(tix, r, k) == Charged(Waiting(r, tix), k)

Busy == {"granted", "unlocked", "held"}

TicketType == [resource : QueuedResources \cup {"NONE"},
               ordinal : 0..MaxTicket, wait : WaitPolicy]

PermitType == [resource : Resources \cup {"NONE"}, amount : 0..MaxAmount]

Types(nt, res, que, tix, per, st) ==
  /\ nt \in [QueuedResources -> 1..MaxTicket]
  /\ res \in [Resources -> [CounterKeys -> Nat]]
  /\ que \in [QueuedResources -> [CounterKeys -> Nat]]
  /\ tix \in [Callers -> TicketType]
  /\ per \in [Callers -> PermitType]
  /\ st \in [Callers -> Returned \cup {"waiting"} \cup Busy]

\* A caller waits exactly while it has a ticket and owns authority exactly
\* while it is past its grant; an empty record really is empty.
ShapeOf(tix, per, st) ==
  \A c \in Callers :
    /\ tix[c].resource = "NONE" => tix[c] = NoTicket
    /\ st[c] = "waiting" <=> tix[c].resource # "NONE"
    /\ per[c].resource = "NONE" => per[c] = NoPermit
    /\ per[c].resource # "NONE" => per[c].amount >= 1
    /\ st[c] \in Busy <=> per[c].resource # "NONE"

\* Ordinals tell the tickets of one queue apart.
OrdinalsOf(nt, tix) ==
  \A c \in Callers :
    tix[c].resource # "NONE" =>
      /\ tix[c].ordinal < nt[tix[c].resource]
      /\ \A d \in Callers :
           d # c /\ tix[d].resource = tix[c].resource =>
             tix[d].ordinal # tix[c].ordinal

ResourceLedger(res, per) ==
  \A r \in Resources, k \in CounterKeys :
    res[r][k] = Cardinality(UnitsIn(per, r, k))

QueueLedger(que, tix) ==
  \A r \in QueuedResources, k \in CounterKeys :
    que[r][k] = Cardinality(TicketsIn(tix, r, k))

LimitsOf(res, que) ==
  /\ \A r \in Resources, k \in CounterKeys :
       res[r][k] <= ResourceLimits[r][k[1]]
  /\ \A r \in QueuedResources, k \in CounterKeys :
       que[r][k] <= QueueLimits[r][k[1]]

Consistent(nt, res, que, tix, per, st) ==
  /\ Types(nt, res, que, tix, per, st)
  /\ ShapeOf(tix, per, st)
  /\ OrdinalsOf(nt, tix)
  /\ ResourceLedger(res, per)
  /\ QueueLedger(que, tix)
  /\ LimitsOf(res, que)

IInv ==
  /\ now \in 0..MaxTime
  /\ terminal_reason \in {"NONE", "RUNTIME_CLOSED", "TICKET_EXHAUSTED"}
  /\ cancelled \in [Callers -> BOOLEAN]
  /\ Consistent(next_ticket, resources, queues, ticket, permit, pc)

-----------------------------------------------------------------------------
(* Keys, units and tickets *)

\* Every counter key belongs to one of the five scopes of the profile.
LEMMA KeyFacts ==
  /\ \A c \in Callers : KeysOf(c) \subseteq CounterKeys
  /\ \A k \in CounterKeys : k[1] \in Scopes
<1>1. ASSUME NEW c \in Callers PROVE KeysOf(c) \subseteq CounterKeys
  BY DEF CounterKeys
<1>2. ASSUME NEW c \in Callers, NEW k \in KeysOf(c) PROVE k[1] \in Scopes
  BY DEF KeysOf, Scopes
<1> QED
  BY <1>1, <1>2 DEF CounterKeys

\* Limits are natural numbers.
LEMMA LimitFacts ==
  /\ \A r \in Resources, k \in CounterKeys : ResourceLimits[r][k[1]] \in Nat
  /\ \A r \in QueuedResources, k \in CounterKeys : QueueLimits[r][k[1]] \in Nat
BY KeyFacts, ProfileAssumption

\* The units of a resource that are out are finitely many.
LEMMA UnitsFinite ==
  ASSUME NEW per, NEW r, NEW k
  PROVE  /\ IsFiniteSet(UnitsIn(per, r, k))
         /\ Cardinality(UnitsIn(per, r, k)) \in Nat
<1>1. IsFiniteSet(1..MaxAmount)
  BY FS_Interval, BoundsAssumption
<1>2. IsFiniteSet(Callers \X (1..MaxAmount))
  BY <1>1, FS_Product, BoundsAssumption
<1>3. UnitsIn(per, r, k) \in SUBSET (Callers \X (1..MaxAmount))
  BY DEF UnitsIn
<1> QED
  BY <1>2, <1>3, FS_Subset, FS_CardinalityType

\* Every set of callers is finite.
LEMMA SubsetsOfCallersFinite ==
  ASSUME NEW S \in SUBSET Callers
  PROVE  IsFiniteSet(S) /\ Cardinality(S) \in Nat
BY FS_Subset, FS_CardinalityType, BoundsAssumption

\* The tickets charged to a counter are finitely many.
LEMMA TicketsFinite ==
  ASSUME NEW tix, NEW r, NEW k
  PROVE  /\ IsFiniteSet(TicketsIn(tix, r, k))
         /\ Cardinality(TicketsIn(tix, r, k)) \in Nat
<1>1. TicketsIn(tix, r, k) \in SUBSET Callers
  BY DEF TicketsIn, Charged, Waiting
<1> QED
  BY <1>1, SubsetsOfCallersFinite

-----------------------------------------------------------------------------
(* The granting pass *)

\* A pass never grants beyond a limit: the last ticket it charged to k fitted
\* beside all the earlier ones.
LEMMA PassFits ==
  ASSUME NEW r \in QueuedResources, NEW counts \in [CounterKeys -> Nat],
         NEW tix \in [Callers -> TicketType], NEW nt,
         OrdinalsOf(nt, tix),
         NEW G \in SUBSET Eligible(r, tix),
         IsFifoGrant(G, r, counts, tix),
         NEW k \in CounterKeys,
         counts[k] <= ResourceLimits[r][k[1]]
  PROVE  counts[k] + Cardinality(Charged(G, k)) <= ResourceLimits[r][k[1]]
<1> DEFINE H == Charged(G, k)
           ord == [c \in Callers |-> tix[c].ordinal]
<1>1. H \subseteq G /\ G \subseteq Callers /\ H \in SUBSET Callers
  BY DEF Charged, Eligible, Waiting
<1>2. IsFiniteSet(H) /\ Cardinality(H) \in Nat
  BY <1>1, SubsetsOfCallersFinite
<1>3. ResourceLimits[r][k[1]] \in Nat /\ counts[k] \in Nat
  BY LimitFacts DEF Resources
<1>4. CASE H = {}
  BY <1>3, <1>4, FS_EmptySet
<1>5. CASE H # {}
  <2>1. \A c \in H : ord[c] \in Nat
    BY <1>1 DEF TicketType
  <2>2. PICK last \in H : \A c \in H : ord[c] <= ord[last]
    <3> HIDE DEF H, ord
    <3> QED BY <1>2, <1>5, <2>1, MaximumExists
  <2> DEFINE E == Charged(Earlier(last, G, tix), k)
  <2>3. H = E \cup {last} /\ last \notin E
    <3>1. \A c \in H : tix[c].ordinal <= tix[last].ordinal
      BY <1>1, <2>2
    <3>2. \A c \in H : c # last => tix[c].ordinal # tix[last].ordinal
      BY <1>1 DEF OrdinalsOf, Eligible, Waiting, QueuedResources
    <3>3. \A c \in H : tix[c].ordinal \in Nat
      BY <1>1 DEF TicketType
    <3>4. \A c \in H : c # last => tix[c].ordinal < tix[last].ordinal
      BY <3>1, <3>2, <3>3
    <3> QED
      BY <1>1, <3>3, <3>4 DEF Charged, Earlier
  <2>4. E \in SUBSET Callers
    BY <1>1 DEF Charged, Earlier
  <2>5. IsFiniteSet(E) /\ Cardinality(E) \in Nat
    BY <2>4, SubsetsOfCallersFinite
  <2>6. Cardinality(H) = Cardinality(E) + 1
    <3> HIDE DEF H, E
    <3> QED BY <2>3, <2>5, FS_AddElement
  <2>7. last \in G /\ last \in Eligible(r, tix) /\ k \in KeysOf(last)
    BY DEF Charged
  <2>8. counts[k] + Cardinality(E) + 1 <= ResourceLimits[r][k[1]]
    BY <2>7 DEF IsFifoGrant
  <2> HIDE DEF H, E
  <2> QED
    BY <1>2, <1>3, <2>5, <2>6, <2>8 DEF H
<1> QED
  BY <1>4, <1>5

TicketsLeft(tix, G) == [c \in Callers |-> IF c \in G THEN NoTicket ELSE tix[c]]

PermitsGranted(per, r, G) ==
  [c \in Callers |-> IF c \in G THEN [resource |-> r, amount |-> 1] ELSE per[c]]

\* The granted tickets become one unit each and leave the queue.
LEMMA PassCounts ==
  ASSUME NEW r \in QueuedResources, NEW tix, NEW per, NEW G \in SUBSET Callers,
         NEW k,
         \A c \in G : tix[c].resource = r /\ per[c].resource = "NONE",
         NEW tix2, NEW per2,
         tix2 = TicketsLeft(tix, G),
         per2 = PermitsGranted(per, r, G)
  PROVE  /\ Cardinality(UnitsIn(per2, r, k)) =
              Cardinality(UnitsIn(per, r, k)) + Cardinality(Charged(G, k))
         /\ Cardinality(TicketsIn(tix, r, k)) =
              Cardinality(TicketsIn(tix2, r, k)) + Cardinality(Charged(G, k))
         /\ \A q \in Resources : q # r => UnitsIn(per2, q, k) = UnitsIn(per, q, k)
         /\ \A q \in QueuedResources :
              q # r => TicketsIn(tix2, q, k) = TicketsIn(tix, q, k)
<1> DEFINE H == Charged(G, k)
           U == UnitsIn(per, r, k)
           N == H \X {1}
           T == TicketsIn(tix2, r, k)
<1> USE DEF TicketsLeft, PermitsGranted
<1>1. H \in SUBSET Callers
  BY DEF Charged
<1>2. IsFiniteSet(H)
  BY <1>1, SubsetsOfCallersFinite
<1>3. r # "NONE" /\ "NONE" \notin Resources /\ 1 \in 1..MaxAmount
  BY BoundsAssumption DEF QueuedResources, ImmediateResources, Resources
<1>4. UnitsIn(per2, r, k) = U \cup N
  <2>1. ASSUME NEW u \in UnitsIn(per2, r, k) PROVE u \in U \cup N
    <3>1. /\ u \in Callers \X (1..MaxAmount)
          /\ per2[u[1]].resource = r
          /\ u[2] <= per2[u[1]].amount
          /\ k \in KeysOf(u[1])
      BY DEF UnitsIn
    <3>2. CASE u[1] \in G
      <4>1. u[2] = 1
        BY <3>1, <3>2
      <4> QED
        BY <3>1, <3>2, <4>1 DEF Charged
    <3>3. CASE u[1] \notin G
      BY <3>1, <3>3 DEF UnitsIn
    <3> QED
      BY <3>2, <3>3
  <2>2. ASSUME NEW u \in U PROVE u \in UnitsIn(per2, r, k)
    <3>1. u \in Callers \X (1..MaxAmount) /\ per[u[1]].resource = r
      BY DEF UnitsIn
    <3>2. u[1] \notin G
      BY <1>3, <3>1
    <3> QED
      BY <3>1, <3>2 DEF UnitsIn
  <2>3. ASSUME NEW u \in N PROVE u \in UnitsIn(per2, r, k)
    BY <1>1, <1>3 DEF UnitsIn, Charged
  <2> QED
    BY <2>1, <2>2, <2>3
<1>5. U \cap N = {}
  BY <1>3 DEF UnitsIn, Charged
<1>6. IsFiniteSet(N) /\ Cardinality(N) = Cardinality(H)
  BY <1>2, Tagged
<1>7. IsFiniteSet(U)
  BY UnitsFinite
<1>8. Cardinality(U \cup N) = Cardinality(U) + Cardinality(H)
  <2> HIDE DEF U, N, H
  <2> QED BY <1>5, <1>6, <1>7, DisjointUnion
<1>9. TicketsIn(tix, r, k) = T \cup H /\ T \cap H = {}
  BY <1>3 DEF TicketsIn, Charged, Waiting, NoTicket
<1>10. IsFiniteSet(T)
  BY TicketsFinite
<1>11. Cardinality(T \cup H) = Cardinality(T) + Cardinality(H)
  <2> HIDE DEF T, H
  <2> QED BY <1>2, <1>9, <1>10, DisjointUnion
<1>12. ASSUME NEW q \in Resources, q # r
       PROVE  UnitsIn(per2, q, k) = UnitsIn(per, q, k)
  BY <1>3, <1>12 DEF UnitsIn
<1>13. ASSUME NEW q \in QueuedResources, q # r
       PROVE  TicketsIn(tix2, q, k) = TicketsIn(tix, q, k)
  BY <1>3, <1>13 DEF TicketsIn, Charged, Waiting, NoTicket, QueuedResources
<1> QED
  BY <1>4, <1>8, <1>9, <1>11, <1>12, <1>13

\* A granting pass turns consistent values into consistent values.
LEMMA GrantKeepsConsistent ==
  ASSUME NEW r \in QueuedResources, NEW nt, NEW used, NEW queued, NEW tix,
         NEW per, NEW st,
         Consistent(nt, used, queued, tix, per, st),
         GrantEligibleLocked(r, used, queued, tix, per, st)
  PROVE  Consistent(nt, resources', queues', ticket', permit', pc')
<1>1. PICK G \in SUBSET Eligible(r, tix) :
        /\ IsFifoGrant(G, r, used[r], tix)
        /\ resources' =
             [used EXCEPT ![r] =
                [k \in CounterKeys |-> used[r][k] + Cardinality(Charged(G, k))]]
        /\ queues' =
             [queued EXCEPT ![r] =
                [k \in CounterKeys |-> queued[r][k] - Cardinality(Charged(G, k))]]
        /\ ticket' = [c \in Callers |-> IF c \in G THEN NoTicket ELSE tix[c]]
        /\ permit' = [c \in Callers |-> IF c \in G
                                        THEN [resource |-> r, amount |-> 1]
                                        ELSE per[c]]
        /\ pc' = [c \in Callers |-> IF c \in G THEN "granted" ELSE st[c]]
  BY DEF GrantEligibleLocked
<1>2. /\ Types(nt, used, queued, tix, per, st)
      /\ ShapeOf(tix, per, st)
      /\ OrdinalsOf(nt, tix)
      /\ ResourceLedger(used, per)
      /\ QueueLedger(queued, tix)
      /\ LimitsOf(used, queued)
  BY DEF Consistent
<1>3. r \in Resources /\ r # "NONE" /\ "NONE" \notin QueuedResources
  BY DEF Resources, QueuedResources
<1>4. G \in SUBSET Callers /\ \A c \in G : tix[c].resource = r
  BY DEF Eligible, Waiting
<1>5. \A c \in G : per[c].resource = "NONE" /\ st[c] = "waiting"
  BY <1>2, <1>3, <1>4 DEF ShapeOf, Busy
<1>6. \A k : /\ Cardinality(UnitsIn(permit', r, k)) =
                  Cardinality(UnitsIn(per, r, k)) + Cardinality(Charged(G, k))
             /\ Cardinality(TicketsIn(tix, r, k)) =
                  Cardinality(TicketsIn(ticket', r, k)) + Cardinality(Charged(G, k))
             /\ \A q \in Resources :
                  q # r => UnitsIn(permit', q, k) = UnitsIn(per, q, k)
             /\ \A q \in QueuedResources :
                  q # r => TicketsIn(ticket', q, k) = TicketsIn(tix, q, k)
  <2>1. /\ ticket' = TicketsLeft(tix, G)
        /\ permit' = PermitsGranted(per, r, G)
    BY <1>1 DEF TicketsLeft, PermitsGranted
  <2> QED
    BY <1>4, <1>5, <2>1, PassCounts
<1>7. \A k : Cardinality(Charged(G, k)) \in Nat
  <2>1. \A k : Charged(G, k) \in SUBSET Callers
    BY <1>4 DEF Charged
  <2> QED
    BY <2>1, SubsetsOfCallersFinite
<1>8. ResourceLedger(resources', permit') /\ QueueLedger(queues', ticket')
  <2>1. ASSUME NEW q \in Resources, NEW k \in CounterKeys
        PROVE  resources'[q][k] = Cardinality(UnitsIn(permit', q, k))
    BY <1>1, <1>2, <1>3, <1>6 DEF ResourceLedger, QueueLedger, Types
  <2>2. ASSUME NEW q \in QueuedResources, NEW k \in CounterKeys
        PROVE  queues'[q][k] = Cardinality(TicketsIn(ticket', q, k))
    <3>1. Cardinality(TicketsIn(ticket', q, k)) \in Nat
      BY TicketsFinite
    <3>2. CASE q = r
      <4>1. queues'[r][k] = queued[r][k] - Cardinality(Charged(G, k))
        BY <1>1, <1>2 DEF Types
      <4>2. queued[r][k] = Cardinality(TicketsIn(tix, r, k))
        BY <1>2 DEF ResourceLedger, QueueLedger
      <4>3. Cardinality(TicketsIn(tix, r, k)) =
              Cardinality(TicketsIn(ticket', r, k)) + Cardinality(Charged(G, k))
        BY <1>6
      <4> QED
        BY <1>7, <3>1, <3>2, <4>1, <4>2, <4>3
    <3>3. CASE q # r
      BY <1>1, <1>2, <1>6, <3>3 DEF ResourceLedger, QueueLedger, Types
    <3> QED
      BY <3>2, <3>3
  <2> QED
    BY <2>1, <2>2 DEF ResourceLedger, QueueLedger
<1>9. Types(nt, resources', queues', ticket', permit', pc')
  <2>1. resources' \in [Resources -> [CounterKeys -> Nat]]
    <3>1. \A k \in CounterKeys :
            used[r][k] + Cardinality(Charged(G, k)) \in Nat
      BY <1>2, <1>3, <1>7 DEF Types
    <3> QED
      BY <1>1, <1>2, <3>1 DEF Types
  <2>2. queues' \in [QueuedResources -> [CounterKeys -> Nat]]
    <3>1. \A k \in CounterKeys :
            queued[r][k] - Cardinality(Charged(G, k)) \in Nat
      BY <1>2, <1>6, <1>7, TicketsFinite DEF ResourceLedger, QueueLedger
    <3> QED
      BY <1>1, <1>2, <3>1 DEF Types
  <2>3. ticket' \in [Callers -> TicketType]
    <3>1. NoTicket \in TicketType
      BY BoundsAssumption DEF NoTicket, TicketType, NoWait, WaitPolicy, NoDeadline
    <3> QED
      BY <1>1, <1>2, <3>1 DEF Types
  <2>4. permit' \in [Callers -> PermitType]
    BY <1>1, <1>2, <1>3, BoundsAssumption DEF Types, PermitType
  <2>5. pc' \in [Callers -> Returned \cup {"waiting"} \cup Busy]
    BY <1>1, <1>2 DEF Types, Busy
  <2> QED
    BY <1>2, <2>1, <2>2, <2>3, <2>4, <2>5 DEF Types
<1>10. ShapeOf(ticket', permit', pc')
  BY <1>1, <1>2, <1>3 DEF ShapeOf, NoTicket, NoPermit, Busy
<1>11. OrdinalsOf(nt, ticket')
  BY <1>1, <1>2 DEF OrdinalsOf, NoTicket
<1>12. LimitsOf(resources', queues')
  <2>1. ASSUME NEW q \in Resources, NEW k \in CounterKeys
        PROVE  resources'[q][k] <= ResourceLimits[q][k[1]]
    <3>1. CASE q = r
      <4>1. used[r] \in [CounterKeys -> Nat] /\ tix \in [Callers -> TicketType]
        BY <1>2, <1>3 DEF Types
      <4>2. used[r][k] <= ResourceLimits[r][k[1]]
        BY <1>2, <1>3 DEF LimitsOf
      <4>3. used[r][k] + Cardinality(Charged(G, k)) <= ResourceLimits[r][k[1]]
        BY <1>1, <1>2, <4>1, <4>2, PassFits
      <4> QED
        BY <1>1, <1>2, <1>3, <3>1, <4>3 DEF Types
    <3>2. CASE q # r
      BY <1>1, <1>2, <3>2 DEF LimitsOf, Types
    <3> QED
      BY <3>1, <3>2
  <2>2. ASSUME NEW q \in QueuedResources, NEW k \in CounterKeys
        PROVE  queues'[q][k] <= QueueLimits[q][k[1]]
    <3>1. queues'[q][k] <= queued[q][k] /\ queued[q][k] \in Nat
      BY <1>1, <1>2, <1>7 DEF Types
    <3>2. queues'[q][k] \in Nat /\ QueueLimits[q][k[1]] \in Nat
      BY <1>9, LimitFacts DEF Types
    <3> QED
      BY <1>2, <3>1, <3>2 DEF LimitsOf
  <2> QED
    BY <2>1, <2>2 DEF LimitsOf
<1> QED
  BY <1>8, <1>9, <1>10, <1>11, <1>12 DEF Consistent

-----------------------------------------------------------------------------
(* AddUsage and SubtractUsage *)

\* In per, caller c has n units of r and nothing else.
HasUnits(per, c, r, n) ==
  \/ per[c].resource = r /\ per[c].amount = n
  \/ per[c].resource = "NONE" /\ n = 0

\* The counters of r after AddUsage and after SubtractUsage.
Increased(counters, r, c, n) ==
  [counters EXCEPT ![r] = AddUsage(counters[r], c, n)]

Decreased(counters, r, c, n) ==
  [counters EXCEPT ![r] = SubtractUsage(counters[r], c, n)]

AgreeExcept(f, g, c) == \A d \in Callers \ {c} : f[d] = g[d]

\* What one caller's extra units do to every counted set.
LEMMA UnitsDiffer ==
  ASSUME NEW per, NEW per2, NEW c \in Callers, NEW r \in Resources,
         NEW m \in 0..MaxAmount, NEW n \in 0..MaxAmount, m <= n,
         HasUnits(per, c, r, m), HasUnits(per2, c, r, n),
         AgreeExcept(per, per2, c), NEW k, NEW q \in Resources
  PROVE  /\ k \in KeysOf(c) =>
              Cardinality(UnitsIn(per2, r, k)) =
                Cardinality(UnitsIn(per, r, k)) + (n - m)
         /\ k \notin KeysOf(c) => UnitsIn(per2, r, k) = UnitsIn(per, r, k)
         /\ q # r => UnitsIn(per2, q, k) = UnitsIn(per, q, k)
<1> DEFINE U == UnitsIn(per, r, k)
           N == {c} \X ((m + 1)..n)
<1>1. r # "NONE" /\ "NONE" \notin Resources /\ m \in Nat /\ n \in Nat
        /\ MaxAmount \in Nat
  BY BoundsAssumption DEF QueuedResources, ImmediateResources, Resources
<1>2. ASSUME k \in KeysOf(c)
      PROVE  Cardinality(UnitsIn(per2, r, k)) = Cardinality(U) + (n - m)
  <2>1. UnitsIn(per2, r, k) = U \cup N
    <3>1. ASSUME NEW d \in Callers, NEW i \in 1..MaxAmount
          PROVE  <<d, i>> \in UnitsIn(per2, r, k) <=> <<d, i>> \in U \cup N
      <4>1. CASE d = c
        BY <1>1, <1>2, <4>1 DEF UnitsIn, HasUnits
      <4>2. CASE d # c
        BY <4>2 DEF UnitsIn, AgreeExcept
      <4> QED
        BY <4>1, <4>2
    <3>2. /\ UnitsIn(per2, r, k) \subseteq Callers \X (1..MaxAmount)
          /\ U \cup N \subseteq Callers \X (1..MaxAmount)
      BY <1>1 DEF UnitsIn
    <3> HIDE DEF U, N
    <3> QED
      BY <3>1, <3>2
  <2>2. U \cap N = {}
    BY <1>1 DEF UnitsIn, HasUnits
  <2>3. IsFiniteSet(U)
    BY UnitsFinite
  <2>4. IsFiniteSet(N) /\ Cardinality(N) = n - m
    BY <1>1, UnitInterval
  <2> HIDE DEF U, N
  <2> QED
    BY <2>1, <2>2, <2>3, <2>4, DisjointUnion
<1>3. ASSUME k \notin KeysOf(c)
      PROVE  UnitsIn(per2, r, k) = UnitsIn(per, r, k)
  BY <1>3 DEF UnitsIn, AgreeExcept
<1>4. ASSUME q # r
      PROVE  UnitsIn(per2, q, k) = UnitsIn(per, q, k)
  BY <1>1, <1>4 DEF UnitsIn, HasUnits, AgreeExcept
<1> QED
  BY <1>2, <1>3, <1>4

\* AddUsage keeps the resource counters equal to what is held.
LEMMA AddUnits ==
  ASSUME NEW per, NEW per2, NEW c \in Callers, NEW r \in Resources,
         NEW m \in 0..MaxAmount, NEW n \in 0..MaxAmount, m <= n,
         HasUnits(per, c, r, m), HasUnits(per2, c, r, n),
         AgreeExcept(per, per2, c),
         NEW res \in [Resources -> [CounterKeys -> Nat]],
         ResourceLedger(res, per),
         NEW d, d = n - m
  PROVE  /\ ResourceLedger(Increased(res, r, c, d), per2)
         /\ Increased(res, r, c, d) \in [Resources -> [CounterKeys -> Nat]]
<1> DEFINE res2 == Increased(res, r, c, d)
<1> USE DEF Increased, Decreased
<1>1. ASSUME NEW q \in Resources, NEW k \in CounterKeys
      PROVE  /\ res2[q][k] = Cardinality(UnitsIn(per2, q, k))
             /\ res2[q][k] \in Nat
  <2>1. res[q][k] = Cardinality(UnitsIn(per, q, k))
    BY DEF ResourceLedger
  <2>2. CASE q # r
    <3>1. res2[q] = res[q] /\ res[q][k] \in Nat
      BY <2>2
    <3>2. UnitsIn(per2, q, k) = UnitsIn(per, q, k)
      BY <2>2, UnitsDiffer
    <3> QED
      BY <2>1, <3>1, <3>2
  <2>3. CASE q = r /\ k \in KeysOf(c)
    <3>1. res2[q][k] = res[q][k] + (n - m)
      BY <2>3 DEF AddUsage
    <3>2. Cardinality(UnitsIn(per2, r, k)) = Cardinality(UnitsIn(per, r, k)) + (n - m)
      BY <2>3, UnitsDiffer
    <3> QED
      BY <2>1, <2>3, <3>1, <3>2, UnitsFinite
  <2>4. CASE q = r /\ k \notin KeysOf(c)
    <3>1. res2[q][k] = res[q][k]
      BY <2>4 DEF AddUsage
    <3> QED
      BY <2>1, <2>4, <3>1, UnitsDiffer
  <2> QED
    BY <2>2, <2>3, <2>4
<1>2. res2 \in [Resources -> [CounterKeys -> Nat]]
  <2>1. AddUsage(res[r], c, n - m) \in [CounterKeys -> Nat]
    BY BoundsAssumption DEF AddUsage
  <2> QED
    BY <2>1
<1> QED
  BY <1>1, <1>2 DEF ResourceLedger

\* SubtractUsage keeps them equal too, and never goes below zero.
LEMMA RemoveUnits ==
  ASSUME NEW per, NEW per2, NEW c \in Callers, NEW r \in Resources,
         NEW m \in 0..MaxAmount, NEW n \in 0..MaxAmount, m <= n,
         HasUnits(per, c, r, n), HasUnits(per2, c, r, m),
         AgreeExcept(per2, per, c),
         NEW res \in [Resources -> [CounterKeys -> Nat]],
         ResourceLedger(res, per),
         NEW d, d = n - m
  PROVE  /\ ResourceLedger(Decreased(res, r, c, d), per2)
         /\ Decreased(res, r, c, d) \in [Resources -> [CounterKeys -> Nat]]
         /\ \A q \in Resources, k \in CounterKeys : Decreased(res, r, c, d)[q][k] <= res[q][k]
<1> DEFINE res2 == Decreased(res, r, c, d)
<1> USE DEF Increased, Decreased
<1>1. ASSUME NEW q \in Resources, NEW k \in CounterKeys
      PROVE  /\ res2[q][k] = Cardinality(UnitsIn(per2, q, k))
             /\ res2[q][k] \in Nat
             /\ res2[q][k] <= res[q][k]
  <2>1. res[q][k] = Cardinality(UnitsIn(per, q, k)) /\ res[q][k] \in Nat
    BY DEF ResourceLedger
  <2>2. CASE q # r
    <3>1. res2[q] = res[q] /\ res[q][k] \in Nat
      BY <2>2
    <3>2. UnitsIn(per2, q, k) = UnitsIn(per, q, k)
      BY <2>2, UnitsDiffer
    <3> QED
      BY <2>1, <3>1, <3>2
  <2>3. CASE q = r /\ k \in KeysOf(c)
    <3>1. res2[q][k] = res[q][k] - (n - m)
      BY <2>3 DEF SubtractUsage
    <3>2. Cardinality(UnitsIn(per, r, k)) = Cardinality(UnitsIn(per2, r, k)) + (n - m)
      BY <2>3, UnitsDiffer
    <3>3. Cardinality(UnitsIn(per2, r, k)) \in Nat
      BY UnitsFinite
    <3> QED
      BY <2>1, <2>3, <3>1, <3>2, <3>3
  <2>4. CASE q = r /\ k \notin KeysOf(c)
    <3>1. res2[q][k] = res[q][k]
      BY <2>4 DEF SubtractUsage
    <3> QED
      BY <2>1, <2>4, <3>1, UnitsDiffer
  <2> QED
    BY <2>2, <2>3, <2>4
<1>2. res2 \in [Resources -> [CounterKeys -> Nat]]
  <2>1. res2[r] = SubtractUsage(res[r], c, n - m)
    OBVIOUS
  <2>2. SubtractUsage(res[r], c, n - m) \in [CounterKeys -> Nat]
    BY <1>1, <2>1 DEF SubtractUsage
  <2> QED
    BY <2>2
<1> QED
  BY <1>1, <1>2 DEF ResourceLedger

\* Pushing a ticket charges its queue, removing it uncharges the queue.
LEMMA TicketDiffers ==
  ASSUME NEW tix, NEW tix2, NEW c \in Callers, NEW r \in QueuedResources,
         tix[c].resource = "NONE", tix2[c].resource = r,
         AgreeExcept(tix, tix2, c), NEW k, NEW q \in QueuedResources
  PROVE  /\ k \in KeysOf(c) =>
              Cardinality(TicketsIn(tix2, r, k)) =
                Cardinality(TicketsIn(tix, r, k)) + 1
         /\ k \notin KeysOf(c) => TicketsIn(tix2, r, k) = TicketsIn(tix, r, k)
         /\ q # r => TicketsIn(tix2, q, k) = TicketsIn(tix, q, k)
<1>1. "NONE" \notin QueuedResources
  BY DEF QueuedResources
<1>2. ASSUME k \in KeysOf(c)
      PROVE  Cardinality(TicketsIn(tix2, r, k)) =
               Cardinality(TicketsIn(tix, r, k)) + 1
  <2>1. TicketsIn(tix2, r, k) = TicketsIn(tix, r, k) \cup {c}
    BY <1>2 DEF TicketsIn, Charged, Waiting, AgreeExcept
  <2>2. c \notin TicketsIn(tix, r, k)
    BY <1>1 DEF TicketsIn, Charged, Waiting
  <2> QED
    BY <2>1, <2>2, TicketsFinite, FS_AddElement
<1>3. ASSUME k \notin KeysOf(c)
      PROVE  TicketsIn(tix2, r, k) = TicketsIn(tix, r, k)
  BY <1>3 DEF TicketsIn, Charged, Waiting, AgreeExcept
<1>4. ASSUME q # r PROVE TicketsIn(tix2, q, k) = TicketsIn(tix, q, k)
  BY <1>1, <1>4 DEF TicketsIn, Charged, Waiting, AgreeExcept
<1> QED
  BY <1>2, <1>3, <1>4

\* Pushing a ticket and AddUsage keep the queue counters exact.
LEMMA AddTicket ==
  ASSUME NEW tix, NEW tix2, NEW c \in Callers, NEW r \in QueuedResources,
         tix[c].resource = "NONE", tix2[c].resource = r,
         AgreeExcept(tix, tix2, c),
         NEW que \in [QueuedResources -> [CounterKeys -> Nat]],
         QueueLedger(que, tix)
  PROVE  /\ QueueLedger(Increased(que, r, c, 1), tix2)
         /\ Increased(que, r, c, 1) \in [QueuedResources -> [CounterKeys -> Nat]]
<1> DEFINE que2 == Increased(que, r, c, 1)
<1> USE DEF Increased, Decreased
<1>1. ASSUME NEW q \in QueuedResources, NEW k \in CounterKeys
      PROVE  que2[q][k] = Cardinality(TicketsIn(tix2, q, k))
  <2>1. que[q][k] = Cardinality(TicketsIn(tix, q, k))
    BY DEF QueueLedger
  <2>2. CASE q # r
    BY <2>1, <2>2, TicketDiffers
  <2>3. CASE q = r
    BY <2>1, <2>3, TicketDiffers DEF AddUsage
  <2> QED
    BY <2>2, <2>3
<1>2. AddUsage(que[r], c, 1) \in [CounterKeys -> Nat]
  BY DEF AddUsage
<1> QED
  BY <1>1, <1>2 DEF QueueLedger

\* RemoveTicketLocked and SubtractUsage keep the queue counters exact.
LEMMA RemoveTicket ==
  ASSUME NEW tix, NEW tix2, NEW c \in Callers, NEW r \in QueuedResources,
         tix[c].resource = r, tix2[c].resource = "NONE",
         AgreeExcept(tix2, tix, c),
         NEW que \in [QueuedResources -> [CounterKeys -> Nat]],
         QueueLedger(que, tix)
  PROVE  /\ QueueLedger(Decreased(que, r, c, 1), tix2)
         /\ Decreased(que, r, c, 1) \in [QueuedResources -> [CounterKeys -> Nat]]
         /\ \A q \in QueuedResources, k \in CounterKeys : Decreased(que, r, c, 1)[q][k] <= que[q][k]
<1> DEFINE que2 == Decreased(que, r, c, 1)
<1> USE DEF Increased, Decreased
<1>1. ASSUME NEW q \in QueuedResources, NEW k \in CounterKeys
      PROVE  /\ que2[q][k] = Cardinality(TicketsIn(tix2, q, k))
             /\ que2[q][k] \in Nat
             /\ que2[q][k] <= que[q][k]
  <2>1. que[q][k] = Cardinality(TicketsIn(tix, q, k)) /\ que[q][k] \in Nat
    BY DEF QueueLedger
  <2>2. CASE q # r
    BY <2>1, <2>2, TicketDiffers
  <2>3. CASE q = r
    <3>1. Cardinality(TicketsIn(tix2, q, k)) \in Nat
      BY TicketsFinite
    <3> QED
      BY <2>1, <2>3, <3>1, TicketDiffers DEF SubtractUsage
  <2> QED
    BY <2>2, <2>3
<1>2. SubtractUsage(que[r], c, 1) \in [CounterKeys -> Nat]
  <2>1. que2[r] = SubtractUsage(que[r], c, 1)
    OBVIOUS
  <2> QED
    BY <1>1, <2>1 DEF SubtractUsage
<1> QED
  BY <1>1, <1>2 DEF QueueLedger

\* What fits stays within the limits when it is added.
LEMMA FitsAdds ==
  ASSUME NEW c \in Callers, NEW counts \in [CounterKeys -> Nat],
         NEW limits, NEW n \in Nat, NEW k \in CounterKeys,
         limits[k[1]] \in Nat, counts[k] <= limits[k[1]],
         CheckFits(counts, limits, c, n)
  PROVE  AddUsage(counts, c, n)[k] <= limits[k[1]]
BY DEF CheckFits, Blocking, AddUsage

-----------------------------------------------------------------------------
(* The actions *)

\* A caller moves between two states of the same kind and touches nothing else.
LEMMA OnlyState ==
  ASSUME IInv, NEW c \in Callers, NEW s,
         pc' = [pc EXCEPT ![c] = s],
         \/ pc[c] \in Returned /\ s \in Returned
         \/ pc[c] \in Busy /\ s \in Busy,
         UNCHANGED <<next_ticket, resources, queues, ticket, permit>>
  PROVE  Consistent(next_ticket, resources, queues, ticket, permit, pc)'
<1>1. Types(next_ticket, resources, queues, ticket, permit, pc)'
  BY DEF IInv, Consistent, Types
<1>2. ShapeOf(ticket, permit, pc)'
  BY DEF IInv, Consistent, Types, ShapeOf, Returned, Busy
<1> QED
  BY <1>1, <1>2 DEF IInv, Consistent, OrdinalsOf, ResourceLedger, QueueLedger,
                    LimitsOf

\* Giving authority back, before the granting pass that hands it on.
LEMMA GiveBackStart ==
  ASSUME IInv, NEW c \in Callers, pc[c] \in Busy, NEW status \in Returned
  PROVE  Consistent(next_ticket,
                    [resources EXCEPT ![permit[c].resource] =
                       SubtractUsage(@, c, permit[c].amount)],
                    queues, ticket, [permit EXCEPT ![c] = NoPermit],
                    [pc EXCEPT ![c] = status])
<1> DEFINE r == permit[c].resource
           n == permit[c].amount
           used == [resources EXCEPT ![r] = SubtractUsage(resources[r], c, n)]
           permits == [permit EXCEPT ![c] = NoPermit]
           states == [pc EXCEPT ![c] = status]
<1>1. /\ Types(next_ticket, resources, queues, ticket, permit, pc)
      /\ ShapeOf(ticket, permit, pc)
      /\ OrdinalsOf(next_ticket, ticket)
      /\ ResourceLedger(resources, permit)
      /\ QueueLedger(queues, ticket)
      /\ LimitsOf(resources, queues)
  BY DEF IInv, Consistent
<1>2. /\ r \in Resources
      /\ n \in 0..MaxAmount
      /\ permit \in [Callers -> PermitType]
      /\ resources \in [Resources -> [CounterKeys -> Nat]]
  BY <1>1 DEF Types, ShapeOf, PermitType
<1>3. /\ ResourceLedger(used, permits)
      /\ used \in [Resources -> [CounterKeys -> Nat]]
      /\ \A q \in Resources, k \in CounterKeys : used[q][k] <= resources[q][k]
  <2>1. HasUnits(permit, c, r, n) /\ HasUnits(permits, c, r, 0)
    BY <1>2 DEF HasUnits, NoPermit
  <2>2. AgreeExcept(permits, permit, c)
    BY <1>2 DEF AgreeExcept
  <2>3. 0 \in 0..MaxAmount /\ 0 <= n /\ n = n - 0
    BY <1>2, BoundsAssumption
  <2>4. used = Decreased(resources, r, c, n)
    BY DEF Decreased
  <2> HIDE DEF r, n, used, permits
  <2> QED
    BY <1>1, <1>2, <2>1, <2>2, <2>3, <2>4, RemoveUnits
<1>4. Types(next_ticket, used, queues, ticket, permits, states)
  BY <1>1, <1>3, BoundsAssumption DEF Types, PermitType, NoPermit
<1>5. ShapeOf(ticket, permits, states)
  BY <1>1 DEF Types, ShapeOf, NoPermit, Returned, Busy
<1>6. LimitsOf(used, queues)
  <2>1. ASSUME NEW q \in Resources, NEW k \in CounterKeys
        PROVE  used[q][k] <= ResourceLimits[q][k[1]]
    <3>1. used[q][k] \in Nat /\ resources[q][k] \in Nat
            /\ ResourceLimits[q][k[1]] \in Nat
      BY <1>2, <1>3, LimitFacts
    <3> QED
      BY <1>1, <1>3, <3>1 DEF LimitsOf
  <2> QED
    BY <1>1, <2>1 DEF LimitsOf
<1> QED
  BY <1>1, <1>3, <1>4, <1>5, <1>6 DEF Consistent

\* Giving authority back and handing it on keeps the invariant.
LEMMA GiveBackKeeps ==
  ASSUME IInv, NEW c \in Callers, pc[c] \in Busy, NEW status \in Returned,
         GiveBack(c, status)
  PROVE  IInv'
<1> DEFINE r == permit[c].resource
           used == [resources EXCEPT ![r] = SubtractUsage(@, c, permit[c].amount)]
           permits == [permit EXCEPT ![c] = NoPermit]
           states == [pc EXCEPT ![c] = status]
<1>7. Consistent(next_ticket, used, queues, ticket, permits, states)
  BY GiveBackStart
<1>8. UNCHANGED <<now, terminal_reason, next_ticket, cancelled>>
  BY DEF GiveBack
<1>9. CASE r \in QueuedResources
  <2>1. GrantEligibleLocked(r, used, queues, ticket, permits, states)
    BY <1>9 DEF GiveBack
  <2>2. Consistent(next_ticket, resources', queues', ticket', permit', pc')
    <3> HIDE DEF r, used, permits, states
    <3> QED BY <1>7, <1>9, <2>1, GrantKeepsConsistent
  <2> QED
    BY <1>8, <2>2 DEF IInv
<1>10. CASE r \notin QueuedResources
  <2>1. /\ resources' = used
        /\ permit' = permits
        /\ pc' = states
        /\ UNCHANGED <<queues, ticket>>
    BY <1>10 DEF GiveBack
  <2>2. Consistent(next_ticket, resources', queues', ticket', permit', pc')
    <3> HIDE DEF used, permits, states
    <3> QED BY <1>7, <2>1
  <2> QED
    BY <1>8, <2>2 DEF IInv
<1> QED
  BY <1>9, <1>10

\* AcquireAtOnce and a successful AcquireImmediate: n units for a caller that
\* held nothing.
LEMMA AcquireKeeps ==
  ASSUME IInv, NEW c \in Callers, NEW r \in Resources, NEW n \in 1..MaxAmount,
         NEW s \in Busy, pc[c] \in Returned,
         CheckFits(resources[r], ResourceLimits[r], c, n),
         resources' = Increased(resources, r, c, n),
         permit' = [permit EXCEPT ![c] = [resource |-> r, amount |-> n]],
         pc' = [pc EXCEPT ![c] = s],
         UNCHANGED <<next_ticket, queues, ticket>>
  PROVE  Consistent(next_ticket, resources, queues, ticket, permit, pc)'
<1>1. /\ Types(next_ticket, resources, queues, ticket, permit, pc)
      /\ ShapeOf(ticket, permit, pc)
      /\ OrdinalsOf(next_ticket, ticket)
      /\ ResourceLedger(resources, permit)
      /\ QueueLedger(queues, ticket)
      /\ LimitsOf(resources, queues)
  BY DEF IInv, Consistent
<1>2. "NONE" \notin Resources /\ n \in Nat /\ MaxAmount \in Nat
  BY BoundsAssumption DEF Resources, QueuedResources, ImmediateResources
<1>3. /\ ResourceLedger(resources', permit')
      /\ resources' \in [Resources -> [CounterKeys -> Nat]]
  <2>1. permit[c].resource = "NONE"
    BY <1>1 DEF ShapeOf, Types, Returned, Busy
  <2>2. HasUnits(permit, c, r, 0) /\ HasUnits(permit', c, r, n)
    BY <1>1, <2>1 DEF HasUnits, Types
  <2>3. AgreeExcept(permit, permit', c)
    BY <1>1 DEF AgreeExcept, Types
  <2>4. 0 \in 0..MaxAmount /\ n \in 0..MaxAmount /\ 0 <= n /\ n = n - 0
    BY <1>2
  <2>5. resources \in [Resources -> [CounterKeys -> Nat]]
    BY <1>1 DEF Types
  <2> QED
    BY <1>1, <2>2, <2>3, <2>4, <2>5, AddUnits
<1>4. Types(next_ticket', resources', queues', ticket', permit', pc')
  BY <1>1, <1>2, <1>3 DEF Types, PermitType
<1>5. ShapeOf(ticket', permit', pc')
  BY <1>1, <1>2 DEF Types, ShapeOf, NoPermit, Returned, Busy
<1>6. LimitsOf(resources', queues')
  <2>1. ASSUME NEW q \in Resources, NEW k \in CounterKeys
        PROVE  resources'[q][k] <= ResourceLimits[q][k[1]]
    <3>1. resources[q][k] <= ResourceLimits[q][k[1]]
            /\ ResourceLimits[q][k[1]] \in Nat
            /\ resources[q] \in [CounterKeys -> Nat]
      BY <1>1, LimitFacts DEF LimitsOf, Types
    <3>2. CASE q = r
      <4>1. AddUsage(resources[r], c, n)[k] <= ResourceLimits[r][k[1]]
        BY <1>2, <3>1, <3>2, FitsAdds
      <4> QED
        BY <1>1, <3>2, <4>1 DEF Types, Increased
    <3>3. CASE q # r
      BY <1>1, <3>1, <3>3 DEF Types, Increased
    <3> QED
      BY <3>2, <3>3
  <2> QED
    BY <1>1, <2>1 DEF LimitsOf
<1> QED
  BY <1>1, <1>3, <1>4, <1>5, <1>6 DEF Consistent

\* A new ticket, before the granting pass that follows it.
LEMMA PushKeeps ==
  ASSUME IInv, NEW c \in Callers, NEW r \in QueuedResources,
         NEW w \in WaitPolicy, pc[c] \in Returned,
         next_ticket[r] < MaxTicket,
         CheckFits(queues[r], QueueLimits[r], c, 1),
         NEW nt, nt = [next_ticket EXCEPT ![r] = @ + 1],
         NEW que, que = Increased(queues, r, c, 1),
         NEW tix, tix = [ticket EXCEPT ![c] = [resource |-> r,
                                               ordinal |-> next_ticket[r],
                                               wait |-> w]],
         NEW st, st = [pc EXCEPT ![c] = "waiting"]
  PROVE  Consistent(nt, resources, que, tix, permit, st)
<1>1. /\ Types(next_ticket, resources, queues, ticket, permit, pc)
      /\ ShapeOf(ticket, permit, pc)
      /\ OrdinalsOf(next_ticket, ticket)
      /\ ResourceLedger(resources, permit)
      /\ QueueLedger(queues, ticket)
      /\ LimitsOf(resources, queues)
  BY DEF IInv, Consistent
<1>2. "NONE" \notin QueuedResources /\ MaxTicket \in Nat
  BY BoundsAssumption DEF QueuedResources
<1>3. next_ticket[r] \in 1..MaxTicket /\ next_ticket[r] + 1 \in 1..MaxTicket
  BY <1>1, <1>2 DEF Types
<1>4. ticket[c].resource = "NONE"
  BY <1>1 DEF ShapeOf, Types, Returned
<1>5. QueueLedger(que, tix) /\ que \in [QueuedResources -> [CounterKeys -> Nat]]
  <2>1. tix[c].resource = r /\ AgreeExcept(ticket, tix, c)
    BY <1>1 DEF Types, AgreeExcept
  <2>2. queues \in [QueuedResources -> [CounterKeys -> Nat]]
    BY <1>1 DEF Types
  <2> QED
    BY <1>1, <1>4, <2>1, <2>2, AddTicket
<1>6. Types(nt, resources, que, tix, permit, st)
  <2>1. [resource |-> r, ordinal |-> next_ticket[r], wait |-> w] \in TicketType
    BY <1>2, <1>3 DEF TicketType
  <2>2. nt \in [QueuedResources -> 1..MaxTicket]
    BY <1>1, <1>3 DEF Types
  <2> QED
    BY <1>1, <1>5, <2>1, <2>2 DEF Types
<1>7. ShapeOf(tix, permit, st)
  BY <1>1, <1>2 DEF Types, ShapeOf, Returned, Busy
<1>8. OrdinalsOf(nt, tix)
  <2>1. ASSUME NEW d \in Callers, tix[d].resource # "NONE"
        PROVE  /\ tix[d].ordinal < nt[tix[d].resource]
               /\ \A e \in Callers :
                    e # d /\ tix[e].resource = tix[d].resource =>
                      tix[e].ordinal # tix[d].ordinal
    <3>1. \A e \in Callers : e # c => tix[e] = ticket[e]
      BY <1>1 DEF Types
    <3>2. tix[c].resource = r /\ tix[c].ordinal = next_ticket[r]
      BY <1>1 DEF Types
    <3>3. \A q \in QueuedResources :
            /\ next_ticket[q] \in Nat
            /\ nt[q] = IF q = r THEN next_ticket[q] + 1 ELSE next_ticket[q]
      BY <1>1 DEF Types
    <3>4. \A e \in Callers : /\ ticket[e].ordinal \in Nat
                             /\ ticket[e].resource # "NONE" =>
                                  /\ ticket[e].resource \in QueuedResources
                                  /\ ticket[e].ordinal < next_ticket[ticket[e].resource]
      BY <1>1, <1>2 DEF Types, TicketType, OrdinalsOf
    <3>5. CASE d = c
      BY <1>2, <3>1, <3>2, <3>3, <3>4, <3>5
    <3>6. CASE d # c
      BY <1>1, <1>2, <2>1, <3>1, <3>2, <3>3, <3>4, <3>6 DEF OrdinalsOf
    <3> QED
      BY <3>5, <3>6
  <2> QED
    BY <2>1 DEF OrdinalsOf
<1>9. LimitsOf(resources, que)
  <2>1. ASSUME NEW q \in QueuedResources, NEW k \in CounterKeys
        PROVE  que[q][k] <= QueueLimits[q][k[1]]
    <3>1. queues[q][k] <= QueueLimits[q][k[1]]
            /\ QueueLimits[q][k[1]] \in Nat
            /\ queues[q] \in [CounterKeys -> Nat]
      BY <1>1, LimitFacts DEF LimitsOf, Types
    <3>2. CASE q = r
      <4>1. AddUsage(queues[r], c, 1)[k] <= QueueLimits[r][k[1]]
        BY <3>1, <3>2, FitsAdds
      <4> QED
        BY <1>1, <3>2, <4>1 DEF Types, Increased
    <3>3. CASE q # r
      BY <1>1, <3>1, <3>3 DEF Types, Increased
    <3> QED
      BY <3>2, <3>3
  <2> QED
    BY <1>1, <2>1 DEF LimitsOf
<1> QED
  BY <1>1, <1>5, <1>6, <1>7, <1>8, <1>9 DEF Consistent

\* RemoveTicketLocked.
LEMMA RemoveKeeps ==
  ASSUME IInv, NEW c \in Callers, pc[c] = "waiting", NEW status \in Returned,
         NEW que, que = Decreased(queues, ticket[c].resource, c, 1),
         NEW tix, tix = [ticket EXCEPT ![c] = NoTicket],
         NEW st, st = [pc EXCEPT ![c] = status]
  PROVE  /\ Consistent(next_ticket, resources, que, tix, permit, st)
         /\ ticket[c].resource \in QueuedResources
<1> DEFINE r == ticket[c].resource
<1>1. /\ Types(next_ticket, resources, queues, ticket, permit, pc)
      /\ ShapeOf(ticket, permit, pc)
      /\ OrdinalsOf(next_ticket, ticket)
      /\ ResourceLedger(resources, permit)
      /\ QueueLedger(queues, ticket)
      /\ LimitsOf(resources, queues)
  BY DEF IInv, Consistent
<1>3. "NONE" \notin QueuedResources
  BY DEF QueuedResources
<1>4. r \in QueuedResources
  BY <1>1 DEF ShapeOf, Types, TicketType
<1>5. /\ QueueLedger(que, tix)
      /\ que \in [QueuedResources -> [CounterKeys -> Nat]]
      /\ \A q \in QueuedResources, k \in CounterKeys : que[q][k] <= queues[q][k]
  <2>1. tix[c].resource = "NONE" /\ AgreeExcept(tix, ticket, c)
    BY <1>1 DEF Types, AgreeExcept, NoTicket
  <2>2. queues \in [QueuedResources -> [CounterKeys -> Nat]]
    BY <1>1 DEF Types
  <2> QED
    BY <1>1, <1>4, <2>1, <2>2, RemoveTicket
<1>6. NoTicket \in TicketType
  BY BoundsAssumption DEF NoTicket, TicketType, NoWait, WaitPolicy, NoDeadline
<1>7. Types(next_ticket, resources, que, tix, permit, st)
  BY <1>1, <1>5, <1>6 DEF Types
<1>8. ShapeOf(tix, permit, st)
  BY <1>1 DEF Types, ShapeOf, NoTicket, Returned, Busy
<1>9. OrdinalsOf(next_ticket, tix)
  BY <1>1 DEF Types, OrdinalsOf, NoTicket
<1>10. LimitsOf(resources, que)
  <2>1. ASSUME NEW q \in QueuedResources, NEW k \in CounterKeys
        PROVE  que[q][k] <= QueueLimits[q][k[1]]
    <3>1. que[q][k] \in Nat /\ queues[q][k] \in Nat
            /\ QueueLimits[q][k[1]] \in Nat
      BY <1>1, <1>5, LimitFacts DEF Types
    <3> QED
      BY <1>1, <1>5, <3>1 DEF LimitsOf
  <2> QED
    BY <1>1, <2>1 DEF LimitsOf
<1> QED
  BY <1>1, <1>4, <1>5, <1>7, <1>8, <1>9, <1>10 DEF Consistent

\* A withdrawal is a removal, and the pass after a failed wait starts with one.
LEMMA WithdrawKeeps ==
  ASSUME IInv, NEW c \in Callers, Withdraw(c)
  PROVE  Consistent(next_ticket, resources, queues, ticket, permit, pc)'
<1>1. /\ pc[c] = "waiting"
      /\ queues' = Decreased(queues, ticket[c].resource, c, 1)
      /\ ticket' = [ticket EXCEPT ![c] = NoTicket]
      /\ pc' = [pc EXCEPT ![c] = LoopStatus(c)]
      /\ LoopStatus(c) \in Returned
      /\ UNCHANGED <<next_ticket, resources, permit>>
  BY DEF Withdraw, Decreased, LoopStatus, Returned
<1>2. Consistent(next_ticket, resources, queues', ticket', permit, pc')
  BY <1>1, RemoveKeeps
<1> QED
  BY <1>1, <1>2

\* A call whose wait throws leaves the queue, then one granting pass runs.
LEMMA WaitThrowsStart ==
  ASSUME IInv, NEW c \in Callers, WaitThrows(c)
  PROVE  \E que, st :
           /\ ticket[c].resource \in QueuedResources
           /\ Consistent(next_ticket, resources, que,
                         [ticket EXCEPT ![c] = NoTicket], permit, st)
           /\ GrantEligibleLocked(ticket[c].resource, resources, que,
                                  [ticket EXCEPT ![c] = NoTicket], permit, st)
<1> DEFINE que == Decreased(queues, ticket[c].resource, c, 1)
           tix == [ticket EXCEPT ![c] = NoTicket]
           st == [pc EXCEPT ![c] = "THREW"]
<1>1. pc[c] = "waiting"
        /\ GrantEligibleLocked(ticket[c].resource, resources, que, tix, permit, st)
  BY DEF WaitThrows, Decreased
<1>2. "THREW" \in Returned
  BY DEF Returned
<1>3. Consistent(next_ticket, resources, que, tix, permit, st)
        /\ ticket[c].resource \in QueuedResources
  BY <1>1, <1>2, RemoveKeeps
<1> HIDE DEF que, st
<1> QED
  BY <1>1, <1>3

\* ResizeBufferedBytes, both ways.
LEMMA ResizeKeeps ==
  ASSUME IInv, NEW c \in Callers, NEW n \in 1..MaxAmount,
         ResizeBufferedBytes(c, n)
  PROVE  Consistent(next_ticket, resources, queues, ticket, permit, pc)'
<1> DEFINE r == "BUFFERED_BYTES"
           m == permit[c].amount
<1>1. /\ Types(next_ticket, resources, queues, ticket, permit, pc)
      /\ ShapeOf(ticket, permit, pc)
      /\ OrdinalsOf(next_ticket, ticket)
      /\ ResourceLedger(resources, permit)
      /\ QueueLedger(queues, ticket)
      /\ LimitsOf(resources, queues)
  BY DEF IInv, Consistent
<1>2. /\ permit[c].resource = r
      /\ pc[c] = "held"
      /\ permit' = [permit EXCEPT ![c].amount = n]
      /\ UNCHANGED <<next_ticket, queues, ticket, pc>>
  BY DEF ResizeBufferedBytes
<1>3. r \in Resources /\ n \in 0..MaxAmount /\ m \in 0..MaxAmount
        /\ n \in Nat /\ m \in Nat /\ n >= 1
  BY <1>1, BoundsAssumption DEF Types, PermitType, Resources, ImmediateResources
<1>4. HasUnits(permit, c, r, m) /\ HasUnits(permit', c, r, n)
  BY <1>1, <1>2 DEF HasUnits, Types, PermitType
<1>5. AgreeExcept(permit, permit', c) /\ AgreeExcept(permit', permit, c)
  BY <1>1, <1>2 DEF AgreeExcept, Types
<1>6. resources \in [Resources -> [CounterKeys -> Nat]]
  BY <1>1 DEF Types
<1>7. /\ ResourceLedger(resources', permit')
      /\ resources' \in [Resources -> [CounterKeys -> Nat]]
      /\ \A q \in Resources, k \in CounterKeys :
           resources'[q][k] <= ResourceLimits[q][k[1]]
  <2>1. CASE n < m /\ resources' = Decreased(resources, r, c, m - n)
    <3>1. /\ ResourceLedger(resources', permit')
          /\ resources' \in [Resources -> [CounterKeys -> Nat]]
          /\ \A q \in Resources, k \in CounterKeys :
               resources'[q][k] <= resources[q][k]
      <4>1. n <= m
        BY <1>3, <2>1
      <4> HIDE DEF r, m
      <4> QED
        BY <1>1, <1>3, <1>4, <1>5, <1>6, <2>1, <4>1, RemoveUnits
    <3>2. ASSUME NEW q \in Resources, NEW k \in CounterKeys
          PROVE  resources'[q][k] <= ResourceLimits[q][k[1]]
      <4>1. resources'[q][k] \in Nat /\ resources[q][k] \in Nat
              /\ ResourceLimits[q][k[1]] \in Nat
              /\ resources[q][k] <= ResourceLimits[q][k[1]]
        BY <1>1, <1>6, <3>1, LimitFacts DEF LimitsOf
      <4> QED
        BY <3>1, <4>1
    <3> QED
      BY <3>1, <3>2
  <2>2. CASE /\ n > m
             /\ CheckFits(resources[r], ResourceLimits[r], c, n - m)
             /\ resources' = Increased(resources, r, c, n - m)
    <3>1. /\ ResourceLedger(resources', permit')
          /\ resources' \in [Resources -> [CounterKeys -> Nat]]
      <4>1. m <= n
        BY <1>3, <2>2
      <4> HIDE DEF r, m
      <4> QED
        BY <1>1, <1>3, <1>4, <1>5, <1>6, <2>2, <4>1, AddUnits
    <3>2. ASSUME NEW q \in Resources, NEW k \in CounterKeys
          PROVE  resources'[q][k] <= ResourceLimits[q][k[1]]
      <4>1. /\ resources[q] \in [CounterKeys -> Nat]
            /\ ResourceLimits[q][k[1]] \in Nat
            /\ resources[q][k] <= ResourceLimits[q][k[1]]
            /\ n - m \in Nat
        BY <1>1, <1>3, <1>6, <2>2, LimitFacts DEF LimitsOf
      <4>2. CASE q = r
        <5>1. AddUsage(resources[r], c, n - m)[k] <= ResourceLimits[r][k[1]]
          BY <2>2, <4>1, <4>2, FitsAdds
        <5> QED
          BY <1>3, <1>6, <2>2, <4>2, <5>1 DEF Increased
      <4>3. CASE q # r
        BY <1>6, <2>2, <4>1, <4>3 DEF Increased
      <4> QED
        BY <4>2, <4>3
    <3> QED
      BY <3>1, <3>2
  <2> QED
    BY <2>1, <2>2 DEF ResizeBufferedBytes, Increased, Decreased
<1>8. Types(next_ticket', resources', queues', ticket', permit', pc')
  BY <1>1, <1>2, <1>3, <1>7 DEF Types, PermitType
<1>9. ShapeOf(ticket', permit', pc')
  BY <1>1, <1>2, <1>3 DEF Types, PermitType, ShapeOf, NoPermit, Resources,
                          ImmediateResources, QueuedResources
<1> QED
  BY <1>1, <1>2, <1>7, <1>8, <1>9 DEF Consistent, LimitsOf

\* A new controller satisfies the invariant.
LEMMA InitIInv == Init => IInv
<1> SUFFICES ASSUME Init PROVE IInv
  OBVIOUS
<1>1. NoTicket \in TicketType /\ NoPermit \in PermitType
  BY BoundsAssumption DEF NoTicket, TicketType, NoWait, WaitPolicy, NoDeadline,
                          NoPermit, PermitType
<1>2. Types(next_ticket, resources, queues, ticket, permit, pc)
  BY <1>1, BoundsAssumption DEF Init, Types, Returned
<1>3. ShapeOf(ticket, permit, pc) /\ OrdinalsOf(next_ticket, ticket)
  BY DEF Init, ShapeOf, OrdinalsOf, NoTicket, NoPermit, Busy
<1>4. ResourceLedger(resources, permit)
  <2>1. ASSUME NEW r \in Resources, NEW k PROVE UnitsIn(permit, r, k) = {}
    BY DEF Init, UnitsIn, NoPermit, Resources, QueuedResources,
           ImmediateResources
  <2> QED
    BY <2>1, FS_EmptySet DEF Init, ResourceLedger
<1>5. QueueLedger(queues, ticket)
  <2>1. ASSUME NEW r \in QueuedResources, NEW k PROVE TicketsIn(ticket, r, k) = {}
    BY DEF Init, TicketsIn, Charged, Waiting, NoTicket, QueuedResources
  <2> QED
    BY <2>1, FS_EmptySet DEF Init, QueueLedger
<1>6. LimitsOf(resources, queues)
  BY LimitFacts DEF Init, LimitsOf
<1> QED
  BY <1>2, <1>3, <1>4, <1>5, <1>6, BoundsAssumption DEF Init, IInv, Consistent

\* Every step keeps the invariant.
LEMMA NextIInv == IInv /\ [Next]_vars => IInv'
<1> SUFFICES ASSUME IInv, [Next]_vars PROVE IInv'
  OBVIOUS
<1> DEFINE C == Consistent(next_ticket, resources, queues, ticket, permit, pc)
<1>1. ASSUME NEW c \in Callers, NEW r \in QueuedResources, NEW w \in WaitPolicies,
             AcquireQueued(c, r, w)
      PROVE  IInv'
  <2>1. CASE ReturnAtOnce(c, r, w)
    <3>1. EntryStatus(c, r, w) \in Returned
      BY <2>1 DEF ReturnAtOnce, EntryStatus, Returned
    <3>2. C'
      BY <2>1, <3>1, OnlyState DEF ReturnAtOnce, CanCall
    <3> QED
      BY <2>1, <3>2 DEF IInv, ReturnAtOnce
  <2>2. CASE AcquireAtOnce(c, r, w)
    <3>1. r \in Resources /\ 1 \in 1..MaxAmount /\ "unlocked" \in Busy
      BY BoundsAssumption DEF Resources, Busy
    <3>2. resources' = Increased(resources, r, c, 1)
      BY <2>2 DEF AcquireAtOnce, Increased
    <3>3. /\ pc[c] \in Returned
          /\ CheckFits(resources[r], ResourceLimits[r], c, 1)
          /\ permit' = [permit EXCEPT ![c] = [resource |-> r, amount |-> 1]]
          /\ pc' = [pc EXCEPT ![c] = "unlocked"]
          /\ UNCHANGED <<next_ticket, queues, ticket>>
      BY <2>2 DEF AcquireAtOnce, CanCall, FastPath
    <3>4. C'
      BY <3>1, <3>2, <3>3, AcquireKeeps
    <3> QED
      BY <2>2, <3>4 DEF IInv, AcquireAtOnce
  <2>3. CASE RejectSaturated(c, r, w)
    <3>1. C'
      BY <2>3, OnlyState DEF RejectSaturated, CanCall, Returned
    <3> QED
      BY <2>3, <3>1 DEF IInv, RejectSaturated
  <2>4. CASE ExhaustTickets(c, r, w)
    <3>1. C'
      BY <2>4, OnlyState DEF ExhaustTickets, CanCall, Returned
    <3> QED
      BY <2>4, <3>1 DEF IInv, ExhaustTickets
  <2>5. CASE Enqueue(c, r, w)
    <3> DEFINE que == Increased(queues, r, c, 1)
               tix == [ticket EXCEPT ![c] = [resource |-> r,
                                             ordinal |-> next_ticket[r],
                                             wait |-> w]]
               st == [pc EXCEPT ![c] = "waiting"]
    <3>1. w \in WaitPolicy
      BY ProfileAssumption
    <3>2. Consistent(next_ticket', resources, que, tix, permit, st)
      <4>1. /\ pc[c] \in Returned
            /\ next_ticket[r] < MaxTicket
            /\ CheckFits(queues[r], QueueLimits[r], c, 1)
            /\ next_ticket' = [next_ticket EXCEPT ![r] = @ + 1]
        BY <2>5 DEF Enqueue, CanCall
      <4> QED
        BY <3>1, <4>1, PushKeeps
    <3>3. GrantEligibleLocked(r, resources, que, tix, permit, st)
      BY <2>5 DEF Enqueue, Increased
    <3>4. Consistent(next_ticket', resources', queues', ticket', permit', pc')
      <4> HIDE DEF que, tix, st
      <4> QED BY <3>2, <3>3, GrantKeepsConsistent
    <3> QED
      BY <2>5, <3>4 DEF IInv, Enqueue
  <2> QED
    BY <1>1, <2>1, <2>2, <2>3, <2>4, <2>5 DEF AcquireQueued
<1>2. ASSUME NEW c \in Callers, Materialize(c) PROVE IInv'
  <2>1. C'
    BY <1>2, OnlyState DEF Materialize, Busy
  <2> QED
    BY <1>2, <2>1 DEF IInv, Materialize
<1>3. ASSUME NEW c \in Callers, MaterializationThrows(c) PROVE IInv'
  BY <1>3, GiveBackKeeps DEF MaterializationThrows, Busy, Returned
<1>4. ASSUME NEW c \in Callers, Withdraw(c) PROVE IInv'
  BY <1>4, WithdrawKeeps DEF IInv, Withdraw
<1>5. ASSUME NEW c \in Callers, Recheck(c) PROVE IInv'
  <2>1. ticket[c].resource \in QueuedResources
    BY <1>5 DEF Recheck, IInv, Consistent, Types, ShapeOf, TicketType
  <2>2. GrantEligibleLocked(ticket[c].resource, resources, queues, ticket,
                            permit, pc)
    BY <1>5 DEF Recheck
  <2>3. Consistent(next_ticket, resources', queues', ticket', permit', pc')
    BY <2>1, <2>2, GrantKeepsConsistent DEF IInv
  <2> QED
    BY <1>5, <2>3 DEF IInv, Recheck
<1>11. ASSUME NEW c \in Callers, WaitThrows(c) PROVE IInv'
  <2>1. PICK que, tix, st :
          /\ ticket[c].resource \in QueuedResources
          /\ Consistent(next_ticket, resources, que, tix, permit, st)
          /\ GrantEligibleLocked(ticket[c].resource, resources, que, tix, permit, st)
    BY <1>11, WaitThrowsStart
  <2>2. Consistent(next_ticket, resources', queues', ticket', permit', pc')
    BY <2>1, GrantKeepsConsistent
  <2> QED
    BY <1>11, <2>2 DEF IInv, WaitThrows
<1>6. ASSUME NEW c \in Callers, FinishAcquire(c) PROVE IInv'
  <2>1. CASE cancelled[c]
    BY <1>6, <2>1, GiveBackKeeps DEF FinishAcquire, Busy, Returned
  <2>2. CASE ~cancelled[c]
    <3>1. C'
      BY <1>6, <2>2, OnlyState DEF FinishAcquire, Busy
    <3> QED
      BY <1>6, <2>2, <3>1 DEF IInv, FinishAcquire
  <2> QED
    BY <2>1, <2>2
<1>7. ASSUME NEW c \in Callers, NEW r \in ImmediateResources,
             NEW n \in AmountsOf(r), AcquireImmediate(c, r, n)
      PROVE  IInv'
  <2>1. r \in Resources /\ n \in 1..MaxAmount /\ "held" \in Busy
    BY BoundsAssumption DEF Resources, AmountsOf, Busy
  <2>2. CASE terminal_reason = "NONE"
             /\ CheckFits(resources[r], ResourceLimits[r], c, n)
    <3>1. resources' = Increased(resources, r, c, n)
      BY <1>7, <2>2 DEF AcquireImmediate, Increased
    <3>2. /\ pc[c] \in Returned
          /\ permit' = [permit EXCEPT ![c] = [resource |-> r, amount |-> n]]
          /\ pc' = [pc EXCEPT ![c] = "held"]
          /\ UNCHANGED <<next_ticket, queues, ticket>>
      BY <1>7, <2>2 DEF AcquireImmediate, CanCall
    <3>3. C'
      BY <2>1, <2>2, <3>1, <3>2, AcquireKeeps
    <3> QED
      BY <1>7, <3>3 DEF IInv, AcquireImmediate
  <2>3. CASE ~(terminal_reason = "NONE"
               /\ CheckFits(resources[r], ResourceLimits[r], c, n))
    <3>1. C'
      BY <1>7, <2>3, OnlyState DEF AcquireImmediate, CanCall, Returned
    <3> QED
      BY <1>7, <3>1 DEF IInv, AcquireImmediate
  <2> QED
    BY <2>2, <2>3
<1>8. ASSUME NEW c \in Callers, NEW n \in 1..MaxAmount, ResizeBufferedBytes(c, n)
      PROVE  IInv'
  BY <1>8, ResizeKeeps DEF IInv, ResizeBufferedBytes
<1>9. ASSUME NEW c \in Callers, Release(c) PROVE IInv'
  BY <1>9, GiveBackKeeps DEF Release, Busy, Returned
<1>10. CASE \/ \E c \in Callers : RequestCancellation(c)
            \/ Close
            \/ Tick
            \/ UNCHANGED vars
  <2>1. UNCHANGED <<next_ticket, resources, queues, ticket, permit, pc>>
    BY <1>10 DEF RequestCancellation, Close, Tick, vars
  <2>2. C'
    BY <2>1 DEF IInv, Consistent, Types, ShapeOf, OrdinalsOf, ResourceLedger,
                QueueLedger, LimitsOf
  <2>3. /\ now' \in 0..MaxTime
        /\ terminal_reason' \in {"NONE", "RUNTIME_CLOSED", "TICKET_EXHAUSTED"}
    BY <1>10, BoundsAssumption
    DEF IInv, RequestCancellation, Close, Tick, vars
  <2>4. cancelled' \in [Callers -> BOOLEAN]
    BY <1>10 DEF IInv, RequestCancellation, Close, Tick, vars
  <2> QED
    BY <2>2, <2>3, <2>4 DEF IInv
<1> QED
  BY <1>1, <1>2, <1>3, <1>4, <1>5, <1>6, <1>7, <1>8, <1>9, <1>10, <1>11 DEF Next

\* The inductive invariant holds in every reachable state.
THEOREM Invariance == Spec => []IInv
BY InitIInv, NextIInv, PTL DEF Spec

\* Type correctness of the controller.
THEOREM TypeCorrect == Spec => []TypeOK
<1>1. IInv => TypeOK
  BY DEF IInv, Consistent, Types, TypeOK, TicketType, PermitType, Returned, Busy
<1> QED
  BY <1>1, Invariance, PTL

\* The counters of every resource and queue are exact.
THEOREM LedgerIsExact == Spec => []LedgerExact
<1>1. IInv => LedgerExact
  BY DEF IInv, Consistent, ResourceLedger, QueueLedger, LedgerExact, HeldUnits,
         QueuedTickets, UnitsIn, TicketsIn
<1> QED
  BY <1>1, Invariance, PTL

\* No counter passes its limit.
THEOREM LimitsHold == Spec => []WithinLimits
<1>1. IInv => WithinLimits
  BY DEF IInv, Consistent, LimitsOf, WithinLimits
<1> QED
  BY <1>1, Invariance, PTL

-----------------------------------------------------------------------------
(* Work conservation *)

\* No live ticket of r's queue fits.
NoneFits(r, res, tix) ==
  \A c \in Eligible(r, tix) : ~CheckFits(res[r], ResourceLimits[r], c, 1)

\* Counters that only grew fit no more than before.
LEMMA GrowingFits ==
  ASSUME NEW c \in Callers, NEW a \in [CounterKeys -> Nat],
         NEW b \in [CounterKeys -> Nat], \A k \in CounterKeys : a[k] <= b[k],
         NEW r \in Resources, CheckFits(b, ResourceLimits[r], c, 1)
  PROVE  CheckFits(a, ResourceLimits[r], c, 1)
<1>1. ASSUME NEW k \in KeysOf(c) PROVE ~(a[k] + 1 > ResourceLimits[r][k[1]])
  <2>1. k \in CounterKeys /\ ResourceLimits[r][k[1]] \in Nat
    BY KeyFacts, LimitFacts
  <2>2. ~(b[k] + 1 > ResourceLimits[r][k[1]])
    BY DEF CheckFits, Blocking
  <2> QED
    BY <2>1, <2>2
<1> QED
  BY <1>1 DEF CheckFits, Blocking

\* After a pass nothing that still waits fits, and the other queues are as before.
LEMMA PassLeavesNoneFitting ==
  ASSUME NEW r \in QueuedResources, NEW nt, NEW used, NEW queued, NEW tix,
         NEW per, NEW st,
         Consistent(nt, used, queued, tix, per, st),
         GrantEligibleLocked(r, used, queued, tix, per, st),
         \A q \in QueuedResources \ {r} : NoneFits(q, used, tix)
  PROVE  \A q \in QueuedResources : NoneFits(q, resources', ticket')
<1>1. PICK G \in SUBSET Eligible(r, tix) :
        /\ IsFifoGrant(G, r, used[r], tix)
        /\ resources' =
             [used EXCEPT ![r] =
                [k \in CounterKeys |-> used[r][k] + Cardinality(Charged(G, k))]]
        /\ ticket' = [c \in Callers |-> IF c \in G THEN NoTicket ELSE tix[c]]
  BY DEF GrantEligibleLocked
<1>2. /\ used \in [Resources -> [CounterKeys -> Nat]]
      /\ r \in Resources /\ r # "NONE" /\ "NONE" \notin QueuedResources
      /\ QueuedResources \subseteq Resources
  BY DEF Consistent, Types, Resources, QueuedResources
<1>3. ASSUME NEW q \in QueuedResources \ {r} PROVE NoneFits(q, resources', ticket')
  <2>1. Eligible(q, ticket') \subseteq Eligible(q, tix)
    BY <1>1, <1>2 DEF Eligible, Waiting, NoTicket
  <2>2. resources'[q] = used[q]
    BY <1>1, <1>2
  <2> QED
    BY <2>1, <2>2 DEF NoneFits
<1>4. ASSUME NEW c \in Eligible(r, ticket')
      PROVE  ~CheckFits(resources'[r], ResourceLimits[r], c, 1)
  <2>1. c \in Eligible(r, tix) /\ c \notin G /\ c \in Callers
    BY <1>1, <1>2 DEF Eligible, Waiting, NoTicket
  <2>2. PICK k \in KeysOf(c) :
          ~(used[r][k] + Cardinality(Charged(Earlier(c, G, tix), k)) + 1
              <= ResourceLimits[r][k[1]])
    BY <1>1, <2>1 DEF IsFifoGrant
  <2>3. k \in CounterKeys /\ used[r][k] \in Nat /\ ResourceLimits[r][k[1]] \in Nat
    BY <1>2, <2>1, KeyFacts, LimitFacts
  <2>4. /\ Cardinality(Charged(Earlier(c, G, tix), k)) <= Cardinality(Charged(G, k))
        /\ Cardinality(Charged(Earlier(c, G, tix), k)) \in Nat
        /\ Cardinality(Charged(G, k)) \in Nat
    <3>1. Charged(G, k) \in SUBSET Callers
      BY DEF Charged, Eligible, Waiting
    <3>2. Charged(Earlier(c, G, tix), k) \in SUBSET Charged(G, k)
      BY DEF Charged, Earlier
    <3>3. IsFiniteSet(Charged(G, k)) /\ Cardinality(Charged(G, k)) \in Nat
      BY <3>1, SubsetsOfCallersFinite
    <3> QED
      BY <3>2, <3>3, FS_Subset, FS_CardinalityType
  <2>5. resources'[r][k] = used[r][k] + Cardinality(Charged(G, k))
    BY <1>1, <1>2, <2>3
  <2>6. resources'[r][k] + 1 > ResourceLimits[r][k[1]]
    BY <2>2, <2>3, <2>4, <2>5
  <2> QED
    BY <2>6 DEF CheckFits, Blocking
<1> QED
  BY <1>3, <1>4 DEF NoneFits

AllQueuesBusy == \A q \in QueuedResources : NoneFits(q, resources, ticket)

\* Giving authority back leaves no fitting ticket behind.
LEMMA GiveBackConserves ==
  ASSUME IInv, AllQueuesBusy, NEW c \in Callers, pc[c] \in Busy,
         NEW status \in Returned, GiveBack(c, status)
  PROVE  AllQueuesBusy'
<1> DEFINE r == permit[c].resource
           used == [resources EXCEPT ![r] = SubtractUsage(@, c, permit[c].amount)]
<1>1. QueuedResources \subseteq Resources
  BY DEF Resources
<1>2. UNCHANGED <<now, terminal_reason>>
  BY DEF GiveBack
<1>3. \A q \in QueuedResources \ {r} : used[q] = resources[q]
  BY <1>1 DEF IInv, Consistent, Types
<1>4. \A q \in QueuedResources \ {r} : NoneFits(q, used, ticket)
  BY <1>3 DEF AllQueuesBusy, NoneFits
<1>5. CASE r \in QueuedResources
  <2>1. PICK per, st : GrantEligibleLocked(r, used, queues, ticket, per, st)
                       /\ Consistent(next_ticket, used, queues, ticket, per, st)
    BY <1>5, GiveBackStart DEF GiveBack
  <2>2. \A q \in QueuedResources : NoneFits(q, resources', ticket')
    <3> HIDE DEF r, used
    <3> QED BY <1>4, <1>5, <2>1, PassLeavesNoneFitting
  <2> QED
    BY <1>2, <2>2 DEF AllQueuesBusy, NoneFits, Eligible, DeadlineReached
<1>6. CASE r \notin QueuedResources
  <2>1. resources' = used /\ ticket' = ticket
    BY <1>6 DEF GiveBack
  <2> QED
    BY <1>2, <1>4, <1>6, <2>1
    DEF AllQueuesBusy, NoneFits, Eligible, DeadlineReached
<1> QED
  BY <1>5, <1>6

\* A step that frees nothing and adds no ticket keeps every queue busy.
LEMMA QuietStepConserves ==
  ASSUME IInv, IInv', AllQueuesBusy,
         \A q \in QueuedResources, k \in CounterKeys :
           resources[q][k] <= resources'[q][k],
         \A q \in QueuedResources : Eligible(q, ticket)' \subseteq Eligible(q, ticket)
  PROVE  AllQueuesBusy'
<1>1. ASSUME NEW q \in QueuedResources, NEW c \in Eligible(q, ticket)'
      PROVE  ~CheckFits(resources'[q], ResourceLimits[q], c, 1)
  <2>1. c \in Eligible(q, ticket) /\ c \in Callers
    BY DEF Eligible, Waiting
  <2>2. /\ q \in Resources
        /\ resources[q] \in [CounterKeys -> Nat]
        /\ resources'[q] \in [CounterKeys -> Nat]
    BY DEF IInv, Consistent, Types, Resources
  <2>3. ~CheckFits(resources[q], ResourceLimits[q], c, 1)
    BY <2>1 DEF AllQueuesBusy, NoneFits
  <2> QED
    BY <2>1, <2>2, <2>3, GrowingFits
<1> QED
  BY <1>1 DEF AllQueuesBusy, NoneFits

\* Every step leaves every queue busy.
LEMMA NextConserves == IInv /\ AllQueuesBusy /\ [Next]_vars => AllQueuesBusy'
<1> SUFFICES ASSUME IInv, AllQueuesBusy, [Next]_vars PROVE AllQueuesBusy'
  OBVIOUS
<1>0. IInv'
  BY NextIInv
<1> DEFINE Live == \A q \in QueuedResources :
                     Eligible(q, ticket)' \subseteq Eligible(q, ticket)
           Kept == \A q \in QueuedResources, k \in CounterKeys :
                     resources[q][k] <= resources'[q][k]
<1>a. QueuedResources \subseteq Resources
        /\ QueuedResources \cap ImmediateResources = {}
        /\ "BUFFERED_BYTES" \notin QueuedResources
  BY DEF Resources, QueuedResources, ImmediateResources
<1>b. ASSUME UNCHANGED resources PROVE Kept
  BY <1>a, <1>b DEF IInv, Consistent, Types
<1>c. ASSUME UNCHANGED <<now, terminal_reason, ticket>> PROVE Live
  BY <1>c DEF Eligible, Waiting, DeadlineReached
<1>1. ASSUME NEW c \in Callers, NEW r \in QueuedResources, NEW w \in WaitPolicies,
             AcquireQueued(c, r, w)
      PROVE  AllQueuesBusy'
  <2>1. CASE ReturnAtOnce(c, r, w) \/ RejectSaturated(c, r, w)
    BY <1>0, <1>b, <1>c, <2>1, QuietStepConserves DEF ReturnAtOnce, RejectSaturated
  <2>2. CASE AcquireAtOnce(c, r, w)
    <3>1. Live
      BY <1>c, <2>2 DEF AcquireAtOnce
    <3>2. Kept
      <4>1. resources' = [resources EXCEPT ![r] = AddUsage(resources[r], c, 1)]
        BY <2>2 DEF AcquireAtOnce
      <4>2. resources \in [Resources -> [CounterKeys -> Nat]]
        BY DEF IInv, Consistent, Types
      <4> QED
        BY <1>a, <4>1, <4>2 DEF AddUsage
    <3> QED
      BY <1>0, <3>1, <3>2, QuietStepConserves
  <2>3. CASE ExhaustTickets(c, r, w)
    <3>1. Live
      BY <2>3 DEF ExhaustTickets, Eligible
    <3> QED
      BY <1>0, <1>b, <2>3, <3>1, QuietStepConserves DEF ExhaustTickets
  <2>4. CASE Enqueue(c, r, w)
    <3> DEFINE que == Increased(queues, r, c, 1)
               tix == [ticket EXCEPT ![c] = [resource |-> r,
                                             ordinal |-> next_ticket[r],
                                             wait |-> w]]
               st == [pc EXCEPT ![c] = "waiting"]
    <3>1. Consistent(next_ticket', resources, que, tix, permit, st)
      <4>1. /\ pc[c] \in Returned
            /\ next_ticket[r] < MaxTicket
            /\ CheckFits(queues[r], QueueLimits[r], c, 1)
            /\ next_ticket' = [next_ticket EXCEPT ![r] = @ + 1]
            /\ w \in WaitPolicy
        BY <2>4, ProfileAssumption DEF Enqueue, CanCall
      <4> QED
        BY <4>1, PushKeeps
    <3>2. GrantEligibleLocked(r, resources, que, tix, permit, st)
      BY <2>4 DEF Enqueue, Increased
    <3>3. \A q \in QueuedResources \ {r} : NoneFits(q, resources, tix)
      <4>1. \A q \in QueuedResources \ {r} : Eligible(q, tix) \subseteq Eligible(q, ticket)
        BY DEF Eligible, Waiting, IInv, Consistent, Types
      <4> HIDE DEF tix
      <4> QED
        BY <4>1 DEF AllQueuesBusy, NoneFits
    <3>4. \A q \in QueuedResources : NoneFits(q, resources', ticket')
      <4> HIDE DEF que, tix, st
      <4> QED BY <3>1, <3>2, <3>3, PassLeavesNoneFitting
    <3>5. UNCHANGED <<now, terminal_reason>>
      BY <2>4 DEF Enqueue
    <3> QED
      BY <3>4, <3>5 DEF AllQueuesBusy, NoneFits, Eligible, DeadlineReached
  <2> QED
    BY <1>1, <2>1, <2>2, <2>3, <2>4 DEF AcquireQueued
<1>2. ASSUME NEW c \in Callers, Materialize(c) PROVE AllQueuesBusy'
  BY <1>0, <1>2, <1>b, <1>c, QuietStepConserves DEF Materialize
<1>3. ASSUME NEW c \in Callers, MaterializationThrows(c) PROVE AllQueuesBusy'
  BY <1>3, GiveBackConserves DEF MaterializationThrows, Busy, Returned
<1>4. ASSUME NEW c \in Callers, Withdraw(c) PROVE AllQueuesBusy'
  <2>1. Live
    BY <1>4 DEF Withdraw, IInv, Consistent, Types, Eligible, Waiting, NoTicket,
                QueuedResources, DeadlineReached
  <2> QED
    BY <1>0, <1>4, <1>b, <2>1, QuietStepConserves DEF Withdraw
<1>5. ASSUME NEW c \in Callers, Recheck(c) PROVE AllQueuesBusy'
  <2>1. ticket[c].resource \in QueuedResources
    BY <1>5 DEF Recheck, IInv, Consistent, Types, ShapeOf, TicketType
  <2>2. GrantEligibleLocked(ticket[c].resource, resources, queues, ticket,
                            permit, pc)
    BY <1>5 DEF Recheck
  <2>3. \A q \in QueuedResources : NoneFits(q, resources', ticket')
    BY <2>1, <2>2, PassLeavesNoneFitting DEF IInv, AllQueuesBusy
  <2> QED
    BY <1>5, <2>3 DEF Recheck, AllQueuesBusy, NoneFits, Eligible, DeadlineReached
<1>14. ASSUME NEW c \in Callers, WaitThrows(c) PROVE AllQueuesBusy'
  <2> DEFINE tix == [ticket EXCEPT ![c] = NoTicket]
  <2>1. PICK que, st :
          /\ ticket[c].resource \in QueuedResources
          /\ Consistent(next_ticket, resources, que, tix, permit, st)
          /\ GrantEligibleLocked(ticket[c].resource, resources, que, tix, permit, st)
    BY <1>14, WaitThrowsStart
  <2>2. \A q \in QueuedResources : Eligible(q, tix) \subseteq Eligible(q, ticket)
    BY DEF Eligible, Waiting, NoTicket, QueuedResources, IInv, Consistent, Types
  <2> HIDE DEF tix
  <2>3. \A q \in QueuedResources : NoneFits(q, resources, tix)
    BY <2>2 DEF AllQueuesBusy, NoneFits
  <2>4. \A q \in QueuedResources : NoneFits(q, resources', ticket')
    BY <2>1, <2>3, PassLeavesNoneFitting
  <2> QED
    BY <1>14, <2>4 DEF WaitThrows, AllQueuesBusy, NoneFits, Eligible, DeadlineReached
<1>6. ASSUME NEW c \in Callers, FinishAcquire(c) PROVE AllQueuesBusy'
  <2>1. CASE cancelled[c]
    BY <1>6, <2>1, GiveBackConserves DEF FinishAcquire, Busy, Returned
  <2>2. CASE ~cancelled[c]
    BY <1>0, <1>6, <1>b, <1>c, <2>2, QuietStepConserves DEF FinishAcquire
  <2> QED
    BY <2>1, <2>2
<1>7. ASSUME NEW c \in Callers, NEW r \in ImmediateResources,
             NEW n \in AmountsOf(r), AcquireImmediate(c, r, n)
      PROVE  AllQueuesBusy'
  <2>1. Live
    BY <1>7, <1>c DEF AcquireImmediate
  <2>2. \A q \in QueuedResources : resources'[q] = resources[q]
    BY <1>7, <1>a DEF AcquireImmediate, IInv, Consistent, Types
  <2>3. Kept
    BY <1>a, <2>2 DEF IInv, Consistent, Types
  <2> QED
    BY <1>0, <2>1, <2>3, QuietStepConserves
<1>8. ASSUME NEW c \in Callers, NEW n \in 1..MaxAmount, ResizeBufferedBytes(c, n)
      PROVE  AllQueuesBusy'
  <2>1. Live
    BY <1>8, <1>c DEF ResizeBufferedBytes
  <2>2. \A q \in QueuedResources : resources'[q] = resources[q]
    BY <1>8, <1>a DEF ResizeBufferedBytes, IInv, Consistent, Types
  <2>3. Kept
    BY <1>a, <2>2 DEF IInv, Consistent, Types
  <2> QED
    BY <1>0, <2>1, <2>3, QuietStepConserves
<1>9. ASSUME NEW c \in Callers, Release(c) PROVE AllQueuesBusy'
  BY <1>9, GiveBackConserves DEF Release, Busy, Returned
<1>10. ASSUME NEW c \in Callers, RequestCancellation(c) PROVE AllQueuesBusy'
  BY <1>0, <1>10, <1>b, <1>c, QuietStepConserves DEF RequestCancellation
<1>11. CASE Close
  <2>1. Live
    BY <1>11 DEF Close, Eligible
  <2> QED
    BY <1>0, <1>11, <1>b, <2>1, QuietStepConserves DEF Close
<1>12. CASE Tick
  <2>1. Live
    <3>1. now \in Nat /\ now' = now + 1 /\ UNCHANGED <<ticket, terminal_reason>>
      BY <1>12, BoundsAssumption DEF Tick, IInv
    <3>2. ASSUME NEW w \in WaitPolicy, DeadlineReached(w) PROVE DeadlineReached(w)'
      BY <3>1, <3>2, BoundsAssumption DEF DeadlineReached, WaitPolicy, NoDeadline
    <3>3. \A c \in Callers : ticket[c].wait \in WaitPolicy
      BY DEF IInv, Consistent, Types, TicketType
    <3>4. ASSUME NEW q \in QueuedResources, NEW c \in Eligible(q, ticket)'
          PROVE  c \in Eligible(q, ticket)
      <4>1. /\ c \in Callers
            /\ ticket'[c].resource = q
            /\ terminal_reason' = "NONE"
            /\ ~DeadlineReached(ticket[c].wait)'
        BY DEF Eligible, Waiting, DeadlineReached
      <4> QED
        BY <3>1, <3>2, <3>3, <4>1 DEF Eligible, Waiting, DeadlineReached
    <3> QED
      BY <3>4
  <2> QED
    BY <1>0, <1>12, <1>b, <2>1, QuietStepConserves DEF Tick
<1>13. CASE UNCHANGED vars
  BY <1>0, <1>13, <1>b, <1>c, QuietStepConserves DEF vars
<1> QED
  BY <1>1, <1>2, <1>3, <1>4, <1>5, <1>6, <1>7, <1>8, <1>9, <1>10, <1>11, <1>12,
     <1>13, <1>14 DEF Next

\* Every granting pass leaves each queue with no eligible ticket that still fits.
LEMMA QueuesStayBusy == Spec => []AllQueuesBusy
<1>1. Init => AllQueuesBusy
  BY DEF Init, AllQueuesBusy, NoneFits, Eligible, Waiting, NoTicket,
         QueuedResources
<1> QED
  BY <1>1, NextConserves, Invariance, PTL DEF Spec

\* While the controller is open, no live ticket waits for free capacity.
THEOREM WorkConserving == Spec => []NoIdleCapacity
<1>1. IInv /\ AllQueuesBusy => NoIdleCapacity
  <2> SUFFICES ASSUME IInv, AllQueuesBusy, terminal_reason = "NONE",
                      NEW c \in Callers, ticket[c] # NoTicket, ~TicketExpired(c)
               PROVE  ~CheckFits(resources[ticket[c].resource],
                                 ResourceLimits[ticket[c].resource], c, 1)
    BY DEF NoIdleCapacity
  <2>1. ticket[c].resource \in QueuedResources
    BY DEF IInv, Consistent, Types, ShapeOf, TicketType
  <2>2. c \in Eligible(ticket[c].resource, ticket)
    BY DEF Eligible, Waiting, TicketExpired
  <2> QED
    BY <2>1, <2>2 DEF AllQueuesBusy, NoneFits
<1> QED
  BY <1>1, QueuesStayBusy, Invariance, PTL

-----------------------------------------------------------------------------
(* FIFO *)

\* What a step may not do: c obtains r past the earlier live ticket of d.
Overtakes(c, d, r) ==
  /\ Gains(c, r)
  /\ ticket[d].resource = r
  /\ ~TicketExpired(d)
  /\ ticket[c].resource = r => ticket[d].ordinal < ticket[c].ordinal
  /\ c # d
  /\ KeysOf(d) \subseteq KeysOf(c)
  /\ ~Gains(d, r)

\* In one pass, an earlier ticket that needs no more counters is granted too.
LEMMA PassIsFifo ==
  ASSUME NEW r \in QueuedResources, NEW counts \in [CounterKeys -> Nat],
         NEW tix \in [Callers -> TicketType],
         NEW G \in SUBSET Eligible(r, tix), IsFifoGrant(G, r, counts, tix),
         NEW c \in G, NEW d \in Eligible(r, tix),
         tix[d].ordinal < tix[c].ordinal, KeysOf(d) \subseteq KeysOf(c)
  PROVE  d \in G
<1>1. c \in Callers /\ d \in Callers /\ c \in Eligible(r, tix)
  BY DEF Eligible, Waiting
<1>2. ASSUME NEW k \in KeysOf(d)
      PROVE  counts[k] + Cardinality(Charged(Earlier(d, G, tix), k)) + 1
               <= ResourceLimits[r][k[1]]
  <2> DEFINE D == Charged(Earlier(d, G, tix), k)
             E == Charged(Earlier(c, G, tix), k)
  <2>1. k \in CounterKeys /\ counts[k] \in Nat /\ ResourceLimits[r][k[1]] \in Nat
    BY <1>1, KeyFacts, LimitFacts DEF Resources
  <2>2. \A x \in Callers : tix[x].ordinal \in Nat
    BY DEF TicketType
  <2>3. G \subseteq Callers
    BY DEF Eligible, Waiting
  <2>4. D \in SUBSET E /\ E \in SUBSET Callers
    BY <1>1, <2>2, <2>3 DEF Charged, Earlier
  <2>5. /\ Cardinality(D) <= Cardinality(E)
        /\ Cardinality(D) \in Nat
        /\ Cardinality(E) \in Nat
    <3> HIDE DEF D, E
    <3>1. D \in SUBSET Callers
      BY <2>4
    <3> QED
      BY <2>4, <3>1, SubsetsOfCallersFinite, FS_Subset
  <2>6. counts[k] + Cardinality(E) + 1 <= ResourceLimits[r][k[1]]
    BY <1>1 DEF IsFifoGrant
  <2> HIDE DEF D, E
  <2> QED
    BY <2>1, <2>5, <2>6 DEF D
<1> QED
  BY <1>2 DEF IsFifoGrant

\* A critical section that ends with a pass over q's queue overtakes nobody.
LEMMA PassOvertakesNobody ==
  ASSUME IInv, NEW q \in QueuedResources, NEW used, NEW queued, NEW tix,
         NEW per, NEW st, NEW self \in Callers,
         used \in [Resources -> [CounterKeys -> Nat]],
         tix \in [Callers -> TicketType],
         GrantEligibleLocked(q, used, queued, tix, per, st),
         per[self].resource \in {"NONE", permit[self].resource},
         ticket[self].resource = "NONE" \/ tix[self] = ticket[self],
         tix[self].resource # "NONE" /\ tix[self] # ticket[self] =>
           tix[self].ordinal = next_ticket[tix[self].resource],
         \A x \in Callers \ {self} : per[x] = permit[x] /\ tix[x] = ticket[x],
         NEW c \in Callers, NEW d \in Callers, NEW r \in QueuedResources
  PROVE  ~Overtakes(c, d, r)
<1> SUFFICES ASSUME Overtakes(c, d, r) PROVE FALSE
  OBVIOUS
<1>1. PICK G \in SUBSET Eligible(q, tix) :
        /\ IsFifoGrant(G, q, used[q], tix)
        /\ permit' = [x \in Callers |-> IF x \in G
                                        THEN [resource |-> q, amount |-> 1]
                                        ELSE per[x]]
  BY DEF GrantEligibleLocked
<1>2. /\ r # "NONE" /\ q # "NONE" /\ q \in Resources
      /\ permit[c].resource # r
      /\ permit'[c].resource = r
      /\ ticket[d].resource = r
      /\ c # d
      /\ KeysOf(d) \subseteq KeysOf(c)
      /\ permit[d].resource = r \/ permit'[d].resource # r
  BY DEF Overtakes, Gains, QueuedResources, Resources
<1>3. c \in G /\ q = r
  BY <1>1, <1>2
<1>4. permit[d].resource = "NONE" /\ d \notin G
  <2>1. permit[d].resource = "NONE"
    BY <1>2 DEF IInv, Consistent, ShapeOf, Busy
  <2> QED
    BY <1>1, <1>2, <1>3, <2>1
<1>5. tix[d] = ticket[d]
  BY <1>2
<1>6. d \in Eligible(q, tix)
  BY <1>2, <1>3, <1>5 DEF Eligible, Waiting, Overtakes, TicketExpired
<1>7. tix[c].resource = r
  BY <1>3 DEF Eligible, Waiting
<1>8. tix[d].ordinal < tix[c].ordinal
  <2>1. CASE ticket[c].resource = r
    <3>1. tix[c] = ticket[c]
      BY <1>2, <2>1
    <3> QED
      BY <1>5, <2>1, <3>1 DEF Overtakes
  <2>2. CASE ticket[c].resource # r
    <3>1. c = self /\ tix[c].ordinal = next_ticket[r]
      BY <1>2, <1>7, <2>2
    <3>2. ticket[d].ordinal < next_ticket[r]
      BY <1>2 DEF IInv, Consistent, OrdinalsOf
    <3> QED
      BY <1>5, <3>1, <3>2
  <2> QED
    BY <2>1, <2>2
<1>9. used[q] \in [CounterKeys -> Nat]
  BY <1>2
<1> QED
  BY <1>1, <1>2, <1>3, <1>4, <1>6, <1>8, <1>9, PassIsFifo

\* A step in which nobody obtains a queued resource overtakes nobody.
LEMMA NoGainNoOvertaking ==
  ASSUME NEW c \in Callers, NEW d \in Callers, NEW r \in QueuedResources,
         permit'[c].resource = permit[c].resource \/ permit'[c].resource # r
  PROVE  ~Overtakes(c, d, r)
BY DEF Overtakes, Gains

\* Handing authority on overtakes nobody.
LEMMA GiveBackOvertakesNobody ==
  ASSUME IInv, NEW self \in Callers, pc[self] \in Busy,
         NEW status \in Returned, GiveBack(self, status),
         NEW c \in Callers, NEW d \in Callers, NEW r \in QueuedResources
  PROVE  ~Overtakes(c, d, r)
<1> DEFINE q == permit[self].resource
           used == [resources EXCEPT ![q] =
                      SubtractUsage(@, self, permit[self].amount)]
           permits == [permit EXCEPT ![self] = NoPermit]
           states == [pc EXCEPT ![self] = status]
<1>1. Consistent(next_ticket, used, queues, ticket, permits, states)
  BY GiveBackStart
<1>2. /\ used \in [Resources -> [CounterKeys -> Nat]]
      /\ ticket \in [Callers -> TicketType]
  <2> HIDE DEF used, permits, states
  <2> QED BY <1>1 DEF Consistent, Types
<1>3. permit \in [Callers -> PermitType] /\ "NONE" \notin QueuedResources
  BY DEF IInv, Consistent, Types, QueuedResources
<1>4. /\ permits[self].resource = "NONE"
      /\ \A x \in Callers \ {self} : permits[x] = permit[x]
  BY <1>3 DEF NoPermit
<1>5. CASE q \in QueuedResources
  <2>1. GrantEligibleLocked(q, used, queues, ticket, permits, states)
    BY <1>5 DEF GiveBack
  <2> HIDE DEF q, used, permits, states
  <2> QED
    BY <1>2, <1>4, <1>5, <2>1, PassOvertakesNobody
<1>6. CASE q \notin QueuedResources
  <2>1. permit' = permits
    BY <1>6 DEF GiveBack
  <2> QED
    BY <1>3, <1>4, <2>1, NoGainNoOvertaking
<1> QED
  BY <1>5, <1>6

\* A pass that follows a withdrawal finds nothing to grant: whatever waits did
\* not fit before.
LEMMA IdlePass ==
  ASSUME IInv, AllQueuesBusy, NEW r \in QueuedResources, NEW que, NEW st,
         NEW tix \in [Callers -> TicketType],
         Eligible(r, tix) \subseteq Eligible(r, ticket),
         GrantEligibleLocked(r, resources, que, tix, permit, st)
  PROVE  permit' = permit
<1>1. PICK G \in SUBSET Eligible(r, tix) :
        /\ IsFifoGrant(G, r, resources[r], tix)
        /\ permit' = [c \in Callers |-> IF c \in G
                                        THEN [resource |-> r, amount |-> 1]
                                        ELSE permit[c]]
  BY DEF GrantEligibleLocked
<1>2. resources[r] \in [CounterKeys -> Nat] /\ r \in Resources
  BY DEF IInv, Consistent, Types, Resources
<1>3. ASSUME NEW c \in G PROVE FALSE
  <2>1. c \in Eligible(r, tix) /\ c \in Callers
    BY DEF Eligible, Waiting
  <2>2. ASSUME NEW k \in KeysOf(c)
        PROVE  ~(resources[r][k] + 1 > ResourceLimits[r][k[1]])
    <3>1. k \in CounterKeys /\ resources[r][k] \in Nat
            /\ ResourceLimits[r][k[1]] \in Nat
      BY <1>2, <2>1, KeyFacts, LimitFacts
    <3>2. Charged(Earlier(c, G, tix), k) \in SUBSET Callers
      BY DEF Charged, Earlier, Eligible, Waiting
    <3>3. Cardinality(Charged(Earlier(c, G, tix), k)) \in Nat
      BY <3>2, SubsetsOfCallersFinite
    <3>4. resources[r][k] + Cardinality(Charged(Earlier(c, G, tix), k)) + 1
            <= ResourceLimits[r][k[1]]
      BY <1>1, <2>1 DEF IsFifoGrant
    <3> QED
      BY <3>1, <3>3, <3>4
  <2>3. CheckFits(resources[r], ResourceLimits[r], c, 1)
    BY <2>2 DEF CheckFits, Blocking
  <2> QED
    BY <2>1, <2>3 DEF AllQueuesBusy, NoneFits
<1>4. G = {}
  BY <1>3
<1> QED
  BY <1>1, <1>4 DEF IInv, Consistent, Types

\* No step of the controller overtakes a live ticket.
LEMMA NextOvertakesNobody ==
  ASSUME IInv, AllQueuesBusy, Next, NEW c \in Callers, NEW d \in Callers,
         NEW r \in QueuedResources
  PROVE  ~Overtakes(c, d, r)
<1>a. /\ QueuedResources \cap ImmediateResources = {}
      /\ "BUFFERED_BYTES" \notin QueuedResources
      /\ "NONE" \notin QueuedResources
  BY DEF QueuedResources, ImmediateResources
<1>b. /\ permit \in [Callers -> PermitType]
      /\ ticket \in [Callers -> TicketType]
      /\ resources \in [Resources -> [CounterKeys -> Nat]]
  BY DEF IInv, Consistent, Types
<1>1. ASSUME NEW self \in Callers, NEW q \in QueuedResources,
             NEW w \in WaitPolicies, AcquireQueued(self, q, w)
      PROVE  ~Overtakes(c, d, r)
  <2>1. CASE \/ ReturnAtOnce(self, q, w) \/ RejectSaturated(self, q, w)
             \/ ExhaustTickets(self, q, w)
    BY <2>1, NoGainNoOvertaking DEF ReturnAtOnce, RejectSaturated, ExhaustTickets
  <2>2. CASE AcquireAtOnce(self, q, w)
    <3>1. Waiting(q, ticket) = {}
      BY <2>2 DEF AcquireAtOnce, FastPath
    <3>2. permit' = [permit EXCEPT ![self] = [resource |-> q, amount |-> 1]]
      BY <2>2 DEF AcquireAtOnce
    <3>3. CASE r = q
      BY <3>1, <3>3 DEF Overtakes, Waiting
    <3>4. CASE r # q
      <4>1. permit'[c].resource = permit[c].resource \/ permit'[c].resource # r
        BY <1>b, <3>2, <3>4
      <4> QED
        BY <4>1, NoGainNoOvertaking
    <3> QED
      BY <3>3, <3>4
  <2>3. CASE Enqueue(self, q, w)
    <3> DEFINE que == [queues EXCEPT ![q] = AddUsage(@, self, 1)]
               tix == [ticket EXCEPT ![self] = [resource |-> q,
                                                ordinal |-> next_ticket[q],
                                                wait |-> w]]
               st == [pc EXCEPT ![self] = "waiting"]
    <3>1. GrantEligibleLocked(q, resources, que, tix, permit, st)
      BY <2>3 DEF Enqueue
    <3>2. tix \in [Callers -> TicketType]
      <4>1. w \in WaitPolicy /\ next_ticket[q] \in 0..MaxTicket
        BY ProfileAssumption, BoundsAssumption DEF IInv, Consistent, Types
      <4> QED
        BY <1>b, <4>1 DEF TicketType
    <3>3. ticket[self].resource = "NONE"
      BY <2>3 DEF Enqueue, CanCall, IInv, Consistent, ShapeOf, Types, Returned
    <3>4. /\ tix[self].resource = q /\ tix[self].ordinal = next_ticket[q]
          /\ \A x \in Callers \ {self} : tix[x] = ticket[x]
      BY <1>b
    <3> HIDE DEF que, tix, st
    <3>5. /\ permit[self].resource \in {"NONE", permit[self].resource}
          /\ ticket[self].resource = "NONE" \/ tix[self] = ticket[self]
          /\ tix[self].resource # "NONE" /\ tix[self] # ticket[self] =>
               tix[self].ordinal = next_ticket[tix[self].resource]
          /\ \A x \in Callers \ {self} : permit[x] = permit[x] /\ tix[x] = ticket[x]
      BY <3>3, <3>4
    <3> QED
      BY <1>b, <3>1, <3>2, <3>5, PassOvertakesNobody
  <2> QED
    BY <1>1, <2>1, <2>2, <2>3 DEF AcquireQueued
<1>2. ASSUME NEW self \in Callers, MaterializationThrows(self)
      PROVE  ~Overtakes(c, d, r)
  BY <1>2, GiveBackOvertakesNobody DEF MaterializationThrows, Busy, Returned
<1>3. ASSUME NEW self \in Callers, Recheck(self) PROVE ~Overtakes(c, d, r)
  <2>1. ticket[self].resource \in QueuedResources
    BY <1>3 DEF Recheck, IInv, Consistent, Types, ShapeOf, TicketType
  <2>2. GrantEligibleLocked(ticket[self].resource, resources, queues, ticket,
                            permit, pc)
    BY <1>3 DEF Recheck
  <2>3. /\ permit[self].resource \in {"NONE", permit[self].resource}
        /\ \A x \in Callers \ {self} : permit[x] = permit[x] /\ ticket[x] = ticket[x]
    OBVIOUS
  <2> QED
    BY <1>b, <2>1, <2>2, <2>3, PassOvertakesNobody
<1>9. ASSUME NEW self \in Callers, WaitThrows(self) PROVE ~Overtakes(c, d, r)
  <2> DEFINE tix == [ticket EXCEPT ![self] = NoTicket]
  <2>1. PICK que, st :
          /\ ticket[self].resource \in QueuedResources
          /\ Consistent(next_ticket, resources, que, tix, permit, st)
          /\ GrantEligibleLocked(ticket[self].resource, resources, que, tix, permit, st)
    BY <1>9, WaitThrowsStart
  <2>2. Eligible(ticket[self].resource, tix) \subseteq Eligible(ticket[self].resource, ticket)
    BY <1>a, <1>b, <2>1 DEF Eligible, Waiting, NoTicket
  <2>3. tix \in [Callers -> TicketType]
    <3> HIDE DEF tix
    <3> QED BY <2>1 DEF Consistent, Types
  <2> HIDE DEF tix
  <2>4. permit' = permit
    BY <2>1, <2>2, <2>3, IdlePass
  <2> QED
    BY <2>4, NoGainNoOvertaking
<1>4. ASSUME NEW self \in Callers, FinishAcquire(self) PROVE ~Overtakes(c, d, r)
  <2>1. CASE cancelled[self]
    BY <1>4, <2>1, GiveBackOvertakesNobody DEF FinishAcquire, Busy, Returned
  <2>2. CASE ~cancelled[self]
    BY <1>4, <2>2, NoGainNoOvertaking DEF FinishAcquire
  <2> QED
    BY <2>1, <2>2
<1>5. ASSUME NEW self \in Callers, NEW q \in ImmediateResources,
             NEW n \in AmountsOf(q), AcquireImmediate(self, q, n)
      PROVE  ~Overtakes(c, d, r)
  <2>1. permit'[c] = permit[c] \/ permit'[c].resource = q
    BY <1>5, <1>b DEF AcquireImmediate
  <2> QED
    BY <1>a, <2>1, NoGainNoOvertaking
<1>6. ASSUME NEW self \in Callers, NEW n \in 1..MaxAmount,
             ResizeBufferedBytes(self, n)
      PROVE  ~Overtakes(c, d, r)
  <2>1. permit'[c].resource = permit[c].resource
    BY <1>6, <1>b DEF ResizeBufferedBytes, PermitType
  <2> QED
    BY <2>1, NoGainNoOvertaking
<1>7. ASSUME NEW self \in Callers, Release(self) PROVE ~Overtakes(c, d, r)
  BY <1>7, GiveBackOvertakesNobody DEF Release, Busy, Returned
<1>8. CASE \/ \E self \in Callers : \/ Materialize(self)
                                    \/ Withdraw(self)
                                    \/ RequestCancellation(self)
           \/ Close
           \/ Tick
  BY <1>8, NoGainNoOvertaking
  DEF Materialize, Withdraw, RequestCancellation, Close, Tick
<1> QED
  BY <1>1, <1>2, <1>3, <1>4, <1>5, <1>6, <1>7, <1>8, <1>9 DEF Next

\* FIFO order: a live ticket is never overtaken, on the fast path or in a
\* granting pass, by a caller that needs at least the same counters.
THEOREM FifoOrder == Spec => NoOvertaking
<1> DEFINE Step == \A c, d \in Callers, r \in QueuedResources :
                     /\ Gains(c, r)
                     /\ ticket[d].resource = r
                     /\ ~TicketExpired(d)
                     /\ ticket[c].resource = r =>
                          ticket[d].ordinal < ticket[c].ordinal
                     /\ c # d
                     /\ KeysOf(d) \subseteq KeysOf(c)
                     => Gains(d, r)
<1>1. IInv /\ AllQueuesBusy /\ [Next]_vars => [Step]_vars
  <2>1. ASSUME IInv, AllQueuesBusy, Next PROVE Step
    BY <2>1, NextOvertakesNobody DEF Overtakes
  <2> QED
    BY <2>1
<1>2. NoOvertaking <=> [][Step]_vars
  BY DEF NoOvertaking
<1> HIDE DEF Step
<1> QED
  BY <1>1, <1>2, Invariance, QueuesStayBusy, PTL DEF Spec

-----------------------------------------------------------------------------
(* The controller implements the ledger *)

\* What a step may do with c's authority: keep it, give it back, shrink it, or,
\* while the controller is open, obtain it from nothing or grow it.
Lawful(c) ==
  \/ permit'[c] = permit[c]
  \/ permit'[c] = NoPermit
  \/ terminal_reason = "NONE" /\ permit[c] = NoPermit
  \/ /\ permit'[c].resource = permit[c].resource
     /\ terminal_reason = "NONE" \/ permit'[c].amount < permit[c].amount

\* A granting pass only gives authority to callers that own none, and to
\* nobody once the controller is terminal.
LEMMA PassIsLawful ==
  ASSUME NEW q \in QueuedResources, NEW used, NEW queued, NEW tix, NEW per,
         NEW st, GrantEligibleLocked(q, used, queued, tix, per, st),
         NEW c \in Callers,
         per[c] = permit[c] \/ per[c] = NoPermit,
         tix[c].resource # "NONE" => permit[c] = NoPermit
  PROVE  Lawful(c)
<1>1. PICK G \in SUBSET Eligible(q, tix) :
        permit' = [x \in Callers |-> IF x \in G
                                     THEN [resource |-> q, amount |-> 1]
                                     ELSE per[x]]
  BY DEF GrantEligibleLocked
<1>2. q # "NONE"
  BY DEF QueuedResources
<1>3. CASE c \in G
  <2>1. terminal_reason = "NONE" /\ tix[c].resource = q
    BY <1>3 DEF Eligible, Waiting
  <2> QED
    BY <1>2, <2>1 DEF Lawful
<1>4. CASE c \notin G
  BY <1>1, <1>4 DEF Lawful
<1> QED
  BY <1>3, <1>4

\* Giving authority back is lawful for everybody.
LEMMA GiveBackIsLawful ==
  ASSUME IInv, NEW self \in Callers, NEW status, GiveBack(self, status),
         NEW c \in Callers
  PROVE  Lawful(c)
<1> DEFINE permits == [permit EXCEPT ![self] = NoPermit]
<1>1. permits[c] = permit[c] \/ permits[c] = NoPermit
  BY DEF IInv, Consistent, Types
<1>2. ticket[c].resource # "NONE" => permit[c] = NoPermit
  BY DEF IInv, Consistent, ShapeOf, Busy
<1>3. CASE permit[self].resource \in QueuedResources
  <2>1. PICK q, used, queued, st :
          /\ q \in QueuedResources
          /\ GrantEligibleLocked(q, used, queued, ticket, permits, st)
    BY <1>3 DEF GiveBack
  <2> HIDE DEF permits
  <2> QED
    BY <1>1, <1>2, <2>1, PassIsLawful
<1>4. CASE permit[self].resource \notin QueuedResources
  <2>1. permit' = permits
    BY <1>4 DEF GiveBack
  <2> QED
    BY <1>1, <2>1 DEF Lawful
<1> QED
  BY <1>3, <1>4

\* Every step of the controller treats every caller lawfully.
LEMMA NextIsLawful ==
  ASSUME IInv, Next, NEW c \in Callers
  PROVE  Lawful(c)
<1>a. /\ permit \in [Callers -> PermitType]
      /\ ticket \in [Callers -> TicketType]
      /\ ticket[c].resource # "NONE" => permit[c] = NoPermit
      /\ pc[c] \in Returned => permit[c] = NoPermit
  BY DEF IInv, Consistent, Types, ShapeOf, Busy, Returned
<1>1. ASSUME NEW self \in Callers, NEW q \in QueuedResources,
             NEW w \in WaitPolicies, AcquireQueued(self, q, w)
      PROVE  Lawful(c)
  <2>1. CASE \/ ReturnAtOnce(self, q, w) \/ RejectSaturated(self, q, w)
             \/ ExhaustTickets(self, q, w)
    BY <2>1 DEF Lawful, ReturnAtOnce, RejectSaturated, ExhaustTickets
  <2>2. CASE AcquireAtOnce(self, q, w)
    <3>1. terminal_reason = "NONE" /\ pc[self] \in Returned
      BY <2>2 DEF AcquireAtOnce, EntryStatus, CanCall
    <3>2. c # self => permit'[c] = permit[c]
      BY <1>a, <2>2 DEF AcquireAtOnce
    <3> QED
      BY <1>a, <3>1, <3>2 DEF Lawful
  <2>3. CASE Enqueue(self, q, w)
    <3> DEFINE que == [queues EXCEPT ![q] = AddUsage(@, self, 1)]
               tix == [ticket EXCEPT ![self] = [resource |-> q,
                                                ordinal |-> next_ticket[q],
                                                wait |-> w]]
               st == [pc EXCEPT ![self] = "waiting"]
    <3>1. GrantEligibleLocked(q, resources, que, tix, permit, st)
      BY <2>3 DEF Enqueue
    <3>2. tix[c].resource # "NONE" => permit[c] = NoPermit
      BY <1>a, <2>3 DEF Enqueue, CanCall
    <3> HIDE DEF que, tix, st
    <3> QED
      BY <3>1, <3>2, PassIsLawful
  <2> QED
    BY <1>1, <2>1, <2>2, <2>3 DEF AcquireQueued
<1>2. ASSUME NEW self \in Callers,
             \/ MaterializationThrows(self)
             \/ FinishAcquire(self)
             \/ Release(self)
      PROVE  Lawful(c)
  <2>1. CASE UNCHANGED permit
    BY <2>1 DEF Lawful
  <2>2. CASE \E status \in Returned : GiveBack(self, status)
    BY <2>2, GiveBackIsLawful
  <2> QED
    BY <1>2, <2>1, <2>2
    DEF MaterializationThrows, FinishAcquire, Release, Returned
<1>3. ASSUME NEW self \in Callers, Recheck(self) PROVE Lawful(c)
  <2>1. ticket[self].resource \in QueuedResources
    BY <1>3 DEF Recheck, IInv, Consistent, Types, ShapeOf, TicketType
  <2>2. GrantEligibleLocked(ticket[self].resource, resources, queues, ticket,
                            permit, pc)
    BY <1>3 DEF Recheck
  <2> QED
    BY <1>a, <2>1, <2>2, PassIsLawful
<1>7. ASSUME NEW self \in Callers, WaitThrows(self) PROVE Lawful(c)
  <2>1. PICK que, tix, st :
          /\ tix = [ticket EXCEPT ![self] = NoTicket]
          /\ ticket[self].resource \in QueuedResources
          /\ GrantEligibleLocked(ticket[self].resource, resources, que, tix, permit, st)
    BY <1>7, WaitThrowsStart
  <2>2. tix[c].resource # "NONE" => permit[c] = NoPermit
    BY <1>a, <2>1 DEF NoTicket
  <2> QED
    BY <2>1, <2>2, PassIsLawful
<1>4. ASSUME NEW self \in Callers, NEW q \in ImmediateResources,
             NEW n \in AmountsOf(q), AcquireImmediate(self, q, n)
      PROVE  Lawful(c)
  <2>1. \/ permit'[c] = permit[c]
        \/ c = self /\ terminal_reason = "NONE" /\ pc[self] \in Returned
    BY <1>4, <1>a DEF AcquireImmediate, CanCall
  <2> QED
    BY <1>a, <2>1 DEF Lawful
<1>5. ASSUME NEW self \in Callers, NEW n \in 1..MaxAmount,
             ResizeBufferedBytes(self, n)
      PROVE  Lawful(c)
  <2>1. permit' = [permit EXCEPT ![self].amount = n]
    BY <1>5 DEF ResizeBufferedBytes
  <2>2. /\ permit'[c].resource = permit[c].resource
        /\ c = self => permit'[c].amount = n
        /\ c # self => permit'[c] = permit[c]
    BY <1>a, <2>1 DEF PermitType
  <2>3. terminal_reason = "NONE" \/ n < permit[self].amount
    BY <1>5 DEF ResizeBufferedBytes
  <2> QED
    BY <2>2, <2>3 DEF Lawful
<1>6. CASE \/ \E self \in Callers : \/ Materialize(self)
                                    \/ Withdraw(self)
                                    \/ RequestCancellation(self)
           \/ Close
           \/ Tick
  BY <1>6 DEF Lawful, Materialize, Withdraw, RequestCancellation, Close, Tick
<1> QED
  BY <1>1, <1>2, <1>3, <1>4, <1>5, <1>6, <1>7 DEF Next

\* Terminal stays terminal, and the step that makes it so leaves the authority
\* that is out alone.
LEMMA TerminalSteps ==
  ASSUME IInv, Next
  PROVE  /\ terminal_reason # "NONE" => terminal_reason' # "NONE"
         /\ terminal_reason = "NONE" /\ terminal_reason' # "NONE" =>
              UNCHANGED permit
<1>1. CASE Close \/ \E c \in Callers, r \in QueuedResources, w \in WaitPolicies :
                      ExhaustTickets(c, r, w)
  BY <1>1 DEF Close, ExhaustTickets
<1>2. CASE UNCHANGED terminal_reason
  BY <1>2
<1>3. ASSUME NEW c \in Callers, NEW r \in QueuedResources, NEW w \in WaitPolicies,
             AcquireQueued(c, r, w), ~ExhaustTickets(c, r, w)
      PROVE  UNCHANGED terminal_reason
  BY <1>3 DEF AcquireQueued, ReturnAtOnce, AcquireAtOnce, RejectSaturated, Enqueue
<1>4. ASSUME NEW c \in Callers,
             MaterializationThrows(c) \/ FinishAcquire(c) \/ Release(c)
      PROVE  UNCHANGED terminal_reason
  BY <1>4 DEF MaterializationThrows, FinishAcquire, Release, GiveBack
<1>5. ASSUME NEW c \in Callers,
             \/ Materialize(c) \/ Withdraw(c) \/ Recheck(c)
             \/ WaitThrows(c) \/ RequestCancellation(c)
      PROVE  UNCHANGED terminal_reason
  BY <1>5 DEF Materialize, Withdraw, Recheck, WaitThrows, RequestCancellation
<1>6. ASSUME NEW c \in Callers, NEW r, NEW n,
             AcquireImmediate(c, r, n) \/ ResizeBufferedBytes(c, n)
      PROVE  UNCHANGED terminal_reason
  BY <1>6 DEF AcquireImmediate, ResizeBufferedBytes
<1>7. ASSUME Tick PROVE UNCHANGED terminal_reason
  BY <1>7 DEF Tick
<1> QED
  BY <1>1, <1>2, <1>3, <1>4, <1>5, <1>6, <1>7 DEF Next

HoldingsFit == permit \in [Callers -> Ledger!Holdings] /\ Ledger!WithinCapacity

\* The authority that is out, as the ledger sees it, fits its capacity.
LEMMA LedgerHoldings == IInv => HoldingsFit
<1> SUFFICES ASSUME IInv PROVE HoldingsFit
  OBVIOUS
<1>1. permit \in [Callers -> Ledger!Holdings]
  BY DEF IInv, Consistent, Types, ShapeOf, PermitType, NoPermit,
         Ledger!Holdings, Ledger!Nothing
<1>2. ASSUME NEW r \in Resources, NEW k \in CounterKeys
      PROVE  Ledger!Units(r, k) = UnitsIn(permit, r, k)
  BY DEF Ledger!Units, UnitsIn
<1>3. ASSUME NEW r \in Resources, NEW k \in CounterKeys
      PROVE  Cardinality(UnitsIn(permit, r, k)) <= ResourceLimits[r][k[1]]
  BY DEF IInv, Consistent, ResourceLedger, LimitsOf
<1>4. Ledger!WithinCapacity
  <2> SUFFICES ASSUME NEW r \in Resources, NEW k \in CounterKeys
               PROVE  Cardinality(Ledger!Units(r, k)) <= ResourceLimits[r][k[1]]
    <3>1. \A S : Ledger!Cardinality(S) = Cardinality(S)
      BY DEF Ledger!Cardinality, Cardinality, Ledger!IsFiniteSet, IsFiniteSet
    <3> QED
      BY <3>1 DEF Ledger!WithinCapacity
  <2> QED
    BY <1>2, <1>3
<1> QED
  BY <1>1, <1>4 DEF HoldingsFit

\* The controller implements the ledger.
THEOREM Refinement == Spec => ImplementsLedger
<1>1. Init => Ledger!Init
  BY DEF Init, Ledger!Init, NoPermit, Ledger!Nothing
<1>2. IInv' => HoldingsFit'
  BY LedgerHoldings, PTL
<1>3. IInv /\ IInv' /\ [Next]_vars => [Ledger!Next]_(Ledger!vars)
  <2> SUFFICES ASSUME IInv, IInv', Next PROVE Ledger!Next \/ UNCHANGED Ledger!vars
    BY DEF vars, Ledger!vars
  <2>1. permit' \in [Callers -> Ledger!Holdings] /\ Ledger!WithinCapacity'
    BY <1>2 DEF HoldingsFit, Ledger!Holdings, Ledger!Nothing
  <2>2. \A c \in Callers : Lawful(c)
    BY NextIsLawful
  <2>3. CASE terminal_reason = "NONE" /\ terminal_reason' = "NONE"
    <3>1. \A c \in Callers : Ledger!KeepsResource(c)
      BY <2>2 DEF Lawful, Ledger!KeepsResource, Ledger!Nothing, NoPermit
    <3> QED
      BY <2>1, <2>3, <3>1 DEF Ledger!Exchange, Ledger!Next
  <2>4. CASE terminal_reason = "NONE" /\ terminal_reason' # "NONE"
    BY <2>4, TerminalSteps DEF Ledger!CloseDown, Ledger!Next
  <2>5. CASE terminal_reason # "NONE"
    <3>1. \A c \in Callers : Ledger!Shrinks(c)
      BY <2>2, <2>5 DEF Lawful, Ledger!Shrinks, Ledger!Nothing, NoPermit
    <3>2. terminal_reason' # "NONE"
      BY <2>5, TerminalSteps
    <3> QED
      BY <2>1, <2>5, <3>1, <3>2 DEF Ledger!Settle, Ledger!Next
  <2> QED
    BY <2>3, <2>4, <2>5
<1> QED
  BY <1>1, <1>3, Invariance, PTL DEF Spec, ImplementsLedger, Ledger!Spec
=============================================================================

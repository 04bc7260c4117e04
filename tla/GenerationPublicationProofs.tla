--------------------- MODULE GenerationPublicationProofs ---------------------
(***************************************************************************)
(* Proofs about loading and reloading connector packages, for any number   *)
(* of connections, connectors and statements, any packages and any         *)
(* interleaving of statements, foreign registrations and the close.        *)
(*                                                                         *)
(* No single lock covers a publication: a statement reads the catalog when *)
(* its transaction begins, the registry's snapshot without a lock, and     *)
(* then takes two locks one after the other.  The proof says why the three *)
(* readings agree when it matters: the lease pins the registry to the base *)
(* that was compared, and an entry whose stamp is not later than the start *)
(* of a transaction is still what the transaction has seen.                *)
(***************************************************************************)
EXTENDS GenerationPublication, TLAPS

-----------------------------------------------------------------------------
(* The inductive invariant *)

\* An entry that was not committed since a transaction began is as it saw it.
SeesUnlessStamped(x) ==
  pc[x] # "idle" =>
    /\ call[x].start <= commits
    /\ stamps[Management] <= call[x].start => catalog.snapshot = call[x].view.snapshot
    /\ \A n \in Names :
         stamps[n] <= call[x].start => catalog.owner[n] = call[x].view.owner[n]

\* What a statement has by now: a compiled candidate, then a changed one.
HasCandidate(x) ==
  /\ pc[x] \notin {"idle", "bound"} => call[x].candidate \in Generations
  /\ pc[x] \in {"bound", "compiled", "based"} => ~call[x].changed
  /\ pc[x] \in {"published", "conflicted", "committed"} => call[x].changed

\* A lease pins the registry to the base its candidate was judged against.
LeaseHolds(x) ==
  pc[x] \in Leasing /\ call[x].changed =>
    /\ active = call[x].base
    /\ call[x].intent = "RELOAD" =>
         /\ call[x].base[Connector(x)] = call[x].current
         /\ Changed(Decision(x))

\* What was checked for a publication stays true until its commit.
PublicationValid(x) ==
  pc[x] = "published" =>
    /\ MayPublish(x)
    /\ \A n \in Written(x) \cap (Names \cup {Management}) : ~(stamps[n] > call[x].start)

\* Between the commit and its callback the catalog is ahead of the registry.
AheadBy(x) ==
  pc[x] = "committed" => catalog.snapshot = With(call[x].base, call[x].candidate)

LocksOf(x) ==
  /\ publication_mutex = x <=> pc[x] \in Leasing /\ call[x].changed
  /\ guard = x <=> pc[x] \in Guarding

StatementInv(x) ==
  /\ SeesUnlessStamped(x)
  /\ HasCandidate(x)
  /\ LeaseHolds(x)
  /\ PublicationValid(x)
  /\ AheadBy(x)
  /\ LocksOf(x)

ClosedLast == active = Closed => closing

\* With no commit pending, the registry is the catalog's snapshot.
Settled ==
  active # Closed /\ (\A x \in Connections : pc[x] # "committed") =>
    active = catalog.snapshot

\* The generated functions are those of the snapshot, and no others.
OwnersExact ==
  \A n \in Names :
    /\ catalog.owner[n] \notin {None, Foreign} =>
         /\ catalog.snapshot[catalog.owner[n].package.connector] = catalog.owner[n]
         /\ n \in NamesOf(catalog.owner[n])
    /\ \A c \in Connectors :
         n \in NamesOf(catalog.snapshot[c]) => catalog.owner[n] = catalog.snapshot[c]

IInv ==
  /\ TypeOK
  /\ \A x \in Connections : StatementInv(x)
  /\ ClosedLast
  /\ Settled
  /\ OwnersExact

-----------------------------------------------------------------------------
(* Types *)

PCs == {"idle", "bound", "compiled", "based"} \cup Leasing \cup Guarding

\* A generation has a package of a known connector.
LEMMA GenerationFacts ==
  ASSUME NEW g \in Generations
  PROVE  /\ g.package \in Packages /\ g.package.connector \in Connectors
         /\ g.root \in Roots /\ g # None /\ g # Foreign
<1>1. g.package \in Packages /\ g.root \in Roots
  BY DEF Generations
<1> QED
  BY <1>1, PublicationAssumption

\* A snapshot files every generation under its own connector.
LEMMA SnapshotFacts ==
  ASSUME NEW s \in Snapshots, NEW c \in Connectors
  PROVE  /\ s \in [Connectors -> Generations \cup {None}]
         /\ s[c] \in Generations \cup {None}
         /\ s[c] # None => s[c] \in Generations /\ s[c].package.connector = c
BY DEF Snapshots

\* With replaces one connector's generation.
LEMMA WithFacts ==
  ASSUME NEW s \in Snapshots, NEW g \in Generations
  PROVE  /\ With(s, g) \in Snapshots
         /\ With(s, g)[g.package.connector] = g
         /\ \A c \in Connectors : c # g.package.connector => With(s, g)[c] = s[c]
<1>1. s \in [Connectors -> Generations \cup {None}]
  BY DEF Snapshots
<1>2. g.package.connector \in Connectors
  BY GenerationFacts
<1>3. With(s, g) \in [Connectors -> Generations \cup {None}]
  BY <1>1, <1>2 DEF With
<1>4. /\ With(s, g)[g.package.connector] = g
      /\ \A c \in Connectors : c # g.package.connector => With(s, g)[c] = s[c]
  BY <1>1, <1>2 DEF With
<1>5. \A c \in Connectors : With(s, g)[c] # None => With(s, g)[c].package.connector = c
  BY <1>4 DEF Snapshots
<1> QED
  BY <1>3, <1>4, <1>5 DEF Snapshots

\* No connector is loaded at first.
LEMMA EmptySnapshotTyped == EmptySnapshot \in Snapshots
BY DEF EmptySnapshot, Snapshots

\* The parts of a statement's call.
LEMMA CallFacts ==
  ASSUME TypeOK, NEW x \in Connections, pc[x] # "idle"
  PROVE  /\ call[x] \in Calls
         /\ call[x].id \in 1..MaxStatements /\ call[x].intent \in Intents
         /\ call[x].root \in Roots /\ call[x].current \in Generations \cup {None}
         /\ call[x].view \in Catalogs /\ call[x].start \in Nat
         /\ call[x].candidate \in Generations \cup {None}
         /\ call[x].base \in Snapshots /\ call[x].changed \in BOOLEAN
         /\ call[x].view.snapshot \in Snapshots
         /\ call[x].view.owner \in [Names -> Generations \cup {None, Foreign}]
<1>1. call[x] \in Calls
  BY DEF TypeOK
<1>2. call[x].view \in Catalogs
  BY <1>1 DEF Calls
<1>3. /\ call[x].view.snapshot \in Snapshots
      /\ call[x].view.owner \in [Names -> Generations \cup {None, Foreign}]
  BY <1>2 DEF Catalogs
<1> QED
  BY <1>1, <1>2, <1>3 DEF Calls

\* The parts of the catalog.
LEMMA CatalogFacts ==
  ASSUME TypeOK
  PROVE  /\ catalog.snapshot \in Snapshots
         /\ catalog.owner \in [Names -> Generations \cup {None, Foreign}]
         /\ commits \in Nat
         /\ \A n \in Names \cup {Management} : stamps[n] \in Nat /\ stamps[n] <= commits
BY DEF TypeOK, Catalogs

\* A call is never mistaken for its absence.
LEMMA CallsAreNotNoCall == NoCall \notin Calls
<1>1. \A k \in Calls : k.id \in 1..MaxStatements
  BY DEF Calls
<1>2. NoCall.id = 0
  BY DEF NoCall
<1> QED
  BY <1>1, <1>2, PublicationAssumption

-----------------------------------------------------------------------------
(* Statements that a step leaves alone *)

\* What is computed from a call stays while the call does.
LEMMA SameCall ==
  ASSUME NEW x, call'[x] = call[x]
  PROVE  /\ Connector(x)' = Connector(x) /\ Replaced(x)' = Replaced(x)
         /\ Target(x)' = Target(x) /\ Decision(x)' = Decision(x)
         /\ Written(x)' = Written(x) /\ (MayPublish(x)' <=> MayPublish(x))
<1>1. /\ Connector(x)' = Connector(x) /\ Decision(x)' = Decision(x)
  BY DEF Connector, Decision
<1>2. Replaced(x)' = Replaced(x)
  BY <1>1 DEF Replaced
<1>3. Target(x)' = Target(x) /\ Written(x)' = Written(x)
  BY <1>2 DEF Target, Written
<1>4. MayPublish(x)' <=> MayPublish(x)
  BY <1>2, <1>3 DEF MayPublish
<1> QED
  BY <1>1, <1>2, <1>3, <1>4

\* A statement keeps its facts while the database and the registry do.
LEMMA Bystander ==
  ASSUME NEW x \in Connections, StatementInv(x), pc'[x] = pc[x], call'[x] = call[x],
         UNCHANGED database, active' = active,
         publication_mutex' = x <=> publication_mutex = x, guard' = x <=> guard = x
  PROVE  StatementInv(x)'
<1>1. catalog' = catalog /\ stamps' = stamps /\ commits' = commits
  BY DEF database
<1>2. SeesUnlessStamped(x)'
  BY <1>1 DEF StatementInv, SeesUnlessStamped
<1>3. HasCandidate(x)' /\ AheadBy(x)' /\ LocksOf(x)'
  BY <1>1 DEF StatementInv, HasCandidate, AheadBy, LocksOf
<1>4. LeaseHolds(x)'
  BY SameCall DEF StatementInv, LeaseHolds
<1>5. PublicationValid(x)'
  BY <1>1, SameCall DEF StatementInv, PublicationValid
<1> QED
  BY <1>2, <1>3, <1>4, <1>5 DEF StatementInv

\* A step of one statement that leaves the database and the registry's snapshot
\* alone has only its own facts to establish.
LEMMA LocalStep ==
  ASSUME IInv, NEW x \in Connections, UNCHANGED <<active, closing, coordinator_closing>>,
         UNCHANGED database,
         NEW q \in PCs \ {"committed"}, NEW k \in Calls \cup {NoCall},
         q = "idle" <=> k = NoCall, pc[x] # "committed",
         pc' = [pc EXCEPT ![x] = q], call' = [call EXCEPT ![x] = k],
         next_generation' \in 1..(MaxStatements + 1),
         interrupted' \in [Connections -> BOOLEAN],
         publication_mutex' \in {publication_mutex, x, None},
         publication_mutex' # publication_mutex => publication_mutex \in {x, None},
         guard' \in {guard, x, None}, guard' # guard => guard \in {x, None},
         StatementInv(x)'
  PROVE  IInv'
<1>1. /\ pc \in [Connections -> PCs] /\ call \in [Connections -> Calls \cup {NoCall}]
      /\ publication_mutex \in Connections \cup {None} /\ guard \in Connections \cup {None}
  BY DEF IInv, TypeOK, PCs
<1>2. /\ pc'[x] = q /\ call'[x] = k
      /\ \A y \in Connections : y # x => pc'[y] = pc[y] /\ call'[y] = call[y]
  BY <1>1
<1>3. TypeOK'
  <2>1. pc' \in [Connections -> PCs] /\ call' \in [Connections -> Calls \cup {NoCall}]
    BY <1>1
  <2>2. \A y \in Connections : pc'[y] = "idle" <=> call'[y] = NoCall
    BY <1>2 DEF IInv, TypeOK
  <2>3. /\ publication_mutex' \in Connections \cup {None} /\ guard' \in Connections \cup {None}
    BY <1>1
  <2>4. /\ active' \in Snapshots \cup {Closed} /\ closing' \in BOOLEAN
        /\ coordinator_closing' \in BOOLEAN /\ catalog' \in Catalogs /\ commits' \in Nat
        /\ stamps' \in [Names \cup {Management} -> 0..commits']
    BY DEF IInv, TypeOK, database
  <2> QED
    BY <2>1, <2>2, <2>3, <2>4 DEF TypeOK, PCs
<1>4. ASSUME NEW y \in Connections PROVE StatementInv(y)'
  <2>1. CASE y = x
    BY <2>1
  <2>2. CASE y # x
    <3>1. StatementInv(y)
      BY DEF IInv
    <3>2. /\ publication_mutex' = y <=> publication_mutex = y
          /\ guard' = y <=> guard = y
      BY <2>2, PublicationAssumption
    <3> QED
      BY <1>2, <2>2, <3>1, <3>2, Bystander
  <2> QED
    BY <2>1, <2>2
<1>5. ClosedLast'
  BY DEF IInv, ClosedLast
<1>6. Settled'
  <2>1. \A y \in Connections : pc'[y] # "committed" <=> pc[y] # "committed"
    BY <1>2
  <2> QED
    BY <2>1 DEF IInv, Settled, database
<1>7. OwnersExact'
  BY DEF IInv, OwnersExact, database
<1> QED
  BY <1>3, <1>4, <1>5, <1>6, <1>7 DEF IInv

-----------------------------------------------------------------------------
(* Ending a statement *)

\* A statement that has ended has nothing left to keep.
LEMMA IdleStatement ==
  ASSUME NEW x, pc'[x] = "idle", publication_mutex' # x, guard' # x
  PROVE  StatementInv(x)'
BY DEF StatementInv, SeesUnlessStamped, HasCandidate, LeaseHolds, PublicationValid,
       AheadBy, LocksOf, Leasing, Guarding

\* Unwinding before the guard is taken gives the lease back: Fail.
LEMMA FailStep ==
  ASSUME IInv, NEW x \in Connections, Fail(x),
         pc[x] \in {"bound", "compiled", "based", "staged"}
  PROVE  IInv'
<1>1. /\ pc' = [pc EXCEPT ![x] = "idle"] /\ call' = [call EXCEPT ![x] = NoCall]
      /\ interrupted' = [interrupted EXCEPT ![x] = FALSE]
      /\ publication_mutex' = IF publication_mutex = x THEN None ELSE publication_mutex
      /\ UNCHANGED <<active, closing, coordinator_closing>> /\ UNCHANGED database
      /\ guard' = guard /\ next_generation' = next_generation
  BY DEF Fail, coordinator
<1>2. pc \in [Connections -> PCs] /\ interrupted \in [Connections -> BOOLEAN]
      /\ next_generation \in 1..(MaxStatements + 1)
  BY DEF IInv, TypeOK, PCs
<1>3. publication_mutex' # x /\ guard' # x
  <2>1. guard # x
    BY DEF IInv, StatementInv, LocksOf, Guarding
  <2>2. None # x
    BY PublicationAssumption
  <2> QED
    BY <1>1, <2>1, <2>2
<1>4. StatementInv(x)'
  BY <1>1, <1>2, <1>3, IdleStatement
<1>5. "idle" \in PCs \ {"committed"} /\ interrupted' \in [Connections -> BOOLEAN]
  BY <1>1, <1>2 DEF PCs
<1> QED
  BY <1>1, <1>2, <1>4, <1>5, LocalStep

-----------------------------------------------------------------------------
(* The actions *)

\* A statement's pc and call are functions of the connections.
LEMMA StatementTypes ==
  ASSUME TypeOK
  PROVE  /\ pc \in [Connections -> PCs] /\ call \in [Connections -> Calls \cup {NoCall}]
         /\ interrupted \in [Connections -> BOOLEAN]
         /\ next_generation \in 1..(MaxStatements + 1) /\ MaxStatements \in Nat
BY PublicationAssumption DEF TypeOK, PCs

\* Binding begins a transaction that sees the committed catalog.
LEMMA BindStep ==
  ASSUME IInv, NEW x \in Connections, NEW intent \in Intents, NEW root \in Roots,
         NEW current \in Generations \cup {None}, Bind(x, intent, root, current)
  PROVE  IInv'
<1> DEFINE k == [id |-> next_generation, intent |-> intent, root |-> root,
                 current |-> current, view |-> catalog, start |-> commits,
                 candidate |-> None, base |-> EmptySnapshot, changed |-> FALSE]
<1>1. /\ pc[x] = "idle" /\ next_generation <= MaxStatements
      /\ pc' = [pc EXCEPT ![x] = "bound"] /\ call' = [call EXCEPT ![x] = k]
      /\ next_generation' = next_generation + 1 /\ interrupted' = interrupted
      /\ UNCHANGED <<active, closing, coordinator_closing>> /\ UNCHANGED database
      /\ guard' = guard /\ publication_mutex' = publication_mutex
  BY DEF Bind, registry, coordinator
<1>2. /\ pc \in [Connections -> PCs] /\ call \in [Connections -> Calls \cup {NoCall}]
      /\ interrupted \in [Connections -> BOOLEAN]
      /\ next_generation \in 1..(MaxStatements + 1) /\ MaxStatements \in Nat
  BY StatementTypes DEF IInv
<1>3. next_generation \in 1..MaxStatements /\ next_generation' \in 1..(MaxStatements + 1)
  BY <1>1, <1>2
<1>4. catalog \in Catalogs /\ commits \in Nat
  BY DEF IInv, TypeOK
<1>5. k \in Calls
  BY <1>3, <1>4, EmptySnapshotTyped DEF Calls
<1>6. k # NoCall
  BY <1>5, CallsAreNotNoCall
<1>7. /\ pc'[x] = "bound" /\ call'[x].view = catalog /\ call'[x].start = commits
      /\ call'[x].changed = FALSE
  BY <1>1, <1>2
<1>8. StatementInv(x)'
  <2>1. SeesUnlessStamped(x)'
    BY <1>1, <1>4, <1>7 DEF SeesUnlessStamped, database
  <2>2. HasCandidate(x)' /\ LeaseHolds(x)' /\ PublicationValid(x)' /\ AheadBy(x)'
    BY <1>7 DEF HasCandidate, LeaseHolds, PublicationValid, AheadBy, Leasing
  <2>3. LocksOf(x)'
    BY <1>1, <1>7 DEF IInv, StatementInv, LocksOf, Leasing, Guarding
  <2> QED
    BY <2>1, <2>2, <2>3 DEF StatementInv
<1>9. "bound" \in PCs \ {"committed"} /\ pc[x] # "committed"
  BY <1>1 DEF PCs
<1> HIDE DEF k
<1> QED
  BY <1>1, <1>2, <1>3, <1>5, <1>6, <1>8, <1>9, LocalStep

\* Before its stage a statement moves on with more of its call filled in.
LEMMA PrivateStep ==
  ASSUME IInv, NEW x \in Connections, UNCHANGED <<registry, coordinator, next_generation,
         interrupted>>, UNCHANGED database,
         pc[x] \in {"bound", "compiled"}, NEW q \in {"compiled", "based"},
         NEW k \in Calls, pc' = [pc EXCEPT ![x] = q], call' = [call EXCEPT ![x] = k],
         k.start = call[x].start, k.view = call[x].view, k.changed = call[x].changed,
         k.candidate \in Generations
  PROVE  IInv'
<1>1. /\ pc \in [Connections -> PCs] /\ call \in [Connections -> Calls \cup {NoCall}]
      /\ interrupted \in [Connections -> BOOLEAN]
      /\ next_generation \in 1..(MaxStatements + 1)
  BY StatementTypes DEF IInv
<1>2. pc'[x] = q /\ call'[x] = k
  BY <1>1
<1>3. StatementInv(x)
  BY DEF IInv
<1>4. SeesUnlessStamped(x)'
  BY <1>2, <1>3 DEF StatementInv, SeesUnlessStamped, database
<1>5. HasCandidate(x)' /\ LeaseHolds(x)' /\ PublicationValid(x)' /\ AheadBy(x)'
  BY <1>2, <1>3
  DEF StatementInv, HasCandidate, LeaseHolds, PublicationValid, AheadBy, Leasing
<1>6. LocksOf(x)'
  BY <1>2, <1>3 DEF StatementInv, LocksOf, Leasing, Guarding, registry, coordinator
<1>7. StatementInv(x)'
  BY <1>4, <1>5, <1>6 DEF StatementInv
<1>8. /\ q \in PCs \ {"committed"} /\ q # "idle" /\ k # NoCall
      /\ k \in Calls \cup {NoCall} /\ pc[x] # "committed"
  BY CallsAreNotNoCall DEF PCs
<1>9. /\ UNCHANGED <<active, closing, coordinator_closing>>
      /\ publication_mutex' = publication_mutex /\ guard' = guard
      /\ next_generation' \in 1..(MaxStatements + 1)
      /\ interrupted' \in [Connections -> BOOLEAN]
  BY <1>1 DEF registry, coordinator
<1> QED
  BY <1>7, <1>8, <1>9, LocalStep

\* A compiled candidate carries the statement's own handle and directory: Compile.
LEMMA CompileStep ==
  ASSUME IInv, NEW x \in Connections, NEW p \in Packages, Compile(x, p)
  PROVE  IInv'
<1> DEFINE g == [id |-> call[x].id, root |-> call[x].root, package |-> p]
           k == [call[x] EXCEPT !.candidate = g]
<1>1. pc[x] = "bound" /\ pc[x] # "idle"
  BY DEF Compile
<1>2. /\ call[x] \in Calls /\ call[x].id \in 1..MaxStatements /\ call[x].root \in Roots
  BY <1>1, CallFacts DEF IInv
<1>3. g \in Generations
  BY <1>2 DEF Generations
<1>4. /\ k \in Calls /\ k.start = call[x].start /\ k.view = call[x].view
      /\ k.changed = call[x].changed /\ k.candidate = g
  <2> HIDE DEF g
  <2> QED
    BY <1>2, <1>3 DEF Calls
<1>5. call \in [Connections -> Calls \cup {NoCall}]
  BY StatementTypes DEF IInv
<1>6. /\ pc' = [pc EXCEPT ![x] = "compiled"] /\ call' = [call EXCEPT ![x] = k]
      /\ UNCHANGED <<registry, coordinator, next_generation, interrupted>>
      /\ UNCHANGED database
  BY <1>5 DEF Compile
<1> HIDE DEF k, g
<1> QED
  BY <1>1, <1>3, <1>4, <1>6, PrivateStep

\* The base is read without a lock.
LEMMA ReadBaseStep == ASSUME IInv, NEW x \in Connections, ReadBase(x) PROVE IInv'
<1> DEFINE k == [call[x] EXCEPT !.base = active]
<1>1. pc[x] = "compiled" /\ pc[x] # "idle" /\ ~closing
  BY DEF ReadBase
<1>2. call[x] \in Calls /\ call[x].candidate \in Generations
  BY <1>1, CallFacts DEF IInv, StatementInv, HasCandidate
<1>3. active \in Snapshots
  BY <1>1 DEF IInv, TypeOK, ClosedLast
<1>4. /\ k \in Calls /\ k.start = call[x].start /\ k.view = call[x].view
      /\ k.changed = call[x].changed /\ k.candidate = call[x].candidate
  BY <1>2, <1>3 DEF Calls
<1>5. /\ pc' = [pc EXCEPT ![x] = "based"] /\ call' = [call EXCEPT ![x] = k]
      /\ UNCHANGED <<registry, coordinator, next_generation, interrupted>>
      /\ UNCHANGED database
  BY DEF ReadBase
<1> HIDE DEF k
<1> QED
  BY <1>1, <1>2, <1>4, <1>5, PrivateStep

\* Taking the lock with the base that is still current makes the lease.
LEMMA StageChangedStep ==
  ASSUME IInv, NEW x \in Connections, StageChanged(x) PROVE IInv'
<1> DEFINE k == [call[x] EXCEPT !.changed = TRUE]
<1>1. /\ pc[x] = "based" /\ publication_mutex = None /\ MayStage(x) /\ Replaces(x)
      /\ publication_mutex' = x /\ pc' = [pc EXCEPT ![x] = "staged"]
      /\ call' = [call EXCEPT ![x] = k]
      /\ UNCHANGED <<active, closing, coordinator_closing, guard, next_generation,
                     interrupted>>
      /\ UNCHANGED database
  BY DEF StageChanged, HasStageLock, coordinator
<1>2. /\ pc \in [Connections -> PCs] /\ call \in [Connections -> Calls \cup {NoCall}]
      /\ interrupted \in [Connections -> BOOLEAN]
      /\ next_generation \in 1..(MaxStatements + 1)
  BY StatementTypes DEF IInv
<1>3. call[x] \in Calls
  BY <1>1, CallFacts DEF IInv
<1>4. /\ k \in Calls /\ k.start = call[x].start /\ k.view = call[x].view
      /\ k.changed = TRUE /\ k.candidate = call[x].candidate /\ k.base = call[x].base
      /\ k.intent = call[x].intent /\ k.current = call[x].current
  BY <1>3 DEF Calls
<1>5. pc'[x] = "staged" /\ call'[x] = k
  BY <1>1, <1>2
<1>6. StatementInv(x)
  BY DEF IInv
<1> HIDE DEF k
<1>7. SeesUnlessStamped(x)' /\ HasCandidate(x)'
  BY <1>1, <1>4, <1>5, <1>6 DEF StatementInv, SeesUnlessStamped, HasCandidate, database
<1>8. LeaseHolds(x)'
  <2>1. active = call[x].base
    BY <1>1 DEF MayStage, RequireCurrentBase
  <2>2. call[x].intent = "RELOAD" =>
          call[x].base[Connector(x)] = call[x].current /\ Changed(Decision(x))
    BY <1>1 DEF MayStage, Replaces, Connector
  <2>3. Connector(x)' = Connector(x) /\ Decision(x)' = Decision(x)
    BY <1>4, <1>5 DEF Connector, Decision
  <2> QED
    BY <1>1, <1>4, <1>5, <2>1, <2>2, <2>3 DEF LeaseHolds
<1>9. PublicationValid(x)' /\ AheadBy(x)'
  BY <1>5 DEF PublicationValid, AheadBy
<1>10. LocksOf(x)'
  BY <1>1, <1>4, <1>5, <1>6 DEF StatementInv, LocksOf, Leasing, Guarding
<1>11. StatementInv(x)'
  BY <1>7, <1>8, <1>9, <1>10 DEF StatementInv
<1>12. "staged" \in PCs \ {"committed"} /\ k # NoCall
  BY <1>4, CallsAreNotNoCall DEF PCs, Leasing
<1> QED
  BY <1>1, <1>2, <1>4, <1>11, <1>12, LocalStep

\* A reload of the same package keeps no lock.
LEMMA StageUnchangedStep ==
  ASSUME IInv, NEW x \in Connections, StageUnchanged(x) PROVE IInv'
<1> DEFINE k == [call[x] EXCEPT !.candidate = call[x].current]
<1>1. /\ pc[x] = "based" /\ MayStage(x) /\ ~Replaces(x)
      /\ pc' = [pc EXCEPT ![x] = "staged"] /\ call' = [call EXCEPT ![x] = k]
      /\ UNCHANGED <<active, closing, coordinator_closing, guard, publication_mutex,
                     next_generation, interrupted>>
      /\ UNCHANGED database
  BY DEF StageUnchanged, HasStageLock, coordinator, registry
<1>2. /\ pc \in [Connections -> PCs] /\ call \in [Connections -> Calls \cup {NoCall}]
      /\ interrupted \in [Connections -> BOOLEAN]
      /\ next_generation \in 1..(MaxStatements + 1)
  BY StatementTypes DEF IInv
<1>3. call[x] \in Calls /\ call[x].current \in Generations \cup {None}
  BY <1>1, CallFacts DEF IInv
<1>4. call[x].current \in Generations
  BY <1>1, <1>3 DEF MayStage, Replaces
<1>5. /\ k \in Calls /\ k.start = call[x].start /\ k.view = call[x].view
      /\ k.changed = call[x].changed /\ k.candidate = call[x].current
  BY <1>3 DEF Calls
<1>6. pc'[x] = "staged" /\ call'[x] = k
  BY <1>1, <1>2
<1>7. StatementInv(x) /\ ~call[x].changed
  BY <1>1 DEF IInv, StatementInv, HasCandidate
<1> HIDE DEF k
<1>8. SeesUnlessStamped(x)' /\ HasCandidate(x)'
  BY <1>1, <1>4, <1>5, <1>6, <1>7
  DEF StatementInv, SeesUnlessStamped, HasCandidate, database
<1>9. LeaseHolds(x)' /\ PublicationValid(x)' /\ AheadBy(x)'
  BY <1>5, <1>6, <1>7 DEF LeaseHolds, PublicationValid, AheadBy
<1>10. LocksOf(x)'
  BY <1>1, <1>5, <1>6, <1>7 DEF StatementInv, LocksOf, Leasing, Guarding
<1>11. StatementInv(x)'
  BY <1>8, <1>9, <1>10 DEF StatementInv
<1>12. "staged" \in PCs \ {"committed"} /\ k # NoCall
  BY <1>5, CallsAreNotNoCall DEF PCs, Leasing
<1> QED
  BY <1>1, <1>2, <1>5, <1>11, <1>12, LocalStep

\* The checks of a publication are made under the guard.
LEMMA PublishStep == ASSUME IInv, NEW x \in Connections, Publish(x) PROVE IInv'
<1>1. /\ pc[x] = "staged" /\ guard = None /\ call[x].changed /\ MayPublish(x)
      /\ guard' = x /\ call' = call
      /\ pc' = [pc EXCEPT ![x] = IF Conflicts(x) THEN "conflicted" ELSE "published"]
      /\ UNCHANGED <<active, closing, publication_mutex, coordinator_closing,
                     next_generation, interrupted>>
      /\ UNCHANGED database
  BY DEF Publish, HasGuard, registry
<1>2. /\ pc \in [Connections -> PCs] /\ call \in [Connections -> Calls \cup {NoCall}]
      /\ interrupted \in [Connections -> BOOLEAN]
      /\ next_generation \in 1..(MaxStatements + 1)
  BY StatementTypes DEF IInv
<1>3. call[x] \in Calls
  BY <1>1, CallFacts DEF IInv
<1>4. PICK q \in {"conflicted", "published"} :
        pc' = [pc EXCEPT ![x] = q] /\ (q = "published" => ~Conflicts(x))
  BY <1>1
<1>5. pc'[x] = q /\ call'[x] = call[x]
  BY <1>1, <1>2, <1>4
<1>6. StatementInv(x)
  BY DEF IInv
<1>7. SeesUnlessStamped(x)' /\ HasCandidate(x)'
  BY <1>1, <1>5, <1>6 DEF StatementInv, SeesUnlessStamped, HasCandidate, database
<1>8. LeaseHolds(x)' /\ AheadBy(x)'
  BY <1>1, <1>5, <1>6, SameCall DEF StatementInv, LeaseHolds, Leasing, AheadBy
<1>9. PublicationValid(x)'
  <2>1. q = "published" => \A n \in Written(x) : ~(stamps[n] > call[x].start)
    BY <1>4 DEF Conflicts
  <2> QED
    BY <1>1, <1>5, <2>1, SameCall DEF PublicationValid, database
<1>10. LocksOf(x)'
  BY <1>1, <1>5, <1>6 DEF StatementInv, LocksOf, Leasing, Guarding
<1>11. StatementInv(x)'
  BY <1>7, <1>8, <1>9, <1>10 DEF StatementInv
<1>12. /\ q \in PCs \ {"committed"} /\ q # "idle" /\ call[x] # NoCall
       /\ call' = [call EXCEPT ![x] = call[x]]
  BY <1>1, <1>2, <1>3, CallsAreNotNoCall DEF PCs, Leasing
<1> QED
  BY <1>1, <1>2, <1>3, <1>4, <1>11, <1>12, LocalStep

\* A rollback gives the lease back before the guard.
LEMMA RollbackStep == ASSUME IInv, NEW x \in Connections, Rollback(x) PROVE IInv'
<1>1. /\ pc[x] \in {"published", "conflicted"} /\ publication_mutex' = None
      /\ pc' = [pc EXCEPT ![x] = "releasing"] /\ call' = call
      /\ UNCHANGED <<active, closing, guard, coordinator_closing, next_generation,
                     interrupted>>
      /\ UNCHANGED database
  BY DEF Rollback, coordinator
<1>2. /\ pc \in [Connections -> PCs] /\ call \in [Connections -> Calls \cup {NoCall}]
      /\ interrupted \in [Connections -> BOOLEAN]
      /\ next_generation \in 1..(MaxStatements + 1)
  BY StatementTypes DEF IInv
<1>3. call[x] \in Calls
  BY <1>1, CallFacts DEF IInv
<1>4. pc'[x] = "releasing" /\ call'[x] = call[x]
  BY <1>1, <1>2
<1>5. StatementInv(x) /\ publication_mutex = x
  BY <1>1 DEF IInv, StatementInv, HasCandidate, LocksOf, Leasing
<1>6. SeesUnlessStamped(x)' /\ HasCandidate(x)'
  BY <1>1, <1>4, <1>5 DEF StatementInv, SeesUnlessStamped, HasCandidate, database
<1>7. LeaseHolds(x)' /\ AheadBy(x)' /\ PublicationValid(x)'
  BY <1>4 DEF LeaseHolds, Leasing, AheadBy, PublicationValid
<1>8. LocksOf(x)'
  BY <1>1, <1>4, <1>5, PublicationAssumption DEF StatementInv, LocksOf, Leasing, Guarding
<1>9. StatementInv(x)'
  BY <1>6, <1>7, <1>8 DEF StatementInv
<1>10. /\ "releasing" \in PCs \ {"committed"} /\ call[x] # NoCall
       /\ call' = [call EXCEPT ![x] = call[x]]
  BY <1>1, <1>2, <1>3, CallsAreNotNoCall DEF PCs, Guarding
<1> QED
  BY <1>1, <1>2, <1>3, <1>5, <1>9, <1>10, LocalStep

\* The guard is the last thing a statement gives back.
LEMMA ReleaseGuardStep == ASSUME IInv, NEW x \in Connections, ReleaseGuard(x) PROVE IInv'
<1>1. /\ pc[x] = "releasing" /\ guard' = None
      /\ pc' = [pc EXCEPT ![x] = "idle"] /\ call' = [call EXCEPT ![x] = NoCall]
      /\ interrupted' = [interrupted EXCEPT ![x] = FALSE]
      /\ UNCHANGED <<active, closing, publication_mutex, coordinator_closing,
                     next_generation>>
      /\ UNCHANGED database
  BY DEF ReleaseGuard, registry
<1>2. /\ pc \in [Connections -> PCs] /\ interrupted \in [Connections -> BOOLEAN]
      /\ next_generation \in 1..(MaxStatements + 1)
  BY StatementTypes DEF IInv
<1>3. guard = x /\ publication_mutex # x
  BY <1>1 DEF IInv, StatementInv, LocksOf, Leasing, Guarding
<1>4. StatementInv(x)'
  BY <1>1, <1>2, <1>3, PublicationAssumption, IdleStatement
<1>5. "idle" \in PCs \ {"committed"} /\ interrupted' \in [Connections -> BOOLEAN]
  BY <1>1, <1>2 DEF PCs
<1> QED
  BY <1>1, <1>2, <1>3, <1>4, <1>5, LocalStep

\* Interrupting a query, closing, and doing nothing move no statement.
LEMMA StandStill ==
  ASSUME IInv, UNCHANGED <<active, publication_mutex, guard, pc, call, next_generation>>,
         UNCHANGED database, closing' \in BOOLEAN, coordinator_closing' \in BOOLEAN,
         closing => closing', interrupted' \in [Connections -> BOOLEAN]
  PROVE  IInv'
<1>1. TypeOK'
  BY DEF IInv, TypeOK, database
<1>2. ASSUME NEW x \in Connections PROVE StatementInv(x)'
  BY Bystander DEF IInv
<1>3. ClosedLast' /\ Settled' /\ OwnersExact'
  BY DEF IInv, ClosedLast, Settled, OwnersExact, database
<1> QED
  BY <1>1, <1>2, <1>3 DEF IInv

\* An interrupt is only noted.
LEMMA InterruptStep == ASSUME IInv, NEW x \in Connections, Interrupt(x) PROVE IInv'
<1>1. interrupted' \in [Connections -> BOOLEAN] /\ closing' \in BOOLEAN
      /\ coordinator_closing' \in BOOLEAN
  BY DEF IInv, TypeOK, Interrupt, registry, coordinator
<1>2. /\ UNCHANGED <<active, publication_mutex, guard, pc, call, next_generation>>
      /\ UNCHANGED database /\ (closing => closing')
  BY DEF Interrupt, registry, coordinator
<1> QED
  BY <1>1, <1>2, StandStill

\* The closing bits are set and nothing is taken away yet: BeginClose.
LEMMA CloseSteps == ASSUME IInv, BeginClose \/ CloseRegistry PROVE IInv'
<1>1. /\ UNCHANGED <<active, publication_mutex, guard, pc, call, next_generation>>
      /\ UNCHANGED database /\ closing' \in BOOLEAN /\ coordinator_closing' \in BOOLEAN
      /\ (closing => closing') /\ interrupted' = interrupted
  BY DEF BeginClose, CloseRegistry, registry, coordinator, statement, IInv, TypeOK
<1>2. interrupted \in [Connections -> BOOLEAN]
  BY DEF IInv, TypeOK
<1> QED
  BY <1>1, <1>2, StandStill

\* The registry is emptied while nobody has a lease.
LEMMA DrainStep == ASSUME IInv, Drain PROVE IInv'
<1>1. /\ closing /\ publication_mutex = None /\ active' = Closed
      /\ UNCHANGED <<closing, publication_mutex, coordinator_closing, guard, pc, call,
                     next_generation, interrupted>>
      /\ UNCHANGED database
  BY DEF Drain, coordinator, statement
<1>2. TypeOK'
  BY <1>1 DEF IInv, TypeOK, database
<1>3. ASSUME NEW x \in Connections PROVE StatementInv(x)'
  <2>1. StatementInv(x) /\ publication_mutex # x
    BY <1>1, PublicationAssumption DEF IInv
  <2>2. ~(pc[x] \in Leasing /\ call[x].changed)
    BY <2>1 DEF StatementInv, LocksOf
  <2>3. LeaseHolds(x)'
    BY <1>1, <2>2 DEF LeaseHolds
  <2>4. SeesUnlessStamped(x)' /\ HasCandidate(x)' /\ AheadBy(x)' /\ LocksOf(x)'
    BY <1>1, <2>1
    DEF StatementInv, SeesUnlessStamped, HasCandidate, AheadBy, LocksOf, database
  <2>5. PublicationValid(x)'
    BY <1>1, <2>1, SameCall DEF StatementInv, PublicationValid, database
  <2> QED
    BY <2>3, <2>4, <2>5 DEF StatementInv
<1>4. ClosedLast' /\ Settled' /\ OwnersExact'
  BY <1>1 DEF IInv, ClosedLast, Settled, OwnersExact, database
<1> QED
  BY <1>2, <1>3, <1>4 DEF IInv

\* Another extension takes a name that is free and is not being written.
LEMMA RegisterForeignStep ==
  ASSUME IInv, NEW m \in ForeignNames, RegisterForeign(m)
  PROVE  IInv'
<1>1. /\ catalog.owner[m] = None /\ m \in Names
      /\ \A x \in Connections : pc[x] = "published" => m \notin Written(x)
      /\ commits' = commits + 1 /\ stamps' = [stamps EXCEPT ![m] = commits + 1]
      /\ catalog' = [catalog EXCEPT !.owner[m] = Foreign]
      /\ UNCHANGED <<active, closing, publication_mutex, coordinator_closing, guard, pc,
                     call, next_generation, interrupted>>
  BY PublicationAssumption DEF RegisterForeign, registry, coordinator, statement
<1>2. /\ catalog \in Catalogs /\ catalog.snapshot \in Snapshots /\ commits \in Nat
      /\ catalog.owner \in [Names -> Generations \cup {None, Foreign}]
      /\ \A n \in Names \cup {Management} : stamps[n] \in Nat /\ stamps[n] <= commits
      /\ stamps \in [Names \cup {Management} -> 0..commits]
  BY CatalogFacts DEF IInv, TypeOK
<1>3. /\ catalog'.snapshot = catalog.snapshot
      /\ catalog'.owner = [catalog.owner EXCEPT ![m] = Foreign]
      /\ catalog' \in Catalogs
  BY <1>1, <1>2 DEF Catalogs
<1>4. /\ catalog'.owner[m] = Foreign
      /\ \A n \in Names : n # m => catalog'.owner[n] = catalog.owner[n]
  BY <1>1, <1>2, <1>3
<1>5. /\ stamps'[m] = commits + 1
      /\ \A n \in Names \cup {Management} : n # m => stamps'[n] = stamps[n]
      /\ stamps' \in [Names \cup {Management} -> 0..(commits + 1)]
  BY <1>1, <1>2
<1>6. TypeOK'
  <2>1. commits' \in Nat /\ stamps' \in [Names \cup {Management} -> 0..commits']
    BY <1>1, <1>2, <1>5
  <2> QED
    BY <1>1, <1>3, <2>1 DEF IInv, TypeOK
<1>7. ASSUME NEW x \in Connections PROVE StatementInv(x)'
  <2>1. StatementInv(x) /\ pc'[x] = pc[x] /\ call'[x] = call[x]
    BY <1>1 DEF IInv
  <2>2. SeesUnlessStamped(x)'
    <3> SUFFICES ASSUME pc[x] # "idle" PROVE SeesUnlessStamped(x)'
      BY <2>1 DEF SeesUnlessStamped
    <3>1. call[x].start \in Nat /\ call[x].start <= commits
      BY <2>1, CallFacts DEF IInv, StatementInv, SeesUnlessStamped
    <3>2. /\ stamps[Management] <= call[x].start => catalog.snapshot = call[x].view.snapshot
          /\ \A n \in Names :
               stamps[n] <= call[x].start => catalog.owner[n] = call[x].view.owner[n]
      BY <2>1 DEF StatementInv, SeesUnlessStamped
    <3>3. Management # m
      BY <1>1, PublicationAssumption
    <3>4. ~(stamps'[m] <= call[x].start) /\ call[x].start <= commits'
      BY <1>1, <1>2, <1>5, <3>1
    <3> QED
      BY <1>3, <1>4, <1>5, <2>1, <3>2, <3>3, <3>4 DEF SeesUnlessStamped
  <2>3. HasCandidate(x)' /\ AheadBy(x)' /\ LocksOf(x)'
    BY <1>1, <1>3, <2>1 DEF StatementInv, HasCandidate, AheadBy, LocksOf
  <2>4. LeaseHolds(x)'
    BY <1>1, <2>1, SameCall DEF StatementInv, LeaseHolds
  <2>5. PublicationValid(x)'
    BY <1>1, <1>5, <2>1, SameCall DEF StatementInv, PublicationValid
  <2> QED
    BY <2>2, <2>3, <2>4, <2>5 DEF StatementInv
<1>8. ClosedLast' /\ Settled'
  BY <1>1, <1>3 DEF IInv, ClosedLast, Settled
<1>9. OwnersExact'
  <2>1. \A c \in Connectors : m \notin NamesOf(catalog.snapshot[c])
    BY <1>1 DEF IInv, OwnersExact, NamesOf
  <2> QED
    BY <1>1, <1>3, <1>4, <2>1 DEF IInv, OwnersExact
<1> QED
  BY <1>6, <1>7, <1>8, <1>9 DEF IInv

-----------------------------------------------------------------------------
(* The commit *)

\* At its commit a publication replaces exactly what it has read: the catalog
\* that its transaction saw, the base of its lease and the registry's snapshot
\* are one and the same.
LEMMA ReadingsAgree ==
  ASSUME IInv, NEW x \in Connections, pc[x] = "published"
  PROVE  /\ call[x].candidate \in Generations /\ call[x].changed
         /\ catalog.snapshot = call[x].view.snapshot
         /\ active = call[x].base /\ call[x].base \in Snapshots
         /\ active = catalog.snapshot /\ active # Closed
         /\ publication_mutex = x /\ guard = x
<1>1. StatementInv(x) /\ TypeOK
  BY DEF IInv
<1>2. call[x].candidate \in Generations /\ call[x].changed
  BY <1>1 DEF StatementInv, HasCandidate
<1>3. publication_mutex = x /\ guard = x /\ active = call[x].base
  BY <1>1, <1>2 DEF StatementInv, LocksOf, LeaseHolds, Leasing, Guarding
<1>4. call[x].base \in Snapshots /\ call[x].start \in Nat
  BY <1>1, CallFacts
<1>5. active # Closed
  BY <1>3, <1>4, PublicationAssumption
<1>6. catalog.snapshot = call[x].view.snapshot
  <2>1. Management \in Written(x)
    BY DEF Written
  <2>2. ~(stamps[Management] > call[x].start)
    BY <1>1, <2>1 DEF StatementInv, PublicationValid
  <2>3. stamps[Management] \in Nat
    BY <1>1, CatalogFacts
  <2>4. stamps[Management] <= call[x].start
    BY <1>4, <2>2, <2>3
  <2> QED
    BY <1>1, <2>4 DEF StatementInv, SeesUnlessStamped
<1>7. \A y \in Connections : pc[y] # "committed"
  <2> SUFFICES ASSUME NEW y \in Connections, pc[y] = "committed" PROVE FALSE
    OBVIOUS
  <2>1. publication_mutex = y
    BY DEF IInv, StatementInv, HasCandidate, LocksOf, Leasing
  <2> QED
    BY <1>3, <2>1
<1>8. active = catalog.snapshot
  BY <1>5, <1>7 DEF IInv, Settled
<1> QED
  BY <1>2, <1>3, <1>4, <1>5, <1>6, <1>8

\* The owners that a commit leaves are exactly those of the new snapshot: what
\* is replaced was the connector's own, and no other connector has the names.
LEMMA CommitOwners ==
  ASSUME IInv, NEW x \in Connections, CommitCatalog(x)
  PROVE  OwnersExact' /\ catalog' \in Catalogs /\ catalog'.snapshot = Target(x)
         /\ Target(x) = With(catalog.snapshot, call[x].candidate)
<1> DEFINE cand == call[x].candidate
           old  == Replaced(x)
<1>1. /\ pc[x] = "published"
      /\ catalog' = [snapshot |-> Target(x),
                     owner |-> [n \in Names |->
                                  IF n \in NamesOf(cand) THEN cand
                                  ELSE IF n \in NamesOf(old) THEN None
                                  ELSE catalog.owner[n]]]
  BY DEF CommitCatalog
<1>2. /\ cand \in Generations /\ catalog.snapshot = call[x].view.snapshot
  BY <1>1, ReadingsAgree
<1>3. catalog.snapshot \in Snapshots
      /\ catalog.owner \in [Names -> Generations \cup {None, Foreign}]
  BY CatalogFacts DEF IInv
<1>4. PICK conn \in Connectors : conn = cand.package.connector
  BY <1>2, GenerationFacts
<1>5. /\ Target(x) = With(catalog.snapshot, cand) /\ Target(x) \in Snapshots
      /\ Target(x)[conn] = cand
      /\ \A c \in Connectors : c # conn => Target(x)[c] = catalog.snapshot[c]
  BY <1>2, <1>3, <1>4, WithFacts DEF Target
<1>6. old = catalog.snapshot[conn]
  BY <1>2, <1>4 DEF Replaced, Connector
<1>7. \A c, d \in Connectors : c # d => NamesOf(Target(x)[c]) \cap NamesOf(Target(x)[d]) = {}
  <2>1. MayPublish(x)
    BY <1>1 DEF IInv, StatementInv, PublicationValid
  <2> QED
    BY <2>1 DEF MayPublish
<1> HIDE DEF cand, old
<1>8. /\ catalog'.snapshot = Target(x)
      /\ \A n \in Names :
           catalog'.owner[n] = IF n \in NamesOf(cand) THEN cand
                               ELSE IF n \in NamesOf(old) THEN None
                               ELSE catalog.owner[n]
  BY <1>1
<1>9. catalog' \in Catalogs
  <2> DEFINE owners == [n \in Names |->
                          IF n \in NamesOf(cand) THEN cand
                          ELSE IF n \in NamesOf(old) THEN None
                          ELSE catalog.owner[n]]
  <2>1. owners \in [Names -> Generations \cup {None, Foreign}]
    BY <1>2, <1>3
  <2>2. catalog' = [snapshot |-> Target(x), owner |-> owners]
    BY <1>1
  <2> HIDE DEF owners
  <2> QED
    BY <1>5, <2>1, <2>2 DEF Catalogs
<1>10. ASSUME NEW n \in Names, catalog'.owner[n] \notin {None, Foreign}
       PROVE  /\ catalog'.snapshot[catalog'.owner[n].package.connector] = catalog'.owner[n]
              /\ n \in NamesOf(catalog'.owner[n])
  <2>1. CASE n \in NamesOf(cand)
    BY <1>4, <1>5, <1>8, <2>1
  <2>2. CASE n \notin NamesOf(cand)
    <3>1. n \notin NamesOf(old) /\ catalog'.owner[n] = catalog.owner[n]
      BY <1>8, <1>10, <2>2
    <3>2. PICK g \in Generations : g = catalog.owner[n]
      BY <1>3, <1>10, <3>1
    <3>3. /\ catalog.snapshot[g.package.connector] = g /\ n \in NamesOf(g)
      BY <1>10, <3>1, <3>2 DEF IInv, OwnersExact
    <3>4. g.package.connector \in Connectors /\ g.package.connector # conn
      BY <1>6, <3>1, <3>3, GenerationFacts
    <3> QED
      BY <1>5, <1>8, <3>1, <3>2, <3>3, <3>4
  <2> QED
    BY <2>1, <2>2
<1>11. ASSUME NEW n \in Names, NEW c \in Connectors, n \in NamesOf(catalog'.snapshot[c])
       PROVE  catalog'.owner[n] = catalog'.snapshot[c]
  <2>1. CASE c = conn
    BY <1>5, <1>8, <1>11, <2>1
  <2>2. CASE c # conn
    <3>1. n \in NamesOf(catalog.snapshot[c]) /\ catalog'.snapshot[c] = catalog.snapshot[c]
      BY <1>5, <1>8, <1>11, <2>2
    <3>2. n \notin NamesOf(cand)
      BY <1>5, <1>7, <1>8, <1>11, <2>2
    <3>3. catalog.owner[n] = catalog.snapshot[c]
      BY <3>1 DEF IInv, OwnersExact
    <3>4. n \notin NamesOf(old)
      <4> SUFFICES ASSUME n \in NamesOf(old) PROVE FALSE
        OBVIOUS
      <4>1. catalog.owner[n] = catalog.snapshot[conn]
        BY <1>6 DEF IInv, OwnersExact
      <4>2. catalog.snapshot[c] # None /\ catalog.snapshot[conn] # None
        BY <1>6, <3>1 DEF NamesOf
      <4>3. /\ catalog.snapshot[c].package.connector = c
            /\ catalog.snapshot[conn].package.connector = conn
        BY <1>3, <4>2 DEF Snapshots
      <4> QED
        BY <2>2, <3>3, <4>1, <4>3
    <3> QED
      BY <1>8, <3>1, <3>2, <3>3, <3>4
  <2> QED
    BY <2>1, <2>2
<1>12. OwnersExact'
  BY <1>10, <1>11 DEF OwnersExact
<1> QED
  BY <1>5, <1>8, <1>9, <1>12 DEF cand

\* The writes of a publication become visible together.
LEMMA CommitCatalogStep ==
  ASSUME IInv, NEW x \in Connections, CommitCatalog(x) PROVE IInv'
<1>1. /\ pc[x] = "published" /\ pc' = [pc EXCEPT ![x] = "committed"] /\ call' = call
      /\ commits' = commits + 1
      /\ stamps' = [n \in Names \cup {Management} |->
                      IF n \in Written(x) THEN commits + 1 ELSE stamps[n]]
      /\ UNCHANGED <<active, closing, publication_mutex, coordinator_closing, guard,
                     next_generation, interrupted>>
  BY DEF CommitCatalog, registry, coordinator
<1>2. /\ OwnersExact' /\ catalog' \in Catalogs
      /\ catalog'.snapshot = With(catalog.snapshot, call[x].candidate)
  BY CommitOwners
<1>3. /\ call[x].candidate \in Generations /\ call[x].changed
      /\ active = call[x].base /\ active = catalog.snapshot /\ active # Closed
      /\ publication_mutex = x /\ guard = x
  BY <1>1, ReadingsAgree
<1>4. /\ pc \in [Connections -> PCs] /\ call \in [Connections -> Calls \cup {NoCall}]
  BY StatementTypes DEF IInv
<1>5. /\ pc'[x] = "committed"
      /\ \A y \in Connections : y # x => pc'[y] = pc[y]
      /\ pc' \in [Connections -> PCs]
  BY <1>1, <1>4 DEF PCs, Leasing
<1>6. /\ commits \in Nat
      /\ \A n \in Names \cup {Management} : stamps[n] \in Nat /\ stamps[n] <= commits
  BY CatalogFacts DEF IInv
<1>7. TypeOK'
  <2>1. commits' \in Nat /\ stamps' \in [Names \cup {Management} -> 0..commits']
    BY <1>1, <1>6
  <2>2. \A y \in Connections : pc'[y] = "idle" <=> call'[y] = NoCall
    BY <1>1, <1>5 DEF IInv, TypeOK
  <2>3. /\ active \in Snapshots \cup {Closed} /\ closing \in BOOLEAN
        /\ coordinator_closing \in BOOLEAN /\ next_generation \in 1..(MaxStatements + 1)
        /\ interrupted \in [Connections -> BOOLEAN]
        /\ publication_mutex \in Connections \cup {None} /\ guard \in Connections \cup {None}
    BY DEF IInv, TypeOK
  <2> QED
    BY <1>1, <1>2, <1>4, <1>5, <2>1, <2>2, <2>3 DEF TypeOK, PCs
<1>8. ASSUME NEW y \in Connections PROVE SeesUnlessStamped(y)'
  <2> SUFFICES ASSUME pc'[y] # "idle" PROVE SeesUnlessStamped(y)'
    BY DEF SeesUnlessStamped
  <2>1. pc[y] # "idle"
    BY <1>1, <1>5
  <2>2. /\ call[y].start \in Nat /\ call[y].start <= commits
        /\ \A n \in Names :
             stamps[n] <= call[y].start => catalog.owner[n] = call[y].view.owner[n]
    BY <2>1, CallFacts DEF IInv, StatementInv, SeesUnlessStamped
  <2>3. ~(stamps'[Management] <= call[y].start) /\ call[y].start <= commits'
    <3>1. stamps'[Management] = commits + 1
      BY <1>1 DEF Written
    <3> QED
      BY <1>1, <1>6, <2>2, <3>1
  <2>4. ASSUME NEW n \in Names, stamps'[n] <= call[y].start
        PROVE  catalog'.owner[n] = call[y].view.owner[n]
    <3>1. stamps'[n] = IF n \in Written(x) THEN commits + 1 ELSE stamps[n]
      BY <1>1
    <3>2. n \notin Written(x) /\ stamps'[n] = stamps[n]
      BY <1>6, <2>2, <2>4, <3>1
    <3>3. n \notin NamesOf(call[x].candidate) /\ n \notin NamesOf(Replaced(x))
      BY <3>2 DEF Written
    <3>4. catalog'.owner[n] = catalog.owner[n]
      BY <3>3 DEF CommitCatalog
    <3> QED
      BY <2>2, <2>4, <3>2, <3>4
  <2> QED
    BY <1>1, <2>2, <2>3, <2>4 DEF SeesUnlessStamped
<1>9. ASSUME NEW y \in Connections PROVE StatementInv(y)'
  <2>1. StatementInv(y) /\ call'[y] = call[y]
    BY <1>1 DEF IInv
  <2>2. CASE y = x
    <3>1. HasCandidate(y)' /\ AheadBy(y)' /\ PublicationValid(y)'
      BY <1>1, <1>2, <1>3, <1>5, <2>2 DEF HasCandidate, AheadBy, PublicationValid
    <3>2. LeaseHolds(y)'
      BY <1>1, <1>3, <1>5, <2>1, <2>2, SameCall DEF StatementInv, LeaseHolds, Leasing
    <3>3. LocksOf(y)'
      BY <1>1, <1>3, <1>5, <2>2 DEF LocksOf, Leasing, Guarding
    <3> QED
      BY <1>8, <3>1, <3>2, <3>3 DEF StatementInv
  <2>3. CASE y # x
    <3>1. pc'[y] = pc[y]
      BY <1>5, <2>3
    <3>2. pc[y] # "published" /\ pc[y] # "committed"
      BY <1>3, <2>1, <2>3 DEF StatementInv, LocksOf, Guarding
    <3>3. HasCandidate(y)' /\ AheadBy(y)' /\ PublicationValid(y)' /\ LocksOf(y)'
      BY <1>1, <2>1, <3>1, <3>2
      DEF StatementInv, HasCandidate, AheadBy, PublicationValid, LocksOf
    <3>4. LeaseHolds(y)'
      BY <1>1, <2>1, <3>1, SameCall DEF StatementInv, LeaseHolds
    <3> QED
      BY <1>8, <3>3, <3>4 DEF StatementInv
  <2> QED
    BY <2>2, <2>3
<1>10. ClosedLast' /\ Settled'
  BY <1>1, <1>5 DEF IInv, ClosedLast, Settled
<1> QED
  BY <1>2, <1>7, <1>9, <1>10 DEF IInv

\* The callback brings the registry up to the catalog.
LEMMA CommitLeaseStep ==
  ASSUME IInv, NEW x \in Connections, CommitLease(x)
  PROVE  IInv' /\ active' = catalog.snapshot
<1>1. /\ pc[x] = "committed" /\ active' = With(call[x].base, call[x].candidate)
      /\ publication_mutex' = None
      /\ pc' = [pc EXCEPT ![x] = "releasing"] /\ call' = call
      /\ UNCHANGED <<closing, coordinator_closing, guard, next_generation, interrupted>>
      /\ UNCHANGED database
  BY DEF CommitLease, coordinator
<1>2. active' = catalog.snapshot
  BY <1>1 DEF IInv, StatementInv, AheadBy
<1>3. publication_mutex = x /\ guard = x /\ call[x].changed
  BY <1>1 DEF IInv, StatementInv, HasCandidate, LocksOf, Leasing, Guarding
<1>4. /\ pc \in [Connections -> PCs] /\ call \in [Connections -> Calls \cup {NoCall}]
  BY StatementTypes DEF IInv
<1>5. /\ pc'[x] = "releasing"
      /\ \A y \in Connections : y # x => pc'[y] = pc[y]
      /\ pc' \in [Connections -> PCs]
  BY <1>1, <1>4 DEF PCs, Guarding
<1>6. TypeOK'
  <2>1. active' \in Snapshots
    BY <1>2, CatalogFacts DEF IInv
  <2>2. \A y \in Connections : pc'[y] = "idle" <=> call'[y] = NoCall
    BY <1>1, <1>5 DEF IInv, TypeOK
  <2> QED
    BY <1>1, <1>5, <2>1, <2>2 DEF IInv, TypeOK, PCs, database
<1>7. ASSUME NEW y \in Connections PROVE StatementInv(y)'
  <2>1. StatementInv(y) /\ call'[y] = call[y]
    BY <1>1 DEF IInv
  <2>2. SeesUnlessStamped(y)'
    BY <1>1, <1>5, <2>1 DEF StatementInv, SeesUnlessStamped, database
  <2>3. CASE y = x
    BY <1>1, <1>3, <1>5, <2>1, <2>2, <2>3, PublicationAssumption
    DEF StatementInv, HasCandidate, LeaseHolds, PublicationValid, AheadBy, LocksOf,
        Leasing, Guarding
  <2>4. CASE y # x
    <3>1. pc'[y] = pc[y]
      BY <1>5, <2>4
    <3>2. ~(pc[y] \in Leasing /\ call[y].changed)
      BY <1>3, <2>1, <2>4 DEF StatementInv, LocksOf
    <3>3. LeaseHolds(y)'
      BY <2>1, <3>1, <3>2 DEF LeaseHolds
    <3>4. HasCandidate(y)' /\ AheadBy(y)' /\ LocksOf(y)'
      BY <1>1, <1>3, <2>1, <2>4, <3>1, <3>2, PublicationAssumption
      DEF StatementInv, HasCandidate, AheadBy, LocksOf, database
    <3>5. PublicationValid(y)'
      BY <1>1, <2>1, <3>1, SameCall DEF StatementInv, PublicationValid, database
    <3> QED
      BY <2>2, <3>3, <3>4, <3>5 DEF StatementInv
  <2> QED
    BY <2>3, <2>4
<1>8. ClosedLast'
  <2>1. active' # Closed
    BY <1>2, CatalogFacts, PublicationAssumption DEF IInv
  <2> QED
    BY <2>1 DEF ClosedLast
<1>9. Settled' /\ OwnersExact'
  BY <1>1, <1>2 DEF IInv, Settled, OwnersExact, database
<1> QED
  BY <1>2, <1>6, <1>7, <1>8, <1>9 DEF IInv

-----------------------------------------------------------------------------
(* The theorems *)

\* The registry, the catalog and the connections as the extension is loaded.
LEMMA InitIInv == Init => IInv
<1> SUFFICES ASSUME Init PROVE IInv
  OBVIOUS
<1>1. catalog \in Catalogs /\ active \in Snapshots
  BY EmptySnapshotTyped DEF Init, Catalogs
<1>2. TypeOK
  <2>1. /\ stamps \in [Names \cup {Management} -> 0..commits] /\ commits \in Nat
        /\ next_generation \in 1..(MaxStatements + 1)
    BY PublicationAssumption DEF Init
  <2>2. /\ pc \in [Connections -> {"idle", "bound", "compiled", "based"}
                                   \cup Leasing \cup Guarding]
        /\ call \in [Connections -> Calls \cup {NoCall}]
        /\ interrupted \in [Connections -> BOOLEAN]
        /\ \A x \in Connections : pc[x] = "idle" <=> call[x] = NoCall
    BY DEF Init
  <2> QED
    BY <1>1, <2>1, <2>2 DEF Init, TypeOK
<1>3. ASSUME NEW x \in Connections PROVE StatementInv(x)
  BY PublicationAssumption
  DEF Init, StatementInv, SeesUnlessStamped, HasCandidate, LeaseHolds,
      PublicationValid, AheadBy, LocksOf, Leasing, Guarding
<1>4. ClosedLast /\ Settled
  BY EmptySnapshotTyped, PublicationAssumption DEF Init, ClosedLast, Settled
<1>5. OwnersExact
  BY DEF Init, OwnersExact, EmptySnapshot, NamesOf
<1> QED
  BY <1>2, <1>3, <1>4, <1>5 DEF IInv

\* Every step of a statement keeps the invariant.
LEMMA StepIInv == ASSUME IInv, NEW x \in Connections, Step(x) PROVE IInv'
<1>1. CASE \E p \in Packages : Compile(x, p)
  BY <1>1, CompileStep
<1>2. CASE CompileFails(x) \/ GiveUp(x) \/ StageRefused(x) \/ PublishUnchanged(x)
           \/ PublishRefused(x)
  <2>1. Fail(x) /\ pc[x] \in {"bound", "compiled", "based", "staged"}
    BY <1>2 DEF CompileFails, GiveUp, StageRefused, PublishUnchanged, PublishRefused,
                HasStageLock, HasGuard
  <2> QED
    BY <2>1, FailStep
<1> QED
  BY <1>1, <1>2, ReadBaseStep, StageChangedStep, StageUnchangedStep, PublishStep,
     CommitCatalogStep, CommitLeaseStep, RollbackStep, ReleaseGuardStep
  DEF Step

\* Both ways to bind.
LEMMA BindIInv ==
  ASSUME IInv, NEW x \in Connections,
         \/ \E r \in Roots : BindLoad(x, r)
         \/ \E c \in Connectors : BindReload(x, c)
  PROVE  IInv'
<1>1. CASE \E r \in Roots : BindLoad(x, r)
  <2>1. PICK r \in Roots : Bind(x, "LOAD", r, None)
    BY <1>1 DEF BindLoad
  <2>2. "LOAD" \in Intents /\ None \in Generations \cup {None}
    BY DEF Intents
  <2> QED
    BY <2>1, <2>2, BindStep
<1>2. CASE \E c \in Connectors : BindReload(x, c)
  <2>1. PICK c \in Connectors : BindReload(x, c)
    BY <1>2
  <2>2. PICK g \in Generations : g = catalog.snapshot[c]
    BY <2>1, CatalogFacts, SnapshotFacts DEF BindReload, IInv
  <2>3. Bind(x, "RELOAD", g.root, g) /\ g.root \in Roots /\ "RELOAD" \in Intents
    BY <2>1, <2>2, GenerationFacts DEF BindReload, Intents
  <2> QED
    BY <2>3, BindStep
<1> QED
  BY <1>1, <1>2

\* Every step keeps the invariant.
LEMMA NextIInv == ASSUME IInv, [Next]_vars PROVE IInv'
<1>1. CASE UNCHANGED vars
  <2>1. /\ UNCHANGED <<active, publication_mutex, guard, pc, call, next_generation>>
        /\ UNCHANGED database /\ closing' = closing /\ interrupted' = interrupted
        /\ coordinator_closing' = coordinator_closing
    BY <1>1 DEF vars, registry, coordinator, statement
  <2>2. /\ interrupted \in [Connections -> BOOLEAN] /\ closing \in BOOLEAN
        /\ coordinator_closing \in BOOLEAN
    BY DEF IInv, TypeOK
  <2> QED
    BY <2>1, <2>2, StandStill
<1>2. CASE Close
  BY <1>2, CloseSteps, DrainStep DEF Close
<1>3. CASE BeginClose
  BY <1>3, CloseSteps
<1>4. CASE \E n \in ForeignNames : RegisterForeign(n)
  BY <1>4, RegisterForeignStep
<1>5. CASE \E x \in Connections :
             \/ \E r \in Roots : BindLoad(x, r)
             \/ \E c \in Connectors : BindReload(x, c)
             \/ Step(x)
             \/ Interrupt(x)
  BY <1>5, BindIInv, StepIInv, InterruptStep
<1> QED
  BY <1>1, <1>2, <1>3, <1>4, <1>5 DEF Next

\* The invariant holds in every reachable state.
THEOREM Invariance == Spec => []IInv
BY InitIInv, NextIInv, PTL DEF Spec

\* Every variable keeps its type: the registry and the catalog hold only
\* generations filed under their own connector (PackageGenerationRegistry).
THEOREM TypeCorrect == Spec => []TypeOK
<1>1. IInv => TypeOK
  BY DEF IInv
<1> QED
  BY <1>1, Invariance, PTL

\* The registry and the committed catalog name the same generations except
\* between a commit and its callback, every generated function belongs to the
\* snapshot that the management functions carry, and the two locks are in the
\* hands of exactly the statement whose progress says so: the publication of
\* catalog_generation_coordinator.cpp, under any interleaving of statements.
THEOREM CatalogAlwaysAgrees == Spec => []CatalogAgrees
<1>1. IInv => CatalogAgrees
  <2> SUFFICES ASSUME IInv PROVE CatalogAgrees
    OBVIOUS
  <2>1. ASSUME active # Closed, active # catalog.snapshot
        PROVE  \E x \in Connections :
                 pc[x] = "committed" /\ catalog.snapshot = With(active, call[x].candidate)
    <3>1. PICK x \in Connections : pc[x] = "committed"
      BY <2>1 DEF IInv, Settled
    <3>2. active = call[x].base
      BY <3>1 DEF IInv, StatementInv, HasCandidate, LeaseHolds, Leasing
    <3> QED
      BY <3>1, <3>2 DEF IInv, StatementInv, AheadBy
  <2>2. \A n \in Names :
          /\ catalog.owner[n] \notin {None, Foreign} =>
               catalog.snapshot[catalog.owner[n].package.connector] = catalog.owner[n]
          /\ \A c \in Connectors :
               n \in NamesOf(catalog.snapshot[c]) => catalog.owner[n] = catalog.snapshot[c]
    BY DEF IInv, OwnersExact
  <2>3. \A x \in Connections :
          /\ publication_mutex = x <=> pc[x] \in Leasing /\ call[x].changed
          /\ guard = x <=> pc[x] \in Guarding
    BY DEF IInv, StatementInv, LocksOf
  <2> QED
    BY <2>1, <2>2, <2>3 DEF CatalogAgrees
<1> QED
  BY <1>1, Invariance, PTL

\* A reload that is let through goes forward: ClassifyPackageReload.
LEMMA ChangedSucceeds ==
  ASSUME NEW p \in Packages, NEW q \in Packages, Changed(ClassifyPackageReload(p, q))
  PROVE  Succeeds(q, p)
<1>1. /\ p.version[1] \in Nat /\ p.version[2] \in Nat /\ p.version[3] \in Nat
      /\ q.version[1] \in Nat /\ q.version[2] \in Nat /\ q.version[3] \in Nat
  BY PublicationAssumption
<1>2. \/ /\ Later(q.version, p.version) /\ q.version[1] = p.version[1]
         /\ SameDescriptor(p, q)
      \/ /\ q.version[1] = p.version[1] /\ q.version[2] > p.version[2]
         /\ IsAppendOnlyDescriptor(p, q)
  BY DEF Changed, ClassifyPackageReload
<1>3. CASE Later(q.version, p.version) /\ q.version[1] = p.version[1] /\ SameDescriptor(p, q)
  BY <1>3 DEF Succeeds, SameDescriptor
<1>4. CASE /\ q.version[1] = p.version[1] /\ q.version[2] > p.version[2]
           /\ IsAppendOnlyDescriptor(p, q)
  <2>1. Later(q.version, p.version)
    BY <1>1, <1>4 DEF Later
  <2>2. /\ DOMAIN p.relations = 1..Len(p.relations) /\ Len(p.relations) \in Nat
        /\ DOMAIN q.relations = 1..Len(q.relations) /\ Len(q.relations) \in Nat
    BY PublicationAssumption
  <2>3. ASSUME NEW i \in DOMAIN p.relations
        PROVE  i \in DOMAIN q.relations /\ q.relations[i] = p.relations[i]
    BY <1>4, <2>2 DEF IsAppendOnlyDescriptor
  <2> QED
    BY <1>4, <2>1, <2>3 DEF Succeeds
<1> QED
  BY <1>2, <1>3, <1>4

\* What a commit does to a connector's entry.
LEMMA CommitForward ==
  ASSUME IInv, NEW x \in Connections, CommitCatalog(x), NEW c \in Connectors,
         catalog.snapshot[c] # None, catalog'.snapshot[c] # catalog.snapshot[c]
  PROVE  /\ catalog'.snapshot[c] # None
         /\ Succeeds(catalog'.snapshot[c].package, catalog.snapshot[c].package)
<1>1. pc[x] = "published"
  BY DEF CommitCatalog
<1>2. /\ call[x].candidate \in Generations /\ call[x].changed
      /\ catalog.snapshot = call[x].view.snapshot
      /\ active = call[x].base /\ active = catalog.snapshot
  BY <1>1, ReadingsAgree
<1>3. catalog'.snapshot = With(catalog.snapshot, call[x].candidate)
  BY CommitOwners
<1>4. catalog.snapshot \in Snapshots
  BY CatalogFacts DEF IInv
<1>5. c = call[x].candidate.package.connector /\ catalog'.snapshot[c] = call[x].candidate
  BY <1>2, <1>3, <1>4, WithFacts
<1>6. call[x].intent = "RELOAD"
  <2>1. MayPublish(x) /\ call[x].intent \in Intents
    BY <1>1, CallFacts DEF IInv, StatementInv, PublicationValid
  <2>2. Replaced(x) # None
    BY <1>2, <1>5 DEF Replaced, Connector
  <2> QED
    BY <2>1, <2>2 DEF MayPublish, Intents
<1>7. catalog.snapshot[c] = call[x].current /\ Changed(Decision(x))
  BY <1>1, <1>2, <1>5, <1>6 DEF IInv, StatementInv, LeaseHolds, Leasing, Connector
<1>8. catalog.snapshot[c] \in Generations
  BY <1>4, SnapshotFacts
<1>9. /\ call[x].current.package \in Packages /\ call[x].candidate.package \in Packages
      /\ call[x].candidate # None
  BY <1>2, <1>7, <1>8, GenerationFacts
<1> QED
  BY <1>5, <1>7, <1>9, ChangedSucceeds DEF Decision

\* Every other step leaves the catalog's snapshot, and only the callback of a
\* commit and the close touch the registry's.
LEMMA OthersKeep ==
  ASSUME IInv, [Next]_vars, ~(\E x \in Connections : CommitCatalog(x) \/ CommitLease(x))
  PROVE  catalog'.snapshot = catalog.snapshot /\ (active' = active \/ active' = Closed)
<1>1. CASE UNCHANGED vars
  BY <1>1 DEF vars, registry, database
<1>2. CASE Close \/ BeginClose
  BY <1>2 DEF Close, BeginClose, CloseRegistry, Drain, database, registry
<1>3. CASE \E n \in ForeignNames : RegisterForeign(n)
  <2>1. PICK n \in ForeignNames : RegisterForeign(n)
    BY <1>3
  <2>2. catalog \in Catalogs /\ catalog' = [catalog EXCEPT !.owner[n] = Foreign]
        /\ active' = active
    BY <2>1 DEF IInv, TypeOK, RegisterForeign, registry
  <2> QED
    BY <2>2 DEF Catalogs
<1>4. ASSUME NEW x \in Connections,
             \/ \E r \in Roots : BindLoad(x, r)
             \/ \E c \in Connectors : BindReload(x, c)
             \/ Interrupt(x)
      PROVE  catalog'.snapshot = catalog.snapshot /\ active' = active
  BY <1>4 DEF BindLoad, BindReload, Bind, Interrupt, registry, database
<1>5. ASSUME NEW x \in Connections, Step(x)
      PROVE  catalog'.snapshot = catalog.snapshot /\ active' = active
  <2>1. CASE Fail(x)
    BY <2>1 DEF Fail, database
  <2>2. CASE (\E p \in Packages : Compile(x, p)) \/ ReadBase(x) \/ StageUnchanged(x)
    BY <2>2 DEF Compile, ReadBase, StageUnchanged, registry, database
  <2>3. CASE StageChanged(x) \/ Publish(x) \/ Rollback(x) \/ ReleaseGuard(x)
    BY <2>3 DEF StageChanged, Publish, Rollback, ReleaseGuard, registry, database
  <2> QED
    BY <1>5, <2>1, <2>2, <2>3
    DEF Step, CompileFails, GiveUp, StageRefused, PublishUnchanged, PublishRefused
<1> QED
  BY <1>1, <1>2, <1>3, <1>4, <1>5 DEF Next

\* No publication takes back another one, and the registry only ever follows
\* the catalog: whatever statements overlap, a connector's package is replaced
\* by a compatible later one or stays.
THEOREM NeverBackward == Spec => OnlyForward
<1> DEFINE Forward ==
      \A c \in Connectors :
        /\ catalog.snapshot[c] # None =>
             \/ catalog'.snapshot[c] = catalog.snapshot[c]
             \/ /\ catalog'.snapshot[c] # None
                /\ Succeeds(catalog'.snapshot[c].package, catalog.snapshot[c].package)
        /\ active' # active /\ active' # Closed => active' = catalog.snapshot
<1>1. ASSUME IInv, [Next]_vars PROVE Forward
  <2>1. ASSUME NEW x \in Connections, CommitCatalog(x) PROVE Forward
    <3>1. active' = active
      BY <2>1 DEF CommitCatalog, registry
    <3> QED
      BY <1>1, <2>1, <3>1, CommitForward
  <2>2. ASSUME NEW x \in Connections, CommitLease(x) PROVE Forward
    <3>1. active' = catalog.snapshot /\ catalog' = catalog
      BY <1>1, <2>2, CommitLeaseStep DEF CommitLease, database
    <3> QED
      BY <3>1
  <2>3. CASE ~(\E x \in Connections : CommitCatalog(x) \/ CommitLease(x))
    BY <1>1, <2>3, OthersKeep
  <2> QED
    BY <2>1, <2>2, <2>3
<1>2. ASSUME IInv, [Next]_vars PROVE [Forward]_vars
  BY <1>1, <1>2
<1> QED
  BY <1>2, Invariance, PTL DEF Spec, OnlyForward

\* A function that another extension registered is never dropped or replaced by
\* a publication: RequireVacant is checked against the transaction's view, and
\* the conflict on the entry covers what happened since.
THEOREM ForeignFunctionsStay ==
  Spec => [][\A n \in Names : catalog.owner[n] = Foreign => catalog'.owner[n] = Foreign]_vars
<1> DEFINE Stays == \A n \in Names : catalog.owner[n] = Foreign => catalog'.owner[n] = Foreign
<1>1. ASSUME IInv, NEW x \in Connections, CommitCatalog(x), NEW n \in Names,
             catalog.owner[n] = Foreign
      PROVE  catalog'.owner[n] = Foreign
  <2>1. pc[x] = "published" /\ StatementInv(x) /\ TypeOK
    BY <1>1 DEF CommitCatalog, IInv
  <2>2. catalog.snapshot = call[x].view.snapshot /\ call[x].changed
        /\ call[x].candidate \in Generations
    BY <1>1, <2>1, ReadingsAgree
  <2>3. n \notin NamesOf(Replaced(x))
    <3> SUFFICES ASSUME n \in NamesOf(Replaced(x)) PROVE FALSE
      OBVIOUS
    <3>1. PICK conn \in Connectors : Replaced(x) = catalog.snapshot[conn]
      BY <2>2, GenerationFacts DEF Replaced, Connector
    <3>2. catalog.owner[n] = catalog.snapshot[conn] /\ catalog.snapshot[conn] # None
      BY <1>1, <3>1 DEF IInv, OwnersExact, NamesOf
    <3>3. catalog.snapshot[conn] \in Generations
      BY <2>1, <3>2, CatalogFacts, SnapshotFacts
    <3> QED
      BY <1>1, <3>2, <3>3, GenerationFacts
  <2>4. n \notin NamesOf(call[x].candidate)
    <3> SUFFICES ASSUME n \in NamesOf(call[x].candidate) PROVE FALSE
      OBVIOUS
    <3>1. call[x].view.owner[n] = None
      BY <2>1, <2>2, <2>3 DEF StatementInv, PublicationValid, MayPublish
    <3>2. ~(stamps[n] > call[x].start)
      BY <2>1 DEF StatementInv, PublicationValid, Written
    <3>3. stamps[n] <= call[x].start
      BY <2>1, <3>2, CatalogFacts, CallFacts
    <3>4. catalog.owner[n] = None
      BY <2>1, <3>1, <3>3 DEF StatementInv, SeesUnlessStamped
    <3> QED
      BY <1>1, <3>4, PublicationAssumption
  <2> QED
    BY <1>1, <2>3, <2>4 DEF CommitCatalog
<1>2. ASSUME IInv, NEW m \in ForeignNames, RegisterForeign(m) PROVE Stays
  <2>1. /\ catalog' = [catalog EXCEPT !.owner[m] = Foreign]
        /\ catalog \in Catalogs
    BY <1>2 DEF RegisterForeign, IInv, TypeOK
  <2> QED
    BY <2>1 DEF Catalogs
<1>3. ASSUME IInv, [Next]_vars, ~(\E x \in Connections : CommitCatalog(x)),
             ~(\E n \in ForeignNames : RegisterForeign(n))
      PROVE  catalog' = catalog
  <2>1. CASE UNCHANGED vars \/ Close \/ BeginClose
    BY <2>1 DEF vars, Close, BeginClose, CloseRegistry, Drain, database
  <2>2. ASSUME NEW x \in Connections,
               \/ \E r \in Roots : BindLoad(x, r)
               \/ \E c \in Connectors : BindReload(x, c)
               \/ Interrupt(x)
        PROVE  catalog' = catalog
    BY <2>2 DEF BindLoad, BindReload, Bind, Interrupt, database
  <2>3. ASSUME NEW x \in Connections, Step(x) PROVE catalog' = catalog
    BY <1>3, <2>3
    DEF Step, CompileFails, GiveUp, StageRefused, PublishUnchanged, PublishRefused, Fail,
        Compile, ReadBase, StageUnchanged, StageChanged, Publish, Rollback, CommitLease,
        ReleaseGuard, database
  <2> QED
    BY <1>3, <2>1, <2>2, <2>3 DEF Next
<1>4. ASSUME IInv, [Next]_vars PROVE [Stays]_vars
  BY <1>1, <1>2, <1>3, <1>4
<1> QED
  BY <1>4, Invariance, PTL DEF Spec
=============================================================================

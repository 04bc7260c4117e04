------------------------ MODULE GenerationPublication ------------------------
(***************************************************************************)
(* Loading and reloading connector packages: the runtime's registry of     *)
(* generations (src/src/runtime/generation), the staging service over it   *)
(* (src/src/query/package_generation_composition.cpp) and the coordinator  *)
(* that publishes a generation's functions in a DuckDB transaction         *)
(* (src/src/query/duckdb/catalog_generation_coordinator.cpp).              *)
(*                                                                         *)
(* A connection runs one load or reload statement at a time, in autocommit *)
(* mode.  Two locks are involved: the registry's, which a staged lease     *)
(* keeps until the transaction ends, and the coordinator's guard.          *)
(*                                                                         *)
(* DuckDB's catalog is external: a transaction sees what was committed     *)
(* when it began, a write to an entry that changed since then fails, its   *)
(* writes become visible together, and the callbacks of the client context *)
(* run after that.  A compiled package is its identity and its relations.  *)
(***************************************************************************)
EXTENDS Naturals, Sequences

CONSTANTS
  Connections,
  Connectors,
  Roots,           \* package directories
  Contents,        \* Contents[r] : the packages directory r may hold
  SqlName,         \* SqlName[<<connector, relation>>] : GeneratedRelationName
  Names,           \* the SQL names
  ForeignNames,    \* the ones another extension may take
  Management,      \* the five management functions, always replaced together
  None,            \* no generation, no owner
  Foreign,         \* a function of somebody else
  Closed,          \* the registry's empty active pointer
  MaxStatements    \* bound: management statements ever run

Packages == UNION {Contents[r] : r \in Roots}

\* Every compilation makes a generation with a handle of its own.
Generations == [id : 1..MaxStatements, root : Roots, package : Packages]

Snapshots ==
  {s \in [Connectors -> Generations \cup {None}] :
     \A c \in Connectors : s[c] # None => s[c].package.connector = c}

EmptySnapshot == [c \in Connectors |-> None]

ASSUME PublicationAssumption ==
  /\ MaxStatements \in Nat
  /\ Contents \in [Roots -> SUBSET Packages]
  /\ \A p \in Packages :
       /\ p.connector \in Connectors
       /\ p.version \in Nat \X Nat \X Nat
       /\ p.relations \in Seq({p.relations[i] : i \in DOMAIN p.relations})
  /\ ForeignNames \subseteq Names
  /\ Management \notin Names
  /\ None \notin Generations \cup Connections \cup {Foreign}
  /\ Foreign \notin Generations
  /\ Closed \notin Snapshots

VARIABLES
  active,               \* the registry's active snapshot
  closing,              \* the registry's closing bit
  publication_mutex,    \* who holds the registry's lock
  coordinator_closing,  \* the coordinator's closing bit
  guard,                \* who holds the coordinator's lock
  catalog,              \* the committed catalog
  stamps,               \* when each entry was last committed
  commits,              \* the number of commits
  next_generation,
  pc,                   \* where a connection's statement is
  call,                 \* what the statement works on
  interrupted

registry == <<active, closing, publication_mutex>>
coordinator == <<coordinator_closing, guard>>
database == <<catalog, stamps, commits>>
statement == <<next_generation, pc, call, interrupted>>
vars == <<registry, coordinator, database, statement>>

Intents == {"LOAD", "RELOAD"}

\* snapshot: what the management functions carry; owner: whose the functions are.
Catalogs == [snapshot : Snapshots,
             owner : [Names -> Generations \cup {None, Foreign}]]

NoCall == [id |-> 0]

Calls == [id : 1..MaxStatements, intent : Intents, root : Roots,
          current : Generations \cup {None}, view : Catalogs, start : Nat,
          candidate : Generations \cup {None}, base : Snapshots, changed : BOOLEAN]

\* Where a changed statement owns the registry's lock, and where the guard.
Leasing == {"staged", "published", "conflicted", "committed"}
Guarding == {"published", "conflicted", "committed", "releasing"}

\* Besides the types: a lock belongs to exactly the statement whose progress
\* says so, so that every way a statement can end gives both locks back.
TypeOK ==
  /\ active \in Snapshots \cup {Closed}
  /\ closing \in BOOLEAN /\ coordinator_closing \in BOOLEAN
  /\ catalog \in Catalogs
  /\ commits \in Nat
  /\ stamps \in [Names \cup {Management} -> 0..commits]
  /\ next_generation \in 1..(MaxStatements + 1)
  /\ pc \in [Connections -> {"idle", "bound", "compiled", "based"} \cup Leasing \cup Guarding]
  /\ call \in [Connections -> Calls \cup {NoCall}]
  /\ interrupted \in [Connections -> BOOLEAN]
  /\ publication_mutex \in Connections \cup {None}
  /\ guard \in Connections \cup {None}
  /\ \A x \in Connections : pc[x] = "idle" <=> call[x] = NoCall

Init ==
  /\ active = EmptySnapshot
  /\ closing = FALSE
  /\ publication_mutex = None
  /\ coordinator_closing = FALSE
  /\ guard = None
  /\ catalog = [snapshot |-> EmptySnapshot, owner |-> [n \in Names |-> None]]
  /\ stamps = [n \in Names \cup {Management} |-> 0]
  /\ commits = 0
  /\ next_generation = 1
  /\ pc = [x \in Connections |-> "idle"]
  /\ call = [x \in Connections |-> NoCall]
  /\ interrupted = [x \in Connections |-> FALSE]

-----------------------------------------------------------------------------
(* Packages and their compatibility *)

\* PackageSemVer::Compare: v is later than w.
Later(v, w) ==
  \/ v[1] > w[1]
  \/ v[1] = w[1] /\ v[2] > w[2]
  \/ v[1] = w[1] /\ v[2] = w[2] /\ v[3] > w[3]

\* policy stands for the origin and the network policy, a relation for all it says.
SameDescriptor(p, q) == p.policy = q.policy /\ p.relations = q.relations

IsAppendOnlyDescriptor(p, q) ==
  /\ p.policy = q.policy
  /\ Len(q.relations) > Len(p.relations)
  /\ \A i \in DOMAIN p.relations : q.relations[i] = p.relations[i]

\* May a generation of q replace one of p?  Patch and minor provenance updates
\* are treated alike by every caller.
ClassifyPackageReload(p, q) ==
  CASE p.connector # q.connector -> "INCOMPATIBLE_RELOAD"
    [] p.connector = q.connector /\ p = q -> "EXACT_NO_OP"
    [] p.connector = q.connector /\ p # q /\ ~Later(q.version, p.version) ->
         "REJECTED_PACKAGE_IDENTITY"
    [] /\ p.connector = q.connector
       /\ Later(q.version, p.version)
       /\ q.version[1] = p.version[1]
       /\ SameDescriptor(p, q) -> "COMPATIBLE_PROVENANCE"
    [] /\ p.connector = q.connector
       /\ q.version[1] = p.version[1] /\ q.version[2] > p.version[2]
       /\ IsAppendOnlyDescriptor(p, q) -> "COMPATIBLE_APPEND_ONLY_MINOR"
    [] OTHER -> "INCOMPATIBLE_RELOAD"

Changed(classification) ==
  classification \in {"COMPATIBLE_PROVENANCE", "COMPATIBLE_APPEND_ONLY_MINOR"}

NamesOf(g) ==
  IF g = None THEN {}
  ELSE {SqlName[<<g.package.connector, g.package.relations[i]>>] :
          i \in DOMAIN g.package.relations}

With(s, g) == [s EXCEPT ![g.package.connector] = g]

-----------------------------------------------------------------------------
(* Binding and compiling *)

\* The statement ends here; unwinding discards a lease it may have.
Fail(x) ==
  /\ pc' = [pc EXCEPT ![x] = "idle"]
  /\ call' = [call EXCEPT ![x] = NoCall]
  /\ interrupted' = [interrupted EXCEPT ![x] = FALSE]
  /\ publication_mutex' = IF publication_mutex = x THEN None ELSE publication_mutex
  /\ UNCHANGED <<active, closing, coordinator, database, next_generation>>

\* The transaction begins, and the function it resolves to carries the snapshot.
Bind(x, intent, root, current) ==
  /\ pc[x] = "idle"
  /\ next_generation <= MaxStatements
  /\ pc' = [pc EXCEPT ![x] = "bound"]
  /\ call' = [call EXCEPT ![x] =
       [id |-> next_generation, intent |-> intent, root |-> root,
        current |-> current, view |-> catalog, start |-> commits,
        candidate |-> None, base |-> EmptySnapshot, changed |-> FALSE]]
  /\ next_generation' = next_generation + 1
  /\ UNCHANGED <<registry, coordinator, database, interrupted>>

BindLoad(x, r) == Bind(x, "LOAD", r, None)

BindReload(x, c) ==
  /\ catalog.snapshot[c] # None
  /\ Bind(x, "RELOAD", catalog.snapshot[c].root, catalog.snapshot[c])

\* A directory holds any of its packages at the moment it is read.
Compile(x, p) ==
  /\ pc[x] = "bound"
  /\ ~interrupted[x]
  /\ ~closing
  /\ p \in Contents[call[x].root]
  /\ pc' = [pc EXCEPT ![x] = "compiled"]
  /\ call' = [call EXCEPT ![x].candidate =
                [id |-> call[x].id, root |-> call[x].root, package |-> p]]
  /\ UNCHANGED <<registry, coordinator, database, next_generation, interrupted>>

\* The package is rejected, or the registry closing, or the query interrupted.
CompileFails(x) == pc[x] = "bound" /\ Fail(x)

-----------------------------------------------------------------------------
(* Staging *)

\* The base is read before the lock is asked for.
ReadBase(x) ==
  /\ pc[x] = "compiled"
  /\ ~closing
  /\ pc' = [pc EXCEPT ![x] = "based"]
  /\ call' = [call EXCEPT ![x].base = active]
  /\ UNCHANGED <<registry, coordinator, database, next_generation, interrupted>>

\* AcquireStage, before, during and after its wait; the staged generation is
\* dropped when the query was interrupted or the coordinator closes.
GiveUp(x) ==
  /\ \/ pc[x] = "compiled" /\ closing
     \/ pc[x] = "based" /\ (interrupted[x] \/ closing)
     \/ pc[x] = "staged" /\ (interrupted[x] \/ coordinator_closing)
  /\ Fail(x)

\* Variant: a base that was replaced meanwhile is good enough.
AnyBase(x) == TRUE

RequireCurrentBase(x) == active = call[x].base

Decision(x) ==
  ClassifyPackageReload(call[x].current.package, call[x].candidate.package)

\* What StageLoad and StageReload require of the base; a reload was judged
\* against the generation the statement was bound to.
MayStage(x) ==
  LET held == call[x].base[call[x].candidate.package.connector]
  IN  /\ RequireCurrentBase(x)
      /\ call[x].intent = "LOAD" => held = None
      /\ call[x].intent = "RELOAD" =>
           /\ held # None
           /\ held = call[x].current
           /\ Decision(x) = "EXACT_NO_OP" \/ Changed(Decision(x))

\* The lease is for a generation that is not the active one.
Replaces(x) == call[x].intent = "RELOAD" => Changed(Decision(x))

HasStageLock(x) ==
  /\ pc[x] = "based"
  /\ publication_mutex = None
  /\ ~interrupted[x]
  /\ ~closing

StageChanged(x) ==
  /\ HasStageLock(x)
  /\ MayStage(x)
  /\ Replaces(x)
  /\ publication_mutex' = x
  /\ pc' = [pc EXCEPT ![x] = "staged"]
  /\ call' = [call EXCEPT ![x].changed = TRUE]
  /\ UNCHANGED <<active, closing, coordinator, database, next_generation, interrupted>>

\* Nothing changed: the lock is not kept and the active generation is returned.
StageUnchanged(x) ==
  /\ HasStageLock(x)
  /\ MayStage(x)
  /\ ~Replaces(x)
  /\ pc' = [pc EXCEPT ![x] = "staged"]
  /\ call' = [call EXCEPT ![x].candidate = call[x].current]
  /\ UNCHANGED <<registry, coordinator, database, next_generation, interrupted>>

StageRefused(x) == HasStageLock(x) /\ ~MayStage(x) /\ Fail(x)

-----------------------------------------------------------------------------
(* Publishing *)

Connector(x) == call[x].candidate.package.connector

Replaced(x) == call[x].view.snapshot[Connector(x)]

Target(x) == With(call[x].view.snapshot, call[x].candidate)

\* Load and Reload of the catalog snapshot, RequireOwned for what the base
\* expects, RequireVacant for the names that are new.
MayPublish(x) ==
  LET view == call[x].view
      t == Target(x)
  IN  /\ call[x].intent = "LOAD" <=> Replaced(x) = None
      /\ \A c, d \in Connectors : c # d => NamesOf(t[c]) \cap NamesOf(t[d]) = {}
      /\ \A c \in Connectors : \A n \in NamesOf(view.snapshot[c]) :
           view.owner[n] = view.snapshot[c]
      /\ call[x].changed =>
           \A n \in NamesOf(call[x].candidate) \ NamesOf(Replaced(x)) :
             view.owner[n] = None

HasGuard(x) ==
  /\ pc[x] = "staged"
  /\ guard = None
  /\ ~interrupted[x]
  /\ ~coordinator_closing

\* Variant: the management functions are not written.
WrittenRelations(x) == NamesOf(Replaced(x)) \cup NamesOf(call[x].candidate)

\* The entries a publication drops and creates.
Written(x) ==
  NamesOf(Replaced(x)) \cup NamesOf(call[x].candidate) \cup {Management}

Conflicts(x) == \E n \in Written(x) : stamps[n] > call[x].start

\* The context now holds the guard and the lease until its transaction ends.
Publish(x) ==
  /\ HasGuard(x)
  /\ call[x].changed
  /\ MayPublish(x)
  /\ guard' = x
  /\ pc' = [pc EXCEPT ![x] = IF Conflicts(x) THEN "conflicted" ELSE "published"]
  /\ UNCHANGED <<registry, coordinator_closing, database, next_generation, call,
                 interrupted>>

PublishUnchanged(x) == HasGuard(x) /\ MayPublish(x) /\ ~call[x].changed /\ Fail(x)

\* A macro of the same name is among the reasons.
PublishRefused(x) == HasGuard(x) /\ Fail(x)

-----------------------------------------------------------------------------
(* The end of the transaction *)

\* DuckDB makes the writes visible; the callback has not run yet.
CommitCatalog(x) ==
  /\ pc[x] = "published"
  /\ pc' = [pc EXCEPT ![x] = "committed"]
  /\ commits' = commits + 1
  /\ stamps' = [n \in Names \cup {Management} |->
                  IF n \in Written(x) THEN commits + 1 ELSE stamps[n]]
  /\ catalog' = [snapshot |-> Target(x),
                 owner |-> [n \in Names |->
                              IF n \in NamesOf(call[x].candidate) THEN call[x].candidate
                              ELSE IF n \in NamesOf(Replaced(x)) THEN None
                              ELSE catalog.owner[n]]]
  /\ UNCHANGED <<registry, coordinator, next_generation, call, interrupted>>

\* TransactionCommit: the lease first, then the guard.
CommitLease(x) ==
  /\ pc[x] = "committed"
  /\ active' = With(call[x].base, call[x].candidate)
  /\ publication_mutex' = None
  /\ pc' = [pc EXCEPT ![x] = "releasing"]
  /\ UNCHANGED <<closing, coordinator, database, next_generation, call, interrupted>>

\* Variant: the lease is forgotten without being discarded.
RollbackKeepingLease(x) ==
  /\ pc[x] \in {"published", "conflicted"}
  /\ pc' = [pc EXCEPT ![x] = "releasing"]
  /\ UNCHANGED <<registry, coordinator, database, next_generation, call, interrupted>>

\* TransactionRollback, after an error, an interrupt or a commit that failed.
Rollback(x) ==
  /\ pc[x] \in {"published", "conflicted"}
  /\ publication_mutex' = None
  /\ pc' = [pc EXCEPT ![x] = "releasing"]
  /\ UNCHANGED <<active, closing, coordinator, database, next_generation, call,
                 interrupted>>

ReleaseGuard(x) ==
  /\ pc[x] = "releasing"
  /\ guard' = None
  /\ pc' = [pc EXCEPT ![x] = "idle"]
  /\ call' = [call EXCEPT ![x] = NoCall]
  /\ interrupted' = [interrupted EXCEPT ![x] = FALSE]
  /\ UNCHANGED <<registry, coordinator_closing, database, next_generation>>

-----------------------------------------------------------------------------
(* Closing, and the world around *)

BeginClose ==
  /\ ~coordinator_closing
  /\ coordinator_closing' = TRUE
  /\ UNCHANGED <<registry, guard, database, statement>>

CloseRegistry ==
  /\ coordinator_closing
  /\ ~closing
  /\ closing' = TRUE
  /\ UNCHANGED <<active, publication_mutex, coordinator, database, statement>>

\* The lock's owner is waited for.
Drain ==
  /\ closing
  /\ active # Closed
  /\ publication_mutex = None
  /\ active' = Closed
  /\ UNCHANGED <<closing, publication_mutex, coordinator, database, statement>>

\* An interrupt that comes later is not looked at any more.
Interrupt(x) ==
  /\ pc[x] \in {"bound", "compiled", "based", "staged"}
  /\ ~interrupted[x]
  /\ interrupted' = [interrupted EXCEPT ![x] = TRUE]
  /\ UNCHANGED <<registry, coordinator, database, next_generation, pc, call>>

\* Another extension registers a function of that name.
RegisterForeign(n) ==
  /\ catalog.owner[n] = None
  /\ \A x \in Connections : pc[x] = "published" => n \notin Written(x)
  /\ commits' = commits + 1
  /\ stamps' = [stamps EXCEPT ![n] = commits + 1]
  /\ catalog' = [catalog EXCEPT !.owner[n] = Foreign]
  /\ UNCHANGED <<registry, coordinator, statement>>

-----------------------------------------------------------------------------
Step(x) ==
  \/ \E p \in Packages : Compile(x, p)
  \/ CompileFails(x)
  \/ ReadBase(x)
  \/ GiveUp(x)
  \/ StageChanged(x)
  \/ StageUnchanged(x)
  \/ StageRefused(x)
  \/ Publish(x)
  \/ PublishUnchanged(x)
  \/ PublishRefused(x)
  \/ CommitCatalog(x)
  \/ CommitLease(x)
  \/ Rollback(x)
  \/ ReleaseGuard(x)

Close == CloseRegistry \/ Drain

Next ==
  \/ \E x \in Connections :
       \/ \E r \in Roots : BindLoad(x, r)
       \/ \E c \in Connectors : BindReload(x, c)
       \/ Step(x)
       \/ Interrupt(x)
  \/ BeginClose
  \/ Close
  \/ \E n \in ForeignNames : RegisterForeign(n)

Spec == Init /\ [][Next]_vars

\* A statement that can go on does (its locks are polled every ten
\* milliseconds), and its client lets the transaction end.  The thread that
\* closes the extension runs.
FairSpec ==
  /\ Spec
  /\ \A x \in Connections : WF_vars(Step(x))
  /\ WF_vars(Close)

-----------------------------------------------------------------------------
(* Properties *)

\* The registry and the committed catalog name the same generations, except
\* between a commit of the catalog and the callback that follows it, although a
\* statement reads the catalog, the directory and the registry at different
\* times; the generated functions are exactly those of the snapshot that the
\* management functions carry; and the two locks that keep it so are in the hands
\* of exactly the statement that is between its stage, or its guard, and the end
\* of its transaction.
CatalogAgrees ==
  /\ active # Closed =>
       \/ active = catalog.snapshot
       \/ \E x \in Connections :
            /\ pc[x] = "committed"
            /\ catalog.snapshot = With(active, call[x].candidate)
  /\ \A n \in Names :
       /\ catalog.owner[n] \notin {None, Foreign} =>
            catalog.snapshot[catalog.owner[n].package.connector] = catalog.owner[n]
       /\ \A c \in Connectors :
            n \in NamesOf(catalog.snapshot[c]) => catalog.owner[n] = catalog.snapshot[c]
  /\ \A x \in Connections :
       /\ publication_mutex = x <=> pc[x] \in Leasing /\ call[x].changed
       /\ guard = x <=> pc[x] \in Guarding

\* q may follow p: the same major version, later, and every relation of p where
\* it was.
Succeeds(q, p) ==
  /\ Later(q.version, p.version)
  /\ q.version[1] = p.version[1]
  /\ \A i \in DOMAIN p.relations :
       i \in DOMAIN q.relations /\ q.relations[i] = p.relations[i]

\* No publication takes back another one: a connector that was published stays
\* published, and its package is only ever replaced by a compatible later one,
\* in the catalog and, until it closes, in the registry.
OnlyForward ==
  [][\A c \in Connectors :
       /\ catalog.snapshot[c] # None =>
            \/ catalog'.snapshot[c] = catalog.snapshot[c]
            \/ /\ catalog'.snapshot[c] # None
               /\ Succeeds(catalog'.snapshot[c].package, catalog.snapshot[c].package)
       /\ active' # active /\ active' # Closed => active' = catalog.snapshot]_vars

\* Every statement ends and the close ends, whoever waits for whom.
StatementsEnd ==
  /\ \A x \in Connections : pc[x] # "idle" ~> pc[x] = "idle"
  /\ closing ~> active = Closed
=============================================================================

-------------------------- MODULE CredentialStorage --------------------------
(***************************************************************************)
(* Durable credentials (src/src/query/duckdb/credential_storage.cpp) and   *)
(* the provider that selects one for a scan (credential_provider_adapter). *)
(*                                                                         *)
(* Every DatabaseInstance keeps the index of the persistent credentials in *)
(* memory and a copy of it in a private directory, next to one file per    *)
(* credential.  A mutation is a program of file operations, run under the  *)
(* instance's mutex and the directory's flock.  Each of its operations may *)
(* fail, the process may die between any two of them, and the machine may  *)
(* lose the directory operations that no fsync has made durable.           *)
(*                                                                         *)
(* One fresh number stands for a record id and the revision created with   *)
(* it.  Names are normalised keys.  Payload bytes are left out: a record   *)
(* is the metadata DecodeRecord compares, and whether it is whole.         *)
(***************************************************************************)
EXTENDS Naturals, FiniteSets, Sequences

CONSTANTS
  Insts,            \* DatabaseInstances configured with the same directory
  PersistentOff,    \* those whose persistent secrets are disabled
  Names,            \* normalised secret names
  TemporaryNames,   \* bound: names used for temporary secrets too
  Providers,        \* bound: instances whose scans resolve credentials
  Ids,              \* bound: identities in use at one time
  NoId,             \* no identity: an empty record id
  Garbage,          \* bytes that are no identity
  MaxLiveRecords    \* MAX_LIVE_RECORDS

NoEntry == [id |-> NoId, authority |-> NoId]

\* "" stands for no name (Idle, NoLook), as an empty normalised name is refused.
ASSUME StorageAssumption ==
  /\ NoId \notin Ids
  /\ Garbage \notin Ids \cup {NoId}
  /\ TemporaryNames \subseteq Names
  /\ "" \notin Names

VARIABLES
  disk,      \* the directory: [entries, cleanup, records]
  unsynced,  \* the directories a power loss may still fall back to
  live,      \* per instance: [active, opened, entries, cleanup]
  op,        \* per instance: the mutation that holds the mutex, or Idle
  temporary, \* per instance: names with a secret in DuckDB's memory storage
  mark,      \* per instance: memory_may_contain_duckdb_api
  creating,  \* per instance: the temporary secret being created, or none
  look,      \* per instance: the provider's resolution in progress
  promise    \* ghost, per name: what callers were told the entry may be

vars == <<disk, unsynced, live, op, temporary, mark, creating, look, promise>>

Idle      == [todo |-> <<>>, settle |-> 0, name |-> "", found |-> NoEntry,
              next |-> NoEntry]
NoEntries == [n \in Names |-> NoEntry]
Fresh     == [active |-> TRUE, opened |-> FALSE,
              entries |-> NoEntries, cleanup |-> NoId]
NoLook    == [name |-> "", seen |-> FALSE, present |-> FALSE]

Images         == {disk} \cup unsynced
RecordIds(es)  == {es[n].id : n \in Names} \ {NoId}
Whole(e)       == [id |-> e.id, authority |-> e.authority, whole |-> TRUE]
Partial(id)    == [id |-> id, authority |-> NoId, whole |-> FALSE]
Present(id)    == \E r \in disk.records : r.id = id

Referenced ==
  LET entriesOf(d) == {d.entries[n] : n \in Names}
      metas == UNION ({entriesOf(d) : d \in Images}
                      \cup {entriesOf(live[i]) : i \in Insts}
                      \cup {promise[n] : n \in Names}
                      \cup {{op[i].found, op[i].next} : i \in Insts})
  IN {m.id : m \in metas} \cup {m.authority : m \in metas}
     \cup UNION {{r.id : r \in d.records} \cup {d.cleanup} : d \in Images}
     \cup {live[i].cleanup : i \in Insts}

\* arc4random identities never repeat: one that nothing refers to any more.
Unused == Ids \ Referenced

-----------------------------------------------------------------------------
(* The file operations a mutation is made of.                              *)

Encodable(es, c) ==
  /\ Cardinality({n \in Names : es[n] # NoEntry}) <= MaxLiveRecords
  /\ c # Garbage
  /\ c \notin RecordIds(es)

\* PublishIndex without the synchronisation that makes the rename durable.
PublishIndexUnsynced(es, c) ==
  IF Encodable(es, c)
  THEN <<[do |-> "rename", entries |-> es, cleanup |-> c]>>
  ELSE <<[do |-> "throw"]>>

PublishIndex(es, c) ==
  IF Encodable(es, c)
  THEN <<[do |-> "rename", entries |-> es, cleanup |-> c], [do |-> "sync"]>>
  ELSE <<[do |-> "throw"]>>

RemoveRecordIfPresent(id) ==
  IF Present(id) THEN <<[do |-> "unlink", id |-> id], [do |-> "sync"]>>
                 ELSE <<>>

CleanPriorIntent(i) ==
  IF live[i].cleanup = NoId THEN <<>>
  ELSE RemoveRecordIfPresent(live[i].cleanup)
       \o PublishIndex(live[i].entries, NoId)

SettleCommittedCleanup(es, c) ==
  IF c = NoId THEN <<>>
  ELSE RemoveRecordIfPresent(c) \o PublishIndex(es, NoId)

WriteRecord(e) ==
  <<[do |-> "create", id |-> e.id], [do |-> "write", record |-> Whole(e)],
    [do |-> "sync"]>>

(* StorePersistent and DropPersistent keep an iterator into the index      *)
(* across CleanPriorIntent.  Publishing an index replaces the map the      *)
(* iterator points into, so after a publication the entry is read from     *)
(* freed memory: the identities may still be there, the record id's buffer *)
(* may hold the id just generated, or either may be other bytes (Garbage,  *)
(* taken to be neither empty nor zero).                                    *)
AuthorityRead(i, e) ==
  {e.authority} \cup (IF live[i].cleanup = NoId THEN {} ELSE {Garbage})

RecordIdRead(i, e, new) ==
  {e.id} \cup (IF live[i].cleanup = NoId THEN {} ELSE {new, Garbage} \ {NoId})

-----------------------------------------------------------------------------
(* Opening the directory.                                                  *)

\* Opening that takes whatever is on disk without the exclusive flock.
EnsureOpenUnlocked(i) ==
  /\ live[i].active /\ i \notin PersistentOff
  /\ live' = IF live[i].opened THEN live
             ELSE [live EXCEPT ![i].opened = TRUE,
                               ![i].entries = disk.entries,
                               ![i].cleanup = disk.cleanup]

EnsureOpen(i) ==
  /\ live[i].active /\ i \notin PersistentOff
  /\ \/ live[i].opened /\ UNCHANGED live
     \/ /\ ~live[i].opened
        /\ \A j \in Insts : ~live[j].opened          \* flock LOCK_NB
        /\ live' = [live EXCEPT ![i].opened = TRUE,
                                ![i].entries = disk.entries,
                                ![i].cleanup = disk.cleanup]

\* Listing and lookups by name open the directory and read the index.
AllPersistent(i) ==
  /\ op[i] = Idle
  /\ EnsureOpen(i)
  /\ UNCHANGED <<disk, unsynced, op, temporary, mark, creating, look, promise>>

-----------------------------------------------------------------------------
(* Mutations: the caller's statement, then its program one step at a time. *)

Begin(i, n, found, next, program, settle) ==
  op' = [op EXCEPT ![i] = [todo |-> program \o settle, settle |-> Len(settle),
                           name |-> n, found |-> found, next |-> next]]

\* The program of a store that commits the index before the record exists.
StoreProgramIndexFirst(i, n, e, superseded) ==
  LET es == live[i].entries
      committed == [es EXCEPT ![n] = e]
  IN CleanPriorIntent(i)
     \o PublishIndex(es, e.id)
     \o PublishIndex(committed, superseded)
     \o WriteRecord(e)

StoreProgram(i, n, e, superseded) ==
  LET es == live[i].entries
      committed == [es EXCEPT ![n] = e]
  IN CleanPriorIntent(i)
     \o PublishIndex(es, e.id)
     \o WriteRecord(e)
     \o PublishIndex(committed, superseded)

\* CREATE [OR REPLACE] PERSISTENT SECRET once the directory is open.  Every
\* other way out (a conflict, ALTER, a full index) returns or throws
\* without touching anything.
StorePersistent(i, n, orReplace) ==
  LET found == live[i].entries[n]
  IN /\ op[i] = Idle /\ live[i].opened
     /\ found # NoEntry => orReplace
     /\ found = NoEntry => Cardinality(RecordIds(live[i].entries)) < MaxLiveRecords
     /\ \E new \in Unused :
        \E authority \in IF found = NoEntry THEN {new} ELSE AuthorityRead(i, found) :
        \E superseded \in IF found = NoEntry THEN {NoId}
                          ELSE RecordIdRead(i, found, new) :
          LET e == [id |-> new, authority |-> authority]
          IN Begin(i, n, found, e, StoreProgram(i, n, e, superseded),
                   SettleCommittedCleanup([live[i].entries EXCEPT ![n] = e],
                                          superseded))
     /\ UNCHANGED <<disk, unsynced, live, temporary, mark, creating, look, promise>>

\* DROP PERSISTENT SECRET of a name the index holds.
DropPersistent(i, n) ==
  LET found == live[i].entries[n]
      next  == [live[i].entries EXCEPT ![n] = NoEntry]
  IN /\ op[i] = Idle /\ live[i].opened /\ found # NoEntry
     /\ \E removed \in RecordIdRead(i, found, NoId) :
          Begin(i, n, found, NoEntry,
                CleanPriorIntent(i) \o PublishIndex(next, removed),
                SettleCommittedCleanup(next, removed))
     /\ UNCHANGED <<disk, unsynced, live, temporary, mark, creating, look, promise>>

Apply(d, s) ==
  CASE s.do = "unlink" -> [d EXCEPT !.records = {r \in @ : r.id # s.id}]
    [] s.do = "create" -> [d EXCEPT !.records = @ \cup {Partial(s.id)}]
    [] s.do = "write"  -> [d EXCEPT !.records =
                             {r \in @ : r.id # s.record.id} \cup {s.record}]
    [] s.do = "rename" -> [d EXCEPT !.entries = s.entries, !.cleanup = s.cleanup]

Ended(i) == op' = [op EXCEPT ![i] = Idle]

\* The step at the head of the program succeeds; the last one returns
\* success to the caller.
Step(i) ==
  /\ op[i] # Idle /\ Head(op[i].todo).do # "throw"
  /\ LET s == Head(op[i].todo)
     IN /\ disk' = IF s.do = "sync" THEN disk ELSE Apply(disk, s)
        /\ unsynced' = IF s.do = "sync" THEN {} ELSE unsynced \cup {disk}
        /\ live' = IF s.do # "rename" THEN live
                   ELSE [live EXCEPT ![i].entries = s.entries,
                                     ![i].cleanup = s.cleanup]
  /\ IF Len(op[i].todo) = 1
     THEN /\ Ended(i)
          /\ promise' = [promise EXCEPT ![op[i].name] = {op[i].next}]
     ELSE /\ op' = [op EXCEPT ![i].todo = Tail(@)]
          /\ UNCHANGED promise
  /\ UNCHANGED <<temporary, mark, creating, look>>

\* A file operation fails, or EncodeIndex rejects the index.  The caller
\* sees the error, unless only the settlement of a committed mutation was
\* left; whatever the live index shows by then is what the name may be.
Raise(i) ==
  /\ promise' = [promise EXCEPT ![op[i].name] =
                   IF Len(op[i].todo) <= op[i].settle THEN {op[i].next}
                   ELSE @ \cup {live[i].entries[op[i].name]}]
  /\ Ended(i)
  /\ UNCHANGED <<disk, unsynced, live, temporary, mark, creating, look>>

StepFails(i) == op[i] # Idle /\ Head(op[i].todo).do # "throw" /\ Raise(i)
Throws(i)    == op[i] # Idle /\ Head(op[i].todo).do = "throw" /\ Raise(i)

-----------------------------------------------------------------------------
(* Temporary secrets and the provider.                                     *)

\* CREATE TEMPORARY SECRET that reaches DuckDB's storage unmarked.
CreateTemporaryUnmarked(i, n) ==
  /\ i \in Providers /\ live[i].active /\ creating[i] = ""
  /\ creating' = [creating EXCEPT ![i] = n]
  /\ UNCHANGED <<disk, unsynced, live, op, temporary, mark, look, promise>>

\* CreateCredentialSecret sets the mark, then DuckDB stores the secret.
CreateTemporary(i, n) ==
  /\ i \in Providers /\ live[i].active /\ creating[i] = ""
  /\ mark' = [mark EXCEPT ![i] = TRUE]
  /\ creating' = [creating EXCEPT ![i] = n]
  /\ UNCHANGED <<disk, unsynced, live, op, temporary, look, promise>>

StoreTemporary(i) ==
  /\ creating[i] # ""
  /\ temporary' = [temporary EXCEPT ![i] = @ \cup {creating[i]}]
  /\ creating' = [creating EXCEPT ![i] = ""]
  /\ UNCHANGED <<disk, unsynced, live, op, mark, look, promise>>

DropTemporary(i, n) ==
  /\ n \in temporary[i]
  /\ temporary' = [temporary EXCEPT ![i] = @ \ {n}]
  /\ UNCHANGED <<disk, unsynced, live, op, mark, creating, look, promise>>

\* Resolve, first half: DuckDB's memory storage is consulted only when the
\* mark says a duckdb_api secret may be there.
ResolveMemory(i, n) ==
  /\ i \in Providers /\ live[i].active /\ look[i] = NoLook
  /\ look' = [look EXCEPT ![i] =
                [name |-> n, seen |-> mark[i] /\ n \in temporary[i],
                 present |-> n \in temporary[i]]]
  /\ UNCHANGED <<disk, unsynced, live, op, temporary, mark, creating, promise>>

\* Resolve, second half: SelectPersistentCredential under the mutex, from
\* the index es; the outcome is the credential the scan gets, or why none.
Outcome(i, es) ==
  LET e == es[look[i].name]
  IN IF look[i].seen
     THEN IF e # NoEntry THEN "ambiguous" ELSE "memory"
     ELSE CASE e = NoEntry                                -> "missing"
            [] e # NoEntry /\ Whole(e) \notin disk.records -> "unreadable"
            [] e # NoEntry /\ Whole(e) \in disk.records    -> "persistent"

ResolvePersistent(i) ==
  /\ look[i] # NoLook /\ op[i] = Idle
  /\ IF i \in PersistentOff THEN UNCHANGED live ELSE EnsureOpen(i)
  /\ look' = [look EXCEPT ![i] = NoLook]
  /\ UNCHANGED <<disk, unsynced, op, temporary, mark, creating, promise>>

\* The storage is unavailable (flock held elsewhere, a file error) or the
\* scan is cancelled: no credential.
ResolveFails(i) ==
  /\ look[i] # NoLook
  /\ look' = [look EXCEPT ![i] = NoLook]
  /\ UNCHANGED <<disk, unsynced, live, op, temporary, mark, creating, promise>>

-----------------------------------------------------------------------------
(* Shutdown, restart, and the two kinds of crash.                          *)

Forget(is) ==
  /\ op' = [i \in Insts |-> IF i \in is THEN Idle ELSE op[i]]
  /\ temporary' = [i \in Insts |-> IF i \in is THEN {} ELSE temporary[i]]
  /\ mark' = [i \in Insts |-> i \notin is /\ mark[i]]
  /\ creating' = [i \in Insts |-> IF i \in is THEN "" ELSE creating[i]]
  /\ look' = [i \in Insts |-> IF i \in is THEN NoLook ELSE look[i]]

Shutdown(i) ==
  /\ op[i] = Idle /\ live[i].active
  /\ live' = [live EXCEPT ![i] = [Fresh EXCEPT !.active = FALSE]]
  /\ Forget({i})
  /\ UNCHANGED <<disk, unsynced, promise>>

Restart(i) ==
  /\ ~live[i].active
  /\ live' = [live EXCEPT ![i] = Fresh]
  /\ UNCHANGED <<disk, unsynced, op, temporary, mark, creating, look, promise>>

\* The process dies inside a mutation: the kernel keeps the directory.
ProcessDies(i) ==
  /\ op[i] # Idle
  /\ live' = [live EXCEPT ![i] = Fresh]
  /\ promise' = [promise EXCEPT ![op[i].name] = @ \cup {disk.entries[op[i].name]}]
  /\ Forget({i})
  /\ UNCHANGED <<disk, unsynced>>

\* The machine dies: the directory falls back to some state since the last
\* synchronisation (directory operations reach the disk in order).
PowerLoss ==
  /\ unsynced # {}
  /\ disk' \in Images
  /\ unsynced' = {}
  /\ live' = [i \in Insts |-> Fresh]
  /\ promise' = [n \in Names |-> {disk'.entries[n]}]
  /\ Forget(Insts)

-----------------------------------------------------------------------------
Init ==
  /\ disk = [entries |-> NoEntries, cleanup |-> NoId, records |-> {}]
  /\ unsynced = {}
  /\ live = [i \in Insts |-> Fresh]
  /\ op = [i \in Insts |-> Idle]
  /\ temporary = [i \in Insts |-> {}]
  /\ mark = [i \in Insts |-> FALSE]
  /\ creating = [i \in Insts |-> ""]
  /\ look = [i \in Insts |-> NoLook]
  /\ promise = [n \in Names |-> {NoEntry}]

Next ==
  \/ PowerLoss
  \/ \E i \in Insts :
       \/ AllPersistent(i) \/ Step(i) \/ StepFails(i) \/ Throws(i)
       \/ \E n \in Names : \/ DropPersistent(i, n)
                           \/ \E b \in BOOLEAN : StorePersistent(i, n, b)
       \/ \E n \in TemporaryNames : \/ CreateTemporary(i, n)
                                    \/ DropTemporary(i, n)
                                    \/ ResolveMemory(i, n)
       \/ StoreTemporary(i) \/ ResolvePersistent(i) \/ ResolveFails(i)
       \/ Shutdown(i) \/ Restart(i) \/ ProcessDies(i)

Spec == Init /\ [][Next]_vars

-----------------------------------------------------------------------------
(* Every directory a crash can leave behind is whole: an indexed           *)
(* credential has its complete, matching record, and a record the index    *)
(* does not name is the one its cleanup intent names, so that a later      *)
(* mutation removes it.  (RFC 0023: "index selection never points to a     *)
(* partial record and later successful mutation cleans orphans".)          *)
EveryImageWhole ==
  \A d \in Images :
    /\ \A n \in Names : d.entries[n] # NoEntry => Whole(d.entries[n]) \in d.records
    /\ \A r \in d.records : r.id \in RecordIds(d.entries) \cup {d.cleanup}

(* What a caller was told survives: after a mutation returned success      *)
(* every directory a crash can leave has exactly its result, and after one *)
(* that failed the name is bound as before or as the live index showed.    *)
AcknowledgedSurvives ==
  \A d \in Images : \A n \in Names :
    d.entries[n] \in promise[n] \cup {op[i].next : i \in {j \in Insts :
                                        op[j] # Idle /\ op[j].name = n}}

(* An instance that has the directory open selects from exactly the index  *)
(* on disk, whatever failed after the rename ("this live instance and a    *)
(* restart cannot disagree after a post-rename failure").                  *)
LiveAgreesWithDisk ==
  \A i \in Insts : live[i].opened =>
    live[i].entries = disk.entries /\ live[i].cleanup = disk.cleanup

(* A resolution returns the persistent credential only if no temporary     *)
(* secret of that name was stored when it looked, and a committed          *)
(* credential is never found unreadable.                                   *)
ResolvedUnambiguously ==
  [][\A i \in Insts : ResolvePersistent(i) =>
       /\ Outcome(i, live'[i].entries) # "unreadable"
       /\ Outcome(i, live'[i].entries) \in {"persistent", "missing"}
            => ~look[i].present]_vars

(* A replacement that meets no file error installs the new revision under  *)
(* the retained authority (RFC 0023:174 "`CREATE OR REPLACE` in the same   *)
(* storage retains the existing opaque authority identity and installs a   *)
(* new provider revision").                                                *)
ReplacementInstalls ==
  [][\A i \in Insts :
       /\ op[i] # Idle /\ op[i].found # NoEntry /\ op[i].next # NoEntry
       /\ Step(i) \/ Throws(i)
       /\ op'[i] = Idle
       => live'[i].entries[op[i].name] =
            [id |-> op[i].next.id, authority |-> op[i].found.authority]]_vars
=============================================================================

----------------------- MODULE CredentialStorageProofs -----------------------
(***************************************************************************)
(* Proofs about durable credentials, for any number of instances, names    *)
(* and identities, with a failure or a crash between any two file          *)
(* operations.                                                             *)
(*                                                                         *)
(* A mutation is a program of file operations, so the invariant says of    *)
(* what is left of the program how it goes on from the directory as it is: *)
(* every possible rest is described by one operator below, from the last   *)
(* synchronisation back to the clean-up of an earlier intent.  Executing   *)
(* the first operation of a rest leads to the rest that follows it, and    *)
(* that is all a step has to show.                                         *)
(***************************************************************************)
EXTENDS CredentialStorage, SequenceTheorems, TLAPS

-----------------------------------------------------------------------------
(* Types *)

AnyId == Ids \cup {NoId, Garbage}

Entries == [id : AnyId, authority : AnyId]

Indexes == [Names -> Entries]

Records == [id : AnyId, authority : AnyId, whole : BOOLEAN]

Directories == [entries : Indexes, cleanup : AnyId, records : SUBSET Records]

Operations ==
  [do : {"rename"}, entries : Indexes, cleanup : AnyId]
    \cup [do : {"unlink", "create"}, id : AnyId]
    \cup [do : {"write"}, record : Records]
    \cup [do : {"sync", "throw"}]

Mutations == [todo : Seq(Operations), settle : Nat, name : Names, found : Entries,
              next : Entries]

StorageTypes ==
  /\ disk \in Directories
  /\ unsynced \subseteq Directories
  /\ live \in [Insts -> [active : BOOLEAN, opened : BOOLEAN, entries : Indexes,
                         cleanup : AnyId]]
  /\ op \in [Insts -> Mutations \cup {Idle}]
  /\ promise \in [Names -> SUBSET Entries]

SecretTypes ==
  /\ temporary \in [Insts -> SUBSET TemporaryNames]
  /\ mark \in [Insts -> BOOLEAN]
  /\ creating \in [Insts -> TemporaryNames \cup {""}]
  /\ look \in [Insts -> [name : TemporaryNames \cup {""}, seen : BOOLEAN,
                         present : BOOLEAN]]

TypeOK == StorageTypes /\ SecretTypes

-----------------------------------------------------------------------------
(* What may be left of a program *)

\* What a mutation has settled before its first operation.
Plan(o) == [name |-> o.name, found |-> o.found, next |-> o.next, settle |-> o.settle]

Committed(p, es) == [es EXCEPT ![p.name] = p.next]

Rename(es, c) == [do |-> "rename", entries |-> es, cleanup |-> c]

Sync == [do |-> "sync"]

First(s, t) == t # <<>> /\ Head(t) = s

\* EncodeIndex will reject the index.
Doomed(t) == t # <<>> /\ Head(t).do = "throw"

LastSync(t) == First(Sync, t) /\ Tail(t) = <<>>

LastReset(es, t) ==
  \/ Doomed(t)
  \/ First(Rename(es, NoId), t) /\ Encodable(es, NoId) /\ LastSync(Tail(t))

SettleSync(es, t) == First(Sync, t) /\ LastReset(es, Tail(t))

Settling(es, c, t) ==
  IF c = NoId THEN t = <<>>
  ELSE First([do |-> "unlink", id |-> c], t) /\ SettleSync(es, Tail(t))

CommitSync(p, es, t) ==
  /\ First(Sync, t)
  /\ Len(Tail(t)) = p.settle
  /\ Settling(es, p.found.id, Tail(t))

Committing(p, es, t) ==
  /\ Len(t) > p.settle
  /\ \/ Doomed(t)
     \/ /\ First(Rename(Committed(p, es), p.found.id), t)
        /\ Encodable(Committed(p, es), p.found.id)
        /\ CommitSync(p, Committed(p, es), Tail(t))

WriteSync(p, es, t) ==
  Len(t) > p.settle /\ First(Sync, t) /\ Committing(p, es, Tail(t))

Writing(p, es, t) ==
  /\ Len(t) > p.settle
  /\ First([do |-> "write", record |-> Whole(p.next)], t)
  /\ WriteSync(p, es, Tail(t))

Creating(p, es, t) ==
  /\ Len(t) > p.settle
  /\ First([do |-> "create", id |-> p.next.id], t)
  /\ Writing(p, es, Tail(t))

IntentSync(p, es, t) ==
  Len(t) > p.settle /\ First(Sync, t) /\ Creating(p, es, Tail(t))

Intending(p, es, t) ==
  /\ Len(t) > p.settle
  /\ \/ Doomed(t)
     \/ /\ First(Rename(es, p.next.id), t)
        /\ Encodable(es, p.next.id)
        /\ IntentSync(p, es, Tail(t))

\* A drop commits at once; a store first makes its record.
Ready(p, es, t) ==
  IF p.next = NoEntry THEN Committing(p, es, t) ELSE Intending(p, es, t)

ResetSync(p, es, t) ==
  Len(t) > p.settle /\ First(Sync, t) /\ Ready(p, es, Tail(t))

Resetting(p, es, t) ==
  /\ Len(t) > p.settle
  /\ \/ Doomed(t)
     \/ /\ First(Rename(es, NoId), t)
        /\ Encodable(es, NoId)
        /\ ResetSync(p, es, Tail(t))

CleanSync(p, es, t) ==
  Len(t) > p.settle /\ First(Sync, t) /\ Resetting(p, es, Tail(t))

Cleaning(p, es, c, t) ==
  /\ Len(t) > p.settle
  /\ First([do |-> "unlink", id |-> c], t)
  /\ CleanSync(p, es, Tail(t))

-----------------------------------------------------------------------------
(* The inductive invariant *)

\* The record of the clean-up intent is removed.
Gone(d) == \A r \in d.records : r.id # d.cleanup

\* Where a mutation that has not published its result may be.
Before(p, d, t) ==
  \/ d.cleanup # NoId /\ Cleaning(p, d.entries, d.cleanup, t)
  \/ Gone(d) /\ CleanSync(p, d.entries, t)
  \/ Gone(d) /\ Resetting(p, d.entries, t)
  \/ d.cleanup = NoId /\ ResetSync(p, d.entries, t)
  \/ d.cleanup = NoId /\ Ready(p, d.entries, t)
  \/ /\ p.next # NoEntry
     /\ d.cleanup = p.next.id
     /\ \/ IntentSync(p, d.entries, t)
        \/ Creating(p, d.entries, t)
        \/ Writing(p, d.entries, t)
        \/ Whole(p.next) \in d.records /\ WriteSync(p, d.entries, t)
        \/ Whole(p.next) \in d.records /\ Committing(p, d.entries, t)

\* Where one that only settles may be.
After(d, t) ==
  \/ d.cleanup # NoId /\ Settling(d.entries, d.cleanup, t)
  \/ Gone(d) /\ SettleSync(d.entries, t)
  \/ Gone(d) /\ LastReset(d.entries, t)
  \/ LastSync(t)

Uncommitted(p, t) ==
  /\ Len(t) > p.settle
  /\ disk.entries[p.name] = p.found
  /\ p.next # NoEntry => p.next.id \in Ids /\ p.next.id \notin RecordIds(disk.entries)
  /\ \A d \in Images : d.entries[p.name] \in promise[p.name]
  /\ Before(p, disk, t)

Synchronising(p, t) ==
  /\ Len(t) > p.settle
  /\ disk.entries[p.name] = p.next
  /\ disk.cleanup = p.found.id
  /\ CommitSync(p, disk.entries, t)

Settlement(p, t) ==
  /\ Len(t) <= p.settle
  /\ \A d \in Images : d.entries[p.name] = p.next
  /\ After(disk, t)

Progress(i) ==
  op[i] # Idle =>
    /\ live[i].opened
    /\ \/ Uncommitted(Plan(op[i]), op[i].todo)
       \/ Synchronising(Plan(op[i]), op[i].todo)
       \/ Settlement(Plan(op[i]), op[i].todo)

\* A directory a crash may leave.
WholeImage(d) ==
  /\ \A n \in Names : d.entries[n] # NoEntry =>
       d.entries[n].id \in Ids /\ Whole(d.entries[n]) \in d.records
  /\ \A r \in d.records : r.id # NoId /\ r.id \in RecordIds(d.entries) \cup {d.cleanup}
  /\ d.cleanup \notin RecordIds(d.entries)

\* AcknowledgedSurvives, with the mutation that explains an entry named.
Explained(d, n) ==
  \/ d.entries[n] \in promise[n]
  \/ \E i \in Insts : op[i] # Idle /\ op[i].name = n /\ op[i].next = d.entries[n]

\* The flock admits one instance; the others have read nothing.
OneOpener ==
  /\ \A i, j \in Insts : live[i].opened /\ live[j].opened => i = j
  /\ \A i \in Insts : live[i].opened => live[i].active /\ i \notin PersistentOff
  /\ \A i \in Insts : ~live[i].opened => live[i].entries = NoEntries

\* A temporary secret is in DuckDB's storage only after the mark was set.
Marked ==
  \A i \in Insts :
    /\ temporary[i] # {} \/ creating[i] # "" => mark[i]
    /\ look[i].present => look[i].seen
    /\ look[i] # NoLook => look[i].name \in Names

StorageInv ==
  /\ StorageTypes
  /\ \A d \in Images : WholeImage(d)
  /\ OneOpener
  /\ LiveAgreesWithDisk
  /\ \A d \in Images : \A n \in Names : Explained(d, n)
  /\ \A i \in Insts : Progress(i)

IInv == StorageInv /\ SecretTypes /\ Marked

-----------------------------------------------------------------------------
(* Sequences *)

(* A program that starts with an operation: its head, its tail, its length. *)
LEMMA Prepended ==
  ASSUME NEW S, NEW a \in S, NEW v \in Seq(S)
  PROVE  /\ <<a>> \o v \in Seq(S)
         /\ <<a>> \o v # <<>>
         /\ Head(<<a>> \o v) = a
         /\ Tail(<<a>> \o v) = v
         /\ Len(<<a>> \o v) = 1 + Len(v)
<1>1. <<a>> \in Seq(S) /\ Len(<<a>>) = 1 /\ <<a>>[1] = a
  OBVIOUS
<1>2. /\ <<a>> \o v \in Seq(S)
      /\ Len(<<a>> \o v) = 1 + Len(v)
  BY <1>1
<1>3. /\ \A k \in 1 .. Len(v) : (<<a>> \o v)[k + 1] = v[k]
      /\ (<<a>> \o v)[1] = a
  BY <1>1
<1>4. <<a>> \o v # <<>>
  BY <1>2
<1>5. Head(<<a>> \o v) = a
  BY <1>2, <1>3, <1>4
<1>6. Tail(<<a>> \o v) = v
  <2>1. /\ Tail(<<a>> \o v) \in Seq(S)
        /\ Len(Tail(<<a>> \o v)) = Len(v)
        /\ \A k \in 1 .. Len(v) : Tail(<<a>> \o v)[k] = (<<a>> \o v)[k + 1]
    BY <1>2, <1>4, HeadTailProperties
  <2>2. \A k \in 1 .. Len(v) : Tail(<<a>> \o v)[k] = v[k]
    BY <2>1, <1>3
  <2>. QED  BY <2>1, <2>2, SeqEqual
<1>. QED  BY <1>2, <1>4, <1>5, <1>6

(* Two operations in front of a program. *)
LEMMA PrependedTwo ==
  ASSUME NEW S, NEW a \in S, NEW b \in S, NEW v \in Seq(S)
  PROVE  <<a, b>> \o v = <<a>> \o (<<b>> \o v)
<1>1. <<a>> \in Seq(S) /\ <<b>> \in Seq(S)
  OBVIOUS
<1>2. <<a, b>> = <<a>> \o <<b>>
  <2>1. /\ <<a, b>> \in Seq(S) /\ <<a>> \o <<b>> \in Seq(S)
        /\ Len(<<a, b>>) = 2 /\ Len(<<a>> \o <<b>>) = 2
    BY <1>1
  <2>2. \A k \in 1 .. 2 : <<a, b>>[k] = (<<a>> \o <<b>>)[k]
    BY <1>1
  <2>. QED  BY <2>1, <2>2, SeqEqual
<1>. QED  BY <1>1, <1>2, ConcatAssociative

-----------------------------------------------------------------------------
(* One file operation *)

Result(d, s) == IF s.do = "sync" THEN d ELSE Apply(d, s)

(* The operations by kind, and their fields. *)
LEMMA OperationKinds ==
  ASSUME NEW s \in Operations
  PROVE  /\ s.do = "rename" => s.entries \in Indexes /\ s.cleanup \in AnyId
         /\ s.do \in {"unlink", "create"} => s.id \in AnyId
         /\ s.do = "write" => s.record \in Records
         /\ s.do \in {"rename", "unlink", "create", "write", "sync", "throw"}
<1>1. CASE s \in [do : {"rename"}, entries : Indexes, cleanup : AnyId]
  BY <1>1
<1>2. CASE s \in [do : {"unlink", "create"}, id : AnyId]
  BY <1>2
<1>3. CASE s \in [do : {"write"}, record : Records]
  BY <1>3
<1>4. CASE s \in [do : {"sync", "throw"}]
  BY <1>4
<1>. QED  BY <1>1, <1>2, <1>3, <1>4 DEF Operations

(* What each operation leaves in the directory. *)
LEMMA Results ==
  ASSUME NEW d \in Directories, NEW s \in Operations, s.do # "throw"
  PROVE  /\ Result(d, s) \in Directories
         /\ s.do = "rename" => /\ Result(d, s).entries = s.entries
                               /\ Result(d, s).cleanup = s.cleanup
                               /\ Result(d, s).records = d.records
         /\ s.do # "rename" => /\ Result(d, s).entries = d.entries
                               /\ Result(d, s).cleanup = d.cleanup
         /\ s.do = "unlink" => Result(d, s).records = {r \in d.records : r.id # s.id}
         /\ s.do = "create" => Result(d, s).records = d.records \cup {Partial(s.id)}
         /\ s.do = "write" =>
              Result(d, s).records = {r \in d.records : r.id # s.record.id} \cup {s.record}
         /\ s.do = "sync" => Result(d, s) = d
<1>. USE DEF Result, Apply, Directories
<1>1. CASE s.do = "rename"
  BY <1>1, OperationKinds
<1>2. CASE s.do = "unlink"
  <2>1. {r \in d.records : r.id # s.id} \in SUBSET Records
    OBVIOUS
  <2>. QED  BY <1>2, <2>1
<1>3. CASE s.do = "create"
  <2>1. Partial(s.id) \in Records
    BY <1>3, OperationKinds DEF Partial, Records, AnyId
  <2>2. d.records \cup {Partial(s.id)} \in SUBSET Records
    BY <2>1
  <2>. QED  BY <1>3, <2>2
<1>4. CASE s.do = "write"
  <2>1. s.record \in Records
    BY <1>4, OperationKinds
  <2>2. {r \in d.records : r.id # s.record.id} \cup {s.record} \in SUBSET Records
    BY <2>1
  <2>. QED  BY <1>4, <2>2
<1>5. CASE s.do = "sync"
  BY <1>5
<1>. QED  BY <1>1, <1>2, <1>3, <1>4, <1>5, OperationKinds

-----------------------------------------------------------------------------
(* Each operation leaves a whole directory, where the program performs it *)

(* Removing the record the clean-up intent names. *)
LEMMA UnlinkKeepsWhole ==
  ASSUME NEW d \in Directories, NEW s \in Operations, WholeImage(d),
         s.do = "unlink", s.id = d.cleanup
  PROVE  WholeImage(Result(d, s)) /\ Gone(Result(d, s))
<1>1. PICK e \in Directories : e = Result(d, s)
  BY Results
<1>2. /\ e.entries = d.entries /\ e.cleanup = d.cleanup
      /\ e.records = {r \in d.records : r.id # d.cleanup}
  BY <1>1, Results
<1>3. ASSUME NEW n \in Names, d.entries[n] # NoEntry
      PROVE  d.entries[n].id \in Ids /\ Whole(d.entries[n]) \in e.records
  <2>1. /\ d.entries[n].id \in Ids /\ Whole(d.entries[n]) \in d.records
        /\ d.cleanup \notin RecordIds(d.entries)
    BY <1>3 DEF WholeImage
  <2>2. d.entries[n].id \in RecordIds(d.entries)
    BY <2>1, StorageAssumption DEF RecordIds
  <2>3. Whole(d.entries[n]).id = d.entries[n].id
    BY DEF Whole
  <2>. QED  BY <1>2, <2>1, <2>2, <2>3
<1>4. WholeImage(e)
  BY <1>2, <1>3 DEF WholeImage
<1>. QED  BY <1>1, <1>2, <1>4 DEF Gone

(* Recording that the intent is settled, or a new intent, when no record
   of the old intent is left. *)
LEMMA IntentKeepsWhole ==
  ASSUME NEW d \in Directories, NEW s \in Operations, WholeImage(d),
         s.do = "rename", s.entries = d.entries, Gone(d) \/ d.cleanup = NoId,
         s.cleanup \notin RecordIds(d.entries)
  PROVE  WholeImage(Result(d, s))
<1>1. PICK e \in Directories : e = Result(d, s)
  BY Results
<1>2. e.entries = d.entries /\ e.cleanup = s.cleanup /\ e.records = d.records
  BY <1>1, Results
<1>3. \A r \in d.records : r.id # NoId /\ r.id \in RecordIds(d.entries)
  BY DEF WholeImage, Gone
<1>4. WholeImage(e)
  BY <1>2, <1>3 DEF WholeImage
<1>. QED  BY <1>1, <1>4

(* Creating the record file of the intent. *)
LEMMA CreateKeepsWhole ==
  ASSUME NEW d \in Directories, NEW s \in Operations, WholeImage(d),
         s.do = "create", s.id = d.cleanup, s.id # NoId
  PROVE  WholeImage(Result(d, s))
<1>1. PICK e \in Directories : e = Result(d, s)
  BY Results
<1>2. /\ e.entries = d.entries /\ e.cleanup = d.cleanup
      /\ e.records = d.records \cup {Partial(d.cleanup)}
  BY <1>1, Results
<1>3. Partial(d.cleanup).id = d.cleanup
  BY DEF Partial
<1>4. WholeImage(e)
  BY <1>2, <1>3 DEF WholeImage
<1>. QED  BY <1>1, <1>4

(* Writing the record of the intent. *)
LEMMA WriteKeepsWhole ==
  ASSUME NEW d \in Directories, NEW s \in Operations, WholeImage(d),
         s.do = "write", s.record.id = d.cleanup, s.record.id # NoId
  PROVE  WholeImage(Result(d, s)) /\ s.record \in Result(d, s).records
<1>1. PICK e \in Directories : e = Result(d, s)
  BY Results
<1>2. /\ e.entries = d.entries /\ e.cleanup = d.cleanup
      /\ e.records = {r \in d.records : r.id # d.cleanup} \cup {s.record}
  BY <1>1, Results
<1>3. ASSUME NEW n \in Names, d.entries[n] # NoEntry
      PROVE  d.entries[n].id \in Ids /\ Whole(d.entries[n]) \in e.records
  <2>1. /\ d.entries[n].id \in Ids /\ Whole(d.entries[n]) \in d.records
        /\ d.cleanup \notin RecordIds(d.entries)
    BY <1>3 DEF WholeImage
  <2>2. d.entries[n].id \in RecordIds(d.entries)
    BY <2>1, StorageAssumption DEF RecordIds
  <2>3. Whole(d.entries[n]).id = d.entries[n].id
    BY DEF Whole
  <2>. QED  BY <1>2, <2>1, <2>2, <2>3
<1>4. WholeImage(e)
  BY <1>2, <1>3 DEF WholeImage
<1>. QED  BY <1>1, <1>2, <1>4

Plans == [name : Names, found : Entries, next : Entries, settle : Nat]

(* The published index, name by name. *)
LEMMA CommittedIndex ==
  ASSUME NEW p \in Plans, NEW es \in Indexes
  PROVE  /\ Committed(p, es) \in Indexes
         /\ Committed(p, es)[p.name] = p.next
         /\ \A n \in Names : n # p.name => Committed(p, es)[n] = es[n]
BY DEF Committed, Plans, Indexes

(* Publishing the result of the mutation: the new record is in place, and
   the record it supersedes becomes the intent. *)
LEMMA CommitKeepsWhole ==
  ASSUME NEW d \in Directories, NEW s \in Operations, WholeImage(d), NEW p \in Plans,
         s = Rename(Committed(p, d.entries), p.found.id),
         Encodable(Committed(p, d.entries), p.found.id),
         d.entries[p.name] = p.found,
         d.cleanup = p.next.id,
         p.next # NoEntry => p.next.id \in Ids /\ Whole(p.next) \in d.records
  PROVE  WholeImage(Result(d, s))
<1>1. PICK e \in Directories : e = Result(d, s)
  BY Results DEF Rename
<1>2. PICK es \in Indexes : es = Committed(p, d.entries)
  BY CommittedIndex DEF Directories
<1>3. e.entries = es /\ e.cleanup = p.found.id /\ e.records = d.records
  BY <1>1, <1>2, Results DEF Rename
<1>4. es[p.name] = p.next /\ \A n \in Names : n # p.name => es[n] = d.entries[n]
  BY <1>2, CommittedIndex DEF Directories
<1>5. \A n \in Names : es[n] # NoEntry => es[n].id \in Ids /\ Whole(es[n]) \in d.records
  BY <1>4 DEF WholeImage
<1>6. p.found.id \notin RecordIds(es)
  BY <1>2 DEF Encodable
<1>7. ASSUME NEW r \in d.records
      PROVE  r.id # NoId /\ r.id \in RecordIds(es) \cup {p.found.id}
  <2>1. r.id # NoId /\ r.id \in RecordIds(d.entries) \cup {p.next.id}
    BY DEF WholeImage
  <2>2. CASE r.id = p.next.id
    BY <2>1, <2>2, <1>4 DEF RecordIds, Plans
  <2>3. CASE r.id \in RecordIds(d.entries)
    BY <2>1, <2>3, <1>4 DEF RecordIds
  <2>. QED  BY <2>1, <2>2, <2>3
<1>8. WholeImage(e)
  BY <1>3, <1>5, <1>6, <1>7 DEF WholeImage
<1>. QED  BY <1>1, <1>8

-----------------------------------------------------------------------------
(* One step of a program *)

\* The mutation is still unpublished.
Continues(p, d, e, u) ==
  Len(u) > p.settle /\ e.entries = d.entries /\ Before(p, e, u)

\* The step was the publication.
Commits(p, d, e, u) ==
  /\ Len(u) > p.settle
  /\ e.entries = Committed(p, d.entries)
  /\ e.cleanup = p.found.id
  /\ CommitSync(p, e.entries, u)

(* A program with a head has a tail, one shorter. *)
LEMMA HeadAndTail ==
  ASSUME NEW t \in Seq(Operations), t # <<>>
  PROVE  /\ Head(t) \in Operations /\ Tail(t) \in Seq(Operations)
         /\ Len(Tail(t)) = Len(t) - 1 /\ Len(t) \in Nat /\ Len(t) > 0
BY HeadTailProperties

(* The publication of the result, from a directory that is ready for it. *)
LEMMA StepCommitting ==
  ASSUME NEW p \in Plans, NEW d \in Directories, NEW t \in Seq(Operations),
         WholeImage(d), d.entries[p.name] = p.found,
         d.cleanup = p.next.id,
         p.next # NoEntry => p.next.id \in Ids /\ Whole(p.next) \in d.records,
         Committing(p, d.entries, t), t # <<>>, Head(t).do # "throw"
  PROVE  /\ WholeImage(Result(d, Head(t)))
         /\ Commits(p, d, Result(d, Head(t)), Tail(t))
<1>1. /\ Head(t) = Rename(Committed(p, d.entries), p.found.id)
      /\ Encodable(Committed(p, d.entries), p.found.id)
      /\ CommitSync(p, Committed(p, d.entries), Tail(t))
  BY DEF Committing, Doomed, First
<1>2. Head(t) \in Operations /\ Tail(t) \in Seq(Operations)
  BY HeadAndTail
<1>3. WholeImage(Result(d, Head(t)))
  BY <1>1, <1>2, CommitKeepsWhole
<1>4. /\ Head(t).do = "rename" /\ Head(t).entries = Committed(p, d.entries)
      /\ Head(t).cleanup = p.found.id
  BY <1>1 DEF Rename
<1>5. /\ Result(d, Head(t)).entries = Committed(p, d.entries)
      /\ Result(d, Head(t)).cleanup = p.found.id
  BY <1>2, <1>4, Results
<1>6. Len(Tail(t)) > p.settle
  <2>1. Tail(t) # <<>> /\ Len(Tail(Tail(t))) = p.settle
    BY <1>1 DEF CommitSync, First
  <2>2. Len(Tail(Tail(t))) = Len(Tail(t)) - 1 /\ Len(Tail(t)) \in Nat
    BY <2>1, <1>2, HeadAndTail
  <2>. QED  BY <2>1, <2>2
<1>. QED  BY <1>1, <1>3, <1>5, <1>6 DEF Commits

(* One step of a mutation that has not published its result: the directory
   stays whole, and the rest of the program goes on from it. *)
LEMMA StepBefore ==
  ASSUME NEW p \in Plans, NEW d \in Directories, NEW t \in Seq(Operations),
         WholeImage(d), d.entries[p.name] = p.found,
         p.next # NoEntry => p.next.id \in Ids /\ p.next.id \notin RecordIds(d.entries),
         Before(p, d, t), t # <<>>, Head(t).do # "throw"
  PROVE  /\ WholeImage(Result(d, Head(t)))
         /\ \/ Continues(p, d, Result(d, Head(t)), Tail(t))
            \/ Commits(p, d, Result(d, Head(t)), Tail(t))
<1>1. PICK s \in Operations : s = Head(t)
  BY HeadAndTail
<1>2. PICK u \in Seq(Operations) : u = Tail(t)
  BY HeadAndTail
<1>3. PICK e \in Directories : e = Result(d, s)
  BY <1>1, Results
<1>4. SUFFICES WholeImage(e) /\ (Continues(p, d, e, u) \/ Commits(p, d, e, u))
  BY <1>1, <1>2, <1>3
<1>5. CASE d.cleanup # NoId /\ Cleaning(p, d.entries, d.cleanup, t)
  <2>1. s = [do |-> "unlink", id |-> d.cleanup] /\ CleanSync(p, d.entries, u)
    BY <1>1, <1>2, <1>5 DEF Cleaning, First
  <2>2. s.do = "unlink" /\ s.id = d.cleanup
    BY <2>1
  <2>3. WholeImage(e) /\ Gone(e)
    BY <1>3, <2>2, UnlinkKeepsWhole
  <2>4. e.entries = d.entries
    BY <1>3, <2>2, Results
  <2>5. Before(p, e, u)
    BY <2>1, <2>3, <2>4 DEF Before
  <2>. QED  BY <2>1, <2>3, <2>4, <2>5 DEF Continues, CleanSync
<1>6. CASE Gone(d) /\ CleanSync(p, d.entries, t)
  <2>1. s = Sync /\ Resetting(p, d.entries, u)
    BY <1>1, <1>2, <1>6 DEF CleanSync, First
  <2>2. e = d
    BY <1>3, <2>1, Results DEF Sync
  <2>3. Before(p, d, u)
    BY <2>1, <1>6 DEF Before
  <2>. QED  BY <2>1, <2>2, <2>3 DEF Continues, Resetting
<1>7. CASE Gone(d) /\ Resetting(p, d.entries, t)
  <2>1. s = Rename(d.entries, NoId) /\ ResetSync(p, d.entries, u)
    BY <1>1, <1>2, <1>7 DEF Resetting, First, Doomed
  <2>2. s.do = "rename" /\ s.entries = d.entries /\ s.cleanup = NoId
    BY <2>1 DEF Rename
  <2>3. NoId \notin RecordIds(d.entries)
    BY DEF RecordIds
  <2>4. WholeImage(e)
    BY <1>3, <1>7, <2>2, <2>3, IntentKeepsWhole
  <2>5. e.entries = d.entries /\ e.cleanup = NoId
    BY <1>3, <2>2, Results
  <2>6. Before(p, e, u)
    BY <2>1, <2>5 DEF Before
  <2>. QED  BY <2>1, <2>4, <2>5, <2>6 DEF Continues, ResetSync
<1>8. CASE d.cleanup = NoId /\ ResetSync(p, d.entries, t)
  <2>1. s = Sync /\ Ready(p, d.entries, u)
    BY <1>1, <1>2, <1>8 DEF ResetSync, First
  <2>2. e = d
    BY <1>3, <2>1, Results DEF Sync
  <2>3. Before(p, d, u)
    BY <2>1, <1>8 DEF Before
  <2>4. Len(u) > p.settle
    BY <2>1 DEF Ready, Committing, Intending
  <2>. QED  BY <2>2, <2>3, <2>4 DEF Continues
<1>9. CASE d.cleanup = NoId /\ Ready(p, d.entries, t) /\ p.next = NoEntry
  <2>1. Committing(p, d.entries, t) /\ d.cleanup = p.next.id
    BY <1>9 DEF Ready, NoEntry
  <2>. QED  BY <1>1, <1>2, <1>3, <1>9, <2>1, StepCommitting
<1>10. CASE d.cleanup = NoId /\ Ready(p, d.entries, t) /\ p.next # NoEntry
  <2>1. s = Rename(d.entries, p.next.id) /\ IntentSync(p, d.entries, u)
    BY <1>1, <1>2, <1>10 DEF Ready, Intending, First, Doomed
  <2>2. s.do = "rename" /\ s.entries = d.entries /\ s.cleanup = p.next.id
    BY <2>1 DEF Rename
  <2>3. WholeImage(e)
    BY <1>3, <1>10, <2>2, IntentKeepsWhole
  <2>4. e.entries = d.entries /\ e.cleanup = p.next.id
    BY <1>3, <2>2, Results
  <2>5. Before(p, e, u)
    BY <2>1, <2>4, <1>10 DEF Before
  <2>. QED  BY <2>1, <2>3, <2>4, <2>5 DEF Continues, IntentSync
<1>11. ASSUME p.next # NoEntry, d.cleanup = p.next.id, IntentSync(p, d.entries, t)
       PROVE  WholeImage(e) /\ Continues(p, d, e, u)
  <2>1. s = Sync /\ Creating(p, d.entries, u)
    BY <1>1, <1>2, <1>11 DEF IntentSync, First
  <2>2. e = d
    BY <1>3, <2>1, Results DEF Sync
  <2>3. Before(p, d, u)
    BY <2>1, <1>11 DEF Before
  <2>. QED  BY <2>1, <2>2, <2>3 DEF Continues, Creating
<1>12. ASSUME p.next # NoEntry, d.cleanup = p.next.id, Creating(p, d.entries, t)
       PROVE  WholeImage(e) /\ Continues(p, d, e, u)
  <2>1. s = [do |-> "create", id |-> p.next.id] /\ Writing(p, d.entries, u)
    BY <1>1, <1>2, <1>12 DEF Creating, First
  <2>2. s.do = "create" /\ s.id = d.cleanup /\ s.id # NoId
    BY <2>1, <1>12, StorageAssumption
  <2>3. WholeImage(e)
    BY <1>3, <2>2, CreateKeepsWhole
  <2>4. e.entries = d.entries /\ e.cleanup = p.next.id
    BY <1>3, <1>12, <2>2, Results
  <2>5. Before(p, e, u)
    BY <2>1, <2>4, <1>12 DEF Before
  <2>. QED  BY <2>1, <2>3, <2>4, <2>5 DEF Continues, Writing
<1>13. ASSUME p.next # NoEntry, d.cleanup = p.next.id, Writing(p, d.entries, t)
       PROVE  WholeImage(e) /\ Continues(p, d, e, u)
  <2>1. s = [do |-> "write", record |-> Whole(p.next)] /\ WriteSync(p, d.entries, u)
    BY <1>1, <1>2, <1>13 DEF Writing, First
  <2>2. s.do = "write" /\ s.record = Whole(p.next)
    BY <2>1
  <2>3. s.record.id = d.cleanup /\ s.record.id # NoId
    <3>1. Whole(p.next).id = p.next.id
      BY DEF Whole
    <3>. QED  BY <2>2, <3>1, <1>13, StorageAssumption
  <2>4. WholeImage(e) /\ Whole(p.next) \in e.records
    BY <1>3, <2>2, <2>3, WriteKeepsWhole
  <2>5. e.entries = d.entries /\ e.cleanup = p.next.id
    BY <1>3, <1>13, <2>2, Results
  <2>6. Before(p, e, u)
    BY <2>1, <2>4, <2>5, <1>13 DEF Before
  <2>. QED  BY <2>1, <2>4, <2>5, <2>6 DEF Continues, WriteSync
<1>14. ASSUME p.next # NoEntry, d.cleanup = p.next.id, Whole(p.next) \in d.records,
              WriteSync(p, d.entries, t)
       PROVE  WholeImage(e) /\ Continues(p, d, e, u)
  <2>1. s = Sync /\ Committing(p, d.entries, u)
    BY <1>1, <1>2, <1>14 DEF WriteSync, First
  <2>2. e = d
    BY <1>3, <2>1, Results DEF Sync
  <2>3. Before(p, d, u)
    BY <2>1, <1>14 DEF Before
  <2>. QED  BY <2>1, <2>2, <2>3 DEF Continues, Committing
<1>15. ASSUME p.next # NoEntry, d.cleanup = p.next.id, Whole(p.next) \in d.records,
              Committing(p, d.entries, t)
       PROVE  WholeImage(e) /\ Commits(p, d, e, u)
  BY <1>1, <1>2, <1>3, <1>15, StepCommitting
<1>. QED  BY <1>5, <1>6, <1>7, <1>8, <1>9, <1>10, <1>11, <1>12, <1>13, <1>14, <1>15
          DEF Before

(* One step of a settlement: the index stays as it was published, until
   nothing is left to do. *)
LEMMA StepAfter ==
  ASSUME NEW d \in Directories, NEW t \in Seq(Operations), WholeImage(d),
         After(d, t), t # <<>>, Head(t).do # "throw"
  PROVE  /\ WholeImage(Result(d, Head(t)))
         /\ Result(d, Head(t)).entries = d.entries
         /\ Tail(t) = <<>> \/ After(Result(d, Head(t)), Tail(t))
<1>1. PICK s \in Operations : s = Head(t)
  BY HeadAndTail
<1>2. PICK u \in Seq(Operations) : u = Tail(t)
  BY HeadAndTail
<1>3. PICK e \in Directories : e = Result(d, s)
  BY <1>1, Results
<1>4. SUFFICES WholeImage(e) /\ e.entries = d.entries /\ (u = <<>> \/ After(e, u))
  BY <1>1, <1>2, <1>3
<1>5. CASE d.cleanup # NoId /\ Settling(d.entries, d.cleanup, t)
  <2>1. s = [do |-> "unlink", id |-> d.cleanup] /\ SettleSync(d.entries, u)
    BY <1>1, <1>2, <1>5 DEF Settling, First
  <2>2. s.do = "unlink" /\ s.id = d.cleanup
    BY <2>1
  <2>3. WholeImage(e) /\ Gone(e)
    BY <1>3, <2>2, UnlinkKeepsWhole
  <2>4. e.entries = d.entries
    BY <1>3, <2>2, Results
  <2>. QED  BY <2>1, <2>3, <2>4 DEF After
<1>6. CASE Gone(d) /\ SettleSync(d.entries, t)
  <2>1. s = Sync /\ LastReset(d.entries, u)
    BY <1>1, <1>2, <1>6 DEF SettleSync, First
  <2>2. e = d
    BY <1>3, <2>1, Results DEF Sync
  <2>. QED  BY <2>1, <2>2, <1>6 DEF After
<1>7. CASE Gone(d) /\ LastReset(d.entries, t)
  <2>1. s = Rename(d.entries, NoId) /\ LastSync(u)
    BY <1>1, <1>2, <1>7 DEF LastReset, First, Doomed
  <2>2. s.do = "rename" /\ s.entries = d.entries /\ s.cleanup = NoId
    BY <2>1 DEF Rename
  <2>3. NoId \notin RecordIds(d.entries)
    BY DEF RecordIds
  <2>4. WholeImage(e)
    BY <1>3, <1>7, <2>2, <2>3, IntentKeepsWhole
  <2>5. e.entries = d.entries
    BY <1>3, <2>2, Results
  <2>. QED  BY <2>1, <2>4, <2>5 DEF After
<1>8. CASE LastSync(t)
  <2>1. s = Sync /\ u = <<>>
    BY <1>1, <1>2, <1>8 DEF LastSync, First
  <2>2. e = d
    BY <1>3, <2>1, Results DEF Sync
  <2>. QED  BY <2>1, <2>2
<1>. QED  BY <1>5, <1>6, <1>7, <1>8 DEF After

-----------------------------------------------------------------------------
(* Step *)

(* A mutation names a secret. *)
LEMMA NotIdle ==
  ASSUME NEW m \in Mutations
  PROVE  m # Idle
<1>1. m.name \in Names
  BY DEF Mutations
<1>2. Idle.name = ""
  BY DEF Idle
<1>. QED  BY <1>1, <1>2, StorageAssumption

(* The instance that runs a mutation has the directory to itself. *)
LEMMA Running ==
  ASSUME StorageInv, NEW i \in Insts, op[i] # Idle
  PROVE  /\ op[i] \in Mutations
         /\ Plan(op[i]) \in Plans
         /\ op[i].todo \in Seq(Operations) /\ op[i].todo # <<>>
         /\ live[i].opened /\ live[i].entries = disk.entries /\ live[i].cleanup = disk.cleanup
         /\ \A j \in Insts : j # i => op[j] = Idle /\ ~live[j].opened
<1>1. op[i] \in Mutations
  BY DEF StorageInv, StorageTypes
<1>2. op[i].todo \in Seq(Operations)
  BY <1>1 DEF Mutations
<1>3. Plan(op[i]) \in Plans
  BY <1>1 DEF Plan, Plans, Mutations
<1>4. /\ live[i].opened
      /\ \/ Uncommitted(Plan(op[i]), op[i].todo)
         \/ Synchronising(Plan(op[i]), op[i].todo)
         \/ Settlement(Plan(op[i]), op[i].todo)
  BY DEF StorageInv, Progress
<1>5. op[i].todo # <<>>
  <2>1. PICK p \in Plans : p = Plan(op[i])
    BY <1>3
  <2>2. Len(op[i].todo) > p.settle \/ After(disk, op[i].todo)
    BY <1>4, <2>1 DEF Uncommitted, Synchronising, Settlement
  <2>3. CASE Len(op[i].todo) > p.settle
    BY <2>3, <1>2 DEF Plans
  <2>4. CASE After(disk, op[i].todo)
    BY <2>4 DEF After, Settling, SettleSync, LastReset, LastSync, First, Doomed
  <2>. QED  BY <2>2, <2>3, <2>4
<1>6. live[i].entries = disk.entries /\ live[i].cleanup = disk.cleanup
  BY <1>4 DEF StorageInv, LiveAgreesWithDisk
<1>7. \A j \in Insts : j # i => ~live[j].opened
  BY <1>4 DEF StorageInv, OneOpener
<1>8. \A j \in Insts : j # i => op[j] = Idle
  BY <1>7 DEF StorageInv, Progress
<1>. QED  BY <1>1, <1>2, <1>3, <1>4, <1>5, <1>6, <1>7, <1>8

(* What a step does to the directory and to the rest of the program. *)
LEMMA StepDirectory ==
  ASSUME StorageInv, NEW i \in Insts, Step(i), NEW p, p = Plan(op[i]), NEW t, t = op[i].todo
  PROVE  /\ disk' = Result(disk, Head(t)) /\ disk' \in Directories
         /\ Images' \subseteq Images \cup {disk'}
         /\ Head(t).do = "sync" => Images' = {disk}
         /\ WholeImage(disk')
         /\ \A n \in Names : n # p.name => disk'.entries[n] = disk.entries[n]
         /\ Len(t) # 1 => \/ Uncommitted(p, Tail(t))'
                          \/ Synchronising(p, Tail(t))'
                          \/ Settlement(p, Tail(t))'
         /\ Len(t) = 1 => \A d \in Images' : d.entries[p.name] = p.next
<1>1. op[i] # Idle /\ Head(t).do # "throw"
  BY DEF Step
<1>2. /\ p \in Plans /\ t \in Seq(Operations) /\ t # <<>>
      /\ op[i] \in Mutations
  BY <1>1, Running
<1>3. disk \in Directories /\ \A d \in Images : WholeImage(d)
  BY DEF StorageInv, StorageTypes
<1>4. WholeImage(disk)
  BY <1>3 DEF Images
<1>5. PICK u \in Seq(Operations) : u = Tail(t)
  BY <1>2, HeadAndTail
<1>6. /\ Head(t) \in Operations
      /\ Len(u) = Len(t) - 1 /\ Len(t) \in Nat /\ Len(u) \in Nat
  BY <1>2, <1>5, HeadAndTail
<1>7. /\ disk' = Result(disk, Head(t))
      /\ unsynced' = IF Head(t).do = "sync" THEN {} ELSE unsynced \cup {disk}
      /\ Len(t) # 1 => promise' = promise
  BY DEF Step, Result
<1>8. disk' \in Directories
  BY <1>1, <1>3, <1>6, <1>7, Results
<1>9. /\ Images' \subseteq Images \cup {disk'}
      /\ Head(t).do = "sync" => disk' = disk /\ Images' = {disk}
  BY <1>7 DEF Images, Result
<1>10. p.settle \in Nat /\ p.name \in Names
  BY <1>2 DEF Plans
<1>11. CASE Uncommitted(p, t)
  <2>1. /\ disk.entries[p.name] = p.found
        /\ p.next # NoEntry => p.next.id \in Ids /\ p.next.id \notin RecordIds(disk.entries)
        /\ \A d \in Images : d.entries[p.name] \in promise[p.name]
        /\ Before(p, disk, t)
    BY <1>11 DEF Uncommitted
  <2>2. /\ WholeImage(disk')
        /\ Continues(p, disk, disk', u) \/ Commits(p, disk, disk', u)
    BY <1>1, <1>2, <1>3, <1>4, <1>5, <1>7, <2>1, StepBefore
  <2>3. Len(u) > p.settle
    BY <2>2 DEF Continues, Commits
  <2>4. Len(t) # 1
    BY <1>2, <2>3, <1>6, <1>10
  <2>5. CASE Continues(p, disk, disk', u)
    <3>1. disk'.entries = disk.entries /\ Before(p, disk', u)
      BY <2>5 DEF Continues
    <3>2. disk \in Images
      BY DEF Images
    <3>3. \A d \in Images' : d.entries[p.name] \in promise'[p.name]
      BY <3>1, <3>2, <2>1, <2>4, <1>7, <1>9
    <3>4. Uncommitted(p, u)'
      BY <3>1, <3>3, <2>1, <2>3 DEF Uncommitted
    <3>. QED  BY <1>5, <1>7, <1>8, <1>9, <2>2, <2>4, <3>1, <3>4
  <2>6. CASE Commits(p, disk, disk', u)
    <3>1. /\ disk'.entries = Committed(p, disk.entries)
          /\ disk'.cleanup = p.found.id
          /\ CommitSync(p, disk'.entries, u)
      BY <2>6 DEF Commits
    <3>2. /\ disk'.entries[p.name] = p.next
          /\ \A n \in Names : n # p.name => disk'.entries[n] = disk.entries[n]
      BY <3>1, <1>2, <1>3, CommittedIndex DEF Directories
    <3>3. Synchronising(p, u)'
      BY <3>1, <3>2, <2>3 DEF Synchronising
    <3>. QED  BY <1>5, <1>7, <1>8, <1>9, <2>2, <2>4, <3>2, <3>3
  <2>. QED  BY <2>2, <2>5, <2>6
<1>12. CASE Synchronising(p, t)
  <2>1. /\ disk.entries[p.name] = p.next /\ disk.cleanup = p.found.id
        /\ CommitSync(p, disk.entries, t)
    BY <1>12 DEF Synchronising
  <2>2. Head(t) = Sync /\ Len(u) = p.settle /\ Settling(disk.entries, disk.cleanup, u)
    BY <2>1, <1>5 DEF CommitSync, First
  <2>3. disk' = disk /\ Images' = {disk} /\ Head(t).do = "sync"
    BY <2>2, <1>9 DEF Sync
  <2>4. \A d \in Images' : d.entries[p.name] = p.next
    BY <2>1, <2>3
  <2>5. ASSUME Len(t) # 1 PROVE Settlement(p, u)'
    <3>0. Len(u) # 0
      BY <1>2, <2>5, <1>6
    <3>1. u # <<>>
      BY <3>0
    <3>2. disk.cleanup # NoId
      BY <3>1, <2>2 DEF Settling
    <3>3. After(disk', u)
      BY <3>2, <2>2, <2>3 DEF After
    <3>4. Len(u) <= p.settle
      BY <2>2, <1>10
    <3>. QED  BY <3>3, <3>4, <2>4 DEF Settlement
  <2>. QED  BY <1>4, <1>5, <1>7, <1>8, <1>9, <2>3, <2>4, <2>5
<1>13. CASE Settlement(p, t)
  <2>1. /\ Len(t) <= p.settle /\ After(disk, t)
        /\ \A d \in Images : d.entries[p.name] = p.next
    BY <1>13 DEF Settlement
  <2>2. /\ WholeImage(disk') /\ disk'.entries = disk.entries
        /\ u = <<>> \/ After(disk', u)
    BY <1>1, <1>2, <1>3, <1>4, <1>5, <1>7, <2>1, StepAfter
  <2>3. disk \in Images
    BY DEF Images
  <2>4. \A d \in Images' : d.entries[p.name] = p.next
    BY <2>1, <2>2, <2>3, <1>9
  <2>5. ASSUME Len(t) # 1 PROVE Settlement(p, u)'
    <3>0. Len(u) # 0 /\ Len(u) <= p.settle
      BY <1>2, <2>5, <2>1, <1>6, <1>10
    <3>1. u # <<>> /\ Len(u) <= p.settle
      BY <3>0
    <3>. QED  BY <3>1, <2>2, <2>4 DEF Settlement
  <2>. QED  BY <1>5, <1>7, <1>8, <1>9, <2>2, <2>4, <2>5
<1>14. Uncommitted(p, t) \/ Synchronising(p, t) \/ Settlement(p, t)
  BY <1>1 DEF StorageInv, Progress
<1>. QED  BY <1>11, <1>12, <1>13, <1>14

(* One operation of a mutation, by the instance that runs it. *)
LEMMA StepKeepsStorage ==
  ASSUME StorageInv, NEW i \in Insts, Step(i)
  PROVE  StorageInv'
<1>1. op[i] # Idle /\ Head(op[i].todo).do # "throw"
  BY DEF Step
<1>2. PICK p \in Plans : p = Plan(op[i])
  BY <1>1, Running
<1>3. PICK t \in Seq(Operations) : t = op[i].todo
  BY <1>1, Running
<1>4. /\ t # <<>> /\ op[i] \in Mutations
      /\ live[i].opened /\ live[i].entries = disk.entries /\ live[i].cleanup = disk.cleanup
      /\ \A j \in Insts : j # i => op[j] = Idle /\ ~live[j].opened
  BY <1>1, <1>3, Running
<1>5. Head(t) \in Operations /\ Tail(t) \in Seq(Operations)
  BY <1>3, <1>4, HeadAndTail
<1>6. /\ disk' = Result(disk, Head(t)) /\ disk' \in Directories
      /\ Images' \subseteq Images \cup {disk'}
      /\ WholeImage(disk')
      /\ \A n \in Names : n # p.name => disk'.entries[n] = disk.entries[n]
      /\ Len(t) # 1 => \/ Uncommitted(p, Tail(t))'
                       \/ Synchronising(p, Tail(t))'
                       \/ Settlement(p, Tail(t))'
      /\ Len(t) = 1 => \A d \in Images' : d.entries[p.name] = p.next
  BY <1>2, <1>3, StepDirectory
<1>7. StorageTypes
  BY DEF StorageInv
<1>8. p.name = op[i].name /\ p.next = op[i].next /\ p.name \in Names /\ p.next \in Entries
  BY <1>2 DEF Plan, Plans
<1>9. /\ Len(t) = 1 => /\ op' = [op EXCEPT ![i] = Idle]
                       /\ promise' = [promise EXCEPT ![p.name] = {p.next}]
      /\ Len(t) # 1 => /\ op' = [op EXCEPT ![i].todo = Tail(t)]
                       /\ promise' = promise
  BY <1>3, <1>8 DEF Step, Ended
<1>10. /\ unsynced' \subseteq unsynced \cup {disk}
       /\ live' = IF Head(t).do # "rename" THEN live
                  ELSE [live EXCEPT ![i].entries = Head(t).entries,
                                    ![i].cleanup = Head(t).cleanup]
  BY <1>3 DEF Step
<1>11. /\ Len(t) # 1 => /\ op'[i] \in Mutations /\ Plan(op'[i]) = p /\ op'[i].todo = Tail(t)
                       /\ op'[i].name = p.name /\ op'[i].next = p.next /\ op'[i] # Idle
       /\ Len(t) = 1 => op'[i] = Idle
       /\ \A j \in Insts : j # i => op'[j] = Idle
       /\ op' \in [Insts -> Mutations \cup {Idle}]
  <2>1. op \in [Insts -> Mutations \cup {Idle}]
    BY <1>7 DEF StorageTypes
  <2>2. CASE Len(t) = 1
    BY <2>1, <2>2, <1>4, <1>9
  <2>3. CASE Len(t) # 1
    <3>1. op'[i] = [op[i] EXCEPT !.todo = Tail(t)] /\ \A j \in Insts : j # i => op'[j] = op[j]
      BY <2>1, <2>3, <1>9
    <3>2. /\ op'[i] \in Mutations /\ Plan(op'[i]) = Plan(op[i]) /\ op'[i].todo = Tail(t)
          /\ op'[i].name = op[i].name /\ op'[i].next = op[i].next
      BY <3>1, <1>4, <1>5 DEF Mutations, Plan
    <3>3. op'[i] # Idle
      BY <3>2, NotIdle
    <3>4. op' \in [Insts -> Mutations \cup {Idle}]
      BY <3>2, <2>1, <2>3, <1>9
    <3>. QED  BY <3>1, <3>2, <3>3, <3>4, <2>3, <1>2, <1>4, <1>8
  <2>. QED  BY <2>2, <2>3
<1>12. /\ live'[i].entries = disk'.entries /\ live'[i].cleanup = disk'.cleanup
       /\ \A j \in Insts : live'[j].opened = live[j].opened /\ live'[j].active = live[j].active
       /\ \A j \in Insts : j # i => live'[j] = live[j]
       /\ live' \in [Insts -> [active : BOOLEAN, opened : BOOLEAN, entries : Indexes,
                               cleanup : AnyId]]
  <2>1. live \in [Insts -> [active : BOOLEAN, opened : BOOLEAN, entries : Indexes,
                            cleanup : AnyId]]
    BY <1>7 DEF StorageTypes
  <2>2. disk \in Directories /\ Head(t).do # "throw"
    BY <1>1, <1>3, <1>7 DEF StorageTypes
  <2>3. CASE Head(t).do # "rename"
    <3>1. disk'.entries = disk.entries /\ disk'.cleanup = disk.cleanup
      BY <2>2, <2>3, <1>5, <1>6, Results
    <3>. QED  BY <2>1, <2>3, <3>1, <1>4, <1>10
  <2>4. CASE Head(t).do = "rename"
    <3>1. disk'.entries = Head(t).entries /\ disk'.cleanup = Head(t).cleanup
      BY <2>2, <2>4, <1>5, <1>6, Results
    <3>2. Head(t).entries \in Indexes /\ Head(t).cleanup \in AnyId
      BY <2>4, <1>5, OperationKinds
    <3>. QED  BY <2>1, <2>4, <3>1, <3>2, <1>4, <1>10
  <2>. QED  BY <2>3, <2>4
<1>13. StorageTypes'
  <2>1. promise' \in [Names -> SUBSET Entries]
    BY <1>7, <1>8, <1>9 DEF StorageTypes
  <2>2. unsynced' \subseteq Directories
    BY <1>7, <1>10 DEF StorageTypes
  <2>. QED  BY <2>1, <2>2, <1>6, <1>11, <1>12 DEF StorageTypes
<1>14. \A d \in Images' : WholeImage(d)
  BY <1>6 DEF StorageInv
<1>15. OneOpener'
  <2>1. OneOpener
    BY DEF StorageInv
  <2>2. ASSUME NEW j \in Insts, ~live'[j].opened
        PROVE  live'[j].entries = NoEntries
    BY <2>1, <2>2, <1>4, <1>12 DEF OneOpener
  <2>. QED  BY <2>1, <2>2, <1>12 DEF OneOpener
<1>16. LiveAgreesWithDisk'
  BY <1>4, <1>12 DEF LiveAgreesWithDisk
<1>17. \A d \in Images : \A n \in Names : Explained(d, n)
  BY DEF StorageInv
<1>18. ASSUME NEW d \in Images', NEW n \in Names
       PROVE  Explained(d, n)'
  <2>1. CASE n # p.name
    <3>1. d.entries[n] \in promise[n]
      <4>1. PICK e \in Images : e.entries[n] = d.entries[n]
        BY <2>1, <1>6 DEF Images
      <4>2. Explained(e, n)
        BY <1>17
      <4>. QED  BY <4>1, <4>2, <2>1, <1>4, <1>8 DEF Explained
    <3>2. promise'[n] = promise[n]
      BY <2>1, <1>7, <1>9 DEF StorageTypes
    <3>. QED  BY <3>1, <3>2 DEF Explained
  <2>2. CASE n = p.name /\ Len(t) = 1
    <3>1. promise'[n] = {p.next} /\ d.entries[n] = p.next
      BY <2>2, <1>6, <1>7, <1>9 DEF StorageTypes
    <3>. QED  BY <3>1 DEF Explained
  <2>3. CASE n = p.name /\ Len(t) # 1
    <3>1. d.entries[n] \in promise[n] \/ d.entries[n] = p.next
      <4>1. CASE Uncommitted(p, Tail(t))'
        BY <4>1, <2>3, <1>9 DEF Uncommitted
      <4>2. CASE Synchronising(p, Tail(t))'
        <5>1. disk'.entries[n] = p.next
          BY <4>2, <2>3 DEF Synchronising
        <5>2. ASSUME d \in Images PROVE d.entries[n] \in promise[n] \/ d.entries[n] = p.next
          <6>1. Explained(d, n)
            BY <5>2, <1>17
          <6>. QED  BY <6>1, <1>4, <1>8 DEF Explained
        <5>. QED  BY <5>1, <5>2, <1>6
      <4>3. CASE Settlement(p, Tail(t))'
        BY <4>3, <2>3 DEF Settlement
      <4>. QED  BY <4>1, <4>2, <4>3, <2>3, <1>6
    <3>. QED  BY <3>1, <2>3, <1>9, <1>11 DEF Explained
  <2>. QED  BY <2>1, <2>2, <2>3
<1>19. \A j \in Insts : Progress(j)'
  <2>1. ASSUME op'[i] # Idle
        PROVE  /\ live'[i].opened
               /\ \/ Uncommitted(Plan(op[i]), op[i].todo)'
                  \/ Synchronising(Plan(op[i]), op[i].todo)'
                  \/ Settlement(Plan(op[i]), op[i].todo)'
    <3>1. Len(t) # 1 /\ Plan(op'[i]) = p /\ op'[i].todo = Tail(t)
      BY <2>1, <1>11
    <3>. QED  BY <3>1, <1>4, <1>6, <1>12
  <2>. QED  BY <2>1, <1>11 DEF Progress
<1>. QED  BY <1>13, <1>14, <1>15, <1>16, <1>18, <1>19 DEF StorageInv

-----------------------------------------------------------------------------
(* A mutation that fails, and crashes *)

(* Where a mutation stops, every directory a crash may leave binds its name
   as callers were told before, or as the live index shows. *)
LEMMA StoppedAnywhere ==
  ASSUME StorageInv, NEW i \in Insts, op[i] # Idle
  PROVE  /\ op[i].name \in Names
         /\ \A d \in Images : d.entries[op[i].name] \in
              promise[op[i].name] \cup {disk.entries[op[i].name]}
         /\ Len(op[i].todo) <= op[i].settle =>
              \A d \in Images : d.entries[op[i].name] = op[i].next
<1>1. PICK p \in Plans : p = Plan(op[i])
  BY Running
<1>2. PICK t \in Seq(Operations) : t = op[i].todo
  BY Running
<1>3. p.name = op[i].name /\ p.next = op[i].next /\ p.settle = op[i].settle
  BY <1>1 DEF Plan
<1>4. p.name \in Names /\ p.settle \in Nat /\ Len(t) \in Nat
  BY <1>1, <1>2 DEF Plans
<1>5. Uncommitted(p, t) \/ Synchronising(p, t) \/ Settlement(p, t)
  BY <1>1, <1>2 DEF StorageInv, Progress
<1>6. SUFFICES /\ \A d \in Images : d.entries[p.name] \in
                    promise[p.name] \cup {disk.entries[p.name]}
               /\ Len(t) <= p.settle => \A d \in Images : d.entries[p.name] = p.next
  BY <1>2, <1>3, <1>4
<1>7. CASE Uncommitted(p, t)
  <2>1. Len(t) > p.settle /\ \A d \in Images : d.entries[p.name] \in promise[p.name]
    BY <1>7 DEF Uncommitted
  <2>. QED  BY <2>1, <1>4
<1>8. CASE Synchronising(p, t)
  <2>1. Len(t) > p.settle /\ disk.entries[p.name] = p.next
    BY <1>8 DEF Synchronising
  <2>2. ASSUME NEW d \in Images
        PROVE  d.entries[p.name] \in promise[p.name] \cup {p.next}
    <3>1. Explained(d, p.name)
      BY <1>4 DEF StorageInv
    <3>2. \A j \in Insts : op[j] # Idle => j = i
      BY Running
    <3>. QED  BY <3>1, <3>2, <1>3 DEF Explained
  <2>. QED  BY <2>1, <2>2, <1>4
<1>9. CASE Settlement(p, t)
  <2>1. \A d \in Images : d.entries[p.name] = p.next
    BY <1>9 DEF Settlement
  <2>2. disk \in Images
    BY DEF Images
  <2>. QED  BY <2>1, <2>2
<1>. QED  BY <1>5, <1>7, <1>8, <1>9

(* Once no mutation runs, a directory is explained by the promises alone. *)
LEMMA ExplainedByPromise ==
  ASSUME StorageInv, NEW d \in Images, NEW n \in Names,
         \A i \in Insts : op[i] # Idle => op[i].name # n
  PROVE  d.entries[n] \in promise[n]
<1>1. Explained(d, n)
  BY DEF StorageInv
<1>. QED  BY <1>1 DEF Explained

(* The mutation is over, the directory as it is, and its name promised
   whatever the crash images show. *)
LEMMA StopKeepsPromises ==
  ASSUME StorageInv, NEW i \in Insts, op[i] # Idle,
         disk' = disk, unsynced' = unsynced,
         op' = [op EXCEPT ![i] = Idle],
         NEW S \in SUBSET Entries, promise' = [promise EXCEPT ![op[i].name] = S],
         \A d \in Images : d.entries[op[i].name] \in S
  PROVE  /\ disk' \in Directories /\ unsynced' \subseteq Directories
         /\ op' \in [Insts -> Mutations \cup {Idle}]
         /\ promise' \in [Names -> SUBSET Entries]
         /\ \A d \in Images' : WholeImage(d)
         /\ \A d \in Images' : \A n \in Names : Explained(d, n)'
         /\ \A j \in Insts : Progress(j)'
<1>1. StorageTypes
  BY DEF StorageInv
<1>2. op[i].name \in Names /\ \A j \in Insts : j # i => op[j] = Idle
  BY StoppedAnywhere, Running
<1>3. Images' = Images
  BY DEF Images
<1>4. promise' \in [Names -> SUBSET Entries]
  BY <1>1, <1>2 DEF StorageTypes
<1>5. ASSUME NEW d \in Images, NEW n \in Names
      PROVE  d.entries[n] \in promise'[n]
  <2>1. CASE n = op[i].name
    BY <2>1, <1>1 DEF StorageTypes
  <2>2. CASE n # op[i].name
    <3>1. d.entries[n] \in promise[n]
      BY <2>2, <1>2, ExplainedByPromise
    <3>. QED  BY <3>1, <2>2, <1>1 DEF StorageTypes
  <2>. QED  BY <2>1, <2>2
<1>6. \A j \in Insts : op'[j] = Idle
  BY <1>1, <1>2 DEF StorageTypes
<1>7. \A j \in Insts : Progress(j)'
  BY <1>6 DEF Progress
<1>8. \A d \in Images' : WholeImage(d)
  BY <1>3 DEF StorageInv
<1>9. \A d \in Images' : \A n \in Names : Explained(d, n)'
  BY <1>3, <1>5 DEF Explained
<1>10. op' \in [Insts -> Mutations \cup {Idle}]
  BY <1>1 DEF StorageTypes
<1>. QED  BY <1>1, <1>4, <1>7, <1>8, <1>9, <1>10 DEF StorageTypes

(* A failed file operation, or an index EncodeIndex rejects. *)
LEMMA RaiseKeepsStorage ==
  ASSUME StorageInv, NEW i \in Insts, op[i] # Idle, Raise(i)
  PROVE  StorageInv'
<1>1. StorageTypes /\ OneOpener /\ LiveAgreesWithDisk
  BY DEF StorageInv
<1>2. /\ op[i] \in Mutations /\ live[i].entries = disk.entries
      /\ op[i].name \in Names
      /\ \A d \in Images : d.entries[op[i].name] \in
              promise[op[i].name] \cup {disk.entries[op[i].name]}
      /\ Len(op[i].todo) <= op[i].settle =>
              \A d \in Images : d.entries[op[i].name] = op[i].next
  BY Running, StoppedAnywhere
<1>3. PICK S : S = IF Len(op[i].todo) <= op[i].settle THEN {op[i].next}
                   ELSE promise[op[i].name] \cup {disk.entries[op[i].name]}
  OBVIOUS
<1>4. S \in SUBSET Entries
  <2>1. op[i].next \in Entries
    BY <1>2 DEF Mutations
  <2>2. disk.entries[op[i].name] \in Entries /\ promise[op[i].name] \subseteq Entries
    BY <1>1, <1>2 DEF StorageTypes, Directories, Indexes
  <2>. QED  BY <1>3, <2>1, <2>2
<1>5. \A d \in Images : d.entries[op[i].name] \in S
  BY <1>2, <1>3
<1>6. /\ disk' = disk /\ unsynced' = unsynced /\ live' = live
      /\ op' = [op EXCEPT ![i] = Idle]
  BY DEF Raise, Ended
<1>7. promise' = [promise EXCEPT ![op[i].name] = S]
  BY <1>2, <1>3 DEF Raise
<1>8. /\ disk' \in Directories /\ unsynced' \subseteq Directories
      /\ op' \in [Insts -> Mutations \cup {Idle}]
      /\ promise' \in [Names -> SUBSET Entries]
      /\ \A d \in Images' : WholeImage(d)
      /\ \A d \in Images' : \A n \in Names : Explained(d, n)'
      /\ \A j \in Insts : Progress(j)'
  BY <1>4, <1>5, <1>6, <1>7, StopKeepsPromises
<1>9. StorageTypes'
  BY <1>1, <1>6, <1>8 DEF StorageTypes
<1>10. OneOpener' /\ LiveAgreesWithDisk'
  BY <1>1, <1>6 DEF OneOpener, LiveAgreesWithDisk
<1>. QED  BY <1>8, <1>9, <1>10 DEF StorageInv

(* An instance that starts, and one that is shut down. *)
LEMMA FreshInstances ==
  ASSUME NEW f, f = Fresh \/ f = [Fresh EXCEPT !.active = FALSE]
  PROVE  /\ f \in [active : BOOLEAN, opened : BOOLEAN, entries : Indexes, cleanup : AnyId]
         /\ f.opened = FALSE /\ f.entries = NoEntries
<1>1. NoEntries \in Indexes /\ NoId \in AnyId
  BY DEF NoEntries, NoEntry, Indexes, Entries, AnyId
<1>2. CASE f = Fresh
  BY <1>1, <1>2 DEF Fresh
<1>3. CASE f = [Fresh EXCEPT !.active = FALSE]
  <2>1. /\ Fresh \in [active : BOOLEAN, opened : BOOLEAN, entries : Indexes, cleanup : AnyId]
        /\ Fresh.opened = FALSE /\ Fresh.entries = NoEntries
    BY <1>1 DEF Fresh
  <2>. QED  BY <1>3, <2>1
<1>. QED  BY <1>2, <1>3

(* Closing or restarting an instance leaves the other's open directory. *)
LEMMA ClosedInstance ==
  ASSUME StorageTypes, OneOpener, LiveAgreesWithDisk, NEW i \in Insts,
         NEW f, f = Fresh \/ f = [Fresh EXCEPT !.active = FALSE],
         live' = [live EXCEPT ![i] = f], disk' = disk
  PROVE  /\ OneOpener' /\ LiveAgreesWithDisk'
         /\ live' \in [Insts -> [active : BOOLEAN, opened : BOOLEAN, entries : Indexes,
                                 cleanup : AnyId]]
<1>1. /\ f \in [active : BOOLEAN, opened : BOOLEAN, entries : Indexes, cleanup : AnyId]
      /\ f.opened = FALSE /\ f.entries = NoEntries
  BY FreshInstances
<1>2. /\ live'[i] = f
      /\ \A j \in Insts : j # i => live'[j] = live[j]
  BY DEF StorageTypes
<1>3. OneOpener'
  BY <1>1, <1>2 DEF OneOpener
<1>4. LiveAgreesWithDisk'
  BY <1>1, <1>2 DEF LiveAgreesWithDisk
<1>. QED  BY <1>1, <1>3, <1>4 DEF StorageTypes

(* Death of the process inside a mutation: the directory stays as it is. *)
LEMMA DeathKeepsStorage ==
  ASSUME StorageInv, NEW i \in Insts, ProcessDies(i)
  PROVE  StorageInv'
<1>1. StorageTypes /\ OneOpener /\ LiveAgreesWithDisk
  BY DEF StorageInv
<1>2. /\ op[i] # Idle /\ disk' = disk /\ unsynced' = unsynced
      /\ live' = [live EXCEPT ![i] = Fresh]
      /\ op' = [j \in Insts |-> IF j \in {i} THEN Idle ELSE op[j]]
  BY DEF ProcessDies, Forget
<1>3. op' = [op EXCEPT ![i] = Idle]
  BY <1>1, <1>2 DEF StorageTypes
<1>4. /\ op[i].name \in Names
      /\ \A d \in Images : d.entries[op[i].name] \in
              promise[op[i].name] \cup {disk.entries[op[i].name]}
  BY <1>2, StoppedAnywhere
<1>5. PICK S : S = promise[op[i].name] \cup {disk.entries[op[i].name]}
  OBVIOUS
<1>6. S \in SUBSET Entries
  BY <1>1, <1>4, <1>5 DEF StorageTypes, Directories, Indexes
<1>7. promise' = [promise EXCEPT ![op[i].name] = S]
  BY <1>5 DEF ProcessDies
<1>8. \A d \in Images : d.entries[op[i].name] \in S
  BY <1>4, <1>5
<1>9. /\ disk' \in Directories /\ unsynced' \subseteq Directories
      /\ op' \in [Insts -> Mutations \cup {Idle}]
      /\ promise' \in [Names -> SUBSET Entries]
      /\ \A d \in Images' : WholeImage(d)
      /\ \A d \in Images' : \A n \in Names : Explained(d, n)'
      /\ \A j \in Insts : Progress(j)'
  BY <1>2, <1>3, <1>6, <1>7, <1>8, StopKeepsPromises
<1>11. /\ OneOpener' /\ LiveAgreesWithDisk'
       /\ live' \in [Insts -> [active : BOOLEAN, opened : BOOLEAN, entries : Indexes,
                               cleanup : AnyId]]
  BY <1>1, <1>2, ClosedInstance
<1>12. StorageTypes'
  BY <1>9, <1>11 DEF StorageTypes
<1>. QED  BY <1>9, <1>11, <1>12 DEF StorageInv

(* What depends only on the directory, the mutations and the promises. *)
LEMMA SameDirectory ==
  ASSUME StorageInv, disk' = disk, unsynced' = unsynced, op' = op, promise' = promise,
         \A i \in Insts : live[i].opened /\ op[i] # Idle => live'[i].opened
  PROVE  /\ \A d \in Images' : WholeImage(d)
         /\ \A d \in Images' : \A n \in Names : Explained(d, n)'
         /\ \A i \in Insts : Progress(i)'
<1>1. Images' = Images
  BY DEF Images
<1>2. \A d \in Images' : WholeImage(d)
  BY <1>1 DEF StorageInv
<1>3. ASSUME NEW d \in Images', NEW n \in Names PROVE Explained(d, n)'
  <2>1. Explained(d, n)
    BY <1>1 DEF StorageInv
  <2>. QED  BY <2>1 DEF Explained
<1>4. ASSUME NEW i \in Insts PROVE Progress(i)'
  <2>1. CASE op[i] = Idle
    BY <2>1 DEF Progress
  <2>2. CASE op[i] # Idle
    <3>1. PICK p : p = Plan(op[i])
      OBVIOUS
    <3>2. PICK t : t = op[i].todo
      OBVIOUS
    <3>3. live[i].opened /\ (Uncommitted(p, t) \/ Synchronising(p, t) \/ Settlement(p, t))
      BY <2>2, <3>1, <3>2 DEF StorageInv, Progress
    <3>4. Uncommitted(p, t) => Uncommitted(p, t)'
      BY <1>1 DEF Uncommitted
    <3>5. Synchronising(p, t) => Synchronising(p, t)'
      BY DEF Synchronising
    <3>6. Settlement(p, t) => Settlement(p, t)'
      BY <1>1 DEF Settlement
    <3>7. Plan(op'[i]) = p /\ op'[i].todo = t
      BY <3>1, <3>2
    <3>. QED  BY <2>2, <3>3, <3>4, <3>5, <3>6, <3>7 DEF Progress
  <2>. QED  BY <2>1, <2>2
<1>. QED  BY <1>2, <1>3, <1>4

(* Actions that leave the storage alone. *)
LEMMA SameStorage ==
  ASSUME StorageInv, UNCHANGED <<disk, unsynced, live, op, promise>>
  PROVE  StorageInv'
<1>1. /\ \A d \in Images' : WholeImage(d)
      /\ \A d \in Images' : \A n \in Names : Explained(d, n)'
      /\ \A i \in Insts : Progress(i)'
  BY SameDirectory
<1>2. StorageTypes' /\ OneOpener' /\ LiveAgreesWithDisk'
  BY DEF StorageInv, StorageTypes, OneOpener, LiveAgreesWithDisk
<1>. QED  BY <1>1, <1>2 DEF StorageInv

(* Shutdown of an instance that runs no mutation, and its restart. *)
LEMMA ClosingKeepsStorage ==
  ASSUME StorageInv, NEW i \in Insts, op[i] = Idle,
         NEW f, f = Fresh \/ f = [Fresh EXCEPT !.active = FALSE],
         live' = [live EXCEPT ![i] = f],
         UNCHANGED <<disk, unsynced, op, promise>>
  PROVE  StorageInv'
<1>1. StorageTypes /\ OneOpener /\ LiveAgreesWithDisk
  BY DEF StorageInv
<1>2. /\ OneOpener' /\ LiveAgreesWithDisk'
      /\ live' \in [Insts -> [active : BOOLEAN, opened : BOOLEAN, entries : Indexes,
                              cleanup : AnyId]]
  BY <1>1, ClosedInstance
<1>3. \A j \in Insts : live[j].opened /\ op[j] # Idle => live'[j].opened
  BY <1>1 DEF StorageTypes
<1>4. /\ \A d \in Images' : WholeImage(d)
      /\ \A d \in Images' : \A n \in Names : Explained(d, n)'
      /\ \A j \in Insts : Progress(j)'
  BY <1>3, SameDirectory
<1>5. StorageTypes'
  BY <1>1, <1>2 DEF StorageTypes
<1>. QED  BY <1>2, <1>4, <1>5 DEF StorageInv

(* Opening the directory under the flock. *)
LEMMA OpeningKeepsStorage ==
  ASSUME StorageInv, NEW i \in Insts, EnsureOpen(i),
         UNCHANGED <<disk, unsynced, op, promise>>
  PROVE  StorageInv'
<1>1. StorageTypes /\ OneOpener /\ LiveAgreesWithDisk
  BY DEF StorageInv
<1>2. CASE live' = live
  BY <1>2, SameStorage
<1>3. ASSUME \A j \in Insts : ~live[j].opened, i \notin PersistentOff, live[i].active,
             live' = [live EXCEPT ![i].opened = TRUE, ![i].entries = disk.entries,
                                  ![i].cleanup = disk.cleanup]
      PROVE  StorageInv'
  <2>1. disk.entries \in Indexes /\ disk.cleanup \in AnyId
    BY <1>1 DEF StorageTypes, Directories
  <2>2. /\ live'[i].opened /\ live'[i].active
        /\ live'[i].entries = disk.entries /\ live'[i].cleanup = disk.cleanup
        /\ \A j \in Insts : j # i => live'[j] = live[j]
        /\ live' \in [Insts -> [active : BOOLEAN, opened : BOOLEAN, entries : Indexes,
                                cleanup : AnyId]]
    BY <1>1, <1>3, <2>1 DEF StorageTypes
  <2>3. /\ \A d \in Images' : WholeImage(d)
        /\ \A d \in Images' : \A n \in Names : Explained(d, n)'
        /\ \A j \in Insts : Progress(j)'
    BY <1>3, SameDirectory
  <2>4. OneOpener'
    BY <1>1, <1>3, <2>2 DEF OneOpener
  <2>5. LiveAgreesWithDisk'
    BY <1>3, <2>2 DEF LiveAgreesWithDisk
  <2>6. StorageTypes'
    BY <1>1, <2>2 DEF StorageTypes
  <2>. QED  BY <2>3, <2>4, <2>5, <2>6 DEF StorageInv
<1>. QED  BY <1>2, <1>3 DEF EnsureOpen

(* Loss of power: the directory falls back to any image since the last
   synchronisation, and everybody starts afresh. *)
LEMMA PowerLossKeepsStorage ==
  ASSUME StorageInv, PowerLoss
  PROVE  StorageInv'
<1>1. StorageTypes /\ \A d \in Images : WholeImage(d)
  BY DEF StorageInv
<1>2. /\ disk' \in Images /\ unsynced' = {} /\ live' = [i \in Insts |-> Fresh]
      /\ promise' = [n \in Names |-> {disk'.entries[n]}]
      /\ op' = [i \in Insts |-> IF i \in Insts THEN Idle ELSE op[i]]
  BY DEF PowerLoss, Forget
<1>3. Images' = {disk'}
  BY <1>2 DEF Images
<1>4. disk' \in Directories
  BY <1>1, <1>2 DEF StorageTypes, Images
<1>5. \A i \in Insts : op'[i] = Idle /\ live'[i] = Fresh
  BY <1>2
<1>6. NoEntries \in Indexes /\ NoId \in AnyId
  BY DEF NoEntries, NoEntry, Indexes, Entries, AnyId
<1>7. /\ Fresh \in [active : BOOLEAN, opened : BOOLEAN, entries : Indexes, cleanup : AnyId]
      /\ Fresh.opened = FALSE /\ Fresh.entries = NoEntries
  BY <1>6 DEF Fresh
<1>8. StorageTypes'
  <2>1. promise' \in [Names -> SUBSET Entries]
    BY <1>2, <1>4 DEF Directories, Indexes
  <2>2. op' \in [Insts -> Mutations \cup {Idle}]
    BY <1>2
  <2>3. live' \in [Insts -> [active : BOOLEAN, opened : BOOLEAN, entries : Indexes,
                             cleanup : AnyId]]
    BY <1>2, <1>7
  <2>. QED  BY <1>2, <1>4, <2>1, <2>2, <2>3 DEF StorageTypes
<1>9. OneOpener' /\ LiveAgreesWithDisk'
  BY <1>5, <1>7 DEF OneOpener, LiveAgreesWithDisk
<1>10. \A d \in Images' : WholeImage(d)
  BY <1>1, <1>2, <1>3
<1>11. \A d \in Images' : \A n \in Names : Explained(d, n)'
  BY <1>2, <1>3 DEF Explained
<1>12. \A i \in Insts : Progress(i)'
  BY <1>5 DEF Progress
<1>. QED  BY <1>8, <1>9, <1>10, <1>11, <1>12 DEF StorageInv

-----------------------------------------------------------------------------
(* The programs *)

(* The operations of the programs. *)
LEMMA ProgramOperations ==
  /\ Sync \in Operations
  /\ [do |-> "throw"] \in Operations
  /\ \A es \in Indexes, c \in AnyId : Rename(es, c) \in Operations
  /\ \A c \in AnyId : /\ [do |-> "unlink", id |-> c] \in Operations
                      /\ [do |-> "create", id |-> c] \in Operations
  /\ \A e \in Entries : [do |-> "write", record |-> Whole(e)] \in Operations
<1>1. Sync \in [do : {"sync", "throw"}] /\ [do |-> "throw"] \in [do : {"sync", "throw"}]
  BY DEF Sync
<1>2. \A es \in Indexes, c \in AnyId :
        Rename(es, c) \in [do : {"rename"}, entries : Indexes, cleanup : AnyId]
  BY DEF Rename
<1>3. \A c \in AnyId :
        /\ [do |-> "unlink", id |-> c] \in [do : {"unlink", "create"}, id : AnyId]
        /\ [do |-> "create", id |-> c] \in [do : {"unlink", "create"}, id : AnyId]
  OBVIOUS
<1>4. \A e \in Entries : Whole(e) \in Records
  BY DEF Whole, Entries, Records
<1>5. \A e \in Entries :
        [do |-> "write", record |-> Whole(e)] \in [do : {"write"}, record : Records]
  BY <1>4
<1>. QED  BY <1>1, <1>2, <1>3, <1>5 DEF Operations

\* The program t publishes an index before X: it is doomed, or it renames,
\* synchronises and goes on with X.
Publishes(es, c, X, t) ==
  \/ Doomed(t)
  \/ /\ Encodable(es, c)
     /\ First(Rename(es, c), t)
     /\ Tail(t) \in Seq(Operations) /\ Len(Tail(t)) = 1 + Len(X)
     /\ First(Sync, Tail(t))
     /\ Tail(Tail(t)) = X

(* PublishIndex does so. *)
LEMMA Publishing ==
  ASSUME NEW es \in Indexes, NEW c \in AnyId, NEW X \in Seq(Operations),
         NEW t, t = PublishIndex(es, c) \o X
  PROVE  t \in Seq(Operations) /\ Len(t) > Len(X) /\ Publishes(es, c, X, t)
<1>1. CASE ~Encodable(es, c)
  <2>1. t = <<[do |-> "throw"]>> \o X
    BY <1>1 DEF PublishIndex
  <2>2. t \in Seq(Operations) /\ t # <<>> /\ Head(t) = [do |-> "throw"] /\ Len(t) = 1 + Len(X)
    BY <2>1, ProgramOperations, Prepended
  <2>3. Len(t) > Len(X)
    BY <2>2
  <2>. QED  BY <2>2, <2>3 DEF Publishes, Doomed
<1>2. CASE Encodable(es, c)
  <2>1. PICK r \in Operations : r = Rename(es, c)
    BY ProgramOperations
  <2>2. t = <<r, Sync>> \o X
    BY <1>2, <2>1 DEF PublishIndex, Rename, Sync
  <2>3. PICK u : u = <<Sync>> \o X
    OBVIOUS
  <2>4. u \in Seq(Operations) /\ u # <<>> /\ Head(u) = Sync /\ Tail(u) = X /\ Len(u) = 1 + Len(X)
    BY <2>3, ProgramOperations, Prepended
  <2>5. t = <<r>> \o u
    <3>1. PICK y \in Operations : y = Sync
      BY ProgramOperations
    <3>2. <<r, y>> \o X = <<r>> \o (<<y>> \o X)
      BY PrependedTwo
    <3>. QED  BY <2>2, <2>3, <3>1, <3>2
  <2>6. t \in Seq(Operations) /\ t # <<>> /\ Head(t) = r /\ Tail(t) = u /\ Len(t) = 1 + Len(u)
    BY <2>4, <2>5, Prepended
  <2>7. Len(t) > Len(X)
    BY <2>4, <2>6
  <2>. QED  BY <1>2, <2>1, <2>4, <2>6, <2>7 DEF Publishes, First
<1>. QED  BY <1>1, <1>2

(* Removing a record that is there. *)
LEMMA Removing ==
  ASSUME NEW c \in AnyId, NEW X \in Seq(Operations), Present(c),
         NEW t, t = RemoveRecordIfPresent(c) \o X
  PROVE  /\ t \in Seq(Operations)
         /\ Len(t) > Len(X)
         /\ First([do |-> "unlink", id |-> c], t)
         /\ Tail(t) \in Seq(Operations) /\ Len(Tail(t)) = 1 + Len(X)
         /\ First(Sync, Tail(t))
         /\ Tail(Tail(t)) = X
<1>1. PICK r \in Operations : r = [do |-> "unlink", id |-> c]
  BY ProgramOperations
<1>2. t = <<r, Sync>> \o X
  BY <1>1 DEF RemoveRecordIfPresent, Sync
<1>3. PICK u : u = <<Sync>> \o X
  OBVIOUS
<1>4. u \in Seq(Operations) /\ u # <<>> /\ Head(u) = Sync /\ Tail(u) = X /\ Len(u) = 1 + Len(X)
  BY <1>3, ProgramOperations, Prepended
<1>5. t = <<r>> \o u
  <2>1. PICK y \in Operations : y = Sync
    BY ProgramOperations
  <2>2. <<r, y>> \o X = <<r>> \o (<<y>> \o X)
    BY PrependedTwo
  <2>. QED  BY <1>2, <1>3, <2>1, <2>2
<1>6. t \in Seq(Operations) /\ t # <<>> /\ Head(t) = r /\ Tail(t) = u /\ Len(t) = 1 + Len(u)
  BY <1>4, <1>5, Prepended
<1>7. Len(t) > Len(X)
  BY <1>4, <1>6
<1>. QED  BY <1>1, <1>4, <1>6, <1>7 DEF First

(* Each part of a program is one. *)
LEMMA ProgramParts ==
  /\ \A es \in Indexes, c \in AnyId : PublishIndex(es, c) \in Seq(Operations)
  /\ \A c \in AnyId : RemoveRecordIfPresent(c) \in Seq(Operations)
  /\ \A e \in Entries : WriteRecord(e) \in Seq(Operations)
<1>1. ASSUME NEW es \in Indexes, NEW c \in AnyId
      PROVE  PublishIndex(es, c) \in Seq(Operations)
  <2>1. /\ Rename(es, c) \in Operations /\ Sync \in Operations
        /\ [do |-> "throw"] \in Operations
    BY ProgramOperations
  <2>2. PublishIndex(es, c) = IF Encodable(es, c) THEN <<Rename(es, c), Sync>>
                              ELSE <<[do |-> "throw"]>>
    BY DEF PublishIndex, Rename, Sync
  <2>. QED  BY <2>1, <2>2
<1>2. ASSUME NEW c \in AnyId
      PROVE  RemoveRecordIfPresent(c) \in Seq(Operations)
  <2>1. PICK r \in Operations : r = [do |-> "unlink", id |-> c]
    BY ProgramOperations
  <2>2. Sync \in Operations
    BY ProgramOperations
  <2>3. RemoveRecordIfPresent(c) = IF Present(c) THEN <<r, Sync>> ELSE <<>>
    BY <2>1 DEF RemoveRecordIfPresent, Sync
  <2>. QED  BY <2>2, <2>3
<1>3. ASSUME NEW e \in Entries
      PROVE  WriteRecord(e) \in Seq(Operations)
  <2>1. e.id \in AnyId
    BY DEF Entries
  <2>2. PICK a \in Operations : a = [do |-> "create", id |-> e.id]
    BY <2>1, ProgramOperations
  <2>3. PICK b \in Operations : b = [do |-> "write", record |-> Whole(e)]
    BY ProgramOperations
  <2>4. WriteRecord(e) = <<a, b, Sync>> /\ Sync \in Operations
    BY <2>2, <2>3, ProgramOperations DEF WriteRecord, Sync
  <2>. QED  BY <2>4
<1>. QED  BY <1>1, <1>2, <1>3

(* SettleCommittedCleanup, for a record that is there, settles. *)
LEMMA SettlementProgram ==
  ASSUME NEW es \in Indexes, NEW c \in AnyId, c # NoId => Present(c),
         NEW t, t = SettleCommittedCleanup(es, c)
  PROVE  Settling(es, c, t)
<1>1. CASE c = NoId
  BY <1>1 DEF SettleCommittedCleanup, Settling
<1>2. CASE c # NoId
  <2>1. NoId \in AnyId
    BY DEF AnyId
  <2>2. PICK X \in Seq(Operations) : X = PublishIndex(es, NoId)
    BY <2>1, ProgramParts
  <2>3. t = RemoveRecordIfPresent(c) \o X
    BY <1>2, <2>2 DEF SettleCommittedCleanup
  <2>4. /\ First([do |-> "unlink", id |-> c], t)
        /\ First(Sync, Tail(t)) /\ Tail(Tail(t)) = X
    BY <1>2, <2>3, Removing
  <2>5. LastReset(es, X)
    <3>1. X = X \o <<>> /\ <<>> \in Seq(Operations)
      BY ConcatEmptySeq
    <3>2. X = PublishIndex(es, NoId) \o <<>>
      BY <3>1, <2>2
    <3>3. Publishes(es, NoId, <<>>, X)
      BY <3>1, <3>2, <2>1, Publishing
    <3>. QED  BY <3>3 DEF Publishes, LastReset, LastSync
  <2>. QED  BY <1>2, <2>4, <2>5 DEF Settling, SettleSync
<1>. QED  BY <1>1, <1>2

(* The publication that ends a program; a wrong identity read from the
   index makes it one that throws. *)
LEMMA CommittingProgram ==
  ASSUME NEW p \in Plans, NEW es \in Indexes, NEW c \in AnyId, NEW L \in Seq(Operations),
         Len(L) = p.settle,
         \/ c = p.found.id /\ Settling(Committed(p, es), c, L)
         \/ ~Encodable(Committed(p, es), c),
         NEW t, t = PublishIndex(Committed(p, es), c) \o L
  PROVE  t \in Seq(Operations) /\ Committing(p, es, t)
<1>1. Committed(p, es) \in Indexes
  BY CommittedIndex
<1>2. t \in Seq(Operations) /\ Len(t) > Len(L) /\ Publishes(Committed(p, es), c, L, t)
  BY <1>1, Publishing
<1>3. CASE Doomed(t)
  BY <1>2, <1>3 DEF Committing
<1>4. CASE ~Doomed(t)
  <2>1. /\ Encodable(Committed(p, es), c) /\ First(Rename(Committed(p, es), c), t)
        /\ First(Sync, Tail(t)) /\ Tail(Tail(t)) = L
    BY <1>2, <1>4 DEF Publishes
  <2>2. c = p.found.id /\ Settling(Committed(p, es), c, L)
    BY <2>1
  <2>. QED  BY <1>2, <2>1, <2>2 DEF Committing, CommitSync
<1>. QED  BY <1>3, <1>4

(* The record is created, written and synchronised before the rest. *)
LEMMA CreatingProgram ==
  ASSUME NEW p \in Plans, NEW es \in Indexes, NEW X \in Seq(Operations),
         Committing(p, es, X), NEW t, t = WriteRecord(p.next) \o X
  PROVE  t \in Seq(Operations) /\ Creating(p, es, t)
<1>1. p.next \in Entries /\ p.next.id \in AnyId /\ p.settle \in Nat /\ Len(X) > p.settle
  BY DEF Plans, Entries, Committing
<1>2. PICK a \in Operations : a = [do |-> "create", id |-> p.next.id]
  BY <1>1, ProgramOperations
<1>3. PICK b \in Operations : b = [do |-> "write", record |-> Whole(p.next)]
  BY <1>1, ProgramOperations
<1>4. PICK y \in Operations : y = Sync
  BY ProgramOperations
<1>5. PICK v : v = <<y>> \o X
  OBVIOUS
<1>6. v \in Seq(Operations) /\ v # <<>> /\ Head(v) = y /\ Tail(v) = X /\ Len(v) = 1 + Len(X)
  BY <1>5, Prepended
<1>7. PICK w : w = <<b>> \o v
  OBVIOUS
<1>8. w \in Seq(Operations) /\ w # <<>> /\ Head(w) = b /\ Tail(w) = v /\ Len(w) = 1 + Len(v)
  BY <1>6, <1>7, Prepended
<1>9. t = <<a>> \o w
  <2>1. t = <<a, b, y>> \o X
    BY <1>2, <1>3, <1>4 DEF WriteRecord, Sync
  <2>2. <<a, b, y>> \o X = <<a>> \o (<<b>> \o (<<y>> \o X))
    <3>1. <<a>> \in Seq(Operations) /\ <<b, y>> \in Seq(Operations)
      OBVIOUS
    <3>2. <<a, b, y>> = <<a>> \o <<b, y>>
      OBVIOUS
    <3>3. <<a, b, y>> \o X = <<a>> \o (<<b, y>> \o X)
      BY <3>1, <3>2, ConcatAssociative
    <3>4. <<b, y>> \o X = <<b>> \o (<<y>> \o X)
      BY PrependedTwo
    <3>. QED  BY <3>3, <3>4
  <2>. QED  BY <2>1, <2>2, <1>5, <1>7
<1>10. t \in Seq(Operations) /\ t # <<>> /\ Head(t) = a /\ Tail(t) = w /\ Len(t) = 1 + Len(w)
  BY <1>8, <1>9, Prepended
<1>11. Len(v) > p.settle /\ Len(w) > p.settle /\ Len(t) > p.settle
  BY <1>1, <1>6, <1>8, <1>10
<1>12. WriteSync(p, es, v)
  BY <1>4, <1>6, <1>11 DEF WriteSync, First
<1>13. Writing(p, es, w)
  BY <1>3, <1>8, <1>11, <1>12 DEF Writing, First
<1>. QED  BY <1>2, <1>10, <1>11, <1>13 DEF Creating, First

(* The intent names the new record before it is created. *)
LEMMA IntendingProgram ==
  ASSUME NEW p \in Plans, NEW es \in Indexes, NEW X \in Seq(Operations),
         Creating(p, es, X), NEW t, t = PublishIndex(es, p.next.id) \o X
  PROVE  t \in Seq(Operations) /\ Intending(p, es, t)
<1>1. p.next.id \in AnyId /\ p.settle \in Nat /\ Len(X) > p.settle
  BY DEF Plans, Entries, Creating
<1>2. t \in Seq(Operations) /\ Len(t) > Len(X) /\ Publishes(es, p.next.id, X, t)
  BY <1>1, Publishing
<1>3. Len(t) > p.settle
  BY <1>1, <1>2
<1>4. CASE Doomed(t)
  BY <1>2, <1>3, <1>4 DEF Intending
<1>5. CASE ~Doomed(t)
  <2>1. /\ Encodable(es, p.next.id) /\ First(Rename(es, p.next.id), t)
        /\ Tail(t) \in Seq(Operations) /\ Len(Tail(t)) = 1 + Len(X)
        /\ First(Sync, Tail(t)) /\ Tail(Tail(t)) = X
    BY <1>2, <1>5 DEF Publishes
  <2>2. Len(Tail(t)) > p.settle
    BY <1>1, <2>1
  <2>3. IntentSync(p, es, Tail(t))
    BY <2>1, <2>2 DEF IntentSync
  <2>. QED  BY <1>2, <1>3, <2>1, <2>3 DEF Intending
<1>. QED  BY <1>4, <1>5

(* The intent an earlier mutation left is settled first. *)
LEMMA CleaningProgram ==
  ASSUME StorageInv, NEW i \in Insts, live[i].opened, NEW p \in Plans,
         NEW X \in Seq(Operations), Len(X) > p.settle, Ready(p, disk.entries, X),
         NEW t, t = CleanPriorIntent(i) \o X
  PROVE  Len(t) > p.settle /\ t \in Seq(Operations) /\ Before(p, disk, t)
<1>1. /\ live[i].entries = disk.entries /\ live[i].cleanup = disk.cleanup
      /\ disk \in Directories
  BY DEF StorageInv, LiveAgreesWithDisk, StorageTypes
<1>2. disk.entries \in Indexes /\ disk.cleanup \in AnyId /\ NoId \in AnyId /\ p.settle \in Nat
  BY <1>1 DEF Directories, AnyId, Plans
<1>3. CASE disk.cleanup = NoId
  <2>1. t = <<>> \o X
    BY <1>1, <1>3 DEF CleanPriorIntent
  <2>2. t = X
    BY <2>1, ConcatEmptySeq
  <2>. QED  BY <2>2, <1>3 DEF Before
<1>4. CASE disk.cleanup # NoId
  <2>1. PICK R \in Seq(Operations) : R = RemoveRecordIfPresent(disk.cleanup)
    BY <1>2, ProgramParts
  <2>2. PICK I \in Seq(Operations) : I = PublishIndex(disk.entries, NoId)
    BY <1>2, ProgramParts
  <2>3. PICK Y : Y = I \o X
    OBVIOUS
  <2>4. t = R \o Y
    <3>1. t = (R \o I) \o X
      BY <1>1, <1>4, <2>1, <2>2 DEF CleanPriorIntent
    <3>. QED  BY <3>1, <2>3, ConcatAssociative
  <2>5. /\ Y \in Seq(Operations) /\ Len(Y) > Len(X)
        /\ Publishes(disk.entries, NoId, X, Y)
    BY <1>2, <2>2, <2>3, Publishing
  <2>6. Len(Y) > p.settle
    BY <2>5, <1>2
  <2>7. Resetting(p, disk.entries, Y)
    <3>1. CASE Doomed(Y)
      BY <3>1, <2>6 DEF Resetting
    <3>2. CASE ~Doomed(Y)
      <4>1. /\ Encodable(disk.entries, NoId) /\ First(Rename(disk.entries, NoId), Y)
            /\ Tail(Y) \in Seq(Operations) /\ Len(Tail(Y)) = 1 + Len(X)
            /\ First(Sync, Tail(Y)) /\ Tail(Tail(Y)) = X
        BY <2>5, <3>2 DEF Publishes
      <4>2. Len(Tail(Y)) > p.settle
        BY <1>2, <4>1
      <4>3. ResetSync(p, disk.entries, Tail(Y))
        BY <4>1, <4>2 DEF ResetSync
      <4>. QED  BY <2>6, <4>1, <4>3 DEF Resetting
    <3>. QED  BY <3>1, <3>2
  <2>8. CASE Present(disk.cleanup)
    <3>1. t = RemoveRecordIfPresent(disk.cleanup) \o Y
      BY <2>1, <2>4
    <3>2. /\ t \in Seq(Operations) /\ Len(t) > Len(Y)
          /\ First([do |-> "unlink", id |-> disk.cleanup], t)
          /\ Tail(t) \in Seq(Operations) /\ Len(Tail(t)) = 1 + Len(Y)
          /\ First(Sync, Tail(t)) /\ Tail(Tail(t)) = Y
      BY <1>2, <2>5, <2>8, <3>1, Removing
    <3>3. Len(t) > p.settle /\ Len(Tail(t)) > p.settle
      BY <1>2, <2>5, <2>6, <3>2
    <3>4. CleanSync(p, disk.entries, Tail(t))
      BY <2>7, <3>2, <3>3 DEF CleanSync
    <3>5. Cleaning(p, disk.entries, disk.cleanup, t)
      BY <3>2, <3>3, <3>4 DEF Cleaning
    <3>. QED  BY <1>4, <3>2, <3>3, <3>5 DEF Before
  <2>9. CASE ~Present(disk.cleanup)
    <3>1. t = <<>> \o Y
      BY <2>1, <2>4, <2>9 DEF RemoveRecordIfPresent
    <3>2. t = Y
      BY <3>1, <2>5, ConcatEmptySeq
    <3>3. Gone(disk)
      BY <2>9 DEF Present, Gone
    <3>. QED  BY <2>5, <2>6, <2>7, <3>2, <3>3 DEF Before
  <2>. QED  BY <2>8, <2>9
<1>. QED  BY <1>3, <1>4

-----------------------------------------------------------------------------
(* Beginning a mutation *)

(* Only one instance has the directory open, so no other runs a mutation. *)
LEMMA NobodyElse ==
  ASSUME StorageInv, NEW i \in Insts, op[i] = Idle, live[i].opened
  PROVE  \A j \in Insts : op[j] = Idle
<1>1. \A j \in Insts : op[j] # Idle => live[j].opened
  BY DEF StorageInv, Progress
<1>2. \A j \in Insts : live[j].opened => j = i
  BY DEF StorageInv, OneOpener
<1>. QED  BY <1>1, <1>2

(* A mutation begins with its name bound as promised. *)
LEMMA BeginKeepsStorage ==
  ASSUME StorageInv, NEW i \in Insts, op[i] = Idle, live[i].opened,
         NEW m \in Mutations, op' = [op EXCEPT ![i] = m],
         UNCHANGED <<disk, unsynced, live, promise>>,
         Len(m.todo) > m.settle, disk.entries[m.name] = m.found,
         m.next # NoEntry => m.next.id \in Ids /\ m.next.id \notin RecordIds(disk.entries),
         Before(Plan(m), disk, m.todo)
  PROVE  StorageInv'
<1>1. StorageTypes /\ OneOpener /\ LiveAgreesWithDisk
  BY DEF StorageInv
<1>2. Images' = Images
  BY DEF Images
<1>3. \A j \in Insts : op[j] = Idle
  BY NobodyElse
<1>4. op'[i] = m /\ \A j \in Insts : j # i => op'[j] = Idle
  BY <1>1, <1>3 DEF StorageTypes
<1>5. StorageTypes'
  BY <1>1 DEF StorageTypes
<1>6. OneOpener' /\ LiveAgreesWithDisk'
  BY <1>1 DEF OneOpener, LiveAgreesWithDisk
<1>7. \A d \in Images' : WholeImage(d)
  BY <1>2 DEF StorageInv
<1>8. \A d \in Images : \A n \in Names : d.entries[n] \in promise[n]
  BY <1>3, ExplainedByPromise
<1>9. \A d \in Images' : \A n \in Names : Explained(d, n)'
  BY <1>2, <1>8 DEF Explained
<1>10. PICK p \in Plans : p = Plan(m)
  BY DEF Plan, Plans, Mutations
<1>11. /\ p.name = m.name /\ p.found = m.found /\ p.next = m.next /\ p.settle = m.settle
       /\ p.name \in Names
  BY <1>10 DEF Plan, Plans
<1>12. \A d \in Images' : d.entries[p.name] \in promise'[p.name]
  BY <1>2, <1>8, <1>11
<1>13. Uncommitted(p, m.todo)'
  BY <1>10, <1>11, <1>12 DEF Uncommitted
<1>14. \A j \in Insts : Progress(j)'
  <2>1. Plan(op'[i]) = p /\ op'[i].todo = m.todo
    BY <1>4, <1>10
  <2>2. Progress(i)'
    BY <1>13, <2>1 DEF Progress
  <2>3. ASSUME NEW j \in Insts, j # i PROVE Progress(j)'
    BY <2>3, <1>4 DEF Progress
  <2>. QED  BY <2>2, <2>3
<1>. QED  BY <1>5, <1>6, <1>7, <1>9, <1>14 DEF StorageInv

(* An identity nothing refers to is not that of an indexed record. *)
LEMMA UnusedIsNew ==
  ASSUME NEW new \in Unused
  PROVE  new \in Ids /\ new \notin RecordIds(disk.entries)
<1>1. ASSUME NEW n \in Names PROVE disk.entries[n].id \in Referenced
  <2>. DEFINE indexed == {{d.entries[k] : k \in Names} : d \in Images}
              metas == UNION (indexed
                      \cup {{live[i].entries[k] : k \in Names} : i \in Insts}
                      \cup {promise[k] : k \in Names}
                      \cup {{op[i].found, op[i].next} : i \in Insts})
  <2>1. {m.id : m \in metas} \subseteq Referenced
    BY DEF Referenced
  <2>2. {disk.entries[k] : k \in Names} \in indexed
    BY DEF Images
  <2>. HIDE DEF indexed
  <2>3. disk.entries[n] \in metas
    BY <2>2
  <2>. HIDE DEF metas
  <2>. QED  BY <2>1, <2>3
<1>. QED  BY <1>1 DEF Unused, RecordIds

(* The record of an indexed credential is there. *)
LEMMA IndexedIsPresent ==
  ASSUME StorageInv, NEW n \in Names, disk.entries[n] # NoEntry
  PROVE  Present(disk.entries[n].id) /\ disk.entries[n].id \in Ids
<1>1. disk \in Images
  BY DEF Images
<1>2. /\ disk.entries[n].id \in Ids
      /\ Whole(disk.entries[n]) \in disk.records
  BY <1>1 DEF StorageInv, WholeImage
<1>3. Whole(disk.entries[n]).id = disk.entries[n].id
  BY DEF Whole
<1>. QED  BY <1>2, <1>3 DEF Present

(* The settlement is a program, whatever identity it is given. *)
LEMMA SettlementIsProgram ==
  ASSUME NEW es \in Indexes, NEW c \in AnyId
  PROVE  SettleCommittedCleanup(es, c) \in Seq(Operations)
<1>1. NoId \in AnyId
  BY DEF AnyId
<1>2. RemoveRecordIfPresent(c) \in Seq(Operations) /\ PublishIndex(es, NoId) \in Seq(Operations)
  BY <1>1, ProgramParts
<1>. QED  BY <1>2 DEF SettleCommittedCleanup

(* Two programs in a row are a program. *)
LEMMA Joined ==
  ASSUME NEW u \in Seq(Operations), NEW v \in Seq(Operations)
  PROVE  u \o v \in Seq(Operations)
BY ConcatProperties

\* Concatenation, kept opaque for the provers.
Join(u, v) == u \o v

(* Join is associative. *)
LEMMA JoinAssociative ==
  ASSUME NEW u \in Seq(Operations), NEW v \in Seq(Operations), NEW w \in Seq(Operations)
  PROVE  Join(u, v) \in Seq(Operations) /\ Join(Join(u, v), w) = Join(u, Join(v, w))
<1>1. u \o v \in Seq(Operations)
  BY Joined
<1>2. (u \o v) \o w = u \o (v \o w)
  BY ConcatAssociative
<1>. QED  BY <1>1, <1>2 DEF Join

(* Five programs in a row, from the left and from the right. *)
LEMMA Regrouped ==
  ASSUME NEW a \in Seq(Operations), NEW b \in Seq(Operations), NEW c \in Seq(Operations),
         NEW d \in Seq(Operations), NEW l \in Seq(Operations)
  PROVE  Join(Join(Join(Join(a, b), c), d), l) = Join(a, Join(b, Join(c, Join(d, l))))
<1>1. Join(a, b) \in Seq(Operations)
  BY JoinAssociative
<1>2. Join(Join(a, b), c) \in Seq(Operations)
  BY <1>1, JoinAssociative
<1>3. Join(d, l) \in Seq(Operations)
  BY JoinAssociative
<1>4. Join(c, Join(d, l)) \in Seq(Operations)
  BY <1>3, JoinAssociative
<1>5. Join(Join(Join(Join(a, b), c), d), l) = Join(Join(Join(a, b), c), Join(d, l))
  BY <1>2, JoinAssociative
<1>6. Join(Join(Join(a, b), c), Join(d, l)) = Join(Join(a, b), Join(c, Join(d, l)))
  BY <1>1, <1>3, JoinAssociative
<1>7. Join(Join(a, b), Join(c, Join(d, l))) = Join(a, Join(b, Join(c, Join(d, l))))
  BY <1>4, JoinAssociative
<1>. QED  BY <1>5, <1>6, <1>7

(* CleanPriorIntent is a program. *)
LEMMA CleaningIsProgram ==
  ASSUME StorageInv, NEW i \in Insts
  PROVE  CleanPriorIntent(i) \in Seq(Operations)
<1>1. live[i].cleanup \in AnyId /\ live[i].entries \in Indexes /\ NoId \in AnyId
  BY DEF StorageInv, StorageTypes, AnyId
<1>2. /\ RemoveRecordIfPresent(live[i].cleanup) \in Seq(Operations)
      /\ PublishIndex(live[i].entries, NoId) \in Seq(Operations)
  BY <1>1, ProgramParts
<1>. QED  BY <1>2 DEF CleanPriorIntent

(* CREATE [OR REPLACE] PERSISTENT SECRET. *)
LEMMA StoreKeepsStorage ==
  ASSUME StorageInv, NEW i \in Insts, NEW n \in Names, NEW b \in BOOLEAN,
         StorePersistent(i, n, b)
  PROVE  StorageInv'
<1>1. PICK es \in Indexes : es = disk.entries
  BY DEF StorageInv, StorageTypes, Directories
<1>2. /\ op[i] = Idle /\ live[i].opened
      /\ UNCHANGED <<disk, unsynced, live, promise>>
  BY DEF StorePersistent
<1>3. live[i].entries = es /\ live[i].cleanup = disk.cleanup
  BY <1>1, <1>2 DEF StorageInv, LiveAgreesWithDisk
<1>4. PICK found \in Entries : found = es[n]
  BY <1>1 DEF Indexes
<1>5. PICK new \in Unused :
      \E authority \in IF found = NoEntry THEN {new} ELSE AuthorityRead(i, found) :
      \E superseded \in IF found = NoEntry THEN {NoId} ELSE RecordIdRead(i, found, new) :
        Begin(i, n, found, [id |-> new, authority |-> authority],
              StoreProgram(i, n, [id |-> new, authority |-> authority], superseded),
              SettleCommittedCleanup(
                [es EXCEPT ![n] = [id |-> new, authority |-> authority]], superseded))
  BY <1>3, <1>4 DEF StorePersistent
<1>6. PICK authority \in IF found = NoEntry THEN {new} ELSE AuthorityRead(i, found) :
      \E superseded \in IF found = NoEntry THEN {NoId} ELSE RecordIdRead(i, found, new) :
        Begin(i, n, found, [id |-> new, authority |-> authority],
              StoreProgram(i, n, [id |-> new, authority |-> authority], superseded),
              SettleCommittedCleanup(
                [es EXCEPT ![n] = [id |-> new, authority |-> authority]], superseded))
  BY <1>5
<1>7. PICK superseded \in IF found = NoEntry THEN {NoId} ELSE RecordIdRead(i, found, new) :
        Begin(i, n, found, [id |-> new, authority |-> authority],
              StoreProgram(i, n, [id |-> new, authority |-> authority], superseded),
              SettleCommittedCleanup(
                [es EXCEPT ![n] = [id |-> new, authority |-> authority]], superseded))
  BY <1>6
<1>8. new \in Ids /\ new \notin RecordIds(es)
  BY <1>1, UnusedIsNew
<1>9. authority \in AnyId /\ superseded \in AnyId
  <2>1. found.id \in AnyId /\ found.authority \in AnyId /\ Garbage \in AnyId /\ NoId \in AnyId
        /\ new \in AnyId
    BY <1>8 DEF Entries, AnyId
  <2>. QED  BY <2>1, <1>6, <1>7 DEF AuthorityRead, RecordIdRead
<1>10. PICK e \in Entries : e = [id |-> new, authority |-> authority]
  BY <1>8, <1>9 DEF Entries, AnyId
<1>11. e.id = new /\ e # NoEntry
  BY <1>8, <1>10, StorageAssumption DEF NoEntry
<1>12. PICK committed \in Indexes : committed = [es EXCEPT ![n] = e]
  BY DEF Indexes
<1>13. committed[n] = e /\ new \in RecordIds(committed)
  <2>1. committed[n] = e
    BY <1>12 DEF Indexes
  <2>. QED  BY <2>1, <1>8, <1>11, StorageAssumption DEF RecordIds
<1>14. PICK L \in Seq(Operations) : L = SettleCommittedCleanup(committed, superseded)
  BY <1>9, SettlementIsProgram
<1>15. PICK p \in Plans : p = [name |-> n, found |-> found, next |-> e, settle |-> Len(L)]
  <2>1. Len(L) \in Nat
    OBVIOUS
  <2>. QED  BY <2>1 DEF Plans
<1>16. p.name = n /\ p.found = found /\ p.next = e /\ p.settle = Len(L)
  BY <1>15
<1>17. Committed(p, es) = committed
  BY <1>12, <1>16 DEF Committed
<1>18. \/ superseded = found.id /\ Settling(committed, superseded, L)
       \/ ~Encodable(committed, superseded)
  <2>1. CASE superseded = new \/ superseded = Garbage
    BY <2>1, <1>13 DEF Encodable
  <2>2. CASE superseded = found.id
    <3>1. superseded # NoId => Present(superseded)
      <4>1. found # NoEntry => Present(found.id)
        BY <1>1, <1>4, IndexedIsPresent
      <4>. QED  BY <4>1, <2>2 DEF NoEntry
    <3>. QED  BY <2>2, <3>1, <1>9, <1>14, SettlementProgram
  <2>3. superseded \in {new, Garbage, found.id}
    BY <1>7 DEF RecordIdRead, NoEntry
  <2>. QED  BY <2>1, <2>2, <2>3
<1>19. PICK C \in Seq(Operations) : C = PublishIndex(committed, superseded)
  BY <1>9, ProgramParts
<1>20. PICK D \in Seq(Operations) : D = C \o L
  BY Joined
<1>21. Committing(p, es, D)
  BY <1>9, <1>16, <1>17, <1>18, <1>19, <1>20, CommittingProgram
<1>22. PICK W \in Seq(Operations) : W = WriteRecord(e)
  BY ProgramParts
<1>23. PICK F \in Seq(Operations) : F = W \o D
  BY Joined
<1>24. Creating(p, es, F)
  BY <1>16, <1>21, <1>22, <1>23, CreatingProgram
<1>25. PICK I \in Seq(Operations) : I = PublishIndex(es, new)
  BY <1>8, ProgramParts DEF AnyId
<1>26. PICK G \in Seq(Operations) : G = I \o F
  BY Joined
<1>27. Intending(p, es, G)
  BY <1>11, <1>16, <1>24, <1>25, <1>26, IntendingProgram
<1>28. Ready(p, es, G) /\ Len(G) > p.settle
  BY <1>11, <1>16, <1>27 DEF Ready, Intending
<1>29. PICK A \in Seq(Operations) : A = CleanPriorIntent(i)
  BY CleaningIsProgram
<1>30. PICK t : t = A \o G
  OBVIOUS
<1>31. Len(t) > p.settle /\ t \in Seq(Operations) /\ Before(p, disk, t)
  BY <1>1, <1>2, <1>28, <1>29, <1>30, CleaningProgram
<1>32. StoreProgram(i, n, e, superseded) \o L = t
  <2>1. StoreProgram(i, n, e, superseded) = ((A \o I) \o W) \o C
    BY <1>3, <1>11, <1>12, <1>19, <1>22, <1>25, <1>29 DEF StoreProgram
  <2>2. StoreProgram(i, n, e, superseded) \o L = Join(Join(Join(Join(A, I), W), C), L)
    BY <2>1, Zenon DEF Join
  <2>3. t = Join(A, Join(I, Join(W, Join(C, L))))
    BY <1>20, <1>23, <1>26, <1>30, Zenon DEF Join
  <2>. QED  BY <2>2, <2>3, Regrouped
<1>33. PICK m : m = [todo |-> t, settle |-> Len(L), name |-> n, found |-> found, next |-> e]
  OBVIOUS
<1>34. /\ m \in Mutations /\ m.todo = t /\ m.settle = Len(L) /\ m.name = n
       /\ m.found = found /\ m.next = e /\ Plan(m) = p
  BY <1>15, <1>31, <1>33 DEF Mutations, Plan
<1>35. op' = [op EXCEPT ![i] = m]
  BY <1>7, <1>10, <1>12, <1>14, <1>32, <1>33 DEF Begin
<1>. QED  BY <1>1, <1>2, <1>4, <1>8, <1>11, <1>16, <1>31, <1>34, <1>35, BeginKeepsStorage

(* DROP PERSISTENT SECRET. *)
LEMMA DropKeepsStorage ==
  ASSUME StorageInv, NEW i \in Insts, NEW n \in Names, DropPersistent(i, n)
  PROVE  StorageInv'
<1>1. PICK es \in Indexes : es = disk.entries
  BY DEF StorageInv, StorageTypes, Directories
<1>2. /\ op[i] = Idle /\ live[i].opened
      /\ UNCHANGED <<disk, unsynced, live, promise>>
  BY DEF DropPersistent
<1>3. live[i].entries = es /\ live[i].cleanup = disk.cleanup
  BY <1>1, <1>2 DEF StorageInv, LiveAgreesWithDisk
<1>4. PICK found \in Entries : found = es[n]
  BY <1>1 DEF Indexes
<1>5. found # NoEntry
  BY <1>3, <1>4 DEF DropPersistent
<1>6. PICK removed \in RecordIdRead(i, found, NoId) :
        Begin(i, n, found, NoEntry,
              CleanPriorIntent(i) \o PublishIndex([es EXCEPT ![n] = NoEntry], removed),
              SettleCommittedCleanup([es EXCEPT ![n] = NoEntry], removed))
  BY <1>3, <1>4 DEF DropPersistent
<1>7. removed \in {found.id, Garbage} /\ removed \in AnyId
  <2>1. found.id \in AnyId /\ Garbage \in AnyId
    BY DEF Entries, AnyId
  <2>. QED  BY <2>1, <1>6 DEF RecordIdRead
<1>8. NoEntry \in Entries
  BY DEF NoEntry, Entries, AnyId
<1>9. PICK committed \in Indexes : committed = [es EXCEPT ![n] = NoEntry]
  BY <1>8 DEF Indexes
<1>10. PICK L \in Seq(Operations) : L = SettleCommittedCleanup(committed, removed)
  BY <1>7, SettlementIsProgram
<1>11. PICK p \in Plans : p = [name |-> n, found |-> found, next |-> NoEntry, settle |-> Len(L)]
  <2>1. Len(L) \in Nat
    OBVIOUS
  <2>. QED  BY <2>1, <1>8 DEF Plans
<1>12. p.name = n /\ p.found = found /\ p.next = NoEntry /\ p.settle = Len(L)
  BY <1>11
<1>13. Committed(p, es) = committed
  BY <1>9, <1>12 DEF Committed
<1>14. \/ removed = found.id /\ Settling(committed, removed, L)
       \/ ~Encodable(committed, removed)
  <2>1. CASE removed = Garbage
    BY <2>1 DEF Encodable
  <2>2. CASE removed = found.id
    <3>1. Present(removed)
      BY <1>1, <1>4, <1>5, <2>2, IndexedIsPresent
    <3>. QED  BY <2>2, <3>1, <1>7, <1>10, SettlementProgram
  <2>. QED  BY <2>1, <2>2, <1>7
<1>15. PICK C \in Seq(Operations) : C = PublishIndex(committed, removed)
  BY <1>7, ProgramParts
<1>16. PICK D \in Seq(Operations) : D = C \o L
  BY Joined
<1>17. Committing(p, es, D)
  BY <1>7, <1>12, <1>13, <1>14, <1>15, <1>16, CommittingProgram
<1>18. Ready(p, es, D) /\ Len(D) > p.settle
  BY <1>12, <1>17 DEF Ready, Committing
<1>19. PICK A \in Seq(Operations) : A = CleanPriorIntent(i)
  BY CleaningIsProgram
<1>20. PICK t : t = A \o D
  OBVIOUS
<1>21. Len(t) > p.settle /\ t \in Seq(Operations) /\ Before(p, disk, t)
  BY <1>1, <1>2, <1>18, <1>19, <1>20, CleaningProgram
<1>22. (CleanPriorIntent(i) \o PublishIndex(committed, removed)) \o L = t
  <2>1. (CleanPriorIntent(i) \o PublishIndex(committed, removed)) \o L = Join(Join(A, C), L)
    BY <1>15, <1>19, Zenon DEF Join
  <2>2. t = Join(A, Join(C, L))
    BY <1>16, <1>20, Zenon DEF Join
  <2>. QED  BY <2>1, <2>2, JoinAssociative
<1>23. PICK m : m = [todo |-> t, settle |-> Len(L), name |-> n, found |-> found,
                     next |-> NoEntry]
  OBVIOUS
<1>24. /\ m \in Mutations /\ m.todo = t /\ m.settle = Len(L) /\ m.name = n
       /\ m.found = found /\ m.next = NoEntry /\ Plan(m) = p
  BY <1>8, <1>11, <1>21, <1>23 DEF Mutations, Plan
<1>25. op' = [op EXCEPT ![i] = m]
  BY <1>6, <1>9, <1>10, <1>22, <1>23 DEF Begin
<1>. QED  BY <1>1, <1>2, <1>4, <1>12, <1>21, <1>24, <1>25, BeginKeepsStorage

-----------------------------------------------------------------------------
(* Temporary secrets, and the invariant *)

(* What the steps of an instance leave of its temporary secrets and of the
   provider's resolution, when each either keeps them or forgets them. *)
LEMMA ForgettingKeepsSecrets ==
  ASSUME SecretTypes, Marked, NEW is, Forget(is)
  PROVE  SecretTypes' /\ Marked'
<1>1. /\ temporary' = [i \in Insts |-> IF i \in is THEN {} ELSE temporary[i]]
      /\ mark' = [i \in Insts |-> i \notin is /\ mark[i]]
      /\ creating' = [i \in Insts |-> IF i \in is THEN "" ELSE creating[i]]
      /\ look' = [i \in Insts |-> IF i \in is THEN NoLook ELSE look[i]]
  BY DEF Forget
<1>2. /\ NoLook \in [name : TemporaryNames \cup {""}, seen : BOOLEAN, present : BOOLEAN]
      /\ NoLook.present = FALSE
  BY DEF NoLook
<1>3. SecretTypes'
  <2>1. temporary' \in [Insts -> SUBSET TemporaryNames]
    BY <1>1 DEF SecretTypes
  <2>2. mark' \in [Insts -> BOOLEAN]
    BY <1>1 DEF SecretTypes
  <2>3. creating' \in [Insts -> TemporaryNames \cup {""}]
    BY <1>1 DEF SecretTypes
  <2>4. look' \in [Insts -> [name : TemporaryNames \cup {""}, seen : BOOLEAN,
                             present : BOOLEAN]]
    BY <1>1, <1>2 DEF SecretTypes
  <2>. QED  BY <2>1, <2>2, <2>3, <2>4 DEF SecretTypes
<1>4. ASSUME NEW i \in Insts
      PROVE  /\ temporary'[i] # {} \/ creating'[i] # "" => mark'[i]
             /\ look'[i].present => look'[i].seen
             /\ look'[i] # NoLook => look'[i].name \in Names
  <2>1. CASE i \in is
    <3>1. temporary'[i] = {} /\ creating'[i] = "" /\ look'[i] = NoLook
      BY <1>1, <2>1
    <3>. QED  BY <3>1, <1>2
  <2>2. CASE i \notin is
    <3>1. /\ temporary'[i] = temporary[i] /\ creating'[i] = creating[i]
          /\ look'[i] = look[i] /\ mark'[i] = mark[i]
      BY <1>1, <2>2 DEF SecretTypes
    <3>. QED  BY <3>1 DEF Marked
  <2>. QED  BY <2>1, <2>2
<1>. QED  BY <1>3, <1>4 DEF Marked

(* Creating, storing and dropping a temporary secret. *)
LEMMA TemporaryKeepsSecrets ==
  ASSUME SecretTypes, Marked, NEW i \in Insts,
         \/ StoreTemporary(i)
         \/ \E n \in TemporaryNames : CreateTemporary(i, n) \/ DropTemporary(i, n)
  PROVE  SecretTypes' /\ Marked'
<1>1. ASSUME NEW n \in TemporaryNames, CreateTemporary(i, n) PROVE SecretTypes' /\ Marked'
  BY <1>1 DEF CreateTemporary, SecretTypes, Marked
<1>2. CASE StoreTemporary(i)
  BY <1>2 DEF StoreTemporary, SecretTypes, Marked
<1>3. ASSUME NEW n \in TemporaryNames, DropTemporary(i, n) PROVE SecretTypes' /\ Marked'
  BY <1>3 DEF DropTemporary, SecretTypes, Marked
<1>. QED  BY <1>1, <1>2, <1>3

(* What the first half of a resolution remembers. *)
LEMMA LookedUp ==
  ASSUME NEW n \in TemporaryNames, NEW T, NEW m \in BOOLEAN, n \in T => m,
         NEW l, l = [name |-> n, seen |-> m /\ n \in T, present |-> n \in T]
  PROVE  /\ l \in [name : TemporaryNames \cup {""}, seen : BOOLEAN, present : BOOLEAN]
         /\ l.present => l.seen
<1>1. l \in [name : TemporaryNames \cup {""}, seen : BOOLEAN, present : BOOLEAN]
  <2>1. PICK N : N = TemporaryNames \cup {""}
    OBVIOUS
  <2>2. n \in N
    BY <2>1
  <2>3. l \in [name : N, seen : BOOLEAN, present : BOOLEAN]
    BY <2>2
  <2>. QED  BY <2>1, <2>3
<1>2. l.present => l.seen
  OBVIOUS
<1>. QED  BY <1>1, <1>2

(* The provider's resolution. *)
LEMMA ResolutionKeepsSecrets ==
  ASSUME SecretTypes, Marked, NEW i \in Insts,
         \/ \E n \in TemporaryNames : ResolveMemory(i, n)
         \/ ResolvePersistent(i) \/ ResolveFails(i)
  PROVE  SecretTypes' /\ Marked'
<1>1. PICK l : l = look'[i]
  OBVIOUS
<1>2. /\ UNCHANGED <<temporary, mark, creating>>
      /\ look' = [look EXCEPT ![i] = l]
  BY <1>1 DEF ResolveMemory, ResolvePersistent, ResolveFails, SecretTypes
<1>3. /\ NoLook \in [name : TemporaryNames \cup {""}, seen : BOOLEAN, present : BOOLEAN]
      /\ NoLook.present = FALSE
  BY DEF NoLook
<1>4. /\ l \in [name : TemporaryNames \cup {""}, seen : BOOLEAN, present : BOOLEAN]
      /\ l.present => l.seen
      /\ l # NoLook => l.name \in Names
  <2>1. ASSUME NEW n \in TemporaryNames, ResolveMemory(i, n)
        PROVE  /\ l \in [name : TemporaryNames \cup {""}, seen : BOOLEAN, present : BOOLEAN]
               /\ l.present => l.seen
               /\ l # NoLook => l.name \in Names
    <3>1. l = [name |-> n, seen |-> mark[i] /\ n \in temporary[i],
               present |-> n \in temporary[i]]
      BY <1>1, <2>1 DEF ResolveMemory, SecretTypes
    <3>2. mark[i] \in BOOLEAN /\ (n \in temporary[i] => mark[i])
      BY DEF SecretTypes, Marked
    <3>3. n \in Names
      BY StorageAssumption
    <3>4. l.name = n
      BY <3>1
    <3>. QED  BY <3>1, <3>2, <3>3, <3>4, LookedUp
  <2>2. CASE ResolvePersistent(i) \/ ResolveFails(i)
    <3>1. l = NoLook
      BY <1>1, <2>2 DEF ResolvePersistent, ResolveFails, SecretTypes
    <3>. QED  BY <3>1, <1>3
  <2>. QED  BY <2>1, <2>2
<1>5. SecretTypes'
  BY <1>2, <1>4 DEF SecretTypes
<1>6. look'[i] = l /\ \A j \in Insts : j # i => look'[j] = look[j]
  BY <1>2 DEF SecretTypes
<1>7. Marked'
  BY <1>2, <1>4, <1>6 DEF Marked
<1>. QED  BY <1>5, <1>7

(* The invariant holds of the empty directory. *)
LEMMA InitIInv ==
  Init => IInv
<1>. SUFFICES ASSUME Init PROVE IInv
  OBVIOUS
<1>. USE DEF Init
<1>1. /\ NoEntries \in Indexes /\ NoId \in AnyId /\ NoEntry \in Entries
      /\ \A n \in Names : NoEntries[n] = NoEntry
  BY DEF NoEntries, NoEntry, Indexes, Entries, AnyId
<1>2. /\ disk.entries = NoEntries /\ disk.cleanup = NoId /\ disk.records = {}
      /\ disk \in Directories
  BY <1>1 DEF Directories
<1>3. /\ Fresh \in [active : BOOLEAN, opened : BOOLEAN, entries : Indexes, cleanup : AnyId]
      /\ Fresh.opened = FALSE /\ Fresh.entries = NoEntries
  BY FreshInstances
<1>4. /\ NoLook \in [name : TemporaryNames \cup {""}, seen : BOOLEAN, present : BOOLEAN]
      /\ NoLook.present = FALSE
  BY DEF NoLook
<1>5. StorageTypes
  BY <1>1, <1>2, <1>3 DEF StorageTypes
<1>6. SecretTypes
  BY <1>4 DEF SecretTypes
<1>7. Images = {disk}
  BY DEF Images
<1>8. \A d \in Images : WholeImage(d)
  BY <1>1, <1>2, <1>7 DEF WholeImage, RecordIds
<1>9. OneOpener /\ LiveAgreesWithDisk
  BY <1>3 DEF OneOpener, LiveAgreesWithDisk
<1>10. \A d \in Images : \A n \in Names : Explained(d, n)
  BY <1>1, <1>2, <1>7 DEF Explained
<1>11. \A i \in Insts : Progress(i)
  BY DEF Progress
<1>12. Marked
  BY <1>4 DEF Marked
<1>. QED  BY <1>5, <1>6, <1>8, <1>9, <1>10, <1>11, <1>12 DEF IInv, StorageInv

(* Every step keeps the invariant. *)
LEMMA NextIInv ==
  IInv /\ [Next]_vars => IInv'
<1>. SUFFICES ASSUME IInv, [Next]_vars PROVE IInv'
  OBVIOUS
<1>1. StorageInv /\ SecretTypes /\ Marked
  BY DEF IInv
<1>2. CASE UNCHANGED vars
  <2>1. StorageInv'
    BY <1>1, <1>2, SameStorage DEF vars
  <2>2. SecretTypes' /\ Marked'
    BY <1>1, <1>2 DEF vars, SecretTypes, Marked
  <2>. QED  BY <2>1, <2>2 DEF IInv
<1>3. CASE PowerLoss
  <2>1. StorageInv'
    BY <1>1, <1>3, PowerLossKeepsStorage
  <2>2. SecretTypes' /\ Marked'
    BY <1>1, <1>3, ForgettingKeepsSecrets DEF PowerLoss
  <2>. QED  BY <2>1, <2>2 DEF IInv
<1>4. ASSUME UNCHANGED <<temporary, mark, creating, look>>
      PROVE  SecretTypes' /\ Marked'
  BY <1>1, <1>4 DEF SecretTypes, Marked
<1>5. ASSUME NEW i \in Insts, AllPersistent(i) PROVE IInv'
  <2>1. StorageInv'
    BY <1>1, <1>5, OpeningKeepsStorage DEF AllPersistent
  <2>. QED  BY <2>1, <1>4, <1>5 DEF IInv, AllPersistent
<1>6. ASSUME NEW i \in Insts, Step(i) PROVE IInv'
  <2>1. StorageInv'
    BY <1>1, <1>6, StepKeepsStorage
  <2>. QED  BY <2>1, <1>4, <1>6 DEF IInv, Step
<1>7. ASSUME NEW i \in Insts, StepFails(i) \/ Throws(i) PROVE IInv'
  <2>1. op[i] # Idle /\ Raise(i)
    BY <1>7 DEF StepFails, Throws
  <2>2. StorageInv'
    BY <1>1, <2>1, RaiseKeepsStorage
  <2>. QED  BY <2>1, <2>2, <1>4 DEF IInv, Raise
<1>8. ASSUME NEW i \in Insts, NEW n \in Names, DropPersistent(i, n) PROVE IInv'
  <2>1. StorageInv'
    BY <1>1, <1>8, DropKeepsStorage
  <2>. QED  BY <2>1, <1>4, <1>8 DEF IInv, DropPersistent
<1>9. ASSUME NEW i \in Insts, NEW n \in Names, NEW b \in BOOLEAN, StorePersistent(i, n, b)
      PROVE  IInv'
  <2>1. StorageInv'
    BY <1>1, <1>9, StoreKeepsStorage
  <2>. QED  BY <2>1, <1>4, <1>9 DEF IInv, StorePersistent
<1>10. ASSUME NEW i \in Insts,
              \/ StoreTemporary(i)
              \/ \E n \in TemporaryNames : CreateTemporary(i, n) \/ DropTemporary(i, n)
       PROVE  IInv'
  <2>1. SecretTypes' /\ Marked'
    BY <1>1, <1>10, TemporaryKeepsSecrets
  <2>2. UNCHANGED <<disk, unsynced, live, op, promise>>
    BY <1>10 DEF CreateTemporary, StoreTemporary, DropTemporary
  <2>3. StorageInv'
    BY <1>1, <2>2, SameStorage
  <2>. QED  BY <2>1, <2>3 DEF IInv
<1>11. ASSUME NEW i \in Insts,
              \/ \E n \in TemporaryNames : ResolveMemory(i, n)
              \/ ResolvePersistent(i) \/ ResolveFails(i)
       PROVE  IInv'
  <2>1. SecretTypes' /\ Marked'
    BY <1>1, <1>11, ResolutionKeepsSecrets
  <2>2. CASE UNCHANGED <<disk, unsynced, live, op, promise>>
    BY <1>1, <2>1, <2>2, SameStorage DEF IInv
  <2>3. CASE EnsureOpen(i) /\ UNCHANGED <<disk, unsynced, op, promise>>
    BY <1>1, <2>1, <2>3, OpeningKeepsStorage DEF IInv
  <2>. QED  BY <2>2, <2>3, <1>11 DEF ResolveMemory, ResolvePersistent, ResolveFails
<1>12. ASSUME NEW i \in Insts, Shutdown(i) PROVE IInv'
  <2>1. SecretTypes' /\ Marked'
    BY <1>1, <1>12, ForgettingKeepsSecrets DEF Shutdown
  <2>2. op' = op
    <3>1. /\ op[i] = Idle
          /\ op' = [j \in Insts |-> IF j \in {i} THEN Idle ELSE op[j]]
      BY <1>12 DEF Shutdown, Forget
    <3>. QED  BY <3>1, <1>1 DEF StorageInv, StorageTypes
  <2>3. PICK f : f = [Fresh EXCEPT !.active = FALSE]
    OBVIOUS
  <2>4. /\ op[i] = Idle /\ live' = [live EXCEPT ![i] = f]
        /\ UNCHANGED <<disk, unsynced, promise>>
    BY <1>12, <2>3 DEF Shutdown
  <2>5. StorageInv'
    BY <1>1, <2>2, <2>3, <2>4, ClosingKeepsStorage
  <2>. QED  BY <2>1, <2>5 DEF IInv
<1>13. ASSUME NEW i \in Insts, Restart(i) PROVE IInv'
  <2>1. op[i] = Idle
    BY <1>1, <1>13 DEF Restart, StorageInv, Progress, OneOpener
  <2>2. /\ live' = [live EXCEPT ![i] = Fresh]
        /\ UNCHANGED <<disk, unsynced, op, promise>>
        /\ UNCHANGED <<temporary, mark, creating, look>>
    BY <1>13 DEF Restart
  <2>3. StorageInv'
    BY <1>1, <2>1, <2>2, ClosingKeepsStorage
  <2>. QED  BY <2>2, <2>3, <1>4 DEF IInv
<1>14. ASSUME NEW i \in Insts, ProcessDies(i) PROVE IInv'
  <2>1. StorageInv'
    BY <1>1, <1>14, DeathKeepsStorage
  <2>2. SecretTypes' /\ Marked'
    BY <1>1, <1>14, ForgettingKeepsSecrets DEF ProcessDies
  <2>. QED  BY <2>1, <2>2 DEF IInv
<1>. QED
  <2>1. CASE Next
    BY <2>1, <1>3, <1>5, <1>6, <1>7, <1>8, <1>9, <1>10, <1>11, <1>12, <1>13, <1>14 DEF Next
  <2>. QED  BY <2>1, <1>2

-----------------------------------------------------------------------------
(* Theorems *)

(* Every reachable state satisfies the invariant. *)
THEOREM Invariance ==
  Spec => []IInv
<1>1. Init => IInv
  BY InitIInv
<1>2. IInv /\ [Next]_vars => IInv'
  BY NextIInv
<1>. QED  BY <1>1, <1>2, PTL DEF Spec

(* The state has its types: in particular, every index, record and program
   a crash can interrupt is well formed. *)
THEOREM TypeCorrect ==
  Spec => []TypeOK
<1>1. IInv => TypeOK
  BY DEF IInv, StorageInv, TypeOK
<1>. QED  BY <1>1, Invariance, PTL

(* Every directory a failure, a death of the process or a loss of power can
   leave, between any two file operations of a mutation, is whole: each
   indexed credential has its complete record, and each other record is the
   one the clean-up intent names. *)
THEOREM CrashesLeaveWholeDirectories ==
  Spec => []EveryImageWhole
<1>1. IInv => EveryImageWhole
  BY DEF IInv, StorageInv, EveryImageWhole, WholeImage
<1>. QED  BY <1>1, Invariance, PTL

(* What a caller was told about a credential is what any crash leaves. *)
THEOREM AcknowledgementsSurvive ==
  Spec => []AcknowledgedSurvives
<1>1. IInv => AcknowledgedSurvives
  <2>. SUFFICES ASSUME IInv, NEW d \in Images, NEW n \in Names
                PROVE  d.entries[n] \in promise[n] \cup
                         {op[i].next : i \in {j \in Insts : op[j] # Idle /\ op[j].name = n}}
    BY DEF AcknowledgedSurvives
  <2>1. Explained(d, n)
    BY DEF IInv, StorageInv
  <2>. QED  BY <2>1 DEF Explained
<1>. QED  BY <1>1, Invariance, PTL

(* The open instance selects from exactly the index on disk. *)
THEOREM LiveIndexIsDisk ==
  Spec => []LiveAgreesWithDisk
<1>1. IInv => LiveAgreesWithDisk
  BY DEF IInv, StorageInv
<1>. QED  BY <1>1, Invariance, PTL

(* What the second half of a resolution finds. *)
LEMMA ResolutionFinds ==
  ASSUME IInv, NEW i \in Insts, ResolvePersistent(i)
  PROVE  /\ Outcome(i, live'[i].entries) # "unreadable"
         /\ Outcome(i, live'[i].entries) \in {"persistent", "missing"} => ~look[i].present
<1>1. StorageInv /\ SecretTypes /\ Marked
  BY DEF IInv
<1>2. look[i] # NoLook /\ (IF i \in PersistentOff THEN live' = live ELSE EnsureOpen(i))
  BY DEF ResolvePersistent
<1>3. PICK n \in Names : n = look[i].name
  BY <1>1, <1>2 DEF Marked
<1>4. PICK e : e = live'[i].entries[n]
  OBVIOUS
<1>5. e = NoEntry \/ Whole(e) \in disk.records
  <2>1. CASE i \in PersistentOff
    <3>1. live'[i].entries = NoEntries
      BY <1>1, <1>2, <2>1 DEF StorageInv, OneOpener
    <3>. QED  BY <3>1, <1>4 DEF NoEntries
  <2>2. CASE i \notin PersistentOff
    <3>1. live'[i].entries = disk.entries
      BY <1>1, <1>2, <2>2 DEF EnsureOpen, StorageInv, LiveAgreesWithDisk, StorageTypes
    <3>2. disk \in Images
      BY DEF Images
    <3>3. disk.entries[n] # NoEntry => Whole(disk.entries[n]) \in disk.records
      BY <1>1, <3>2 DEF StorageInv, WholeImage
    <3>. QED  BY <3>1, <3>3, <1>4
  <2>. QED  BY <2>1, <2>2
<1>6. look[i].seen \in BOOLEAN /\ look[i].present \in BOOLEAN
      /\ (look[i].present => look[i].seen)
  BY <1>1 DEF SecretTypes, Marked
<1>7. CASE e = NoEntry /\ look[i].seen
  <2>1. Outcome(i, live'[i].entries) = "memory"
    BY <1>3, <1>4, <1>7 DEF Outcome
  <2>. QED  BY <2>1
<1>8. CASE e # NoEntry /\ look[i].seen
  <2>1. Outcome(i, live'[i].entries) = "ambiguous"
    BY <1>3, <1>4, <1>5, <1>8 DEF Outcome
  <2>. QED  BY <2>1
<1>9. CASE e = NoEntry /\ ~look[i].seen
  <2>1. Outcome(i, live'[i].entries) = "missing"
    BY <1>3, <1>4, <1>9 DEF Outcome
  <2>. QED  BY <2>1, <1>6, <1>9
<1>10. CASE e # NoEntry /\ ~look[i].seen
  <2>1. Outcome(i, live'[i].entries) = "persistent"
    BY <1>3, <1>4, <1>5, <1>10 DEF Outcome
  <2>. QED  BY <2>1, <1>6, <1>10
<1>. QED  BY <1>6, <1>7, <1>8, <1>9, <1>10

(* A resolution returns the persistent credential only if no temporary
   secret of that name was stored when it looked, and never finds a
   committed credential unreadable. *)
THEOREM ResolutionIsUnambiguous ==
  Spec => ResolvedUnambiguously
<1>1. IInv /\ [Next]_vars =>
        [\A i \in Insts : ResolvePersistent(i) =>
           /\ Outcome(i, live'[i].entries) # "unreadable"
           /\ Outcome(i, live'[i].entries) \in {"persistent", "missing"}
                => ~look[i].present]_vars
  BY ResolutionFinds
<1>. QED  BY <1>1, Invariance, PTL DEF Spec, ResolvedUnambiguously
=============================================================================

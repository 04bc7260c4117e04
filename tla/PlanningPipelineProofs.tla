----------------------- MODULE PlanningPipelineProofs -----------------------
(***************************************************************************)
(* Proofs about a statement from its package to its requests, for any      *)
(* packages and revisions, any filters, arguments, profiles and rows, and  *)
(* any limits of the host and of the predicate.                            *)
(*                                                                         *)
(* What a recursive definition computes is proved by induction on a        *)
(* number: the set of the numbers for which it holds is the set of all.    *)
(* Each recursion unfolded here is well founded, on an index, on the depth *)
(* that is left, or on an expression, which is a finite tree; it has the   *)
(* value its equation says.                                                *)
(***************************************************************************)
EXTENDS PlanningPipeline, WellFoundedInduction, FiniteSetTheorems, TLAPS

-----------------------------------------------------------------------------
(* Induction *)

Less == OpToRel(<, Nat)

(* The order of the natural numbers as a relation. *)
LEMMA LessIs == \A x, y \in Nat : <<x, y>> \in Less <=> x < y
BY DEF Less, OpToRel

(* A set that has 0 and the successor of each of its numbers has them all. *)
LEMMA SetInduction ==
  ASSUME NEW S, 0 \in S, \A n \in Nat : n \in S => n + 1 \in S
  PROVE  \A n \in Nat : n \in S
<1>1. SUFFICES ASSUME {n \in Nat : n \notin S} # {}
               PROVE  FALSE
  OBVIOUS
<1>2. PICK x \in {n \in Nat : n \notin S} :
             \A y \in {n \in Nat : n \notin S} : ~ (<<y, x>> \in Less)
  <2>1. PICK T : T = {n \in Nat : n \notin S}
    OBVIOUS
  <2>2. T \subseteq Nat /\ T # {}
    BY <1>1, <2>1
  <2>3. IsWellFoundedOn(Less, Nat)
    BY NatLessThanWellFounded DEF Less
  <2>4. \E x \in T : \A y \in T : ~ (<<y, x>> \in Less)
    BY <2>2, <2>3, WFMin
  <2>. QED  BY <2>1, <2>4
<1>3. x # 0 /\ x \in Nat
  OBVIOUS
<1>4. x - 1 \in Nat /\ x - 1 < x /\ (x - 1) + 1 = x
  BY <1>3
<1>5. x - 1 \in S
  BY <1>2, <1>4, <1>3, LessIs
<1>. QED  BY <1>5, <1>4, <1>2

-----------------------------------------------------------------------------
(* The acquisition of a package.  Manifest and relation are read at two    *)
(* moments and verified at two later ones, so no moment at which both are  *)
(* looked at exists in the code.  The proof finds one: when the root is    *)
(* verified the manifest is as it was read, and if the relation is found   *)
(* unchanged after that, it was unchanged then as well.                    *)

File(f) == f = [content |-> f.content, identity |-> f.identity] /\ f.identity \in Nat

\* The directory: identities are numbers of edits that have been made.
FolderInv ==
  /\ folder = [manifest |-> folder.manifest, relation |-> folder.relation,
               listing |-> folder.listing, stray |-> folder.stray, edits |-> folder.edits]
  /\ File(folder.manifest) /\ folder.manifest.identity <= folder.edits
  /\ File(folder.relation) /\ folder.relation.identity <= folder.edits
  /\ folder.edits \in Nat

Opened == {"ROOT", "OPEN", "LISTED", "READ", "VERIFYING", "ACQUIRED"}

Stages == Opened \cup {"UNOPENED", "FAILED"}

AcquisitionInv ==
  /\ acquisition = [stage |-> acquisition.stage, root |-> acquisition.root,
                    relations |-> acquisition.relations, manifest |-> acquisition.manifest,
                    relation |-> acquisition.relation, versions |-> acquisition.versions]
  /\ acquisition.stage \in Stages

\* An identity that was captured is the number of an edit made by then.
CapturedInv ==
  /\ acquisition.stage \in Opened =>
       /\ acquisition.root.manifest \in Nat
       /\ acquisition.root.manifest <= folder.edits
  /\ acquisition.stage \in Opened \ {"ROOT"} =>
       /\ acquisition.relations.relation \in Nat
       /\ acquisition.relations.relation <= folder.edits

\* The directory as it is now is among the versions it has had.
HistoryInv == acquisition.stage \in Opened => Version \in acquisition.versions

\* A file that still has the captured identity is as it was read.
ReadInv ==
  /\ acquisition.stage \in {"LISTED", "READ", "VERIFYING"} =>
       (folder.manifest.identity = acquisition.root.manifest =>
          folder.manifest.content = acquisition.manifest)
  /\ acquisition.stage \in {"READ", "VERIFYING"} =>
       (folder.relation.identity = acquisition.relations.relation =>
          folder.relation.content = acquisition.relation)

\* Once the root is verified, an unchanged relation is all that is missing.
VerifyingInv ==
  acquisition.stage = "VERIFYING" =>
    (folder.relation.identity = acquisition.relations.relation =>
       Acquired \in acquisition.versions)

SourceInv ==
  /\ FolderInv
  /\ AcquisitionInv
  /\ CapturedInv
  /\ HistoryInv
  /\ ReadInv
  /\ VerifyingInv
  /\ AcquiredWhole

-----------------------------------------------------------------------------
(* The author *)

(* An edit that gives every file it changes a fresh identity, and every file with
   an old identity its old content, disturbs nothing. *)
LEMMA EditedKeeps ==
  ASSUME SourceInv, NEW changed, Edited(changed),
         changed = [manifest |-> changed.manifest, relation |-> changed.relation,
                    listing |-> changed.listing, stray |-> changed.stray,
                    edits |-> folder.edits],
         File(changed.manifest), File(changed.relation),
         \/ changed.manifest = folder.manifest
         \/ changed.manifest.identity = folder.edits + 1,
         \/ changed.relation = folder.relation
         \/ changed.relation.identity = folder.edits + 1
  PROVE  SourceInv'
<1>1. FolderInv /\ AcquisitionInv /\ CapturedInv /\ ReadInv /\ VerifyingInv
  BY DEF SourceInv
<1>2. PICK v : v = [manifest |-> changed.manifest.content,
                    relation |-> changed.relation.content]
  OBVIOUS
<1>3. /\ acquisition.stage \notin {"UNOPENED", "ACQUIRED", "FAILED"}
      /\ folder' = [changed EXCEPT !.edits = folder.edits + 1]
      /\ acquisition' = [acquisition EXCEPT !.versions = acquisition.versions \cup {v}]
  BY <1>2 DEF Edited
<1>4. /\ folder'.manifest = changed.manifest /\ folder'.relation = changed.relation
      /\ folder'.edits = folder.edits + 1
      /\ folder' = [manifest |-> folder'.manifest, relation |-> folder'.relation,
                    listing |-> folder'.listing, stray |-> folder'.stray,
                    edits |-> folder'.edits]
  BY <1>3
<1>5. /\ acquisition'.stage = acquisition.stage /\ acquisition'.root = acquisition.root
      /\ acquisition'.relations = acquisition.relations
      /\ acquisition'.manifest = acquisition.manifest
      /\ acquisition'.relation = acquisition.relation
      /\ acquisition'.versions = acquisition.versions \cup {v}
      /\ AcquisitionInv'
  BY <1>1, <1>3 DEF AcquisitionInv
<1>6. folder.edits \in Nat /\ folder.manifest.identity <= folder.edits
      /\ folder.relation.identity <= folder.edits
  BY <1>1 DEF FolderInv
<1>7. FolderInv'
  BY <1>4, <1>6 DEF FolderInv, File
<1>8. CapturedInv'
  BY <1>1, <1>4, <1>5, <1>6 DEF CapturedInv
<1>9. HistoryInv'
  BY <1>2, <1>4, <1>5 DEF HistoryInv, Version
<1>10. acquisition.stage \in Opened =>
         (folder'.manifest.identity = acquisition.root.manifest =>
            folder'.manifest = folder.manifest)
  BY <1>1, <1>4, <1>6 DEF CapturedInv
<1>11. acquisition.stage \in Opened \ {"ROOT"} =>
         (folder'.relation.identity = acquisition.relations.relation =>
            folder'.relation = folder.relation)
  BY <1>1, <1>4, <1>6 DEF CapturedInv
<1>12. ReadInv'
  BY <1>1, <1>5, <1>10, <1>11 DEF ReadInv, Opened
<1>13. VerifyingInv'
  BY <1>1, <1>5, <1>11 DEF VerifyingInv, Opened, Acquired
<1>14. AcquiredWhole'
  BY <1>3, <1>5 DEF AcquiredWhole
<1>. QED  BY <1>5, <1>7, <1>8, <1>9, <1>12, <1>13, <1>14 DEF SourceInv

(* Every edit of the author is of that kind. *)
LEMMA AuthorKeeps ==
  ASSUME SourceInv, EditManifest \/ EditRelation \/ EditListing
  PROVE  SourceInv'
<1>1. /\ folder = [manifest |-> folder.manifest, relation |-> folder.relation,
                   listing |-> folder.listing, stray |-> folder.stray,
                   edits |-> folder.edits]
      /\ File(folder.manifest) /\ File(folder.relation) /\ folder.edits \in Nat
  BY DEF SourceInv, FolderInv
<1>2. CASE EditManifest
  <2>1. PICK to : Edited([folder EXCEPT !.manifest = [content |-> to.manifest,
                                                      identity |-> folder.edits + 1]])
    BY <1>2 DEF EditManifest
  <2>2. PICK f : f = [folder EXCEPT !.manifest = [content |-> to.manifest,
                                                  identity |-> folder.edits + 1]]
    OBVIOUS
  <2>3. /\ f.manifest = [content |-> to.manifest, identity |-> folder.edits + 1]
        /\ f.relation = folder.relation
        /\ f = [manifest |-> f.manifest, relation |-> f.relation, listing |-> f.listing,
                stray |-> f.stray, edits |-> folder.edits]
    BY <1>1, <2>2
  <2>4. File(f.manifest) /\ f.manifest.identity = folder.edits + 1
    BY <1>1, <2>3 DEF File
  <2>5. Edited(f)
    BY <2>1, <2>2
  <2>. QED  BY <1>1, <2>3, <2>4, <2>5, EditedKeeps
<1>3. CASE EditRelation
  <2>1. PICK to : Edited([folder EXCEPT !.relation = [content |-> to.relation,
                                                      identity |-> folder.edits + 1]])
    BY <1>3 DEF EditRelation
  <2>2. PICK f : f = [folder EXCEPT !.relation = [content |-> to.relation,
                                                  identity |-> folder.edits + 1]]
    OBVIOUS
  <2>3. /\ f.relation = [content |-> to.relation, identity |-> folder.edits + 1]
        /\ f.manifest = folder.manifest
        /\ f = [manifest |-> f.manifest, relation |-> f.relation, listing |-> f.listing,
                stray |-> f.stray, edits |-> folder.edits]
    BY <1>1, <2>2
  <2>4. File(f.relation) /\ f.relation.identity = folder.edits + 1
    BY <1>1, <2>3 DEF File
  <2>5. Edited(f)
    BY <2>1, <2>2
  <2>. QED  BY <1>1, <2>3, <2>4, <2>5, EditedKeeps
<1>4. CASE EditListing
  <2>1. PICK f : f = [folder EXCEPT !.stray = ~folder.stray, !.listing = folder.edits + 1]
    OBVIOUS
  <2>2. Edited(f)
    BY <1>4, <2>1 DEF EditListing
  <2>3. /\ f.manifest = folder.manifest /\ f.relation = folder.relation
        /\ f = [manifest |-> f.manifest, relation |-> f.relation, listing |-> f.listing,
                stray |-> f.stray, edits |-> folder.edits]
    BY <1>1, <2>1
  <2>. QED  BY <1>1, <2>2, <2>3, EditedKeeps
<1>. QED  BY <1>2, <1>3, <1>4

-----------------------------------------------------------------------------
(* The acquisition *)

(* A step that fails leaves nothing to be claimed. *)
LEMMA FailureKeeps ==
  ASSUME SourceInv, acquisition' = [acquisition EXCEPT !.stage = "FAILED"], UNCHANGED folder
  PROVE  SourceInv'
<1>1. FolderInv'
  BY DEF SourceInv, FolderInv, File
<1>2. acquisition'.stage = "FAILED" /\ AcquisitionInv'
  BY DEF SourceInv, AcquisitionInv, Stages
<1>. QED  BY <1>1, <1>2 DEF SourceInv, CapturedInv, HistoryInv, ReadInv, VerifyingInv,
                            AcquiredWhole, Opened

(* OpenRoot captures the manifest's identity and begins the history. *)
LEMMA OpenRootKeeps ==
  ASSUME SourceInv, OpenRoot
  PROVE  SourceInv'
<1>1. /\ acquisition' = [acquisition EXCEPT !.stage = "ROOT", !.root = CaptureRoot,
                                            !.versions = {Version}]
      /\ folder' = folder
  BY DEF OpenRoot, Advance
<1>2. FolderInv /\ FolderInv'
  BY <1>1 DEF SourceInv, FolderInv, File
<1>3. /\ acquisition'.stage = "ROOT" /\ acquisition'.root = CaptureRoot
      /\ acquisition'.versions = {Version} /\ AcquisitionInv'
  BY <1>1 DEF SourceInv, AcquisitionInv, Stages, Opened
<1>4. acquisition'.root.manifest = folder.manifest.identity
  BY <1>3 DEF CaptureRoot
<1>5. CapturedInv'
  BY <1>1, <1>2, <1>3, <1>4 DEF CapturedInv, FolderInv, File
<1>6. HistoryInv'
  BY <1>1, <1>3 DEF HistoryInv, Version
<1>. QED  BY <1>2, <1>3, <1>5, <1>6 DEF SourceInv, ReadInv, VerifyingInv, AcquiredWhole

(* OpenRelations captures the relation's identity. *)
LEMMA OpenRelationsKeeps ==
  ASSUME SourceInv, OpenRelations
  PROVE  SourceInv'
<1>1. acquisition.stage = "ROOT" /\ folder' = folder
  BY DEF OpenRelations, Advance
<1>2. CASE acquisition' = [acquisition EXCEPT !.stage = "FAILED"]
  BY <1>1, <1>2, FailureKeeps
<1>3. CASE acquisition' = [acquisition EXCEPT !.stage = "OPEN", !.relations = CaptureRelations]
  <2>1. FolderInv /\ FolderInv'
    BY <1>1 DEF SourceInv, FolderInv, File
  <2>2. /\ acquisition'.stage = "OPEN" /\ acquisition'.relations = CaptureRelations
        /\ acquisition'.root = acquisition.root
        /\ acquisition'.versions = acquisition.versions /\ AcquisitionInv'
    BY <1>3 DEF SourceInv, AcquisitionInv, Stages, Opened
  <2>3. acquisition'.relations.relation = folder.relation.identity
    BY <2>2 DEF CaptureRelations
  <2>4. CapturedInv'
    BY <1>1, <2>1, <2>2, <2>3 DEF SourceInv, CapturedInv, FolderInv, File, Opened
  <2>5. HistoryInv'
    BY <1>1, <2>2 DEF SourceInv, HistoryInv, Version, Opened
  <2>. QED  BY <2>1, <2>2, <2>4, <2>5 DEF SourceInv, ReadInv, VerifyingInv, AcquiredWhole
<1>. QED  BY <1>2, <1>3 DEF OpenRelations, Advance

(* What a step that goes on leaves alone keeps its part of the invariant. *)
LEMMA GoesOn ==
  ASSUME SourceInv, folder' = folder, AcquisitionInv',
         acquisition.stage \in Opened \ {"ROOT"},
         acquisition'.stage \in Opened \ {"ROOT"},
         acquisition'.root = acquisition.root,
         acquisition'.relations = acquisition.relations,
         acquisition'.versions = acquisition.versions,
         ReadInv', VerifyingInv', AcquiredWhole'
  PROVE  SourceInv'
<1>1. FolderInv'
  BY DEF SourceInv, FolderInv, File
<1>2. CapturedInv'
  BY DEF SourceInv, CapturedInv
<1>3. HistoryInv'
  BY DEF SourceInv, HistoryInv, Version
<1>. QED  BY <1>1, <1>2, <1>3 DEF SourceInv

(* ReadManifest takes the content that goes with the captured identity. *)
LEMMA ReadManifestKeeps ==
  ASSUME SourceInv, ReadManifest
  PROVE  SourceInv'
<1>1. acquisition.stage = "OPEN" /\ folder' = folder
  BY DEF ReadManifest, Advance
<1>2. CASE acquisition' = [acquisition EXCEPT !.stage = "FAILED"]
  BY <1>1, <1>2, FailureKeeps
<1>3. CASE acquisition' = [acquisition EXCEPT !.stage = "LISTED",
                                              !.manifest = folder.manifest.content]
  <2>1. /\ acquisition'.stage = "LISTED" /\ acquisition'.manifest = folder.manifest.content
        /\ acquisition'.root = acquisition.root
        /\ acquisition'.relations = acquisition.relations
        /\ acquisition'.versions = acquisition.versions /\ AcquisitionInv'
    BY <1>3 DEF SourceInv, AcquisitionInv, Stages, Opened
  <2>2. ReadInv' /\ VerifyingInv' /\ AcquiredWhole'
    BY <1>1, <2>1 DEF ReadInv, VerifyingInv, AcquiredWhole
  <2>. QED  BY <1>1, <2>1, <2>2, GoesOn DEF Opened
<1>. QED  BY <1>2, <1>3 DEF ReadManifest, Advance

(* ReadRelation likewise. *)
LEMMA ReadRelationKeeps ==
  ASSUME SourceInv, ReadRelation
  PROVE  SourceInv'
<1>1. acquisition.stage = "LISTED" /\ folder' = folder
  BY DEF ReadRelation, Advance
<1>2. CASE acquisition' = [acquisition EXCEPT !.stage = "FAILED"]
  BY <1>1, <1>2, FailureKeeps
<1>3. CASE acquisition' = [acquisition EXCEPT !.stage = "READ",
                                              !.relation = folder.relation.content]
  <2>1. /\ acquisition'.stage = "READ" /\ acquisition'.relation = folder.relation.content
        /\ acquisition'.manifest = acquisition.manifest
        /\ acquisition'.root = acquisition.root
        /\ acquisition'.relations = acquisition.relations
        /\ acquisition'.versions = acquisition.versions /\ AcquisitionInv'
    BY <1>3 DEF SourceInv, AcquisitionInv, Stages, Opened
  <2>2. ReadInv'
    BY <1>1, <2>1 DEF SourceInv, ReadInv
  <2>3. VerifyingInv' /\ AcquiredWhole'
    BY <2>1 DEF VerifyingInv, AcquiredWhole
  <2>. QED  BY <1>1, <2>1, <2>2, <2>3, GoesOn DEF Opened
<1>. QED  BY <1>2, <1>3 DEF ReadRelation, Advance

(* VerifyRoot is the moment: with the relation unchanged, the directory is now
   what has been read. *)
LEMMA VerifyRootKeeps ==
  ASSUME SourceInv, VerifyRoot
  PROVE  SourceInv'
<1>1. acquisition.stage = "READ" /\ folder' = folder
  BY DEF VerifyRoot, Advance
<1>2. CASE acquisition' = [acquisition EXCEPT !.stage = "FAILED"]
  BY <1>1, <1>2, FailureKeeps
<1>3. CASE /\ SameRoot(acquisition.root, CaptureRoot)
           /\ acquisition' = [acquisition EXCEPT !.stage = "VERIFYING"]
  <2>1. /\ acquisition'.stage = "VERIFYING" /\ acquisition'.relation = acquisition.relation
        /\ acquisition'.manifest = acquisition.manifest
        /\ acquisition'.root = acquisition.root
        /\ acquisition'.relations = acquisition.relations
        /\ acquisition'.versions = acquisition.versions /\ AcquisitionInv'
    BY <1>3 DEF SourceInv, AcquisitionInv, Stages, Opened
  <2>2. acquisition.root.manifest = folder.manifest.identity
    BY <1>3 DEF SameRoot, SameIdentity, CaptureRoot
  <2>3. folder.manifest.content = acquisition.manifest
    BY <1>1, <2>2 DEF SourceInv, ReadInv
  <2>4. folder.relation.identity = acquisition.relations.relation =>
          folder.relation.content = acquisition.relation
    BY <1>1 DEF SourceInv, ReadInv
  <2>5. Version \in acquisition.versions
    BY <1>1 DEF SourceInv, HistoryInv, Opened
  <2>6. VerifyingInv'
    BY <1>1, <2>1, <2>3, <2>4, <2>5 DEF VerifyingInv, Version, Acquired
  <2>7. ReadInv' /\ AcquiredWhole'
    BY <1>1, <2>1 DEF SourceInv, ReadInv, AcquiredWhole
  <2>. QED  BY <1>1, <2>1, <2>6, <2>7, GoesOn DEF Opened
<1>. QED  BY <1>2, <1>3 DEF VerifyRoot, Advance

(* VerifyRelations finds the relation unchanged. *)
LEMMA VerifyRelationsKeeps ==
  ASSUME SourceInv, VerifyRelations
  PROVE  SourceInv'
<1>1. acquisition.stage = "VERIFYING" /\ folder' = folder
  BY DEF VerifyRelations, Advance
<1>2. CASE acquisition' = [acquisition EXCEPT !.stage = "FAILED"]
  BY <1>1, <1>2, FailureKeeps
<1>3. CASE /\ SameRelations(acquisition.relations, CaptureRelations)
           /\ acquisition' = [acquisition EXCEPT !.stage = "ACQUIRED"]
  <2>1. /\ acquisition'.stage = "ACQUIRED" /\ acquisition'.relation = acquisition.relation
        /\ acquisition'.manifest = acquisition.manifest
        /\ acquisition'.root = acquisition.root
        /\ acquisition'.relations = acquisition.relations
        /\ acquisition'.versions = acquisition.versions /\ AcquisitionInv'
    BY <1>3 DEF SourceInv, AcquisitionInv, Stages, Opened
  <2>2. acquisition.relations.relation = folder.relation.identity
    BY <1>3 DEF SameRelations, SameIdentity, CaptureRelations
  <2>3. Acquired \in acquisition.versions
    BY <1>1, <2>2 DEF SourceInv, VerifyingInv
  <2>4. AcquiredWhole'
    BY <2>1, <2>3 DEF AcquiredWhole, Acquired
  <2>5. ReadInv' /\ VerifyingInv'
    BY <2>1 DEF ReadInv, VerifyingInv
  <2>. QED  BY <1>1, <2>1, <2>4, <2>5, GoesOn DEF Opened
<1>. QED  BY <1>2, <1>3 DEF VerifyRelations, Advance

-----------------------------------------------------------------------------
(* All steps *)

(* The directory as the author has left it, before the acquisition. *)
LEMMA InitSourceInv ==
  ASSUME SourceInit
  PROVE  SourceInv
<1>1. PICK d : folder = Folder(d) /\ acquisition = Unopened
  BY DEF SourceInit
<1>2. FolderInv
  BY <1>1 DEF Folder, FolderInv, File
<1>3. acquisition.stage = "UNOPENED" /\ AcquisitionInv
  BY <1>1 DEF Unopened, AcquisitionInv, Stages
<1>. QED  BY <1>2, <1>3 DEF SourceInv, CapturedInv, HistoryInv, ReadInv, VerifyingInv,
                            AcquiredWhole, Opened

(* Every step of the author and of the acquisition keeps the invariant. *)
LEMMA SourceStepKeeps ==
  ASSUME SourceInv, [SourceNext]_<<folder, acquisition>>
  PROVE  SourceInv'
<1>1. CASE UNCHANGED <<folder, acquisition>>
  <2>1. folder' = folder /\ acquisition' = acquisition
    BY <1>1
  <2>. QED  BY <2>1 DEF SourceInv, FolderInv, File, AcquisitionInv, CapturedInv, HistoryInv,
                        Version, ReadInv, VerifyingInv, AcquiredWhole, Acquired
<1>2. CASE SourceFails
  BY <1>2, FailureKeeps DEF SourceFails
<1>. QED  BY <1>1, <1>2, AuthorKeeps, OpenRootKeeps, OpenRelationsKeeps, ReadManifestKeeps,
             ReadRelationKeeps, VerifyRootKeeps, VerifyRelationsKeeps DEF SourceNext

-----------------------------------------------------------------------------
(* The translation of filters *)

(* A bounded set of numbers that is not empty has a greatest one. *)
LEMMA BoundedMaximum ==
  ASSUME NEW S \in SUBSET Nat, S # {}, NEW b \in Nat, \A x \in S : x <= b
  PROVE  \E m \in S : \A x \in S : x <= m
<1>1. PICK T : T = {y \in Nat : \E x \in S : y = b - x}
  OBVIOUS
<1>2. T \subseteq Nat /\ T # {} /\ \A x \in S : b - x \in T
  <2>1. \A x \in S : x \in Nat /\ x <= b
    OBVIOUS
  <2>2. \A x \in S : b - x \in Nat
    BY <2>1
  <2>. QED  BY <1>1, <2>2
<1>3. IsWellFoundedOn(Less, Nat)
  BY NatLessThanWellFounded DEF Less
<1>4. PICK t \in T : \A y \in T : ~ (<<y, t>> \in Less)
  BY <1>2, <1>3, WFMin
<1>5. PICK m \in S : t = b - m
  BY <1>1
<1>6. ASSUME NEW x \in S PROVE x <= m
  <2>1. b - x \in T /\ b - x \in Nat /\ t \in Nat
    BY <1>1, <1>2
  <2>2. ~ (b - x < t)
    BY <1>4, <2>1, LessIs
  <2>. QED  BY <1>5, <2>1, <2>2
<1>. QED  BY <1>6

(* Translating an expression is translating its top node. *)
LEMMA TranslationUnfolds ==
  ASSUME NEW types, NEW e \in Expressions, NEW d \in Nat, NEW n \in Nat
  PROVE  TranslateExpression(types)[<<e, d, n>>] =
           TranslateNode(TranslateExpression(types), types, e, d, n)
<1>1. PICK T : T = TranslateExpression(types)
  OBVIOUS
<1>2. T = [at \in Expressions \X Nat \X Nat |-> TranslateNode(T, types, at[1], at[2], at[3])]
  BY <1>1 DEF TranslateExpression
<1>3. PICK at : at = <<e, d, n>>
  OBVIOUS
<1>4. at \in Expressions \X Nat \X Nat /\ at[1] = e /\ at[2] = d /\ at[3] = n
  BY <1>3
<1>5. T[at] = TranslateNode(T, types, at[1], at[2], at[3])
  BY <1>2, <1>4
<1>. QED  BY <1>1, <1>3, <1>4, <1>5

(* The loop over the children, iteration by iteration. *)
LEMMA ChildrenEquation ==
  ASSUME NEW T, NEW cs, NEW d, NEW n
  PROVE  TranslateChildren(T, cs, d, n) =
           [i \in 0..Len(cs) |->
              IF i = 0 THEN NoChild(n)
              ELSE NextChild(T, cs[i], d, TranslateChildren(T, cs, d, n)[i - 1])]
BY DEF TranslateChildren

(* The same, of one child. *)
LEMMA ChildrenUnfold ==
  ASSUME NEW T, NEW cs, Len(cs) \in Nat, NEW d, NEW n, NEW after,
         after = TranslateChildren(T, cs, d, n)
  PROVE  /\ after[0] = NoChild(n)
         /\ \A i \in 1..Len(cs) :
              after[i] = NextChild(T, cs[i], d, after[i - 1])
<1>1. after = [i \in 0..Len(cs) |->
                 IF i = 0 THEN NoChild(n)
                 ELSE NextChild(T, cs[i], d, after[i - 1])]
  BY ChildrenEquation
<1>. QED  BY <1>1

(* The loop that counts the nodes of children, iteration by iteration. *)
LEMMA NodesEquation ==
  ASSUME NEW cs
  PROVE  NodesAfter(cs) =
           [i \in 0..Len(cs) |->
              IF i = 0 THEN 1
              ELSE IF \/ NodesAfter(cs)[i - 1] = -1
                      \/ cs[i].nodes > MaxPredicateNodes - NodesAfter(cs)[i - 1] THEN -1
                   ELSE NodesAfter(cs)[i - 1] + cs[i].nodes]
BY DEF NodesAfter

(* The same, of one child. *)
LEMMA NodesUnfold ==
  ASSUME NEW cs, Len(cs) \in Nat, NEW after, after = NodesAfter(cs)
  PROVE  /\ after[0] = 1
         /\ \A i \in 1..Len(cs) :
                after[i] = IF \/ after[i - 1] = -1
                              \/ cs[i].nodes > MaxPredicateNodes - after[i - 1] THEN -1
                           ELSE after[i - 1] + cs[i].nodes
<1>1. after = [i \in 0..Len(cs) |->
                 IF i = 0 THEN 1
                 ELSE IF \/ after[i - 1] = -1
                         \/ cs[i].nodes > MaxPredicateNodes - after[i - 1] THEN -1
                      ELSE after[i - 1] + cs[i].nodes]
  BY NodesEquation
<1>. QED  BY <1>1

\* A translation keeps count.
Counted(r, n) == r.count \in Nat /\ n <= r.count /\ r.exceeded \in BOOLEAN

\* The translation of the j-th child.
ChildResult(T, cs, d, after, j) == T[<<cs[j], d, after[j - 1].count>>]

\* The candidates of any expression at one depth.
Candidates(T, d) == {T[at].candidate : at \in Expressions \X {d} \X Nat}

\* What the loop has after i children.
ChildrenDone(T, cs, d, n, after, i) ==
  /\ Counted(after[i], n)
  /\ ~after[i].exceeded =>
       /\ after[i].candidates \in Seq(Candidates(T, d))
       /\ Len(after[i].candidates) = i
       /\ \A j \in 1..i :
            /\ after[j - 1].count \in Nat /\ n <= after[j - 1].count
            /\ after[i].candidates[j] = ChildResult(T, cs, d, after, j).candidate
            /\ ~ChildResult(T, cs, d, after, j).exceeded
            /\ after[j].count = ChildResult(T, cs, d, after, j).count

(* A loop that did not exceed has the candidates of all children, each translated
   with the count the one before it left. *)
LEMMA ChildrenAre ==
  ASSUME NEW T, NEW cs \in Seq(Expressions), NEW d, NEW n \in Nat,
         \A c \in Expressions : \A m \in Nat : Counted(T[<<c, d, m>>], m),
         NEW after, after = TranslateChildren(T, cs, d, n)
  PROVE  \A i \in 0..Len(cs) : ChildrenDone(T, cs, d, n, after, i)
<1>0. Len(cs) \in Nat /\ \A i \in 1..Len(cs) : cs[i] \in Expressions
  OBVIOUS
<1>1. PICK X : X = Candidates(T, d)
  OBVIOUS
<1>2. /\ after[0] = NoChild(n)
      /\ \A i \in 1..Len(cs) : after[i] = NextChild(T, cs[i], d, after[i - 1])
  BY <1>0, ChildrenUnfold
<1>3. PICK S : S = {i \in Nat : i <= Len(cs) => ChildrenDone(T, cs, d, n, after, i)}
  OBVIOUS
<1>4. 0 \in S
  <2>1. /\ after[0].count = n /\ after[0].exceeded = FALSE /\ after[0].candidates = << >>
    BY <1>2 DEF NoChild
  <2>2. Counted(after[0], n)
    <3>1. FALSE \in BOOLEAN
      OBVIOUS
    <3>2. after[0].exceeded \in BOOLEAN
      BY <2>1, <3>1, Zenon
    <3>. QED  BY <2>1, <3>2 DEF Counted
  <2>3. after[0].candidates \in Seq(X) /\ Len(after[0].candidates) = 0 /\ 1..0 = {}
    BY <2>1
  <2>4. ChildrenDone(T, cs, d, n, after, 0)
    BY <1>1, <2>2, <2>3 DEF ChildrenDone
  <2>. QED  BY <1>3, <2>4
<1>5. ASSUME NEW k \in Nat, k \in S PROVE k + 1 \in S
  <2>1. SUFFICES ASSUME k + 1 <= Len(cs) PROVE ChildrenDone(T, cs, d, n, after, k + 1)
    BY <1>3
  <2>2. ChildrenDone(T, cs, d, n, after, k)
    BY <1>0, <1>3, <1>5, <2>1
  <2>3. k + 1 \in 1..Len(cs) /\ (k + 1) - 1 = k
    BY <1>0, <2>1
  <2>4. after[k + 1] = NextChild(T, cs[k + 1], d, after[k])
    BY <1>2, <2>3
  <2>5. Counted(after[k], n)
    BY <2>2 DEF ChildrenDone
  <2>6. CASE after[k].exceeded
    <3>1. after[k + 1] = after[k]
      BY <2>4, <2>6 DEF NextChild
    <3>. QED  BY <2>5, <2>6, <3>1 DEF ChildrenDone
  <2>7. CASE ~after[k].exceeded
    <3>1. PICK next : next = T[<<cs[k + 1], d, after[k].count>>]
      OBVIOUS
    <3>2. after[k + 1] = [candidates |-> Append(after[k].candidates, next.candidate),
                          complete |-> after[k].complete /\ next.complete,
                          count |-> next.count, exceeded |-> next.exceeded]
      BY <2>4, <2>7, <3>1 DEF NextChild
    <3>3. /\ after[k + 1].candidates = Append(after[k].candidates, next.candidate)
          /\ after[k + 1].count = next.count /\ after[k + 1].exceeded = next.exceeded
      BY <3>2
    <3>4. Counted(next, after[k].count) /\ after[k].count \in Nat /\ n <= after[k].count
      BY <1>0, <2>3, <2>5, <3>1 DEF Counted
    <3>5. Counted(after[k + 1], n)
      BY <3>3, <3>4 DEF Counted
    <3>6. next.candidate \in X
      <4>1. <<cs[k + 1], d, after[k].count>> \in Expressions \X {d} \X Nat
        BY <1>0, <2>3, <3>4
      <4>. QED  BY <1>1, <3>1, <4>1 DEF Candidates
    <3>7. /\ after[k].candidates \in Seq(X) /\ Len(after[k].candidates) = k
          /\ \A j \in 1..k :
               /\ after[j - 1].count \in Nat /\ n <= after[j - 1].count
               /\ after[k].candidates[j] = ChildResult(T, cs, d, after, j).candidate
               /\ ~ChildResult(T, cs, d, after, j).exceeded
               /\ after[j].count = ChildResult(T, cs, d, after, j).count
      BY <1>1, <2>2, <2>7 DEF ChildrenDone
    <3>8. /\ after[k + 1].candidates \in Seq(X) /\ Len(after[k + 1].candidates) = k + 1
          /\ after[k + 1].candidates[k + 1] = next.candidate
          /\ \A j \in 1..k : after[k + 1].candidates[j] = after[k].candidates[j]
      BY <3>3, <3>6, <3>7
    <3>9. next = ChildResult(T, cs, d, after, k + 1)
      BY <2>3, <3>1 DEF ChildResult
    <3>10. ASSUME ~after[k + 1].exceeded, NEW j \in 1..(k + 1)
           PROVE  /\ after[j - 1].count \in Nat /\ n <= after[j - 1].count
                  /\ after[k + 1].candidates[j] = ChildResult(T, cs, d, after, j).candidate
                  /\ ~ChildResult(T, cs, d, after, j).exceeded
                  /\ after[j].count = ChildResult(T, cs, d, after, j).count
      <4>1. CASE j = k + 1
        BY <2>3, <3>3, <3>4, <3>8, <3>9, <3>10, <4>1
      <4>2. CASE j \in 1..k
        BY <3>7, <3>8, <4>2
      <4>. QED  BY <4>1, <4>2
    <3>. QED  BY <1>1, <3>5, <3>8, <3>10 DEF ChildrenDone
  <2>. QED  BY <2>5, <2>6, <2>7 DEF Counted
<1>6. \A i \in Nat : i \in S
  BY <1>4, <1>5, SetInduction
<1>. QED  BY <1>0, <1>3, <1>6

-----------------------------------------------------------------------------
(* The budget of the translation is the budget of the constructors *)

\* A predicate that has been built.
Node(c) ==
  /\ c = [kind |-> c.kind, column |-> c.column, literal |-> c.literal,
          children |-> c.children, depth |-> c.depth, nodes |-> c.nodes]
  /\ c.depth \in Nat \ {0} /\ c.nodes \in Nat \ {0}

(* A predicate is not a refusal. *)
LEMMA NodeNotRefused ==
  ASSUME NEW c, Node(c)
  PROVE  c # REFUSED
<1>1. "kind" \in DOMAIN c
  BY DEF Node
<1>. QED  BY <1>1 DEF REFUSED

(* A leaf is a predicate of one node. *)
LEMMA LeafIsNode ==
  ASSUME NEW kind
  PROVE  Node(Leaf(kind)) /\ Leaf(kind).depth = 1 /\ Leaf(kind).nodes = 1
                          /\ Leaf(kind).kind = kind /\ Leaf(kind).children = << >>
BY DEF Node, Leaf

(* A comparison that is translated is a leaf too. *)
LEMMA ComparisonIsNode ==
  ASSUME NEW types, NEW e, NEW c, c = TranslateComparison(types, e), c # REFUSED
  PROVE  Node(c) /\ c.depth = 1 /\ c.nodes = 1 /\ c.kind = "COMPARISON" /\ c.children = << >>
<1>1. PICK column, type, literal :
        Comparison(column, type, literal) # REFUSED /\ c = Comparison(column, type, literal)
  BY DEF TranslateComparison
<1>2. c = [Leaf("COMPARISON") EXCEPT !.column = column, !.literal = literal]
  BY <1>1 DEF Comparison
<1>3. c = [kind |-> "COMPARISON", column |-> column, literal |-> literal,
           children |-> << >>, depth |-> 1, nodes |-> 1]
  BY <1>2 DEF Leaf
<1>. QED  BY <1>3 DEF Node

\* A translation at a depth and a count leaves room for the nodes above it.
Fits(r, d, n) ==
  /\ Counted(r, n)
  /\ ~r.exceeded =>
       /\ Node(r.candidate)
       /\ r.candidate.depth + d <= MaxPredicateDepth + 1
       /\ r.candidate.nodes <= r.count - n
       /\ r.count <= MaxPredicateNodes

(* One more child fits. *)
LEMMA OneMoreFits ==
  ASSUME NEW n \in Nat \ {0}, NEW a \in Nat \ {0}, NEW b \in Nat, NEW c \in Nat, NEW m \in Nat,
         NEW max \in Nat, a <= 1 + b - n, m <= c - b, c <= max
  PROVE  a # -1 /\ ~ (m > max - a) /\ a + m \in Nat \ {0} /\ a + m <= 1 + c - n
OBVIOUS

(* The constructor's loop stays within what the translation has counted. *)
LEMMA NodesWithin ==
  ASSUME NEW n \in Nat \ {0}, NEW cs, Len(cs) \in Nat, NEW c,
         \A i \in 0..Len(cs) : c[i] \in Nat /\ c[i] <= MaxPredicateNodes,
         c[0] = n,
         \A i \in 1..Len(cs) : cs[i].nodes \in Nat /\ cs[i].nodes <= c[i] - c[i - 1],
         NEW nodes, nodes = NodesAfter(cs)[Len(cs)]
  PROVE  nodes \in Nat \ {0} /\ nodes <= 1 + c[Len(cs)] - n
<1>1. PICK after : after = NodesAfter(cs)
  OBVIOUS
<1>2. /\ after[0] = 1
      /\ \A i \in 1..Len(cs) :
           after[i] = IF \/ after[i - 1] = -1
                         \/ cs[i].nodes > MaxPredicateNodes - after[i - 1] THEN -1
                      ELSE after[i - 1] + cs[i].nodes
  BY <1>1, NodesUnfold
<1>3. PICK S : S = {i \in Nat : i <= Len(cs) =>
                       after[i] \in Nat \ {0} /\ after[i] <= 1 + c[i] - n}
  OBVIOUS
<1>4. 0 \in S
  BY <1>2, <1>3
<1>5. ASSUME NEW k \in Nat, k \in S PROVE k + 1 \in S
  <2>1. SUFFICES ASSUME k + 1 <= Len(cs)
                 PROVE  after[k + 1] \in Nat \ {0} /\ after[k + 1] <= 1 + c[k + 1] - n
    BY <1>3
  <2>2. k + 1 \in 1..Len(cs) /\ (k + 1) - 1 = k /\ k \in 0..Len(cs) /\ k + 1 \in 0..Len(cs)
    BY <2>1
  <2>3. after[k] \in Nat \ {0} /\ after[k] <= 1 + c[k] - n
    BY <1>3, <1>5, <2>2
  <2>4. /\ cs[k + 1].nodes \in Nat /\ cs[k + 1].nodes <= c[k + 1] - c[k]
        /\ c[k] \in Nat /\ c[k + 1] \in Nat /\ c[k + 1] <= MaxPredicateNodes
    BY <2>2
  <2>5. after[k + 1] = IF \/ after[k] = -1
                          \/ cs[k + 1].nodes > MaxPredicateNodes - after[k] THEN -1
                       ELSE after[k] + cs[k + 1].nodes
    BY <1>2, <2>2
  <2>6. after[k] # -1 /\ ~ (cs[k + 1].nodes > MaxPredicateNodes - after[k])
    BY <2>3, <2>4, PredicateLimits, OneMoreFits
  <2>7. after[k + 1] = after[k] + cs[k + 1].nodes
    BY <2>5, <2>6
  <2>8. after[k] + cs[k + 1].nodes \in Nat \ {0}
        /\ after[k] + cs[k + 1].nodes <= 1 + c[k + 1] - n
    BY <2>3, <2>4, PredicateLimits, OneMoreFits
  <2>. QED  BY <2>7, <2>8
<1>6. \A i \in Nat : i \in S
  BY <1>4, <1>5, SetInduction
<1>. QED  BY <1>1, <1>3, <1>6

\* Predicates cs leave room for a boolean node of depth at most b and of that many nodes.
BooleanRoom(cs, b, nodes) ==
  /\ \E X : cs \in Seq(X)
  /\ Len(cs) >= 2
  /\ \A i \in 1..Len(cs) : Node(cs[i])
  /\ b \in Nat /\ b <= MaxPredicateDepth
  /\ \A i \in 1..Len(cs) : cs[i].depth + 1 <= b
  /\ nodes \in Nat \ {0} /\ nodes = NodesAfter(cs)[Len(cs)] /\ nodes <= MaxPredicateNodes

\* r is the boolean node of that kind over cs.
BooleanOver(r, kind, cs, b, nodes) ==
  /\ Node(r) /\ r.kind = kind /\ r.children = cs
  /\ r.depth <= b /\ r.nodes = nodes
  /\ \A i \in 1..Len(cs) : cs[i].depth < r.depth

(* A boolean node over predicates that leave room for it is built, and is deeper
   than each of them. *)
LEMMA BooleanIs ==
  ASSUME NEW kind, NEW cs, NEW b, NEW nodes, BooleanRoom(cs, b, nodes)
  PROVE  BooleanOver(BooleanNode(kind, cs), kind, cs, b, nodes)
<1>0. PICK r : r = BooleanNode(kind, cs)
  OBVIOUS
<1>. USE DEF BooleanRoom
<1>01. PICK X : cs \in Seq(X)
  OBVIOUS
<1>02. /\ Len(cs) >= 2 /\ b \in Nat /\ b <= MaxPredicateDepth /\ nodes \in Nat \ {0}
       /\ nodes = NodesAfter(cs)[Len(cs)] /\ nodes <= MaxPredicateNodes
  OBVIOUS
<1>03. \A i \in 1..Len(cs) : Node(cs[i])
  OBVIOUS
<1>04. \A i \in 1..Len(cs) : cs[i].depth + 1 <= b
  OBVIOUS
<1>. HIDE DEF BooleanRoom
<1>1. DOMAIN cs = 1..Len(cs) /\ Len(cs) \in Nat
  BY <1>01
<1>2. \A i \in 1..Len(cs) : cs[i] # REFUSED /\ cs[i].depth \in Nat
  BY <1>03, NodeNotRefused DEF Node
<1>3. PICK depths : depths = {1} \cup {cs[i].depth + 1 : i \in DOMAIN cs}
  OBVIOUS
<1>4. depths \subseteq Nat /\ depths # {} /\ \A x \in depths : x <= b /\ x # 0
  <2>1. 1 <= b
    BY <1>02, <1>04, <1>1, <1>2
  <2>2. \A i \in DOMAIN cs : /\ cs[i].depth + 1 \in Nat /\ cs[i].depth + 1 <= b
                             /\ cs[i].depth + 1 # 0
    BY <1>04, <1>1, <1>2
  <2>. QED  BY <1>3, <2>1, <2>2
<1>5. \E m \in depths : \A x \in depths : x <= m
  BY <1>02, <1>4, BoundedMaximum
<1>6. PICK depth : depth = CHOOSE m \in depths : \A x \in depths : x <= m
  OBVIOUS
<1>7. depth \in depths /\ \A x \in depths : x <= depth
  BY <1>5, <1>6
<1>8. depth \in Nat \ {0} /\ depth <= b
  BY <1>02, <1>4, <1>7
<1>9. \A i \in 1..Len(cs) : cs[i].depth < depth
  <2>1. \A i \in 1..Len(cs) : cs[i].depth + 1 \in depths
    BY <1>1, <1>3
  <2>. QED  BY <1>2, <1>7, <1>8, <2>1
<1>10. /\ ~ (Len(cs) < 2) /\ nodes # -1 /\ ~ (depth > MaxPredicateDepth)
       /\ ~ (nodes > MaxPredicateNodes)
  BY <1>02, <1>1, <1>8, PredicateLimits
<1>11. ~ \E i \in DOMAIN cs : cs[i] = REFUSED
  BY <1>1, <1>2
<1>12. r = [Leaf(kind) EXCEPT !.children = cs, !.depth = depth, !.nodes = nodes]
  BY <1>0, <1>02, <1>3, <1>6, <1>10, <1>11 DEF BooleanNode
<1>13. r = [kind |-> kind, column |-> 0, literal |-> NullScalar("BIGINT"),
            children |-> cs, depth |-> depth, nodes |-> nodes]
  BY <1>12 DEF Leaf
<1>14. Node(r) /\ r.kind = kind /\ r.children = cs /\ r.depth = depth /\ r.nodes = nodes
  BY <1>02, <1>8, <1>13 DEF Node
<1>. QED  BY <1>0, <1>8, <1>9, <1>14 DEF BooleanOver

(* A negation likewise. *)
LEMMA NegationIs ==
  ASSUME NEW c, Node(c), c.depth + 1 <= MaxPredicateDepth, c.nodes + 1 <= MaxPredicateNodes,
         NEW r, r = Negation(c)
  PROVE  /\ Node(r) /\ r.kind = "NEGATION" /\ r.children = <<c>>
         /\ r.depth = c.depth + 1 /\ r.nodes = c.nodes + 1
<1>1. c # REFUSED /\ c.depth \in Nat /\ c.nodes \in Nat
  BY NodeNotRefused DEF Node
<1>2. ~ (c.depth + 1 > MaxPredicateDepth) /\ ~ (c.nodes + 1 > MaxPredicateNodes)
  BY <1>1, PredicateLimits
<1>3. r = [Leaf("NEGATION") EXCEPT !.children = <<c>>, !.depth = c.depth + 1,
                                   !.nodes = c.nodes + 1]
  BY <1>1, <1>2 DEF Negation
<1>4. r = [kind |-> "NEGATION", column |-> 0, literal |-> NullScalar("BIGINT"),
           children |-> <<c>>, depth |-> c.depth + 1, nodes |-> c.nodes + 1]
  BY <1>3 DEF Leaf
<1>. QED  BY <1>1, <1>4 DEF Node

\* The translation of the children of an expression.
Inner(T, e, d, n) == TranslateChildren(T, e.children, d + 1, n + 1)[Len(e.children)]

\* What becomes of expression e, inner being the translation of its children.
Outcome(r, types, e, d, n, inner) ==
  \/ OverBudget(d, n) /\ r = Opaque(n, TRUE)
  \/ ~OverBudget(d, n) /\ r = Opaque(n + 1, FALSE)
  \/ ~OverBudget(d, n) /\ inner.exceeded /\ r = Opaque(inner.count, TRUE)
  \/ /\ ~OverBudget(d, n)
     /\ TranslateComparison(types, e) # REFUSED
     /\ r = [candidate |-> TranslateComparison(types, e), complete |-> TRUE,
             count |-> n + 1, exceeded |-> FALSE]
  \/ /\ ~OverBudget(d, n) /\ ~inner.exceeded
     /\ r = [candidate |-> r.candidate, complete |-> inner.complete,
             count |-> inner.count, exceeded |-> FALSE]
     /\ \/ /\ e.class = "CONJUNCTION_AND" /\ ~ (Len(e.children) < 2)
           /\ r.candidate = BooleanNode("CONJUNCTION", inner.candidates)
        \/ /\ e.class = "CONJUNCTION_OR" /\ ~ (Len(e.children) < 2)
           /\ r.candidate = BooleanNode("DISJUNCTION", inner.candidates)
        \/ /\ e.class = "OPERATOR_NOT" /\ Len(e.children) = 1
           /\ r.candidate = Negation(inner.candidates[1])

(* What becomes of an expression. *)
LEMMA NodeCases ==
  ASSUME NEW T, NEW types, NEW e \in Expressions, NEW d \in Nat, NEW n \in Nat,
         NEW r, r = TranslateNode(T, types, e, d, n), NEW inner, inner = Inner(T, e, d, n),
         inner.exceeded \in BOOLEAN
  PROVE  Outcome(r, types, e, d, n, inner)
<1>. USE DEF Outcome
<1>1. CASE OverBudget(d, n)
  BY <1>1 DEF TranslateNode
<1>2. CASE ~OverBudget(d, n) /\ TranslateComparison(types, e) # REFUSED
  BY <1>2 DEF TranslateNode
<1>3. CASE ~OverBudget(d, n) /\ TranslateComparison(types, e) = REFUSED
  <2>1. r = TranslateBoolean(e, n, inner)
    BY <1>3 DEF TranslateNode, Inner
  <2>2. CASE e.class = "CONJUNCTION_AND"
    <3>1. CASE Len(e.children) < 2
      BY <1>3, <2>1, <2>2, <3>1 DEF TranslateBoolean
    <3>2. CASE ~ (Len(e.children) < 2) /\ inner.exceeded
      BY <1>3, <2>1, <2>2, <3>2 DEF TranslateBoolean
    <3>3. CASE ~ (Len(e.children) < 2) /\ ~inner.exceeded
      <4>1. PICK c : c = BooleanNode("CONJUNCTION", inner.candidates)
        OBVIOUS
      <4>2. r = [candidate |-> c, complete |-> inner.complete, count |-> inner.count,
                 exceeded |-> FALSE]
        BY <2>1, <2>2, <3>3, <4>1 DEF TranslateBoolean
      <4>3. r.candidate = c
        BY <4>2
      <4>. QED  BY <1>3, <2>2, <3>3, <4>1, <4>2, <4>3
    <3>. QED  BY <3>1, <3>2, <3>3
  <2>3. CASE e.class = "CONJUNCTION_OR"
    <3>1. CASE Len(e.children) < 2
      BY <1>3, <2>1, <2>3, <3>1 DEF TranslateBoolean
    <3>2. CASE ~ (Len(e.children) < 2) /\ inner.exceeded
      BY <1>3, <2>1, <2>3, <3>2 DEF TranslateBoolean
    <3>3. CASE ~ (Len(e.children) < 2) /\ ~inner.exceeded
      <4>1. PICK c : c = BooleanNode("DISJUNCTION", inner.candidates)
        OBVIOUS
      <4>2. r = [candidate |-> c, complete |-> inner.complete, count |-> inner.count,
                 exceeded |-> FALSE]
        BY <2>1, <2>3, <3>3, <4>1 DEF TranslateBoolean
      <4>3. r.candidate = c
        BY <4>2
      <4>. QED  BY <1>3, <2>3, <3>3, <4>1, <4>2, <4>3
    <3>. QED  BY <3>1, <3>2, <3>3
  <2>4. CASE e.class = "OPERATOR_NOT"
    <3>1. CASE Len(e.children) # 1
      BY <1>3, <2>1, <2>4, <3>1 DEF TranslateBoolean
    <3>2. CASE ~ (Len(e.children) # 1) /\ inner.exceeded
      BY <1>3, <2>1, <2>4, <3>2 DEF TranslateBoolean
    <3>3. CASE ~ (Len(e.children) # 1) /\ ~inner.exceeded
      <4>1. PICK c : c = Negation(inner.candidates[1])
        OBVIOUS
      <4>2. r = [candidate |-> c, complete |-> inner.complete, count |-> inner.count,
                 exceeded |-> FALSE]
        BY <2>1, <2>4, <3>3, <4>1 DEF TranslateBoolean
      <4>3. r.candidate = c
        BY <4>2
      <4>. QED  BY <1>3, <2>4, <3>3, <4>1, <4>2, <4>3
    <3>. QED  BY <3>1, <3>2, <3>3
  <2>5. CASE e.class \notin {"CONJUNCTION_AND", "CONJUNCTION_OR", "OPERATOR_NOT"}
    BY <1>3, <2>1, <2>5 DEF TranslateBoolean
  <2>. QED  BY <2>2, <2>3, <2>4, <2>5
<1>. QED  BY <1>1, <1>2, <1>3

(* An opaque result fits wherever there is room for one node. *)
LEMMA OpaqueFits ==
  ASSUME NEW d \in Nat \ {0}, NEW n \in Nat
  PROVE  /\ \A m \in Nat : n <= m => Fits(Opaque(m, TRUE), d, n)
         /\ ~OverBudget(d, n) => Fits(Opaque(n + 1, FALSE), d, n)
<1>1. ASSUME NEW m \in Nat, n <= m PROVE Fits(Opaque(m, TRUE), d, n)
  <2>1. Opaque(m, TRUE).count = m /\ Opaque(m, TRUE).exceeded = TRUE
    BY DEF Opaque
  <2>2. Opaque(m, TRUE).exceeded \in BOOLEAN /\ Opaque(m, TRUE).exceeded
    BY <2>1, Zenon
  <2>. QED  BY <1>1, <2>1, <2>2 DEF Fits, Counted
<1>2. ASSUME ~OverBudget(d, n) PROVE Fits(Opaque(n + 1, FALSE), d, n)
  <2>1. PICK r : r = Opaque(n + 1, FALSE)
    OBVIOUS
  <2>2. r.count = n + 1 /\ r.exceeded = FALSE /\ r.candidate = Unsupported
    BY <2>1 DEF Opaque
  <2>3. r.exceeded \in BOOLEAN
    BY <2>2, Zenon
  <2>4. Node(Unsupported) /\ Unsupported.depth = 1 /\ Unsupported.nodes = 1
    BY LeafIsNode DEF Unsupported
  <2>5. d <= MaxPredicateDepth /\ n + 1 <= MaxPredicateNodes
    BY <1>2, PredicateLimits DEF OverBudget
  <2>6. r.count = n + 1 /\ r.candidate = Unsupported
    BY <2>2
  <2>7. r.count \in Nat /\ n <= r.count
    BY <2>6
  <2>8. Counted(r, n)
    BY <2>3, <2>7 DEF Counted
  <2>9. Unsupported.depth + d <= MaxPredicateDepth + 1 /\ Unsupported.nodes <= (n + 1) - n
    BY <2>4, <2>5, PredicateLimits
  <2>10. Fits(r, d, n)
    BY <2>4, <2>5, <2>6, <2>8, <2>9 DEF Fits
  <2>. QED  BY <2>1, <2>10, Zenon
<1>. QED  BY <1>1, <1>2

\* The room m children leave at a depth and a count.
Room(inner, m, d, n) ==
  /\ Counted(inner, n)
  /\ ~inner.exceeded =>
       /\ \E X : inner.candidates \in Seq(X)
       /\ Len(inner.candidates) = m
       /\ inner.count <= MaxPredicateNodes
       /\ \A i \in 1..m : /\ Node(inner.candidates[i])
                          /\ inner.candidates[i].depth + d <= MaxPredicateDepth + 1
                          /\ inner.candidates[i].nodes <= inner.count - n
       /\ n # 0 => /\ NodesAfter(inner.candidates)[m] \in Nat \ {0}
                   /\ NodesAfter(inner.candidates)[m] <= 1 + inner.count - n

(* Children that fit one level down, in a loop that did not exceed. *)
LEMMA ChildrenFit ==
  ASSUME NEW T, NEW cs \in Seq(Expressions), NEW d \in Nat, NEW n \in Nat,
         n <= MaxPredicateNodes,
         \A c \in Expressions : \A m \in Nat : Fits(T[<<c, d, m>>], d, m),
         NEW inner, inner = TranslateChildren(T, cs, d, n)[Len(cs)]
  PROVE  Room(inner, Len(cs), d, n)
<1>1. PICK after : after = TranslateChildren(T, cs, d, n)
  OBVIOUS
<1>2. Len(cs) \in Nat /\ \A i \in 1..Len(cs) : cs[i] \in Expressions
  OBVIOUS
<1>3. \A c \in Expressions : \A m \in Nat : Counted(T[<<c, d, m>>], m)
  BY DEF Fits
<1>4. \A i \in 0..Len(cs) : ChildrenDone(T, cs, d, n, after, i)
  BY <1>1, <1>3, ChildrenAre
<1>5. ChildrenDone(T, cs, d, n, after, Len(cs)) /\ inner = after[Len(cs)]
  BY <1>1, <1>2, <1>4
<1>6. Counted(inner, n)
  BY <1>5 DEF ChildrenDone
<1>7. SUFFICES ASSUME ~inner.exceeded PROVE Room(inner, Len(cs), d, n)
  BY <1>6 DEF Room
<1>8. /\ inner.candidates \in Seq(Candidates(T, d)) /\ Len(inner.candidates) = Len(cs)
      /\ \A j \in 1..Len(cs) :
           /\ after[j - 1].count \in Nat /\ n <= after[j - 1].count
           /\ inner.candidates[j] = ChildResult(T, cs, d, after, j).candidate
           /\ ~ChildResult(T, cs, d, after, j).exceeded
           /\ after[j].count = ChildResult(T, cs, d, after, j).count
  BY <1>5, <1>7 DEF ChildrenDone
<1>9. ASSUME NEW j \in 1..Len(cs)
      PROVE  /\ Node(inner.candidates[j])
             /\ inner.candidates[j].depth + d <= MaxPredicateDepth + 1
             /\ inner.candidates[j].nodes <= after[j].count - after[j - 1].count
             /\ after[j].count <= MaxPredicateNodes
             /\ after[j].count \in Nat /\ after[j - 1].count \in Nat
             /\ n <= after[j - 1].count /\ after[j - 1].count <= after[j].count
  <2>1. Fits(ChildResult(T, cs, d, after, j), d, after[j - 1].count)
    BY <1>2, <1>8 DEF ChildResult
  <2>. QED  BY <1>8, <2>1 DEF Fits, Counted
<1>10. PICK c : c = [i \in 0..Len(cs) |-> after[i].count]
  OBVIOUS
<1>11. after[0].count = n
  <2>1. /\ after[0] = NoChild(n)
        /\ \A i \in 1..Len(cs) : after[i] = NextChild(T, cs[i], d, after[i - 1])
    BY <1>1, <1>2, ChildrenUnfold
  <2>. QED  BY <2>1 DEF NoChild
<1>12. \A i \in 0..Len(cs) : c[i] \in Nat /\ c[i] <= MaxPredicateNodes
  <2>1. SUFFICES ASSUME NEW i \in 0..Len(cs)
                 PROVE  after[i].count \in Nat /\ after[i].count <= MaxPredicateNodes
    BY <1>10
  <2>2. CASE i = 0
    BY <1>11, <2>2
  <2>3. CASE i # 0
    <3>1. i \in 1..Len(cs)
      BY <1>2, <2>3
    <3>. QED  BY <1>9, <3>1
  <2>. QED  BY <2>2, <2>3
<1>13. c[0] = n /\ c[Len(cs)] = inner.count
  BY <1>2, <1>5, <1>10, <1>11
<1>14. \A i \in 1..Len(cs) : /\ inner.candidates[i].nodes \in Nat
                             /\ inner.candidates[i].nodes <= c[i] - c[i - 1]
  <2>1. SUFFICES ASSUME NEW i \in 1..Len(cs)
                 PROVE  /\ inner.candidates[i].nodes \in Nat
                        /\ inner.candidates[i].nodes <= c[i] - c[i - 1]
    OBVIOUS
  <2>2. c[i] = after[i].count /\ c[i - 1] = after[i - 1].count
    BY <1>2, <1>10
  <2>. QED  BY <1>9, <2>2 DEF Node
<1>15. n # 0 => /\ NodesAfter(inner.candidates)[Len(cs)] \in Nat \ {0}
                /\ NodesAfter(inner.candidates)[Len(cs)] <= 1 + inner.count - n
  <2>1. SUFFICES ASSUME n # 0
                 PROVE  /\ NodesAfter(inner.candidates)[Len(cs)] \in Nat \ {0}
                        /\ NodesAfter(inner.candidates)[Len(cs)] <= 1 + inner.count - n
    OBVIOUS
  <2>2. PICK ds : ds = inner.candidates
    OBVIOUS
  <2>3. Len(ds) = Len(cs) /\ Len(ds) \in Nat
    BY <1>2, <1>8, <2>2
  <2>4. PICK nodes : nodes = NodesAfter(ds)[Len(ds)]
    OBVIOUS
  <2>5. nodes \in Nat \ {0} /\ nodes <= 1 + c[Len(ds)] - n
    BY <1>12, <1>13, <1>14, <2>1, <2>2, <2>3, <2>4, NodesWithin
  <2>. QED  BY <1>13, <2>2, <2>3, <2>4, <2>5
<1>16. ASSUME NEW i \in 1..Len(cs) PROVE after[i].count <= inner.count
  <2>1. PICK S : S = {k \in Nat : \A j \in 1..Len(cs) :
                        j + k = Len(cs) => after[j].count <= inner.count}
    OBVIOUS
  <2>2. 0 \in S
    BY <1>2, <1>5, <1>6, <2>1 DEF Counted
  <2>3. ASSUME NEW k \in Nat, k \in S PROVE k + 1 \in S
    <3>1. SUFFICES ASSUME NEW j \in 1..Len(cs), j + (k + 1) = Len(cs)
                   PROVE  after[j].count <= inner.count
      BY <2>1
    <3>2. j + 1 \in 1..Len(cs) /\ (j + 1) + k = Len(cs) /\ (j + 1) - 1 = j
      BY <1>2, <3>1
    <3>3. after[j + 1].count <= inner.count
      BY <2>1, <2>3, <3>2
    <3>4. /\ after[j].count \in Nat /\ after[j + 1].count \in Nat /\ inner.count \in Nat
          /\ after[j].count <= after[j + 1].count
      BY <1>6, <1>9, <3>2 DEF Counted
    <3>. QED  BY <3>3, <3>4
  <2>4. \A k \in Nat : k \in S
    BY <2>2, <2>3, SetInduction
  <2>5. Len(cs) - i \in Nat /\ i + (Len(cs) - i) = Len(cs)
    BY <1>2
  <2>. QED  BY <2>1, <2>4, <2>5
<1>17. \A i \in 1..Len(cs) : /\ Node(inner.candidates[i])
                             /\ inner.candidates[i].depth + d <= MaxPredicateDepth + 1
                             /\ inner.candidates[i].nodes <= inner.count - n
  <2>1. SUFFICES ASSUME NEW i \in 1..Len(cs)
                 PROVE  /\ Node(inner.candidates[i])
                        /\ inner.candidates[i].depth + d <= MaxPredicateDepth + 1
                        /\ inner.candidates[i].nodes <= inner.count - n
    OBVIOUS
  <2>2. inner.candidates[i].nodes \in Nat /\ inner.count \in Nat
    BY <1>6, <1>14 DEF Counted
  <2>3. PICK a, b, c0, m : /\ a = after[i - 1].count /\ b = after[i].count
                           /\ c0 = inner.count /\ m = inner.candidates[i].nodes
    OBVIOUS
  <2>4. a \in Nat /\ b \in Nat /\ c0 \in Nat /\ m \in Nat
        /\ m <= b - a /\ n <= a /\ b <= c0
    BY <1>9, <1>16, <2>2, <2>3
  <2>5. m <= c0 - n
    BY <2>4
  <2>. QED  BY <1>9, <2>3, <2>5
<1>18. inner.count <= MaxPredicateNodes
  BY <1>2, <1>12, <1>13
<1>. QED  BY <1>6, <1>8, <1>15, <1>17, <1>18 DEF Room

(* One node up: what fits below makes a node that fits. *)
LEMMA NodeFits ==
  ASSUME NEW T, NEW types, NEW e \in Expressions, NEW d \in Nat \ {0}, NEW n \in Nat,
         \A c \in Expressions : \A m \in Nat : Fits(T[<<c, d + 1, m>>], d + 1, m),
         NEW r, r = TranslateNode(T, types, e, d, n)
  PROVE  Fits(r, d, n)
<1>1. PICK inner : inner = Inner(T, e, d, n)
  OBVIOUS
<1>2. e.children \in Seq(Expressions) /\ Len(e.children) \in Nat
  BY ExpressionAssumption
<1>3. CASE OverBudget(d, n)
  <2>1. r = Opaque(n, TRUE)
    BY <1>3 DEF TranslateNode
  <2>2. n <= n
    OBVIOUS
  <2>. QED  BY <2>1, <2>2, OpaqueFits, Zenon
<1>4. CASE ~OverBudget(d, n)
  <2>1. d <= MaxPredicateDepth /\ n + 1 <= MaxPredicateNodes /\ n + 1 # 0
    BY <1>4, PredicateLimits DEF OverBudget
  <2>2. Room(inner, Len(e.children), d + 1, n + 1)
    <3>1. PICK cs, dd, nn : cs = e.children /\ dd = d + 1 /\ nn = n + 1
      OBVIOUS
    <3>2. dd \in Nat /\ nn \in Nat /\ nn <= MaxPredicateNodes
      BY <2>1, <3>1
    <3>3. inner = TranslateChildren(T, cs, dd, nn)[Len(cs)]
      BY <1>1, <3>1 DEF Inner
    <3>4. \A c \in Expressions : \A m \in Nat : Fits(T[<<c, dd, m>>], dd, m)
      BY <3>1
    <3>5. Room(inner, Len(cs), dd, nn)
      BY <1>2, <3>1, <3>2, <3>3, <3>4, ChildrenFit
    <3>. QED  BY <3>1, <3>5
  <2>3. inner.count \in Nat /\ n + 1 <= inner.count /\ inner.exceeded \in BOOLEAN
    BY <2>2 DEF Room, Counted
  <2>4. CASE r = Opaque(n + 1, FALSE)
    BY <1>4, <2>4, OpaqueFits, Zenon
  <2>5. CASE r = Opaque(inner.count, TRUE)
    <3>1. n <= inner.count
      BY <2>3
    <3>. QED  BY <2>3, <2>5, <3>1, OpaqueFits, Zenon
  <2>6. CASE /\ TranslateComparison(types, e) # REFUSED
             /\ r = [candidate |-> TranslateComparison(types, e), complete |-> TRUE,
                     count |-> n + 1, exceeded |-> FALSE]
    <3>1. PICK c : c = TranslateComparison(types, e)
      OBVIOUS
    <3>2. Node(c) /\ c.depth = 1 /\ c.nodes = 1
      BY <2>6, <3>1, ComparisonIsNode
    <3>3. r.candidate = c /\ r.count = n + 1 /\ r.exceeded = FALSE
      BY <2>6, <3>1
    <3>4. r.exceeded \in BOOLEAN
      BY <3>3, Zenon
    <3>5. Counted(r, n)
      BY <3>3, <3>4 DEF Counted
    <3>6. c.depth + d <= MaxPredicateDepth + 1 /\ c.nodes <= (n + 1) - n
      BY <2>1, <3>2, PredicateLimits
    <3>. QED  BY <2>1, <3>2, <3>3, <3>5, <3>6 DEF Fits
  <2>7. CASE /\ ~inner.exceeded
             /\ r = [candidate |-> r.candidate, complete |-> inner.complete,
                     count |-> inner.count, exceeded |-> FALSE]
             /\ ~ (Len(e.children) < 2)
             /\ \E kind : r.candidate = BooleanNode(kind, inner.candidates)
    <3>1. PICK kind : r.candidate = BooleanNode(kind, inner.candidates)
      BY <2>7
    <3>2. PICK X, cs, nodes, b : /\ inner.candidates \in Seq(X) /\ cs = inner.candidates
                                 /\ nodes = NodesAfter(cs)[Len(cs)]
                                 /\ b = MaxPredicateDepth + 1 - d
      BY <2>2, <2>7 DEF Room
    <3>3. cs \in Seq(X) /\ Len(cs) = Len(e.children) /\ Len(cs) >= 2
      BY <1>2, <2>2, <2>7, <3>2 DEF Room
    <3>4. nodes \in Nat \ {0} /\ nodes <= inner.count - n
      <4>1. /\ NodesAfter(cs)[Len(cs)] \in Nat \ {0}
            /\ NodesAfter(cs)[Len(cs)] <= 1 + inner.count - (n + 1)
        BY <2>1, <2>2, <2>7, <3>2, <3>3 DEF Room
      <4>. QED  BY <2>3, <3>2, <4>1
    <3>5. \A i \in 1..Len(cs) : Node(cs[i]) /\ cs[i].depth + (d + 1) <= MaxPredicateDepth + 1
      BY <2>2, <2>7, <3>2, <3>3 DEF Room
    <3>6. b \in Nat /\ b <= MaxPredicateDepth
      BY <2>1, <3>2, PredicateLimits
    <3>7. ASSUME NEW i \in 1..Len(cs) PROVE Node(cs[i]) /\ cs[i].depth + 1 <= b
      <4>1. PICK depth : depth = cs[i].depth
        OBVIOUS
      <4>2. depth \in Nat /\ depth + (d + 1) <= MaxPredicateDepth + 1
        BY <3>5, <4>1 DEF Node
      <4>3. depth + 1 <= b
        BY <3>2, <4>2, PredicateLimits
      <4>. QED  BY <3>5, <4>1, <4>3
    <3>8. nodes <= MaxPredicateNodes /\ inner.count <= MaxPredicateNodes
      BY <2>2, <2>3, <2>7, <3>4, PredicateLimits DEF Room
    <3>9. PICK c : c = BooleanNode(kind, cs)
      OBVIOUS
    <3>10. Node(c) /\ c.depth <= b /\ c.nodes = nodes
      <4>1. BooleanRoom(cs, b, nodes)
        BY <3>2, <3>3, <3>4, <3>6, <3>7, <3>8 DEF BooleanRoom
      <4>2. BooleanOver(c, kind, cs, b, nodes)
        BY <3>9, <4>1, BooleanIs, Zenon
      <4>. QED  BY <4>2 DEF BooleanOver
    <3>11. r.candidate = c /\ r.count = inner.count /\ r.exceeded = FALSE
      BY <2>7, <3>1, <3>2, <3>9
    <3>12. r.exceeded \in BOOLEAN
      BY <3>11, Zenon
    <3>13. Counted(r, n)
      BY <2>3, <3>11, <3>12 DEF Counted
    <3>14. c.depth + d <= MaxPredicateDepth + 1
      BY <3>2, <3>6, <3>10, PredicateLimits DEF Node
    <3>. QED  BY <3>4, <3>8, <3>10, <3>11, <3>13, <3>14 DEF Fits
  <2>8. CASE /\ ~inner.exceeded
             /\ r = [candidate |-> r.candidate, complete |-> inner.complete,
                     count |-> inner.count, exceeded |-> FALSE]
             /\ Len(e.children) = 1 /\ r.candidate = Negation(inner.candidates[1])
    <3>1. PICK c : c = inner.candidates[1]
      OBVIOUS
    <3>2. /\ Node(c) /\ c.depth + (d + 1) <= MaxPredicateDepth + 1
          /\ c.nodes <= inner.count - (n + 1) /\ inner.count <= MaxPredicateNodes
      BY <1>2, <2>2, <2>8, <3>1 DEF Room
    <3>3. c.depth \in Nat /\ c.nodes \in Nat
      BY <3>2 DEF Node
    <3>4. c.depth + 1 <= MaxPredicateDepth /\ c.nodes + 1 <= MaxPredicateNodes
      BY <2>3, <3>2, <3>3, PredicateLimits
    <3>5. PICK neg : neg = Negation(c)
      OBVIOUS
    <3>6. Node(neg) /\ neg.depth = c.depth + 1 /\ neg.nodes = c.nodes + 1
      BY <3>2, <3>4, <3>5, NegationIs
    <3>7. r.candidate = neg /\ r.count = inner.count /\ r.exceeded = FALSE
      BY <2>8, <3>1, <3>5
    <3>8. r.exceeded \in BOOLEAN
      BY <3>7, Zenon
    <3>9. Counted(r, n)
      BY <2>3, <3>7, <3>8 DEF Counted
    <3>10. neg.depth + d <= MaxPredicateDepth + 1 /\ neg.nodes <= inner.count - n
      BY <2>3, <3>2, <3>3, <3>6, PredicateLimits
    <3>. QED  BY <3>2, <3>6, <3>7, <3>9, <3>10 DEF Fits
  <2>9. \/ r = Opaque(n + 1, FALSE)
        \/ r = Opaque(inner.count, TRUE)
        \/ /\ TranslateComparison(types, e) # REFUSED
           /\ r = [candidate |-> TranslateComparison(types, e), complete |-> TRUE,
                   count |-> n + 1, exceeded |-> FALSE]
        \/ /\ ~inner.exceeded
           /\ r = [candidate |-> r.candidate, complete |-> inner.complete,
                   count |-> inner.count, exceeded |-> FALSE]
           /\ \/ /\ ~ (Len(e.children) < 2)
                 /\ \/ r.candidate = BooleanNode("CONJUNCTION", inner.candidates)
                    \/ r.candidate = BooleanNode("DISJUNCTION", inner.candidates)
              \/ Len(e.children) = 1 /\ r.candidate = Negation(inner.candidates[1])
    <3>1. d \in Nat
      OBVIOUS
    <3>2. Outcome(r, types, e, d, n, inner)
      BY <1>1, <2>3, <3>1, NodeCases, Zenon
    <3>. QED  BY <1>4, <3>2, Zenon DEF Outcome
  <2>. QED  BY <2>4, <2>5, <2>6, <2>7, <2>8, <2>9
<1>. QED  BY <1>3, <1>4

(* Every expression fits at every depth and count: by induction on the depth that
   is left. *)
LEMMA ExpressionFits ==
  ASSUME NEW types, NEW T, T = TranslateExpression(types)
  PROVE  \A e \in Expressions : \A d \in Nat \ {0} : \A n \in Nat : Fits(T[<<e, d, n>>], d, n)
<1>1. PICK S : S = {k \in Nat : \A e \in Expressions : \A d \in Nat \ {0} : \A n \in Nat :
                      d + k > MaxPredicateDepth => Fits(T[<<e, d, n>>], d, n)}
  OBVIOUS
<1>2. 0 \in S
  <2>1. SUFFICES ASSUME NEW e \in Expressions, NEW d \in Nat \ {0}, NEW n \in Nat,
                        d + 0 > MaxPredicateDepth
                 PROVE  Fits(T[<<e, d, n>>], d, n)
    BY <1>1
  <2>2. OverBudget(d, n)
    BY <2>1, PredicateLimits DEF OverBudget
  <2>3. T[<<e, d, n>>] = TranslateNode(T, types, e, d, n)
    BY TranslationUnfolds
  <2>4. T[<<e, d, n>>] = Opaque(n, TRUE)
    BY <2>2, <2>3 DEF TranslateNode
  <2>5. n <= n
    OBVIOUS
  <2>. QED  BY <2>4, <2>5, OpaqueFits, Zenon
<1>3. ASSUME NEW k \in Nat, k \in S PROVE k + 1 \in S
  <2>1. SUFFICES ASSUME NEW e \in Expressions, NEW d \in Nat \ {0}, NEW n \in Nat,
                        d + (k + 1) > MaxPredicateDepth
                 PROVE  Fits(T[<<e, d, n>>], d, n)
    BY <1>1
  <2>2. d + 1 \in Nat \ {0} /\ (d + 1) + k > MaxPredicateDepth
    BY <2>1, PredicateLimits
  <2>3. \A c \in Expressions : \A m \in Nat : Fits(T[<<c, d + 1, m>>], d + 1, m)
    BY <1>1, <1>3, <2>2
  <2>4. T[<<e, d, n>>] = TranslateNode(T, types, e, d, n)
    BY TranslationUnfolds
  <2>. QED  BY <2>3, <2>4, NodeFits
<1>4. \A k \in Nat : k \in S
  BY <1>2, <1>3, SetInduction
<1>5. ASSUME NEW e \in Expressions, NEW d \in Nat \ {0}, NEW n \in Nat
      PROVE  Fits(T[<<e, d, n>>], d, n)
  <2>1. MaxPredicateDepth \in Nat /\ d + MaxPredicateDepth > MaxPredicateDepth
    BY PredicateLimits
  <2>. QED  BY <1>1, <1>4, <2>1
<1>. QED  BY <1>5

(* What the callback offers as a candidate is a predicate: no filter is too deep or
   too large for the constructors once it has passed the budget. *)
LEMMA CandidateIsNode ==
  ASSUME NEW types, NEW fs \in Seq(Expressions)
  PROVE  Node(TranslateComplexFilters(types, fs).candidate)
<1>1. PICK T, d, n : /\ T = TranslateExpression(types)
                     /\ d = (IF Len(fs) > 1 THEN 2 ELSE 1)
                     /\ n = (IF Len(fs) > 1 THEN 1 ELSE 0)
  OBVIOUS
<1>2. PICK all : all = TranslateChildren(T, fs, d, n)[Len(fs)]
  OBVIOUS
<1>3. Len(fs) \in Nat
  OBVIOUS
<1>4. CASE Len(fs) = 0
  <2>1. TranslateComplexFilters(types, fs).candidate = Unrestricted
    BY <1>4 DEF TranslateComplexFilters
  <2>. QED  BY <2>1, LeafIsNode DEF Unrestricted
<1>5. CASE Len(fs) # 0
  <2>1. TranslateComplexFilters(types, fs) = Translated(all)
    BY <1>1, <1>2, <1>5 DEF TranslateComplexFilters
  <2>2. d \in Nat \ {0} /\ n \in Nat /\ n <= MaxPredicateNodes
    BY <1>1, <1>3, PredicateLimits
  <2>3. \A c \in Expressions : \A m \in Nat : Fits(T[<<c, d, m>>], d, m)
    BY <1>1, <2>2, ExpressionFits
  <2>4. Room(all, Len(fs), d, n)
    BY <1>2, <2>2, <2>3, ChildrenFit
  <2>5. all.exceeded \in BOOLEAN /\ all.count \in Nat
    BY <2>4 DEF Room, Counted
  <2>6. CASE all.exceeded
    <3>1. Translated(all).candidate = Unsupported
      BY <2>6 DEF Translated
    <3>. QED  BY <2>1, <3>1, LeafIsNode DEF Unsupported
  <2>7. CASE ~all.exceeded /\ Len(fs) = 1
    <3>1. Len(all.candidates) = 1 /\ Node(all.candidates[1])
      BY <2>4, <2>7 DEF Room
    <3>2. Translated(all).candidate = all.candidates[1]
      BY <2>7, <3>1 DEF Translated
    <3>. QED  BY <2>1, <3>1, <3>2
  <2>8. CASE ~all.exceeded /\ Len(fs) # 1
    <3>1. d = 2 /\ n = 1 /\ Len(fs) >= 2
      <4>1. Len(fs) > 1
        <5>1. Len(fs) # 1
          BY <2>8, Zenon
        <5>. QED  BY <1>3, <1>5, <5>1
      <4>. QED  BY <1>1, <1>3, <4>1
    <3>2. PICK X, cs, nodes : /\ all.candidates \in Seq(X) /\ cs = all.candidates
                              /\ nodes = NodesAfter(cs)[Len(cs)]
      BY <2>4, <2>8 DEF Room
    <3>3. cs \in Seq(X) /\ Len(cs) = Len(fs) /\ Len(cs) >= 2
      BY <2>4, <2>8, <3>1, <3>2 DEF Room
    <3>4. nodes \in Nat \ {0} /\ nodes <= MaxPredicateNodes
      <4>1. /\ NodesAfter(cs)[Len(cs)] \in Nat \ {0}
            /\ NodesAfter(cs)[Len(cs)] <= 1 + all.count - 1
            /\ all.count <= MaxPredicateNodes
        BY <2>4, <2>8, <3>1, <3>2, <3>3 DEF Room
      <4>. QED  BY <2>5, <3>2, <4>1, PredicateLimits
    <3>5. \A i \in 1..Len(cs) : Node(cs[i]) /\ cs[i].depth + 2 <= MaxPredicateDepth + 1
      BY <2>4, <2>8, <3>1, <3>2, <3>3 DEF Room
    <3>6. ASSUME NEW i \in 1..Len(cs)
          PROVE  Node(cs[i]) /\ cs[i].depth + 1 <= MaxPredicateDepth
      <4>1. PICK depth : depth = cs[i].depth
        OBVIOUS
      <4>2. depth \in Nat /\ depth + 2 <= MaxPredicateDepth + 1
        BY <3>5, <4>1 DEF Node
      <4>3. depth + 1 <= MaxPredicateDepth
        BY <4>2, PredicateLimits
      <4>. QED  BY <3>5, <4>1, <4>3
    <3>7. Node(BooleanNode("CONJUNCTION", cs))
      <4>1. BooleanRoom(cs, MaxPredicateDepth, nodes)
        BY <3>2, <3>3, <3>4, <3>6, PredicateLimits DEF BooleanRoom
      <4>2. BooleanOver(BooleanNode("CONJUNCTION", cs), "CONJUNCTION", cs, MaxPredicateDepth, nodes)
        BY <4>1, BooleanIs, Zenon
      <4>. QED  BY <4>2 DEF BooleanOver
    <3>8. Translated(all).candidate = BooleanNode("CONJUNCTION", cs)
      BY <1>5, <2>8, <3>2, <3>3 DEF Translated
    <3>. QED  BY <2>1, <3>7, <3>8
  <2>. QED  BY <2>5, <2>6, <2>7, <2>8
<1>. QED  BY <1>4, <1>5

(* So it is never a refusal. *)
LEMMA CandidateFits ==
  ASSUME NEW types, NEW fs \in Seq(Expressions)
  PROVE  TranslateComplexFilters(types, fs).candidate # REFUSED
BY CandidateIsNode, NodeNotRefused


-----------------------------------------------------------------------------
(* Sequences of sequences *)

Joined(a, b) == a \o b

\* The first sequences of seqs, joined.
Flat(seqs) ==
  LET flatten[i \in 1..Len(seqs)] ==
        IF i = 1 THEN seqs[i] ELSE Joined(flatten[i - 1], seqs[i])
  IN  flatten

(* Flattening, one sequence at a time. *)
LEMMA FlatEquation ==
  ASSUME NEW seqs
  PROVE  Flat(seqs) = [i \in 1..Len(seqs) |->
                         IF i = 1 THEN seqs[i] ELSE Joined(Flat(seqs)[i - 1], seqs[i])]
BY DEF Flat

(* The last of those is the flattened sequence. *)
LEMMA FlattenIsFlat ==
  ASSUME NEW seqs, Len(seqs) # 0
  PROVE  FlattenSeq(seqs) = Flat(seqs)[Len(seqs)]
BY DEF FlattenSeq, Flat, Joined

\* F holds the elements of the first n sequences and nothing else.
Holds(F, X, seqs, n) ==
  /\ F \in Seq(X)
  /\ \A i \in 1..n : \A j \in 1..Len(seqs[i]) : \E k \in 1..Len(F) : F[k] = seqs[i][j]

(* What two sequences hold, their concatenation holds. *)
LEMMA JoinedHolds ==
  ASSUME NEW X, NEW seqs \in Seq(Seq(X)), NEW n \in Nat, n + 1 \in 1..Len(seqs),
         NEW F, Holds(F, X, seqs, n), NEW G, G = Joined(F, seqs[n + 1])
  PROVE  Holds(G, X, seqs, n + 1)
<1>1. PICK s \in Seq(X) : s = seqs[n + 1]
  OBVIOUS
<1>2. F \in Seq(X) /\ G = F \o s
  BY <1>1 DEF Holds, Joined
<1>3. /\ G \in Seq(X) /\ Len(G) = Len(F) + Len(s) /\ Len(F) \in Nat /\ Len(s) \in Nat
      /\ \A k \in 1..Len(F) : G[k] = F[k]
      /\ \A j \in 1..Len(s) : G[Len(F) + j] = s[j]
  BY <1>2
<1>4. ASSUME NEW i \in 1..(n + 1), NEW j \in 1..Len(seqs[i])
      PROVE  \E k \in 1..Len(G) : G[k] = seqs[i][j]
  <2>1. CASE i = n + 1
    <3>1. j \in 1..Len(s) /\ seqs[i][j] = s[j]
      BY <1>1, <2>1
    <3>2. Len(F) + j \in 1..Len(G) /\ G[Len(F) + j] = s[j]
      BY <1>3, <3>1
    <3>. QED  BY <3>1, <3>2
  <2>2. CASE i # n + 1
    <3>1. i \in 1..n
      BY <2>2
    <3>2. PICK k \in 1..Len(F) : F[k] = seqs[i][j]
      BY <3>1 DEF Holds
    <3>3. k \in 1..Len(G) /\ G[k] = F[k]
      BY <1>3
    <3>. QED  BY <3>2, <3>3
  <2>. QED  BY <2>1, <2>2
<1>. QED  BY <1>3, <1>4 DEF Holds

(* A flattened sequence holds the elements of its sequences and nothing else. *)
LEMMA FlattenHolds ==
  ASSUME NEW X, NEW seqs \in Seq(Seq(X))
  PROVE  Holds(FlattenSeq(seqs), X, seqs, Len(seqs))
<1>1. Len(seqs) \in Nat
  OBVIOUS
<1>2. CASE Len(seqs) = 0
  <2>1. FlattenSeq(seqs) = seqs
    BY <1>2 DEF FlattenSeq
  <2>2. seqs \in Seq(X)
    BY <1>2
  <2>. QED  BY <1>2, <2>1, <2>2 DEF Holds
<1>3. CASE Len(seqs) # 0
  <2>1. PICK f : f = Flat(seqs)
    OBVIOUS
  <2>2. f = [i \in 1..Len(seqs) |-> IF i = 1 THEN seqs[i] ELSE Joined(f[i - 1], seqs[i])]
    BY <2>1, FlatEquation
  <2>3. PICK S : S = {n \in Nat : n + 1 \in 1..Len(seqs) => Holds(f[n + 1], X, seqs, n + 1)}
    OBVIOUS
  <2>4. 0 \in S
    <3>1. 1 \in 1..Len(seqs) /\ f[1] = seqs[1] /\ seqs[1] \in Seq(X)
      BY <1>1, <1>3, <2>2
    <3>2. Holds(f[1], X, seqs, 1)
      <4>1. ASSUME NEW i \in 1..1, NEW j \in 1..Len(seqs[i])
            PROVE  \E k \in 1..Len(f[1]) : f[1][k] = seqs[i][j]
        <5>1. i = 1
          OBVIOUS
        <5>. QED  BY <3>1, <5>1
      <4>. QED  BY <3>1, <4>1 DEF Holds
    <3>3. 0 + 1 = 1
      OBVIOUS
    <3>. QED  BY <2>3, <3>2, <3>3
  <2>5. ASSUME NEW n \in Nat, n \in S PROVE n + 1 \in S
    <3>1. SUFFICES ASSUME (n + 1) + 1 \in 1..Len(seqs)
                   PROVE  Holds(f[(n + 1) + 1], X, seqs, (n + 1) + 1)
      BY <2>3
    <3>2. n + 1 \in 1..Len(seqs) /\ Holds(f[n + 1], X, seqs, n + 1)
      BY <1>1, <2>3, <2>5, <3>1
    <3>3. PICK m \in Nat : m = n + 1
      OBVIOUS
    <3>4. m + 1 \in 1..Len(seqs) /\ m + 1 # 1 /\ (m + 1) - 1 = m
      BY <3>1, <3>3
    <3>5. f[m + 1] = Joined(f[m], seqs[m + 1])
      BY <2>2, <3>4
    <3>6. Holds(f[m + 1], X, seqs, m + 1)
      BY <3>2, <3>3, <3>4, <3>5, JoinedHolds
    <3>. QED  BY <3>3, <3>6
  <2>6. \A n \in Nat : n \in S
    BY <2>4, <2>5, SetInduction
  <2>7. PICK m : m = Len(seqs) - 1
    OBVIOUS
  <2>9. m \in Nat /\ Len(seqs) = m + 1
    BY <1>1, <1>3, <2>7
  <2>8. Holds(f[Len(seqs)], X, seqs, Len(seqs))
    BY <1>1, <1>3, <2>3, <2>6, <2>9
  <2>. QED  BY <1>3, <2>1, <2>8, FlattenIsFlat
<1>. QED  BY <1>2, <1>3


-----------------------------------------------------------------------------
(* Where the nodes of a candidate come from *)

\* Predicate y is what the translation makes of expression z somewhere.
From(T, y, z) == \E d \in Nat \ {0} : \E n \in Nat : y = T[<<z, d, n>>].candidate

AllCandidates(T) == {T[at].candidate : at \in Expressions \X (Nat \ {0}) \X Nat}

\* Predicates ys are made of expressions zs, one by one.
MadeOf(T, ys, zs) ==
  /\ ys \in Seq(AllCandidates(T)) /\ Len(ys) = Len(zs)
  /\ \A i \in 1..Len(ys) : From(T, ys[i], zs[i])

(* A candidate comes from an expression. *)
LEMMA CandidateFrom ==
  ASSUME NEW T, NEW y \in AllCandidates(T)
  PROVE  \E z \in Expressions : From(T, y, z)
<1>1. PICK at \in Expressions \X (Nat \ {0}) \X Nat : y = T[at].candidate
  BY DEF AllCandidates
<1>2. /\ at[1] \in Expressions /\ at[2] \in Nat \ {0} /\ at[3] \in Nat
      /\ at = <<at[1], at[2], at[3]>>
  OBVIOUS
<1>3. From(T, y, at[1])
  BY <1>1, <1>2 DEF From
<1>. QED  BY <1>2, <1>3

(* And an expression has its candidates. *)
LEMMA FromCandidate ==
  ASSUME NEW T, NEW z \in Expressions, NEW d \in Nat \ {0}, NEW n \in Nat,
         NEW y, y = T[<<z, d, n>>].candidate
  PROVE  y \in AllCandidates(T) /\ From(T, y, z)
<1>1. PICK at : at = <<z, d, n>>
  OBVIOUS
<1>2. at \in Expressions \X (Nat \ {0}) \X Nat
  BY <1>1
<1>. QED  BY <1>1, <1>2 DEF AllCandidates, From

(* The candidates of children come from the children. *)
LEMMA ChildrenFrom ==
  ASSUME NEW types, NEW T, T = TranslateExpression(types), NEW zs \in Seq(Expressions),
         NEW d \in Nat \ {0}, NEW n \in Nat,
         NEW inner, inner = TranslateChildren(T, zs, d, n)[Len(zs)], ~inner.exceeded
  PROVE  MadeOf(T, inner.candidates, zs)
<1>1. PICK after : after = TranslateChildren(T, zs, d, n)
  OBVIOUS
<1>2. Len(zs) \in Nat /\ \A i \in 1..Len(zs) : zs[i] \in Expressions
  OBVIOUS
<1>3. \A c \in Expressions : \A m \in Nat : Counted(T[<<c, d, m>>], m)
  BY ExpressionFits DEF Fits
<1>4. ChildrenDone(T, zs, d, n, after, Len(zs))
  <2>1. \A i \in 0..Len(zs) : ChildrenDone(T, zs, d, n, after, i)
    BY <1>1, <1>3, ChildrenAre
  <2>2. Len(zs) \in 0..Len(zs)
    BY <1>2
  <2>. QED  BY <2>1, <2>2
<1>5. inner = after[Len(zs)]
  BY <1>1
<1>6. PICK ys, k : ys = inner.candidates /\ k = Len(zs)
  OBVIOUS
<1>7. /\ ys \in Seq(Candidates(T, d)) /\ Len(ys) = k
      /\ \A j \in 1..k : /\ after[j - 1].count \in Nat
                         /\ ys[j] = ChildResult(T, zs, d, after, j).candidate
  BY <1>4, <1>5, <1>6 DEF ChildrenDone
<1>8. ASSUME NEW j \in 1..k
      PROVE  ys[j] \in AllCandidates(T) /\ From(T, ys[j], zs[j])
  <2>1. PICK m \in Nat : m = after[j - 1].count
    BY <1>7
  <2>2. ys[j] = T[<<zs[j], d, m>>].candidate
    BY <1>7, <2>1 DEF ChildResult
  <2>3. zs[j] \in Expressions
    BY <1>2, <1>6
  <2>. QED  BY <2>2, <2>3, FromCandidate
<1>9. ys \in Seq(AllCandidates(T))
  <2>1. Len(ys) \in Nat /\ ys \in [1..Len(ys) -> AllCandidates(T)]
    BY <1>7, <1>8
  <2>. QED  BY <2>1
<1>. QED  BY <1>6, <1>7, <1>8, <1>9 DEF MadeOf

(* A boolean node that is built has the kind and the children it is given. *)
LEMMA BooleanShape ==
  ASSUME NEW kind, NEW cs, NEW r, r = BooleanNode(kind, cs), r # REFUSED
  PROVE  r.kind = kind /\ r.children = cs
<1>1. PICK depth, nodes :
        r = [Leaf(kind) EXCEPT !.children = cs, !.depth = depth, !.nodes = nodes]
  BY Zenon DEF BooleanNode
<1>2. r = [kind |-> kind, column |-> 0, literal |-> NullScalar("BIGINT"),
           children |-> cs, depth |-> depth, nodes |-> nodes]
  BY <1>1 DEF Leaf
<1>. QED  BY <1>2

(* A negation is one. *)
LEMMA NegationShape ==
  ASSUME NEW c, NEW r, r = Negation(c), r # REFUSED
  PROVE  r.kind = "NEGATION"
<1>1. r = [Leaf("NEGATION") EXCEPT !.children = <<c>>, !.depth = c.depth + 1,
                                   !.nodes = c.nodes + 1]
  BY DEF Negation
<1>2. r = [kind |-> "NEGATION", column |-> 0, literal |-> NullScalar("BIGINT"),
           children |-> <<c>>, depth |-> c.depth + 1, nodes |-> c.nodes + 1]
  BY <1>1 DEF Leaf
<1>. QED  BY <1>2

\* What the translation of an expression is, by its kind.
Origin(T, types, y, z) ==
  \/ y.kind = "UNSUPPORTED"
  \/ y.kind = "DISJUNCTION"
  \/ y.kind = "NEGATION"
  \/ y.kind = "COMPARISON" /\ y = TranslateComparison(types, z) /\ y # REFUSED
  \/ /\ y.kind = "CONJUNCTION" /\ z.class = "CONJUNCTION_AND"
     /\ MadeOf(T, y.children, z.children)

(* A comparison comes from that comparison, and a conjunction from a conjunction
   whose parts its children come from. *)
LEMMA OriginIs ==
  ASSUME NEW types, NEW T, T = TranslateExpression(types), NEW z \in Expressions,
         NEW y, From(T, y, z)
  PROVE  Origin(T, types, y, z)
<1>1. PICK d \in Nat \ {0} : \E n \in Nat : y = T[<<z, d, n>>].candidate
  BY DEF From
<1>2. PICK n \in Nat : y = T[<<z, d, n>>].candidate
  BY <1>1
<1>3. PICK r : r = T[<<z, d, n>>]
  OBVIOUS
<1>4. r = TranslateNode(T, types, z, d, n) /\ y = r.candidate
  BY <1>2, <1>3, TranslationUnfolds
<1>5. PICK inner : inner = Inner(T, z, d, n)
  OBVIOUS
<1>6. z.children \in Seq(Expressions) /\ d + 1 \in Nat \ {0} /\ n + 1 \in Nat
  BY ExpressionAssumption
<1>7. inner.exceeded \in BOOLEAN
  <2>1. PICK zs, dd, nn : zs = z.children /\ dd = d + 1 /\ nn = n + 1
    OBVIOUS
  <2>2. \A c \in Expressions : \A m \in Nat : Counted(T[<<c, dd, m>>], m)
    BY <1>6, <2>1, ExpressionFits DEF Fits
  <2>3. PICK after : after = TranslateChildren(T, zs, dd, nn)
    OBVIOUS
  <2>4. Len(zs) \in 0..Len(zs)
    BY <1>6, <2>1
  <2>5. ChildrenDone(T, zs, dd, nn, after, Len(zs))
    BY <1>6, <2>1, <2>2, <2>3, <2>4, ChildrenAre
  <2>6. inner = after[Len(zs)]
    BY <1>5, <2>1, <2>3 DEF Inner
  <2>. QED  BY <2>5, <2>6 DEF ChildrenDone, Counted
<1>8. Outcome(r, types, z, d, n, inner)
  BY <1>4, <1>5, <1>7, NodeCases, Zenon
<1>9. Fits(r, d, n)
  BY <1>3, ExpressionFits
<1>10. CASE \E m, b : r = Opaque(m, b)
  <2>1. y = Unsupported
    BY <1>4, <1>10 DEF Opaque
  <2>. QED  BY <2>1, LeafIsNode DEF Unsupported, Origin
<1>11. CASE /\ TranslateComparison(types, z) # REFUSED
            /\ r = [candidate |-> TranslateComparison(types, z), complete |-> TRUE,
                    count |-> n + 1, exceeded |-> FALSE]
  <2>1. y = TranslateComparison(types, z)
    BY <1>4, <1>11
  <2>2. y.kind = "COMPARISON"
    BY <1>11, <2>1, ComparisonIsNode
  <2>. QED  BY <1>11, <2>1, <2>2 DEF Origin
<1>12. CASE /\ ~inner.exceeded
            /\ r = [candidate |-> r.candidate, complete |-> inner.complete,
                    count |-> inner.count, exceeded |-> FALSE]
            /\ \/ /\ z.class = "CONJUNCTION_AND"
                  /\ r.candidate = BooleanNode("CONJUNCTION", inner.candidates)
               \/ r.candidate = BooleanNode("DISJUNCTION", inner.candidates)
               \/ r.candidate = Negation(inner.candidates[1])
  <2>1. r.exceeded = FALSE
    BY <1>12
  <2>2. y # REFUSED
    <3>1. Node(y)
      BY <1>4, <1>9, <2>1 DEF Fits
    <3>. QED  BY <3>1, NodeNotRefused
  <2>3. CASE z.class = "CONJUNCTION_AND" /\ y = BooleanNode("CONJUNCTION", inner.candidates)
    <3>1. y.kind = "CONJUNCTION" /\ y.children = inner.candidates
      BY <2>2, <2>3, BooleanShape
    <3>2. MadeOf(T, inner.candidates, z.children)
      <4>1. PICK zs, dd, nn : zs = z.children /\ dd = d + 1 /\ nn = n + 1
        OBVIOUS
      <4>2. inner = TranslateChildren(T, zs, dd, nn)[Len(zs)]
        BY <1>5, <4>1 DEF Inner
      <4>3. MadeOf(T, inner.candidates, zs)
        BY <1>6, <1>12, <4>1, <4>2, ChildrenFrom
      <4>. QED  BY <4>1, <4>3
    <3>. QED  BY <2>3, <3>1, <3>2 DEF Origin
  <2>4. CASE y = BooleanNode("DISJUNCTION", inner.candidates)
    BY <2>2, <2>4, BooleanShape DEF Origin
  <2>5. CASE y = Negation(inner.candidates[1])
    BY <2>2, <2>5, NegationShape DEF Origin
  <2>. QED  BY <1>4, <1>12, <2>3, <2>4, <2>5
<1>. QED  BY <1>8, <1>10, <1>11, <1>12, Zenon DEF Outcome


-----------------------------------------------------------------------------
(* What DuckDB means *)

(* The meaning of an expression is that of its top node. *)
LEMMA MeaningUnfolds ==
  ASSUME NEW row, NEW e \in Expressions
  PROVE  Meaning(row)[e] = MeaningOf(Meaning(row), e, row)
<1>1. PICK M : M = Meaning(row)
  OBVIOUS
<1>2. M = [x \in Expressions |-> MeaningOf(M, x, row)]
  BY <1>1 DEF Meaning
<1>3. M[e] = MeaningOf(M, e, row)
  BY <1>2
<1>. QED  BY <1>1, <1>3

(* A comparison that is translated holds in the rows whose column has its literal,
   which is never NULL; -0 has become 0 on both ways. *)
LEMMA ComparisonMeans ==
  ASSUME NEW types, NEW z \in Expressions, NEW y, y = TranslateComparison(types, z), y # REFUSED
  PROVE  /\ y.column \in DOMAIN types
         /\ y = [kind |-> "COMPARISON", column |-> y.column, literal |-> y.literal,
                 children |-> << >>, depth |-> 1, nodes |-> 1]
         /\ \A row : Meaning(row)[z] = "TRUE" <=> row[y.column] = y.literal
<1>1. PICK column, literal :
        /\ {column, literal} = {z.left, z.right}
        /\ ResolveBoundColumn(types, column) /\ RequestedLiteral(literal, column.scalar.type)
        /\ y = Comparison(column.column, column.scalar.type, Canonical(literal.scalar))
        /\ (column = z.left /\ literal = z.right) \/ (column = z.right /\ literal = z.left)
  <2>1. CASE /\ ResolveBoundColumn(types, z.left)
             /\ RequestedLiteral(z.right, z.left.scalar.type)
             /\ y = Comparison(z.left.column, z.left.scalar.type, Canonical(z.right.scalar))
    BY <2>1
  <2>2. CASE /\ ResolveBoundColumn(types, z.right)
             /\ RequestedLiteral(z.left, z.right.scalar.type)
             /\ y = Comparison(z.right.column, z.right.scalar.type, Canonical(z.left.scalar))
    BY <2>2
  <2>. QED  BY <2>1, <2>2, Zenon DEF TranslateComparison
<1>2. z.class = "COMPARE_EQUAL"
  BY DEF TranslateComparison
<1>3. PICK value : value = Canonical(literal.scalar)
  OBVIOUS
<1>4. y = [Leaf("COMPARISON") EXCEPT !.column = column.column, !.literal = value]
  BY <1>1, <1>3 DEF Comparison
<1>5. y = [kind |-> "COMPARISON", column |-> column.column, literal |-> value,
           children |-> << >>, depth |-> 1, nodes |-> 1]
  BY <1>4 DEF Leaf
<1>6. y.column = column.column /\ y.literal = value
  BY <1>5
<1>7. /\ column.operand = "COLUMN" /\ column.column \in DOMAIN types
      /\ literal.operand = "CONSTANT" /\ ~literal.scalar.null
  BY <1>1 DEF ResolveBoundColumn, RequestedLiteral
<1>8. ~value.null
  <2>1. CASE Canonical(literal.scalar) = literal.scalar
    BY <1>3, <1>7, <2>1
  <2>2. CASE Canonical(literal.scalar) = [literal.scalar EXCEPT !.value = "0"]
    BY <1>3, <1>7, <2>2
  <2>. QED  BY <2>1, <2>2 DEF Canonical
<1>9. ASSUME NEW row
      PROVE  Meaning(row)[z] = "TRUE" <=> row[y.column] = y.literal
  <2>1. PICK left, right : left = OperandValue(z.left, row) /\ right = OperandValue(z.right, row)
    OBVIOUS
  <2>2. OperandValue(column, row) = row[y.column] /\ OperandValue(literal, row) = value
    BY <1>3, <1>6, <1>7 DEF OperandValue
  <2>3. \/ left = row[y.column] /\ right = value
        \/ left = value /\ right = row[y.column]
    BY <1>1, <2>1, <2>2
  <2>4. PICK m : m = Meaning(row)[z]
    OBVIOUS
  <2>5. m = (IF left.null \/ right.null THEN "NULL"
             ELSE IF left = right THEN "TRUE" ELSE "FALSE")
    <3>1. m = MeaningOf(Meaning(row), z, row)
      BY <2>4, MeaningUnfolds
    <3>. QED  BY <1>2, <2>1, <3>1 DEF MeaningOf
  <2>6. CASE left = right
    <3>1. ~left.null /\ ~right.null
      BY <1>8, <2>3, <2>6
    <3>2. m = "TRUE"
      BY <2>5, <2>6, <3>1
    <3>. QED  BY <1>6, <2>3, <2>4, <2>6, <3>2
  <2>7. CASE left # right
    <3>1. m # "TRUE"
      BY <2>5, <2>7
    <3>. QED  BY <1>6, <2>3, <2>4, <2>7, <3>1
  <2>. QED  BY <2>6, <2>7
<1>10. y = [kind |-> "COMPARISON", column |-> y.column, literal |-> y.literal,
            children |-> << >>, depth |-> 1, nodes |-> 1]
  BY <1>5, <1>6
<1>. QED  BY <1>6, <1>7, <1>9, <1>10

(* A conjunction holds when all of its parts do. *)
LEMMA ConjunctionMeans ==
  ASSUME NEW z \in Expressions, z.class = "CONJUNCTION_AND", NEW row
  PROVE  Meaning(row)[z] = "TRUE" <=>
           \A i \in 1..Len(z.children) : Meaning(row)[z.children[i]] = "TRUE"
<1>1. PICK M, zs, m : M = Meaning(row) /\ zs = z.children /\ m = Meaning(row)[z]
  OBVIOUS
<1>2. zs \in Seq(Expressions) /\ DOMAIN zs = 1..Len(zs)
  BY <1>1, ExpressionAssumption
<1>3. PICK parts : parts = ToSet(zs)
  OBVIOUS
<1>4. parts = {zs[i] : i \in 1..Len(zs)}
  BY <1>2, <1>3 DEF ToSet
<1>5. PICK inner : inner = {M[child] : child \in parts}
  OBVIOUS
<1>6. m = (IF "FALSE" \in inner THEN "FALSE"
           ELSE IF inner \subseteq {"TRUE"} THEN "TRUE" ELSE "NULL")
  <2>1. m = MeaningOf(M, z, row)
    BY <1>1, MeaningUnfolds
  <2>. QED  BY <1>1, <1>3, <1>5, <2>1 DEF MeaningOf
<1>7. m = "TRUE" <=> inner \subseteq {"TRUE"}
  BY <1>6
<1>8. inner \subseteq {"TRUE"} <=> \A i \in 1..Len(zs) : M[zs[i]] = "TRUE"
  BY <1>4, <1>5
<1>. QED  BY <1>1, <1>7, <1>8


-----------------------------------------------------------------------------
(* The walk over the positive conjuncts *)

(* The element of a sequence of one is in the set. *)
LEMMA OnlyElement ==
  ASSUME NEW S, NEW x, <<x>> \in Seq(S)
  PROVE  x \in S
OBVIOUS

(* The walk, level by level. *)
LEMMA WalkEquation ==
  ASSUME NEW p
  PROVE  ConjunctsAfter(p) =
           [k \in Nat |-> IF k = 0 THEN <<p>> ELSE NextConjuncts(ConjunctsAfter(p)[k - 1])]
BY DEF ConjunctsAfter

(* Its first level is the predicate, each other follows from the one before. *)
LEMMA WalkUnfolds ==
  ASSUME NEW p, NEW w, w = ConjunctsAfter(p)
  PROVE  /\ w[0] = <<p>>
         /\ \A k \in Nat : w[k + 1] = NextConjuncts(w[k])
<1>1. w = [k \in Nat |-> IF k = 0 THEN <<p>> ELSE NextConjuncts(w[k - 1])]
  BY WalkEquation
<1>2. w[0] = <<p>>
  BY <1>1
<1>3. ASSUME NEW k \in Nat PROVE w[k + 1] = NextConjuncts(w[k])
  <2>1. PICK m : m = k + 1
    OBVIOUS
  <2>2. m \in Nat /\ m # 0 /\ m - 1 = k
    BY <2>1
  <2>3. w[m] = NextConjuncts(w[m - 1])
    BY <1>1, <2>2
  <2>. QED  BY <2>1, <2>2, <2>3
<1>. QED  BY <1>2, <1>3

\* The conjunctions of X have their children in Y.
Conjoined(X, Y) == \A y \in X : y.kind = "CONJUNCTION" => y.children \in Seq(Y)

\* Every conjunct of level s that is no conjunction, and every child of one that is,
\* occurs in t.
GoesDown(s, t) ==
  \A i \in 1..Len(s) :
    IF s[i].kind = "CONJUNCTION"
    THEN \A j \in 1..Len(s[i].children) : \E k \in 1..Len(t) : t[k] = s[i].children[j]
    ELSE \E k \in 1..Len(t) : t[k] = s[i]

(* The next level has the children of the conjunctions and all that is none. *)
LEMMA NextHolds ==
  ASSUME NEW X, Conjoined(X, X), NEW s \in Seq(X), NEW t, t = NextConjuncts(s)
  PROVE  t \in Seq(X) /\ GoesDown(s, t)
<1>1. PICK parts : parts = [i \in DOMAIN s |-> IF Descends(s[i]) THEN s[i].children ELSE <<s[i]>>]
  OBVIOUS
<1>2. t = FlattenSeq(parts)
  BY <1>1 DEF NextConjuncts
<1>3. DOMAIN s = 1..Len(s) /\ Len(s) \in Nat /\ \A i \in 1..Len(s) : s[i] \in X
  OBVIOUS
<1>4. \A i \in 1..Len(s) : parts[i] = IF s[i].kind = "CONJUNCTION" THEN s[i].children ELSE <<s[i]>>
  BY <1>1, <1>3 DEF Descends
<1>5. ASSUME NEW i \in 1..Len(s) PROVE parts[i] \in Seq(X)
  <2>1. CASE s[i].kind = "CONJUNCTION"
    BY <1>3, <1>4, <2>1 DEF Conjoined
  <2>2. CASE s[i].kind # "CONJUNCTION"
    <3>1. PICK y \in X : y = s[i]
      BY <1>3
    <3>2. <<y>> \in Seq(X)
      OBVIOUS
    <3>3. parts[i] = <<s[i]>>
      BY <1>4, <2>2
    <3>. QED  BY <3>1, <3>2, <3>3
  <2>. QED  BY <2>1, <2>2
<1>6. parts \in Seq(Seq(X)) /\ Len(parts) = Len(s)
  <2>1. DOMAIN parts = 1..Len(s) /\ parts \in [1..Len(s) -> Seq(X)]
    BY <1>1, <1>3, <1>5
  <2>. QED  BY <1>3, <2>1
<1>7. /\ t \in Seq(X)
      /\ \A i \in 1..Len(s) : \A j \in 1..Len(parts[i]) : \E k \in 1..Len(t) : t[k] = parts[i][j]
  <2>1. Holds(t, X, parts, Len(parts))
    BY <1>2, <1>6, FlattenHolds
  <2>. QED  BY <1>6, <2>1 DEF Holds
<1>8. ASSUME NEW i \in 1..Len(s), s[i].kind = "CONJUNCTION", NEW j \in 1..Len(s[i].children)
      PROVE  \E k \in 1..Len(t) : t[k] = s[i].children[j]
  <2>1. parts[i] = s[i].children
    BY <1>4, <1>8
  <2>. QED  BY <1>7, <1>8, <2>1
<1>9. ASSUME NEW i \in 1..Len(s), s[i].kind # "CONJUNCTION"
      PROVE  \E k \in 1..Len(t) : t[k] = s[i]
  <2>1. parts[i] = <<s[i]>>
    BY <1>4, <1>9
  <2>2. 1 \in 1..Len(parts[i]) /\ parts[i][1] = s[i]
    BY <2>1
  <2>3. \E k \in 1..Len(t) : t[k] = parts[i][1]
    BY <1>7, <2>2
  <2>. QED  BY <2>2, <2>3
<1>. QED  BY <1>7, <1>8, <1>9, Zenon DEF GoesDown

(* The walk stays in a set that has the children of its conjunctions. *)
LEMMA WalkStays ==
  ASSUME NEW X, Conjoined(X, X), NEW p \in X, NEW w, w = ConjunctsAfter(p)
  PROVE  \A k \in Nat : w[k] \in Seq(X)
<1>1. w[0] = <<p>> /\ \A k \in Nat : w[k + 1] = NextConjuncts(w[k])
  BY WalkUnfolds
<1>2. PICK S : S = {k \in Nat : w[k] \in Seq(X)}
  OBVIOUS
<1>3. 0 \in S
  <2>1. <<p>> \in Seq(X)
    OBVIOUS
  <2>. QED  BY <1>1, <1>2, <2>1
<1>4. ASSUME NEW k \in Nat, k \in S PROVE k + 1 \in S
  <2>1. PICK s, t : s = w[k] /\ t = w[k + 1]
    OBVIOUS
  <2>2. s \in Seq(X) /\ t = NextConjuncts(s)
    BY <1>1, <1>2, <1>4, <2>1
  <2>3. t \in Seq(X)
    BY <2>2, NextHolds
  <2>. QED  BY <1>2, <2>1, <2>3
<1>5. \A k \in Nat : k \in S
  BY <1>3, <1>4, SetInduction
<1>. QED  BY <1>2, <1>5

(* What holds of all conjuncts of a level, and of a conjunction whose children it holds
   of, holds of all conjuncts of the levels above. *)
LEMMA WalkUp ==
  ASSUME NEW X, Conjoined(X, X), NEW p \in X, NEW w, w = ConjunctsAfter(p),
         NEW W, \A y \in X : y.kind = "CONJUNCTION" /\ y.children \in Seq(W) => y \in W,
         NEW depth \in Nat, w[depth] \in Seq(W)
  PROVE  \A k \in 0..depth : w[k] \in Seq(W)
<1>1. \A k \in Nat : w[k + 1] = NextConjuncts(w[k])
  BY WalkUnfolds
<1>2. \A k \in Nat : w[k] \in Seq(X)
  BY WalkStays
<1>3. PICK S : S = {k \in Nat : \A m \in Nat : m + k = depth => w[m] \in Seq(W)}
  OBVIOUS
<1>4. 0 \in S
  BY <1>3
<1>5. ASSUME NEW k \in Nat, k \in S PROVE k + 1 \in S
  <2>1. SUFFICES ASSUME NEW m \in Nat, m + (k + 1) = depth PROVE w[m] \in Seq(W)
    BY <1>3
  <2>2. w[m + 1] \in Seq(W)
    BY <1>3, <1>5, <2>1
  <2>3. PICK s, t : s = w[m] /\ t = w[m + 1]
    OBVIOUS
  <2>4. s \in Seq(X) /\ t = NextConjuncts(s) /\ t \in Seq(W)
    BY <1>1, <1>2, <2>2, <2>3
  <2>5. GoesDown(s, t)
    BY <2>4, NextHolds
  <2>6. \A i \in 1..Len(t) : t[i] \in W
    BY <2>4
  <2>7. ASSUME NEW i \in 1..Len(s) PROVE s[i] \in W
    <3>1. s[i] \in X
      BY <2>4
    <3>2. CASE s[i].kind = "CONJUNCTION"
      <4>1. PICK cs : cs = s[i].children
        OBVIOUS
      <4>2. cs \in Seq(X)
        BY <3>1, <3>2, <4>1 DEF Conjoined
      <4>3. \A j \in 1..Len(cs) : \E n \in 1..Len(t) : t[n] = cs[j]
        BY <2>5, <3>2, <4>1, Zenon DEF GoesDown
      <4>4. \A j \in 1..Len(cs) : cs[j] \in W
        BY <2>6, <4>3
      <4>5. cs \in Seq(W)
        BY <4>2, <4>4
      <4>. QED  BY <3>1, <3>2, <4>1, <4>5
    <3>3. CASE s[i].kind # "CONJUNCTION"
      <4>1. \E n \in 1..Len(t) : t[n] = s[i]
        BY <2>5, <3>3, Zenon DEF GoesDown
      <4>. QED  BY <2>6, <4>1
    <3>. QED  BY <3>2, <3>3
  <2>8. s \in Seq(W)
    BY <2>4, <2>7
  <2>. QED  BY <2>3, <2>8
<1>6. \A k \in Nat : k \in S
  BY <1>4, <1>5, SetInduction
<1>7. ASSUME NEW m \in 0..depth PROVE w[m] \in Seq(W)
  <2>1. depth - m \in Nat /\ m \in Nat /\ m + (depth - m) = depth
    OBVIOUS
  <2>2. depth - m \in S
    BY <1>6, <2>1
  <2>. QED  BY <1>3, <2>1, <2>2
<1>. QED  BY <1>7


-----------------------------------------------------------------------------
(* The candidate of the filters and what its conjuncts say *)

\* The candidate of filters fs: opaque, that of the only filter, or the conjunction of
\* theirs.
Top(T, fs, p) ==
  \/ p.kind = "UNRESTRICTED"
  \/ p.kind = "UNSUPPORTED"
  \/ Len(fs) = 1 /\ p \in AllCandidates(T) /\ From(T, p, fs[1])
  \/ p.kind = "CONJUNCTION" /\ MadeOf(T, p.children, fs)

(* Where the candidate of the filters comes from. *)
LEMMA TopIs ==
  ASSUME NEW types, NEW T, T = TranslateExpression(types), NEW fs \in Seq(Expressions),
         NEW p, p = TranslateComplexFilters(types, fs).candidate
  PROVE  Top(T, fs, p)
<1>1. PICK d, n : d = (IF Len(fs) > 1 THEN 2 ELSE 1) /\ n = (IF Len(fs) > 1 THEN 1 ELSE 0)
  OBVIOUS
<1>2. PICK all : all = TranslateChildren(T, fs, d, n)[Len(fs)]
  OBVIOUS
<1>3. Len(fs) \in Nat /\ \A i \in 1..Len(fs) : fs[i] \in Expressions
  OBVIOUS
<1>4. CASE Len(fs) = 0
  <2>1. p = Unrestricted
    BY <1>4 DEF TranslateComplexFilters
  <2>. QED  BY <2>1 DEF Unrestricted, Leaf, Top
<1>5. CASE Len(fs) # 0
  <2>1. p = Translated(all).candidate
    BY <1>1, <1>2, <1>5 DEF TranslateComplexFilters
  <2>2. d \in Nat \ {0} /\ n \in Nat
    BY <1>1, <1>3
  <2>3. CASE all.exceeded
    <3>1. p = Unsupported
      BY <2>1, <2>3 DEF Translated
    <3>. QED  BY <3>1 DEF Unsupported, Leaf, Top
  <2>4. CASE ~all.exceeded
    <3>1. MadeOf(T, all.candidates, fs)
      BY <1>2, <2>2, <2>4, ChildrenFrom
    <3>2. PICK cs : cs = all.candidates
      OBVIOUS
    <3>3. p = IF Len(cs) = 1 THEN cs[1] ELSE BooleanNode("CONJUNCTION", cs)
      BY <2>1, <2>4, <3>2 DEF Translated
    <3>4. /\ cs \in Seq(AllCandidates(T)) /\ Len(cs) = Len(fs)
          /\ \A i \in 1..Len(cs) : From(T, cs[i], fs[i])
      BY <3>1, <3>2 DEF MadeOf
    <3>5. CASE Len(cs) = 1
      <4>1. p = cs[1] /\ 1 \in 1..Len(cs)
        BY <3>3, <3>5
      <4>2. p \in AllCandidates(T) /\ From(T, p, fs[1])
        BY <3>4, <4>1
      <4>. QED  BY <3>4, <3>5, <4>2 DEF Top
    <3>6. CASE Len(cs) # 1
      <4>1. p = BooleanNode("CONJUNCTION", cs) /\ p # REFUSED
        BY <3>3, <3>6, CandidateFits
      <4>2. p.kind = "CONJUNCTION" /\ p.children = cs
        BY <4>1, BooleanShape
      <4>. QED  BY <3>1, <3>2, <4>2 DEF Top
    <3>. QED  BY <3>5, <3>6
  <2>. QED  BY <2>3, <2>4
<1>. QED  BY <1>4, <1>5

(* The conjunctions among the candidates have candidates as children. *)
LEMMA CandidatesConjoined ==
  ASSUME NEW types, NEW T, T = TranslateExpression(types), NEW fs, NEW p, Top(T, fs, p)
  PROVE  Conjoined(AllCandidates(T) \cup {p}, AllCandidates(T) \cup {p})
<1>1. ASSUME NEW y \in AllCandidates(T), y.kind = "CONJUNCTION"
      PROVE  y.children \in Seq(AllCandidates(T))
  <2>1. PICK z \in Expressions : From(T, y, z)
    BY CandidateFrom
  <2>2. Origin(T, types, y, z)
    BY <2>1, OriginIs
  <2>. QED  BY <1>1, <2>2 DEF Origin, MadeOf
<1>2. ASSUME p.kind = "CONJUNCTION" PROVE p.children \in Seq(AllCandidates(T))
  <2>1. CASE p \in AllCandidates(T)
    BY <1>1, <1>2, <2>1
  <2>2. CASE MadeOf(T, p.children, fs)
    BY <2>2 DEF MadeOf
  <2>. QED  BY <1>2, <2>1, <2>2 DEF Top
<1>3. \A s \in Seq(AllCandidates(T)) : s \in Seq(AllCandidates(T) \cup {p})
  OBVIOUS
<1>. QED  BY <1>1, <1>2, <1>3 DEF Conjoined

\* The rows in which a comparison holds.
Equals(row, y) == row[y.column] = y.literal

\* The comparisons among conjuncts s are translated comparisons.
Compared(types, s) ==
  \A i \in 1..Len(s) : s[i].kind = "COMPARISON" =>
    /\ s[i].column \in DOMAIN types
    /\ s[i] = [kind |-> "COMPARISON", column |-> s[i].column, literal |-> s[i].literal,
               children |-> << >>, depth |-> 1, nodes |-> 1]

(* The conjuncts the walk ends with: candidates, or the whole predicate. *)
LEMMA ConjunctsAre ==
  ASSUME NEW types, NEW T, T = TranslateExpression(types), NEW fs, NEW p, Top(T, fs, p),
         p.depth \in Nat, NEW s, s = Conjuncts(p)
  PROVE  s \in Seq(AllCandidates(T) \cup {p}) /\ Compared(types, s)
<1>1. PICK X, w : X = AllCandidates(T) \cup {p} /\ w = ConjunctsAfter(p)
  OBVIOUS
<1>2. Conjoined(X, X) /\ p \in X
  BY <1>1, CandidatesConjoined
<1>3. \A k \in Nat : w[k] \in Seq(X)
  BY <1>1, <1>2, WalkStays
<1>4. s \in Seq(X)
  BY <1>1, <1>3 DEF Conjuncts
<1>5. ASSUME NEW y \in X, y.kind = "COMPARISON"
      PROVE  /\ y.column \in DOMAIN types
             /\ y = [kind |-> "COMPARISON", column |-> y.column, literal |-> y.literal,
                     children |-> << >>, depth |-> 1, nodes |-> 1]
  <2>1. y \in AllCandidates(T)
    BY <1>1, <1>5 DEF Top
  <2>2. PICK z \in Expressions : From(T, y, z)
    BY <2>1, CandidateFrom
  <2>3. y = TranslateComparison(types, z) /\ y # REFUSED
    BY <1>5, <2>2, OriginIs DEF Origin
  <2>. QED  BY <2>3, ComparisonMeans
<1>6. \A i \in 1..Len(s) : s[i] \in X
  BY <1>4
<1>. QED  BY <1>1, <1>4, <1>5, <1>6 DEF Compared

(* Soundness: a row the filters keep satisfies every comparison the walk ends with. *)
LEMMA ConjunctsHold ==
  ASSUME NEW types, NEW T, T = TranslateExpression(types), NEW fs \in Seq(Expressions),
         NEW p, Top(T, fs, p), p.depth \in Nat,
         NEW s, s = Conjuncts(p), NEW row, Keeps(fs, row)
  PROVE  \A i \in 1..Len(s) : s[i].kind = "COMPARISON" => Equals(row, s[i])
<1>1. PICK True : True = {y \in AllCandidates(T) : \E z \in Expressions :
                            From(T, y, z) /\ Meaning(row)[z] = "TRUE"}
  OBVIOUS
<1>2. PICK X, w : X = True \cup {p} /\ w = ConjunctsAfter(p)
  OBVIOUS
<1>3. Len(fs) \in Nat /\ \A i \in 1..Len(fs) : fs[i] \in Expressions /\ Meaning(row)[fs[i]] = "TRUE"
  BY DEF Keeps
<1>4. ASSUME NEW ys, NEW zs \in Seq(Expressions), MadeOf(T, ys, zs),
             \A i \in 1..Len(zs) : Meaning(row)[zs[i]] = "TRUE"
      PROVE  ys \in Seq(X)
  <2>1. /\ ys \in Seq(AllCandidates(T)) /\ Len(ys) = Len(zs)
        /\ \A i \in 1..Len(ys) : From(T, ys[i], zs[i])
    BY <1>4 DEF MadeOf
  <2>2. ASSUME NEW i \in 1..Len(ys) PROVE ys[i] \in X
    <3>1. ys[i] \in AllCandidates(T) /\ zs[i] \in Expressions
      BY <2>1
    <3>2. From(T, ys[i], zs[i]) /\ Meaning(row)[zs[i]] = "TRUE"
      BY <1>4, <2>1
    <3>. QED  BY <1>1, <1>2, <3>1, <3>2
  <2>3. Len(ys) \in Nat /\ ys = [i \in 1..Len(ys) |-> ys[i]]
    BY <2>1
  <2>. QED  BY <2>2, <2>3
<1>5. ASSUME NEW y \in True, y.kind = "CONJUNCTION" PROVE y.children \in Seq(X)
  <2>1. PICK z \in Expressions : From(T, y, z) /\ Meaning(row)[z] = "TRUE"
    BY <1>1
  <2>2. z.class = "CONJUNCTION_AND" /\ MadeOf(T, y.children, z.children)
    BY <1>5, <2>1, OriginIs DEF Origin
  <2>3. \A i \in 1..Len(z.children) : Meaning(row)[z.children[i]] = "TRUE"
    BY <2>1, <2>2, ConjunctionMeans
  <2>4. z.children \in Seq(Expressions)
    BY ExpressionAssumption
  <2>. QED  BY <1>4, <2>2, <2>3, <2>4
<1>6. ASSUME Len(fs) = 1, p \in AllCandidates(T), From(T, p, fs[1]) PROVE p \in True
  <2>1. fs[1] \in Expressions /\ Meaning(row)[fs[1]] = "TRUE"
    BY <1>3, <1>6
  <2>. QED  BY <1>1, <1>6, <2>1
<1>7. ASSUME p.kind = "CONJUNCTION" PROVE p.children \in Seq(X)
  <2>1. CASE Len(fs) = 1 /\ p \in AllCandidates(T) /\ From(T, p, fs[1])
    BY <1>5, <1>6, <1>7, <2>1
  <2>2. CASE MadeOf(T, p.children, fs)
    BY <1>3, <1>4, <2>2
  <2>. QED  BY <1>7, <2>1, <2>2 DEF Top
<1>8. Conjoined(X, X) /\ p \in X
  BY <1>2, <1>5, <1>7 DEF Conjoined
<1>9. \A k \in Nat : w[k] \in Seq(X)
  BY <1>2, <1>8, WalkStays
<1>10. s \in Seq(X)
  BY <1>2, <1>9 DEF Conjuncts
<1>11. ASSUME NEW y \in X, y.kind = "COMPARISON" PROVE Equals(row, y)
  <2>1. y \in True
    BY <1>2, <1>6, <1>11 DEF Top
  <2>2. PICK z \in Expressions : From(T, y, z) /\ Meaning(row)[z] = "TRUE"
    BY <1>1, <2>1
  <2>3. y = TranslateComparison(types, z) /\ y # REFUSED
    BY <1>11, <2>2, OriginIs DEF Origin
  <2>. QED  BY <2>2, <2>3, ComparisonMeans DEF Equals
<1>. QED  BY <1>10, <1>11

(* Completeness: when all conjuncts are comparisons and hold, the filters keep the row. *)
LEMMA ConjunctsSuffice ==
  ASSUME NEW types, NEW T, T = TranslateExpression(types), NEW fs \in Seq(Expressions),
         NEW p, Top(T, fs, p), p.depth \in Nat \ {0}, p.kind \notin {"UNRESTRICTED", "UNSUPPORTED"},
         NEW s, s = Conjuncts(p), NEW row,
         \A i \in 1..Len(s) : s[i].kind = "COMPARISON" /\ Equals(row, s[i])
  PROVE  Keeps(fs, row)
<1>1. PICK X, w, W : /\ X = AllCandidates(T) \cup {p} /\ w = ConjunctsAfter(p)
                     /\ W = {y \in X : \A z \in Expressions :
                               From(T, y, z) => Meaning(row)[z] = "TRUE"}
  OBVIOUS
<1>2. Conjoined(X, X) /\ p \in X
  BY <1>1, CandidatesConjoined
<1>3. ASSUME NEW ys \in Seq(W), NEW zs \in Seq(Expressions), MadeOf(T, ys, zs)
      PROVE  \A i \in 1..Len(zs) : Meaning(row)[zs[i]] = "TRUE"
  <2>1. Len(ys) = Len(zs) /\ \A i \in 1..Len(ys) : From(T, ys[i], zs[i])
    BY <1>3 DEF MadeOf
  <2>2. ASSUME NEW i \in 1..Len(zs) PROVE Meaning(row)[zs[i]] = "TRUE"
    <3>1. ys[i] \in W /\ zs[i] \in Expressions /\ From(T, ys[i], zs[i])
      BY <2>1
    <3>. QED  BY <1>1, <3>1
  <2>. QED  BY <2>2
<1>4. ASSUME NEW y \in X, y.kind = "CONJUNCTION", y.children \in Seq(W) PROVE y \in W
  <2>1. SUFFICES ASSUME NEW z \in Expressions, From(T, y, z) PROVE Meaning(row)[z] = "TRUE"
    BY <1>1
  <2>2. z.class = "CONJUNCTION_AND" /\ MadeOf(T, y.children, z.children)
    BY <1>4, <2>1, OriginIs DEF Origin
  <2>3. z.children \in Seq(Expressions)
    BY ExpressionAssumption
  <2>4. \A i \in 1..Len(z.children) : Meaning(row)[z.children[i]] = "TRUE"
    BY <1>3, <1>4, <2>2, <2>3
  <2>. QED  BY <2>2, <2>4, ConjunctionMeans
<1>5. ASSUME NEW y \in X, y.kind = "COMPARISON", Equals(row, y) PROVE y \in W
  <2>1. SUFFICES ASSUME NEW z \in Expressions, From(T, y, z) PROVE Meaning(row)[z] = "TRUE"
    BY <1>1
  <2>2. y = TranslateComparison(types, z) /\ y # REFUSED
    BY <1>5, <2>1, OriginIs DEF Origin
  <2>. QED  BY <1>5, <2>2, ComparisonMeans DEF Equals
<1>6. s \in Seq(W) /\ s = w[p.depth]
  <2>1. s \in Seq(X)
    BY <1>1, ConjunctsAre
  <2>2. \A i \in 1..Len(s) : s[i] \in X
    BY <2>1
  <2>3. \A i \in 1..Len(s) : s[i] \in W
    BY <1>5, <2>2
  <2>4. s \in Seq(W)
    BY <2>1, <2>3
  <2>. QED  BY <1>1, <2>4 DEF Conjuncts
<1>7. \A k \in 0..p.depth : w[k] \in Seq(W)
  BY <1>1, <1>2, <1>4, <1>6, WalkUp
<1>8. w[0] \in Seq(W) /\ w[1] \in Seq(W)
  BY <1>7
<1>9. w[0] = <<p>> /\ w[1] = NextConjuncts(w[0])
  <2>1. w[0] = <<p>> /\ \A k \in Nat : w[k + 1] = NextConjuncts(w[k])
    BY <1>1, WalkUnfolds
  <2>2. 0 + 1 = 1
    OBVIOUS
  <2>. QED  BY <2>1, <2>2
<1>10. CASE Len(fs) = 1 /\ p \in AllCandidates(T) /\ From(T, p, fs[1])
  <2>1. p \in W /\ fs[1] \in Expressions /\ DOMAIN fs = {1}
    <3>5. p \in W
      BY <1>8, <1>9, OnlyElement
    <3>6. DOMAIN fs = 1..Len(fs) /\ \A i \in 1..Len(fs) : fs[i] \in Expressions
      OBVIOUS
    <3>7. 1..Len(fs) = {1}
      BY <1>10
    <3>4. fs[1] \in Expressions /\ DOMAIN fs = {1}
      BY <3>6, <3>7
    <3>. QED  BY <3>4, <3>5
  <2>2. Meaning(row)[fs[1]] = "TRUE"
    BY <1>1, <1>10, <2>1
  <2>. QED  BY <2>1, <2>2 DEF Keeps
<1>11. CASE p.kind = "CONJUNCTION" /\ MadeOf(T, p.children, fs)
  <2>1. PICK q, t : q = <<p>> /\ t = w[1]
    OBVIOUS
  <2>2. q \in Seq(X) /\ t = NextConjuncts(q) /\ t \in Seq(W) /\ Len(q) = 1 /\ q[1] = p
    BY <1>2, <1>8, <1>9, <2>1
  <2>3. GoesDown(q, t)
    BY <1>2, <2>2, NextHolds
  <2>4. PICK cs : cs = p.children
    OBVIOUS
  <2>5. \A j \in 1..Len(cs) : \E k \in 1..Len(t) : t[k] = cs[j]
    <3>1. 1 \in 1..Len(q)
      BY <2>2
    <3>. QED  BY <1>11, <2>2, <2>3, <2>4, <3>1, Zenon DEF GoesDown
  <2>6. cs \in Seq(AllCandidates(T))
    BY <1>11, <2>4 DEF MadeOf
  <2>7. \A j \in 1..Len(cs) : cs[j] \in W
    BY <2>2, <2>5
  <2>8. cs \in Seq(W)
    BY <2>6, <2>7
  <2>9. \A i \in 1..Len(fs) : Meaning(row)[fs[i]] = "TRUE"
    BY <1>3, <1>11, <2>4, <2>8
  <2>. QED  BY <2>9 DEF Keeps
<1>. QED  BY <1>10, <1>11 DEF Top

-----------------------------------------------------------------------------
(* The invariant of the pipeline *)

\* What is on disk, now and at any moment of the acquisition, is declared.
Manifests == {d.manifest : d \in Declarations}

Relations == {d.relation : d \in Declarations}

ContentInv ==
  /\ folder.manifest.content \in Manifests /\ folder.relation.content \in Relations
  /\ \A v \in acquisition.versions : v.manifest \in Manifests /\ v.relation \in Relations

SourcePart == IF phase = "SOURCE" THEN SourceInv /\ ContentInv ELSE acquisition = Unopened

\* A package that has been published.
IsCompiled(p) ==
  /\ p.manifest.maxResponseBytes \in Nat
  /\ DeclaredRelation(p.relation)
  /\ CompilePackage(p) = "COMPILED"

PackagePart ==
  phase \in {"PUBLISHED", "BOUND", "FAILED", "RUNNING", "REFUSED"} => IsCompiled(package)

QuietPart ==
  phase \in {"SOURCE", "REJECTED", "PUBLISHED"} => request = NoValue /\ filters = << >>

\* The selected plan is the one of the filters that DuckDB passed last.
PlannedPart ==
  phase \in {"BOUND", "RUNNING", "REFUSED"} =>
    /\ baseline = BuildPackageScanRequest(baseline.inputs, baseline.secret)
    /\ filters \in Seq(Expressions)
    /\ request.predicate = TranslateComplexFilters(ColumnTypes, filters).candidate
    /\ IsPlan(plan) /\ plan = BuildScanPlan(Connector, request)

AdmittedPart ==
  phase = "RUNNING" =>
    profile \in Profiles /\ admitted = TryAdmitPlan(plan, profile) /\ admitted # REFUSED

\* What is sent is the plan's query, with the number of a page in its field.
IsSent(p, query) ==
  \/ query = << >>
  \/ query = p.query
  \/ \E page : /\ p.paginated /\ p.operation.protocol = "REST"
               /\ BuildAdmittedPageRequest(p, page) # REFUSED
               /\ query = BuildAdmittedPageRequest(p, page).query

SentPart == IF phase = "RUNNING" THEN IsSent(plan, sent) ELSE sent = << >>

IInv ==
  /\ SourcePart
  /\ PackagePart
  /\ QuietPart
  /\ PlannedPart
  /\ AdmittedPart
  /\ SentPart
  /\ TranslationFits

(* A declaration is well formed wherever its files have been mixed from. *)
LEMMA ContentDeclared ==
  ASSUME NEW m \in Manifests, NEW r \in Relations
  PROVE  m.maxResponseBytes \in Nat /\ DeclaredRelation(r)
BY DeclarationAssumption DEF Manifests, Relations

(* The versions of a revision are declarations. *)
LEMMA RevisionDeclared ==
  ASSUME NEW r \in Revisions, NEW to \in {r[1], r[2]}
  PROVE  to.manifest \in Manifests /\ to.relation \in Relations
<1>1. to \in Declarations
  BY DEF Declarations
<1>. QED  BY <1>1 DEF Manifests, Relations

(* An edit writes declared content. *)
LEMMA EditedContent ==
  ASSUME SourceInv, ContentInv, NEW changed, Edited(changed),
         changed = [manifest |-> changed.manifest, relation |-> changed.relation,
                    listing |-> changed.listing, stray |-> changed.stray,
                    edits |-> folder.edits],
         changed.manifest.content \in Manifests, changed.relation.content \in Relations
  PROVE  ContentInv'
<1>1. PICK v : v = [manifest |-> changed.manifest.content,
                    relation |-> changed.relation.content]
  OBVIOUS
<1>2. /\ folder' = [changed EXCEPT !.edits = folder.edits + 1]
      /\ acquisition' = [acquisition EXCEPT !.versions = acquisition.versions \cup {v}]
  BY <1>1 DEF Edited
<1>3. folder'.manifest = changed.manifest /\ folder'.relation = changed.relation
  BY <1>2
<1>4. acquisition'.versions = acquisition.versions \cup {v}
  BY <1>2 DEF SourceInv, AcquisitionInv
<1>5. v.manifest \in Manifests /\ v.relation \in Relations
  BY <1>1
<1>. QED  BY <1>3, <1>4, <1>5 DEF ContentInv

(* Every edit of the author is of that kind. *)
LEMMA AuthorContent ==
  ASSUME SourceInv, ContentInv, EditManifest \/ EditRelation \/ EditListing
  PROVE  ContentInv'
<1>1. /\ folder = [manifest |-> folder.manifest, relation |-> folder.relation,
                   listing |-> folder.listing, stray |-> folder.stray,
                   edits |-> folder.edits]
      /\ folder.manifest.content \in Manifests /\ folder.relation.content \in Relations
  BY DEF SourceInv, FolderInv, ContentInv
<1>2. CASE EditManifest
  <2>0. PICK r \in Revisions : \E to \in {r[1], r[2]} :
          Edited([folder EXCEPT !.manifest = [content |-> to.manifest,
                                              identity |-> folder.edits + 1]])
    BY <1>2 DEF EditManifest
  <2>1. PICK to \in {r[1], r[2]} :
          Edited([folder EXCEPT !.manifest = [content |-> to.manifest,
                                              identity |-> folder.edits + 1]])
    BY <2>0
  <2>2. PICK f : f = [folder EXCEPT !.manifest = [content |-> to.manifest,
                                                  identity |-> folder.edits + 1]]
    OBVIOUS
  <2>3. /\ f.manifest = [content |-> to.manifest, identity |-> folder.edits + 1]
        /\ f.relation = folder.relation
        /\ f = [manifest |-> f.manifest, relation |-> f.relation, listing |-> f.listing,
                stray |-> f.stray, edits |-> folder.edits]
    BY <1>1, <2>2
  <2>4. f.manifest.content \in Manifests
    BY <2>3, RevisionDeclared
  <2>. QED  BY <1>1, <2>1, <2>2, <2>3, <2>4, EditedContent
<1>3. CASE EditRelation
  <2>0. PICK r \in Revisions : \E to \in {r[1], r[2]} :
          Edited([folder EXCEPT !.relation = [content |-> to.relation,
                                              identity |-> folder.edits + 1]])
    BY <1>3 DEF EditRelation
  <2>1. PICK to \in {r[1], r[2]} :
          Edited([folder EXCEPT !.relation = [content |-> to.relation,
                                              identity |-> folder.edits + 1]])
    BY <2>0
  <2>2. PICK f : f = [folder EXCEPT !.relation = [content |-> to.relation,
                                                  identity |-> folder.edits + 1]]
    OBVIOUS
  <2>3. /\ f.relation = [content |-> to.relation, identity |-> folder.edits + 1]
        /\ f.manifest = folder.manifest
        /\ f = [manifest |-> f.manifest, relation |-> f.relation, listing |-> f.listing,
                stray |-> f.stray, edits |-> folder.edits]
    BY <1>1, <2>2
  <2>4. f.relation.content \in Relations
    BY <2>3, RevisionDeclared
  <2>. QED  BY <1>1, <2>1, <2>2, <2>3, <2>4, EditedContent
<1>4. CASE EditListing
  <2>1. PICK f : f = [folder EXCEPT !.stray = ~folder.stray, !.listing = folder.edits + 1]
    OBVIOUS
  <2>2. Edited(f)
    BY <1>4, <2>1 DEF EditListing
  <2>3. /\ f.manifest = folder.manifest /\ f.relation = folder.relation
        /\ f = [manifest |-> f.manifest, relation |-> f.relation, listing |-> f.listing,
                stray |-> f.stray, edits |-> folder.edits]
    BY <1>1, <2>1
  <2>. QED  BY <1>1, <2>2, <2>3, EditedContent
<1>. QED  BY <1>2, <1>3, <1>4

(* The acquisition writes nothing and begins its history with what there is. *)
LEMMA AcquisitionContent ==
  ASSUME SourceInv, ContentInv, SourceNext
  PROVE  ContentInv'
<1>1. CASE folder' = folder /\ acquisition'.versions = acquisition.versions
  BY <1>1 DEF ContentInv
<1>2. CASE folder' = folder /\ acquisition'.versions = {Version}
  <2>1. Version.manifest = folder.manifest.content /\ Version.relation = folder.relation.content
    BY DEF Version
  <2>. QED  BY <1>2, <2>1 DEF ContentInv
<1>3. acquisition = [stage |-> acquisition.stage, root |-> acquisition.root,
                     relations |-> acquisition.relations, manifest |-> acquisition.manifest,
                     relation |-> acquisition.relation, versions |-> acquisition.versions]
  BY DEF SourceInv, AcquisitionInv
<1>4. CASE OpenRoot
  <2>1. /\ acquisition' = [acquisition EXCEPT !.stage = "ROOT", !.root = CaptureRoot,
                                              !.versions = {Version}]
        /\ folder' = folder
    BY <1>4 DEF OpenRoot, Advance
  <2>. QED  BY <1>2, <1>3, <2>1
<1>5. CASE OpenRelations
  <2>1. /\ \/ acquisition' = [acquisition EXCEPT !.stage = "FAILED"]
           \/ acquisition' = [acquisition EXCEPT !.stage = "OPEN",
                                                 !.relations = CaptureRelations]
        /\ folder' = folder
    BY <1>5 DEF OpenRelations, Advance
  <2>. QED  BY <1>1, <1>3, <2>1
<1>6. CASE ReadManifest
  <2>1. /\ \/ acquisition' = [acquisition EXCEPT !.stage = "FAILED"]
           \/ acquisition' = [acquisition EXCEPT !.stage = "LISTED",
                                                 !.manifest = folder.manifest.content]
        /\ folder' = folder
    BY <1>6 DEF ReadManifest, Advance
  <2>. QED  BY <1>1, <1>3, <2>1
<1>7. CASE ReadRelation
  <2>1. /\ \/ acquisition' = [acquisition EXCEPT !.stage = "FAILED"]
           \/ acquisition' = [acquisition EXCEPT !.stage = "READ",
                                                 !.relation = folder.relation.content]
        /\ folder' = folder
    BY <1>7 DEF ReadRelation, Advance
  <2>. QED  BY <1>1, <1>3, <2>1
<1>8. CASE VerifyRoot \/ VerifyRelations \/ SourceFails
  <2>1. /\ \E stage : acquisition' = [acquisition EXCEPT !.stage = stage]
        /\ folder' = folder
    BY <1>8 DEF VerifyRoot, VerifyRelations, SourceFails, Advance
  <2>. QED  BY <1>1, <1>3, <2>1
<1>. QED  BY <1>4, <1>5, <1>6, <1>7, <1>8, AuthorContent DEF SourceNext

-----------------------------------------------------------------------------
(* The steps of the pipeline *)

(* The package on disk, before its acquisition. *)
LEMMA InitIInv ==
  ASSUME Init
  PROVE  IInv
<1>1. /\ SourceInit /\ phase = "SOURCE" /\ request = NoValue
      /\ filters = << >> /\ sent = << >>
  BY DEF Init
<1>2. SourceInv
  BY <1>1, InitSourceInv
<1>3. PICK d \in Packages : folder = Folder(d) /\ acquisition = Unopened
  BY <1>1 DEF SourceInit
<1>4. d.manifest \in Manifests /\ d.relation \in Relations
  BY DEF Manifests, Relations, Declarations
<1>5. ContentInv
  BY <1>3, <1>4 DEF ContentInv, Folder, Unopened
<1>. QED  BY <1>1, <1>2, <1>5 DEF IInv, SourcePart, PackagePart, QuietPart, PlannedPart,
                                  AdmittedPart, SentPart, TranslationFits

(* A step of the author or of the acquisition. *)
LEMMA AcquireStepKeeps ==
  ASSUME IInv, AcquireStep
  PROVE  IInv'
<1>1. phase = "SOURCE" /\ SourceNext /\ phase' = phase /\ request' = request
      /\ filters' = filters /\ sent' = sent
  BY DEF AcquireStep
<1>2. SourceInv /\ ContentInv /\ request = NoValue /\ filters = << >> /\ sent = << >>
  BY <1>1 DEF IInv, SourcePart, QuietPart, SentPart
<1>3. SourceInv' /\ ContentInv'
  BY <1>1, <1>2, SourceStepKeeps, AcquisitionContent
<1>. QED  BY <1>1, <1>2, <1>3 DEF IInv, SourcePart, PackagePart, QuietPart, PlannedPart,
                                  AdmittedPart, SentPart, TranslationFits

(* An acquisition that failed. *)
LEMMA SourceFailureKeeps ==
  ASSUME IInv, SourceFailure
  PROVE  IInv'
<1>1. /\ phase = "SOURCE" /\ phase' = "REJECTED" /\ acquisition' = Unopened
      /\ request' = request /\ filters' = filters /\ sent' = sent
  BY DEF SourceFailure, CustodyEnds
<1>2. request = NoValue /\ filters = << >> /\ sent = << >>
  BY <1>1 DEF IInv, QuietPart, SentPart
<1>3. Unopened' = Unopened
  BY DEF Unopened, NoFile
<1>. QED  BY <1>1, <1>2, <1>3 DEF IInv, SourcePart, PackagePart, QuietPart, PlannedPart,
                                  AdmittedPart, SentPart, TranslationFits

(* What is compiled is declared, and published only if it compiles. *)
LEMMA CompileKeeps ==
  ASSUME IInv, Compile
  PROVE  IInv'
<1>1. /\ phase = "SOURCE" /\ acquisition.stage = "ACQUIRED" /\ acquisition' = Unopened
      /\ package' = Acquired
      /\ request' = request /\ filters' = filters /\ sent' = sent
  BY DEF Compile, CustodyEnds
<1>2. SourceInv /\ ContentInv /\ request = NoValue /\ filters = << >> /\ sent = << >>
  BY <1>1 DEF IInv, SourcePart, QuietPart, SentPart
<1>3. Acquired \in acquisition.versions
  BY <1>1, <1>2 DEF SourceInv, AcquiredWhole
<1>4. package'.manifest \in Manifests /\ package'.relation \in Relations
  BY <1>1, <1>2, <1>3 DEF ContentInv
<1>5. package'.manifest.maxResponseBytes \in Nat /\ DeclaredRelation(package'.relation)
  BY <1>4, ContentDeclared
<1>6. CompilePackage(Acquired) \in {"SCHEMA", "THROWN", "COMPILE", "COMPILED"}
  BY DEF CompilePackage
<1>7. /\ phase' \in {"PUBLISHED", "REJECTED", "THROWN"}
      /\ phase' = "PUBLISHED" => CompilePackage(Acquired) = "COMPILED"
  BY <1>6 DEF Compile
<1>8. phase' = "PUBLISHED" => CompilePackage(package') = "COMPILED"
  BY <1>1, <1>7
<1>9. PackagePart'
  BY <1>5, <1>7, <1>8 DEF PackagePart, IsCompiled
<1>10. Unopened' = Unopened
  BY DEF Unopened, NoFile
<1>. QED  BY <1>1, <1>2, <1>7, <1>9, <1>10 DEF IInv, SourcePart, QuietPart, PlannedPart,
                                        AdmittedPart, SentPart, TranslationFits

(* The unrestricted request is the one of no filters. *)
LEMMA BindKeeps ==
  ASSUME IInv, NEW arguments \in Arguments, BindGeneratedRelation(arguments)
  PROVE  IInv'
<1>1. /\ phase = "PUBLISHED" /\ acquisition' = acquisition /\ package' = package
      /\ filters' = filters /\ sent' = sent
      /\ phase' \in {"BOUND", "FAILED"}
  BY DEF BindGeneratedRelation
<1>2. /\ acquisition = Unopened /\ filters = << >> /\ sent = << >> /\ IsCompiled(package)
  BY <1>1 DEF IInv, SourcePart, QuietPart, SentPart, PackagePart
<1>3. Connector' = Connector /\ ColumnTypes' = ColumnTypes
  BY <1>1 DEF Connector, ColumnTypes
<1>4. PICK inputs, candidate, result :
        /\ candidate = BuildPackageScanRequest(inputs, arguments.secret)
        /\ result = BuildScanPlan(Connector, candidate)
        /\ phase' = "BOUND" =>
             IsPlan(result) /\ baseline' = candidate /\ request' = candidate /\ plan' = result
  BY DEF BindGeneratedRelation
<1>5. ASSUME phase' = "BOUND" PROVE PlannedPart'
  <2>1. /\ baseline' = candidate /\ request' = candidate /\ plan' = result /\ IsPlan(result)
    BY <1>4, <1>5
  <2>2. /\ candidate.inputs = inputs /\ candidate.secret = arguments.secret
        /\ candidate.predicate = Unrestricted
    BY <1>4 DEF BuildPackageScanRequest
  <2>3. TranslateComplexFilters(ColumnTypes, << >>).candidate = Unrestricted
    BY DEF TranslateComplexFilters
  <2>4. baseline' = BuildPackageScanRequest(baseline'.inputs, baseline'.secret)
    BY <1>4, <2>1, <2>2
  <2>5. IsPlan(plan') /\ plan' = BuildScanPlan(Connector, request')
    BY <1>4, <2>1
  <2>6. << >> \in Seq(Expressions)
    OBVIOUS
  <2>. QED  BY <1>1, <1>2, <1>3, <2>1, <2>2, <2>3, <2>4, <2>5, <2>6 DEF PlannedPart
<1>6. Unopened' = Unopened
  BY DEF Unopened, NoFile
<1>7. PlannedPart'
  BY <1>1, <1>5 DEF PlannedPart
<1>8. PackagePart'
  BY <1>1, <1>2 DEF PackagePart
<1>. QED  BY <1>1, <1>2, <1>6, <1>7, <1>8
          DEF IInv, SourcePart, QuietPart, AdmittedPart, SentPart, TranslationFits

(* Each callback plans for the filters it is given, from the request kept at bind. *)
LEMMA PushdownKeeps ==
  ASSUME IInv, NEW offered \in Filters, GeneratedRelationPushdown(offered)
  PROVE  IInv'
<1>1. /\ phase = "BOUND" /\ acquisition' = acquisition /\ package' = package
      /\ filters' = offered /\ sent' = sent /\ baseline' = baseline
  BY DEF GeneratedRelationPushdown
<1>2. /\ acquisition = Unopened /\ sent = << >> /\ IsCompiled(package)
      /\ baseline = BuildPackageScanRequest(baseline.inputs, baseline.secret)
  BY <1>1 DEF IInv, SourcePart, PlannedPart, SentPart, PackagePart
<1>3. Connector' = Connector /\ ColumnTypes' = ColumnTypes
  BY <1>1 DEF Connector, ColumnTypes
<1>4. offered \in Seq(Expressions)
  BY FilterAssumption
<1>5. PICK translated : translated = TranslateComplexFilters(ColumnTypes, offered)
  OBVIOUS
<1>6. translated.candidate # REFUSED
  BY <1>4, <1>5, CandidateFits
<1>7. PICK candidate, result :
        /\ candidate = FilterCandidate(translated)
        /\ result = BuildScanPlan(Connector, candidate)
        /\ phase' \in {"BOUND", "FAILED"}
        /\ phase' = "BOUND" => IsPlan(result) /\ request' = candidate /\ plan' = result
  BY <1>5, <1>6 DEF GeneratedRelationPushdown
<1>8. candidate.predicate = translated.candidate
  <2>1. PICK i, s : baseline = BuildPackageScanRequest(i, s)
    BY <1>2
  <2>. QED  BY <1>7, <2>1 DEF FilterCandidate, BuildPackageScanRequest
<1>9. ASSUME phase' = "BOUND" PROVE PlannedPart'
  <2>1. IsPlan(plan') /\ plan' = BuildScanPlan(Connector, request')
    BY <1>7, <1>9
  <2>2. request'.predicate = TranslateComplexFilters(ColumnTypes, offered).candidate
    BY <1>5, <1>7, <1>8, <1>9
  <2>. QED  BY <1>1, <1>2, <1>3, <1>4, <2>1, <2>2 DEF PlannedPart
<1>10. Unopened' = Unopened
  BY DEF Unopened, NoFile
<1>11. PlannedPart'
  BY <1>7, <1>9 DEF PlannedPart
<1>12. PackagePart'
  BY <1>1, <1>2 DEF PackagePart
<1>. QED  BY <1>1, <1>2, <1>7, <1>10, <1>11, <1>12
          DEF IInv, SourcePart, QuietPart, AdmittedPart, SentPart, TranslationFits

(* Admission changes nothing but the profile and its result. *)
LEMMA InitializeKeeps ==
  ASSUME IInv, NEW configured \in Profiles, InitializeRelationExecution(configured)
  PROVE  IInv'
<1>1. /\ phase = "BOUND" /\ acquisition' = acquisition /\ package' = package
      /\ filters' = filters /\ sent' = sent /\ baseline' = baseline
      /\ request' = request /\ plan' = plan /\ profile' = configured
      /\ phase' \in {"REFUSED", "RUNNING"}
      /\ phase' = "RUNNING" => admitted' = TryAdmitPlan(plan, configured) /\ admitted' # REFUSED
  BY DEF InitializeRelationExecution
<1>2. /\ acquisition = Unopened /\ sent = << >> /\ IsCompiled(package) /\ PlannedPart
  BY <1>1 DEF IInv, SourcePart, SentPart, PackagePart
<1>3. Connector' = Connector /\ ColumnTypes' = ColumnTypes
  BY <1>1 DEF Connector, ColumnTypes
<1>4. PlannedPart'
  BY <1>1, <1>2, <1>3 DEF PlannedPart
<1>5. Unopened' = Unopened
  BY DEF Unopened, NoFile
<1>6. PackagePart' /\ AdmittedPart' /\ SentPart'
  BY <1>1, <1>2 DEF PackagePart, AdmittedPart, SentPart, IsSent
<1>. QED  BY <1>1, <1>2, <1>4, <1>5, <1>6
          DEF IInv, SourcePart, QuietPart, TranslationFits

(* The query of an admitted plan is the plan's. *)
LEMMA AdmittedIs ==
  ASSUME NEW p, NEW f, TryAdmitPlan(p, f) # REFUSED
  PROVE  /\ TryAdmitPlan(p, f) = AdmittedProfile(p, TryAdmitResiliencePolicies(p, f))
         /\ \/ HasSingleResponseShape(p, f)
            \/ p.paginated /\ HasPaginatedShape(p, f)
            \/ IsGraphqlAdmissible(p, f)
         /\ TryAdmitResiliencePolicies(p, f) # REFUSED
BY DEF TryAdmitPlan, HasSingleResponseShape, HasPaginatedShape, IsGraphqlAdmissible,
       HasCommonRestPlan, HasGraphqlAuthority

(* A request is sent. *)
LEMMA SendKeeps ==
  ASSUME IInv, NEW page \in 1..Host.pages, SendRequest(page)
  PROVE  IInv'
<1>1. /\ phase = "RUNNING" /\ phase' = phase /\ acquisition' = acquisition /\ package' = package
      /\ filters' = filters /\ baseline' = baseline /\ admitted' = admitted
      /\ request' = request /\ plan' = plan /\ profile' = profile
  BY DEF SendRequest
<1>2. /\ acquisition = Unopened /\ IsCompiled(package) /\ PlannedPart /\ AdmittedPart
  BY <1>1 DEF IInv, SourcePart, PackagePart
<1>3. Connector' = Connector /\ ColumnTypes' = ColumnTypes
  BY <1>1 DEF Connector, ColumnTypes
<1>4. PlannedPart' /\ AdmittedPart'
  BY <1>1, <1>2, <1>3 DEF PlannedPart, AdmittedPart
<1>5. admitted.query = plan.query
  BY <1>1, <1>2, AdmittedIs DEF AdmittedPart, AdmittedProfile
<1>6. IsSent(plan, sent')
  BY <1>5 DEF SendRequest, IsSent
<1>7. Unopened' = Unopened
  BY DEF Unopened, NoFile
<1>8. PackagePart' /\ SentPart'
  BY <1>1, <1>2, <1>6 DEF PackagePart, SentPart
<1>. QED  BY <1>1, <1>2, <1>4, <1>7, <1>8
          DEF IInv, SourcePart, QuietPart, TranslationFits

(* A statement leaves nothing behind. *)
LEMMA EndStatementKeeps ==
  ASSUME IInv, EndStatement
  PROVE  IInv'
<1>1. /\ phase \in {"FAILED", "REFUSED", "RUNNING", "BOUND"} /\ phase' = "PUBLISHED"
      /\ acquisition' = acquisition /\ package' = package
      /\ filters' = << >> /\ request' = NoValue /\ sent' = << >>
  BY DEF EndStatement
<1>2. acquisition = Unopened /\ IsCompiled(package)
  BY <1>1 DEF IInv, SourcePart, PackagePart
<1>3. Unopened' = Unopened /\ NoValue' = NoValue
  BY DEF Unopened, NoFile, NoValue
<1>. QED  BY <1>1, <1>2, <1>3 DEF IInv, SourcePart, PackagePart, QuietPart, PlannedPart,
                                  AdmittedPart, SentPart, TranslationFits

(* Nothing changes. *)
LEMMA StutterKeeps ==
  ASSUME IInv, UNCHANGED vars
  PROVE  IInv'
<1>1. /\ folder' = folder /\ acquisition' = acquisition /\ package' = package
      /\ profile' = profile /\ phase' = phase /\ baseline' = baseline /\ request' = request
      /\ plan' = plan /\ filters' = filters /\ admitted' = admitted /\ sent' = sent
  BY DEF vars
<1>2. Connector' = Connector /\ ColumnTypes' = ColumnTypes
  BY <1>1 DEF Connector, ColumnTypes
<1>3. Unopened' = Unopened /\ NoValue' = NoValue
  BY DEF Unopened, NoFile, NoValue
<1>4. SourceInv => SourceInv'
  BY <1>1 DEF SourceInv, FolderInv, File, AcquisitionInv, CapturedInv, HistoryInv,
              Version, ReadInv, VerifyingInv, AcquiredWhole, Acquired
<1>5. SourcePart'
  BY <1>1, <1>3, <1>4 DEF IInv, SourcePart, ContentInv
<1>6. PlannedPart' /\ PackagePart' /\ AdmittedPart'
  BY <1>1, <1>2 DEF IInv, PlannedPart, PackagePart, AdmittedPart
<1>7. QuietPart' /\ SentPart' /\ TranslationFits'
  BY <1>1, <1>3 DEF IInv, QuietPart, SentPart, TranslationFits
<1>. QED  BY <1>5, <1>6, <1>7 DEF IInv

(* The invariant holds of every reachable state. *)
THEOREM Invariance == Spec => []IInv
<1>1. Init => IInv
  BY InitIInv
<1>2. IInv /\ [Next]_vars => IInv'
  BY AcquireStepKeeps, SourceFailureKeeps, CompileKeeps, BindKeeps, PushdownKeeps,
     InitializeKeeps, SendKeeps, EndStatementKeeps, StutterKeeps DEF Next
<1>. QED  BY <1>1, <1>2, PTL DEF Spec


(* Whatever its author does meanwhile and however often, the package that is compiled
   is a version that its directory held as a whole: the two captures and the two
   verifications of package_source.cpp are enough, in this order, although no step of
   it looks at both files. *)
THEOREM AcquisitionsAreWhole == Spec => []AcquiredWhole
<1>1. IInv => AcquiredWhole
  <2>1. CASE phase = "SOURCE"
    BY <2>1 DEF IInv, SourcePart, SourceInv
  <2>2. CASE phase # "SOURCE"
    BY <2>2 DEF IInv, SourcePart, Unopened, AcquiredWhole
  <2>. QED  BY <2>1, <2>2
<1>. QED  BY <1>1, Invariance, PTL

(* For every filter of every shape and size, the callback ends with a plan or a
   failure and never throws: the depth and the nodes that the translation counts on its
   way down bound those of what it builds on its way up. *)
THEOREM TranslationsFit == Spec => []TranslationFits
<1>1. IInv => TranslationFits
  BY DEF IInv
<1>. QED  BY <1>1, Invariance, PTL


-----------------------------------------------------------------------------
(* What a plan is made of *)

PlannedRequest(connector, req, operation, decision) ==
  IF operation.protocol = "REST"
  THEN BuildRestOperation(operation, ResolveRelationInputs(connector.relation, req.inputs),
                          decision)
  ELSE [query |-> << >>]

RetryAttempts(operation) == IF RetryEnabled(operation.retry) THEN operation.retry.attempts ELSE 1

PlannedRetryScan(operation) ==
  IF Paginated(operation)
  THEN BoundedProduct(PagesOf(operation), RetryAttempts(operation), Host.scanAttempts)
  ELSE [product |-> RetryAttempts(operation)]

PlannedWait(operation) ==
  BoundedSum(operation.retry.wait, operation.rateLimit.wait, Host.waiting)

PlannedPage(connector, operation) ==
  IF Paginated(operation)
  THEN PageBudgets(operation, connector.relation.ceilings, connector.network)
  ELSE LiveBudgets(operation, connector.relation.ceilings, connector.network)

PlannedScan(connector, operation) ==
  IF Paginated(operation)
  THEN ScanBudgets(operation, connector.relation.ceilings, connector.network)
  ELSE [attempts |-> AttemptsPerStep(operation), pages |-> 1]

\* A plan, field by field, and the checks it has passed.
PlanFields(p, connector, req, operation, decision) ==
  p = [operation |-> operation, columns |-> connector.relation.columns,
       query |-> PlannedRequest(connector, req, operation, decision).query,
       domain |-> PlanBaseDomain(operation), decision |-> decision,
       retry |-> RetryPlanOf(operation, PlannedRetryScan(operation).product),
       rateLimit |-> operation.rateLimit,
       resilience |-> [step |-> AttemptsPerStep(operation),
                       scan |-> PlannedScan(connector, operation).attempts,
                       wait |-> PlannedWait(operation).sum],
       secret |-> req.secret, authentication |-> connector.relation.authentication,
       origin |-> operation.origin, paginated |-> Paginated(operation),
       page |-> PlannedPage(connector, operation), scan |-> PlannedScan(connector, operation)]

PlanChecks(p, connector, req, operation, decision) ==
  /\ REFUSED \notin {PlannedRequest(connector, req, operation, decision),
                     PlannedWait(operation), PlannedScan(connector, operation),
                     PlannedRetryScan(operation)}
  /\ Paginated(operation) => /\ IsWithinPaginatedPageBounds(PlannedPage(connector, operation))
                             /\ IsWithinPaginatedScanBounds(PlannedScan(connector, operation))
  /\ RetryWithinHardBounds(p.retry) /\ RateLimitWithinHardBounds(p.rateLimit)
  /\ ResilienceWithinHardBounds(p.resilience)
  /\ ValidatePredicateMaterialization(p)

(* What PlanSelected has built when it has not failed. *)
LEMMA PlanSelectedIs ==
  ASSUME NEW connector, NEW req, NEW operation, NEW decision,
         NEW p, p = PlanSelected(connector, req, operation, decision), IsPlan(p)
  PROVE  /\ PlanFields(p, connector, req, operation, decision)
         /\ PlanChecks(p, connector, req, operation, decision)
<1>1. p # INVALID
  BY DEF IsPlan, INVALID, Failed
<1>2. PICK full : PlanFields(full, connector, req, operation, decision)
  BY DEF PlanFields
<1>3. /\ full.retry = RetryPlanOf(operation, PlannedRetryScan(operation).product)
      /\ full.rateLimit = operation.rateLimit
      /\ full.resilience = [step |-> AttemptsPerStep(operation),
                            scan |-> PlannedScan(connector, operation).attempts,
                            wait |-> PlannedWait(operation).sum]
  BY <1>2 DEF PlanFields
<1>4. p = full /\ PlanChecks(full, connector, req, operation, decision)
  BY <1>1, <1>2, <1>3
     DEF PlanSelected, PlanFields, PlanChecks, PlannedRequest, PlannedWait, PlannedScan,
         PlannedPage, PlannedRetryScan, RetryAttempts
<1>. QED  BY <1>2, <1>4


\* The inputs of a request, with their declared defaults.
InputsOf(connector, req) == ResolveRelationInputs(connector.relation, req.inputs)

\* p is the plan of an operation that was selected for the request.
Selected(p, connector, req, operation) ==
  /\ p = PlanSelected(connector, req, operation, Classify(connector.relation, operation, req))
  /\ ValidatePlannedOperation(connector.relation, operation, connector.network)
  /\ ValidateRequest(req) /\ ValidateCandidateContract(connector.relation, req)
  /\ InputsOf(connector, req) # REFUSED
  /\ Eligible(connector.relation, operation, req, InputsOf(connector, req))

(* Selection takes one of the relation's operations that is eligible. *)
LEMMA SelectionIs ==
  ASSUME NEW relation, NEW req, NEW inputs,
         NEW o, o = SelectOperation(relation, req, inputs), IsPlan(o)
  PROVE  /\ \E i \in DOMAIN relation.operations : relation.operations[i] = o
         /\ Eligible(relation, o, req, inputs)
<1>1. PICK operations : operations = {relation.operations[i] : i \in DOMAIN relation.operations}
  OBVIOUS
<1>2. PICK able : able = {x \in operations : Eligible(relation, x, req, inputs)}
  OBVIOUS
<1>3. PICK eligible, fallback :
        /\ eligible = {x \in operations : ~x.fallback /\ Eligible(relation, x, req, inputs)}
        /\ fallback = {x \in operations : x.fallback /\ Eligible(relation, x, req, inputs)}
  OBVIOUS
<1>4. PICK best : best = {x \in eligible : \A y \in eligible :
                            Cardinality(y.references) <= Cardinality(x.references)}
  OBVIOUS
<1>5. PICK chosen : chosen = (IF eligible # {} THEN best ELSE fallback)
  OBVIOUS
<1>6. chosen \subseteq able
  BY <1>2, <1>3, <1>4, <1>5
<1>7. Cardinality(chosen) = 1 /\ o = CHOOSE x \in chosen : TRUE
  <2>1. o # Failed("OPERATION_SELECTION_FAILED")
    BY DEF IsPlan, Failed
  <2>. QED  BY <1>1, <1>3, <1>4, <1>5, <2>1 DEF SelectOperation
<1>8. chosen # {}
  BY <1>7, FS_EmptySet
<1>9. o \in chosen
  BY <1>7, <1>8
<1>. QED  BY <1>1, <1>2, <1>6, <1>9

(* A plan is the plan of an eligible operation of the relation, and each of the
   relation's operations has passed the planner's checks. *)
LEMMA PlanIs ==
  ASSUME NEW connector, NEW req, NEW p, p = BuildScanPlan(connector, req), IsPlan(p)
  PROVE  \E i \in DOMAIN connector.relation.operations :
           Selected(p, connector, req, connector.relation.operations[i])
<1>1. PICK inputs, relation, o :
        /\ inputs = InputsOf(connector, req) /\ relation = connector.relation
        /\ o = SelectOperation(relation, req, inputs)
  OBVIOUS
<1>2. PICK v : v = ValidateSelected(connector, req, inputs, o)
  OBVIOUS
<1>3. p = PlanOperation(connector, req, v)
  BY <1>1, <1>2 DEF BuildScanPlan, ValidateAndSelectOperation, InputsOf
<1>4. IsPlan(v) /\ p = PlanSelected(connector, req, v, Classify(relation, v, req))
  BY <1>1, <1>3 DEF PlanOperation
<1>5. ~IsPlan(INVALID)
  BY DEF IsPlan, INVALID, Failed
<1>6. /\ ValidateRequest(req)
      /\ ~ \E i \in DOMAIN relation.operations :
            ~ValidatePlannedOperation(relation, relation.operations[i], connector.network)
      /\ inputs # REFUSED /\ ValidateCandidateContract(relation, req)
      /\ v = o
  BY <1>1, <1>2, <1>4, <1>5 DEF ValidateSelected
<1>7. PICK i \in DOMAIN relation.operations : relation.operations[i] = o
  BY <1>1, <1>4, <1>6, SelectionIs
<1>8. Eligible(relation, o, req, inputs)
  BY <1>1, <1>4, <1>6, SelectionIs
<1>9. Selected(p, connector, req, o)
  BY <1>1, <1>4, <1>6, <1>7, <1>8 DEF Selected
<1>. QED  BY <1>1, <1>7, <1>9


-----------------------------------------------------------------------------
(* The numbers of a plan *)

\* A retry recommendation and a rate-limit policy that validation has passed.
PolicyNumbers(operation) ==
  /\ \A f \in {"attempts", "delay", "wait"} :
       operation.retry[f] \in Nat /\ operation.rateLimit[f] \in Nat
  /\ WaitingEnabled(operation.rateLimit) => operation.rateLimit.attempts >= 2

(* A validated policy holds natural numbers. *)
LEMMA PoliciesAre ==
  ASSUME NEW o, ValidateRetryContract(o), ValidateRateLimitContract(o)
  PROVE  PolicyNumbers(o)
<1>1. PICK c1, c2, c3, c4, c5 :
        /\ c1 = Contract.retryAttempts /\ c2 = Contract.retryDelay /\ c3 = Contract.retryWait
        /\ c4 = Contract.rateDelay /\ c5 = Contract.rateWait
  OBVIOUS
<1>2. c1 \in Nat /\ c2 \in Nat /\ c3 \in Nat /\ c4 \in Nat /\ c5 \in Nat
  BY <1>1, ContractAssumption
<1>3. o.retry.attempts \in Nat /\ o.retry.delay \in Nat /\ o.retry.wait \in Nat
  <2>1. CASE o.retry = NoRetry
    BY <2>1 DEF NoRetry
  <2>2. CASE o.retry # NoRetry
    BY <1>1, <1>2, <2>2 DEF ValidateRetryContract, ValidateRetryRecommendation
  <2>. QED  BY <2>1, <2>2
<1>4. /\ o.rateLimit.attempts \in Nat /\ o.rateLimit.delay \in Nat /\ o.rateLimit.wait \in Nat
      /\ WaitingEnabled(o.rateLimit) => o.rateLimit.attempts >= 2
  <2>1. CASE ~o.rateLimit.declared
    <3>1. o.rateLimit = NoRateLimit
      BY <2>1 DEF ValidateRateLimitContract, RateLimitFacts
    <3>2. o.rateLimit.attempts = 0 /\ o.rateLimit.delay = 0 /\ o.rateLimit.wait = 0
      <4>1. NoRateLimit.attempts = 0 /\ NoRateLimit.delay = 0 /\ NoRateLimit.wait = 0
        BY DEF NoRateLimit
      <4>. QED  BY <3>1, <4>1
    <3>3. ~WaitingEnabled(o.rateLimit)
      BY <2>1, Zenon DEF WaitingEnabled
    <3>. QED  BY <3>2, <3>3
  <2>2. CASE o.rateLimit.declared /\ o.rateLimit.mode = "FAIL"
    <3>1. <<o.rateLimit.attempts, o.rateLimit.delay, o.rateLimit.wait>> = <<0, 0, 0>>
      BY <2>2, Zenon DEF ValidateRateLimitContract, RateLimitFacts
    <3>2. o.rateLimit.attempts = 0 /\ o.rateLimit.delay = 0 /\ o.rateLimit.wait = 0
      BY <3>1
    <3>3. ~WaitingEnabled(o.rateLimit)
      BY <2>2, Zenon DEF WaitingEnabled
    <3>. QED  BY <3>2, <3>3
  <2>3. CASE o.rateLimit.declared /\ o.rateLimit.mode # "FAIL"
    <3>1. /\ o.rateLimit.attempts \in 2..c1 /\ o.rateLimit.delay \in 1..c4
          /\ o.rateLimit.wait \in 1..c5
      <4>1. PICK policy : policy = o.rateLimit
        OBVIOUS
      <4>2. RateLimitFacts(policy) /\ policy.declared /\ policy.mode # "FAIL"
        BY <2>3, <4>1 DEF ValidateRateLimitContract
      <4>3. /\ policy.attempts \in 2..Contract.retryAttempts
            /\ policy.delay \in 1..Contract.rateDelay /\ policy.wait \in 1..Contract.rateWait
        <5>1. IF policy.mode = "FAIL"
              THEN /\ policy.guidance = << >> /\ policy.optional = << >>
                   /\ <<policy.attempts, policy.delay, policy.wait>> = <<0, 0, 0>>
              ELSE /\ Len(policy.guidance) \in 1..Contract.guidance
                   /\ policy.attempts \in 2..Contract.retryAttempts
                   /\ policy.delay \in 1..Contract.rateDelay
                   /\ policy.wait \in 1..Contract.rateWait
          BY <4>2, Zenon DEF RateLimitFacts
        <5>. QED  BY <4>2, <5>1, Zenon
      <4>. QED  BY <1>1, <4>1, <4>3
    <3>. QED  BY <1>2, <3>1
  <2>. QED  BY <2>1, <2>2, <2>3
<1>. QED  BY <1>3, <1>4 DEF PolicyNumbers

(* A step has at least one attempt, and all that retry or waiting needs. *)
LEMMA AttemptsAre ==
  ASSUME NEW o, PolicyNumbers(o)
  PROVE  /\ RetryAttempts(o) \in Nat \ {0}
         /\ AttemptsPerStep(o) \in Nat \ {0}
         /\ RetryAttempts(o) <= AttemptsPerStep(o)
         /\ WaitingEnabled(o.rateLimit) => o.rateLimit.attempts <= AttemptsPerStep(o)
<1>1. PICK rate : rate = (IF WaitingEnabled(o.rateLimit) THEN o.rateLimit.attempts ELSE 1)
  OBVIOUS
<1>2. o.retry.attempts \in Nat /\ o.rateLimit.attempts \in Nat
  BY DEF PolicyNumbers
<1>3. rate \in Nat \ {0}
  BY <1>1, <1>2 DEF PolicyNumbers
<1>4. RetryAttempts(o) \in Nat \ {0}
  BY <1>2 DEF RetryAttempts, RetryEnabled
<1>5. AttemptsPerStep(o) = (IF RetryAttempts(o) > rate THEN RetryAttempts(o) ELSE rate)
  BY <1>1 DEF AttemptsPerStep, RetryAttempts
<1>. QED  BY <1>1, <1>3, <1>4, <1>5

(* A product or a sum that does not overflow is within its ceiling. *)
LEMMA BoundedProductIs ==
  ASSUME NEW left \in Nat, NEW right \in Nat, NEW ceiling \in Nat,
         NEW x, x = BoundedProduct(left, right, ceiling), x # REFUSED
  PROVE  x.product \in Nat /\ x.product <= left * right /\ x.product <= ceiling
<1>1. x = [product |-> Lower(left * right, ceiling)]
  BY DEF BoundedProduct
<1>2. PICK n \in Nat : n = left * right
  OBVIOUS
<1>. QED  BY <1>1, <1>2 DEF Lower

LEMMA BoundedSumIs ==
  ASSUME NEW left \in Nat, NEW right \in Nat, NEW ceiling \in Nat,
         NEW x, x = BoundedSum(left, right, ceiling), x # REFUSED
  PROVE  x.sum \in Nat /\ x.sum <= left + right /\ x.sum <= ceiling
<1>1. x = [sum |-> Lower(left + right, ceiling)]
  BY DEF BoundedSum
<1>. QED  BY <1>1 DEF Lower

\* What compilation leaves of an operation's page counts.
PageNumbers(operation) ==
  /\ PagesOf(operation) \in Nat
  /\ ~Paginated(operation) => PagesOf(operation) = 0

(* An operation that is not paginated counts no pages. *)
LEMMA PagesAre ==
  ASSUME NEW d, IsCompiled(d), NEW i \in DOMAIN d.relation.operations,
         NEW o, o = CompileOperation(d.relation, d.relation.operations[i])
  PROVE  PageNumbers(o)
<1>1. PICK declared : declared = d.relation.operations[i]
  OBVIOUS
<1>2. DeclaredOperation(declared)
  BY <1>1 DEF IsCompiled, DeclaredRelation
<1>3. DecodeOperationSchema(declared, d.manifest.version)
  <2>1. DecodePackageSchema(d)
    BY DEF IsCompiled, CompilePackage
  <2>. QED  BY <1>1, <2>1 DEF DecodePackageSchema, DecodeRelationSchema
<1>4. /\ o.protocol = declared.protocol
      /\ o.pagination = (IF declared.protocol = "REST" THEN CompilePagination(declared.pagination)
                         ELSE DisabledPagination)
      /\ o.graphql = (IF declared.protocol = "REST" THEN NoGraphql
                      ELSE [f \in DOMAIN NoGraphql |-> declared.graphql[f]])
  BY <1>1 DEF CompileOperation
<1>5. CASE declared.protocol = "GRAPHQL"
  <2>1. o.graphql.pages = declared.graphql.pages
    BY <1>4, <1>5 DEF NoGraphql
  <2>2. declared.graphql.pages \in Nat
    BY <1>2 DEF DeclaredOperation
  <2>. QED  BY <1>4, <1>5, <2>1, <2>2 DEF PageNumbers, PagesOf, Paginated
<1>6. CASE declared.protocol # "GRAPHQL"
  <2>1. o.protocol # "GRAPHQL"
    BY <1>4, <1>6
  <2>2. CASE o.pagination = DisabledPagination
    <3>1. o.pagination.pages = 0 /\ o.pagination.strategy = "DISABLED"
      <4>1. DisabledPagination.pages = 0 /\ DisabledPagination.strategy = "DISABLED"
        BY DEF DisabledPagination
      <4>. QED  BY <2>2, <4>1
    <3>2. PagesOf(o) = 0
      BY <2>1, <3>1 DEF PagesOf
    <3>. QED  BY <3>2 DEF PageNumbers
  <2>3. CASE o.pagination # DisabledPagination
    <3>1. PICK p : p = declared.pagination
      OBVIOUS
    <3>2. o.pagination = CompilePagination(p) /\ p.strategy # "disabled"
      <4>1. o.pagination = CompilePagination(p)
        BY <1>4, <2>3, <3>1, Zenon
      <4>2. CASE p.strategy = "disabled"
        BY <2>3, <4>1, <4>2, Zenon DEF CompilePagination
      <4>. QED  BY <4>1, <4>2
    <3>3. p.strategy \in {"link_next", "response_next", "short_page"}
      <4>1. DecodeRestPaginationSchema(p)
        BY <1>3, <1>6, <3>1, Zenon DEF DecodeOperationSchema
      <4>. QED  BY <3>2, <4>1, Zenon DEF DecodeRestPaginationSchema
    <3>4. PICK strategy : strategy = (CASE p.strategy = "link_next" -> "LINK_HEADER"
                                        [] p.strategy = "response_next" -> "RESPONSE_NEXT_URL"
                                        [] p.strategy = "short_page" -> "SHORT_PAGE")
      OBVIOUS
    <3>5. strategy # "DISABLED"
      BY <3>3, <3>4
    <3>6. o.pagination =
            [strategy |-> strategy, sizeParam |-> p.sizeParam,
             size |-> IF p.sizeParam = "" THEN 0 ELSE p.size, numberParam |-> p.numberParam,
             first |-> p.first, increment |-> p.increment, pages |-> p.pages]
      BY <3>2, <3>4, Zenon DEF CompilePagination
    <3>7. o.pagination.pages = p.pages /\ o.pagination.strategy # "DISABLED"
      <4>1. PICK n : n = (IF p.sizeParam = "" THEN 0 ELSE p.size)
        BY Zenon
      <4>2. PICK q : q = [strategy |-> strategy, sizeParam |-> p.sizeParam, size |-> n,
                          numberParam |-> p.numberParam, first |-> p.first,
                          increment |-> p.increment, pages |-> p.pages]
        OBVIOUS
      <4>3. q.pages = p.pages /\ q.strategy = strategy
        BY <4>2
      <4>4. o.pagination = q
        BY <3>6, <4>1, <4>2, Zenon
      <4>. QED  BY <3>5, <4>3, <4>4
    <3>8. p.pages \in Nat
      BY <1>2, <3>1 DEF DeclaredOperation
    <3>9. PagesOf(o) = p.pages /\ Paginated(o)
      BY <2>1, <3>7 DEF PagesOf, Paginated
    <3>. QED  BY <3>8, <3>9 DEF PageNumbers
  <2>. QED  BY <2>2, <2>3
<1>. QED  BY <1>5, <1>6


-----------------------------------------------------------------------------
(* Admission *)

\* The retry authority that is planned.
PlannedRetry(p) ==
  /\ \A f \in {"step", "scan", "delay", "wait"} : p.retry[f] \in Nat
  /\ p.retry.step # 0 /\ p.scan.pages \in Nat \ {0}
  /\ p.retry.step = 1 => p.retry.scan <= p.scan.pages

\* Retry authority r is within the plan's and the profile's.
RetryWithin(r, p, configured) ==
  /\ r.step \in Nat \ {0} /\ r.scan \in Nat /\ r.wait \in Nat
  /\ r.step <= p.retry.step /\ r.step <= configured.retryStep
  /\ r.scan <= configured.retryScan /\ r.scan <= p.scan.pages * r.step
  /\ r.wait <= configured.retryWait
  /\ configured.retryStep \in Nat \ {0} /\ configured.retryScan \in Nat \ {0}
  /\ configured.retryWait \in Nat

(* The smaller of two numbers. *)
LEMMA LowerIs ==
  ASSUME NEW a \in Int, NEW b \in Int
  PROVE  /\ Lower(a, b) \in {a, b} /\ Lower(a, b) <= a /\ Lower(a, b) <= b
         /\ Higher(a, b) \in {a, b} /\ Higher(a, b) >= a /\ Higher(a, b) >= b
BY DEF Lower, Higher

(* More attempts per step never make fewer per scan. *)
LEMMA ProductGrows ==
  ASSUME NEW n \in Nat, NEW a \in Nat, NEW b \in Nat, a <= b
  PROVE  n * a \in Nat /\ n * b \in Nat /\ n * a <= n * b
<1>1. PICK k \in Nat : b = a + k
  OBVIOUS
<1>2. n * b = n * a + n * k
  BY <1>1
<1>3. n * a \in Nat /\ n * k \in Nat
  OBVIOUS
<1>. QED  BY <1>2, <1>3

(* Retry authority is narrowed field by field. *)
LEMMA RetryNarrows ==
  ASSUME NEW p, PlannedRetry(p), NEW configured \in Profiles,
         NEW r, r = TryAdmitRetryPolicy(p, configured), r # REFUSED
  PROVE  RetryWithin(r, p, configured)
<1>1. PICK ps, pc, pd, pw, cs, cc, cd, cw, pages :
        /\ ps = p.retry.step /\ pc = p.retry.scan /\ pd = p.retry.delay /\ pw = p.retry.wait
        /\ cs = configured.retryStep /\ cc = configured.retryScan
        /\ cd = configured.retryDelay /\ cw = configured.retryWait
        /\ pages = p.scan.pages
  OBVIOUS
<1>2. /\ ps \in Nat \ {0} /\ pc \in Nat /\ pd \in Nat /\ pw \in Nat
      /\ pages \in Nat \ {0} /\ (ps = 1 => pc <= pages)
  BY <1>1 DEF PlannedRetry
<1>3. cs \in Nat /\ cc \in Nat /\ cd \in Nat /\ cw \in Nat
  BY <1>1, ProfileAssumption
<1>4. PICK scan, delay, wait, least :
        /\ scan = Lower(pc, cc) /\ delay = Lower(pd, cd) /\ wait = Lower(pw, cw)
        /\ least = Lower(ps, cs)
  OBVIOUS
<1>5. /\ scan \in Nat /\ scan <= pc /\ scan <= cc
      /\ wait \in Nat /\ wait <= cw
      /\ least \in Nat /\ least <= ps /\ least <= cs
  BY <1>2, <1>3, <1>4 DEF Lower
<1>6. PICK disabled \in BOOLEAN : disabled <=> (least <= 1 \/ delay = 0 \/ wait = 0)
  BY Zenon
<1>7. PICK step : step = (IF disabled THEN 1 ELSE least)
  BY Zenon
<1>8. PICK narrowed : narrowed = [step |-> step, scan |-> Lower(scan, RetryShape(p, step)),
                                  delay |-> IF disabled THEN 0 ELSE delay,
                                  wait |-> IF disabled THEN 0 ELSE wait]
  BY Zenon
<1>9. /\ cs \in 1..Host.stepAttempts /\ cc \in 1..Host.scanAttempts
      /\ \/ /\ ps = 1 /\ r = [step |-> 1, scan |-> scan, delay |-> 0, wait |-> 0]
         \/ r = narrowed
  <2>1. PlannedPages(p) = pages
    BY <1>1 DEF PlannedPages
  <2>. QED  BY <1>1, <1>4, <1>6, <1>7, <1>8, <2>1, Zenon DEF TryAdmitRetryPolicy
<1>10. cs # 0 /\ cc # 0
  <2>1. Host.stepAttempts \in Nat /\ Host.scanAttempts \in Nat
    BY HostAssumption
  <2>. QED  BY <1>3, <1>9, <2>1
<1>11. CASE ps = 1 /\ r = [step |-> 1, scan |-> scan, delay |-> 0, wait |-> 0]
  <2>1. r.step = 1 /\ r.scan = scan /\ r.wait = 0
    BY <1>11
  <2>2. r.scan <= pages * r.step
    BY <1>2, <1>5, <1>11, <2>1
  <2>. QED  BY <1>1, <1>2, <1>3, <1>5, <1>10, <2>1, <2>2 DEF RetryWithin
<1>12. CASE r = narrowed
  <2>1. /\ r.step = step /\ r.scan = Lower(scan, RetryShape(p, step))
        /\ r.wait = (IF disabled THEN 0 ELSE wait)
    BY <1>8, <1>12
  <2>2. step \in Nat \ {0} /\ step <= ps /\ step <= cs
    <3>1. CASE disabled
      BY <1>2, <1>3, <1>7, <1>10, <3>1
    <3>2. CASE ~disabled
      BY <1>5, <1>6, <1>7, <3>2
    <3>. QED  BY <3>1, <3>2
  <2>3. PICK whole \in Nat : whole = pages * step
    BY <1>2, <2>2
  <2>4. step <= whole
    <3>1. PICK k \in Nat : pages = k + 1
      BY <1>2
    <3>2. pages * step = k * step + step /\ k * step \in Nat
      BY <2>2, <3>1
    <3>. QED  BY <2>2, <2>3, <3>2
  <2>5. RetryShape(p, step) \in {whole, step}
    BY <1>1, <2>3 DEF RetryShape, PlannedPages
  <2>6. r.scan \in Nat /\ r.scan <= scan /\ r.scan <= whole
    BY <1>5, <2>1, <2>2, <2>3, <2>4, <2>5 DEF Lower
  <2>7. r.wait \in Nat /\ r.wait <= cw
    BY <1>3, <1>5, <2>1
  <2>8. r.scan <= cc
    BY <1>3, <1>5, <2>6
  <2>. QED  BY <1>1, <1>3, <1>10, <2>1, <2>2, <2>3, <2>6, <2>7, <2>8 DEF RetryWithin
<1>. QED  BY <1>9, <1>11, <1>12

\* Waiting authority r likewise, one attempt being always there.
RateWithin(r, p, configured) ==
  /\ r.step \in Nat \ {0} /\ r.scan \in Nat \ {0} /\ r.wait \in Nat
  /\ r.scan <= p.scan.pages * r.step
  /\ r.step = 1 \/ (/\ WaitingEnabled(p.rateLimit) /\ r.step <= p.rateLimit.attempts
                    /\ r.step <= configured.rateStep)
  /\ r.scan = 1 \/ r.scan <= configured.rateScan
  /\ r.wait = 0 \/ configured.combinedWait # 0
  /\ configured.rateStep \in Nat /\ configured.rateScan \in Nat
  /\ configured.combinedWait \in Nat

(* Waiting authority is narrowed too, or dropped. *)
LEMMA RateNarrows ==
  ASSUME NEW p, p.scan.pages \in Nat \ {0}, NEW configured \in Profiles,
         \A f \in {"attempts", "delay", "wait"} : p.rateLimit[f] \in Nat,
         NEW r, r = TryAdmitRateLimitPolicy(p, configured), r # REFUSED
  PROVE  RateWithin(r, p, configured)
<1>1. PICK pa, pd, pw, cs, cc, cd, cw, cm, pages :
        /\ pa = p.rateLimit.attempts /\ pd = p.rateLimit.delay /\ pw = p.rateLimit.wait
        /\ cs = configured.rateStep /\ cc = configured.rateScan
        /\ cd = configured.rateDelay /\ cw = configured.rateWait /\ cm = configured.combinedWait
        /\ pages = p.scan.pages
  OBVIOUS
<1>2. pa \in Nat /\ pd \in Nat /\ pw \in Nat /\ pages \in Nat \ {0}
  BY <1>1
<1>3. cs \in Nat /\ cc \in Nat /\ cd \in Nat /\ cw \in Nat /\ cm \in Nat
  BY <1>1, ProfileAssumption
<1>4. PICK step, delay, wait, scan :
        /\ step = Lower(pa, cs) /\ delay = Lower(pd, cd) /\ wait = Lower(pw, cw)
        /\ scan = Lower(cc, pages * Lower(pa, cs))
  OBVIOUS
<1>5. /\ step \in Nat /\ step <= pa /\ step <= cs /\ wait \in Nat
  BY <1>2, <1>3, <1>4 DEF Lower
<1>6. \/ r = NoWaiting
      \/ /\ WaitingEnabled(p.rateLimit) /\ ~ (step <= 1)
         /\ 0 \notin {cs, cc, cd, cw, cm}
         /\ r = [step |-> step, scan |-> scan, delay |-> delay, wait |-> wait,
                 waiting |-> scan >= pages]
  <2>1. PlannedPages(p) = pages
    BY <1>1 DEF PlannedPages
  <2>. QED  BY <1>1, <1>4, <2>1, Zenon DEF TryAdmitRateLimitPolicy
<1>7. CASE r = NoWaiting
  <2>1. r.step = 1 /\ r.scan = 1 /\ r.wait = 0
    BY <1>7 DEF NoWaiting
  <2>2. r.scan <= pages * r.step
    BY <1>2, <2>1
  <2>. QED  BY <1>1, <1>3, <2>1, <2>2 DEF RateWithin
<1>8. CASE /\ WaitingEnabled(p.rateLimit) /\ ~ (step <= 1)
           /\ 0 \notin {cs, cc, cd, cw, cm}
           /\ r = [step |-> step, scan |-> scan, delay |-> delay, wait |-> wait,
                   waiting |-> scan >= pages]
  <2>1. r.step = step /\ r.scan = scan /\ r.wait = wait
    BY <1>8
  <2>2. step \in Nat \ {0} /\ cc # 0 /\ cm # 0
    BY <1>5, <1>8
  <2>3. PICK whole \in Nat : whole = pages * step
    BY <1>2, <2>2
  <2>4. whole # 0
    <3>1. PICK k \in Nat : pages = k + 1
      BY <1>2
    <3>2. pages * step = k * step + step /\ k * step \in Nat
      BY <2>2, <3>1
    <3>. QED  BY <2>2, <2>3, <3>2
  <2>5. scan \in Nat \ {0} /\ scan <= cc /\ scan <= whole
    BY <1>3, <1>4, <2>2, <2>3, <2>4 DEF Lower
  <2>. QED  BY <1>1, <1>3, <1>5, <1>8, <2>1, <2>2, <2>3, <2>5 DEF RateWithin
<1>. QED  BY <1>6, <1>7, <1>8


\* What is planned of attempts, waits, pages and bytes for an operation.
PlanNumbers(p, operation, ceilings) ==
  /\ p.operation = operation /\ p.rateLimit = operation.rateLimit
  /\ p.retry.step = RetryAttempts(operation)
  /\ PlannedRetry(p)
  /\ p.scan.pages <= Host.pages /\ PagesOf(operation) <= p.scan.pages
  /\ p.scan.attempts \in Nat /\ p.resilience.scan = p.scan.attempts
  /\ p.resilience.wait \in Nat
  /\ p.resilience.wait <= operation.retry.wait + operation.rateLimit.wait
  /\ p.page.bytes <= ceilings.pageBytes

(* The numbers of a plan come from the declaration and the host's ceilings. *)
LEMMA NumbersArePlanned ==
  ASSUME NEW connector, NEW req, NEW o, NEW decision, NEW p,
         PlanFields(p, connector, req, o, decision), PlanChecks(p, connector, req, o, decision),
         PolicyNumbers(o), PageNumbers(o),
         connector.relation.ceilings.pageBytes \in Nat, connector.network.maxResponseBytes \in Nat
  PROVE  PlanNumbers(p, o, connector.relation.ceilings)
<1>1. PICK ceilings : ceilings = connector.relation.ceilings
  OBVIOUS
<1>2. /\ p.operation = o /\ p.rateLimit = o.rateLimit
      /\ p.retry = RetryPlanOf(o, PlannedRetryScan(o).product)
      /\ p.resilience = [step |-> AttemptsPerStep(o), scan |-> PlannedScan(connector, o).attempts,
                         wait |-> PlannedWait(o).sum]
      /\ p.page = PlannedPage(connector, o) /\ p.scan = PlannedScan(connector, o)
  BY DEF PlanFields
<1>3. /\ RetryAttempts(o) \in Nat \ {0} /\ AttemptsPerStep(o) \in Nat \ {0}
      /\ RetryAttempts(o) <= AttemptsPerStep(o)
  BY AttemptsAre
<1>4. /\ p.retry.step = RetryAttempts(o) /\ p.retry.scan = PlannedRetryScan(o).product
      /\ p.retry.delay = o.retry.delay /\ p.retry.wait = o.retry.wait
  BY <1>2 DEF RetryPlanOf, RetryAttempts
<1>5. /\ Host.scanAttempts \in Nat /\ Host.waiting \in Nat /\ Host.pages \in Nat \ {0}
      /\ Host.pageBytes \in Nat /\ Host.liveBytes \in Nat
  BY HostAssumption
<1>6. /\ p.resilience.scan = p.scan.attempts /\ p.resilience.wait \in Nat
      /\ p.resilience.wait <= o.retry.wait + o.rateLimit.wait
  <2>1. p.resilience.scan = p.scan.attempts /\ p.resilience.wait = PlannedWait(o).sum
    BY <1>2
  <2>2. PICK w : w = PlannedWait(o)
    OBVIOUS
  <2>3. w # REFUSED /\ w = BoundedSum(o.retry.wait, o.rateLimit.wait, Host.waiting)
    BY <2>2 DEF PlanChecks, PlannedWait
  <2>4. o.retry.wait \in Nat /\ o.rateLimit.wait \in Nat
    BY DEF PolicyNumbers
  <2>. QED  BY <1>5, <2>1, <2>2, <2>3, <2>4, BoundedSumIs
<1>7. p.page.bytes <= ceilings.pageBytes
  <2>1. PICK a, b : a = ceilings.pageBytes /\ b = connector.network.maxResponseBytes
    OBVIOUS
  <2>2. p.page.bytes \in {Lower(Lower(a, b), Host.pageBytes), Lower(Lower(a, b), Host.liveBytes)}
    BY <1>1, <1>2, <2>1 DEF PlannedPage, PageBudgets, LiveBudgets
  <2>3. a \in Nat /\ b \in Nat
    BY <1>1, <2>1
  <2>. QED  BY <1>5, <2>1, <2>2, <2>3 DEF Lower
<1>8. o.retry.delay \in Nat /\ o.retry.wait \in Nat
  BY DEF PolicyNumbers
<1>9. CASE Paginated(o)
  <2>1. PICK scan : scan = ScanBudgets(o, ceilings, connector.network)
    OBVIOUS
  <2>2. p.scan = scan /\ scan # REFUSED /\ IsWithinPaginatedScanBounds(scan)
    BY <1>1, <1>2, <1>9, <2>1 DEF PlanChecks, PlannedScan
  <2>3. scan.pages = PagesOf(o)
    BY <2>1, <2>2 DEF ScanBudgets
  <2>4. scan.pages \in 1..Host.pages /\ scan.attempts \in scan.pages..Host.scanAttempts
    BY <2>2 DEF IsWithinPaginatedScanBounds
  <2>5. scan.pages \in Nat \ {0} /\ scan.pages <= Host.pages /\ scan.attempts \in Nat
    BY <1>5, <2>4
  <2>6. PICK x : x = BoundedProduct(PagesOf(o), RetryAttempts(o), Host.scanAttempts)
    OBVIOUS
  <2>7. x # REFUSED /\ p.retry.scan = x.product
    BY <1>4, <1>9, <2>6 DEF PlanChecks, PlannedRetryScan
  <2>8. p.retry.scan \in Nat /\ p.retry.scan <= PagesOf(o) * RetryAttempts(o)
    BY <1>3, <1>5, <2>3, <2>5, <2>6, <2>7, BoundedProductIs
  <2>9. RetryAttempts(o) = 1 => p.retry.scan <= PagesOf(o)
    BY <2>3, <2>5, <2>8
  <2>10. PlannedRetry(p)
    BY <1>3, <1>4, <1>8, <2>2, <2>3, <2>5, <2>8, <2>9 DEF PlannedRetry
  <2>. QED  BY <1>1, <1>2, <1>4, <1>6, <1>7, <2>2, <2>3, <2>5, <2>10 DEF PlanNumbers
<1>10. CASE ~Paginated(o)
  <2>1. p.scan.pages = 1 /\ p.scan.attempts = AttemptsPerStep(o)
    BY <1>2, <1>10 DEF PlannedScan
  <2>2. p.retry.scan = RetryAttempts(o)
    BY <1>4, <1>10 DEF PlannedRetryScan
  <2>3. PlannedRetry(p)
    BY <1>3, <1>4, <1>8, <2>1, <2>2 DEF PlannedRetry
  <2>4. PagesOf(o) = 0
    BY <1>10 DEF PageNumbers
  <2>. QED  BY <1>1, <1>2, <1>3, <1>4, <1>5, <1>6, <1>7, <2>1, <2>3, <2>4 DEF PlanNumbers
<1>. QED  BY <1>9, <1>10

\* The aggregate a of what is admitted is what the property asks of it.
Narrow(a, p, operation, configured) ==
  /\ a.step <= AttemptsPerStep(operation)
  /\ a.step <= Higher(configured.retryStep, configured.rateStep)
  /\ a.scan \in p.scan.pages..Lower(p.scan.attempts, p.scan.pages * a.step)
  /\ a.scan <= Higher(configured.retryScan, configured.rateScan)
  /\ a.retry.wait <= configured.retryWait
  /\ a.wait <= operation.retry.wait + operation.rateLimit.wait
  /\ a.rateLimit.wait > 0 => a.wait <= configured.combinedWait

(* The aggregate of retry and waiting authority stays within both. *)
LEMMA ResilienceNarrows ==
  ASSUME NEW p, NEW o, NEW ceilings, PlanNumbers(p, o, ceilings), PolicyNumbers(o),
         NEW configured \in Profiles,
         NEW a, a = TryAdmitResiliencePolicies(p, configured), a # REFUSED
  PROVE  Narrow(a, p, o, configured)
<1>1. PICK retry, rate : /\ retry = TryAdmitRetryPolicy(p, configured)
                         /\ rate = TryAdmitRateLimitPolicy(p, configured)
  OBVIOUS
<1>2. PICK cap, scan, wait :
        /\ cap = (IF configured.combinedWait = 0 THEN retry.wait ELSE configured.combinedWait)
        /\ scan = Higher(retry.scan, rate.scan) /\ wait = Lower(retry.wait + rate.wait, cap)
  BY Zenon
<1>3. /\ REFUSED \notin {retry, rate}
      /\ ~ (scan > p.resilience.scan) /\ ~ (scan < PlannedPages(p)) /\ ~ (wait > p.resilience.wait)
      /\ a = [retry |-> retry, rateLimit |-> rate, step |-> Higher(retry.step, rate.step),
              scan |-> scan, wait |-> wait]
  BY <1>1, <1>2, Zenon DEF TryAdmitResiliencePolicies
<1>4. RetryWithin(retry, p, configured)
  BY <1>1, <1>3, RetryNarrows DEF PlanNumbers
<1>5. RateWithin(rate, p, configured)
  <2>1. \A f \in {"attempts", "delay", "wait"} : p.rateLimit[f] \in Nat
    BY DEF PlanNumbers, PolicyNumbers
  <2>2. p.scan.pages \in Nat \ {0}
    BY DEF PlanNumbers, PlannedRetry
  <2>. QED  BY <1>1, <1>3, <2>1, <2>2, RateNarrows
<1>6. PICK ts, tc, tw, rs, rc, rw, pages, attempts, planned :
        /\ ts = retry.step /\ tc = retry.scan /\ tw = retry.wait
        /\ rs = rate.step /\ rc = rate.scan /\ rw = rate.wait
        /\ pages = p.scan.pages /\ attempts = p.scan.attempts /\ planned = p.resilience.wait
  OBVIOUS
<1>7. PICK cs, cc, cw, ws, wc, cm :
        /\ cs = configured.retryStep /\ cc = configured.retryScan /\ cw = configured.retryWait
        /\ ws = configured.rateStep /\ wc = configured.rateScan /\ cm = configured.combinedWait
  OBVIOUS
<1>8. /\ ts \in Nat \ {0} /\ tc \in Nat /\ tw \in Nat
      /\ ts <= RetryAttempts(o) /\ ts <= cs /\ tc <= cc /\ tc <= pages * ts /\ tw <= cw
      /\ cs \in Nat \ {0} /\ cc \in Nat \ {0} /\ cw \in Nat
  BY <1>4, <1>6, <1>7 DEF RetryWithin, PlanNumbers
<1>9. /\ rs \in Nat \ {0} /\ rc \in Nat \ {0} /\ rw \in Nat /\ rc <= pages * rs
      /\ rs = 1 \/ (WaitingEnabled(o.rateLimit) /\ rs <= o.rateLimit.attempts /\ rs <= ws)
      /\ rc = 1 \/ rc <= wc
      /\ rw = 0 \/ cm # 0
      /\ ws \in Nat /\ wc \in Nat /\ cm \in Nat
  BY <1>5, <1>6, <1>7 DEF RateWithin, PlanNumbers
<1>10. pages \in Nat \ {0} /\ attempts \in Nat /\ planned \in Nat
       /\ p.resilience.scan = attempts /\ PlannedPages(p) = pages
  BY <1>6 DEF PlanNumbers, PlannedRetry, PlannedPages
<1>11. PICK step : step = Higher(ts, rs)
  OBVIOUS
<1>12. a.step = step /\ a.scan = scan /\ a.wait = wait /\ a.retry = retry /\ a.rateLimit = rate
  BY <1>3, <1>6, <1>11
<1>13. step \in Nat \ {0} /\ ts <= step /\ rs <= step /\ step \in {ts, rs}
  BY <1>8, <1>9, <1>11 DEF Higher
<1>14. step <= AttemptsPerStep(o)
  <2>1. /\ RetryAttempts(o) \in Nat \ {0} /\ AttemptsPerStep(o) \in Nat \ {0}
        /\ RetryAttempts(o) <= AttemptsPerStep(o)
        /\ WaitingEnabled(o.rateLimit) => o.rateLimit.attempts <= AttemptsPerStep(o)
    BY AttemptsAre
  <2>2. o.rateLimit.attempts \in Nat
    BY DEF PolicyNumbers
  <2>3. ts <= AttemptsPerStep(o)
    BY <1>8, <2>1
  <2>4. rs <= AttemptsPerStep(o)
    BY <1>9, <2>1, <2>2
  <2>. QED  BY <1>13, <2>3, <2>4
<1>15. step <= Higher(cs, ws)
  BY <1>8, <1>9, <1>13 DEF Higher
<1>16. scan \in Nat /\ scan \in {tc, rc}
  BY <1>2, <1>6, <1>8, <1>9 DEF Higher
<1>17. scan <= Higher(cc, wc)
  BY <1>8, <1>9, <1>16 DEF Higher
<1>18. scan \in pages..Lower(attempts, pages * step)
  <2>1. /\ pages * ts \in Nat /\ pages * rs \in Nat /\ pages * step \in Nat
        /\ pages * ts <= pages * step /\ pages * rs <= pages * step
    BY <1>8, <1>9, <1>10, <1>13, ProductGrows
  <2>2. PICK x, y, z : x = pages * ts /\ y = pages * rs /\ z = pages * step
    OBVIOUS
  <2>3. scan <= z
    BY <1>8, <1>9, <1>16, <2>1, <2>2
  <2>4. pages <= scan /\ scan <= attempts
    BY <1>3, <1>10, <1>16
  <2>. QED  BY <1>10, <1>16, <2>1, <2>2, <2>3, <2>4 DEF Lower
<1>19. wait \in Int /\ wait <= planned /\ (rw > 0 => wait <= cm)
  <2>1. cap \in Nat /\ (cm # 0 => cap = cm)
    BY <1>2, <1>6, <1>7, <1>8, <1>9
  <2>2. wait \in Nat /\ wait <= cap
    BY <1>2, <1>6, <1>8, <1>9, <2>1 DEF Lower
  <2>3. wait <= planned
    BY <1>3, <1>6, <1>10, <2>2
  <2>4. rw > 0 => cm # 0
    BY <1>9
  <2>. QED  BY <2>1, <2>2, <2>3, <2>4
<1>20. wait <= o.retry.wait + o.rateLimit.wait
  <2>1. planned <= o.retry.wait + o.rateLimit.wait
    BY <1>6 DEF PlanNumbers
  <2>2. o.retry.wait \in Nat /\ o.rateLimit.wait \in Nat
    BY DEF PolicyNumbers
  <2>. QED  BY <1>10, <1>19, <2>1, <2>2
<1>. QED  BY <1>6, <1>7, <1>8, <1>12, <1>14, <1>15, <1>17, <1>18, <1>19, <1>20 DEF Narrow


(* Each of the three admissions has narrowed the resilience authority and looked at
   the profile's records. *)
LEMMA AdmissionIs ==
  ASSUME NEW p, NEW configured, NEW a, a = TryAdmitPlan(p, configured), a # REFUSED
  PROVE  /\ TryAdmitResiliencePolicies(p, configured) # REFUSED
         /\ a = AdmittedProfile(p, TryAdmitResiliencePolicies(p, configured))
         /\ p.page.records <= configured.records
<1>1. /\ a = AdmittedProfile(p, TryAdmitResiliencePolicies(p, configured))
      /\ \/ HasSingleResponseShape(p, configured)
         \/ HasPaginatedShape(p, configured)
         \/ IsGraphqlAdmissible(p, configured)
  BY Zenon DEF TryAdmitPlan
<1>2. CASE HasSingleResponseShape(p, configured)
  BY <1>1, <1>2, Zenon DEF HasSingleResponseShape, HasCommonRestPlan
<1>3. CASE HasPaginatedShape(p, configured)
  BY <1>1, <1>3, Zenon DEF HasPaginatedShape, HasCommonRestPlan, HasSupportedRestPagination
<1>4. CASE IsGraphqlAdmissible(p, configured)
  BY <1>1, <1>4, Zenon DEF IsGraphqlAdmissible, HasGraphqlBudgets, HasGraphqlAuthority
<1>. QED  BY <1>1, <1>2, <1>3, <1>4

(* What the invariant says of a scan that runs. *)
LEMMA RunningIs ==
  ASSUME IInv, phase = "RUNNING"
  PROVE  /\ IsCompiled(package) /\ IsPlan(plan) /\ plan = BuildScanPlan(Connector, request)
         /\ profile \in Profiles /\ admitted = TryAdmitPlan(plan, profile) /\ admitted # REFUSED
         /\ filters \in Seq(Expressions)
         /\ request.predicate = TranslateComplexFilters(ColumnTypes, filters).candidate
         /\ IsSent(plan, sent)
<1>1. PackagePart /\ PlannedPart /\ AdmittedPart /\ SentPart
  BY DEF IInv
<1>. QED  BY <1>1 DEF PackagePart, PlannedPart, AdmittedPart, SentPart

(* A compiled package: its relation's operations are the compiled ones. *)
LEMMA ConnectorIs ==
  ASSUME NEW d, IsCompiled(d), NEW connector, connector = CompilePackageDeclaration(d)
  PROVE  /\ connector.relation.ceilings = d.relation.resources
         /\ connector.network.maxResponseBytes \in Nat
         /\ connector.relation.ceilings.pageBytes \in Nat
         /\ CompiledRelation(connector.relation)
         /\ DOMAIN connector.relation.operations = DOMAIN d.relation.operations
         /\ \A i \in DOMAIN d.relation.operations :
              connector.relation.operations[i] = CompileOperation(d.relation, d.relation.operations[i])
<1>1. CompiledRelation(connector.relation)
  BY DEF IsCompiled, CompilePackage
<1>2. /\ connector.relation.ceilings = d.relation.resources
      /\ connector.network.maxResponseBytes = d.manifest.maxResponseBytes
      /\ connector.relation.operations =
           [i \in DOMAIN d.relation.operations |->
              CompileOperation(d.relation, d.relation.operations[i])]
  BY DEF CompilePackageDeclaration
<1>3. /\ d.manifest.maxResponseBytes \in Nat /\ d.relation.resources.pageBytes \in Nat
  BY DEF IsCompiled, DeclaredRelation
<1>. QED  BY <1>1, <1>2, <1>3

(* Authority only narrows, for every declaration, host and profile. *)
LEMMA AdmissionNarrows ==
  ASSUME IInv
  PROVE  AdmittedNeverWidens
<1>1. SUFFICES ASSUME phase = "RUNNING"
               PROVE  /\ Narrow(admitted.resilience, plan, plan.operation, profile)
                      /\ plan.scan.pages <= Host.pages
                      /\ PagesOf(plan.operation) <= Higher(plan.scan.pages, 1)
                      /\ admitted.page.bytes <= Connector.relation.ceilings.pageBytes
                      /\ admitted.page.records <= profile.records
  BY DEF AdmittedNeverWidens, Narrow
<1>2. /\ IsCompiled(package) /\ IsPlan(plan) /\ plan = BuildScanPlan(Connector, request)
      /\ profile \in Profiles /\ admitted = TryAdmitPlan(plan, profile) /\ admitted # REFUSED
  BY <1>1, RunningIs
<1>3. PICK connector : connector = Connector
  OBVIOUS
<1>4. /\ connector.network.maxResponseBytes \in Nat
      /\ connector.relation.ceilings.pageBytes \in Nat
      /\ DOMAIN connector.relation.operations = DOMAIN package.relation.operations
      /\ \A i \in DOMAIN package.relation.operations :
           connector.relation.operations[i] =
             CompileOperation(package.relation, package.relation.operations[i])
  BY <1>2, <1>3, ConnectorIs DEF Connector
<1>5. PICK i \in DOMAIN connector.relation.operations :
        Selected(plan, connector, request, connector.relation.operations[i])
  BY <1>2, <1>3, PlanIs
<1>6. PICK o, decision : /\ o = connector.relation.operations[i]
                         /\ decision = Classify(connector.relation, o, request)
  OBVIOUS
<1>7. /\ plan = PlanSelected(connector, request, o, decision)
      /\ ValidatePlannedOperation(connector.relation, o, connector.network)
  BY <1>5, <1>6 DEF Selected
<1>8. /\ PlanFields(plan, connector, request, o, decision)
      /\ PlanChecks(plan, connector, request, o, decision)
  BY <1>2, <1>7, PlanSelectedIs
<1>9. PolicyNumbers(o)
  BY <1>7, PoliciesAre DEF ValidatePlannedOperation
<1>10. PageNumbers(o)
  BY <1>2, <1>4, <1>6, PagesAre
<1>11. PlanNumbers(plan, o, connector.relation.ceilings)
  BY <1>4, <1>8, <1>9, <1>10, NumbersArePlanned
<1>12. PICK a : a = TryAdmitResiliencePolicies(plan, profile)
  OBVIOUS
<1>13. a # REFUSED /\ admitted = AdmittedProfile(plan, a) /\ plan.page.records <= profile.records
  BY <1>2, <1>12, AdmissionIs
<1>14. Narrow(a, plan, o, profile)
  BY <1>2, <1>9, <1>11, <1>12, <1>13, ResilienceNarrows
<1>15. plan.operation = o /\ admitted.resilience = a
  BY <1>11, <1>13 DEF PlanNumbers, AdmittedProfile
<1>16. admitted.page.bytes = plan.page.bytes /\ admitted.page.records = plan.page.records
  <2>1. admitted.page = [plan.page EXCEPT !.attempts = a.step]
    BY <1>13 DEF AdmittedProfile
  <2>. QED  BY <2>1
<1>17. /\ plan.scan.pages <= Host.pages /\ PagesOf(o) <= Higher(plan.scan.pages, 1)
       /\ plan.page.bytes <= connector.relation.ceilings.pageBytes
  <2>1. /\ plan.scan.pages <= Host.pages /\ PagesOf(o) <= plan.scan.pages
        /\ plan.page.bytes <= connector.relation.ceilings.pageBytes
        /\ plan.scan.pages \in Nat \ {0}
    BY <1>11 DEF PlanNumbers, PlannedRetry
  <2>. QED  BY <2>1 DEF Higher
<1>. QED  BY <1>3, <1>13, <1>14, <1>15, <1>16, <1>17

(* Authority only narrows from the package to the request, for every declaration the
   compiler accepts, every ceiling of the host and every profile an operator
   constructs: attempts, waits, pages, bytes and records are within each of them, and
   every page the plan allows still has an attempt. *)
THEOREM AuthorityNarrows == Spec => []AdmittedNeverWidens
<1>1. IInv => AdmittedNeverWidens
  BY AdmissionNarrows
<1>. QED  BY <1>1, Invariance, PTL


-----------------------------------------------------------------------------
(* Mappings and their matches *)

MappingOf(predicate, operation) ==
  CompiledPredicateMapping(predicate.id, predicate.column, Canonical(predicate.literal), operation,
                           predicate.input, predicate.accuracy, predicate.fixtures)

MappingsOf(predicates) ==
  {MappingOf(predicates[at[1]], predicates[at[1]].operations[at[2]]) : at \in Nat \X Nat}

(* A compiled mapping is sent as the text of its literal. *)
LEMMA MappingIs ==
  ASSUME NEW predicate, NEW operation, NEW m, m = MappingOf(predicate, operation)
  PROVE  /\ m.encoded = EncodeCompiledQueryScalar(m.literal)
         /\ m.occurrences \in {"PRESERVES_EXACT", "PRESERVES_ALL"}
         /\ m.occurrences = "PRESERVES_EXACT" => m.accuracy = "EXACT"
         /\ DOMAIN m = {"name", "column", "literal", "operation", "input", "encoded",
                        "accuracy", "fixtures", "occurrences"}
<1>1. PICK name, column, literal, input, accuracy, fixtures, occurrences :
        /\ m = [name |-> name, column |-> column, literal |-> literal, operation |-> operation,
                input |-> input, encoded |-> EncodeCompiledQueryScalar(literal),
                accuracy |-> accuracy, fixtures |-> fixtures, occurrences |-> occurrences]
        /\ occurrences = IF accuracy = "EXACT" THEN "PRESERVES_EXACT" ELSE "PRESERVES_ALL"
  BY DEF MappingOf, CompiledPredicateMapping
<1>2. /\ m.encoded = EncodeCompiledQueryScalar(literal) /\ m.literal = literal
      /\ m.occurrences = occurrences /\ m.accuracy = accuracy
  BY <1>1
<1>3. DOMAIN m = {"name", "column", "literal", "operation", "input", "encoded",
                  "accuracy", "fixtures", "occurrences"}
  BY <1>1
<1>. QED  BY <1>1, <1>2, <1>3

(* The mappings of a relation are a sequence of such. *)
LEMMA MappingsAre ==
  ASSUME NEW r, DeclaredRelation(r)
  PROVE  CompilePredicateMappings(r) \in Seq(MappingsOf(r.predicates))
<1>1. PICK ps, X : ps = r.predicates /\ X = MappingsOf(ps)
  OBVIOUS
<1>2. /\ ps \in Seq(ToSet(ps))
      /\ \A i \in DOMAIN ps : ps[i].operations \in Seq(ToSet(ps[i].operations))
  BY <1>1 DEF DeclaredRelation, IsSequence
<1>3. DOMAIN ps = 1..Len(ps) /\ Len(ps) \in Nat
  BY <1>2
<1>4. PICK parts : parts = [i \in DOMAIN ps |->
                             [j \in DOMAIN ps[i].operations |-> MappingOf(ps[i], ps[i].operations[j])]]
  OBVIOUS
<1>5. CompilePredicateMappings(r) = FlattenSeq(parts)
  BY <1>1, <1>4 DEF CompilePredicateMappings, MappingOf
<1>6. ASSUME NEW i \in 1..Len(ps) PROVE parts[i] \in Seq(X)
  <2>1. PICK os : os = ps[i].operations
    OBVIOUS
  <2>2. os \in Seq(ToSet(os))
    BY <1>2, <1>3, <2>1
  <2>3. DOMAIN os = 1..Len(os) /\ Len(os) \in Nat
    BY <2>2
  <2>4. parts[i] = [j \in 1..Len(os) |-> MappingOf(ps[i], os[j])]
    BY <1>3, <1>4, <2>1, <2>3
  <2>5. ASSUME NEW j \in 1..Len(os) PROVE MappingOf(ps[i], os[j]) \in X
    <3>1. PICK at : at = <<i, j>>
      OBVIOUS
    <3>2. at \in Nat \X Nat /\ at[1] = i /\ at[2] = j
      BY <1>3, <2>3, <3>1
    <3>. QED  BY <1>1, <2>1, <3>2 DEF MappingsOf
  <2>. QED  BY <2>3, <2>4, <2>5
<1>7. parts \in Seq(Seq(X))
  <2>1. parts \in [1..Len(ps) -> Seq(X)]
    BY <1>3, <1>4, <1>6
  <2>. QED  BY <1>3, <2>1
<1>8. Holds(FlattenSeq(parts), X, parts, Len(parts))
  BY <1>7, FlattenHolds
<1>. QED  BY <1>1, <1>5, <1>8 DEF Holds

\* What a relation's mappings are to the classifier.
WellMapped(relation) ==
  /\ \E X : relation.mappings \in Seq(X)
  /\ \A k \in DOMAIN relation.mappings :
       \E predicate, operation : relation.mappings[k] = MappingOf(predicate, operation)
  /\ \A k, l \in DOMAIN relation.mappings :
       relation.mappings[k].operation = relation.mappings[l].operation =>
         /\ relation.mappings[k].input = relation.mappings[l].input
         /\ relation.mappings[k].encoded = relation.mappings[l].encoded => k = l
  /\ \A k, l \in DOMAIN relation.columns :
       relation.columns[k].name = relation.columns[l].name => k = l

(* Two mappings of one operation share its input and differ in the text they send:
   whichever comes first, ValidatePredicateMappings has compared them. *)
LEMMA RelationMapped ==
  ASSUME NEW d, IsCompiled(d), NEW relation, relation = CompilePackageDeclaration(d).relation
  PROVE  WellMapped(relation)
<1>1. CompiledRelation(relation)
  BY ConnectorIs
<1>2. relation.mappings = CompilePredicateMappings(d.relation)
  BY DEF CompilePackageDeclaration
<1>3. PICK ms, X : ms = relation.mappings /\ X = MappingsOf(d.relation.predicates)
  OBVIOUS
<1>4. ms \in Seq(X)
  BY <1>2, <1>3, MappingsAre DEF IsCompiled
<1>5. DOMAIN ms = 1..Len(ms) /\ Len(ms) \in Nat /\ \A k \in 1..Len(ms) : ms[k] \in X
  BY <1>4
<1>6. ASSUME NEW k \in DOMAIN ms
      PROVE  \E predicate, operation : ms[k] = MappingOf(predicate, operation)
  BY <1>3, <1>5 DEF MappingsOf
<1>7. ASSUME NEW k \in DOMAIN ms, NEW l \in DOMAIN ms, k < l, ms[k].operation = ms[l].operation
      PROVE  ms[k].input = ms[l].input /\ ms[k].encoded # ms[l].encoded
  <2>1. ValidatePredicateMappings(relation)
    BY <1>1 DEF CompiledRelation
  <2>. QED  BY <1>3, <1>7, <2>1 DEF ValidatePredicateMappings
<1>8. ASSUME NEW k \in DOMAIN ms, NEW l \in DOMAIN ms, ms[k].operation = ms[l].operation
      PROVE  /\ ms[k].input = ms[l].input
             /\ ms[k].encoded = ms[l].encoded => k = l
  <2>1. CASE k < l
    BY <1>7, <1>8, <2>1
  <2>2. CASE l < k
    BY <1>7, <1>8, <2>2
  <2>3. CASE k = l
    BY <2>3
  <2>. QED  BY <1>5, <2>1, <2>2, <2>3
<1>9. \A k, l \in DOMAIN relation.columns :
        relation.columns[k].name = relation.columns[l].name => k = l
  BY <1>1 DEF CompiledRelation, DistinctBy
<1>10. \E Y : relation.mappings \in Seq(Y)
  BY <1>3, <1>4
<1>11. \A k \in DOMAIN relation.mappings :
         \E predicate, operation : relation.mappings[k] = MappingOf(predicate, operation)
  BY <1>3, <1>6
<1>12. \A k, l \in DOMAIN relation.mappings :
         relation.mappings[k].operation = relation.mappings[l].operation =>
           /\ relation.mappings[k].input = relation.mappings[l].input
           /\ relation.mappings[k].encoded = relation.mappings[l].encoded => k = l
  BY <1>3, <1>8
<1>. QED  BY <1>9, <1>10, <1>11, <1>12 DEF WellMapped


\* A mapping that matches a conjunct.
Match(relation, k, y) == [mapping |-> relation.mappings[k], candidate |-> y]

Matching(relation, operation, y) ==
  {k \in DOMAIN relation.mappings : MappingMatches(relation, operation, relation.mappings[k], y)}

MatchesOf(relation, operation, y) ==
  {Match(relation, k, y) : k \in Matching(relation, operation, y)}

(* The matches of one conjunct are those of the mappings that match it. *)
LEMMA MappedAre ==
  ASSUME NEW relation, NEW X, relation.mappings \in Seq(X), NEW operation, NEW y,
         NEW t, t = MappedComparisons(relation, operation, y)
  PROVE  /\ t \in Seq(MatchesOf(relation, operation, y))
         /\ \A k \in Matching(relation, operation, y) :
              \E n \in 1..Len(t) : t[n] = Match(relation, k, y)
         /\ t # << >> => Matching(relation, operation, y) # {}
<1>1. PICK ms, M, Y : /\ ms = relation.mappings /\ M = Matching(relation, operation, y)
                      /\ Y = MatchesOf(relation, operation, y)
  OBVIOUS
<1>2. DOMAIN ms = 1..Len(ms) /\ Len(ms) \in Nat
  BY <1>1
<1>3. PICK parts : parts = [k \in 1..Len(ms) |-> IF k \in M THEN <<Match(relation, k, y)>> ELSE << >>]
  OBVIOUS
<1>4. t = FlattenSeq(parts)
  <2>1. parts = [k \in DOMAIN relation.mappings |->
                   IF MappingMatches(relation, operation, relation.mappings[k], y)
                   THEN <<[mapping |-> relation.mappings[k], candidate |-> y]>> ELSE << >>]
    BY <1>1, <1>2, <1>3 DEF Matching, Match
  <2>. QED  BY <2>1 DEF MappedComparisons
<1>5. \A k \in M : Match(relation, k, y) \in Y
  BY <1>1 DEF MatchesOf
<1>6. ASSUME NEW k \in 1..Len(ms) PROVE parts[k] \in Seq(Y)
  <2>1. CASE k \in M
    <3>1. PICK z \in Y : z = Match(relation, k, y)
      BY <1>5, <2>1
    <3>2. <<z>> \in Seq(Y)
      OBVIOUS
    <3>. QED  BY <1>3, <2>1, <3>1, <3>2
  <2>2. CASE k \notin M
    <3>1. << >> \in Seq(Y)
      OBVIOUS
    <3>. QED  BY <1>3, <2>2, <3>1
  <2>. QED  BY <2>1, <2>2
<1>7. parts \in Seq(Seq(Y)) /\ Len(parts) = Len(ms)
  <2>1. parts \in [1..Len(ms) -> Seq(Y)]
    BY <1>3, <1>6
  <2>. QED  BY <1>2, <2>1
<1>8. Holds(t, Y, parts, Len(parts))
  BY <1>4, <1>7, FlattenHolds
<1>9. /\ t \in Seq(Y)
      /\ \A k \in 1..Len(ms) : \A j \in 1..Len(parts[k]) : \E n \in 1..Len(t) : t[n] = parts[k][j]
  BY <1>7, <1>8 DEF Holds
<1>10. ASSUME NEW k \in M PROVE \E n \in 1..Len(t) : t[n] = Match(relation, k, y)
  <2>1. k \in 1..Len(ms)
    BY <1>1, <1>2 DEF Matching
  <2>2. parts[k] = <<Match(relation, k, y)>>
    BY <1>3, <2>1
  <2>3. 1 \in 1..Len(parts[k]) /\ parts[k][1] = Match(relation, k, y)
    BY <2>2
  <2>4. \E n \in 1..Len(t) : t[n] = parts[k][1]
    BY <1>9, <2>1, <2>3
  <2>. QED  BY <2>3, <2>4
<1>11. ASSUME t # << >> PROVE M # {}
  <2>1. Len(t) # 0 /\ Len(t) \in Nat
    BY <1>9, <1>11
  <2>2. t[1] \in Y
    BY <1>9, <2>1
  <2>. QED  BY <1>1, <2>2 DEF MatchesOf
<1>. QED  BY <1>1, <1>9, <1>10, <1>11

\* The matches t of conjuncts s: each is one, and each is there.
MatchedBy(relation, operation, s, t) ==
  /\ \E Y : t \in Seq(Y)
  /\ \A n \in 1..Len(t) : \E i \in 1..Len(s) : \E k \in Matching(relation, operation, s[i]) :
       t[n] = Match(relation, k, s[i])
  /\ \A i \in 1..Len(s) : \A k \in Matching(relation, operation, s[i]) :
       \E n \in 1..Len(t) : t[n] = Match(relation, k, s[i])

(* The matches of the conjuncts, together. *)
LEMMA MatchesAre ==
  ASSUME NEW relation, NEW X, relation.mappings \in Seq(X), NEW operation, NEW p,
         NEW S, NEW s, s = Conjuncts(p), s \in Seq(S),
         NEW t, t = ConjunctiveMatches(relation, operation, p)
  PROVE  MatchedBy(relation, operation, s, t)
<1>1. PICK Y : Y = UNION {MatchesOf(relation, operation, s[i]) : i \in 1..Len(s)}
  OBVIOUS
<1>2. DOMAIN s = 1..Len(s) /\ Len(s) \in Nat
  OBVIOUS
<1>3. PICK parts : parts = [i \in 1..Len(s) |-> MappedComparisons(relation, operation, s[i])]
  OBVIOUS
<1>4. t = FlattenSeq(parts)
  BY <1>2, <1>3 DEF ConjunctiveMatches
<1>5. ASSUME NEW i \in 1..Len(s)
      PROVE  /\ parts[i] \in Seq(Y)
             /\ \A k \in Matching(relation, operation, s[i]) :
                  \E n \in 1..Len(parts[i]) : parts[i][n] = Match(relation, k, s[i])
  <2>1. parts[i] = MappedComparisons(relation, operation, s[i])
    BY <1>3
  <2>2. PICK Z : Z = MatchesOf(relation, operation, s[i])
    OBVIOUS
  <2>3. /\ parts[i] \in Seq(Z)
        /\ \A k \in Matching(relation, operation, s[i]) :
             \E n \in 1..Len(parts[i]) : parts[i][n] = Match(relation, k, s[i])
    BY <2>1, <2>2, MappedAre
  <2>4. Z \subseteq Y
    BY <1>1, <2>2
  <2>5. \A x \in Seq(Z) : x \in Seq(Y)
    BY <2>4
  <2>. QED  BY <2>3, <2>5
<1>6. parts \in Seq(Seq(Y)) /\ Len(parts) = Len(s)
  <2>1. parts \in [1..Len(s) -> Seq(Y)]
    BY <1>3, <1>5
  <2>. QED  BY <1>2, <2>1
<1>7. Holds(t, Y, parts, Len(parts))
  BY <1>4, <1>6, FlattenHolds
<1>8. /\ t \in Seq(Y)
      /\ \A i \in 1..Len(s) : \A j \in 1..Len(parts[i]) : \E n \in 1..Len(t) : t[n] = parts[i][j]
  BY <1>6, <1>7 DEF Holds
<1>9. ASSUME NEW n \in 1..Len(t)
      PROVE  \E i \in 1..Len(s) : \E k \in Matching(relation, operation, s[i]) :
               t[n] = Match(relation, k, s[i])
  <2>1. t[n] \in Y
    BY <1>8
  <2>2. PICK i \in 1..Len(s) : t[n] \in MatchesOf(relation, operation, s[i])
    BY <1>1, <2>1
  <2>. QED  BY <2>2 DEF MatchesOf
<1>10. ASSUME NEW i \in 1..Len(s), NEW k \in Matching(relation, operation, s[i])
       PROVE  \E n \in 1..Len(t) : t[n] = Match(relation, k, s[i])
  <2>1. PICK j \in 1..Len(parts[i]) : parts[i][j] = Match(relation, k, s[i])
    BY <1>5
  <2>2. PICK n \in 1..Len(t) : t[n] = parts[i][j]
    BY <1>8
  <2>. QED  BY <2>1, <2>2
<1>. QED  BY <1>8, <1>9, <1>10 DEF MatchedBy

\* The request restricts by the mapping that the conjuncts match.
Chosen(relation, operation, req, d) ==
  LET t == ConjunctiveMatches(relation, operation, req.predicate) IN
  /\ req.predicate.kind \notin {"UNRESTRICTED", "DISJUNCTION", "NEGATION", "UNSUPPORTED"}
  /\ t # << >>
  /\ Len(t) > 1 => AllMatchesEquivalent(t)
  /\ d.equality = PlanTypedEquality(t[1].mapping)
  /\ d.accuracy = "EXACT" => ~ContainsUnmappedStructure(relation, operation, req.predicate)

(* A fallback restricts nothing. *)
LEMMA FallbackIs ==
  ASSUME NEW relation, NEW operation, NEW req, NEW category, NEW reason
  PROVE  FallbackDecision(relation, operation, req, category, reason).conditional = "NONE"
<1>1. PICK residual, equality :
        FallbackDecision(relation, operation, req, category, reason) =
          [remote |-> "TRUE_FOR_BASE_DOMAIN", accuracy |-> "UNSUPPORTED", residual |-> residual,
           conditional |-> "NONE", equality |-> equality, category |-> category, reason |-> reason]
  BY DEF FallbackDecision
<1>2. PICK decision : decision = FallbackDecision(relation, operation, req, category, reason)
  OBVIOUS
<1>3. decision.conditional = "NONE"
  BY <1>1, <1>2
<1>. QED  BY <1>2, <1>3

(* The classifier restricts by a mapping, or falls back. *)
LEMMA ClassifiedIs ==
  ASSUME NEW relation, NEW operation, NEW req,
         NEW d, d = Classify(relation, operation, req), d.conditional # "NONE"
  PROVE  Chosen(relation, operation, req, d)
<1>1. PICK p, t, unmapped :
        /\ p = req.predicate /\ t = ConjunctiveMatches(relation, operation, p)
        /\ unmapped <=> ContainsUnmappedStructure(relation, operation, p)
  OBVIOUS
<1>2. ~ \E category, reason : d = FallbackDecision(relation, operation, req, category, reason)
  BY FallbackIs
<1>3. PICK accuracy, residual :
        /\ p.kind \notin {"UNRESTRICTED", "DISJUNCTION", "NEGATION", "UNSUPPORTED"}
        /\ t # << >> /\ ~(Len(t) > 1 /\ ~AllMatchesEquivalent(t))
        /\ accuracy = "EXACT" => ~unmapped
        /\ d = [remote |-> "TYPED_EQUALITY", accuracy |-> accuracy, residual |-> residual,
                conditional |-> "REST_QUERY_BINDING",
                equality |-> PlanTypedEquality(t[1].mapping), category |-> accuracy,
                reason |-> "SELECTED_MAPPING"]
  BY <1>1, <1>2, Zenon DEF Classify
<1>4. d.accuracy = accuracy /\ d.equality = PlanTypedEquality(t[1].mapping)
  BY <1>3
<1>. QED  BY <1>1, <1>3, <1>4 DEF Chosen


-----------------------------------------------------------------------------
(* What a restriction keeps *)

\* The rows in which a relation's column has a mapping's literal.
Satisfying(relation, row, m) ==
  \E c \in DOMAIN relation.columns : relation.columns[c].name = m.column /\ row[c] = m.literal

(* A mapping that matches a comparison holds in the rows the comparison holds in. *)
LEMMA MatchMeans ==
  ASSUME NEW relation, WellMapped(relation), NEW operation, NEW m, NEW y,
         MappingMatches(relation, operation, m, y), y.column \in DOMAIN relation.columns
  PROVE  /\ m.operation = operation.name /\ y.kind = "COMPARISON"
         /\ \A row : Satisfying(relation, row, m) <=> Equals(row, y)
<1>1. /\ m.operation = operation.name /\ y.kind = "COMPARISON" /\ m.literal = y.literal
      /\ relation.columns[y.column].name = m.column
  BY DEF MappingMatches
<1>2. \A k, l \in DOMAIN relation.columns :
        relation.columns[k].name = relation.columns[l].name => k = l
  BY DEF WellMapped
<1>. QED  BY <1>1, <1>2 DEF Satisfying, Equals

\* A plan restricts by mapping k of the relation: the rows the filters keep are in it,
\* and are all of it when the restriction is exact.
Restricts(relation, operation, fs, d, k) ==
  /\ k \in DOMAIN relation.mappings
  /\ relation.mappings[k].operation = operation.name
  /\ d.equality = PlanTypedEquality(relation.mappings[k])
  /\ \A row : /\ Keeps(fs, row) => Satisfying(relation, row, relation.mappings[k])
              /\ d.accuracy = "EXACT" =>
                   (Satisfying(relation, row, relation.mappings[k]) => Keeps(fs, row))

(* The mapping the classifier restricts by: any row the filters keep satisfies each
   conjunct; an exact restriction has no other conjunct, so that a row that satisfies
   it is kept. *)
LEMMA RestrictionMeans ==
  ASSUME NEW relation, WellMapped(relation), NEW types, DOMAIN types = DOMAIN relation.columns,
         NEW fs \in Seq(Expressions), NEW operation, NEW req,
         req.predicate = TranslateComplexFilters(types, fs).candidate,
         NEW d, Chosen(relation, operation, req, d)
  PROVE  \E k : Restricts(relation, operation, fs, d, k)
<1>1. PICK T, p, s, t : /\ T = TranslateExpression(types) /\ p = req.predicate
                        /\ s = Conjuncts(p) /\ t = ConjunctiveMatches(relation, operation, p)
  OBVIOUS
<1>2. Top(T, fs, p)
  BY <1>1, TopIs
<1>3. p.depth \in Nat \ {0}
  BY <1>1, CandidateIsNode DEF Node
<1>4. s \in Seq(AllCandidates(T) \cup {p}) /\ Compared(types, s)
  BY <1>1, <1>2, <1>3, ConjunctsAre
<1>5. PICK X : relation.mappings \in Seq(X)
  BY DEF WellMapped
<1>6. /\ \E Y : t \in Seq(Y)
      /\ \A n \in 1..Len(t) : \E i \in 1..Len(s) : \E k \in Matching(relation, operation, s[i]) :
           t[n] = Match(relation, k, s[i])
      /\ \A i \in 1..Len(s) : \A k \in Matching(relation, operation, s[i]) :
           \E n \in 1..Len(t) : t[n] = Match(relation, k, s[i])
  <2>1. PICK S : S = AllCandidates(T) \cup {p}
    OBVIOUS
  <2>2. MatchedBy(relation, operation, s, t)
    BY <1>1, <1>4, <1>5, <2>1, MatchesAre, Zenon
  <2>. QED  BY <2>2 DEF MatchedBy
<1>7. /\ p.kind \notin {"UNRESTRICTED", "DISJUNCTION", "NEGATION", "UNSUPPORTED"}
      /\ t # << >> /\ (Len(t) > 1 => AllMatchesEquivalent(t))
      /\ d.equality = PlanTypedEquality(t[1].mapping)
      /\ d.accuracy = "EXACT" => ~ContainsUnmappedStructure(relation, operation, p)
  BY <1>1 DEF Chosen
<1>8. Len(t) \in Nat /\ Len(t) # 0 /\ 1 \in 1..Len(t) /\ DOMAIN t = 1..Len(t)
  BY <1>6, <1>7
<1>9. PICK i0 \in 1..Len(s) : \E k \in Matching(relation, operation, s[i0]) :
        t[1] = Match(relation, k, s[i0])
  BY <1>6, <1>8
<1>10. PICK k0 \in Matching(relation, operation, s[i0]) : t[1] = Match(relation, k0, s[i0])
  BY <1>9
<1>11. PICK m0, y0 : m0 = relation.mappings[k0] /\ y0 = s[i0]
  OBVIOUS
<1>12. t[1].mapping = m0 /\ t[1].candidate = y0
  BY <1>10, <1>11 DEF Match
<1>13. k0 \in DOMAIN relation.mappings /\ MappingMatches(relation, operation, m0, y0)
  BY <1>10, <1>11 DEF Matching
<1>14. y0.kind = "COMPARISON" /\ y0.column \in DOMAIN relation.columns
  <2>1. y0.kind = "COMPARISON"
    BY <1>13 DEF MappingMatches
  <2>. QED  BY <1>4, <1>11, <2>1 DEF Compared
<1>15. /\ m0.operation = operation.name
       /\ \A row : Satisfying(relation, row, m0) <=> Equals(row, y0)
  BY <1>13, <1>14, MatchMeans
<1>16. ASSUME NEW row, Keeps(fs, row) PROVE Satisfying(relation, row, m0)
  <2>1. \A i \in 1..Len(s) : s[i].kind = "COMPARISON" => Equals(row, s[i])
    BY <1>1, <1>2, <1>3, <1>16, ConjunctsHold
  <2>2. Equals(row, y0)
    BY <1>11, <1>14, <2>1
  <2>. QED  BY <1>15, <2>2
<1>17. ASSUME NEW row, d.accuracy = "EXACT", Satisfying(relation, row, m0) PROVE Keeps(fs, row)
  <2>1. Equals(row, y0)
    BY <1>15, <1>17
  <2>2. ASSUME NEW i \in 1..Len(s) PROVE s[i].kind = "COMPARISON" /\ Equals(row, s[i])
    <3>1. s[i] \in ToSet(s) /\ s[i] \in AllCandidates(T) \cup {p}
      BY <1>4 DEF ToSet
    <3>2. s[i].kind # "UNRESTRICTED"
      <4>1. CASE s[i] = p
        BY <1>7, <4>1
      <4>2. CASE s[i] \in AllCandidates(T)
        <5>1. PICK z \in Expressions : From(T, s[i], z)
          BY <4>2, CandidateFrom
        <5>2. Origin(T, types, s[i], z)
          BY <1>1, <5>1, OriginIs
        <5>. QED  BY <5>2 DEF Origin
      <4>. QED  BY <3>1, <4>1, <4>2
    <3>3. /\ s[i].kind = "COMPARISON"
          /\ MappedComparisons(relation, operation, s[i]) # << >>
      BY <1>1, <1>7, <1>17, <3>1, <3>2, Zenon DEF ContainsUnmappedStructure
    <3>4. Matching(relation, operation, s[i]) # {}
      BY <1>5, <3>3, MappedAre
    <3>5. PICK k \in Matching(relation, operation, s[i]) : TRUE
      BY <3>4
    <3>6. PICK n \in 1..Len(t) : t[n] = Match(relation, k, s[i])
      BY <1>6
    <3>7. t[n].candidate = s[i]
      BY <3>6 DEF Match
    <3>8. t[n].candidate = t[1].candidate
      <4>1. CASE n = 1
        BY <4>1
      <4>2. CASE n # 1
        <5>1. Len(t) > 1
          BY <1>8, <4>2
        <5>2. AllMatchesEquivalent(t)
          BY <1>7, <5>1
        <5>3. SameMappingAndBinding(t[1], t[n])
          BY <1>8, <5>2 DEF AllMatchesEquivalent
        <5>. QED  BY <5>3 DEF SameMappingAndBinding
      <4>. QED  BY <4>1, <4>2
    <3>. QED  BY <1>12, <2>1, <3>3, <3>7, <3>8
  <2>. QED  BY <1>1, <1>2, <1>3, <1>7, <2>2, ConjunctsSuffice
<1>18. d.equality = PlanTypedEquality(relation.mappings[k0])
  BY <1>7, <1>11, <1>12
<1>19. Restricts(relation, operation, fs, d, k0)
  BY <1>11, <1>13, <1>15, <1>16, <1>17, <1>18 DEF Restricts
<1>. QED  BY <1>19


-----------------------------------------------------------------------------
(* What is sent *)

\* A conditional field of a request carries the plan's equality.
CarriesEquality(p, field) ==
  /\ p.decision.conditional # "NONE"
  /\ field.id = p.decision.equality.input
  /\ field.encoded = EncodeCompiledQueryScalar(p.decision.equality.literal)

(* A plan that is admitted and not for REST is for GraphQL; the other two admissions
   have materialised the query. *)
LEMMA QueryAdmitted ==
  ASSUME NEW p, NEW f, TryAdmitPlan(p, f) # REFUSED, p.operation.protocol = "REST"
  PROVE  /\ TryCopyPermanentQuery(p.query, RestConditionalBindingAuthority(p))
         /\ TryAdmitRestRelationalEnvelope(p)
         /\ p.paginated => HasPageBindings(p)
<1>1. \/ HasSingleResponseShape(p, f)
      \/ p.paginated /\ HasPaginatedShape(p, f)
      \/ IsGraphqlAdmissible(p, f)
  BY AdmittedIs
<1>2. ~IsGraphqlAdmissible(p, f)
  BY DEF IsGraphqlAdmissible
<1>3. HasCommonRestPlan(p, f)
  BY <1>1, <1>2, Zenon DEF HasSingleResponseShape, HasPaginatedShape
<1>4. p.paginated => HasPageBindings(p)
  BY <1>1, <1>2, Zenon DEF HasSingleResponseShape, HasPaginatedShape, HasSupportedRestPagination
<1>5. TryMaterializeRestRequest(p) /\ TryAdmitRestRelationalEnvelope(p)
  BY <1>3, Zenon DEF HasCommonRestPlan
<1>6. TryCopyPermanentQuery(p.query, RestConditionalBindingAuthority(p))
  BY <1>5, Zenon DEF TryMaterializeRestRequest
<1>. QED  BY <1>4, <1>5, <1>6

\* The fields of a query have their sources.
Sourced(query) == \A j \in DOMAIN query : "source" \in DOMAIN query[j]

\* A conditional field of query q is that of query r.
KeepsField(q, r, i) == q[i].source = "CONDITIONAL_INPUT" => i \in DOMAIN r /\ q[i] = r[i]

\* A field of the request of a page.
PageField(field, name, page) ==
  IF field.name = name
  THEN [field EXCEPT !.scalar = Scalar("BIGINT", ToString(page)),
                     !.encoded = [form |-> ToString(page)]]
  ELSE field

(* Paging leaves the conditional field alone: the page number has a name of its own. *)
LEMMA PagingKeeps ==
  ASSUME NEW p, NEW conditional, TryCopyPermanentQuery(p.query, conditional), HasPageBindings(p),
         Sourced(p.query),
         NEW page, BuildAdmittedPageRequest(p, page) # REFUSED,
         NEW q, q = BuildAdmittedPageRequest(p, page).query,
         NEW i \in DOMAIN q
  PROVE  KeepsField(q, p.query, i)
<1>. SUFFICES ASSUME q[i].source = "CONDITIONAL_INPUT"
              PROVE  i \in DOMAIN p.query /\ q[i] = p.query[i]
  BY DEF KeepsField
<1>1. PICK name, fields : name = p.operation.pagination.numberParam /\ fields = p.query
  OBVIOUS
<1>2. q = [j \in DOMAIN fields |-> PageField(fields[j], name, page)]
  <2>1. PICK paged : paged = [j \in DOMAIN fields |-> PageField(fields[j], name, page)]
    OBVIOUS
  <2>2. BuildAdmittedPageRequest(p, page) = [query |-> paged]
    BY <1>1, <2>1, Zenon DEF BuildAdmittedPageRequest, PageField
  <2>3. q = paged
    BY <2>2
  <2>. QED  BY <2>1, <2>3
<1>3. i \in DOMAIN fields /\ q[i] = PageField(fields[i], name, page)
  BY <1>2
<1>4. \A j, k \in DOMAIN fields : fields[j].name = fields[k].name => j = k
  BY <1>1 DEF TryCopyPermanentQuery, DistinctBy
<1>5. PICK pages : pages = {j \in DOMAIN fields : fields[j].source = "PAGE_NUMBER"}
  OBVIOUS
<1>6. Cardinality(pages) = 1 /\ \A j \in pages : fields[j].name = name
  BY <1>1, <1>5 DEF HasPageBindings, IndexesOf
<1>7. PICK j \in pages : TRUE
  BY <1>6, FS_EmptySet
<1>8. j \in DOMAIN fields /\ fields[j].source = "PAGE_NUMBER" /\ fields[j].name = name
  BY <1>5, <1>6, <1>7
<1>9. CASE fields[i].name = name
  <2>1. i = j
    BY <1>3, <1>4, <1>8, <1>9
  <2>2. PICK field, scalar, form : field = fields[i] /\ scalar = Scalar("BIGINT", ToString(page))
                                   /\ form = [form |-> ToString(page)]
    OBVIOUS
  <2>3. q[i] = [field EXCEPT !.scalar = scalar, !.encoded = form]
    BY <1>3, <1>9, <2>2 DEF PageField
  <2>4. "source" \in DOMAIN field
    BY <1>1, <1>3, <2>2 DEF Sourced
  <2>5. q[i].source = field.source
    BY <2>3, <2>4
  <2>. QED  BY <1>8, <2>1, <2>2, <2>5
<1>10. CASE fields[i].name # name
  BY <1>1, <1>3, <1>10 DEF PageField
<1>. QED  BY <1>9, <1>10

(* A conditional field is sent only with the plan's equality, on every page. *)
LEMMA ConditionalSent ==
  ASSUME NEW p, NEW f, TryAdmitPlan(p, f) # REFUSED,
         p.operation.protocol # "REST" => p.query = << >>,
         Sourced(p.query),
         NEW q, IsSent(p, q), NEW i \in DOMAIN q, q[i].source = "CONDITIONAL_INPUT"
  PROVE  CarriesEquality(p, q[i])
<1>1. q # << >>
  OBVIOUS
<1>2. p.operation.protocol = "REST"
  BY <1>1 DEF IsSent
<1>3. PICK authority : authority = RestConditionalBindingAuthority(p)
  OBVIOUS
<1>4. TryCopyPermanentQuery(p.query, authority) /\ (p.paginated => HasPageBindings(p))
  BY <1>2, <1>3, QueryAdmitted
<1>5. i \in DOMAIN p.query /\ q[i] = p.query[i]
  <2>1. CASE q = p.query
    BY <2>1
  <2>2. CASE \E page : /\ p.paginated /\ BuildAdmittedPageRequest(p, page) # REFUSED
                       /\ q = BuildAdmittedPageRequest(p, page).query
    <3>1. PICK page : /\ p.paginated /\ BuildAdmittedPageRequest(p, page) # REFUSED
                      /\ q = BuildAdmittedPageRequest(p, page).query
      BY <2>2
    <3>2. HasPageBindings(p)
      BY <1>4, <3>1
    <3>3. KeepsField(q, p.query, i)
      BY <1>4, <3>1, <3>2, PagingKeeps, Zenon
    <3>. QED  BY <3>3 DEF KeepsField
  <2>. QED  BY <1>1, <2>1, <2>2 DEF IsSent
<1>6. HasCanonicalBinding(q[i], authority)
  BY <1>4, <1>5 DEF TryCopyPermanentQuery
<1>7. PICK field : field = q[i]
  OBVIOUS
<1>8. /\ field.encoded = EncodeCompiledQueryScalar(field.scalar) /\ authority.enabled
      /\ field.id = authority.id /\ field.scalar = authority.scalar
  BY <1>6, <1>7 DEF HasCanonicalBinding
<1>9. p.decision.conditional # "NONE"
  <2>1. SUFFICES ASSUME p.decision.conditional = "NONE" PROVE ~authority.enabled
    BY <1>8
  <2>2. authority = NoConditional
    BY <1>3, <2>1 DEF RestConditionalBindingAuthority
  <2>3. authority.enabled = FALSE
    BY <2>2, Zenon DEF NoConditional
  <2>. QED  BY <2>3
<1>10. authority = [enabled |-> TRUE, id |-> p.decision.equality.input,
                    scalar |-> p.decision.equality.literal]
  BY <1>3, <1>9 DEF RestConditionalBindingAuthority
<1>11. authority.id = p.decision.equality.input /\ authority.scalar = p.decision.equality.literal
  BY <1>10
<1>. QED  BY <1>7, <1>8, <1>9, <1>11 DEF CarriesEquality


\* The fields of an operation that a request has, and their bindings.
BoundFields(operation, inputs, d) ==
  {QueryBinding(operation.query[i], inputs, d) :
     i \in {i \in DOMAIN operation.query : Emitted(operation.query[i], inputs, d)}}

\* A query has those fields and no other.
IsQueryOf(query, operation, inputs, d) ==
  /\ query \in Seq(BoundFields(operation, inputs, d))
  /\ \A i \in DOMAIN operation.query :
       Emitted(operation.query[i], inputs, d) =>
         \E n \in DOMAIN query : query[n] = QueryBinding(operation.query[i], inputs, d)

(* A REST request has the fields that are emitted. *)
LEMMA RestQueryIs ==
  ASSUME NEW operation, NEW inputs, NEW d, NEW m \in Nat, DOMAIN operation.query = 1..m,
         NEW r, r = BuildRestOperation(operation, inputs, d), r # REFUSED
  PROVE  IsQueryOf(r.query, operation, inputs, d)
<1>1. PICK fs, X : fs = operation.query /\ X = BoundFields(operation, inputs, d)
  OBVIOUS
<1>2. PICK parts : parts = [i \in 1..m |-> IF Emitted(fs[i], inputs, d)
                                          THEN <<QueryBinding(fs[i], inputs, d)>> ELSE << >>]
  OBVIOUS
<1>3. r.query = FlattenSeq(parts)
  <2>1. r = [query |-> FlattenSeq([i \in DOMAIN fs |->
                         IF Emitted(fs[i], inputs, d)
                         THEN <<QueryBinding(fs[i], inputs, d)>> ELSE << >>])]
    BY <1>1, Zenon DEF BuildRestOperation
  <2>2. parts = [i \in DOMAIN fs |-> IF Emitted(fs[i], inputs, d)
                                    THEN <<QueryBinding(fs[i], inputs, d)>> ELSE << >>]
    BY <1>1, <1>2
  <2>3. PICK flat : flat = FlattenSeq(parts)
    OBVIOUS
  <2>4. r = [query |-> flat]
    BY <2>1, <2>2, <2>3, Zenon
  <2>. QED  BY <2>3, <2>4
<1>4. ASSUME NEW i \in 1..m, Emitted(fs[i], inputs, d) PROVE QueryBinding(fs[i], inputs, d) \in X
  BY <1>1, <1>4 DEF BoundFields
<1>5. ASSUME NEW i \in 1..m PROVE parts[i] \in Seq(X)
  <2>1. CASE Emitted(fs[i], inputs, d)
    <3>1. PICK z \in X : z = QueryBinding(fs[i], inputs, d)
      BY <1>4, <2>1
    <3>2. <<z>> \in Seq(X)
      OBVIOUS
    <3>. QED  BY <1>2, <2>1, <3>1, <3>2
  <2>2. CASE ~Emitted(fs[i], inputs, d)
    <3>1. << >> \in Seq(X)
      OBVIOUS
    <3>. QED  BY <1>2, <2>2, <3>1
  <2>. QED  BY <2>1, <2>2
<1>6. parts \in Seq(Seq(X)) /\ Len(parts) = m
  <2>1. parts \in [1..m -> Seq(X)]
    BY <1>2, <1>5
  <2>. QED  BY <2>1
<1>7. PICK q : q = r.query
  OBVIOUS
<1>8. Holds(q, X, parts, Len(parts))
  BY <1>3, <1>6, <1>7, FlattenHolds
<1>9. /\ q \in Seq(X)
      /\ \A i \in 1..m : \A j \in 1..Len(parts[i]) : \E n \in 1..Len(q) : q[n] = parts[i][j]
  BY <1>6, <1>8 DEF Holds
<1>10. ASSUME NEW i \in 1..m, Emitted(fs[i], inputs, d)
       PROVE  \E n \in DOMAIN q : q[n] = QueryBinding(fs[i], inputs, d)
  <2>1. parts[i] = <<QueryBinding(fs[i], inputs, d)>>
    BY <1>2, <1>10
  <2>2. 1 \in 1..Len(parts[i]) /\ parts[i][1] = QueryBinding(fs[i], inputs, d)
    BY <2>1
  <2>3. \E n \in 1..Len(q) : q[n] = parts[i][1]
    BY <1>9, <2>2
  <2>4. DOMAIN q = 1..Len(q)
    BY <1>9
  <2>. QED  BY <2>2, <2>3, <2>4
<1>. QED  BY <1>1, <1>7, <1>9, <1>10 DEF IsQueryOf

(* The source and the id of a binding are its field's. *)
LEMMA BindingIs ==
  ASSUME NEW field, NEW inputs, NEW d, NEW b, b = QueryBinding(field, inputs, d)
  PROVE  b.source = field.source /\ b.id = field.id /\ "source" \in DOMAIN b
<1>1. PICK scalar : b = [name |-> field.name, source |-> field.source, id |-> field.id,
                         scalar |-> scalar, encoded |-> EncodeCompiledQueryScalar(scalar)]
  BY DEF QueryBinding
<1>. QED  BY <1>1

(* The query of a compiled operation is a sequence, and empty for GraphQL. *)
LEMMA CompiledQueryIs ==
  ASSUME NEW r, DeclaredRelation(r), NEW i \in DOMAIN r.operations,
         NEW o, o = CompileOperation(r, r.operations[i])
  PROVE  /\ \E m \in Nat : DOMAIN o.query = 1..m
         /\ o.protocol # "REST" => o.query = << >>
         /\ o.protocol = r.operations[i].protocol /\ o.name = r.operations[i].id
         /\ o.references = {r.operations[i].when[j] : j \in DOMAIN r.operations[i].when}
<1>1. PICK x : x = r.operations[i]
  OBVIOUS
<1>2. x.query \in Seq(ToSet(x.query))
  BY <1>1 DEF DeclaredRelation, DeclaredOperation, IsSequence
<1>3. PICK query : query = IF x.protocol = "REST"
                           THEN [j \in DOMAIN x.query |-> CompileQueryField(x.query[j], x.pagination)]
                           ELSE << >>
  OBVIOUS
<1>4. /\ o.query = query /\ o.protocol = x.protocol /\ o.name = x.id
      /\ o.references = {x.when[j] : j \in DOMAIN x.when}
  BY <1>1, <1>3 DEF CompileOperation
<1>5. \E m \in Nat : DOMAIN query = 1..m
  <2>1. CASE x.protocol = "REST"
    <3>1. DOMAIN query = DOMAIN x.query
      BY <1>3, <2>1
    <3>2. DOMAIN x.query = 1..Len(x.query) /\ Len(x.query) \in Nat
      BY <1>2
    <3>. QED  BY <3>1, <3>2
  <2>2. CASE x.protocol # "REST"
    <3>1. query = << >> /\ DOMAIN query = 1..0
      BY <1>3, <2>2
    <3>. QED  BY <3>1
  <2>. QED  BY <2>1, <2>2
<1>6. x.protocol # "REST" => query = << >>
  BY <1>3
<1>. QED  BY <1>1, <1>4, <1>5, <1>6

\* A plan that runs: the operation it is for, the decision on its filters and its query.
PlanRuns(connector, o, d) ==
  /\ plan.operation = o /\ plan.decision = d /\ d = Classify(connector.relation, o, request)
  /\ o.protocol = "REST" => IsQueryOf(plan.query, o, InputsOf(connector, request), d)
  /\ o.protocol # "REST" => plan.query = << >> /\ o.query = << >>
  /\ Selected(plan, connector, request, o)
  /\ ValidatePredicateMaterialization(plan)

(* What the invariant says of it. *)
LEMMA PlanRunsIs ==
  ASSUME IInv, phase = "RUNNING", NEW connector, connector = Connector
  PROVE  \E i \in DOMAIN package.relation.operations : \E o, d :
           /\ o = CompileOperation(package.relation, package.relation.operations[i])
           /\ PlanRuns(connector, o, d)
<1>2. /\ IsCompiled(package) /\ IsPlan(plan) /\ plan = BuildScanPlan(Connector, request)
  BY RunningIs
<1>4. /\ DOMAIN connector.relation.operations = DOMAIN package.relation.operations
      /\ \A i \in DOMAIN package.relation.operations :
           connector.relation.operations[i] =
             CompileOperation(package.relation, package.relation.operations[i])
  BY <1>2, ConnectorIs DEF Connector
<1>5. PICK i \in DOMAIN connector.relation.operations :
        Selected(plan, connector, request, connector.relation.operations[i])
  BY <1>2, PlanIs
<1>6. PICK o, d : /\ o = connector.relation.operations[i]
                  /\ d = Classify(connector.relation, o, request)
  OBVIOUS
<1>7. plan = PlanSelected(connector, request, o, d) /\ Selected(plan, connector, request, o)
  BY <1>5, <1>6 DEF Selected
<1>8. /\ PlanFields(plan, connector, request, o, d)
      /\ PlanChecks(plan, connector, request, o, d)
  BY <1>2, <1>7, PlanSelectedIs
<1>9. PICK rest : rest = PlannedRequest(connector, request, o, d)
  OBVIOUS
<1>10. /\ plan.operation = o /\ plan.decision = d /\ plan.query = rest.query
  BY <1>8, <1>9 DEF PlanFields
<1>11. rest # REFUSED /\ ValidatePredicateMaterialization(plan)
  BY <1>8, <1>9 DEF PlanChecks
<1>12. /\ \E m \in Nat : DOMAIN o.query = 1..m
       /\ o.protocol # "REST" => o.query = << >>
  <2>1. DeclaredRelation(package.relation)
    BY <1>2 DEF IsCompiled
  <2>2. i \in DOMAIN package.relation.operations
    BY <1>4
  <2>3. o = CompileOperation(package.relation, package.relation.operations[i])
    BY <1>4, <1>6, <2>2
  <2>. QED  BY <2>1, <2>2, <2>3, CompiledQueryIs
<1>13. CASE o.protocol = "REST"
  <2>1. rest = BuildRestOperation(o, InputsOf(connector, request), d)
    BY <1>9, <1>13 DEF PlannedRequest, InputsOf
  <2>2. IsQueryOf(rest.query, o, InputsOf(connector, request), d)
    BY <1>11, <1>12, <2>1, RestQueryIs
  <2>. QED  BY <1>4, <1>6, <1>7, <1>10, <1>11, <1>13, <2>2 DEF PlanRuns
<1>14. CASE o.protocol # "REST"
  <2>1. rest = [query |-> << >>]
    BY <1>9, <1>14 DEF PlannedRequest
  <2>2. rest.query = << >>
    BY <2>1
  <2>. QED  BY <1>4, <1>6, <1>7, <1>10, <1>11, <1>12, <1>14, <2>2 DEF PlanRuns
<1>. QED  BY <1>13, <1>14


(* A mapping's equality: its input and literal. *)
LEMMA EqualityIs ==
  ASSUME NEW m, NEW e, e = PlanTypedEquality(m)
  PROVE  e.input = m.input /\ e.literal = m.literal
BY DEF PlanTypedEquality

(* The columns of DuckDB are the relation's. *)
LEMMA TypesAre == DOMAIN ColumnTypes = DOMAIN Connector.relation.columns
BY DEF ColumnTypes

\* The mappings of the plan's operation that a field may stand for.
MappedTo(relation, field) ==
  {relation.mappings[k] : k \in {k \in DOMAIN relation.mappings :
                                  /\ relation.mappings[k].operation = plan.operation.name
                                  /\ relation.mappings[k].input = field.id
                                  /\ relation.mappings[k].encoded = field.encoded}}

\* The rows the filters keep satisfy them, and are all that do if the plan is exact.
KeptBy(relation, mapped) ==
  /\ mapped # {}
  /\ \A row \in Rows : \A m \in mapped :
       /\ Keeps(filters, row) => Satisfying(relation, row, m)
       /\ plan.decision.accuracy = "EXACT" =>
            (Satisfying(relation, row, m) <=> Keeps(filters, row))

(* Pushdown is sound, whatever the filters, the mappings and the rows. *)
LEMMA PushdownIsSound ==
  ASSUME IInv
  PROVE  PushdownSound
<1>. SUFFICES ASSUME NEW i \in DOMAIN sent, sent[i].source = "CONDITIONAL_INPUT"
              PROVE  KeptBy(Connector.relation, MappedTo(Connector.relation, sent[i]))
  BY Zenon DEF PushdownSound, IndexesOf, Satisfying, KeptBy, MappedTo
<1>1. PICK relation, mapped : /\ relation = Connector.relation
                              /\ mapped = MappedTo(Connector.relation, sent[i])
  OBVIOUS
<1>2. phase = "RUNNING"
  BY DEF IInv, SentPart
<1>3. /\ IsCompiled(package) /\ admitted = TryAdmitPlan(plan, profile) /\ admitted # REFUSED
      /\ filters \in Seq(Expressions)
      /\ request.predicate = TranslateComplexFilters(ColumnTypes, filters).candidate
      /\ IsSent(plan, sent)
  BY <1>2, RunningIs
<1>4. PICK connector : connector = Connector
  OBVIOUS
<1>5. PICK j \in DOMAIN package.relation.operations : \E o, d :
        /\ o = CompileOperation(package.relation, package.relation.operations[j])
        /\ PlanRuns(connector, o, d)
  BY <1>2, <1>4, PlanRunsIs
<1>6. PICK o, d : PlanRuns(connector, o, d)
  BY <1>5
<1>7. plan.operation = o /\ plan.decision = d /\ d = Classify(relation, o, request)
  BY <1>1, <1>4, <1>6 DEF PlanRuns
<1>8. Sourced(plan.query) /\ (o.protocol # "REST" => plan.query = << >>)
  <2>1. CASE o.protocol = "REST"
    <3>1. PICK X : X = BoundFields(o, InputsOf(connector, request), d)
      OBVIOUS
    <3>2. plan.query \in Seq(X)
      BY <1>6, <2>1, <3>1 DEF PlanRuns, IsQueryOf
    <3>3. \A b \in X : "source" \in DOMAIN b
      BY <3>1, BindingIs DEF BoundFields
    <3>4. \A n \in DOMAIN plan.query : plan.query[n] \in X
      BY <3>2
    <3>. QED  BY <2>1, <3>3, <3>4 DEF Sourced
  <2>2. CASE o.protocol # "REST"
    <3>1. plan.query = << >>
      BY <1>6, <2>2 DEF PlanRuns
    <3>2. DOMAIN plan.query = {}
      BY <3>1
    <3>. QED  BY <3>1, <3>2 DEF Sourced
  <2>. QED  BY <2>1, <2>2
<1>9. CarriesEquality(plan, sent[i])
  BY <1>1, <1>3, <1>7, <1>8, ConditionalSent
<1>10. d.conditional # "NONE"
  BY <1>7, <1>9 DEF CarriesEquality
<1>11. Chosen(relation, o, request, d)
  BY <1>7, <1>10, ClassifiedIs
<1>12. WellMapped(relation)
  BY <1>1, <1>3, RelationMapped DEF Connector
<1>13. PICK k0 : Restricts(relation, o, filters, d, k0)
  <2>1. PICK types : types = ColumnTypes
    OBVIOUS
  <2>2. DOMAIN types = DOMAIN relation.columns
    BY <1>1, <2>1, TypesAre
  <2>. QED  BY <1>3, <1>11, <1>12, <2>1, <2>2, RestrictionMeans
<1>14. PICK m0 : m0 = relation.mappings[k0]
  OBVIOUS
<1>15. /\ k0 \in DOMAIN relation.mappings /\ m0.operation = o.name
       /\ d.equality = PlanTypedEquality(m0)
       /\ \A row : /\ Keeps(filters, row) => Satisfying(relation, row, m0)
                   /\ d.accuracy = "EXACT" => (Satisfying(relation, row, m0) => Keeps(filters, row))
  BY <1>13, <1>14 DEF Restricts
<1>16. m0.encoded = EncodeCompiledQueryScalar(m0.literal)
  BY <1>12, <1>14, <1>15, MappingIs DEF WellMapped
<1>17. sent[i].id = m0.input /\ sent[i].encoded = m0.encoded
  BY <1>7, <1>9, <1>15, <1>16, EqualityIs DEF CarriesEquality
<1>18. m0 \in mapped
  BY <1>1, <1>7, <1>14, <1>15, <1>17 DEF MappedTo
<1>19. ASSUME NEW m \in mapped PROVE m = m0
  <2>1. PICK k \in DOMAIN relation.mappings :
          /\ m = relation.mappings[k] /\ m.operation = o.name /\ m.encoded = sent[i].encoded
    BY <1>1, <1>7 DEF MappedTo
  <2>2. \A a, b \in DOMAIN relation.mappings :
          relation.mappings[a].operation = relation.mappings[b].operation =>
            (relation.mappings[a].encoded = relation.mappings[b].encoded => a = b)
    BY <1>12 DEF WellMapped
  <2>3. k = k0
    BY <1>14, <1>15, <1>17, <2>1, <2>2
  <2>. QED  BY <1>14, <2>1, <2>3
<1>20. \A row \in Rows : \A m \in mapped :
         /\ Keeps(filters, row) => Satisfying(relation, row, m)
         /\ d.accuracy = "EXACT" => (Satisfying(relation, row, m) <=> Keeps(filters, row))
  BY <1>15, <1>19
<1>. QED  BY <1>1, <1>7, <1>18, <1>20 DEF KeptBy

(* Pushdown is sound: a request that carries a conditional value returns every row
   that DuckDB's filters keep, and when the plan claims an exact restriction exactly
   those.  This holds for every package the compiler accepts, every filter DuckDB
   offers in any number of callbacks, every operator profile and every row: it rests
   on the translation of the filters, the walk over positive conjuncts, the mappings'
   distinct texts and the fields a page may rewrite. *)
THEOREM PushdownIsAlwaysSound == Spec => []PushdownSound
<1>1. IInv => PushdownSound
  BY PushdownIsSound
<1>. QED  BY <1>1, Invariance, PTL


-----------------------------------------------------------------------------
(* What selection rests on *)

(* When the matches of the conjuncts do not conflict they are one match: the mappings
   of an operation share its input, so all send one text, which is one mapping's, and
   one comparison matches it. *)
LEMMA MatchesAgree ==
  ASSUME NEW relation, WellMapped(relation), NEW types, DOMAIN types = DOMAIN relation.columns,
         NEW operation, NEW s, Compared(types, s), NEW t, MatchedBy(relation, operation, s, t),
         ~BindingsOf(t).conflicting
  PROVE  /\ AllMatchesEquivalent(t)
         /\ \A n \in 1..Len(t) : t[n].mapping.input = t[1].mapping.input
<1>1. PICK Y : t \in Seq(Y)
  BY DEF MatchedBy
<1>2. DOMAIN t = 1..Len(t) /\ Len(t) \in Nat
  BY <1>1
<1>3. PICK ms : ms = {t[n].mapping : n \in DOMAIN t}
  OBVIOUS
<1>4. \A m, n \in ms : m.input = n.input => m.encoded = n.encoded
  <2>1. PICK conflicting, inputs :
          /\ conflicting = (\E m, n \in ms : m.input = n.input /\ m.encoded # n.encoded)
          /\ BindingsOf(t) = [inputs |-> inputs, conflicting |-> conflicting]
    BY <1>3, Zenon DEF BindingsOf
  <2>2. BindingsOf(t).conflicting = conflicting
    BY <2>1
  <2>3. ~ \E m, n \in ms : m.input = n.input /\ m.encoded # n.encoded
    BY <2>1, <2>2, Zenon
  <2>. QED  BY <2>3
<1>5. ASSUME NEW n \in 1..Len(t)
      PROVE  \E i \in 1..Len(s) : \E k \in Matching(relation, operation, s[i]) :
               t[n] = Match(relation, k, s[i])
  BY DEF MatchedBy
<1>6. ASSUME NEW a \in 1..Len(t), NEW b \in 1..Len(t) PROVE t[a] = t[b]
  <2>1. PICK i \in 1..Len(s) : \E k \in Matching(relation, operation, s[i]) :
          t[a] = Match(relation, k, s[i])
    BY <1>5
  <2>2. PICK k \in Matching(relation, operation, s[i]) : t[a] = Match(relation, k, s[i])
    BY <2>1
  <2>3. PICK j \in 1..Len(s) : \E l \in Matching(relation, operation, s[j]) :
          t[b] = Match(relation, l, s[j])
    BY <1>5
  <2>4. PICK l \in Matching(relation, operation, s[j]) : t[b] = Match(relation, l, s[j])
    BY <2>3
  <2>5. PICK y, z, m, n : /\ y = s[i] /\ z = s[j]
                          /\ m = relation.mappings[k] /\ n = relation.mappings[l]
    OBVIOUS
  <2>6. /\ k \in DOMAIN relation.mappings /\ MappingMatches(relation, operation, m, y)
        /\ l \in DOMAIN relation.mappings /\ MappingMatches(relation, operation, n, z)
    BY <2>2, <2>4, <2>5 DEF Matching
  <2>7. /\ m.operation = operation.name /\ y.kind = "COMPARISON" /\ m.literal = y.literal
        /\ relation.columns[y.column].name = m.column
        /\ n.operation = operation.name /\ z.kind = "COMPARISON" /\ n.literal = z.literal
        /\ relation.columns[z.column].name = n.column
    BY <2>6 DEF MappingMatches
  <2>8. t[a].mapping = m /\ t[b].mapping = n
    BY <2>2, <2>4, <2>5 DEF Match
  <2>9. m \in ms /\ n \in ms
    BY <1>2, <1>3, <2>8
  <2>10. \A x, w \in DOMAIN relation.mappings :
           relation.mappings[x].operation = relation.mappings[w].operation =>
             /\ relation.mappings[x].input = relation.mappings[w].input
             /\ relation.mappings[x].encoded = relation.mappings[w].encoded => x = w
    BY DEF WellMapped
  <2>11. m.input = n.input
    BY <2>5, <2>6, <2>7, <2>10
  <2>12. m.encoded = n.encoded
    BY <1>4, <2>9, <2>11
  <2>13. k = l
    BY <2>5, <2>6, <2>7, <2>10, <2>12
  <2>14. /\ y.column \in DOMAIN relation.columns /\ z.column \in DOMAIN relation.columns
         /\ y = [kind |-> "COMPARISON", column |-> y.column, literal |-> y.literal,
                 children |-> << >>, depth |-> 1, nodes |-> 1]
         /\ z = [kind |-> "COMPARISON", column |-> z.column, literal |-> z.literal,
                 children |-> << >>, depth |-> 1, nodes |-> 1]
    BY <2>5, <2>7 DEF Compared
  <2>15. y.column = z.column
    <3>1. \A x, w \in DOMAIN relation.columns :
            relation.columns[x].name = relation.columns[w].name => x = w
      BY DEF WellMapped
    <3>. QED  BY <2>5, <2>7, <2>13, <2>14, <3>1
  <2>16. y.literal = z.literal
    BY <2>5, <2>7, <2>13
  <2>17. y = z
    BY <2>14, <2>15, <2>16
  <2>. QED  BY <2>2, <2>4, <2>5, <2>13, <2>17
<1>7. ASSUME NEW n \in DOMAIN t PROVE SameMappingAndBinding(t[1], t[n])
  <2>1. 1 \in 1..Len(t) /\ n \in 1..Len(t)
    BY <1>2
  <2>2. t[1] = t[n]
    BY <1>6, <2>1
  <2>. QED  BY <2>2 DEF SameMappingAndBinding
<1>8. ASSUME NEW n \in 1..Len(t) PROVE t[n].mapping.input = t[1].mapping.input
  <2>1. 1 \in 1..Len(t)
    BY <1>2
  <2>2. t[n] = t[1]
    BY <1>6, <2>1
  <2>. QED  BY <2>2
<1>. QED  BY <1>7, <1>8 DEF AllMatchesEquivalent

\* The decision to send the equality of a mapping.
Pushes(d, mapping) ==
  /\ d.remote = "TYPED_EQUALITY" /\ d.conditional = "REST_QUERY_BINDING"
  /\ d.equality = PlanTypedEquality(mapping)

(* Matches that agree are pushed. *)
LEMMA AgreementPushes ==
  ASSUME NEW relation, NEW operation, NEW req, PushdownCapable(req),
         req.predicate.kind \in {"COMPARISON", "CONJUNCTION"},
         NEW t, t = ConjunctiveMatches(relation, operation, req.predicate),
         t # << >>, AllMatchesEquivalent(t),
         NEW d, d = Classify(relation, operation, req)
  PROVE  Pushes(d, t[1].mapping)
<1>1. PICK kind : kind = req.predicate.kind
  OBVIOUS
<1>2. /\ kind # "UNRESTRICTED" /\ kind # "DISJUNCTION" /\ kind # "NEGATION"
      /\ kind # "UNSUPPORTED"
  BY <1>1
<1>3. PICK accuracy, residual :
        d = [remote |-> "TYPED_EQUALITY", accuracy |-> accuracy, residual |-> residual,
             conditional |-> "REST_QUERY_BINDING",
             equality |-> PlanTypedEquality(t[1].mapping), category |-> accuracy,
             reason |-> "SELECTED_MAPPING"]
  BY <1>1, <1>2, Zenon DEF Classify
<1>. QED  BY <1>3 DEF Pushes


(* A required conditional input that the selector found is one the plan sends. *)
LEMMA ConditionalRequired ==
  ASSUME NEW relation, WellMapped(relation), NEW types, DOMAIN types = DOMAIN relation.columns,
         NEW fs \in Seq(Expressions), NEW operation, NEW req,
         req.predicate = TranslateComplexFilters(types, fs).candidate,
         NEW id, NEW b, b = ResolveCandidateInputBindings(relation, operation, req),
         ~b.conflicting, id \in b.inputs,
         NEW d, d = Classify(relation, operation, req)
  PROVE  \E m : Pushes(d, m) /\ m.input = id
<1>1. PICK t : t = IF PushdownCapable(req) /\ req.predicate.kind \in {"COMPARISON", "CONJUNCTION"}
                   THEN ConjunctiveMatches(relation, operation, req.predicate) ELSE << >>
  OBVIOUS
<1>2. b = BindingsOf(t)
  BY <1>1 DEF ResolveCandidateInputBindings
<1>3. PICK n \in DOMAIN t : t[n].mapping.input = id
  <2>1. PICK ms : ms = {t[n].mapping : n \in DOMAIN t}
    OBVIOUS
  <2>2. PICK conflicting, inputs :
          /\ inputs = IF conflicting THEN {} ELSE {m.input : m \in ms}
          /\ b = [inputs |-> inputs, conflicting |-> conflicting]
    BY <1>2, <2>1, Zenon DEF BindingsOf
  <2>3. b.inputs = inputs
    BY <2>2
  <2>4. id \in {m.input : m \in ms}
    BY <2>2, <2>3
  <2>. QED  BY <2>1, <2>4
<1>4. /\ PushdownCapable(req) /\ req.predicate.kind \in {"COMPARISON", "CONJUNCTION"}
      /\ t = ConjunctiveMatches(relation, operation, req.predicate)
  <2>1. t # << >>
    BY <1>3
  <2>. QED  BY <1>1, <2>1, Zenon
<1>5. PICK T, p, s : T = TranslateExpression(types) /\ p = req.predicate /\ s = Conjuncts(p)
  OBVIOUS
<1>6. Top(T, fs, p)
  BY <1>5, TopIs
<1>7. p.depth \in Nat
  BY <1>5, CandidateIsNode DEF Node
<1>8. s \in Seq(AllCandidates(T) \cup {p}) /\ Compared(types, s)
  BY <1>5, <1>6, <1>7, ConjunctsAre
<1>9. PICK X : relation.mappings \in Seq(X)
  BY DEF WellMapped
<1>10. MatchedBy(relation, operation, s, t)
  <2>1. PICK S : S = AllCandidates(T) \cup {p}
    OBVIOUS
  <2>. QED  BY <1>4, <1>5, <1>8, <1>9, <2>1, MatchesAre, Zenon
<1>11. /\ AllMatchesEquivalent(t)
       /\ \A k \in 1..Len(t) : t[k].mapping.input = t[1].mapping.input
  BY <1>2, <1>8, <1>10, MatchesAgree
<1>12. t # << >> /\ n \in 1..Len(t)
  <2>1. PICK Y : t \in Seq(Y)
    BY <1>10 DEF MatchedBy
  <2>. QED  BY <1>3, <2>1
<1>13. Pushes(d, t[1].mapping)
  BY <1>4, <1>11, <1>12, AgreementPushes
<1>14. t[1].mapping.input = id
  BY <1>3, <1>11, <1>12
<1>. QED  BY <1>13, <1>14

(* A plan that pushes an equality has its field. *)
LEMMA PushedIsSent ==
  ASSUME NEW p, ValidatePredicateMaterialization(p), NEW m, Pushes(p.decision, m)
  PROVE  \E i \in DOMAIN p.query : p.query[i].source = "CONDITIONAL_INPUT" /\ p.query[i].id = m.input
<1>1. PICK e, emitted : /\ e = p.decision.equality
                        /\ emitted = {i \in DOMAIN p.query : p.query[i].source = "CONDITIONAL_INPUT"}
  OBVIOUS
<1>2. p.decision.remote = "TYPED_EQUALITY" /\ e.input = m.input
  BY <1>1, EqualityIs DEF Pushes
<1>3. Cardinality(emitted) = 1 /\ \A i \in emitted : p.query[i].id = e.input
  BY <1>1, <1>2, Zenon DEF ValidatePredicateMaterialization, IndexesOf
<1>4. PICK i \in emitted : TRUE
  BY <1>3, FS_EmptySet
<1>. QED  BY <1>1, <1>2, <1>3, <1>4

(* A selector of a package that compiled names relation and conditional inputs. *)
LEMMA ReferencesAre ==
  ASSUME NEW d, IsCompiled(d), NEW i \in DOMAIN d.relation.operations,
         NEW o, o = CompileOperation(d.relation, d.relation.operations[i]),
         NEW reference \in o.references
  PROVE  reference[1] \in {"RELATION_INPUT", "CONDITIONAL_INPUT"}
<1>1. CompilePackage(d) = "COMPILED" /\ DeclaredRelation(d.relation)
  BY DEF IsCompiled
<1>2. ~CompileDiagnosed(d)
  BY <1>1 DEF CompilePackage
<1>3. CompileSelector(d.relation, d.relation.operations[i])
  BY <1>2, Zenon DEF CompileDiagnosed, OperationDiagnosed
<1>4. PICK when : when = d.relation.operations[i].when
  OBVIOUS
<1>5. o.references = {when[j] : j \in DOMAIN when}
  BY <1>1, <1>4, CompiledQueryIs
<1>6. \A j \in DOMAIN when : when[j][1] = "RELATION_INPUT" \/ when[j][1] = "CONDITIONAL_INPUT"
  BY <1>3, <1>4, Zenon DEF CompileSelector
<1>. QED  BY <1>5, <1>6

(* A field of a required relation input that has a value is emitted. *)
LEMMA RelationRequired ==
  ASSUME NEW o, NEW inputs, NEW d, NEW query, IsQueryOf(query, o, inputs, d),
         NEW i \in DOMAIN o.query, o.query[i].source = "RELATION_INPUT",
         inputs[o.query[i].id].state = "BOUND_VALUE"
  PROVE  \E n \in DOMAIN query : query[n].source = "RELATION_INPUT" /\ query[n].id = o.query[i].id
<1>1. PICK field : field = o.query[i]
  OBVIOUS
<1>2. Emitted(field, inputs, d)
  BY <1>1 DEF Emitted
<1>3. PICK n \in DOMAIN query : query[n] = QueryBinding(field, inputs, d)
  BY <1>1, <1>2 DEF IsQueryOf
<1>4. query[n].source = field.source /\ query[n].id = field.id
  BY <1>3, BindingIs
<1>. QED  BY <1>1, <1>4

\* The query has a field of this source and this id.
Carries(query, source, id) == \E i \in DOMAIN query : query[i].source = source /\ query[i].id = id

(* The selector and the classifier agree. *)
LEMMA SelectionIsJustified ==
  ASSUME IInv
  PROVE  SelectionJustified
<1>1. SUFFICES ASSUME phase = "RUNNING", NEW reference \in plan.operation.references
               PROVE  IF reference[1] = "CONDITIONAL_INPUT"
                      THEN Carries(admitted.query, "CONDITIONAL_INPUT", reference[2])
                      ELSE Carries(plan.operation.query, "RELATION_INPUT", reference[2]) =>
                             Carries(admitted.query, "RELATION_INPUT", reference[2])
  BY Zenon DEF SelectionJustified, Carries
<1>2. /\ IsCompiled(package) /\ admitted = TryAdmitPlan(plan, profile) /\ admitted # REFUSED
      /\ filters \in Seq(Expressions)
      /\ request.predicate = TranslateComplexFilters(ColumnTypes, filters).candidate
  BY <1>1, RunningIs
<1>3. PICK connector, relation : connector = Connector /\ relation = connector.relation
  OBVIOUS
<1>4. PICK j \in DOMAIN package.relation.operations : \E o, d :
        /\ o = CompileOperation(package.relation, package.relation.operations[j])
        /\ PlanRuns(connector, o, d)
  BY <1>1, <1>3, PlanRunsIs
<1>5. PICK o, d : /\ o = CompileOperation(package.relation, package.relation.operations[j])
                  /\ PlanRuns(connector, o, d)
  BY <1>4
<1>6. PICK inputs : inputs = InputsOf(connector, request)
  OBVIOUS
<1>7. /\ plan.operation = o /\ plan.decision = d /\ d = Classify(relation, o, request)
      /\ ValidatePredicateMaterialization(plan)
      /\ Eligible(relation, o, request, inputs)
      /\ o.protocol = "REST" => IsQueryOf(plan.query, o, inputs, d)
      /\ o.protocol # "REST" => o.query = << >>
  BY <1>3, <1>5, <1>6 DEF PlanRuns, Selected
<1>8. admitted.query = plan.query
  BY <1>2, AdmittedIs DEF AdmittedProfile
<1>9. PICK b : b = ResolveCandidateInputBindings(relation, o, request)
  OBVIOUS
<1>10. ~b.conflicting /\ RequiredInputIsSatisfied(reference, inputs, b)
  BY <1>1, <1>7, <1>9 DEF Eligible, EligibleWith
<1>11. CASE reference[1] = "CONDITIONAL_INPUT"
  <2>1. reference[2] \in b.inputs
    BY <1>10, <1>11 DEF RequiredInputIsSatisfied
  <2>2. WellMapped(relation)
    BY <1>2, <1>3, RelationMapped DEF Connector
  <2>3. PICK types : types = ColumnTypes
    OBVIOUS
  <2>4. DOMAIN types = DOMAIN relation.columns
    BY <1>3, <2>3, TypesAre
  <2>5. PICK id : id = reference[2]
    OBVIOUS
  <2>6. PICK m : Pushes(d, m) /\ m.input = id
    BY <1>2, <1>7, <1>9, <1>10, <2>1, <2>2, <2>3, <2>4, <2>5, ConditionalRequired
  <2>7. Carries(plan.query, "CONDITIONAL_INPUT", m.input)
    BY <1>7, <2>6, PushedIsSent DEF Carries
  <2>. QED  BY <1>8, <1>11, <2>5, <2>6, <2>7
<1>12. CASE reference[1] # "CONDITIONAL_INPUT"
  <2>1. reference[1] = "RELATION_INPUT"
    BY <1>1, <1>2, <1>5, <1>7, <1>12, ReferencesAre
  <2>2. inputs[reference[2]].state = "BOUND_VALUE"
    BY <1>10, <2>1 DEF RequiredInputIsSatisfied
  <2>3. SUFFICES ASSUME Carries(o.query, "RELATION_INPUT", reference[2])
                 PROVE  Carries(plan.query, "RELATION_INPUT", reference[2])
    BY <1>7, <1>8, <1>12
  <2>4. PICK i \in DOMAIN o.query : o.query[i].source = "RELATION_INPUT" /\ o.query[i].id = reference[2]
    BY <2>3 DEF Carries
  <2>5. o.protocol = "REST"
    BY <1>7, <2>4
  <2>6. IsQueryOf(plan.query, o, inputs, d)
    BY <1>7, <2>5
  <2>. QED  BY <2>2, <2>4, <2>6, RelationRequired DEF Carries
<1>. QED  BY <1>11, <1>12

(* Selection is justified: the operation of a scan that runs has a value for each of
   its required inputs, and the request carries it.  The selector reads the filter and
   the classifier reads it again, apart; they agree for every package the compiler
   accepts, every argument and every filter. *)
THEOREM SelectionIsAlwaysJustified == Spec => []SelectionJustified
<1>1. IInv => SelectionJustified
  BY SelectionIsJustified
<1>. QED  BY <1>1, Invariance, PTL
=============================================================================

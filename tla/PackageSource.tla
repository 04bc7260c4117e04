---------------------------- MODULE PackageSource ----------------------------
(***************************************************************************)
(* Taking a connector package from its directory                           *)
(* (connector/package/package_source.cpp, package_source_filesystem.cpp).  *)
(*                                                                         *)
(* The acquisition notes the identity of every entry of the root and of    *)
(* relations/, reads the manifest and the relation it lists, and compares  *)
(* the identities again.  Its author may edit the files meanwhile, one at  *)
(* a time.                                                                 *)
(*                                                                         *)
(* A package has a manifest and one relation here.  An identity is a       *)
(* number that is fresh for every edit: device, inode, mode, links, size   *)
(* and times, one of which (ctime) every edit changes.  Capturing one      *)
(* directory and reading one file are single steps: both compare the       *)
(* identity before and after.                                              *)
(***************************************************************************)
EXTENDS Naturals

CONSTANTS
    Packages,    \* declarations on disk: [manifest, relation]
    Revisions,   \* pairs of versions an author moves between, file by file
    MaxEdits     \* bound: edits during one acquisition

VARIABLES
    folder,      \* the directory: [manifest, relation, listing, stray, edits]
    acquisition  \* the acquisition

NoFile == [none |-> TRUE]
Folder(package) ==
    [manifest |-> [content |-> package.manifest, identity |-> 0],
     relation |-> [content |-> package.relation, identity |-> 0],
     listing |-> 0, stray |-> FALSE, edits |-> 0]
Unopened == [stage |-> "UNOPENED", root |-> NoFile, relations |-> NoFile,
             manifest |-> NoFile, relation |-> NoFile, versions |-> {}]

Version == [manifest |-> folder.manifest.content, relation |-> folder.relation.content]

SourceInit == \E package \in Packages : folder = Folder(package) /\ acquisition = Unopened

-----------------------------------------------------------------------------
(* The author.                                                             *)

Edited(changed) ==
    /\ acquisition.stage \notin {"UNOPENED", "ACQUIRED", "FAILED"}
    /\ folder.edits < MaxEdits
    /\ folder' = [changed EXCEPT !.edits = @ + 1]
    /\ acquisition' = [acquisition EXCEPT !.versions = @ \cup
                    {[manifest |-> changed.manifest.content,
                      relation |-> changed.relation.content]}]

EditManifest ==
    \E r \in Revisions : \E to \in {r[1], r[2]} :
      /\ folder.manifest.content \in {r[1].manifest, r[2].manifest}
      /\ Edited([folder EXCEPT !.manifest = [content |-> to.manifest,
                                             identity |-> folder.edits + 1]])

EditRelation ==
    \E r \in Revisions : \E to \in {r[1], r[2]} :
      /\ folder.relation.content \in {r[1].relation, r[2].relation}
      /\ Edited([folder EXCEPT !.relation = [content |-> to.relation,
                                             identity |-> folder.edits + 1]])

\* A file the manifest does not list appears in relations/ or goes.
EditListing ==
    /\ \E r \in Revisions : folder.relation.content \in {r[1].relation, r[2].relation}
    /\ Edited([folder EXCEPT !.stray = ~@, !.listing = folder.edits + 1])

-----------------------------------------------------------------------------
(* The acquisition.                                                        *)

\* Identities compared without their times: an edit in place is not seen.
SameIdentityButTimes(left, right) == TRUE

SameIdentity(left, right) == left = right

CaptureRoot == [manifest |-> folder.manifest.identity, relations |-> folder.listing]
CaptureRelations == [relation |-> folder.relation.identity, directory |-> folder.listing,
                     stray |-> folder.stray]

SameRoot(left, right) ==
    /\ SameIdentity(left.manifest, right.manifest)
    /\ SameIdentity(left.relations, right.relations)
SameRelations(left, right) ==
    /\ SameIdentity(left.relation, right.relation)
    /\ SameIdentity(left.directory, right.directory)
    /\ left.stray = right.stray

\* One step of the acquisition: it goes on when ok, or throws.
Advance(from, ok, next) ==
    /\ acquisition.stage = from
    /\ acquisition' = IF ok THEN next ELSE [acquisition EXCEPT !.stage = "FAILED"]
    /\ UNCHANGED folder

\* OpenAbsolute, OpenRetained: the root is captured first, then relations/,
\* whose own identity must be the one the root showed.
OpenRoot ==
    Advance("UNOPENED", TRUE,
            [acquisition EXCEPT !.stage = "ROOT", !.root = CaptureRoot, !.versions = {Version}])
OpenRelations ==
    Advance("ROOT", SameIdentity(acquisition.root.relations, folder.listing),
            [acquisition EXCEPT !.stage = "OPEN", !.relations = CaptureRelations])

\* ReadLeaf: the file is the one captured, before and after reading.
ReadManifest ==
    Advance("OPEN", SameIdentity(acquisition.root.manifest, folder.manifest.identity),
            [acquisition EXCEPT !.stage = "LISTED", !.manifest = folder.manifest.content])

\* ManifestRelationIds and ValidateListedRelations: no YAML file of the
\* captured relations/ is missing from the manifest's list.
ReadRelation ==
    Advance("LISTED", /\ ~acquisition.relations.stray
                      /\ SameIdentity(acquisition.relations.relation, folder.relation.identity),
            [acquisition EXCEPT !.stage = "READ", !.relation = folder.relation.content])

\* VerifyUnchanged captures both directories again.
VerifyRoot ==
    Advance("READ", SameRoot(acquisition.root, CaptureRoot), [acquisition EXCEPT !.stage = "VERIFYING"])
VerifyRelations ==
    Advance("VERIFYING", SameRelations(acquisition.relations, CaptureRelations),
            [acquisition EXCEPT !.stage = "ACQUIRED"])

\* Cancellation, an entry of the wrong type or a source limit.
SourceFails ==
    /\ acquisition.stage \in {"UNOPENED", "ROOT", "OPEN", "LISTED", "READ", "VERIFYING"}
    /\ acquisition' = [acquisition EXCEPT !.stage = "FAILED"]
    /\ UNCHANGED folder

SourceNext ==
    \/ EditManifest \/ EditRelation \/ EditListing
    \/ OpenRoot \/ OpenRelations \/ ReadManifest \/ ReadRelation
    \/ VerifyRoot \/ VerifyRelations \/ SourceFails

Acquired == [manifest |-> acquisition.manifest, relation |-> acquisition.relation]

-----------------------------------------------------------------------------
\* What is compiled is a version the directory held as a whole at some moment
\* of the acquisition: no edit between the reads mixes two versions.
AcquiredWhole == acquisition.stage = "ACQUIRED" => Acquired \in acquisition.versions
==============================================================================

-------------------------- MODULE HttpScanExecutor --------------------------
(***************************************************************************)
(* Opening a scan, and the streams it opens                                *)
(* (src/src/runtime/execution/http_scan_executor.cpp, with the entry       *)
(* points of src/src/include/duckdb_api/execution.hpp).                    *)
(*                                                                         *)
(* A plan that the profile admits is opened by one of three services:      *)
(* Open takes no credential, OpenWithAuthorization one in the caller's     *)
(* hands and OpenWithCredentialProvider resolves a named one.  The last    *)
(* takes a permit of its own for the resolution and gives it back before   *)
(* it asks for the scan's permit, under the principal it has found.        *)
(*                                                                         *)
(* The plan's admission itself is PlanAdmission's; here a scan has the     *)
(* profile it was admitted with, which also says which credential it       *)
(* requires and whether the plan names a secret.                           *)
(***************************************************************************)
EXTENDS PaginatedBatchStream

VARIABLES
  opening,    \* "unopened", "resolving", "admitting", "opened", "refused"
  principal,  \* who is charged for the scan
  capability, \* the authorization alternative that the stream will own
  running     \* the executor has not been closed

executor == <<opening, principal, capability, running>>

allVars == <<vars, executor>>

Alternatives == {"ANONYMOUS", "BEARER", "CREDENTIAL"}

ASSUME ExecutorAssumption ==
  \A n \in Scans :
    /\ ScanProfile[n].requires \in {"none", "bearer", "api_key"}
    /\ ScanProfile[n].strategy = "graphql_cursor" => ScanProfile[n].requires # "api_key"
    /\ ScanProfile[n].secret \in BOOLEAN

ExecutorInit ==
  /\ Init
  /\ opening = "unopened"
  /\ principal = "none"
  /\ capability = "ANONYMOUS"
  /\ running = TRUE

-----------------------------------------------------------------------------
stream == <<scan, mutex, pull, call, flags, pagination, response, page, page_loaded,
            page_has_next, offset, accounting, pages>>

\* An exception leaves the call: the permits and the authorization it has go.
Refuse ==
  /\ opening' = "refused"
  /\ held' = {}
  /\ UNCHANGED <<stream, principal, capability, running>>

RefuseOpening ==
  /\ opening \in {"unopened", "resolving", "admitting"}
  /\ Refuse

AdmitsAnonymous == profile.requires = "none"

\* Open: the anonymous service never stands in for another.
Open ==
  /\ opening = "unopened"
  /\ IF AdmitsAnonymous
     THEN /\ opening' = "admitting"
          /\ principal' = "anonymous"
          /\ UNCHANGED <<stream, held, capability, running>>
     ELSE Refuse

MatchesRequiredCredential(alternative) ==
  CASE profile.requires = "api_key" -> alternative = "CREDENTIAL"
    [] profile.requires = "bearer" -> alternative \in {"BEARER", "CREDENTIAL"}
    [] profile.requires = "none" -> alternative = "ANONYMOUS"

DirectAdmissionPrincipal(alternative) ==
  CASE alternative = "ANONYMOUS" -> "anonymous"
    [] alternative = "BEARER" -> "direct bearer"
    [] alternative = "CREDENTIAL" -> "direct credential"

\* OpenWithAuthorization, with a capability of any alternative.
OpenAuthorizationEnvelope(alternative) ==
  /\ opening = "unopened"
  /\ IF MatchesRequiredCredential(alternative)
     THEN /\ opening' = "admitting"
          /\ principal' = DirectAdmissionPrincipal(alternative)
          /\ capability' = alternative
          /\ held' = {"authorization"}
          /\ UNCHANGED <<stream, running>>
     ELSE Refuse

\* OpenWithCredentialProvider: the plan is admitted, then the preliminary identity
\* gets a permit for one resolution.
AcquireCredentialResolution ==
  /\ opening = "unopened"
  /\ IF profile.requires # "none" /\ profile.secret /\ running
     THEN /\ opening' = "resolving"
          /\ held' = {"provider permit"}
          /\ UNCHANGED <<stream, principal, capability, running>>
     ELSE Refuse

\* Variant: the permit of the resolution is kept for the scan.
HeldAfterResolutionWithPermit == held \cup {"authorization"}

HeldAfterResolution == (held \ {"provider permit"}) \cup {"authorization"}

\* The authority that the provider has minted, whatever its revision.
ProviderAdmissionPrincipal == "authority"

\* The provider answers with a valid snapshot, whose authority is charged from
\* here on (a failed or cancelled resolution is RefuseOpening).
ResolveCredential ==
  /\ opening = "resolving"
  /\ opening' = "admitting"
  /\ principal' = ProviderAdmissionPrincipal
  /\ capability' = "CREDENTIAL"
  /\ held' = HeldAfterResolution
  /\ UNCHANGED <<stream, running>>

\* The scan's permit, then the stream, which owns permit and authorization.
AcquireScan ==
  /\ opening = "admitting"
  /\ running
  /\ opening' = "opened"
  /\ held' = held \cup {"scan permit", "authorization"}
  /\ UNCHANGED <<stream, principal, capability, running>>

\* Close of the executor: admission and coordinator refuse whoever comes later.
CloseExecutor ==
  /\ running
  /\ running' = FALSE
  /\ UNCHANGED <<stream, held, opening, principal, capability>>

OpenNext ==
  \/ Open
  \/ \E a \in Alternatives : OpenAuthorizationEnvelope(a)
  \/ AcquireCredentialResolution
  \/ ResolveCredential
  \/ AcquireScan
  \/ RefuseOpening
  \/ CloseExecutor

ExecutorNext ==
  \/ OpenNext
  \/ opening = "opened" /\ Next /\ UNCHANGED executor

ExecutorSpec == ExecutorInit /\ [][ExecutorNext]_allVars

\* The consumer's thread runs and a fetch ends (HttpRetryController!StepReturns);
\* so do the threads that have raised the flag.
ExecutorFairSpec ==
  /\ ExecutorSpec
  /\ WF_allVars(opening = "opened" /\ (Pull \/ FailPull) /\ UNCHANGED executor)
  /\ \A t \in Threads :
       WF_allVars(opening = "opened" /\ (Cancel(t) \/ Close(t)) /\ UNCHANGED executor)

-----------------------------------------------------------------------------
(* Properties *)

\* No scan waits for its permit while it keeps the resolution's (two scans could
\* then wait for each other), a refused opening keeps nothing, and a stream has
\* exactly the authority its plan requires and is charged to the principal that
\* authority belongs to: no service falls back to anonymous execution.
OpenedAsRequired ==
  /\ opening \in {"admitting", "opened"} => "provider permit" \notin held
  /\ opening = "refused" => held = {}
  /\ opening = "opened" =>
       /\ (capability = "ANONYMOUS") <=> (profile.requires = "none")
       /\ (principal = "anonymous") <=> (capability = "ANONYMOUS")
       /\ profile.requires = "api_key" => capability = "CREDENTIAL"
=============================================================================

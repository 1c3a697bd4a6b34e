-------------------------- MODULE RegistryMetadata --------------------------
(***************************************************************************)
(* Package and organization metadata of the registry in a database: one    *)
(* package name and one organization, changed by concurrent requests.      *)
(*                                                                         *)
(* No operation is a transaction.  Publishing reads the package, inserts   *)
(* the version and then sets the package's latest version from what it     *)
(* read; deleting in MongoDB removes the package and then its versions;    *)
(* changing members reads the list and writes all of it back.  Unique      *)
(* indexes and, in Postgres, the foreign key are what they rely on.        *)
(***************************************************************************)
EXTENDS Integers, FiniteSets

CONSTANTS
    Requests,   \* concurrent requests
    Users,      \* people
    Founder,    \* the one who created the organization
    Releases,   \* versions, as positive numbers in the order of compareVersion
    Works,      \* what the requests may be for: functions on Requests
    Absent      \* no package, no role

(* An unset latest version is 0, and NULL in the database.                 *)
Unset == 0

Roles == {"owner", "admin", "developer"}
Visibilities == {"public", "tenant"}
Package == [id : Nat, latest : {Unset} \cup Releases, vis : Visibilities]

PackageWork ==
    [op : {"publish"}, v : Releases]
        \cup [op : {"create", "visibility"}, vis : Visibilities]
        \cup [op : {"delete"}]

OrgWork ==
    [op : {"add"}, user : Users, role : Roles, by : Users]
        \cup [op : {"drop"}, user : Users, by : Users]

ASSUME PeopleAssumption == IsFiniteSet(Users) /\ Founder \in Users
ASSUME ReleasesAssumption == Releases \subseteq Nat \ {Unset}
ASSUME WorksAssumption == \A w \in Works : w \in [Requests -> PackageWork \cup OrgWork]
ASSUME AbsentAssumption == Absent \notin Package /\ Absent \notin Roles

VARIABLES
    work,      \* per request: what it is for
    backend,   \* "mongodb" or "postgres"
    pc,        \* per request: its next step, or how it ended
    pkg,       \* the package under the name: id, latest version, visibility
    next,      \* the next package id
    versions,  \* pairs of package id and version
    snap,      \* per request: the package or the members it read
    members,   \* per user: the role in the organization, or Absent
    shared,    \* package ids that two requests worked on at once, or on which
               \* the last of several writes was lost
    orgShared, \* two requests changed the members at once
    demoted    \* somebody was given a lesser role than owner

packages == <<pkg, next, versions, shared>>
org == <<members, orgShared, demoted>>
metadataVars == <<work, backend, pc, snap, packages, org>>

InitMetadata ==
    /\ work \in Works
    /\ backend \in {"mongodb", "postgres"}
    /\ pc = [r \in Requests |-> "start"]
    /\ snap = [r \in Requests |-> Absent]
    /\ \/ pkg = Absent /\ next = 1
       \/ pkg = [id |-> 1, latest |-> Unset, vis |-> "tenant"] /\ next = 2
    /\ versions = {} /\ shared = {}
    /\ members = [u \in Users |-> IF u = Founder THEN "owner" ELSE Absent]
    /\ orgShared = FALSE /\ demoted = FALSE

-----------------------------------------------------------------------------
(* Packages                                                                *)

Goto(r, step) == pc' = [pc EXCEPT ![r] = step]
Is(r, step, op) == pc[r] = step /\ work[r].op = op

(* Requests that are between two steps on a package.                       *)
Busy == {r \in Requests : pc[r] \in {"insert", "update", "remove", "sweep"}}

(* The request starts to work on the package it found.                     *)
Finds(r, step) ==
    /\ pkg # Absent
    /\ snap' = [snap EXCEPT ![r] = pkg]
    /\ shared' = IF \E q \in Busy : snap[q].id = pkg.id
                 THEN shared \cup {pkg.id} ELSE shared
    /\ Goto(r, step)

(* The index on tenant, namespace and name admits one package.             *)
CreatePackage(r) ==
    /\ Is(r, "start", "create")
    /\ IF pkg = Absent
       THEN /\ pkg' = [id |-> next, latest |-> Unset, vis |-> work[r].vis]
            /\ next' = next + 1
            /\ Goto(r, "done")
       ELSE Goto(r, "failed") /\ UNCHANGED <<pkg, next>>
    /\ UNCHANGED <<work, backend, snap, versions, shared, org>>

(* Postgres reads the column into a string, which fails while it is NULL,  *)
(* so that there the first version of a package is never published, and    *)
(* the steps after this one are only ever taken in MongoDB.                *)
PublishFinds(r) ==
    /\ Is(r, "start", "publish")
    /\ IF pkg = Absent \/ (backend = "postgres" /\ pkg.latest = Unset)
       THEN Goto(r, "failed") /\ UNCHANGED <<snap, shared>>
       ELSE Finds(r, "insert")
    /\ UNCHANGED <<work, backend, pkg, next, versions, org>>

(* One version of a package can be inserted once.                          *)
PublishInserts(r) ==
    /\ Is(r, "insert", "publish")
    /\ LET rec == <<snap[r].id, work[r].v>>
       IN IF rec \in versions
          THEN Goto(r, "failed") /\ UNCHANGED versions
          ELSE versions' = versions \cup {rec} /\ Goto(r, "update")
    /\ UNCHANGED <<work, backend, snap, pkg, next, shared, org>>

(* Mutant: the incoming version always wins.                               *)
MutantPickLatestVersion(current, incoming) == incoming
PickLatestVersion(current, incoming) ==
    IF current = Unset \/ incoming > current THEN incoming ELSE current

SetLatest(r) == [pkg EXCEPT !.latest = PickLatestVersion(snap[r].latest, work[r].v)]

(* The error of the update is dropped, and nothing is updated when the     *)
(* package is gone.                                                        *)
PublishUpdates(r, reached) ==
    /\ Is(r, "update", "publish")
    /\ pkg' = IF reached /\ pkg # Absent /\ pkg.id = snap[r].id THEN SetLatest(r) ELSE pkg
    /\ shared' = IF reached THEN shared ELSE shared \cup {snap[r].id}
    /\ Goto(r, "done")
    /\ UNCHANGED <<work, backend, snap, next, versions, org>>

(* One statement, which returns the row it changed: in Postgres reading    *)
(* the row fails while its latest version is NULL, after the update.       *)
UpdatePackageVisibility(r) ==
    /\ Is(r, "start", "visibility")
    /\ IF pkg = Absent
       THEN Goto(r, "failed") /\ UNCHANGED pkg
       ELSE /\ pkg' = [pkg EXCEPT !.vis = work[r].vis]
            /\ Goto(r, IF backend = "postgres" /\ pkg.latest = Unset
                       THEN "failed" ELSE "done")
    /\ UNCHANGED <<work, backend, snap, next, versions, shared, org>>

(* Postgres: one statement, and the versions go with the package.          *)
DeleteCascades(r) ==
    /\ Is(r, "start", "delete") /\ backend = "postgres"
    /\ IF pkg = Absent
       THEN Goto(r, "failed") /\ UNCHANGED <<pkg, versions>>
       ELSE /\ pkg' = Absent
            /\ versions' = {rec \in versions : rec[1] # pkg.id}
            /\ Goto(r, "done")
    /\ UNCHANGED <<work, backend, snap, next, shared, org>>

(* MongoDB: find the package, remove it, remove its versions.              *)
DeleteFinds(r) ==
    /\ Is(r, "start", "delete") /\ backend = "mongodb"
    /\ IF pkg = Absent
       THEN Goto(r, "failed") /\ UNCHANGED <<snap, shared>>
       ELSE Finds(r, "remove")
    /\ UNCHANGED <<work, backend, pkg, next, versions, org>>

DeleteRemoves(r) ==
    /\ Is(r, "remove", "delete")
    /\ pkg' = IF pkg # Absent /\ pkg.id = snap[r].id THEN Absent ELSE pkg
    /\ Goto(r, "sweep")
    /\ UNCHANGED <<work, backend, snap, next, versions, shared, org>>

(* The error of this step is dropped, too.                                 *)
(* Mutant: the versions of the package that has the name now are removed.  *)
MutantDeleteSweeps(r, reached) ==
    /\ Is(r, "sweep", "delete")
    /\ versions' = {rec \in versions : pkg = Absent \/ rec[1] # pkg.id}
    /\ shared' = IF reached THEN shared ELSE shared \cup {snap[r].id}
    /\ Goto(r, "done")
    /\ UNCHANGED <<work, backend, snap, pkg, next, org>>

DeleteSweeps(r, reached) ==
    /\ Is(r, "sweep", "delete")
    /\ versions' = IF reached THEN {rec \in versions : rec[1] # snap[r].id} ELSE versions
    /\ shared' = IF reached THEN shared ELSE shared \cup {snap[r].id}
    /\ Goto(r, "done")
    /\ UNCHANGED <<work, backend, snap, pkg, next, org>>

-----------------------------------------------------------------------------
(* Organization members; Postgres does not support them                    *)

Owners(list) == {u \in Users : list[u] = "owner"}

(* Owners and admins may change members.                                   *)
OrgAuthorizes(r) ==
    /\ pc[r] = "start" /\ work[r].op \in {"add", "drop"}
    /\ Goto(r, IF backend = "mongodb" /\ members[work[r].by] \in {"owner", "admin"}
               THEN "read" ELSE "failed")
    /\ UNCHANGED <<work, backend, snap, packages, org>>

(* Mutant: the last owner may be removed.                                  *)
MutantMayDrop(list, u) == list[u] # Absent
MayDrop(list, u) == list[u] # Absent /\ ~(list[u] = "owner" /\ Cardinality(Owners(list)) <= 1)

OrgReads(r) ==
    /\ pc[r] = "read"
    /\ snap' = [snap EXCEPT ![r] = members]
    /\ Goto(r, IF work[r].op = "drop" /\ ~MayDrop(members, work[r].user)
               THEN "failed" ELSE "write")
    /\ orgShared' = (orgShared \/ \E q \in Requests : pc[q] = "write")
    /\ UNCHANGED <<work, backend, packages, members, demoted>>

(* An existing member gets the new role, whatever the role was.            *)
SetMembers(r) ==
    /\ pc[r] = "write"
    /\ members' = [snap[r] EXCEPT ![work[r].user] =
                     IF work[r].op = "add" THEN work[r].role ELSE Absent]
    /\ demoted' = (demoted \/ (work[r].op = "add" /\ work[r].role # "owner"
                                 /\ snap[r][work[r].user] = "owner"))
    /\ Goto(r, "done")
    /\ UNCHANGED <<work, backend, snap, packages, orgShared>>

NextMetadata ==
    \E r \in Requests :
        \/ CreatePackage(r) \/ UpdatePackageVisibility(r)
        \/ PublishFinds(r) \/ PublishInserts(r)
        \/ \E reached \in BOOLEAN : PublishUpdates(r, reached) \/ DeleteSweeps(r, reached)
        \/ DeleteCascades(r) \/ DeleteFinds(r) \/ DeleteRemoves(r)
        \/ OrgAuthorizes(r) \/ OrgReads(r) \/ SetMembers(r)

SpecMetadata == InitMetadata /\ [][NextMetadata]_metadataVars

-----------------------------------------------------------------------------
(* Properties                                                              *)

VersionsOf(id) == {v \in Releases : <<id, v>> \in versions}

(* When nobody is working on the package its latest version is the newest, *)
(* unless two requests overlapped on it or the update after an insert was  *)
(* lost (PublishPackageVersion, pickLatestVersion).                        *)
LatestIsNewest ==
    (pkg # Absent /\ pkg.id \notin shared /\ \A r \in Busy : snap[r].id # pkg.id)
        => \A v \in VersionsOf(pkg.id) : v <= pkg.latest

(* A deleted package leaves no versions behind, except while its delete is *)
(* under way, or when a publish overlapped with it or the second write was *)
(* lost: those versions stay for good (DeletePackage).                     *)
OrphansOnlyByOverlap ==
    \A rec \in versions :
        \/ pkg # Absent /\ pkg.id = rec[1]
        \/ rec[1] \in shared
        \/ \E r \in Busy : snap[r].id = rec[1]

(* An organization without an owner got there because an owner was given a *)
(* lesser role, or by two changes at once, never by removing the last one  *)
(* (organizations.go, metadata_repository.go, RemoveOrganizationMember).   *)
OwnerlessOnlyByDemotionOrOverlap == Owners(members) = {} => demoted \/ orgShared

=============================================================================

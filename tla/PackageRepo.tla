----------------------------- MODULE PackageRepo -----------------------------
(***************************************************************************)
(* Systems, repositories, builds and packages: the tables of               *)
(* storage/opsys.py and the files (lobs) of the packages.  A flush commits *)
(* by itself, so every step below that adds or deletes rows is one         *)
(* transaction, and what another process deleted is gone at once.          *)
(***************************************************************************)
EXTENDS Naturals

CONSTANTS OpSys, Release, Arch, Comp, Person, RepoName, Pkg, Nvr,
          OsOf,       \* the system of a release
          VersionOf,  \* its version, which releases of two systems may share
          NvrOf,      \* the build (name, epoch, version, release) of a package
          Process     \* all processes of the catalogue

VARIABLES
  archs, opsys, releases,
  active,      \* the releases with status ACTIVE
  components,  \* <<system or release, component>>
  people,      \* names of associates
  permissions, \* <<<<system, component>>, person>>
  repos,       \* <<id, name>>: names are not unique
  urls,        \* <<id of a repository, kind of url>>
  assigned,    \* <<id of a repository, system, release or architecture>>
  builds,      \* records: an id and what it is a build of
  links,       \* <<build id, release, architecture>>
  buildComponents, \* <<build id, component>>
  packages,    \* records: an id, a package and a build id
  provides,    \* ids of packages with dependencies stored
  whole, part, \* ids of packages whose file is complete, or truncated
  orphans,     \* ids of rows deleted, after a failure, without their file
  lastId,      \* ids come from sequences and are not used again
  inUse,       \* the releases that some report refers to
  alone,       \* alone[p]: no other process was active while p was
  overlap,     \* two processes have been active at once
  dead         \* dead[p]: what ended p: nothing, the database or the network

systemVars == <<archs, opsys, releases, active, components, people, permissions, repos, urls, assigned,
                inUse>>
packageVars == <<builds, links, buildComponents, packages, provides, whole, part, orphans, lastId>>
processVars == <<alone, overlap, dead>>

ASSUME CatalogAssumption ==
  /\ OsOf \in [Release -> OpSys]
  /\ NvrOf \in [Pkg -> Nvr]
  /\ DOMAIN VersionOf = Release
  /\ OpSys \cap Release = {} /\ OpSys \cap Arch = {} /\ Release \cap Arch = {}

BuildIds == {b.id : b \in builds}
PackageIds == {k.id : k \in packages}

RepoTypeOK ==
  /\ lastId \in Nat
  /\ archs \subseteq Arch /\ opsys \subseteq OpSys
  /\ releases \subseteq Release /\ active \cup inUse \subseteq releases
  /\ components \subseteq (OpSys \cup Release) \X Comp
  /\ people \subseteq Person /\ permissions \subseteq (components \cap (OpSys \X Comp)) \X people
  /\ repos \subseteq (1..lastId) \X RepoName /\ urls \subseteq (1..lastId) \X {"plain", "param"}
  /\ assigned \subseteq (1..lastId) \X (OpSys \cup Release \cup Arch)
  /\ builds \subseteq [id : 1..lastId, nvr : Nvr] /\ buildComponents \subseteq BuildIds \X Comp
  /\ links \subseteq BuildIds \X releases \X archs
  /\ packages \subseteq [id : 1..lastId, pkg : Pkg, build : BuildIds]
  /\ provides \subseteq PackageIds /\ whole \cup part \cup orphans \subseteq 1..lastId
  /\ alone \in [Process -> BOOLEAN] /\ overlap \in BOOLEAN
  /\ dead \in [Process -> {"no", "database", "network"}]

\* The foreign keys of the tables that administrators write.
KeysHold ==
  /\ \A r \in releases : OsOf[r] \in opsys
  /\ \A c \in components : /\ c[1] \in opsys \cup releases
                           /\ c[1] \in Release => <<OsOf[c[1]], c[2]>> \in components
  /\ \A x \in urls \cup assigned : \E r \in repos : r[1] = x[1]
  /\ \A x \in assigned : x[2] \in opsys \cup releases \cup archs

-----------------------------------------------------------------------------
(* Queries. *)

HasLob(id) == id \in whole \cup part
PackagesOf(build) == {k.id : k \in {q \in packages : q.build = build}}

\* The rows that reposync takes for a link: the system is named in the query
\* but not joined with the release.
LinkSeen(build, os, version, arch) ==
  /\ os \in opsys
  /\ \E l \in links : l[1] = build /\ VersionOf[l[2]] = version /\ l[3] = arch
\* The lookup of a release by reposync, which does not join either.
AnyRelease(version) == {r \in releases : VersionOf[r] = version}

\* Mutant: builds that other releases have too.
BuildsOf(release) == {l[1] : l \in {m \in links : m[2] = release}}
\* The builds of this release, or of this architecture, and of no other.
BuildsOnlyOf(release) ==
  {l[1] : l \in {m \in links : m[2] = release /\ ~\E n \in links : n[1] = m[1] /\ n[2] # release}}
BuildsOnlyOn(arch) ==
  {l[1] : l \in {m \in links : m[3] = arch /\ ~\E n \in links : n[1] = m[1] /\ n[3] # arch}}
RepoUrls(id) == {u[2] : u \in {v \in urls : v[1] = id}}
AssignedTo(id, things) == {x[2] : x \in {y \in assigned : y[1] = id}} \cap things
Unassigned == {b \in BuildIds : ~\E l \in links : l[1] = b}

-----------------------------------------------------------------------------
(* Files. *)

\* Mutant: a dry run that was not asked for.
KeepPackageFile(id) == UNCHANGED <<whole, part>>
DeletePackageFile(id) == whole' = whole \ {id} /\ part' = part \ {id}

-----------------------------------------------------------------------------
(* Processes: who began while another was active. *)

Begin(p, busy) ==
  /\ alone' = [q \in Process |-> IF q = p THEN busy \subseteq {p}
                                 ELSE alone[q] /\ q \notin busy]
  /\ overlap' = (overlap \/ ~busy \subseteq {p})
  /\ dead' = [dead EXCEPT ![p] = "no"]

DieOf(p, cause) == dead' = [dead EXCEPT ![p] = cause] /\ UNCHANGED <<alone, overlap>>
==============================================================================

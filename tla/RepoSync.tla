------------------------------ MODULE RepoSync ------------------------------
(***************************************************************************)
(* reposync: lists the packages of the repositories, adds their builds and *)
(* links, downloads the packages and stores what they provide              *)
(* (actions/reposync.py, repos/, faf_rpm.py).                              *)
(***************************************************************************)
EXTENDS PackageRepo

CONSTANTS
  Syncer,       \* runs of reposync
  Offers,       \* the packages of a repository, for architectures that are known
  ArchOf,       \* the architecture of a package
  RpmMetadata,  \* the repositories that are read without dnf
  SyncOptions,  \* command lines: sets of options
  NoSystem

VARIABLES sync,   \* what each run is doing
          cache,  \* for each repository: its cached metadata
          buildArchs  \* the architectures that builds were seen for

syncVars == <<sync, cache, buildArchs>>

Fresh == [pc |-> "done", opts |-> {}, todo |-> {}, at |-> <<>>, pkgs |-> {}, pkg |-> {},
          build |-> 0, row |-> 0, new |-> FALSE, seen |-> {}, failed |-> {}]

SyncPc == {"done", "dead", "repo", "list", "fetch", "next", "build", "addBuild", "buildArch", "addBuildArch",
           "link", "addLink", "package", "addPackage", "download", "transfer", "provides"}

ASSUME SyncAssumption ==
  /\ Syncer \subseteq Process /\ NoSystem \notin OpSys \cup Release
  /\ Offers \in [RepoName -> SUBSET Pkg] /\ ArchOf \in [Pkg -> Arch] /\ RpmMetadata \subseteq RepoName
  /\ SyncOptions \subseteq SUBSET {"noDownload", "noStore", "noCache"}

\* What a repository is synchronised as: its name, a system, a version and an
\* architecture.
Variant == RepoName \X (OpSys \cup {NoSystem}) \X ({VersionOf[r] : r \in Release} \cup {NoSystem}) \X Arch

SyncRun ==
  [pc : SyncPc, opts : SUBSET {"noDownload", "noStore", "noCache"}, todo : SUBSET Variant,
   at : Variant \cup {<<>>}, pkgs : SUBSET Pkg, pkg : SUBSET Pkg, build : 0..lastId, row : 0..lastId,
   new : BOOLEAN, seen : SUBSET (Pkg \X Variant), failed : SUBSET Pkg]
SyncTypeOK ==
  /\ sync \in [Syncer -> SyncRun]
  /\ cache \in [RepoName -> {"none", "good", "bad"}]
  /\ buildArchs \subseteq Nat \X Arch

SyncInit == sync = [p \in Syncer |-> Fresh] /\ cache = [n \in RepoName |-> "none"] /\ buildArchs = {}

Syncing == {p \in Syncer : sync[p].pc \notin {"done", "dead"}}

\* The variants of a repository.  Without a system it must have no parametrized
\* url.
Parametrized(id, name) ==
  {<<name, OsOf[r], VersionOf[r], a>> :
     r \in {x \in active : OsOf[x] \in AssignedTo(id, OpSys)}, a \in AssignedTo(id, Arch)}
ForReleases(id, name) ==
  {<<name, OsOf[r], VersionOf[r], a>> : r \in AssignedTo(id, Release), a \in AssignedTo(id, Arch)}
Unbound(id, name) ==
  {<<name, NoSystem, NoSystem, a>> : a \in IF "param" \in RepoUrls(id) THEN {} ELSE AssignedTo(id, Arch)}
Instances(id, name) ==
  IF AssignedTo(id, OpSys) # {} THEN Parametrized(id, name)
  ELSE IF AssignedTo(id, Release) # {} THEN ForReleases(id, name) ELSE Unbound(id, name)

Becomes(p, run) == sync' = [sync EXCEPT ![p] = run]
Go(p, pc) == Becomes(p, [sync[p] EXCEPT !.pc = pc])

SyncStart(p, busy) ==
  /\ sync[p].pc \in {"done", "dead"}
  /\ \E opts \in SyncOptions, names \in SUBSET RepoName \ {{}} :
       Becomes(p, [Fresh EXCEPT !.pc = "repo", !.opts = opts,
                     !.todo = UNION {Instances(r[1], r[2]) : r \in {x \in repos : x[2] \in names}}])
  /\ Begin(p, busy) /\ UNCHANGED <<cache, buildArchs, systemVars, packageVars>>

Dead == [Fresh EXCEPT !.pc = "dead"]
SyncDies(p, cause) == Becomes(p, Dead) /\ DieOf(p, cause)

NextRepo(p) ==
  /\ sync[p].pc = "repo"
  /\ IF sync[p].todo = {} THEN Becomes(p, Fresh)
     ELSE \E i \in sync[p].todo : Becomes(p, [sync[p] EXCEPT !.todo = @ \ {i}, !.at = i, !.pc = "list"])
  /\ UNCHANGED <<cache, buildArchs, systemVars, packageVars, processVars>>

Listed(p, pkgs) == Becomes(p, [sync[p] EXCEPT !.pkgs = pkgs, !.pc = "next"])

\* dnf: an error is logged, and nothing is listed.
ListDnf(p) ==
  /\ sync[p].pc = "list" /\ sync[p].at[1] \notin RpmMetadata
  /\ \/ Listed(p, Offers[sync[p].at[1]])
     \/ Listed(p, {})
  /\ UNCHANGED <<cache, buildArchs, systemVars, packageVars, processVars>>

\* Without dnf: a fresh cached file is parsed, whatever it holds; an old one is
\* opened for writing, which truncates it and makes it fresh.
ListCached(p) ==
  LET n == sync[p].at[1] IN
  /\ sync[p].pc = "list" /\ n \in RpmMetadata
  /\ IF cache[n] = "none" \/ "noCache" \in sync[p].opts
     THEN Go(p, "fetch") /\ cache' = [cache EXCEPT ![n] = "bad"]
     ELSE Listed(p, IF cache[n] = "good" THEN Offers[n] ELSE {}) /\ UNCHANGED cache
  /\ UNCHANGED <<buildArchs, systemVars, packageVars, processVars>>

\* Only an HTTP error is caught; a server that does not answer ends the run.
Fetch(p) ==
  LET n == sync[p].at[1] IN
  /\ sync[p].pc = "fetch"
  /\ \/ Listed(p, Offers[n]) /\ cache' = [cache EXCEPT ![n] = "good"] /\ UNCHANGED processVars
     \/ Listed(p, {}) /\ UNCHANGED <<cache, processVars>>
     \/ SyncDies(p, "network") /\ UNCHANGED cache
  /\ UNCHANGED <<buildArchs, systemVars, packageVars>>

CacheExpires ==
  /\ \E n \in RpmMetadata : cache[n] # "none" /\ cache' = [cache EXCEPT ![n] = "none"]
  /\ UNCHANGED <<sync, buildArchs, systemVars, packageVars, processVars>>

NextPackage(p) ==
  /\ sync[p].pc = "next"
  /\ IF sync[p].pkgs = {} THEN Go(p, "repo")
     ELSE \E k \in sync[p].pkgs : Becomes(p, [sync[p] EXCEPT !.pkgs = @ \ {k}, !.pkg = {k}, !.pc = "build"])
  /\ UNCHANGED <<cache, buildArchs, systemVars, packageVars, processVars>>

Package(p) == CHOOSE k \in sync[p].pkg : TRUE
Found(p) == {b \in builds : b.nvr = NvrOf[Package(p)]}

FindBuild(p) ==
  /\ sync[p].pc = "build"
  /\ IF Found(p) = {} THEN Go(p, "addBuild")
     ELSE \E b \in Found(p) : Becomes(p, [sync[p] EXCEPT !.build = b.id, !.pc = "buildArch"])
  /\ UNCHANGED <<cache, buildArchs, systemVars, packageVars, processVars>>

AddBuild(p) ==
  /\ sync[p].pc = "addBuild"
  /\ lastId' = lastId + 1
  /\ builds' = builds \cup {[id |-> lastId + 1, nvr |-> NvrOf[Package(p)]]}
  /\ Becomes(p, [sync[p] EXCEPT !.build = lastId + 1, !.pc = "buildArch"])
  /\ UNCHANGED <<links, buildComponents, packages, provides, whole, part, orphans>>
  /\ UNCHANGED <<cache, buildArchs, systemVars, processVars>>

\* The build is known for the architecture; the rows of a deleted build have
\* gone with it.
FindBuildArch(p) ==
  LET row == <<sync[p].build, ArchOf[Package(p)]>> IN
  /\ sync[p].pc = "buildArch"
  /\ Go(p, IF sync[p].build \in BuildIds /\ row \in buildArchs THEN "link" ELSE "addBuildArch")
  /\ UNCHANGED <<cache, buildArchs, systemVars, packageVars, processVars>>

AddBuildArch(p) ==
  LET row == <<sync[p].build, ArchOf[Package(p)]>> IN
  /\ sync[p].pc = "addBuildArch"
  /\ IF sync[p].build \in BuildIds /\ row \notin buildArchs
     THEN buildArchs' = buildArchs \cup {row} /\ Go(p, "link") /\ UNCHANGED processVars
     ELSE SyncDies(p, "database") /\ UNCHANGED buildArchs
  /\ UNCHANGED <<cache, systemVars, packageVars>>

FindLink(p) ==
  LET at == sync[p].at IN
  /\ sync[p].pc = "link"
  /\ Go(p, IF at[2] = NoSystem \/ LinkSeen(sync[p].build, at[2], at[3], at[4])
           THEN "package" ELSE "addLink")
  /\ UNCHANGED <<cache, buildArchs, systemVars, packageVars, processVars>>

\* Any release with the version, for the system is not joined.
AddLink(p) ==
  LET at == sync[p].at
      candidates == {r \in AnyRelease(at[3]) : at[2] \in opsys}
  IN
  /\ sync[p].pc = "addLink"
  /\ \/ \E r \in candidates :
          LET link == <<sync[p].build, r, at[4]>> IN
          IF sync[p].build \in BuildIds /\ at[4] \in archs /\ link \notin links
          THEN links' = links \cup {link} /\ Go(p, "package") /\ UNCHANGED processVars
          ELSE SyncDies(p, "database") /\ UNCHANGED links
     \/ candidates = {} /\ SyncDies(p, "database") /\ UNCHANGED links
  /\ UNCHANGED <<builds, buildComponents, packages, provides, whole, part, orphans, lastId>>
  /\ UNCHANGED <<cache, buildArchs, systemVars>>

Ready(p, done) ==
  Becomes(p, [sync[p] EXCEPT !.pc = "next", !.build = 0, !.row = 0, !.new = FALSE, !.pkg = {},
                             !.seen = @ \cup {<<Package(p), sync[p].at>>},
                             !.failed = IF done THEN @ ELSE @ \cup {Package(p)}])

\* Mutant: a known package is never downloaded again.
KnownIsComplete(p, id) == TRUE
Complete(p, id) == HasLob(id) \/ "noDownload" \in sync[p].opts

FindPackage(p) ==
  LET rows == {k \in packages : k.pkg = Package(p) /\ k.build = sync[p].build} IN
  /\ sync[p].pc = "package"
  /\ \/ rows = {} /\ Go(p, "addPackage")
     \/ \E k \in rows :
          IF Complete(p, k.id) THEN Ready(p, TRUE)
          ELSE Becomes(p, [sync[p] EXCEPT !.row = k.id, !.new = FALSE, !.pc = "download"])
  /\ UNCHANGED <<cache, buildArchs, systemVars, packageVars, processVars>>

AddPackage(p) ==
  /\ sync[p].pc = "addPackage"
  /\ IF sync[p].build \notin BuildIds
     THEN SyncDies(p, "database") /\ UNCHANGED <<packages, lastId>>
     ELSE /\ lastId' = lastId + 1
          /\ packages' = packages \cup
               {[id |-> lastId + 1, pkg |-> Package(p), build |-> sync[p].build]}
          /\ IF "noDownload" \in sync[p].opts THEN Ready(p, TRUE)
             ELSE Becomes(p, [sync[p] EXCEPT !.row = lastId + 1, !.new = TRUE, !.pc = "download"])
          /\ UNCHANGED processVars
  /\ UNCHANGED <<builds, links, buildComponents, provides, whole, part, orphans, cache, buildArchs, systemVars>>

\* A package that could not be had: its new row is deleted, its file is not.
GiveUp(p) ==
  /\ packages' = {k \in packages : ~(sync[p].new /\ k.id = sync[p].row)}
  /\ orphans' = IF sync[p].new THEN orphans \cup {sync[p].row} ELSE orphans
  /\ Ready(p, FALSE)
  /\ UNCHANGED processVars

Uncaught(p) == sync[p].row \in PackageIds /\ ~sync[p].new /\ SyncDies(p, "network")

\* save_lob refuses to overwrite, so a retry after a broken transfer is of no
\* use; a row that is gone cannot be refreshed.  For a known package the errors
\* of urlopen and of save_lob are caught; another one, such as a connection that
\* breaks before the answer, ends the run.
Download(p) ==
  LET id == sync[p].row IN
  /\ sync[p].pc = "download"
  /\ \/ id \notin PackageIds /\ SyncDies(p, "database") /\ UNCHANGED <<packages, orphans, part>>
     \/ id \in PackageIds /\ GiveUp(p) /\ UNCHANGED part
     \/ Uncaught(p) /\ UNCHANGED <<packages, orphans, part>>
     \/ /\ id \in PackageIds /\ ~HasLob(id)
        /\ part' = part \cup {id} /\ Go(p, "transfer") /\ UNCHANGED <<packages, orphans, processVars>>
  /\ UNCHANGED <<builds, links, buildComponents, provides, whole, lastId, cache, buildArchs, systemVars>>

\* The file may have been unlinked while it was written.
Transfer(p) ==
  LET id == sync[p].row IN
  /\ sync[p].pc = "transfer"
  /\ \/ /\ part' = part \ {id}
        /\ whole' = IF HasLob(id) THEN whole \cup {id} ELSE whole
        /\ IF sync[p].new THEN Go(p, "provides") ELSE Ready(p, TRUE)
        /\ UNCHANGED <<packages, orphans, processVars>>
     \/ /\ id \in PackageIds /\ GiveUp(p) /\ UNCHANGED <<whole, part>>
     \/ Uncaught(p) /\ UNCHANGED <<packages, orphans, whole, part>>
     \/ /\ id \notin PackageIds /\ SyncDies(p, "database") /\ UNCHANGED <<packages, orphans, whole, part>>
  /\ UNCHANGED <<builds, links, buildComponents, provides, lastId, cache, buildArchs, systemVars>>

StoreProvides(p) ==
  LET id == sync[p].row IN
  /\ sync[p].pc = "provides"
  /\ \/ id \notin PackageIds /\ SyncDies(p, "database")
                             /\ UNCHANGED <<packages, orphans, provides, whole, part>>
     \/ id \in PackageIds /\ GiveUp(p) /\ UNCHANGED <<provides, whole, part>>
     \/ /\ id \in PackageIds /\ HasLob(id)
        /\ provides' = provides \cup {id} /\ Ready(p, TRUE)
        /\ IF "noStore" \in sync[p].opts THEN DeletePackageFile(id) ELSE UNCHANGED <<whole, part>>
        /\ UNCHANGED <<packages, orphans, processVars>>
  /\ UNCHANGED <<builds, links, buildComponents, lastId, cache, buildArchs, systemVars>>

\* The run is killed.
SyncKill(p) ==
  /\ p \in Syncing /\ Becomes(p, Dead)
  /\ UNCHANGED <<cache, buildArchs, systemVars, packageVars, processVars>>

SyncStep(p) ==
  \/ NextRepo(p) \/ ListDnf(p) \/ ListCached(p) \/ Fetch(p) \/ NextPackage(p)
  \/ FindBuild(p) \/ AddBuild(p) \/ FindBuildArch(p) \/ AddBuildArch(p)
  \/ FindLink(p) \/ AddLink(p) \/ FindPackage(p) \/ AddPackage(p)
  \/ Download(p) \/ Transfer(p) \/ StoreProvides(p) \/ SyncKill(p)
==============================================================================

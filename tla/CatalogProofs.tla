---------------------------- MODULE CatalogProofs ----------------------------
(***************************************************************************)
(* What Catalog says of its runs, proved for any processes, repositories,  *)
(* packages and releases.                                                  *)
(*                                                                         *)
(* The properties speak of a run that nothing overlaps: what it has looked *)
(* up stays as it was.  So the inductive invariant says, for each place    *)
(* of a run that is alone, what it knows there (SyncCalm, CleanCalm,       *)
(* AdminCalm).  Nobody else can break it, because nobody else is busy      *)
(* (SoloInv), and a process that starts ends the solitude.                 *)
(***************************************************************************)
EXTENDS Catalog, TLAPS

-----------------------------------------------------------------------------
(* Types and keys, whoever is at work. *)

AtPackage == {"build", "addBuild", "buildArch", "addBuildArch", "link", "addLink", "package", "addPackage",
              "download", "transfer", "provides"}
AtVariant == AtPackage \cup {"list", "fetch", "next"}
AtRow == {"download", "transfer", "provides"}

\* A run at work on a variant and a package has them; it stores what a package
\* provides only if it has added its row.
SyncShape ==
  \A p \in Syncer :
    /\ sync[p].pc \in AtVariant => sync[p].at \in Variant
    /\ sync[p].pc \in AtPackage => \E k \in Pkg : sync[p].pkg = {k}
    /\ sync[p].pc = "provides" => sync[p].new

\* A run that has just added a row, and may delete it again.
Fetching(p) == sync[p].pc \in AtRow /\ sync[p].new
RowsInv ==
  /\ \A k, l \in packages : k.id = l.id => k = l
  /\ \A p \in Syncer : Fetching(p) => sync[p].row \notin provides
  /\ \A p, q \in Syncer : Fetching(p) /\ Fetching(q) /\ sync[p].row = sync[q].row => p = q

\* What a flush deletes, and what makes a release active.
AdminShape ==
  \A p \in Admin :
    /\ \A x \in admin[p].del : x[1] \notin {"arch", "release", "link", "buildComponent", "person", "component"}
    /\ \A x \in admin[p].add : x[1] = "active" => <<"release", x[2]>> \in admin[p].add \cup admin[p].need

TypeInv == TypeOK /\ KeysHold /\ SyncShape /\ RowsInv /\ AdminShape

-----------------------------------------------------------------------------
(* Who is alone. *)

Calm(p) == p \in Busy /\ alone[p]

SoloInv ==
  /\ \A p \in Busy : alone[p] => Busy = {p}
  /\ \A p \in Busy : dead[p] = "no" /\ (~overlap => alone[p])

-----------------------------------------------------------------------------
(* What a run that is alone knows. *)

\* reposync: a variant of systems, releases and architectures that there are.
Stands(i) == i[2] # NoSystem => i[2] \in opsys /\ i[4] \in archs /\ AnyRelease(i[3]) # {}
Linked(build, i) == i[2] # NoSystem => LinkSeen(build, i[2], i[3], i[4])
Stored(x) == \E k \in packages : k.pkg = x[1] /\ HasLob(k.id) /\ Linked(k.build, x[2])

Ahead(p) ==
  /\ \A i \in sync[p].todo : Stands(i)
  /\ sync[p].pc \in AtVariant => Stands(sync[p].at)
Here(p) ==
  LET s == sync[p] IN
  /\ s.pc = "addBuild" => Found(p) = {}
  /\ s.pc \in AtPackage \ {"build", "addBuild"} =>
       \E b \in builds : b.id = s.build /\ b.nvr = NvrOf[Package(p)]
  /\ s.pc = "addBuildArch" => <<s.build, ArchOf[Package(p)]>> \notin buildArchs
  /\ s.pc = "addLink" => s.at[2] # NoSystem /\ ~LinkSeen(s.build, s.at[2], s.at[3], s.at[4])
  /\ s.pc \in AtRow \cup {"package", "addPackage"} => Linked(s.build, s.at)
  /\ s.pc = "addPackage" => ~\E k \in packages : k.pkg = Package(p) /\ k.build = s.build
  /\ s.pc \in AtRow => \E k \in packages : k.id = s.row /\ k.pkg = Package(p) /\ k.build = s.build
  /\ s.pc \in {"transfer", "provides"} => HasLob(s.row)
SeenStored(p) ==
  sync[p].opts \cap {"noDownload", "noStore"} = {} =>
    \A x \in sync[p].seen : x[1] \notin sync[p].failed => Stored(x)
SyncCalm(p) == Ahead(p) /\ Here(p) /\ SeenStored(p)

\* The clean-ups: a build that is to go has no link but those of its release or
\* architecture, and what was deleted of it is gone.
RowsAt(c) == UNION {PackagesOf(b) : b \in clean[c].build}
TodoCalm(c) == \A b \in clean[c].todo \cup clean[c].build, l \in links : l[1] = b => l \in Pointing(c)
CleanCalm(c) ==
  LET s == clean[c] IN
  /\ s.pc \notin {"done", "dead"} => s.op # "none"
  /\ s.op = "unassigned" => s.target = {}
  /\ TodoCalm(c)
  /\ s.pc = "files" => /\ s.files \subseteq RowsAt(c)
                       /\ \A id \in RowsAt(c) : HasLob(id) => id \in s.files
                       /\ s.op = "unassigned" => RowsAt(c) \cap provides \subseteq s.files
  /\ s.pc \in {"rows", "build"} => s.op = "unassigned"
  /\ s.pc = "rows" => \A id \in RowsAt(c) : ~HasLob(id) /\ id \notin provides
  /\ s.pc = "build" => \A k \in packages : k.build \notin s.build
  /\ s.pc \in {"repos", "reports", "release"} => s.op = "releasedel"
  /\ s.op = "releasedel" /\ s.pc # "unlink" => Pointing(c) = {}
  /\ s.pc \in {"reports", "release"} => \A x \in assigned : x[2] \notin s.target
  /\ s.pc = "release" => inUse \cap s.target = {}

\* Administration: the flush will be accepted, and gives no name twice.
MayDie == {"opsysdel", "repoimport", "assignRelease"}
UniqueNames(rows) == \A r, s \in rows : r[2] = s[2] => r = s
AdminCalm(a) ==
  /\ admin[a].op \notin MayDie => ~Refused(a)
  /\ UniqueNames(repos) => UniqueNames(After(a, "repo"))

CalmInv ==
  /\ \A p \in Syncer : Calm(p) => SyncCalm(p)
  /\ \A c \in Cleaner : Calm(c) => CleanCalm(c)
  /\ \A a \in Admin : Calm(a) => AdminCalm(a)

\* While nothing has overlapped.
History ==
  /\ UniqueNames(repos)
  /\ \A b, c \in builds : b.nvr = c.nvr => b = c
  /\ \A k, l \in packages : k.pkg = l.pkg => k = l
  /\ \A k \in packages : \E b \in builds : b.id = k.build /\ b.nvr = NvrOf[k.pkg]
  /\ whole \cup part \subseteq PackageIds \cup orphans
HistoryInv == ~overlap => History

IInv == TypeInv /\ SoloInv /\ CalmInv /\ HistoryInv /\ CalmRunsSurvive

-----------------------------------------------------------------------------
(* Types and keys are kept. *)

\* The package of a run at work on one.
LEMMA PackageIs ==
  ASSUME NEW p \in Syncer, NEW k, sync[p].pkg = {k}
  PROVE  Package(p) = k
BY DEF Package

\* What others write leaves the types of a run.
LEMMA SyncRunGrows ==
  ASSUME lastId \in Nat, lastId' \in Nat, lastId <= lastId'
  PROVE  SyncRun \subseteq SyncRun'
<1>1. 0..lastId \subseteq 0..lastId'
  OBVIOUS
<1>2. QED
  BY <1>1 DEF SyncRun

\* What they write leaves the types of a clean-up.
LEMMA CleanRunGrows ==
  ASSUME lastId \in Nat, lastId' \in Nat, lastId <= lastId'
  PROVE  CleanRun \subseteq CleanRun'
<1>1. 1..lastId \subseteq 1..lastId'
  OBVIOUS
<1>2. QED
  BY <1>1 DEF CleanRun

\* And those of a plan.
LEMMA AdminRunGrows ==
  ASSUME lastId \in Nat, lastId' \in Nat, lastId <= lastId', archs \subseteq archs'
  PROVE  AnyRow \subseteq AnyRow' /\ AdminRun \subseteq AdminRun'
<1>1. 1..lastId \subseteq 1..lastId' /\ 0..lastId \subseteq 0..lastId'
  OBVIOUS
<1>2. AnyRow \subseteq AnyRow'
  BY <1>1 DEF AnyRow
<1>3. QED
  BY <1>2 DEF AdminRun

\* A run that becomes another leaves the others alone.
LEMMA BecomesEffect ==
  ASSUME sync \in [Syncer -> SyncRun], NEW p \in Syncer, NEW r, Becomes(p, r)
  PROVE  sync'[p] = r /\ Becomes(p, sync'[p]) /\ \A q \in Syncer \ {p} : sync'[q] = sync[q]
BY DEF Becomes

\* A run of the right type becomes another.
LEMMA BecomesType ==
  ASSUME sync \in [Syncer -> SyncRun], NEW p \in Syncer, Becomes(p, sync'[p]), sync'[p] \in SyncRun',
         lastId \in Nat, lastId' \in Nat, lastId <= lastId'
  PROVE  sync' \in [Syncer -> SyncRun']
<1>1. SyncRun \subseteq SyncRun'
  BY SyncRunGrows
<1>2. QED
  BY <1>1 DEF Becomes

\* A run that is over.
LEMMA OverEffect ==
  ASSUME lastId' \in Nat
  PROVE  Fresh \in SyncRun' /\ Dead \in SyncRun' /\ Fresh.pc = "done" /\ Dead.pc = "dead"
<1>1. Fresh \in SyncRun'
  BY DEF Fresh, SyncRun, SyncPc
<1>2. Dead \in SyncRun'
  BY <1>1 DEF Dead, SyncRun, SyncPc
<1>3. QED
  BY <1>1, <1>2 DEF Fresh, Dead

\* The sets that the parts of a run are from, named so that a step on a run
\* need not look into them.
Options == SUBSET {"noDownload", "noStore", "noCache"}
Variants == SUBSET Variant
Places == Variant \cup {<<>>}
PkgSets == SUBSET Pkg
Ids == 0..lastId
Truths == BOOLEAN
Marks == SUBSET (Pkg \X Variant)

\* The parts of a run, by these names.
LEMMA RunParts ==
  SyncRun' = [pc : SyncPc, opts : Options, todo : Variants, at : Places, pkgs : PkgSets, pkg : PkgSets,
              build : Ids', row : Ids', new : Truths, seen : Marks, failed : PkgSets]
BY DEF SyncRun, Options, Variants, Places, PkgSets, Ids, Truths, Marks

\* A run goes on at another place.
LEMMA GoEffect ==
  ASSUME sync \in [Syncer -> SyncRun], NEW p \in Syncer, NEW pc \in SyncPc,
         Go(p, pc),
         lastId \in Nat, lastId' \in Nat, lastId <= lastId'
  PROVE  /\ Becomes(p, sync'[p]) /\ sync'[p] \in SyncRun'
         /\ sync'[p].pc = pc
         /\ sync'[p].opts = sync[p].opts /\ sync'[p].todo = sync[p].todo /\ sync'[p].at = sync[p].at
         /\ sync'[p].pkgs = sync[p].pkgs /\ sync'[p].pkg = sync[p].pkg /\ sync'[p].build = sync[p].build
         /\ sync'[p].row = sync[p].row /\ sync'[p].new = sync[p].new /\ sync'[p].seen = sync[p].seen
         /\ sync'[p].failed = sync[p].failed
<1>1. sync[p] \in SyncRun' /\ sync[p] \in SyncRun
  BY SyncRunGrows
<1>2. Becomes(p, sync'[p]) /\ sync'[p] = [sync[p] EXCEPT !.pc = pc]
  BY BecomesEffect DEF Go
<1>4. /\ sync'[p] \in SyncRun'
      /\ sync'[p].pc = pc
      /\ sync'[p].opts = sync[p].opts /\ sync'[p].todo = sync[p].todo /\ sync'[p].at = sync[p].at
      /\ sync'[p].pkgs = sync[p].pkgs /\ sync'[p].pkg = sync[p].pkg /\ sync'[p].build = sync[p].build
      /\ sync'[p].row = sync[p].row /\ sync'[p].new = sync[p].new /\ sync'[p].seen = sync[p].seen
      /\ sync'[p].failed = sync[p].failed
  BY <1>1, <1>2, RunParts
<1>5. QED
  BY <1>2, <1>4

\* A run has a listing.
LEMMA ListedEffect ==
  ASSUME sync \in [Syncer -> SyncRun], NEW p \in Syncer, NEW pkgs \in SUBSET Pkg,
         Listed(p, pkgs),
         lastId \in Nat, lastId' \in Nat, lastId <= lastId'
  PROVE  /\ Becomes(p, sync'[p]) /\ sync'[p] \in SyncRun'
         /\ sync'[p].pkgs = pkgs /\ sync'[p].pc = "next"
         /\ sync'[p].opts = sync[p].opts /\ sync'[p].todo = sync[p].todo /\ sync'[p].at = sync[p].at
         /\ sync'[p].pkg = sync[p].pkg /\ sync'[p].build = sync[p].build /\ sync'[p].row = sync[p].row
         /\ sync'[p].new = sync[p].new /\ sync'[p].seen = sync[p].seen /\ sync'[p].failed = sync[p].failed
<1>1. sync[p] \in SyncRun' /\ sync[p] \in SyncRun
  BY SyncRunGrows
<1>2. Becomes(p, sync'[p]) /\ sync'[p] = [sync[p] EXCEPT !.pkgs = pkgs, !.pc = "next"]
  BY BecomesEffect DEF Listed
<1>3. pkgs \in PkgSets /\ "next" \in SyncPc
  BY <1>1 DEF PkgSets, SyncPc
<1>4. /\ sync'[p] \in SyncRun'
      /\ sync'[p].pkgs = pkgs /\ sync'[p].pc = "next"
      /\ sync'[p].opts = sync[p].opts /\ sync'[p].todo = sync[p].todo /\ sync'[p].at = sync[p].at
      /\ sync'[p].pkg = sync[p].pkg /\ sync'[p].build = sync[p].build /\ sync'[p].row = sync[p].row
      /\ sync'[p].new = sync[p].new /\ sync'[p].seen = sync[p].seen /\ sync'[p].failed = sync[p].failed
  BY <1>1, <1>2, <1>3, RunParts
<1>5. QED
  BY <1>2, <1>4

\* A run takes up a variant.
LEMMA NextEffect ==
  ASSUME sync \in [Syncer -> SyncRun], NEW p \in Syncer, NEW i \in sync[p].todo,
         Becomes(p, [sync[p] EXCEPT !.todo = sync[p].todo \ {i}, !.at = i, !.pc = "list"]),
         lastId \in Nat, lastId' \in Nat, lastId <= lastId'
  PROVE  /\ Becomes(p, sync'[p]) /\ sync'[p] \in SyncRun'
         /\ sync'[p].todo = sync[p].todo \ {i} /\ sync'[p].at = i /\ sync'[p].pc = "list"
         /\ sync'[p].opts = sync[p].opts /\ sync'[p].pkgs = sync[p].pkgs /\ sync'[p].pkg = sync[p].pkg
         /\ sync'[p].build = sync[p].build /\ sync'[p].row = sync[p].row /\ sync'[p].new = sync[p].new
         /\ sync'[p].seen = sync[p].seen /\ sync'[p].failed = sync[p].failed
<1> DEFINE todo == sync[p].todo \ {i}
<1>1. sync[p] \in SyncRun' /\ sync[p] \in SyncRun
  BY SyncRunGrows
<1>2. Becomes(p, sync'[p]) /\ sync'[p] = [sync[p] EXCEPT !.todo = todo, !.at = i, !.pc = "list"]
  BY BecomesEffect
<1>3. todo \in Variants /\ i \in Places /\ "list" \in SyncPc
  BY <1>1 DEF Variants, Places, SyncPc, SyncRun
<1> HIDE DEF todo
<1>4. /\ sync'[p] \in SyncRun'
      /\ sync'[p].todo = todo /\ sync'[p].at = i /\ sync'[p].pc = "list"
      /\ sync'[p].opts = sync[p].opts /\ sync'[p].pkgs = sync[p].pkgs /\ sync'[p].pkg = sync[p].pkg
      /\ sync'[p].build = sync[p].build /\ sync'[p].row = sync[p].row /\ sync'[p].new = sync[p].new
      /\ sync'[p].seen = sync[p].seen /\ sync'[p].failed = sync[p].failed
  BY <1>1, <1>2, <1>3, RunParts
<1>5. QED
  BY <1>2, <1>4 DEF todo

\* A run takes up a package.
LEMMA TakeEffect ==
  ASSUME sync \in [Syncer -> SyncRun], NEW p \in Syncer, NEW k \in sync[p].pkgs,
         Becomes(p, [sync[p] EXCEPT !.pkgs = sync[p].pkgs \ {k}, !.pkg = {k}, !.pc = "build"]),
         lastId \in Nat, lastId' \in Nat, lastId <= lastId'
  PROVE  /\ Becomes(p, sync'[p]) /\ sync'[p] \in SyncRun'
         /\ sync'[p].pkgs = sync[p].pkgs \ {k} /\ sync'[p].pkg = {k} /\ sync'[p].pc = "build"
         /\ sync'[p].opts = sync[p].opts /\ sync'[p].todo = sync[p].todo /\ sync'[p].at = sync[p].at
         /\ sync'[p].build = sync[p].build /\ sync'[p].row = sync[p].row /\ sync'[p].new = sync[p].new
         /\ sync'[p].seen = sync[p].seen /\ sync'[p].failed = sync[p].failed
<1> DEFINE rest == sync[p].pkgs \ {k}
           pkg == {k}
<1>1. sync[p] \in SyncRun' /\ sync[p] \in SyncRun
  BY SyncRunGrows
<1>2. Becomes(p, sync'[p]) /\ sync'[p] = [sync[p] EXCEPT !.pkgs = rest, !.pkg = pkg, !.pc = "build"]
  BY BecomesEffect
<1>3. rest \in PkgSets /\ pkg \in PkgSets /\ "build" \in SyncPc
  BY <1>1 DEF PkgSets, SyncPc, SyncRun
<1> HIDE DEF rest, pkg
<1>4. /\ sync'[p] \in SyncRun'
      /\ sync'[p].pkgs = rest /\ sync'[p].pkg = pkg /\ sync'[p].pc = "build"
      /\ sync'[p].opts = sync[p].opts /\ sync'[p].todo = sync[p].todo /\ sync'[p].at = sync[p].at
      /\ sync'[p].build = sync[p].build /\ sync'[p].row = sync[p].row /\ sync'[p].new = sync[p].new
      /\ sync'[p].seen = sync[p].seen /\ sync'[p].failed = sync[p].failed
  BY <1>1, <1>2, <1>3, RunParts
<1>5. QED
  BY <1>2, <1>4 DEF rest, pkg

\* A run has a build.
LEMMA BuildEffect ==
  ASSUME sync \in [Syncer -> SyncRun], NEW p \in Syncer, NEW id \in 0..lastId',
         Becomes(p, [sync[p] EXCEPT !.build = id, !.pc = "buildArch"]),
         lastId \in Nat, lastId' \in Nat, lastId <= lastId'
  PROVE  /\ Becomes(p, sync'[p]) /\ sync'[p] \in SyncRun'
         /\ sync'[p].build = id /\ sync'[p].pc = "buildArch"
         /\ sync'[p].opts = sync[p].opts /\ sync'[p].todo = sync[p].todo /\ sync'[p].at = sync[p].at
         /\ sync'[p].pkgs = sync[p].pkgs /\ sync'[p].pkg = sync[p].pkg /\ sync'[p].row = sync[p].row
         /\ sync'[p].new = sync[p].new /\ sync'[p].seen = sync[p].seen /\ sync'[p].failed = sync[p].failed
<1>1. sync[p] \in SyncRun' /\ sync[p] \in SyncRun
  BY SyncRunGrows
<1>2. Becomes(p, sync'[p]) /\ sync'[p] = [sync[p] EXCEPT !.build = id, !.pc = "buildArch"]
  BY BecomesEffect
<1>3. id \in Ids' /\ "buildArch" \in SyncPc
  BY <1>1 DEF Ids, SyncPc
<1>4. /\ sync'[p] \in SyncRun'
      /\ sync'[p].build = id /\ sync'[p].pc = "buildArch"
      /\ sync'[p].opts = sync[p].opts /\ sync'[p].todo = sync[p].todo /\ sync'[p].at = sync[p].at
      /\ sync'[p].pkgs = sync[p].pkgs /\ sync'[p].pkg = sync[p].pkg /\ sync'[p].row = sync[p].row
      /\ sync'[p].new = sync[p].new /\ sync'[p].seen = sync[p].seen /\ sync'[p].failed = sync[p].failed
  BY <1>1, <1>2, <1>3, RunParts
<1>5. QED
  BY <1>2, <1>4

\* A run has a row of a package to fill.
LEMMA RowEffect ==
  ASSUME sync \in [Syncer -> SyncRun], NEW p \in Syncer, NEW id \in 0..lastId', NEW isNew \in BOOLEAN,
         Becomes(p, [sync[p] EXCEPT !.row = id, !.new = isNew, !.pc = "download"]),
         lastId \in Nat, lastId' \in Nat, lastId <= lastId'
  PROVE  /\ Becomes(p, sync'[p]) /\ sync'[p] \in SyncRun'
         /\ sync'[p].row = id /\ sync'[p].new = isNew /\ sync'[p].pc = "download"
         /\ sync'[p].opts = sync[p].opts /\ sync'[p].todo = sync[p].todo /\ sync'[p].at = sync[p].at
         /\ sync'[p].pkgs = sync[p].pkgs /\ sync'[p].pkg = sync[p].pkg /\ sync'[p].build = sync[p].build
         /\ sync'[p].seen = sync[p].seen /\ sync'[p].failed = sync[p].failed
<1>1. sync[p] \in SyncRun' /\ sync[p] \in SyncRun
  BY SyncRunGrows
<1>2. Becomes(p, sync'[p]) /\ sync'[p] = [sync[p] EXCEPT !.row = id, !.new = isNew, !.pc = "download"]
  BY BecomesEffect
<1>3. id \in Ids' /\ isNew \in Truths /\ "download" \in SyncPc
  BY <1>1 DEF Ids, Truths, SyncPc
<1>4. /\ sync'[p] \in SyncRun'
      /\ sync'[p].row = id /\ sync'[p].new = isNew /\ sync'[p].pc = "download"
      /\ sync'[p].opts = sync[p].opts /\ sync'[p].todo = sync[p].todo /\ sync'[p].at = sync[p].at
      /\ sync'[p].pkgs = sync[p].pkgs /\ sync'[p].pkg = sync[p].pkg /\ sync'[p].build = sync[p].build
      /\ sync'[p].seen = sync[p].seen /\ sync'[p].failed = sync[p].failed
  BY <1>1, <1>2, <1>3, RunParts
<1>5. QED
  BY <1>2, <1>4

\* A run that is done with a package.
LEMMA ReadyEffect ==
  ASSUME sync \in [Syncer -> SyncRun], NEW p \in Syncer, NEW done \in BOOLEAN, Ready(p, done),
         sync[p].at \in Variant, Package(p) \in Pkg,
         lastId \in Nat, lastId' \in Nat, lastId <= lastId'
  PROVE  /\ Becomes(p, sync'[p]) /\ sync'[p] \in SyncRun'
         /\ sync'[p].pc = "next" /\ sync'[p].new = FALSE
         /\ sync'[p].opts = sync[p].opts /\ sync'[p].todo = sync[p].todo /\ sync'[p].at = sync[p].at
         /\ sync'[p].pkgs = sync[p].pkgs
         /\ sync'[p].seen = sync[p].seen \cup {<<Package(p), sync[p].at>>}
         /\ sync'[p].failed = sync[p].failed \cup IF done THEN {} ELSE {Package(p)}
<1> DEFINE s == sync[p]
           seen == s.seen \cup {<<Package(p), s.at>>}
           failed == IF done THEN s.failed ELSE s.failed \cup {Package(p)}
           r == [s EXCEPT !.pc = "next", !.build = 0, !.row = 0, !.new = FALSE, !.pkg = {},
                          !.seen = seen, !.failed = failed]
<1>1. Becomes(p, r)
  BY DEF Ready
<1>2. s \in SyncRun /\ s \in SyncRun' /\ sync'[p] = r /\ Becomes(p, sync'[p])
  BY <1>1, BecomesEffect, SyncRunGrows
<1>3. seen \subseteq Pkg \X Variant /\ failed \subseteq Pkg
  BY <1>2 DEF SyncRun
<1>4. failed = s.failed \cup IF done THEN {} ELSE {Package(p)}
  OBVIOUS
<1>5. seen \in Marks /\ failed \in PkgSets /\ {} \in PkgSets /\ 0 \in Ids' /\ FALSE \in Truths /\ "next" \in SyncPc
  BY <1>3 DEF Marks, PkgSets, Ids, Truths, SyncPc
<1> HIDE DEF seen, failed
<1>6. /\ sync'[p] \in SyncRun' /\ sync'[p].pc = "next" /\ sync'[p].new = FALSE
      /\ sync'[p].seen = seen /\ sync'[p].failed = failed
      /\ sync'[p].opts = s.opts /\ sync'[p].todo = s.todo /\ sync'[p].at = s.at /\ sync'[p].pkgs = s.pkgs
  BY <1>2, <1>5, RunParts
<1> USE DEF seen
<1>7. QED
  BY <1>2, <1>4, <1>6

\* What a step of reposync does to its run.
RunMoves(p) ==
  /\ lastId' \in Nat /\ lastId <= lastId' /\ Becomes(p, sync'[p]) /\ sync'[p] \in SyncRun'
  /\ sync'[p].pc \in AtVariant => sync'[p].at \in Variant
  /\ sync'[p].pc \in AtPackage => \E k \in Pkg : sync'[p].pkg = {k}
  /\ sync'[p].pc = "provides" => sync'[p].new
  /\ Fetching(p)' => \/ sync'[p].row = lastId + 1 /\ lastId' = lastId + 1
                     \/ Fetching(p) /\ sync'[p].row = sync[p].row

\* What the types say of a run.
LEMMA RunTypes ==
  ASSUME TypeInv, NEW p \in Syncer
  PROVE  /\ sync \in [Syncer -> SyncRun] /\ sync[p] \in SyncRun /\ lastId \in Nat /\ lastId <= lastId
         /\ lastId + 1 \in Nat /\ lastId <= lastId + 1 /\ lastId + 1 \in 0..(lastId + 1)
         /\ sync[p].pc \in AtVariant => sync[p].at \in Variant
         /\ sync[p].pc \in AtPackage => /\ \E k \in Pkg : sync[p].pkg = {k}
                                        /\ Package(p) \in Pkg /\ sync[p].pkg = {Package(p)}
<1>1. sync \in [Syncer -> SyncRun] /\ lastId \in Nat
  BY DEF TypeInv, TypeOK, SyncTypeOK, RepoTypeOK
<1>2. lastId <= lastId /\ lastId <= lastId + 1 /\ lastId + 1 \in Nat /\ lastId + 1 \in 0..(lastId + 1)
  BY <1>1
<1>3. /\ sync[p].pc \in AtVariant => sync[p].at \in Variant
      /\ sync[p].pc \in AtPackage => \E k \in Pkg : sync[p].pkg = {k}
  BY DEF TypeInv, SyncShape
<1>4. QED
  BY <1>1, <1>2, <1>3, PackageIs

\* Steps between the packages.
LEMMA ListingMoves ==
  ASSUME SyncAssumption, TypeInv, NEW p \in Syncer,
         NextRepo(p) \/ ListDnf(p) \/ ListCached(p) \/ Fetch(p) \/ NextPackage(p)
  PROVE  RunMoves(p) /\ cache' \in [RepoName -> {"none", "good", "bad"}] /\ UNCHANGED <<systemVars, packageVars>>
<1>0. UNCHANGED <<systemVars, packageVars>>
  BY DEF NextRepo, ListDnf, ListCached, Fetch, NextPackage
<1>1. lastId' = lastId /\ lastId' \in Nat /\ lastId <= lastId'
  BY <1>0, RunTypes DEF packageVars
<1>2. cache \in [RepoName -> {"none", "good", "bad"}]
  BY DEF TypeInv, TypeOK, SyncTypeOK
<1>3. sync[p].pc = "list" \/ sync[p].pc = "fetch" => Offers[sync[p].at[1]] \subseteq Pkg
  BY RunTypes, SyncAssumption DEF Variant, AtVariant
<1>4. CASE NextRepo(p)
  <2>1. ASSUME Becomes(p, Fresh) PROVE RunMoves(p)
    BY <1>1, <2>1, RunTypes, OverEffect, BecomesEffect DEF RunMoves, AtVariant, AtPackage, AtRow, Fetching
  <2>2. ASSUME ~Becomes(p, Fresh) PROVE RunMoves(p)
    <3>1. PICK i \in sync[p].todo : Becomes(p, [sync[p] EXCEPT !.todo = @ \ {i}, !.at = i, !.pc = "list"])
      BY <1>4, <2>2 DEF NextRepo
    <3>2. i \in Variant
      BY RunTypes DEF SyncRun
    <3>3. sync'[p].pc = "list" /\ sync'[p].at = i /\ Becomes(p, sync'[p]) /\ sync'[p] \in SyncRun'
      BY <1>1, <3>1, RunTypes, NextEffect
    <3>4. QED
      BY <1>1, <3>2, <3>3 DEF RunMoves, AtVariant, AtPackage, AtRow, Fetching
  <2>3. QED
    BY <1>0, <1>2, <1>4, <2>1, <2>2 DEF NextRepo
<1>5. ASSUME NEW pkgs \in SUBSET Pkg, Listed(p, pkgs), sync[p].pc \in AtVariant PROVE RunMoves(p)
  BY <1>1, <1>5, RunTypes, ListedEffect DEF RunMoves, AtVariant, AtPackage, AtRow, Fetching
<1>6. CASE ListDnf(p)
  <2>1. sync[p].pc \in AtVariant /\ Offers[sync[p].at[1]] \subseteq Pkg
    BY <1>3, <1>6 DEF ListDnf, AtVariant
  <2>2. RunMoves(p)
    BY <1>5, <1>6, <2>1 DEF ListDnf
  <2>3. QED
    BY <1>0, <1>2, <1>6, <2>2 DEF ListDnf
<1>7. CASE ListCached(p)
  <2>1. sync[p].pc \in AtVariant /\ Offers[sync[p].at[1]] \subseteq Pkg
    BY <1>3, <1>7 DEF ListCached, AtVariant
  <2>2. CASE Go(p, "fetch")
    <3>1. "fetch" \in SyncPc
      BY DEF SyncPc
    <3>2. RunMoves(p)
      BY <1>1, <2>1, <2>2, <3>1, RunTypes, GoEffect DEF RunMoves, AtVariant, AtPackage, AtRow, Fetching
    <3>3. QED
      BY <1>0, <1>2, <1>7, <3>2 DEF ListCached
  <2>3. CASE ~Go(p, "fetch")
    <3>1. \E pkgs \in SUBSET Pkg : Listed(p, pkgs)
      BY <1>7, <2>1, <2>3 DEF ListCached
    <3>2. QED
      BY <1>0, <1>2, <1>5, <1>7, <2>1, <3>1 DEF ListCached
  <2>4. QED
    BY <2>2, <2>3
<1>8. CASE Fetch(p)
  <2>1. sync[p].pc \in AtVariant /\ Offers[sync[p].at[1]] \subseteq Pkg
    BY <1>3, <1>8 DEF Fetch, AtVariant
  <2>2. CASE Becomes(p, Dead)
    <3>1. RunMoves(p)
      BY <1>1, <2>2, RunTypes, OverEffect, BecomesEffect DEF RunMoves, AtVariant, AtPackage, AtRow, Fetching
    <3>2. QED
      BY <1>0, <1>2, <1>8, <3>1 DEF Fetch
  <2>3. CASE ~Becomes(p, Dead)
    <3>1. \E pkgs \in SUBSET Pkg : Listed(p, pkgs)
      BY <1>8, <2>1, <2>3 DEF Fetch, SyncDies
    <3>2. QED
      BY <1>0, <1>2, <1>5, <1>8, <2>1, <3>1 DEF Fetch
  <2>4. QED
    BY <2>2, <2>3
<1>9. CASE NextPackage(p)
  <2>1. sync[p].pc \in AtVariant
    BY <1>9 DEF NextPackage, AtVariant
  <2>2. CASE Go(p, "repo")
    <3>1. "repo" \in SyncPc
      BY DEF SyncPc
    <3>2. sync'[p].pc = "repo" /\ Becomes(p, sync'[p]) /\ sync'[p] \in SyncRun'
      BY <1>1, <2>2, <3>1, RunTypes, GoEffect
    <3>3. RunMoves(p)
      BY <1>1, <3>2 DEF RunMoves, AtVariant, AtPackage, AtRow, Fetching
    <3>4. QED
      BY <1>0, <1>2, <1>9, <3>3 DEF NextPackage
  <2>3. CASE ~Go(p, "repo")
    <3>1. PICK k \in sync[p].pkgs : Becomes(p, [sync[p] EXCEPT !.pkgs = @ \ {k}, !.pkg = {k}, !.pc = "build"])
      BY <1>9, <2>3 DEF NextPackage
    <3>2. k \in Pkg
      BY RunTypes DEF SyncRun
    <3>3. /\ sync'[p].pc = "build" /\ sync'[p].pkg = {k} /\ sync'[p].at = sync[p].at
          /\ Becomes(p, sync'[p]) /\ sync'[p] \in SyncRun'
      BY <1>1, <3>1, RunTypes, TakeEffect
    <3>4. RunMoves(p)
      BY <1>1, <2>1, <3>2, <3>3, RunTypes DEF RunMoves, AtVariant, AtPackage, AtRow, Fetching
    <3>5. QED
      BY <1>0, <1>2, <1>9, <3>4 DEF NextPackage
  <2>4. QED
    BY <2>2, <2>3
<1>10. QED
  BY <1>4, <1>6, <1>7, <1>8, <1>9

\* A run that dies.
LEMMA DeadMoves ==
  ASSUME TypeInv, NEW p \in Syncer, Becomes(p, Dead), lastId' = lastId
  PROVE  RunMoves(p)
BY RunTypes, OverEffect, BecomesEffect DEF RunMoves, AtVariant, AtPackage, AtRow, Fetching

\* A step on a package that only goes on.
LEMMA GoMoves ==
  ASSUME TypeInv, NEW p \in Syncer, NEW pc \in AtPackage, Go(p, pc), sync[p].pc \in AtPackage, lastId' = lastId,
         pc \in AtRow => sync[p].pc \in AtRow, pc = "provides" => sync[p].new
  PROVE  RunMoves(p)
<1>1. pc \in SyncPc
  BY DEF SyncPc, AtPackage
<1>2. /\ sync'[p].pc = pc /\ Becomes(p, sync'[p]) /\ sync'[p] \in SyncRun' /\ sync'[p].at = sync[p].at
      /\ sync'[p].pkg = sync[p].pkg /\ sync'[p].new = sync[p].new /\ sync'[p].row = sync[p].row
  BY <1>1, RunTypes, GoEffect
<1>3. sync[p].at \in Variant /\ \E k \in Pkg : sync[p].pkg = {k}
  BY RunTypes DEF AtVariant
<1>4. lastId' \in Nat /\ lastId <= lastId'
  BY RunTypes
<1>5. Fetching(p)' => Fetching(p) /\ sync'[p].row = sync[p].row
  BY <1>2 DEF Fetching
<1>6. QED
  BY <1>2, <1>3, <1>4, <1>5 DEF RunMoves

\* A step that ends the work on a package.
LEMMA ReadyMoves ==
  ASSUME TypeInv, NEW p \in Syncer, NEW done \in BOOLEAN, Ready(p, done), sync[p].pc \in AtPackage,
         lastId' \in Nat, lastId <= lastId'
  PROVE  RunMoves(p)
<1>1. sync[p].at \in Variant /\ Package(p) \in Pkg
  BY RunTypes DEF AtVariant
<1>2. /\ sync'[p].pc = "next" /\ sync'[p].new = FALSE /\ sync'[p].at = sync[p].at
      /\ Becomes(p, sync'[p]) /\ sync'[p] \in SyncRun'
  BY <1>1, RunTypes, ReadyEffect
<1>3. QED
  BY <1>1, <1>2 DEF RunMoves, AtVariant, AtPackage, AtRow, Fetching

\* The build is found or added.
LEMMA BuildMoves ==
  ASSUME TypeInv, NEW p \in Syncer, FindBuild(p) \/ AddBuild(p)
  PROVE  RunMoves(p) /\ UNCHANGED <<systemVars, cache>>
<1>1. sync[p].pc \in AtPackage /\ UNCHANGED <<systemVars, cache>>
  BY DEF FindBuild, AddBuild, AtPackage
<1>2. sync[p].at \in Variant /\ (\E k \in Pkg : sync[p].pkg = {k}) /\ sync[p].pc \in AtVariant
  BY <1>1, RunTypes DEF AtVariant
<1>3. ASSUME NEW id \in 0..lastId', Becomes(p, [sync[p] EXCEPT !.build = id, !.pc = "buildArch"]),
             lastId' \in Nat, lastId <= lastId'
      PROVE  RunMoves(p)
  <2>1. /\ sync'[p].pc = "buildArch" /\ Becomes(p, sync'[p]) /\ sync'[p] \in SyncRun' /\ sync'[p].at = sync[p].at
        /\ sync'[p].pkg = sync[p].pkg
    BY <1>3, RunTypes, BuildEffect
  <2>2. QED
    BY <1>2, <1>3, <2>1 DEF RunMoves, AtVariant, AtPackage, AtRow, Fetching
<1>4. CASE FindBuild(p)
  <2>1. lastId' = lastId
    BY <1>4 DEF FindBuild, packageVars
  <2>2. CASE Go(p, "addBuild")
    <3>1. "addBuild" \in AtPackage /\ "addBuild" \notin AtRow
      BY DEF AtPackage, AtRow
    <3>2. QED
      BY <1>1, <2>1, <2>2, <3>1, GoMoves
  <2>3. CASE ~Go(p, "addBuild")
    <3>1. PICK b \in Found(p) : Becomes(p, [sync[p] EXCEPT !.build = b.id, !.pc = "buildArch"])
      BY <1>4, <2>3 DEF FindBuild
    <3>2. b.id \in 0..lastId'
      BY <2>1 DEF Found, TypeInv, TypeOK, RepoTypeOK
    <3>3. QED
      BY <1>1, <1>3, <2>1, <3>1, <3>2, RunTypes
  <2>4. QED
    BY <2>2, <2>3
<1>5. CASE AddBuild(p)
  BY <1>1, <1>3, <1>5, RunTypes DEF AddBuild
<1>6. QED
  BY <1>4, <1>5

\* The architecture of the build is found or added.
LEMMA BuildArchMoves ==
  ASSUME TypeInv, NEW p \in Syncer, FindBuildArch(p) \/ AddBuildArch(p)
  PROVE  RunMoves(p) /\ UNCHANGED <<systemVars, cache>>
<1>1. sync[p].pc \in AtPackage /\ UNCHANGED <<systemVars, cache>>
  BY DEF FindBuildArch, AddBuildArch, AtPackage
<1>2. lastId' = lastId
  BY DEF FindBuildArch, AddBuildArch, packageVars
<1>3. {"link", "addBuildArch"} \subseteq AtPackage \ AtRow
  BY DEF AtPackage, AtRow
<1>4. Go(p, "link") \/ Go(p, "addBuildArch") \/ Becomes(p, Dead)
  BY DEF FindBuildArch, AddBuildArch, SyncDies
<1>5. QED
  BY <1>1, <1>2, <1>3, <1>4, GoMoves, DeadMoves

\* The rows that say so have their type.
BuildArchsOK == buildArchs \subseteq Nat \X Arch
LEMMA BuildArchsType ==
  ASSUME SyncAssumption, TypeInv, NEW p \in Syncer, SyncStep(p)
  PROVE  BuildArchsOK'
<1>1. BuildArchsOK
  BY DEF BuildArchsOK, TypeInv, TypeOK, SyncTypeOK
<1>2. CASE AddBuildArch(p)
  <2>1. sync[p].build \in Nat /\ Package(p) \in Pkg
    BY <1>2, RunTypes DEF AddBuildArch, AtPackage, SyncRun
  <2>2. <<sync[p].build, ArchOf[Package(p)]>> \in Nat \X Arch
    BY <2>1, SyncAssumption
  <2>3. QED
    BY <1>1, <1>2, <2>2 DEF AddBuildArch, BuildArchsOK
<1>3. CASE ~AddBuildArch(p)
  <2>1. NextRepo(p) \/ ListDnf(p) \/ ListCached(p) \/ Fetch(p) \/ NextPackage(p) => UNCHANGED buildArchs
    BY DEF NextRepo, ListDnf, ListCached, Fetch, NextPackage
  <2>2. FindBuild(p) \/ AddBuild(p) \/ FindBuildArch(p) \/ FindLink(p) \/ AddLink(p) => UNCHANGED buildArchs
    BY DEF FindBuild, AddBuild, FindBuildArch, FindLink, AddLink
  <2>3. FindPackage(p) \/ AddPackage(p) \/ Download(p) \/ Transfer(p) \/ StoreProvides(p) \/ SyncKill(p)
        => UNCHANGED buildArchs
    BY DEF FindPackage, AddPackage, Download, Transfer, StoreProvides, SyncKill
  <2>4. QED
    BY <1>1, <1>3, <2>1, <2>2, <2>3 DEF SyncStep, BuildArchsOK
<1>4. QED
  BY <1>2, <1>3

\* The link is found or added.
LEMMA LinkMoves ==
  ASSUME TypeInv, NEW p \in Syncer, FindLink(p) \/ AddLink(p)
  PROVE  RunMoves(p) /\ UNCHANGED <<systemVars, cache>>
<1>1. sync[p].pc \in AtPackage /\ UNCHANGED <<systemVars, cache>>
  BY DEF FindLink, AddLink, AtPackage
<1>2. lastId' = lastId
  BY DEF FindLink, AddLink, packageVars
<1>3. {"package", "addLink"} \subseteq AtPackage \ AtRow
  BY DEF AtPackage, AtRow
<1>4. Go(p, "package") \/ Go(p, "addLink") \/ Becomes(p, Dead)
  BY DEF FindLink, AddLink, SyncDies
<1>5. QED
  BY <1>1, <1>2, <1>3, <1>4, GoMoves, DeadMoves

\* The row of the package is found or added.
LEMMA PackageMoves ==
  ASSUME TypeInv, NEW p \in Syncer, FindPackage(p) \/ AddPackage(p)
  PROVE  RunMoves(p) /\ UNCHANGED <<systemVars, cache>>
<1>1. sync[p].pc \in AtPackage /\ UNCHANGED <<systemVars, cache>>
  BY DEF FindPackage, AddPackage, AtPackage
<1>2. sync[p].at \in Variant /\ (\E k \in Pkg : sync[p].pkg = {k}) /\ sync[p].pc \in AtVariant
  BY <1>1, RunTypes DEF AtVariant
<1>3. ASSUME NEW id \in 0..lastId', NEW isNew \in BOOLEAN, lastId' \in Nat, lastId <= lastId',
             Becomes(p, [sync[p] EXCEPT !.row = id, !.new = isNew, !.pc = "download"]),
             isNew => id = lastId + 1 /\ lastId' = lastId + 1
      PROVE  RunMoves(p)
  <2>1. /\ sync'[p].pc = "download" /\ Becomes(p, sync'[p]) /\ sync'[p] \in SyncRun' /\ sync'[p].at = sync[p].at
        /\ sync'[p].pkg = sync[p].pkg /\ sync'[p].row = id /\ sync'[p].new = isNew
    BY <1>3, RunTypes, RowEffect
  <2>2. QED
    BY <1>2, <1>3, <2>1 DEF RunMoves, AtVariant, AtPackage, AtRow, Fetching
<1>4. CASE FindPackage(p)
  <2>1. lastId' = lastId
    BY <1>4 DEF FindPackage, packageVars
  <2>2. CASE Go(p, "addPackage")
    <3>1. "addPackage" \in AtPackage /\ "addPackage" \notin AtRow
      BY DEF AtPackage, AtRow
    <3>2. QED
      BY <1>1, <2>1, <2>2, <3>1, GoMoves
  <2>3. CASE Ready(p, TRUE)
    BY <1>1, <2>1, <2>3, ReadyMoves, RunTypes
  <2>4. CASE ~Go(p, "addPackage") /\ ~Ready(p, TRUE)
    <3>1. PICK k \in packages : Becomes(p, [sync[p] EXCEPT !.row = k.id, !.new = FALSE, !.pc = "download"])
      BY <1>4, <2>4 DEF FindPackage
    <3>2. k.id \in 0..lastId'
      BY <2>1 DEF TypeInv, TypeOK, RepoTypeOK
    <3>3. QED
      BY <1>1, <1>3, <2>1, <3>1, <3>2, RunTypes
  <2>5. QED
    BY <2>2, <2>3, <2>4
<1>5. CASE AddPackage(p)
  <2>1. CASE Becomes(p, Dead) /\ lastId' = lastId
    BY <1>1, <2>1, DeadMoves
  <2>2. CASE Ready(p, TRUE) /\ lastId' = lastId + 1
    BY <1>1, <2>2, ReadyMoves, RunTypes
  <2>3. CASE Becomes(p, [sync[p] EXCEPT !.row = lastId + 1, !.new = TRUE, !.pc = "download"]) /\ lastId' = lastId + 1
    BY <1>1, <1>3, <2>3, RunTypes
  <2>4. QED
    BY <1>5, <2>1, <2>2, <2>3 DEF AddPackage, SyncDies
<1>6. QED
  BY <1>4, <1>5

\* Downloads and what follows them.
LEMMA FileMoves ==
  ASSUME TypeInv, NEW p \in Syncer, Download(p) \/ Transfer(p) \/ StoreProvides(p)
  PROVE  RunMoves(p) /\ UNCHANGED <<systemVars, cache>>
<1>1. sync[p].pc \in AtPackage /\ sync[p].pc \in AtRow /\ UNCHANGED <<systemVars, cache>>
  BY DEF Download, Transfer, StoreProvides, AtPackage, AtRow
<1>2. lastId' = lastId
  BY DEF Download, Transfer, StoreProvides
<1>3. {"transfer", "provides"} \subseteq AtPackage
  BY DEF AtPackage
<1>4. Go(p, "transfer") \/ (Go(p, "provides") /\ sync[p].new) \/ Becomes(p, Dead) \/ Ready(p, TRUE) \/ Ready(p, FALSE)
  BY DEF Download, Transfer, StoreProvides, SyncDies, GiveUp, Uncaught
<1>5. QED
  BY <1>1, <1>2, <1>3, <1>4, GoMoves, DeadMoves, ReadyMoves, RunTypes

\* A step of reposync that changes no table.
SyncQuiet(p) ==
  NextRepo(p) \/ ListDnf(p) \/ ListCached(p) \/ Fetch(p) \/ NextPackage(p) \/ FindBuild(p)
    \/ FindBuildArch(p) \/ AddBuildArch(p) \/ FindLink(p) \/ FindPackage(p) \/ SyncKill(p)

\* Every step of reposync.
LEMMA SyncMoves ==
  ASSUME SyncAssumption, TypeInv, NEW p \in Syncer, SyncStep(p)
  PROVE  /\ RunMoves(p) /\ cache' \in [RepoName -> {"none", "good", "bad"}] /\ UNCHANGED systemVars
         /\ SyncQuiet(p) => UNCHANGED packageVars
<1>1. cache \in [RepoName -> {"none", "good", "bad"}]
  BY DEF TypeInv, TypeOK, SyncTypeOK
<1> DEFINE Moved == /\ RunMoves(p) /\ cache' \in [RepoName -> {"none", "good", "bad"}] /\ UNCHANGED systemVars
<1>2. NextRepo(p) \/ ListDnf(p) \/ ListCached(p) \/ Fetch(p) \/ NextPackage(p) => Moved
  BY ListingMoves
<1>3. ASSUME FindBuild(p) \/ AddBuild(p) \/ FindBuildArch(p) \/ AddBuildArch(p) \/ FindLink(p) \/ AddLink(p)
           \/ FindPackage(p) \/ AddPackage(p) \/ Download(p) \/ Transfer(p) \/ StoreProvides(p)
      PROVE  Moved
  BY <1>1, <1>3, BuildMoves, BuildArchMoves, LinkMoves, PackageMoves, FileMoves
<1>4. ASSUME SyncKill(p) PROVE Moved
  <2>1. RunMoves(p)
    BY <1>4, DeadMoves DEF SyncKill, packageVars
  <2>2. QED
    BY <1>1, <1>4, <2>1 DEF SyncKill
<1>5. SyncQuiet(p) => UNCHANGED packageVars
  <2>1. NextRepo(p) => UNCHANGED packageVars
    BY DEF NextRepo
  <2>2. ListDnf(p) => UNCHANGED packageVars
    BY DEF ListDnf
  <2>3. ListCached(p) => UNCHANGED packageVars
    BY DEF ListCached
  <2>4. Fetch(p) => UNCHANGED packageVars
    BY DEF Fetch
  <2>5. NextPackage(p) => UNCHANGED packageVars
    BY DEF NextPackage
  <2>6. FindBuild(p) \/ FindBuildArch(p) \/ AddBuildArch(p) => UNCHANGED packageVars
    BY DEF FindBuild, FindBuildArch, AddBuildArch
  <2>7. FindLink(p) => UNCHANGED packageVars
    BY DEF FindLink
  <2>8. FindPackage(p) => UNCHANGED packageVars
    BY DEF FindPackage
  <2>9. SyncKill(p) => UNCHANGED packageVars
    BY DEF SyncKill
  <2>10. QED
    BY <2>1, <2>2, <2>3, <2>4, <2>5, <2>6, <2>7, <2>8, <2>9 DEF SyncQuiet
<1>6. QED
  BY <1>2, <1>3, <1>4, <1>5 DEF SyncStep

\* The types of who is alone and what ended a run.
ProcessTypes ==
  alone \in [Process -> BOOLEAN] /\ overlap \in BOOLEAN /\ dead \in [Process -> {"no", "database", "network"}]
\* How a process dies.
LEMMA DieType ==
  ASSUME ProcessTypes, NEW p \in Process, NEW cause \in {"database", "network"}, DieOf(p, cause) 
  PROVE  ProcessTypes'
BY DEF ProcessTypes, DieOf

\* How a process begins.
LEMMA BeginType ==
  ASSUME ProcessTypes, NEW p \in Process, NEW busy, Begin(p, busy)
  PROVE  ProcessTypes'
<1>1. alone' \in [Process -> BOOLEAN]
  BY DEF ProcessTypes, Begin
<1>2. overlap' \in BOOLEAN
  BY DEF ProcessTypes, Begin
<1>3. QED
  BY <1>1, <1>2 DEF ProcessTypes, Begin

\* Tables that stay as they are.
LEMMA SameTables ==
  ASSUME RepoTypeOK, UNCHANGED <<systemVars, packageVars>>, ProcessTypes'
  PROVE  RepoTypeOK' /\ PackageIds' = PackageIds /\ BuildIds' = BuildIds
<1>1. PackageIds' = PackageIds /\ BuildIds' = BuildIds
  BY DEF PackageIds, BuildIds, packageVars
<1>2. QED
  BY <1>1 DEF RepoTypeOK, systemVars, packageVars, ProcessTypes

\* Reposync and the process it may end.
LEMMA SyncProcess ==
  ASSUME SyncAssumption, TypeInv, NEW p \in Syncer, SyncStep(p)
  PROVE  ProcessTypes'
<1>1. ProcessTypes /\ p \in Process
  BY SyncAssumption DEF ProcessTypes, TypeInv, TypeOK, RepoTypeOK
<1>2. UNCHANGED processVars => ProcessTypes'
  BY <1>1 DEF ProcessTypes, processVars
<1>3. \A cause \in {"database", "network"} : SyncDies(p, cause) => ProcessTypes'
  BY <1>1, DieType DEF SyncDies
<1>4. CASE SyncQuiet(p)
  <2>1. NextRepo(p) \/ ListDnf(p) \/ ListCached(p) \/ NextPackage(p) => ProcessTypes'
    BY <1>2 DEF NextRepo, ListDnf, ListCached, NextPackage
  <2>2. Fetch(p) \/ AddBuildArch(p) => ProcessTypes'
    BY <1>2, <1>3 DEF Fetch, AddBuildArch
  <2>3. FindBuild(p) \/ FindBuildArch(p) \/ FindLink(p) \/ FindPackage(p) \/ SyncKill(p) => ProcessTypes'
    BY <1>2 DEF FindBuild, FindBuildArch, FindLink, FindPackage, SyncKill
  <2>4. QED
    BY <1>4, <2>1, <2>2, <2>3 DEF SyncQuiet
<1>5. AddBuild(p) => ProcessTypes'
  BY <1>2 DEF AddBuild
<1>6. AddLink(p) => ProcessTypes'
  BY <1>2, <1>3 DEF AddLink
<1>7. AddPackage(p) => ProcessTypes'
  BY <1>2, <1>3 DEF AddPackage
<1>8. Download(p) => ProcessTypes'
  BY <1>2, <1>3 DEF Download, GiveUp, Uncaught
<1>9. Transfer(p) => ProcessTypes'
  BY <1>2, <1>3 DEF Transfer, GiveUp, Uncaught
<1>10. StoreProvides(p) => ProcessTypes'
  BY <1>2, <1>3 DEF StoreProvides, GiveUp
<1>11. QED
  BY <1>4, <1>5, <1>6, <1>7, <1>8, <1>9, <1>10 DEF SyncStep, SyncQuiet

\* What a step of reposync does to the tables: rows have new ids, and the row
\* that goes is its own.
LEMMA SyncTables ==
  ASSUME CatalogAssumption, SyncAssumption, TypeInv, NEW p \in Syncer, SyncStep(p)
  PROVE  /\ RepoTypeOK' /\ BuildIds \subseteq BuildIds'
         /\ \A k \in packages' \ packages : k.id = lastId + 1 /\ lastId' = lastId + 1
         /\ \A k, l \in packages' \ packages : k = l
         /\ \/ provides' = provides
            \/ provides' = provides \cup {sync[p].row} /\ Fetching(p) /\ ~Fetching(p)'
<1>0. /\ RepoTypeOK /\ lastId \in Nat /\ 1..lastId \subseteq 1..(lastId + 1) /\ 1..lastId \subseteq 0..lastId
      /\ lastId + 1 \in Nat /\ lastId + 1 \in 1..(lastId + 1)
  BY DEF TypeInv, TypeOK, RepoTypeOK
<1>1. ProcessTypes' /\ UNCHANGED systemVars
  BY SyncProcess, SyncMoves
<1>2. sync[p].pc \in AtPackage => Package(p) \in Pkg
  BY RunTypes
<1>3. CASE SyncQuiet(p)
  BY <1>0, <1>1, <1>3, SyncMoves, SameTables DEF packageVars
<1>4. CASE AddBuild(p)
  <2>1. /\ builds' = builds \cup {[id |-> lastId + 1, nvr |-> NvrOf[Package(p)]]} /\ lastId' = lastId + 1
        /\ UNCHANGED <<links, buildComponents, packages, provides, whole, part, orphans>>
    BY <1>4 DEF AddBuild
  <2>2. NvrOf[Package(p)] \in Nvr
    BY <1>2, <1>4, CatalogAssumption DEF AddBuild, AtPackage
  <2>3. builds' \subseteq [id : 1..lastId', nvr : Nvr]
    BY <1>0, <2>1, <2>2 DEF RepoTypeOK
  <2>4. BuildIds \subseteq BuildIds' /\ PackageIds' = PackageIds
    BY <2>1 DEF BuildIds, PackageIds
  <2>5. /\ packages' \subseteq [id : 1..lastId', pkg : Pkg, build : BuildIds']
        /\ links' \subseteq BuildIds' \X releases' \X archs' /\ buildComponents' \subseteq BuildIds' \X Comp
    BY <1>0, <1>1, <2>1, <2>4 DEF RepoTypeOK, systemVars
  <2>6. /\ repos' \subseteq (1..lastId') \X RepoName /\ urls' \subseteq (1..lastId') \X {"plain", "param"}
        /\ assigned' \subseteq (1..lastId') \X (OpSys \cup Release \cup Arch)
        /\ whole' \cup part' \cup orphans' \subseteq 1..lastId'
    BY <1>0, <1>1, <2>1 DEF RepoTypeOK, systemVars
  <2>7. RepoTypeOK'
    BY <1>0, <1>1, <2>1, <2>3, <2>4, <2>5, <2>6 DEF RepoTypeOK, systemVars, ProcessTypes
  <2>8. QED
    BY <2>1, <2>4, <2>7
<1>5. CASE AddLink(p)
  <2>1. UNCHANGED <<builds, buildComponents, packages, provides, whole, part, orphans, lastId>>
    BY <1>5 DEF AddLink
  <2>2. BuildIds' = BuildIds /\ PackageIds' = PackageIds
    BY <2>1 DEF BuildIds, PackageIds
  <2>3. links' \subseteq BuildIds \X releases \X archs
    <3>1. links \subseteq BuildIds \X releases \X archs
      BY <1>0 DEF RepoTypeOK
    <3>2. CASE links' = links
      BY <3>1, <3>2
    <3>3. CASE links' # links
      <4>1. PICK r \in AnyRelease(sync[p].at[3]) :
              /\ links' = links \cup {<<sync[p].build, r, sync[p].at[4]>>}
              /\ sync[p].build \in BuildIds /\ sync[p].at[4] \in archs
        BY <1>5, <3>3 DEF AddLink
      <4>2. r \in releases
        BY DEF AnyRelease
      <4>3. QED
        BY <3>1, <4>1, <4>2
    <3>4. QED
      BY <3>2, <3>3
  <2>4. RepoTypeOK'
    BY <1>0, <1>1, <2>1, <2>2, <2>3 DEF RepoTypeOK, systemVars, ProcessTypes
  <2>5. QED
    BY <2>1, <2>2, <2>4
<1>6. CASE AddPackage(p)
  <2>1. UNCHANGED <<builds, links, buildComponents, provides, whole, part, orphans>>
    BY <1>6 DEF AddPackage
  <2>2. BuildIds' = BuildIds
    BY <2>1 DEF BuildIds
  <2>3. CASE sync[p].build \notin BuildIds
    <3>1. UNCHANGED packageVars
      BY <1>6, <2>1, <2>3 DEF AddPackage, packageVars
    <3>2. QED
      BY <1>0, <1>1, <3>1, SameTables DEF packageVars
  <2>4. CASE sync[p].build \in BuildIds
    <3>1. /\ packages' = packages \cup {[id |-> lastId + 1, pkg |-> Package(p), build |-> sync[p].build]}
          /\ lastId' = lastId + 1
      BY <1>6, <2>4 DEF AddPackage
    <3>2. packages' \subseteq [id : 1..lastId', pkg : Pkg, build : BuildIds']
      <4>1. Package(p) \in Pkg
        BY <1>2, <1>6 DEF AddPackage, AtPackage
      <4>2. [id |-> lastId + 1, pkg |-> Package(p), build |-> sync[p].build] \in [id : 1..lastId', pkg : Pkg, build : BuildIds']
        BY <1>0, <2>2, <2>4, <3>1, <4>1
      <4>3. packages \subseteq [id : 1..lastId', pkg : Pkg, build : BuildIds']
        BY <1>0, <2>2, <3>1 DEF RepoTypeOK
      <4>4. QED
        BY <3>1, <4>2, <4>3
    <3>3. provides' \subseteq PackageIds'
      BY <1>0, <2>1, <3>1 DEF RepoTypeOK, PackageIds
    <3>4. /\ builds' \subseteq [id : 1..lastId', nvr : Nvr]
          /\ repos' \subseteq (1..lastId') \X RepoName /\ urls' \subseteq (1..lastId') \X {"plain", "param"}
          /\ assigned' \subseteq (1..lastId') \X (OpSys \cup Release \cup Arch)
          /\ whole' \cup part' \cup orphans' \subseteq 1..lastId'
      BY <1>0, <1>1, <2>1, <3>1 DEF RepoTypeOK, systemVars
    <3>5. RepoTypeOK'
      BY <1>0, <1>1, <2>1, <2>2, <3>1, <3>2, <3>3, <3>4 DEF RepoTypeOK, systemVars, ProcessTypes
    <3>6. QED
      BY <2>1, <2>2, <3>1, <3>5
  <2>5. QED
    BY <2>3, <2>4
<1>7. CASE Download(p) \/ Transfer(p) \/ StoreProvides(p)
  <2>1. UNCHANGED <<builds, links, buildComponents, lastId>> /\ sync[p].pc \in AtRow
    BY <1>7 DEF Download, Transfer, StoreProvides, AtRow
  <2>2. BuildIds' = BuildIds
    BY <2>1 DEF BuildIds
  <2>3. sync[p].row \in PackageIds => sync[p].row \in 1..lastId
    BY <1>0 DEF RepoTypeOK, PackageIds
  <2>4. whole' \cup part' \cup orphans' \subseteq 1..lastId
    <3>1. whole \cup part \cup orphans \subseteq 1..lastId
      BY <1>0 DEF RepoTypeOK
    <3>2. CASE Download(p)
      BY <2>3, <3>1, <3>2 DEF Download, GiveUp
    <3>3. CASE Transfer(p)
      <4>1. sync[p].row \in PackageIds \/ HasLob(sync[p].row) => sync[p].row \in 1..lastId
        BY <2>3, <3>1 DEF HasLob
      <4>2. /\ whole' \subseteq whole \cup (IF HasLob(sync[p].row) THEN {sync[p].row} ELSE {}) /\ part' \subseteq part
            /\ orphans' \subseteq orphans \cup (IF sync[p].row \in PackageIds THEN {sync[p].row} ELSE {})
        BY <3>3 DEF Transfer, GiveUp
      <4>3. QED
        BY <3>1, <4>1, <4>2
    <3>4. CASE StoreProvides(p)
      BY <2>3, <3>1, <3>4 DEF StoreProvides, GiveUp, DeletePackageFile
    <3>5. QED
      BY <1>7, <3>2, <3>3, <3>4
  <2>5. /\ packages' \subseteq packages
        /\ packages' = packages \/ (sync[p].new /\ packages' = {k \in packages : k.id # sync[p].row})
    BY <1>7 DEF Download, Transfer, StoreProvides, GiveUp
  <2>6. \/ provides' = provides
        \/ /\ provides' = provides \cup {sync[p].row} /\ sync[p].row \in PackageIds /\ packages' = packages
           /\ sync[p].pc = "provides" /\ Ready(p, TRUE)
    BY <1>7 DEF Download, Transfer, StoreProvides
  <2>7. provides' \subseteq PackageIds'
    <3>1. Fetching(p) => sync[p].row \notin provides
      BY DEF TypeInv, RowsInv
    <3>2. sync[p].new => Fetching(p)
      BY <2>1 DEF Fetching
    <3>3. provides \subseteq PackageIds
      BY <1>0 DEF RepoTypeOK
    <3>4. CASE packages' = packages
      <4>1. PackageIds' = PackageIds
        BY <3>4 DEF PackageIds
      <4>2. QED
        BY <2>6, <3>3, <4>1
    <3>5. CASE packages' # packages
      <4>1. provides' = provides /\ packages' = {k \in packages : k.id # sync[p].row} /\ sync[p].row \notin provides
        BY <2>5, <2>6, <3>1, <3>2, <3>5
      <4>2. \A id \in provides : \E k \in packages' : k.id = id
        BY <3>3, <4>1 DEF PackageIds
      <4>3. QED
        BY <4>1, <4>2 DEF PackageIds
    <3>6. QED
      BY <3>4, <3>5
  <2>8. packages' \subseteq [id : 1..lastId', pkg : Pkg, build : BuildIds']
    BY <1>0, <2>1, <2>2, <2>5 DEF RepoTypeOK
  <2>9. RepoTypeOK'
    BY <1>0, <1>1, <2>1, <2>2, <2>4, <2>7, <2>8 DEF RepoTypeOK, systemVars, ProcessTypes
  <2>10. Ready(p, TRUE) => ~Fetching(p)'
    <3>1. sync[p].at \in Variant /\ Package(p) \in Pkg
      BY <2>1, RunTypes DEF AtVariant, AtPackage, AtRow
    <3>2. Ready(p, TRUE) => sync'[p].pc = "next"
      BY <2>1, <3>1, RunTypes, ReadyEffect
    <3>3. QED
      BY <3>2 DEF Fetching, AtRow
  <2>11. sync[p].pc = "provides" => Fetching(p)
    BY DEF TypeInv, SyncShape, Fetching, AtRow
  <2>12. QED
    BY <2>2, <2>5, <2>6, <2>9, <2>10, <2>11
<1>8. QED
  BY <1>3, <1>4, <1>5, <1>6, <1>7 DEF SyncStep, SyncQuiet

\* A step of reposync keeps the types.
LEMMA SyncType ==
  ASSUME CatalogAssumption, SyncAssumption, TypeInv, NEW p \in Syncer, SyncStep(p), UNCHANGED <<clean, admin, starts>>
  PROVE  TypeInv'
<1>1. RunMoves(p) /\ UNCHANGED systemVars /\ cache' \in [RepoName -> {"none", "good", "bad"}]
  BY SyncMoves
<1>2. lastId \in Nat /\ lastId' \in Nat /\ lastId <= lastId' /\ sync \in [Syncer -> SyncRun]
  BY <1>1, RunTypes DEF RunMoves
<1>3. RepoTypeOK'
  BY SyncTables
<1>4. sync' \in [Syncer -> SyncRun'] /\ \A q \in Syncer \ {p} : sync'[q] = sync[q]
  BY <1>1, <1>2, BecomesType, BecomesEffect DEF RunMoves
<1>5. CleanTypeOK' /\ AdminTypeOK'
  <2>1. CleanRun \subseteq CleanRun' /\ AdminRun \subseteq AdminRun'
    BY <1>1, <1>2, CleanRunGrows, AdminRunGrows DEF systemVars
  <2>2. QED
    BY <2>1 DEF TypeInv, TypeOK, CleanTypeOK, AdminTypeOK
<1>6. TypeOK'
  BY <1>1, <1>3, <1>4, <1>5, BuildArchsType DEF TypeInv, TypeOK, SyncTypeOK, BuildArchsOK
<1>7. KeysHold'
  BY <1>1 DEF TypeInv, KeysHold, systemVars
<1>8. SyncShape'
  BY <1>1, <1>4 DEF TypeInv, SyncShape, RunMoves
<1>9. RowsInv'
  <2>1. \A q \in Syncer : sync[q].row \in 0..lastId
    BY <1>2 DEF SyncRun
  <2>2. provides \subseteq 1..lastId /\ \A k \in packages : k.id \in 1..lastId
    BY DEF TypeInv, TypeOK, RepoTypeOK, PackageIds
  <2>3. \A k, l \in packages' : k.id = l.id => k = l
    <3>1. \A k \in packages' : k \notin packages => k.id = lastId + 1
      BY SyncTables
    <3>2. \A k, l \in packages' : k \notin packages /\ l \notin packages => k = l
      BY SyncTables
    <3>3. \A k, l \in packages : k.id = l.id => k = l
      BY DEF TypeInv, RowsInv
    <3>4. \A k \in packages : k.id # lastId + 1
      BY <1>2, <2>2
    <3>5. QED
      BY <3>1, <3>2, <3>3, <3>4
  <2>4. \A q \in Syncer \ {p} : Fetching(q)' = Fetching(q) /\ sync'[q].row = sync[q].row
    BY <1>4 DEF Fetching
  <2>5. Fetching(p)' => \/ sync'[p].row = lastId + 1
                        \/ Fetching(p) /\ sync'[p].row = sync[p].row
    BY <1>1 DEF RunMoves
  <2>6. /\ \A q \in Syncer : Fetching(q) => sync[q].row \notin provides
        /\ \A q, r \in Syncer : Fetching(q) /\ Fetching(r) /\ sync[q].row = sync[r].row => q = r
    BY DEF TypeInv, RowsInv
  <2>7. \/ provides' = provides
        \/ provides' = provides \cup {sync[p].row} /\ Fetching(p) /\ ~Fetching(p)'
    BY SyncTables
  <2>8. lastId + 1 \notin provides /\ \A q \in Syncer : sync[q].row # lastId + 1
    BY <1>2, <2>1, <2>2
  <2>9. \A q \in Syncer : Fetching(q)' => sync'[q].row \notin provides'
    BY <2>4, <2>5, <2>6, <2>7, <2>8
  <2>10. \A q, r \in Syncer : Fetching(q)' /\ Fetching(r)' /\ sync'[q].row = sync'[r].row => q = r
    BY <2>4, <2>5, <2>6, <2>8
  <2>11. QED
    BY <2>3, <2>9, <2>10, Zenon DEF RowsInv
<1>10. AdminShape'
  BY DEF TypeInv, AdminShape
<1>11. QED
  BY <1>6, <1>7, <1>8, <1>9, <1>10 DEF TypeInv

-----------------------------------------------------------------------------
(* The clean-ups keep the types. *)

\* A clean-up that becomes another leaves the others alone.
LEMMA TurnsEffect ==
  ASSUME clean \in [Cleaner -> CleanRun], NEW c \in Cleaner, NEW r, Turns(c, r)
  PROVE  /\ clean'[c] = r /\ (\A d \in Cleaner \ {c} : clean'[d] = clean[d])
         /\ lastId' = lastId /\ r \in CleanRun => clean' \in [Cleaner -> CleanRun']
<1>1. lastId' = lastId => CleanRun' = CleanRun
  BY DEF CleanRun
<1>2. QED
  BY <1>1 DEF Turns

\* The places of a clean-up.
CleanPc == {"done", "dead", "unlink", "builds", "files", "rows", "build", "repos", "reports", "release"}

\* A clean-up that goes on at another place, or is over.
LEMMA CGoEffect ==
  ASSUME clean \in [Cleaner -> CleanRun], NEW c \in Cleaner, NEW pc \in CleanPc, CGo(c, pc)
  PROVE  /\ clean'[c].pc = pc /\ (\A d \in Cleaner \ {c} : clean'[d] = clean[d])
         /\ lastId' = lastId => clean' \in [Cleaner -> CleanRun']
         /\ pc \notin {"done", "dead"} =>
              /\ clean'[c].op = clean[c].op /\ clean'[c].target = clean[c].target /\ clean'[c].todo = clean[c].todo
              /\ clean'[c].build = clean[c].build /\ clean'[c].files = clean[c].files
<1> DEFINE r == IF pc \in {"done", "dead"} THEN [Rest EXCEPT !.pc = pc] ELSE [clean[c] EXCEPT !.pc = pc]
<1>1. Turns(c, r) /\ clean[c] \in CleanRun
  BY DEF CGo
<1>2. CASE pc \in {"done", "dead"}
  <2>1. r = [Rest EXCEPT !.pc = pc]
    BY <1>2
  <2>2. r \in CleanRun /\ r.pc = pc
    BY <1>2, <2>1 DEF Rest, CleanRun, CleanPc
  <2>3. QED
    BY <1>1, <1>2, <2>2, TurnsEffect
<1>3. CASE pc \notin {"done", "dead"}
  <2>1. r = [clean[c] EXCEPT !.pc = pc]
    BY <1>3
  <2>2. /\ r \in CleanRun /\ r.pc = pc /\ r.op = clean[c].op /\ r.target = clean[c].target
        /\ r.todo = clean[c].todo /\ r.build = clean[c].build /\ r.files = clean[c].files
    BY <1>1, <2>1 DEF CleanRun, CleanPc
  <2>3. QED
    BY <1>1, <2>2, TurnsEffect
<1>4. QED
  BY <1>2, <1>3

\* A clean-up that takes up a build.
LEMMA TakeBuildEffect ==
  ASSUME TypeInv, NEW c \in Cleaner, NEW b \in clean[c].todo,
         Turns(c, [clean[c] EXCEPT !.todo = @ \ {b}, !.build = {b}, !.files = PackagesOf(b), !.pc = "files"])
  PROVE  /\ clean'[c].pc = "files" /\ clean'[c].todo = clean[c].todo \ {b} /\ clean'[c].build = {b}
         /\ clean'[c].files = PackagesOf(b) /\ clean'[c].op = clean[c].op /\ clean'[c].target = clean[c].target
         /\ (\A d \in Cleaner \ {c} : clean'[d] = clean[d])
         /\ lastId' = lastId => clean' \in [Cleaner -> CleanRun']
<1> DEFINE files == PackagesOf(b)
           r == [clean[c] EXCEPT !.todo = clean[c].todo \ {b}, !.build = {b}, !.files = files, !.pc = "files"]
<1>1. Turns(c, r) /\ clean[c] \in CleanRun /\ clean \in [Cleaner -> CleanRun]
  BY DEF TypeInv, TypeOK, CleanTypeOK
<1>2. files \subseteq 1..lastId
  BY DEF PackagesOf, TypeInv, TypeOK, RepoTypeOK
<1> HIDE DEF files
<1>3. /\ r \in CleanRun /\ r.pc = "files" /\ r.todo = clean[c].todo \ {b} /\ r.build = {b} /\ r.files = files
      /\ r.op = clean[c].op /\ r.target = clean[c].target
  BY <1>1, <1>2 DEF CleanRun
<1>4. files = PackagesOf(b)
  BY DEF files
<1> HIDE DEF r
<1>5. QED
  BY <1>1, <1>3, <1>4, TurnsEffect

\* A clean-up that has deleted a file.
LEMMA DropFileEffect ==
  ASSUME TypeInv, NEW c \in Cleaner, NEW id, Turns(c, [clean[c] EXCEPT !.files = @ \ {id}])
  PROVE  /\ clean'[c].files = clean[c].files \ {id} /\ clean'[c].pc = clean[c].pc
         /\ clean'[c].todo = clean[c].todo /\ clean'[c].build = clean[c].build
         /\ clean'[c].op = clean[c].op /\ clean'[c].target = clean[c].target
         /\ (\A d \in Cleaner \ {c} : clean'[d] = clean[d])
         /\ lastId' = lastId => clean' \in [Cleaner -> CleanRun']
<1> DEFINE r == [clean[c] EXCEPT !.files = clean[c].files \ {id}]
<1>1. Turns(c, r) /\ clean[c] \in CleanRun /\ clean \in [Cleaner -> CleanRun]
  BY DEF TypeInv, TypeOK, CleanTypeOK
<1>2. /\ r \in CleanRun /\ r.pc = clean[c].pc /\ r.todo = clean[c].todo /\ r.build = clean[c].build
      /\ r.files = clean[c].files \ {id} /\ r.op = clean[c].op /\ r.target = clean[c].target
  BY <1>1 DEF CleanRun
<1> HIDE DEF r
<1>3. QED
  BY <1>1, <1>2, TurnsEffect

\* Every step of a clean-up, for the runs.
LEMMA CleanTurns ==
  ASSUME TypeInv, NEW c \in Cleaner, CleanStep(c)
  PROVE  /\ clean' \in [Cleaner -> CleanRun'] /\ \A d \in Cleaner \ {c} : clean'[d] = clean[d]
         /\ lastId' = lastId
<1>1. lastId' = lastId
  <2>1. NextBuild(c) \/ CleanKill(c) \/ DeleteRepos(c) \/ DeleteReports(c) \/ DeleteRelease(c) => lastId' = lastId
    BY DEF NextBuild, CleanKill, DeleteRepos, DeleteReports, DeleteRelease, packageVars
  <2>2. Unlink(c) \/ DeletePackage(c) \/ PurgePackages(c) \/ PurgeBuild(c) => lastId' = lastId
    BY DEF Unlink, DeletePackage, PurgePackages, PurgeBuild
  <2>3. QED
    BY <2>1, <2>2 DEF CleanStep
<1>2. clean \in [Cleaner -> CleanRun] /\ clean[c] \in CleanRun
  BY DEF TypeInv, TypeOK, CleanTypeOK
<1> DEFINE Turned == clean' \in [Cleaner -> CleanRun'] /\ \A d \in Cleaner \ {c} : clean'[d] = clean[d]
<1>3. ASSUME NEW pc \in CleanPc, CGo(c, pc) PROVE Turned
  BY <1>1, <1>2, <1>3, CGoEffect
<1> HIDE DEF Turned
<1>p. /\ {"builds", "done", "dead", "rows", "build", "unlink"} \subseteq CleanPc
      /\ {"repos", "reports", "release", "done", "dead"} \subseteq CleanPc
  BY DEF CleanPc
<1>4. Unlink(c) => Turned
  BY <1>3, <1>p DEF Unlink
<1>5. NextBuild(c) => Turned
  <2>1. \A op \in {"none", "packages", "unassigned", "releasedel"} : AfterBuilds(op) \in CleanPc
    BY DEF AfterBuilds, CleanPc
  <2>2. clean[c].op \in {"none", "packages", "unassigned", "releasedel"}
    BY <1>2 DEF CleanRun
  <2>3. CGo(c, AfterBuilds(clean[c].op)) => Turned
    BY <1>3, <2>1, <2>2
  <2>4. \A b \in clean[c].todo :
          Turns(c, [clean[c] EXCEPT !.todo = @ \ {b}, !.build = {b}, !.files = PackagesOf(b), !.pc = "files"]) => Turned
    BY <1>1, TakeBuildEffect DEF Turned
  <2>5. QED
    BY <2>3, <2>4 DEF NextBuild
<1>6. DeletePackage(c) => Turned
  <2>1. \A id : Turns(c, [clean[c] EXCEPT !.files = @ \ {id}]) => Turned
    BY <1>1, DropFileEffect DEF Turned
  <2>2. QED
    BY <1>3, <1>p, <2>1 DEF DeletePackage
<1>7. PurgePackages(c) \/ PurgeBuild(c) => Turned
  BY <1>3, <1>p DEF PurgePackages, PurgeBuild, CleanDies
<1>8. DeleteRepos(c) \/ DeleteReports(c) \/ CleanKill(c) => Turned
  BY <1>3, <1>p DEF DeleteRepos, DeleteReports, CleanKill
<1>9. DeleteRelease(c) => Turned
  BY <1>3, <1>p DEF DeleteRelease, CleanDies
<1>10. QED
  BY <1>1, <1>4, <1>5, <1>6, <1>7, <1>8, <1>9 DEF CleanStep, Turned

\* Every step of a clean-up, for the processes.
LEMMA CleanProcess ==
  ASSUME CleanAssumption, TypeInv, NEW c \in Cleaner, CleanStep(c)
  PROVE  ProcessTypes'
<1>1. ProcessTypes /\ c \in Process
  BY CleanAssumption DEF ProcessTypes, TypeInv, TypeOK, RepoTypeOK
<1>2. UNCHANGED processVars => ProcessTypes'
  BY <1>1 DEF ProcessTypes, processVars
<1>3. CleanDies(c) => ProcessTypes'
  BY <1>1, DieType DEF CleanDies
<1>4. Unlink(c) \/ NextBuild(c) \/ DeletePackage(c) \/ DeleteRepos(c) \/ DeleteReports(c) \/ CleanKill(c) => ProcessTypes'
  BY <1>2 DEF Unlink, NextBuild, DeletePackage, DeleteRepos, DeleteReports, CleanKill
<1>5. PurgePackages(c) \/ PurgeBuild(c) \/ DeleteRelease(c) => ProcessTypes'
  BY <1>2, <1>3 DEF PurgePackages, PurgeBuild, DeleteRelease
<1>6. QED
  BY <1>4, <1>5 DEF CleanStep

\* What the clean-ups do to the tables: rows go, and their keys with them.
LEMMA CleanTables ==
  ASSUME CatalogAssumption, CleanAssumption, TypeInv, NEW c \in Cleaner, CleanStep(c)
  PROVE  /\ RepoTypeOK' /\ KeysHold' /\ packages' \subseteq packages /\ provides' \subseteq provides
         /\ UNCHANGED <<archs, lastId, orphans>>
<1>0. RepoTypeOK /\ KeysHold /\ ProcessTypes' /\ clean[c].target \subseteq Release \cup Arch
  BY CleanProcess DEF TypeInv, TypeOK, CleanTypeOK, CleanRun
<1>1. CASE NextBuild(c) \/ CleanKill(c)
  <2>1. UNCHANGED <<systemVars, packageVars>>
    BY <1>1 DEF NextBuild, CleanKill
  <2>2. QED
    BY <1>0, <2>1, SameTables DEF KeysHold, systemVars, packageVars
<1>2. CASE Unlink(c)
  <2>1. links' \subseteq links /\ UNCHANGED <<systemVars, builds, buildComponents, packages, provides, whole, part, orphans, lastId>>
    BY <1>2 DEF Unlink
  <2>2. BuildIds' = BuildIds /\ PackageIds' = PackageIds
    BY <2>1 DEF BuildIds, PackageIds
  <2>3. QED
    BY <1>0, <2>1, <2>2 DEF RepoTypeOK, KeysHold, systemVars, ProcessTypes
<1>3. CASE DeletePackage(c)
  <2>1. UNCHANGED <<systemVars, builds, links, buildComponents, packages, orphans, lastId>>
    BY <1>3 DEF DeletePackage
  <2>2. whole' \subseteq whole /\ part' \subseteq part /\ provides' \subseteq provides
    BY <1>3 DEF DeletePackage, DeletePackageFile
  <2>3. BuildIds' = BuildIds /\ PackageIds' = PackageIds
    BY <2>1 DEF BuildIds, PackageIds
  <2>4. QED
    BY <1>0, <2>1, <2>2, <2>3 DEF RepoTypeOK, KeysHold, systemVars, ProcessTypes
<1>4. CASE PurgePackages(c)
  <2>1. UNCHANGED <<systemVars, builds, links, buildComponents, provides, whole, part, orphans, lastId>>
    BY <1>4 DEF PurgePackages
  <2>2. packages' \subseteq packages /\ \A k \in packages \ packages' : k.id \notin provides
    BY <1>4 DEF PurgePackages
  <2>3. BuildIds' = BuildIds
    BY <2>1 DEF BuildIds
  <2>4. provides' \subseteq PackageIds'
    BY <1>0, <2>1, <2>2 DEF RepoTypeOK, PackageIds
  <2>5. QED
    BY <1>0, <2>1, <2>2, <2>3, <2>4 DEF RepoTypeOK, KeysHold, systemVars, ProcessTypes
<1>5. CASE PurgeBuild(c)
  <2>1. UNCHANGED <<systemVars, links, packages, provides, whole, part, orphans, lastId>>
    BY <1>5 DEF PurgeBuild
  <2>2. PackageIds' = PackageIds
    BY <2>1 DEF PackageIds
  <2>3. /\ buildComponents' = {k \in buildComponents : k[1] \notin clean[c].build}
        /\ \/ builds' = builds
           \/ /\ builds' = {x \in builds : x.id \notin clean[c].build}
              /\ \A l \in links : l[1] \notin clean[c].build
              /\ \A k \in packages : k.build \notin clean[c].build
    BY <1>5 DEF PurgeBuild
  <2>4. CASE builds' = builds
    <3>1. BuildIds' = BuildIds
      BY <2>4 DEF BuildIds
    <3>2. QED
      BY <1>0, <2>1, <2>2, <2>3, <2>4, <3>1 DEF RepoTypeOK, KeysHold, systemVars, ProcessTypes
  <2>5. CASE builds' # builds
    <3>1. BuildIds' = BuildIds \ clean[c].build
      BY <2>3, <2>5 DEF BuildIds
    <3>2. links \subseteq BuildIds \X releases \X archs /\ buildComponents \subseteq BuildIds \X Comp
      BY <1>0 DEF RepoTypeOK
    <3>3. links \subseteq BuildIds' \X releases \X archs
      BY <2>3, <2>5, <3>1, <3>2
    <3>4. buildComponents' \subseteq BuildIds' \X Comp
      BY <2>3, <3>1, <3>2
    <3>5. packages \subseteq [id : 1..lastId, pkg : Pkg, build : BuildIds']
      BY <1>0, <2>3, <2>5, <3>1 DEF RepoTypeOK
    <3>6. builds' \subseteq [id : 1..lastId, nvr : Nvr]
      BY <1>0, <2>3 DEF RepoTypeOK
    <3>7. QED
      BY <1>0, <2>1, <2>2, <3>3, <3>4, <3>5, <3>6 DEF RepoTypeOK, KeysHold, systemVars, ProcessTypes
  <2>6. QED
    BY <2>4, <2>5
<1>6. CASE DeleteRepos(c)
  <2>1. UNCHANGED <<inUse, archs, opsys, releases, active, components, people, permissions, packageVars>>
    BY <1>6 DEF DeleteRepos
  <2>2. BuildIds' = BuildIds /\ PackageIds' = PackageIds
    BY <2>1 DEF BuildIds, PackageIds, packageVars
  <2>3. PICK ids : /\ repos' = {r \in repos : r[1] \notin ids} /\ urls' = {u \in urls : u[1] \notin ids}
                   /\ assigned' = {x \in assigned : x[1] \notin ids}
    BY <1>6 DEF DeleteRepos
  <2>4. RepoTypeOK'
    BY <1>0, <2>1, <2>2, <2>3 DEF RepoTypeOK, packageVars, ProcessTypes
  <2>5. KeysHold'
    BY <1>0, <2>1, <2>3 DEF KeysHold
  <2>6. QED
    BY <2>1, <2>4, <2>5 DEF packageVars
<1>7. CASE DeleteReports(c)
  <2>1. /\ UNCHANGED <<archs, opsys, releases, active, components, people, permissions, repos, urls, assigned, packageVars>>
        /\ inUse' \subseteq inUse
    BY <1>7 DEF DeleteReports
  <2>2. BuildIds' = BuildIds /\ PackageIds' = PackageIds
    BY <2>1 DEF BuildIds, PackageIds, packageVars
  <2>3. QED
    BY <1>0, <2>1, <2>2 DEF RepoTypeOK, KeysHold, packageVars, ProcessTypes
<1>8. CASE DeleteRelease(c)
  <2> DEFINE t == clean[c].target
  <2>1. UNCHANGED <<inUse, archs, opsys, people, permissions, repos, urls, assigned, packageVars>>
    BY <1>8 DEF DeleteRelease
  <2>2. BuildIds' = BuildIds /\ PackageIds' = PackageIds
    BY <2>1 DEF BuildIds, PackageIds, packageVars
  <2>3. /\ components' = {k \in components : k[1] \notin t}
        /\ \/ releases' = releases /\ active' = active
           \/ /\ releases' = releases \ t /\ active' = active \ t /\ inUse \cap t = {}
              /\ \A l \in links : l[2] \notin t
              /\ \A x \in assigned : x[2] \notin t
    BY <1>8 DEF DeleteRelease, Pointing
  <2> HIDE DEF t
  <2>4. t \cap OpSys = {}
    BY <1>0, CatalogAssumption DEF t
  <2>5. permissions \subseteq (components' \cap (OpSys \X Comp)) \X people
    BY <1>0, <2>3, <2>4 DEF RepoTypeOK
  <2>6. releases' \subseteq Release /\ active' \cup inUse \subseteq releases'
    BY <1>0, <2>3 DEF RepoTypeOK
  <2>7. links \subseteq BuildIds \X releases' \X archs
    BY <1>0, <2>3 DEF RepoTypeOK
  <2>8. components' \subseteq (OpSys \cup Release) \X Comp
    BY <1>0, <2>3 DEF RepoTypeOK
  <2>9. RepoTypeOK'
    BY <1>0, <2>1, <2>2, <2>5, <2>6, <2>7, <2>8 DEF RepoTypeOK, packageVars, ProcessTypes
  <2>10. KeysHold'
    <3>1. \A r \in releases' : OsOf[r] \in opsys'
      BY <1>0, <2>1, <2>3 DEF KeysHold
    <3>2. \A x \in urls' \cup assigned' : \E r \in repos' : r[1] = x[1]
      BY <1>0, <2>1 DEF KeysHold
    <3>3. \A x \in assigned' : x[2] \in opsys' \cup releases' \cup archs'
      BY <1>0, <2>1, <2>3 DEF KeysHold
    <3>4. \A k \in components' : k[1] \in opsys' \cup releases'
      BY <1>0, <2>1, <2>3 DEF KeysHold
    <3>5. ASSUME NEW k \in components', k[1] \in Release PROVE <<OsOf[k[1]], k[2]>> \in components'
      <4>1. <<OsOf[k[1]], k[2]>> \in components
        BY <1>0, <2>3, <3>5 DEF KeysHold
      <4>2. OsOf[k[1]] \in OpSys
        BY <3>5, CatalogAssumption
      <4>3. QED
        BY <2>3, <2>4, <4>1, <4>2
    <3>6. QED
      BY <3>1, <3>2, <3>3, <3>4, <3>5 DEF KeysHold
  <2>11. QED
    BY <2>1, <2>9, <2>10 DEF packageVars
<1>9. QED
  BY <1>1, <1>2, <1>3, <1>4, <1>5, <1>6, <1>7, <1>8 DEF CleanStep

\* A step that leaves the runs of reposync and of administration alone, adds no
\* rows and no ids, keeps what is said of their shapes.
LEMMA OthersKeep ==
  ASSUME TypeInv, UNCHANGED <<sync, cache, buildArchs, admin, starts, lastId, archs>>, RepoTypeOK', KeysHold', CleanTypeOK',
         packages' \subseteq packages, provides' \subseteq provides
  PROVE  TypeInv'
<1>1. SyncTypeOK'
  BY DEF TypeInv, TypeOK, SyncTypeOK, SyncRun
<1>2. AdminTypeOK'
  BY DEF TypeInv, TypeOK, AdminTypeOK, AdminRun, AnyRow
<1>3. TypeOK'
  BY <1>1, <1>2 DEF TypeInv, TypeOK
<1>4. SyncShape' /\ AdminShape'
  BY DEF TypeInv, SyncShape, AdminShape
<1>5. RowsInv'
  BY DEF TypeInv, RowsInv, Fetching
<1>6. QED
  BY <1>3, <1>4, <1>5 DEF TypeInv

\* A step of a clean-up keeps the types.
LEMMA CleanType ==
  ASSUME CatalogAssumption, CleanAssumption, TypeInv, NEW c \in Cleaner, CleanStep(c),
         UNCHANGED <<sync, cache, buildArchs, admin, starts>>
  PROVE  TypeInv'
<1>1. CleanTypeOK'
  BY CleanTurns DEF CleanTypeOK
<1>2. QED
  BY <1>1, CleanTables, OthersKeep

\* So does a report that comes in, and a cache that gets old.
LEMMA ReportType ==
  ASSUME TypeInv, NEW busy, ReportOfRelease(busy), UNCHANGED <<sync, cache, buildArchs, admin, starts>>
  PROVE  TypeInv'
<1>1. /\ UNCHANGED <<clean, archs, opsys, releases, active, components, people, permissions, repos, urls, assigned,
                     packageVars>>
      /\ \E r \in releases : inUse' = inUse \cup {r}
  BY DEF ReportOfRelease
<1>2. BuildIds' = BuildIds /\ PackageIds' = PackageIds
  BY <1>1 DEF BuildIds, PackageIds, packageVars
<1>3. ProcessTypes'
  <2>1. ProcessTypes
    BY DEF TypeInv, TypeOK, RepoTypeOK, ProcessTypes
  <2>2. alone' \in [Process -> BOOLEAN]
    BY <2>1 DEF ProcessTypes, ReportOfRelease
  <2>3. overlap' \in BOOLEAN /\ dead' = dead
    BY <2>1 DEF ProcessTypes, ReportOfRelease
  <2>4. QED
    BY <2>1, <2>2, <2>3 DEF ProcessTypes
<1>4. RepoTypeOK' /\ KeysHold'
  BY <1>1, <1>2, <1>3 DEF TypeInv, TypeOK, RepoTypeOK, KeysHold, packageVars, ProcessTypes
<1>5. CleanTypeOK'
  BY <1>1 DEF TypeInv, TypeOK, CleanTypeOK, CleanRun, packageVars
<1>6. QED
  BY <1>1, <1>4, <1>5, OthersKeep DEF packageVars

\* And a cached listing that gets old.
LEMMA CacheType ==
  ASSUME TypeInv, CacheExpires, UNCHANGED <<clean, admin, starts>>
  PROVE  TypeInv'
<1>1. cache' \in [RepoName -> {"none", "good", "bad"}]
  BY DEF CacheExpires, TypeInv, TypeOK, SyncTypeOK
<1>2. UNCHANGED <<sync, buildArchs, systemVars, packageVars, processVars>>
  BY DEF CacheExpires
<1>3. RepoTypeOK'
  BY <1>2, SameTables DEF TypeInv, TypeOK, RepoTypeOK, ProcessTypes, processVars
<1>4. TypeOK'
  BY <1>1, <1>2, <1>3 DEF TypeInv, TypeOK, SyncTypeOK, SyncRun, CleanTypeOK, CleanRun, AdminTypeOK, AdminRun, AnyRow,
     systemVars, packageVars
<1>5. KeysHold' /\ SyncShape' /\ RowsInv' /\ AdminShape'
  BY <1>2 DEF TypeInv, KeysHold, SyncShape, RowsInv, Fetching, AdminShape, systemVars, packageVars
<1>6. QED
  BY <1>4, <1>5 DEF TypeInv

-----------------------------------------------------------------------------
(* What starts keeps the types. *)

\* The variants of a repository.
LEMMA InstancesType ==
  ASSUME CatalogAssumption, RepoTypeOK, NEW r \in repos
  PROVE  Instances(r[1], r[2]) \subseteq Variant
<1>1. r[2] \in RepoName
  BY DEF RepoTypeOK
<1>2. \A x \in Release : OsOf[x] \in OpSys /\ VersionOf[x] \in {VersionOf[y] : y \in Release}
  BY CatalogAssumption
<1>3. \A things : AssignedTo(r[1], things) \subseteq things
  BY DEF AssignedTo
<1>4. active \subseteq Release
  BY DEF RepoTypeOK
<1>5. Parametrized(r[1], r[2]) \subseteq Variant
  BY <1>1, <1>2, <1>3, <1>4 DEF Parametrized, Variant
<1>6. ForReleases(r[1], r[2]) \subseteq Variant
  BY <1>1, <1>2, <1>3 DEF ForReleases, Variant
<1>7. Unbound(r[1], r[2]) \subseteq Variant
  BY <1>1, <1>3 DEF Unbound, Variant
<1>8. QED
  BY <1>5, <1>6, <1>7 DEF Instances

\* A run of reposync that starts.
LEMMA SyncStartEffect ==
  ASSUME CatalogAssumption, SyncAssumption, TypeInv, NEW p \in Syncer, NEW busy, SyncStart(p, busy)
  PROVE  /\ Becomes(p, sync'[p]) /\ sync'[p] \in SyncRun' /\ sync'[p].pc = "repo"
         /\ \A i \in sync'[p].todo : \E r \in repos : i \in Instances(r[1], r[2])
         /\ sync'[p].seen = {}
         /\ Begin(p, busy) /\ UNCHANGED <<cache, buildArchs, systemVars, packageVars>>
<1>1. PICK opts \in SyncOptions, names \in SUBSET RepoName \ {{}} :
        Becomes(p, [Fresh EXCEPT !.pc = "repo", !.opts = opts,
                      !.todo = UNION {Instances(r[1], r[2]) : r \in {x \in repos : x[2] \in names}}])
  BY DEF SyncStart
<1>2. Begin(p, busy) /\ UNCHANGED <<cache, buildArchs, systemVars, packageVars>>
  BY DEF SyncStart
<1> DEFINE todo == UNION {Instances(r[1], r[2]) : r \in {x \in repos : x[2] \in names}}
<1>3. \A i \in todo : \E r \in repos : i \in Instances(r[1], r[2])
  OBVIOUS
<1>4. todo \subseteq Variant
  BY <1>3, InstancesType DEF TypeInv, TypeOK
<1>5. lastId \in Nat /\ lastId' = lastId /\ lastId <= lastId /\ sync \in [Syncer -> SyncRun]
  BY <1>2, RunTypes DEF packageVars
<1> HIDE DEF todo
<1>6. Becomes(p, sync'[p]) /\ sync'[p] = [Fresh EXCEPT !.pc = "repo", !.opts = opts, !.todo = todo]
  BY <1>1, <1>5, BecomesEffect DEF todo
<1>7. todo \in Variants /\ opts \in Options /\ "repo" \in SyncPc
  BY <1>4, SyncAssumption DEF Variants, Options, SyncPc
<1>8. Fresh \in SyncRun' /\ Fresh.seen = {}
  BY <1>5, OverEffect DEF Fresh
<1>9. sync'[p] \in SyncRun' /\ sync'[p].pc = "repo" /\ sync'[p].todo = todo /\ sync'[p].seen = {}
  BY <1>6, <1>7, <1>8, RunParts
<1>10. QED
  BY <1>2, <1>3, <1>6, <1>9

\* It has the right type.
LEMMA SyncStartType ==
  ASSUME CatalogAssumption, SyncAssumption, TypeInv, NEW p \in Syncer, NEW busy, SyncStart(p, busy),
         UNCHANGED <<clean, admin>>, starts' \in 0..MaxStarts
  PROVE  TypeInv'
<1>1. /\ Becomes(p, sync'[p]) /\ sync'[p] \in SyncRun' /\ sync'[p].pc = "repo" /\ Begin(p, busy)
      /\ UNCHANGED <<cache, buildArchs, systemVars, packageVars>>
  BY SyncStartEffect
<1>2. RepoTypeOK'
  BY <1>1, SyncAssumption, BeginType, SameTables DEF TypeInv, TypeOK, RepoTypeOK, ProcessTypes
<1>3. lastId' = lastId /\ lastId \in Nat /\ lastId <= lastId /\ sync \in [Syncer -> SyncRun]
  BY <1>1, RunTypes DEF packageVars
<1>4. sync' \in [Syncer -> SyncRun'] /\ \A q \in Syncer \ {p} : sync'[q] = sync[q]
  BY <1>1, <1>3, BecomesType, BecomesEffect
<1>5. TypeOK'
  BY <1>1, <1>2, <1>4 DEF TypeInv, TypeOK, SyncTypeOK, CleanTypeOK, CleanRun, AdminTypeOK, AdminRun, AnyRow,
     systemVars, packageVars
<1>6. KeysHold' /\ AdminShape'
  BY <1>1 DEF TypeInv, KeysHold, AdminShape, systemVars
<1>7. sync'[p].pc \notin AtVariant /\ sync'[p].pc \notin AtPackage /\ sync'[p].pc # "provides" /\ sync'[p].pc \notin AtRow
  BY <1>1 DEF AtVariant, AtPackage, AtRow
<1>8. SyncShape'
  BY <1>4, <1>7 DEF TypeInv, SyncShape
<1>9. RowsInv'
  BY <1>1, <1>4, <1>7 DEF TypeInv, RowsInv, Fetching, packageVars
<1>10. QED
  BY <1>5, <1>6, <1>8, <1>9 DEF TypeInv

\* What a clean-up begins with: builds that have no links but those of its
\* release or architecture.
Chosen(op, target, chosen, pc) ==
  /\ op \in {"packages", "unassigned", "releasedel"} /\ pc = IF op = "releasedel" THEN "unlink" ELSE "builds"
  /\ target \subseteq Release \cup Arch /\ chosen \subseteq BuildIds
  /\ op = "unassigned" => target = {}
  /\ \A b \in chosen, l \in links : l[1] = b => l[2] \in target \/ l[3] \in target

\* What a clean-up chooses when it begins.
LEMMA CleanBeginEffect ==
  ASSUME TypeInv, NEW c \in Cleaner, NEW busy, CleanBegin(c, busy)
  PROVE  \E op, target, chosen, pc : CleanStart(c, busy, op, target, chosen, pc) /\ Chosen(op, target, chosen, pc)
<1>1. releases \subseteq Release /\ archs \subseteq Arch /\ \A l \in links : l[1] \in BuildIds
  BY DEF TypeInv, TypeOK, RepoTypeOK
<1>2. CASE CleanupUnassigned(c, busy)
  <2>1. Chosen("unassigned", {}, Unassigned, "builds")
    BY DEF Chosen, Unassigned
  <2>2. CleanStart(c, busy, "unassigned", {}, Unassigned, "builds")
    BY <1>2 DEF CleanupUnassigned
  <2>3. QED
    BY <2>1, <2>2
<1>3. ASSUME NEW r \in releases
      PROVE  Chosen("packages", {r}, BuildsOnlyOf(r), "builds") /\ Chosen("releasedel", {r}, BuildsOnlyOf(r), "unlink")
  BY <1>1 DEF Chosen, BuildsOnlyOf
<1>4. ASSUME NEW a \in archs PROVE Chosen("packages", {a}, BuildsOnlyOn(a), "builds")
  BY <1>1 DEF Chosen, BuildsOnlyOn
<1>5. CASE CleanupPackages(c, busy)
  BY <1>3, <1>4, <1>5 DEF CleanupPackages
<1>6. CASE ReleaseDelete(c, busy)
  BY <1>3, <1>6 DEF ReleaseDelete
<1>7. QED
  BY <1>2, <1>5, <1>6 DEF CleanBegin

\* A clean-up that begins.
LEMMA CleanStartEffect ==
  ASSUME TypeInv, NEW c \in Cleaner, NEW busy, NEW op, NEW target, NEW chosen, NEW pc,
         Chosen(op, target, chosen, pc), CleanStart(c, busy, op, target, chosen, pc)
  PROVE  /\ clean'[c].pc = pc /\ clean'[c].op = op /\ clean'[c].target = target /\ clean'[c].todo = chosen
         /\ clean'[c].build = {} /\ (\A d \in Cleaner \ {c} : clean'[d] = clean[d])
         /\ clean' \in [Cleaner -> CleanRun'] /\ Begin(c, busy) /\ UNCHANGED <<systemVars, packageVars>>
<1>1. Begin(c, busy) /\ UNCHANGED <<systemVars, packageVars>>
  BY DEF CleanStart
<1>2. chosen \subseteq 1..lastId
  BY DEF Chosen, BuildIds, TypeInv, TypeOK, RepoTypeOK
<1> DEFINE r == [Rest EXCEPT !.pc = pc, !.op = op, !.target = target, !.todo = chosen]
<1>3. /\ r \in CleanRun /\ r.pc = pc /\ r.op = op /\ r.target = target /\ r.todo = chosen /\ r.build = {}
  BY <1>2 DEF Chosen, Rest, CleanRun
<1>4. Turns(c, r) /\ clean \in [Cleaner -> CleanRun]
  BY DEF CleanStart, TypeInv, TypeOK, CleanTypeOK
<1> HIDE DEF r
<1>5. QED
  BY <1>1, <1>3, <1>4, TurnsEffect DEF packageVars

\* It has the right type.
LEMMA CleanBeginType ==
  ASSUME CleanAssumption, TypeInv, NEW c \in Cleaner, NEW busy, CleanBegin(c, busy),
         UNCHANGED <<syncVars, admin>>, starts' \in 0..MaxStarts
  PROVE  TypeInv'
<1>a. PICK op, target, chosen, pc : CleanStart(c, busy, op, target, chosen, pc) /\ Chosen(op, target, chosen, pc)
  BY CleanBeginEffect
<1>b. clean' \in [Cleaner -> CleanRun']
  BY <1>a, CleanStartEffect
<1>1. clean' \in [Cleaner -> CleanRun'] /\ Begin(c, busy) /\ UNCHANGED <<systemVars, packageVars>>
  BY <1>a, <1>b DEF CleanStart
<1>2. RepoTypeOK'
  BY <1>1, CleanAssumption, BeginType, SameTables DEF TypeInv, TypeOK, RepoTypeOK, ProcessTypes
<1>3. TypeOK'
  BY <1>1, <1>2 DEF TypeInv, TypeOK, SyncTypeOK, SyncRun, CleanTypeOK, AdminTypeOK, AdminRun, AnyRow,
     systemVars, packageVars, syncVars
<1>4. KeysHold' /\ AdminShape' /\ SyncShape' /\ RowsInv'
  BY <1>1 DEF TypeInv, KeysHold, AdminShape, SyncShape, RowsInv, Fetching, systemVars, packageVars, syncVars
<1>5. QED
  BY <1>3, <1>4 DEF TypeInv

\* What administration plans: rows of the tables, deletions from those that it
\* may delete from, and releases made active that there are or will be.
Plan(add, del, need) ==
  /\ add \subseteq AnyRow' /\ del \subseteq AnyRow' /\ need \subseteq AnyRow' \cup {<<"repo", <<0, 0>>>>}
  /\ \A x \in del : x[1] \notin {"arch", "release", "link", "buildComponent", "person", "component"}
  /\ \A x \in add : x[1] = "active" => <<"release", x[2]>> \in add \cup need

\* The rows of a table.
LEMMA RowIs ==
  ASSUME NEW t, NEW S
  PROVE  /\ Row(t, S) \subseteq {t} \X S
         /\ \A x \in Row(t, S) : x[1] = t /\ x[2] \in S
         /\ \A v : <<t, v>> \in Row(t, S) <=> v \in S
BY DEF Row

\* Rows that a plan may hold.
LEMMA RowTypes ==
  ASSUME NEW S
  PROVE  /\ S \subseteq Arch => Row("arch", S) \subseteq AnyRow'
         /\ S \subseteq OpSys => Row("opsys", S) \subseteq AnyRow'
         /\ S \subseteq Release => Row("release", S) \subseteq AnyRow' /\ Row("active", S) \subseteq AnyRow'
         /\ S \subseteq (OpSys \cup Release) \X Comp => Row("component", S) \subseteq AnyRow'
         /\ S \subseteq Person => Row("person", S) \subseteq AnyRow'
         /\ S \subseteq (OpSys \X Comp) \X Person => Row("permission", S) \subseteq AnyRow'
         /\ S \subseteq (0..lastId') \X RepoName => Row("repo", S) \subseteq AnyRow'
         /\ S \subseteq (0..lastId') \X {"plain", "param"} => Row("url", S) \subseteq AnyRow'
         /\ S \subseteq (1..lastId') \X (OpSys \cup Release \cup Arch) => Row("assigned", S) \subseteq AnyRow'
         /\ S \subseteq (1..lastId') \X Release \X archs' => Row("link", S) \subseteq AnyRow'
         /\ S \subseteq (1..lastId') \X Comp => Row("buildComponent", S) \subseteq AnyRow'
<1>1. \A t : Row(t, S) \subseteq {t} \X S
  BY RowIs
<1>2. QED
  BY <1>1 DEF AnyRow

\* A plan that is made.
LEMMA PrepareEffect ==
  ASSUME TypeInv, NEW a \in Admin, NEW busy, NEW op, NEW add, NEW del, NEW need,
         Prepare(a, busy, op, add, del, need)
  PROVE  /\ admin'[a].pc = "flush" /\ admin'[a].op = op /\ admin'[a].add = add /\ admin'[a].del = del
         /\ admin'[a].need = need /\ op \in AdminOps /\ Begin(a, busy)
         /\ UNCHANGED <<systemVars, builds, links, buildComponents, packages, provides, whole, part, orphans>>
         /\ \A b \in Admin \ {a} : admin'[b] = admin[b]
<1>1. admin \in [Admin -> AdminRun]
  BY DEF TypeInv, TypeOK, AdminTypeOK
<1>2. QED
  BY <1>1 DEF Prepare

\* A plan of such rows has the right type.
LEMMA PrepareType ==
  ASSUME RegistryAssumption, TypeInv, NEW a \in Admin, NEW busy, NEW op, NEW add, NEW del, NEW need,
         Prepare(a, busy, op, add, del, need), lastId' \in {lastId, lastId + 1}, Plan(add, del, need),
         UNCHANGED <<syncVars, clean>>, starts' \in 0..MaxStarts
  PROVE  TypeInv'
<1>1. /\ admin'[a].add = add /\ admin'[a].del = del /\ admin'[a].need = need /\ op \in AdminOps /\ Begin(a, busy)
      /\ UNCHANGED <<systemVars, builds, links, buildComponents, packages, provides, whole, part, orphans>>
      /\ \A b \in Admin \ {a} : admin'[b] = admin[b]
  BY PrepareEffect
<1>2. lastId \in Nat /\ lastId' \in Nat /\ lastId <= lastId' /\ 1..lastId \subseteq 1..lastId'
  BY DEF TypeInv, TypeOK, RepoTypeOK
<1>3. SyncRun \subseteq SyncRun' /\ CleanRun \subseteq CleanRun' /\ AdminRun \subseteq AdminRun'
  BY <1>1, <1>2, SyncRunGrows, CleanRunGrows, AdminRunGrows DEF systemVars
<1>4. AdminTypeOK'
  <2>1. admin' = [admin EXCEPT ![a] = [pc |-> "flush", op |-> op, add |-> add, del |-> del, need |-> need]]
    BY DEF Prepare
  <2>2. [pc |-> "flush", op |-> op, add |-> add, del |-> del, need |-> need] \in AdminRun'
    BY <1>1 DEF Plan, AdminRun
  <2>3. admin \in [Admin -> AdminRun']
    BY <1>3 DEF TypeInv, TypeOK, AdminTypeOK
  <2>4. QED
    BY <2>1, <2>2, <2>3 DEF AdminTypeOK
<1>5. SyncTypeOK' /\ CleanTypeOK'
  BY <1>3 DEF TypeInv, TypeOK, SyncTypeOK, CleanTypeOK, syncVars
<1>6. RepoTypeOK'
  <2>1. ProcessTypes'
    BY <1>1, RegistryAssumption, BeginType DEF TypeInv, TypeOK, RepoTypeOK, ProcessTypes
  <2>2. BuildIds' = BuildIds /\ PackageIds' = PackageIds
    BY <1>1 DEF BuildIds, PackageIds
  <2>3. /\ repos \subseteq (1..lastId') \X RepoName /\ urls \subseteq (1..lastId') \X {"plain", "param"}
        /\ assigned \subseteq (1..lastId') \X (OpSys \cup Release \cup Arch)
        /\ builds \subseteq [id : 1..lastId', nvr : Nvr]
        /\ packages \subseteq [id : 1..lastId', pkg : Pkg, build : BuildIds]
        /\ whole \cup part \cup orphans \subseteq 1..lastId'
    BY <1>2 DEF TypeInv, TypeOK, RepoTypeOK
  <2>4. QED
    BY <1>1, <1>2, <2>1, <2>2, <2>3 DEF TypeInv, TypeOK, RepoTypeOK, systemVars, ProcessTypes
<1>7. KeysHold' /\ SyncShape' /\ RowsInv'
  BY <1>1 DEF TypeInv, KeysHold, SyncShape, RowsInv, Fetching, systemVars, syncVars
<1>8. AdminShape'
  <2>1. /\ \A x \in admin'[a].del : x[1] \notin {"arch", "release", "link", "buildComponent", "person", "component"}
        /\ \A x \in admin'[a].add : x[1] = "active" => <<"release", x[2]>> \in admin'[a].add \cup admin'[a].need
    BY <1>1 DEF Plan
  <2>2. QED
    BY <1>1, <2>1 DEF TypeInv, AdminShape
<1>9. QED
  BY <1>4, <1>5, <1>6, <1>7, <1>8 DEF TypeInv, TypeOK

-----------------------------------------------------------------------------
(* What administration plans will be accepted, if nobody else comes first. *)

\* A table after a plan, and the plans that the database accepts.
Would(add, del, t) == (Table(t) \ Of(del, t)) \cup Of(add, t)
Accepted(add, del, need) ==
  /\ \A x \in add : x[1] \notin {"repo", "url", "assigned", "active"} => x[2] \notin Table(x[1])
  /\ \A x \in need : x[2] \in Table(x[1])
  /\ \A x \in del : x[1] \in {"url", "assigned"} => x[2] \in Table(x[1])
  /\ \A r \in Would(add, del, "repo") : r[1] # 0
  /\ \A r \in Would(add, del, "release") : OsOf[r] \in Would(add, del, "opsys")
  /\ \A c \in Would(add, del, "component") :
       /\ c[1] \in Would(add, del, "opsys") \cup Would(add, del, "release")
       /\ c[1] \in Release => <<OsOf[c[1]], c[2]>> \in Would(add, del, "component")
  /\ \A x \in Would(add, del, "permission") :
       x[1] \in Would(add, del, "component") /\ x[2] \in Would(add, del, "person")
  /\ \A x \in Would(add, del, "buildComponent") : x[1] \in BuildIds
  /\ \A x \in Would(add, del, "url") \cup Would(add, del, "assigned") :
       \E r \in Would(add, del, "repo") : r[1] = x[1]
  /\ \A x \in Would(add, del, "assigned") :
       x[2] \in Would(add, del, "opsys") \cup Would(add, del, "release") \cup Would(add, del, "arch")
  /\ \A l \in Would(add, del, "link") : l[1] \in BuildIds /\ l[2] \in Would(add, del, "release")

Good(op, add, del, need) ==
  /\ op \notin MayDie => Accepted(add, del, need)
  /\ UniqueNames(repos) => UniqueNames(Would(add, del, "repo"))

\* The tables by their names.
LEMMA Tables ==
  /\ Table("arch") = archs /\ Table("opsys") = opsys /\ Table("release") = releases /\ Table("active") = active
  /\ Table("component") = components /\ Table("repo") = repos /\ Table("url") = urls
  /\ Table("assigned") = assigned /\ Table("link") = links /\ Table("person") = people
  /\ Table("permission") = permissions /\ Table("buildComponent") = buildComponents
BY DEF Table

\* The rows of one table in a plan.
LEMMA OfRow ==
  /\ \A t, S : Of(Row(t, S), t) = S
  /\ \A t, u, S : u # t => Of(Row(t, S), u) = {}
  /\ \A t : Of({}, t) = {}
<1>1. ASSUME NEW t, NEW S PROVE Of(Row(t, S), t) = S
  <2>1. \A v \in S : <<t, v>> \in {y \in Row(t, S) : y[1] = t} /\ <<t, v>>[2] = v
    BY RowIs
  <2>2. \A v \in S : v \in Of(Row(t, S), t)
    BY <2>1 DEF Of
  <2>3. \A y \in Row(t, S) : y[2] \in S
    BY RowIs
  <2>4. QED
    BY <2>2, <2>3 DEF Of
<1>2. \A t, u, S : u # t => Of(Row(t, S), u) = {}
  BY DEF Of, Row
<1>4. \A t : Of({}, t) = {}
  BY DEF Of
<1>5. QED
  BY <1>1, <1>2, <1>4

\* A plan is accepted if what it adds is new and refers to what there is, and
\* if the urls and the assignments that stay or come have their repository.
LEMMA Acceptable ==
  ASSUME TypeInv, NEW add, NEW del, NEW need, Plan(add, del, need),
         \A x \in add : x[1] \notin {"repo", "url", "assigned", "active"} => x[2] \notin Table(x[1]),
         \A x \in need : x[2] \in Table(x[1]),
         \A x \in del : x[1] # "opsys" /\ (x[1] \in {"url", "assigned"} => x[2] \in Table(x[1])),
         \A r \in Of(add, "release") : OsOf[r] \in Would(add, del, "opsys"),
         \A c \in Of(add, "component") :
           /\ c[1] \in opsys \cup releases
           /\ c[1] \in Release => <<OsOf[c[1]], c[2]>> \in Would(add, del, "component"),
         \A x \in Of(add, "permission") : x[1] \in components /\ x[2] \in Would(add, del, "person"),
         \A x \in Of(add, "buildComponent") : x[1] \in BuildIds,
         \A l \in Of(add, "link") : l[1] \in BuildIds /\ l[2] \in releases,
         \A x \in Of(add, "assigned") : x[2] \in opsys \cup releases \cup archs,
         \A r \in Of(add, "repo") : r[1] # 0,
         \A x \in Would(add, del, "url") \cup Would(add, del, "assigned") :
           \E r \in Would(add, del, "repo") : r[1] = x[1]
  PROVE  Accepted(add, del, need)
<1>1. RepoTypeOK /\ KeysHold
  BY DEF TypeInv, TypeOK
<1>2. /\ Of(del, "arch") = {} /\ Of(del, "release") = {} /\ Of(del, "link") = {} /\ Of(del, "buildComponent") = {}
      /\ Of(del, "person") = {} /\ Of(del, "component") = {} /\ Of(del, "opsys") = {}
  BY DEF Plan, Of
<1>3. /\ archs \subseteq Would(add, del, "arch") /\ opsys \subseteq Would(add, del, "opsys")
      /\ releases \subseteq Would(add, del, "release") /\ people \subseteq Would(add, del, "person")
      /\ components \subseteq Would(add, del, "component")
  BY <1>2, Tables DEF Would
<1>4. \A r \in Would(add, del, "repo") : r[1] # 0
  BY <1>1, Tables DEF Would, RepoTypeOK
<1>5. \A r \in Would(add, del, "release") : OsOf[r] \in Would(add, del, "opsys")
  <2>1. \A r \in releases : OsOf[r] \in opsys
    BY <1>1 DEF KeysHold
  <2>2. \A r \in Would(add, del, "release") : r \in releases \/ r \in Of(add, "release")
    BY Tables DEF Would
  <2>3. QED
    BY <1>3, <2>1, <2>2
<1>6. \A c \in Would(add, del, "component") :
       /\ c[1] \in Would(add, del, "opsys") \cup Would(add, del, "release")
       /\ c[1] \in Release => <<OsOf[c[1]], c[2]>> \in Would(add, del, "component")
  <2>1. \A c \in components : /\ c[1] \in opsys \cup releases
                              /\ c[1] \in Release => <<OsOf[c[1]], c[2]>> \in components
    BY <1>1 DEF KeysHold
  <2>2. \A c \in Would(add, del, "component") : c \in components \/ c \in Of(add, "component")
    BY Tables DEF Would
  <2>3. QED
    BY <1>3, <2>1, <2>2
<1>7. \A x \in Would(add, del, "permission") :
        x[1] \in Would(add, del, "component") /\ x[2] \in Would(add, del, "person")
  <2>1. \A x \in permissions : x[1] \in components /\ x[2] \in people
    BY <1>1 DEF RepoTypeOK
  <2>2. \A x \in Would(add, del, "permission") : x \in permissions \/ x \in Of(add, "permission")
    BY Tables DEF Would
  <2>3. QED
    BY <1>3, <2>1, <2>2
<1>8. \A x \in Would(add, del, "buildComponent") : x[1] \in BuildIds
  <2>1. \A x \in buildComponents : x[1] \in BuildIds
    BY <1>1 DEF RepoTypeOK
  <2>2. QED
    BY <2>1, Tables DEF Would
<1>9. \A x \in Would(add, del, "assigned") :
        x[2] \in Would(add, del, "opsys") \cup Would(add, del, "release") \cup Would(add, del, "arch")
  <2>1. \A x \in assigned : x[2] \in opsys \cup releases \cup archs
    BY <1>1 DEF KeysHold
  <2>2. \A x \in Would(add, del, "assigned") : x \in assigned \/ x \in Of(add, "assigned")
    BY Tables DEF Would
  <2>3. QED
    BY <1>3, <2>1, <2>2
<1>10. \A l \in Would(add, del, "link") : l[1] \in BuildIds /\ l[2] \in Would(add, del, "release")
  <2>1. \A l \in links : l[1] \in BuildIds /\ l[2] \in releases
    BY <1>1 DEF RepoTypeOK
  <2>2. \A l \in Would(add, del, "link") : l \in links \/ l \in Of(add, "link")
    BY Tables DEF Would
  <2>3. QED
    BY <1>3, <2>1, <2>2
<1>11. QED
  BY <1>4, <1>5, <1>6, <1>7, <1>8, <1>9, <1>10 DEF Accepted

\* A plan that leaves the repositories alone.
LEMMA AcceptableElsewhere ==
  ASSUME TypeInv, NEW op, NEW add, NEW del, NEW need, Plan(add, del, need),
         \A x \in add \cup del : x[1] \notin {"repo", "url", "assigned"},
         \A x \in add : x[1] # "active" => x[2] \notin Table(x[1]),
         \A x \in need : x[2] \in Table(x[1]),
         \A x \in del : x[1] # "opsys",
         \A r \in Of(add, "release") : OsOf[r] \in Would(add, del, "opsys"),
         \A c \in Of(add, "component") :
           /\ c[1] \in opsys \cup releases
           /\ c[1] \in Release => <<OsOf[c[1]], c[2]>> \in Would(add, del, "component"),
         \A x \in Of(add, "permission") : x[1] \in components /\ x[2] \in Would(add, del, "person"),
         \A x \in Of(add, "buildComponent") : x[1] \in BuildIds,
         Of(add, "link") = {}
  PROVE  Good(op, add, del, need)
<1>1. /\ Of(add, "repo") = {} /\ Of(add, "url") = {} /\ Of(add, "assigned") = {}
      /\ Of(del, "repo") = {} /\ Of(del, "url") = {} /\ Of(del, "assigned") = {}
  BY DEF Of
<1>2. /\ Would(add, del, "repo") = repos /\ Would(add, del, "url") = urls
      /\ Would(add, del, "assigned") = assigned
  BY <1>1, Tables DEF Would
<1>3. \A x \in urls \cup assigned : \E r \in repos : r[1] = x[1]
  BY DEF TypeInv, KeysHold
<1>4. Accepted(add, del, need)
  BY <1>1, <1>2, <1>3, Acceptable
<1>5. QED
  BY <1>2, <1>4 DEF Good

\* What a plan becomes of: that it is made, and fits.
Planned(a, busy, op) ==
  \E add, del, need : Prepare(a, busy, op, add, del, need) /\ Plan(add, del, need) /\ Good(op, add, del, need)


\* archadd plans an architecture that there is not.
LEMMA ArchPlanned ==
  ASSUME TypeInv, NEW a \in Admin, NEW busy, ArchAdd(a, busy)
  PROVE  Planned(a, busy, "archadd") /\ lastId' \in {lastId, lastId + 1}
<1>1. PICK x \in Arch \ archs : Adds(a, busy, "archadd", Row("arch", {x}))
  BY DEF ArchAdd
<1> DEFINE add == Row("arch", {x})
<1>2. Plan(add, {}, {}) /\ \A y \in add : y[1] = "arch" /\ y[2] = x
  BY RowIs, RowTypes DEF Plan
<1>3. Of(add, "release") = {} /\ Of(add, "component") = {} /\ Of(add, "permission") = {}
      /\ Of(add, "buildComponent") = {} /\ Of(add, "link") = {}
  BY OfRow
<1> HIDE DEF add
<1>4. Good("archadd", add, {}, {})
  BY <1>1, <1>2, <1>3, AcceptableElsewhere, Tables
<1>5. QED
  BY <1>1, <1>2, <1>4 DEF Planned, Adds, add

\* opsysadd plans a system that there is not.
LEMMA OpSysPlanned ==
  ASSUME TypeInv, NEW a \in Admin, NEW busy, OpSysAdd(a, busy)
  PROVE  Planned(a, busy, "opsysadd") /\ lastId' \in {lastId, lastId + 1}
<1>1. PICK x \in OpSys \ opsys : Adds(a, busy, "opsysadd", Row("opsys", {x}))
  BY DEF OpSysAdd
<1> DEFINE add == Row("opsys", {x})
<1>2. Plan(add, {}, {}) /\ \A y \in add : y[1] = "opsys" /\ y[2] = x
  BY RowIs, RowTypes DEF Plan
<1>3. Of(add, "release") = {} /\ Of(add, "component") = {} /\ Of(add, "permission") = {}
      /\ Of(add, "buildComponent") = {} /\ Of(add, "link") = {}
  BY OfRow
<1> HIDE DEF add
<1>4. Good("opsysadd", add, {}, {})
  BY <1>1, <1>2, <1>3, AcceptableElsewhere, Tables
<1>5. QED
  BY <1>1, <1>2, <1>4 DEF Planned, Adds, add

\* opsysdel may be refused, but plans the right rows.
LEMMA OpSysDelPlanned ==
  ASSUME TypeInv, NEW a \in Admin, NEW busy, OpSysDel(a, busy)
  PROVE  Planned(a, busy, "opsysdel") /\ lastId' \in {lastId, lastId + 1}
<1>1. PICK x \in opsys : Prepare(a, busy, "opsysdel", {}, Row("opsys", {x}), {}) /\ lastId' = lastId
  BY DEF OpSysDel
<1> DEFINE del == Row("opsys", {x})
<1>2. x \in OpSys
  BY DEF TypeInv, TypeOK, RepoTypeOK
<1>3. Plan({}, del, {})
  BY <1>2, RowIs, RowTypes DEF Plan
<1>4. Would({}, del, "repo") = repos
  BY OfRow, Tables DEF Would
<1>5. Good("opsysdel", {}, del, {})
  BY <1>4 DEF Good, MayDie
<1>6. QED
  BY <1>1, <1>3, <1>5 DEF Planned

\* releaseadd plans a release of a system that there is.
LEMMA ReleaseAddPlanned ==
  ASSUME TypeInv, NEW a \in Admin, NEW busy, ReleaseAdd(a, busy)
  PROVE  Planned(a, busy, "releaseadd") /\ lastId' \in {lastId, lastId + 1}
<1>1. PICK r \in Release \ releases, live \in BOOLEAN :
        /\ OsOf[r] \in opsys
        /\ Adds(a, busy, "releaseadd", Row("release", {r}) \cup IF live THEN Row("active", {r}) ELSE {})
  BY DEF ReleaseAdd
<1> DEFINE act == IF live THEN {r} ELSE {}
           add == Row("release", {r}) \cup Row("active", act)
<1>2. add = Row("release", {r}) \cup IF live THEN Row("active", {r}) ELSE {}
  BY DEF Row
<1>3. act \subseteq {r}
  OBVIOUS
<1> HIDE DEF act
<1>4. /\ \A y \in add : y[1] \in {"release", "active"} /\ y[2] = r
      /\ <<"release", r>> \in add
  BY <1>3, RowIs
<1>5. Plan(add, {}, {})
  BY <1>3, <1>4, RowTypes DEF Plan
<1>6. /\ Of(add, "release") = {r} /\ Of(add, "component") = {} /\ Of(add, "permission") = {}
      /\ Of(add, "buildComponent") = {} /\ Of(add, "link") = {}
  <2>1. \A t : Of(add, t) = Of(Row("release", {r}), t) \cup Of(Row("active", act), t)
    BY DEF Of
  <2> HIDE DEF add
  <2>2. QED
    BY <2>1, OfRow
<1> HIDE DEF add
<1>7. OsOf[r] \in Would(add, {}, "opsys")
  BY <1>1, OfRow, Tables DEF Would
<1>8. Good("releaseadd", add, {}, {})
  BY <1>1, <1>4, <1>5, <1>6, <1>7, AcceptableElsewhere, Tables
<1>9. QED
  BY <1>1, <1>2, <1>5, <1>8 DEF Planned, Adds

\* releasemod updates a release that there is.
LEMMA ReleaseModPlanned ==
  ASSUME TypeInv, NEW a \in Admin, NEW busy, ReleaseMod(a, busy)
  PROVE  Planned(a, busy, "releasemod") /\ lastId' \in {lastId, lastId + 1}
<1>1. PICK r \in releases : \E live, dying \in SUBSET {r} :
        /\ Prepare(a, busy, "releasemod", Row("active", live), Row("active", dying), Row("release", {r}))
        /\ lastId' = lastId
  <2> DEFINE s(r) == IF r \in active THEN Status({}, {r}) ELSE Status({r}, {})
  <2>1. PICK r \in releases : Prepare(a, busy, "releasemod", s(r).add, s(r).del, Row("release", {r})) /\ lastId' = lastId
    BY DEF ReleaseMod
  <2>2. \E live, dying \in SUBSET {r} : s(r).add = Row("active", live) /\ s(r).del = Row("active", dying)
    <3>1. CASE r \in active
      <4>1. s(r).add = Row("active", {}) /\ s(r).del = Row("active", {r})
        BY <3>1 DEF Status
      <4>2. QED
        BY <4>1
    <3>2. CASE r \notin active
      <4>1. s(r).add = Row("active", {r}) /\ s(r).del = Row("active", {})
        BY <3>2 DEF Status
      <4>2. QED
        BY <4>1
    <3>3. QED
      BY <3>1, <3>2
  <2> HIDE DEF s
  <2>3. PICK live \in SUBSET {r}, dying \in SUBSET {r} : s(r).add = Row("active", live) /\ s(r).del = Row("active", dying)
    BY <2>2
  <2>4. Prepare(a, busy, "releasemod", Row("active", live), Row("active", dying), Row("release", {r})) /\ lastId' = lastId
    BY <2>1, <2>3, Zenon
  <2>5. QED
    BY <2>4, Zenon
<1>2. PICK live \in SUBSET {r}, dying \in SUBSET {r} :
        Prepare(a, busy, "releasemod", Row("active", live), Row("active", dying), Row("release", {r}))
  BY <1>1
<1> DEFINE add == Row("active", live)
           del == Row("active", dying)
           need == Row("release", {r})
<1>3. r \in Release
  BY DEF TypeInv, TypeOK, RepoTypeOK
<1>4. /\ \A y \in add \cup del : y[1] = "active" /\ y[2] = r
      /\ \A y \in need : y[1] = "release" /\ y[2] = r
      /\ <<"release", r>> \in need
  BY <1>2, RowIs
<1>5. Plan(add, del, need)
  BY <1>2, <1>3, <1>4, RowTypes DEF Plan
<1>6. /\ Of(add, "release") = {} /\ Of(add, "component") = {} /\ Of(add, "permission") = {}
      /\ Of(add, "buildComponent") = {} /\ Of(add, "link") = {}
  BY OfRow
<1> HIDE DEF add, del, need
<1>7. Good("releasemod", add, del, need)
  BY <1>4, <1>5, <1>6, AcceptableElsewhere, Tables
<1>8. QED
  BY <1>1, <1>2, <1>5, <1>7 DEF Planned, add, del, need

\* pull-releases adds the unknown ones and updates the known.
LEMMA PullReleasesPlanned ==
  ASSUME RegistryAssumption, TypeInv, NEW a \in Admin, NEW busy, PullReleases(a, busy)
  PROVE  Planned(a, busy, "pullReleases") /\ lastId' \in {lastId, lastId + 1}
<1>1. PICK m \in RemoteReleases :
        LET known == DOMAIN m \cap releases
            new == {r \in DOMAIN m \ releases : m[r] # "EOL"}
            s == Status({r \in known \cup new : m[r] = "ACTIVE"}, {r \in known : m[r] # "ACTIVE"})
        IN /\ \A r \in DOMAIN m : OsOf[r] \in opsys
           /\ Prepare(a, busy, "pullReleases", Row("release", new) \cup s.add, s.del, Row("release", known))
           /\ lastId' = lastId
  BY DEF PullReleases
<1> DEFINE known == DOMAIN m \cap releases
           new == {r \in DOMAIN m \ releases : m[r] # "EOL"}
           live == {r \in known \cup new : m[r] = "ACTIVE"}
           dying == {r \in known : m[r] # "ACTIVE"}
<1>2. /\ live \subseteq known \cup new /\ dying \subseteq known
      /\ Prepare(a, busy, "pullReleases", Row("release", new) \cup Row("active", live), Row("active", dying),
                 Row("release", known))
  BY <1>1 DEF Status
<1>3. \A r \in new : OsOf[r] \in opsys /\ r \notin releases
  BY <1>1
<1>4. known \subseteq releases /\ known \subseteq Release /\ new \subseteq Release
  BY RegistryAssumption
<1> HIDE DEF known, new, live, dying
<1> DEFINE add == Row("release", new) \cup Row("active", live)
           del == Row("active", dying)
           need == Row("release", known)
<1>5. /\ \A y \in add : (y[1] = "release" /\ y[2] \in new) \/ (y[1] = "active" /\ y[2] \in live)
      /\ \A y \in del : y[1] = "active"
      /\ \A y \in need : y[1] = "release" /\ y[2] \in known
      /\ \A r \in known \cup new : <<"release", r>> \in add \cup need
  BY RowIs
<1>6. add \subseteq AnyRow' /\ del \subseteq AnyRow' /\ need \subseteq AnyRow'
  <2>1. live \subseteq Release /\ dying \subseteq Release
    BY <1>2, <1>4
  <2>2. QED
    BY <2>1, <1>4, RowTypes
<1>7. Plan(add, del, need)
  BY <1>2, <1>5, <1>6 DEF Plan
<1>8. /\ Of(add, "release") = new /\ Of(add, "component") = {} /\ Of(add, "permission") = {}
      /\ Of(add, "buildComponent") = {} /\ Of(add, "link") = {}
  <2>1. \A t : Of(add, t) = Of(Row("release", new), t) \cup Of(Row("active", live), t)
    BY DEF Of
  <2> HIDE DEF add
  <2>2. QED
    BY <2>1, OfRow
<1>9. Of(del, "opsys") = {}
  BY OfRow
<1> HIDE DEF add, del, need
<1>10. \A r \in new : OsOf[r] \in Would(add, del, "opsys")
  BY <1>3, <1>9, Tables DEF Would
<1>11. Good("pullReleases", add, del, need)
  BY <1>3, <1>4, <1>5, <1>7, <1>8, <1>10, AcceptableElsewhere, Tables
<1>12. QED
  BY <1>1, <1>2, <1>7, <1>11 DEF Planned, add, del, need

\* Components of systems and of their releases, as both actions plan them.
LEMMA ComponentsPlanned ==
  ASSUME TypeInv, NEW op, NEW C, NEW a \in Admin, NEW busy,
         Adds(a, busy, op, Row("component", C \ components)),
         C \subseteq (OpSys \cup Release) \X Comp,
         \A c \in C : c[1] \in opsys \cup releases /\ (c[1] \in Release => <<OsOf[c[1]], c[2]>> \in C)
  PROVE  Planned(a, busy, op) /\ lastId' \in {lastId, lastId + 1}
<1> DEFINE add == Row("component", C \ components)
<1>1. \A y \in add : y[1] = "component" /\ y[2] \notin components
  BY RowIs
<1>2. Plan(add, {}, {})
  BY <1>1, RowTypes DEF Plan
<1>3. /\ Of(add, "release") = {} /\ Of(add, "component") = C \ components /\ Of(add, "permission") = {}
      /\ Of(add, "buildComponent") = {} /\ Of(add, "link") = {}
  BY OfRow
<1> HIDE DEF add
<1>4. C \subseteq Would(add, {}, "component")
  BY <1>3, OfRow, Tables DEF Would
<1>5. Good(op, add, {}, {})
  BY <1>1, <1>2, <1>3, <1>4, AcceptableElsewhere, Tables
<1>6. QED
  BY <1>2, <1>5 DEF Planned, Adds, add

\* componentadd: the component of the system goes with those of releases.
LEMMA ComponentAddPlanned ==
  ASSUME CatalogAssumption, TypeInv, NEW a \in Admin, NEW busy, ComponentAdd(a, busy)
  PROVE  Planned(a, busy, "componentadd") /\ lastId' \in {lastId, lastId + 1}
<1>0. PICK o \in opsys, c \in Comp : \E rels \in SUBSET {r \in releases : OsOf[r] = o} :
        Adds(a, busy, "componentadd", Row("component", ({<<o, c>>} \cup rels \X {c}) \ components))
  BY DEF ComponentAdd
<1>1. PICK rels \in SUBSET {r \in releases : OsOf[r] = o} :
        Adds(a, busy, "componentadd", Row("component", ({<<o, c>>} \cup rels \X {c}) \ components))
  BY <1>0
<1> DEFINE C == {<<o, c>>} \cup rels \X {c}
<1>2. opsys \subseteq OpSys /\ releases \subseteq Release
  BY DEF TypeInv, TypeOK, RepoTypeOK
<1>3. \A x \in C : x[1] \in opsys \cup releases /\ (x[1] \in Release => <<OsOf[x[1]], x[2]>> \in C)
  BY <1>2, CatalogAssumption
<1>4. C \subseteq (OpSys \cup Release) \X Comp
  BY <1>2
<1> HIDE DEF C
<1>5. Adds(a, busy, "componentadd", Row("component", C \ components))
  BY <1>1 DEF C
<1>6. QED
  BY <1>3, <1>4, <1>5, ComponentsPlanned

\* pull-components: so it does for each release.
LEMMA PullComponentsPlanned ==
  ASSUME CatalogAssumption, TypeInv, NEW a \in Admin, NEW busy, PullComponents(a, busy)
  PROVE  Planned(a, busy, "pullComponents") /\ lastId' \in {lastId, lastId + 1}
<1>1. PICK rels \in SUBSET releases, comps \in SUBSET Comp :
        Adds(a, busy, "pullComponents", Row("component", (({OsOf[r] : r \in rels} \cup rels) \X comps) \ components))
  BY DEF PullComponents
<1> DEFINE C == ({OsOf[r] : r \in rels} \cup rels) \X comps
<1>2. opsys \subseteq OpSys /\ releases \subseteq Release /\ \A r \in releases : OsOf[r] \in opsys
  BY DEF TypeInv, TypeOK, RepoTypeOK, KeysHold
<1>3. \A x \in C : x[1] \in opsys \cup releases /\ (x[1] \in Release => <<OsOf[x[1]], x[2]>> \in C)
  BY <1>2, CatalogAssumption
<1>4. C \subseteq (OpSys \cup Release) \X Comp
  BY <1>2
<1> HIDE DEF C
<1>5. Adds(a, busy, "pullComponents", Row("component", C \ components))
  BY <1>1 DEF C
<1>6. QED
  BY <1>3, <1>4, <1>5, ComponentsPlanned

\* pull-associates adds the people it refers to.
LEMMA AssociatesPlanned ==
  ASSUME TypeInv, NEW a \in Admin, NEW busy, PullAssociates(a, busy)
  PROVE  Planned(a, busy, "pullAssociates") /\ lastId' \in {lastId, lastId + 1}
<1>1. PICK k \in {x \in components : x[1] \in opsys}, named \in SUBSET Person :
        LET held == {x \in permissions : x[1] = k} IN
        /\ Prepare(a, busy, "pullAssociates",
                   Row("person", named \ people) \cup Row("permission", ({k} \X named) \ held),
                   Row("permission", held \ ({k} \X named)), {})
        /\ lastId' = lastId
  BY DEF PullAssociates
<1> DEFINE held == {x \in permissions : x[1] = k}
           come == ({k} \X named) \ held
           go == held \ ({k} \X named)
           new == named \ people
<1>2. Prepare(a, busy, "pullAssociates", Row("person", new) \cup Row("permission", come), Row("permission", go), {})
  BY <1>1
<1>3. \A x \in come : x[1] = k /\ x[2] \in named /\ x \notin permissions
  OBVIOUS
<1>4. k \in components /\ k \in OpSys \X Comp /\ people \subseteq Person /\ permissions \subseteq (OpSys \X Comp) \X Person
  BY DEF TypeInv, TypeOK, RepoTypeOK
<1>5. /\ come \subseteq (OpSys \X Comp) \X Person /\ go \subseteq (OpSys \X Comp) \X Person /\ new \subseteq Person
      /\ named \subseteq people \cup new /\ new \cap people = {}
  BY <1>4
<1> HIDE DEF come, go, new, held
<1> DEFINE add == Row("person", new) \cup Row("permission", come)
           del == Row("permission", go)
<1>6. /\ \A y \in add : (y[1] = "person" /\ y[2] \in new) \/ (y[1] = "permission" /\ y[2] \in come)
      /\ \A y \in del : y[1] = "permission"
  BY RowIs
<1>7. Plan(add, del, {})
  BY <1>5, <1>6, RowTypes DEF Plan
<1>8. /\ Of(add, "person") = new /\ Of(add, "permission") = come /\ Of(add, "release") = {} /\ Of(add, "component") = {}
      /\ Of(add, "buildComponent") = {} /\ Of(add, "link") = {}
  <2>1. \A t : Of(add, t) = Of(Row("person", new), t) \cup Of(Row("permission", come), t)
    BY DEF Of
  <2> HIDE DEF add
  <2>2. QED
    BY <2>1, OfRow
<1>9. Of(del, "person") = {}
  BY OfRow
<1> HIDE DEF add, del
<1>10. \A x \in come : x[1] \in components /\ x[2] \in Would(add, del, "person")
  <2>1. people \cup new \subseteq Would(add, del, "person")
    BY <1>8, <1>9, Tables DEF Would
  <2>2. QED
    BY <1>3, <1>4, <1>5, <2>1
<1>11. \A y \in add : y[2] \notin Table(y[1])
  BY <1>3, <1>5, <1>6, Tables
<1>12. Good("pullAssociates", add, del, {})
  BY <1>6, <1>7, <1>8, <1>10, <1>11, AcceptableElsewhere
<1>13. QED
  BY <1>1, <1>2, <1>7, <1>12 DEF Planned, add, del

\* find-components refers to builds and components that there are.
LEMMA FindComponentsPlanned ==
  ASSUME TypeInv, NEW a \in Admin, NEW busy, FindComponents(a, busy)
  PROVE  Planned(a, busy, "findComponents") /\ lastId' \in {lastId, lastId + 1}
<1>1. PICK bs \in SUBSET BuildIds, k \in {x \in components : x[1] \in opsys} :
        Adds(a, busy, "findComponents", Row("buildComponent", (bs \X {k[2]}) \ buildComponents))
  BY DEF FindComponents
<1> DEFINE new == (bs \X {k[2]}) \ buildComponents
           add == Row("buildComponent", new)
<1>2. lastId' = lastId /\ BuildIds \subseteq 1..lastId /\ k[2] \in Comp
  BY <1>1 DEF Adds, BuildIds, TypeInv, TypeOK, RepoTypeOK
<1>3. new \subseteq (1..lastId') \X Comp /\ (\A x \in new : x[1] \in BuildIds) /\ \A x \in new : x \notin buildComponents
  BY <1>2
<1> HIDE DEF new
<1>4. \A y \in add : y[1] = "buildComponent" /\ y[2] \in new
  BY RowIs
<1>5. Plan(add, {}, {})
  BY <1>3, <1>4, RowTypes DEF Plan
<1>6. /\ Of(add, "release") = {} /\ Of(add, "component") = {} /\ Of(add, "permission") = {}
      /\ Of(add, "buildComponent") = new /\ Of(add, "link") = {}
  BY OfRow
<1> HIDE DEF add
<1>7. Good("findComponents", add, {}, {})
  BY <1>3, <1>4, <1>5, <1>6, AcceptableElsewhere, Tables
<1>8. QED
  BY <1>1, <1>5, <1>7 DEF Planned, Adds, add, new

\* A repository that there is not yet.
LEMMA RepoAddPlanned ==
  ASSUME TypeInv, NEW a \in Admin, NEW busy, RepoAdd(a, busy)
  PROVE  Planned(a, busy, "repoadd") /\ lastId' \in {lastId, lastId + 1}
<1>1. PICK name \in RepoName, kinds \in SUBSET {"plain", "param"} \ {{}} :
        /\ Named(name) = {} /\ lastId' = lastId + 1
        /\ Prepare(a, busy, "repoadd", Row("repo", {<<lastId + 1, name>>}) \cup Row("url", {lastId + 1} \X kinds), {}, {})
  BY DEF RepoAdd
<1> DEFINE new == {<<lastId + 1, name>>}
           at == {lastId + 1} \X kinds
           add == Row("repo", new) \cup Row("url", at)
<1>2. lastId \in Nat /\ lastId + 1 \in 0..lastId' /\ lastId + 1 # 0
  BY <1>1 DEF TypeInv, TypeOK, RepoTypeOK
<1>3. \A r \in repos : r[2] # name
  BY <1>1 DEF Named
<1>4. new \subseteq (0..lastId') \X RepoName /\ at \subseteq (0..lastId') \X {"plain", "param"}
  <2> DEFINE id == lastId + 1
  <2>1. id \in 0..lastId' /\ kinds \subseteq {"plain", "param"}
    BY <1>2
  <2> HIDE DEF id
  <2> DEFINE ids == 0..lastId'
  <2>2. id \in ids
    BY <2>1
  <2> HIDE DEF ids
  <2>3. {<<id, name>>} \subseteq ids \X RepoName
    BY <2>2
  <2>4. {id} \X kinds \subseteq ids \X {"plain", "param"}
    BY <2>1, <2>2
  <2>5. QED
    BY <2>3, <2>4 DEF id, ids
<1>5. /\ \A x \in at : x[1] = lastId + 1
      /\ \A r \in new : r[1] = lastId + 1 /\ r[1] # 0 /\ r[2] = name
      /\ \A r, s \in new : r = s
      /\ \E r \in new : r[1] = lastId + 1
  BY <1>2
<1> HIDE DEF new, at
<1>6. \A y \in add : y[1] \in {"repo", "url"}
  BY RowIs
<1>7. Plan(add, {}, {})
  BY <1>4, <1>6, RowTypes DEF Plan
<1>8. /\ Of(add, "repo") = new /\ Of(add, "url") = at /\ Of(add, "assigned") = {}
      /\ Of(add, "release") = {} /\ Of(add, "component") = {} /\ Of(add, "permission") = {}
      /\ Of(add, "buildComponent") = {} /\ Of(add, "link") = {}
  <2>1. \A t : Of(add, t) = Of(Row("repo", new), t) \cup Of(Row("url", at), t)
    BY DEF Of
  <2> HIDE DEF add
  <2>2. QED
    BY <2>1, OfRow
<1> HIDE DEF add
<1>9. /\ Would(add, {}, "repo") = repos \cup new /\ Would(add, {}, "url") = urls \cup at
      /\ Would(add, {}, "assigned") = assigned
  BY <1>8, OfRow, Tables DEF Would
<1>10. \A x \in Would(add, {}, "url") \cup Would(add, {}, "assigned") : \E r \in Would(add, {}, "repo") : r[1] = x[1]
  <2>1. \A x \in urls \cup assigned : \E r \in repos : r[1] = x[1]
    BY DEF TypeInv, KeysHold
  <2>2. QED
    BY <1>5, <1>9, <2>1
<1>11. Accepted(add, {}, {})
  BY <1>5, <1>6, <1>7, <1>8, <1>10, Acceptable
<1>12. UniqueNames(repos) => UniqueNames(Would(add, {}, "repo"))
  BY <1>3, <1>5, <1>9 DEF UniqueNames
<1>13. QED
  BY <1>1, <1>7, <1>11, <1>12 DEF Planned, Good, add, new, at

\* repoimport may be refused, but gives no name twice.
LEMMA RepoImportPlanned ==
  ASSUME TypeInv, NEW a \in Admin, NEW busy, RepoImport(a, busy)
  PROVE  Planned(a, busy, "repoimport") /\ lastId' \in {lastId, lastId + 1}
<1>1. PICK name \in RepoName, kind \in {"plain", "param"}, id \in {0, lastId + 1} :
        /\ Named(name) = {} /\ lastId' = lastId + 1
        /\ Prepare(a, busy, "repoimport", Row("repo", {<<id, name>>}) \cup Row("url", {<<id, kind>>}), {}, {})
  BY DEF RepoImport
<1> DEFINE new == {<<id, name>>}
           at == {<<id, kind>>}
           add == Row("repo", new) \cup Row("url", at)
<1>2. lastId \in Nat /\ id \in 0..lastId'
  BY <1>1 DEF TypeInv, TypeOK, RepoTypeOK
<1>3. \A r \in repos : r[2] # name
  BY <1>1 DEF Named
<1>4. new \subseteq (0..lastId') \X RepoName /\ at \subseteq (0..lastId') \X {"plain", "param"}
  BY <1>2
<1>5. (\A r \in new : r[2] = name) /\ \A r, s \in new : r = s
  OBVIOUS
<1> HIDE DEF new, at
<1>6. \A y \in add : y[1] \in {"repo", "url"}
  BY RowIs
<1>7. Plan(add, {}, {})
  BY <1>4, <1>6, RowTypes DEF Plan
<1>8. Of(add, "repo") = new
  <2>1. \A t : Of(add, t) = Of(Row("repo", new), t) \cup Of(Row("url", at), t)
    BY DEF Of
  <2> HIDE DEF add
  <2>2. QED
    BY <2>1, OfRow
<1> HIDE DEF add
<1>9. Would(add, {}, "repo") = repos \cup new
  BY <1>8, OfRow, Tables DEF Would
<1>10. UniqueNames(repos) => UniqueNames(Would(add, {}, "repo"))
  BY <1>3, <1>5, <1>9 DEF UniqueNames
<1>11. Good("repoimport", add, {}, {})
  BY <1>10 DEF Good, MayDie
<1>12. QED
  BY <1>1, <1>7, <1>11 DEF Planned, add, new, at

\* repoassign refers to what there is.
LEMMA RepoAssignPlanned ==
  ASSUME TypeInv, NEW a \in Admin, NEW busy, RepoAssign(a, busy)
  PROVE  Planned(a, busy, "repoassign") /\ lastId' \in {lastId, lastId + 1}
<1>1. PICK r \in repos, things \in SUBSET (opsys \cup releases \cup archs) \ {{}} :
        /\ Prepare(a, busy, "repoassign", Row("assigned", {r[1]} \X things), {}, Row("repo", {r}))
        /\ lastId' = lastId
  BY DEF RepoAssign
<1> DEFINE new == {r[1]} \X things
           add == Row("assigned", new)
           need == Row("repo", {r})
<1>2. /\ r[1] \in 1..lastId' /\ {r} \subseteq (0..lastId') \X RepoName
      /\ opsys \cup releases \cup archs \subseteq OpSys \cup Release \cup Arch
  BY <1>1 DEF TypeInv, TypeOK, RepoTypeOK
<1>3. /\ new \subseteq (1..lastId') \X (OpSys \cup Release \cup Arch)
      /\ \A x \in new : x[1] = r[1] /\ x[2] \in opsys \cup releases \cup archs
  BY <1>2
<1> HIDE DEF new
<1>4. (\A y \in add : y[1] = "assigned") /\ \A y \in need : y[1] = "repo" /\ y[2] = r
  BY RowIs
<1>5. Plan(add, {}, need)
  BY <1>2, <1>3, <1>4, RowTypes DEF Plan
<1>6. /\ Of(add, "repo") = {} /\ Of(add, "url") = {} /\ Of(add, "assigned") = new
      /\ Of(add, "release") = {} /\ Of(add, "component") = {} /\ Of(add, "permission") = {}
      /\ Of(add, "buildComponent") = {} /\ Of(add, "link") = {}
  BY OfRow
<1> HIDE DEF add, need
<1>7. /\ Would(add, {}, "repo") = repos /\ Would(add, {}, "url") = urls
      /\ Would(add, {}, "assigned") = assigned \cup new
  BY <1>6, OfRow, Tables DEF Would
<1>8. \A x \in Would(add, {}, "url") \cup Would(add, {}, "assigned") : \E s \in Would(add, {}, "repo") : s[1] = x[1]
  <2>1. \A x \in urls \cup assigned : \E s \in repos : s[1] = x[1]
    BY DEF TypeInv, KeysHold
  <2>2. QED
    BY <1>3, <1>7, <2>1
<1>9. Accepted(add, {}, need)
  BY <1>3, <1>4, <1>5, <1>6, <1>8, Acceptable, Tables
<1>10. Good("repoassign", add, {}, need)
  BY <1>7, <1>9 DEF Good
<1>11. QED
  BY <1>1, <1>5, <1>10 DEF Planned, add, need, new

\* repodel takes the urls and the assignments with the repository.
LEMMA RepoDelPlanned ==
  ASSUME TypeInv, NEW a \in Admin, NEW busy, RepoDel(a, busy)
  PROVE  Planned(a, busy, "repodel") /\ lastId' \in {lastId, lastId + 1}
<1>1. PICK rs \in SUBSET repos \ {{}} :
        Prepare(a, busy, "repodel", {}, UNION {Whole(r) : r \in rs}, {}) /\ lastId' = lastId
  BY DEF RepoDel
<1> DEFINE del == UNION {Whole(r) : r \in rs}
<1>2. /\ repos \subseteq (0..lastId') \X RepoName /\ urls \subseteq (0..lastId') \X {"plain", "param"}
      /\ assigned \subseteq (1..lastId') \X (OpSys \cup Release \cup Arch)
  BY <1>1 DEF TypeInv, TypeOK, RepoTypeOK
<1>3. ASSUME NEW r \in rs
      PROVE  /\ Whole(r) \subseteq AnyRow'
             /\ \A y \in Whole(r) : \/ y[1] = "repo" /\ y[2] \in rs
                                    \/ y[1] = "url" /\ y[2] \in urls
                                    \/ y[1] = "assigned" /\ y[2] \in assigned
             /\ <<"repo", r>> \in Whole(r)
             /\ \A u \in urls : u[1] = r[1] => <<"url", u>> \in Whole(r)
             /\ \A x \in assigned : x[1] = r[1] => <<"assigned", x>> \in Whole(r)
  <2> DEFINE us == {u \in urls : u[1] = r[1]}
             xs == {x \in assigned : x[1] = r[1]}
  <2>1. us \subseteq urls /\ xs \subseteq assigned /\ {r} \subseteq repos
    BY <1>1
  <2>2. /\ us \subseteq (0..lastId') \X {"plain", "param"}
        /\ xs \subseteq (1..lastId') \X (OpSys \cup Release \cup Arch)
        /\ {r} \subseteq (0..lastId') \X RepoName
    BY <1>2, <2>1
  <2>3. (\A u \in urls : u[1] = r[1] => u \in us) /\ \A x \in assigned : x[1] = r[1] => x \in xs
    OBVIOUS
  <2>4. Whole(r) = Row("repo", {r}) \cup Row("url", us) \cup Row("assigned", xs)
    BY DEF Whole
  <2> HIDE DEF us, xs
  <2>5. Whole(r) \subseteq AnyRow'
    BY <2>2, <2>4, RowTypes
  <2>6. \A y \in Whole(r) : \/ y[1] = "repo" /\ y[2] \in rs
                            \/ y[1] = "url" /\ y[2] \in urls
                            \/ y[1] = "assigned" /\ y[2] \in assigned
    BY <1>3, <2>1, <2>4, RowIs
  <2>7. /\ <<"repo", r>> \in Whole(r)
        /\ \A u \in us : <<"url", u>> \in Whole(r)
        /\ \A x \in xs : <<"assigned", x>> \in Whole(r)
    BY <2>4, RowIs
  <2>8. QED
    BY <2>3, <2>5, <2>6, <2>7
<1>4. /\ del \subseteq AnyRow'
      /\ \A y \in del : \/ y[1] = "repo" /\ y[2] \in rs
                        \/ y[1] = "url" /\ y[2] \in urls
                        \/ y[1] = "assigned" /\ y[2] \in assigned
      /\ \A r \in rs : <<"repo", r>> \in del
      /\ \A r \in rs, u \in urls : u[1] = r[1] => <<"url", u>> \in del
      /\ \A r \in rs, x \in assigned : x[1] = r[1] => <<"assigned", x>> \in del
  BY <1>3
<1> HIDE DEF del
<1>5. Plan({}, del, {})
  BY <1>4 DEF Plan
<1>6. /\ Would({}, del, "repo") = repos \ Of(del, "repo") /\ Would({}, del, "url") = urls \ Of(del, "url")
      /\ Would({}, del, "assigned") = assigned \ Of(del, "assigned")
  BY OfRow, Tables DEF Would
<1>7. \A v, t : <<t, v>> \in del => v \in Of(del, t)
  <2>1. ASSUME NEW v, NEW t, <<t, v>> \in del PROVE v \in Of(del, t)
    <3>1. <<t, v>> \in {y \in del : y[1] = t} /\ <<t, v>>[2] = v
      BY <2>1
    <3>2. QED
      BY <3>1 DEF Of
  <2>2. QED
    BY <2>1
<1>8. Of(del, "repo") \subseteq rs
  BY <1>4 DEF Of
<1>9. \A x \in Would({}, del, "url") \cup Would({}, del, "assigned") : \E r \in Would({}, del, "repo") : r[1] = x[1]
  <2>1. ASSUME NEW x \in Would({}, del, "url") \cup Would({}, del, "assigned")
        PROVE  \E r \in Would({}, del, "repo") : r[1] = x[1]
    <3>1. x \in urls \cup assigned /\ (x \in urls => x \notin Of(del, "url") \/ x \notin Of(del, "assigned"))
      BY <1>6
    <3>2. PICK r \in repos : r[1] = x[1]
      BY <3>1 DEF TypeInv, KeysHold
    <3>3. r \notin rs
      BY <1>4, <1>6, <1>7, <3>2
    <3>4. QED
      BY <1>6, <1>8, <3>2, <3>3
  <2>2. QED
    BY <2>1
<1>10. Accepted({}, del, {})
  BY <1>4, <1>5, <1>9, Acceptable, OfRow, Tables
<1>11. Good("repodel", {}, del, {})
  BY <1>6, <1>10 DEF Good, UniqueNames
<1>12. QED
  BY <1>1, <1>5, <1>11 DEF Planned, del

\* A repository that gets another name, a url more, or a url less.
LEMMA RepoModPlanned ==
  ASSUME TypeInv, NEW a \in Admin, NEW busy, RepoMod(a, busy)
  PROVE  Planned(a, busy, "repomod") /\ lastId' \in {lastId, lastId + 1}
<1>1. PICK r \in repos :
        /\ \/ \E name \in RepoName :
                /\ Named(name) = {}
                /\ Prepare(a, busy, "repomod", Row("repo", {<<r[1], name>>}), Row("repo", {r}), Row("repo", {r}))
           \/ \E k \in {"plain", "param"} :
                \/ Prepare(a, busy, "repomod", Row("url", {<<r[1], k>>}), {}, Row("repo", {r}))
                \/ k \in RepoUrls(r[1])
                   /\ Prepare(a, busy, "repomod", {}, Row("url", {<<r[1], k>>}), Row("repo", {r}))
        /\ lastId' = lastId
  BY DEF RepoMod
<1>2. r[1] \in 1..lastId' /\ r[1] \in 0..lastId' /\ {r} \subseteq (0..lastId') \X RepoName /\ r[1] # 0
  BY <1>1 DEF TypeInv, TypeOK, RepoTypeOK
<1> DEFINE need == Row("repo", {r})
<1>3. need \subseteq AnyRow' /\ \A y \in need : y[1] = "repo" /\ y[2] = r
  BY <1>2, RowIs, RowTypes
<1> HIDE DEF need
<1>4. \A x \in urls \cup assigned : \E s \in repos : s[1] = x[1]
  BY DEF TypeInv, KeysHold
<1>5. CASE \E name \in RepoName :
             /\ Named(name) = {}
             /\ Prepare(a, busy, "repomod", Row("repo", {<<r[1], name>>}), Row("repo", {r}), need)
  <2>1. PICK name \in RepoName :
          Named(name) = {} /\ Prepare(a, busy, "repomod", Row("repo", {<<r[1], name>>}), Row("repo", {r}), need)
    BY <1>5
  <2> DEFINE new == <<r[1], name>>
             add == Row("repo", {new})
             del == Row("repo", {r})
  <2>2. \A s \in repos : s[2] # name
    BY <2>1 DEF Named
  <2>3. {new} \subseteq (0..lastId') \X RepoName /\ new[1] = r[1] /\ new[2] = name
    BY <1>2
  <2> HIDE DEF new
  <2>4. (\A y \in add : y[1] = "repo") /\ \A y \in del : y[1] = "repo"
    BY RowIs
  <2>5. Plan(add, del, need)
    BY <1>2, <1>3, <2>3, <2>4, RowTypes DEF Plan
  <2>6. /\ Of(add, "repo") = {new} /\ Of(add, "url") = {} /\ Of(add, "assigned") = {}
        /\ Of(del, "repo") = {r} /\ Of(del, "url") = {} /\ Of(del, "assigned") = {}
        /\ Of(add, "release") = {} /\ Of(add, "component") = {} /\ Of(add, "permission") = {}
        /\ Of(add, "buildComponent") = {} /\ Of(add, "link") = {}
    BY OfRow
  <2> HIDE DEF add, del
  <2>7. /\ Would(add, del, "repo") = (repos \ {r}) \cup {new} /\ Would(add, del, "url") = urls
        /\ Would(add, del, "assigned") = assigned
    BY <2>6, Tables DEF Would
  <2>8. \A x \in Would(add, del, "url") \cup Would(add, del, "assigned") : \E s \in Would(add, del, "repo") : s[1] = x[1]
    BY <1>4, <2>3, <2>7
  <2>9. Accepted(add, del, need)
    BY <1>2, <1>3, <2>3, <2>4, <2>5, <2>6, <2>8, Acceptable, Tables
  <2>10. UniqueNames(repos) => UniqueNames(Would(add, del, "repo"))
    BY <2>2, <2>3, <2>7 DEF UniqueNames
  <2>11. Good("repomod", add, del, need)
    BY <2>9, <2>10 DEF Good
  <2>12. QED
    BY <1>1, <2>1, <2>5, <2>11 DEF Planned, add, del, new
<1>6. CASE \E k \in {"plain", "param"} : Prepare(a, busy, "repomod", Row("url", {<<r[1], k>>}), {}, need)
  <2>1. PICK k \in {"plain", "param"} : Prepare(a, busy, "repomod", Row("url", {<<r[1], k>>}), {}, need)
    BY <1>6
  <2> DEFINE new == <<r[1], k>>
             add == Row("url", {new})
  <2>2. {new} \subseteq (0..lastId') \X {"plain", "param"} /\ new[1] = r[1]
    BY <1>2
  <2> HIDE DEF new
  <2>3. \A y \in add : y[1] = "url"
    BY RowIs
  <2>4. Plan(add, {}, need)
    BY <1>3, <2>2, <2>3, RowTypes DEF Plan
  <2>5. /\ Of(add, "repo") = {} /\ Of(add, "url") = {new} /\ Of(add, "assigned") = {}
        /\ Of(add, "release") = {} /\ Of(add, "component") = {} /\ Of(add, "permission") = {}
        /\ Of(add, "buildComponent") = {} /\ Of(add, "link") = {}
    BY OfRow
  <2> HIDE DEF add
  <2>6. /\ Would(add, {}, "repo") = repos /\ Would(add, {}, "url") = urls \cup {new}
        /\ Would(add, {}, "assigned") = assigned
    BY <2>5, OfRow, Tables DEF Would
  <2>7. \A x \in Would(add, {}, "url") \cup Would(add, {}, "assigned") : \E s \in Would(add, {}, "repo") : s[1] = x[1]
    BY <1>4, <2>2, <2>6
  <2>8. Accepted(add, {}, need)
    BY <1>3, <2>3, <2>4, <2>5, <2>7, Acceptable, Tables
  <2>9. Good("repomod", add, {}, need)
    BY <2>6, <2>8 DEF Good
  <2>10. QED
    BY <1>1, <2>1, <2>4, <2>9 DEF Planned, add, new
<1>7. CASE \E k \in {"plain", "param"} :
             k \in RepoUrls(r[1]) /\ Prepare(a, busy, "repomod", {}, Row("url", {<<r[1], k>>}), need)
  <2>1. PICK k \in {"plain", "param"} :
          k \in RepoUrls(r[1]) /\ Prepare(a, busy, "repomod", {}, Row("url", {<<r[1], k>>}), need)
    BY <1>7
  <2> DEFINE old == <<r[1], k>>
             del == Row("url", {old})
  <2>2. {old} \subseteq (0..lastId') \X {"plain", "param"}
    BY <1>2
  <2>3. old \in urls
    <3>1. PICK u \in urls : u[1] = r[1] /\ u[2] = k
      BY <2>1 DEF RepoUrls
    <3>2. u = <<u[1], u[2]>>
      BY DEF TypeInv, TypeOK, RepoTypeOK
    <3>3. QED
      BY <3>1, <3>2
  <2> HIDE DEF old
  <2>4. \A y \in del : y[1] = "url" /\ y[2] = old
    BY RowIs
  <2>5. Plan({}, del, need)
    BY <1>3, <2>2, <2>4, RowTypes DEF Plan
  <2>6. Of(del, "repo") = {} /\ Of(del, "assigned") = {}
    BY OfRow
  <2> HIDE DEF del
  <2>7. /\ Would({}, del, "repo") = repos /\ Would({}, del, "url") \subseteq urls
        /\ Would({}, del, "assigned") = assigned
    BY <2>6, OfRow, Tables DEF Would
  <2>8. \A x \in Would({}, del, "url") \cup Would({}, del, "assigned") : \E s \in Would({}, del, "repo") : s[1] = x[1]
    BY <1>4, <2>7
  <2>9. Accepted({}, del, need)
    BY <1>3, <2>3, <2>4, <2>5, <2>8, Acceptable, OfRow, Tables
  <2>10. Good("repomod", {}, del, need)
    BY <2>7, <2>9 DEF Good
  <2>11. QED
    BY <1>1, <2>1, <2>5, <2>10 DEF Planned, del, old
<1>8. QED
  BY <1>1, <1>5, <1>6, <1>7 DEF need

\* assign-release-to-builds may be refused, but plans the right rows.
LEMMA AssignReleasePlanned ==
  ASSUME CatalogAssumption, TypeInv, NEW a \in Admin, NEW busy, AssignReleaseToBuilds(a, busy)
  PROVE  Planned(a, busy, "assignRelease") /\ lastId' \in {lastId, lastId + 1}
<1>1. PICK r \in releases, x \in archs : \E unseen \in SUBSET BuildIds, need \in SUBSET Row("repo", {<<0, 0>>}) :
        Prepare(a, busy, "assignRelease", Row("link", unseen \X {r} \X {x}), {}, need) /\ lastId' = lastId
  <2>1. PICK r \in releases, x \in archs, released \in SUBSET BuildIds, matching \in SUBSET BuildIds :
          LET unseen == {b \in released \cup matching : ~LinkSeen(b, OsOf[r], VersionOf[r], x)}
              twice == unseen \cap released \cap matching
          IN /\ Prepare(a, busy, "assignRelease", Row("link", unseen \X {r} \X {x}), {},
                        IF twice = {} THEN {} ELSE Row("repo", {<<0, 0>>}))
             /\ lastId' = lastId
    BY DEF AssignReleaseToBuilds
  <2> DEFINE unseen == {b \in released \cup matching : ~LinkSeen(b, OsOf[r], VersionOf[r], x)}
             need == IF unseen \cap released \cap matching = {} THEN {} ELSE Row("repo", {<<0, 0>>})
  <2>2. unseen \in SUBSET BuildIds /\ need \in SUBSET Row("repo", {<<0, 0>>})
    OBVIOUS
  <2>3. Prepare(a, busy, "assignRelease", Row("link", unseen \X {r} \X {x}), {}, need) /\ lastId' = lastId
    BY <2>1
  <2> HIDE DEF unseen, need
  <2>4. QED
    BY <2>2, <2>3
<1>2. PICK unseen \in SUBSET BuildIds, need \in SUBSET Row("repo", {<<0, 0>>}) :
        Prepare(a, busy, "assignRelease", Row("link", unseen \X {r} \X {x}), {}, need) /\ lastId' = lastId
  BY <1>1
<1> DEFINE new == unseen \X {r} \X {x}
           add == Row("link", new)
<1>3. lastId' = lastId /\ archs' = archs /\ BuildIds \subseteq 1..lastId /\ r \in Release
  BY <1>2 DEF Prepare, systemVars, BuildIds, TypeInv, TypeOK, RepoTypeOK
<1>4. new \subseteq (1..lastId') \X Release \X archs'
  BY <1>3
<1> HIDE DEF new
<1>5. \A y \in add : y[1] = "link"
  BY RowIs
<1>6. \A y \in need : y = <<"repo", <<0, 0>>>>
  BY <1>2 DEF Row
<1>7. Plan(add, {}, need)
  BY <1>4, <1>5, <1>6, RowTypes DEF Plan
<1>8. Of(add, "repo") = {}
  BY OfRow
<1> HIDE DEF add
<1>9. Would(add, {}, "repo") = repos
  BY <1>8, OfRow, Tables DEF Would
<1>10. Good("assignRelease", add, {}, need)
  BY <1>9 DEF Good, MayDie
<1>11. QED
  BY <1>2, <1>7, <1>10 DEF Planned, add, new

\* Every action of administration plans something that fits.
LEMMA BeginPlanned ==
  ASSUME CatalogAssumption, RegistryAssumption, TypeInv, NEW a \in Admin, NEW busy, AdminBegin(a, busy)
  PROVE  (\E op : Planned(a, busy, op)) /\ lastId' \in {lastId, lastId + 1}
<1>1. ArchAdd(a, busy) \/ OpSysAdd(a, busy) \/ OpSysDel(a, busy) \/ ReleaseAdd(a, busy) \/ ReleaseMod(a, busy)
      \/ PullReleases(a, busy) => (\E op : Planned(a, busy, op)) /\ lastId' \in {lastId, lastId + 1}
  BY ArchPlanned, OpSysPlanned, OpSysDelPlanned, ReleaseAddPlanned, ReleaseModPlanned, PullReleasesPlanned
<1>2. ComponentAdd(a, busy) \/ PullComponents(a, busy) \/ PullAssociates(a, busy) \/ FindComponents(a, busy)
      => (\E op : Planned(a, busy, op)) /\ lastId' \in {lastId, lastId + 1}
  BY ComponentAddPlanned, PullComponentsPlanned, AssociatesPlanned, FindComponentsPlanned
<1>3. RepoAdd(a, busy) \/ RepoImport(a, busy) \/ RepoAssign(a, busy) \/ RepoDel(a, busy) \/ RepoMod(a, busy)
      \/ AssignReleaseToBuilds(a, busy) => (\E op : Planned(a, busy, op)) /\ lastId' \in {lastId, lastId + 1}
  BY RepoAddPlanned, RepoImportPlanned, RepoAssignPlanned, RepoDelPlanned, RepoModPlanned, AssignReleasePlanned
<1>4. QED
  BY <1>1, <1>2, <1>3 DEF AdminBegin

\* What is planned has the right type.
LEMMA AdminBeginType ==
  ASSUME CatalogAssumption, RegistryAssumption, TypeInv, NEW a \in Admin, NEW busy, AdminBegin(a, busy),
         UNCHANGED <<syncVars, clean>>, starts' \in 0..MaxStarts
  PROVE  TypeInv'
<1>1. PICK op, add, del, need : Prepare(a, busy, op, add, del, need) /\ Plan(add, del, need)
  BY BeginPlanned DEF Planned
<1>2. lastId' \in {lastId, lastId + 1}
  BY BeginPlanned
<1>3. QED
  BY <1>1, <1>2, PrepareType

\* The flush.
LEMMA EndEffect ==
  ASSUME TypeInv, NEW a \in Admin, NEW pc \in {"done", "dead"}, End(a, pc)
  PROVE  /\ admin'[a].pc = pc /\ admin'[a].add = {} /\ admin'[a].del = {} /\ admin'[a].need = {}
         /\ (pc = "dead" => admin'[a].op = admin[a].op) /\ (\A b \in Admin \ {a} : admin'[b] = admin[b])
         /\ lastId' = lastId /\ archs \subseteq archs' => admin' \in [Admin -> AdminRun']
<1> DEFINE r == [Idle EXCEPT !.pc = pc, !.op = IF pc = "dead" THEN admin[a].op ELSE "none"]
<1>1. admin \in [Admin -> AdminRun] /\ admin[a] \in AdminRun /\ lastId \in Nat /\ lastId <= lastId
  BY DEF TypeInv, TypeOK, AdminTypeOK, RepoTypeOK
<1>2. admin' = [admin EXCEPT ![a] = r]
  BY DEF End
<1>3. r.pc = pc /\ r.add = {} /\ r.del = {} /\ r.need = {} /\ (pc = "dead" => r.op = admin[a].op)
  BY DEF Idle
<1>4. r \in AdminRun
  BY <1>1 DEF Idle, AdminRun
<1> HIDE DEF r
<1>5. ASSUME lastId' = lastId, archs \subseteq archs' PROVE admin' \in [Admin -> AdminRun']
  <2>1. AdminRun \subseteq AdminRun'
    BY <1>1, <1>5, AdminRunGrows
  <2>2. QED
    BY <1>1, <1>2, <1>4, <2>1
<1>6. QED
  BY <1>1, <1>2, <1>3, <1>5

\* The tables after a flush that is accepted.
LEMMA FlushTables ==
  ASSUME CatalogAssumption, TypeInv, NEW a \in Admin, Flush(a), ~Refused(a)
  PROVE  /\ RepoTypeOK' /\ KeysHold' /\ archs \subseteq archs' /\ End(a, "done")
         /\ UNCHANGED <<builds, packages, provides, whole, part, orphans, lastId, processVars>>
<1>1. /\ archs' = After(a, "arch") /\ opsys' = After(a, "opsys")
      /\ releases' = After(a, "release") /\ active' = After(a, "active")
      /\ components' = After(a, "component") /\ repos' = After(a, "repo")
      /\ people' = After(a, "person") /\ permissions' = After(a, "permission")
      /\ buildComponents' = After(a, "buildComponent")
      /\ urls' = After(a, "url") /\ assigned' = After(a, "assigned") /\ links' = After(a, "link")
      /\ UNCHANGED <<inUse, processVars, builds, packages, provides, whole, part, orphans, lastId>> /\ End(a, "done")
  BY DEF Flush
<1> DEFINE add == admin[a].add
           del == admin[a].del
           need == admin[a].need
<1>2. RepoTypeOK /\ KeysHold /\ add \subseteq AnyRow /\ lastId \in Nat
  BY DEF TypeInv, TypeOK, AdminTypeOK, AdminRun, RepoTypeOK
<1>3. /\ \A x \in del : x[1] \notin {"arch", "release", "link", "buildComponent", "person", "component"}
      /\ \A x \in add : x[1] = "active" => <<"release", x[2]>> \in add \cup need
  BY DEF TypeInv, AdminShape
<1>4. /\ \A x \in need : x[2] \in Table(x[1])
      /\ \A r \in repos' : r[1] # 0
      /\ \A r \in releases' : OsOf[r] \in opsys'
      /\ \A c \in components' : /\ c[1] \in opsys' \cup releases'
                                /\ c[1] \in Release => <<OsOf[c[1]], c[2]>> \in components'
      /\ \A x \in permissions' : x[1] \in components' /\ x[2] \in people'
      /\ \A x \in buildComponents' : x[1] \in BuildIds
      /\ \A x \in urls' \cup assigned' : \E r \in repos' : r[1] = x[1]
      /\ \A x \in assigned' : x[2] \in opsys' \cup releases' \cup archs'
      /\ \A l \in links' : l[1] \in BuildIds /\ l[2] \in releases'
  BY <1>1 DEF Refused
<1>5. \A t : After(a, t) = (Table(t) \ Of(del, t)) \cup Of(add, t)
  BY DEF After
<1>6. /\ Of(del, "arch") = {} /\ Of(del, "release") = {} /\ Of(del, "link") = {} /\ Of(del, "buildComponent") = {}
      /\ Of(del, "person") = {} /\ Of(del, "component") = {}
  BY <1>3 DEF Of
<1>7. /\ Of(add, "arch") \subseteq Arch /\ Of(add, "opsys") \subseteq OpSys /\ Of(add, "release") \subseteq Release
      /\ Of(add, "component") \subseteq (OpSys \cup Release) \X Comp /\ Of(add, "person") \subseteq Person
      /\ Of(add, "permission") \subseteq (OpSys \X Comp) \X Person /\ Of(add, "repo") \subseteq (0..lastId) \X RepoName
      /\ Of(add, "url") \subseteq (0..lastId) \X {"plain", "param"}
      /\ Of(add, "assigned") \subseteq (1..lastId) \X (OpSys \cup Release \cup Arch)
      /\ Of(add, "link") \subseteq (1..lastId) \X Release \X archs
      /\ Of(add, "buildComponent") \subseteq (1..lastId) \X Comp
  BY <1>2 DEF Of, AnyRow
<1> HIDE DEF add, del, need
<1>8. BuildIds' = BuildIds /\ PackageIds' = PackageIds
  BY <1>1 DEF BuildIds, PackageIds
<1>9. archs \subseteq archs' /\ archs' \subseteq Arch /\ opsys' \subseteq OpSys /\ releases \subseteq releases'
      /\ releases' \subseteq Release
  BY <1>1, <1>2, <1>5, <1>6, <1>7, Tables DEF RepoTypeOK
<1>10. active' \cup inUse' \subseteq releases'
  <2>1. active \cup inUse \subseteq releases /\ inUse' = inUse
    BY <1>1, <1>2 DEF RepoTypeOK
  <2>2. Of(add, "active") \subseteq releases'
    <3>1. ASSUME NEW v \in Of(add, "active") PROVE v \in releases'
      <4>1. PICK x \in add : x[1] = "active" /\ x[2] = v
        BY DEF Of
      <4>2. <<"release", v>> \in add \/ <<"release", v>> \in need
        BY <1>3, <4>1 DEF add, need
      <4>3. <<"release", v>> \in add => v \in Of(add, "release")
        <5>1. <<"release", v>> \in add => <<"release", v>> \in {y \in add : y[1] = "release"} /\ <<"release", v>>[2] = v
          OBVIOUS
        <5>2. QED
          BY <5>1 DEF Of
      <4>4. <<"release", v>> \in need => v \in releases
        BY <1>4, Tables DEF need
      <4>5. QED
        BY <1>1, <1>5, <1>9, <4>2, <4>3, <4>4
    <3>2. QED
      BY <3>1
  <2>3. QED
    BY <1>1, <1>5, <1>9, <2>1, <2>2, Tables
<1>11. components' \subseteq (OpSys \cup Release) \X Comp /\ people' \subseteq Person
  BY <1>1, <1>2, <1>5, <1>7, Tables DEF RepoTypeOK
<1>12. permissions' \subseteq (components' \cap (OpSys \X Comp)) \X people'
  <2>1. permissions \subseteq (OpSys \X Comp) \X Person
    BY <1>2 DEF RepoTypeOK
  <2>2. permissions' \subseteq (OpSys \X Comp) \X Person
    BY <1>1, <1>5, <1>7, <2>1, Tables
  <2>3. QED
    BY <1>4, <2>2
<1>13. repos' \subseteq (1..lastId) \X RepoName
  <2>1. 1..lastId \subseteq 0..lastId /\ \A i \in 0..lastId : i # 0 => i \in 1..lastId
    BY <1>2
  <2>2. repos \subseteq (0..lastId) \X RepoName
    BY <1>2, <2>1 DEF RepoTypeOK
  <2>3. repos' \subseteq (0..lastId) \X RepoName
    BY <1>1, <1>5, <1>7, <2>2, Tables
  <2>4. QED
    BY <1>4, <2>1, <2>3
<1>14. urls' \subseteq (1..lastId) \X {"plain", "param"}
  <2>1. \A x \in urls' : x[1] \in 1..lastId
    BY <1>4, <1>13
  <2>2. \A x \in urls' : x \in urls \/ x \in Of(add, "url")
    BY <1>1, <1>5, Tables
  <2>3. QED
    BY <1>2, <1>7, <2>1, <2>2 DEF RepoTypeOK
<1>15. assigned' \subseteq (1..lastId) \X (OpSys \cup Release \cup Arch)
  BY <1>1, <1>2, <1>5, <1>7, Tables DEF RepoTypeOK
<1>16. buildComponents' \subseteq BuildIds \X Comp
  <2>1. \A x \in buildComponents' : x \in buildComponents \/ x \in Of(add, "buildComponent")
    BY <1>1, <1>5, Tables
  <2>2. QED
    BY <1>2, <1>4, <1>7, <2>1 DEF RepoTypeOK
<1>17. links' \subseteq BuildIds \X releases' \X archs'
  <2>1. \A x \in links' : x \in links \/ x \in Of(add, "link")
    BY <1>1, <1>5, Tables
  <2>2. links \subseteq BuildIds \X releases' \X archs'
    BY <1>2, <1>9 DEF RepoTypeOK
  <2>3. \A x \in Of(add, "link") : x[3] \in archs' /\ x = <<x[1], x[2], x[3]>>
    BY <1>7, <1>9
  <2>4. QED
    BY <1>4, <2>1, <2>2, <2>3
<1>18. RepoTypeOK'
  BY <1>1, <1>2, <1>8, <1>9, <1>10, <1>11, <1>12, <1>13, <1>14, <1>15, <1>16, <1>17 DEF RepoTypeOK, processVars
<1>19. KeysHold'
  BY <1>4 DEF KeysHold
<1>20. QED
  BY <1>1, <1>9, <1>18, <1>19

\* A flush keeps the types, whether it is accepted or not.
LEMMA FlushType ==
  ASSUME CatalogAssumption, RegistryAssumption, TypeInv, NEW a \in Admin, Flush(a), UNCHANGED <<syncVars, clean, starts>>
  PROVE  TypeInv'
<1>1. /\ UNCHANGED <<builds, packages, provides, whole, part, orphans, lastId>> /\ RepoTypeOK' /\ KeysHold'
      /\ archs \subseteq archs' /\ \E pc \in {"done", "dead"} : End(a, pc)
  <2>1. CASE ~Refused(a)
    BY <2>1, FlushTables
  <2>2. CASE Refused(a)
    <3>1. /\ End(a, "dead") /\ DieOf(a, "database")
          /\ UNCHANGED <<systemVars, links, buildComponents, builds, packages, provides, whole, part, orphans, lastId>>
      BY <2>2 DEF Flush
    <3>2. ProcessTypes'
      BY <3>1, DieType, RegistryAssumption DEF TypeInv, TypeOK, RepoTypeOK, ProcessTypes
    <3>3. UNCHANGED packageVars
      BY <3>1 DEF packageVars
    <3>4. RepoTypeOK'
      BY <3>1, <3>2, <3>3, SameTables DEF TypeInv, TypeOK
    <3>5. KeysHold' /\ archs' = archs
      BY <3>1 DEF TypeInv, KeysHold, systemVars
    <3>6. QED
      BY <3>1, <3>4, <3>5
  <2>3. QED
    BY <2>1, <2>2
<1>2. PICK pc \in {"done", "dead"} : End(a, pc)
  BY <1>1
<1>3. /\ admin'[a].add = {} /\ admin'[a].del = {} /\ (\A b \in Admin \ {a} : admin'[b] = admin[b])
      /\ admin' \in [Admin -> AdminRun']
  BY <1>1, <1>2, EndEffect
<1>4. TypeOK'
  BY <1>1, <1>3 DEF TypeInv, TypeOK, AdminTypeOK, SyncTypeOK, SyncRun, CleanTypeOK, CleanRun, syncVars
<1>5. AdminShape'
  BY <1>3 DEF TypeInv, AdminShape
<1>6. SyncShape' /\ RowsInv'
  BY <1>1 DEF TypeInv, SyncShape, RowsInv, Fetching, syncVars
<1>7. QED
  BY <1>1, <1>4, <1>5, <1>6 DEF TypeInv

\* The types at the beginning.
LEMMA TypeInit ==
  ASSUME SyncAssumption, ProcessAssumption, Init
  PROVE  TypeInv
<1>1. RepoTypeOK /\ KeysHold
  BY DEF Init, Prepared
<1>2. 0 \in 0..lastId /\ 0 \in 0..MaxStarts
  BY <1>1, ProcessAssumption DEF RepoTypeOK
<1>3. SyncTypeOK
  <2>1. Fresh \in SyncRun
    BY <1>2 DEF Fresh, SyncRun, SyncPc
  <2>2. QED
    BY <2>1 DEF Init, SyncInit, SyncTypeOK
<1>4. CleanTypeOK
  <2>1. Rest \in CleanRun
    BY DEF Rest, CleanRun
  <2>2. QED
    BY <2>1 DEF Init, CleanInit, CleanTypeOK
<1>5. AdminTypeOK
  <2>1. Idle \in AdminRun
    BY DEF Idle, AdminRun
  <2>2. QED
    BY <2>1 DEF Init, AdminInit, AdminTypeOK
<1>6. \A p \in Syncer : sync[p].pc = "done"
  BY DEF Init, SyncInit, Fresh
<1>7. SyncShape /\ RowsInv
  <2>1. packages = {}
    BY DEF Init
  <2>2. QED
    BY <1>6, <2>1 DEF SyncShape, RowsInv, Fetching, AtVariant, AtPackage, AtRow
<1>8. AdminShape
  BY DEF Init, AdminInit, Idle, AdminShape
<1>9. QED
  BY <1>1, <1>2, <1>3, <1>4, <1>5, <1>7, <1>8 DEF TypeInv, TypeOK, Init

\* Every step keeps the types.
LEMMA TypeNext ==
  ASSUME CatalogAssumption, SyncAssumption, CleanAssumption, RegistryAssumption, ProcessAssumption, TypeInv,
         [Next]_vars
  PROVE  TypeInv'
<1>1. CASE Step
  <2>1. ASSUME NEW p \in Syncer, SyncStep(p), UNCHANGED <<clean, admin, starts>> PROVE TypeInv'
    BY <2>1, SyncType
  <2>2. ASSUME CacheExpires, UNCHANGED <<clean, admin, starts>> PROVE TypeInv'
    BY <2>2, CacheType
  <2>3. ASSUME NEW c \in Cleaner, CleanStep(c), UNCHANGED <<syncVars, admin, starts>> PROVE TypeInv'
    BY <2>3, CleanType DEF syncVars
  <2>4. ASSUME ReportOfRelease(Busy), UNCHANGED <<syncVars, admin, starts>> PROVE TypeInv'
    BY <2>4, ReportType DEF syncVars
  <2>5. ASSUME NEW a \in Admin, Flush(a), UNCHANGED <<syncVars, clean, starts>> PROVE TypeInv'
    BY <2>5, FlushType
  <2>6. QED
    BY <1>1, <2>1, <2>2, <2>3, <2>4, <2>5 DEF Step
<1>2. ASSUME NEW p \in Process, Start(p) PROVE TypeInv'
  <2>1. starts' \in 0..MaxStarts
    <3>1. starts \in 0..MaxStarts /\ starts < MaxStarts /\ starts' = starts + 1
      BY <1>2 DEF Start, TypeInv, TypeOK
    <3>2. QED
      BY <3>1, ProcessAssumption
  <2>2. ASSUME p \in Syncer, SyncStart(p, Busy), UNCHANGED <<clean, admin>> PROVE TypeInv'
    BY <2>1, <2>2, SyncStartType
  <2>3. ASSUME p \in Cleaner, CleanBegin(p, Busy), UNCHANGED <<syncVars, admin>> PROVE TypeInv'
    BY <2>1, <2>3, CleanBeginType
  <2>4. ASSUME p \in Admin, AdminBegin(p, Busy), UNCHANGED <<syncVars, clean>> PROVE TypeInv'
    BY <2>1, <2>4, AdminBeginType
  <2>5. QED
    BY <1>2, <2>2, <2>3, <2>4 DEF Start
<1>3. CASE UNCHANGED vars
  <2>1. UNCHANGED <<systemVars, packageVars, processVars, sync, cache, buildArchs, clean, admin, starts>>
    BY <1>3 DEF vars, syncVars
  <2>2. ProcessTypes'
    BY <2>1 DEF processVars, TypeInv, TypeOK, RepoTypeOK, ProcessTypes
  <2>3. RepoTypeOK'
    BY <2>1, <2>2, SameTables DEF TypeInv, TypeOK
  <2>4. TypeOK'
    BY <2>1, <2>3 DEF TypeInv, TypeOK, SyncTypeOK, SyncRun, CleanTypeOK, CleanRun, AdminTypeOK, AdminRun, AnyRow,
       systemVars, packageVars
  <2>5. KeysHold' /\ SyncShape' /\ RowsInv' /\ AdminShape'
    BY <2>1 DEF TypeInv, KeysHold, SyncShape, RowsInv, Fetching, AdminShape, systemVars, packageVars
  <2>6. QED
    BY <2>4, <2>5 DEF TypeInv
<1>4. QED
  BY <1>1, <1>2, <1>3 DEF Next

\* The types, and the keys with them, hold whoever is at work and whatever is
\* deleted between two steps of another.
THEOREM TypeCorrect == Spec => []TypeOK
<1>1. Init => TypeInv
  BY SyncAssumption, ProcessAssumption, TypeInit
<1>2. TypeInv /\ [Next]_vars => TypeInv'
  BY CatalogAssumption, SyncAssumption, CleanAssumption, RegistryAssumption, ProcessAssumption, TypeNext
<1>3. TypeInv => TypeOK
  BY DEF TypeInv
<1>4. QED
  BY <1>1, <1>2, <1>3, PTL DEF Spec

-----------------------------------------------------------------------------
(* Who is alone stays alone until another starts. *)

\* A step of a run that is at work, and the start of one.
Own(p) ==
  /\ p \in Busy /\ Busy' \subseteq Busy /\ UNCHANGED <<alone, overlap>>
  /\ dead' = dead \/ (p \notin Busy' /\ \E cause : dead' = [dead EXCEPT ![p] = cause])
Starts(p) == p \notin Busy /\ Busy' = Busy \cup {p} /\ Begin(p, Busy)

\* A step of reposync.
LEMMA SyncOwn ==
  ASSUME SyncAssumption, ProcessAssumption, TypeInv, NEW p \in Syncer, SyncStep(p), UNCHANGED <<clean, admin>>
  PROVE  Own(p)
<1>1. Becomes(p, sync'[p]) /\ \A q \in Syncer \ {p} : sync'[q] = sync[q]
  BY SyncMoves, RunTypes, BecomesEffect DEF RunMoves
<1>2. p \in Syncing
  <2>1. NextRepo(p) \/ ListDnf(p) \/ ListCached(p) \/ Fetch(p) \/ NextPackage(p) => p \in Syncing
    BY DEF NextRepo, ListDnf, ListCached, Fetch, NextPackage, Syncing
  <2>2. FindBuild(p) \/ AddBuild(p) \/ FindBuildArch(p) \/ AddBuildArch(p) \/ FindLink(p) \/ AddLink(p)
        \/ FindPackage(p) \/ AddPackage(p) => p \in Syncing
    BY DEF FindBuild, AddBuild, FindBuildArch, AddBuildArch, FindLink, AddLink, FindPackage, AddPackage, Syncing
  <2>3. Download(p) \/ Transfer(p) \/ StoreProvides(p) \/ SyncKill(p) => p \in Syncing
    BY DEF Download, Transfer, StoreProvides, SyncKill, Syncing
  <2>4. QED
    BY <2>1, <2>2, <2>3 DEF SyncStep
<1>3. Syncing' \subseteq Syncing /\ Cleaning' = Cleaning /\ Administering' = Administering
  BY <1>1, <1>2 DEF Syncing, Cleaning, Administering
<1>4. p \in Busy /\ Busy' \subseteq Busy
  BY <1>2, <1>3 DEF Busy
<1>5. \A cause : SyncDies(p, cause) => p \notin Busy' /\ dead' = [dead EXCEPT ![p] = cause] /\ UNCHANGED <<alone, overlap>>
  <2>1. ASSUME NEW cause, SyncDies(p, cause)
        PROVE  p \notin Busy' /\ dead' = [dead EXCEPT ![p] = cause] /\ UNCHANGED <<alone, overlap>>
    <3>1. sync'[p] = Dead
      BY <2>1, RunTypes, BecomesEffect DEF SyncDies
    <3>2. sync'[p].pc = "dead"
      BY <3>1 DEF Dead, Fresh
    <3>3. p \notin Syncing' /\ p \notin Cleaning' /\ p \notin Administering'
      BY <3>2, ProcessAssumption DEF Syncing, Cleaning, Administering
    <3>4. QED
      BY <2>1, <3>3 DEF Busy, SyncDies, DieOf
  <2>2. QED
    BY <2>1
<1>6. UNCHANGED processVars \/ \E cause : SyncDies(p, cause)
  <2>1. NextRepo(p) \/ ListDnf(p) \/ ListCached(p) \/ NextPackage(p) \/ FindBuild(p) \/ AddBuild(p)
        \/ FindBuildArch(p) \/ FindLink(p) \/ FindPackage(p) \/ SyncKill(p) => UNCHANGED processVars
    BY DEF NextRepo, ListDnf, ListCached, NextPackage, FindBuild, AddBuild, FindBuildArch, FindLink, FindPackage, SyncKill
  <2>2. Fetch(p) => UNCHANGED processVars \/ SyncDies(p, "network")
    BY DEF Fetch
  <2>3. AddBuildArch(p) \/ AddLink(p) \/ AddPackage(p) => UNCHANGED processVars \/ SyncDies(p, "database")
    BY DEF AddBuildArch, AddLink, AddPackage
  <2>4. Download(p) => UNCHANGED processVars \/ \E cause : SyncDies(p, cause)
    BY DEF Download, GiveUp, Uncaught
  <2>5. Transfer(p) => UNCHANGED processVars \/ \E cause : SyncDies(p, cause)
    BY DEF Transfer, GiveUp, Uncaught
  <2>6. StoreProvides(p) => UNCHANGED processVars \/ SyncDies(p, "database")
    BY DEF StoreProvides, GiveUp
  <2>7. QED
    BY <2>1, <2>2, <2>3, <2>4, <2>5, <2>6 DEF SyncStep
<1>7. QED
  BY <1>4, <1>5, <1>6 DEF Own, processVars

\* A step of a clean-up.
LEMMA CleanOwn ==
  ASSUME CleanAssumption, ProcessAssumption, TypeInv, NEW c \in Cleaner, CleanStep(c), UNCHANGED <<syncVars, admin>>
  PROVE  Own(c)
<1>1. \A d \in Cleaner \ {c} : clean'[d] = clean[d]
  BY CleanTurns
<1>2. c \in Cleaning
  BY DEF CleanStep, Unlink, NextBuild, DeletePackage, PurgePackages, PurgeBuild, DeleteRepos, DeleteReports,
     DeleteRelease, CleanKill, Cleaning
<1>3. Cleaning' \subseteq Cleaning /\ Syncing' = Syncing /\ Administering' = Administering
  BY <1>1, <1>2 DEF Syncing, Cleaning, Administering, syncVars
<1>4. c \in Busy /\ Busy' \subseteq Busy
  BY <1>2, <1>3 DEF Busy
<1>5. CleanDies(c) => c \notin Busy' /\ dead' = [dead EXCEPT ![c] = "database"] /\ UNCHANGED <<alone, overlap>>
  <2>1. SUFFICES ASSUME CleanDies(c)
                 PROVE  c \notin Busy' /\ dead' = [dead EXCEPT ![c] = "database"] /\ UNCHANGED <<alone, overlap>>
    OBVIOUS
  <2>2. clean'[c].pc = "dead"
    BY <2>1, CGoEffect DEF CleanDies, CleanPc, TypeInv, TypeOK, CleanTypeOK
  <2>3. c \notin Syncing' /\ c \notin Cleaning' /\ c \notin Administering'
    BY <2>2, ProcessAssumption DEF Syncing, Cleaning, Administering
  <2>4. QED
    BY <2>1, <2>3 DEF Busy, CleanDies, DieOf
<1>6. UNCHANGED processVars \/ CleanDies(c)
  <2>1. Unlink(c) \/ NextBuild(c) \/ DeletePackage(c) \/ DeleteRepos(c) \/ DeleteReports(c) \/ CleanKill(c)
        => UNCHANGED processVars
    BY DEF Unlink, NextBuild, DeletePackage, DeleteRepos, DeleteReports, CleanKill
  <2>2. PurgePackages(c) \/ PurgeBuild(c) \/ DeleteRelease(c) => UNCHANGED processVars \/ CleanDies(c)
    BY DEF PurgePackages, PurgeBuild, DeleteRelease
  <2>3. QED
    BY <2>1, <2>2 DEF CleanStep
<1>7. QED
  BY <1>4, <1>5, <1>6 DEF Own, processVars

\* A flush.
LEMMA FlushOwn ==
  ASSUME ProcessAssumption, TypeInv, NEW a \in Admin, Flush(a), UNCHANGED <<syncVars, clean>>
  PROVE  Own(a)
<1>1. \/ Refused(a) /\ End(a, "dead") /\ DieOf(a, "database")
      \/ End(a, "done") /\ UNCHANGED processVars
  BY DEF Flush
<1>2. /\ \A b \in Admin \ {a} : admin'[b] = admin[b]
      /\ admin'[a].pc # "flush"
  BY <1>1, EndEffect
<1>3. a \in Administering /\ Administering' \subseteq Administering \ {a}
  BY <1>2 DEF Administering, Flush
<1>4. Syncing' = Syncing /\ Cleaning' = Cleaning /\ a \notin Syncing /\ a \notin Cleaning
  BY ProcessAssumption DEF Syncing, Cleaning, syncVars
<1>5. a \in Busy /\ Busy' \subseteq Busy /\ a \notin Busy'
  BY <1>3, <1>4 DEF Busy
<1>6. QED
  BY <1>1, <1>5 DEF Own, DieOf, processVars

\* A start.
LEMMA StartStarts ==
  ASSUME CatalogAssumption, SyncAssumption, CleanAssumption, RegistryAssumption, ProcessAssumption, TypeInv,
         NEW p \in Process, Start(p)
  PROVE  Starts(p)
<1>1. CASE p \in Syncer /\ SyncStart(p, Busy) /\ UNCHANGED <<clean, admin>>
  <2>1. /\ sync'[p].pc = "repo" /\ Begin(p, Busy) /\ sync[p].pc \in {"done", "dead"}
        /\ \A q \in Syncer \ {p} : sync'[q] = sync[q]
    BY <1>1, SyncStartEffect, RunTypes, BecomesEffect DEF SyncStart
  <2>2. p \notin Syncing /\ Syncing' = Syncing \cup {p} /\ Cleaning' = Cleaning /\ Administering' = Administering
    BY <1>1, <2>1 DEF Syncing, Cleaning, Administering
  <2>3. p \notin Cleaning /\ p \notin Administering
    BY <1>1, ProcessAssumption DEF Cleaning, Administering
  <2>4. QED
    BY <2>1, <2>2, <2>3 DEF Starts, Busy
<1>2. CASE p \in Cleaner /\ CleanBegin(p, Busy) /\ UNCHANGED <<syncVars, admin>>
  <2>1. PICK op, target, chosen, pc : CleanStart(p, Busy, op, target, chosen, pc) /\ Chosen(op, target, chosen, pc)
    BY <1>2, CleanBeginEffect
  <2>2. /\ clean'[p].pc = pc /\ Begin(p, Busy) /\ clean[p].pc \in {"done", "dead"} /\ pc \notin {"done", "dead"}
        /\ \A q \in Cleaner \ {p} : clean'[q] = clean[q]
    <3>1. clean'[p].pc = pc /\ \A q \in Cleaner \ {p} : clean'[q] = clean[q]
      BY <1>2, <2>1, CleanStartEffect
    <3>2. Begin(p, Busy) /\ clean[p].pc \in {"done", "dead"}
      BY <2>1 DEF CleanStart
    <3>3. pc \in {"unlink", "builds"}
      BY <2>1 DEF Chosen
    <3>4. QED
      BY <3>1, <3>2, <3>3
  <2>3. p \notin Cleaning /\ Cleaning' = Cleaning \cup {p} /\ Syncing' = Syncing /\ Administering' = Administering
    BY <1>2, <2>2 DEF Syncing, Cleaning, Administering, syncVars
  <2>4. p \notin Syncing /\ p \notin Administering
    BY <1>2, ProcessAssumption DEF Syncing, Administering
  <2>5. QED
    BY <2>2, <2>3, <2>4 DEF Starts, Busy
<1>3. CASE p \in Admin /\ AdminBegin(p, Busy) /\ UNCHANGED <<syncVars, clean>>
  <2>1. PICK op, add, del, need : Prepare(p, Busy, op, add, del, need)
    BY <1>3, BeginPlanned DEF Planned
  <2>2. /\ admin'[p].pc = "flush" /\ Begin(p, Busy) /\ admin[p].pc \in {"done", "dead"}
        /\ \A q \in Admin \ {p} : admin'[q] = admin[q]
    BY <1>3, <2>1, PrepareEffect DEF Prepare
  <2>3. p \notin Administering /\ Administering' = Administering \cup {p} /\ Syncing' = Syncing /\ Cleaning' = Cleaning
    BY <1>3, <2>2 DEF Syncing, Cleaning, Administering, syncVars
  <2>4. p \notin Syncing /\ p \notin Cleaning
    BY <1>3, ProcessAssumption DEF Syncing, Cleaning
  <2>5. QED
    BY <2>2, <2>3, <2>4 DEF Starts, Busy
<1>4. QED
  BY <1>1, <1>2, <1>3 DEF Start

\* The steps of a run, a start and a report, for those that are alone.
LEMMA OwnSolo ==
  ASSUME TypeInv, SoloInv, NEW p \in Process, Own(p), Busy \subseteq Process
  PROVE  /\ SoloInv'
         /\ \A q \in Busy' : alone'[q] => q = p /\ alone[p]
<1>1. p \in Busy /\ Busy' \subseteq Busy /\ alone' = alone /\ overlap' = overlap
  BY DEF Own
<1>2. \A q \in Busy' : alone'[q] => Busy = {q}
  BY <1>1 DEF SoloInv
<1>3. \A q \in Busy' : alone'[q] => Busy' = {q}
  BY <1>1, <1>2
<1>4. \A q \in Busy' : dead'[q] = "no" /\ (~overlap' => alone'[q])
  <2>1. \A q \in Busy : dead[q] = "no" /\ (~overlap => alone[q])
    BY DEF SoloInv
  <2>2. dead \in [Process -> {"no", "database", "network"}]
    BY DEF TypeInv, TypeOK, RepoTypeOK
  <2>3. CASE dead' = dead
    BY <1>1, <2>1, <2>3
  <2>4. CASE p \notin Busy' /\ \E cause : dead' = [dead EXCEPT ![p] = cause]
    <3>1. PICK cause : dead' = [dead EXCEPT ![p] = cause]
      BY <2>4
    <3>2. \A q \in Busy' : q # p /\ q \in Process /\ dead'[q] = dead[q]
      BY <1>1, <2>2, <2>4, <3>1
    <3>3. QED
      BY <1>1, <2>1, <3>2
  <2>5. QED
    BY <2>3, <2>4 DEF Own
<1>5. QED
  BY <1>1, <1>2, <1>3, <1>4 DEF SoloInv

\* After a start, only who started can be alone.
LEMMA StartsSolo ==
  ASSUME TypeInv, SoloInv, NEW p \in Process, Starts(p), Busy \subseteq Process
  PROVE  /\ SoloInv'
         /\ \A q \in Busy' : alone'[q] => q = p /\ Busy = {}
<1>1. /\ p \notin Busy /\ Busy' = Busy \cup {p}
      /\ alone'[p] = (Busy \subseteq {p}) /\ (\A q \in Process \ {p} : alone'[q] = (alone[q] /\ q \notin Busy))
      /\ overlap' = (overlap \/ ~Busy \subseteq {p})
  BY DEF Starts, Begin
<1>2. dead'[p] = "no" /\ \A q \in Process \ {p} : dead'[q] = dead[q]
  BY DEF Starts, Begin, TypeInv, TypeOK, RepoTypeOK
<1>3. alone'[p] => Busy = {}
  <2>1. alone'[p] => Busy \subseteq {p}
    BY <1>1, Zenon
  <2>2. Busy \subseteq {p} => Busy = {}
    BY <1>1
  <2>3. QED
    BY <2>1, <2>2, Zenon
<1>4. \A q \in Busy : q # p /\ q \in Process /\ ~alone'[q]
  BY <1>1
<1>5. \A q \in Busy' : alone'[q] => q = p /\ Busy = {}
  BY <1>1, <1>3, <1>4
<1>6. \A q \in Busy' : alone'[q] => Busy' = {q}
  BY <1>1, <1>5
<1>7. \A q \in Busy' : dead'[q] = "no"
  BY <1>1, <1>2, <1>4 DEF SoloInv
<1>8. ~overlap' => Busy = {} /\ alone'[p]
  BY <1>1
<1>9. QED
  BY <1>1, <1>5, <1>6, <1>7, <1>8 DEF SoloInv

\* After a report, nobody at work is.
LEMMA ReportSolo ==
  ASSUME TypeInv, SoloInv, ReportOfRelease(Busy), UNCHANGED <<syncVars, admin>>, Busy \subseteq Process
  PROVE  /\ SoloInv' /\ Busy' = Busy
         /\ \A q \in Busy' : ~alone'[q]
         /\ overlap' \/ Busy = {}
<1>1. Busy' = Busy
  BY DEF ReportOfRelease, Busy, Syncing, Cleaning, Administering, syncVars
<1>2. /\ \A q \in Process : alone'[q] = (alone[q] /\ q \notin Busy)
      /\ overlap' = (overlap \/ Busy # {}) /\ dead' = dead
  BY DEF ReportOfRelease
<1>3. \A q \in Busy : ~alone'[q]
  BY <1>2
<1>4. QED
  BY <1>1, <1>2, <1>3 DEF SoloInv

\* The steps there are.
LEMMA StepIs ==
  ASSUME CatalogAssumption, SyncAssumption, CleanAssumption, RegistryAssumption, ProcessAssumption, TypeInv,
         [Next]_vars
  PROVE  \/ \E p \in Syncer : Own(p) /\ SyncStep(p) /\ UNCHANGED <<clean, admin, starts>>
         \/ \E c \in Cleaner : Own(c) /\ CleanStep(c) /\ UNCHANGED <<syncVars, admin, starts>>
         \/ \E a \in Admin : Own(a) /\ Flush(a) /\ UNCHANGED <<syncVars, clean, starts>>
         \/ \E p \in Process : Starts(p) /\ Start(p)
         \/ ReportOfRelease(Busy) /\ UNCHANGED <<syncVars, admin, starts>>
         \/ UNCHANGED <<sync, buildArchs, clean, admin, systemVars, packageVars, processVars>>
<1>1. CASE Step
  <2>1. CacheExpires /\ UNCHANGED <<clean, admin>>
        => UNCHANGED <<sync, buildArchs, clean, admin, systemVars, packageVars, processVars>>
    BY DEF CacheExpires
  <2>2. QED
    BY <1>1, <2>1, SyncOwn, CleanOwn, FlushOwn DEF Step
<1>2. CASE \E p \in Process : Start(p)
  BY <1>2, StartStarts
<1>3. CASE UNCHANGED vars
  BY <1>3 DEF vars, syncVars
<1>4. QED
  BY <1>1, <1>2, <1>3 DEF Next

\* Those at work are processes.
LEMMA BusyIs ==
  ASSUME SyncAssumption, CleanAssumption, RegistryAssumption
  PROVE  Busy \subseteq Process /\ Syncer \subseteq Process /\ Cleaner \subseteq Process /\ Admin \subseteq Process
BY DEF SyncAssumption, CleanAssumption, RegistryAssumption, Busy, Syncing, Cleaning, Administering

\* Every step keeps what is said of those that are alone.
LEMMA SoloNext ==
  ASSUME CatalogAssumption, SyncAssumption, CleanAssumption, RegistryAssumption, ProcessAssumption, TypeInv,
         SoloInv, [Next]_vars
  PROVE  SoloInv'
<1>1. Busy \subseteq Process /\ Syncer \subseteq Process /\ Cleaner \subseteq Process /\ Admin \subseteq Process
  BY BusyIs
<1>2. \A p \in Process : Own(p) => SoloInv'
  BY <1>1, OwnSolo
<1>3. \A p \in Process : Starts(p) => SoloInv'
  BY <1>1, StartsSolo
<1>4. ReportOfRelease(Busy) /\ UNCHANGED <<syncVars, admin, starts>> => SoloInv'
  BY <1>1, ReportSolo
<1>5. UNCHANGED <<sync, buildArchs, clean, admin, systemVars, packageVars, processVars>> => SoloInv'
  BY DEF SoloInv, Busy, Syncing, Cleaning, Administering, processVars
<1>6. QED
  BY <1>1, <1>2, <1>3, <1>4, <1>5, StepIs, Zenon

-----------------------------------------------------------------------------
(* A run of reposync that is alone: what it knows stays, and it goes on. *)

\* The variants it has left and the one it is at.
LEMMA AheadStays ==
  ASSUME UNCHANGED systemVars, NEW p \in Syncer, Ahead(p), sync'[p].todo \subseteq sync[p].todo,
         sync'[p].pc \in AtVariant => Stands(sync'[p].at)
  PROVE  Ahead(p)'
<1>1. \A i : Stands(i)' <=> Stands(i)
  BY DEF Stands, AnyRelease, systemVars
<1>2. QED
  BY <1>1 DEF Ahead

\* A link stays while links are only added, so does a package with its file.
LEMMA LinkedStays ==
  ASSUME UNCHANGED systemVars, links \subseteq links', NEW build, NEW i, Linked(build, i)
  PROVE  Linked(build, i)'
BY DEF Linked, LinkSeen, systemVars

\* A package with its file stays while links and files are only added.
LEMMA StoredStays ==
  ASSUME UNCHANGED systemVars, links \subseteq links', whole \cup part \subseteq (whole \cup part)', NEW x, Stored(x),
         \A k \in packages \ packages' : k.pkg # x[1]
  PROVE  Stored(x)'
<1>1. PICK k \in packages : k.pkg = x[1] /\ HasLob(k.id) /\ Linked(k.build, x[2])
  BY DEF Stored
<1>2. k \in packages'
  BY <1>1
<1>3. HasLob(k.id)' /\ Linked(k.build, x[2])'
  BY <1>1, LinkedStays DEF HasLob
<1>4. QED
  BY <1>1, <1>2, <1>3 DEF Stored

\* What it has seen: it only loses rows of packages that failed.
LEMMA SeenStays ==
  ASSUME UNCHANGED systemVars, links \subseteq links', NEW p \in Syncer, SeenStored(p),
         sync'[p].opts = sync[p].opts, sync[p].failed \subseteq sync'[p].failed,
         \A k \in packages \ packages' : k.pkg \in sync'[p].failed,
         sync[p].opts \cap {"noDownload", "noStore"} = {} =>
           /\ whole \cup part \subseteq (whole \cup part)'
           /\ \A x \in sync'[p].seen \ sync[p].seen : x[1] \notin sync'[p].failed => Stored(x)'
  PROVE  SeenStored(p)'
<1>1. SUFFICES ASSUME sync[p].opts \cap {"noDownload", "noStore"} = {},
                      NEW x \in sync'[p].seen, x[1] \notin sync'[p].failed
               PROVE  Stored(x)'
  BY DEF SeenStored
<1>2. CASE x \in sync[p].seen
  <2>1. Stored(x)
    BY <1>1, <1>2 DEF SeenStored
  <2>2. QED
    BY <1>1, <2>1, StoredStays
<1>3. CASE x \notin sync[p].seen
  BY <1>1, <1>3
<1>4. QED
  BY <1>2, <1>3

\* A run that lists, goes on to another repository, or is over.
LEMMA ListingCalm ==
  ASSUME SyncAssumption, TypeInv, NEW p \in Syncer, SyncCalm(p),
         NextRepo(p) \/ ListDnf(p) \/ ListCached(p) \/ Fetch(p) \/ NextPackage(p) \/ SyncKill(p)
  PROVE  SyncCalm(p)'
<1>1. UNCHANGED systemVars /\ UNCHANGED packageVars
  BY DEF NextRepo, ListDnf, ListCached, Fetch, NextPackage, SyncKill
<1>2. lastId' = lastId /\ lastId' \in Nat /\ lastId <= lastId'
  BY <1>1, RunTypes DEF packageVars
<1>3. ASSUME sync'[p] = Fresh \/ sync'[p] = Dead
      PROVE  SyncCalm(p)'
  <2>1. sync'[p].pc \in {"done", "dead"} /\ sync'[p].todo = {} /\ sync'[p].seen = {}
    BY <1>3 DEF Fresh, Dead
  <2>2. QED
    BY <2>1 DEF SyncCalm, Ahead, Here, SeenStored, AtVariant, AtPackage, AtRow
<1>4. ASSUME sync'[p].pc \in {"repo", "list", "fetch", "next", "build"}, sync'[p].todo \subseteq sync[p].todo,
             sync'[p].pc \in AtVariant => Stands(sync'[p].at),
             sync'[p].opts = sync[p].opts, sync'[p].seen = sync[p].seen, sync'[p].failed = sync[p].failed
      PROVE  SyncCalm(p)'
  <2>1. Ahead(p)'
    BY <1>1, <1>4, AheadStays DEF SyncCalm
  <2>2. Here(p)'
    BY <1>4 DEF Here, AtPackage, AtRow
  <2>3. SeenStored(p)'
    BY <1>1, <1>4, SeenStays DEF SyncCalm, packageVars
  <2>4. QED
    BY <2>1, <2>2, <2>3 DEF SyncCalm
<1>5. sync[p].pc \in AtVariant => Stands(sync[p].at)
  BY DEF SyncCalm, Ahead
<1>6. \A r : Becomes(p, r) => sync'[p] = r
  BY RunTypes, BecomesEffect
<1>7. ASSUME NEW pkgs \in SUBSET Pkg, Listed(p, pkgs), sync[p].pc \in AtVariant
      PROVE  SyncCalm(p)'
  BY <1>2, <1>4, <1>5, <1>7, RunTypes, ListedEffect
<1>8. sync[p].pc = "list" \/ sync[p].pc = "fetch" => Offers[sync[p].at[1]] \subseteq Pkg /\ sync[p].pc \in AtVariant
  BY RunTypes, SyncAssumption DEF Variant, AtVariant
<1>9. CASE NextRepo(p)
  <2>1. CASE Becomes(p, Fresh)
    BY <1>3, <1>6, <2>1
  <2>2. CASE ~Becomes(p, Fresh)
    <3>1. PICK i \in sync[p].todo : Becomes(p, [sync[p] EXCEPT !.todo = @ \ {i}, !.at = i, !.pc = "list"])
      BY <1>9, <2>2 DEF NextRepo
    <3>2. /\ sync'[p].pc = "list" /\ sync'[p].at = i /\ sync'[p].todo = sync[p].todo \ {i}
          /\ sync'[p].opts = sync[p].opts /\ sync'[p].seen = sync[p].seen /\ sync'[p].failed = sync[p].failed
      BY <1>2, <3>1, RunTypes, NextEffect
    <3>3. Stands(i)
      BY DEF SyncCalm, Ahead
    <3>4. QED
      BY <1>4, <3>2, <3>3
  <2>3. QED
    BY <2>1, <2>2
<1>10. CASE ListDnf(p)
  <2>1. \E pkgs \in SUBSET Pkg : Listed(p, pkgs)
    BY <1>8, <1>10 DEF ListDnf
  <2>2. QED
    BY <1>7, <1>8, <1>10, <2>1 DEF ListDnf
<1>11. CASE ListCached(p)
  <2>1. Go(p, "fetch") \/ \E pkgs \in SUBSET Pkg : Listed(p, pkgs)
    BY <1>8, <1>11 DEF ListCached
  <2>2. sync[p].pc \in AtVariant /\ "fetch" \in SyncPc
    BY <1>8, <1>11 DEF ListCached, SyncPc
  <2>3. CASE Go(p, "fetch")
    <3>1. /\ sync'[p].pc = "fetch" /\ sync'[p].at = sync[p].at /\ sync'[p].todo = sync[p].todo
          /\ sync'[p].opts = sync[p].opts /\ sync'[p].seen = sync[p].seen /\ sync'[p].failed = sync[p].failed
      BY <1>2, <2>2, <2>3, RunTypes, GoEffect
    <3>2. QED
      BY <1>4, <1>5, <2>2, <3>1
  <2>4. QED
    BY <1>7, <2>1, <2>2, <2>3
<1>12. CASE Fetch(p)
  <2>1. Becomes(p, Dead) \/ \E pkgs \in SUBSET Pkg : Listed(p, pkgs)
    BY <1>8, <1>12 DEF Fetch, SyncDies
  <2>2. sync[p].pc \in AtVariant
    BY <1>8, <1>12 DEF Fetch
  <2>3. QED
    BY <1>3, <1>6, <1>7, <2>1, <2>2
<1>13. CASE NextPackage(p)
  <2>1. sync[p].pc \in AtVariant /\ "repo" \in SyncPc
    BY <1>13 DEF NextPackage, AtVariant, SyncPc
  <2>2. CASE Go(p, "repo")
    <3>1. /\ sync'[p].pc = "repo" /\ sync'[p].at = sync[p].at /\ sync'[p].todo = sync[p].todo
          /\ sync'[p].opts = sync[p].opts /\ sync'[p].seen = sync[p].seen /\ sync'[p].failed = sync[p].failed
      BY <1>2, <2>1, <2>2, RunTypes, GoEffect
    <3>2. QED
      BY <1>4, <1>5, <2>1, <3>1
  <2>3. CASE ~Go(p, "repo")
    <3>1. PICK k \in sync[p].pkgs : Becomes(p, [sync[p] EXCEPT !.pkgs = @ \ {k}, !.pkg = {k}, !.pc = "build"])
      BY <1>13, <2>3 DEF NextPackage
    <3>2. /\ sync'[p].pc = "build" /\ sync'[p].at = sync[p].at /\ sync'[p].todo = sync[p].todo
          /\ sync'[p].opts = sync[p].opts /\ sync'[p].seen = sync[p].seen /\ sync'[p].failed = sync[p].failed
      BY <1>2, <3>1, RunTypes, TakeEffect
    <3>3. QED
      BY <1>4, <1>5, <2>1, <3>2
  <2>4. QED
    BY <2>2, <2>3
<1>14. CASE SyncKill(p)
  BY <1>3, <1>6, <1>14 DEF SyncKill
<1>15. QED
  BY <1>9, <1>10, <1>11, <1>12, <1>13, <1>14

\* A run at work on a package that stays with it, or is done with it.
LEMMA WorkCalm ==
  ASSUME TypeInv, NEW p \in Syncer, SyncCalm(p), sync[p].pc \in AtPackage, UNCHANGED systemVars, links \subseteq links',
         sync'[p].at = sync[p].at, sync'[p].todo = sync[p].todo, sync'[p].opts = sync[p].opts,
         sync'[p].seen = sync[p].seen, sync'[p].failed = sync[p].failed,
         packages \subseteq packages', whole \cup part \subseteq (whole \cup part)', Here(p)'
  PROVE  SyncCalm(p)'
<1>1. sync[p].pc \in AtVariant
  BY DEF AtVariant
<1>2. Ahead(p)'
  BY <1>1, AheadStays DEF SyncCalm, Ahead
<1>3. SeenStored(p)'
  BY SeenStays DEF SyncCalm
<1>4. QED
  BY <1>2, <1>3 DEF SyncCalm

\* A run that is done with its package.
LEMMA ReadyCalm ==
  ASSUME TypeInv, NEW p \in Syncer, SyncCalm(p), sync[p].pc \in AtPackage, UNCHANGED systemVars, links \subseteq links',
         NEW done \in BOOLEAN, Ready(p, done), lastId' \in Nat, lastId <= lastId',
         NEW k, k = Package(p), NEW at, at = sync[p].at,
         \A l \in packages \ packages' : ~done /\ l.pkg = k,
         sync[p].opts \cap {"noDownload", "noStore"} = {} =>
           /\ whole \cup part \subseteq (whole \cup part)'
           /\ done => Stored(<<k, at>>)'
  PROVE  SyncCalm(p)'
<1>1. sync[p].pc \in AtVariant /\ Package(p) \in Pkg /\ sync[p].at \in Variant
  BY RunTypes DEF AtVariant
<1>2. /\ sync'[p].pc = "next"
      /\ sync'[p].opts = sync[p].opts /\ sync'[p].todo = sync[p].todo /\ sync'[p].at = sync[p].at
      /\ sync'[p].seen = sync[p].seen \cup {<<Package(p), sync[p].at>>}
      /\ sync'[p].failed = sync[p].failed \cup IF done THEN {} ELSE {Package(p)}
  BY <1>1, RunTypes, ReadyEffect
<1>3. Ahead(p)'
  BY <1>1, <1>2, AheadStays DEF SyncCalm, Ahead
<1>4. Here(p)'
  BY <1>2 DEF Here, AtPackage, AtRow
<1>5. SeenStored(p)'
  <2>1. ~done => Package(p) \in sync'[p].failed
    BY <1>2
  <2>2. \A l \in packages \ packages' : l.pkg \in sync'[p].failed
    BY <2>1
  <2>3. sync[p].opts \cap {"noDownload", "noStore"} = {} =>
          \A x \in sync'[p].seen \ sync[p].seen : x[1] \notin sync'[p].failed => Stored(x)'
    <3>1. \A x \in sync'[p].seen \ sync[p].seen : x = <<k, at>> /\ x[1] = Package(p)
      BY <1>2
    <3>2. QED
      BY <2>1, <3>1
  <2>4. QED
    BY <1>2, <2>2, <2>3, SeenStays DEF SyncCalm
<1>6. QED
  BY <1>3, <1>4, <1>5 DEF SyncCalm

\* It finds or adds the build of its package.
LEMMA BuildCalm ==
  ASSUME TypeInv, NEW p \in Syncer, SyncCalm(p), FindBuild(p) \/ AddBuild(p)
  PROVE  SyncCalm(p)' /\ UNCHANGED processVars
<1>1. /\ sync[p].pc \in AtPackage
      /\ UNCHANGED <<systemVars, links, packages, whole, part, processVars>> 
  BY DEF FindBuild, AddBuild, AtPackage, packageVars
<1>2. ASSUME NEW id \in 0..lastId', Becomes(p, [sync[p] EXCEPT !.build = id, !.pc = "buildArch"]),
             lastId' \in Nat, lastId <= lastId', \E b \in builds' : b.id = id /\ b.nvr = NvrOf[Package(p)]
      PROVE  SyncCalm(p)'
  <2>1. /\ sync'[p].pc = "buildArch" /\ sync'[p].build = id /\ sync'[p].pkg = sync[p].pkg
        /\ sync'[p].at = sync[p].at /\ sync'[p].todo = sync[p].todo /\ sync'[p].opts = sync[p].opts
        /\ sync'[p].seen = sync[p].seen /\ sync'[p].failed = sync[p].failed
    BY <1>2, RunTypes, BuildEffect
  <2>2. Here(p)'
    BY <1>2, <2>1 DEF Here, AtPackage, AtRow, Package
  <2>3. QED
    BY <1>1, <2>1, <2>2, WorkCalm
<1>3. CASE FindBuild(p)
  <2>1. lastId' = lastId /\ builds' = builds
    BY <1>3 DEF FindBuild, packageVars
  <2>2. CASE Go(p, "addBuild") /\ Found(p) = {}
    <3>1. /\ sync'[p].pc = "addBuild" /\ sync'[p].pkg = sync[p].pkg
          /\ sync'[p].at = sync[p].at /\ sync'[p].todo = sync[p].todo /\ sync'[p].opts = sync[p].opts
          /\ sync'[p].seen = sync[p].seen /\ sync'[p].failed = sync[p].failed
      BY <2>1, <2>2, RunTypes, GoEffect DEF SyncPc
    <3>2. Here(p)'
      BY <2>1, <2>2, <3>1 DEF Here, AtPackage, AtRow, Found, Package
    <3>3. QED
      BY <1>1, <3>1, <3>2, WorkCalm
  <2>3. CASE ~(Go(p, "addBuild") /\ Found(p) = {})
    <3>1. PICK b \in Found(p) : Becomes(p, [sync[p] EXCEPT !.build = b.id, !.pc = "buildArch"])
      BY <1>3, <2>3 DEF FindBuild
    <3>2. b \in builds' /\ b.nvr = NvrOf[Package(p)] /\ b.id \in 0..lastId'
      BY <2>1 DEF Found, TypeInv, TypeOK, RepoTypeOK
    <3>3. QED
      BY <1>1, <1>2, <2>1, <3>1, <3>2, RunTypes
  <2>4. QED
    BY <2>2, <2>3
<1>4. CASE AddBuild(p)
  <2>1. lastId' = lastId + 1 /\ [id |-> lastId + 1, nvr |-> NvrOf[Package(p)]] \in builds'
        /\ Becomes(p, [sync[p] EXCEPT !.build = lastId + 1, !.pc = "buildArch"])
    BY <1>4 DEF AddBuild
  <2>2. QED
    BY <1>1, <1>2, <2>1, RunTypes
<1>5. QED
  BY <1>3, <1>4

\* It finds or adds the architecture of the build.
LEMMA BuildArchCalm ==
  ASSUME TypeInv, NEW p \in Syncer, SyncCalm(p), FindBuildArch(p) \/ AddBuildArch(p)
  PROVE  SyncCalm(p)' /\ UNCHANGED processVars
<1>1. /\ sync[p].pc \in {"buildArch", "addBuildArch"} /\ sync[p].pc \in AtPackage \ {"build", "addBuild"}
      /\ UNCHANGED <<systemVars, packageVars>> /\ lastId' = lastId
  BY DEF FindBuildArch, AddBuildArch, AtPackage, packageVars
<1>2. PICK b \in builds : b.id = sync[p].build /\ b.nvr = NvrOf[Package(p)]
  BY <1>1 DEF SyncCalm, Here
<1>3. sync[p].build \in BuildIds
  BY <1>2 DEF BuildIds
<1> DEFINE row == <<sync[p].build, ArchOf[Package(p)]>>
<1>4. ASSUME NEW pc \in {"link", "addBuildArch"}, Go(p, pc), pc = "addBuildArch" => row \notin buildArchs'
      PROVE  SyncCalm(p)'
  <2>1. /\ sync'[p].pc = pc /\ sync'[p].build = sync[p].build /\ sync'[p].pkg = sync[p].pkg
        /\ sync'[p].at = sync[p].at /\ sync'[p].todo = sync[p].todo /\ sync'[p].opts = sync[p].opts
        /\ sync'[p].seen = sync[p].seen /\ sync'[p].failed = sync[p].failed
    BY <1>1, <1>4, RunTypes, GoEffect DEF SyncPc
  <2>2. Package(p)' = Package(p)
    BY <2>1 DEF Package
  <2>3. b \in builds' /\ b.id = sync'[p].build /\ b.nvr = NvrOf[Package(p)']
    BY <1>1, <1>2, <2>1, <2>2 DEF packageVars
  <2>4. pc = "addBuildArch" => <<sync'[p].build, ArchOf[Package(p)']>> \notin buildArchs'
    BY <1>4, <2>1, <2>2
  <2>5. Here(p)'
    BY <2>1, <2>3, <2>4 DEF Here, AtPackage, AtRow
  <2>6. QED
    BY <1>1, <2>1, <2>5, WorkCalm DEF packageVars
<1>5. CASE FindBuildArch(p)
  BY <1>3, <1>4, <1>5 DEF FindBuildArch
<1>6. CASE AddBuildArch(p)
  <2>1. row \notin buildArchs
    BY <1>6 DEF AddBuildArch, SyncCalm, Here
  <2>2. Go(p, "link") /\ UNCHANGED processVars
    BY <1>3, <1>6, <2>1 DEF AddBuildArch
  <2>3. QED
    BY <1>4, <2>2
<1>7. QED
  BY <1>5, <1>6

\* It finds or adds the link; a release to link to is there.
LEMMA LinkCalm ==
  ASSUME CatalogAssumption, TypeInv, NEW p \in Syncer, SyncCalm(p), FindLink(p) \/ AddLink(p)
  PROVE  SyncCalm(p)' /\ UNCHANGED processVars
<1>0. PICK at, build : at = sync[p].at /\ build = sync[p].build
  OBVIOUS
<1>1. /\ sync[p].pc \in {"link", "addLink"} /\ sync[p].pc \in AtPackage \ {"build", "addBuild"}
      /\ UNCHANGED <<systemVars, packages, builds, whole, part>> /\ lastId' = lastId
  BY DEF FindLink, AddLink, AtPackage, packageVars
<1>2. PICK b \in builds : b.id = build /\ b.nvr = NvrOf[Package(p)]
  BY <1>0, <1>1 DEF SyncCalm, Here
<1>3. Stands(at)
  BY <1>0, <1>1 DEF SyncCalm, Ahead, AtVariant
<1>4. ASSUME NEW pc \in {"package", "addLink"}, Go(p, pc), links \subseteq links',
             pc = "package" => Linked(build, at)',
             pc = "addLink" => at[2] # NoSystem /\ ~LinkSeen(build, at[2], at[3], at[4])'
      PROVE  SyncCalm(p)'
  <2>1. /\ sync'[p].pc = pc /\ sync'[p].build = build /\ sync'[p].pkg = sync[p].pkg
        /\ sync'[p].at = at /\ sync'[p].todo = sync[p].todo /\ sync'[p].opts = sync[p].opts
        /\ sync'[p].seen = sync[p].seen /\ sync'[p].failed = sync[p].failed
    BY <1>0, <1>1, <1>4, RunTypes, GoEffect DEF SyncPc
  <2>2. Here(p)'
    BY <1>1, <1>2, <1>4, <2>1 DEF Here, AtPackage, AtRow, Package, Linked, LinkSeen
  <2>3. QED
    BY <1>0, <1>1, <1>4, <2>1, <2>2, WorkCalm
<1>5. CASE FindLink(p)
  <2>1. UNCHANGED <<links, processVars>>
    BY <1>5 DEF FindLink, packageVars
  <2>2. CASE at[2] = NoSystem \/ LinkSeen(build, at[2], at[3], at[4])
    <3>1. Go(p, "package") /\ Linked(build, at)
      BY <1>0, <1>5, <2>2 DEF FindLink, Linked
    <3>2. Linked(build, at)'
      BY <1>1, <2>1, <3>1, LinkedStays
    <3>3. QED
      BY <1>4, <2>1, <3>1, <3>2
  <2>3. CASE ~(at[2] = NoSystem \/ LinkSeen(build, at[2], at[3], at[4]))
    <3>1. Go(p, "addLink")
      BY <1>0, <1>5, <2>3 DEF FindLink
    <3>2. ~LinkSeen(build, at[2], at[3], at[4])'
      BY <1>1, <2>1, <2>3 DEF LinkSeen, systemVars
    <3>3. QED
      BY <1>4, <2>1, <2>3, <3>1, <3>2
  <2>4. QED
    BY <2>2, <2>3
<1>6. CASE AddLink(p)
  <2>1. at[2] # NoSystem /\ ~LinkSeen(build, at[2], at[3], at[4])
    BY <1>0, <1>6 DEF AddLink, SyncCalm, Here
  <2>2. at[2] \in opsys /\ at[4] \in archs /\ AnyRelease(at[3]) # {}
    BY <1>3, <2>1 DEF Stands
  <2>3. build \in BuildIds
    BY <1>2 DEF BuildIds
  <2>4. \A r \in AnyRelease(at[3]) : <<build, r, at[4]>> \notin links
    BY <2>1, <2>2 DEF LinkSeen, AnyRelease
  <2>5. PICK r \in AnyRelease(at[3]) : links' = links \cup {<<build, r, at[4]>>} /\ Go(p, "package") /\ UNCHANGED processVars
    BY <1>0, <1>6, <2>2, <2>3, <2>4 DEF AddLink
  <2>6. <<build, r, at[4]>> \in links' /\ VersionOf[r] = at[3]
    BY <2>5 DEF AnyRelease
  <2>7. Linked(build, at)'
    BY <1>1, <2>2, <2>6 DEF Linked, LinkSeen, systemVars
  <2>8. QED
    BY <1>4, <2>5, <2>7
<1>7. QED
  BY <1>5, <1>6

\* It finds or adds the row of the package.
LEMMA PackageCalm ==
  ASSUME TypeInv, NEW p \in Syncer, SyncCalm(p), FindPackage(p) \/ AddPackage(p)
  PROVE  SyncCalm(p)' /\ UNCHANGED processVars
<1>0. PICK at, build, k : at = sync[p].at /\ build = sync[p].build /\ k = Package(p)
  OBVIOUS
<1>1. /\ sync[p].pc \in {"package", "addPackage"} /\ sync[p].pc \in AtPackage \ {"build", "addBuild"}
      /\ UNCHANGED <<systemVars, links, builds, whole, part>> /\ packages \subseteq packages'
  BY DEF FindPackage, AddPackage, AtPackage, packageVars
<1>2. PICK b \in builds : b.id = build /\ b.nvr = NvrOf[k]
  BY <1>0, <1>1 DEF SyncCalm, Here
<1>3. Linked(build, at) /\ Linked(build, at)'
  <2>1. Linked(build, at)
    BY <1>0, <1>1 DEF SyncCalm, Here
  <2>2. QED
    BY <1>1, <2>1, LinkedStays
<1>4. ASSUME NEW id \in 0..lastId', NEW isNew \in BOOLEAN, lastId' \in Nat, lastId <= lastId',
             Becomes(p, [sync[p] EXCEPT !.row = id, !.new = isNew, !.pc = "download"]),
             \E l \in packages' : l.id = id /\ l.pkg = k /\ l.build = build
      PROVE  SyncCalm(p)'
  <2>1. /\ sync'[p].pc = "download" /\ sync'[p].row = id /\ sync'[p].build = build /\ sync'[p].pkg = sync[p].pkg
        /\ sync'[p].at = at /\ sync'[p].todo = sync[p].todo /\ sync'[p].opts = sync[p].opts
        /\ sync'[p].seen = sync[p].seen /\ sync'[p].failed = sync[p].failed
    BY <1>0, <1>4, RunTypes, RowEffect
  <2>2. Package(p)' = k
    BY <1>0, <2>1 DEF Package
  <2>3. Here(p)'
    BY <1>1, <1>2, <1>3, <1>4, <2>1, <2>2 DEF Here, AtPackage, AtRow
  <2>4. QED
    BY <1>0, <1>1, <2>1, <2>3, WorkCalm
<1>5. CASE FindPackage(p)
  <2>1. lastId' = lastId /\ packages' = packages /\ UNCHANGED processVars
    BY <1>5 DEF FindPackage, packageVars
  <2>2. CASE Go(p, "addPackage") /\ ~\E l \in packages : l.pkg = k /\ l.build = build
    <3>1. /\ sync'[p].pc = "addPackage" /\ sync'[p].build = build /\ sync'[p].pkg = sync[p].pkg
          /\ sync'[p].at = at /\ sync'[p].todo = sync[p].todo /\ sync'[p].opts = sync[p].opts
          /\ sync'[p].seen = sync[p].seen /\ sync'[p].failed = sync[p].failed
      BY <1>0, <2>1, <2>2, RunTypes, GoEffect DEF SyncPc
    <3>2. Package(p)' = k
      BY <1>0, <3>1 DEF Package
    <3>3. Here(p)'
      BY <1>1, <1>2, <1>3, <2>1, <2>2, <3>1, <3>2 DEF Here, AtPackage, AtRow
    <3>4. QED
      BY <1>0, <1>1, <2>1, <3>1, <3>3, WorkCalm
  <2>3. ASSUME NEW l \in packages, l.pkg = k, l.build = build, Complete(p, l.id), Ready(p, TRUE)
        PROVE  SyncCalm(p)'
    <3>1. sync[p].opts \cap {"noDownload", "noStore"} = {} => Stored(<<k, at>>)'
      <4>1. SUFFICES ASSUME sync[p].opts \cap {"noDownload", "noStore"} = {}
                     PROVE  Stored(<<k, at>>)'
        OBVIOUS
      <4>2. HasLob(l.id)'
        BY <1>1, <2>3, <4>1 DEF Complete, HasLob
      <4>3. QED
        BY <1>3, <2>1, <2>3, <4>2 DEF Stored
    <3>2. QED
      BY <1>0, <1>1, <2>1, <2>3, <3>1, RunTypes, ReadyCalm
  <2>4. ASSUME NEW l \in packages, l.pkg = k, l.build = build,
               Becomes(p, [sync[p] EXCEPT !.row = l.id, !.new = FALSE, !.pc = "download"])
        PROVE  SyncCalm(p)'
    <3>1. l.id \in 0..lastId'
      BY <2>1 DEF TypeInv, TypeOK, RepoTypeOK
    <3>2. QED
      BY <1>4, <2>1, <2>4, <3>1, RunTypes
  <2>5. \/ Go(p, "addPackage") /\ ~\E l \in packages : l.pkg = k /\ l.build = build
        \/ \E l \in packages :
             /\ l.pkg = k /\ l.build = build
             /\ \/ Complete(p, l.id) /\ Ready(p, TRUE)
                \/ Becomes(p, [sync[p] EXCEPT !.row = l.id, !.new = FALSE, !.pc = "download"])
    BY <1>0, <1>5 DEF FindPackage
  <2>6. QED
    BY <2>1, <2>2, <2>3, <2>4, <2>5
<1>6. CASE AddPackage(p)
  <2>1. build \in BuildIds
    BY <1>2 DEF BuildIds
  <2>2. /\ lastId' = lastId + 1 /\ UNCHANGED processVars
        /\ packages' = packages \cup {[id |-> lastId + 1, pkg |-> k, build |-> build]}
        /\ \/ "noDownload" \in sync[p].opts /\ Ready(p, TRUE)
           \/ Becomes(p, [sync[p] EXCEPT !.row = lastId + 1, !.new = TRUE, !.pc = "download"])
    BY <1>0, <1>6, <2>1 DEF AddPackage
  <2>3. CASE "noDownload" \in sync[p].opts /\ Ready(p, TRUE)
    BY <1>0, <1>1, <2>2, <2>3, RunTypes, ReadyCalm
  <2>4. CASE Becomes(p, [sync[p] EXCEPT !.row = lastId + 1, !.new = TRUE, !.pc = "download"])
    <3>1. \E l \in packages' : l.id = lastId + 1 /\ l.pkg = k /\ l.build = build
      <4>1. [id |-> lastId + 1, pkg |-> k, build |-> build] \in packages'
        BY <2>2
      <4>2. QED
        BY <4>1
    <3>2. QED
      BY <1>4, <2>2, <2>4, <3>1, RunTypes
  <2>5. QED
    BY <2>2, <2>3, <2>4
<1>7. QED
  BY <1>5, <1>6

\* A package that could not be had.
LEMMA GiveUpCalm ==
  ASSUME TypeInv, NEW p \in Syncer, SyncCalm(p), sync[p].pc \in AtRow, UNCHANGED <<systemVars, links, whole, part, lastId>>,
         GiveUp(p)
  PROVE  SyncCalm(p)' /\ UNCHANGED processVars
<1>0. PICK at, k : at = sync[p].at /\ k = Package(p)
  OBVIOUS
<1>1. sync[p].pc \in AtPackage
  BY DEF AtRow, AtPackage
<1>2. PICK l \in packages : l.id = sync[p].row /\ l.pkg = k
  BY <1>0 DEF SyncCalm, Here
<1>3. \A x \in packages \ packages' : x.pkg = k
  BY <1>2 DEF GiveUp, TypeInv, RowsInv
<1>4. Ready(p, FALSE) /\ UNCHANGED processVars
  BY DEF GiveUp
<1>5. QED
  BY <1>0, <1>1, <1>3, <1>4, RunTypes, ReadyCalm

\* A run that ends itself knows nothing.
LEMMA DeadCalm ==
  ASSUME TypeInv, NEW p \in Syncer, NEW cause, SyncDies(p, cause)
  PROVE  SyncCalm(p)'
<1>1. sync'[p] = Dead
  BY RunTypes, BecomesEffect DEF SyncDies
<1>2. sync'[p].pc = "dead" /\ sync'[p].todo = {} /\ sync'[p].seen = {}
  BY <1>1 DEF Fresh, Dead
<1>3. QED
  BY <1>2 DEF SyncCalm, Ahead, Here, SeenStored, AtVariant, AtPackage, AtRow

\* It downloads the package, and stores what it provides.
LEMMA FileCalm ==
  ASSUME TypeInv, NEW p \in Syncer, SyncCalm(p), Download(p) \/ Transfer(p) \/ StoreProvides(p)
  PROVE  SyncCalm(p)' /\ (UNCHANGED processVars \/ SyncDies(p, "network"))
<1>0. PICK at, build, k, id : at = sync[p].at /\ build = sync[p].build /\ k = Package(p) /\ id = sync[p].row
  OBVIOUS
<1>1. /\ sync[p].pc \in AtRow /\ sync[p].pc \in AtPackage \ {"build", "addBuild"}
      /\ UNCHANGED <<systemVars, links, builds, lastId>>
  BY DEF Download, Transfer, StoreProvides, AtPackage, AtRow
<1>2. PICK b \in builds : b.id = build /\ b.nvr = NvrOf[k]
  BY <1>0, <1>1 DEF SyncCalm, Here
<1>3. Linked(build, at)'
  <2>1. Linked(build, at)
    BY <1>0, <1>1 DEF SyncCalm, Here
  <2>2. QED
    BY <1>1, <2>1, LinkedStays
<1>4. PICK l \in packages : l.id = id /\ l.pkg = k /\ l.build = build
  BY <1>0, <1>1 DEF SyncCalm, Here
<1>5. id \in PackageIds
  BY <1>4 DEF PackageIds
<1>6. ASSUME NEW pc \in {"transfer", "provides"}, Go(p, pc), packages' = packages,
             whole \cup part \subseteq (whole \cup part)', id \in (whole \cup part)'
      PROVE  SyncCalm(p)'
  <2>1. /\ sync'[p].pc = pc /\ sync'[p].row = id /\ sync'[p].build = build /\ sync'[p].pkg = sync[p].pkg
        /\ sync'[p].at = at /\ sync'[p].todo = sync[p].todo /\ sync'[p].opts = sync[p].opts
        /\ sync'[p].seen = sync[p].seen /\ sync'[p].failed = sync[p].failed
    BY <1>0, <1>1, <1>6, RunTypes, GoEffect DEF SyncPc
  <2>2. Package(p)' = k
    BY <1>0, <2>1 DEF Package
  <2>3. Here(p)'
    BY <1>1, <1>2, <1>3, <1>4, <1>6, <2>1, <2>2 DEF Here, AtPackage, AtRow, HasLob
  <2>4. QED
    BY <1>0, <1>1, <1>6, <2>1, <2>3, WorkCalm
<1>7. ASSUME Ready(p, TRUE), packages' = packages,
             sync[p].opts \cap {"noDownload", "noStore"} = {} =>
               whole \cup part \subseteq (whole \cup part)' /\ id \in (whole \cup part)'
      PROVE  SyncCalm(p)'
  <2>1. sync[p].opts \cap {"noDownload", "noStore"} = {} => Stored(<<k, at>>)'
    BY <1>3, <1>4, <1>7 DEF Stored, HasLob
  <2>2. QED
    BY <1>0, <1>1, <1>7, <2>1, RunTypes, ReadyCalm
<1>8. CASE Download(p)
  <2>1. CASE GiveUp(p) /\ UNCHANGED <<whole, part>>
    BY <1>1, <2>1, GiveUpCalm
  <2>2. CASE Uncaught(p)
    BY <2>2, DeadCalm DEF Uncaught
  <2>3. CASE ~(GiveUp(p) /\ UNCHANGED <<whole, part>>) /\ ~Uncaught(p)
    <3>1. part' = part \cup {id} /\ whole' = whole /\ Go(p, "transfer") /\ packages' = packages /\ UNCHANGED processVars
      BY <1>0, <1>5, <1>8, <2>3 DEF Download
    <3>2. QED
      BY <1>6, <3>1
  <2>4. QED
    BY <2>1, <2>2, <2>3
<1>9. CASE Transfer(p)
  <2>1. HasLob(id)
    BY <1>0, <1>9 DEF Transfer, SyncCalm, Here
  <2>2. CASE GiveUp(p) /\ UNCHANGED <<whole, part>>
    BY <1>1, <2>2, GiveUpCalm
  <2>3. CASE Uncaught(p)
    BY <2>3, DeadCalm DEF Uncaught
  <2>4. CASE ~(GiveUp(p) /\ UNCHANGED <<whole, part>>) /\ ~Uncaught(p)
    <3>1. /\ part' = part \ {id} /\ whole' = whole \cup {id} /\ packages' = packages /\ UNCHANGED processVars
          /\ Go(p, "provides") \/ Ready(p, TRUE)
      BY <1>0, <1>5, <1>9, <2>1, <2>4 DEF Transfer
    <3>2. QED
      BY <1>6, <1>7, <3>1
  <2>5. QED
    BY <2>2, <2>3, <2>4
<1>10. CASE StoreProvides(p)
  <2>1. HasLob(id)
    BY <1>0, <1>10 DEF StoreProvides, SyncCalm, Here
  <2>2. CASE GiveUp(p) /\ UNCHANGED <<whole, part>>
    BY <1>1, <2>2, GiveUpCalm
  <2>3. CASE ~(GiveUp(p) /\ UNCHANGED <<whole, part>>)
    <3>1. /\ Ready(p, TRUE) /\ packages' = packages /\ UNCHANGED processVars
          /\ "noStore" \notin sync[p].opts => UNCHANGED <<whole, part>>
      BY <1>0, <1>5, <1>10, <2>3 DEF StoreProvides
    <3>2. QED
      BY <1>7, <2>1, <3>1 DEF HasLob
  <2>4. QED
    BY <2>2, <2>3
<1>11. QED
  BY <1>8, <1>9, <1>10

\* Every step of it: and the database does not end it.
LEMMA SyncStepCalm ==
  ASSUME CatalogAssumption, SyncAssumption, TypeInv, NEW p \in Syncer, SyncCalm(p), SyncStep(p)
  PROVE  SyncCalm(p)' /\ (dead' = dead \/ DieOf(p, "network"))
<1>1. CASE NextRepo(p) \/ ListDnf(p) \/ ListCached(p) \/ Fetch(p) \/ NextPackage(p) \/ SyncKill(p)
  <2>1. dead' = dead \/ DieOf(p, "network")
    BY <1>1 DEF NextRepo, ListDnf, ListCached, Fetch, NextPackage, SyncKill, SyncDies, processVars
  <2>2. QED
    BY <1>1, <2>1, ListingCalm
<1>2. CASE ~(NextRepo(p) \/ ListDnf(p) \/ ListCached(p) \/ Fetch(p) \/ NextPackage(p) \/ SyncKill(p))
  <2>1. SyncCalm(p)' /\ (UNCHANGED processVars \/ SyncDies(p, "network"))
    BY <1>2, BuildCalm, BuildArchCalm, LinkCalm, PackageCalm, FileCalm DEF SyncStep
  <2>2. QED
    BY <2>1 DEF processVars, SyncDies
<1>3. QED
  BY <1>1, <1>2

\* A run that starts: systems and releases that are assigned are there.
LEMMA SyncStartCalm ==
  ASSUME CatalogAssumption, SyncAssumption, TypeInv, NEW p \in Syncer, NEW busy, SyncStart(p, busy)
  PROVE  SyncCalm(p)'
<1>1. /\ sync'[p].pc = "repo" /\ sync'[p].seen = {} /\ UNCHANGED systemVars
      /\ \A i \in sync'[p].todo : \E r \in repos : i \in Instances(r[1], r[2])
  BY SyncStartEffect
<1>2. \A i : Stands(i)' <=> Stands(i)
  BY <1>1 DEF Stands, AnyRelease, systemVars
<1>3. ASSUME NEW id, NEW name, NEW i \in Instances(id, name)
      PROVE  Stands(i)
  <2>1. AssignedTo(id, OpSys) \subseteq opsys /\ AssignedTo(id, Release) \subseteq releases
        /\ AssignedTo(id, Arch) \subseteq archs
    <3>1. \A x \in assigned : x[2] \in opsys \cup releases \cup archs
      BY DEF TypeInv, KeysHold
    <3>2. opsys \subseteq OpSys /\ releases \subseteq Release /\ archs \subseteq Arch
      BY DEF TypeInv, TypeOK, RepoTypeOK
    <3>3. OpSys \cap Release = {} /\ OpSys \cap Arch = {} /\ Release \cap Arch = {}
      BY CatalogAssumption
    <3>4. QED
      BY <3>1, <3>2, <3>3 DEF AssignedTo
  <2>2. \A r \in releases : OsOf[r] \in opsys
    BY DEF TypeInv, KeysHold
  <2>3. \A r \in releases, a \in archs : Stands(<<name, OsOf[r], VersionOf[r], a>>)
    BY <2>2 DEF Stands, AnyRelease
  <2>4. active \subseteq releases
    BY DEF TypeInv, TypeOK, RepoTypeOK
  <2>5. i \in Parametrized(id, name) => Stands(i)
    BY <2>1, <2>3, <2>4 DEF Parametrized
  <2>6. i \in ForReleases(id, name) => Stands(i)
    BY <2>1, <2>3 DEF ForReleases
  <2>7. i \in Unbound(id, name) => Stands(i)
    BY DEF Unbound, Stands
  <2>8. QED
    BY <1>3, <2>5, <2>6, <2>7 DEF Instances
<1>4. Ahead(p)'
  BY <1>1, <1>2, <1>3 DEF Ahead, AtVariant, AtPackage
<1>5. Here(p)' /\ SeenStored(p)'
  BY <1>1 DEF Here, SeenStored, AtPackage, AtRow
<1>6. QED
  BY <1>4, <1>5 DEF SyncCalm

\* While nothing overlaps, what it adds is there once, and has its row.
LEMMA SyncHistory ==
  ASSUME CatalogAssumption, SyncAssumption, TypeInv, NEW p \in Syncer, SyncCalm(p), History, SyncStep(p)
  PROVE  History'
<1>0. PICK build, k, id : build = sync[p].build /\ k = Package(p) /\ id = sync[p].row
  OBVIOUS
<1>1. UNCHANGED systemVars /\ UniqueNames(repos)'
  BY SyncMoves DEF systemVars, History, UniqueNames
<1>2. CASE SyncQuiet(p)
  <2>1. UNCHANGED packageVars
    BY <1>2, SyncMoves
  <2>2. QED
    BY <1>1, <2>1 DEF History, packageVars, PackageIds
<1>3. CASE AddLink(p)
  BY <1>1, <1>3 DEF AddLink, History, PackageIds
<1>4. CASE AddBuild(p)
  <2>1. UNCHANGED <<packages, whole, part, orphans>>
        /\ builds' = builds \cup {[id |-> lastId + 1, nvr |-> NvrOf[k]]}
    BY <1>0, <1>4 DEF AddBuild
  <2>2. \A b \in builds : b.nvr # NvrOf[k]
    BY <1>0, <1>4 DEF AddBuild, SyncCalm, Here, Found
  <2>3. \A b, c \in builds' : b.nvr = c.nvr => b = c
    BY <2>1, <2>2 DEF History
  <2>4. QED
    BY <1>1, <2>1, <2>3 DEF History, PackageIds
<1>5. CASE AddPackage(p)
  <2>1. PICK b \in builds : b.id = build /\ b.nvr = NvrOf[k]
    BY <1>0, <1>5 DEF AddPackage, SyncCalm, Here, AtPackage
  <2>2. ~\E l \in packages : l.pkg = k /\ l.build = build
    BY <1>0, <1>5 DEF AddPackage, SyncCalm, Here
  <2>3. \A l \in packages : l.pkg # k
    BY <2>1, <2>2 DEF History
  <2>4. UNCHANGED <<builds, whole, part, orphans>>
        /\ packages' = packages \cup {[id |-> lastId + 1, pkg |-> k, build |-> build]}
    <3>1. build \in BuildIds
      BY <2>1 DEF BuildIds
    <3>2. QED
      BY <1>0, <1>5, <3>1 DEF AddPackage
  <2>5. \A l, m \in packages' : l.pkg = m.pkg => l = m
    BY <2>3, <2>4 DEF History
  <2>6. \A l \in packages' : \E c \in builds' : c.id = l.build /\ c.nvr = NvrOf[l.pkg]
    BY <2>1, <2>4 DEF History
  <2>7. PackageIds \subseteq PackageIds'
    BY <2>4 DEF PackageIds
  <2>8. QED
    BY <1>1, <2>4, <2>5, <2>6, <2>7 DEF History
<1>6. CASE Download(p) \/ Transfer(p) \/ StoreProvides(p)
  <2>1. PICK l \in packages : l.id = id
    BY <1>0, <1>6 DEF Download, Transfer, StoreProvides, SyncCalm, Here, AtRow
  <2>2. id \in PackageIds
    BY <2>1 DEF PackageIds
  <2>3. builds' = builds /\ packages' \subseteq packages
    BY <1>6 DEF Download, Transfer, StoreProvides, GiveUp, Uncaught
  <2>4. (whole \cup part)' \subseteq whole \cup part \cup {id}
    BY <1>0, <1>6 DEF Download, Transfer, StoreProvides, Uncaught, HasLob, DeletePackageFile
  <2>5. PackageIds \cup orphans \subseteq (PackageIds \cup orphans)'
    <3>1. CASE GiveUp(p)
      BY <1>0, <3>1 DEF GiveUp, PackageIds
    <3>2. CASE ~GiveUp(p)
      BY <1>6, <3>2 DEF Download, Transfer, StoreProvides, Uncaught, PackageIds
    <3>3. QED
      BY <3>1, <3>2
  <2>6. (whole \cup part)' \subseteq (PackageIds \cup orphans)'
    BY <2>2, <2>4, <2>5 DEF History
  <2>7. QED
    BY <1>1, <2>3, <2>6 DEF History
<1>7. QED
  BY <1>2, <1>3, <1>4, <1>5, <1>6 DEF SyncStep, SyncQuiet

-----------------------------------------------------------------------------
(* A clean-up that is alone. *)

\* A clean-up that is over.
LEMMA CleanOverCalm ==
  ASSUME TypeInv, NEW c \in Cleaner, NEW pc \in {"done", "dead"}, CGo(c, pc)
  PROVE  CleanCalm(c)'
<1>1. clean \in [Cleaner -> CleanRun]
  BY DEF TypeInv, TypeOK, CleanTypeOK
<1>2. clean'[c] = [Rest EXCEPT !.pc = pc]
  BY <1>1, TurnsEffect DEF CGo
<1>3. /\ clean'[c].pc = pc /\ clean'[c].op = "none" /\ clean'[c].todo = {} /\ clean'[c].build = {}
  BY <1>2 DEF Rest
<1>4. QED
  BY <1>3 DEF CleanCalm, TodoCalm

\* One that begins has chosen builds that only its target links.
LEMMA CleanBeginCalm ==
  ASSUME TypeInv, NEW c \in Cleaner, NEW busy, CleanBegin(c, busy)
  PROVE  CleanCalm(c)'
<1>1. PICK op, target, chosen, pc : CleanStart(c, busy, op, target, chosen, pc) /\ Chosen(op, target, chosen, pc)
  BY CleanBeginEffect
<1>2. /\ clean'[c].pc = pc /\ clean'[c].op = op /\ clean'[c].target = target /\ clean'[c].todo = chosen
      /\ clean'[c].build = {} /\ links' = links
  BY <1>1, CleanStartEffect DEF packageVars
<1>3. /\ op \in {"packages", "unassigned", "releasedel"} /\ pc = IF op = "releasedel" THEN "unlink" ELSE "builds"
      /\ op = "unassigned" => target = {}
      /\ \A b \in chosen, l \in links : l[1] = b => l[2] \in target \/ l[3] \in target
  BY <1>1 DEF Chosen
<1>4. \A b \in chosen, l \in links' : l[1] = b => l \in Pointing(c)'
  BY <1>2, <1>3 DEF Pointing
<1>5. QED
  BY <1>2, <1>3, <1>4 DEF CleanCalm, TodoCalm

\* The links of the chosen builds.
LEMMA TodoStays ==
  ASSUME NEW c \in Cleaner, TodoCalm(c), links' = links, clean'[c].target = clean[c].target,
         clean'[c].todo \cup clean'[c].build \subseteq clean[c].todo \cup clean[c].build
  PROVE  TodoCalm(c)' /\ Pointing(c)' = Pointing(c)
<1>1. Pointing(c)' = Pointing(c)
  BY DEF Pointing
<1>2. QED
  BY <1>1 DEF TodoCalm

\* It goes through the builds and deletes their files.
LEMMA FilesCalm ==
  ASSUME CatalogAssumption, TypeInv, NEW c \in Cleaner, CleanCalm(c), NextBuild(c) \/ DeletePackage(c)
  PROVE  CleanCalm(c)' /\ UNCHANGED processVars
<1>1. /\ UNCHANGED <<systemVars, links, packages, processVars>> /\ lastId' = lastId
  BY DEF NextBuild, DeletePackage, packageVars
<1>2. /\ clean \in [Cleaner -> CleanRun] /\ clean[c].op \in {"none", "packages", "unassigned", "releasedel"}
      /\ provides \subseteq PackageIds
  BY DEF TypeInv, TypeOK, CleanTypeOK, CleanRun, RepoTypeOK
<1>3. /\ clean[c].op # "none" /\ (clean[c].op = "unassigned" => clean[c].target = {})
      /\ TodoCalm(c) /\ (clean[c].op = "releasedel" => Pointing(c) = {})
  BY DEF CleanCalm, TodoCalm, NextBuild, DeletePackage
<1>4. ASSUME NEW pc \in {"unlink", "builds", "repos", "rows"}, CGo(c, pc),
             pc = "repos" => clean[c].op = "releasedel",
             pc = "rows" => clean[c].op = "unassigned" /\ \A id \in RowsAt(c) : id \notin (whole \cup part \cup provides)'
      PROVE  CleanCalm(c)'
  <2>1. /\ clean'[c].pc = pc /\ clean'[c].op = clean[c].op /\ clean'[c].target = clean[c].target
        /\ clean'[c].todo = clean[c].todo /\ clean'[c].build = clean[c].build /\ clean'[c].files = clean[c].files
    BY <1>2, <1>4, CGoEffect DEF CleanPc
  <2>2. TodoCalm(c)' /\ Pointing(c)' = Pointing(c)
    BY <1>1, <1>3, <2>1, TodoStays
  <2>3. RowsAt(c)' = RowsAt(c)
    BY <1>1, <2>1 DEF RowsAt, PackagesOf
  <2>4. QED
    BY <1>3, <1>4, <2>1, <2>2, <2>3 DEF CleanCalm, TodoCalm, HasLob
<1>5. CASE NextBuild(c)
  <2>1. CASE clean[c].todo = {}
    <3>1. CGo(c, AfterBuilds(clean[c].op))
      BY <1>5, <2>1 DEF NextBuild
    <3>2. CASE clean[c].op = "unassigned"
      BY <1>1, <3>1, <3>2, CleanOverCalm DEF AfterBuilds
    <3>3. CASE clean[c].op = "packages"
      BY <1>1, <1>4, <3>1, <3>3 DEF AfterBuilds
    <3>4. CASE clean[c].op = "releasedel"
      BY <1>1, <1>4, <3>1, <3>4 DEF AfterBuilds
    <3>5. QED
      BY <1>2, <1>3, <3>2, <3>3, <3>4
  <2>2. CASE clean[c].todo # {}
    <3>1. PICK b \in clean[c].todo :
            Turns(c, [clean[c] EXCEPT !.todo = @ \ {b}, !.build = {b}, !.files = PackagesOf(b), !.pc = "files"])
      BY <1>5, <2>2 DEF NextBuild
    <3>2. /\ clean'[c].pc = "files" /\ clean'[c].todo = clean[c].todo \ {b} /\ clean'[c].build = {b}
          /\ clean'[c].files = PackagesOf(b) /\ clean'[c].op = clean[c].op /\ clean'[c].target = clean[c].target
      BY <3>1, TakeBuildEffect
    <3>3. TodoCalm(c)' /\ Pointing(c)' = Pointing(c)
      BY <1>1, <1>3, <3>2, TodoStays
    <3>4. RowsAt(c)' = clean'[c].files
      BY <1>1, <3>2 DEF RowsAt, PackagesOf
    <3>5. QED
      BY <1>1, <1>3, <3>2, <3>3, <3>4 DEF CleanCalm, TodoCalm
  <2>3. QED
    BY <2>1, <2>2
<1>6. CASE DeletePackage(c)
  <2>1. /\ clean[c].pc = "files" /\ clean[c].files \subseteq RowsAt(c)
        /\ \A id \in RowsAt(c) : HasLob(id) => id \in clean[c].files
        /\ clean[c].op = "unassigned" => RowsAt(c) \cap provides \subseteq clean[c].files
    BY <1>6 DEF CleanCalm, DeletePackage
  <2>2. CASE clean[c].files = {}
    <3>1. UNCHANGED <<provides, whole, part>> /\ CGo(c, IF clean[c].op = "unassigned" THEN "rows" ELSE "builds")
      BY <1>6, <2>2 DEF DeletePackage
    <3>2. CASE clean[c].op = "unassigned"
      <4>1. \A id \in RowsAt(c) : id \notin (whole \cup part \cup provides)'
        BY <2>1, <2>2, <3>1, <3>2 DEF HasLob
      <4>2. QED
        BY <1>1, <1>4, <3>1, <3>2, <4>1
    <3>3. CASE clean[c].op # "unassigned"
      BY <1>1, <1>4, <3>1, <3>3
    <3>4. QED
      BY <3>2, <3>3
  <2>3. CASE clean[c].files # {}
    <3>1. PICK id \in clean[c].files :
            /\ whole' = whole \ {id} /\ part' = part \ {id}
            /\ provides' = IF clean[c].op = "unassigned" THEN provides \ {id} ELSE provides
            /\ Turns(c, [clean[c] EXCEPT !.files = @ \ {id}])
      BY <1>6, <2>3 DEF DeletePackage, DeletePackageFile
    <3>2. /\ clean'[c].files = clean[c].files \ {id} /\ clean'[c].pc = "files"
          /\ clean'[c].todo = clean[c].todo /\ clean'[c].build = clean[c].build
          /\ clean'[c].op = clean[c].op /\ clean'[c].target = clean[c].target
      BY <2>1, <3>1, DropFileEffect
    <3>3. TodoCalm(c)' /\ Pointing(c)' = Pointing(c)
      BY <1>1, <1>3, <3>2, TodoStays
    <3>4. RowsAt(c)' = RowsAt(c)
      BY <1>1, <3>2 DEF RowsAt, PackagesOf
    <3>5. \A x \in RowsAt(c) : HasLob(x)' => x \in clean'[c].files
      BY <2>1, <3>1, <3>2 DEF HasLob
    <3>6. clean[c].op = "unassigned" => RowsAt(c) \cap provides' \subseteq clean'[c].files
      BY <2>1, <3>1, <3>2
    <3>7. QED
      BY <1>1, <1>3, <2>1, <3>2, <3>3, <3>4, <3>5, <3>6 DEF CleanCalm, TodoCalm
  <2>4. QED
    BY <2>2, <2>3
<1>7. QED
  BY <1>5, <1>6

\* cleanup-unassigned deletes the rows: nothing refers to them.
LEMMA PurgeCalm ==
  ASSUME CatalogAssumption, TypeInv, NEW c \in Cleaner, CleanCalm(c), PurgePackages(c) \/ PurgeBuild(c)
  PROVE  CleanCalm(c)' /\ UNCHANGED processVars
<1>1. links' = links /\ lastId' = lastId /\ clean \in [Cleaner -> CleanRun]
  BY DEF PurgePackages, PurgeBuild, TypeInv, TypeOK, CleanTypeOK
<1>2. /\ clean[c].op = "unassigned" /\ clean[c].target = {} /\ TodoCalm(c)
      /\ clean[c].pc \in {"rows", "build"}
  BY DEF CleanCalm, PurgePackages, PurgeBuild
<1>3. Pointing(c) = {}
  BY <1>2 DEF Pointing
<1>4. ASSUME NEW pc \in {"build", "builds"}, CGo(c, pc),
             pc = "build" => \A k \in packages' : k.build \notin clean[c].build
      PROVE  CleanCalm(c)'
  <2>1. /\ clean'[c].pc = pc /\ clean'[c].op = clean[c].op /\ clean'[c].target = clean[c].target
        /\ clean'[c].todo = clean[c].todo /\ clean'[c].build = clean[c].build /\ clean'[c].files = clean[c].files
    BY <1>1, <1>4, CGoEffect DEF CleanPc
  <2>2. TodoCalm(c)' /\ Pointing(c)' = Pointing(c)
    BY <1>1, <1>2, <2>1, TodoStays
  <2>3. QED
    BY <1>2, <1>3, <1>4, <2>1, <2>2 DEF CleanCalm
<1>5. CASE PurgePackages(c)
  <2>1. RowsAt(c) \cap provides = {}
    BY <1>5 DEF PurgePackages, CleanCalm
  <2>2. packages' = {k \in packages : k.id \notin RowsAt(c)} /\ CGo(c, "build") /\ UNCHANGED processVars
    BY <1>5, <2>1 DEF PurgePackages, RowsAt
  <2>3. \A k \in packages : k.build \in clean[c].build => k.id \in RowsAt(c)
    BY DEF RowsAt, PackagesOf
  <2>4. QED
    BY <1>4, <2>2, <2>3
<1>6. CASE PurgeBuild(c)
  <2>1. \A k \in packages : k.build \notin clean[c].build
    BY <1>6 DEF PurgeBuild, CleanCalm
  <2>2. ~\E l \in links : l[1] \in clean[c].build
    BY <1>2, <1>3 DEF TodoCalm
  <2>3. CGo(c, "builds") /\ UNCHANGED processVars
    BY <1>6, <2>1, <2>2 DEF PurgeBuild
  <2>4. QED
    BY <1>4, <2>3
<1>7. QED
  BY <1>5, <1>6

\* Links, and releasedel.
LEMMA ReleaseCalm ==
  ASSUME CatalogAssumption, TypeInv, NEW c \in Cleaner, CleanCalm(c),
         Unlink(c) \/ DeleteRepos(c) \/ DeleteReports(c) \/ DeleteRelease(c)
  PROVE  CleanCalm(c)' /\ UNCHANGED processVars
<1>1. lastId' = lastId /\ clean \in [Cleaner -> CleanRun]
  BY DEF Unlink, DeleteRepos, DeleteReports, DeleteRelease, packageVars, TypeInv, TypeOK, CleanTypeOK
<1>2. clean[c].op # "none" /\ TodoCalm(c) /\ (clean[c].op = "unassigned" => clean[c].target = {})
  BY DEF CleanCalm, Unlink, DeleteRepos, DeleteReports, DeleteRelease
<1>3. ASSUME NEW pc \in {"builds", "reports", "release"}, CGo(c, pc), clean[c].op = "releasedel",
             links' = links \/ links' = links \ Pointing(c), Pointing(c)' = {},
             pc \in {"reports", "release"} => \A x \in assigned' : x[2] \notin clean[c].target,
             pc = "release" => inUse' \cap clean[c].target = {}
      PROVE  CleanCalm(c)'
  <2>1. /\ clean'[c].pc = pc /\ clean'[c].op = clean[c].op /\ clean'[c].target = clean[c].target
        /\ clean'[c].todo = clean[c].todo /\ clean'[c].build = clean[c].build /\ clean'[c].files = clean[c].files
    BY <1>1, <1>3, CGoEffect DEF CleanPc
  <2>2. \A b \in clean[c].todo \cup clean[c].build, l \in links' : l[1] = b => l \in Pointing(c)'
    <3>1. \A l \in links' : l[2] \notin clean[c].target /\ l[3] \notin clean[c].target
      BY <1>3, <2>1 DEF Pointing
    <3>2. \A l \in links' : l \in links /\ l \notin Pointing(c)
      BY <1>3, <3>1 DEF Pointing
    <3>3. QED
      BY <1>2, <3>2 DEF TodoCalm
  <2>3. QED
    BY <1>3, <2>1, <2>2 DEF CleanCalm, TodoCalm
<1>4. CASE Unlink(c)
  <2>1. links' = links \ Pointing(c) /\ UNCHANGED processVars
        /\ CGo(c, IF clean[c].op = "releasedel" THEN "builds" ELSE "done")
    BY <1>4 DEF Unlink
  <2>2. CASE clean[c].op = "releasedel"
    <3>1. clean'[c].target = clean[c].target
      BY <1>1, <2>1, <2>2, CGoEffect DEF CleanPc
    <3>2. Pointing(c)' = {}
      BY <2>1, <3>1 DEF Pointing
    <3>3. QED
      BY <1>3, <2>1, <2>2, <3>2
  <2>3. CASE clean[c].op # "releasedel"
    BY <2>1, <2>3, CleanOverCalm
  <2>4. QED
    BY <2>2, <2>3
<1>5. CASE DeleteRepos(c)
  <2>1. CGo(c, "reports") /\ UNCHANGED <<links, processVars>>
        /\ assigned' = {x \in assigned : x[1] \notin {y[1] : y \in {z \in assigned : z[2] \in clean[c].target}}}
    BY <1>5 DEF DeleteRepos, packageVars
  <2>2. clean[c].op = "releasedel" /\ Pointing(c) = {}
    BY <1>5 DEF CleanCalm, DeleteRepos
  <2>3. \A x \in assigned' : x[2] \notin clean[c].target
    BY <2>1
  <2>4. Pointing(c)' = {}
    BY <1>1, <2>1, <2>2, CGoEffect DEF CleanPc, Pointing
  <2>5. QED
    BY <1>3, <2>1, <2>2, <2>3, <2>4
<1>6. CASE DeleteReports(c)
  <2>1. CGo(c, "release") /\ UNCHANGED <<links, assigned, processVars>> /\ inUse' = inUse \ clean[c].target
    BY <1>6 DEF DeleteReports, packageVars
  <2>2. clean[c].op = "releasedel" /\ Pointing(c) = {} /\ \A x \in assigned : x[2] \notin clean[c].target
    BY <1>6 DEF CleanCalm, DeleteReports
  <2>3. Pointing(c)' = {}
    BY <1>1, <2>1, <2>2, CGoEffect DEF CleanPc, Pointing
  <2>4. QED
    BY <1>3, <2>1, <2>2, <2>3
<1>7. CASE DeleteRelease(c)
  <2>1. /\ inUse \cap clean[c].target = {} /\ Pointing(c) = {}
        /\ \A x \in assigned : x[2] \notin clean[c].target
    BY <1>7 DEF CleanCalm, DeleteRelease
  <2>2. CGo(c, "done") /\ UNCHANGED processVars
    BY <1>7, <2>1 DEF DeleteRelease
  <2>3. QED
    BY <2>2, CleanOverCalm
<1>8. QED
  BY <1>4, <1>5, <1>6, <1>7

\* Every step of it: the database never ends it.
LEMMA CleanStepCalm ==
  ASSUME CatalogAssumption, CleanAssumption, TypeInv, NEW c \in Cleaner, CleanCalm(c), CleanStep(c)
  PROVE  CleanCalm(c)' /\ UNCHANGED processVars
<1>1. CleanKill(c) => CleanCalm(c)' /\ UNCHANGED processVars
  BY CleanOverCalm DEF CleanKill
<1>2. QED
  BY <1>1, FilesCalm, PurgeCalm, ReleaseCalm DEF CleanStep

\* While nothing overlaps, the rows that go have lost their files, and the
\* builds their packages.
LEMMA CleanHistory ==
  ASSUME CatalogAssumption, CleanAssumption, TypeInv, NEW c \in Cleaner, CleanCalm(c), History, CleanStep(c)
  PROVE  History'
<1>1. CASE NextBuild(c) \/ Unlink(c) \/ CleanKill(c) \/ DeleteReports(c) \/ DeleteRelease(c)
  <2>1. UNCHANGED <<repos, builds, packages, whole, part, orphans>>
    BY <1>1 DEF NextBuild, Unlink, CleanKill, DeleteReports, DeleteRelease, systemVars, packageVars
  <2>2. QED
    BY <2>1 DEF History, UniqueNames, PackageIds
<1>2. CASE DeletePackage(c)
  <2>1. UNCHANGED <<repos, builds, packages, orphans>> /\ whole' \subseteq whole /\ part' \subseteq part
    BY <1>2 DEF DeletePackage, DeletePackageFile, systemVars
  <2>2. QED
    BY <2>1 DEF History, UniqueNames, PackageIds
<1>3. CASE PurgePackages(c)
  <2>1. \A id \in RowsAt(c) : ~HasLob(id) /\ id \notin provides
    BY <1>3 DEF PurgePackages, CleanCalm
  <2>2. UNCHANGED <<repos, builds, whole, part, orphans>> /\ packages' = {k \in packages : k.id \notin RowsAt(c)}
    BY <1>3, <2>1 DEF PurgePackages, RowsAt, systemVars
  <2>3. \A id \in PackageIds : HasLob(id) => id \in PackageIds'
    BY <2>1, <2>2 DEF PackageIds
  <2>4. (whole \cup part)' \subseteq (PackageIds \cup orphans)'
    BY <2>2, <2>3 DEF History, HasLob
  <2>5. QED
    BY <2>2, <2>4 DEF History, UniqueNames
<1>4. CASE PurgeBuild(c)
  <2>1. \A k \in packages : k.build \notin clean[c].build
    BY <1>4 DEF PurgeBuild, CleanCalm
  <2>2. /\ UNCHANGED <<repos, packages, whole, part, orphans>>
        /\ builds' = builds \/ builds' = {b \in builds : b.id \notin clean[c].build}
    BY <1>4 DEF PurgeBuild, systemVars
  <2>3. \A k \in packages' : \E b \in builds' : b.id = k.build /\ b.nvr = NvrOf[k.pkg]
    BY <2>1, <2>2 DEF History
  <2>4. QED
    BY <2>2, <2>3 DEF History, UniqueNames, PackageIds
<1>5. CASE DeleteRepos(c)
  <2>1. UNCHANGED <<builds, packages, whole, part, orphans>> /\ repos' \subseteq repos
    BY <1>5 DEF DeleteRepos, packageVars
  <2>2. QED
    BY <2>1 DEF History, UniqueNames, PackageIds
<1>6. QED
  BY <1>1, <1>2, <1>3, <1>4, <1>5 DEF CleanStep

-----------------------------------------------------------------------------
(* Administration that is alone. *)

\* What it planned fits when it flushes.
LEMMA AdminBeginCalm ==
  ASSUME CatalogAssumption, RegistryAssumption, TypeInv, NEW a \in Admin, NEW busy, AdminBegin(a, busy)
  PROVE  AdminCalm(a)'
<1>1. PICK op, add, del, need : Prepare(a, busy, op, add, del, need) /\ Plan(add, del, need) /\ Good(op, add, del, need)
  BY BeginPlanned DEF Planned
<1>2. /\ admin'[a].op = op /\ admin'[a].add = add /\ admin'[a].del = del /\ admin'[a].need = need
      /\ UNCHANGED <<systemVars, builds, links, buildComponents>>
  BY <1>1, PrepareEffect
<1>3. /\ Table("arch")' = Table("arch") /\ Table("opsys")' = Table("opsys") /\ Table("release")' = Table("release")
      /\ Table("component")' = Table("component") /\ Table("repo")' = Table("repo") /\ Table("url")' = Table("url")
      /\ Table("assigned")' = Table("assigned") /\ Table("link")' = Table("link")
      /\ Table("person")' = Table("person") /\ Table("permission")' = Table("permission")
      /\ Table("buildComponent")' = Table("buildComponent") /\ Table("active")' = Table("active")
  BY <1>2, Tables DEF Table, systemVars
<1>4. \A t : Table(t)' = Table(t) => After(a, t)' = Would(add, del, t)
  BY <1>2 DEF After, Would
<1>5. /\ After(a, "arch")' = Would(add, del, "arch") /\ After(a, "opsys")' = Would(add, del, "opsys")
      /\ After(a, "release")' = Would(add, del, "release") /\ After(a, "repo")' = Would(add, del, "repo")
      /\ After(a, "component")' = Would(add, del, "component") /\ After(a, "url")' = Would(add, del, "url")
      /\ After(a, "assigned")' = Would(add, del, "assigned") /\ After(a, "link")' = Would(add, del, "link")
      /\ After(a, "person")' = Would(add, del, "person") /\ After(a, "permission")' = Would(add, del, "permission")
      /\ After(a, "buildComponent")' = Would(add, del, "buildComponent")
  BY <1>3, <1>4
<1>6. UniqueNames(repos)' => UniqueNames(After(a, "repo"))'
  <2>1. repos' = repos
    BY <1>2 DEF systemVars
  <2>2. QED
    BY <1>1, <1>5, <2>1 DEF Good, UniqueNames
<1>7. Accepted(add, del, need) => ~Refused(a)'
  <2>1. SUFFICES ASSUME Accepted(add, del, need), Refused(a)'
                 PROVE  FALSE
    OBVIOUS
  <2>2. BuildIds' = BuildIds
    BY <1>2 DEF BuildIds
  <2>3. \A x \in add \cup del \cup need : Table(x[1])' = Table(x[1])
    <3>1. \A x \in AnyRow' \cup {<<"repo", <<0, 0>>>>} :
            x[1] \in {"arch", "opsys", "release", "active", "component", "person", "permission", "repo", "url",
                      "assigned", "link", "buildComponent"}
      BY DEF AnyRow
    <3>2. add \cup del \cup need \subseteq AnyRow' \cup {<<"repo", <<0, 0>>>>}
      BY <1>1 DEF Plan
    <3>3. \A x : x[1] \in {"arch", "opsys", "release", "active", "component", "person", "permission", "repo", "url",
                           "assigned", "link", "buildComponent"} => Table(x[1])' = Table(x[1])
      BY <1>3
    <3>4. QED
      BY <3>1, <3>2, <3>3
  <2>4. CASE \/ \E x \in add : x[1] \notin {"repo", "url", "assigned", "active"} /\ x[2] \in Table(x[1])'
             \/ \E x \in need : x[2] \notin Table(x[1])'
             \/ \E x \in del : x[1] \in {"url", "assigned"} /\ x[2] \notin Table(x[1])'
    BY <2>1, <2>3, <2>4 DEF Accepted
  <2>5. CASE ~(\/ \E x \in add : x[1] \notin {"repo", "url", "assigned", "active"} /\ x[2] \in Table(x[1])'
               \/ \E x \in need : x[2] \notin Table(x[1])'
               \/ \E x \in del : x[1] \in {"url", "assigned"} /\ x[2] \notin Table(x[1])')
    <3>1. \/ \E r \in After(a, "repo")' : r[1] = 0
          \/ \E r \in After(a, "release")' : OsOf[r] \notin After(a, "opsys")'
          \/ \E c \in After(a, "component")' :
               \/ c[1] \notin After(a, "opsys")' \cup After(a, "release")'
               \/ c[1] \in Release /\ <<OsOf[c[1]], c[2]>> \notin After(a, "component")'
          \/ \E x \in After(a, "permission")' : x[1] \notin After(a, "component")' \/ x[2] \notin After(a, "person")'
          \/ \E x \in After(a, "buildComponent")' : x[1] \notin BuildIds'
          \/ \E x \in After(a, "url")' \cup After(a, "assigned")' : \A r \in After(a, "repo")' : r[1] # x[1]
          \/ \E x \in After(a, "assigned")' : x[2] \notin After(a, "opsys")' \cup After(a, "release")' \cup After(a, "arch")'
          \/ \E l \in After(a, "link")' : l[1] \notin BuildIds' \/ l[2] \notin After(a, "release")'
      <4>1. \A x : x \notin {r[1] : r \in After(a, "repo")'} => \A r \in After(a, "repo")' : r[1] # x
        OBVIOUS
      <4>2. 0 \in {r[1] : r \in After(a, "repo")'} => \E r \in After(a, "repo")' : r[1] = 0
        OBVIOUS
      <4>3. QED
        BY <1>2, <2>1, <2>5, <4>1, <4>2, Zenon DEF Refused
    <3>2. \/ \E r \in Would(add, del, "repo") : r[1] = 0
          \/ \E r \in Would(add, del, "release") : OsOf[r] \notin Would(add, del, "opsys")
          \/ \E c \in Would(add, del, "component") :
               \/ c[1] \notin Would(add, del, "opsys") \cup Would(add, del, "release")
               \/ c[1] \in Release /\ <<OsOf[c[1]], c[2]>> \notin Would(add, del, "component")
          \/ \E x \in Would(add, del, "permission") : x[1] \notin Would(add, del, "component") \/ x[2] \notin Would(add, del, "person")
          \/ \E x \in Would(add, del, "buildComponent") : x[1] \notin BuildIds
          \/ \E x \in Would(add, del, "url") \cup Would(add, del, "assigned") : \A r \in Would(add, del, "repo") : r[1] # x[1]
          \/ \E x \in Would(add, del, "assigned") : x[2] \notin Would(add, del, "opsys") \cup Would(add, del, "release") \cup Would(add, del, "arch")
          \/ \E l \in Would(add, del, "link") : l[1] \notin BuildIds \/ l[2] \notin Would(add, del, "release")
      BY <1>5, <2>2, <3>1
    <3>3. QED
      BY <2>1, <3>2 DEF Accepted
  <2>6. QED
    BY <2>4, <2>5
<1>8. QED
  BY <1>1, <1>2, <1>6, <1>7 DEF AdminCalm, Good

\* A flush is refused only for the known causes, and adds no second name.
LEMMA FlushCalm ==
  ASSUME CatalogAssumption, TypeInv, NEW a \in Admin, AdminCalm(a), Flush(a)
  PROVE  /\ UNCHANGED processVars \/ (DieOf(a, "database") /\ admin[a].op \in MayDie /\ admin'[a].op = admin[a].op)
         /\ History => History'
<1>1. CASE Refused(a)
  <2>1. /\ End(a, "dead") /\ DieOf(a, "database") /\ UNCHANGED <<repos, builds, packages, whole, part, orphans>>
    BY <1>1 DEF Flush, systemVars
  <2>2. admin[a].op \in MayDie /\ admin'[a].op = admin[a].op
    BY <1>1, <2>1, EndEffect DEF AdminCalm
  <2>3. QED
    BY <2>1, <2>2 DEF History, UniqueNames, PackageIds
<1>2. CASE ~Refused(a)
  <2>1. /\ UNCHANGED processVars /\ repos' = After(a, "repo") /\ UNCHANGED <<builds, packages, whole, part, orphans>>
    BY <1>2 DEF Flush
  <2>2. History => UniqueNames(repos)'
    BY <2>1 DEF AdminCalm, History, UniqueNames
  <2>3. QED
    BY <2>1, <2>2 DEF History, PackageIds
<1>3. QED
  BY <1>1, <1>2

-----------------------------------------------------------------------------
(* All together. *)

\* What is true of a run while nothing changes for it.
LEMMA CalmStays ==
  ASSUME UNCHANGED <<sync, buildArchs, clean, admin, systemVars, packageVars, processVars>>
  PROVE  /\ \A p \in Syncer : SyncCalm(p) => SyncCalm(p)'
         /\ \A c \in Cleaner : CleanCalm(c) => CleanCalm(c)'
         /\ \A a \in Admin : AdminCalm(a) => AdminCalm(a)'
         /\ \A p : Calm(p)' => Calm(p)
         /\ History => History'
<1> USE DEF systemVars, packageVars, processVars
<1>1. \A p \in Syncer : Ahead(p) => Ahead(p)'
  BY DEF Ahead, Stands, AnyRelease
<1>2. \A p \in Syncer : Here(p) => Here(p)'
  BY DEF Here, Found, Package, LinkSeen, Linked, HasLob
<1>3. \A p \in Syncer : SeenStored(p) => SeenStored(p)'
  BY DEF SeenStored, Stored, Linked, LinkSeen, HasLob
<1>4. \A c \in Cleaner : CleanCalm(c) => CleanCalm(c)'
  BY DEF CleanCalm, TodoCalm, Pointing, RowsAt, PackagesOf, HasLob
<1>5. \A a \in Admin : AdminCalm(a) => AdminCalm(a)'
  <2>1. \A t : Table(t)' = Table(t)
    BY DEF Table
  <2>2. \A a, t : After(a, t)' = After(a, t)
    BY <2>1 DEF After
  <2>3. BuildIds' = BuildIds
    BY DEF BuildIds
  <2>4. \A a \in Admin : Refused(a)' => Refused(a)
    BY <2>1, <2>2, <2>3 DEF Refused
  <2>5. QED
    BY <2>2, <2>4 DEF AdminCalm, UniqueNames
<1>6. \A p : Calm(p)' => Calm(p)
  BY DEF Calm, Busy, Syncing, Cleaning, Administering
<1>7. History => History'
  BY DEF History, UniqueNames, PackageIds
<1>8. QED
  BY <1>1, <1>2, <1>3, <1>4, <1>5, <1>6, <1>7 DEF SyncCalm

\* A step of a run that is alone.
LEMMA OwnCalm ==
  ASSUME CatalogAssumption, SyncAssumption, CleanAssumption, ProcessAssumption, TypeInv, SoloInv, CalmInv,
         NEW p \in Process, Own(p), Busy \subseteq Process,
         \/ p \in Syncer /\ SyncStep(p) /\ UNCHANGED <<clean, admin, starts>>
         \/ p \in Cleaner /\ CleanStep(p) /\ UNCHANGED <<syncVars, admin, starts>>
         \/ p \in Admin /\ Flush(p) /\ UNCHANGED <<syncVars, clean, starts>>
  PROVE  CalmInv'
<1>1. \A q : Calm(q)' => q = p /\ Calm(p)
  BY OwnSolo DEF Calm, Own
<1>2. CASE p \in Syncer /\ SyncStep(p)
  <2>1. Calm(p) => SyncCalm(p)'
    BY <1>2, SyncStepCalm DEF CalmInv
  <2>2. p \notin Cleaner /\ p \notin Admin
    BY <1>2, ProcessAssumption
  <2>3. QED
    BY <1>1, <2>1, <2>2 DEF CalmInv
<1>3. CASE p \in Cleaner /\ CleanStep(p)
  <2>1. Calm(p) => CleanCalm(p)'
    BY <1>3, CleanStepCalm DEF CalmInv
  <2>2. p \notin Syncer /\ p \notin Admin
    BY <1>3, ProcessAssumption
  <2>3. QED
    BY <1>1, <2>1, <2>2 DEF CalmInv
<1>4. CASE p \in Admin /\ Flush(p) /\ UNCHANGED <<syncVars, clean, starts>>
  <2>1. p \notin Syncer /\ p \notin Cleaner
    BY <1>4, ProcessAssumption
  <2>2. admin'[p].pc # "flush"
    BY <1>4, EndEffect DEF Flush
  <2>3. ~Calm(p)'
    BY <2>1, <2>2 DEF Calm, Busy, Syncing, Cleaning, Administering
  <2>4. QED
    BY <1>1, <2>3 DEF CalmInv
<1>5. QED
  BY <1>2, <1>3, <1>4

\* Every step keeps what runs that are alone know.
LEMMA CalmNext ==
  ASSUME CatalogAssumption, SyncAssumption, CleanAssumption, RegistryAssumption, ProcessAssumption, TypeInv,
         SoloInv, CalmInv, [Next]_vars
  PROVE  CalmInv'
<1>1. Busy \subseteq Process /\ Syncer \subseteq Process /\ Cleaner \subseteq Process /\ Admin \subseteq Process
  BY BusyIs
<1>2. ASSUME NEW p \in Process, Starts(p), Start(p)
      PROVE  CalmInv'
  <2>1. \A q : Calm(q)' => q = p
    BY <1>1, <1>2, StartsSolo DEF Calm
  <2>2. p \in Syncer => SyncCalm(p)'
    BY <1>2, ProcessAssumption, SyncStartCalm DEF Start
  <2>3. p \in Cleaner => CleanCalm(p)'
    BY <1>2, ProcessAssumption, CleanBeginCalm DEF Start
  <2>4. p \in Admin => AdminCalm(p)'
    BY <1>2, ProcessAssumption, AdminBeginCalm DEF Start
  <2>5. QED
    BY <2>1, <2>2, <2>3, <2>4 DEF CalmInv
<1>3. ReportOfRelease(Busy) /\ UNCHANGED <<syncVars, admin, starts>> => CalmInv'
  BY <1>1, ReportSolo DEF CalmInv, Calm
<1>4. UNCHANGED <<sync, buildArchs, clean, admin, systemVars, packageVars, processVars>> => CalmInv'
  BY CalmStays DEF CalmInv
<1>5. QED
  BY <1>1, <1>2, <1>3, <1>4, OwnCalm, StepIs

\* While nothing overlaps, whoever takes a step is alone.
LEMMA HistoryNext ==
  ASSUME CatalogAssumption, SyncAssumption, CleanAssumption, RegistryAssumption, ProcessAssumption, TypeInv,
         SoloInv, CalmInv, HistoryInv, [Next]_vars
  PROVE  HistoryInv'
<1>1. Busy \subseteq Process /\ Syncer \subseteq Process /\ Cleaner \subseteq Process /\ Admin \subseteq Process
  BY BusyIs
<1>2. \A p : Own(p) /\ ~overlap' => Calm(p) /\ History
  BY DEF Own, SoloInv, Calm, HistoryInv
<1>3. ASSUME NEW p \in Syncer, Own(p), SyncStep(p)
      PROVE  HistoryInv'
  BY <1>2, <1>3, SyncHistory DEF CalmInv, HistoryInv
<1>4. ASSUME NEW c \in Cleaner, Own(c), CleanStep(c)
      PROVE  HistoryInv'
  BY <1>2, <1>4, CleanHistory DEF CalmInv, HistoryInv
<1>5. ASSUME NEW a \in Admin, Own(a), Flush(a)
      PROVE  HistoryInv'
  BY <1>2, <1>5, FlushCalm DEF CalmInv, HistoryInv
<1>6. ASSUME NEW p \in Process, Starts(p), Start(p)
      PROVE  HistoryInv'
  <2>1. ~overlap' => ~overlap
    BY <1>6 DEF Starts, Begin
  <2>2. UNCHANGED <<repos, builds, packages, whole, part, orphans>>
    <3>1. SyncStart(p, Busy) => UNCHANGED <<repos, builds, packages, whole, part, orphans>>
      BY DEF SyncStart, systemVars, packageVars
    <3>2. p \in Cleaner /\ CleanBegin(p, Busy) => UNCHANGED <<repos, builds, packages, whole, part, orphans>>
      BY CleanBeginEffect DEF CleanStart, systemVars, packageVars
    <3>3. p \in Admin /\ AdminBegin(p, Busy) => UNCHANGED <<repos, builds, packages, whole, part, orphans>>
      BY BeginPlanned DEF Planned, Prepare, systemVars
    <3>4. QED
      BY <1>6, <3>1, <3>2, <3>3 DEF Start
  <2>3. History => History'
    BY <2>2 DEF History, UniqueNames, PackageIds
  <2>4. QED
    BY <2>1, <2>3 DEF HistoryInv
<1>7. ReportOfRelease(Busy) => HistoryInv'
  <2>1. SUFFICES ASSUME ReportOfRelease(Busy), ~overlap'
                 PROVE  History'
    BY DEF HistoryInv
  <2>2. ~overlap /\ UNCHANGED <<repos, builds, packages, whole, part, orphans>>
    BY <2>1 DEF ReportOfRelease, packageVars
  <2>3. QED
    BY <2>2 DEF HistoryInv, History, UniqueNames, PackageIds
<1>8. UNCHANGED <<sync, buildArchs, clean, admin, systemVars, packageVars, processVars>> => HistoryInv'
  BY CalmStays DEF HistoryInv, processVars
<1>9. QED
  BY <1>3, <1>4, <1>5, <1>6, <1>7, <1>8, StepIs

\* The database ends only those that are not alone, but for the known causes.
LEMMA SurviveNext ==
  ASSUME CatalogAssumption, SyncAssumption, CleanAssumption, RegistryAssumption, ProcessAssumption, TypeInv,
         SoloInv, CalmInv, CalmRunsSurvive, [Next]_vars
  PROVE  CalmRunsSurvive'
<1>1. Busy \subseteq Process /\ Syncer \subseteq Process /\ Cleaner \subseteq Process /\ Admin \subseteq Process
  BY BusyIs
<1>2. dead \in [Process -> {"no", "database", "network"}]
  BY DEF TypeInv, TypeOK, RepoTypeOK
<1>3. \A q \in Process : dead[q] = "database" /\ alone[q] => q \in Admin /\ admin[q].op \in MayDie
  BY DEF CalmRunsSurvive, MayDie
<1>4. \A p : Own(p) => dead[p] = "no" /\ alone' = alone /\ (alone[p] => Calm(p))
  BY DEF Own, SoloInv, Calm
<1>5. ASSUME NEW p \in Syncer, Own(p), SyncStep(p), UNCHANGED <<clean, admin, starts>>
      PROVE  CalmRunsSurvive'
  <2>1. alone[p] => dead' = dead \/ dead' = [dead EXCEPT ![p] = "network"]
    BY <1>4, <1>5, SyncStepCalm DEF CalmInv, DieOf
  <2>2. \A q \in Process \ {p} : dead'[q] = dead[q]
    BY <1>2, <1>5 DEF Own
  <2>3. alone[p] => dead'[p] # "database"
    BY <1>1, <1>2, <1>4, <1>5, <2>1
  <2>4. QED
    BY <1>3, <1>4, <1>5, <2>2, <2>3 DEF CalmRunsSurvive, MayDie
<1>6. ASSUME NEW c \in Cleaner, Own(c), CleanStep(c), UNCHANGED <<syncVars, admin, starts>>
      PROVE  CalmRunsSurvive'
  <2>1. alone[c] => dead' = dead
    BY <1>4, <1>6, CleanStepCalm DEF CalmInv, processVars
  <2>2. \A q \in Process \ {c} : dead'[q] = dead[q]
    BY <1>2, <1>6 DEF Own
  <2>3. alone[c] => dead'[c] # "database"
    BY <1>4, <1>6, <2>1
  <2>4. QED
    BY <1>3, <1>4, <1>6, <2>2, <2>3 DEF CalmRunsSurvive, MayDie
<1>7. ASSUME NEW a \in Admin, Own(a), Flush(a)
      PROVE  CalmRunsSurvive'
  <2>1. \A q \in Process \ {a} : dead'[q] = dead[q]
    BY <1>2, <1>7 DEF Own
  <2>2. \A b \in Admin \ {a} : admin'[b] = admin[b]
    BY <1>7, EndEffect DEF Flush
  <2>3. alone[a] /\ dead'[a] = "database" => admin'[a].op \in MayDie
    BY <1>4, <1>7, FlushCalm DEF CalmInv, processVars
  <2>4. QED
    BY <1>3, <1>4, <1>7, <2>1, <2>2, <2>3 DEF CalmRunsSurvive, MayDie
<1>8. ASSUME NEW p \in Process, Starts(p), Start(p)
      PROVE  CalmRunsSurvive'
  <2>1. /\ dead'[p] = "no" /\ \A q \in Process \ {p} : dead'[q] = dead[q]
        /\ \A q \in Process \ {p} : alone'[q] => alone[q]
    <3>1. /\ dead' = [dead EXCEPT ![p] = "no"]
          /\ alone' = [q \in Process |-> IF q = p THEN Busy \subseteq {p} ELSE alone[q] /\ q \notin Busy]
      BY <1>8 DEF Starts, Begin
    <3>2. dead'[p] = "no" /\ \A q \in Process \ {p} : dead'[q] = dead[q]
      BY <1>2, <3>1
    <3>3. \A q \in Process \ {p} : alone'[q] => alone[q]
      BY <3>1
    <3>4. QED
      BY <3>2, <3>3
  <2>2. \A b \in Admin \ {p} : admin'[b] = admin[b]
    <3>1. p \in Admin /\ AdminBegin(p, Busy) => \A b \in Admin \ {p} : admin'[b] = admin[b]
      BY BeginPlanned, PrepareEffect DEF Planned
    <3>2. QED
      BY <1>8, <3>1 DEF Start
  <2>3. QED
    BY <1>3, <2>1, <2>2 DEF CalmRunsSurvive, MayDie
<1>9. ReportOfRelease(Busy) /\ UNCHANGED <<syncVars, admin, starts>> => CalmRunsSurvive'
  <2>1. SUFFICES ASSUME ReportOfRelease(Busy), admin' = admin
                 PROVE  CalmRunsSurvive'
    OBVIOUS
  <2>2. dead' = dead /\ \A q \in Process : alone'[q] => alone[q]
    BY <2>1 DEF ReportOfRelease
  <2>3. QED
    BY <1>3, <2>1, <2>2 DEF CalmRunsSurvive, MayDie
<1>10. UNCHANGED <<sync, buildArchs, clean, admin, systemVars, packageVars, processVars>> => CalmRunsSurvive'
  BY DEF CalmRunsSurvive, processVars
<1>11. QED
  BY <1>5, <1>6, <1>7, <1>8, <1>9, <1>10, StepIs

\* A clean-up that is alone is at a file of its build.
LEMMA SharedNext ==
  ASSUME CatalogAssumption, SyncAssumption, CleanAssumption, RegistryAssumption, ProcessAssumption, TypeInv,
         SoloInv, CalmInv, [Next]_vars,
         NEW id \in (whole \cup part) \ (whole' \cup part'), NEW c \in Cleaner, clean[c].pc = "files", alone[c],
         NEW k \in packages, NEW l \in links, k.id = id, l[1] = k.build
  PROVE  l \in Pointing(c)
<1>1. c \in Busy /\ Calm(c)
  BY DEF Busy, Cleaning, Calm
<1>2. Busy = {c} /\ c \notin Syncer /\ c \notin Admin
  BY <1>1, ProcessAssumption DEF SoloInv
<1>3. whole' # whole \/ part' # part
  OBVIOUS
<1>4. \A p : Own(p) => p = c
  BY <1>2 DEF Own
<1>5. ASSUME NEW p \in Process, Start(p)
      PROVE  UNCHANGED <<whole, part>>
  <2>1. SyncStart(p, Busy) => UNCHANGED <<whole, part>>
    BY DEF SyncStart, packageVars
  <2>2. p \in Cleaner /\ CleanBegin(p, Busy) => UNCHANGED <<whole, part>>
    BY CleanBeginEffect DEF CleanStart, packageVars
  <2>3. p \in Admin /\ AdminBegin(p, Busy) => UNCHANGED <<whole, part>>
    BY BeginPlanned DEF Planned, Prepare
  <2>4. QED
    BY <1>5, <2>1, <2>2, <2>3 DEF Start
<1>6. ReportOfRelease(Busy) => UNCHANGED <<whole, part>>
  BY DEF ReportOfRelease, packageVars
<1>7. UNCHANGED packageVars => UNCHANGED <<whole, part>>
  BY DEF packageVars
<1>8. CleanStep(c)
  BY <1>2, <1>3, <1>4, <1>5, <1>6, <1>7, StepIs
<1>9. DeletePackage(c)
  BY <1>3, <1>8 DEF CleanStep, Unlink, NextBuild, PurgePackages, PurgeBuild, DeleteRepos, DeleteReports,
                    DeleteRelease, CleanKill, packageVars
<1>10. id \in clean[c].files
  <2>1. PICK x \in clean[c].files : whole' = whole \ {x} /\ part' = part \ {x}
    BY <1>3, <1>9 DEF DeletePackage, DeletePackageFile
  <2>2. id = x
    BY <2>1
  <2>3. QED
    BY <2>1, <2>2
<1>11. CleanCalm(c)
  BY <1>1 DEF CalmInv
<1>12. PICK b \in clean[c].build : id \in PackagesOf(b)
  BY <1>10, <1>11 DEF CleanCalm, RowsAt
<1>13. k.build = b
  BY <1>12 DEF PackagesOf, TypeInv, RowsInv
<1>14. QED
  BY <1>11, <1>12, <1>13 DEF CleanCalm, TodoCalm

\* The invariant at the beginning.
LEMMA InvInit ==
  ASSUME CatalogAssumption, SyncAssumption, ProcessAssumption, Init
  PROVE  IInv
<1>1. TypeInv
  BY TypeInit
<1>2. Busy = {}
  BY DEF Init, SyncInit, CleanInit, AdminInit, Busy, Syncing, Cleaning, Administering, Fresh, Rest, Idle
<1>3. SoloInv /\ CalmInv
  BY <1>2 DEF SoloInv, CalmInv, Calm
<1>4. HistoryInv
  BY DEF Init, Prepared, HistoryInv, History, UniqueNames, PackageIds
<1>5. CalmRunsSurvive
  BY DEF Init, CalmRunsSurvive
<1>6. QED
  BY <1>1, <1>3, <1>4, <1>5 DEF IInv

\* The invariant always holds.
THEOREM Invariance == Spec => []IInv
<1>1. Init => IInv
  BY CatalogAssumption, SyncAssumption, ProcessAssumption, InvInit
<1>2. IInv /\ [Next]_vars => IInv'
  BY CatalogAssumption, SyncAssumption, CleanAssumption, RegistryAssumption, ProcessAssumption,
     TypeNext, SoloNext, CalmNext, HistoryNext, SurviveNext DEF IInv
<1>3. QED
  BY <1>1, <1>2, PTL DEF Spec

-----------------------------------------------------------------------------
(* What the module promises. *)

\* A run that nothing overlaps leaves what it listed complete: rows, links and
\* whole files, or files that an earlier transfer broke off (reposync.py, run).
THEOREM SyncComplete == Spec => []CalmSyncComplete
<1>1. IInv => CalmSyncComplete
  <2>1. SUFFICES ASSUME IInv, NEW p \in Syncer, sync[p].pc = "repo", alone[p],
                        sync[p].opts \cap {"noDownload", "noStore"} = {},
                        NEW x \in sync[p].seen, x[1] \notin sync[p].failed
                 PROVE  Stored(x)
    BY DEF CalmSyncComplete, Stored, HasLob, Linked
  <2>2. Calm(p)
    BY <2>1 DEF Calm, Busy, Syncing
  <2>3. SeenStored(p)
    BY <2>1, <2>2 DEF IInv, CalmInv, SyncCalm
  <2>4. QED
    BY <2>1, <2>3 DEF SeenStored
<1>2. QED
  BY <1>1, Invariance, PTL

\* The database refuses a process that has it for itself only for a system in
\* use, a repository file without gpgcheck, or a build assigned on two grounds
\* (opsysdel.py, repoimport.py, assign_release_to_builds.py).
THEOREM Survival == Spec => []CalmRunsSurvive
<1>1. IInv => CalmRunsSurvive
  BY DEF IInv
<1>2. QED
  BY <1>1, Invariance, PTL

\* What is looked up before it is added is there once, while nothing has
\* overlapped (repoadd.py, repomod.py, reposync.py, run).
THEOREM NoDuplicates == Spec => []NoDuplicatesUnlessOverlap
<1>1. IInv => NoDuplicatesUnlessOverlap
  BY DEF IInv, HistoryInv, History, UniqueNames, NoDuplicatesUnlessOverlap
<1>2. QED
  BY <1>1, Invariance, PTL

\* And a file has its row, but for the downloads that failed (reposync.py, run;
\* cleanup_unassigned.py, run).
THEOREM RowsOfFiles == Spec => []FilesHaveRows
<1>1. IInv => FilesHaveRows
  BY DEF IInv, HistoryInv, History, FilesHaveRows
<1>2. QED
  BY <1>1, Invariance, PTL

\* A clean-up that nothing overlaps leaves the files of builds that another
\* release or architecture has (queries.py, get_builds_by_opsysrelease_id).
THEOREM SharedKept == Spec => KeepsShared
<1> DEFINE Shared ==
      \A id \in (whole \cup part) \ (whole' \cup part'), c \in Cleaner :
        clean[c].pc = "files" /\ alone[c] =>
          \A k \in packages, l \in links : k.id = id /\ l[1] = k.build => l \in Pointing(c)
<1>1. IInv /\ [Next]_vars => [Shared]_vars
  <2>1. SUFFICES ASSUME IInv, [Next]_vars
                 PROVE  Shared
    OBVIOUS
  <2>2. QED
    BY <2>1, CatalogAssumption, SyncAssumption, CleanAssumption, RegistryAssumption, ProcessAssumption,
       SharedNext DEF IInv
<1>2. Spec => [][Shared]_vars
  BY <1>1, Invariance, PTL DEF Spec
<1>3. QED
  BY <1>2 DEF KeepsShared
==============================================================================

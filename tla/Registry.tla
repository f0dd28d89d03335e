------------------------------ MODULE Registry ------------------------------
(***************************************************************************)
(* The actions that define architectures, systems, releases, components    *)
(* and repositories.  Each reads what there is, decides, and flushes once: *)
(* it plans rows to add and to delete, and rows that must still be there   *)
(* (to be updated).  A row is a pair of its table and its value.           *)
(***************************************************************************)
EXTENDS PackageRepo

CONSTANTS Admin,          \* runs of these actions
          AdminOps,       \* their names
          RemoteReleases  \* what pull-releases may find: functions from releases to statuses

VARIABLE admin

Idle == [pc |-> "done", op |-> "none", add |-> {}, del |-> {}, need |-> {}]

ASSUME RegistryAssumption ==
  /\ Admin \subseteq Process
  /\ \A m \in RemoteReleases : DOMAIN m \subseteq Release

\* A row of any table.
AnyRow ==
  ({"arch"} \X Arch) \cup ({"opsys"} \X OpSys) \cup ({"release", "active"} \X Release)
    \cup ({"component"} \X ((OpSys \cup Release) \X Comp)) \cup ({"person"} \X Person)
    \cup ({"permission"} \X ((OpSys \X Comp) \X Person)) \cup ({"repo"} \X ((0..lastId) \X RepoName))
    \cup ({"url"} \X ((0..lastId) \X {"plain", "param"}))
    \cup ({"assigned"} \X ((1..lastId) \X (OpSys \cup Release \cup Arch)))
    \cup ({"link"} \X ((1..lastId) \X Release \X archs)) \cup ({"buildComponent"} \X ((1..lastId) \X Comp))
AdminRun ==
  [pc : {"done", "dead", "flush"}, op : AdminOps \cup {"none"}, add : SUBSET AnyRow, del : SUBSET AnyRow,
   need : SUBSET (AnyRow \cup {<<"repo", <<0, 0>>>>})]
AdminTypeOK == admin \in [Admin -> AdminRun]

AdminInit == admin = [p \in Admin |-> Idle]
Administering == {p \in Admin : admin[p].pc = "flush"}

Row(t, values) == {<<t, v>> : v \in values}

Prepare(p, busy, op, add, del, need) ==
  /\ admin[p].pc \in {"done", "dead"} /\ op \in AdminOps
  /\ admin' = [admin EXCEPT ![p] =
                 [pc |-> "flush", op |-> op, add |-> add, del |-> del, need |-> need]]
  /\ Begin(p, busy)
  /\ UNCHANGED <<systemVars, builds, links, buildComponents, packages, provides, whole, part, orphans>>

Adds(p, busy, op, add) == Prepare(p, busy, op, add, {}, {}) /\ UNCHANGED lastId

-----------------------------------------------------------------------------
(* Architectures, systems and releases. *)

ArchAdd(p, busy) == \E a \in Arch \ archs : Adds(p, busy, "archadd", Row("arch", {a}))
OpSysAdd(p, busy) == \E o \in OpSys \ opsys : Adds(p, busy, "opsysadd", Row("opsys", {o}))
OpSysDel(p, busy) ==
  \E o \in opsys : /\ ~\E r \in releases : OsOf[r] = o
                   /\ Prepare(p, busy, "opsysdel", {}, Row("opsys", {o}), {}) /\ UNCHANGED lastId

ReleaseAdd(p, busy) ==
  \E r \in Release \ releases, live \in BOOLEAN :
    /\ OsOf[r] \in opsys
    /\ Adds(p, busy, "releaseadd", Row("release", {r}) \cup IF live THEN Row("active", {r}) ELSE {})

Status(live, dying) == [add |-> Row("active", live), del |-> Row("active", dying)]

ReleaseMod(p, busy) ==
  \E r \in releases :
    LET s == IF r \in active THEN Status({}, {r}) ELSE Status({r}, {}) IN
    Prepare(p, busy, "releasemod", s.add, s.del, Row("release", {r})) /\ UNCHANGED lastId

\* New releases that are not at their end, and the status of the known ones.
PullReleases(p, busy) ==
  \E m \in RemoteReleases :
    LET known == DOMAIN m \cap releases
        new == {r \in DOMAIN m \ releases : m[r] # "EOL"}
        s == Status({r \in known \cup new : m[r] = "ACTIVE"}, {r \in known : m[r] # "ACTIVE"})
    IN /\ \A r \in DOMAIN m : OsOf[r] \in opsys
       /\ Prepare(p, busy, "pullReleases", Row("release", new) \cup s.add, s.del, Row("release", known))
       /\ UNCHANGED lastId

-----------------------------------------------------------------------------
(* Components. *)

ComponentAdd(p, busy) ==
  \E o \in opsys, c \in Comp :
    \E rels \in SUBSET {r \in releases : OsOf[r] = o} :
      Adds(p, busy, "componentadd", Row("component", ({<<o, c>>} \cup rels \X {c}) \ components))

\* Of releases of several systems at once, all in one flush.
PullComponents(p, busy) ==
  \E rels \in SUBSET releases, comps \in SUBSET Comp :
    Adds(p, busy, "pullComponents",
         Row("component", (({OsOf[r] : r \in rels} \cup rels) \X comps) \ components))

\* One component, as the remote list has its maintainers.
PullAssociates(p, busy) ==
  \E k \in {x \in components : x[1] \in opsys}, named \in SUBSET Person :
    LET held == {x \in permissions : x[1] = k} IN
    /\ Prepare(p, busy, "pullAssociates",
               Row("person", named \ people) \cup Row("permission", ({k} \X named) \ held),
               Row("permission", held \ ({k} \X named)), {})
    /\ UNCHANGED lastId

\* Builds of a system get the component with their name.
FindComponents(p, busy) ==
  \E bs \in SUBSET BuildIds, k \in {x \in components : x[1] \in opsys} :
    Adds(p, busy, "findComponents", Row("buildComponent", (bs \X {k[2]}) \ buildComponents))

-----------------------------------------------------------------------------
(* Repositories. *)

\* Mutant: names are not looked up.
NeverNamed(name) == {}
Named(name) == {r[1] : r \in {x \in repos : x[2] = name}}

RepoAdd(p, busy) ==
  \E name \in RepoName, kinds \in SUBSET {"plain", "param"} \ {{}} :
    LET id == lastId + 1 IN
    /\ Named(name) = {} /\ lastId' = id
    /\ Prepare(p, busy, "repoadd", Row("repo", {<<id, name>>}) \cup Row("url", {id} \X kinds), {}, {})

\* A file that has no gpgcheck leaves nogpgcheck unset, which may not be null.
RepoImport(p, busy) ==
  \E name \in RepoName, kind \in {"plain", "param"}, id \in {0, lastId + 1} :
    /\ Named(name) = {} /\ lastId' = lastId + 1
    /\ Prepare(p, busy, "repoimport", Row("repo", {<<id, name>>}) \cup Row("url", {<<id, kind>>}), {}, {})

Fits(id, things) ==
  /\ "param" \in RepoUrls(id) => things \cap Release = {}
  /\ "plain" \in RepoUrls(id) => things \cap OpSys = {}

RepoAssign(p, busy) ==
  \E r \in repos, things \in SUBSET (opsys \cup releases \cup archs) \ {{}} :
    /\ Fits(r[1], things)
    /\ Prepare(p, busy, "repoassign", Row("assigned", {r[1]} \X things), {}, Row("repo", {r}))
    /\ UNCHANGED lastId

Whole(r) == Row("repo", {r}) \cup Row("url", {u \in urls : u[1] = r[1]})
                             \cup Row("assigned", {x \in assigned : x[1] = r[1]})
RepoDel(p, busy) ==
  \E rs \in SUBSET repos \ {{}} :
    Prepare(p, busy, "repodel", {}, UNION {Whole(r) : r \in rs}, {}) /\ UNCHANGED lastId

\* A new name, a url more, a url less.
RepoMod(p, busy) ==
  \E r \in repos :
    /\ \/ \E name \in RepoName :
            /\ Named(name) = {}
            /\ Prepare(p, busy, "repomod", Row("repo", {<<r[1], name>>}), Row("repo", {r}), Row("repo", {r}))
       \/ \E k \in {"plain", "param"} :
            \/ Prepare(p, busy, "repomod", Row("url", {<<r[1], k>>}), {}, Row("repo", {r}))
            \/ k \in RepoUrls(r[1])
               /\ Prepare(p, busy, "repomod", {}, Row("url", {<<r[1], k>>}), Row("repo", {r}))
    /\ UNCHANGED lastId

-----------------------------------------------------------------------------
\* assign-release-to-builds, for the builds that were released and for those
\* that match an expression: a build of both is added twice, which fails.
AssignReleaseToBuilds(p, busy) ==
  \E r \in releases, a \in archs, released, matching \in SUBSET BuildIds :
    LET unseen == {b \in released \cup matching : ~LinkSeen(b, OsOf[r], VersionOf[r], a)}
        twice == unseen \cap released \cap matching
    IN /\ Prepare(p, busy, "assignRelease", Row("link", unseen \X {r} \X {a}), {},
                  IF twice = {} THEN {} ELSE Row("repo", {<<0, 0>>}))
       /\ UNCHANGED lastId

-----------------------------------------------------------------------------
(* The flush. *)

Table(t) ==
  CASE t = "arch" -> archs [] t = "opsys" -> opsys [] t = "release" -> releases
    [] t = "active" -> active [] t = "component" -> components [] t = "repo" -> repos
    [] t = "url" -> urls [] t = "assigned" -> assigned [] t = "link" -> links
    [] t = "person" -> people [] t = "permission" -> permissions
    [] t = "buildComponent" -> buildComponents

Of(rows, t) == {x[2] : x \in {y \in rows : y[1] = t}}
After(p, t) == (Table(t) \ Of(admin[p].del, t)) \cup Of(admin[p].add, t)

\* Unique names, rows that are updated or unlinked, columns that are not null,
\* and foreign keys.
Refused(p) ==
  LET a == admin[p]
      repoIds == {r[1] : r \in After(p, "repo")}
  IN
  \/ \E x \in a.add : x[1] \notin {"repo", "url", "assigned", "active"} /\ x[2] \in Table(x[1])
  \/ \E x \in a.need : x[2] \notin Table(x[1])
  \/ \E x \in a.del : x[1] \in {"url", "assigned"} /\ x[2] \notin Table(x[1])
  \/ 0 \in repoIds
  \/ \E r \in After(p, "release") : OsOf[r] \notin After(p, "opsys")
  \/ \E c \in After(p, "component") :
       \/ c[1] \notin After(p, "opsys") \cup After(p, "release")
       \/ c[1] \in Release /\ <<OsOf[c[1]], c[2]>> \notin After(p, "component")
  \/ \E x \in After(p, "permission") : x[1] \notin After(p, "component") \/ x[2] \notin After(p, "person")
  \/ \E x \in After(p, "buildComponent") : x[1] \notin BuildIds
  \/ \E x \in After(p, "url") : x[1] \notin repoIds
  \/ \E x \in After(p, "assigned") :
       \/ x[1] \notin repoIds
       \/ x[2] \notin After(p, "opsys") \cup After(p, "release") \cup After(p, "arch")
  \/ \E l \in After(p, "link") : l[1] \notin BuildIds \/ l[2] \notin After(p, "release")

End(p, pc) == admin' = [admin EXCEPT ![p] = [Idle EXCEPT !.pc = pc, !.op = IF pc = "dead" THEN admin[p].op ELSE "none"]]

Flush(p) ==
  /\ admin[p].pc = "flush"
  /\ IF Refused(p)
     THEN End(p, "dead") /\ DieOf(p, "database") /\ UNCHANGED <<systemVars, links, buildComponents>>
     ELSE /\ archs' = After(p, "arch") /\ opsys' = After(p, "opsys")
          /\ releases' = After(p, "release") /\ active' = After(p, "active")
          /\ components' = After(p, "component") /\ repos' = After(p, "repo")
          /\ people' = After(p, "person") /\ permissions' = After(p, "permission")
          /\ buildComponents' = After(p, "buildComponent")
          /\ urls' = After(p, "url") /\ assigned' = After(p, "assigned") /\ links' = After(p, "link")
          /\ End(p, "done") /\ UNCHANGED <<inUse, processVars>>
  /\ UNCHANGED <<builds, packages, provides, whole, part, orphans, lastId>>

AdminBegin(p, busy) ==
  \/ ArchAdd(p, busy) \/ OpSysAdd(p, busy) \/ OpSysDel(p, busy)
  \/ ReleaseAdd(p, busy) \/ ReleaseMod(p, busy) \/ PullReleases(p, busy)
  \/ ComponentAdd(p, busy) \/ PullComponents(p, busy)
  \/ PullAssociates(p, busy) \/ FindComponents(p, busy)
  \/ RepoAdd(p, busy) \/ RepoImport(p, busy) \/ RepoAssign(p, busy) \/ RepoDel(p, busy) \/ RepoMod(p, busy)
  \/ AssignReleaseToBuilds(p, busy)
==============================================================================

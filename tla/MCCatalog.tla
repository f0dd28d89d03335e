------------------------------ MODULE MCCatalog ------------------------------
(***************************************************************************)
(* Catalog for TLC: each history is cast with some processes, operations   *)
(* and packages.  Releases r1 and r3 have the same version.                *)
(***************************************************************************)
EXTENDS Catalog, FiniteSets, TLC

CONSTANTS f, c, r1, r2, r3, x, comp, pia, ra, rb, rc, k1, k2, n1, s1, s2, c1, c2, a1, a2

VARIABLE cast

MCOpSys == {f, c}
MCRelease == {r1, r2, r3}
MCArch == {x}
MCComp == {comp}
MCPerson == {pia}
MCRepoName == {ra, rb, rc}
MCPkg == {k1, k2}
MCNvr == {n1}
MCOsOf == (r1 :> f) @@ (r2 :> f) @@ (r3 :> c)
MCVersionOf == (r1 :> 1) @@ (r2 :> 2) @@ (r3 :> 1)
MCNvrOf == [k \in MCPkg |-> n1]
MCProcess == {s1, s2, c1, c2, a1, a2}
MCSyncer == {s1, s2}
MCCleaner == {c1, c2}
MCAdmin == {a1, a2}
MCOffers == (ra :> {k1}) @@ (rb :> {k1}) @@ (rc :> {k1, k2})
MCArchOf == [k \in MCPkg |-> x]
MCRpmMetadata == {rb}
MCSyncOptions == {{}, {"noDownload"}, {"noStore"}, {"noCache"}}
MCRemoteReleases == {(r1 :> "ACTIVE") @@ (r2 :> "EOL"), (r1 :> "EOL")}
MCAdminOps == {"archadd", "opsysadd", "opsysdel", "releaseadd", "releasemod", "pullReleases",
  "componentadd", "pullComponents", "pullAssociates", "findComponents", "repoadd", "repoimport", "repoassign", "repodel", "repomod",
  "assignRelease"}

Rows == {"archadd", "opsysadd", "opsysdel", "releaseadd", "componentadd", "pullComponents", "pullAssociates"}
Repositories == {"repoadd", "repoimport", "repoassign", "repodel", "repomod"}
Releases == {"releaseadd", "releasemod", "pullReleases", "assignRelease", "findComponents"}

Cast(processes, names, opts, ops, limit, kills, calm) ==
  [processes |-> processes, names |-> names, opts |-> opts, ops |-> ops, starts |-> limit,
   kills |-> kills, calm |-> calm]
Casts == {
  Cast({s1, s2}, {rb}, {{}}, {}, 2, 0, FALSE),
  Cast({s1}, {rb}, MCSyncOptions, {}, 2, 1, TRUE),
  Cast({s1, c1}, {ra}, {{}}, {}, 2, 0, TRUE),
  Cast({s1, c1}, {rc}, {{}}, {}, 2, 0, TRUE),
  Cast({s1, c1}, {rb}, {{}}, {}, 3, 0, FALSE),
  Cast({s1, c1, c2}, {rb}, {{}}, {}, 3, 0, FALSE),
  Cast({a1, s1}, {rb}, {{}}, Releases, 2, 0, FALSE),
  Cast({a1, a2}, {}, {{}}, Rows, 2, 0, FALSE),
  Cast({a1, a2}, {}, {{}}, Repositories, 2, 0, FALSE),
  Cast({a1}, {}, {{}}, Repositories, 3, 0, TRUE)}

MCInit ==
  /\ archs = {x} /\ opsys = {f, c} /\ releases = MCRelease /\ active = {r1} /\ components = {<<c, comp>>}
  /\ people = {} /\ permissions = {}
  /\ repos = {<<1, ra>>, <<2, rb>>, <<3, rc>>} /\ urls = {1, 2, 3} \X {"plain"}
  /\ assigned = ({1, 2, 3} \X {r1, x}) \cup {<<1, r2>>}
  /\ lastId = 3
  /\ Init /\ cast \in Casts

Killed == {p \in Syncer : sync[p].pc = "dead" /\ dead[p] = "no"}
  \cup {p \in Cleaner : clean[p].pc = "dead" /\ dead[p] = "no"}

InCast ==
  /\ Syncing' \cup Cleaning' \cup Administering' \subseteq cast.processes
  /\ \A p \in Syncer : sync'[p].opts \in cast.opts \cup {{}} /\
       \A i \in sync'[p].todo : i[1] \in cast.names
  /\ \A p \in Admin : admin'[p].op \in cast.ops \cup {"none"} /\ Cardinality(admin'[p].add) <= 2
  /\ Cardinality(Killed') <= cast.kills
  /\ cast.calm => ~overlap'
  /\ c2 \in cast.processes /\ Syncing' # {} => Cleaning' = {}
  /\ inUse' \subseteq IF cast.processes = {s1, c1, c2} THEN {r1} ELSE {}

MCNext ==
  /\ Step \/ (starts < cast.starts /\ \E p \in cast.processes : Start(p))
  /\ InCast /\ UNCHANGED cast
MCSpec == MCInit /\ [][MCNext]_<<vars, cast>>
==============================================================================

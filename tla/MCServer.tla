------------------------------- MODULE MCServer -------------------------------
(* The server for TLC. *)
EXTENDS Server

CONSTANTS p1, p2, m1, x1, x2, q1, q2, r1, r2, r3, c1, c2, t1, t2, a1, a2, a3, a4, a5, a6, a7, a8, a9, a10, a11, k1, k2

VARIABLE cast

MCSaver == {p1, p2}
MCMatcher == {m1}
MCFixer == {x1, x2}
MCProblem == {q1, q2}
MCReleases == <<"c7", "f30", "f31">>
MCOpsysOf == [r \in Range(MCReleases) |-> IF r = "c7" THEN "centos" ELSE "fedora"]
MCBuildOf == [k \in {"k", "n", "z"} |-> CASE k = "k" -> <<"ls", 1>> [] k = "n" -> <<"ls", 2>> [] k = "z" -> <<"zip", 1>>]
MCLibOf == [x \in {"/l/a.so.1", "/l/a.so.2", "/l/b", "unknown filename", "jit.so"} |->
             IF x \in {"/l/a.so.1", "/l/a.so.2"} THEN "a.so" ELSE x]

\* Frames by function, file, line or offset, and a mark; uReports of each type.
F(fn, path, at, mark) == [fn |-> fn, path |-> path, at |-> at, build |-> {}, print |-> {}, mark |-> mark]
B(fn, path, at) == [F(fn, path, at, "") EXCEPT !.build = {"b"}]
Thread(frames) == [crash |-> TRUE, frames |-> frames]
U(type, os, component, pkgs, threads) ==
  [type |-> type, os |-> os, component |-> component, packages |-> pkgs, threads |-> threads,
   desktop |-> <<>>, release |-> IF os = "centos" THEN "c7" ELSE "f30", executable |-> "/bin/x", taint |-> {}, version |-> "v", oops |-> TRUE]

Native(n) == F({n}, {}, {}, "native")
Java1 == U("java", "fedora", "tomcat", <<>>, <<Thread(<<Native("f"), Native("g"), F({"e"}, {}, {}, "exception")>>),
                                    Thread(<<F({"f"}, {"/l/b"}, {1}, "")>>)>>)
Java2 == [Java1 EXCEPT !.threads = <<Thread(<<Native("f")>>)>>]
Py1 == U("python", "centos", "yum", <<<<"k", "CRASHED">>>>, <<Thread(<<F({"module"}, {"/l/b"}, {1}, "special"), F({"f"}, {"/l/b"}, {1}, "")>>)>>)
Py2 == [Py1 EXCEPT !.threads = <<Thread(<<F({"module"}, {"/l/b"}, {1}, "special"), F({"f"}, {"/l/b"}, {}, "")>>)>>]
Ruby1 == U("ruby", "fedora", "gem", <<<<"k", "RELATED">>, <<"z", "RELATED">>>>, <<Thread(<<F({"f"}, {"/l/b"}, {1}, "")>>)>>)
Core1 == U("core", "fedora", "ls", <<<<"k", "CRASHED">>, <<"n", "RELATED">>>>,
           <<Thread(<<B({"f"}, {"/l/a.so.1"}, {1}), B({"jit"}, {"jit.so"}, {1}), B({}, {}, {2})>>),
             [crash |-> FALSE, frames |-> <<B({"g"}, {"/l/a.so.1"}, {1}), B({"f"}, {"/l/a.so.2"}, {3})>>]>>)
Core2 == [Core1 EXCEPT !.packages = <<<<"k", "RELATED">>>>, !.desktop = <<"kde">>]
Core3 == U("core", "fedora", "cat", <<>>, <<Thread(<<B({"h"}, {"/l/a.so.1"}, {1}), B({}, {}, {5})>>)>>)
Twice == [Core3 EXCEPT !.packages = <<<<"k", "CRASHED">>, <<"k", "CRASHED">>>>]
NoFile == [Core3 EXCEPT !.threads = <<Thread(<<B({"h"}, {}, {1}), B({}, {}, {5})>>)>>]
\* A frame without a build id, whose place is that of a line of a script.
Bare1 == U("core", "fedora", "perl", <<>>, <<Thread(<<F({"s"}, {"/l/b"}, {1}, ""), B({"h"}, {"/l/a.so.1"}, {1})>>)>>)
Oops1 == [U("kerneloops", "fedora", "kernel", <<>>,
           <<Thread(<<F({"f"}, {}, {}, "reliable"), F({"g"}, {}, {}, "reliable"), F({"0xf"}, {}, {3}, "reliable"),
                      F({}, {"ext4"}, {6}, "")>>)>>) EXCEPT !.executable = ""]
Oops2 == [Oops1 EXCEPT !.oops = FALSE]
MCUReport == {Java1, Java2, Py1, Py2, Ruby1, Core1, Core2, Core3, Twice, NoFile, Bare1, Oops1, Oops2}

Cast(savers, ureports, saves, matches, adds, known, stored, fixers, marks, changes) ==
  [savers |-> savers, ureports |-> ureports, saves |-> saves, matches |-> matches, adds |-> adds,
   known |-> known, stored |-> stored, fixers |-> fixers, marks |-> marks, changes |-> changes,
   uploads |-> {}, requests |-> {}, cleans |-> 0, cleaners |-> {}, files |-> {}, attachers |-> {}, runs |-> 0, kills |-> 0, erases |-> 0,
   tasks |-> {}, ends |-> 0, edits |-> 0]
Nobody == Cast({}, {}, 0, 0, 0, {"n"}, {}, {}, 0, 0)
Saves(savers, ureports, saves, matches, adds) == Cast(savers, ureports, saves, matches, adds, {"n"}, {}, {}, 0, 0)
\* uReports whose reports are stored before anything begins.
Ls == U("core", "fedora", "ls", <<<<"k", "CRASHED">>>>, <<Thread(<<B({"f"}, {"/l/b"}, {1})>>)>>)
Ls2 == [Ls EXCEPT !.packages = <<<<"n", "CRASHED">>>>, !.threads = <<Thread(<<B({"g"}, {"/l/b"}, {1})>>)>>]
Sh == [Ls EXCEPT !.component = "sh", !.release = "f31"]
Bare == [Ls EXCEPT !.component = "cat", !.packages = <<>>]
\* What is uploaded, and the files that clients attach.
Upl(form, u, long) == [form |-> form, u |-> u, long |-> long]
Junk == Upl("none", Ls, FALSE)
Scalar == Upl("scalar", Ls, FALSE)
BareList == Upl("list", Ls, FALSE)
Strange == Upl("dict", [Ls EXCEPT !.os = "gentoo"], FALSE)
Good == Upl("dict", Ls, FALSE)
Long == Upl("dict", Ls, TRUE)
Invalid == Upl("dict", Oops2, FALSE)
MCUpload == {Junk, Scalar, BareList, Strange, Good, Long, Invalid}
HashOf(u) == Hash(Completed(u))
BugTable == {[report |-> HashOf(Ls), release |-> "f30", private |-> FALSE]}
MCBugsOf == BugTable
MCMajor == [r \in Range(MCReleases) |-> r]
IdTable == [h \in {HashOf(Ls), HashOf(Sh), HashOf(Core3)} |-> IF h = HashOf(Ls) THEN 1 ELSE IF h = HashOf(Sh) THEN 2 ELSE 3]
Says1(kind, u, data) == [kind |-> kind, of |-> HashOf(u), data |-> data, long |-> data = "long"]
MCIdOf == IdTable
SaysTable ==
  a1 :> Says1("comment", Ls, "x") @@ a2 :> Says1("comment", Ls, "x") @@ a3 :> Says1("url", Ls, "x") @@ a4 :> Says1("url", Ls, "x")
  @@ a5 :> Says1("email", Sh, "e") @@ a6 :> Says1("email", Sh, "f") @@ a7 :> Says1("email", Ls, "f")
  @@ a8 :> Says1("email", Ls, "long") @@ a9 :> Says1("poem", Ls, "x") @@ a10 :> Says1("comment", Core3, "x") @@ a11 :> Says1("email", Ls, "e")
MCSays == SaysTable
MCAttachment == DOMAIN SaysTable
Uploads(requests, uploads, cleaners, cleans) ==
  [Nobody EXCEPT !.requests = requests, !.uploads = uploads, !.cleaners = cleaners, !.cleans = cleans]
Files(files, attachers, runs, kills, erases) ==
  [Nobody EXCEPT !.files = files, !.attachers = attachers, !.runs = runs, !.kills = kills, !.erases = erases, !.stored = {Ls, Sh}]
Beats(tasks, ends, edits) == [Nobody EXCEPT !.tasks = tasks, !.ends = ends, !.edits = edits]
Casts == {
  Saves({p1}, {Java1, Java2, Py1, Py2, Ruby1}, 3, 0, 0),
  Saves({p1}, {Core1, Core3, Oops1, Oops2, NoFile, Twice}, 3, 0, 0),
  Saves({p1, p2}, {Core1, Core3}, 2, 0, 0),
  Saves({p1, p2}, {Py1, Java1}, 2, 0, 0),
  Saves({p1}, {Py1, Bare1}, 2, 0, 0),
  Saves({p1, p2}, {Core1, Core2}, 3, 1, 1),
  Cast({}, {}, 0, 0, 1, {"n"}, {Ls, Ls2}, {x1}, 2, 2),
  Cast({}, {}, 0, 0, 0, {"k", "n"}, {Ls, Sh}, {x1, x2}, 2, 1),
  Cast({}, {}, 0, 0, 0, {"k", "n"}, {Ls, Bare}, {x1}, 1, 2),
  Cast({}, {}, 0, 0, 0, {"k", "n"}, {Ls}, {x1, x2}, 2, 1),
  Cast({}, {}, 0, 0, 0, {"k", "n"}, {Ls}, {x1}, 1, 3),
  Uploads({r1, r2}, {Junk, Strange}, {c1, c2}, 2),
  Uploads({r1, r2, r3}, {Strange}, {}, 0),
  [Uploads({r1}, {Good, Junk, Long, Scalar, BareList, Invalid}, {c1}, 1) EXCEPT !.stored = {Ls, Sh}],
  Files({a1, a2}, {t1, t2}, 3, 1, 0),
  Files({a3, a4}, {t1, t2}, 2, 1, 0),
  Files({a5, a6, a7, a1}, {t1}, 4, 0, 1),
  Files({a5, a11}, {t1, t2}, 2, 1, 1),
  [Files({a10, a8, a9}, {t1}, 2, 0, 0) EXCEPT !.savers = {p1}, !.ureports = {Core3}, !.saves = 1],
  Beats({k1}, 2, 2),
  Beats({k1, k2}, 1, 1)}

\* What mark-probably-fixed may be asked for, and what koji may have.
MCOption == {<<{}, {}>>, <<{"fedora"}, {"f30"}>>, <<{"fedora", "centos"}, {}>>}
MCNewBuilds == {<<"f30", <<"ls", 4>>>>}
Lists == {<<<<"ls", 3>>, <<"ls", 2>>, <<"ls", 1>>>>, <<<<"ls", 1>>, <<"ls", 3>>>>, <<<<"zip", 9>>, <<"ls", 3>>>>}
MCInit ==
  /\ cast \in Casts /\ packages = cast.known /\ RowsInit(cast.stored)
  /\ symbols = {} /\ sources = {} /\ backtraces = {}
  /\ problems = {q1} /\ problemOf = [r \in reports |-> {q1}]
  /\ \E list \in IF cast.fixers = {} THEN {<<>>} ELSE Lists : koji = [r \in Range(Releases) |-> IF r = "f30" THEN list ELSE <<>>]
  /\ fixes = <<>> /\ builds = <<>> /\ fixer = [x \in Fixer |-> NoFixer] /\ undisturbed = {} /\ settled = {}
  /\ InboxInit /\ AttachInit /\ BeatInit

Spend(what) == cast[what] > 0 /\ cast' = [cast EXCEPT ![what] = @ - 1]
MCSave ==
  \/ (\E p \in cast.savers, u \in cast.ureports : Begin(p, u)) /\ Spend("saves") /\ UNCHANGED frameVars
  \/ Run /\ UNCHANGED cast
  \/ (\E m \in Matcher : MatchStart(m)) /\ Spend("matches") /\ UNCHANGED frameVars
  \/ AddPackage("k") /\ Spend("adds") /\ UNCHANGED frameVars
MCFix ==
  \/ (\E x \in cast.fixers, o \in Option, auto \in BOOLEAN : FixStart(x, o[1], o[2], auto)) /\ Spend("marks")
  \/ (\E x \in cast.fixers : FixStep(x)) /\ UNCHANGED cast
  \/ /\ \/ \E q \in Problem, r \in reports : AssignProblem(q, r)
        \/ \E q \in Problem : RemoveProblem(q)
        \/ \E b \in NewBuilds : NewBuild(b[1], b[2])
     /\ Spend("changes")

MCServe ==
  \/ (\E r \in cast.requests : RequestStep(r) \/ \E b \in cast.uploads : Receive(r, b)) /\ UNCHANGED cast
  \/ (\E c \in cast.cleaners : CleanText(c) \/ CleanRows(c)) /\ UNCHANGED cast
  \/ (\E c \in cast.cleaners : CleanKilled(c) \/ \E old \in BOOLEAN : CleanStart(c, old)) /\ Spend("cleans")
  \/ cast.requests # {} /\ (\E r \in DOMAIN invalids : invalids[r] = "new") /\ Age /\ UNCHANGED cast
MCFileAway ==
  \/ (\E t \in cast.attachers : AttachStart(t)) /\ Spend("runs")
  \/ ((\E t \in cast.attachers : AttachStep(t)) \/ \E a \in cast.files : Attach(a)) /\ UNCHANGED cast
  \/ (\E t \in cast.attachers : AttachKilled(t)) /\ Spend("kills")
  \/ (\E e \in {"e", "f"} : EraseContact(e)) /\ Spend("erases")
\* beat may be killed as often as the cast says, and rows edited.
MCBeat ==
  /\ cast.tasks # {}
  /\ \/ (StartBeat \/ Refresh \/ (\E t \in cast.tasks : Send(t) \/ AddTask(t)) \/ (\E stop \in BOOLEAN : Sync(stop)) \/ Tick) /\ UNCHANGED cast
     \/ KillBeat /\ Spend("ends")
     \/ (\E t \in cast.tasks : EditTask(t) \/ DeleteTask(t)) /\ Spend("edits")

MCNext ==
  \/ MCSave /\ UNCHANGED <<fixVars, webVars>> /\ Watch
  \/ MCFix /\ UNCHANGED webVars /\ Watch
  \/ MCServe /\ UNCHANGED <<attachVars, beatVars, watchVars>>
  \/ MCFileAway /\ UNCHANGED <<beatVars, watchVars>>
  \/ MCBeat /\ UNCHANGED <<serverVars, fixVars, inboxVars, attachVars, watchVars>>
MCSpec == MCInit /\ [][MCNext]_<<vars, cast>>
==============================================================================

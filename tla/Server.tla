-------------------------------- MODULE Server --------------------------------
(***************************************************************************)
(* uReports of all problem types being uploaded and saved, packages        *)
(* becoming known and matched, problems marked as probably fixed,          *)
(* attachments of reports saved and periodic tasks sent, on one database.  *)
(***************************************************************************)
EXTENDS Attachments, Beat

CONSTANTS
  UReport,  \* the uReports that come in
  Option,   \* <<systems, releases>> that mark-probably-fixed is run with
  NewBuilds \* <<release, build>> that koji may get

\* What the elements of a uReport are.
ASSUME UReportAssumption ==
  \A u \in UReport :
    /\ {"type", "os", "release", "packages", "desktop", "executable", "threads"} \subseteq DOMAIN u
    /\ u.packages \in Seq((DOMAIN BuildOf) \X STRING) /\ u.desktop \in Seq(STRING) /\ Len(u.desktop) <= 1
\* The frames of a uReport as the checkers of the problem types let them pass:
\* only the first thread of some types is one, addresses have 64 bits, and the
\* version of a kernel is no build id.
ReportedFrame ==
  [fn : SUBSET STRING, path : SUBSET STRING, at : SUBSET Nat, build : SUBSET STRING, print : SUBSET STRING, mark : STRING]
ASSUME FramesAssumption ==
  \A u \in UReport :
    /\ {"version", "oops"} \subseteq DOMAIN u /\ u.type \in Scripted \cup {"core", "kerneloops"}
    /\ u.threads \in Seq([crash : BOOLEAN, frames : Seq(ReportedFrame)])
    /\ u.type \in {"python", "ruby", "kerneloops"} => Len(u.threads) = 1
    /\ \A at \in Positions(u) :
         LET f == FrameAt(u, at) IN
         /\ \A m, n \in f.fn : m = n
         /\ f.mark = "special" => u.type \in {"python", "ruby"}
         /\ u.type = "kerneloops" => \A a \in f.at : a < 2 * Half
         /\ u.type = "core" => \A v \in UReport : v.type = "kerneloops" => v.version \notin f.build
ASSUME NewBuildsAssumption == NewBuilds \subseteq Range(Releases) \X (STRING \X Nat)

VARIABLES
  undisturbed,  \* runs of mark-probably-fixed whose inputs did not change
  settled       \* releases for which such a run wrote its fixes last

watchVars == <<undisturbed, settled>>
vars == <<serverVars, fixVars, inboxVars, attachVars, beatVars, watchVars>>
webVars == <<inboxVars, attachVars, beatVars>>

Init ==
  /\ packages = {} /\ RowsInit({})
  /\ symbols = {} /\ sources = {} /\ backtraces = {}
  /\ problems = {} /\ problemOf = <<>> /\ FixInit /\ undisturbed = {} /\ settled = {}
  /\ InboxInit /\ AttachInit /\ BeatInit

\* What the last run that nobody disturbed has settled.  A run that began with
\* other inputs spoils what it writes for those that are at work on it.
Starting(x) == fixer[x].pc = "idle" /\ fixer'[x].pc # "idle"
Wrote(x) == fixer[x].pend # <<>> /\ fixer'[x].pend = <<>>
Done(x) == fixer[x].pc = "problem" /\ fixer'[x].pc = "release"
At(x) == IF fixer[x].pc = "problem" THEN {Head(fixer[x].tasks)} ELSE {}
Watch ==
  LET spoiled == UNION {At(x) : x \in {x \in Fixer \ undisturbed : Wrote(x)}}
  IN IF FixInputs' # FixInputs THEN undisturbed' = {} /\ settled' = {}
     ELSE /\ undisturbed' = {x \in undisturbed : At(x) \cap spoiled = {}} \cup {x \in Fixer : Starting(x)}
          /\ settled' = (settled \ spoiled) \cup UNION {At(x) : x \in {x \in undisturbed : Done(x)}}

-----------------------------------------------------------------------------
Run ==
  \/ \E p \in Saver : SaverStep(p)
  \/ (\E m \in Matcher : MatchNext(m) \/ MatchFlush(m)) /\ UNCHANGED frameVars
Incoming ==
  /\ \/ \E p \in Saver, u \in UReport : Begin(p, u)
     \/ \E m \in Matcher : MatchStart(m)
     \/ \E k \in DOMAIN BuildOf \ Foreign : AddPackage(k)
  /\ UNCHANGED frameVars
Mark ==
  \/ \E x \in Fixer, o \in Option, auto \in BOOLEAN : FixStart(x, o[1], o[2], auto)
  \/ \E x \in Fixer : FixStep(x)
  \/ (\E q \in Problem, r \in reports : AssignProblem(q, r)) \/ (\E q \in Problem : RemoveProblem(q))
  \/ \E b \in NewBuilds : NewBuild(b[1], b[2])

Serve ==
  \/ \E r \in Request : RequestStep(r) \/ \E b \in Upload : Receive(r, b)
  \/ \E c \in Cleaner : CleanerStep(c) \/ \E old \in BOOLEAN : CleanStart(c, old)
  \/ Age
FileAway ==
  \/ \E t \in Attacher : AttachStart(t) \/ AttachStep(t) \/ AttachKilled(t)
  \/ (\E a \in Attachment : Attach(a)) \/ \E a \in Attachment : EraseContact(Says[a].data)

Next ==
  \/ Run /\ UNCHANGED <<fixVars, webVars>> /\ Watch
  \/ Incoming /\ UNCHANGED <<fixVars, webVars>> /\ Watch
  \/ Mark /\ UNCHANGED webVars /\ Watch
  \/ Serve /\ UNCHANGED <<attachVars, beatVars, watchVars>>
  \/ FileAway /\ UNCHANGED <<beatVars, watchVars>>
  \/ BeatNext /\ UNCHANGED <<serverVars, fixVars, inboxVars, attachVars, watchVars>>
Spec == Init /\ [][Next]_vars

-----------------------------------------------------------------------------
\* The frames of a backtrace that are stored for a position in its uReport.
FiledAs(b, at) ==
  {k \in DOMAIN b.threads : b.threads[k].thread = at[1] /\ b.threads[k].order = Order(b.of.type, at[2])}
\* The functions that are known at the place of a source, as they are read.
ReadNames(row) == {IF s = {} THEN {"??"} ELSE {Only(s)[1].fn} : s \in NamesAt(row)}
ReadsAs(type, row, said) ==
  LET read == ReadBack(type, row) IN
  /\ read.at = IF said.at = {} THEN 0 ELSE Only(said.at)
  /\ read.special <=> said.mark = "special"
  /\ \/ read.fn = IF said.fn = {} THEN {"??"} ELSE said.fn
     \/ type \notin Scripted /\ read.fn \in ReadNames(row)

\* What is read back of a stored backtrace are the functions, lines and addresses
\* that its uReport said, each at its position and nothing else; only where core
\* and kerneloops know a source by its place alone, it may be the function that
\* somebody else reported there (save_ureport and db_report_to_satyr of all
\* problem types).
FramesAsReported ==
  \A b \in backtraces :
    /\ \A k \in DOMAIN b.threads : \E at \in Said(b.of) : k \in FiledAs(b, at)
    /\ \A at \in Said(b.of) : \E k \in DOMAIN b.threads :
         FiledAs(b, at) = {k} /\ ReadsAs(b.of.type, b.threads[k].row, FrameAt(b.of, at))

\* However packages become known and are matched meanwhile, the rows of an item
\* add up to the number of times that saved uReports listed it, unless two
\* processes had the report in hand at once (fedora.py and centos.py,
\* _save_packages; match_unknown_packages.py, run).
Tables(kind) == IF kind = "package" THEN {"known", "unknown"} ELSE {kind}
RowsOfItem(r, what) == {k \in DOMAIN rows : k[1] \in Tables(what[1]) /\ k[2] = r /\ k[3] = what[2]}
CountsKept ==
  \A r \in reports \ overlap, what \in {k[2] : k \in DOMAIN counted} :
    MapThenSumSet(LAMBDA k : rows[k], RowsOfItem(r, what)) = Count(counted, <<r, what>>)

\* The database refuses what one process alone writes only if the uReport lists
\* an item twice (save_ureport of the problem types, _save_packages).
RefusedOnlyIfShared ==
  \A x \in refused : x[1] => \E u \in x[2] : Cardinality(Range(u.packages)) < Len(u.packages)

\* After a run of mark-probably-fixed whose inputs nobody changed, and until they
\* change, each problem has in each release of the run the oldest build that
\* is newer than every affected package, and none where there is no such build
\* (mark_probably_fixed.py, run).
FixIsRight ==
  \A release \in settled \cap Range(Releases), q \in problems :
    /\ <<q, release>> \in DOMAIN fixes /\ fixes[<<q, release>>] = RightFix(q, release)
    /\ \A b \in fixes[<<q, release>>] : HasBuild(b)

\* The text of an invalid uReport is on disk if and only if its row is stored,
\* once its upload has been answered, unless invalid uReports were being deleted
\* meanwhile; and the rows of a system that nobody knows add up to the uploads
\* that named it, unless two of them counted it at once (webfaf/reports.py, new,
\* _save_invalid_ureport, _save_unknown_opsys; delete_invalid_ureports.py, run).
InboxAddsUp ==
  /\ \A r \in Request \ crossed :
       request[r].pc = "done" /\ (\A c \in Cleaner : cleaner[c].pc # "texts" \/ r \notin Matching(cleaner[c].old)) =>
         (r \in texts <=> r \in DOMAIN invalids)
  /\ \A os \in {k[1] : k \in DOMAIN strangers} \ crowded :
       MapThenSumSet(LAMBDA k : strangers[k], RowsOfSystem(os)) =
         Cardinality({r \in Request : request[r].pc = "done" /\ Stranger(Body(r)) /\ Body(r).u.os = os})

Filed(k, where) == {a \in Attachment : Key(a) = k /\ filed[a] \in where}
\* A comment is stored once for each file that said it, a URL once however many
\* did, and an address is linked to its report; what was deferred was already
\* linked, or it came before its report or met the deletion of its reporter's
\* data, which leaves no second row of the address behind; except where two
\* processes looked up the same thing or a file was processed again
\* (pyfaf/ureport.py, save_attachment; webfaf/user.py, delete_user_data).
AttachmentsKept ==
  /\ \A k \in DOMAIN notes :
       IF k[1] = "url" THEN notes[k] = 1 \/ k \in doubled
       ELSE \/ \E a \in again : Key(a) = k
            \/ notes[k] \in Cardinality(Filed(k, {"saved"})) .. Cardinality(Filed(k, {"saved", "incoming"}))
  /\ \A a \in {a \in Attachment : filed[a] # "none"} :
       /\ filed[a] = "saved" /\ Says[a].kind \in {"comment", "url"} => Key(a) \in DOMAIN notes
       /\ filed[a] = "saved" /\ Says[a].kind = "email" => a \in excused \/ ContactKept(a)
       /\ filed[a] = "deferred" /\ Says[a].kind \in Allowed => a \in excused \/ ContactKept(a)
       /\ Says[a].kind = "email" => About(a) \in doubled \/ Cardinality(ContactsOf(Says[a].data)) <= 1

-----------------------------------------------------------------------------
(* Invariants of the rows, of the runs that mark fixes, of refused flushes  *)
(* and of frames.                                                          *)

\* What one run writes for a problem in a release whose builds it has read.
Right(q, release) == FixOf(q, release, koji[release])

\* The shapes of what is at work, and that each row of a package has a build.
SaverFields == {"pc", "u", "report", "isNew", "left", "alone"}
SessionFields == {"held", "added", "symbols", "sources", "threads"}
MatcherFields == {"pc", "pairs", "first", "seen", "at", "alone"}

Built(k) == k[1] \in {"known", "unknown"} => k[3] \in DOMAIN BuildOf
Proper(item) == IF item[1] = "package" THEN item[2] \in DOMAIN BuildOf
                                       ELSE item[1] \notin {"known", "unknown"}
IsSeq(s) == s \in Seq(Range(s))

SaverRows(p) ==
  /\ DOMAIN saver[p] = SaverFields /\ DOMAIN session[p] = SessionFields
  /\ saver[p].pc = "rows" => IsSeq(saver[p].left) /\ \A e \in Range(saver[p].left) : Proper(e)
  /\ IsFiniteSet(DOMAIN session[p].held) /\ \A k \in DOMAIN session[p].held : Built(k)
  /\ IsSeq(session[p].added) /\ \A x \in Range(session[p].added) : Built(x[1])
MatcherRows(m) ==
  /\ DOMAIN matcher[m] = MatcherFields
  /\ \A q \in matcher[m].pairs \cup matcher[m].at : q[1] \in DOMAIN BuildOf
RowsInv ==
  /\ DOMAIN saver = Saver /\ DOMAIN session = Saver /\ DOMAIN matcher = Matcher
  /\ IsFiniteSet(DOMAIN rows) /\ \A k \in DOMAIN rows : Built(k)
  /\ \A p \in Saver : SaverRows(p)
  /\ \A m \in Matcher : MatcherRows(m)

FixerFields == {"pc", "auto", "tasks", "all", "left", "list", "pend", "add", "expired"}
Current(x) == Head(fixer[x].tasks)
\* What is stored for a problem in a release is what is right.
Fixed(row) == row \in DOMAIN fixes /\ fixes[row] = Right(row[1], row[2])
Buildable(S) == \A b \in S : HasBuild(b)
FixRow(q, release) == <<q, release>>

ABuild == STRING \X Nat
FixTypeOK ==
  /\ DOMAIN fixer = Fixer /\ koji \in [Range(Releases) -> Seq(ABuild)]
  /\ builds \in [DOMAIN builds -> Nat]

\* What a run is about to write is of the release that it is at, and the builds
\* that it names are stored or about to be.
PendingInv(x) ==
  /\ DOMAIN fixer[x] = FixerFields
  /\ IsSeq(fixer[x].add)
  /\ fixer[x].pc # "problem" => fixer[x].pend = <<>>
  /\ \A row \in DOMAIN fixer[x].pend :
       /\ row = <<row[1], Current(x)>>
       /\ \A b \in fixer[x].pend[row].fix : HasBuild(b) \/ b \in Range(fixer[x].add)

\* A run whose inputs did not change has settled the problems that it has left
\* behind, or it is about to.
UndisturbedInv(x) ==
  /\ fixer[x].pc \in {"release", "problem"} => fixer[x].all = problems
  /\ fixer[x].pc = "problem" =>
       /\ fixer[x].list = koji[Current(x)] /\ fixer[x].left \subseteq problems
       /\ \A q \in problems : \/ q \in fixer[x].left
                              \/ FixRow(q, Current(x)) \in DOMAIN fixer[x].pend
                              \/ Fixed(FixRow(q, Current(x))) /\ Buildable(fixes[FixRow(q, Current(x))])
       /\ \A row \in DOMAIN fixer[x].pend :
            /\ fixer[x].pend[row].fix = Right(row[1], row[2])
            /\ fixer[x].pend[row].was = <<fixer[x].pend[row].fix>> => Fixed(row)

SettledInv(release) ==
  \A q \in problems : Fixed(FixRow(q, release)) /\ Buildable(fixes[FixRow(q, release)])

FixInv ==
  /\ FixTypeOK
  /\ \A x \in Fixer : PendingInv(x)
  /\ undisturbed \subseteq Fixer
  /\ \A x \in undisturbed : UndisturbedInv(x)
  /\ \A release \in settled : SettledInv(release)

\* A uReport may list a package twice.
Repeats(u) == \E i, j \in DOMAIN u.packages : i # j /\ u.packages[i] = u.packages[j]
NoTwice(s) == \A i, j \in DOMAIN s : i # j => s[i] # s[j]
Triple(e) == e = <<e[1], e[2], e[3]>>
\* The key may be that of the row of the item.
IsOf(k, e) ==
  /\ k[3] = e[2] /\ k[4] = e[3]
  /\ k[1] = e[1] \/ (e[1] = "package" /\ k[1] \in {"known", "unknown"})

Working(p) == saver[p].pc \notin {"idle", "dead"}
\* Unless the uReport lists a package twice, no row is added twice.
Unrepeated(p) ==
  /\ \A i, j \in DOMAIN session[p].added : i # j => session[p].added[i][1] # session[p].added[j][1]
  /\ saver[p].pc = "rows" =>
       /\ NoTwice(saver[p].left) /\ \A e \in Range(saver[p].left) : Triple(e)
       /\ \A x \in Range(session[p].added), e \in Range(saver[p].left) : ~IsOf(x[1], e)
WorkInv(p, u, r) ==
  /\ saver[p].u = {u} /\ saver[p].report = {r} /\ IsSeq(u.packages)
  /\ \A x \in Range(session[p].added) : x[1][2] = r
  /\ Repeats(u) \/ Unrepeated(p)
  /\ IsSeq(session[p].symbols) /\ NoTwice(session[p].symbols) /\ IsSeq(session[p].sources)
  /\ \A i, j \in DOMAIN session[p].sources : i # j /\ session[p].sources[i].build # {} =>
       ~SamePlace(session[p].sources[i], session[p].sources[j])
  /\ u.type \in Scripted => \A x \in Range(session[p].sources) : x.build = {}
SaverInv(p) ==
  /\ ~Working(p) => session[p] = Clean
  /\ Working(p) => \E u, r : WorkInv(p, u, r)
\* What is pending in the session of a process that is alone is not stored.
AloneInv(p) ==
  Working(p) /\ saver[p].alone =>
    /\ AtWork = {p}
    /\ \A x \in Range(session[p].added) : x[1] \notin DOMAIN rows
    /\ DOMAIN session[p].held \subseteq DOMAIN rows
    /\ saver[p].isNew => saver[p].report \cap reports = {}
    /\ Range(session[p].symbols) \cap symbols = {}
    /\ \A x \in Range(session[p].sources) : x.build # {} => Stored(SamePlace, x) = {}
\* A run that is alone has read all rows.
RunInv(m) ==
  /\ matcher[m].at # {} => matcher[m].pc = "run"
  /\ \A q \in matcher[m].pairs \cup matcher[m].at : q[2][2] \in reports
  /\ matcher[m].pc = "run" /\ matcher[m].alone =>
       AtWork = {m} /\ (matcher[m].at # {} => DOMAIN rows \subseteq DOMAIN matcher[m].seen)
SharedInv ==
  /\ \A k \in DOMAIN rows : k[2] \in reports
  /\ \A p \in Saver : SaverInv(p) /\ AloneInv(p)
  /\ \A m \in Matcher : RunInv(m)
  /\ RefusedOnlyIfShared

\* What is known of a uReport that was begun.
Framed(u) == /\ IsSeq(u.threads) /\ \A t \in DOMAIN u.threads : IsSeq(u.threads[t].frames)

Types == Scripted \cup {"core", "kerneloops"}
OneThread == {"python", "ruby", "kerneloops"}
Versions == {v.version : v \in {v \in UReport : v.type = "kerneloops"}}
FrameOK(u, f) ==
  /\ \A m, n \in f.fn : m = n
  /\ f.mark = "special" => u.type \in {"python", "ruby"}
  /\ u.type # "core" => f.fn # {}
  /\ u.type = "core" => f.at # {} /\ f.build \cap Versions = {}
  /\ u.type = "kerneloops" => \A a \in f.at : a \in Nat /\ a < 2 * Half
Formed(u) ==
  /\ u.type \in Types /\ Framed(u)
  /\ u.type \in OneThread => Threads(u) \subseteq {1}
  /\ u.type = "kerneloops" => u.version \in Versions
  /\ \A at \in Positions(u) : FrameOK(u, FrameAt(u, at))

\* The source found by the key of the type.
Like(u, x, row) == IF u.type \in Scripted THEN SameScript(x, row) ELSE SamePlace(x, row)

\* What is stored for the positions in done, each once, is like what was said there.
EntryOf(u, at, e) == e.thread = at[1] /\ e.order = Order(u.type, at[2])
StoredAs(u, threads, done) ==
  /\ IsSeq(threads)
  /\ \A k \in DOMAIN threads : \E at \in done : EntryOf(u, at, threads[k])
  /\ \A at \in done : \E k \in DOMAIN threads :
       /\ \A j \in DOMAIN threads : EntryOf(u, at, threads[j]) <=> j = k
       /\ Like(u, threads[k].row, RowOf(u, FrameAt(u, at)))
Gathering(p) == saver[p].pc \in {"frames", "flush backtrace"}
GatherInv(p, u) ==
  /\ ~SaveFails(u)
  /\ IsSeq(saver[p].left) /\ NoTwice(saver[p].left) /\ Range(saver[p].left) \subseteq Positions(u)
  /\ saver[p].pc = "flush backtrace" => saver[p].left = <<>>
  /\ StoredAs(u, session[p].threads, Said(u) \ Range(saver[p].left))
  /\ \A k \in DOMAIN session[p].threads : session[p].threads[k].row \in sources \cup Range(session[p].sources)
  /\ IsSeq(session[p].sources)
  /\ \A x \in Range(session[p].sources) : \E at \in Said(u) : x = RowOf(u, FrameAt(u, at))
FrameInv(p) ==
  /\ Working(p) => \E u \in saver[p].u : saver[p].u = {u} /\ Formed(u)
  /\ ~Gathering(p) => session[p].sources = <<>> /\ session[p].threads = <<>>
  /\ Gathering(p) => \A u \in saver[p].u : GatherInv(p, u)
BackInv(b) ==
  /\ Formed(b.of) /\ ~SaveFails(b.of) /\ StoredAs(b.of, b.threads, Said(b.of))
  /\ \A k \in DOMAIN b.threads : b.threads[k].row \in sources
Witnessed(x) == \E b \in backtraces : \E at \in Said(b.of) : x = RowOf(b.of, FrameAt(b.of, at))
FramesInv ==
  /\ \A p \in Saver : FrameInv(p)
  /\ \A b \in backtraces : BackInv(b)
  /\ \A x \in sources : Witnessed(x)
==============================================================================

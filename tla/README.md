# A TLA+ verification project for FAF

FAF is the analytics server of ABRT. Client machines send it crash reports,
called *uReports*; FAF counts equal ones, groups similar ones into *problems*,
finds the packages and the debug symbols they need, and follows the bugs they
belong to. This directory holds TLA+ models of its parts, configurations that
check them with TLC on small instances, and proofs checked with TLAPS.

Paths are relative to the root of the repository; `actions/` stands for
`src/pyfaf/actions/`, and so on for the other packages of `pyfaf`.

## 1. Inventory

FAF is a set of short programs around a PostgreSQL database and a spool
directory: *actions* (`faf <name>`), started by cron (`container/Dockerfile:58-59`:
`save-reports` every five minutes, `create-problems` every five hours), by Celery,
or by hand, and the web application. They do not call each other. They meet in
the rows and files that one leaves for the next, and nothing keeps two of them,
or two runs of the same one, apart. That is where the hard behaviour is.

| part | state it keeps | operations | meets | what makes it correct |
|---|---|---|---|---|
| **save-reports** (`actions/save_reports.py`) | spool directories incoming, saved, deferred | list, load, validate, store, move | web upload and pull-reports fill incoming; archive-reports empties saved and deferred | saved iff counted, counted once, all files handled in the end |
| **save-reports --speedup** (same file) | lock files in incoming | lock, window of times, group, store with a count | older runs of itself | runs share no file |
| **uReport storage** (`ureport.py`, `storage/`, `problemtypes/kerneloops.py`) | reports, hashes, counts, lobs; the session of each process | `save_ureport2`, flush, `save_lob` | every run of save-reports | one report per hash, exact counts, every oops stored with its report |
| **thread clustering** (`actions/create_problems.py`) | `thread_map` | merge thread sets by function | create-problems | disjoint, connected, bounded clusters |
| **create-problems** (same file, `queries.py`) | problems, `Report.problem_id` | cluster, match to old problems, flush, delete empty ones; `--speedup` | save-reports, retrace, other runs | similar iff in one problem, ids kept where possible |
| **pull-reports** (`actions/pull_reports.py`) | `pull.pickle` | list, fetch, write, remember | masters, incoming | nothing skipped, nothing fetched twice |
| **archive-reports** (`actions/archive_reports.py`) | one archive per day; one temporary directory | map, untar, link, tar, rename, unlink | saved, deferred | nothing lost |
| **web upload** (`src/webfaf/reports.py`: `new`, `attach`; `actions/delete_invalid_ureports.py`) | files in incoming, invalid uReports, unknown systems | check, write, answer | save-reports | what is answered for is kept |
| **bugs of reports** (`src/webfaf/reports.py`: `associate_bug`, `dissociate_bug`; `actions/extfafclonebz.py`, `pull_associates.py`) | links of reports to bugs | download, link, clone | bug trackers | no link to a bug that is not stored |
| **bug trackers** (`bugtrackers/`, `actions/pull_abrt_bugs.py`, `update_bugs.py`) | bugs, comments, history, attachments, duplicates | download with retries, save | remote servers | duplicates resolved, nothing stored twice |
| **reposync** (`actions/reposync.py`, `repos/`, `faf_rpm.py`) | packages, builds, lob files | list, download, store | clean-up, retrace | a package row has its file |
| **clean-up** (`actions/cleanup_*.py`, `releasedel.py`) | the same | delete rows and files | reposync, retrace | nothing in use is deleted |
| **retrace** (`actions/retrace.py`, `retrace.py`, `retrace_remote.py`; `src/webfaf/blueprints/symbol_transfer.py`) | task queue, workers, symbols | unpack, resolve, save | clean-up, symbol transfer | each symbol resolved or marked, workers end |
| **mark-probably-fixed** (`actions/mark_probably_fixed.py`) | fix columns of problems | compare builds | reports, builds | fixed only by a newer build |
| **Celery** (`celery_tasks/`, `src/webfaf/blueprints/celery_tasks.py`) | periodic tasks and results in the database | schedule, run, keep the result | all actions | a due task is run once |
| **events** (`storage/events*.py`, `actions/fedmsg_notify.py`) | nothing | messages at powers of ten | storage | one message for each threshold |
| **formats** (`checker.py`, `problemtypes/`) | symbols, sources, frames | validate, hash, store frames, read them back | storage, retrace | a backtrace is read back as it was reported |
| **packages of reports** (`opsys/`, `actions/match_unknown_packages.py`) | counts of known and unknown packages | count, match | save-reports, reposync | counts add up |
| **attachments** (`ureport.py`: `save_attachment`; `src/webfaf/user.py`) | comments, URLs, addresses, bugs of reports | store, link, erase | save-reports, web | stored and linked iff saved |
| components, releases and builds; solution finders; administration; reading actions; web pages and users; plumbing | rows, one at a time | look up and change | the database | see `PROJECT.json` |

`PROJECT.json` lists every part with its files and status, and under `hazards`
the lines of the code where steps of two processes, a kill between two steps, a
half-failed operation or a stale value can do harm, each with the properties
that watch it.

## 2. Modules

| module | models | extends |
|---|---|---|
| `UReportStore` | tables, sessions and lobs: `ureport.py` (`save_ureport2`), `storage/__init__.py`, `generic_table.py`, `kerneloops.py` | |
| `SaveReports` | save-reports, one file at a time | `UReportStore` |
| `Intake` | what save-reports promises: the abstract specification | |
| `SpeedupSave` | save-reports `--speedup` | `UReportStore` |
| `ThreadClusters` | `_get_thread_map`, `_create_clusters` | |
| `CreateProblems` | the create-problems action | |
| `Spool` | the directories and their files | |
| `PullReports` | pull-reports | `Spool` |
| `ArchiveReports` | archive-reports | `Spool` |
| `MirrorSpool` | the composition of the last three with uploads and save-reports | `PullReports`, `ArchiveReports` |
| `PackageRepo` | tables of systems, builds and packages, and the files of packages | |
| `RepoSync` | reposync | `PackageRepo` |
| `CleanUp` | cleanup-packages, cleanup-unassigned, releasedel | `PackageRepo` |
| `Registry` | the actions that define systems, releases, components and repositories | `PackageRepo` |
| `Catalog` | the composition of the last three | `RepoSync`, `CleanUp`, `Registry` |
| `SymbolStore` | symbols, sources and frames of two sites | |
| `RetracePool` | retrace: tasks, threads, callbacks, one session | `SymbolStore` |
| `SymbolTransfer` | retrace-remote and the server it asks | `SymbolStore` |
| `Retracing` | the composition of the last two with save-reports and reposync | `RetracePool`, `SymbolTransfer` |
| `BugStore` | what trackers show and what the tables of bugs hold; deletions | |
| `Bugzilla` | the download of a bug, its duplicates and parts, with retries | `BugStore` |
| `Bugs` | pull-abrt-bugs, update-bugs, attach-centos-bugs, releasedel's bugs, attachments that name bugs, bugs associated on the web, and trackers and users | `Bugzilla` |
| `UReportFormats` | the five problem types: validation, hash, rows of frames, reading back | |
| `ReportRows` | counted rows of reports, unknown packages and their matching | `UReportFormats` |
| `Backtraces` | frames, symbols and sources as `save_ureport` stores them | `ReportRows` |
| `ProbableFix` | mark-probably-fixed | `Backtraces` |
| `Inbox` | uploads to the web application, invalid uReports and their deletion | `ProbableFix` |
| `Attachments` | comments, addresses and URLs of reports, erasure of user data | `Inbox` |
| `Beat` | the scheduler of periodic tasks | |
| `Server` | the composition of the last seven | `Attachments`, `Beat` |
| `MC...` | instances for TLC (`ThreadClusters` needs none) | the module they name |
| `SaveReportsProofs`, `SpeedupSaveProofs`, `CreateProblemsProofs`, `MirrorSpoolProofs`, `CatalogProofs`, `RetracingProofs`, `BugsProofs`, `ServerProofs` | theorems | the module they name, and `TLAPS`; `CreateProblemsProofs` extends `ThreadClusters`, too |

Where several processes work on one database the modules are built in layers:
a module of tables and the transactions on them, a module for each action that
works on them, and a composition. Every query, and every flush or commit, is a
step of its own, for that is where other processes come in between.

### Correspondence

*UReportStore.* A step of a process acts on its `session`, a record of the rows
it has created (`new`), the rows it has looked up and changed (`base` the value
as it was read, `added` what it adds) and whether a flush must fail (`clash`).
The session is opened with autoflush off and autocommit on
(`storage/__init__.py`), so queries see committed rows only, and `Flush` writes
all of it or nothing. `Report.count` is written as an absolute value, which is
why `base` is kept. A uReport is a hash, a release and a `Verdict`: the first
check of validation or storage that will object to it. Frames, packages and
texts do not matter beyond that. The counts of rows that are always written
together are one counter (`DetailCounter`).

*SaveReports.* `Start` lists incoming, `Load` opens the next file in name order,
`RecordOpsys` counts an unknown system, `LookUp`, `SaveRelease`, `SaveDetails`,
`Commit` and `PostFlush` are `save_ureport2` cut at its queries and at the
flush, `MoveToSaved` and `MoveToDeferred` the renames. Kernel oopses go through
`add_lob`, the memory of the plugin. `Submit` and `FinishWriting` are the web
application, which opens the file under its final name; `Crash` is a kill and
`Die` an exception other than `FafError`. After the last file `run` turns to the
attachments in the same session, so that what given-up saves have left in it may
still be written: `Finish`, `SaveAttachments`. `commits` is a history variable.

*SpeedupSave.* One `Saver` is one run with a lock file of its own. Times are in
ticks, `TicksPerSec` of them to a second, because the code compares lock times
after `int()` and file times exactly. `CreateLock`, `ListLocks`, `ExamineLock`
and `ListFiles` follow lines 201-239; `NextGroup` picks files of equal contents
and stores them with a count; `Terminate` is the signal handler, `Kill` leaves
the lock, `SaveAttachments` is as in `SaveReports`. With `Calm` no two runs begin in one second, a run makes its lock in
the second in which it began, and a file is written within a tick: without it
the lock scheme does not keep runs apart, which the code does not claim.

*ThreadClusters.* One step per iteration of the loops. What Python leaves open,
the order of functions equally often used and of sets of equal size, is a
choice. `fresh` tells threads whose set is still the `HashableSet` made for them,
which compares by address, from those with a `frozenset`.

*CreateProblems.* Every query and every flush is a step. The comparison of
backtraces is an equivalence on reports (`group`) that the environment chooses
and changes. `Init` has reports in any problems that earlier runs, under other
clusterings or killed half-way, may have left. `plan` is what the session holds
unflushed; a flush fails if it refers to a problem that another run deleted.

*Spool, PullReports, ArchiveReports, MirrorSpool.* Files are names with a date
in each directory; they are whole here (files still being written are in
`SaveReports`), and what save-reports does is one move. `Pickled` is what a pull
writes into `pull.pickle`: its own master's reports, and those of the others *as
it loaded them at the start*. A report is fetched (`GetReport`), written whole or
in part (`WriteReport`) and then remembered (`RememberReport`). `Interrupt` is an
exception or Ctrl-C at any of these steps, after which the `finally` clause saves
what is remembered; with a report in hand it is counted in `dropped`. `whole` has
the files that were written to their end. A run of archive-reports makes its map of paths
before it enters the temporary directory, so that paths may be gone by the time
they are linked, tarred or unlinked; `MayBeDead` are the links that then lead
nowhere. tar may fail at any file.

*PackageRepo, RepoSync, CleanUp, Registry.* A flush of the command line's
session commits, so each is one transaction; what refers to a row that is gone
is refused and ends the action. Package files are `whole`, in `part` (a transfer
that broke) or in `orphans` (without a row). `RepoSync` follows `run` package by package:
`FindBuild`, `AddBuild`, `FindBuildArch`, `AddBuildArch`, `FindLink`, `AddLink`, `FindPackage`, `AddPackage`,
`Download`, `StoreProvides`; `LinkSeen` and `AnyRelease` have the queries of lines 175
to 199 as they are, without the system in the join. Any error of the download of a new
package is caught (`GiveUp`), and those of `urlopen` and `save_lob` for a known one; another
ends the run (`Uncaught`). `buildArchs` has no rows taken out: those of a build that is
gone are not looked at. `CleanUp` reads its list
of builds first and deletes row by row; `BuildsOnlyOf` is the only guard for what
other releases share. `Registry` has the short actions: each reads, plans rows
to add, to delete and to rely on, and flushes once.

*SymbolStore, RetracePool, SymbolTransfer.* Threads of a pool share one session,
which nobody locks: what a task assigns is pending until the callback of *any*
task flushes, and a refused flush discards what all of them had. `late` and
`overlap` are ghosts: frames that came too late for a run, and sites where a writer
began while another was at work or had left work pending. A batch of retrace-remote is matched with its answers
by position.

*BugStore, Bugzilla, Bugs.* A stack of calls for each process: the
download of a bug calls the download of its duplicate, and the retry decorator
begins again from the top with what has been flushed. Items (CCs, changes,
attachments, comments) are added after the row of the bug; a user who is missing is stored
by a flush that takes along what the session holds by then (`SpillPart`). An attachment that
names a bug runs the same download. `SaveAttachments` of `Bugs` and `AttachStart`
of `Attachments` are the same loop over two kinds of files.

*UReportFormats.* For each problem type `Valid`, `Checked`, `Hash`, `Fails` (valid, and
hashing or storing raises all the same), `Row` and `Read`. `LibOf` is
`get_libname` (`common.py`). Error names, tainted flags, kernel modules and
`os.path.abspath` are left out: nothing here tells them apart.

*ReportRows, Backtraces, ProbableFix.* `Begin` is `save_ureport2` up to the plugins,
`Flush` its flush, which the unique keys may refuse (`RowsRefused`,
`FramesRefused`); the dictionaries `new_symbols` and `new_symbolsources` are the
pending sets of a process. In `match-unknown-packages` the pairs are read first
and merged one by one. `koji` is what the build system lists, newest first.

*Inbox.* One record for each request of the web application, cut at commits. An upload is
no JSON at all, a scalar, a list or string, or a dictionary (`form`); the handler of the failed
check raises for a scalar, and keeps the others as invalid uReports.
`SaveInvalid` commits the row, `ReadId` reads its id again, `SaveText` writes the
text; `FindSystem` and `CountSystem` are the read and the write of the count.
`IsKnown` is `is_known` with the known types of the configuration.

*Attachments.* `AttachLookUp` is what `save_attachment` reads, `AttachNote`,
`AttachContact` and `AttachLink` what it flushes. `Linked` has the ids exchanged, as
the call at `ureport.py:508` has. `excused`, `again` and `doubled` are ghosts that
tell which files met a mishap.

*Beat.* `entries` is the schedule in memory, `copies` the rows in the session of
beat, which a commit makes it forget, and `locked` the rows it has updated and not
committed, for which the web application waits. Time is counted in periods of
the tasks. The loop of Celery itself is not in this repository: any order of
refresh, send and sync is allowed.

## 3. Runs

All runs together take about twenty minutes with two workers; none takes more
than five.

| run | question | instance |
|---|---|---|
| `save_one` | Do spool and counts agree, and is `Intake` implemented, with saves given up half-way and one kill? | 1 process, 3 files, 3 report ids, 2 releases |
| `save_live` | Two overlapping processes, one kill: does every file leave incoming? | 2 processes, 2 files |
| `save_dedup` | *violation*: one report for each hash | 1 process, 2 files |
| `speedup_three` | Do overlapping runs share no file, with one stopped anywhere? | 3 runs, 1 file, 4 ticks in 2 seconds |
| `clusters_all` | Are the clusters right for all call graphs, limits and orders? | 4 threads, 3 functions, limits 2 to 4 |
| `create` | Does a run put any state in order, keep what is in order, and `--speedup` only add; is what overlapping runs leave repaired by the next? | 3 reports, 2 casts |
| `spool` | Is nothing lost between masters, spool and archives, and nothing fetched twice without a mishap or an exception before it was remembered? | 5 casts, of 2 pullers or archivers, one of a puller and 2 archivers |
| `spool_tar` | *violation*: merging keeps what is archived | as `spool` |
| `catalog` | Does an undisturbed reposync repair what others left; do files and rows agree; do clean-ups keep what others share? | 10 casts: 2 runs each of reposync, clean-up and administration, 3 releases of which two have one version, 3 repositories, 2 packages of one build |
| `retrace` | Are sources stored whole although tasks flush each other's work; does each answer reach its source? | 7 casts: 2 threads in one pool or 2 pools, 2 clients, 5 sources, of which 3 of libraries and 2 of kernels |
| `bugs` | Which stored bugs are complete, what is stored twice, when does an older state come back? | 9 casts: 2 processes, 3 bugs of Bugzilla and 2 of MantisBT, 8 parts |
| `server` | Is what is stored what was sent; do counts add up; are fixes right; is a task sent once? | 20 casts: 2 savers, 12 uReports of 5 types, a matcher, 2 fixers, 3 requests, 2 deletions, 2 attachers with 11 files, 2 tasks in 3 periods |

What the properties of the new runs allow, and why no more can be asked of the
code:

- `PulledAgainOnlyAfterMishap`: an exception between the download of a report and its entry
  in `known` (`pull_reports.py:142-159`) has the next pull download it once more.
- `DoneDaysArchived`: a report that was pulled again may get another date, and an
  overlapping run then archives it under that one.
- `CalmSyncComplete`: only after a run of reposync that met nobody, and for packages
  whose file is no broken transfer, which the code never replaces. `KeepsShared`
  is about packages; repositories of other releases *are* deleted by releasedel.
- `WholeUnlessFlushFailed` and `SoloNeverFails`: a refused flush drops the work of all
  tasks, and only a second process or thread gets a flush refused.
- `CompleteUnlessBroken`: a bug whose download broke after its row was flushed is
  never completed. `OnceUnlessShared`, `NeverBackUnlessShared`: without keys, two
  processes at one bug store parts twice and write older states over newer ones.
- `FramesAsReported`: core and kerneloops know a source by its place alone, so that it
  may bear the name that another report, of whatever type, gave it.
- `CountsKept`: except for reports that two processes had in hand at once.
- `FixIsRight`: until an input changes, after a run whose inputs did not.
- `InboxAddsUp`, `AttachmentsKept`: except for what met a deletion or a second process;
  and an address whose two ids are mirrored by another link.
- `SentOncePerDue`: except when beat ended before it committed the run.

Why these bounds:

- Two processes are enough for every race found here, which are all between a
  read and a write of one other process; `speedup_three` has three because the
  newest *older* lock is a choice among several. Three files let a process
  handle one file before, one during and one after a disturbance, and let two
  share a report while the third does not.
- One kill is enough to show what a kill does; properties that depend on kills
  count them (`CountedOncePerCrash`), so that more would only raise the bound.
- Four threads and three functions are the least with which a set of two can
  meet two others and exceed a limit; a limit of 4 does not matter, 2 matters
  at every merge.
- Three reports and two problems are the least for a merge, a split and a match
  that takes a problem from another cluster.
- Three periods of `Beat` are one before, one of and one after a restart.
- Compositions with all their processes are too big. Their `MC` modules choose a
  *cast* at the start of a history: processes, operations, data, and how many
  starts, changes and mishaps there may be. What is left out of a cast takes no
  step. Each cast brings together the actions that touch the same rows or files, and
  between them the casts of a run take every action.

Deadlock is checked in the runs of `SaveReports` and `MirrorSpool`, whose
processes can always be started again. It is not in the others: a clustering is
finished at some point, a run of `SpeedupSave` is started once, `CreateProblems` is
bounded by `MaxStarts` and the compositions by their casts.

Every property of a passing run has a mutant in `PROJECT.json`: a plausible bug
in one definition, with which TLC finds the property violated. Type invariants are
stated in the modules and proved where a module has proofs; they are no
properties of runs.

### Fairness

Only `save_live` needs it. `FairSpec` has weak fairness of `Start` (cron starts
the action every five minutes), of the steps of a process that runs, and of
`FinishWriting` (the web server writes a whole request). Nothing makes a client
send a file, and nobody has to be killed. One kind of uReport is left out of
this run, and has to be: one that passes validation and makes the storage raise
something other than `FafError` (verdict `unsafe`; `problemtypes/__init__.py:65` promises
that there is none, `problemtypes/core.py:315` and an address longer than its column,
`ureport.py:515`, are some). It ends every run that gets to it, and the files
after it stay. The other runs have it where it matters (`speedup_three`, `server`).

### Findings

1. `save_dedup`: a save given up at the architecture check leaves its new report in
   the session, and the next uReport with the hash makes another
   (`ureport.py:246`).
2. `spool_tar`: a failing tar is not noticed and its partial archive replaces the
   old one (`archive_reports.py:125`).

What the models have besides, because the code does it, and which no run states as
a violation:

- An oops refused by `save_lob` stays in `add_lob` and is handled again with the next
  report (`kerneloops.py:497`); overlapping runs lose counts (`ureport.py:322`); a
  cluster that did not fit is returned once per thread (`create_problems.py:155`).
- reposync looks for releases and links without the system (`reposync.py:175-199`), cannot
  replace a truncated file, and ends when metadata cannot be fetched.
- releasedel deletes repositories that other releases use, and opsysdel fails for
  a system with components.
- `return 0` inside the loop over problem types makes retrace skip the others
  (`actions/retrace.py:126`); frames saved after their source was retraced never get
  inlined ones; the plugin of kerneloops keeps its map of kernels for the life of
  a Celery worker (`kerneloops.py:535`; runs begin afresh in the model).
- A bug that duplicates one already stored is not linked to it (`bugzilla.py:367-375`); dissociating
  a bug may delete the link of another (`queries.py:1109`); a repeated
  attachment of a MantisBT issue ends save-reports (`ureport.py:462`).
- A uReport that lists a package twice is refused at the flush and ends save-reports.
- `get_report_contact_email` is called with its ids exchanged (`ureport.py:508`).
- Attachments that come before their report are deferred, and nothing takes them
  up again.
- A client that gets 503 after its uReport was written sends it once more
  (`src/webfaf/reports.py:839`).
- beat ends when a periodic task is deleted whose row it has changed, or looks at
  after a commit.

## 4. Proofs

| theorem | module | says, for all values of the constants |
|---|---|---|
| `TypeCorrect` | `SaveReportsProofs`, `SpeedupSaveProofs`, `CreateProblemsProofs` (also `ClusterTypeCorrect`), `MirrorSpoolProofs`, `CatalogProofs` | the type invariant |
| `SavedWasCountedAlways` | `SaveReportsProofs` | no file is saved before it is counted, whatever overlaps or is killed |
| `CountedOncePerCrashAlways` | `SaveReportsProofs` | while runs do not overlap, a file is counted at most once more than there were kills |
| `DeferredNotCountedAlways` | `SaveReportsProofs` | while runs do not overlap and no oops exceeds its lob, a deferred file was not counted |
| `ImplementsIntakeAlways` | `SaveReportsProofs` | under the same conditions save-reports implements `Intake` |
| `OopsStoredAlways` | `SaveReportsProofs` | under the same conditions, and while nobody is killed, each kernel report that is stored has its oops |
| `ReportCountExactAlways` | `SaveReportsProofs` | while runs do not overlap, the counts of the reports add up to the commits of the files |
| `DisjointBatchesWhenCalm`, `CountedOncePerStopWhenCalm` | `SpeedupSaveProofs` | calm runs of `--speedup` never have a file in common; a file is counted at most once more than runs were stopped |
| `OneClusterPerThreadAlways`, `ClustersFitAlways`, `ClustersConnectedAlways` | `CreateProblemsProofs` | clusters are disjoint, bounded and connected |
| `ComponentsWhenUnlimitedAlways` | `CreateProblemsProofs` | without limits the clusters are the connected components |
| `TidyAfterRunAlways`, `StableWhenTidyAlways` | `CreateProblemsProofs` | an undisturbed run of create-problems puts in order whatever it finds, and changes nothing where all is in order |
| `AttachedAfterRunAlways`, `AttachOnlyAlways` | `CreateProblemsProofs` | an undisturbed run with `--speedup` leaves no report it read without a problem, and moves none |
| `NothingLostAlways` | `MirrorSpoolProofs` | every file received is in the spool, in an archive, or was left out by a failing tar |
| `KnownIsKeptAlways` | `MirrorSpoolProofs` | a report that will not be fetched again has been written, to its end |
| `PulledAgainAlways` | `MirrorSpoolProofs` | a report is fetched at most once more than pulls were killed, ran beside another, found a list unreadable, or were interrupted before they had remembered it |
| `DoneDaysArchivedAlways` | `MirrorSpoolProofs` | a process through with a day has put all it listed for it into that day's archive |
| `SyncComplete` | `CatalogProofs` | a run of reposync that nobody disturbed leaves each package it did not fail to fetch with its rows and its file |
| `Survival` | `CatalogProofs` | a process that has the database for itself is refused only for the three causes that the property names |
| `NoDuplicates`, `RowsOfFiles` | `CatalogProofs` | while processes have not overlapped, no name is stored twice, and a package file has its row unless its download failed |
| `SharedKept` | `CatalogProofs` | deleting a release keeps the packages of builds that other releases have |
| `AllAsked` | `RetracingProofs` | unless the sources changed between count and list, retrace-remote asks for each of them |
| `OwnAnswers` | `RetracingProofs` | if only servers retrace, the client has no symbol but one served for the same source |
| `Whole` | `RetracingProofs` | where no flush was refused, a source with a line number has its symbol and its inlined frames |
| `SoloFlushes` | `RetracingProofs` | no flush is refused at a site where no writer began while another was at work |
| `CompleteUnlessBrokenAlways` | `BugsProofs` | a stored bug has all its parts unless a save of it broke off or a deletion took parts away |
| `OnceUnlessSharedAlways` | `BugsProofs` | no CC and no change has two rows, but for the exceptions the property names |
| `NeverBackUnlessSharedAlways` | `BugsProofs` | a bug goes back to an older version only if two downloads held it at once |
| `BaseAlways` | `BugsProofs` | types, and that of the downloads a process is in only the innermost is past fetching its bug |
| `InboxAddsUpAlways` | `ServerProofs` | an answered upload has its row and its text or neither, and unknown systems are counted exactly |
| `AttachmentsKeptAlways` | `ServerProofs` | comments, URLs and addresses of attachments are stored once and linked, but for the exceptions the property names |
| `FixIsRightAlways` | `ServerProofs` | after an undisturbed run each problem has the probable fix that reports and builds call for |
| `CountsKeptAlways` | `ServerProofs` | the rows of an item of a report that no two processes had in hand at once add up to the times it was listed |
| `RefusedOnlyIfSharedAlways` | `ServerProofs` | a flush of a process alone at work is refused only if its uReport lists a package twice |
| `FramesAsReportedAlways` | `ServerProofs` | a stored backtrace reads, position by position, as its uReport said, or with a function another uReport had at the same place |
| `SentOncePerDueByServer` | `ServerProofs` | no periodic task is sent twice in a period unless beat ended before it committed the run |

They assume no more than the `ASSUME`s of the modules (sets of numbers, markers
outside the sets they extend, finite sets where cardinalities are used), which
TLC evaluates in every run, and what their statements add: that there is one
process (`OneSaver`) and, for `DeferredNotCountedAlways`, `OopsStoredAlways` and
`ImplementsIntakeAlways`, that no oops is too big; `ReportCountExactAlways`, which is about sums, that files and
reports are finitely many. With two processes, or with such an oops, they are
false. The two theorems on `--speedup` assume `Calm`; `OwnAnswers` that runs of
retrace are at the server; `InboxAddsUpAlways` finitely many requests,
`AttachmentsKeptAlways` finitely many attachments. `FixIsRightAlways` needs of the inputs only
what `BuildAssumption`, `UReportAssumption` and `NewBuildsAssumption` say: versions are
numbers, and packages bear a build. `RefusedOnlyIfSharedAlways` and
`CountsKeptAlways` need the same and that a uReport has one desktop at most, and
`ProcessAssumption`: no process is both save-reports and match-unknown-packages.
`FramesAsReportedAlways` needs `FramesAssumption`, which says what the checkers of the
problem types let through: one thread where the code stores only the first, addresses of
64 bits, and no kernel version that passes for a build id.

Most of the inductive invariants below that belong to `Server` close the modules they are
about, `Inbox`, `Attachments`, `Beat` and `Server`; the others, and the one of its counts,
stand with the proofs.

*SavedWasCounted* is not inductive: between the flush and the rename the file is
still in incoming, and what ties the two together is `pc`. The strengthening
says that a process about to keep a file has counted it. With one process the
stronger `CountInv` says that a file that is in incoming and not in work has
been counted at most `crashes` times, and one more only while it is between
flush and rename.

*DeferredNotCounted* needs to know that what was counted in some earlier run was
not refused later: a file once flushed has a verdict with which every later
save succeeds, because its report is committed (`CountedWasGood`; an unknown
component matters only to a new report). `DeferInv` adds what each step may rely
on (`StepInv`), that the session never replaces a committed report (`NewInv`),
so that the flush cannot fail, and that the lob in the plugin's memory will be
accepted (`LobInv`).

*Sums.* `ReportCountExact` compares two sums over sets, whose definition is recursive.
The first part of `SaveReportsProofs`, and of `ServerProofs` for the counts there, proves of
such sums what is needed, without induction: if a fact
fails for some finite set there is a least size at which it does, and taking away
any one element of such a set shows that it cannot. So the order of the elements does not
matter, one term changed by one changes the sum by one, and terms that are zero do
not count. The invariant says further that a session holds the counts as they are
committed (`CountsHeld`), which is what two processes break, and that the report in
work has the hash of the file (`HashKept`). *OopsStored* needs to know where the plugin's
memory stands: it is about the report in work, or about one just committed (`OopsInv`).

*Calm runs.* The times of a run's files lie between the newest lock that it saw and its own
beginning. In calm runs these intervals are apart (`CalmInv`): a lock is made in the
second of the beginning, no two runs begin in one second, an older run still at work
has its lock seen or still to be looked at, and a file that is complete is not
touched again. *CountedOncePerStop* adds that a file in incoming was counted only
by runs that were stopped, or is in a batch just flushed.

*OneClusterPerThread* says that `thread_map` is an equivalence. A thread set that
is visited may have been merged meanwhile, so the invariant adds that the sets
still to be visited are classes, apart from the cluster that grows
(`SetsAreClasses`, `SetsApart`, `ClusterOfClasses`). *ClustersConnected* rests on
a lemma on the union of two connected sets with a common function.
*ComponentsWhenUnlimited* is about what has been dealt with: when the limit cannot be
reached, every function but the one in work has its threads in one class, and of that
one each thread is in the growing cluster or in a set still to be visited
(`MergedInv`); nothing is left out of what is returned (`CollectInv`).

*TidyAfterRun* and its companions are about a run that nobody disturbed, of any number that
overlap before and after it. `BaseInv` holds whatever happens: types, and which part of a
session each stage has emptied. `QuietInv` follows an undisturbed run. It finds the
tables as it read and wrote them (`LoadedAll`), since a step of another process that
writes ends its quiet. Without `--speedup` each cluster waits for a problem or is planned
for one of its own (`Planned`), so that the flush, which numbers the new problems and
writes the reports whose problem differs from what the session knows, merges the
reports as they are clustered (`Merged`); `WriteEffect` says which problem a flush gives
to each report. That the reports whose problem was taken away at once
(`Unassign`) are those that the plan leaves out is what makes a flush that fails, or a kill
before it, lose problems, and an undisturbed run not. *StableWhenTidy* adds that, where
problems already are the clusters, each cluster is planned for the problem it has (`Kept`),
since it matches no other.
With `--speedup` a report to be attached has a problem, is in a cluster still to be looked
at, or is planned for a problem (`Attaching`).

*NothingLost* is about the moment of unlinking. A path is unlinked only if its
file is kept (`Unlinkable`); that follows from what the new archive has
(`Written`), which follows from what was linked: the paths that were there, and
the contents of the old archive as they were when it was unpacked (`Merged`).
That the archive has not changed since is `Owned`: who is inside the temporary
directory made it, so nobody else is. A path that is gone was archived or lost
to a tar already (`ListedFit`, `PathsListed`, `Fresh`).

*PulledAgain* is a count of debts. Each report has been pulled some number of times,
is asked for by some processes, and may be missing from `pull.pickle` when all of them
have ended (`Owed`); together that is at most one more than the mishaps and the exceptions with
the report in hand so far (`Excused`). What makes
a process ask for a report that another has, or leave one out of the file, is paid for by
the mishap that brought it about, or by the exception that came before the report was
remembered.

*DoneDaysArchived* goes beyond `NothingLost`: the archive has to be the right one. A file that was
downloaded once has one date for as long as it is in saved or deferred (`Dated`), so
whoever unlinked it has put it into the archive of that day; all that a process sees
of the others is that a path is gone.

*Catalog.* `TypeInv` has types and keys, and what each program counter implies for the local
variables. `SoloInv` ties the ghost `alone` to what it means: nobody else is at work.
The rest says what a process that is alone may rely on, action by action: reposync that the rows it
found are still there and that all it has dealt with is stored (`SyncCalm`), the clean-ups
that a build that is to go has no link but those being deleted and that what was
deleted is gone (`CleanCalm`), the administration that what it planned will be accepted
(`AdminCalm`). Each of these breaks as soon as another process takes a step, which is
why the theorems speak of calm runs. `HistoryInv` is what holds until the first overlap.

*Refinement.* `Intake` has a file's place, how often it was counted and how many
mishaps there were. `SaveReports` implements it with its directories mapped to
`place` (a file still being written is there), `commits` to `counted` and `crashes`
to `mishaps` (`Promised`, `ImplementsIntake`). That every step is one of `Intake` or
a stutter needs `CountInv` for `Count`, `SavedWasCounted` for `Accept` and `DeferInv` for
`Refuse`.

*SentOncePerDue* is about three copies of one time: in the schedule, in the session,
in the row. `BeatInv` says of a task that was sent in this period and not
forgotten that each of them that is there has this period (`Remembered`), and that a
row which is neither changed nor locked is as committed. `Sound` has what that
needs: only a running beat holds copies, what is changed or locked is held, and a
locked row cannot be deleted.

*Bugs.* The base (`BaseInv`) has types and the shape of the stack: all downloads of a
process but the innermost wait for a duplicate, so at most one of them is at saving
parts, and only that one has a session to flush. Steps are then sorted by what they do to the tables
(`StepKinds`), and each invariant is shown of six kinds of steps instead of thirty
actions. *NeverBackUnlessShared* is about what was fetched some calls ago: a download that holds
a version holds one the tracker had, and none older than the row, unless two held the bug at
once (`VersionInv`). When a row is written, whoever else holds the bug makes it
shared, be it another process or the same one further out on its stack (`HeldBeside`).
*OnceUnlessShared* adds that two that save parts of one bug have shared it, and that
what a session is about to write has no row yet (`PendingOK`): it was looked for before
the flush, and unless the bug is shared nobody else adds parts of it in between. *CompleteUnlessBroken* says of a save
at work that the kinds of parts it has been through have their rows and those of the kind
it is at are in its session (`SavedSoFar`). The row is current as soon as it is written, so a bug
that lacks parts has an entry in `broken`, and not only that of a save at work on another version
than the row's (`Stale`): only a save that ends with the version of the row clears entries,
and then all parts are there. The four invariants were checked by TLC on the run `bugs` first.

*InboxAddsUp* has two parts. Of texts and rows, `Settled` says that an answered
request has its text if it has its row, but for a deletion at work that will delete the
row: it has listed the text, or the text is gone. `TextInv` follows a request up to
that, and knows that one that met no deletion has none beside it. Of unknown systems,
`SystemInv` says that a system that no two requests counted at once has one row at
most, that its count is the number of the requests that were answered, and that the
request which is about to write has read this count.

*AttachmentsKept* relates the tables to where the files are, also while a process has one in
hand: a file about to be moved has what its place promises (`PlaceInv`), and a comment
has as many rows as files that said it are saved or about to be (`CommentInv`). One
that was not processed again is in the hands of one process, and still incoming
(`OnceInv`). Of whatever two processes did not look up at once, one at most
writes, and it is not there yet (`WriterInv`); so an address has one row, and the lookup
with its ids exchanged finds none that it should not.

*FixIsRight* compares what a run wrote with what is right now. `PendingInv` has what a run is
about to write: a row of its release, whose builds are stored or will be in the
same flush. `UndisturbedInv` says of a run whose inputs nobody changed that each problem
is still to be looked at, pending with the right fix, or done; `SettledInv` that this
holds of a settled release until something changes. That the fix computed
from the builds is the one that the property names (`FixOfRight`) needs greatest and least
elements of finite sets, which are had without induction from a least counterexample, and
that only finitely many rows are stored, each package with its build (`RowsInv`).

*RefusedOnlyIfShared* is about what a process has read and not yet written. Who is alone at
work stays so until another begins, and that ends `alone` (`AloneStays`); while it is alone,
what is pending in its session is not stored, and what it counts up is (`AloneInv`).
Whoever is alone or not, its session does not hold a row, a symbol or a source twice
(`WorkInv`), provided that the items of the uReport still to be counted differ from each
other and from those added: they do unless a package is listed twice (`ItemsDiffer`),
whichever of the two tables of packages each of them meets. A run of
match-unknown-packages that is alone has seen every row that there is (`RunInv`).

*CountsKept* is about three places where a count can be: in the tables, in a session that
has read a row and counts it up, and in what a run of match-unknown-packages has read. While
a process counts the items of its uReport the tables do not change for its report, for
whoever writes to it has it in hand, too (`Apart`). So what the tables will hold after its
flush (`Pending`) sums up to what was counted and the part of the items it has dealt
with (`PendInv`); and that is enough, for a flush that does not fit the tables
(`Fitting`) is refused whole. A package that becomes known between two items only decides
in which of the two tables its row is counted, and their sum is what is stated.
A run moves a count as it read it, which is as it is stored unless the report is
shared (`MatchInv`); that the row found and the row deleted are of one package keeps the
sum (`MovedCount`).

*FramesAsReported* is about positions. `FramesInv` says of a process that stores frames that
each position of its uReport that it has dealt with has exactly one entry in the session,
and that the source of the entry is found by the key of its type (`StoredAs`, `GatherInv`):
positions are dealt with in turn and each once (`TurnsOf`), and orders in tens do not
meet. It says the same of stored backtraces (`BackInv`), and that each stored source
is that of a frame some stored backtrace said (`Witnessed`): sources and backtrace are
flushed together or not at all. Reading then depends on the type. A script's key is all
that is read of it (`ReadScript`). The key of core and kerneloops leaves the function out, so
that they read that of the frame which brought the source (`ReadPlace`); of an oops
this always is a function, for only sources of core may lack one, and a build id of
core is no kernel version (`OopsNamed`). What is read has the shapes the checkers demand because
every uReport begun passed them (`BegunFormed`). TLC checked `FramesInv` on the run `server`
first.

*Retracing.* All four invariants of the run are proved. Their common base is `Shape`:
the shapes of tables, sessions, tasks and runs, that a thread that assigns is at one
source, and that a run has at most as many answers as its batch has sources. `AllAsked`
adds that what was taken is sent or in the batch; `OwnAnswers` that each answer was
served for the source at its position (`Given`). `Whole` adds that everything at work
is of sources that have rows (`KnownInv`), so that a frame that comes later is late, and
ties table, session and thread together (`WholeInv`): a thread about to assign the
line number has assigned the rest, in its session or, after the flush of another task,
in the tables; a session with a line number has the rest likewise. That is
why the order of the assignments matters. `SoloFlushes` says of a site without overlap
that one thread or one run is at work there, that what is pending is its own, and that
the tables lack it (`Alone`, `Fresh`).

Only model-checked: liveness (`EveryFileIsProcessed`), which is out of the prover's reach, as are `ENABLED`,
recursive operators and the library's induction theorems, which take an operator as a
parameter; and the two findings.

## 5. What is not modelled

- Reading pages and actions, solution finders, plumbing, logging in: they change
  nothing that others rely on. Events: nothing reads their messages.
- Conversion of uReports of version 1 (`ureport_compat.py`), tainted flags, kernel modules,
  selinux modes and error names; occurrence dates and components of problems; which
  desktop a count belongs to in `UReportStore`.
- Results of Celery tasks and their clean-up, forms of actions, periodic tasks
  that share a name; the loop of Celery itself.
- `extfafclonebz`, external instances, solution patterns, addcompathashes, init.
- Steps that are coarser than the code: the look-ups of a problem in `CreateProblems.LookUp`,
  one after another there; those for each answer in `SymbolTransfer.Receive`
  (`retrace_remote.py:92-126`); a bug and its history, which is a request of its own
  (`bugzilla.py:284`), in `Bugzilla.GetBug`; the parts of a bug in `Collect`, but for what
  `SpillPart` flushes early; the queries of releasedel in `CleanUp`, which also leaves out the
  problems and bugs it deletes (bugs are in `Bugs`). A flush of create-problems fails
  (`FlushFails`) for a problem that is gone and for no other reason.
- The temporary file of `pull.pickle`, which overlapping pulls share, and the rename that follows
  it, one step with it (`SaveKnown`); directories that
  failed downloads and unpacking leave behind.
- A web upload that is visible before it is complete is in `SaveReports` only;
  `Inbox` and `Attachments` write files in one step.
- Bugs associated on the web whose duplicates are not stored yet.
- Disks that are full, other than in tar, in transfers and pulls, and in a killed process.
- Threads of create-problems over one SQLAlchemy session: what a session does
  then is not defined.

## 6. Plan

1. Liveness of create-problems and archive-reports, and of the locks of `--speedup`
   with a clock that goes round.
2. Occurrence dates and components in `CreateProblems`; results of tasks in `Beat`.

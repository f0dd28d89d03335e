--------------------------------- MODULE Bugs ---------------------------------
(***************************************************************************)
(* What downloads, links and deletes bugs: pull-abrt-bugs, update-bugs,    *)
(* attach-centos-bugs, releasedel, the attachments that save-reports finds *)
(* in its spool, and the page where a maintainer associates a bug; with    *)
(* bug trackers that change and users who delete their data.               *)
(***************************************************************************)
EXTENDS Bugzilla

CONSTANTS Attachment,  \* files: <<report, bug, copy>>
          Doomed       \* the bugs of the release that releasedel deletes

ASSUME ActionAssumption == \A a \in Attachment : a[1] \in Report /\ a[2] \in Bug

VARIABLES job,   \* what each process does
          spool  \* attachment files: where they are

actionVars == <<job, spool>>

NoJob == [kind |-> "none", left |-> {}, step |-> "next", at |-> {}]

ActionTypeOK ==
  /\ \A w \in Worker : /\ job[w].kind \in {"none", "pull", "update", "attach", "centos", "delete"}
                       /\ job[w].kind = "none" => stack[w] = <<>>
  /\ \A a \in Attachment : spool[a] \in {"none", "incoming", "saved", "deferred"}

ActionInit == job = [w \in Worker |-> NoJob] /\ spool = [a \in Attachment |-> "none"]

Doing(w, kinds, step) == job[w].kind \in kinds /\ stack[w] = <<>> /\ job[w].step = step
Begin(w, kind, left) ==
  /\ job[w] = NoJob /\ left # {}
  /\ job' = [job EXCEPT ![w] = [NoJob EXCEPT !.kind = kind, !.left = left]]
  /\ UNCHANGED <<spool, storeVars, downloadVars>>
Rest(w) == job' = [job EXCEPT ![w] = NoJob]

-----------------------------------------------------------------------------
(* pull-abrt-bugs and update-bugs. *)

PullBugs(w, listed) == listed \subseteq Bug /\ Begin(w, "pull", listed)
UpdateBugs(w) == Begin(w, "update", Stored)

\* An exception ends a pull, and is only logged by an update.
Ended(w) == job[w].left = {} \/ (raised[w] /\ job[w].kind = "pull")
NextBug(w) ==
  /\ Doing(w, {"pull", "update"}, "next") /\ ~Ended(w)
  /\ \E b \in job[w].left : Call(w, b) /\ job' = [job EXCEPT ![w].left = @ \ {b}]
  /\ UNCHANGED <<spool, storeVars>>
EndBugs(w) ==
  /\ Doing(w, {"pull", "update"}, "next") /\ Ended(w) /\ Rest(w)
  /\ result' = [result EXCEPT ![w] = {}] /\ raised' = [raised EXCEPT ![w] = FALSE]
  /\ UNCHANGED <<spool, storeVars, stack>>

-----------------------------------------------------------------------------
(* save-reports, attachments; attach-centos-bugs. *)

Upload(a) == /\ spool[a] = "none" /\ spool' = [spool EXCEPT ![a] = "incoming"]
             /\ UNCHANGED <<job, storeVars, downloadVars>>

SaveAttachments(w) == Begin(w, "attach", {a \in Attachment : spool[a] = "incoming"})
AttachCentosBugs(w, pairs) == pairs \subseteq Report \X Mantis /\ Begin(w, "centos", pairs)

MoveTo(w, dir) == spool' = IF job[w].kind = "attach" THEN [a \in Attachment |-> IF a \in job[w].at THEN dir ELSE spool[a]]
                                                     ELSE spool
Proceed(w) == job' = [job EXCEPT ![w].step = "next", ![w].at = {}]

\* The link is looked for by the number of the bug, which in MantisBT is not
\* the id that the link has.
FoundLink(w, a) == <<a[1], a[2]>> \in links /\ (a[2] \in Mantis => job[w].kind = "centos")

NextPair(w) ==
  /\ Doing(w, {"attach", "centos"}, "next")
  /\ \E a \in job[w].left :
       /\ job' = [job EXCEPT ![w].left = @ \ {a}, ![w].at = {a},
                             ![w].step = IF FoundLink(w, a) THEN "done" ELSE "link"]
       /\ IF FoundLink(w, a) \/ a[2] \in Stored
          THEN result' = [result EXCEPT ![w] = {a[2]}] /\ UNCHANGED <<stack, raised>>
          ELSE Call(w, a[2])
  /\ UNCHANGED <<spool, storeVars>>
SkipLinked(w) ==
  /\ Doing(w, {"attach", "centos"}, "done") /\ MoveTo(w, "saved") /\ Proceed(w)
  /\ UNCHANGED <<storeVars, downloadVars>>
\* A link that is there by now, or always was, ends the run, and so does an
\* exception that is not faf's own.  A bug that could not be had is forgotten.
LinkBug(w) ==
  /\ Doing(w, {"attach", "centos"}, "link") /\ ~raised[w]
  /\ \E a \in job[w].at :
       IF result[w] = {} THEN MoveTo(w, "saved") /\ Proceed(w) /\ UNCHANGED links
       ELSE IF <<a[1], a[2]>> \in links \/ a[2] \notin Stored THEN Rest(w) /\ UNCHANGED <<links, spool>>
       ELSE links' = links \cup {<<a[1], a[2]>>} /\ MoveTo(w, "saved") /\ Proceed(w)
  /\ UNCHANGED <<remote, supported, bugs, rows, users, broken, erased, shared, downloadVars>>
NotDownloaded(w) ==
  /\ Doing(w, {"attach", "centos"}, "link") /\ raised[w]
  /\ raised' = [raised EXCEPT ![w] = FALSE]
  /\ \/ Rest(w) /\ UNCHANGED spool
     \/ job[w].kind = "attach" /\ MoveTo(w, "deferred") /\ Proceed(w)
  /\ UNCHANGED <<storeVars, stack, result>>
EndPairs(w) ==
  /\ Doing(w, {"attach", "centos"}, "next") /\ job[w].left = {} /\ Rest(w)
  /\ UNCHANGED <<spool, storeVars, downloadVars>>

-----------------------------------------------------------------------------
(* releasedel: the bugs of a release, then the release. *)

DeleteRelease(w) == Doomed \subseteq supported /\ Begin(w, "delete", Doomed \cap Stored)

DeleteOrder == <<"dups", "comment", "cc", "history", "attachment", "links", "bug">>
After(step) == LET n == CHOOSE n \in 1 .. 7 : DeleteOrder[n] = step IN DeleteOrder[n + 1]

NextDeletion(w) ==
  /\ Doing(w, {"delete"}, "next")
  /\ \E b \in job[w].left : job' = [job EXCEPT ![w].at = {b}, ![w].left = @ \ {b}, ![w].step = "dups"]
  /\ UNCHANGED <<spool, storeVars, downloadVars>>
Deletes(w, step) == job[w].kind = "delete" /\ job[w].step = step
GoOn(w, step) == job' = [job EXCEPT ![w].step = After(step)]

ForgetDuplicates(w) ==
  /\ Deletes(w, "dups") /\ GoOn(w, "dups")
  /\ bugs' = [c \in Stored |-> [bugs[c] EXCEPT !.dup = @ \ job[w].at]]
  /\ UNCHANGED <<spool, remote, supported, rows, users, links, broken, erased, shared, downloadVars>>
\* The attachments only go when no comment refers to them.
DeleteParts(w) ==
  /\ \E kind \in Kind :
       LET gone == {r \in rows : BugOf[r.item] \in job[w].at /\ KindOf[r.item] = kind} IN
       /\ Deletes(w, kind)
       /\ IF \E r \in rows \ gone : r.about \cap {q.item : q \in gone} # {}
          THEN Rest(w) /\ UNCHANGED <<rows, erased>>
          ELSE /\ GoOn(w, kind) /\ rows' = rows \ gone
               /\ erased' = IF gone = {} THEN erased ELSE erased \cup job[w].at
  /\ UNCHANGED <<spool, remote, supported, bugs, users, links, broken, shared, downloadVars>>
DeleteLinks(w) ==
  /\ Deletes(w, "links") /\ GoOn(w, "links")
  /\ links' = {l \in links : l[2] \notin job[w].at}
  /\ UNCHANGED <<spool, remote, supported, bugs, rows, users, broken, erased, shared, downloadVars>>
\* What another process has stored since ends the run.
InUse(b) == RowsOf(b) # {} \/ (\E l \in links : l[2] = b) \/ \E c \in Stored \ {b} : b \in bugs[c].dup
DeleteBug(w) ==
  /\ Deletes(w, "bug")
  /\ \E b \in job[w].at :
       IF InUse(b) THEN Rest(w) /\ UNCHANGED <<bugs, broken>>
       ELSE /\ job' = [job EXCEPT ![w].step = "next", ![w].at = {}]
            /\ bugs' = [c \in Stored \ {b} |-> bugs[c]]
            /\ broken' = {x \in broken : x[1] # b}
  /\ UNCHANGED <<spool, remote, supported, rows, users, links, erased, shared, downloadVars>>
\* The release goes last, unless bugs of it have come.
EndDeletion(w) ==
  /\ Doing(w, {"delete"}, "next") /\ job[w].left = {} /\ Rest(w)
  /\ supported' = IF Stored \cap Doomed = {} THEN supported \ Doomed ELSE supported
  /\ UNCHANGED <<spool, remote, bugs, rows, users, links, broken, erased, shared, downloadVars>>

DeletionStep(w) ==
  \/ NextDeletion(w) \/ ForgetDuplicates(w) \/ DeleteParts(w) \/ DeleteLinks(w) \/ DeleteBug(w)
  \/ EndDeletion(w)

-----------------------------------------------------------------------------
(* The web application: one transaction for a request. *)

\* "Already associated" is said of any Bugzilla bug of the report, and never of
\* one in MantisBT, whose id is not its number; a link that is there is refused.
Associated(report, b) ==
  \/ <<report, b>> \in links
  \/ b \notin Mantis /\ \E l \in links : l[1] = report /\ l[2] \notin Mantis

AssociateStored(report, b) ==
  /\ b \in Stored /\ ~Associated(report, b) /\ (b \in Mantis => UpToDate(b))
  /\ links' = links \cup {<<report, b>>}
  /\ UNCHANGED <<remote, supported, bugs, rows, users, broken, erased, shared, downloadVars, actionVars>>

\* A bug in MantisBT is always downloaded.
AssociateIssue(report, b) ==
  /\ b \in supported \cap Mantis /\ ~Associated(report, b) /\ ~UpToDate(b) /\ remote[b].dup \subseteq Stored
  /\ bugs' = Put(bugs, b, [version |-> remote[b].version, dup |-> {}, creator |-> Anonymous])
  /\ links' = links \cup {<<report, b>>}
  /\ shared' = IF Holders(b) # {} THEN shared \cup {b} ELSE shared
  /\ UNCHANGED <<remote, supported, rows, users, broken, erased, downloadVars, actionVars>>

\* The bug is downloaded in the same transaction.  If a request fails for its
\* parts, the second attempt finds it up to date, and what is there is kept.
AssociateNew(report, b) ==
  /\ b \in supported \ (Stored \cup Mantis) /\ CreatorOf[b] \notin Hidden
  /\ remote[b].dup \subseteq Stored
  /\ \E kinds \in {{}, {"cc"}, {"cc", "history"}, Kind} :
       LET parts == {i \in ItemsOf(b) : KindOf[i] \in kinds \cap SavedKinds /\ Known(i) /\ ~Has(i)} IN
       /\ rows' = rows \cup {Row(i, AuthorOf[i], <<"web", remote[b].version>>, AboutOf[i] \cap parts) : i \in parts}
       /\ users' = users \cup {CreatorOf[b]} \cup {AuthorOf[i] : i \in parts}
       /\ broken' = IF SavedKinds \subseteq kinds THEN broken ELSE broken \cup {<<b, "web">>}
  /\ bugs' = Put(bugs, b, [version |-> remote[b].version, dup |-> {}, creator |-> CreatorOf[b]])
  /\ links' = links \cup {<<report, b>>}
  /\ shared' = IF Holders(b) # {} THEN shared \cup {b} ELSE shared
  /\ UNCHANGED <<remote, supported, erased, downloadVars, actionVars>>

Kill(w) ==
  /\ job[w] # NoJob /\ Rest(w)
  /\ stack' = [stack EXCEPT ![w] = <<>>] /\ result' = [result EXCEPT ![w] = {}]
  /\ raised' = [raised EXCEPT ![w] = FALSE]
  /\ UNCHANGED <<spool, storeVars>>

ActionStep(w) ==
  \/ NextBug(w) \/ EndBugs(w) \/ NextPair(w) \/ SkipLinked(w) \/ LinkBug(w) \/ NotDownloaded(w) \/ EndPairs(w)

vars == <<storeVars, downloadVars, actionVars>>

Init == StoreInit /\ DownloadInit /\ ActionInit

Outside ==
  \/ /\ \E b \in Bug : RemoteChange(b) \/ \E c \in Bug : RemoteDuplicate(b, c)
     /\ UNCHANGED <<downloadVars, actionVars>>
  \/ \E a \in Attachment : Upload(a)
Web ==
  \/ \E r \in Report, b \in Bug : AssociateStored(r, b) \/ AssociateIssue(r, b) \/ AssociateNew(r, b)
  \/ /\ (\E r \in Report, b \in Bug : Dissociate(r, b)) \/ \E u \in User : EraseUser(u)
     /\ UNCHANGED <<downloadVars, actionVars>>
Start(w) ==
  \/ \E s \in SUBSET Bug : PullBugs(w, s)
  \/ UpdateBugs(w) \/ SaveAttachments(w) \/ DeleteRelease(w)
  \/ \E s \in SUBSET (Report \X Mantis) : AttachCentosBugs(w, s)
Mishap(w) == (RequestFails(w) /\ UNCHANGED actionVars) \/ Kill(w)
Run(w) == (DownloadStep(w) /\ UNCHANGED actionVars) \/ ActionStep(w) \/ DeletionStep(w)

Next == Outside \/ Web \/ \E w \in Worker : Start(w) \/ Mishap(w) \/ Run(w)

Spec == Init /\ [][Next]_vars

TypeOK == StoreTypeOK /\ DownloadTypeOK /\ ActionTypeOK

-----------------------------------------------------------------------------
\* A change made to several bugs at once is stored for one of them only.
Several(i) == \E j \in Item \ {i} : ChangeOf[j] = ChangeOf[i] /\ AuthorOf[j] = AuthorOf[i] /\ KindOf[j] = KindOf[i]
Expected(b) ==
  {i \in Item : /\ BugOf[i] = b /\ SinceOf[i] <= bugs[b].version /\ KindOf[i] \in SavedKinds
                /\ AuthorOf[i] \notin Hidden /\ ~(KindOf[i] = "history" /\ Several(i))}

\* A bug whose row says it is current is never looked at again, so it should
\* have all its parts; it has, whatever the order of processes, unless a save
\* of it broke off after the row, or parts were deleted since (bugzilla.py,
\* _save_bug, where the row is flushed before the parts).
CompleteUnlessBroken ==
  \A b \in Stored \ erased :
    (\A x \in broken : x[1] # b) => \A i \in Expected(b) : \E r \in rows : r.item = i

\* No CC and no change is stored twice, unless two processes wrote the bug at
\* once, which only attachments and comments have a key against, its author
\* deleted his data, or it is a change that was cut (bugzilla.py, _save_ccs,
\* _save_history).
OnceUnlessShared ==
  \A r, q \in rows : r # q /\ r.item = q.item =>
    BugOf[r.item] \in shared \/ r.item \in Long \/ Anonymous \in {r.user, q.user}

\* The row of a bug goes back to an older version only if the bug was looked up
\* by two at once, or again while a bug that duplicates it was waited for: every
\* attempt fetches the bug anew (bugzilla.py, download_bug_to_storage).
NeverBackUnlessShared ==
  [][\A b \in Stored \cap Stored' : bugs'[b].version < bugs[b].version => b \in shared']_vars
==============================================================================

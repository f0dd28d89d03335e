------------------------------- MODULE BugStore -------------------------------
(***************************************************************************)
(* Bugs of reports: what the bug trackers show, and what the tables hold   *)
(* (storage/bugzilla.py, storage/mantisbt.py, storage/report.py), with the *)
(* deletions that the web application and releasedel make.                 *)
(***************************************************************************)
EXTENDS Naturals, FiniteSets

CONSTANTS Bug, Report, Anonymous,
          Mantis,     \* the bugs that are in MantisBT, the others in Bugzilla
          User,
          Hidden,     \* users whose e-mail address Bugzilla does not tell
          CreatorOf,
          Item,       \* CCs, changes, attachments and comments of the bugs in Bugzilla
          KindOf, BugOf, AuthorOf,
          SinceOf,    \* the version of the bug that an item appears in
          ChangeOf,   \* what a change changes, and when: many bugs may be changed at once
          Long,       \* changes with a text that is cut to fit its column
          AboutOf     \* the attachment of a comment

VARIABLES
  remote,     \* the trackers: version and duplicate of each bug
  supported,  \* bugs of releases and components that are known
  bugs,       \* bzbugs and mantisbugs, by id
  rows,       \* bzbugccs, bzbughistory, bzattachments, bzcomments
  users,      \* bzusers
  links,      \* reportbz, reportmantis
  broken,     \* history: <<bug, process>>: a save that has written the bug and not all its parts
  erased,     \* history: bugs that lost parts to a deletion
  shared      \* history: bugs that were written by two at once

storeVars == <<remote, supported, bugs, rows, users, links, broken, erased, shared>>

Kind == {"cc", "history", "attachment", "comment"}

ASSUME BugAssumption ==
  /\ Mantis \subseteq Bug /\ Hidden \subseteq User /\ Anonymous \notin User
  /\ CreatorOf \in [Bug -> User] /\ KindOf \in [Item -> Kind]
  /\ BugOf \in [Item -> Bug \ Mantis] /\ AuthorOf \in [Item -> User]
  /\ SinceOf \in [Item -> Nat] /\ AboutOf \in [Item -> SUBSET Item]
  /\ DOMAIN ChangeOf = Item /\ Long \subseteq Item
  /\ \A i \in Item : AboutOf[i] # {} => KindOf[i] = "comment"

Stored == DOMAIN bugs
RowsOf(b) == {r \in rows : BugOf[r.item] = b}
ItemsOf(b) == {i \in Item : BugOf[i] = b /\ SinceOf[i] <= remote[b].version}
Put(f, k, v) == [x \in DOMAIN f \cup {k} |-> IF x = k THEN v ELSE f[x]]
Row(i, u, w, about) == [item |-> i, user |-> u, by |-> w, about |-> about]

\* The keys and the foreign keys of the tables.
StoreTypeOK ==
  /\ Stored \subseteq Bug /\ users \subseteq User \cup {Anonymous}
  /\ \A b \in Stored : bugs[b].dup \subseteq Stored /\ (b \notin Mantis => bugs[b].creator \in users)
  /\ \A r \in rows : /\ BugOf[r.item] \in Stored /\ r.user \in users
                     /\ r.about \subseteq {q.item : q \in rows}
  /\ \A r, q \in rows : r.item = q.item /\ KindOf[r.item] \in {"attachment", "comment"} => r = q
  /\ links \subseteq Report \X Stored

StoreInit ==
  /\ remote = [b \in Bug |-> [version |-> 1, dup |-> {}]] /\ supported = Bug
  /\ bugs = [b \in {} |-> {}] /\ rows = {} /\ users = {} /\ links = {}
  /\ broken = {} /\ erased = {} /\ shared = {}

-----------------------------------------------------------------------------
(* The trackers. *)

\* Following duplicates from b leads to c.
Leads(b, c) == \A s \in SUBSET Bug : b \in s /\ (\A d \in s : remote[d].dup \subseteq s) => c \in s

\* Somebody comments on a bug, changes it, or opens a duplicate again.
RemoteChange(b) ==
  /\ remote' = [remote EXCEPT ![b] = [version |-> @.version + 1, dup |-> {}]]
  /\ UNCHANGED <<supported, bugs, rows, users, links, broken, erased, shared>>
\* The trackers refuse to make a bug a duplicate of its own duplicate.
RemoteDuplicate(b, c) ==
  /\ (b \in Mantis) = (c \in Mantis) /\ ~Leads(c, b)
  /\ remote' = [remote EXCEPT ![b] = [version |-> @.version + 1, dup |-> {c}]]
  /\ UNCHANGED <<supported, bugs, rows, users, links, broken, erased, shared>>

-----------------------------------------------------------------------------
(* Deletions. *)

\* His CCs, attachments and comments are deleted, his changes made anonymous.
EraseRows(u) ==
  rows' = {IF r.user = u THEN [r EXCEPT !.user = Anonymous] ELSE r :
             r \in {q \in rows : q.user # u \/ KindOf[q.item] = "history"}}

\* A user deletes his data: one transaction, which the foreign key of comments
\* that others made on his attachments refuses.
EraseUser(u) ==
  /\ u \in users \ {Anonymous}
  /\ LET gone == {r \in rows : r.user = u /\ KindOf[r.item] # "history"}
         files == {r.item : r \in {q \in gone : KindOf[q.item] = "attachment"}}
     IN /\ \A r \in rows \ gone : r.about \cap files = {}
        /\ erased' = erased \cup {BugOf[r.item] : r \in gone}
  /\ EraseRows(u)
  /\ bugs' = [b \in Stored |-> IF bugs[b].creator = u THEN [bugs[b] EXCEPT !.creator = Anonymous]
                                                      ELSE bugs[b]]
  /\ users' = (users \ {u}) \cup {Anonymous}
  /\ UNCHANGED <<remote, supported, links, broken, shared>>

\* The maintainer of the component takes a bug off a report: what is deleted is
\* any bug of the report that is in the tracker of the one he names.
Dissociate(report, b) ==
  /\ b \in Stored
  /\ \E l \in links : /\ l[1] = report /\ (l[2] \in Mantis) = (b \in Mantis)
                      /\ links' = links \ {l}
  /\ UNCHANGED <<remote, supported, bugs, rows, users, broken, erased, shared>>
==============================================================================

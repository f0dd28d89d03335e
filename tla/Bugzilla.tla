------------------------------- MODULE Bugzilla -------------------------------
(***************************************************************************)
(* download_bug_to_storage of a bug in Bugzilla or MantisBT, with the bug  *)
(* it duplicates (bugtrackers/bugzilla.py, bugtrackers/mantisbt.py).  Each *)
(* flush is a transaction; any request to the tracker may fail, and the    *)
(* whole download is tried again, from the start, with what was stored.    *)
(***************************************************************************)
EXTENDS BugStore, Sequences

CONSTANTS Worker,
          Tries,      \* attempts of a download, 3 in the code
          SavedKinds  \* CCs, history, and what save_attachments and save_comments add

VARIABLES stack,   \* the downloads each process is in, the innermost first
          result,  \* the bug the outermost came to, {} if there is none
          raised   \* it ended with an exception

downloadVars == <<stack, result, raised>>

ASSUME DownloadAssumption ==
  /\ Tries \in Nat \ {0} /\ "web" \notin Worker
  /\ {"cc", "history"} \subseteq SavedKinds /\ SavedKinds \subseteq Kind

Frame(b) == [bug |-> b, pc |-> "get", tries |-> Tries, got |-> [version |-> 0, dup |-> {}],
             dup |-> {}, full |-> FALSE, pending |-> {}]

DownloadTypeOK ==
  \A w \in Worker : \A n \in DOMAIN stack[w] :
    LET f == stack[w][n] IN
    /\ f.bug \in Bug /\ f.tries \in 1 .. Tries
    /\ f.pc \in {"get", "reporter", "dup", "write", "insert", "raise"} \cup SavedKinds

DownloadInit == /\ stack = [w \in Worker |-> <<>>]
                /\ result = [w \in Worker |-> {}]
                /\ raised = [w \in Worker |-> FALSE]

Top(w) == Head(stack[w])
In(w, pc) == stack[w] # <<>> /\ Top(w).pc = pc
Set(w, f) == stack' = [stack EXCEPT ![w] = <<f>> \o Tail(@)]
Goto(w, pc) == Set(w, [Top(w) EXCEPT !.pc = pc])
Raise(w) == Goto(w, "raise") /\ UNCHANGED <<result, raised>>

\* Downloads that have fetched the bug and are not over.
Holds(w, n, b) == stack[w][n].bug = b /\ stack[w][n].pc \notin {"get", "raise"}
Holders(b) == {w \in Worker : \E n \in DOMAIN stack[w] : Holds(w, n, b)}
HeldBeside(w, b) ==
  Holders(b) \ {w} # {} \/ \E n \in DOMAIN stack[w] \ {1} : Holds(w, n, b)

Call(w, b) == /\ stack' = [stack EXCEPT ![w] = <<Frame(b)>> \o @]
              /\ result' = [result EXCEPT ![w] = {}] /\ raised' = [raised EXCEPT ![w] = FALSE]

\* The download returns the bug, to the bug that duplicates it or to the action.
Return(w, found) ==
  LET rest == Tail(stack[w]) IN
  /\ stack' = [stack EXCEPT ![w] =
       IF rest = <<>> THEN <<>>
       ELSE <<[Head(rest) EXCEPT !.dup = found, !.pc = "write"]>> \o Tail(rest)]
  /\ result' = IF rest = <<>> THEN [result EXCEPT ![w] = found] ELSE result
  /\ UNCHANGED raised

\* Mutant: what was fetched is kept for the next attempt.
RetryWithOld(w) ==
  /\ In(w, "raise")
  /\ LET f == Top(w)
         rest == Tail(stack[w]) IN
     IF f.tries > 1
     THEN /\ Set(w, [f EXCEPT !.tries = @ - 1, !.pc = IF f.got.version = 0 THEN "get" ELSE "reporter"])
          /\ UNCHANGED raised
     ELSE /\ raised' = [raised EXCEPT ![w] = rest = <<>>]
          /\ stack' = [stack EXCEPT ![w] =
            IF rest = <<>> THEN <<>> ELSE <<[Head(rest) EXCEPT !.pc = "raise"]>> \o Tail(rest)]
  /\ UNCHANGED <<result, storeVars>>
\* @retry: the exception, whichever it was, is forgotten, or is the caller's.
Retry(w) ==
  /\ In(w, "raise")
  /\ LET f == Top(w)
         rest == Tail(stack[w]) IN
     IF f.tries > 1
     THEN Set(w, [Frame(f.bug) EXCEPT !.tries = f.tries - 1]) /\ UNCHANGED raised
     ELSE /\ raised' = [raised EXCEPT ![w] = rest = <<>>]
          /\ stack' = [stack EXCEPT ![w] =
            IF rest = <<>> THEN <<>> ELSE <<[Head(rest) EXCEPT !.pc = "raise"]>> \o Tail(rest)]
  /\ UNCHANGED <<result, storeVars>>

-----------------------------------------------------------------------------
UpToDate(b) == b \in Stored /\ bugs[b].version = remote[b].version

\* The bug is fetched; if its row says it is current, that is all.
GetBug(w) ==
  /\ In(w, "get") /\ Top(w).bug \notin Mantis
  /\ LET b == Top(w).bug IN
     \/ UpToDate(b) /\ Return(w, {b})
     \/ /\ ~UpToDate(b) /\ b \in supported
        /\ Set(w, [Top(w) EXCEPT !.got = remote[b], !.pc = "reporter"]) /\ UNCHANGED <<result, raised>>
     \/ ~UpToDate(b) /\ b \notin supported /\ Raise(w)
  /\ UNCHANGED storeVars
\* MantisBT's reporters are not stored; what is not supported is no exception.
GetIssue(w) ==
  /\ In(w, "get") /\ Top(w).bug \in Mantis
  /\ LET b == Top(w).bug IN
     \/ UpToDate(b) /\ Return(w, {b})
     \/ /\ ~UpToDate(b) /\ b \in supported
        /\ Set(w, [Top(w) EXCEPT !.got = remote[b], !.pc = "dup"]) /\ UNCHANGED <<result, raised>>
     \/ ~UpToDate(b) /\ b \notin supported /\ Return(w, {})
  /\ UNCHANGED storeVars

\* _save_user is flushed at once.
SaveReporter(w) ==
  /\ In(w, "reporter")
  /\ LET u == CreatorOf[Top(w).bug] IN
     IF u \in users \/ u \notin Hidden
     THEN users' = users \cup {u} /\ Goto(w, "dup") /\ UNCHANGED <<result, raised>>
     ELSE Raise(w) /\ UNCHANGED users
  /\ UNCHANGED <<remote, supported, bugs, rows, links, broken, erased, shared>>

\* The bug that it duplicates is downloaded, unless it is stored: then the new
\* row does not say what it duplicates, and an old row forgets it.
SaveDuplicate(w) ==
  /\ In(w, "dup")
  /\ LET missing == Top(w).got.dup \ Stored IN
     IF missing = {} THEN Goto(w, "write") /\ UNCHANGED <<result, raised>>
     ELSE \E d \in missing : Call(w, d)
  /\ UNCHANGED storeVars

NewRow(w) == [version |-> Top(w).got.version, dup |-> Top(w).dup,
              creator |-> IF Top(w).bug \in Mantis THEN Anonymous ELSE CreatorOf[Top(w).bug]]
Referred(w) == NewRow(w).creator \in users \cup {Anonymous} /\ Top(w).dup \subseteq Stored

Write(w) ==
  LET b == Top(w).bug IN
  /\ bugs' = Put(bugs, b, NewRow(w))
  /\ broken' = IF b \in Mantis THEN broken ELSE broken \cup {<<b, w>>}
  /\ shared' = IF HeldBeside(w, b) THEN shared \cup {b} ELSE shared

\* A bug that is stored by now is updated; the flush of one that is not fails
\* if another process was faster.
WriteBug(w) ==
  /\ In(w, "write")
  /\ IF Top(w).bug \in Stored
     THEN IF Referred(w)
          THEN Write(w) /\ (IF Top(w).bug \in Mantis THEN Return(w, {Top(w).bug})
                                                     ELSE Goto(w, "cc") /\ UNCHANGED <<result, raised>>)
          ELSE Raise(w) /\ UNCHANGED <<bugs, broken, shared>>
     ELSE Goto(w, "insert") /\ UNCHANGED <<bugs, broken, shared, result, raised>>
  /\ UNCHANGED <<remote, supported, rows, users, links, erased>>
InsertBug(w) ==
  /\ In(w, "insert")
  /\ IF Top(w).bug \notin Stored /\ Top(w).bug \in supported /\ Referred(w)
     THEN Write(w) /\ (IF Top(w).bug \in Mantis THEN Return(w, {Top(w).bug})
                                                ELSE Goto(w, "cc") /\ UNCHANGED <<result, raised>>)
     ELSE Raise(w) /\ UNCHANGED <<bugs, broken, shared>>
  /\ UNCHANGED <<remote, supported, rows, users, links, erased>>

-----------------------------------------------------------------------------
(* The parts of a bug. *)

\* What the downloaded bug shows of a kind.
Shown(w, kind) == {i \in Item : /\ BugOf[i] = Top(w).bug /\ KindOf[i] = kind
                                /\ SinceOf[i] <= Top(w).got.version}
Known(i) == AuthorOf[i] \in users \/ AuthorOf[i] \notin Hidden

\* Mutant: a CC is looked for by its user alone.
HasAnyCC(i) == \E r \in rows : KindOf[r.item] = "cc" /\ r.user = AuthorOf[i]
\* Mutant: CCs are stored without looking.
HasNoCC(i) == FALSE
\* The checks for what is stored: a CC by its user and bug, a change by all but
\* its bug, and by its text before that was cut, attachments and comments by their id.
HasCC(i) == \E r \in rows : r.item = i /\ r.user = AuthorOf[i]
HasChange(i) ==
  i \notin Long /\ \E r \in rows : KindOf[r.item] = "history" /\ ChangeOf[r.item] = ChangeOf[i] /\ r.user = AuthorOf[i]
HasId(i) == \E r \in rows : r.item = i
Has(i) == CASE KindOf[i] = "cc" -> HasCC(i) [] KindOf[i] = "history" -> HasChange(i) [] OTHER -> HasId(i)

AboutNow(i) == {a \in AboutOf[i] : HasId(a)}

\* The users that are missing are stored, what has no user is skipped, and the
\* rest is in the session.
Collect(w, kind) ==
  /\ In(w, kind) /\ ~Top(w).full
  /\ LET new == {i \in Shown(w, kind) : ~Has(i) /\ Known(i)}
         who == IF kind = "history" THEN Shown(w, kind) ELSE {i \in Shown(w, kind) : ~Has(i)}
     IN /\ users' = users \cup {AuthorOf[i] : i \in {j \in who : Known(j)}}
        /\ Set(w, [Top(w) EXCEPT !.full = TRUE,
                                 !.pending = {Row(i, AuthorOf[i], <<w, Top(w).got.version>>, AboutNow(i)) : i \in new}])
  /\ UNCHANGED <<result, raised, remote, supported, bugs, rows, links, broken, erased, shared>>

\* A user that is missing is flushed at once, and a part that the session holds
\* by then with it, long before the others.
SpillPart(w, kind) ==
  /\ In(w, kind) /\ ~Top(w).full /\ Top(w).bug \in Stored
  /\ \E i \in {j \in Shown(w, kind) : ~Has(j) /\ AuthorOf[j] \in users} :
       rows' = rows \cup {Row(i, AuthorOf[i], <<w, Top(w).got.version>>, AboutNow(i))}
  /\ \E u \in {AuthorOf[j] : j \in Shown(w, kind)} \ (users \cup Hidden) : users' = users \cup {u}
  /\ UNCHANGED <<downloadVars, remote, supported, bugs, links, broken, erased, shared>>

NextKind(kind) ==
  LET order == <<"cc", "history", "attachment", "comment">>
      n == CHOOSE n \in 1 .. 4 : order[n] = kind
      later == {m \in n + 1 .. 4 : order[m] \in SavedKinds}
  IN IF later = {} THEN {} ELSE {order[CHOOSE m \in later : \A l \in later : m <= l]}

\* The flush is refused if the bug, a user or an attachment is gone, or if an
\* attachment or a comment has come.
Refused(w) ==
  \E r \in Top(w).pending :
    \/ BugOf[r.item] \notin Stored \/ r.user \notin users
    \/ \E a \in r.about : ~HasId(a)
    \/ KindOf[r.item] \in {"attachment", "comment"} /\ HasId(r.item)

\* The process has stored all parts of the version that it wrote: if that is
\* the version of the row, earlier saves that broke off are made good.
Whole(w) ==
  LET b == Top(w).bug
      good == IF b \in Stored /\ bugs[b].version = Top(w).got.version
              THEN {v \in Worker : v = w \/ v \notin Holders(b)} ELSE {w}
  IN broken' = broken \ ({b} \X good)

FlushParts(w, kind) ==
  /\ In(w, kind) /\ Top(w).full
  /\ IF Refused(w) THEN Raise(w) /\ UNCHANGED <<rows, broken>>
     ELSE /\ rows' = rows \cup Top(w).pending
          /\ IF NextKind(kind) # {}
             THEN (\E k \in NextKind(kind) : Set(w, [Top(w) EXCEPT !.pc = k, !.full = FALSE, !.pending = {}])) /\ UNCHANGED <<result, raised, broken>>
             ELSE Return(w, {Top(w).bug}) /\ Whole(w)
  /\ UNCHANGED <<remote, supported, bugs, users, links, erased, shared>>

\* A request fails: for the bug, for a user, for the content of an attachment.
\* What the session holds by then is written with the next flush.
RequestFails(w) ==
  /\ stack[w] # <<>> /\ Top(w).pc \in {"get", "reporter"} \cup SavedKinds /\ ~Top(w).full
  /\ Raise(w)
  /\ \/ UNCHANGED rows
     \/ \E kind \in SavedKinds : \E i \in {j \in Shown(w, kind) : ~Has(j) /\ AuthorOf[j] \in users} :
          In(w, kind) /\ Top(w).bug \in Stored /\ rows' = rows \cup {Row(i, AuthorOf[i], <<w, Top(w).got.version>>, AboutNow(i))}
  /\ UNCHANGED <<remote, supported, bugs, users, links, broken, erased, shared>>

DownloadStep(w) ==
  \/ GetBug(w) \/ GetIssue(w) \/ Retry(w) \/ SaveReporter(w) \/ SaveDuplicate(w)
  \/ WriteBug(w) \/ InsertBug(w)
  \/ \E kind \in SavedKinds : SpillPart(w, kind) \/ Collect(w, kind) \/ FlushParts(w, kind)
==============================================================================

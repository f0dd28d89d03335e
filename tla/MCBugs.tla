------------------------------- MODULE MCBugs -------------------------------
(***************************************************************************)
(* Bugs for TLC: two bugs in Bugzilla that were changed at once by one     *)
(* user, one whose reporter is hidden, and two in MantisBT.  Each history  *)
(* is cast with what may happen.                                           *)
(***************************************************************************)
EXTENDS Bugs, TLC

CONSTANTS b1, b2, b3, m1, m2, creator, other, nobody, cc1, cc2, cc3, ccHidden, ch1, ch2, chLong, at1, co1, w1, w2, r1, r2, retitled, reworded, nothing

VARIABLE cast

MCBug == {b1, b2, b3, m1, m2}
MCItem == {cc1, cc2, cc3, ccHidden, ch1, ch2, chLong, at1, co1}
MCCreatorOf == (b3 :> nobody) @@ [b \in MCBug |-> creator]
MCKindOf == (cc1 :> "cc") @@ (cc2 :> "cc") @@ (cc3 :> "cc") @@ (ccHidden :> "cc") @@ (ch1 :> "history") @@ (ch2 :> "history")
              @@ (chLong :> "history")
              @@ (at1 :> "attachment") @@ (co1 :> "comment")
MCBugOf == (cc2 :> b2) @@ (ch2 :> b2) @@ (chLong :> b2) @@ [i \in MCItem |-> b1]
MCAuthorOf == (ccHidden :> nobody) @@ (co1 :> creator) @@ (cc3 :> creator) @@ [i \in MCItem |-> other]
MCSinceOf == (ch1 :> 2) @@ (co1 :> 2) @@ [i \in MCItem |-> 1]
MCChangeOf == (ch1 :> retitled) @@ (ch2 :> retitled) @@ (chLong :> reworded) @@ [i \in MCItem |-> nothing]
MCAboutOf == (co1 :> {at1}) @@ [i \in MCItem |-> {}]
MCAttachment == {<<r1, b1, 1>>, <<r1, b1, 2>>, <<r2, m1, 1>>}

Cast(bugsOf, workers, kinds, starts, changes, web, mishaps) ==
  [bugs |-> bugsOf, workers |-> workers, kinds |-> kinds, starts |-> starts,
   changes |-> changes, web |-> web, mishaps |-> mishaps]
Casts == {
  Cast({b1}, {w1, w2}, {"pull", "update"}, 2, 1, 0, 0),
  Cast({b1}, {w1, w2}, {"pull"}, 2, 1, 0, 1),
  Cast({b1, b2}, {w1}, {"pull"}, 2, 1, 0, 2),
  Cast({b2, b3}, {w1}, {"pull"}, 1, 1, 0, 0),
  Cast({b1, b2}, {w1}, {"pull", "update"}, 2, 2, 0, 0),
  Cast({b1}, {w1}, {"pull", "update"}, 2, 1, 2, 0),
  Cast({b1, m1}, {w1}, {"attach"}, 2, 2, 0, 2),
  Cast({b1}, {w1, w2}, {"pull", "delete"}, 3, 1, 0, 0),
  Cast({m1, m2}, {w1}, {"centos", "update", "delete"}, 2, 2, 1, 0)}

MCInit == cast \in Casts /\ Init

Spend(what) == cast[what] > 0 /\ cast' = [cast EXCEPT ![what] = @ - 1]

MCOutside ==
  \/ /\ \E b \in cast.bugs : RemoteChange(b) \/ \E c \in cast.bugs : RemoteDuplicate(b, c)
     /\ UNCHANGED <<downloadVars, actionVars>>
  \/ "attach" \in cast.kinds /\ \E a \in Attachment : Upload(a)
MCWeb ==
  \/ \E b \in cast.bugs : AssociateStored(r1, b) \/ AssociateIssue(r1, b) \/ AssociateNew(r1, b)
  \/ /\ (\E b \in cast.bugs : Dissociate(r1, b)) \/ \E u \in User : EraseUser(u)
     /\ UNCHANGED <<downloadVars, actionVars>>
MCStart(w) ==
  \/ "pull" \in cast.kinds /\ \E s \in SUBSET cast.bugs : PullBugs(w, s)
  \/ "update" \in cast.kinds /\ UpdateBugs(w)
  \/ "attach" \in cast.kinds /\ SaveAttachments(w)
  \/ "delete" \in cast.kinds /\ DeleteRelease(w)
  \/ "centos" \in cast.kinds /\ \E s \in SUBSET ({r1} \X {m1, m2}) : AttachCentosBugs(w, s)

MCNext ==
  \/ MCOutside /\ Spend("changes")
  \/ MCWeb /\ Spend("web")
  \/ \E w \in cast.workers : \/ MCStart(w) /\ Spend("starts")
                             \/ Mishap(w) /\ Spend("mishaps")
                             \/ Run(w) /\ UNCHANGED cast
MCSpec == MCInit /\ [][MCNext]_<<vars, cast>>
==============================================================================

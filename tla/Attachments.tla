------------------------------ MODULE Attachments ------------------------------
(***************************************************************************)
(* The attachments that say something about a report itself: comments,     *)
(* addresses of its reporters and URLs (save_attachment of pyfaf/ureport.py, *)
(* called for each file by save-reports), while reporters delete their     *)
(* data.  Bugs models those that name a bug.                               *)
(*                                                                         *)
(* An attachment is [kind, of, data, long]: its type, the hash of its      *)
(* report, what it says, and whether that is longer than the column.       *)
(***************************************************************************)
EXTENDS Inbox

CONSTANTS
  Attacher,   \* save-reports processes at work on attachments
  Attachment, \* the files that clients may send
  Says,       \* what each of them says
  Allowed,    \* the types that the configuration accepts
  IdOf        \* of each report the id of its row

VARIABLES
  filed,     \* where each file is: nowhere, incoming, saved or deferred; erased if
             \* its reporter has deleted his data since
  notes,     \* how many rows there are of <<type, report, text>>
  contacts,  \* the rows of addresses by their id; {} is a deleted one
  links,     \* rows <<id of a report, id of an address>>
  attacher,
  excused,   \* files deferred as their report was not stored, files whose reporter deleted
             \* his data meanwhile, and those taken for linked by mistake
  again,     \* files that were processed more than once
  doubled    \* what two processes looked up at once

attachVars == <<filed, notes, contacts, links, attacher, excused, again, doubled>>
laterVars == <<inboxVars, serverVars, fixVars>>

NoAttacher == [pc |-> "idle", left |-> {}, at |-> {}, contact |-> {}, new |-> FALSE]
AttachInit ==
  /\ filed = [a \in Attachment |-> "none"] /\ notes = <<>> /\ contacts = <<>> /\ links = {}
  /\ attacher = [t \in Attacher |-> NoAttacher] /\ excused = {} /\ again = {} /\ doubled = {}

File(t) == Only(attacher[t].at)
Attached(t) == Says[File(t)]
Key(a) == <<Says[a].kind, Says[a].of, Says[a].data>>
Email(a, e) == Says[a].kind = "email" /\ Says[a].data = e
About(a) == IF Says[a].kind = "email" THEN <<"email", Says[a].data>> ELSE Key(a)
With(t, pc) == [attacher EXCEPT ![t].pc = pc]
Defer(t) == With(t, "to deferred")

\* The web application writes a file that it finds valid.
Attach(a) ==
  /\ filed[a] = "none" /\ filed' = [filed EXCEPT ![a] = "incoming"]
  /\ UNCHANGED <<notes, contacts, links, attacher, excused, again, doubled, laterVars>>

Waiting == {a \in Attachment : filed[a] = "incoming"}
AttachStart(t) ==
  /\ attacher[t].pc = "idle" /\ Waiting # {}
  /\ attacher' = [attacher EXCEPT ![t] = [NoAttacher EXCEPT !.pc = "next", !.left = Waiting]]
  /\ UNCHANGED <<filed, notes, contacts, links, excused, again, doubled, laterVars>>

\* A file that is gone cannot be loaded, and cannot be moved either.
AttachNext(t) ==
  /\ attacher[t].pc = "next"
  /\ IF attacher[t].left = {} THEN attacher' = [attacher EXCEPT ![t] = NoAttacher] /\ UNCHANGED again
     ELSE \E a \in attacher[t].left :
       /\ attacher' = [attacher EXCEPT ![t] =
            [NoAttacher EXCEPT !.left = attacher[t].left \ {a}, !.at = {a} \cap Waiting,
                               !.pc = IF a \in Waiting THEN "look up" ELSE "next"]]
       /\ again' = again \cup IF \E s \in Attacher : a \in attacher[s].at THEN {a} ELSE {}
  /\ UNCHANGED <<filed, notes, contacts, links, excused, doubled, laterVars>>

-----------------------------------------------------------------------------
(* save_attachment: what is looked up, then what is flushed. *)
ContactsOf(e) == {i \in DOMAIN contacts : contacts[i] = {e}}
\* Mutant: it is enough that the address is linked to any report.
LinkedAny(rid, id) == \E l \in links : l[2] = id
\* get_report_contact_email is given the ids in the order of its parameters'
\* opposite, so that the row with both ids exchanged is looked for.
Linked(rid, id) == <<id, rid>> \in links

AttachLookUp(t) ==
  LET a == File(t)
      said == Attached(t)
      rid == IdOf[said.of]
      others == {s \in Attacher \ {t} : attacher[s].pc \in {"write", "link"} /\ About(File(s)) = About(a)}
  IN
  /\ attacher[t].pc = "look up"
  /\ IF said.kind \notin Allowed \/ said.of \notin reports
     THEN /\ attacher' = Defer(t) /\ UNCHANGED doubled
          /\ excused' = IF said.kind \in Allowed THEN excused \cup {a} ELSE excused
     ELSE /\ CASE said.kind = "email" ->
                    IF ContactsOf(said.data) = {} THEN attacher' = [attacher EXCEPT ![t].pc = "write", ![t].new = TRUE]
                    ELSE \E id \in ContactsOf(said.data) :
                           attacher' = [attacher EXCEPT ![t].pc = IF Linked(rid, id) THEN "to saved" ELSE "link", ![t].contact = {id}]
               [] said.kind = "url" -> attacher' = With(t, IF Key(a) \in DOMAIN notes THEN "to saved" ELSE "write")
               [] said.kind = "comment" -> attacher' = With(t, "write")
               [] OTHER -> attacher' = With(t, "to saved")
          /\ doubled' = doubled \cup IF others = {} THEN {} ELSE {About(a)}
          /\ excused' = IF \E id \in attacher'[t].contact : <<id, rid>> \in links /\ <<rid, id>> \notin links
                        THEN excused \cup {a} ELSE excused
  /\ UNCHANGED <<filed, notes, contacts, links, again, laterVars>>

\* Text that does not fit the column is no FafError: it ends the process.
Dies(t) ==
  /\ attacher[t].pc = "write" /\ Attached(t).long /\ attacher' = [attacher EXCEPT ![t] = NoAttacher]
  /\ again' = again \cup {File(t)}
  /\ UNCHANGED <<filed, notes, contacts, links, excused, doubled, laterVars>>
AttachNote(t) ==
  /\ attacher[t].pc = "write" /\ ~Attached(t).long /\ Attached(t).kind # "email"
  /\ notes' = Put(notes, Key(File(t)), Count(notes, Key(File(t))) + 1) /\ attacher' = With(t, "to saved")
  /\ UNCHANGED <<filed, contacts, links, excused, again, doubled, laterVars>>
AttachContact(t) ==
  /\ attacher[t].pc = "write" /\ ~Attached(t).long /\ Attached(t).kind = "email"
  /\ contacts' = Append(contacts, {Attached(t).data})
  /\ links' = links \cup {<<IdOf[Attached(t).of], Len(contacts')>>} /\ attacher' = With(t, "to saved")
  /\ UNCHANGED <<filed, notes, excused, again, doubled, laterVars>>
\* A link that is there already, or one to an address that is gone, is refused.
AttachLink(t) ==
  LET id == Only(attacher[t].contact)
      link == <<IdOf[Attached(t).of], id>>
      gone == contacts[id] = {}
  IN
  /\ attacher[t].pc = "link"
  /\ IF link \in links \/ gone
     THEN attacher' = Defer(t) /\ UNCHANGED links /\ excused' = IF gone THEN excused \cup {File(t)} ELSE excused
     ELSE attacher' = With(t, "to saved") /\ links' = links \cup {link} /\ UNCHANGED excused
  /\ UNCHANGED <<filed, notes, contacts, again, doubled, laterVars>>

\* A file that somebody else has moved cannot be moved again.
AttachMove(t) ==
  LET a == File(t)
      to == IF attacher[t].pc = "to saved" THEN "saved" ELSE "deferred"
  IN
  /\ attacher[t].pc \in {"to saved", "to deferred"}
  /\ filed' = IF filed[a] = "incoming" THEN [filed EXCEPT ![a] = to] ELSE filed
  /\ attacher' = [attacher EXCEPT ![t].pc = "next", ![t].at = {}]
  /\ UNCHANGED <<notes, contacts, links, excused, again, doubled, laterVars>>
AttachKilled(t) ==
  /\ attacher[t].pc # "idle" /\ attacher' = [attacher EXCEPT ![t] = NoAttacher]
  /\ again' = again \cup attacher[t].at
  /\ UNCHANGED <<filed, notes, contacts, links, excused, doubled, laterVars>>

AttachStep(t) ==
  AttachNext(t) \/ AttachLookUp(t) \/ Dies(t) \/ AttachNote(t) \/ AttachContact(t) \/ AttachLink(t) \/ AttachMove(t)

\* A reporter deletes his data: the first row with his address and its links.
EraseContact(e) ==
  /\ \E id \in ContactsOf(e) :
       /\ contacts' = [contacts EXCEPT ![id] = {}]
       /\ links' = {l \in links : l[2] # id}
  /\ filed' = [a \in Attachment |-> IF Email(a, e) /\ filed[a] \in {"saved", "deferred"} THEN "erased" ELSE filed[a]]
  /\ excused' = excused \cup {a \in Attachment : Email(a, e) /\ \E t \in Attacher : a \in attacher[t].at}
  /\ UNCHANGED <<notes, attacher, again, doubled, laterVars>>

-----------------------------------------------------------------------------
(* Invariants: what a file in the hands of a process still claims.         *)

\* The address is linked to its report.
ContactKept(a) == \E id \in ContactsOf(Says[a].data) : <<IdOf[Says[a].of], id>> \in links

Data == {Says[a].data : a \in Attachment}
AttacherPc == {"idle", "next", "look up", "write", "link", "to saved", "to deferred"}
AnAttacher == [pc : AttacherPc, left : SUBSET Attachment, at : SUBSET Attachment,
               contact : SUBSET Nat, new : BOOLEAN]
Place == {"none", "incoming", "saved", "deferred", "erased"}
Notable == {a \in Attachment : Says[a].kind \in {"comment", "url"}}

AttachTypeOK ==
  /\ filed \in [Attachment -> Place]
  /\ notes \in [DOMAIN notes -> Nat]
  /\ DOMAIN notes \subseteq {Key(a) : a \in Notable}
  /\ contacts \in Seq(SUBSET Data)
  /\ attacher \in [Attacher -> AnAttacher]

\* A process that is neither idle nor between two files has one file in hand, and
\* it writes and links only what can be written and linked.
Held(t, a) == attacher[t].at = {a}
HeldInv(t) ==
  /\ attacher[t].pc \in {"idle", "next"} => attacher[t].at = {}
  /\ attacher[t].pc \notin {"idle", "next"} => \E a \in Attachment : Held(t, a)
  /\ \A a \in Attachment : Held(t, a) =>
       /\ attacher[t].pc = "write" => a \in Notable \/ Says[a].kind = "email"
       /\ attacher[t].pc = "link" =>
            /\ Says[a].kind = "email"
            /\ \E id \in DOMAIN contacts :
                 attacher[t].contact = {id} /\ contacts[id] \subseteq {Says[a].data}

\* A file that was processed once is in one process's hands, and still incoming.
OnceInv(a) ==
  a \notin again =>
    /\ \A s, t \in Attacher : Held(s, a) /\ Held(t, a) => s = t
    /\ \A t \in Attacher : Held(t, a) => filed[a] = "incoming"

\* What is about to be moved to its place has what the place promises.
Toward(a, place, pc) ==
  filed[a] = place \/ \E t \in Attacher : Held(t, a) /\ attacher[t].pc = pc
Kept(a) == a \in excused \/ (Says[a].kind = "email" /\ ContactKept(a))
PlaceInv(a) ==
  /\ Toward(a, "saved", "to saved") =>
       /\ a \in Notable => Key(a) \in DOMAIN notes
       /\ Says[a].kind = "email" => Kept(a)
  /\ Toward(a, "deferred", "to deferred") /\ Says[a].kind \in Allowed => Kept(a)

\* A comment has a row for each file that said it and that was written.
Noted(k) == {a \in Attachment : Key(a) = k /\ Toward(a, "saved", "to saved")}
CommentInv(k) ==
  k[1] = "comment" =>
    \/ \E a \in again : Key(a) = k
    \/ Count(notes, k) = Cardinality(Noted(k))

\* What one process is about to write nobody else is, and it is not there yet.
Writing(t, w) == attacher[t].pc = "write" /\ \E a \in Attachment : Held(t, a) /\ About(a) = w
WriterInv(w) ==
  \/ w \in doubled
  \/ /\ \A s, t \in Attacher : Writing(s, w) /\ Writing(t, w) => s = t
     /\ w \in DOMAIN notes /\ w[1] = "url" =>
          notes[w] = 1 /\ \A t \in Attacher : ~Writing(t, w)
     /\ \A e \in Data : w = <<"email", e>> =>
          /\ \A i, j \in ContactsOf(e) : i = j
          /\ (\E t \in Attacher : Writing(t, w)) => ContactsOf(e) = {}
Subject == {About(a) : a \in Attachment}

AttachInv ==
  /\ AttachTypeOK
  /\ again \subseteq Attachment
  /\ \A t \in Attacher : HeldInv(t)
  /\ \A a \in Attachment : OnceInv(a) /\ PlaceInv(a)
  /\ \A a \in Attachment : CommentInv(Key(a))
  /\ \A w \in Subject : WriterInv(w)
==============================================================================

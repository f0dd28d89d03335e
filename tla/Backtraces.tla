------------------------------ MODULE Backtraces ------------------------------
(***************************************************************************)
(* How save-reports stores the backtrace of a report (save_ureport of the  *)
(* problem types): frame by frame it looks up the symbol and the source    *)
(* among what is stored, then among what it has added for this uReport     *)
(* (new_symbols, new_symbolsources), and flushes all of it at the end.     *)
(***************************************************************************)
EXTENDS ReportRows

VARIABLES
  symbols,    \* the symbols stored: <<name, library or file>>
  sources,    \* the symbol sources stored
  backtraces  \* the backtraces stored: [report, of, threads]

frameVars == <<symbols, sources, backtraces>>

\* The positions of the frames, <<thread, frame>>, and the turn they are stored in.
Positions(u) == UNION {{<<t, i>> : i \in DOMAIN u.threads[t].frames} : t \in Threads(u)}
FrameAt(u, at) == u.threads[at[1]].frames[at[2]]
InTurn(u) == FlattenSeq([t \in Threads(u) |-> [i \in DOMAIN u.threads[t].frames |-> <<t, i>>]])
\* Frames of core and kerneloops are counted in tens, to leave room for inlined ones.
Order(type, i) == IF type \in {"core", "kerneloops"} THEN 10 * i ELSE i

\* After the rows the problem type is called; it fails on elements that its
\* checker took for optional.  Only a report without backtraces gets one.
StartFrames(p) ==
  LET u == Only(saver[p].u)
      has == ~saver[p].isNew /\ \E b \in backtraces : {b.report} = saver[p].report
  IN
  /\ saver[p].pc = "rows" /\ saver[p].left = <<>>
  /\ IF SaveFails(u)
     THEN /\ saver' = [saver EXCEPT ![p] = [NoWork EXCEPT !.pc = "dead"]]
          /\ session' = [session EXCEPT ![p] = Clean]
     ELSE /\ saver' = [saver EXCEPT ![p].pc = IF has THEN "flush" ELSE "frames", ![p].left = IF has THEN <<>> ELSE InTurn(u)]
          /\ UNCHANGED session
  /\ UNCHANGED <<reports, rows, packages, matcher, counted, overlap, refused, frameVars>>

\* Mutant: the function is missing from the key of new_symbolsources.
SameLine(x, y) == x.path = y.path /\ x.at = y.at
\* java, python and ruby know a source by its symbol, file and line, core and
\* kerneloops by its build, file and offset, whatever function is there.
SameScript(x, y) == x.sym = y.sym /\ x.path = y.path /\ x.at = y.at
SamePlace(x, y) == x.build = y.build /\ x.path = y.path /\ x.at = y.at

Stored(same(_, _), row) == {x \in sources : same(x, row)}
AddedBefore(p, same(_, _), row) == {x \in Range(session[p].sources) : same(x, row)}
\* Mutant: the symbols added for the uReport are not remembered.
NewSymbolsEach(p, row) == row.sym \ symbols
NewSymbols(p, row) == (row.sym \ symbols) \ Range(session[p].symbols)

\* One frame: the source it gets, and what that adds to the session; its row has
\* one symbol, or none.
SaveFrame(p, row, same(_, _), added(_, _), order) ==
  LET at == Head(saver[p].left)
      found == Stored(same, row)
      before == AddedBefore(p, added, row)
      put(x, isNew) == session' = [session EXCEPT
        ![p].symbols = IF NewSymbols(p, row) = {} THEN @ ELSE Append(@, Only(NewSymbols(p, row))),
        ![p].sources = IF isNew THEN Append(@, x) ELSE @,
        ![p].threads = Append(@, [thread |-> at[1], order |-> order, row |-> x])]
  IN
  /\ IF found # {} THEN \E x \in found : put(x, FALSE)
     ELSE IF before # {} THEN \E x \in before : put(x, FALSE) ELSE put(row, TRUE)
  /\ saver' = [saver EXCEPT ![p].left = Tail(@)]
  /\ UNCHANGED <<reports, rows, packages, matcher, counted, overlap, refused, frameVars>>

AtFrame(p, type) == saver[p].pc = "frames" /\ saver[p].left # <<>> /\ (\E u \in saver[p].u : u.type = type)
Frame(p) == FrameAt(Only(saver[p].u), Head(saver[p].left))
Position(p) == Head(saver[p].left)[2]

JavaSave(p) == AtFrame(p, "java") /\ SaveFrame(p, JavaRow(Frame(p)), SameScript, SameScript, Position(p))
PythonSave(p) == AtFrame(p, "python") /\ SaveFrame(p, PythonRow(Frame(p)), SameScript, SameScript, Position(p))
RubySave(p) == AtFrame(p, "ruby") /\ SaveFrame(p, RubyRow(Frame(p)), SameScript, SameScript, Position(p))
CoreSave(p) == AtFrame(p, "core") /\ SaveFrame(p, CoreRow(Frame(p)), SamePlace, SamePlace, 10 * Position(p))
\* Names that are addresses are left out.
OopsSave(p) ==
  /\ AtFrame(p, "kerneloops")
  /\ IF Frame(p).fn \subseteq Misparsed
     THEN /\ saver' = [saver EXCEPT ![p].left = Tail(@)]
          /\ UNCHANGED <<reports, rows, packages, session, matcher, counted, overlap, refused, frameVars>>
     ELSE SaveFrame(p, OopsRow(Only(saver[p].u), Frame(p)), SamePlace, SamePlace, 10 * Position(p))

\* After the last frame; an oops is only missed when it is to be stored.
EndFrames(p) ==
  /\ saver[p].pc = "frames" /\ saver[p].left = <<>>
  /\ IF \E u \in saver[p].u : u.type = "kerneloops" /\ ~u.oops
     THEN /\ saver' = [saver EXCEPT ![p] = [NoWork EXCEPT !.pc = "dead"]]
          /\ session' = [session EXCEPT ![p] = Clean]
     ELSE saver' = [saver EXCEPT ![p].pc = "flush backtrace"] /\ UNCHANGED session
  /\ UNCHANGED <<reports, rows, packages, matcher, counted, overlap, refused, frameVars>>

\* Symbols are unique by name and library, sources by build, file and offset
\* where there is a build.
FramesRefused(p) ==
  LET new == session[p].symbols
      src == session[p].sources
  IN
  \/ \E i, j \in DOMAIN new : i # j /\ new[i] = new[j]
  \/ Range(new) \cap symbols # {}
  \/ \E i, j \in DOMAIN src : i # j /\ src[i].build # {} /\ SamePlace(src[i], src[j])
  \/ \E i \in DOMAIN src : src[i].build # {} /\ Stored(SamePlace, src[i]) # {}

WriteFrames(p) ==
  /\ symbols' = symbols \cup Range(session[p].symbols)
  /\ sources' = sources \cup Range(session[p].sources)
  /\ backtraces' = IF saver[p].pc = "flush" THEN backtraces
                   ELSE backtraces \cup {[report |-> Only(saver[p].report), of |-> Only(saver[p].u),
                                          threads |-> session[p].threads]}

\* One flush for the rows of the report and its backtrace.  What the database
\* refuses is no FafError: the process ends.
Flush(p) ==
  /\ saver[p].pc \in {"flush", "flush backtrace"}
  /\ IF RowsRefused(p) \/ FramesRefused(p)
     THEN /\ saver' = [saver EXCEPT ![p] = [NoWork EXCEPT !.pc = "dead"]]
          /\ refused' = refused \cup {<<saver[p].alone, saver[p].u>>}
          /\ UNCHANGED <<reports, rows, counted, frameVars>>
     ELSE /\ WriteRows(p) /\ WriteFrames(p)
          /\ saver' = [saver EXCEPT ![p] = NoWork]
          /\ UNCHANGED refused
  /\ session' = [session EXCEPT ![p] = Clean]
  /\ UNCHANGED <<packages, matcher, overlap>>

SaverStep(p) ==
  \/ (FedoraCount(p) \/ CentosCount(p)) /\ UNCHANGED frameVars
  \/ StartFrames(p) \/ JavaSave(p) \/ PythonSave(p) \/ RubySave(p) \/ CoreSave(p) \/ OopsSave(p) \/ EndFrames(p) \/ Flush(p)

-----------------------------------------------------------------------------
\* What a uReport says of its frames, as far as they are stored.
Said(u) == {at \in Positions(u) : u.type # "kerneloops" \/ ~(FrameAt(u, at).fn \subseteq Misparsed)}
\* The functions that some uReport has at the place of a source.
NamesAt(row) ==
  UNION {{RowOf(b.of, FrameAt(b.of, at)).sym :
             at \in {at \in Said(b.of) : SamePlace(RowOf(b.of, FrameAt(b.of, at)), row)}} : b \in backtraces}
==============================================================================

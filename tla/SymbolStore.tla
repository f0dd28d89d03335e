----------------------------- MODULE SymbolStore -----------------------------
(***************************************************************************)
(* Symbols, their sources and the frames that refer to them, in the        *)
(* databases of two sites: a server that has debuginfo packages and a      *)
(* client that asks it (storage/symbol.py, storage/report.py).             *)
(***************************************************************************)
EXTENDS Naturals

CONSTANTS Client, Server,
          Source,     \* <<build id, path, offset>>
          Symbol,     \* <<name, normalized path>>
          Report, Dummy,
          Debuginfo,  \* debuginfo packages
          TypeOf, PackageOf,
          NamedAs,    \* the symbol of a source by its uReport, if that has one
          FoundAs,    \* by eu-addr2line
          InlinedAs   \* the symbols of functions inlined there

VARIABLES
  db,       \* db[s]: the tables of a site
  files,    \* <<package, "debug" or "binary">>: the packages that have their files
  failed,   \* sites where a flush has failed
  overlap,  \* sites where a writer began while another was active or had work pending
  late      \* <<site, source, report>>: frames that came while or after it was retraced

storeVars == <<db, files, failed, overlap, late>>

Site == {Client, Server}
Type == {"core", "kerneloops"}

ASSUME StoreAssumption ==
  /\ Client # Server /\ Dummy \notin Report
  /\ TypeOf \in [Source -> Type] /\ PackageOf \in [Source -> Debuginfo]
  /\ FoundAs \in [Source -> Symbol]
  /\ NamedAs \in [Source -> SUBSET Symbol] /\ InlinedAs \in [Source -> SUBSET Symbol]
  /\ \A k \in Source : TypeOf[k] = "kerneloops" => NamedAs[k] # {}

NoRow == [known |-> FALSE, sym |-> {}, line |-> FALSE, fails |-> 0]
Empty == [row |-> [k \in Source |-> NoRow], symbols |-> {}, frames |-> {}, inlined |-> {}]

\* The keys and the foreign keys of the tables.
StoreTypeOK ==
  \A s \in Site :
    /\ db[s].symbols \subseteq Symbol /\ db[s].inlined \subseteq db[s].frames
    /\ db[s].frames \subseteq {k \in Source : db[s].row[k].known} \X (Report \cup {Dummy})
    /\ \A k \in Source : db[s].row[k].sym \subseteq db[s].symbols

StoreInit ==
  /\ db = [s \in Site |-> Empty] /\ files = {}
  /\ failed = {} /\ overlap = {} /\ late = {}

FramesOf(s, k) == {x \in db[s].frames : x[1] = k}

\* What get_ssources_for_retrace finds: the queries of the two plugins.
NeedsCore(s) ==
  {k \in Source : /\ TypeOf[k] = "core" /\ FramesOf(s, k) # {}
                  /\ db[s].row[k].sym = {} \/ ~db[s].row[k].line}
NeedsKernel(s) ==
  {k \in Source : /\ TypeOf[k] = "kerneloops" /\ FramesOf(s, k) # {}
                  /\ db[s].row[k].sym # {} /\ ~db[s].row[k].line}
Needs(s, type) == IF type = "core" THEN NeedsCore(s) ELSE NeedsKernel(s)

-----------------------------------------------------------------------------
(* Sessions: what is pending, and the flush. *)

Clean == [new |-> {}, sym |-> {}, line |-> {}, fails |-> {}, frames |-> {}]

\* The flush is refused: a symbol that is there, or twice in the session, or a
\* frame that is there.
Conflict(s, q) ==
  \/ \E x, y \in q.new : x # y /\ x[2] = y[2]
  \/ \E x \in q.new : x[2] \in db[s].symbols
  \/ q.frames \cap db[s].inlined # {}

WrittenRow(row, k, q) ==
  [row EXCEPT !.sym = IF \E x \in q.sym : x[1] = k THEN {(CHOOSE x \in q.sym : x[1] = k)[2]} ELSE @,
              !.line = @ \/ k \in q.line,
              !.fails = IF \E x \in q.fails : x[1] = k THEN (CHOOSE x \in q.fails : x[1] = k)[2] ELSE @]
Written(d, q) ==
  [d EXCEPT !.symbols = @ \cup {x[2] : x \in q.new},
            !.inlined = @ \cup q.frames,
            !.row = [k \in Source |-> WrittenRow(d.row[k], k, q)]]

Flush(s, q) ==
  IF Conflict(s, q) THEN failed' = failed \cup {s} /\ UNCHANGED db
                    ELSE db' = [db EXCEPT ![s] = Written(@, q)] /\ UNCHANGED failed

-----------------------------------------------------------------------------
(* Other writers. *)

\* save-reports stores the backtrace of a report with this source.
SaveBacktrace(s, k, report, busy) ==
  /\ <<k, report>> \notin db[s].frames
  /\ LET was == db[s].row[k]
         row == IF was.known THEN was ELSE [NoRow EXCEPT !.known = TRUE, !.sym = NamedAs[k]]
     IN db' = [db EXCEPT ![s].row[k] = row, ![s].symbols = @ \cup NamedAs[k],
                         ![s].frames = @ \cup {<<k, report>>}]
  /\ late' = IF busy \/ db[s].row[k].line THEN late \cup {<<s, k, report>>} ELSE late
  /\ overlap' = IF busy THEN overlap \cup {s} ELSE overlap
  /\ UNCHANGED <<files, failed>>

SaveCore(s, k, report, busy) == TypeOf[k] = "core" /\ SaveBacktrace(s, k, report, busy)
SaveKerneloops(s, k, report, busy) == TypeOf[k] = "kerneloops" /\ SaveBacktrace(s, k, report, busy)

\* reposync brings a package of debuginfo, a clean-up deletes its files.
AddPackage == \E d \in Debuginfo \X {"debug", "binary"} : files' = files \cup {d} /\ UNCHANGED <<db, failed, overlap, late>>
DeletePackage == \E d \in files : files' = files \ {d} /\ UNCHANGED <<db, failed, overlap, late>>
==============================================================================

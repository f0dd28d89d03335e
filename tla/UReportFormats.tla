---------------------------- MODULE UReportFormats ----------------------------
(***************************************************************************)
(* What the problem types make of a uReport: what they complete and check  *)
(* (validate_ureport), what identifies its report (hash_ureport), where    *)
(* its frames are stored (save_ureport) and what is read back of them for  *)
(* a comparison (db_report_to_satyr).                                      *)
(*                                                                         *)
(* A frame is [fn, path, at, build, print, mark]: function, file, line or  *)
(* offset, build id and fingerprint are sets of at most one value, empty   *)
(* when the uReport leaves the element out; mark is "native", "exception", *)
(* "special", "reliable" or "".  A thread is [crash, frames].              *)
(***************************************************************************)
EXTENDS Integers, Sequences, FiniteSets, SequencesExt

CONSTANTS
  HashFrames,  \* hashframes: how many frames identify a report
  Half,        \* stands for 2^63
  Jit,         \* names of functions that contain "jit"
  Misparsed,   \* names of functions that begin with 0x
  LibOf        \* of each file its base name, cut behind .so

ASSUME FormatAssumption == HashFrames \in Nat \ {0} /\ Half \in Nat \ {0}

Only(s) == CHOOSE x \in s : TRUE
Scripted == {"java", "python", "ruby"}
Threads(u) == DOMAIN u.threads
FirstFrames(u) == u.threads[1].frames
Hashed(frames) == SubSeq(frames, 1, Min({Len(frames), HashFrames}))
Given(frames, part) == \A i \in DOMAIN frames : frames[i][part] # {}
Each(op(_), frames) == [i \in DOMAIN frames |-> op(frames[i])]

-----------------------------------------------------------------------------
(* java *)
JavaFile(f) == IF f.path # {} THEN Only(f.path)
               ELSE IF f.mark = "exception" THEN "Exception thrown"
               ELSE IF f.mark = "native" THEN "Native function call" ELSE "Unknown"
JavaLine(f) == IF f.at = {} THEN 0 ELSE Only(f.at)
JavaChecked(u) == \A t \in Threads(u) : u.threads[t].frames # <<>> /\ Given(u.threads[t].frames, "fn")
JavaValid(u) ==
  /\ JavaChecked(u)
  /\ \A t \in Threads(u) : \A f \in Range(u.threads[t].frames) :
       f.mark \notin {"native", "exception"} => f.path # {} /\ f.at # {}
JavaHash(u) == Each(LAMBDA f : <<f.fn, f.path>>, Hashed(FirstFrames(u)))
\* The name of the exception is cut at its last dot, which there must be one of.
JavaFails(u) == \A f \in Range(FirstFrames(u)) : f.mark # "exception"
JavaRow(f) ==
  [sym |-> {<<[fn |-> Only(f.fn), special |-> FALSE], JavaFile(f)>>}, build |-> {}, path |-> JavaFile(f), at |-> JavaLine(f)]
JavaRead(row) == [fn |-> {Only(row.sym)[1].fn}, special |-> FALSE, at |-> row.at]

-----------------------------------------------------------------------------
(* python and ruby *)
Funcname(f) == [fn |-> Only(f.fn), special |-> f.mark = "special"]
PythonChecked(u) == FirstFrames(u) # <<>> /\ Given(FirstFrames(u), "path")
PythonValid(u) == PythonChecked(u) /\ Given(FirstFrames(u), "fn")
RubyChecked(u) == FirstFrames(u) # <<>> /\ Given(FirstFrames(u), "path")
RubyValid(u) == RubyChecked(u) /\ Given(FirstFrames(u), "fn")
PythonHash(u) == Each(LAMBDA f : <<Funcname(f), f.path, f.at>>, Hashed(FirstFrames(u)))
RubyHash(u) == Each(LAMBDA f : <<Funcname(f), f.path, f.at>>, Hashed(FirstFrames(u)))
\* The hash of all frames reads a line that the checker takes for optional.
PythonFails(u) == ~Given(FirstFrames(u), "at")
RubyFails(u) == ~Given(FirstFrames(u), "at")
PythonRow(f) == [sym |-> {<<Funcname(f), LibOf[Only(f.path)]>>}, build |-> {}, path |-> Only(f.path), at |-> Only(f.at)]
RubyRow(f) == [sym |-> {<<Funcname(f), LibOf[Only(f.path)]>>}, build |-> {}, path |-> Only(f.path), at |-> Only(f.at)]
PythonRead(row) == [fn |-> {Only(row.sym)[1].fn}, special |-> Only(row.sym)[1].special, at |-> row.at]
RubyRead(row) == [fn |-> {Only(row.sym)[1].fn}, special |-> Only(row.sym)[1].special, at |-> row.at]

-----------------------------------------------------------------------------
(* core *)
CrashThreads(u) == {t \in Threads(u) : u.threads[t].crash}
CrashFrames(u) == u.threads[Only(CrashThreads(u))].frames
\* Frames below a function of a JIT compiler get its file and a name, and the
\* last frame always has both.
CoreCompleted(frames) ==
  LET jit(i) == {j \in 1 .. i : frames[j].path # {} /\ frames[j].fn \cap Jit # {}}
      below(i) == frames[i].path = {} /\ jit(i) # {}
      file(i) == IF below(i) THEN frames[Max(jit(i))].path
                 ELSE IF i = Len(frames) /\ frames[i].path = {} THEN {"unknown filename"} ELSE frames[i].path
      name(i) == IF (below(i) \/ i = Len(frames)) /\ frames[i].fn \subseteq {"??"}
                 THEN {"anonymous function"} ELSE frames[i].fn
  IN [i \in DOMAIN frames |-> [frames[i] EXCEPT !.path = file(i), !.fn = name(i)]]
CoreChecked(u) == \A t \in Threads(u) : u.threads[t].frames # <<>> /\ Given(u.threads[t].frames, "at")
CoreValid(u) == CoreChecked(u) /\ Cardinality(CrashThreads(u)) = 1
CoreHash(u) ==
  LET frames == CrashFrames(u)
      key == IF Given(frames, "fn") THEN "fn" ELSE IF Given(frames, "print") THEN "print" ELSE "at"
  IN Each(LAMBDA f : <<f[key], f.path>>, Hashed(frames))
\* The hashes of all threads read a file name that the checker takes for optional.
CoreFails(u) == \E t \in Threads(u) : ~Given(u.threads[t].frames, "path")
CoreRow(f) ==
  [sym |-> {<<[fn |-> n, special |-> FALSE], LibOf[Only(f.path)]>> : n \in f.fn},
   build |-> f.build, path |-> Only(f.path), at |-> Only(f.at)]
CoreRead(row) == [fn |-> IF row.sym = {} THEN {"??"} ELSE {Only(row.sym)[1].fn}, special |-> FALSE, at |-> row.at]

-----------------------------------------------------------------------------
(* kerneloops *)
OopsCompleted(frames) ==
  Each(LAMBDA f : IF f.fn = {} /\ f.mark # "reliable" THEN [f EXCEPT !.fn = {"_unknown_"}] ELSE f, frames)
OopsValid(u) == FirstFrames(u) # <<>> /\ Given(FirstFrames(u), "fn")
Module(f) == IF f.path = {} THEN "vmlinux" ELSE Only(f.path)
OopsHash(u) == <<u.taint, Each(LAMBDA f : <<f.fn, Module(f)>>, Hashed(FirstFrames(u)))>>
Address(f) == IF f.at = {} THEN 0 ELSE Only(f.at)
\* The database has signed integers only.
Signed(a) == IF a >= Half THEN a - 2 * Half ELSE a
OopsRow(u, f) ==
  [sym |-> {<<[fn |-> Only(f.fn), special |-> FALSE], Module(f)>>}, build |-> {u.version}, path |-> Module(f), at |-> Signed(Address(f))]
OopsRead(row) == [fn |-> {Only(row.sym)[1].fn}, special |-> FALSE, at |-> IF row.at < 0 THEN row.at + 2 * Half ELSE row.at]

-----------------------------------------------------------------------------
(* The problem type that a uReport names. *)
Completed(u) ==
  CASE u.type = "core" -> [u EXCEPT !.threads = [t \in Threads(u) |-> [u.threads[t] EXCEPT !.frames = CoreCompleted(@)]]]
    [] u.type = "kerneloops" -> [u EXCEPT !.threads = [t \in Threads(u) |-> [u.threads[t] EXCEPT !.frames = OopsCompleted(@)]]]
    [] OTHER -> u
Valid(u) == CASE u.type = "java" -> JavaValid(u) [] u.type = "python" -> PythonValid(u) [] u.type = "ruby" -> RubyValid(u)
              [] u.type = "core" -> CoreValid(u) [] u.type = "kerneloops" -> OopsValid(u)
HashFails(u) == CASE u.type \in {"python", "ruby"} -> ~Given(Hashed(FirstFrames(u)), "at")
                  [] u.type = "core" -> ~Given(Hashed(CrashFrames(u)), "path") [] OTHER -> FALSE
Hash(u) == <<u.component,
             CASE u.type = "java" -> JavaHash(u) [] u.type = "python" -> PythonHash(u) [] u.type = "ruby" -> RubyHash(u)
               [] u.type = "core" -> CoreHash(u) [] u.type = "kerneloops" -> OopsHash(u)>>
SaveFails(u) == CASE u.type = "java" -> JavaFails(u) [] u.type = "python" -> PythonFails(u) [] u.type = "ruby" -> RubyFails(u)
                  [] u.type = "core" -> CoreFails(u) [] u.type = "kerneloops" -> FALSE
RowOf(u, f) == CASE u.type = "java" -> JavaRow(f) [] u.type = "python" -> PythonRow(f) [] u.type = "ruby" -> RubyRow(f)
                 [] u.type = "core" -> CoreRow(f) [] u.type = "kerneloops" -> OopsRow(u, f)
ReadBack(type, row) == CASE type = "java" -> JavaRead(row) [] type = "python" -> PythonRead(row) [] type = "ruby" -> RubyRead(row)
                         [] type = "core" -> CoreRead(row) [] type = "kerneloops" -> OopsRead(row)
==============================================================================

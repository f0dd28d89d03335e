------------------------------ MODULE BugsProofs ------------------------------
(***************************************************************************)
(* Proofs about Bugs, for any number of processes, bugs, items and users:  *)
(* the types of its state, NeverBackUnlessShared, OnceUnlessShared and     *)
(* CompleteUnlessBroken.                                                   *)
(*                                                                         *)
(* The actions of every process are first sorted by what they do to the    *)
(* store (StepKinds): nothing, the row of a bug with its version, the      *)
(* parts that a save has yet to store, a flush of these with all that      *)
(* other processes see of it, one part, or the rows of a bug that a page   *)
(* of the web application associates.  Each invariant is then shown of     *)
(* these kinds of steps.                                                   *)
(***************************************************************************)
EXTENDS Bugs, TLAPS

-----------------------------------------------------------------------------
(* Types.                                                                  *)

Pcs == {"get", "reporter", "dup", "write", "insert", "raise"} \cup SavedKinds
Fetched == [version : Nat, dup : SUBSET Bug]
PartType == [item : Item, user : User \cup {Anonymous}, by : (Worker \cup {"web"}) \X Nat,
             about : SUBSET Item]
FrameType == [bug : Bug, pc : Pcs, tries : Nat, got : Fetched, dup : SUBSET Bug,
              full : BOOLEAN, pending : SUBSET {p \in PartType : p.user = AuthorOf[p.item]}]
BugType == [version : Nat, dup : SUBSET Bug, creator : User \cup {Anonymous}]

\* Of the downloads that a process is in, all but the innermost wait for the bug
\* that theirs duplicates.
StackOK ==
  /\ stack \in [Worker -> Seq(FrameType)]
  /\ \A w \in Worker : \A n \in DOMAIN stack[w] :
       /\ n # 1 => stack[w][n].pc = "dup"
       /\ stack[w][n].pc \notin SavedKinds \cup {"raise"} => ~stack[w][n].full

TablesOK ==
  /\ remote \in [Bug -> Fetched]
  /\ Stored \subseteq Bug
  /\ \A b \in Stored : bugs[b] \in BugType
  /\ rows \subseteq PartType
  /\ \A r \in rows : r.user \in {AuthorOf[r.item], Anonymous}

TypeInv == StackOK /\ TablesOK

\* What the actions have before them: bugs, or pairs of a report and a bug.
Thing == Bug \cup Attachment \cup (Report \X Mantis)
JobType == [kind : {"none", "pull", "update", "attach", "centos", "delete"}, left : SUBSET Thing,
            step : {"next", "done", "link"} \cup {DeleteOrder[n] : n \in 1 .. 7}, at : SUBSET Thing]

JobOK ==
  /\ job \in [Worker -> JobType]
  /\ \A w \in Worker :
       /\ job[w].kind \in {"pull", "update"} => job[w].left \subseteq Bug
       /\ job[w].kind = "attach" => job[w].left \cup job[w].at \subseteq Attachment
       /\ job[w].kind = "centos" => job[w].left \cup job[w].at \subseteq Report \X Mantis

-----------------------------------------------------------------------------
(* The stack.                                                              *)

LEMMA HeadOfFrames ==
  ASSUME StackOK, NEW w \in Worker, stack[w] # <<>>
  PROVE  /\ stack[w] \in Seq(FrameType) /\ Len(stack[w]) \in Nat \ {0}
         /\ 1 \in DOMAIN stack[w] /\ Top(w) = stack[w][1] /\ Top(w) \in FrameType
<1>1. stack[w] \in Seq(FrameType)
  BY DEF StackOK
<1> QED
  BY <1>1 DEF Top

\* The innermost download changes.
LEMMA SetFrames ==
  ASSUME StackOK, NEW w \in Worker, stack[w] # <<>>, NEW f \in FrameType, Set(w, f)
  PROVE  /\ stack' \in [Worker -> Seq(FrameType)]
         /\ \A v \in Worker \ {w} : stack'[v] = stack[v]
         /\ stack'[w] # <<>> /\ stack'[w][1] = f /\ DOMAIN stack'[w] = DOMAIN stack[w]
         /\ \A n \in DOMAIN stack[w] : n # 1 => stack'[w][n] = stack[w][n]
<1> DEFINE new == <<f>> \o Tail(stack[w])
<1>1. stack[w] \in Seq(FrameType) /\ Len(stack[w]) \in Nat \ {0}
  BY HeadOfFrames
<1>2. Tail(stack[w]) \in Seq(FrameType) /\ Len(Tail(stack[w])) = Len(stack[w]) - 1
      /\ \A n \in 1 .. Len(stack[w]) - 1 : Tail(stack[w])[n] = stack[w][n + 1]
  BY <1>1
<1>3. <<f>> \in Seq(FrameType) /\ Len(<<f>>) = 1 /\ <<f>>[1] = f
  OBVIOUS
<1>4. new \in Seq(FrameType) /\ Len(new) = Len(stack[w]) /\ new[1] = f
  BY <1>1, <1>2, <1>3
<1>5. ASSUME NEW n \in 2 .. Len(stack[w])
      PROVE  new[n] = stack[w][n]
  <2>1. new[n] = Tail(stack[w])[n - 1]
    BY <1>1, <1>2, <1>3
  <2> QED
    BY <1>1, <1>2, <2>1
<1>6. stack' = [stack EXCEPT ![w] = new]
  BY DEF Set
<1> HIDE DEF new
<1>7. stack'[w] = new /\ \A v \in Worker \ {w} : stack'[v] = stack[v]
  BY <1>6 DEF StackOK
<1>8. stack' \in [Worker -> Seq(FrameType)]
  BY <1>4, <1>6 DEF StackOK
<1>9. DOMAIN new = 1 .. Len(stack[w]) /\ DOMAIN stack[w] = 1 .. Len(stack[w]) /\ new # <<>>
  BY <1>1, <1>4
<1> QED
  BY <1>1, <1>4, <1>5, <1>7, <1>8, <1>9

\* A download begins inside of those there are.
LEMMA CallFrames ==
  ASSUME StackOK, NEW w \in Worker, NEW f \in FrameType,
         stack' = [stack EXCEPT ![w] = <<f>> \o @]
  PROVE  /\ stack' \in [Worker -> Seq(FrameType)]
         /\ \A v \in Worker \ {w} : stack'[v] = stack[v]
         /\ stack'[w] # <<>> /\ stack'[w][1] = f
         /\ \A n \in DOMAIN stack'[w] : n # 1 => n - 1 \in DOMAIN stack[w] /\ stack'[w][n] = stack[w][n - 1]
<1> DEFINE new == <<f>> \o stack[w]
<1>1. stack[w] \in Seq(FrameType) /\ Len(stack[w]) \in Nat
  BY DEF StackOK
<1>3. <<f>> \in Seq(FrameType) /\ Len(<<f>>) = 1 /\ <<f>>[1] = f
  OBVIOUS
<1>4. new \in Seq(FrameType) /\ Len(new) = Len(stack[w]) + 1 /\ new[1] = f
  BY <1>1, <1>3
<1>5. ASSUME NEW n \in 2 .. Len(stack[w]) + 1
      PROVE  new[n] = stack[w][n - 1] /\ n - 1 \in DOMAIN stack[w]
  BY <1>1, <1>3
<1>6. stack' = [stack EXCEPT ![w] = new]
  OBVIOUS
<1> HIDE DEF new
<1>7. stack'[w] = new /\ \A v \in Worker \ {w} : stack'[v] = stack[v]
  BY <1>6 DEF StackOK
<1>8. stack' \in [Worker -> Seq(FrameType)]
  BY <1>4, <1>6 DEF StackOK
<1>9. DOMAIN new = 1 .. Len(stack[w]) + 1 /\ new # <<>>
  BY <1>1, <1>4
<1> QED
  BY <1>1, <1>4, <1>5, <1>7, <1>8, <1>9

\* The innermost download is over, and the one that waited for it, if there is one,
\* goes on as f.
LEMMA PopFrames ==
  ASSUME StackOK, NEW w \in Worker, stack[w] # <<>>,
         NEW f, Tail(stack[w]) # <<>> => f \in FrameType,
         stack' = [stack EXCEPT ![w] = IF Tail(stack[w]) = <<>> THEN <<>>
                                       ELSE <<f>> \o Tail(Tail(stack[w]))]
  PROVE  /\ stack' \in [Worker -> Seq(FrameType)]
         /\ \A v \in Worker \ {w} : stack'[v] = stack[v]
         /\ \A n \in DOMAIN stack'[w] :
              /\ n + 1 \in DOMAIN stack[w]
              /\ n = 1 => Tail(stack[w]) # <<>> /\ stack'[w][n] = f
              /\ n # 1 => stack'[w][n] = stack[w][n + 1]
         /\ Tail(stack[w]) # <<>> => 2 \in DOMAIN stack[w] /\ Head(Tail(stack[w])) = stack[w][2]
                                     /\ Head(Tail(stack[w])) \in FrameType
<1> DEFINE rest == Tail(stack[w])
<1>1. stack[w] \in Seq(FrameType) /\ Len(stack[w]) \in Nat \ {0}
  BY HeadOfFrames
<1>2. rest \in Seq(FrameType) /\ Len(rest) = Len(stack[w]) - 1
      /\ \A n \in 1 .. Len(stack[w]) - 1 : rest[n] = stack[w][n + 1]
  BY <1>1
<1> HIDE DEF rest
<1>3. CASE rest = <<>>
  <2>1. stack' = [stack EXCEPT ![w] = <<>>]
    BY <1>3 DEF rest
  <2>2. stack'[w] = <<>> /\ \A v \in Worker \ {w} : stack'[v] = stack[v]
    BY <2>1 DEF StackOK
  <2>3. stack' \in [Worker -> Seq(FrameType)]
    BY <2>1 DEF StackOK
  <2>4. DOMAIN <<>> = {}
    OBVIOUS
  <2> QED
    BY <1>3, <2>2, <2>3, <2>4 DEF rest
<1>4. CASE rest # <<>>
  <2> DEFINE new == <<f>> \o Tail(rest)
  <2>1. Len(rest) \in Nat \ {0}
    BY <1>2, <1>4
  <2>2. Tail(rest) \in Seq(FrameType) /\ Len(Tail(rest)) = Len(rest) - 1
        /\ \A n \in 1 .. Len(rest) - 1 : Tail(rest)[n] = rest[n + 1]
    <3>1. rest \in Seq(FrameType)
      BY <1>2
    <3> QED
      BY <2>1, <3>1
  <2>3. <<f>> \in Seq(FrameType) /\ Len(<<f>>) = 1 /\ <<f>>[1] = f
    BY <1>4 DEF rest
  <2>4. new \in Seq(FrameType) /\ Len(new) = Len(rest) /\ new[1] = f
    BY <2>1, <2>2, <2>3
  <2>5. ASSUME NEW n \in 2 .. Len(rest)
        PROVE  new[n] = stack[w][n + 1]
    <3>1. new[n] = Tail(rest)[n - 1]
      BY <2>1, <2>2, <2>3
    <3>2. n - 1 \in 1 .. Len(rest) - 1 /\ n - 1 + 1 = n
      BY <2>1
    <3>3. Tail(rest)[n - 1] = rest[n]
      BY <2>2, <3>2
    <3>4. n \in 1 .. Len(stack[w]) - 1
      BY <1>2
    <3>5. rest[n] = stack[w][n + 1]
      BY <1>2, <3>4
    <3> QED
      BY <3>1, <3>3, <3>5
  <2>6. stack' = [stack EXCEPT ![w] = new]
    BY <1>4 DEF rest
  <2> HIDE DEF new
  <2>7. stack'[w] = new /\ \A v \in Worker \ {w} : stack'[v] = stack[v]
    BY <2>6 DEF StackOK
  <2>8. stack' \in [Worker -> Seq(FrameType)]
    BY <2>4, <2>6 DEF StackOK
  <2>9. DOMAIN new = 1 .. Len(stack[w]) - 1 /\ DOMAIN stack[w] = 1 .. Len(stack[w])
    BY <1>1, <1>2, <2>4
  <2>10. Head(rest) = rest[1] /\ rest[1] = stack[w][2] /\ Head(rest) \in FrameType /\ 2 \in DOMAIN stack[w]
    BY <1>1, <1>2, <2>1, <2>9
  <2>11. ASSUME NEW n \in DOMAIN new
         PROVE  /\ n + 1 \in DOMAIN stack[w]
                /\ n = 1 => new[n] = f
                /\ n # 1 => new[n] = stack[w][n + 1]
    BY <1>1, <1>2, <2>4, <2>5, <2>9
  <2> QED
    BY <1>4, <2>7, <2>8, <2>10, <2>11 DEF rest
<1> QED
  BY <1>3, <1>4

-----------------------------------------------------------------------------
(* What becomes of the downloads in a step.                                *)

Idle == {"get", "raise"}

\* The n-th download of v after the step holds nothing, has just fetched its bug,
\* holds what it held before, or is as it was.
Moved(v, n) ==
  LET f == stack'[v][n] IN
  \/ f.pc \in Idle
  \/ /\ f.pc \notin SavedKinds
     /\ \/ f.got.version = remote[f.bug].version
        \/ \E m \in DOMAIN stack[v] : /\ f.bug = stack[v][m].bug /\ f.got = stack[v][m].got
                                      /\ stack[v][m].pc \notin Idle
  \/ n = 1 /\ stack[v] # <<>> /\ f = stack[v][1]

Others(w) ==
  \A v \in Worker : \A n \in DOMAIN stack'[v] : v # w \/ n # 1 => Moved(v, n)
Moves == \A v \in Worker : \A n \in DOMAIN stack'[v] : Moved(v, n)

LEMMA KindsApart ==
  /\ SavedKinds \subseteq {"cc", "history", "attachment", "comment"} /\ "cc" \in SavedKinds
  /\ {"get", "reporter", "dup", "write", "insert", "raise"} \cap SavedKinds = {}
BY DownloadAssumption DEF Kind

LEMMA Unmoved ==
  ASSUME StackOK, NEW v \in Worker, stack'[v] = stack[v], NEW n \in DOMAIN stack'[v]
  PROVE  Moved(v, n)
<1>1. CASE n = 1
  <2>1. DOMAIN <<>> = {}
    OBVIOUS
  <2> QED
    BY <1>1, <2>1 DEF Moved
<1>2. CASE n # 1
  <2>1. stack[v][n].pc = "dup"
    BY <1>2 DEF StackOK
  <2> QED
    BY <2>1, KindsApart DEF Moved, Idle
<1> QED
  BY <1>1, <1>2

LEMMA SameStack ==
  ASSUME StackOK, UNCHANGED stack
  PROVE  StackOK' /\ Moves
<1>1. StackOK'
  BY DEF StackOK
<1> QED
  BY <1>1, Unmoved DEF Moves

LEMMA SetMoves ==
  ASSUME StackOK, NEW w \in Worker, stack[w] # <<>>, NEW f \in FrameType, Set(w, f),
         f.pc \notin SavedKinds \cup {"raise"} => ~f.full
  PROVE  StackOK' /\ Others(w) /\ stack'[w] # <<>> /\ Top(w)' = f /\ stack'[w][1] = f
<1>1. /\ stack' \in [Worker -> Seq(FrameType)]
      /\ \A v \in Worker \ {w} : stack'[v] = stack[v]
      /\ stack'[w] # <<>> /\ stack'[w][1] = f /\ DOMAIN stack'[w] = DOMAIN stack[w]
      /\ \A n \in DOMAIN stack[w] : n # 1 => stack'[w][n] = stack[w][n]
  BY SetFrames
<1>2. StackOK'
  BY <1>1 DEF StackOK
<1>3. ASSUME NEW v \in Worker, NEW n \in DOMAIN stack'[v], v # w \/ n # 1
      PROVE  Moved(v, n)
  <2>1. CASE v # w
    BY <1>1, <2>1, Unmoved
  <2>2. CASE v = w
    <3>1. n \in DOMAIN stack[w] /\ stack'[w][n] = stack[w][n] /\ stack[w][n].pc = "dup"
      BY <1>1, <1>3, <2>2 DEF StackOK
    <3> QED
      BY <2>2, <3>1, KindsApart DEF Moved, Idle
  <2> QED
    BY <2>1, <2>2
<1>4. Top(w)' = stack'[w][1]
  BY <1>1 DEF Top
<1> QED
  BY <1>1, <1>2, <1>3, <1>4 DEF Others

LEMMA TopMoves ==
  ASSUME NEW w \in Worker, Others(w), stack'[w] # <<>>, Moved(w, 1)
  PROVE  Moves
BY DEF Others, Moves

LEMMA NewFrame ==
  ASSUME NEW b \in Bug
  PROVE  Frame(b) \in FrameType /\ Frame(b).pc = "get" /\ ~Frame(b).full
BY DownloadAssumption DEF Frame, FrameType, Pcs, Fetched

LEMMA CallMoves ==
  ASSUME StackOK, NEW w \in Worker, stack[w] = <<>> \/ Top(w).pc = "dup", NEW b \in Bug, Call(w, b)
  PROVE  StackOK' /\ Moves
<1>1. Frame(b) \in FrameType /\ Frame(b).pc = "get" /\ ~Frame(b).full
  BY NewFrame
<1>2. /\ stack' \in [Worker -> Seq(FrameType)]
      /\ \A v \in Worker \ {w} : stack'[v] = stack[v]
      /\ stack'[w] # <<>> /\ stack'[w][1] = Frame(b)
      /\ \A n \in DOMAIN stack'[w] : n # 1 => n - 1 \in DOMAIN stack[w] /\ stack'[w][n] = stack[w][n - 1]
  BY <1>1, CallFrames DEF Call
<1>3. ASSUME NEW n \in DOMAIN stack'[w], n # 1
      PROVE  n - 1 \in DOMAIN stack[w] /\ stack'[w][n] = stack[w][n - 1]
             /\ stack[w][n - 1].pc = "dup" /\ ~stack[w][n - 1].full
  <2>1. n - 1 \in DOMAIN stack[w] /\ stack'[w][n] = stack[w][n - 1]
    BY <1>2, <1>3
  <2>2. stack[w] # <<>>
    BY <2>1
  <2>3. stack[w][1].pc = "dup"
    BY <2>2, HeadOfFrames
  <2>4. stack[w][n - 1].pc = "dup"
    BY <2>1, <2>3 DEF StackOK
  <2> QED
    BY <2>1, <2>4, KindsApart DEF StackOK
<1>4. StackOK'
  BY <1>1, <1>2, <1>3 DEF StackOK
<1>5. ASSUME NEW v \in Worker, NEW n \in DOMAIN stack'[v]
      PROVE  Moved(v, n)
  <2>1. CASE v # w
    BY <1>2, <2>1, Unmoved
  <2>2. CASE v = w /\ n = 1
    BY <1>1, <1>2, <2>2 DEF Moved, Idle
  <2>3. CASE v = w /\ n # 1
    BY <1>3, <2>3, KindsApart DEF Moved, Idle
  <2> QED
    BY <2>1, <2>2, <2>3
<1> QED
  BY <1>4, <1>5 DEF Moves

LEMMA PopMoves ==
  ASSUME StackOK, NEW w \in Worker, stack[w] # <<>>, NEW f,
         stack' = [stack EXCEPT ![w] = IF Tail(stack[w]) = <<>> THEN <<>>
                                       ELSE <<f>> \o Tail(Tail(stack[w]))],
         Tail(stack[w]) # <<>> =>
           /\ f \in FrameType /\ f.pc \in {"write", "raise"}
           /\ f.bug = Head(Tail(stack[w])).bug /\ f.got = Head(Tail(stack[w])).got
           /\ f.full = Head(Tail(stack[w])).full
  PROVE  /\ StackOK' /\ Moves
         /\ stack'[w] # <<>> => stack'[w][1].pc \in {"write", "raise"}
         /\ \A v \in Worker \ {w} : stack'[v] = stack[v]
<1>1. /\ stack' \in [Worker -> Seq(FrameType)]
      /\ \A v \in Worker \ {w} : stack'[v] = stack[v]
      /\ \A n \in DOMAIN stack'[w] :
           /\ n + 1 \in DOMAIN stack[w]
           /\ n = 1 => Tail(stack[w]) # <<>> /\ stack'[w][n] = f
           /\ n # 1 => stack'[w][n] = stack[w][n + 1]
      /\ Tail(stack[w]) # <<>> => 2 \in DOMAIN stack[w] /\ Head(Tail(stack[w])) = stack[w][2]
                                  /\ Head(Tail(stack[w])) \in FrameType
  BY PopFrames
<1>2. Tail(stack[w]) # <<>> =>
        /\ f \in FrameType /\ f.pc \in {"write", "raise"} /\ ~f.full
        /\ f.bug = stack[w][2].bug /\ f.got = stack[w][2].got /\ 2 \in DOMAIN stack[w] /\ stack[w][2].pc = "dup"
  <2>1. 2 \in DOMAIN stack[w] => stack[w][2].pc = "dup" /\ ~stack[w][2].full
    BY KindsApart DEF StackOK
  <2> QED
    BY <1>1, <2>1
<1>3. ASSUME NEW n \in DOMAIN stack'[w], n # 1
      PROVE  n + 1 \in DOMAIN stack[w] /\ stack'[w][n] = stack[w][n + 1]
             /\ stack[w][n + 1].pc = "dup" /\ ~stack[w][n + 1].full
  <2>1. n + 1 \in DOMAIN stack[w] /\ stack'[w][n] = stack[w][n + 1]
    BY <1>1, <1>3
  <2>2. stack'[w] \in Seq(FrameType)
    BY <1>1
  <2>3. n \in Nat /\ n + 1 # 1
    BY <2>2, <1>3
  <2>4. stack[w][n + 1].pc = "dup"
    BY <2>1, <2>3 DEF StackOK
  <2> QED
    BY <2>1, <2>4, KindsApart DEF StackOK
<1>4. StackOK'
  <2>1. ASSUME NEW v \in Worker, NEW n \in DOMAIN stack'[v]
        PROVE  /\ n # 1 => stack'[v][n].pc = "dup"
               /\ stack'[v][n].pc \notin SavedKinds \cup {"raise"} => ~stack'[v][n].full
    <3>1. CASE v # w
      BY <1>1, <3>1 DEF StackOK
    <3>2. CASE v = w /\ n = 1
      BY <1>1, <1>2, <3>2
    <3>3. CASE v = w /\ n # 1
      <4>1. n \in DOMAIN stack'[w] /\ n # 1
        BY <3>3
      <4>2. stack'[w][n].pc = "dup" /\ ~stack'[w][n].full
        BY <1>3, <4>1
      <4> QED
        BY <3>3, <4>2
    <3> QED
      BY <3>1, <3>2, <3>3
  <2> QED
    BY <1>1, <2>1 DEF StackOK
<1>5. ASSUME NEW v \in Worker, NEW n \in DOMAIN stack'[v]
      PROVE  Moved(v, n)
  <2>1. CASE v # w
    BY <1>1, <2>1, Unmoved
  <2>2. CASE v = w /\ n = 1
    <3>1. stack'[w][1] = f /\ Tail(stack[w]) # <<>>
      BY <1>1, <2>2
    <3>2. /\ f.pc \notin SavedKinds /\ 2 \in DOMAIN stack[w]
          /\ f.bug = stack[w][2].bug /\ f.got = stack[w][2].got /\ stack[w][2].pc \notin Idle
      BY <1>2, <3>1, KindsApart DEF Idle
    <3>3. Moved(w, 1)
      BY <3>1, <3>2 DEF Moved
    <3> QED
      BY <2>2, <3>3
  <2>3. CASE v = w /\ n # 1
    <3>1. n \in DOMAIN stack'[w] /\ n # 1
      BY <2>3
    <3>2. /\ n + 1 \in DOMAIN stack[w] /\ stack'[w][n] = stack[w][n + 1]
          /\ stack[w][n + 1].pc \notin SavedKinds /\ stack[w][n + 1].pc \notin Idle
      BY <1>3, <3>1, KindsApart DEF Idle
    <3>3. Moved(w, n)
      BY <3>2 DEF Moved
    <3> QED
      BY <2>3, <3>3
  <2> QED
    BY <2>1, <2>2, <2>3
<1>6. stack'[w] # <<>> => stack'[w][1].pc \in {"write", "raise"}
  <2>1. stack'[w] \in Seq(FrameType)
    BY <1>1
  <2>2. stack'[w] # <<>> => 1 \in DOMAIN stack'[w]
    BY <2>1
  <2> QED
    BY <1>1, <1>2, <2>2
<1> QED
  BY <1>1, <1>4, <1>5, <1>6 DEF Moves

LEMMA GotoMoves ==
  ASSUME StackOK, NEW w \in Worker, stack[w] # <<>>, NEW pc \in {"dup", "write", "insert", "raise"},
         pc # "raise" => Top(w).pc \notin Idle \cup SavedKinds, Goto(w, pc)
  PROVE  StackOK' /\ Moves /\ stack'[w] # <<>> /\ Top(w)'.pc = pc
<1> DEFINE f == [Top(w) EXCEPT !.pc = pc]
<1>1. Top(w) \in FrameType /\ 1 \in DOMAIN stack[w] /\ Top(w) = stack[w][1]
  BY HeadOfFrames
<1>2. f \in FrameType /\ f.pc = pc /\ f.full = Top(w).full /\ f.bug = Top(w).bug /\ f.got = Top(w).got
  BY <1>1 DEF FrameType, Pcs
<1>3. pc \notin SavedKinds \cup {"raise"} => ~f.full
  BY <1>1, <1>2 DEF StackOK, Idle
<1>4. Set(w, f)
  BY DEF Goto
<1> HIDE DEF f
<1>5. StackOK' /\ Others(w) /\ stack'[w] # <<>> /\ Top(w)' = f /\ stack'[w][1] = f
  BY <1>2, <1>3, <1>4, SetMoves
<1>6. Moved(w, 1)
  BY <1>1, <1>2, <1>5, KindsApart DEF Moved, Idle
<1> QED
  BY <1>2, <1>5, <1>6, TopMoves

LEMMA RaiseMoves ==
  ASSUME StackOK, NEW w \in Worker, stack[w] # <<>>, Raise(w)
  PROVE  StackOK' /\ Moves /\ stack'[w] # <<>> /\ Top(w)'.pc = "raise"
BY GotoMoves DEF Raise

LEMMA ReturnMoves ==
  ASSUME StackOK, NEW w \in Worker, stack[w] # <<>>, NEW found \in SUBSET Bug, Return(w, found)
  PROVE  /\ StackOK' /\ Moves
         /\ stack'[w] # <<>> => stack'[w][1].pc \in {"write", "raise"}
         /\ \A v \in Worker \ {w} : stack'[v] = stack[v]
<1> DEFINE rest == Tail(stack[w])
           f == [Head(rest) EXCEPT !.dup = found, !.pc = "write"]
<1>1. stack' = [stack EXCEPT ![w] = IF Tail(stack[w]) = <<>> THEN <<>> ELSE <<f>> \o Tail(Tail(stack[w]))]
  BY DEF Return
<1>2. rest # <<>> => Head(rest) \in FrameType
  <2>1. stack[w] \in Seq(FrameType)
    BY HeadOfFrames
  <2>2. rest \in Seq(FrameType)
    BY <2>1
  <2> HIDE DEF rest
  <2> QED
    BY <2>2
<1> HIDE DEF rest
<1>3. rest # <<>> => /\ f \in FrameType /\ f.pc = "write" /\ f.bug = Head(rest).bug
                     /\ f.got = Head(rest).got /\ f.full = Head(rest).full
  BY <1>2 DEF FrameType, Pcs
<1> HIDE DEF f
<1> QED
  BY <1>1, <1>3, PopMoves DEF rest

LEMMA RetryMoves ==
  ASSUME StackOK, NEW w \in Worker, Retry(w)
  PROVE  StackOK' /\ Moves
<1> DEFINE rest == Tail(stack[w])
           f == [Head(rest) EXCEPT !.pc = "raise"]
           g == [Frame(Top(w).bug) EXCEPT !.tries = Top(w).tries - 1]
<1>1. stack[w] # <<>>
  BY DEF Retry, In
<1>2. Top(w) \in FrameType /\ stack[w] \in Seq(FrameType)
  BY <1>1, HeadOfFrames
<1>3. CASE Top(w).tries > 1
  <2>1. Set(w, g)
    BY <1>3 DEF Retry
  <2>2. g \in FrameType /\ g.pc = "get" /\ ~g.full
    <3>1. Top(w).bug \in Bug /\ Top(w).tries - 1 \in Nat
      BY <1>2, <1>3 DEF FrameType
    <3>2. Frame(Top(w).bug) \in FrameType /\ Frame(Top(w).bug).pc = "get" /\ ~Frame(Top(w).bug).full
      BY <3>1, NewFrame
    <3> QED
      BY <3>1, <3>2 DEF FrameType
  <2> HIDE DEF g
  <2>3. StackOK' /\ Others(w) /\ stack'[w] # <<>> /\ stack'[w][1] = g
    BY <1>1, <2>1, <2>2, SetMoves
  <2>4. Moved(w, 1)
    BY <2>2, <2>3 DEF Moved, Idle
  <2> QED
    BY <2>3, <2>4, TopMoves
<1>4. CASE ~(Top(w).tries > 1)
  <2>1. stack' = [stack EXCEPT ![w] = IF Tail(stack[w]) = <<>> THEN <<>> ELSE <<f>> \o Tail(Tail(stack[w]))]
    BY <1>4 DEF Retry
  <2>2. rest # <<>> => Head(rest) \in FrameType
    <3>1. rest \in Seq(FrameType)
      BY <1>1, <1>2
    <3> HIDE DEF rest
    <3> QED
      BY <3>1
  <2> HIDE DEF rest
  <2>3. rest # <<>> => /\ f \in FrameType /\ f.pc = "raise" /\ f.bug = Head(rest).bug
                       /\ f.got = Head(rest).got /\ f.full = Head(rest).full
    BY <2>2 DEF FrameType, Pcs
  <2> HIDE DEF f
  <2> QED
    BY <1>1, <2>1, <2>3, PopMoves DEF rest
<1> QED
  BY <1>3, <1>4

\* The steps of a download up to its row.
LEMMA FetchMoves ==
  ASSUME TypeInv, NEW w \in Worker,
         GetBug(w) \/ GetIssue(w) \/ SaveReporter(w) \/ SaveDuplicate(w)
  PROVE  StackOK' /\ Moves
<1> DEFINE b == Top(w).bug
<1>1. stack[w] # <<>> /\ StackOK
  BY DEF GetBug, GetIssue, SaveReporter, SaveDuplicate, In, TypeInv
<1>2. Top(w) \in FrameType /\ Top(w) = stack[w][1] /\ 1 \in DOMAIN stack[w]
  BY <1>1, HeadOfFrames
<1>3. b \in Bug /\ remote[b] \in Fetched
  BY <1>2 DEF FrameType, TypeInv, TablesOK
<1>4. ASSUME NEW pc \in {"reporter", "dup"}, Top(w).pc = "get",
             Set(w, [Top(w) EXCEPT !.got = remote[b], !.pc = pc])
      PROVE  StackOK' /\ Moves
  <2> DEFINE f == [Top(w) EXCEPT !.got = remote[b], !.pc = pc]
  <2>1. f \in FrameType /\ f.pc = pc /\ f.full = Top(w).full /\ f.got = remote[f.bug]
    BY <1>2, <1>3 DEF FrameType, Pcs
  <2>2. ~Top(w).full
    BY <1>1, <1>2, <1>4, KindsApart DEF StackOK
  <2>3. Set(w, f)
    BY <1>4
  <2> HIDE DEF f
  <2>4. StackOK' /\ Others(w) /\ stack'[w] # <<>> /\ stack'[w][1] = f
    BY <1>1, <2>1, <2>2, <2>3, SetMoves
  <2>5. Moved(w, 1)
    BY <2>1, <2>4, KindsApart DEF Moved
  <2> QED
    BY <2>4, <2>5, TopMoves
<1>5. CASE GetBug(w)
  <2>1. CASE Return(w, {b})
    BY <1>1, <1>3, <2>1, ReturnMoves
  <2>2. CASE Set(w, [Top(w) EXCEPT !.got = remote[b], !.pc = "reporter"])
    BY <1>4, <1>5, <2>2 DEF GetBug, In
  <2>3. CASE Raise(w)
    BY <1>1, <2>3, RaiseMoves
  <2> QED
    BY <1>5, <2>1, <2>2, <2>3 DEF GetBug
<1>6. CASE GetIssue(w)
  <2>1. CASE Return(w, {b}) \/ Return(w, {})
    BY <1>1, <1>3, <2>1, ReturnMoves
  <2>2. CASE Set(w, [Top(w) EXCEPT !.got = remote[b], !.pc = "dup"])
    BY <1>4, <1>6, <2>2 DEF GetIssue, In
  <2> QED
    BY <1>6, <2>1, <2>2 DEF GetIssue
<1>7. CASE SaveReporter(w)
  <2>1. CASE Goto(w, "dup")
    BY <1>1, <1>7, <2>1, GotoMoves, KindsApart DEF SaveReporter, In, Idle
  <2>2. CASE Raise(w)
    BY <1>1, <2>2, RaiseMoves
  <2> QED
    BY <1>7, <2>1, <2>2 DEF SaveReporter
<1>8. CASE SaveDuplicate(w)
  <2>1. CASE Goto(w, "write")
    BY <1>1, <1>8, <2>1, GotoMoves, KindsApart DEF SaveDuplicate, In, Idle
  <2>2. ASSUME NEW d \in Top(w).got.dup, Call(w, d)
        PROVE  StackOK' /\ Moves
    <3>1. d \in Bug
      BY <1>2 DEF FrameType, Fetched
    <3> QED
      BY <1>1, <1>8, <2>2, <3>1, CallMoves DEF SaveDuplicate, In
  <2> QED
    BY <1>8, <2>1, <2>2 DEF SaveDuplicate
<1> QED
  BY <1>5, <1>6, <1>7, <1>8

-----------------------------------------------------------------------------
(* Most steps store nothing that is new.                                   *)

\* Rows are only deleted, or made anonymous, and what lost rows is erased.
Thinned ==
  /\ \A r \in rows' : r \in rows \/ (r.user = Anonymous /\ \E q \in rows : q.item = r.item)
  /\ \A r \in rows : BugOf[r.item] \in erased' \/ \E q \in rows' : q.item = r.item
  /\ erased \subseteq erased'

StoresNothing ==
  /\ TypeInv' /\ Moves /\ Thinned
  /\ \A b \in Bug : remote[b].version <= remote'[b].version
  /\ Stored' \subseteq Stored
  /\ \A b \in Stored' : bugs'[b].version = bugs[b].version
  /\ \A b \in Stored' : \A x : <<b, x>> \in broken => <<b, x>> \in broken'
  /\ shared' = shared

coreVars == <<remote, bugs, rows, broken, erased, shared>>

LEMMA TablesKept ==
  ASSUME TablesOK, UNCHANGED coreVars
  PROVE  TablesOK'
BY DEF TablesOK, coreVars, Stored

LEMMA SameRows ==
  ASSUME UNCHANGED <<rows, erased>>
  PROVE  Thinned
BY DEF Thinned

LEMMA VersionsAre ==
  ASSUME TablesOK
  PROVE  /\ \A b \in Bug : remote[b].version \in Nat
         /\ \A b \in Stored : b \in Bug /\ bugs[b].version \in Nat
BY DEF TablesOK, Fetched, BugType

LEMMA StackStep ==
  ASSUME TypeInv, UNCHANGED coreVars, StackOK', Moves
  PROVE  StoresNothing
<1>1. TypeInv'
  BY TablesKept DEF TypeInv
<1>2. Thinned
  BY SameRows DEF coreVars
<1>3. \A b \in Bug : remote[b].version \in Nat
  BY VersionsAre DEF TypeInv
<1> QED
  BY <1>1, <1>2, <1>3 DEF StoresNothing, coreVars, Stored

LEMMA QuietStep ==
  ASSUME TypeInv, UNCHANGED coreVars, UNCHANGED stack
  PROVE  StoresNothing
BY SameStack, StackStep DEF TypeInv

LEMMA FetchStores ==
  ASSUME TypeInv, NEW w \in Worker,
         GetBug(w) \/ GetIssue(w) \/ SaveReporter(w) \/ SaveDuplicate(w) \/ Retry(w)
  PROVE  StoresNothing
<1>1. UNCHANGED coreVars
  BY DEF GetBug, GetIssue, SaveReporter, SaveDuplicate, Retry, storeVars, coreVars
<1>2. StackOK' /\ Moves
  BY FetchMoves, RetryMoves DEF TypeInv
<1> QED
  BY <1>1, <1>2, StackStep

LEMMA RemoteStores ==
  ASSUME TypeInv, NEW b \in Bug, RemoteChange(b) \/ (\E c \in Bug : RemoteDuplicate(b, c)),
         UNCHANGED stack
  PROVE  StoresNothing
<1>1. TablesOK /\ StackOK
  BY DEF TypeInv
<1>2. remote \in [Bug -> Fetched] /\ remote[b] \in Fetched
  BY <1>1 DEF TablesOK
<1>3. PICK d \in SUBSET Bug : remote' = [remote EXCEPT ![b] = [version |-> remote[b].version + 1, dup |-> d]]
  <2>1. CASE RemoteChange(b)
    BY <2>1 DEF RemoteChange
  <2>2. ASSUME NEW c \in Bug, RemoteDuplicate(b, c)
        PROVE  remote' = [remote EXCEPT ![b] = [version |-> remote[b].version + 1, dup |-> {c}]]
    BY <2>2 DEF RemoteDuplicate
  <2> QED
    BY <2>1, <2>2
<1>4. UNCHANGED <<bugs, rows, broken, erased, shared>>
  BY DEF RemoteChange, RemoteDuplicate
<1>5. [version |-> remote[b].version + 1, dup |-> d] \in Fetched
  BY <1>2 DEF Fetched
<1>6. remote' \in [Bug -> Fetched]
  BY <1>2, <1>3, <1>5
<1>7. \A c \in Bug : remote[c].version <= remote'[c].version
  BY <1>2, <1>3 DEF Fetched
<1>8. TypeInv' /\ Moves
  BY <1>1, <1>4, <1>6, SameStack DEF TypeInv, TablesOK, Stored
<1>9. Thinned
  BY <1>4, SameRows
<1> QED
  BY <1>4, <1>7, <1>8, <1>9 DEF StoresNothing, Stored

LEMMA EraseStores ==
  ASSUME TypeInv, NEW u \in User, EraseUser(u), UNCHANGED stack
  PROVE  StoresNothing
<1>1. TablesOK /\ StackOK
  BY DEF TypeInv
<1>2. UNCHANGED <<remote, broken, shared>> /\ u # Anonymous
  BY DEF EraseUser
<1>3. Stored' = Stored /\ \A b \in Stored : bugs'[b] = IF bugs[b].creator = u THEN [bugs[b] EXCEPT !.creator = Anonymous] ELSE bugs[b]
  BY DEF EraseUser, Stored
<1>4. \A b \in Stored : bugs'[b] \in BugType /\ bugs'[b].version = bugs[b].version
  <2> SUFFICES ASSUME NEW b \in Stored
               PROVE  bugs'[b] \in BugType /\ bugs'[b].version = bugs[b].version
    OBVIOUS
  <2>1. bugs[b] \in BugType
    BY <1>1 DEF TablesOK
  <2>2. [bugs[b] EXCEPT !.creator = Anonymous] \in BugType
        /\ [bugs[b] EXCEPT !.creator = Anonymous].version = bugs[b].version
    BY <2>1 DEF BugType
  <2> QED
    BY <1>3, <2>1, <2>2
<1>5. \A r \in rows : r.item \in Item /\ [r EXCEPT !.user = Anonymous] \in PartType
        /\ [r EXCEPT !.user = Anonymous].item = r.item /\ [r EXCEPT !.user = Anonymous].user = Anonymous
  BY <1>1 DEF TablesOK, PartType
<1>6. rows' = {IF r.user = u THEN [r EXCEPT !.user = Anonymous] ELSE r :
                 r \in {q \in rows : q.user # u \/ KindOf[q.item] = "history"}}
  BY DEF EraseUser, EraseRows
<1>7. ASSUME NEW r \in rows'
      PROVE  /\ r \in rows \/ (r.user = Anonymous /\ \E q \in rows : q.item = r.item)
             /\ r \in PartType /\ r.user \in {AuthorOf[r.item], Anonymous}
  <2>1. PICK q \in rows : r = IF q.user = u THEN [q EXCEPT !.user = Anonymous] ELSE q
    BY <1>6
  <2> QED
    BY <1>1, <1>5, <2>1 DEF TablesOK
<1>8. ASSUME NEW r \in rows
      PROVE  BugOf[r.item] \in erased' \/ \E q \in rows' : q.item = r.item
  <2>1. CASE r.user # u
    <3>1. r \in rows'
      BY <1>6, <2>1
    <3> QED
      BY <3>1
  <2>2. CASE r.user = u /\ KindOf[r.item] = "history"
    <3>1. [r EXCEPT !.user = Anonymous] \in rows'
      BY <1>6, <2>2
    <3> QED
      BY <1>5, <3>1
  <2>3. CASE r.user = u /\ KindOf[r.item] # "history"
    BY <2>3 DEF EraseUser
  <2> QED
    BY <2>1, <2>2, <2>3
<1>9. erased \subseteq erased'
  BY DEF EraseUser
<1>10. Thinned
  BY <1>7, <1>8, <1>9 DEF Thinned
<1>11. TypeInv' /\ Moves
  <2>1. TablesOK'
    BY <1>1, <1>2, <1>3, <1>4, <1>7 DEF TablesOK
  <2> QED
    BY <1>1, <2>1, SameStack DEF TypeInv
<1> QED
  BY <1>1, <1>2, <1>3, <1>4, <1>10, <1>11, VersionsAre DEF StoresNothing

LEMMA DeletionStores ==
  ASSUME TypeInv, NEW w \in Worker, DeletionStep(w)
  PROVE  StoresNothing
<1>1. TablesOK /\ StackOK /\ UNCHANGED stack
  BY DEF TypeInv, DeletionStep, NextDeletion, ForgetDuplicates, DeleteParts, DeleteLinks, DeleteBug,
         EndDeletion, storeVars, downloadVars
<1>2. StackOK' /\ Moves
  BY <1>1, SameStack
<1>3. CASE NextDeletion(w) \/ DeleteLinks(w) \/ EndDeletion(w)
  <2>1. UNCHANGED coreVars
    BY <1>3 DEF NextDeletion, DeleteLinks, EndDeletion, storeVars, coreVars
  <2> QED
    BY <1>1, <2>1, QuietStep
<1>4. CASE ForgetDuplicates(w)
  <2>1. UNCHANGED <<remote, rows, broken, erased, shared>>
    BY <1>4 DEF ForgetDuplicates
  <2>2. Stored' = Stored /\ \A b \in Stored : bugs'[b] = [bugs[b] EXCEPT !.dup = bugs[b].dup \ job[w].at]
    BY <1>4 DEF ForgetDuplicates, Stored
  <2>3. \A b \in Stored : bugs'[b] \in BugType /\ bugs'[b].version = bugs[b].version
    <3> SUFFICES ASSUME NEW b \in Stored
                 PROVE  bugs'[b] \in BugType /\ bugs'[b].version = bugs[b].version
      OBVIOUS
    <3>1. bugs[b] \in BugType
      BY <1>1 DEF TablesOK
    <3>2. [bugs[b] EXCEPT !.dup = bugs[b].dup \ job[w].at] \in BugType
          /\ [bugs[b] EXCEPT !.dup = bugs[b].dup \ job[w].at].version = bugs[b].version
      BY <3>1 DEF BugType
    <3> QED
      BY <2>2, <3>2
  <2>4. TypeInv'
    BY <1>1, <1>2, <2>1, <2>2, <2>3 DEF TypeInv, TablesOK
  <2> QED
    BY <1>1, <1>2, <2>1, <2>2, <2>3, <2>4, SameRows, VersionsAre DEF StoresNothing
<1>5. CASE DeleteParts(w)
  <2>1. UNCHANGED <<remote, bugs, broken, shared>>
    BY <1>5 DEF DeleteParts
  <2>2. PICK kind \in Kind :
          \/ UNCHANGED <<rows, erased>>
          \/ LET gone == {r \in rows : BugOf[r.item] \in job[w].at /\ KindOf[r.item] = kind} IN
             rows' = rows \ gone /\ erased' = IF gone = {} THEN erased ELSE erased \cup job[w].at
    BY <1>5 DEF DeleteParts
  <2>3. Thinned /\ rows' \subseteq rows
    <3>1. CASE UNCHANGED <<rows, erased>>
      BY <3>1, SameRows
    <3>2. CASE ~UNCHANGED <<rows, erased>>
      <4> DEFINE gone == {r \in rows : BugOf[r.item] \in job[w].at /\ KindOf[r.item] = kind}
      <4>1. rows' = rows \ gone /\ erased' = IF gone = {} THEN erased ELSE erased \cup job[w].at
        BY <2>2, <3>2
      <4>2. \A r \in gone : BugOf[r.item] \in erased'
        BY <4>1
      <4> QED
        BY <4>1, <4>2 DEF Thinned
    <3> QED
      BY <3>1, <3>2
  <2>4. TypeInv'
    BY <1>1, <1>2, <2>1, <2>3 DEF TypeInv, TablesOK, Stored
  <2> QED
    BY <1>1, <1>2, <2>1, <2>3, <2>4, VersionsAre DEF StoresNothing, Stored
<1>6. CASE DeleteBug(w)
  <2>1. UNCHANGED <<remote, rows, erased, shared>>
    BY <1>6 DEF DeleteBug
  <2>2. PICK b : \/ UNCHANGED <<bugs, broken>>
                 \/ /\ bugs' = [c \in Stored \ {b} |-> bugs[c]]
                    /\ broken' = {x \in broken : x[1] # b}
    BY <1>6 DEF DeleteBug
  <2>3. /\ Stored' \subseteq Stored /\ \A c \in Stored' : bugs'[c] = bugs[c]
        /\ \A c \in Stored' : \A x : <<c, x>> \in broken => <<c, x>> \in broken'
    BY <2>2 DEF Stored
  <2>4. TypeInv'
    BY <1>1, <1>2, <2>1, <2>3 DEF TypeInv, TablesOK
  <2> QED
    BY <1>1, <1>2, <2>1, <2>3, <2>4, SameRows, VersionsAre DEF StoresNothing
<1> QED
  BY <1>3, <1>4, <1>5, <1>6 DEF DeletionStep

\* What processes do between downloads, and what is begun.
LEMMA KillMoves ==
  ASSUME StackOK, NEW w \in Worker, stack' = [stack EXCEPT ![w] = <<>>]
  PROVE  StackOK' /\ Moves
<1>1. stack' \in [Worker -> Seq(FrameType)] /\ stack'[w] = <<>> /\ \A v \in Worker \ {w} : stack'[v] = stack[v]
  BY DEF StackOK
<1>2. DOMAIN <<>> = {}
  OBVIOUS
<1>3. StackOK'
  BY <1>1, <1>2 DEF StackOK
<1> QED
  BY <1>1, <1>2, <1>3, Unmoved DEF Moves

LEMMA BugsOfPairs ==
  ASSUME JobOK, NEW w \in Worker, job[w].kind \in {"attach", "centos"},
         NEW a \in job[w].left \cup job[w].at
  PROVE  a[1] \in Report /\ a[2] \in Bug
BY ActionAssumption, BugAssumption DEF JobOK

LEMMA ActionStores ==
  ASSUME TypeInv, JobOK, NEW w \in Worker, ActionStep(w) \/ Start(w) \/ Kill(w)
  PROVE  StoresNothing
<1>1. StackOK
  BY DEF TypeInv
<1>2. UNCHANGED coreVars
  BY DEF ActionStep, NextBug, EndBugs, NextPair, SkipLinked, LinkBug, NotDownloaded, EndPairs,
         Start, PullBugs, UpdateBugs, SaveAttachments, DeleteRelease, AttachCentosBugs, Begin, Kill,
         storeVars, coreVars
<1>3. ASSUME NEW b \in Bug, stack[w] = <<>>, Call(w, b)
      PROVE  StoresNothing
  BY <1>1, <1>2, <1>3, CallMoves, StackStep
<1>4. CASE NextBug(w)
  <2>1. PICK b \in job[w].left : Call(w, b)
    BY <1>4 DEF NextBug
  <2>2. b \in Bug /\ stack[w] = <<>>
    BY <1>4 DEF NextBug, Doing, JobOK
  <2> QED
    BY <1>3, <2>1, <2>2
<1>5. CASE NextPair(w)
  <2>1. PICK a \in job[w].left : UNCHANGED stack \/ Call(w, a[2])
    BY <1>5 DEF NextPair
  <2>2. a[2] \in Bug /\ stack[w] = <<>>
    BY <1>5, BugsOfPairs DEF NextPair, Doing
  <2> QED
    BY <1>2, <1>3, <2>1, <2>2, QuietStep
<1>6. CASE Kill(w)
  BY <1>1, <1>2, <1>6, KillMoves, StackStep DEF Kill
<1>7. CASE EndBugs(w) \/ SkipLinked(w) \/ LinkBug(w) \/ NotDownloaded(w) \/ EndPairs(w) \/ Start(w)
  <2>1. UNCHANGED stack
    BY <1>7 DEF EndBugs, SkipLinked, LinkBug, NotDownloaded, EndPairs, Start, PullBugs, UpdateBugs,
           SaveAttachments, DeleteRelease, AttachCentosBugs, Begin, downloadVars
  <2> QED
    BY <1>2, <2>1, QuietStep
<1> QED
  BY <1>4, <1>5, <1>6, <1>7 DEF ActionStep

LEMMA AfterSteps ==
  ASSUME NEW step \in {"dups", "comment", "cc", "history", "attachment", "links"}
  PROVE  After(step) \in {DeleteOrder[n] : n \in 1 .. 7}
<1> DEFINE k == CHOOSE n \in 1 .. 7 : DeleteOrder[n] = step
<1>1. \E n \in 1 .. 7 : DeleteOrder[n] = step
  <2>1. /\ DeleteOrder[1] = "dups" /\ DeleteOrder[2] = "comment" /\ DeleteOrder[3] = "cc"
        /\ DeleteOrder[4] = "history" /\ DeleteOrder[5] = "attachment" /\ DeleteOrder[6] = "links"
    BY DEF DeleteOrder
  <2>2. {1, 2, 3, 4, 5, 6} \subseteq 1 .. 7
    OBVIOUS
  <2> QED
    BY <2>1, <2>2
<1>2. k \in 1 .. 7 /\ DeleteOrder[k] = step
  BY <1>1
<1>3. k # 7
  BY <1>2 DEF DeleteOrder
<1>4. After(step) = DeleteOrder[k + 1]
  BY DEF After
<1> HIDE DEF k
<1> QED
  BY <1>2, <1>3, <1>4

LEMMA JobSet ==
  ASSUME JobOK, NEW w \in Worker, NEW j \in JobType, job' = [job EXCEPT ![w] = j],
         j.kind \in {"pull", "update"} => j.left \subseteq Bug,
         j.kind = "attach" => j.left \cup j.at \subseteq Attachment,
         j.kind = "centos" => j.left \cup j.at \subseteq Report \X Mantis
  PROVE  JobOK'
<1>1. job' \in [Worker -> JobType] /\ job'[w] = j /\ \A v \in Worker \ {w} : job'[v] = job[v]
  BY DEF JobOK
<1> QED
  BY <1>1 DEF JobOK

LEMMA Steps == "next" \in {"next", "done", "link"} \cup {DeleteOrder[n] : n \in 1 .. 7}
               /\ "dups" \in {DeleteOrder[n] : n \in 1 .. 7}
<1>1. DeleteOrder[1] = "dups" /\ 1 \in 1 .. 7
  BY DEF DeleteOrder
<1> QED
  BY <1>1

LEMMA BeginJob ==
  ASSUME TypeInv, JobOK, NEW w \in Worker, Start(w)
  PROVE  JobOK'
<1>1. ASSUME NEW kind \in {"pull", "update", "attach", "centos", "delete"}, NEW left, Begin(w, kind, left),
             left \subseteq Thing, kind \in {"pull", "update"} => left \subseteq Bug,
             kind = "attach" => left \subseteq Attachment, kind = "centos" => left \subseteq Report \X Mantis
      PROVE  JobOK'
  <2> DEFINE j == [NoJob EXCEPT !.kind = kind, !.left = left]
  <2>1. NoJob \in JobType /\ NoJob.at = {}
    BY Steps DEF JobType, NoJob
  <2>2. j \in JobType /\ j.kind = kind /\ j.left = left /\ j.at = {}
    BY <1>1, <2>1 DEF JobType
  <2>3. job' = [job EXCEPT ![w] = j]
    BY <1>1 DEF Begin
  <2> HIDE DEF j
  <2> QED
    BY <1>1, <2>2, <2>3, JobSet
<1>2. Stored \subseteq Bug
  BY DEF TypeInv, TablesOK
<1>3. ASSUME NEW s \in SUBSET Bug, PullBugs(w, s)
      PROVE  JobOK'
  BY <1>1, <1>3 DEF PullBugs, Thing
<1>4. CASE UpdateBugs(w)
  BY <1>1, <1>2, <1>4 DEF UpdateBugs, Thing
<1>5. CASE SaveAttachments(w)
  BY <1>1, <1>5 DEF SaveAttachments, Thing
<1>6. CASE DeleteRelease(w)
  <2>1. Doomed \cap Stored \subseteq Thing
    BY <1>2 DEF Thing
  <2> QED
    BY <1>1, <1>6, <2>1 DEF DeleteRelease
<1>7. ASSUME NEW s \in SUBSET (Report \X Mantis), AttachCentosBugs(w, s)
      PROVE  JobOK'
  BY <1>1, <1>7 DEF AttachCentosBugs, Thing
<1> QED
  BY <1>3, <1>4, <1>5, <1>6, <1>7 DEF Start

LEMMA ProceedJob ==
  ASSUME JobOK, NEW w \in Worker, NEW j \in JobType, job' = [job EXCEPT ![w] = j],
         j.kind = job[w].kind, j.left \subseteq job[w].left, j.at \subseteq job[w].left \cup job[w].at
  PROVE  JobOK'
<1>1. /\ j.kind \in {"pull", "update"} => j.left \subseteq Bug
      /\ j.kind = "attach" => j.left \cup j.at \subseteq Attachment
      /\ j.kind = "centos" => j.left \cup j.at \subseteq Report \X Mantis
  BY DEF JobOK
<1> QED
  BY <1>1, JobSet

LEMMA RestJob ==
  ASSUME JobOK, NEW w \in Worker, Rest(w)
  PROVE  JobOK'
<1>1. NoJob \in JobType /\ NoJob.kind = "none"
  BY Steps DEF JobType, NoJob
<1> QED
  BY <1>1, JobSet DEF Rest

LEMMA ActionJob ==
  ASSUME JobOK, NEW w \in Worker, ActionStep(w) \/ DeletionStep(w) \/ Kill(w)
  PROVE  JobOK'
<1>1. job[w] \in JobType
  BY DEF JobOK
<1>2. ASSUME NEW j, job' = [job EXCEPT ![w] = j], j \in JobType,
             j.kind = job[w].kind, j.left \subseteq job[w].left, j.at \subseteq job[w].left \cup job[w].at
      PROVE  JobOK'
  BY <1>2, ProceedJob
<1>3. CASE UNCHANGED job
  BY <1>3 DEF JobOK
<1>4. CASE Rest(w)
  BY <1>4, RestJob
<1>5. ASSUME NEW b \in job[w].left, job' = [job EXCEPT ![w].left = @ \ {b}]
      PROVE  JobOK'
  <2> DEFINE j == [job[w] EXCEPT !.left = job[w].left \ {b}]
  <2>1. j \in JobType /\ j.kind = job[w].kind /\ j.left = job[w].left \ {b} /\ j.at = job[w].at
    BY <1>1 DEF JobType
  <2>2. job' = [job EXCEPT ![w] = j]
    BY <1>5
  <2> HIDE DEF j
  <2> QED
    BY <1>2, <2>1, <2>2
<1>6. ASSUME NEW a \in job[w].left, NEW step \in {"done", "link", "dups"},
             job' = [job EXCEPT ![w].left = @ \ {a}, ![w].at = {a}, ![w].step = step]
             \/ job' = [job EXCEPT ![w].at = {a}, ![w].left = @ \ {a}, ![w].step = step]
      PROVE  JobOK'
  <2> DEFINE j == [job[w] EXCEPT !.left = job[w].left \ {a}, !.at = {a}, !.step = step]
             i == [job[w] EXCEPT !.at = {a}, !.left = job[w].left \ {a}, !.step = step]
  <2>1. {a} \subseteq Thing /\ job[w].left \ {a} \subseteq Thing
    BY <1>1 DEF JobType
  <2>2. /\ j \in JobType /\ j.kind = job[w].kind /\ j.left = job[w].left \ {a} /\ j.at = {a}
        /\ i \in JobType /\ i.kind = job[w].kind /\ i.left = job[w].left \ {a} /\ i.at = {a}
    BY <1>1, <2>1, Steps DEF JobType
  <2>3. job' = [job EXCEPT ![w] = j] \/ job' = [job EXCEPT ![w] = i]
    BY <1>1, <1>6 DEF JobOK
  <2> HIDE DEF j, i
  <2> QED
    BY <1>2, <2>2, <2>3
<1>7. CASE job' = [job EXCEPT ![w].step = "next", ![w].at = {}]
  <2> DEFINE j == [job[w] EXCEPT !.step = "next", !.at = {}]
  <2>1. j \in JobType /\ j.kind = job[w].kind /\ j.left = job[w].left /\ j.at = {}
    BY <1>1, Steps DEF JobType
  <2>2. job' = [job EXCEPT ![w] = j]
    BY <1>1, <1>7 DEF JobOK
  <2> HIDE DEF j
  <2> QED
    BY <1>2, <2>1, <2>2
<1>8. ASSUME NEW step \in {"dups", "comment", "cc", "history", "attachment", "links"}, GoOn(w, step)
      PROVE  JobOK'
  <2> DEFINE j == [job[w] EXCEPT !.step = After(step)]
  <2>1. After(step) \in {DeleteOrder[n] : n \in 1 .. 7}
    BY AfterSteps
  <2>2. j \in JobType /\ j.kind = job[w].kind /\ j.left = job[w].left /\ j.at = job[w].at
    BY <1>1, <2>1 DEF JobType
  <2>3. job' = [job EXCEPT ![w] = j]
    BY <1>8 DEF GoOn
  <2> HIDE DEF j
  <2> QED
    BY <1>2, <2>2, <2>3
<1>9. CASE ActionStep(w) \/ Kill(w)
  BY <1>3, <1>4, <1>5, <1>6, <1>7, <1>9
     DEF ActionStep, NextBug, EndBugs, NextPair, SkipLinked, LinkBug, NotDownloaded, EndPairs, Kill, Proceed
<1>10. CASE DeletionStep(w)
  BY <1>3, <1>4, <1>6, <1>7, <1>8, <1>10
     DEF DeletionStep, NextDeletion, ForgetDuplicates, DeleteParts, DeleteLinks, DeleteBug, EndDeletion, Kind
<1> QED
  BY <1>9, <1>10

-----------------------------------------------------------------------------
(* The steps that store something.                                         *)

\* The row of the bug is written; the parts of one in Bugzilla come next.
Writes(w) ==
  /\ stack[w] # <<>> /\ Top(w).pc \in {"write", "insert"}
  /\ Write(w) /\ UNCHANGED <<remote, rows, erased>>
  /\ TypeInv' /\ Others(w)
  /\ \/ Top(w).bug \in Mantis /\ Moves
     \/ /\ stack'[w] # <<>> /\ stack'[w][1].bug = Top(w).bug /\ stack'[w][1].got = Top(w).got
        /\ stack'[w][1].pc = "cc" /\ ~stack'[w][1].full

LEMMA WriteStores ==
  ASSUME TypeInv, NEW w \in Worker, WriteBug(w) \/ InsertBug(w)
  PROVE  StoresNothing \/ Writes(w)
<1> DEFINE b == Top(w).bug
<1>1. stack[w] # <<>> /\ StackOK /\ TablesOK /\ Top(w).pc \in {"write", "insert"}
  BY DEF WriteBug, InsertBug, In, TypeInv
<1>2. Top(w) \in FrameType /\ Top(w) = stack[w][1] /\ 1 \in DOMAIN stack[w]
  BY <1>1, HeadOfFrames
<1>3. UNCHANGED <<remote, rows, erased>>
  BY DEF WriteBug, InsertBug
<1>4. CASE Raise(w) /\ UNCHANGED <<bugs, broken, shared>>
  BY <1>1, <1>3, <1>4, RaiseMoves, StackStep DEF coreVars
<1>6. CASE WriteBug(w) /\ Goto(w, "insert") /\ UNCHANGED <<bugs, broken, shared>>
  BY <1>1, <1>3, <1>6, KindsApart, GotoMoves, StackStep DEF WriteBug, In, Idle, coreVars
<1>5. CASE Write(w) /\ (IF b \in Mantis THEN Return(w, {b}) ELSE Goto(w, "cc"))
  <2>1. b \in Bug /\ Top(w).got \in Fetched /\ Top(w).dup \subseteq Bug
    BY <1>2 DEF FrameType
  <2>2. NewRow(w) \in BugType
    BY <2>1, BugAssumption DEF NewRow, BugType, Fetched
  <2>3. Stored' = Stored \cup {b} /\ \A c \in Stored' : bugs'[c] = IF c = b THEN NewRow(w) ELSE bugs[c]
    BY <1>5 DEF Write, Put, Stored
  <2>4. TablesOK'
    BY <1>1, <1>3, <2>1, <2>2, <2>3 DEF TablesOK
  <2>5. CASE b \in Mantis
    <3>1. StackOK' /\ Moves
      BY <1>1, <1>5, <2>1, <2>5, ReturnMoves
    <3> QED
      BY <1>1, <1>3, <1>5, <2>4, <2>5, <3>1 DEF Writes, TypeInv, Moves, Others
  <2>6. CASE b \notin Mantis
    <3> DEFINE f == [Top(w) EXCEPT !.pc = "cc"]
    <3>1. f \in FrameType /\ f.pc = "cc" /\ f.bug = b /\ f.got = Top(w).got /\ f.full = Top(w).full
      BY <1>2, KindsApart DEF FrameType, Pcs
    <3>2. ~f.full
      BY <1>1, <1>2, <3>1, KindsApart DEF StackOK
    <3>3. Set(w, f)
      BY <1>5, <2>6 DEF Goto
    <3> HIDE DEF f
    <3>4. StackOK' /\ Others(w) /\ stack'[w] # <<>> /\ stack'[w][1] = f
      BY <1>1, <3>1, <3>2, <3>3, SetMoves
    <3> QED
      BY <1>1, <1>3, <1>5, <2>4, <3>1, <3>2, <3>4 DEF Writes, TypeInv
  <2> QED
    BY <2>5, <2>6
<1> QED
  BY <1>4, <1>5, <1>6 DEF WriteBug, InsertBug

LEMMA PartIs ==
  ASSUME NEW i \in Item, NEW u \in User \cup {Anonymous}, NEW x \in (Worker \cup {"web"}) \X Nat, NEW about \in SUBSET Item
  PROVE  Row(i, u, x, about) \in PartType /\ Row(i, u, x, about).item = i /\ Row(i, u, x, about).user = u
BY DEF Row, PartType

\* What has no row is in the session.
Collects(w, kind) ==
  /\ stack[w] # <<>> /\ Top(w).pc = kind
  /\ UNCHANGED coreVars /\ TypeInv' /\ Others(w)
  /\ LET f == stack'[w][1]
         new == {i \in Shown(w, kind) : ~Has(i) /\ Known(i)}
     IN /\ stack'[w] # <<>> /\ f.bug = Top(w).bug /\ f.got = Top(w).got /\ f.pc = kind
        /\ \A i \in new : \E p \in f.pending : p.item = i
        /\ \A p \in f.pending : p.item \in new
        /\ \A p, q \in f.pending : p.item = q.item => p = q

LEMMA CollectStores ==
  ASSUME TypeInv, NEW w \in Worker, NEW kind \in SavedKinds, Collect(w, kind)
  PROVE  Collects(w, kind)
<1> DEFINE new == {i \in Shown(w, kind) : ~Has(i) /\ Known(i)}
           P(i) == Row(i, AuthorOf[i], <<w, Top(w).got.version>>, AboutNow(i))
           f == [Top(w) EXCEPT !.full = TRUE, !.pending = {P(i) : i \in new}]
<1>1. stack[w] # <<>> /\ StackOK /\ TablesOK /\ Top(w).pc = kind
  BY DEF Collect, In, TypeInv
<1>2. Top(w) \in FrameType /\ Top(w).got.version \in Nat
  BY <1>1, HeadOfFrames DEF FrameType, Fetched
<1>3. ASSUME NEW i \in new
      PROVE  P(i) \in PartType /\ P(i).item = i /\ P(i).user = AuthorOf[i]
  <2>1. i \in Item /\ AuthorOf[i] \in User /\ AboutNow(i) \subseteq Item
    BY BugAssumption DEF Shown, AboutNow
  <2>2. <<w, Top(w).got.version>> \in (Worker \cup {"web"}) \X Nat
    BY <1>2
  <2> QED
    BY <2>1, <2>2, PartIs
<1>4. UNCHANGED coreVars /\ Set(w, f)
  BY DEF Collect, coreVars
<1> HIDE DEF new, P
<1>5. {P(i) : i \in new} \subseteq {p \in PartType : p.user = AuthorOf[p.item]}
  BY <1>3
<1>6. f \in FrameType /\ f.pc = kind /\ f.bug = Top(w).bug /\ f.got = Top(w).got /\ f.pending = {P(i) : i \in new}
  BY <1>1, <1>2, <1>5 DEF FrameType
<1> HIDE DEF f
<1>7. StackOK' /\ Others(w) /\ stack'[w] # <<>> /\ stack'[w][1] = f
  BY <1>1, <1>4, <1>6, SetMoves
<1>8. TypeInv'
  BY <1>1, <1>4, <1>7, TablesKept DEF TypeInv
<1>9. /\ \A i \in new : \E p \in f.pending : p.item = i
      /\ \A p \in f.pending : p.item \in new
      /\ \A p, q \in f.pending : p.item = q.item => p = q
  BY <1>3, <1>6
<1> QED
  BY <1>1, <1>4, <1>6, <1>7, <1>8, <1>9 DEF Collects, new

\* The order in which the parts of a bug are saved.
Place == [k \in {"cc", "history", "attachment", "comment"} |->
            CASE k = "cc" -> 1 [] k = "history" -> 2 [] k = "attachment" -> 3 [] k = "comment" -> 4]

LEMMA NextKinds ==
  ASSUME NEW kind \in SavedKinds
  PROVE  /\ \A k \in NextKind(kind) :
              /\ k \in SavedKinds /\ Place[k] > Place[kind]
              /\ \A l \in SavedKinds : Place[l] < Place[k] => Place[l] <= Place[kind]
         /\ NextKind(kind) = {} => \A l \in SavedKinds : Place[l] <= Place[kind]
<1> DEFINE order == <<"cc", "history", "attachment", "comment">>
           n == CHOOSE n \in 1 .. 4 : order[n] = kind
           later == {m \in n + 1 .. 4 : order[m] \in SavedKinds}
           next == CHOOSE m \in later : \A l \in later : m <= l
<1>1. \A m \in 1 .. 4 : order[m] \in {"cc", "history", "attachment", "comment"} /\ Place[order[m]] = m
  BY DEF Place
<1>2. \A l \in SavedKinds : Place[l] \in 1 .. 4 /\ order[Place[l]] = l
  BY KindsApart DEF Place
<1>3. n \in 1 .. 4 /\ order[n] = kind
  BY <1>2
<1>4. Place[kind] = n
  BY <1>1, <1>3
<1>5. NextKind(kind) = IF later = {} THEN {} ELSE {order[next]}
  BY DEF NextKind
<1> HIDE DEF order, n
<1>6. later # {} => next \in later /\ \A l \in later : next <= l
  <2> SUFFICES ASSUME later # {}
               PROVE  \E m \in later : \A l \in later : m <= l
    OBVIOUS
  <2>1. later \subseteq 1 .. 4
    BY <1>3
  <2> HIDE DEF later
  <2>2. CASE 1 \in later
    <3>1. \A l \in later : 1 <= l
      BY <2>1
    <3> QED
      BY <2>2, <3>1
  <2>3. CASE 1 \notin later /\ 2 \in later
    <3>1. \A l \in later : 2 <= l
      BY <2>1, <2>3
    <3> QED
      BY <2>3, <3>1
  <2>4. CASE 1 \notin later /\ 2 \notin later /\ 3 \in later
    <3>1. \A l \in later : 3 <= l
      BY <2>1, <2>4
    <3> QED
      BY <2>4, <3>1
  <2>5. CASE 1 \notin later /\ 2 \notin later /\ 3 \notin later
    <3>1. \A l \in later : l = 4
      BY <2>1, <2>5
    <3> QED
      BY <3>1
  <2> QED
    BY <2>2, <2>3, <2>4, <2>5
<1>7. \A l \in SavedKinds : Place[l] > n => Place[l] \in later
  BY <1>2, <1>3
<1>8. \A m \in later : order[m] \in SavedKinds /\ Place[order[m]] = m /\ m > n /\ m \in Nat
  BY <1>1, <1>3
<1> HIDE DEF later, next
<1>9. ASSUME NEW k \in NextKind(kind)
      PROVE  /\ k \in SavedKinds /\ Place[k] > Place[kind]
             /\ \A l \in SavedKinds : Place[l] < Place[k] => Place[l] <= Place[kind]
  <2>1. later # {} /\ k = order[next]
    BY <1>5, <1>9
  <2>2. next \in later /\ \A l \in later : next <= l
    BY <1>6, <2>1
  <2>3. k \in SavedKinds /\ Place[k] = next /\ next > n /\ next \in Nat
    BY <1>8, <2>1, <2>2
  <2>4. ASSUME NEW l \in SavedKinds, Place[l] < Place[k]
        PROVE  Place[l] <= Place[kind]
    <3>1. Place[l] \in 1 .. 4
      BY <1>2
    <3>2. Place[l] \notin later
      BY <2>2, <2>3, <2>4, <3>1
    <3> QED
      BY <1>3, <1>4, <1>7, <3>1, <3>2
  <2> QED
    BY <1>4, <2>3, <2>4
<1>10. NextKind(kind) = {} => \A l \in SavedKinds : Place[l] <= Place[kind]
  BY <1>2, <1>3, <1>4, <1>5, <1>7
<1> QED
  BY <1>9, <1>10

\* What the session holds is written, and the next parts come, or the bug is saved.
Flushes(w, kind) ==
  /\ stack[w] # <<>> /\ Top(w).pc = kind /\ Top(w).full /\ ~Refused(w)
  /\ rows' = rows \cup Top(w).pending /\ UNCHANGED <<remote, bugs, erased, shared>>
  /\ TypeInv' /\ Others(w)
  /\ \/ /\ stack'[w] # <<>> /\ stack'[w][1].pc \in NextKind(kind)
        /\ stack'[w][1].bug = Top(w).bug /\ stack'[w][1].got = Top(w).got
        /\ ~stack'[w][1].full /\ stack'[w][1].pending = {}
        /\ UNCHANGED broken
     \/ /\ NextKind(kind) = {} /\ Moves /\ Whole(w)
        /\ stack'[w] # <<>> => stack'[w][1].pc \notin SavedKinds
        /\ \A v \in Worker \ {w} : stack'[v] = stack[v]

LEMMA FlushStores ==
  ASSUME TypeInv, NEW w \in Worker, NEW kind \in SavedKinds, FlushParts(w, kind)
  PROVE  StoresNothing \/ Flushes(w, kind)
<1>1. stack[w] # <<>> /\ StackOK /\ TablesOK /\ Top(w).pc = kind /\ Top(w).full
      /\ UNCHANGED <<remote, bugs, erased, shared>>
  BY DEF FlushParts, In, TypeInv
<1>2. Top(w) \in FrameType /\ Top(w) = stack[w][1] /\ 1 \in DOMAIN stack[w]
  BY <1>1, HeadOfFrames
<1>3. CASE Refused(w)
  <2>1. UNCHANGED coreVars /\ Raise(w)
    BY <1>1, <1>3 DEF FlushParts, coreVars
  <2> QED
    BY <1>1, <2>1, RaiseMoves, StackStep
<1>4. CASE ~Refused(w)
  <2>1. rows' = rows \cup Top(w).pending
    BY <1>4 DEF FlushParts
  <2>2. Top(w).pending \subseteq {p \in PartType : p.user = AuthorOf[p.item]}
    BY <1>2 DEF FrameType
  <2>3. TablesOK'
    BY <1>1, <2>1, <2>2 DEF TablesOK, Stored
  <2>4. CASE NextKind(kind) # {}
    <3>1. PICK k \in NextKind(kind) : Set(w, [Top(w) EXCEPT !.pc = k, !.full = FALSE, !.pending = {}])
      BY <1>4, <2>4 DEF FlushParts
    <3> DEFINE f == [Top(w) EXCEPT !.pc = k, !.full = FALSE, !.pending = {}]
    <3>2. k \in SavedKinds
      BY NextKinds
    <3>3. f \in FrameType /\ f.pc = k /\ ~f.full /\ f.pending = {} /\ f.bug = Top(w).bug /\ f.got = Top(w).got
      BY <1>2, <3>2 DEF FrameType, Pcs
    <3>4. Set(w, f)
      BY <3>1
    <3> HIDE DEF f
    <3>5. StackOK' /\ Others(w) /\ stack'[w] # <<>> /\ stack'[w][1] = f
      BY <1>1, <3>3, <3>4, SetMoves
    <3>6. UNCHANGED broken
      BY <1>4, <2>4 DEF FlushParts
    <3> QED
      BY <1>1, <1>4, <2>1, <2>3, <3>3, <3>5, <3>6 DEF Flushes, TypeInv
  <2>5. CASE NextKind(kind) = {}
    <3>1. Return(w, {Top(w).bug}) /\ Whole(w)
      BY <1>4, <2>5 DEF FlushParts
    <3>2. {Top(w).bug} \subseteq Bug
      BY <1>2 DEF FrameType
    <3>3. /\ StackOK' /\ Moves
          /\ stack'[w] # <<>> => stack'[w][1].pc \in {"write", "raise"}
          /\ \A v \in Worker \ {w} : stack'[v] = stack[v]
      BY <1>1, <3>1, <3>2, ReturnMoves
    <3> QED
      BY <1>1, <1>4, <2>1, <2>3, <2>5, <3>1, <3>3, KindsApart DEF Flushes, TypeInv, Moves, Others
  <2> QED
    BY <2>4, <2>5
<1> QED
  BY <1>3, <1>4

\* A part that the session held is written ahead of the others, and a request
\* for one of these fails or does not.
Spills(w, i) ==
  /\ stack[w] # <<>> /\ Top(w).pc \in SavedKinds /\ ~Top(w).full /\ i \in Shown(w, Top(w).pc) /\ ~Has(i)
  /\ \E p \in PartType : p.item = i /\ p.user = AuthorOf[i] /\ rows' = rows \cup {p}
  /\ UNCHANGED <<remote, bugs, broken, erased, shared>>
  /\ TypeInv' /\ Moves /\ (UNCHANGED stack \/ (stack'[w] # <<>> /\ Top(w)'.pc = "raise"))

LEMMA PartSpills ==
  ASSUME TypeInv, NEW w \in Worker, NEW kind \in SavedKinds, In(w, kind), ~Top(w).full,
         NEW i \in {j \in Shown(w, kind) : ~Has(j) /\ AuthorOf[j] \in users},
         rows' = rows \cup {Row(i, AuthorOf[i], <<w, Top(w).got.version>>, AboutNow(i))},
         UNCHANGED <<remote, bugs, broken, erased, shared>>,
         StackOK', Moves, UNCHANGED stack \/ (stack'[w] # <<>> /\ Top(w)'.pc = "raise")
  PROVE  \E j \in Item : Spills(w, j)
<1>1. stack[w] # <<>> /\ StackOK /\ TablesOK
  BY DEF TypeInv, In
<1>2. QED
  <2> DEFINE p == Row(i, AuthorOf[i], <<w, Top(w).got.version>>, AboutNow(i))
  <2>1. i \in Item /\ AuthorOf[i] \in User /\ AboutNow(i) \subseteq Item
    BY BugAssumption DEF Shown, AboutNow
  <2>2. Top(w).got.version \in Nat
    BY <1>1, HeadOfFrames DEF FrameType, Fetched
  <2>3. p \in PartType /\ p.item = i /\ p.user = AuthorOf[i]
    BY <2>1, <2>2, PartIs
  <2>4. rows' = rows \cup {p} /\ Top(w).pc = kind
    BY DEF In
  <2> HIDE DEF p
  <2>5. TablesOK'
    BY <1>1, <2>3, <2>4 DEF TablesOK, Stored
  <2> QED
    BY <1>1, <2>1, <2>3, <2>4, <2>5 DEF Spills, TypeInv

LEMMA FailureStores ==
  ASSUME TypeInv, NEW w \in Worker, RequestFails(w)
  PROVE  StoresNothing \/ \E i \in Item : Spills(w, i)
<1>1. stack[w] # <<>> /\ StackOK /\ TablesOK /\ Raise(w) /\ ~Top(w).full
      /\ UNCHANGED <<remote, bugs, broken, erased, shared>>
  BY DEF RequestFails, TypeInv
<1>2. StackOK' /\ Moves /\ stack'[w] # <<>> /\ Top(w)'.pc = "raise"
  BY <1>1, RaiseMoves
<1>3. CASE UNCHANGED rows
  BY <1>1, <1>2, <1>3, StackStep DEF coreVars
<1>4. ASSUME NEW kind \in SavedKinds, NEW i \in {j \in Shown(w, kind) : ~Has(j) /\ AuthorOf[j] \in users},
             In(w, kind), rows' = rows \cup {Row(i, AuthorOf[i], <<w, Top(w).got.version>>, AboutNow(i))}
      PROVE  \E j \in Item : Spills(w, j)
  BY <1>1, <1>2, <1>4, PartSpills
<1> QED
  BY <1>3, <1>4 DEF RequestFails

LEMMA SpillStores ==
  ASSUME TypeInv, NEW w \in Worker, NEW kind \in SavedKinds, SpillPart(w, kind)
  PROVE  \E i \in Item : Spills(w, i)
<1>1. In(w, kind) /\ ~Top(w).full /\ UNCHANGED <<stack, remote, bugs, broken, erased, shared>>
  BY DEF SpillPart, downloadVars
<1>2. PICK i \in {j \in Shown(w, kind) : ~Has(j) /\ AuthorOf[j] \in users} :
        rows' = rows \cup {Row(i, AuthorOf[i], <<w, Top(w).got.version>>, AboutNow(i))}
  BY DEF SpillPart
<1>3. StackOK' /\ Moves
  BY <1>1, SameStack DEF TypeInv
<1>4. UNCHANGED <<remote, bugs, broken, erased, shared>> /\ UNCHANGED stack
  BY <1>1
<1>5. \E j \in Item : Spills(w, j)
  BY <1>1, <1>2, <1>3, <1>4, PartSpills
<1> QED
  BY <1>5

\* The web application stores a bug, with all, some or none of its parts.
Imports(b) ==
  /\ UNCHANGED <<remote, erased, stack>> /\ TypeInv'
  /\ Stored' = Stored \cup {b} /\ bugs'[b].version = remote[b].version
  /\ \A c \in Stored \ {b} : bugs'[c] = bugs[c]
  /\ shared' = IF Holders(b) # {} THEN shared \cup {b} ELSE shared
  /\ \/ b \in Mantis /\ UNCHANGED <<rows, broken>>
     \/ /\ b \notin Stored
        /\ \E kinds \in SUBSET Kind :
             LET parts == {i \in ItemsOf(b) : KindOf[i] \in kinds \cap SavedKinds /\ Known(i) /\ ~Has(i)} IN
             /\ rows \subseteq rows'
             /\ \A r \in rows' \ rows : r.item \in parts /\ r.user = AuthorOf[r.item]
             /\ \A r, q \in rows' \ rows : r.item = q.item => r = q
             /\ \A i \in parts : \E r \in rows' : r.item = i
             /\ broken' = IF SavedKinds \subseteq kinds THEN broken ELSE broken \cup {<<b, "web">>}

LEMMA IssueStores ==
  ASSUME TypeInv, NEW r \in Report, NEW b \in Bug, AssociateIssue(r, b)
  PROVE  Imports(b)
<1> DEFINE new == [version |-> remote[b].version, dup |-> {}, creator |-> Anonymous]
<1>1. StackOK /\ TablesOK /\ b \in Mantis /\ UNCHANGED <<remote, rows, broken, erased, stack>>
      /\ shared' = IF Holders(b) # {} THEN shared \cup {b} ELSE shared
  BY DEF TypeInv, AssociateIssue, downloadVars
<1>2. new \in BugType /\ new.version = remote[b].version
  BY <1>1 DEF TablesOK, BugType, Fetched
<1>3. bugs' = Put(bugs, b, new)
  BY DEF AssociateIssue
<1> HIDE DEF new
<1>4. Stored' = Stored \cup {b} /\ \A c \in Stored' : bugs'[c] = IF c = b THEN new ELSE bugs[c]
  BY <1>3 DEF Put, Stored
<1>5. TypeInv'
  BY <1>1, <1>2, <1>4 DEF TypeInv, TablesOK, StackOK
<1> QED
  BY <1>1, <1>2, <1>4, <1>5 DEF Imports

LEMMA NewStores ==
  ASSUME TypeInv, NEW report \in Report, NEW b \in Bug, AssociateNew(report, b)
  PROVE  Imports(b)
<1> DEFINE new == [version |-> remote[b].version, dup |-> {}, creator |-> CreatorOf[b]]
           Parts(kinds) == {i \in ItemsOf(b) : KindOf[i] \in kinds \cap SavedKinds /\ Known(i) /\ ~Has(i)}
           P(i, kinds) == Row(i, AuthorOf[i], <<"web", remote[b].version>>, AboutOf[i] \cap Parts(kinds))
<1>1. StackOK /\ TablesOK /\ b \notin Stored /\ UNCHANGED <<remote, erased, stack>>
      /\ shared' = IF Holders(b) # {} THEN shared \cup {b} ELSE shared
  BY DEF TypeInv, AssociateNew, downloadVars
<1>2. PICK kinds \in {{}, {"cc"}, {"cc", "history"}, Kind} :
        /\ rows' = rows \cup {P(i, kinds) : i \in Parts(kinds)}
        /\ broken' = IF SavedKinds \subseteq kinds THEN broken ELSE broken \cup {<<b, "web">>}
  BY DEF AssociateNew
<1>3. kinds \in SUBSET Kind
  BY DEF Kind
<1>4. remote[b].version \in Nat
  BY <1>1 DEF TablesOK, Fetched
<1>5. new \in BugType /\ new.version = remote[b].version
  BY <1>4, BugAssumption DEF BugType
<1>6. bugs' = Put(bugs, b, new)
  BY DEF AssociateNew
<1>7. ASSUME NEW i \in Parts(kinds)
      PROVE  P(i, kinds) \in PartType /\ P(i, kinds).item = i /\ P(i, kinds).user = AuthorOf[i]
  <2>1. i \in Item /\ AuthorOf[i] \in User /\ AboutOf[i] \cap Parts(kinds) \subseteq Item
    BY BugAssumption DEF ItemsOf
  <2>2. <<"web", remote[b].version>> \in (Worker \cup {"web"}) \X Nat
    BY <1>4
  <2> QED
    BY <2>1, <2>2, PartIs
<1> HIDE DEF new, P, Parts
<1>8. Stored' = Stored \cup {b} /\ \A c \in Stored' : bugs'[c] = IF c = b THEN new ELSE bugs[c]
  BY <1>6 DEF Put, Stored
<1>9. /\ rows \subseteq rows'
      /\ \A r \in rows' \ rows : r.item \in Parts(kinds) /\ r.user = AuthorOf[r.item] /\ r \in PartType
      /\ \A r, q \in rows' \ rows : r.item = q.item => r = q
      /\ \A i \in Parts(kinds) : \E r \in rows' : r.item = i
  BY <1>2, <1>7
<1>10. TypeInv'
  <2>1. \A r \in rows' : r \in PartType /\ r.user \in {AuthorOf[r.item], Anonymous}
    BY <1>1, <1>9 DEF TablesOK
  <2> QED
    BY <1>1, <1>5, <1>8, <2>1 DEF TypeInv, TablesOK, StackOK
<1> QED
  BY <1>1, <1>2, <1>3, <1>5, <1>8, <1>9, <1>10 DEF Imports, Parts

LEMMA StepKinds ==
  ASSUME TypeInv, JobOK, [Next]_vars
  PROVE  \/ StoresNothing
         \/ \E w \in Worker : \/ Writes(w)
                              \/ \E kind \in SavedKinds : Collects(w, kind) \/ Flushes(w, kind)
                              \/ \E i \in Item : Spills(w, i)
         \/ \E b \in Bug : Imports(b)
<1>1. CASE UNCHANGED vars
  BY <1>1, QuietStep DEF vars, storeVars, downloadVars, coreVars
<1>2. CASE Outside
  <2>1. ASSUME NEW b \in Bug, RemoteChange(b) \/ (\E c \in Bug : RemoteDuplicate(b, c)), UNCHANGED downloadVars
        PROVE  StoresNothing
    BY <2>1, RemoteStores DEF downloadVars
  <2>2. ASSUME NEW a \in Attachment, Upload(a)
        PROVE  StoresNothing
    BY <2>2, QuietStep DEF Upload, storeVars, downloadVars, coreVars
  <2> QED
    BY <1>2, <2>1, <2>2 DEF Outside
<1>3. CASE Web
  <2>1. ASSUME NEW r \in Report, NEW b \in Bug, AssociateStored(r, b)
        PROVE  StoresNothing
    BY <2>1, QuietStep DEF AssociateStored, downloadVars, coreVars
  <2>2. ASSUME NEW r \in Report, NEW b \in Bug, Dissociate(r, b), UNCHANGED downloadVars
        PROVE  StoresNothing
    BY <2>2, QuietStep DEF Dissociate, downloadVars, coreVars
  <2>3. ASSUME NEW u \in User, EraseUser(u), UNCHANGED downloadVars
        PROVE  StoresNothing
    BY <2>3, EraseStores DEF downloadVars
  <2> QED
    BY <1>3, <2>1, <2>2, <2>3, IssueStores, NewStores DEF Web
<1>4. ASSUME NEW w \in Worker, Start(w) \/ Mishap(w) \/ Run(w)
      PROVE  \/ StoresNothing
             \/ Writes(w)
             \/ \E kind \in SavedKinds : Collects(w, kind) \/ Flushes(w, kind)
             \/ \E i \in Item : Spills(w, i)
  <2>1. CASE ActionStep(w) \/ Start(w) \/ Kill(w)
    BY <2>1, ActionStores
  <2>2. CASE DeletionStep(w)
    BY <2>2, DeletionStores
  <2>3. CASE RequestFails(w)
    BY <2>3, FailureStores
  <2>4. CASE DownloadStep(w)
    BY <2>4, FetchStores, WriteStores, SpillStores, CollectStores, FlushStores DEF DownloadStep
  <2> QED
    BY <1>4, <2>1, <2>2, <2>3, <2>4 DEF Mishap, Run
<1> QED
  BY <1>1, <1>2, <1>3, <1>4 DEF Next

-----------------------------------------------------------------------------
(* Types are kept.                                                         *)

BaseInv == TypeInv /\ JobOK

LEMMA InitBase ==
  ASSUME Init
  PROVE  BaseInv
<1>1. stack \in [Worker -> Seq(FrameType)] /\ \A w \in Worker : DOMAIN stack[w] = {}
  BY DEF Init, DownloadInit
<1>2. StackOK
  BY <1>1 DEF StackOK
<1>3. TablesOK
  BY DEF Init, StoreInit, TablesOK, Stored, Fetched
<1>4. NoJob \in JobType /\ NoJob.kind = "none"
  BY Steps DEF JobType, NoJob
<1>5. JobOK
  BY <1>4 DEF Init, ActionInit, JobOK
<1> QED
  BY <1>2, <1>3, <1>5 DEF BaseInv, TypeInv

LEMMA NextJob ==
  ASSUME TypeInv, JobOK, [Next]_vars
  PROVE  JobOK'
<1>1. CASE UNCHANGED job
  BY <1>1 DEF JobOK
<1>2. CASE Outside \/ Web \/ UNCHANGED vars
  BY <1>1, <1>2 DEF Outside, Web, vars, actionVars, Upload, AssociateStored, AssociateIssue, AssociateNew
<1>3. ASSUME NEW w \in Worker, Start(w) \/ Mishap(w) \/ Run(w)
      PROVE  JobOK'
  BY <1>1, <1>3, BeginJob, ActionJob DEF Mishap, Run, actionVars
<1> QED
  BY <1>2, <1>3 DEF Next

LEMMA NextBase ==
  ASSUME BaseInv, [Next]_vars
  PROVE  BaseInv'
<1>1. JobOK'
  BY NextJob DEF BaseInv
<1>2. TypeInv'
  BY StepKinds DEF BaseInv, StoresNothing, Writes, Collects, Flushes, Spills, Imports
<1> QED
  BY <1>1, <1>2 DEF BaseInv

\* Types (storage/bugtracker.py, storage/bugzilla.py, storage/mantisbt.py): the rows
\* of bugs and parts, the stack of downloads of a process, of which only the
\* innermost is past fetching its bug, and what its action has before it.
THEOREM BaseAlways == Spec => []BaseInv
<1>1. Init => BaseInv
  BY InitBase
<1>2. BaseInv /\ [Next]_vars => BaseInv'
  BY NextBase
<1> QED
  BY <1>1, <1>2, PTL DEF Spec

-----------------------------------------------------------------------------
(* Versions.                                                               *)

\* What a download has fetched is no newer than the tracker; and it is no older
\* than the row, unless two wrote the bug at once.
VersionInv ==
  /\ \A b \in Stored : bugs[b].version <= remote[b].version
  /\ \A v \in Worker : \A n \in DOMAIN stack[v] :
       LET f == stack[v][n] IN
       f.pc \notin Idle =>
         /\ f.got.version <= remote[f.bug].version
         /\ f.bug \in shared \/ f.bug \notin Stored \/ bugs[f.bug].version <= f.got.version

\* A download that holds a version has just fetched it, or held it before the step.
Carried(v, n) ==
  LET f == stack'[v][n] IN
  \/ f.pc \in Idle
  \/ f.got.version = remote[f.bug].version
  \/ \E m \in DOMAIN stack[v] : /\ f.bug = stack[v][m].bug /\ f.got = stack[v][m].got
                                /\ stack[v][m].pc \notin Idle

LEMMA MovedIsCarried ==
  ASSUME StackOK, NEW v \in Worker, NEW n \in DOMAIN stack'[v], Moved(v, n)
  PROVE  Carried(v, n)
<1>1. stack[v] # <<>> => 1 \in DOMAIN stack[v]
  BY HeadOfFrames
<1> QED
  BY <1>1 DEF Moved, Carried

LEMMA TopIsCarried ==
  ASSUME StackOK, NEW w \in Worker, Others(w), stack[w] # <<>>, Top(w).pc \notin Idle,
         stack'[w][1].bug = Top(w).bug, stack'[w][1].got = Top(w).got
  PROVE  \A v \in Worker : \A n \in DOMAIN stack'[v] : Carried(v, n)
<1>1. 1 \in DOMAIN stack[w] /\ Top(w) = stack[w][1]
  BY HeadOfFrames
<1>2. Carried(w, 1)
  BY <1>1 DEF Carried
<1> QED
  BY <1>2, MovedIsCarried DEF Others

LEMMA AllCarried ==
  ASSUME TypeInv, NEW w \in Worker,
         \/ StoresNothing \/ Writes(w)
         \/ \E kind \in SavedKinds : Collects(w, kind) \/ Flushes(w, kind)
         \/ \E i \in Item : Spills(w, i)
  PROVE  \A v \in Worker : \A n \in DOMAIN stack'[v] : Carried(v, n)
<1>1. StackOK
  BY DEF TypeInv
<1>2. CASE Moves
  BY <1>1, <1>2, MovedIsCarried DEF Moves
<1>3. CASE ~Moves
  <2>1. /\ Others(w) /\ stack[w] # <<>> /\ Top(w).pc \in {"write", "insert"} \cup SavedKinds
        /\ stack'[w][1].bug = Top(w).bug /\ stack'[w][1].got = Top(w).got
    BY <1>3 DEF StoresNothing, Writes, Collects, Flushes, Spills
  <2>2. Top(w).pc \notin Idle
    BY <2>1, KindsApart DEF Idle
  <2> QED
    BY <1>1, <2>1, <2>2, TopIsCarried
<1> QED
  BY <1>2, <1>3

LEMMA FramesAre ==
  ASSUME StackOK, NEW v \in Worker, NEW n \in DOMAIN stack[v]
  PROVE  stack[v][n] \in FrameType /\ stack[v][n].bug \in Bug /\ stack[v][n].got.version \in Nat
<1>1. stack[v] \in Seq(FrameType)
  BY DEF StackOK
<1>2. stack[v][n] \in FrameType
  BY <1>1
<1> QED
  BY <1>2 DEF FrameType, Fetched

\* When the rows keep their versions.
LEMMA QuietVersions ==
  ASSUME TypeInv, VersionInv, TypeInv',
         \A v \in Worker : \A n \in DOMAIN stack'[v] : Carried(v, n),
         \A b \in Bug : remote[b].version <= remote'[b].version,
         Stored' \subseteq Stored, \A b \in Stored' : bugs'[b].version = bugs[b].version,
         shared \subseteq shared'
  PROVE  VersionInv'
<1>1. /\ \A b \in Bug : remote[b].version \in Nat /\ remote'[b].version \in Nat
      /\ \A b \in Stored : b \in Bug /\ bugs[b].version \in Nat
  BY DEF TypeInv, TablesOK, Fetched, BugType
<1>2. \A b \in Stored' : bugs'[b].version <= remote'[b].version
  BY <1>1 DEF VersionInv
<1>3. ASSUME NEW v \in Worker, NEW n \in DOMAIN stack'[v], stack'[v][n].pc \notin Idle
      PROVE  LET f == stack'[v][n] IN
             /\ f.got.version <= remote'[f.bug].version
             /\ f.bug \in shared' \/ f.bug \notin Stored' \/ bugs'[f.bug].version <= f.got.version
  <2> DEFINE f == stack'[v][n]
  <2>1. f.bug \in Bug /\ f.got.version \in Nat
    <3>1. stack'[v] \in Seq(FrameType)
      BY DEF TypeInv, StackOK
    <3>2. stack'[v][n] \in FrameType
      BY <3>1
    <3> QED
      BY <3>2 DEF FrameType, Fetched
  <2>2. CASE f.got.version = remote[f.bug].version
    BY <1>1, <2>1, <2>2 DEF VersionInv
  <2>3. ASSUME NEW m \in DOMAIN stack[v], f.bug = stack[v][m].bug, f.got = stack[v][m].got,
               stack[v][m].pc \notin Idle
        PROVE  /\ f.got.version <= remote'[f.bug].version
               /\ f.bug \in shared' \/ f.bug \notin Stored' \/ bugs'[f.bug].version <= f.got.version
    <3>1. /\ f.got.version <= remote[f.bug].version
          /\ f.bug \in shared \/ f.bug \notin Stored \/ bugs[f.bug].version <= f.got.version
      BY <2>3 DEF VersionInv
    <3> QED
      BY <1>1, <2>1, <3>1
  <2> QED
    BY <1>3, <2>2, <2>3 DEF Carried
<1> QED
  BY <1>2, <1>3 DEF VersionInv

LEMMA WrittenVersions ==
  ASSUME TypeInv, VersionInv, NEW w \in Worker, Writes(w)
  PROVE  /\ VersionInv'
         /\ \A b \in Stored \cap Stored' : bugs'[b].version < bugs[b].version => b \in shared'
<1> DEFINE b == Top(w).bug
<1>1. StackOK /\ TypeInv' /\ Write(w) /\ UNCHANGED remote /\ stack[w] # <<>> /\ Top(w).pc \in {"write", "insert"}
  BY DEF Writes, TypeInv
<1>2. Top(w) \in FrameType /\ Top(w) = stack[w][1] /\ 1 \in DOMAIN stack[w]
  BY <1>1, HeadOfFrames
<1>3. b \in Bug /\ Top(w).got.version \in Nat /\ Top(w).pc \notin Idle
  BY <1>1, <1>2 DEF FrameType, Fetched, Idle
<1>4. /\ Stored' = Stored \cup {b} /\ bugs'[b].version = Top(w).got.version
      /\ \A c \in Stored \ {b} : bugs'[c] = bugs[c]
      /\ shared' = IF HeldBeside(w, b) THEN shared \cup {b} ELSE shared
  BY <1>1 DEF Write, Put, Stored, NewRow
<1>5. /\ Top(w).got.version <= remote[b].version
      /\ b \in shared \/ b \notin Stored \/ bugs[b].version <= Top(w).got.version
  BY <1>2, <1>3 DEF VersionInv
<1>6. /\ \A c \in Bug : remote[c].version \in Nat
      /\ \A c \in Stored : c \in Bug /\ bugs[c].version \in Nat
  BY VersionsAre DEF TypeInv
<1>7. \A c \in Stored' : bugs'[c].version <= remote'[c].version
  BY <1>1, <1>4, <1>5 DEF VersionInv
<1>8. ASSUME NEW v \in Worker, NEW n \in DOMAIN stack'[v], stack'[v][n].pc \notin Idle
      PROVE  LET f == stack'[v][n] IN
             /\ f.got.version <= remote'[f.bug].version
             /\ f.bug \in shared' \/ f.bug \notin Stored' \/ bugs'[f.bug].version <= f.got.version
  <2> DEFINE f == stack'[v][n]
  <2>1. Carried(v, n)
    BY AllCarried
  <2>2. f.bug \in Bug /\ f.got.version \in Nat
    <3>1. stack'[v] \in Seq(FrameType)
      BY <1>1 DEF TypeInv, StackOK
    <3>2. stack'[v][n] \in FrameType
      BY <3>1
    <3> QED
      BY <3>2 DEF FrameType, Fetched
  <2>3. CASE f.got.version = remote[f.bug].version
    BY <1>1, <1>6, <1>7, <2>2, <2>3
  <2>4. ASSUME NEW m \in DOMAIN stack[v], f.bug = stack[v][m].bug, f.got = stack[v][m].got,
               stack[v][m].pc \notin Idle
        PROVE  /\ f.got.version <= remote'[f.bug].version
               /\ f.bug \in shared' \/ f.bug \notin Stored' \/ bugs'[f.bug].version <= f.got.version
    <3>1. /\ f.got.version <= remote[f.bug].version
          /\ f.bug \in shared \/ f.bug \notin Stored \/ bugs[f.bug].version <= f.got.version
      BY <2>4 DEF VersionInv
    <3>2. CASE f.bug # b
      BY <1>1, <1>4, <3>1, <3>2
    <3>3. CASE f.bug = b /\ v = w /\ m = 1
      <4>1. f.got = Top(w).got
        BY <1>2, <2>4, <3>3
      <4> QED
        BY <1>1, <1>3, <1>4, <3>1, <3>3, <4>1
    <3>4. CASE f.bug = b /\ (v # w \/ m # 1)
      <4>1. Holds(v, m, b)
        BY <2>4, <3>4 DEF Holds, Idle
      <4>2. HeldBeside(w, b)
        BY <2>4, <3>4, <4>1 DEF HeldBeside, Holders
      <4> QED
        BY <1>1, <1>4, <3>1, <3>4, <4>2
    <3> QED
      BY <3>2, <3>3, <3>4
  <2> QED
    BY <1>8, <2>1, <2>3, <2>4 DEF Carried
<1>9. VersionInv'
  BY <1>7, <1>8 DEF VersionInv
<1>10. \A c \in Stored \cap Stored' : bugs'[c].version < bugs[c].version => c \in shared'
  BY <1>3, <1>4, <1>5, <1>6
<1> QED
  BY <1>9, <1>10

LEMMA ImportedVersions ==
  ASSUME TypeInv, VersionInv, NEW b \in Bug, Imports(b)
  PROVE  /\ VersionInv'
         /\ \A c \in Stored \cap Stored' : bugs'[c].version < bugs[c].version => c \in shared'
<1>1. /\ UNCHANGED <<remote, stack>>
      /\ Stored' = Stored \cup {b} /\ bugs'[b].version = remote[b].version
      /\ \A c \in Stored \ {b} : bugs'[c] = bugs[c]
      /\ shared' = IF Holders(b) # {} THEN shared \cup {b} ELSE shared
  BY DEF Imports
<1>2. /\ \A c \in Bug : remote[c].version \in Nat
      /\ \A c \in Stored : c \in Bug /\ bugs[c].version \in Nat
  BY VersionsAre DEF TypeInv
<1>3. \A c \in Stored' : bugs'[c].version <= remote'[c].version
  BY <1>1, <1>2 DEF VersionInv
<1>4. ASSUME NEW v \in Worker, NEW n \in DOMAIN stack[v], stack[v][n].pc \notin Idle
      PROVE  LET f == stack[v][n] IN
             /\ f.got.version <= remote'[f.bug].version
             /\ f.bug \in shared' \/ f.bug \notin Stored' \/ bugs'[f.bug].version <= f.got.version
  <2> DEFINE f == stack[v][n]
  <2>1. /\ f.got.version <= remote[f.bug].version
        /\ f.bug \in shared \/ f.bug \notin Stored \/ bugs[f.bug].version <= f.got.version
    BY <1>4 DEF VersionInv
  <2>2. f.bug = b => Holds(v, n, b)
    BY <1>4 DEF Holds, Idle
  <2>3. f.bug = b => b \in shared'
    BY <1>1, <2>2 DEF Holders
  <2> QED
    BY <1>1, <2>1, <2>3
<1>5. VersionInv'
  BY <1>1, <1>3, <1>4 DEF VersionInv
<1>6. \A c \in Stored \cap Stored' : bugs'[c].version < bugs[c].version => c \in shared'
  BY <1>1, <1>2 DEF VersionInv
<1> QED
  BY <1>5, <1>6

LEMMA NextVersions ==
  ASSUME BaseInv, VersionInv, [Next]_vars
  PROVE  /\ VersionInv'
         /\ \A b \in Stored \cap Stored' : bugs'[b].version < bugs[b].version => b \in shared'
<1>1. /\ TypeInv /\ \A b \in Bug : remote[b].version \in Nat
      /\ \A b \in Stored : b \in Bug /\ bugs[b].version \in Nat
  BY VersionsAre DEF BaseInv, TypeInv
<1>2. CASE StoresNothing
  <2>1. /\ \A v \in Worker : \A n \in DOMAIN stack'[v] : Carried(v, n)
    BY <1>1, <1>2, MovedIsCarried DEF StoresNothing, Moves, TypeInv
  <2>2. /\ TypeInv' /\ \A b \in Bug : remote[b].version <= remote'[b].version
        /\ Stored' \subseteq Stored /\ \A b \in Stored' : bugs'[b].version = bugs[b].version
        /\ shared \subseteq shared'
    BY <1>2 DEF StoresNothing
  <2>3. VersionInv'
    BY <1>1, <2>1, <2>2, QuietVersions
  <2> QED
    BY <1>1, <2>2, <2>3
<1>3. ASSUME NEW w \in Worker, \/ \E kind \in SavedKinds : Collects(w, kind) \/ Flushes(w, kind)
                               \/ \E i \in Item : Spills(w, i)
      PROVE  /\ VersionInv'
             /\ \A b \in Stored \cap Stored' : bugs'[b].version < bugs[b].version => b \in shared'
  <2>1. \A v \in Worker : \A n \in DOMAIN stack'[v] : Carried(v, n)
    BY <1>1, <1>3, AllCarried
  <2>2. TypeInv' /\ UNCHANGED <<remote, bugs, shared>>
    BY <1>3 DEF Collects, Flushes, Spills, coreVars
  <2>3. \A b \in Bug : remote[b].version <= remote'[b].version
    BY <1>1, <2>2
  <2>4. Stored' = Stored
    BY <2>2 DEF Stored
  <2>5. VersionInv'
    BY <1>1, <2>1, <2>2, <2>3, <2>4, QuietVersions
  <2> QED
    BY <1>1, <2>2, <2>4, <2>5
<1>4. ASSUME NEW w \in Worker, Writes(w)
      PROVE  /\ VersionInv'
             /\ \A b \in Stored \cap Stored' : bugs'[b].version < bugs[b].version => b \in shared'
  BY <1>1, <1>4, WrittenVersions
<1>5. ASSUME NEW b \in Bug, Imports(b)
      PROVE  /\ VersionInv'
             /\ \A c \in Stored \cap Stored' : bugs'[c].version < bugs[c].version => c \in shared'
  BY <1>1, <1>5, ImportedVersions
<1> QED
  BY <1>2, <1>3, <1>4, <1>5, StepKinds DEF BaseInv

\* NeverBackUnlessShared (bugzilla.py, download_bug_to_storage): the row of a bug
\* never goes back to an older version, unless the bug was written by two at once,
\* for any trackers, processes, bugs and numbers of attempts.
THEOREM NeverBackUnlessSharedAlways == Spec => NeverBackUnlessShared
<1>1. Init => VersionInv
  BY DEF Init, StoreInit, DownloadInit, Stored, VersionInv
<1>2. BaseInv /\ VersionInv /\ [Next]_vars => VersionInv'
  BY NextVersions
<1>3. BaseInv /\ VersionInv /\ [Next]_vars =>
        [\A b \in Stored \cap Stored' : bugs'[b].version < bugs[b].version => b \in shared']_vars
  BY NextVersions
<1> QED
  BY <1>1, <1>2, <1>3, BaseAlways, PTL DEF Spec, NeverBackUnlessShared

-----------------------------------------------------------------------------
(* Nothing twice.                                                          *)

\* v saves the parts of b.
Saves(v, b) == 1 \in DOMAIN stack[v] /\ stack[v][1].pc \in SavedKinds /\ stack[v][1].bug = b

\* What the session of v holds is of its bug, is held once, and is stored already
\* only where OnceUnlessShared allows it, or where the flush will be refused.
PendingOK(v) ==
  LET f == stack[v][1] IN
  \A p \in f.pending :
    /\ BugOf[p.item] = f.bug
    /\ \A q \in f.pending : p.item = q.item => p = q
    /\ \A r \in rows : r.item = p.item =>
         \/ f.bug \in shared \/ p.item \in Long \/ r.user = Anonymous
         \/ KindOf[p.item] \in {"attachment", "comment"}

OnceInv ==
  /\ OnceUnlessShared
  /\ \A v, u \in Worker : v # u => \A b \in Bug : Saves(v, b) /\ Saves(u, b) => b \in shared
  /\ \A v \in Worker : (\E b \in Bug : Saves(v, b)) /\ stack[v][1].full => PendingOK(v)

\* Who saves parts after a step saved the same parts before, as a rule.
LEMMA MovedSaves ==
  ASSUME StackOK, NEW v \in Worker, NEW b, Saves(v, b)', Moved(v, 1)
  PROVE  Saves(v, b) /\ stack'[v][1] = stack[v][1]
<1>1. 1 \in DOMAIN stack'[v] /\ stack'[v][1].pc \in SavedKinds /\ stack'[v][1].bug = b
  BY DEF Saves
<1>2. stack[v] # <<>> /\ stack'[v][1] = stack[v][1]
  BY <1>1, KindsApart DEF Moved, Idle
<1>3. 1 \in DOMAIN stack[v]
  BY <1>2, HeadOfFrames
<1> QED
  BY <1>1, <1>2, <1>3 DEF Saves

LEMMA MoversSave ==
  ASSUME StackOK, Moves, NEW v \in Worker, NEW b, Saves(v, b)'
  PROVE  Saves(v, b) /\ stack'[v][1] = stack[v][1]
BY MovedSaves DEF Moves, Saves

LEMMA OthersSave ==
  ASSUME StackOK, NEW w \in Worker, Others(w), NEW v \in Worker \ {w}, NEW b, Saves(v, b)'
  PROVE  Saves(v, b) /\ stack'[v][1] = stack[v][1]
BY MovedSaves DEF Others, Saves

LEMMA TopSaves ==
  ASSUME StackOK, NEW w \in Worker, stack[w] # <<>>
  PROVE  Top(w) = stack[w][1] /\ 1 \in DOMAIN stack[w] /\ Top(w) \in FrameType
         /\ (Top(w).pc \in SavedKinds => Saves(w, Top(w).bug))
BY HeadOfFrames DEF Saves

LEMMA SaversHold ==
  ASSUME NEW v \in Worker, NEW b, Saves(v, b)
  PROVE  Holds(v, 1, b) /\ v \in Holders(b)
BY KindsApart DEF Saves, Holds, Holders

\* What the checks for stored parts let through twice.
LEMMA NotHas ==
  ASSUME TablesOK, NEW i \in Item, ~Has(i), NEW r \in rows, r.item = i
  PROVE  /\ i \in Long \/ r.user = Anonymous
         /\ KindOf[i] \notin {"attachment", "comment"}
<1>1. KindOf[i] \in Kind /\ r.user \in {AuthorOf[i], Anonymous}
  BY BugAssumption DEF TablesOK
<1>2. CASE KindOf[i] = "cc"
  BY <1>1, <1>2 DEF Has, HasCC
<1>3. CASE KindOf[i] = "history"
  BY <1>1, <1>3 DEF Has, HasChange
<1>4. CASE KindOf[i] \in {"attachment", "comment"}
  BY <1>4 DEF Has, HasId
<1> QED
  BY <1>1, <1>2, <1>3, <1>4 DEF Kind

\* Rows of two savers are told apart when nothing new is written.
LEMMA ThinnedOnce ==
  ASSUME OnceUnlessShared, Thinned, shared \subseteq shared'
  PROVE  OnceUnlessShared'
BY DEF OnceUnlessShared, Thinned

\* A session that is not touched stays as it was, if no row comes that it holds.
LEMMA PendingKept ==
  ASSUME NEW v \in Worker, PendingOK(v), stack'[v][1] = stack[v][1], shared \subseteq shared',
         \A r \in rows' : r \in rows \/ r.user = Anonymous \/ BugOf[r.item] # stack[v][1].bug
                          \/ stack[v][1].bug \in shared'
  PROVE  PendingOK(v)'
BY DEF PendingOK

LEMMA QuietOnce ==
  ASSUME TypeInv, OnceInv, StoresNothing
  PROVE  OnceInv'
<1>1. StackOK /\ Moves /\ Thinned /\ shared' = shared
  BY DEF TypeInv, StoresNothing
<1>2. OnceUnlessShared'
  BY <1>1, ThinnedOnce DEF OnceInv
<1>3. \A v, u \in Worker : v # u => \A b \in Bug : Saves(v, b)' /\ Saves(u, b)' => b \in shared'
  BY <1>1, MoversSave DEF OnceInv
<1>4. ASSUME NEW v \in Worker, NEW b \in Bug, Saves(v, b)', stack'[v][1].full
      PROVE  PendingOK(v)'
  <2>1. Saves(v, b) /\ stack'[v][1] = stack[v][1]
    BY <1>1, <1>4, MoversSave
  <2>2. PendingOK(v)
    BY <1>4, <2>1 DEF OnceInv
  <2> QED
    BY <1>1, <2>1, <2>2, PendingKept DEF Thinned
<1> QED
  BY <1>2, <1>3, <1>4 DEF OnceInv

\* Who has written the row of a bug in Bugzilla starts with its CCs.
LEMMA WriterSaves ==
  ASSUME StackOK, NEW w \in Worker, Writes(w)
  PROVE  \A c : Saves(w, c)' => /\ c = Top(w).bug /\ ~stack'[w][1].full
                                /\ stack'[w][1].pc = "cc" /\ stack'[w][1].got = Top(w).got
<1>1. stack[w] # <<>> /\ Top(w).pc \in {"write", "insert"}
  BY DEF Writes
<1>2. CASE Moves
  <2>1. Top(w) = stack[w][1]
    BY <1>1, TopSaves
  <2>2. \A c : ~Saves(w, c)
    BY <1>1, <2>1, KindsApart DEF Saves
  <2> QED
    BY <1>2, <2>2, MoversSave
<1>3. CASE ~Moves
  <2>1. /\ stack'[w][1].bug = Top(w).bug /\ ~stack'[w][1].full
        /\ stack'[w][1].pc = "cc" /\ stack'[w][1].got = Top(w).got
    BY <1>3 DEF Writes
  <2> QED
    BY <2>1 DEF Saves
<1> QED
  BY <1>2, <1>3

LEMMA WrittenOnce ==
  ASSUME TypeInv, OnceInv, NEW w \in Worker, Writes(w)
  PROVE  OnceInv'
<1> DEFINE b == Top(w).bug
<1>1. /\ StackOK /\ Others(w) /\ stack[w] # <<>> /\ UNCHANGED rows
      /\ shared' = IF HeldBeside(w, b) THEN shared \cup {b} ELSE shared
  BY DEF TypeInv, Writes, Write
<1>2. OnceUnlessShared'
  BY <1>1 DEF OnceInv, OnceUnlessShared
<1>3. \A c : Saves(w, c)' => c = b /\ ~stack'[w][1].full
  BY <1>1, WriterSaves
<1>4. ASSUME NEW v \in Worker \ {w}, NEW c \in Bug, Saves(v, c)'
      PROVE  Saves(v, c) /\ stack'[v][1] = stack[v][1] /\ (c = b => b \in shared')
  <2>1. Saves(v, c) /\ stack'[v][1] = stack[v][1]
    BY <1>1, <1>4, OthersSave
  <2>2. v \in Holders(c)
    BY <2>1, SaversHold
  <2> QED
    BY <1>1, <2>1, <2>2 DEF HeldBeside
<1>5. ASSUME NEW v \in Worker, NEW u \in Worker, v # u, NEW c \in Bug, Saves(v, c)', Saves(u, c)'
      PROVE  c \in shared'
  <2>1. CASE v = w
    BY <1>3, <1>4, <1>5, <2>1
  <2>2. CASE u = w
    BY <1>3, <1>4, <1>5, <2>2
  <2>3. CASE v # w /\ u # w
    BY <1>1, <1>4, <1>5, <2>3 DEF OnceInv
  <2> QED
    BY <2>1, <2>2, <2>3
<1>6. ASSUME NEW v \in Worker, NEW c \in Bug, Saves(v, c)', stack'[v][1].full
      PROVE  PendingOK(v)'
  <2>1. v # w
    BY <1>3, <1>6
  <2>2. Saves(v, c) /\ stack'[v][1] = stack[v][1]
    BY <1>4, <1>6, <2>1
  <2>3. PendingOK(v)
    BY <1>6, <2>2 DEF OnceInv
  <2> QED
    BY <1>1, <2>2, <2>3, PendingKept
<1> QED
  BY <1>2, <1>5, <1>6 DEF OnceInv

LEMMA CollectedOnce ==
  ASSUME TypeInv, OnceInv, NEW w \in Worker, NEW kind \in SavedKinds, Collects(w, kind)
  PROVE  OnceInv'
<1> DEFINE b == Top(w).bug
           new == {i \in Shown(w, kind) : ~Has(i) /\ Known(i)}
           f == stack'[w][1]
<1>1. StackOK /\ TablesOK /\ Others(w) /\ stack[w] # <<>> /\ UNCHANGED <<rows, shared>>
      /\ Top(w).pc = kind
  BY DEF TypeInv, Collects, coreVars
<1>2. /\ f.bug = b /\ f.pc = kind /\ \A p \in f.pending : p.item \in new
      /\ \A p, q \in f.pending : p.item = q.item => p = q
  BY DEF Collects
<1>3. Saves(w, b) /\ \A c : Saves(w, c)' => c = b
  BY <1>1, <1>2, TopSaves DEF Saves
<1>4. ASSUME NEW v \in Worker, NEW c \in Bug, Saves(v, c)'
      PROVE  Saves(v, c) /\ (v # w => stack'[v][1] = stack[v][1])
  BY <1>1, <1>3, <1>4, OthersSave
<1>5. ASSUME NEW v \in Worker, NEW c \in Bug, Saves(v, c)', stack'[v][1].full
      PROVE  PendingOK(v)'
  <2>1. CASE v # w
    <3>1. PendingOK(v) /\ stack'[v][1] = stack[v][1]
      BY <1>4, <1>5, <2>1 DEF OnceInv
    <3> QED
      BY <1>1, <3>1, PendingKept
  <2>2. CASE v = w
    <3>1. ASSUME NEW p \in f.pending
          PROVE  /\ BugOf[p.item] = b
                 /\ \A r \in rows : r.item = p.item => p.item \in Long \/ r.user = Anonymous
      <4>1. p.item \in Item /\ BugOf[p.item] = b /\ ~Has(p.item)
        BY <1>2 DEF Shown
      <4> QED
        BY <1>1, <4>1, NotHas
    <3>2. PendingOK(w)'
      BY <1>1, <1>2, <3>1 DEF PendingOK
    <3> QED
      BY <2>2, <3>2
  <2> QED
    BY <2>1, <2>2
<1>6. OnceUnlessShared'
  BY <1>1 DEF OnceInv, OnceUnlessShared
<1> QED
  BY <1>1, <1>4, <1>5, <1>6 DEF OnceInv

LEMMA FlushedOnce ==
  ASSUME TypeInv, OnceInv, NEW w \in Worker, NEW kind \in SavedKinds, Flushes(w, kind)
  PROVE  OnceInv'
<1> DEFINE b == Top(w).bug
           new == Top(w).pending
<1>1. StackOK /\ Others(w) /\ stack[w] # <<>> /\ Top(w).pc = kind /\ Top(w).full /\ ~Refused(w)
      /\ rows' = rows \cup new /\ shared' = shared
  BY DEF TypeInv, Flushes
<1>2. Top(w) = stack[w][1] /\ Saves(w, b) /\ b \in Bug
  BY <1>1, TopSaves DEF FrameType
<1>3. PendingOK(w)
  BY <1>1, <1>2 DEF OnceInv
<1>4. ASSUME NEW p \in new
      PROVE  /\ BugOf[p.item] = b
             /\ \A q \in new : p.item = q.item => p = q
             /\ \A r \in rows : r.item = p.item => b \in shared \/ p.item \in Long \/ r.user = Anonymous
  <2>1. /\ BugOf[p.item] = b
        /\ \A q \in new : p.item = q.item => p = q
        /\ \A r \in rows : r.item = p.item =>
             \/ b \in shared \/ p.item \in Long \/ r.user = Anonymous
             \/ KindOf[p.item] \in {"attachment", "comment"}
    BY <1>2, <1>3 DEF PendingOK
  <2>2. \A r \in rows : r.item = p.item => KindOf[p.item] \notin {"attachment", "comment"}
    BY <1>1 DEF Refused, HasId
  <2> QED
    BY <2>1, <2>2
<1>5. OnceUnlessShared'
  <2> SUFFICES ASSUME NEW r \in rows', NEW q \in rows', r # q, r.item = q.item
               PROVE  BugOf[r.item] \in shared \/ r.item \in Long \/ Anonymous \in {r.user, q.user}
    BY <1>1 DEF OnceUnlessShared
  <2>1. CASE r \in rows /\ q \in rows
    BY <2>1 DEF OnceInv, OnceUnlessShared
  <2>2. CASE r \in new
    BY <1>1, <1>4, <2>2
  <2>3. CASE q \in new
    BY <1>1, <1>4, <2>3
  <2> QED
    BY <1>1, <2>1, <2>2, <2>3
<1>6. \A c : Saves(w, c)' => c = b /\ stack'[w][1].pending = {}
  <2>1. CASE NextKind(kind) = {}
    <3>1. ~(NextKind(kind) # {})
      BY <2>1
    <3>2. stack'[w] # <<>> => stack'[w][1].pc \notin SavedKinds
      BY <2>1 DEF Flushes
    <3>3. DOMAIN <<>> = {}
      OBVIOUS
    <3> QED
      BY <3>2, <3>3 DEF Saves
  <2>2. CASE NextKind(kind) # {}
    <3>1. stack'[w][1].bug = b /\ stack'[w][1].pending = {}
      BY <2>2 DEF Flushes
    <3> QED
      BY <3>1 DEF Saves
  <2> QED
    BY <2>1, <2>2
<1>7. ASSUME NEW v \in Worker, NEW c \in Bug, Saves(v, c)'
      PROVE  Saves(v, c) /\ (v # w => stack'[v][1] = stack[v][1])
  BY <1>1, <1>2, <1>6, <1>7, OthersSave
<1>8. ASSUME NEW v \in Worker, NEW c \in Bug, Saves(v, c)', stack'[v][1].full
      PROVE  PendingOK(v)'
  <2>1. CASE v = w
    <3>1. stack'[w][1].pending = {}
      BY <1>6, <1>8, <2>1
    <3>2. PendingOK(w)'
      BY <3>1 DEF PendingOK
    <3> QED
      BY <2>1, <3>2
  <2>2. CASE v # w
    <3>1. Saves(v, c) /\ stack'[v][1] = stack[v][1] /\ stack[v][1].bug = c
      BY <1>7, <1>8, <2>2 DEF Saves
    <3>2. PendingOK(v)
      BY <1>8, <3>1 DEF OnceInv
    <3>3. c = b => c \in shared
      BY <1>2, <2>2, <3>1 DEF OnceInv
    <3>4. \A r \in rows' : r \in rows \/ BugOf[r.item] # c \/ c \in shared
      BY <1>1, <1>4, <3>3
    <3> QED
      BY <1>1, <3>1, <3>2, <3>4, PendingKept
  <2> QED
    BY <2>1, <2>2
<1> QED
  BY <1>1, <1>5, <1>7, <1>8 DEF OnceInv

LEMMA SpilledOnce ==
  ASSUME TypeInv, OnceInv, NEW w \in Worker, NEW i \in Item, Spills(w, i)
  PROVE  OnceInv'
<1> DEFINE b == Top(w).bug
<1>1. StackOK /\ TablesOK /\ Moves /\ stack[w] # <<>> /\ Top(w).pc \in SavedKinds /\ ~Has(i)
      /\ ~Top(w).full /\ BugOf[i] = b /\ shared' = shared /\ TypeInv'
      /\ (UNCHANGED stack \/ (stack'[w] # <<>> /\ Top(w)'.pc = "raise"))
  BY DEF TypeInv, Spills, Shown
<1>2. PICK p : p.item = i /\ rows' = rows \cup {p}
  BY DEF Spills
<1>3. Saves(w, b) /\ b \in Bug
  BY <1>1, TopSaves DEF FrameType
<1>4. \A c : Saves(w, c)' => ~stack'[w][1].full
  <2>1. CASE UNCHANGED stack
    BY <1>1, <2>1, TopSaves
  <2>2. CASE stack'[w] # <<>> /\ Top(w)'.pc = "raise"
    <3>1. stack'[w] \in Seq(FrameType)
      BY <1>1 DEF TypeInv, StackOK
    <3>2. Top(w)' = stack'[w][1]
      BY <2>2, <3>1 DEF Top
    <3> QED
      BY <2>2, <3>2, KindsApart DEF Saves
  <2> QED
    BY <1>1, <2>1, <2>2
<1>5. OnceUnlessShared'
  <2>1. \A r \in rows : r.item = i => i \in Long \/ r.user = Anonymous
    BY <1>1, NotHas
  <2> QED
    BY <1>1, <1>2, <2>1 DEF OnceInv, OnceUnlessShared
<1>6. ASSUME NEW v \in Worker, NEW c \in Bug, Saves(v, c)'
      PROVE  Saves(v, c) /\ stack'[v][1] = stack[v][1]
  BY <1>1, <1>6, MoversSave
<1>7. ASSUME NEW v \in Worker, NEW c \in Bug, Saves(v, c)', stack'[v][1].full
      PROVE  PendingOK(v)'
  <2>1. v # w /\ Saves(v, c) /\ stack'[v][1] = stack[v][1] /\ stack[v][1].bug = c
    BY <1>4, <1>6, <1>7 DEF Saves
  <2>2. PendingOK(v)
    BY <1>7, <2>1 DEF OnceInv
  <2>3. c = b => c \in shared
    BY <1>3, <2>1 DEF OnceInv
  <2> QED
    BY <1>1, <1>2, <2>1, <2>2, <2>3, PendingKept
<1> QED
  BY <1>1, <1>5, <1>6, <1>7 DEF OnceInv

LEMMA ImportedOnce ==
  ASSUME TypeInv, OnceInv, NEW b \in Bug, Imports(b)
  PROVE  OnceInv'
<1>1. TablesOK /\ UNCHANGED stack /\ shared' = IF Holders(b) # {} THEN shared \cup {b} ELSE shared
  BY DEF TypeInv, Imports
<1>2. \A v \in Worker, c \in Bug : Saves(v, c)' => Saves(v, c)
  BY <1>1 DEF Saves
<1>3. \A r \in rows' \ rows : /\ r.item \in Item /\ BugOf[r.item] = b /\ ~Has(r.item)
                              /\ \A q \in rows' \ rows : r.item = q.item => r = q
  BY DEF Imports, ItemsOf
<1>4. OnceUnlessShared'
  <2> SUFFICES ASSUME NEW r \in rows', NEW q \in rows', r # q, r.item = q.item
               PROVE  BugOf[r.item] \in shared' \/ r.item \in Long \/ Anonymous \in {r.user, q.user}
    BY DEF OnceUnlessShared
  <2>1. CASE r \in rows /\ q \in rows
    BY <1>1, <2>1 DEF OnceInv, OnceUnlessShared
  <2>2. CASE r \notin rows /\ q \notin rows
    BY <1>3, <2>2
  <2>3. CASE r \in rows /\ q \notin rows
    BY <1>1, <1>3, <2>3, NotHas
  <2>4. CASE r \notin rows /\ q \in rows
    BY <1>1, <1>3, <2>4, NotHas
  <2> QED
    BY <2>1, <2>2, <2>3, <2>4
<1>5. ASSUME NEW v \in Worker, NEW c \in Bug, Saves(v, c)', stack'[v][1].full
      PROVE  PendingOK(v)'
  <2>1. Saves(v, c) /\ stack'[v][1] = stack[v][1] /\ stack[v][1].bug = c
    BY <1>1, <1>2, <1>5 DEF Saves
  <2>2. PendingOK(v)
    BY <1>5, <2>1 DEF OnceInv
  <2>3. c = b => c \in shared'
    BY <1>1, <2>1, SaversHold
  <2> QED
    BY <1>1, <1>3, <2>1, <2>2, <2>3, PendingKept
<1> QED
  BY <1>1, <1>2, <1>4, <1>5 DEF OnceInv

LEMMA NextOnce ==
  ASSUME BaseInv, OnceInv, [Next]_vars
  PROVE  OnceInv'
BY StepKinds, QuietOnce, WrittenOnce, CollectedOnce, FlushedOnce, SpilledOnce, ImportedOnce DEF BaseInv

\* OnceUnlessShared (bugzilla.py, _save_ccs, _save_history): no CC and no change is
\* stored twice, whatever the order in which processes look, store, fail and are
\* killed, but for the exceptions it names.
THEOREM OnceUnlessSharedAlways == Spec => []OnceUnlessShared
<1>1. Init => OnceInv
  <2>1. DOMAIN <<>> = {}
    OBVIOUS
  <2> QED
    BY <2>1 DEF Init, StoreInit, DownloadInit, OnceInv, OnceUnlessShared, Saves
<1>2. BaseInv /\ OnceInv /\ [Next]_vars => OnceInv'
  BY NextOnce
<1>3. OnceInv => OnceUnlessShared
  BY DEF OnceInv
<1> QED
  BY <1>1, <1>2, <1>3, BaseAlways, PTL DEF Spec

-----------------------------------------------------------------------------
(* Nothing missing.                                                        *)

\* What a save of a version of b is to store, and what has a row.
Wanted(b, version) ==
  {i \in Item : /\ BugOf[i] = b /\ SinceOf[i] <= version /\ KindOf[i] \in SavedKinds
                /\ AuthorOf[i] \notin Hidden /\ ~(KindOf[i] = "history" /\ Several(i))}
Filled(items) == \A i \in items : \E r \in rows : r.item = i

\* x saves a version that the row does not have any more.
Stale(x, b) == x \in Worker /\ Saves(x, b) /\ stack[x][1].got.version # bugs[b].version

\* A save has stored what it was to store of the kinds before its own, and holds
\* what is missing of its own.
SavedSoFar(w) ==
  LET f == stack[w][1] IN
  \A i \in Wanted(f.bug, f.got.version) :
    /\ Place[KindOf[i]] < Place[f.pc] => \E r \in rows : r.item = i
    /\ KindOf[i] = f.pc /\ f.full => \/ \E r \in rows : r.item = i
                                     \/ \E p \in f.pending : p.item = i

\* A bug has all its parts, or a save of it broke off, or one goes on that is not
\* of an older version.
CompleteInv ==
  /\ \A b \in Stored \ erased :
       Filled(Expected(b)) \/ \E x : <<b, x>> \in broken /\ ~Stale(x, b)
  /\ \A w \in Worker : \A b \in Bug \ erased : Saves(w, b) => SavedSoFar(w)

LEMMA ExpectedIs ==
  ASSUME NEW b
  PROVE  Expected(b) = Wanted(b, bugs[b].version)
BY DEF Expected, Wanted

LEMMA MantisHasNothing ==
  ASSUME NEW b \in Mantis, NEW version
  PROVE  Wanted(b, version) = {}
BY BugAssumption DEF Wanted

\* What the checks find to be stored is stored, if it is wanted.
LEMMA HasRow ==
  ASSUME TablesOK, NEW b, NEW version, NEW i \in Wanted(b, version), Has(i)
  PROVE  \E r \in rows : r.item = i
<1>1. i \in Item /\ KindOf[i] \in Kind /\ AuthorOf[i] \in User /\ AuthorOf[i] # Anonymous
  BY BugAssumption DEF Wanted
<1>2. CASE KindOf[i] = "history"
  <2>1. PICK r \in rows : KindOf[r.item] = "history" /\ ChangeOf[r.item] = ChangeOf[i] /\ r.user = AuthorOf[i]
    BY <1>2 DEF Has, HasChange
  <2>2. r.item \in Item /\ r.user \in {AuthorOf[r.item], Anonymous}
    BY DEF TablesOK, PartType
  <2>3. AuthorOf[r.item] = AuthorOf[i]
    BY <1>1, <2>1, <2>2
  <2>4. ~Several(i)
    BY <1>2 DEF Wanted
  <2>5. r.item = i
    BY <1>2, <2>1, <2>2, <2>3, <2>4 DEF Several
  <2> QED
    BY <2>5
<1>3. CASE KindOf[i] = "cc"
  BY <1>3 DEF Has, HasCC
<1>4. CASE KindOf[i] \in {"attachment", "comment"}
  BY <1>4 DEF Has, HasId
<1> QED
  BY <1>1, <1>2, <1>3, <1>4 DEF Kind

LEMMA FilledStays ==
  ASSUME NEW items, Filled(items), \A r \in rows : (\E i \in items : r.item = i) => \E q \in rows' : q.item = r.item
  PROVE  Filled(items)'
BY DEF Filled

\* Rows stay for a bug that is not erased.
LEMMA SavedStays ==
  ASSUME NEW w \in Worker, SavedSoFar(w), stack'[w][1] = stack[w][1],
         \A r \in rows : BugOf[r.item] = stack[w][1].bug => \E q \in rows' : q.item = r.item
  PROVE  SavedSoFar(w)'
BY DEF SavedSoFar, Wanted

\* A step that neither writes b nor makes a save of it good leaves b complete, or
\* with a save that broke off.
LEMMA StaysComplete ==
  ASSUME NEW b \in Stored, b \in Stored', b \notin erased,
         bugs'[b].version = bugs[b].version,
         Filled(Expected(b)) \/ \E x : <<b, x>> \in broken /\ ~Stale(x, b),
         \A r \in rows : BugOf[r.item] = b => \E q \in rows' : q.item = r.item,
         \A x : <<b, x>> \in broken => <<b, x>> \in broken',
         \A v \in Worker : Saves(v, b)' => Saves(v, b) /\ stack'[v][1].got = stack[v][1].got
  PROVE  (Filled(Expected(b)) \/ \E x : <<b, x>> \in broken /\ ~Stale(x, b))'
<1>1. CASE Filled(Expected(b))
  <2>1. \A i \in Expected(b) : \E q \in rows' : q.item = i
    BY <1>1 DEF Filled, Expected
  <2>2. \A i \in Expected(b)' : i \in Expected(b)
    BY DEF Expected, Several
  <2>3. Filled(Expected(b))'
    BY <2>1, <2>2 DEF Filled
  <2> QED
    BY <2>3
<1>2. ASSUME NEW x, <<b, x>> \in broken, ~Stale(x, b)
      PROVE  <<b, x>> \in broken' /\ ~Stale(x, b)'
  BY <1>2 DEF Stale
<1> QED
  BY <1>1, <1>2

\* A step that writes no version and touches no save.
LEMMA MoversComplete ==
  ASSUME StackOK, CompleteInv, Moves, Stored' \subseteq Stored, erased \subseteq erased',
         \A b \in Stored' : bugs'[b].version = bugs[b].version,
         \A b \in Stored' : \A x : <<b, x>> \in broken => <<b, x>> \in broken',
         \A r \in rows : BugOf[r.item] \in erased' \/ \E q \in rows' : q.item = r.item
  PROVE  CompleteInv'
<1>1. ASSUME NEW b \in Stored' \ erased'
      PROVE  (Filled(Expected(b)) \/ \E x : <<b, x>> \in broken /\ ~Stale(x, b))'
  <2>1. b \in Stored /\ b \notin erased /\ bugs'[b].version = bugs[b].version
    BY <1>1
  <2>2. Filled(Expected(b)) \/ \E x : <<b, x>> \in broken /\ ~Stale(x, b)
    BY <2>1 DEF CompleteInv
  <2>3. \A v \in Worker : Saves(v, b)' => Saves(v, b) /\ stack'[v][1].got = stack[v][1].got
    BY MoversSave
  <2> QED
    BY <1>1, <2>1, <2>2, <2>3, StaysComplete
<1>2. ASSUME NEW w \in Worker, NEW b \in Bug \ erased', Saves(w, b)'
      PROVE  SavedSoFar(w)'
  <2>1. Saves(w, b) /\ stack'[w][1] = stack[w][1] /\ stack[w][1].bug = b /\ b \notin erased
    BY <1>2, MoversSave DEF Saves
  <2>2. SavedSoFar(w)
    BY <1>2, <2>1 DEF CompleteInv
  <2> QED
    BY <1>2, <2>1, <2>2, SavedStays
<1> QED
  BY <1>1, <1>2 DEF CompleteInv

\* Parts are only ever added.
LEMMA SpilledComplete ==
  ASSUME TypeInv, CompleteInv, NEW w \in Worker, NEW i \in Item, Spills(w, i)
  PROVE  CompleteInv'
<1>1. Moves /\ rows \subseteq rows' /\ UNCHANGED <<bugs, broken, erased>> /\ Stored' = Stored
  BY DEF Spills, Stored
<1> QED
  BY <1>1, MoversComplete DEF TypeInv

LEMMA WrittenComplete ==
  ASSUME TypeInv, CompleteInv, NEW w \in Worker, Writes(w)
  PROVE  CompleteInv'
<1> DEFINE b == Top(w).bug
<1>1. StackOK /\ Others(w) /\ stack[w] # <<>> /\ UNCHANGED <<rows, erased>> /\ Write(w)
  BY DEF TypeInv, Writes
<1>2. /\ Stored' = Stored \cup {b} /\ bugs'[b].version = Top(w).got.version
      /\ \A c \in Stored \ {b} : bugs'[c] = bugs[c]
      /\ broken' = IF b \in Mantis THEN broken ELSE broken \cup {<<b, w>>}
  BY <1>1 DEF Write, Put, Stored, NewRow
<1>3. \A c : Saves(w, c)' => /\ c = b /\ ~stack'[w][1].full
                             /\ stack'[w][1].pc = "cc" /\ stack'[w][1].got = Top(w).got
  BY <1>1, WriterSaves
<1>4. \A v \in Worker \ {w} : \A c : Saves(v, c)' => Saves(v, c) /\ stack'[v][1] = stack[v][1]
  BY <1>1, OthersSave
<1>5. ASSUME NEW c \in Stored' \ erased'
      PROVE  (Filled(Expected(c)) \/ \E x : <<c, x>> \in broken /\ ~Stale(x, c))'
  <2>1. CASE c # b
    <3>1. c \in Stored /\ c \notin erased /\ bugs'[c].version = bugs[c].version
      BY <1>1, <1>2, <1>5, <2>1
    <3>2. Filled(Expected(c)) \/ \E x : <<c, x>> \in broken /\ ~Stale(x, c)
      BY <3>1 DEF CompleteInv
    <3>3. \A v \in Worker : Saves(v, c)' => Saves(v, c) /\ stack'[v][1].got = stack[v][1].got
      BY <1>3, <1>4, <2>1
    <3>4. \A x : <<c, x>> \in broken => <<c, x>> \in broken'
      BY <1>2
    <3> QED
      BY <1>1, <1>5, <3>1, <3>2, <3>3, <3>4, StaysComplete
  <2>2. CASE c = b /\ b \in Mantis
    <3>1. Expected(c)' = {}
      BY <2>2, BugAssumption DEF Expected
    <3> QED
      BY <3>1 DEF Filled
  <2>3. CASE c = b /\ b \notin Mantis
    <3>1. <<c, w>> \in broken'
      BY <1>2, <2>3
    <3>2. ~Stale(w, c)'
      BY <1>2, <1>3, <2>3 DEF Stale
    <3> QED
      BY <3>1, <3>2
  <2> QED
    BY <2>1, <2>2, <2>3
<1>6. ASSUME NEW v \in Worker, NEW c \in Bug \ erased', Saves(v, c)'
      PROVE  SavedSoFar(v)'
  <2>1. CASE v = w
    <3>1. stack'[w][1].pc = "cc" /\ ~stack'[w][1].full
      BY <1>3, <1>6, <2>1
    <3>2. \A k \in SavedKinds : ~(Place[k] < Place["cc"])
      BY KindsApart DEF Place
    <3>3. SavedSoFar(w)'
      BY <3>1, <3>2 DEF SavedSoFar, Wanted
    <3> QED
      BY <2>1, <3>3
  <2>2. CASE v # w
    <3>1. Saves(v, c) /\ stack'[v][1] = stack[v][1]
      BY <1>4, <1>6, <2>2
    <3>2. SavedSoFar(v)
      BY <1>1, <1>6, <3>1 DEF CompleteInv
    <3> QED
      BY <1>1, <3>1, <3>2, SavedStays
  <2> QED
    BY <2>1, <2>2
<1> QED
  BY <1>5, <1>6 DEF CompleteInv

LEMMA CollectedComplete ==
  ASSUME TypeInv, CompleteInv, NEW w \in Worker, NEW kind \in SavedKinds, Collects(w, kind)
  PROVE  CompleteInv'
<1> DEFINE b == Top(w).bug
           new == {i \in Shown(w, kind) : ~Has(i) /\ Known(i)}
<1>1. StackOK /\ TablesOK /\ Others(w) /\ stack[w] # <<>> /\ UNCHANGED <<bugs, rows, broken, erased>>
      /\ Top(w).pc = kind
  BY DEF TypeInv, Collects, coreVars
<1>2. /\ stack'[w][1].bug = b /\ stack'[w][1].got = Top(w).got /\ stack'[w][1].pc = kind
      /\ \A i \in new : \E p \in stack'[w][1].pending : p.item = i
  BY DEF Collects
<1>3. Saves(w, b) /\ Top(w) = stack[w][1] /\ b \in Bug
  BY <1>1, TopSaves DEF FrameType
<1>4. ASSUME NEW v \in Worker, NEW c, Saves(v, c)'
      PROVE  /\ Saves(v, c) /\ stack'[v][1].got = stack[v][1].got
             /\ v # w => stack'[v][1] = stack[v][1]
             /\ v = w => c = b
  <2>1. CASE v = w
    <3>1. c = b
      BY <1>2, <1>4, <2>1 DEF Saves
    <3> QED
      BY <1>2, <1>3, <2>1, <3>1
  <2>2. CASE v # w
    BY <1>1, <1>4, <2>2, OthersSave
  <2> QED
    BY <2>1, <2>2
<1>5. ASSUME NEW c \in Stored' \ erased'
      PROVE  (Filled(Expected(c)) \/ \E x : <<c, x>> \in broken /\ ~Stale(x, c))'
  <2>1. c \in Stored /\ c \notin erased
    BY <1>1, <1>5 DEF Stored
  <2>2. Filled(Expected(c)) \/ \E x : <<c, x>> \in broken /\ ~Stale(x, c)
    BY <2>1 DEF CompleteInv
  <2> QED
    BY <1>1, <1>4, <1>5, <2>1, <2>2, StaysComplete
<1>6. ASSUME NEW v \in Worker, NEW c \in Bug \ erased', Saves(v, c)'
      PROVE  SavedSoFar(v)'
  <2>1. Saves(v, c) /\ SavedSoFar(v)
    BY <1>1, <1>4, <1>6 DEF CompleteInv
  <2>2. CASE v # w
    BY <1>1, <1>4, <1>6, <2>1, <2>2, SavedStays
  <2>3. CASE v = w
    <3>1. ASSUME NEW i \in Wanted(b, Top(w).got.version), KindOf[i] = kind
          PROVE  \/ \E r \in rows : r.item = i
                 \/ \E p \in stack'[w][1].pending : p.item = i
      <4>1. i \in Shown(w, kind) /\ Known(i)
        BY <3>1 DEF Wanted, Shown, Known
      <4>2. Has(i) => \E r \in rows : r.item = i
        BY <1>1, HasRow
      <4> QED
        BY <1>2, <4>1, <4>2
    <3>2. \A i \in Wanted(b, Top(w).got.version) : Place[KindOf[i]] < Place[kind] => \E r \in rows : r.item = i
      BY <1>1, <1>3, <2>1, <2>3 DEF SavedSoFar
    <3>3. SavedSoFar(w)'
      BY <1>1, <1>2, <3>1, <3>2 DEF SavedSoFar, Wanted, Several
    <3> QED
      BY <2>3, <3>3
  <2> QED
    BY <2>2, <2>3
<1> QED
  BY <1>5, <1>6 DEF CompleteInv

LEMMA PlacesApart ==
  /\ \A k \in Kind : Place[k] \in Nat
  /\ \A k, l \in Kind : Place[k] = Place[l] => k = l
BY DEF Place, Kind

\* After the flush, what was to be stored so far is.
LEMMA FlushedFill ==
  ASSUME TypeInv, NEW w \in Worker, NEW kind \in SavedKinds, Flushes(w, kind), SavedSoFar(w),
         NEW i \in Wanted(Top(w).bug, Top(w).got.version), Place[KindOf[i]] <= Place[kind]
  PROVE  \E r \in rows' : r.item = i
<1>1. /\ stack[w] # <<>> /\ Top(w).pc = kind /\ Top(w).full /\ rows' = rows \cup Top(w).pending
  BY DEF Flushes
<1>2. Top(w) = stack[w][1]
  BY <1>1, TopSaves DEF TypeInv
<1>3. KindOf[i] \in Kind /\ kind \in Kind
  BY BugAssumption, DownloadAssumption DEF Wanted
<1>4. CASE Place[KindOf[i]] < Place[kind]
  <2>1. \E r \in rows : r.item = i
    BY <1>1, <1>2, <1>4 DEF SavedSoFar
  <2> QED
    BY <1>1, <2>1
<1>5. CASE KindOf[i] = kind
  <2>1. (\E r \in rows : r.item = i) \/ \E p \in Top(w).pending : p.item = i
    BY <1>1, <1>2, <1>5 DEF SavedSoFar
  <2> QED
    BY <1>1, <2>1
<1>6. Place[KindOf[i]] < Place[kind] \/ KindOf[i] = kind
  <2>1. Place[KindOf[i]] \in Nat /\ Place[kind] \in Nat
    BY <1>3, PlacesApart
  <2>2. Place[KindOf[i]] < Place[kind] \/ Place[KindOf[i]] = Place[kind]
    BY <2>1
  <2> QED
    BY <1>3, <2>2, PlacesApart
<1> QED
  BY <1>4, <1>5, <1>6

LEMMA FlushedComplete ==
  ASSUME TypeInv, CompleteInv, NEW w \in Worker, NEW kind \in SavedKinds, Flushes(w, kind)
  PROVE  CompleteInv'
<1>0. PICK b : b = Top(w).bug
  OBVIOUS
<1> USE <1>0
<1>1. /\ StackOK /\ Others(w) /\ stack[w] # <<>> /\ Top(w).pc = kind /\ rows \subseteq rows'
      /\ UNCHANGED <<bugs, erased>> /\ Stored' = Stored
  BY DEF TypeInv, Flushes, Stored
<1>2. Top(w) = stack[w][1] /\ Saves(w, b) /\ b \in Bug
  BY <1>1, TopSaves DEF FrameType
<1>3. NextKind(kind) # {} =>
        /\ stack'[w][1].pc \in NextKind(kind) /\ stack'[w][1].bug = b /\ stack'[w][1].got = Top(w).got
        /\ ~stack'[w][1].full /\ UNCHANGED broken
  BY DEF Flushes
<1>4. NextKind(kind) = {} => Whole(w) /\ \A c : ~Saves(w, c)'
  <2>1. DOMAIN <<>> = {}
    OBVIOUS
  <2>2. NextKind(kind) = {} => Whole(w) /\ (stack'[w] # <<>> => stack'[w][1].pc \notin SavedKinds)
    BY DEF Flushes
  <2> QED
    BY <2>1, <2>2 DEF Saves
<1>5. ASSUME NEW v \in Worker, NEW c, Saves(v, c)'
      PROVE  /\ Saves(v, c) /\ stack'[v][1].got = stack[v][1].got
             /\ v # w => stack'[v][1] = stack[v][1]
             /\ v = w => c = b /\ NextKind(kind) # {}
  <2>1. CASE v = w
    <3>1. NextKind(kind) # {}
      BY <1>4, <1>5, <2>1
    <3>2. c = b
      BY <1>3, <1>5, <2>1, <3>1 DEF Saves
    <3> QED
      BY <1>2, <1>3, <2>1, <3>1, <3>2
  <2>2. CASE v # w
    BY <1>1, <1>5, <2>2, OthersSave
  <2> QED
    BY <2>1, <2>2
<1>6. b \notin erased => SavedSoFar(w)
  BY <1>2 DEF CompleteInv
<1>7. ASSUME NEW c \in Stored' \ erased', ~(c = b /\ NextKind(kind) = {})
      PROVE  (Filled(Expected(c)) \/ \E x : <<c, x>> \in broken /\ ~Stale(x, c))'
  <2>1. c \in Stored /\ c \notin erased /\ bugs'[c].version = bugs[c].version
    BY <1>1, <1>7
  <2>2. Filled(Expected(c)) \/ \E x : <<c, x>> \in broken /\ ~Stale(x, c)
    BY <2>1 DEF CompleteInv
  <2>3. \A x : <<c, x>> \in broken => <<c, x>> \in broken'
    <3>1. CASE NextKind(kind) = {}
      <4>1. PICK good : broken' = broken \ ({b} \X good)
        BY <1>4, <3>1 DEF Whole
      <4> QED
        BY <1>7, <3>1, <4>1
    <3>2. CASE NextKind(kind) # {}
      BY <1>3, <3>2
    <3> QED
      BY <3>1, <3>2
  <2> QED
    BY <1>1, <1>5, <1>7, <2>1, <2>2, <2>3, StaysComplete
<1>8. ASSUME b \in Stored \ erased, NextKind(kind) = {}
      PROVE  (Filled(Expected(b)) \/ \E x : <<b, x>> \in broken /\ ~Stale(x, b))'
  <2>1. CASE bugs[b].version = Top(w).got.version
    <3>1. \A l \in SavedKinds : Place[l] <= Place[kind]
      BY <1>8, NextKinds
    <3>2. ASSUME NEW i \in Wanted(b, Top(w).got.version)
          PROVE  \E r \in rows' : r.item = i
      <4>1. KindOf[i] \in SavedKinds
        BY DEF Wanted
      <4> QED
        BY <1>6, <1>8, <3>1, <4>1, FlushedFill
    <3>3. \A i \in Wanted(b, bugs[b].version) : \E r \in rows' : r.item = i
      BY <2>1, <3>2
    <3>4. bugs' = bugs
      BY <1>1
    <3>5. \A i \in Expected(b) : \E r \in rows' : r.item = i
      BY <3>3, ExpectedIs
    <3>6. \A i \in Expected(b)' : i \in Expected(b)
      BY <3>4 DEF Expected, Several
    <3>7. Filled(Expected(b))'
      BY <3>5, <3>6 DEF Filled
    <3> QED
      BY <3>7
  <2>2. CASE bugs[b].version # Top(w).got.version
    <3>1. broken' = broken \ ({b} \X {w})
      BY <1>4, <1>8, <2>2 DEF Whole
    <3>2. CASE Filled(Expected(b))
      <4>1. \A i \in Expected(b)' : i \in Expected(b)
        BY <1>1 DEF Expected, Several
      <4>2. \A i \in Expected(b) : \E r \in rows' : r.item = i
        BY <1>1, <3>2 DEF Filled
      <4>3. Filled(Expected(b))'
        BY <4>1, <4>2 DEF Filled
      <4> QED
        BY <4>3
    <3>3. ASSUME NEW x, <<b, x>> \in broken, ~Stale(x, b)
          PROVE  <<b, x>> \in broken' /\ ~Stale(x, b)'
      <4>1. x # w
        BY <1>2, <2>2, <3>3 DEF Stale
      <4>2. <<b, x>> \in broken'
        BY <3>1, <3>3, <4>1
      <4>3. ~Stale(x, b)'
        BY <1>1, <1>5, <3>3, <4>1 DEF Stale
      <4> QED
        BY <4>2, <4>3
    <3> QED
      BY <1>8, <3>2, <3>3 DEF CompleteInv
  <2> QED
    BY <2>1, <2>2
<1>9. \A c \in Stored' \ erased' : (Filled(Expected(c)) \/ \E x : <<c, x>> \in broken /\ ~Stale(x, c))'
  BY <1>1, <1>7, <1>8
<1>10. ASSUME NEW v \in Worker, NEW c \in Bug \ erased', Saves(v, c)'
      PROVE  SavedSoFar(v)'
  <2>1. Saves(v, c) /\ SavedSoFar(v) /\ c \notin erased
    BY <1>1, <1>5, <1>10 DEF CompleteInv
  <2>2. CASE v # w
    BY <1>1, <1>5, <1>10, <2>1, <2>2, SavedStays
  <2>3. CASE v = w
    <3>1. /\ stack'[w][1].pc \in NextKind(kind) /\ stack'[w][1].bug = b /\ stack'[w][1].got = Top(w).got
          /\ ~stack'[w][1].full
      BY <1>3, <1>5, <1>10, <2>3
    <3>2. stack'[w][1].pc \notin {} /\ \A l \in SavedKinds : Place[l] < Place[stack'[w][1].pc] => Place[l] <= Place[kind]
      BY <3>1, NextKinds
    <3>3. ASSUME NEW i \in Wanted(b, Top(w).got.version), Place[KindOf[i]] < Place[stack'[w][1].pc]
          PROVE  \E r \in rows' : r.item = i
      <4>1. KindOf[i] \in SavedKinds
        BY DEF Wanted
      <4> QED
        BY <2>1, <2>3, <3>2, <3>3, <4>1, FlushedFill
    <3>4. SavedSoFar(w)'
      BY <3>1, <3>3 DEF SavedSoFar, Wanted, Several
    <3> QED
      BY <2>3, <3>4
  <2> QED
    BY <2>2, <2>3
<1> QED
  BY <1>9, <1>10 DEF CompleteInv

LEMMA ImportedComplete ==
  ASSUME TypeInv, CompleteInv, NEW b \in Bug, Imports(b)
  PROVE  CompleteInv'
<1>1. /\ TablesOK /\ UNCHANGED <<erased, stack>> /\ Stored' = Stored \cup {b}
      /\ bugs'[b].version = remote[b].version /\ \A c \in Stored \ {b} : bugs'[c] = bugs[c]
  BY DEF TypeInv, Imports
<1>2. rows \subseteq rows' /\ broken \subseteq broken'
  BY DEF Imports
<1>3. \A v \in Worker, c \in Bug : Saves(v, c)' => Saves(v, c) /\ stack'[v][1] = stack[v][1]
  BY <1>1 DEF Saves
<1>4. ASSUME NEW c \in Stored' \ erased'
      PROVE  (Filled(Expected(c)) \/ \E x : <<c, x>> \in broken /\ ~Stale(x, c))'
  <2>1. CASE c # b
    <3>1. c \in Stored /\ c \in Bug /\ c \notin erased /\ bugs'[c].version = bugs[c].version
      BY <1>1, <1>4, <2>1 DEF TablesOK
    <3>2. Filled(Expected(c)) \/ \E x : <<c, x>> \in broken /\ ~Stale(x, c)
      BY <3>1 DEF CompleteInv
    <3> QED
      BY <1>2, <1>3, <1>4, <3>1, <3>2, StaysComplete
  <2>2. CASE c = b /\ b \in Mantis
    <3>1. Expected(c)' = {}
      BY <2>2, BugAssumption DEF Expected
    <3> QED
      BY <3>1 DEF Filled
  <2>3. CASE c = b /\ b \notin Mantis
    <3> DEFINE Parts(kinds) == {i \in ItemsOf(b) : KindOf[i] \in kinds \cap SavedKinds /\ Known(i) /\ ~Has(i)}
    <3>1. PICK kinds \in SUBSET Kind :
            /\ \A i \in Parts(kinds) : \E r \in rows' : r.item = i
            /\ broken' = IF SavedKinds \subseteq kinds THEN broken ELSE broken \cup {<<b, "web">>}
      BY <2>3 DEF Imports
    <3>2. CASE SavedKinds \subseteq kinds
      <4>1. ASSUME NEW i \in Wanted(b, remote[b].version)
            PROVE  \E r \in rows' : r.item = i
        <5>1. CASE Has(i)
          BY <1>1, <1>2, <5>1, HasRow
        <5>2. CASE ~Has(i)
          <6>1. i \in Parts(kinds)
            BY <3>2, <5>2 DEF Wanted, ItemsOf, Known
          <6> QED
            BY <3>1, <6>1
        <5> QED
          BY <5>1, <5>2
      <4>2. \A i \in Expected(c)' : i \in Wanted(b, remote[b].version)
        BY <1>1, <2>3 DEF Expected, Wanted, Several
      <4>3. Filled(Expected(c))'
        BY <4>1, <4>2 DEF Filled
      <4> QED
        BY <4>3
    <3>3. CASE ~(SavedKinds \subseteq kinds)
      <4>1. <<c, "web">> \in broken'
        BY <2>3, <3>1, <3>3
      <4>2. ~Stale("web", c)'
        BY DownloadAssumption DEF Stale
      <4> QED
        BY <4>1, <4>2
    <3> QED
      BY <3>2, <3>3
  <2> QED
    BY <2>1, <2>2, <2>3
<1>5. ASSUME NEW v \in Worker, NEW c \in Bug \ erased', Saves(v, c)'
      PROVE  SavedSoFar(v)'
  <2>1. Saves(v, c) /\ SavedSoFar(v)
    BY <1>1, <1>3, <1>5 DEF CompleteInv
  <2> QED
    BY <1>2, <1>3, <1>5, <2>1, SavedStays
<1> QED
  BY <1>4, <1>5 DEF CompleteInv

LEMMA NextComplete ==
  ASSUME BaseInv, CompleteInv, [Next]_vars
  PROVE  CompleteInv'
<1>1. TypeInv
  BY DEF BaseInv
<1>2. CASE StoresNothing
  BY <1>1, <1>2, MoversComplete DEF StoresNothing, Thinned, TypeInv
<1>3. CASE ~StoresNothing
  BY <1>1, <1>3, StepKinds, WrittenComplete, CollectedComplete, FlushedComplete, SpilledComplete, ImportedComplete
     DEF BaseInv
<1> QED
  BY <1>2, <1>3

\* CompleteUnlessBroken (bugzilla.py, _save_bug): the row of a bug is flushed before
\* its parts and never looked at again when it is current, and yet all parts are
\* there, whatever the order of processes, unless a save broke off or parts were
\* deleted.
THEOREM CompleteUnlessBrokenAlways == Spec => []CompleteUnlessBroken
<1>1. Init => CompleteInv
  <2>1. DOMAIN <<>> = {}
    OBVIOUS
  <2> QED
    BY <2>1 DEF Init, StoreInit, DownloadInit, CompleteInv, Stored, Saves
<1>2. BaseInv /\ CompleteInv /\ [Next]_vars => CompleteInv'
  BY NextComplete
<1>3. CompleteInv => CompleteUnlessBroken
  <2> SUFFICES ASSUME CompleteInv, NEW b \in Stored \ erased, \A x \in broken : x[1] # b
               PROVE  Filled(Expected(b))
    BY DEF CompleteUnlessBroken, Filled
  <2>1. \A x : <<b, x>> \notin broken
    OBVIOUS
  <2> QED
    BY <2>1 DEF CompleteInv
<1> QED
  BY <1>1, <1>2, <1>3, BaseAlways, PTL DEF Spec
====

------------------------------ MODULE ImportProofs -----------------------------
(***************************************************************************)
(* Theorems about Import, for every set of files, every search order and   *)
(* every program.                                                          *)
(***************************************************************************)
EXTENDS Import, FiniteSetTheorems, SequenceTheorems, WellFoundedInduction, TLAPS

Frames == [file : DOMAIN program, pass : {"check", "run"}, at : Nat \ {0}]

(* The program never changes and is one of those assumed; the cache is     *)
(* finite.                                                                 *)
Setting == program \in Programs /\ IsFiniteSet(imported)

(* What a step does to the stack of calls. *)
LEMMA StackProps ==
  ASSUME TypeOK, stack # << >>
  PROVE  /\ Len(stack) \in Nat \ {0} /\ Top \in Frames
         /\ \A k \in 1 .. Len(stack) : stack[k] \in Frames
<1>1. stack \in Seq(Frames)
  BY DEF TypeOK, Frames
<1>2. Len(stack) \in Nat \ {0}
  BY <1>1, EmptySeq
<1>3. \A k \in 1 .. Len(stack) : stack[k] \in Frames
  BY <1>1, ElementOfSeq
<1> QED
  BY <1>2, <1>3 DEF Top

LEMMA AdvancedProps ==
  ASSUME TypeOK, stack # << >>
  PROVE  /\ Advanced \in Seq(Frames) /\ Len(Advanced) = Len(stack)
         /\ Advanced[Len(stack)] = [Top EXCEPT !.at = @ + 1]
         /\ \A k \in 1 .. Len(stack) - 1 : Advanced[k] = stack[k]
<1>1. Len(stack) \in Nat \ {0} /\ Top \in Frames
  BY StackProps
<1>2. [Top EXCEPT !.at = @ + 1] \in Frames
  BY <1>1 DEF Frames
<1>3. stack \in Seq(Frames)
  BY DEF TypeOK, Frames
<1>4. Advanced = [stack EXCEPT ![Len(stack)] = [Top EXCEPT !.at = @ + 1]]
  BY DEF Advanced, Top
<1> QED
  BY ONLY <1>1, <1>2, <1>3, <1>4

LEMMA PopProps ==
  ASSUME TypeOK, stack # << >>
  PROVE  /\ Pop \in Seq(Frames) /\ Len(Pop) = Len(stack) - 1
         /\ \A k \in 1 .. Len(stack) - 1 : Pop[k] = stack[k]
<1>1. Len(stack) \in Nat \ {0} /\ \A k \in 1 .. Len(stack) - 1 : stack[k] \in Frames
  BY StackProps
<1>2. /\ Pop \in Seq(Frames)
      /\ Len(Pop) = IF 1 <= Len(stack) - 1 THEN (Len(stack) - 1) - 1 + 1 ELSE 0
      /\ \A k \in 1 .. (Len(stack) - 1) - 1 + 1 : Pop[k] = stack[1 + k - 1]
  BY <1>1, SubSeqProperties DEF Pop
<1>3. \A n \in Nat \ {0} : /\ (n - 1) - 1 + 1 = n - 1
                           /\ ~(1 <= n - 1) => n - 1 = 0
                           /\ \A k \in 1 .. n - 1 : 1 + k - 1 = k
  OBVIOUS
<1> QED
  BY <1>1, <1>2, <1>3, Zenon

LEMMA StartProps ==
  ASSUME TypeOK, StartRun
  PROVE  /\ stack' \in Seq(Frames) /\ Len(stack') = Len(stack)
         /\ stack'[Len(stack)] = [file |-> Top.file, pass |-> "run", at |-> 1]
         /\ \A k \in 1 .. Len(stack) - 1 : stack'[k] = stack[k]
<1>1. Len(stack) \in Nat \ {0} /\ Top \in Frames
  BY StackProps DEF StartRun
<1>2. [file |-> Top.file, pass |-> "run", at |-> 1] \in Frames
  BY <1>1 DEF Frames
<1>3. stack \in Seq(Frames)
  BY DEF TypeOK, Frames
<1>4. stack' = [stack EXCEPT ![Len(stack)] = [file |-> Top.file, pass |-> "run", at |-> 1]]
  BY DEF StartRun
<1> QED
  BY ONLY <1>1, <1>2, <1>3, <1>4

LEMMA LoadProps ==
  ASSUME TypeOK, stack # << >>, NEW f \in DOMAIN program
  PROVE  LET s == Append(Advanced, Frame(f))
         IN  /\ s \in Seq(Frames) /\ Len(s) = Len(stack) + 1
             /\ s[Len(stack) + 1] = Frame(f)
             /\ \A k \in 1 .. Len(stack) : s[k] = Advanced[k]
<1>1. Advanced \in Seq(Frames) /\ Len(Advanced) = Len(stack)
  BY AdvancedProps
<1>2. Frame(f) \in Frames
  BY DEF Frame, Frames
<1> QED
  BY <1>1, <1>2, AppendProperties

(* The form that a pass is at is one of the program's. *)
LEMMA FormType ==
  ASSUME TypeOK, Setting, NEW pass, InForms(pass)
  PROVE  Form \in FormOfProgram
<1>1. Top.file \in DOMAIN program /\ Top.at \in Nat \ {0} /\ Top.at <= Len(Forms)
  BY StackProps DEF InForms, Frames
<1>2. Forms \in Seq(FormOfProgram)
  BY <1>1, ImportAssumption DEF Setting, Forms
<1> QED
  BY <1>1, <1>2 DEF Form
-------------------------------------------------------------------------------
LEMMA StepSetting == TypeOK /\ Setting /\ [Next]_vars => Setting'
<1> SUFFICES ASSUME TypeOK, Setting, [Next]_vars PROVE Setting'
  OBVIOUS
<1>1. program' = program
  BY DEF Next, vars, ImportForm, CheckDef, CheckFails, StartRun, RunDef, EndFile
<1>2. imported' = imported \/ \E f \in File : imported' = imported \cup {f}
  BY DEF Next, vars, ImportForm, Load, NotFound, CheckDef, CheckFails, StartRun,
         RunDef, EndFile
<1>3. IsFiniteSet(imported')
  BY <1>2, FS_AddElement DEF Setting
<1> QED
  BY <1>1, <1>3 DEF Setting

LEMMA StepStack == TypeOK /\ Setting /\ [Next]_vars => stack' \in Seq(Frames)
<1> SUFFICES ASSUME TypeOK, Setting, [Next]_vars PROVE stack' \in Seq(Frames)
  OBVIOUS
<1>1. CASE UNCHANGED vars
  BY <1>1 DEF vars, TypeOK, Frames
<1>2. CASE StartRun
  BY <1>2, StartProps
<1>3. CASE CheckDef \/ RunDef
  BY <1>3, AdvancedProps DEF CheckDef, RunDef, InForms
<1>4. CASE CheckFails \/ EndFile
  BY <1>4, PopProps DEF CheckFails, EndFile, InForms
<1>5. CASE ImportForm
  <2>1. stack # << >>
    BY <1>5 DEF ImportForm, InForms
  <2>2. CASE NotFound(Form.what)
    BY <2>1, <2>2, AdvancedProps DEF NotFound
  <2>3. ASSUME NEW f \in File, Resolves(Form.what, f),
               stack' = Append(Advanced, Frame(f))
        PROVE  stack' \in Seq(Frames)
    <3>1. f \in DOMAIN program
      BY <2>3 DEF Resolves, Exists
    <3> QED
      BY <2>1, <2>3, <3>1, LoadProps
  <2> QED
    BY <1>5, <2>2, <2>3 DEF ImportForm, Load
<1> QED
  BY <1>1, <1>2, <1>3, <1>4, <1>5 DEF Next

LEMMA StepTypeOK == TypeOK /\ Setting /\ [Next]_vars => TypeOK'
<1> SUFFICES ASSUME TypeOK, Setting, [Next]_vars PROVE TypeOK'
  OBVIOUS
<1>1. program' = program
  BY DEF Next, vars, ImportForm, CheckDef, CheckFails, StartRun, RunDef, EndFile
<1>2. stack' \in Seq([file : DOMAIN program', pass : {"check", "run"}, at : Nat \ {0}])
  BY <1>1, StepStack DEF Frames
<1>3. ASSUME UNCHANGED <<imported, loads, fetched, missing>>,
             global' \in [Global -> {"absent", "typed", "valued"}],
             typeOf' \in [Global -> Type \cup {"none"}],
             aborted' \subseteq DOMAIN program, blind' \in BOOLEAN
      PROVE  TypeOK'
  BY <1>1, <1>2, <1>3 DEF TypeOK
<1>4. CASE UNCHANGED vars
  BY <1>3, <1>4 DEF vars, TypeOK
<1>5. CASE CheckDef \/ CheckFails
  <2>1. Top.file \in DOMAIN program /\ Form \in FormOfProgram
    BY <1>5, StackProps, FormType DEF CheckDef, CheckFails, InForms, Frames
  <2>2. Form.kind = "def" => Form.type \in Type
    BY <2>1 DEF FormOfProgram
  <2>3. aborted' \subseteq DOMAIN program /\ typeOf' \in [Global -> Type \cup {"none"}]
    BY <1>5, <2>1, <2>2 DEF CheckDef, CheckFails, EnteredTypes, TypeOK
  <2> QED
    BY <1>3, <1>5, <2>3 DEF CheckDef, CheckFails, Entered, TypeOK
<1>6. CASE StartRun \/ EndFile
  BY <1>3, <1>6 DEF StartRun, EndFile, TypeOK
<1>7. CASE RunDef
  <2>1. Form.yields \in Type
    BY <1>7, FormType DEF RunDef, FormOfProgram
  <2> QED
    BY <1>3, <1>7, <2>1 DEF RunDef, TypeOK
<1>8. CASE ImportForm
  <2>1. Form.what \in Module
    BY <1>8, FormType DEF ImportForm, FormOfProgram
  <2>2. CASE NotFound(Form.what)
    BY <1>1, <1>2, <1>8, <2>1, <2>2 DEF ImportForm, NotFound, TypeOK
  <2>3. CASE Load(Form.what)
    BY <1>1, <1>2, <1>8, <2>1, <2>3 DEF ImportForm, Load, TypeOK
  <2> QED
    BY <1>8, <2>2, <2>3 DEF ImportForm
<1> QED
  BY <1>4, <1>5, <1>6, <1>7, <1>8 DEF Next

LEMMA InitTypeOK == Init => TypeOK /\ Setting
<1> SUFFICES ASSUME Init PROVE TypeOK /\ Setting
  OBVIOUS
<1>1. Root \in DOMAIN program /\ DOMAIN program \subseteq File
  BY ImportAssumption DEF Init
<1>2. Frame(Root) \in Frames
  BY <1>1 DEF Frame, Frames
<1>3. stack \in Seq(Frames)
  BY <1>2 DEF Init
<1> QED
  BY <1>1, <1>3, FS_EmptySet DEF Init, TypeOK, Setting, Frames

(* The stack of calls, the cache and the global table stay in their range. *)
THEOREM ImportTypeCorrect == Spec => [](TypeOK /\ Setting)
  BY InitTypeOK, StepTypeOK, StepSetting, PTL DEF Spec
-------------------------------------------------------------------------------
(* A step that is no import leaves the cache and what hangs on it alone;   *)
(* an import loads a file or reports a name.                               *)
LEMMA CacheSteps ==
  ASSUME TypeOK, Setting, [Next]_vars
  PROVE  /\ program' = program
         /\ \/ UNCHANGED <<imported, loads, fetched, missing>>
            \/ \E m \in Module : Load(m) \/ NotFound(m)
<1>1. ASSUME ImportForm PROVE Form.what \in Module
  BY <1>1, FormType DEF ImportForm, FormOfProgram
<1> QED
  BY <1>1 DEF Next, vars, ImportForm, CheckDef, CheckFails, StartRun, RunDef, EndFile

(* However imports form cycles and whatever names lead to it, a file is    *)
(* loaded once.                                                            *)
THEOREM FilesLoadedOnce == Spec => []LoadedOnce
<1>1. Init => LoadedOnce
  BY DEF Init, LoadedOnce
<1>2. TypeOK /\ Setting /\ LoadedOnce /\ [Next]_vars => LoadedOnce'
  <2> SUFFICES ASSUME TypeOK, Setting, LoadedOnce, [Next]_vars PROVE LoadedOnce'
    OBVIOUS
  <2>1. CASE UNCHANGED <<imported, loads>>
    BY <2>1 DEF LoadedOnce
  <2>2. ASSUME NEW m \in Module, Load(m) PROVE LoadedOnce'
    BY <2>2 DEF Load, Resolves, LoadedOnce, TypeOK
  <2> QED
    BY <2>1, <2>2, CacheSteps DEF NotFound
<1> QED
  BY <1>1, <1>2, ImportTypeCorrect, PTL DEF Spec

(* Calls of eval_program nest at most once per imported file and once for  *)
(* the root, whatever imports what.                                        *)
THEOREM NestingBounded == Spec => []DepthBounded
<1>1. Init => DepthBounded
  BY FS_EmptySet DEF Init, DepthBounded
<1>2. TypeOK /\ Setting /\ DepthBounded /\ [Next]_vars => DepthBounded'
  <2> SUFFICES ASSUME TypeOK, Setting, DepthBounded, [Next]_vars PROVE DepthBounded'
    OBVIOUS
  <2>1. Cardinality(imported) \in Nat /\ Len(stack) \in Nat
    BY FS_CardinalityType DEF Setting, TypeOK
  <2>2. ASSUME Len(stack') <= Len(stack), imported' = imported PROVE DepthBounded'
    <3>1. Len(stack') \in Nat
      BY StepStack
    <3> QED
      BY <2>1, <2>2, <3>1 DEF DepthBounded
  <2>3. CASE UNCHANGED vars
    BY <2>1, <2>2, <2>3 DEF vars
  <2>4. CASE CheckDef \/ RunDef
    BY <2>1, <2>2, <2>4, AdvancedProps DEF CheckDef, RunDef, InForms
  <2>5. CASE StartRun
    BY <2>1, <2>2, <2>5, StartProps DEF StartRun
  <2>6. CASE CheckFails \/ EndFile
    BY <2>1, <2>2, <2>6, PopProps DEF CheckFails, EndFile, InForms
  <2>7. CASE ImportForm
    <3>1. stack # << >>
      BY <2>7 DEF ImportForm, InForms
    <3>2. CASE NotFound(Form.what)
      BY <2>1, <2>2, <3>1, <3>2, AdvancedProps DEF NotFound
    <3>3. CASE Load(Form.what)
      <4>1. PICK f \in File : /\ Resolves(Form.what, f)
                              /\ imported' = imported \cup {f}
                              /\ stack' = Append(Advanced, Frame(f))
        BY <3>3 DEF Load
      <4>2. f \in DOMAIN program /\ f \notin imported
        BY <4>1 DEF Resolves, Exists
      <4>3. Len(stack') = Len(stack) + 1
        BY <3>1, <4>1, <4>2, LoadProps
      <4>4. Cardinality(imported') = Cardinality(imported) + 1
        BY <4>1, <4>2, FS_AddElement DEF Setting
      <4> QED
        BY <2>1, <4>3, <4>4 DEF DepthBounded
    <3> QED
      BY <2>7, <3>2, <3>3 DEF ImportForm
  <2> QED
    BY <2>3, <2>4, <2>5, <2>6, <2>7 DEF Next
<1> QED
  BY <1>1, <1>2, ImportTypeCorrect, PTL DEF Spec
-------------------------------------------------------------------------------
LEMMA LeastNatural ==
  ASSUME NEW S \in SUBSET Nat, S # {}
  PROVE  \E n \in S : \A m \in S : ~ (m < n)
<1>1. PICK n \in S : \A m \in S : <<m, n>> \notin OpToRel(<, Nat)
  BY NatLessThanWellFounded, WFMin, Zenon
<1>2. \A m, k \in Nat : m < k => <<m, k>> \in {ss \in Nat \X Nat : ss[1] < ss[2]}
  OBVIOUS
<1>3. \A m, k \in Nat : m < k => <<m, k>> \in OpToRel(<, Nat)
  BY ONLY <1>2, Zenon DEF OpToRel
<1> QED
  BY <1>1, <1>3, Zenon

(* The search fails only when every existing path of the name was imported:*)
(* otherwise it would have found the first that was not.                   *)
LEMMA SearchComplete ==
  ASSUME NEW m \in Module, ~ \E f \in File : Resolves(m, f),
         NEW i \in DOMAIN Candidates[m], Exists(Candidates[m][i])
  PROVE  Candidates[m][i] \in imported
<1> DEFINE Fresh == {k \in DOMAIN Candidates[m] :
                       Exists(Candidates[m][k]) /\ Candidates[m][k] \notin imported}
<1> SUFFICES ASSUME i \in Fresh PROVE FALSE
  OBVIOUS
<1>1. Candidates[m] \in Seq(File)
  BY ImportAssumption
<1>2. DOMAIN Candidates[m] = 1 .. Len(Candidates[m]) /\ Len(Candidates[m]) \in Nat
  BY <1>1, LenProperties
<1>3. Fresh \in SUBSET Nat /\ Fresh # {}
  BY <1>2
<1>4. PICK n \in Fresh : \A k \in Fresh : ~ (k < n)
  <2> HIDE DEF Fresh
  <2> QED
    BY <1>3, LeastNatural
<1>5. Candidates[m][n] \in File
  BY <1>1, <1>2, ElementOfSeq
<1>6. \A j \in 1 .. n - 1 : j \in DOMAIN Candidates[m] /\ j < n
  BY <1>2
<1>7. Resolves(m, Candidates[m][n])
  BY <1>4, <1>6, Zenon DEF Resolves
<1> QED
  BY <1>5, <1>7

(* "module not found" means that nothing of that name is left to import.   *)
THEOREM MissingMeansExhausted == Spec => []MissingExhausted
<1>1. Init => MissingExhausted
  BY DEF Init, MissingExhausted
<1>2. TypeOK /\ Setting /\ MissingExhausted /\ [Next]_vars => MissingExhausted'
  <2> SUFFICES ASSUME TypeOK, Setting, MissingExhausted, [Next]_vars
               PROVE  MissingExhausted'
    OBVIOUS
  <2>1. program' = program
    BY CacheSteps
  <2>2. CASE UNCHANGED <<imported, missing>>
    BY <2>1, <2>2 DEF MissingExhausted, Exists
  <2>3. ASSUME NEW m \in Module, Load(m) PROVE MissingExhausted'
    BY <2>1, <2>3 DEF Load, MissingExhausted, Exists
  <2>4. ASSUME NEW m \in Module, NotFound(m) PROVE MissingExhausted'
    <3>1. \A i \in DOMAIN Candidates[m] :
             Exists(Candidates[m][i]) => Candidates[m][i] \in imported
      BY <2>4, SearchComplete DEF NotFound
    <3> QED
      BY <2>1, <2>4, <3>1 DEF NotFound, MissingExhausted, Exists
  <2> QED
    BY <2>2, <2>3, <2>4, CacheSteps
<1> QED
  BY <1>1, <1>2, ImportTypeCorrect, PTL DEF Spec

(* Something loaded for a name means that the nearest file of that name    *)
(* was imported.                                                           *)
THEOREM NearestFileWins == Spec => []NearestWins
<1>1. Init => NearestWins
  BY DEF Init, NearestWins
<1>2. TypeOK /\ Setting /\ NearestWins /\ [Next]_vars => NearestWins'
  <2> SUFFICES ASSUME TypeOK, Setting, NearestWins, [Next]_vars PROVE NearestWins'
    OBVIOUS
  <2>1. program' = program
    BY CacheSteps
  <2>2. CASE UNCHANGED <<imported, fetched>>
    BY <2>1, <2>2 DEF NearestWins, Exists
  <2>3. ASSUME NEW m \in Module, Load(m) PROVE NearestWins'
    <3>1. PICK f \in File : /\ Resolves(m, f)
                            /\ imported' = imported \cup {f}
                            /\ fetched' = [fetched EXCEPT ![m] = @ \cup {f}]
      BY <2>3 DEF Load
    <3>2. PICK i \in DOMAIN Candidates[m] :
             /\ Candidates[m][i] = f /\ Exists(f)
             /\ \A j \in 1 .. i - 1 :
                   ~Exists(Candidates[m][j]) \/ Candidates[m][j] \in imported
      BY <3>1 DEF Resolves
    <3>3. DOMAIN Candidates[m] \subseteq Nat \ {0}
      <4>1. Candidates[m] \in Seq(File)
        BY ImportAssumption
      <4> QED
        BY <4>1, LenProperties
    <3>4. ASSUME NEW k \in DOMAIN Candidates[m], Exists(Candidates[m][k]),
                 \A j \in 1 .. k - 1 : ~Exists(Candidates[m][j])
          PROVE  Candidates[m][k] \in imported'
      <4>1. CASE k = i
        BY <3>1, <3>2, <4>1
      <4>2. CASE k < i
        <5>1. k \in 1 .. i - 1
          BY <3>3, <4>2
        <5> QED
          BY <3>1, <3>2, <3>4, <5>1
      <4>3. CASE i < k
        <5>1. i \in 1 .. k - 1
          BY <3>3, <4>3
        <5> QED
          BY <3>2, <3>4, <5>1
      <4> QED
        BY <3>3, <4>1, <4>2, <4>3
    <3>5. \A n \in Module \ {m} : fetched'[n] = fetched[n]
      BY <3>1 DEF TypeOK
    <3>6. \A k \in DOMAIN Candidates[m] :
             Exists(Candidates[m][k])' /\ (\A j \in 1 .. k - 1 : ~Exists(Candidates[m][j])')
               => Candidates[m][k] \in imported'
      BY <2>1, <3>4 DEF Exists
    <3> QED
      BY <2>1, <3>1, <3>5, <3>6 DEF NearestWins, Exists
  <2>4. ASSUME NEW m \in Module, NotFound(m) PROVE NearestWins'
    BY <2>1, <2>4 DEF NotFound, NearestWins, Exists
  <2> QED
    BY <2>2, <2>3, <2>4, CacheSteps
<1> QED
  BY <1>1, <1>2, ImportTypeCorrect, PTL DEF Spec
-------------------------------------------------------------------------------
(***************************************************************************)
(* Why the reads of self-contained files find their values.  A name may    *)
(* lose its value in the middle of its file's second pass: an import runs, *)
(* and the first pass of the imported file enters the name again.  But     *)
(* then that file is on the stack above, and its own second pass will give *)
(* the name a value before control comes back.                             *)
(***************************************************************************)
SelfContainedProgram == \A f \in DOMAIN program : SelfContained(f)

Defines(f, j, x) == /\ j \in DOMAIN program[f]
                    /\ program[f][j].kind = "def" /\ program[f][j].what = x

(* Frame fr will still evaluate a def of x that it has typechecked. *)
Pending(x, fr) == \E j \in Nat : /\ Defines(fr.file, j, x)
                                 /\ IF fr.pass = "check" THEN j < fr.at
                                                         ELSE fr.at <= j

(* What holds of the names that frame k of the stack s has gone past, when *)
(* the global table is g.                                                  *)
Settled(s, g, k) == \A x \in Global, j \in Nat :
  Defines(s[k].file, j, x) /\ j < s[k].at =>
     IF s[k].pass = "check"
     THEN g[x] # "absent"
     ELSE g[x] = "valued" \/ \E l \in k + 1 .. Len(s) : Pending(x, s[l])

AllSettled(s, g) == \A k \in 1 .. Len(s) : Settled(s, g, k)

(* Some name is given two types. *)
Retyped == \E x \in Global : \E s, t \in TypesGiven(x) : s # t

(* What is on the table has a type that the program gives its name. *)
TypesKnown == \A x \in Global : global[x] # "absent" => typeOf[x] \in TypesGiven(x)

ReadsFind == SelfContainedProgram =>
  /\ aborted = {} => ~blind /\ AllSettled(stack, global)
  /\ aborted # {} => Retyped

(* The frame on top moves on, and the frames below stay settled. *)
LEMMA TopMoves ==
  ASSUME NEW s \in Seq(Frames), NEW t \in Seq(Frames), NEW g, NEW h,
         Len(s) > 0, Len(t) = Len(s),
         \A k \in 1 .. Len(s) - 1 : t[k] = s[k],
         AllSettled(s, g),
         \A x \in Global : g[x] = "valued" => h[x] = "valued" \/ Pending(x, t[Len(s)]),
         \A x \in Global :
            Pending(x, s[Len(s)]) => h[x] = "valued" \/ Pending(x, t[Len(s)]),
         \A x \in Global : g[x] # "absent" => h[x] # "absent",
         Settled(t, h, Len(s))
  PROVE  AllSettled(t, h)
<1> DEFINE n == Len(s)
<1>1. n \in Nat \ {0} /\ Len(t) = n
  BY LenProperties
<1> HIDE DEF n
<1> SUFFICES ASSUME NEW k \in 1 .. n - 1 PROVE Settled(t, h, k)
  BY <1>1 DEF AllSettled, n
<1>2. Settled(s, g, k) /\ t[k] = s[k]
  BY <1>1 DEF AllSettled, n
<1> SUFFICES ASSUME NEW x \in Global, NEW j \in Nat,
                    Defines(s[k].file, j, x), j < s[k].at
             PROVE  IF s[k].pass = "check" THEN h[x] # "absent"
                    ELSE h[x] = "valued" \/ \E l \in k + 1 .. Len(t) : Pending(x, t[l])
  BY <1>2 DEF Settled
<1>3. CASE s[k].pass = "check"
  BY <1>2, <1>3 DEF Settled
<1>4. CASE s[k].pass # "check"
  <2>1. n \in k + 1 .. Len(t)
    BY <1>1
  <2>2. CASE g[x] = "valued"
    BY <1>4, <2>1, <2>2 DEF n
  <2>3. ASSUME NEW l \in k + 1 .. n, Pending(x, s[l])
        PROVE  h[x] = "valued" \/ \E m \in k + 1 .. Len(t) : Pending(x, t[m])
    <3>1. CASE l = n
      BY <2>1, <2>3, <3>1 DEF n
    <3>2. CASE l # n
      <4>1. l \in 1 .. n - 1 /\ l \in k + 1 .. Len(t)
        BY <1>1, <3>2
      <4> QED
        BY <2>3, <4>1 DEF n
    <3> QED
      BY <3>1, <3>2
  <2>4. g[x] = "valued" \/ \E l \in k + 1 .. n : Pending(x, s[l])
    BY <1>2, <1>4 DEF Settled, n
  <2> QED
    BY <1>4, <2>2, <2>3, <2>4
<1> QED
  BY <1>3, <1>4

(* A file starts. *)
LEMMA PushSettled ==
  ASSUME NEW s \in Seq(Frames), NEW g, AllSettled(s, g), NEW f \in DOMAIN program,
         \A e \in DOMAIN program : DOMAIN program[e] \subseteq Nat \ {0}
  PROVE  AllSettled(Append(s, Frame(f)), g)
<1> DEFINE t == Append(s, Frame(f))
<1>1. Frame(f) \in Frames
  BY DEF Frame, Frames
<1>2. /\ Len(t) = Len(s) + 1 /\ t[Len(s) + 1] = Frame(f) /\ Len(s) \in Nat
      /\ \A k \in 1 .. Len(s) : t[k] = s[k]
  BY <1>1, AppendProperties, LenProperties
<1> HIDE DEF t
<1>3. Settled(t, g, Len(s) + 1)
  <2>1. \A j \in Nat, x \in Global : Defines(f, j, x) => ~(j < 1)
    BY DEF Defines
  <2> QED
    BY <1>2, <2>1 DEF Settled, Frame
<1>4. ASSUME NEW k \in 1 .. Len(s) PROVE Settled(t, g, k)
  <2>1. Settled(s, g, k) /\ t[k] = s[k]
    BY <1>2 DEF AllSettled
  <2>2. \A l \in k + 1 .. Len(s) : l \in k + 1 .. Len(t) /\ t[l] = s[l]
    BY <1>2
  <2> QED
    BY <2>1, <2>2 DEF Settled
<1> QED
  BY <1>2, <1>3, <1>4 DEF AllSettled, t

(* A file ends that has evaluated all its defs. *)
LEMMA PopSettled ==
  ASSUME NEW s \in Seq(Frames), NEW t \in Seq(Frames), NEW g, AllSettled(s, g),
         Len(s) > 0, Len(t) = Len(s) - 1, \A k \in 1 .. Len(s) - 1 : t[k] = s[k],
         \A x \in Global : ~Pending(x, s[Len(s)])
  PROVE  AllSettled(t, g)
<1>1. Len(s) \in Nat \ {0}
  BY LenProperties
<1> SUFFICES ASSUME NEW k \in 1 .. Len(s) - 1 PROVE Settled(t, g, k)
  BY DEF AllSettled
<1>2. Settled(s, g, k) /\ t[k] = s[k]
  BY <1>1 DEF AllSettled
<1>3. \A x \in Global, l \in k + 1 .. Len(s) :
         Pending(x, s[l]) => l \in k + 1 .. Len(t) /\ Pending(x, t[l])
  <2> SUFFICES ASSUME NEW x \in Global, NEW l \in k + 1 .. Len(s), Pending(x, s[l])
               PROVE  l \in k + 1 .. Len(t) /\ Pending(x, t[l])
    OBVIOUS
  <2>1. l # Len(s)
    OBVIOUS
  <2>2. l \in 1 .. Len(s) - 1 /\ l \in k + 1 .. Len(t)
    BY <1>1, <2>1
  <2> QED
    BY <2>2
<1> QED
  BY <1>2, <1>3 DEF Settled

(* The top frame goes past one form. *)
LEMMA TopForm ==
  ASSUME TypeOK, Setting, NEW pass \in {"check", "run"}, InForms(pass)
  PROVE  LET n == Len(stack)
             t == Advanced
             f == Top.file
         IN  /\ stack \in Seq(Frames) /\ t \in Seq(Frames)
             /\ n > 0 /\ Len(t) = n /\ \A k \in 1 .. n - 1 : t[k] = stack[k]
             /\ stack[n] = Top /\ Top.pass = pass /\ Top.at \in Nat \ {0}
             /\ t[n].file = f /\ t[n].pass = pass /\ t[n].at = Top.at + 1
             /\ Form = program[f][Top.at] /\ Top.at \in DOMAIN program[f]
             /\ f \in DOMAIN program
<1>1. stack # << >> /\ Top.pass = pass /\ Top.at <= Len(Forms)
  BY DEF InForms
<1>2. Top \in Frames /\ Len(stack) \in Nat \ {0}
  BY <1>1, StackProps
<1>3. Forms \in Seq(FormOfProgram)
  BY <1>2, ImportAssumption DEF Setting, Forms, Frames
<1>4. Top.at \in DOMAIN program[Top.file]
  BY <1>1, <1>2, <1>3, LenProperties DEF Frames, Forms
<1>5. /\ Advanced \in Seq(Frames) /\ Len(Advanced) = Len(stack)
      /\ Advanced[Len(stack)] = [Top EXCEPT !.at = @ + 1]
      /\ \A k \in 1 .. Len(stack) - 1 : Advanced[k] = stack[k]
  BY <1>1, AdvancedProps
<1>6. LET u == [Top EXCEPT !.at = @ + 1]
      IN  u.file = Top.file /\ u.pass = Top.pass /\ u.at = Top.at + 1
  BY <1>2 DEF Frames
<1>7. stack \in Seq(Frames) /\ stack[Len(stack)] = Top
  BY DEF TypeOK, Frames, Top
<1> QED
  BY <1>1, <1>2, <1>4, <1>5, <1>6, <1>7 DEF Forms, Form, Frames

LEMMA FormPositions ==
  ASSUME Setting
  PROVE  \A e \in DOMAIN program :
            /\ DOMAIN program[e] = 1 .. Len(program[e]) /\ Len(program[e]) \in Nat
            /\ DOMAIN program[e] \subseteq Nat \ {0}
<1> SUFFICES ASSUME NEW e \in DOMAIN program
             PROVE  /\ DOMAIN program[e] = 1 .. Len(program[e]) /\ Len(program[e]) \in Nat
                    /\ DOMAIN program[e] \subseteq Nat \ {0}
  OBVIOUS
<1>1. program[e] \in Seq(FormOfProgram)
  BY ImportAssumption DEF Setting
<1> QED
  BY <1>1, LenProperties

(* An import form is no def: going past it changes nothing for the frame.  *)
LEMMA PastImport ==
  ASSUME TypeOK, Setting, ImportForm, AllSettled(stack, global)
  PROVE  AllSettled(Advanced, global)
<1> DEFINE n == Len(stack)
           t == Advanced
<1>1. PICK pass \in {"check", "run"} : InForms(pass)
  BY DEF ImportForm
<1>2. /\ stack \in Seq(Frames) /\ t \in Seq(Frames)
      /\ n > 0 /\ Len(t) = n /\ \A k \in 1 .. n - 1 : t[k] = stack[k]
      /\ stack[n] = Top /\ Top.pass = pass /\ Top.at \in Nat \ {0}
      /\ t[n].file = Top.file /\ t[n].pass = pass /\ t[n].at = Top.at + 1
      /\ Form = program[Top.file][Top.at]
  BY <1>1, TopForm
<1> HIDE DEF t
<1>3. \A x : ~Defines(Top.file, Top.at, x)
  BY <1>2 DEF ImportForm, Defines
<1>4. \A x \in Global : Pending(x, stack[n]) => Pending(x, t[n])
  <2> SUFFICES ASSUME NEW x \in Global, NEW j \in Nat, Defines(Top.file, j, x),
                      IF pass = "check" THEN j < Top.at ELSE Top.at <= j
               PROVE  IF pass = "check" THEN j < Top.at + 1 ELSE Top.at + 1 <= j
    BY <1>2 DEF Pending
  <2>1. j # Top.at
    BY <1>3
  <2> QED
    BY <1>2, <2>1
<1>5. Settled(t, global, n)
  <2>1. Settled(stack, global, n)
    BY <1>2, LenProperties DEF AllSettled
  <2>2. \A x \in Global, j \in Nat :
           Defines(Top.file, j, x) /\ j < Top.at + 1 => j < Top.at
    BY <1>2, <1>3
  <2>3. n \in Nat /\ Len(stack) = n /\ n + 1 .. n = {}
    BY <1>2, LenProperties
  <2> QED
    BY <1>2, <2>1, <2>2, <2>3 DEF Settled
<1>6. AllSettled(t, global)
  <2>1. stack \in Seq(Frames) /\ t \in Seq(Frames) /\ Len(stack) > 0 /\ Len(t) = Len(stack)
    BY <1>2
  <2>2. \A k \in 1 .. Len(stack) - 1 : t[k] = stack[k]
    BY <1>2
  <2> QED
    BY <2>1, <2>2, <1>4, <1>5, TopMoves
<1> QED
  BY <1>6 DEF t

LEMMA PastCheckedDef ==
  ASSUME TypeOK, Setting, CheckDef, AllSettled(stack, global)
  PROVE  AllSettled(Advanced, Entered)
<1> DEFINE n == Len(stack)
           t == Advanced
<1>1. InForms("check")
  BY DEF CheckDef
<1>2. /\ stack \in Seq(Frames) /\ t \in Seq(Frames)
      /\ n > 0 /\ Len(t) = n /\ \A k \in 1 .. n - 1 : t[k] = stack[k]
      /\ stack[n] = Top /\ Top.pass = "check" /\ Top.at \in Nat \ {0}
      /\ t[n].file = Top.file /\ t[n].pass = "check" /\ t[n].at = Top.at + 1
      /\ Form = program[Top.file][Top.at] /\ Top.at \in DOMAIN program[Top.file]
  BY <1>1, TopForm
<1>3. Form.what \in Global
  BY <1>1, FormType DEF CheckDef, FormOfProgram
<1>4. /\ Entered[Form.what] = "typed"
      /\ \A x \in Global \ {Form.what} : Entered[x] = global[x]
  BY <1>3 DEF Entered, TypeOK
<1> HIDE DEF t
<1>5. Pending(Form.what, t[n])
  BY <1>2 DEF CheckDef, Pending, Defines
<1>6. \A x \in Global : Pending(x, stack[n]) => Pending(x, t[n])
  BY <1>2 DEF Pending
<1>7. Settled(t, Entered, n)
  <2>1. Settled(stack, global, n)
    BY <1>2, LenProperties DEF AllSettled
  <2> SUFFICES ASSUME NEW x \in Global, NEW j \in Nat,
                      Defines(Top.file, j, x), j < Top.at + 1
               PROVE  Entered[x] # "absent"
    BY <1>2 DEF Settled
  <2>2. CASE j = Top.at
    BY <1>2, <1>4, <2>2 DEF Defines
  <2>3. CASE j # Top.at
    <3>1. j < Top.at
      BY <1>2, <2>3
    <3>2. global[x] # "absent"
      BY <1>2, <2>1, <3>1 DEF Settled
    <3> QED
      BY <1>4, <3>2
  <2> QED
    BY <2>2, <2>3
<1>8. \A x \in Global : global[x] = "valued" => Entered[x] = "valued" \/ Pending(x, t[n])
  BY <1>4, <1>5
<1>9. \A x \in Global : global[x] # "absent" => Entered[x] # "absent"
  BY <1>4
<1>10. AllSettled(t, Entered)
  <2>1. stack \in Seq(Frames) /\ t \in Seq(Frames) /\ Len(stack) > 0 /\ Len(t) = Len(stack)
    BY <1>2
  <2>2. \A k \in 1 .. Len(stack) - 1 : t[k] = stack[k]
    BY <1>2
  <2> QED
    BY <2>1, <2>2, <1>6, <1>7, <1>8, <1>9, TopMoves
<1> QED
  BY <1>10 DEF t

LEMMA PastEvaluatedDef ==
  ASSUME TypeOK, Setting, RunDef, AllSettled(stack, global)
  PROVE  AllSettled(stack', global')
<1> DEFINE n == Len(stack)
           t == Advanced
           h == [global EXCEPT ![Form.what] = "valued"]
<1>1. InForms("run") /\ stack' = t /\ global' = h
  BY DEF RunDef
<1>2. /\ stack \in Seq(Frames) /\ t \in Seq(Frames)
      /\ n > 0 /\ Len(t) = n /\ \A k \in 1 .. n - 1 : t[k] = stack[k]
      /\ stack[n] = Top /\ Top.pass = "run" /\ Top.at \in Nat \ {0}
      /\ t[n].file = Top.file /\ t[n].pass = "run" /\ t[n].at = Top.at + 1
      /\ Form = program[Top.file][Top.at]
  BY <1>1, TopForm
<1>3. Form.what \in Global
  BY <1>1, FormType DEF RunDef, FormOfProgram
<1>4. h[Form.what] = "valued" /\ \A x \in Global \ {Form.what} : h[x] = global[x]
  BY <1>3 DEF TypeOK
<1> HIDE DEF t, h
<1>5. \A x \in Global : Pending(x, stack[n]) => h[x] = "valued" \/ Pending(x, t[n])
  <2> SUFFICES ASSUME NEW x \in Global, NEW j \in Nat, Defines(Top.file, j, x),
                      Top.at <= j
               PROVE  h[x] = "valued" \/ Pending(x, t[n])
    BY <1>2 DEF Pending
  <2>1. CASE j = Top.at
    BY <1>2, <1>4, <2>1 DEF Defines
  <2>2. CASE j # Top.at
    <3>1. Top.at + 1 <= j
      BY <1>2, <2>2
    <3> QED
      BY <1>2, <3>1 DEF Pending
  <2> QED
    BY <2>1, <2>2
<1>6. Settled(t, h, n)
  <2>1. Settled(stack, global, n)
    BY <1>2, LenProperties DEF AllSettled
  <2>2. n \in Nat /\ Len(stack) = n /\ n + 1 .. n = {}
    BY <1>2, LenProperties
  <2> SUFFICES ASSUME NEW x \in Global, NEW j \in Nat,
                      Defines(Top.file, j, x), j < Top.at + 1
               PROVE  h[x] = "valued"
    BY <1>2 DEF Settled
  <2>3. CASE j = Top.at
    BY <1>2, <1>4, <2>3 DEF Defines
  <2>4. CASE j # Top.at
    <3>1. j < Top.at
      BY <1>2, <2>4
    <3>2. global[x] = "valued"
      BY <1>2, <2>1, <2>2, <3>1 DEF Settled
    <3> QED
      BY <1>4, <3>2
  <2> QED
    BY <2>3, <2>4
<1>7. \A x \in Global : global[x] = "valued" => h[x] = "valued" \/ Pending(x, t[n])
  BY <1>4
<1>8. \A x \in Global : global[x] # "absent" => h[x] # "absent"
  BY <1>4
<1>9. AllSettled(t, h)
  <2>1. stack \in Seq(Frames) /\ t \in Seq(Frames) /\ Len(stack) > 0 /\ Len(t) = Len(stack)
    BY <1>2
  <2>2. \A k \in 1 .. Len(stack) - 1 : t[k] = stack[k]
    BY <1>2
  <2> QED
    BY <2>1, <2>2, <1>5, <1>6, <1>7, <1>8, TopMoves, SMTT(30)
<1> QED
  BY <1>1, <1>9, Zenon

(* Every def gives its name the types it is entered with. *)
LEMMA TypesOfForm ==
  ASSUME TypeOK, Setting, NEW pass \in {"check", "run"}, InForms(pass), Form.kind = "def"
  PROVE  Form.what \in Global /\ {Form.type, Form.yields} \subseteq TypesGiven(Form.what)
<1>1. /\ Form = program[Top.file][Top.at] /\ Top.at \in DOMAIN program[Top.file]
      /\ Top.file \in DOMAIN program
  BY TopForm
<1>2. Form \in FormOfProgram
  BY FormType
<1>3. Form.what \in Global /\ Form.type \in Type /\ Form.yields \in Type
  BY <1>2 DEF FormOfProgram
<1> QED
  BY <1>1, <1>3 DEF TypesGiven

LEMMA StepTypesKnown == TypeOK /\ Setting /\ TypesKnown /\ [Next]_vars => TypesKnown'
<1> SUFFICES ASSUME TypeOK, Setting, TypesKnown, [Next]_vars PROVE TypesKnown'
  OBVIOUS
<1>1. program' = program
  BY CacheSteps
<1>2. \A x : TypesGiven(x)' = TypesGiven(x)
  BY <1>1 DEF TypesGiven
<1>3. CASE UNCHANGED <<global, typeOf>>
  BY <1>2, <1>3 DEF TypesKnown
<1>4. ASSUME NEW x \in Global, NEW s \in TypesGiven(x), typeOf' = [typeOf EXCEPT ![x] = s],
             \A y \in Global \ {x} : global'[y] = global[y]
      PROVE  TypesKnown'
  BY <1>2, <1>4 DEF TypesKnown, TypeOK
<1>5. ASSUME NEW pass \in {"check", "run"}, InForms(pass), Form.kind = "def",
             \/ global' = Entered /\ typeOf' = EnteredTypes
             \/ /\ global' = [global EXCEPT ![Form.what] = "valued"]
                /\ typeOf' = [typeOf EXCEPT ![Form.what] = Form.yields]
      PROVE  TypesKnown'
  <2>1. Form.what \in Global /\ {Form.type, Form.yields} \subseteq TypesGiven(Form.what)
    BY <1>5, TypesOfForm
  <2>2. \A y \in Global \ {Form.what} : global'[y] = global[y]
    BY <1>5 DEF Entered, TypeOK
  <2> QED
    BY <1>4, <1>5, <2>1, <2>2 DEF EnteredTypes
<1> QED
  BY <1>3, <1>5
  DEF Next, vars, ImportForm, CheckDef, CheckFails, StartRun, RunDef, EndFile

(* A self-contained file passes its first pass: what a def reads was       *)
(* entered by an earlier form of the file.  Its newest entry may be that   *)
(* of another file, but only at another type can it be refused.            *)
LEMMA CheckFailsRetyped ==
  ASSUME TypeOK, Setting, SelfContainedProgram, TypesKnown, AllSettled(stack, global),
         CheckFails
  PROVE  Retyped
<1>1. InForms("check")
  BY DEF CheckFails
<1>2. /\ stack[Len(stack)] = Top /\ Len(stack) \in Nat \ {0} /\ Top.pass = "check"
      /\ Form = program[Top.file][Top.at] /\ Top.at \in DOMAIN program[Top.file]
      /\ Top.file \in DOMAIN program
  BY <1>1, TopForm, LenProperties
<1>3. SelfContained(Top.file) /\ Settled(stack, global, Len(stack))
  BY <1>2 DEF SelfContainedProgram, AllSettled
<1>4. Form.kind = "def" /\ TyEq(Form.yields, Form.type)
  BY <1>2, <1>3 DEF SelfContained, CheckFails
<1>5. Form \in FormOfProgram /\ Form.what \in Global
      /\ {Form.type, Form.yields} \subseteq TypesGiven(Form.what)
  BY <1>1, <1>4, FormType, TypesOfForm
<1>6. PICK x \in DOMAIN Form.reads :
             Entered[x] = "absent" \/ EnteredTypes[x] \notin Form.reads[x]
  BY <1>4 DEF CheckFails, WellTyped
<1>7. x \in Global
  BY <1>4, <1>5, <1>6 DEF FormOfProgram
<1>8. PICK j \in 1 .. Top.at - 1 :
             /\ program[Top.file][j].kind = "def" /\ program[Top.file][j].what = x
             /\ program[Top.file][j].type \in Form.reads[x]
  BY <1>2, <1>3, <1>6 DEF SelfContained
<1>9. Top.at \in Nat /\ j \in DOMAIN program[Top.file] /\ j \in Nat /\ j < Top.at
  BY <1>2, <1>8, FormPositions
<1>10. program[Top.file][j].type \in TypesGiven(x)
  <2>1. program[Top.file] \in Seq(FormOfProgram)
    BY <1>2, ImportAssumption DEF Setting
  <2>2. program[Top.file][j] \in FormOfProgram
    BY <1>9, <2>1
  <2>3. program[Top.file][j].type \in Type
    BY <1>8, <2>2 DEF FormOfProgram
  <2> QED
    BY <1>2, <1>8, <1>9, <2>3 DEF TypesGiven
<1>11. global[x] # "absent"
  BY <1>2, <1>3, <1>7, <1>8, <1>9 DEF Settled, Defines
<1>12. Entered[x] # "absent"
  BY <1>7, <1>11 DEF Entered, TypeOK
<1>13. EnteredTypes[x] \in TypesGiven(x)
  BY <1>5, <1>7, <1>11 DEF EnteredTypes, TypesKnown, TypeOK
<1> QED
  BY <1>6, <1>7, <1>8, <1>10, <1>12, <1>13 DEF Retyped

(* ... and what a def reads when it is evaluated has a value.              *)
LEMMA RunDefSees ==
  ASSUME TypeOK, Setting, SelfContainedProgram, AllSettled(stack, global), RunDef,
         NEW x \in DOMAIN Form.reads
  PROVE  global[x] = "valued"
<1>1. InForms("run")
  BY DEF RunDef
<1>2. /\ stack[Len(stack)] = Top /\ Len(stack) \in Nat \ {0} /\ Top.pass = "run"
      /\ Form = program[Top.file][Top.at] /\ Top.at \in DOMAIN program[Top.file]
      /\ Top.file \in DOMAIN program
  BY <1>1, TopForm, LenProperties
<1>3. SelfContained(Top.file) /\ Settled(stack, global, Len(stack))
  BY <1>2 DEF SelfContainedProgram, AllSettled
<1>4. x \in Global
  <2>1. Form \in FormOfProgram /\ Form.kind = "def"
    BY <1>1, FormType DEF RunDef
  <2> QED
    BY <2>1 DEF FormOfProgram
<1>5. PICK j \in 1 .. Top.at - 1 : program[Top.file][j].kind = "def"
                                  /\ program[Top.file][j].what = x
  BY <1>2, <1>3 DEF SelfContained
<1>6. Top.at \in Nat /\ j \in DOMAIN program[Top.file] /\ j \in Nat /\ j < Top.at
  BY <1>2, <1>5, FormPositions
<1>7. Len(stack) + 1 .. Len(stack) = {}
  BY <1>2
<1> QED
  BY <1>2, <1>3, <1>4, <1>5, <1>6, <1>7 DEF Settled, Defines

LEMMA StepReadsFind ==
  TypeOK /\ Setting /\ TypesKnown /\ ReadsFind /\ [Next]_vars => ReadsFind'
<1> SUFFICES ASSUME TypeOK, Setting, TypesKnown, ReadsFind, [Next]_vars,
                    SelfContainedProgram'
             PROVE  (/\ aborted = {} => ~blind /\ AllSettled(stack, global)
                     /\ aborted # {} => Retyped)'
  BY DEF ReadsFind
<1>1. program' = program
  BY CacheSteps
<1>2. SelfContainedProgram
  BY <1>1 DEF SelfContainedProgram, SelfContained
<1>a. CASE aborted # {}
  <2>1. aborted' # {}
    BY <1>a DEF Next, vars, ImportForm, CheckDef, CheckFails, StartRun, RunDef, EndFile
  <2>2. Retyped
    BY <1>2, <1>a DEF ReadsFind
  <2> QED
    BY <1>1, <2>1, <2>2 DEF Retyped, TypesGiven
<1>b. CASE CheckFails /\ aborted = {}
  <2>1. aborted' # {}
    BY <1>b DEF CheckFails
  <2>2. Retyped
    BY <1>2, <1>b, CheckFailsRetyped DEF ReadsFind
  <2> QED
    BY <1>1, <2>1, <2>2 DEF Retyped, TypesGiven
<1> SUFFICES ASSUME aborted = {}, ~CheckFails
             PROVE  (aborted' = {}) /\ (~blind /\ AllSettled(stack, global))'
  BY <1>a, <1>b
<1>3. ~blind /\ AllSettled(stack, global)
  BY <1>2 DEF ReadsFind
<1>4. SUFFICES ~blind' /\ AllSettled(stack', global')
  <2>1. aborted' = {}
    BY DEF Next, vars, ImportForm, CheckDef, StartRun, RunDef, EndFile
  <2> QED
    BY <1>1, <2>1 DEF AllSettled, Settled, Pending, Defines
<1>5. CASE UNCHANGED vars
  BY <1>3, <1>5 DEF vars
<1>6. CASE CheckDef
  <2>1. AllSettled(Advanced, Entered)
    BY <1>3, <1>6, PastCheckedDef
  <2> QED
    BY <1>3, <1>6, <2>1 DEF CheckDef
<1>8. CASE RunDef
  <2>1. AllSettled(stack', global')
    BY <1>3, <1>8, PastEvaluatedDef
  <2>2. ~blind'
    BY <1>2, <1>3, <1>8, RunDefSees DEF RunDef
  <2> QED
    BY <2>1, <2>2
<1>9. CASE StartRun
  <2> DEFINE t == stack'
  <2>1. /\ stack \in Seq(Frames) /\ t \in Seq(Frames) /\ Len(stack) > 0
        /\ Len(t) = Len(stack) /\ Top = stack[Len(stack)] /\ Top.pass = "check"
        /\ t[Len(stack)] = [file |-> Top.file, pass |-> "run", at |-> 1]
    BY <1>9, StartProps, StackProps DEF StartRun, TypeOK, Frames, Top
  <2>2. \A k \in 1 .. Len(stack) - 1 : t[k] = stack[k]
    BY <1>9, StartProps
  <2> HIDE DEF t
  <2>3. Top.file \in DOMAIN program
    BY <1>9, StackProps DEF StartRun, Frames
  <2>4. \A x \in Global, j \in Nat : Defines(Top.file, j, x) => 1 <= j
    BY <2>3, FormPositions DEF Defines
  <2>5. \A x \in Global :
           Pending(x, stack[Len(stack)]) => global[x] = "valued" \/ Pending(x, t[Len(stack)])
    BY <2>1, <2>4 DEF Pending
  <2>6. Settled(t, global, Len(stack))
    BY <2>1, <2>4 DEF Settled
  <2>7. AllSettled(t, global)
    BY <1>3, <2>1, <2>2, <2>5, <2>6, TopMoves, SMTT(30)
  <2> QED
    BY <1>3, <1>9, <2>7 DEF StartRun, t
<1>10. CASE ImportForm
  <2>1. AllSettled(Advanced, global) /\ global' = global /\ blind' = blind
    BY <1>3, <1>10, PastImport DEF ImportForm
  <2>2. stack # << >>
    BY <1>10 DEF ImportForm, InForms
  <2>3. CASE NotFound(Form.what)
    BY <1>3, <2>1, <2>3 DEF NotFound
  <2>4. CASE Load(Form.what)
    <3>1. PICK f \in File : Resolves(Form.what, f) /\ stack' = Append(Advanced, Frame(f))
      BY <2>4 DEF Load
    <3>2. f \in DOMAIN program
      BY <3>1 DEF Resolves, Exists
    <3>3. \A e \in DOMAIN program : DOMAIN program[e] \subseteq Nat \ {0}
      BY FormPositions
    <3>4. Advanced \in Seq(Frames)
      BY <2>2, AdvancedProps
    <3>5. AllSettled(Append(Advanced, Frame(f)), global)
      BY <2>1, <3>2, <3>3, <3>4, PushSettled
    <3> QED
      BY <1>3, <2>1, <3>1, <3>5
  <2> QED
    BY <1>10, <2>3, <2>4 DEF ImportForm
<1>11. CASE EndFile
  <2>1. stack # << >> /\ stack' = Pop /\ Top.pass = "run" /\ Top.at > Len(Forms)
    BY <1>11 DEF EndFile
  <2>2. stack \in Seq(Frames) /\ Len(stack) > 0 /\ stack[Len(stack)] = Top /\ Top \in Frames
    BY <2>1, StackProps DEF TypeOK, Frames, Top
  <2>3. /\ Pop \in Seq(Frames) /\ Len(Pop) = Len(stack) - 1
        /\ \A k \in 1 .. Len(stack) - 1 : Pop[k] = stack[k]
    BY <2>1, PopProps
  <2>4. \A x \in Global : ~Pending(x, stack[Len(stack)])
    <3>1. \A j \in DOMAIN program[Top.file] : ~(Top.at <= j)
      BY <2>1, <2>2, FormPositions DEF Forms, Frames
    <3> QED
      BY <2>1, <2>2, <3>1 DEF Pending, Defines
  <2>5. AllSettled(Pop, global)
    BY <1>3, <2>2, <2>3, <2>4, PopSettled
  <2> QED
    BY <1>3, <1>11, <2>1, <2>5 DEF EndFile
<1> QED
  BY <1>5, <1>6, <1>8, <1>9, <1>10, <1>11 DEF Next

(* If every file taken alone typechecks and defines what it reads, then no *)
(* evaluated expression meets a name without a value, however files import *)
(* each other and whatever names they share, unless a file is given up at  *)
(* a type error; and none is given up unless the program gives a name two  *)
(* types: then an import may retype a name that its importer goes on to    *)
(* read.                                                                   *)
THEOREM SelfContainedFilesRead == Spec => []SelfContainedReads
<1>1. Init => TypesKnown /\ ReadsFind
  <2> SUFFICES ASSUME Init
               PROVE  TypesKnown /\ aborted = {} /\ ~blind /\ AllSettled(stack, global)
    BY DEF ReadsFind
  <2>1. TypeOK /\ Setting
    BY InitTypeOK
  <2>2. Len(stack) = 1 /\ stack[1] = Frame(Root) /\ Root \in DOMAIN program
    BY ImportAssumption DEF Init
  <2>3. \A x \in Global, j \in Nat : Defines(Root, j, x) => ~(j < 1)
    BY <2>1, <2>2, FormPositions DEF Defines
  <2>4. Settled(stack, global, 1)
    BY <2>2, <2>3 DEF Settled, Frame
  <2>5. TypesKnown
    BY DEF Init, TypesKnown
  <2> QED
    BY <2>2, <2>4, <2>5 DEF Init, AllSettled
<1>2. ReadsFind => SelfContainedReads
  BY DEF ReadsFind, SelfContainedReads, SelfContainedProgram, Retyped
<1> QED
  BY <1>1, <1>2, ImportTypeCorrect, StepTypesKnown, StepReadsFind, PTL DEF Spec
===============================================================================

-------------------------------- MODULE Import --------------------------------
(***************************************************************************)
(* Loading a program and the files it imports: eval_program,               *)
(* vm_import_resolve_and_load and vm_import_file_impl (src/eval.c).        *)
(*                                                                         *)
(* eval_program goes over the forms of a file twice: the first pass        *)
(* typechecks, but performs each import at once, running the imported file *)
(* to its end; the second pass evaluates, and performs each import again.  *)
(* All files share one global environment.  The C stack of nested calls    *)
(* is the variable stack.                                                  *)
(*                                                                         *)
(* A form is an import, or a def of a global at a declared type, or a form *)
(* that does not typecheck.  The expression of a def reads some globals at *)
(* once (reads inside a fn happen later and are left out), each in a place *)
(* that accepts some types, and then yields a value of its own type.       *)
(***************************************************************************)
EXTENDS Naturals, Sequences, FiniteSets

CONSTANTS File,       \* paths
          Root,       \* the file that sqale run was given
          Module,     \* names that import forms mention
          Candidates, \* the paths a name resolves to, in the order tried: as
                      \* it stands, under the five bases, under SQALE_PATH
          Global,     \* global names of the program
          Type,
          AnyType,    \* the type that ty_eq takes for any other
          Programs    \* each gives the forms of the files that exist

FormOfProgram ==
  [kind : {"import"}, what : Module, type : {AnyType}, yields : {AnyType}, reads : {<< >>}]
    \cup [kind : {"def"}, what : Global, type : Type, yields : Type,
          reads : UNION { [S -> SUBSET Type] : S \in SUBSET Global }]
    \cup [kind : {"ill"}, what : {""}, type : {AnyType}, yields : {AnyType}, reads : {<< >>}]

ASSUME ImportAssumption ==
  /\ Root \in File
  /\ Candidates \in [Module -> Seq(File)]
  /\ \A p \in Programs :
        /\ DOMAIN p \subseteq File /\ Root \in DOMAIN p
        /\ \A f \in DOMAIN p : p[f] \in Seq(FormOfProgram)

VARIABLES program,
          stack,     \* calls of eval_program, the innermost last
          imported,  \* the import cache: paths that mark_imported recorded
          global,    \* the newest entry of a name: "absent", "typed" (entered
                     \* by the typechecker, no value) or "valued"
          typeOf,    \* its type
          loads,     \* how often a file was loaded by an import
          fetched,   \* for each name, the files loaded for it
          missing,   \* names reported "module not found"
          aborted,   \* files that were given up at a type error
          blind      \* some evaluated expression read a name with no value

vars == <<program, stack, imported, global, typeOf, loads, fetched, missing,
          aborted, blind>>

Frame(f) == [file |-> f, pass |-> "check", at |-> 1]
Top == stack[Len(stack)]
Forms == program[Top.file]
InForms(pass) == stack # << >> /\ Top.pass = pass /\ Top.at <= Len(Forms)
Form == Forms[Top.at]
Advanced == [stack EXCEPT ![Len(stack)].at = @ + 1]
Pop == SubSeq(stack, 1, Len(stack) - 1)

Init == /\ program \in Programs
        /\ stack = << Frame(Root) >>
        /\ imported = {}
        /\ global = [x \in Global |-> "absent"]
        /\ typeOf = [x \in Global |-> "none"]
        /\ loads = [f \in File |-> 0]
        /\ fetched = [m \in Module |-> {}]
        /\ missing = {}
        /\ aborted = {}
        /\ blind = FALSE

Exists(f) == f \in DOMAIN program

(* Seeded fault: the search starts at the last place. *)
Bug_LastFirst(m, f) ==
  \E i \in DOMAIN Candidates[m] :
     /\ Candidates[m][i] = f
     /\ Exists(f) /\ f \notin imported
     /\ \A j \in i + 1 .. Len(Candidates[m]) :
           ~Exists(Candidates[m][j]) \/ Candidates[m][j] \in imported

(* Seeded fault: the import cache is not looked at. *)
Bug_NoCache(m, f) ==
  \E i \in DOMAIN Candidates[m] :
     /\ Candidates[m][i] = f
     /\ Exists(f)
     /\ \A j \in 1 .. i - 1 : ~Exists(Candidates[m][j])

(* vm_import_resolve_and_load: the first path that exists and was not      *)
(* imported yet.                                                           *)
Resolves(m, f) ==
  \E i \in DOMAIN Candidates[m] :
     /\ Candidates[m][i] = f
     /\ Exists(f) /\ f \notin imported
     /\ \A j \in 1 .. i - 1 :
           ~Exists(Candidates[m][j]) \/ Candidates[m][j] \in imported

(* The file is marked before it is loaded; what becomes of it is ignored. *)
Load(m) ==
  \E f \in File :
     /\ Resolves(m, f)
     /\ imported' = imported \cup {f}
     /\ loads' = [loads EXCEPT ![f] = @ + 1]
     /\ fetched' = [fetched EXCEPT ![m] = @ \cup {f}]
     /\ stack' = Append(Advanced, Frame(f))
     /\ UNCHANGED missing

(* Seeded fault: the search gives up when one candidate was imported. *)
Bug_GiveUpEarly(m) ==
  /\ \/ ~ \E f \in File : Resolves(m, f)
     \/ \E i \in DOMAIN Candidates[m] : Candidates[m][i] \in imported
  /\ missing' = missing \cup {m}
  /\ stack' = Advanced
  /\ UNCHANGED <<imported, loads, fetched>>

(* Seeded fault: a failed import is tried again. *)
Bug_Retry(m) ==
  /\ ~ \E f \in File : Resolves(m, f)
  /\ missing' = missing \cup {m}
  /\ UNCHANGED <<stack, imported, loads, fetched>>

NotFound(m) ==
  /\ ~ \E f \in File : Resolves(m, f)
  /\ missing' = missing \cup {m}
  /\ stack' = Advanced
  /\ UNCHANGED <<imported, loads, fetched>>

(* Either pass comes to an import form. *)
ImportForm ==
  /\ InForms("check") \/ InForms("run")
  /\ Form.kind = "import"
  /\ Load(Form.what) \/ NotFound(Form.what)
  /\ UNCHANGED <<program, global, typeOf, aborted, blind>>

(* ty_eq *)
TyEq(s, t) == s = t \/ AnyType \in {s, t}

(* typecheck of a def: the name is entered with its declared type and no   *)
(* value, on top of any older entry, before the expression is looked at;   *)
(* what it reads has the types that its newest entry has by then.          *)
Entered == [global EXCEPT ![Form.what] = "typed"]
EnteredTypes == [typeOf EXCEPT ![Form.what] = Form.type]
WellTyped ==
  /\ \A x \in DOMAIN Form.reads : Entered[x] # "absent" /\ EnteredTypes[x] \in Form.reads[x]
  /\ TyEq(Form.yields, Form.type)

CheckDef ==
  /\ InForms("check")
  /\ Form.kind = "def"
  /\ WellTyped
  /\ global' = Entered
  /\ typeOf' = EnteredTypes
  /\ stack' = Advanced
  /\ UNCHANGED <<program, imported, loads, fetched, missing, aborted, blind>>

(* A type error ends eval_program with 1.  The name stays entered, and an  *)
(* importer does not notice.                                               *)
CheckFails ==
  /\ InForms("check")
  /\ \/ Form.kind = "def" /\ ~WellTyped /\ global' = Entered /\ typeOf' = EnteredTypes
     \/ Form.kind = "ill" /\ UNCHANGED <<global, typeOf>>
  /\ aborted' = aborted \cup {Top.file}
  /\ stack' = Pop
  /\ UNCHANGED <<program, imported, loads, fetched, missing, blind>>

(* Seeded fault: the second pass starts at the second form. *)
Bug_SkipFirst ==
  /\ stack # << >> /\ Top.pass = "check" /\ Top.at > Len(Forms)
  /\ stack' = [stack EXCEPT ![Len(stack)] =
                 [file |-> Top.file, pass |-> "run", at |-> 2]]
  /\ UNCHANGED <<program, imported, global, typeOf, loads, fetched, missing, aborted, blind>>

StartRun ==
  /\ stack # << >> /\ Top.pass = "check" /\ Top.at > Len(Forms)
  /\ stack' = [stack EXCEPT ![Len(stack)] =
                 [file |-> Top.file, pass |-> "run", at |-> 1]]
  /\ UNCHANGED <<program, imported, global, typeOf, loads, fetched, missing, aborted, blind>>

(* eval of a def: a name whose entry has no value reads as Unit.  The new  *)
(* entry has the type that the first pass found for the expression.        *)
RunDef ==
  /\ InForms("run")
  /\ Form.kind = "def"
  /\ blind' = (blind \/ \E x \in DOMAIN Form.reads : global[x] # "valued")
  /\ global' = [global EXCEPT ![Form.what] = "valued"]
  /\ typeOf' = [typeOf EXCEPT ![Form.what] = Form.yields]
  /\ stack' = Advanced
  /\ UNCHANGED <<program, imported, loads, fetched, missing, aborted>>

EndFile ==
  /\ stack # << >> /\ Top.pass = "run" /\ Top.at > Len(Forms)
  /\ stack' = Pop
  /\ UNCHANGED <<program, imported, global, typeOf, loads, fetched, missing, aborted, blind>>

Next == ImportForm \/ CheckDef \/ CheckFails \/ StartRun \/ RunDef \/ EndFile

Spec == Init /\ [][Next]_vars
FairSpec == Spec /\ WF_vars(Next)
-------------------------------------------------------------------------------
TypeOK == /\ DOMAIN program \subseteq File
          /\ stack \in Seq([file : DOMAIN program, pass : {"check", "run"},
                           at : Nat \ {0}])
          /\ imported \subseteq File
          /\ global \in [Global -> {"absent", "typed", "valued"}]
          /\ typeOf \in [Global -> Type \cup {"none"}]
          /\ loads \in [File -> Nat]
          /\ fetched \in [Module -> SUBSET File]
          /\ missing \subseteq Module
          /\ aborted \subseteq DOMAIN program
          /\ blind \in BOOLEAN

(* No path is loaded twice, by whatever names and from whatever places.    *)
LoadedOnce == \A f \in File : loads[f] = IF f \in imported THEN 1 ELSE 0

(* An import cycle does not recurse without end: calls of eval_program     *)
(* nest at most once per file and once more for the root.                  *)
DepthBounded == Len(stack) <= Cardinality(imported) + 1

(* Loading comes to an end, whatever imports what. *)
LoadingEnds == <>(stack = << >>)

(* "module not found" is reported only when every path of the name that    *)
(* exists has been imported.                                               *)
MissingExhausted == \A m \in missing : \A i \in DOMAIN Candidates[m] :
  Exists(Candidates[m][i]) => Candidates[m][i] \in imported

(* The nearest file of a name wins: once something was loaded for a name,  *)
(* its first existing path is among what was imported.                     *)
NearestWins == \A m \in Module : fetched[m] # {} =>
  \A i \in DOMAIN Candidates[m] :
     Exists(Candidates[m][i]) /\ (\A j \in 1 .. i - 1 : ~Exists(Candidates[m][j]))
        => Candidates[m][i] \in imported

(* Taken alone the file typechecks: no form is ill-typed, and a def reads  *)
(* only what an earlier def of the same file declares at a type that the   *)
(* place of the read accepts.                                              *)
SelfContained(f) == \A i \in DOMAIN program[f] :
  /\ program[f][i].kind # "ill"
  /\ TyEq(program[f][i].yields, program[f][i].type)
  /\ \A x \in DOMAIN program[f][i].reads : \E j \in 1 .. i - 1 :
        /\ program[f][j].kind = "def" /\ program[f][j].what = x
        /\ program[f][j].type \in program[f][i].reads[x]

(* The types that the defs of a name give it, anywhere in the program. *)
TypesGiven(x) == { s \in Type : \E f \in DOMAIN program : \E i \in DOMAIN program[f] :
  /\ program[f][i].kind = "def" /\ program[f][i].what = x
  /\ s \in {program[f][i].type, program[f][i].yields} }

(* Imports run between and during the two passes of their importer and may *)
(* define the names it defines.  If every file is self-contained, every    *)
(* expression that is evaluated still finds the values it reads, unless a  *)
(* file was given up at a type error (its names then stay on the table     *)
(* with no value); and that happens only if the files of the program give  *)
(* one name two types.                                                     *)
SelfContainedReads == (\A f \in DOMAIN program : SelfContained(f)) =>
  /\ blind => aborted # {}
  /\ aborted # {} => \E x \in Global : \E s, t \in TypesGiven(x) : s # t
===============================================================================

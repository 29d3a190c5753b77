------------------------------- MODULE Session -------------------------------
(***************************************************************************)
(* The two drivers of main.c.  cmd_repl reads a line, collects its macros  *)
(* into a new macro environment with a new macro-time VM, expands it and   *)
(* evaluates its forms one by one in a VM that lasts for the session.      *)
(* cmd_run does that with a whole file, except that eval_program           *)
(* typechecks all forms before it evaluates the first, and then calls main.*)
(* Closures handed to spawn run at any time.  Here each form and each      *)
(* closure is one step that waits until it need not block half way         *)
(* (Shared looks at interleavings inside of a form).                       *)
(***************************************************************************)
EXTENDS Macro

CONSTANT Scripts                \* sequences of lines, each a sequence of nodes

VARIABLES mode,                 \* "repl" or "run"
          lines,                \* what has not been read
          menv,                 \* the macro environment of the current line
          raw,                  \* the forms of that line before expansion
          todo,                 \* expanded forms to be checked or evaluated
          checked,              \* forms that pass 1 of eval_program accepted
          phase,                \* "form", "check", "rejected", "eval", "main", "end" or "dead"
          vm,
          accepted,             \* history: the typechecked forms
          last                  \* history: the last form and its value
vars == <<mode, lines, menv, raw, todo, checked, phase, vm, accepted, last>>

Nothing == [n |-> List(<<>>), v |-> v_unit]
Init ==
  /\ mode \in {"repl", "run"} /\ lines \in Scripts
  /\ menv = <<>> /\ raw = <<>> /\ todo = <<>> /\ checked = <<>>
  /\ phase = "form" /\ vm = vm_new /\ accepted = <<>> /\ last = Nothing

\* Collect the macros of a program and expand it; the program is itself a list.
Prepare(program) ==
  LET Then(c, x) == [env |-> c.env, forms |-> x.n[2], halt |-> x.m.halt]
      Collected(c) == Then(c, macro_expand_all(c.m, c.env, List(program)))
  IN Collected(macros_collect_user(vm_new, macros_register_core(<<>>), program))
After(s, phase1) == IF s.halt = "no" THEN phase1 ELSE "dead"

Read(program, p, next) ==
  /\ menv' = p.env /\ todo' = p.forms
  /\ raw' = IF Len(p.forms) = Len(program) THEN program ELSE <<>>
  /\ phase' = IF p.halt = "no" THEN next ELSE "dead"
  /\ UNCHANGED <<mode, checked, vm, accepted, last>>

\* cmd_repl: the next line, and the next form of the line.
ReadLine ==
  /\ mode = "repl" /\ phase = "form" /\ todo = <<>> /\ lines # <<>>
  /\ Read(Head(lines), Prepare(Head(lines)), "form")
  /\ lines' = Tail(lines)
EvalForm ==
  /\ mode = "repl" /\ phase = "form" /\ todo # <<>>
  /\ LET Then(r) ==
           /\ r.s.halt # "blocked"
           /\ vm' = r.s /\ phase' = After(r.s, "form")
           /\ accepted' = IF r.ok THEN Append(accepted, r.n) ELSE accepted
           /\ last' = IF r.ok THEN [n |-> r.n, v |-> r.v] ELSE Nothing
     IN Then(eval_form(vm, Head(todo)))
  /\ todo' = Tail(todo)
  /\ raw' = IF raw = <<>> THEN raw ELSE Tail(raw)
  /\ UNCHANGED <<mode, lines, menv, checked>>

\* cmd_run: the file, the two passes of eval_program, and main.
LoadProgram ==
  /\ mode = "run" /\ phase = "form"
  /\ Read(FlattenSeq(lines), Prepare(FlattenSeq(lines)), "check")
  /\ UNCHANGED lines
\* Defect: a form that does not typecheck is left out.
Bug_SkipRejected ==
  /\ phase = "check"
  /\ IF todo = <<>>
     THEN phase' = "eval" /\ UNCHANGED <<checked, todo, vm, accepted>>
     ELSE LET r == typecheck_node(vm.frames, 1, Head(todo))
          IN /\ vm' = [vm EXCEPT !.frames = r.F]
             /\ checked' = IF r.ok THEN Append(checked, r.n) ELSE checked
             /\ accepted' = checked' /\ todo' = Tail(todo) /\ UNCHANGED phase
  /\ UNCHANGED <<mode, lines, menv, raw, last>>
CheckNext ==
  /\ phase = "check"
  /\ IF todo = <<>>
     THEN phase' = "eval" /\ UNCHANGED <<checked, todo, vm, accepted>>
     ELSE LET Then(r) ==
                /\ vm' = [vm EXCEPT !.frames = r.F]
                /\ phase' = IF r.ok THEN "check" ELSE "rejected"
                /\ checked' = IF r.ok THEN Append(checked, r.n) ELSE checked
                /\ accepted' = checked'
                /\ todo' = Tail(todo)
          IN Then(typecheck_node(vm.frames, 1, Head(todo)))
  /\ UNCHANGED <<mode, lines, menv, raw, last>>
EvalNext ==
  /\ phase = "eval"
  /\ IF checked = <<>>
     THEN phase' = "main" /\ UNCHANGED <<checked, vm, last>>
     ELSE LET Then(r) ==
                /\ r.s.halt # "blocked"
                /\ vm' = r.s /\ phase' = After(r.s, "eval")
                /\ last' = [n |-> Head(checked), v |-> r.v]
                /\ checked' = Tail(checked)
          IN Then(eval_node(Restart(vm), 1, Head(checked)))
  /\ UNCHANGED <<mode, lines, menv, raw, todo, accepted>>
CallMain ==
  /\ phase = "main"
  /\ LET Then(r) == r.s.halt # "blocked" /\ vm' = r.s /\ phase' = After(r.s, "end")
         Call(f) == IF f[1] = "CLOSURE" THEN Then(vm_call_closure(Restart(vm), f, <<>>))
                    ELSE phase' = "end" /\ UNCHANGED vm
     IN Call(env_lookup(vm.frames, 1, "main").value)
  /\ UNCHANGED <<mode, lines, menv, raw, todo, checked, accepted, last>>

\* A thread made by spawn runs its closure.
RunThread(i) ==
  /\ phase \notin {"end", "rejected", "dead"}
  /\ LET Then(r) == r.s.halt # "blocked" /\ vm' = r.s /\ phase' = After(r.s, phase)
     IN Then(vm_call_closure(Restart([vm EXCEPT !.threads = RemoveAt(@, i)]), vm.threads[i], <<>>))
  /\ UNCHANGED <<mode, lines, menv, raw, todo, checked, accepted, last>>

Next == \/ ReadLine \/ EvalForm
        \/ LoadProgram \/ CheckNext \/ EvalNext \/ CallMain
        \/ \E i \in DOMAIN vm.threads : RunThread(i)
Spec == Init /\ [][Next]_vars

(* ---------------------- what the properties speak of ------------------- *)
RECURSIVE Nodes(_)
Nodes(n) == {n} \cup (IF Kind(n) # "list" THEN {} ELSE UNION {Nodes(n[2][i]) : i \in DOMAIN n[2]})
Names(n) == {m[2] : m \in {k \in Nodes(n) : Kind(k) = "sym"}}
AllNodes(forms) == UNION {Nodes(forms[i]) : i \in DOMAIN forms}
AllNames(forms) == UNION {Names(forms[i]) : i \in DOMAIN forms}
CallsOf(n, f) == {k \in Nodes(n) : Form(k, f)}

RECURSIVE Loose(_)
Loose(t) == t = T_Any \/ (t[1] = "Func" /\ (Loose(t[3]) \/ \E i \in DOMAIN t[2] : Loose(t[2][i])))
\* Nodes of type Any, other than natives that are called.
RECURSIVE LooseNodes(_)
LooseNodes(n) ==
  LET native == Kind(n) = "list" /\ n[2] # <<>> /\ Kind(n[2][1]) = "sym" /\ n[2][1][2] \in DOMAIN Signatures
      from == IF native THEN 2 ELSE 1
  IN \/ Loose(Ty(n))
     \/ Kind(n) = "list" /\ \E i \in from..Len(n[2]) : LooseNodes(n[2][i])

\* The names bound by def, defenum and let, and by parameters.
DefNames(n) == {k[2][2][2] : k \in CallsOf(n, "def")}
               \cup UNION {ToSet(Variants(k)) : k \in CallsOf(n, "defenum")}
LetNames(n) == UNION {{k[2][2][2][i][2][1][2] : i \in {j \in DOMAIN k[2][2][2] : Kind(k[2][2][2][j]) = "list"}} :
                      k \in CallsOf(n, "let")}
ParamNames(n) == UNION {{ParamName(k, i) : i \in DOMAIN k[2][2][2]} : k \in CallsOf(n, "fn")}
\* Some name has two binders, one of which adds to a frame already in use: a
\* closure made earlier may find the new entry, of another type.
Rebound(forms) ==
  LET b == List(forms)
      Twice(x) == Cardinality({k \in 1..Len(forms) : x \in DefNames(forms[k])}) > 1
  IN \/ \E x \in DefNames(b) : Twice(x) \/ x \in LetNames(b) \cup ParamNames(b) \cup DOMAIN Signatures
     \/ \E x \in LetNames(b) : x \in ParamNames(b) \cup DOMAIN Signatures

\* while is typed Unit, but has the value of its body.
ValuedWhile(n) == \E k \in CallsOf(n, "while") : Len(k[2]) > 2 /\ Ty(Last(k[2])) # T_Unit

\* if checks four items whatever its length, and has no value if it is longer.
LongIf(n) == \E k \in CallsOf(n, "if") : Len(k[2]) > 4

\* What lets a value and its static type part.
Excused ==
  \/ vm.unset
  \/ Rebound(accepted)
  \/ "str-split-ws" \in AllNames(accepted)       \* declared for Any, no vector for most
  \/ \E i \in DOMAIN accepted :
       LooseNodes(accepted[i]) \/ ValuedWhile(accepted[i]) \/ LongIf(accepted[i])

(* ------------------------------ properties ----------------------------- *)
\* Type soundness: the value of an accepted form is of the form's type, the
\* values of the environment are of their entries' types, and evaluation
\* crashes only where integers are divided -- unless a name was read before
\* it had a value, a value passed through Any, a name was bound twice, the value
\* of a loop was used, or an if had too many branches.
Sound ==
  Excused \/ /\ vm.halt = "crash" => AllNames(accepted) \cap {"/", "%", "mod"} # {}
             /\ vm.halt = "no" => FitsType(last.v, Ty(last.n))
             /\ \A e \in DOMAIN vm.frames : \A i \in DOMAIN vm.frames[e].list :
                  LET en == vm.frames[e].list[i]
                  IN NoValue = en.value \/ en.type = Null \/ FitsType(en.value, en.type)

\* The names a form binds in the frame it is evaluated in.
RECURSIVE TopDefs(_)
TopDefs(n) ==
  CASE Kind(n) # "list" \/ Form(n, "fn") \/ Form(n, "let") \/ Form(n, "defmacro") -> {}
    [] Form(n, "defenum") -> {n[2][2][2]} \cup ToSet(Variants(n))
    [] Form(n, "defstruct") -> {n[2][2][2]}
    [] OTHER -> (IF Form(n, "def") THEN {n[2][2][2]} ELSE {})
                \cup UNION {TopDefs(n[2][i]) : i \in DOMAIN n[2]}
\* A form, accepted or rejected, changes the meaning of no global name but
\* those it defines outside of functions and lets, and those that some set!
\* assigns; a thread defines none.
OnlyDefsBind ==
  [][ LET all == ToSet(accepted) \cup ToSet(todo)
          assigned == {k[2][2][2] : k \in UNION {CallsOf(n, "set!") : n \in all}}
          bound == IF todo # <<>> /\ todo # todo' THEN TopDefs(Head(todo))
                   ELSE IF checked # <<>> /\ checked # checked' THEN TopDefs(Head(checked)) ELSE {}
          names == {vm'.frames[1].list[i].name : i \in DOMAIN vm'.frames[1].list}
      IN \A x \in names \ (assigned \cup bound) :
           env_lookup(vm'.frames, 1, x) = env_lookup(vm.frames, 1, x) ]_vm

\* The value of cond is that of the first clause whose test is true, of when
\* that of its body, Unit if there is none.
Expanded(n) == macro_expand_all(vm_new, menv, n).n
RECURSIVE ClauseMeans(_, _)
ClauseMeans(s, clauses) ==
  LET Then(cl, t) == IF t.v = v_bool(TRUE) THEN Body(t.s, 1, cl, 2) ELSE ClauseMeans(t.s, Tail(clauses))
      Clause(cl) == IF IsSym(cl[1], "else") THEN Body(s, 1, cl, 2) ELSE Then(cl, eval_node(s, 1, cl[1]))
  IN IF clauses = <<>> THEN Res(s, v_unit)
     ELSE Clause([i \in DOMAIN clauses[1][2] |-> Expanded(clauses[1][2][i])])
IsClause(n) == Kind(n) = "list" /\ n[2] # <<>>
Means(s, n) == ClauseMeans(s, IF Form(n, "cond") THEN SelectSeq(Tail(n[2]), IsClause) ELSE << List(Tail(n[2])) >>)
IsCore(n) == /\ Form(n, "cond") \/ Form(n, "when")
             /\ menv[lookup(menv, n[2][1])].fn = <<n[2][1][2]>>
CoreMacrosMean ==
  [][ EvalForm /\ raw # <<>> /\ accepted' # accepted /\ vm'.halt = "no"
      => LET Same(r) == r.v = last'.v /\ r.s.out = vm'.out
         IN IsCore(Head(raw)) => Same(Means(Restart(vm), Head(raw))) ]_vars

\* No macro call is left in expanded code, outside of what looks like a type.
RECURSIVE NoCallLeft(_, _)
NoCallLeft(env, n) ==
  \/ Kind(n) # "list"
  \/ n[2] = <<>> \/ list_looks_like_type(n)
  \/ /\ lookup(env, n[2][1]) = 0
     /\ \A i \in DOMAIN n[2] : (\E j \in 1..(i - 1) : IsSym(n[2][j], ":")) \/ NoCallLeft(env, n[2][i])
ExpansionComplete == phase # "dead" => \A i \in DOMAIN todo : NoCallLeft(menv, todo[i])

\* A file means what its lines typed into the REPL mean: it is accepted if
\* each line is, with the same output and the same global values -- unless a
\* macro is used on a line after its own, a value passes through Any, a name
\* is read before it has a value, or threads run.
ReplForm(a, n) ==
  LET Then(r) == [s |-> r.s, ok |-> a.ok /\ r.ok, unset |-> r.s.unset] IN Then(eval_form(a.s, n))
ReplLine(a, line) == FoldLeft(ReplForm, a, Prepare(line).forms)
Repl(script) == FoldLeft(ReplLine, [s |-> vm_new, ok |-> TRUE, unset |-> FALSE], script)
MacroNames(line) == {k[2][2][2] : k \in UNION {CallsOf(line[i], "defmacro") : i \in DOMAIN line}}
ReadsLater(script) == \E i, j \in DOMAIN script : i # j /\ MacroNames(script[i]) \cap AllNames(script[j]) # {}
GlobalNames(s) == {s.frames[1].list[i].name : i \in DOMAIN s.frames[1].list}
DriversAgree ==
  mode = "run" /\ phase \in {"main", "rejected"} =>
    LET Same(r) ==
       \/ r.s.halt # "no" \/ r.unset \/ vm.unset
       \/ ReadsLater(lines) \/ "spawn" \in AllNames(accepted)
       \/ \E i \in DOMAIN accepted : LooseNodes(accepted[i])
       \/ phase = "rejected" /\ ~ r.ok
       \/ /\ phase = "main" /\ r.ok
          /\ r.s.out = vm.out
          /\ \A x \in GlobalNames(vm) : env_lookup(vm.frames, 1, x).value = env_lookup(r.s.frames, 1, x).value
    IN Same(Repl(lines))
=============================================================================

------------------------------- MODULE Codegen -------------------------------
(***************************************************************************)
(* emit-ir (main.c cmd_emit_ir, codegen_llvm.c).  The program is checked   *)
(* and evaluated by eval_program, and then compiled by one of the two      *)
(* back ends: "text" prints LLVM IR, "api" builds it with the LLVM C API   *)
(* (USE_LLVM=1) and knows literals, seven operators and if only.           *)
(*                                                                         *)
(* IR is a function from labels to sequences of instructions.  A temporary *)
(* is a number; -1 is the generators' "no value" (NULL in the api).  After *)
(* compilation a machine executes main, one instruction a step: it stands  *)
(* for LLVM and the runtime's print functions, which are not in this       *)
(* repository's hands.                                                     *)
(***************************************************************************)
EXTENDS Language

CONSTANT Programs               \* sequences of forms, expanded

VARIABLES program,              \* the forms, typed once they are checked
          backend,              \* "text" or "api"
          stage,                \* "check", "emit", "run", "done", "rejected" or "dead"
          vm,                   \* the interpreter after eval_program
          cg,                   \* CgContext and the functions emitted so far
          k,                    \* the next form to emit
          machine
vars == <<program, backend, stage, vm, cg, k, machine>>

type_to_llvm(t) ==
  CASE t[1] \in {"Int", "Null"} -> "i64"
    [] t[1] = "Float" -> "double"
    [] t[1] = "Bool" -> "i1"
    [] t[1] = "Unit" -> "void"
    [] t[1] \in {"Str", "Any", "Func", "Chan", "Vec"} -> "i8*"
    [] OTHER -> "i64"

(* ------------------------------- emission ------------------------------ *)
Entry == <<"entry", 0>>
NoCode == Entry :> <<>>
\* tmp and label count up for the whole module, scope is innermost last.
cg_context_new == [tmp |-> 0, label |-> 0, scope |-> << <<>> >>, at |-> Entry, code |-> NoCode, fns |-> <<>>]
cg_scope_push(c) == [c EXCEPT !.scope = Append(@, <<>>)]
cg_scope_pop(c) == [c EXCEPT !.scope = Front(@)]
cg_scope_define(c, x, t, ty) ==
  [c EXCEPT !.scope[Len(c.scope)] = <<[name |-> x, tmp |-> t, type |-> ty]>> \o @]
cg_scope_lookup(c, x) ==
  LET all == FlattenSeq(Reverse(c.scope))
      hits == {i \in DOMAIN all : all[i].name = x}
  IN IF hits = {} THEN [name |-> "", tmp |-> -1, type |-> Null] ELSE all[Min(hits)]

\* An instruction: operator, target, type, temporaries it reads, the rest.
Ins(op, t, ty, a, x) == [op |-> op, t |-> t, ty |-> ty, a |-> a, x |-> x]
Emit(c, i) == [c EXCEPT !.code[c.at] = Append(@, i)]
Place(c, label) == [c EXCEPT !.at = label, !.code = (label :> <<>>) @@ @]
Out(c, t) == [c |-> c, t |-> t]
NewTmp(c, op, ty, a, x) == Out(Emit([c EXCEPT !.tmp = @ + 1], Ins(op, c.tmp, ty, a, x)), c.tmp)
Jump(c, label) == Emit(c, Ins("jmp", -1, "void", <<>>, <<label>>))

RECURSIVE cg_expr(_, _), cg_seq(_, _, _), cg_args(_, _, _)
\* Expressions i to the last, and the temporaries they leave.
cg_args(c, items, i) ==
  LET Both(r, rest) == [c |-> rest.c, ts |-> <<r.t>> \o rest.ts]
      Then(r) == Both(r, cg_args(r.c, items, i + 1))
  IN IF i > Len(items) THEN [c |-> c, ts |-> <<>>] ELSE Then(cg_expr(c, items[i]))
cg_seq(c, items, i) ==
  LET Then(r) == Out(r.c, IF r.ts = <<>> THEN -1 ELSE Last(r.ts)) IN Then(cg_args(c, items, i))

Literals == {"int", "float", "bool", "str"}
cg_literal(c, n) == NewTmp(c, "const", type_to_llvm(LitType[Kind(n)]), <<>>, Datum(n))

Binary == IntOps \cup IntTests \cup {"=", "!=", "and", "or"}
TextBinary == Binary \ {"min", "max"}
\* Defect: the operands are evaluated in order, and used in the other.
Bug_Swapped(c, f, l, r, ty) ==
  LET Then(a, b) == NewTmp(b.c, f, IF f \in {"and", "or"} THEN "i1" ELSE "i64", <<b.t, a.t>>, <<>>)
      Right(a) == Then(a, cg_expr(a.c, r))
  IN Right(cg_expr(c, l))
cg_binop(c, f, l, r, ty) ==
  LET of == CASE f \in {"+", "-", "*", "/", "%"} -> type_to_llvm(ty)
              [] f \in {"and", "or"} -> "i1"
              [] f = "mod" -> "i64"
              [] OTHER -> IF Ty(l) = T_Float THEN "double" ELSE "i64"
      Then(a, b) == IF a.t < 0 \/ b.t < 0 THEN Out(b.c, -1) ELSE NewTmp(b.c, f, of, <<a.t, b.t>>, <<>>)
      Right(a) == Then(a, cg_expr(a.c, r))
  IN Right(cg_expr(c, l))
cg_unop(c, f, n) ==
  LET of == IF f = "not" THEN "i1" ELSE IF Ty(n) = T_Float THEN "double" ELSE "i64"
      Then(a) == IF a.t < 0 THEN a ELSE NewTmp(a.c, f, of, <<a.t>>, <<>>)
  IN Then(cg_expr(c, n))

Printable == [Int |-> "i64", Float |-> "double", Bool |-> "i1", Str |-> "i8*"]
\* Arguments one by one, one without a value not at all; then a newline.
cg_print(c, n) ==
  LET Arg(d, a) ==
        LET ty == IF Ty(a)[1] \in DOMAIN Printable THEN Printable[Ty(a)[1]] ELSE "i64"
            Then(r) == IF r.t < 0 THEN r.c ELSE Emit(r.c, Ins("print", -1, ty, <<r.t>>, <<>>))
        IN Then(cg_expr(d, a))
  IN Out(Emit(FoldLeft(Arg, c, Tail(n[2])), Ins("newline", -1, "void", <<>>, <<>>)), -1)

\* A branch: its block, its value (0 if it has none but one is needed), and
\* the jump to the merge block.
cg_branch(c, label, n, isVoid, merge) ==
  LET Then(v) == Out(Jump(v.c, merge), v.t)
      Value(r) == IF isVoid \/ r.t >= 0 THEN r ELSE NewTmp(r.c, "const", "i64", <<>>, v_int(0))
  IN Then(Value(cg_expr(Place(c, label), n)))
\* The labels of the conditional that number num begins, and the jump to its
\* branches.
Label(x, num) == <<x, num + (CASE x = "then" -> 0 [] x = "else" -> 1 [] x = "merge" -> 2)>>
Branch(cond) ==
  LET num == cond.c.label
  IN Emit([cond.c EXCEPT !.label = @ + 3], Ins("br", -1, "i1", <<cond.t>>, <<Label("then", num), Label("else", num)>>))
cg_if(c, n) ==
  LET isVoid == Ty(n) = T_Unit
      Merge(num, a, b) ==
        IF isVoid THEN Out(Place(b.c, Label("merge", num)), -1)
        ELSE NewTmp(Place(b.c, Label("merge", num)), "phi", type_to_llvm(Ty(n)), <<a.t, b.t>>,
                    <<Label("then", num), Label("else", num)>>)
      Else(num, a) == Merge(num, a, cg_branch(a.c, Label("else", num), n[2][4], isVoid, Label("merge", num)))
      Then(num, c1) == Else(num, cg_branch(c1, Label("then", num), n[2][3], isVoid, Label("merge", num)))
      Tested(cond) == IF cond.t < 0 THEN cond ELSE Then(cond.c.label, Branch(cond))
  IN IF Len(n[2]) # 4 THEN Out(c, -1) ELSE Tested(cg_expr(c, n[2][2]))

cg_let(c, n) ==
  LET Bind(d, b) ==
        LET expr == b[2][IF Len(b[2]) >= 4 /\ IsSym(b[2][2], ":") THEN 4 ELSE 2]
            Then(r) == cg_scope_define(r.c, b[2][1][2], r.t, Ty(expr))
        IN IF Kind(b) # "list" THEN d
           ELSE IF Len(b[2]) < 2 THEN d ELSE Then(cg_expr(d, expr))
      Then(body) == Out(cg_scope_pop(body.c), body.t)
  IN IF Len(n[2]) < 3 THEN Out(c, -1)
     ELSE Then(cg_seq(FoldLeft(Bind, cg_scope_push(c), n[2][2][2]), n[2], 3))

\* A void call uses up a temporary too.
cg_user_call(c, n, ret) ==
  LET tys == [i \in DOMAIN Tail(n[2]) |-> type_to_llvm(Ty(n[2][i + 1]))]
      Then(r) == Out(r.c, IF ret = "void" THEN -1 ELSE r.t)
      Called(args) == Then(NewTmp(args.c, "call", ret, args.ts, [f |-> n[2][1][2], tys |-> tys]))
  IN Called(cg_args(c, n[2], 2))
\* A call of a function of the runtime.
cg_runtime(c, n, ty) ==
  LET Then(args) == IF \E i \in DOMAIN args.ts : args.ts[i] < 0 THEN Out(args.c, -1)
                    ELSE NewTmp(args.c, n[2][1][2], ty, args.ts, <<>>)
  IN Then(cg_args(c, n[2], 2))
cg_call(c, n) ==
  LET f == n[2][1][2]
      argc == Len(n[2]) - 1
      User(type) == IF type[1] = "Func" THEN cg_user_call(c, n, type_to_llvm(type[3])) ELSE Out(c, -1)
  IN CASE Kind(n[2][1]) # "sym" -> Out(c, -1)
       [] f \in TextBinary /\ argc = 2 -> cg_binop(c, f, n[2][2], n[2][3], Ty(n))
       [] f \in {"not", "neg"} /\ argc = 1 -> cg_unop(c, f, n[2][2])
       [] f = "print" -> cg_print(c, n)
       [] f = "str-concat" /\ argc = 2 -> cg_runtime(c, n, "i8*")
       [] f = "str-len" /\ argc = 1 -> cg_runtime(c, n, "i64")
       [] OTHER -> User(cg_scope_lookup(c, f).type)

NoCodeFor == {"def", "fn", "quote", "quasiquote", "defmacro", "import"}
cg_expr(c, n) ==
  CASE Kind(n) \in Literals -> cg_literal(c, n)
    [] Kind(n) = "sym" -> Out(c, cg_scope_lookup(c, n[2]).tmp)
    [] n[2] = <<>> -> Out(c, -1)
    [] Form(n, "if") -> cg_if(c, n)
    [] Form(n, "let") -> cg_let(c, n)
    [] Form(n, "do") -> cg_seq(c, n[2], 2)
    [] \E x \in NoCodeFor : Form(n, x) -> Out(c, -1)
    [] OTHER -> cg_call(c, n)

\* [def name : Type [fn [[param : T] ...] : RetT body...]]
IsDef(n) == Form(n, "def") /\ Len(n[2]) >= 5
IsFunction(n) == IsDef(n) /\ Form(n[2][5], "fn") /\ Len(n[2][5][2]) >= 3
Return(c, ret, t) ==
  IF ret = T_Unit THEN Emit(c, Ins("ret", -1, "void", <<>>, v_unit))
  ELSE Emit(c, Ins("ret", -1, type_to_llvm(ret), IF t >= 0 THEN <<t>> ELSE <<>>, v_int(0)))
cg_function(c, n) ==
  LET fn == n[2][5]
      types == Ty(fn)[2]
      Param(d, i) == cg_scope_define([d EXCEPT !.tmp = @ + 1], ParamName(fn, i), d.tmp, types[i])
      c1 == FoldLeft(Param, cg_scope_push(c), [i \in DOMAIN types |-> i])
      c2 == cg_scope_define([c1 EXCEPT !.at = Entry, !.code = NoCode], n[2][2][2], 0, Ty(fn))
      Function(code) == [name |-> n[2][2][2], first |-> c.tmp, types |-> [i \in DOMAIN types |-> type_to_llvm(types[i])],
                         ret |-> type_to_llvm(Ty(fn)[3]), code |-> code]
      Close(c3) == [cg_scope_pop(c3) EXCEPT !.fns = Append(@, Function(c3.code))]
      Then(body) == Close(Return(body.c, Ty(fn)[3], body.t))
  IN Then(cg_seq(c2, fn[2], BodyStart(fn)))

\* All definitions are registered first, those of values as well.
register_functions(c, forms) ==
  FoldLeft(LAMBDA d, n : IF IsDef(n) THEN cg_scope_define(d, n[2][2][2], 0, Ty(n[2][5])) ELSE d, c, forms)
find_main_fn(forms) == {i \in DOMAIN forms : IsDef(forms[i]) /\ IsSym(forms[i][2][2], "main")}
DefaultMain == [name |-> "main", first |-> 0, types |-> <<>>, ret |-> "i32",
                code |-> Entry :> << Ins("ret", -1, "i32", <<>>, v_int(0)) >>]

(* ------------------------ the LLVM C API back end ---------------------- *)
ApiBinary == {"+", "-", "*", "/", "<", ">", "="}
type_to_llvm_type(t) ==
  CASE t[1] = "Float" -> "double"
    [] t[1] = "Bool" -> "i1"
    [] t[1] = "Str" -> "i8*"
    [] t[1] = "Unit" -> "void"
    [] OTHER -> "i64"
RECURSIVE cg_expr_llvm(_, _)
cg_binop_llvm(c, f, l, r, ty) ==
  LET by == IF f = "=" THEN Ty(l) ELSE ty
      Then(a, b) == IF a.t < 0 \/ b.t < 0 THEN Out(b.c, -1)
                    ELSE NewTmp(b.c, f, IF by = T_Float THEN "double" ELSE "i64", <<a.t, b.t>>, <<>>)
      Right(a) == Then(a, cg_expr_llvm(a.c, r))
  IN Right(cg_expr_llvm(c, l))
\* Defect: the phi takes the blocks the branches began in.
Bug_PhiFromStart(c, n) ==
  LET Merge(num, a, b) ==
        NewTmp(Place(Jump(b.c, Label("merge", num)), Label("merge", num)), "phi", type_to_llvm_type(Ty(n)), <<a.t, b.t>>,
               <<Label("then", num), Label("else", num)>>)
      Else(num, a) == Merge(num, a, cg_expr_llvm(Place(Jump(a.c, Label("merge", num)), Label("else", num)), n[2][4]))
      Then(cond, num) == Else(num, cg_expr_llvm(Place(Branch(cond), Label("then", num)), n[2][3]))
      Tested(cond) == IF cond.t < 0 THEN cond ELSE Then(cond, cond.c.label)
  IN IF Len(n[2]) # 4 THEN Out(c, -1) ELSE Tested(cg_expr_llvm(c, n[2][2]))
\* The phi takes the blocks the branches ended in.
cg_if_llvm(c, n) ==
  LET Merge(num, a, b) ==
        NewTmp(Place(Jump(b.c, Label("merge", num)), Label("merge", num)), "phi", type_to_llvm_type(Ty(n)), <<a.t, b.t>>,
               <<a.c.at, b.c.at>>)
      Else(num, a) == Merge(num, a, cg_expr_llvm(Place(Jump(a.c, Label("merge", num)), Label("else", num)), n[2][4]))
      Then(cond, num) == Else(num, cg_expr_llvm(Place(Branch(cond), Label("then", num)), n[2][3]))
      Tested(cond) == IF cond.t < 0 THEN cond ELSE Then(cond, cond.c.label)
  IN IF Len(n[2]) # 4 THEN Out(c, -1) ELSE Tested(cg_expr_llvm(c, n[2][2]))
cg_expr_llvm(c, n) ==
  CASE Kind(n) \in {"int", "float", "bool"} -> cg_literal(c, n)
    [] Form(n, "if") -> cg_if_llvm(c, n)
    [] Kind(n) = "list" /\ n[2] # <<>> /\ Len(n[2]) = 3 /\ Kind(n[2][1]) = "sym" /\ n[2][1][2] \in ApiBinary ->
         cg_binop_llvm(c, n[2][1][2], n[2][2], n[2][3], Ty(n))
    [] OTHER -> Out(c, -1)
\* main returns the lower half of its last expression's value if that is an
\* i64, and otherwise 0.
codegen_emit_ir_llvm(c, forms) ==
  LET at == find_main_fn(forms)
      fn == forms[Min(at)][2][5]
      each == IF at = {} THEN <<>> ELSE SubSeq(fn[2], BodyStart(fn), Len(fn[2]))
      Main(c1) == [c1 EXCEPT !.fns = << [name |-> "main", first |-> 0, types |-> <<>>, ret |-> "i32", code |-> c1.code] >>]
      Then(r, as) == Main(Emit(r.c, Ins("ret", -1, "i32", as, v_int(0))))
      Half(r) == Then(r, <<r.t>>)
      Ret(body) == IF body.t >= 0 /\ type_to_llvm_type(Ty(Last(each))) = "i64"
                   THEN Half(NewTmp(body.c, "trunc", "i64", <<body.t>>, <<>>)) ELSE Then(body, <<>>)
  IN Ret(FoldLeft(LAMBDA r, n : cg_expr_llvm(r.c, n), Out(c, -1), each))

(* ------------------------------ execution ------------------------------ *)
Fn(f) == LET i == CHOOSE i \in DOMAIN cg.fns : cg.fns[i].name = f IN cg.fns[i]
\* A frame: function, block, the block before, next instruction, temporaries.
Start(f, args, dest) ==
  [fn |-> f.name, at |-> Entry, from |-> Entry, pc |-> 1, dest |-> dest,
   reg |-> [t \in f.first..(f.first + Len(f.types) - 1) |-> args[t - f.first + 1]]]
Trunc(v) == LET h == 2^(W \div 2) IN v_int(((v[2] + h \div 2) % h) - (h \div 2))
\* What an operator yields; Crash where LLVM leaves the result undefined.
Apply(f, v) ==
  CASE f \in {"%", "mod"} /\ v[2][2] = 0 -> Crash
    [] f = "=" -> v_bool(v[1] = v[2])
    [] f = "!=" -> v_bool(v[1] # v[2])
    [] f = "trunc" -> Trunc(v[1])
    [] OTHER -> Pure(f, v)

Top == Last(machine.stack)
Goto(fr, label) == [fr EXCEPT !.from = fr.at, !.at = label, !.pc = 1]
Set(fr, t, v) == [fr EXCEPT !.reg = (t :> v) @@ @, !.pc = @ + 1]
Stack(frames) == [machine EXCEPT !.stack = frames]
Below == Front(machine.stack)
Halt(why) == [machine EXCEPT !.status = why]
Executed ==
  LET fr == Top
      i == Fn(fr.fn).code[fr.at][fr.pc]
      V(n) == fr.reg[i.a[n]]
      value == IF i.a = <<>> THEN i.x ELSE V(1)
      from == {n \in DOMAIN i.x : i.x[n] = fr.from}
      With(f1) == Stack(Append(Below, f1))
  IN CASE i.op = "phi" -> IF from = {} THEN Halt("invalid") ELSE With(Set(fr, i.t, V(Min(from))))
       [] \E n \in DOMAIN i.a : i.a[n] \notin DOMAIN fr.reg -> Halt("invalid")
       [] i.op = "const" -> With(Set(fr, i.t, i.x))
       [] i.op = "print" -> [With([fr EXCEPT !.pc = @ + 1]) EXCEPT !.line = Append(@, V(1))]
       [] i.op = "newline" -> [With([fr EXCEPT !.pc = @ + 1]) EXCEPT !.out = Append(@, machine.line), !.line = <<>>]
       [] i.op = "jmp" -> With(Goto(fr, i.x[1]))
       [] i.op = "br" -> With(Goto(fr, i.x[IF V(1) = v_bool(TRUE) THEN 1 ELSE 2]))
       [] i.op = "call" -> IF machine.fuel = 0 THEN Halt("fuel")
                           ELSE [Stack(Append(Append(Below, [fr EXCEPT !.pc = @ + 1]),
                                              Start(Fn(i.x.f), [n \in DOMAIN i.a |-> V(n)], i.t)))
                                 EXCEPT !.fuel = @ - 1]
       [] i.op = "ret" -> IF Below = <<>> THEN [Halt("returned") EXCEPT !.value = value]
                          ELSE Stack(Append(Front(Below), [Last(Below) EXCEPT !.reg = (fr.dest :> value) @@ @]))
       [] OTHER -> LET v == Apply(i.op, [n \in DOMAIN i.a |-> V(n)])
                   IN IF v = Crash THEN Halt("trap") ELSE With(Set(fr, i.t, v))

(* ------------------------------- the system ---------------------------- *)
Init ==
  /\ program \in Programs /\ backend \in {"text", "api"}
  /\ stage = "check" /\ vm = vm_new /\ cg = cg_context_new /\ k = 1
  /\ machine = [stack |-> <<>>, out |-> <<>>, line |-> <<>>, fuel |-> Fuel - 1, status |-> "off", value |-> v_unit]

\* eval_program, and the first pass of the generator.
CheckOne(a, n) ==
  LET Then(r) == [ok |-> a.ok /\ r.ok, F |-> IF a.ok THEN r.F ELSE a.F, forms |-> Append(a.forms, r.n)]
  IN Then(typecheck_node(a.F, 1, n))
EvalOne(s, n) == eval_node(Restart(s), 1, n).s
Analyse ==
  /\ stage = "check"
  /\ LET Evaluated(forms, s) ==
           /\ stage' = IF s.halt = "no" THEN "emit" ELSE "dead"
           /\ program' = forms /\ vm' = s
           /\ cg' = IF backend = "text" THEN register_functions(cg, forms) ELSE cg
         Checked(c) == IF c.ok THEN Evaluated(c.forms, FoldLeft(EvalOne, [vm EXCEPT !.frames = c.F], c.forms))
                       ELSE stage' = "rejected" /\ UNCHANGED <<program, vm, cg>>
     IN Checked(FoldLeft(CheckOne, [ok |-> TRUE, F |-> vm.frames, forms |-> <<>>], program))
  /\ UNCHANGED <<backend, k, machine>>
EmitForm ==
  /\ stage = "emit" /\ backend = "text" /\ k <= Len(program)
  /\ cg' = IF IsFunction(program[k]) THEN cg_function(cg, program[k]) ELSE cg
  /\ k' = k + 1
  /\ UNCHANGED <<program, backend, stage, vm, machine>>
EmitMain ==
  /\ stage = "emit" /\ backend = "text" /\ k > Len(program)
  /\ cg' = IF find_main_fn(program) = {} THEN [cg EXCEPT !.fns = Append(@, DefaultMain)] ELSE cg
  /\ stage' = "run"
  /\ UNCHANGED <<program, backend, vm, k, machine>>
EmitApi ==
  /\ stage = "emit" /\ backend = "api"
  /\ cg' = codegen_emit_ir_llvm(cg, program)
  /\ stage' = "run"
  /\ UNCHANGED <<program, backend, vm, k, machine>>
Execute ==
  /\ stage = "run"
  /\ IF machine.status = "off"
     THEN machine' = [Stack(<<Start(Fn("main"), <<>>, -1)>>) EXCEPT !.status = "on"] /\ UNCHANGED stage
     ELSE /\ machine' = Executed
          /\ stage' = IF machine'.status = "on" THEN "run" ELSE "done"
  /\ UNCHANGED <<program, backend, vm, cg, k>>

Next == Analyse \/ EmitForm \/ EmitMain \/ EmitApi \/ Execute
Spec == Init /\ [][Next]_vars

(* ------------------------- the compiled language ----------------------- *)
RECURSIVE Nodes(_)
Nodes(n) == {n} \cup (IF Kind(n) # "list" THEN {} ELSE UNION {Nodes(n[2][i]) : i \in DOMAIN n[2]})
Calls(nodes, f) == {m \in nodes : Form(m, f)}
Functions == {program[i] : i \in {j \in DOMAIN program : IsFunction(program[j])}}
DefNames == {program[i][2][2][2] : i \in {j \in DOMAIN program : IsDef(program[j])}}
Bodies(f) == UNION {Nodes(f[2][5][2][i]) : i \in BodyStart(f[2][5])..Len(f[2][5][2])}
Params(f) == {ParamName(f[2][5], i) : i \in DOMAIN f[2][5][2][2][2]}

\* What a let binds: a value that is not Unit, the expression in the binding,
\* under a name that nothing else has.
LetFits(n) == \A i \in DOMAIN n[2][2][2] :
  LET b == n[2][2][2][i]
  IN /\ Kind(b) = "list" /\ ~ (Annotated(b) /\ Len(b[2]) = 3)
     /\ Ty(b[2][IF Annotated(b) THEN 4 ELSE 2]) # T_Unit
     /\ b[2][1][2] \notin DefNames \cup DOMAIN Signatures
\* Each branch of a conditional with a value is a single block.
IfFits(n) == /\ Len(n[2]) = 4 /\ Ty(n[2][2]) = T_Bool
             /\ Ty(n) = T_Unit \/ Calls(Nodes(n[2][3]) \cup Nodes(n[2][4]), "if") = {}
EqualFits(n) == {Ty(n[2][2]), Ty(n[2][3])} \in {{T_Int}, {T_Float}}
\* A literal is printed with %g, which leaves the point out of a whole number;
\* LLVM takes that for an integer.
HasPoint(datum) == datum[2] % 2 = 1
Compiled == TextBinary \cup {"not", "neg", "print", "str-concat", "str-len"}
Keywords == {"do", "if", "let"}
\* What a function body of the text back end may be made of.
NodeFits(n) ==
  LET head == n[2][1]   Is(x) == Form(n, x)
  IN CASE Kind(n) # "list" -> TRUE
       [] n[2] = <<>> -> TRUE
       [] Ty(n) = Null -> TRUE                          \* not an expression
       [] Kind(head) # "sym" -> FALSE
       [] Is("if") -> IfFits(n)
       [] Is("let") -> LetFits(n) /\ Len(n[2]) > 2
       [] Is("=") \/ Is("!=") -> EqualFits(n)
       [] Is("print") -> Ty(n[2][2])[1] \in DOMAIN Printable
       [] OTHER -> head[2] \in Compiled \cup Keywords \cup DefNames
\* Names that are not called are those of parameters and let bindings.
Locals(f) == Params(f) \cup UNION {{n[2][2][2][i][2][1][2] : i \in DOMAIN n[2][2][2]} : n \in Calls(Bodies(f), "let")}
Called(nodes) == {n[2][1] : n \in {m \in nodes : Kind(m) = "list" /\ m[2] # <<>>}}
SymbolsFit(f) ==
  \A n \in Bodies(f) : Kind(n) = "sym" /\ Ty(n) # Null /\ n \notin Called(Bodies(f)) => n[2] \in Locals(f)
FunctionFits(f) ==
  /\ Params(f) \cap (DefNames \cup DOMAIN Signatures) = {}
  /\ \A i \in DOMAIN Ty(f[2][5])[2] : Ty(f[2][5])[2][i] # T_Unit
  /\ \A n \in Bodies(f) : IF Kind(n) = "list" THEN NodeFits(n) ELSE Kind(n) = "float" => HasPoint(n)
  /\ SymbolsFit(f)
TextFits ==
  /\ DefNames \cap DOMAIN Signatures = {}
  /\ \A f \in Functions : FunctionFits(f)
\* And one of the C API back end.
ApiFits ==
  \A f \in Functions : f[2][2][2] = "main" => \A n \in Bodies(f) :
    \/ Kind(n) \in {"int", "float", "bool"}
    \/ Kind(n) = "sym" /\ n \in Called(Bodies(f))
    \/ Form(n, "if") /\ Ty(n) # T_Unit /\ Ty(n[2][2]) = T_Bool
    \/ Form(n, "=") /\ EqualFits(n)
    \/ \E x \in ApiBinary \ {"="} : Form(n, x)
Supported == /\ Cardinality(DefNames) = Cardinality({i \in DOMAIN program : IsDef(program[i])})
             /\ IF backend = "text" THEN TextFits ELSE ApiFits

(* ------------------------------ properties ----------------------------- *)
Tests == IntTests \cup {"=", "!=", "and", "or", "not"}
ResultType(i) == IF i.op \in Tests THEN "i1" ELSE IF i.op = "trunc" THEN "i32" ELSE i.ty
OperandType(i, n) == CASE i.op = "call" -> i.x.tys[n] [] i.op = "str-len" -> "i8*" [] OTHER -> i.ty
Reads(i, defs, n) == i.a[n] \in DOMAIN defs /\ defs[i.a[n]] = OperandType(i, n)
InsFits(i, from, defs, ret) ==
  CASE i.op = "phi" -> \E n \in DOMAIN i.x : i.x[n] = from /\ Reads(i, defs, n)
    [] i.op = "call" -> /\ \A n \in DOMAIN i.a : Reads(i, defs, n)
                        /\ \E f \in ToSet(cg.fns) : f.name = i.x.f /\ f.types = i.x.tys /\ f.ret = i.ty
    [] i.op = "const" -> backend = "text" /\ i.ty = "double" => HasPoint(i.x)
    [] i.op = "ret" -> i.ty = ret /\ \A n \in DOMAIN i.a : Reads(i, defs, n)
    [] OTHER -> \A n \in DOMAIN i.a : Reads(i, defs, n)
RECURSIVE PathFits(_, _, _, _)
\* On every path from a block, whose predecessor on the path is from.
PathFits(f, at, from, defs) ==
  LET block == f.code[at]
      Step(d, i) == [ok |-> d.ok /\ InsFits(i, from, d.defs, f.ret),
                     defs |-> IF i.t < 0 THEN d.defs ELSE (i.t :> ResultType(i)) @@ d.defs]
      r == FoldLeft(Step, [ok |-> TRUE, defs |-> defs], block)
      last == Last(block)
  IN r.ok /\ (last.op = "ret" \/ \A n \in DOMAIN last.x : PathFits(f, last.x[n], at, r.defs))
Targets(f) == FlattenSeq(SetToSeq({SelectSeq([n \in DOMAIN f.code[b] |-> f.code[b][n].t], LAMBDA t : t >= 0) :
                                   b \in DOMAIN f.code}))
\* The module is one LLVM accepts: each temporary is assigned once; on each
\* path, what an instruction reads was assigned before, with the type it is
\* read at; a phi has a value for each block it is reached from; calls and
\* returns fit the functions they are about.
IRWellFormed ==
  stage = "run" /\ machine.status = "off" /\ Supported =>
    /\ \A f \in ToSet(cg.fns) : PathFits(f, Entry, Entry,
         [t \in f.first..(f.first + Len(f.types) - 1) |-> f.types[t - f.first + 1]])
    /\ LET all == FlattenSeq([i \in DOMAIN cg.fns |-> Targets(cg.fns[i])])
       IN Cardinality(ToSet(all)) = Len(all)

\* A compiled main prints and returns what the interpreter's main does; an
\* operation without a result kills both, but for a remainder by zero, which
\* is 0 in the interpreter; the C API's main returns the lower half.
CompiledAgrees ==
  stage = "done" /\ Supported =>
    LET remainder == \E f \in Functions : Calls(Bodies(f), "%") \cup Calls(Bodies(f), "mod") # {}
        Value(v) == IF backend = "api" THEN Trunc(v) ELSE v
        Same(r) ==
          CASE machine.status = "returned" -> r.s.halt = "no" /\ Value(r.v) = machine.value /\ r.s.out = machine.out
            [] machine.status = "fuel" -> r.s.halt = "fuel"
            [] machine.status = "trap" -> r.s.halt = "crash" \/ remainder
            [] OTHER -> FALSE
        Main(f) == IF f[1] # "CLOSURE" THEN machine.status = "returned"
                   ELSE Same(vm_call_closure(Restart([vm EXCEPT !.out = <<>>]), f, <<>>))
    IN Main(env_lookup(vm.frames, 1, "main").value)
=============================================================================

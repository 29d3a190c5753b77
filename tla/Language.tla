------------------------------ MODULE Language ------------------------------
(***************************************************************************)
(* The typechecker and the evaluator (eval.c) over environments (env.c).   *)
(* Both work on one structure: env_set pushes an entry in front of the     *)
(* list of a frame, env_lookup takes the first entry of the nearest frame. *)
(* Frame 1 is vm->global_env.  The typechecker pushes entries without a    *)
(* value; frames it makes are freed again.  Frames of let and of calls     *)
(* stay, since closures may hold them.                                     *)
(*                                                                         *)
(* A state of the interpreter is a record: frames, heap (vectors, structs, *)
(* channels), out (what print wrote), threads (closures handed to spawn),  *)
(* fuel (calls and loop turns left; a bound of the model), halt ("no" or   *)
(* why evaluation cannot go on) and unset, a history variable: some name   *)
(* was read while its entry had no value.  The natives are the oldest      *)
(* entries of frame 1 and are kept outside it, in Signatures.              *)
(*                                                                         *)
(* Then(r), local to a definition, is what it goes on with after a result. *)
(***************************************************************************)
EXTENDS Values, FiniteSetsExt

CONSTANTS Fuel,                 \* bound on calls and loop turns of one evaluation
          ChanCap               \* the capacity rt_chan gives a channel; 16 in the code
ASSUME BoundsAssumption == Fuel \in Nat /\ ChanCap \in Nat \ {0}

Frame(up) == [up |-> up, list |-> <<>>]
vm_new == [frames |-> <<Frame(0)>>, heap |-> <<>>, out |-> <<>>, threads |-> <<>>,
           fuel |-> Fuel, halt |-> "no", unset |-> FALSE]

env_new(F, e) == Append(F, Frame(e))
env_set(F, e, x, ty, v) ==
  [F EXCEPT ![e].list = <<[name |-> x, type |-> ty, value |-> v]>> \o @]

\* <<frame, position>> of the entry that x stands for in frame e, or <<0, 0>>
RECURSIVE env_find(_, _, _)
env_find(F, e, x) ==
  IF e = 0 THEN <<0, 0>>
  ELSE LET hits == {i \in DOMAIN F[e].list : F[e].list[i].name = x}
       IN IF hits = {} THEN env_find(F, F[e].up, x) ELSE <<e, Min(hits)>>
\* the entry itself; one without a type and a value, named "", if there is none
env_lookup(F, e, x) ==
  LET Then(at, natives) ==
        IF at[1] # 0 THEN F[at[1]].list[at[2]]
        ELSE IF x \in DOMAIN natives
        THEN [name |-> x, type |-> natives[x], value |-> <<"FUNC", x>>]
        ELSE [name |-> "", type |-> T_Error, value |-> NoValue]
  IN Then(env_find(F, e, x), Signatures)

(* ------------------------------ typechecker ---------------------------- *)
Typed(n, items, ty) == <<n[1], items, ty>>
Ok(F, n, items, ty) == [ok |-> TRUE, F |-> F, n |-> Typed(n, items, ty)]
Fail(F, n) == [ok |-> FALSE, F |-> F, n |-> n]
\* the frames that are left when the ones made since F are freed
Freed(r, F) == [r EXCEPT !.F = SubSeq(@, 1, Len(F))]
\* [name expr], [name : Type expr], or [name : Type] with the expression next
Annotated(b) == Len(b[2]) >= 3 /\ IsSym(b[2][2], ":")

RECURSIVE typecheck_node(_, _, _), CheckItems(_, _, _, _, _), CheckBinds(_, _, _, _),
          CheckCall(_, _, _, _)

\* Items i to j, from left to right.
CheckItems(F, e, items, i, j) ==
  LET Then(r) == LET all == [items EXCEPT ![i] = r.n]
                 IN IF r.ok THEN CheckItems(r.F, e, all, i + 1, j) ELSE [r EXCEPT !.n = all]
  IN IF i > j THEN [ok |-> TRUE, F |-> F, n |-> items] ELSE Then(typecheck_node(F, e, items[i]))

LastType(items) == IF Len(items) > 1 THEN Ty(Last(items)) ELSE T_Unit
BoolCond(items) == Ty(items[2]) = T_Bool
SameBranches(items) == ty_eq(Ty(items[3]), Ty(items[4]))
\* A form of type ty of which items i to the last are checked.
CheckForm(F, e, n, i, ty) ==
  LET Then(r) == IF r.ok THEN Ok(r.F, n, r.n, ty) ELSE Fail(r.F, n)
  IN Then(CheckItems(F, e, n[2], i, Len(n[2])))
CheckDo(F, e, n) ==
  LET Then(r) == IF r.ok THEN Ok(r.F, n, r.n, LastType(r.n)) ELSE Fail(r.F, n)
  IN Then(CheckItems(F, e, n[2], 2, Len(n[2])))
CheckIf(F, e, n) ==
  LET Then(r) == IF r.ok /\ SameBranches(r.n) THEN Ok(r.F, n, r.n, Ty(r.n[3])) ELSE Fail(r.F, n)
  IN Then(CheckItems(F, e, n[2], 2, 4))
CheckWhile(F, e, n) ==
  LET Then(r) == IF r.ok /\ BoolCond(r.n) THEN CheckForm(r.F, e, <<n[1], r.n, Null>>, 3, T_Unit) ELSE Fail(r.F, n)
  IN IF Len(n[2]) < 2 THEN Fail(F, n) ELSE Then(CheckItems(F, e, n[2], 2, 2))

\* A definition enters its name before its expression is checked.
CheckDef(F, e, n) ==
  LET Then(r, decl) == IF r.ok /\ ty_eq(Ty(r.n), decl) THEN Ok(r.F, n, [n[2] EXCEPT ![5] = r.n], T_Unit)
                       ELSE Fail(r.F, n)
      Enter(decl) == IF decl = T_Error THEN Fail(F, n)
                     ELSE Then(typecheck_node(env_set(F, e, n[2][2][2], decl, NoValue), e, n[2][5]), decl)
  IN IF Len(n[2]) < 5 THEN Fail(F, n) ELSE Enter(parse_type_node(n[2][4]))

BodyStart(fn) == IF IsSym(fn[2][3], ":") THEN 5 ELSE 3
ParamTypes(fn) == [i \in DOMAIN fn[2][2][2] |-> parse_type_node(fn[2][2][2][i][2][3])]
ParamName(fn, i) == fn[2][2][2][i][2][1][2]
CheckFn(F, e, n) ==
  LET ret == IF BodyStart(n) = 5 THEN parse_type_node(n[2][4]) ELSE T_Unit
      types == ParamTypes(n)
      child == Len(F) + 1
      entries == [i \in DOMAIN types |-> [name |-> ParamName(n, i), type |-> types[i], value |-> NoValue]]
      F1 == [env_new(F, e) EXCEPT ![child].list = Reverse(entries)]
      Then(r) == Freed(IF r.ok /\ ty_eq(Ty(Last(r.n)), ret) THEN Ok(r.F, n, r.n, Func(types, ret)) ELSE Fail(r.F, n), F)
  IN Then(CheckItems(F1, child, n[2], BodyStart(n), Len(n[2])))

CheckBinds(F, e, binds, i) ==
  LET b == binds[i]
      next == Annotated(b) /\ Len(b[2]) = 3         \* the expression is the next binding
      at == IF Annotated(b) THEN 4 ELSE 2
      Enter(r, ty) ==
        LET all == IF next THEN [binds EXCEPT ![i + 1] = r.n]
                   ELSE [binds EXCEPT ![i] = Typed(b, [b[2] EXCEPT ![at] = r.n], Null)]
        IN IF ~ r.ok \/ ~ ty_eq(Ty(r.n), ty) THEN [ok |-> FALSE, F |-> r.F, n |-> binds]
           ELSE CheckBinds(env_set(r.F, e, b[2][1][2], ty, NoValue), e, all, IF next THEN i + 2 ELSE i + 1)
      Then(r) == Enter(r, IF Annotated(b) THEN parse_type_node(b[2][3]) ELSE Ty(r.n))
  IN IF i > Len(binds) THEN [ok |-> TRUE, F |-> F, n |-> binds]
     ELSE IF next /\ i = Len(binds) THEN [ok |-> FALSE, F |-> F, n |-> binds]
     ELSE Then(typecheck_node(F, e, IF next THEN binds[i + 1] ELSE b[2][at]))

CheckLet(F, e, n) ==
  LET child == Len(F) + 1
      Then(b, r) == IF b.ok /\ r.ok THEN Ok(r.F, n, r.n, IF Len(n[2]) > 2 THEN Ty(Last(r.n)) ELSE T_Unit)
                    ELSE Fail(b.F, n)
      Bound(b) == Then(b, CheckItems(b.F, child, [n[2] EXCEPT ![2] = Typed(n[2][2], b.n, Null)], 3, Len(n[2])))
  IN Freed(Bound(CheckBinds(env_new(F, e), child, n[2][2][2], 1)), F)

\* Defect: the new value may have any type.
Bug_SetUntyped(F, e, n) ==
  LET Then(r) == IF r.ok THEN Ok(r.F, n, r.n, T_Unit) ELSE Fail(F, n)
  IN IF env_lookup(F, e, n[2][2][2]).name = "" THEN Fail(F, n) ELSE Then(CheckItems(F, e, n[2], 3, 3))
CheckSet(F, e, n) ==
  LET Then(r, ty) == IF r.ok /\ (ty = Null \/ ty_eq(ty, Ty(r.n[3]))) THEN Ok(r.F, n, r.n, T_Unit)
                     ELSE Fail(r.F, n)
      Found(en) == IF en.name = "" THEN Fail(F, n) ELSE Then(CheckItems(F, e, n[2], 3, 3), en.type)
  IN IF Len(n[2]) # 3 \/ Kind(n[2][2]) # "sym" THEN Fail(F, n) ELSE Found(env_lookup(F, e, n[2][2][2]))

\* defstruct and defenum enter the type, defenum its variants as Ints.
Variants(n) == [i \in DOMAIN n[2][3][2] |-> n[2][3][2][i][2]]
EnterEnum(F, e, n, values) ==
  LET F1 == env_set(F, e, n[2][2][2], <<"Enum", n[2][2][2]>>, NoValue)
      entries == [i \in DOMAIN Variants(n) |-> [name |-> Variants(n)[i], type |-> T_Int, value |-> values[i]]]
  IN [F1 EXCEPT ![e].list = Reverse(entries) \o @]
EnterStruct(F, e, n) == env_set(F, e, n[2][2][2], <<"Struct", n[2][2][2]>>, NoValue)

\* The arguments of a call, each against its parameter.
CheckCall(F, e, n, i) ==
  LET f == Ty(n[2][1])
      Then(r) == IF ~ r.ok \/ ~ ty_eq(f[2][i - 1], Ty(r.n)) THEN Fail(r.F, n)
                 ELSE CheckCall(r.F, e, <<n[1], [n[2] EXCEPT ![i] = r.n], Null>>, i + 1)
  IN IF i > Len(n[2]) THEN Ok(F, n, n[2], f[3]) ELSE Then(typecheck_node(F, e, n[2][i]))
typecheck_call(F, e, n) ==
  LET Then(h) == IF ~ h.ok \/ Ty(h.n)[1] # "Func" THEN Fail(h.F, n)
                 ELSE IF Len(Ty(h.n)[2]) # Len(n[2]) - 1 THEN Fail(h.F, n)
                 ELSE CheckCall(h.F, e, <<n[1], [n[2] EXCEPT ![1] = h.n], Null>>, 2)
  IN Then(typecheck_node(F, e, n[2][1]))

typecheck_list(F, e, n) ==
  LET len == Len(n[2])
      Is(x) == Form(n, x)
  IN CASE len = 0 -> Ok(F, n, n[2], T_Unit)
       [] Is("defmacro") -> Ok(F, n, n[2], T_Unit)
       [] Is("def") -> CheckDef(F, e, n)
       [] Is("fn") -> CheckFn(F, e, n)
       [] Is("quote") \/ Is("quasiquote") -> Ok(F, n, n[2], T_Any)
       [] Is("do") -> CheckDo(F, e, n)
       [] Is("import") -> IF len = 2 /\ Kind(n[2][2]) = "str" THEN Ok(F, n, n[2], T_Unit) ELSE Fail(F, n)
       [] Is("let") -> CheckLet(F, e, n)
       [] Is("if") -> CheckIf(F, e, n)
       [] Is("while") -> CheckWhile(F, e, n)
       [] Is("set!") -> CheckSet(F, e, n)
       [] Is("vec") -> CheckForm(F, e, n, 2, VecOf(T_Any))
       [] Is("struct-new") -> CheckForm(F, e, n, 2, T_Any)
       [] Is("defstruct") -> Ok(EnterStruct(F, e, n), n, n[2], T_Unit)
       [] Is("defenum") -> Ok(EnterEnum(F, e, n, [i \in DOMAIN Variants(n) |-> NoValue]), n, n[2], T_Unit)
       [] OTHER -> typecheck_call(F, e, n)

\* The literal's kind is its type's; a symbol has the type of its entry.
LitType == [int |-> T_Int, float |-> T_Float, bool |-> T_Bool, str |-> T_Str]
CheckSym(F, n, en) == IF en.name = "" THEN Fail(F, Typed(n, n[2], T_Error)) ELSE Ok(F, n, n[2], en.type)
typecheck_node(F, e, n) ==
  CASE Kind(n) = "list" -> typecheck_list(F, e, n)
    [] Kind(n) = "sym" -> CheckSym(F, n, env_lookup(F, e, n[2]))
    [] OTHER -> Ok(F, n, n[2], LitType[Kind(n)])

(* ------------------------------- evaluator ----------------------------- *)
Res(s, v) == [s |-> s, v |-> v]
Stop(s, why) == Res([s EXCEPT !.halt = why], v_unit)
Define(s, e, x, ty, v) == [s EXCEPT !.frames = env_set(@, e, x, ty, v)]
Alloc(s, items) == [s EXCEPT !.heap = Append(@, items)]
Ref(kind, s) == <<kind, Len(s.heap)>>

\* Natives that use the heap, the output or other threads.  A send to a full
\* channel and a recv from an empty one block: with nobody else to wake it,
\* the evaluation stops there.
Stateful == {"print", "vec", "vec-push", "vec-get", "vec-len", "struct-new", "struct-get", "struct-set",
             "str-split-ws", "chan", "send", "recv", "spawn"}
HeapNative(s, f, a) ==
  LET k(i) == a[i][1]
      obj == s.heap[a[1][2]]
      at == a[2][2] + 1
      Indexed(kind) == k(1) = kind /\ k(2) = "INT" /\ at \in 1..Len(obj)
      Object(kind, items) == LET s1 == Alloc(s, items) IN Res(s1, Ref(kind, s1))
      Update(items) == [s EXCEPT !.heap[a[1][2]] = items]
  IN
  CASE f = "print" -> Res([s EXCEPT !.out = Append(@, a)], v_unit)
    [] f \in {"vec-push", "vec-get", "vec-len"} /\ a[1] = NullVec -> Stop(s, "crash")
    [] f = "vec" -> Object("VEC", a)
    [] f = "vec-push" -> Res(IF k(1) = "VEC" THEN Update(Append(obj, a[2])) ELSE s, v_unit)
    [] f = "vec-get" -> Res(s, IF Indexed("VEC") THEN obj[at] ELSE v_unit)
    [] f = "vec-len" -> Res(s, v_int(IF k(1) = "VEC" THEN Len(obj) ELSE 0))
    [] f = "struct-new" -> IF a # <<>> /\ k(1) = "STR" THEN Object("STRUCT", Tail(a)) ELSE Res(s, v_unit)
    [] f = "struct-get" -> Res(s, IF Indexed("STRUCT") THEN obj[at] ELSE v_unit)
    [] f = "struct-set" -> Res(IF Indexed("STRUCT") THEN Update([obj EXCEPT ![at] = a[3]]) ELSE s, v_unit)
    [] f = "str-split-ws" -> IF k(1) = "STR" THEN Object("VEC", Words(a[1][2], <<>>)) ELSE Res(s, NullVec)
    [] f = "chan" -> Object("CHAN", <<>>)
    [] f = "send" -> IF k(1) # "CHAN" THEN Res(s, v_bool(FALSE))
                     ELSE IF Len(obj) = ChanCap THEN Stop(s, "blocked")
                     ELSE Res(Update(Append(obj, a[2])), v_bool(TRUE))
    [] f = "recv" -> IF k(1) # "CHAN" THEN Res(s, v_unit)
                     ELSE IF obj = <<>> THEN Stop(s, "blocked")
                     ELSE Res(Update(Tail(obj)), obj[1])
    [] f = "spawn" -> Res(IF k(1) = "CLOSURE" THEN [s EXCEPT !.threads = Append(@, a[1])] ELSE s, v_unit)
Native(s, f, a) ==
  IF f \in Stateful THEN HeapNative(s, f, a)
  ELSE LET Then(v) == IF v = Crash THEN Stop(s, "crash") ELSE Res(s, v) IN Then(Pure(f, a))

RECURSIVE eval_node(_, _, _), EvalItems(_, _, _, _, _), EvalBinds(_, _, _, _), EvalWhile(_, _, _, _),
          qq_eval(_, _, _), qq_items(_, _, _, _)

\* The values of items i to j, evaluated from left to right.
EvalItems(s, e, items, i, j) ==
  LET Both(r, rest) == Res(rest.s, <<r.v>> \o rest.v)
      Then(r) == Both(r, EvalItems(r.s, e, items, i + 1, j))
  IN IF i > j THEN Res(s, <<>>) ELSE Then(eval_node(s, e, items[i]))
\* The value of the last of them.
Body(s, e, items, i) ==
  LET Then(r) == Res(r.s, IF r.v = <<>> THEN v_unit ELSE Last(r.v))
  IN Then(EvalItems(s, e, items, i, Len(items)))

\* A call extends the frame the closure was made in.
vm_call_closure(s, c, args) ==
  LET fn == c[2]
      bound == Min({Len(args), Len(fn[2][2][2])})
      entries == [i \in 1..bound |-> [name |-> ParamName(fn, i), type |-> Null, value |-> args[i]]]
      F == Append(s.frames, [up |-> c[3], list |-> Reverse(entries)])
  IN IF s.fuel = 0 THEN Stop(s, "fuel")
     ELSE Body([s EXCEPT !.frames = F, !.fuel = @ - 1], Len(F), fn[2], BodyStart(fn))

EvalCall(s, e, n) ==
  LET Then(r, f) == CASE r.s.halt # "no" -> r
                      [] f[1] = "FUNC" -> Native(r.s, f[2], Tail(r.v))
                      [] f[1] = "CLOSURE" -> vm_call_closure(r.s, f, Tail(r.v))
                      [] OTHER -> Res(r.s, v_unit)
      Called(r) == Then(r, r.v[1])
  IN Called(EvalItems(s, e, n[2], 1, Len(n[2])))

EvalDef(s, e, n) ==
  LET expr == IF IsSym(n[2][3], ":") THEN n[2][5] ELSE n[2][3]
      Then(r) == Res(Define(r.s, e, n[2][2][2], Ty(expr), r.v), v_unit)
  IN Then(eval_node(s, e, expr))

EvalBinds(s, e, binds, i) ==
  LET b == binds[i]
      next == Annotated(b) /\ Len(b[2]) = 3
      expr == IF next THEN binds[i + 1] ELSE b[2][IF Annotated(b) THEN 4 ELSE 2]
      Then(r) == EvalBinds(Define(r.s, e, b[2][1][2], Ty(expr), r.v), e, binds, IF next THEN i + 2 ELSE i + 1)
  IN IF i > Len(binds) THEN s ELSE Then(eval_node(s, e, expr))
\* Defect: the bindings go to the frame around the let.
Bug_LetNoFrame(s, e, n) == Body(EvalBinds(s, e, n[2][2][2], 1), e, n[2], 3)
EvalLet(s, e, n) ==
  LET s1 == [s EXCEPT !.frames = env_new(@, e)]
      child == Len(s1.frames)
  IN IF Len(n[2]) < 3 THEN Res(s, v_unit)
     ELSE Body(EvalBinds(s1, child, n[2][2][2], 1), child, n[2], 3)

\* Whatever is not the Bool true is false.
EvalIf(s, e, n) ==
  LET Then(c) == eval_node(c.s, e, n[2][IF c.v = v_bool(TRUE) THEN 3 ELSE 4])
  IN IF Len(n[2]) # 4 THEN Res(s, v_unit) ELSE Then(eval_node(s, e, n[2][2]))

\* The value of a loop is that of the last body item it evaluated.
EvalWhile(s, e, n, v) ==
  LET Again(r) == IF r.s.fuel = 0 THEN Stop(r.s, "fuel")
                  ELSE EvalWhile([r.s EXCEPT !.fuel = @ - 1], e, n, IF r.v = <<>> THEN v ELSE Last(r.v))
      Then(c) == IF c.s.halt # "no" \/ c.v # v_bool(TRUE) THEN Res(c.s, v)
                 ELSE Again(EvalItems(c.s, e, n[2], 3, Len(n[2])))
  IN Then(eval_node(s, e, n[2][2]))

\* The entry is looked up before the new value is evaluated, and written
\* after: its position counts from the end of the list, which only grows at
\* its front.  A native's entry is the oldest of frame 1.
EvalSet(s, e, n) ==
  LET x == n[2][2][2]
      Oldest(v) == [name |-> x, type |-> Signatures[x], value |-> v]
      Store(r, at) ==
        LET pos == at[2] + Len(r.s.frames[at[1]].list) - Len(s.frames[at[1]].list)
        IN Res(IF at[1] = 0 THEN [r.s EXCEPT !.frames[1].list = Append(@, Oldest(r.v))]
               ELSE [r.s EXCEPT !.frames[at[1]].list[pos].value = r.v], v_unit)
      Then(at) == IF IF at[1] = 0 THEN x \in DOMAIN Signatures ELSE s.frames[at[1]].list[at[2]].value # NoValue
                  THEN Store(eval_node(s, e, n[2][3]), at) ELSE Res(s, v_unit)
  IN Then(env_find(s.frames, e, x))

\* quote evaluates the items of a quoted list.
Datum(n) == CASE Kind(n) = "int" -> v_int(n[2]) [] Kind(n) = "float" -> v_float(n[2])
              [] Kind(n) = "bool" -> v_bool(n[2]) [] Kind(n) = "str" -> v_str(n[2])
              [] Kind(n) = "sym" -> v_symbol(n[2])
EvalQuote(s, e, q) ==
  LET Then(r) == Res(r.s, v_list(r.v))
  IN IF Kind(q) # "list" THEN Res(s, Datum(q)) ELSE Then(EvalItems(s, e, q[2], 1, Len(q[2])))

qq_items(s, e, items, i) ==
  LET el == items[i]
      splice == Form(el, "unquote-splicing") /\ Len(el[2]) >= 2
      Both(here, rest) == Res(rest.s, here \o rest.v)
      Then(r) == Both(IF splice /\ r.v[1] = "LIST" /\ r.v # NullList THEN r.v[2] ELSE <<r.v>>,
                      qq_items(r.s, e, items, i + 1))
  IN IF i > Len(items) THEN Res(s, <<>>)
     ELSE Then(IF splice THEN eval_node(s, e, el[2][2]) ELSE qq_eval(s, e, el))
qq_eval(s, e, n) ==
  LET Then(r) == Res(r.s, v_list(r.v))
  IN CASE Kind(n) # "list" -> Res(s, Datum(n))
       [] Form(n, "unquote") /\ Len(n[2]) >= 2 -> eval_node(s, e, n[2][2])
       [] OTHER -> Then(qq_items(s, e, n[2], 1))

eval_list(s, e, n) ==
  LET Is(x) == Form(n, x)
  IN CASE n[2] = <<>> \/ Is("defmacro") \/ Is("import") -> Res(s, v_unit)
       [] Is("def") -> EvalDef(s, e, n)
       [] Is("quote") -> EvalQuote(s, e, n[2][2])
       [] Is("quasiquote") -> qq_eval(s, e, n[2][2])
       [] Is("let") -> EvalLet(s, e, n)
       [] Is("if") -> EvalIf(s, e, n)
       [] Is("do") -> Body(s, e, n[2], 2)
       [] Is("while") -> EvalWhile(s, e, n, v_unit)
       [] Is("set!") -> EvalSet(s, e, n)
       [] Is("defstruct") -> Res([s EXCEPT !.frames = EnterStruct(@, e, n)], v_unit)
       [] Is("defenum") -> Res([s EXCEPT !.frames = EnterEnum(@, e, n, [i \in DOMAIN Variants(n) |-> v_int(i - 1)])], v_unit)
       [] Is("fn") -> Res(s, <<"CLOSURE", n, e, Ty(n)>>)
       [] OTHER -> EvalCall(s, e, n)

\* A name without an entry, or whose entry has no value, is Unit.
EvalSym(s, en) ==
  IF en.value = NoValue THEN Res([s EXCEPT !.unset = TRUE], v_unit) ELSE Res(s, en.value)
eval_node(s, e, n) ==
  CASE s.halt # "no" -> Res(s, v_unit)
    [] Kind(n) = "list" -> eval_list(s, e, n)
    [] Kind(n) = "sym" -> EvalSym(s, env_lookup(s.frames, e, n[2]))
    [] OTHER -> Res(s, Datum(n))

\* Typecheck one form in the global frame, and evaluate it if that succeeds.
Restart(s) == [s EXCEPT !.fuel = Fuel]
eval_form(s, form) ==
  LET Form1(c, r) == [ok |-> c.ok, n |-> c.n, s |-> r.s, v |-> r.v]
      Then(c, s1) == Form1(c, IF c.ok THEN eval_node(s1, 1, c.n) ELSE Res(s1, v_unit))
      Checked(c) == Then(c, [Restart(s) EXCEPT !.frames = c.F])
  IN Checked(typecheck_node(s.frames, 1, form))
=============================================================================

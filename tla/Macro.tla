-------------------------------- MODULE Macro -------------------------------
(***************************************************************************)
(* Macro expansion (macro.c).  A macro environment is a list, newest       *)
(* first, of names with a function: a core macro's own name, or the        *)
(* closure that defmacro was evaluated to in the macro-time VM m.          *)
(* Expansion of what a macro produced goes on; each macro call takes one   *)
(* unit of the VM's fuel, so that an expansion that does not end halts     *)
(* with "fuel".                                                            *)
(***************************************************************************)
EXTENDS Language

macro_env_add(env, name, fn) == <<[name |-> name, fn |-> fn]>> \o env
macros_register_core(env) ==
  macro_env_add(macro_env_add(macro_env_add(env, "when", <<"when">>), "cond", <<"cond">>), "->", <<"->">>)

\* An Arrow or Chan anywhere in a list makes it a type.
list_looks_like_type(n) == \E i \in DOMAIN n[2] : IsSym(n[2][i], "->") \/ IsSym(n[2][i], "Chan")

\* The macro the head of a list names: an index of env, 0 if there is none.
lookup(env, head) ==
  LET hits == {i \in DOMAIN env : IsSym(head, env[i].name)}
  IN IF hits = {} THEN 0 ELSE Min(hits)

(* ---------------------------- core macros ------------------------------ *)
Do(items) == List(<<Sym("do")>> \o items)
If(c, t, f) == List(<<Sym("if"), c, t, f>>)

m_when(form) ==
  IF Len(form[2]) < 2 THEN form
  ELSE If(form[2][2], Do(SubSeq(form[2], 3, Len(form[2]))), Do(<<>>))

\* From the last clause backwards; what is not a list is skipped.
RECURSIVE Clauses(_, _)
Clauses(items, i) ==
  LET cl == items[i]
      rest == Clauses(items, i + 1)
      body == Do(Tail(cl[2]))
  IN CASE i > Len(items) -> Do(<<>>)
       [] Kind(cl) # "list" -> rest
       [] cl[2] = <<>> -> rest
       [] IsSym(cl[2][1], "else") -> body
       [] OTHER -> If(cl[2][1], body, rest)
\* Defect: an off-by-one leaves the first clause out.
Bug_CondSkips(form) == IF Len(form[2]) < 2 THEN form ELSE Clauses(form[2], 3)
m_cond(form) == IF Len(form[2]) < 2 THEN form ELSE Clauses(form[2], 2)

RECURSIVE Thread(_, _)
Thread(acc, steps) ==
  LET st == Head(steps)
      call == CASE Kind(st) = "sym" -> List(<<st, acc>>)
                [] Kind(st) = "list" /\ st[2] # <<>> -> List(<<st[2][1], acc>> \o Tail(st[2]))
                [] OTHER -> acc
  IN IF steps = <<>> THEN acc ELSE Thread(call, Tail(steps))
m_thread(form) == IF Len(form[2]) < 2 THEN form ELSE Thread(form[2][2], SubSeq(form[2], 3, Len(form[2])))

(* ---------------------------- user macros ------------------------------ *)
\* Code as data and back.  What has no notation comes back as "_"; a NULL
\* list or string is read through.
RECURSIVE node_to_val(_), val_to_node(_), HoldsNull(_)
node_to_val(n) ==
  IF Kind(n) = "list" THEN v_list([i \in DOMAIN n[2] |-> node_to_val(n[2][i])]) ELSE Datum(n)
val_to_node(v) ==
  CASE v[1] = "INT" -> Lit("int", v[2]) [] v[1] = "FLOAT" -> Lit("float", v[2])
    [] v[1] = "BOOL" -> Lit("bool", v[2]) [] v[1] = "STR" -> Lit("str", v[2])
    [] v[1] = "SYMBOL" -> Sym(v[2])
    [] v[1] = "LIST" -> List([i \in DOMAIN v[2] |-> val_to_node(v[2][i])])
    [] OTHER -> Sym("_")
HoldsNull(v) ==
  \/ v \in {NullList, NullStr}
  \/ v[1] = "LIST" /\ v # NullList /\ \E i \in DOMAIN v[2] : HoldsNull(v[2][i])

Pair(m, n) == [m |-> m, n |-> n]
CallMacro(m, fn, form) ==
  LET Then(r) == CASE r.s.halt # "no" -> Pair(r.s, form)
                   [] HoldsNull(r.v) -> Pair([r.s EXCEPT !.halt = "crash"], form)
                   [] OTHER -> Pair(r.s, val_to_node(r.v))
  IN CASE fn[1] = "when" -> Pair(m, m_when(form))
       [] fn[1] = "cond" -> Pair(m, m_cond(form))
       [] fn[1] = "->" -> Pair(m, m_thread(form))
       [] OTHER -> Then(vm_call_closure(m, fn, [i \in DOMAIN Tail(form[2]) |-> node_to_val(form[2][i + 1])]))

RECURSIVE expand_rec(_, _, _), expand_items(_, _, _, _)
\* Siblings to the right of a colon are taken for types and left alone.
expand_items(m, env, items, i) ==
  LET typed == \E j \in 1..(i - 1) : IsSym(items[j], ":")
      Both(r, rest) == Pair(rest.m, <<r.n>> \o rest.n)
      Then(r) == Both(r, expand_items(r.m, env, items, i + 1))
  IN IF i > Len(items) THEN Pair(m, <<>>)
     ELSE Then(IF typed THEN Pair(m, items[i]) ELSE expand_rec(m, env, items[i]))
AsList(items) == Pair(items.m, List(items.n))
\* Defect: what a macro returns is not expanded again.
Bug_ExpandOnce(m, env, n) ==
  IF Kind(n) # "list" \/ n[2] = <<>> THEN Pair(m, n)
  ELSE IF lookup(env, n[2][1]) = 0 THEN AsList(expand_items(m, env, n[2], 1))
  ELSE CallMacro(m, env[lookup(env, n[2][1])].fn, n)
expand_rec(m, env, n) ==
  LET Then(r) == expand_rec(r.m, env, r.n)
      Found(at) == CASE at = 0 -> AsList(expand_items(m, env, n[2], 1))
                     [] m.fuel = 0 -> Pair([m EXCEPT !.halt = "fuel"], n)
                     [] OTHER -> Then(CallMacro([m EXCEPT !.fuel = @ - 1], env[at].fn, n))
  IN CASE m.halt # "no" \/ Kind(n) # "list" -> Pair(m, n)
       [] n[2] = <<>> \/ list_looks_like_type(n) -> Pair(m, n)
       [] OTHER -> Found(lookup(env, n[2][1]))
macro_expand_all(m, env, n) == expand_rec(m, env, n)

\* [defmacro name [params] body] becomes a function from Any to Any,
\* evaluated in the macro-time VM; one that is ill typed is dropped.
MacroFn(f) ==
  LET slot(p) == List(<<p, Sym(":"), Sym("Any")>>)
  IN List(<<Sym("fn"), List([i \in DOMAIN f[2][3][2] |-> slot(f[2][3][2][i])]), Sym(":"), Sym("Any"), f[2][4]>>)
RECURSIVE macros_collect_user(_, _, _)
macros_collect_user(m, env, program) ==
  LET f == Head(program)
      Then(r) == macros_collect_user(r.s, IF r.ok THEN macro_env_add(env, f[2][2][2], r.v) ELSE env, Tail(program))
  IN CASE program = <<>> -> [m |-> m, env |-> env]
       [] ~ (Form(f, "defmacro") /\ Len(f[2]) >= 3) -> macros_collect_user(m, env, Tail(program))
       [] OTHER -> Then(eval_form(m, MacroFn(f)))
=============================================================================

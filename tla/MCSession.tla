------------------------------ MODULE MCSession ------------------------------
\* Programs for TLC: every native on edge values, every program of up to
\* three lines from a pool that redefines, assigns, captures, spawns and
\* blocks, and every pair of lines from a pool of macros.
EXTENDS Session

I(i) == Lit("int", i)
S(x) == Lit("str", x)
L(items) == List([i \in DOMAIN items |-> IF Len(items[i]) = 1 THEN Sym(items[i][1]) ELSE items[i]])
s(x) == <<x>>                   \* a symbol inside of L
TInt == s("Int")
Def(x, ty, e) == L(<<s("def"), s(x), s(":"), ty, e>>)
Call(f, args) == L(<<s(f)>> \o args)
To(args, ret) == L(args \o <<s("->"), ret>>)
Param(x, ty) == L(<<s(x), s(":"), ty>>)
Fn(params, ret, body) == L(<<s("fn"), L(params), s(":"), ret, body>>)

\* Arguments for a parameter of type t: some values of the type, edges first,
\* and one of another type.
Ints == {I(MinInt), I(-1), I(0), I(3)}
Args(t) ==
  CASE t = T_Int -> Ints \cup {S(<<"1">>)}
    [] t = T_Float -> {Lit("float", h) : h \in {-3, 0, 1}} \cup {I(1)}
    [] t = T_Bool -> {Lit("bool", TRUE), Lit("bool", FALSE), I(1)}
    [] t = T_Str -> {S(<<>>), S(<<"-", "7">>), S(<<"a", " ", "b">>), S(<<"b">>), I(1)}
    [] t[1] = "Vec" -> {Call("vec", <<I(1), S(<<"a">>)>>), Call("vec", <<>>), I(1)}
    [] t[1] = "Option" -> {Call("none", <<>>), Call("some", <<I(1)>>), I(1)}
    [] t[1] = "Result" -> {Call("ok", <<I(1)>>), Call("err", <<I(1)>>), I(1)}
    [] t[1] = "Chan" -> {Call("chan", <<>>), I(1)}
    [] t[1] = "Func" -> {Fn(<<>>, s("Unit"), Call("print", <<I(1)>>)), s("none")}
    [] OTHER -> {I(0), S(<<"a">>), Lit("bool", TRUE), Call("none", <<>>), Call("ok", <<I(1)>>),
                 L(<<s("quote"), L(<<I(1), I(2)>>)>>), L(<<s("quote"), s("q")>>)}
Variadic == [f \in {"vec", "struct-new"} |-> <<T_Any, T_Any>>]
Params(f) == IF f \in DOMAIN Variadic THEN Variadic[f] ELSE Signatures[f][2]
ArgLists(p) ==
  CASE Len(p) = 0 -> {<<>>}
    [] Len(p) = 1 -> {<<a>> : a \in Args(p[1])}
    [] Len(p) = 2 -> {<<a, b>> : a \in Args(p[1]), b \in Args(p[2])}
    [] Len(p) = 3 -> {<<a, b, c>> : a \in Args(p[1]), b \in Args(p[2]), c \in Args(p[3])}
Natives == UNION {{<< <<Call(f, a)>> >> : a \in ArgLists(Params(f))} : f \in DOMAIN Signatures}

XPlus == Call("+", <<s("x"), I(1)>>)
Forms == {
  Def("x", TInt, I(3)),
  Def("x", s("S"), S(<<"a">>)),
  Def("x", TInt, XPlus),
  Def("x", TInt, s("y")),
  Def("main", To(<<>>, TInt), Fn(<<>>, TInt, s("x"))),
  Def("g", To(<<TInt>>, TInt),
      Fn(<<Param("y", TInt)>>, TInt, L(<<s("do"), L(<<s("set!"), s("x"), s("y")>>), XPlus>>))),
  L(<<s("set!"), s("x"), Call("g", <<I(2)>>)>>),
  L(<<s("set!"), s("x"), S(<<"a">>)>>),
  Call("print", <<Call("main", <<>>)>>),
  L(<<s("let"), L(<<L(<<s("x"), S(<<"a">>)>>), Param("z", TInt), Call("main", <<>>)>>), s("z")>>),
  L(<<s("while"), Call("<", <<s("x"), I(6)>>), L(<<s("set!"), s("x"), XPlus>>)>>),
  Def("c", L(<<s("Chan"), TInt>>), Call("chan", <<>>)),
  Call("spawn", <<Fn(<<>>, s("Bool"), Call("send", <<s("c"), s("x")>>))>>),
  Call("spawn", <<Fn(<<>>, s("Unit"), L(<<s("let"), L(<<L(<<s("x"), Call("recv", <<s("c")>>)>>)>>), Call("print", <<s("x")>>)>>))>>),
  Call("print", <<Call("recv", <<s("c")>>)>>),
  L(<<s("defenum"), s("E"), L(<<s("w"), s("x")>>)>>),
  L(<<s("if"), Call("=", <<s("x"), I(3)>>), Def("x", TInt, I(-1)), L(<<s("do")>>)>>) }
Rec == Fn(<<Param("n", TInt)>>, TInt,
          L(<<s("if"), Call("<", <<s("n"), I(1)>>), I(0), Call("+", <<s("n"), Call("r", <<Call("-", <<s("n"), I(1)>>)>>)>>)>>))
Programs == {<< <<a>>, <<b>>, <<c>> >> : a, b, c \in Forms}
Longer ==
  LET x == Def("x", TInt, I(3))   c == Def("c", L(<<s("Chan"), TInt>>), Call("chan", <<>>))
      spawns == {f \in Forms : Form(f, "spawn")}
      once == {f \in Forms : ~ (Form(f, "def") /\ IsSym(f[2][2], "x")) /\ ~ Form(f, "spawn") /\ ~ Form(f, "defenum")}
      r == Def("r", To(<<TInt>>, TInt), Rec)
  IN {<< <<c, x>>, <<a>>, <<b>>, <<d>> >> : a, b \in spawns, d \in Forms}
     \cup {<< <<x>>, <<a>>, <<b>>, <<d>> >> : a, b, d \in once}
     \cup {<< <<r>>, <<Call("r", <<I(n)>>)>> >> : n \in {3, -1, 7}}
     \cup {<< <<L(<<s("if"), Lit("bool", TRUE), I(1), I(2), I(3)>>)>> >>}

Unq(x) == L(<<s("unquote"), s(x)>>)
Macro(name, params, tmpl) == L(<<s("defmacro"), s(name), L(params), L(<<s("quasiquote"), tmpl>>)>>)
MacroLines == {
  <<Macro("inc", <<s("e")>>, Call("+", <<Unq("e"), I(1)>>)), Call("print", <<Call("inc", <<I(2)>>)>>)>>,
  <<Call("print", <<Call("inc", <<I(3)>>)>>)>>,
  <<Macro("lp", <<s("e")>>, Call("lp", <<Unq("e")>>)), Call("lp", <<I(1)>>)>>,
  <<Macro("up", <<s("a"), s("b")>>, Call("when", <<Unq("a"), Unq("b")>>)),
    Call("up", <<Lit("bool", TRUE), Call("print", <<I(5)>>)>>)>>,
  <<Macro("when", <<s("a")>>, Call("cond", <<L(<<Unq("a"), Call("print", <<I(1)>>)>>)>>)), Call("when", <<Lit("bool", TRUE)>>)>>,
  <<Call("cond", <<L(<<Call("<", <<I(1), I(0)>>), Call("print", <<I(1)>>)>>),
                   L(<<s("else"), Call("print", <<Call("inc", <<I(2)>>)>>)>>)>>)>>,
  <<Call("cond", <<L(<<Call("=", <<I(1), I(2)>>), I(1)>>), L(<<Call("=", <<I(1), I(1)>>), Call("print", <<I(3)>>), I(2)>>),
                   L(<<Call("print", <<I(9)>>), I(3)>>), L(<<s("else"), I(4)>>)>>)>>,
  <<Call("when", <<Call("=", <<I(1), I(1)>>),
      Call("cond", <<L(<<Call("=", <<I(1), I(2)>>), Call("print", <<I(3)>>)>>),
                     L(<<Lit("bool", TRUE), Call("print", <<I(4)>>)>>)>>)>>)>>,
  <<L(<<s("->"), I(1), s("print")>>)>>,
  <<Def("x", s("Unit"), Call("when", <<Lit("bool", TRUE), Call("print", <<I(1)>>)>>))>>,
  <<Def("x", TInt, I(3)), Call("when", <<Call("=", <<s("x"), I(3)>>), L(<<s("set!"), s("x"), I(1)>>), Call("print", <<s("x")>>)>>)>>,
  <<Sym("cond")>> }
Macros == {<<a, b>> : a, b \in MacroLines}
Clause == {L(<<Call("=", <<I(1), I(1)>>), Call("print", <<I(1)>>), I(1)>>), L(<<Call("<", <<I(1), I(0)>>), I(2)>>),
           L(<<s("else"), Call("print", <<I(2)>>), I(3)>>), I(5), L(<<>>)}
Conds == {<< <<Call("cond", cls)>> >> : cls \in UNION {[1..k -> Clause] : k \in 0..3}}

MCScripts == Natives \cup Programs \cup Longer \cup Macros \cup Conds
=============================================================================

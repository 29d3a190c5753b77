------------------------------ MODULE MCCodegen ------------------------------
\* Programs for TLC: a function f of x with every body of a small grammar,
\* called by main with two arguments, and mains without calls.
EXTENDS Codegen

I(i) == Lit("int", i)
L(items) == List([i \in DOMAIN items |-> IF Len(items[i]) = 1 THEN Sym(items[i][1]) ELSE items[i]])
s(x) == <<x>>                   \* a symbol inside of L
TInt == s("Int")
Def(x, ty, e) == L(<<s("def"), s(x), s(":"), ty, e>>)
Call(f, args) == L(<<s(f)>> \o args)
To(args, ret) == L(args \o <<s("->"), ret>>)
Param(x, ty) == L(<<s(x), s(":"), ty>>)
Lambda(params, ret, body) == L(<<s("fn"), L(params), s(":"), ret>> \o body)
Cond(c, t, e) == L(<<s("if"), c, t, e>>)
Do(items) == L(<<s("do")>> \o items)
Show(e) == Call("print", <<e>>)
X == s("x")
Str(x) == Lit("str", <<x>>)

Dec == Call("f", <<Call("-", <<X, I(1)>>)>>)
Simple == {X, I(2), Call("/", <<I(6), X>>), Call("%", <<I(6), X>>), Call("neg", <<Call("*", <<X, I(3)>>)>>),
           Call("str-len", <<Call("str-concat", <<Str("a"), Str("b")>>)>>)}
Bools == {Call("<", <<X, I(1)>>), Call("=", <<X, I(2)>>), Call("not", <<Call("or", <<Call(">", <<X, I(1)>>), Call("!=", <<X, I(0)>>)>>)>>),
          Call("and", <<Lit("bool", TRUE), Call("<=", <<X, I(1)>>)>>), Call("=", <<Str("a"), Str("a")>>)}
Rec == Call("+", <<X, Dec>>)
Ifs == {Cond(b, t, e) : b \in Bools, t \in Simple, e \in {X, I(1), Rec}}
Nested == {Cond(Call("=", <<X, I(2)>>), Cond(Call("<", <<X, I(1)>>), X, I(1)), I(3)),
           Cond(Call("<", <<X, I(1)>>), I(3), Do(<<Cond(Call("=", <<X, I(2)>>), Show(X), Do(<<>>)), I(5)>>)),
           Call("+", <<Cond(Call("<", <<X, I(1)>>), I(3), Rec), Cond(Call("=", <<X, I(2)>>), I(1), X)>>),
           Cond(Cond(Call("<", <<X, I(1)>>), Lit("bool", TRUE), Call("=", <<X, I(2)>>)), I(3), Rec)}
Lets == {L(<<s("let"), L(<<L(<<s("y"), a>>), L(<<s("y"), s(":"), TInt, Call("+", <<s("y"), X>>)>>)>>), Show(s("y")), b>>) :
           a \in Simple, b \in {s("y"), Call("-", <<s("y"), X>>), Cond(Call("<", <<s("y"), I(3)>>), s("y"), Dec)}}
         \cup {L(<<s("let"), L(<<Param("y", TInt), X>>), s("y")>>),
               L(<<s("let"), L(<<L(<<X, I(3)>>)>>), Call("+", <<X, X>>)>>),
               L(<<s("let"), L(<<L(<<s("g"), s("h")>>)>>), Call("g", <<>>)>>)}
Effects == {Do(<<Cond(b, Show(X), Cond(Call("<", <<X, I(1)>>), Show(Lit("float", 1)), Show(Str("a")))), e>>) :
              b \in Bools, e \in Simple}
           \cup {Do(<<Call("h", <<>>), Show(Call("<", <<X, I(1)>>)), X>>), Do(<<L(<<s("while"), Call(">", <<X, I(7)>>)>>), X>>),
                 Do(<<Show(Lit("float", 2)), X>>), Show(X), s("z"), L(<<s("let"), L(<<L(<<s("u"), Show(X)>>)>>), Do(<<Show(s("u")), X>>)>>)}
Exprs == Simple \cup Ifs \cup Nested \cup Lets \cup Effects

FDef(e) == Def("f", To(<<TInt>>, TInt), Lambda(<<Param("x", TInt)>>, TInt, <<e>>))
HDef == Def("h", To(<<>>, s("Unit")), Lambda(<<>>, s("Unit"), <<Show(I(4)), Show(I(5))>>))
Main(body) == Def("main", To(<<>>, TInt), Lambda(<<>>, TInt, body))
Callers == {<<HDef, Def("z", TInt, I(3)), FDef(e), Main(<<Show(Call("f", <<I(i)>>)), Call("f", <<I(2)>>)>>)>> :
             e \in Exprs, i \in {0, 1}}
Small == {I(1), I(0), Call("+", <<I(2), I(3)>>), Call("/", <<I(MinInt), I(-1)>>)}
SmallIf == {Cond(c, a, b) : c \in {Call("<", <<I(1), I(2)>>), Call("=", <<I(1), I(2)>>), Lit("bool", TRUE)}, a, b \in Small}
Mains == {<<Main(<<e>>)>> : e \in Small \cup SmallIf \cup {Cond(Call(">", <<I(1), I(2)>>), a, b) : a \in SmallIf, b \in {I(3), Call("*", <<I(7), I(7)>>)}}}
         \cup { <<HDef>>, <<Main(<<Do(<<I(3)>>)>>)>>, <<Main(<<I(1), I(2)>>), Main(<<I(3)>>)>> }
MCPrograms == Callers \cup Mains
=============================================================================

------------------------------- MODULE Values -------------------------------
(***************************************************************************)
(* The data of the language: syntax nodes (include/ast.h), types (type.c), *)
(* values (value.h) and the natives of runtime.c with the types vm_new     *)
(* declares for them.  A node is <<kind, payload, annotated type>>, a type *)
(* and a value are tuples that start with their kind.  Vectors, structs    *)
(* and channels are shared by reference: their values hold an index of the *)
(* heap, which is a sequence of sequences of values.                       *)
(*                                                                         *)
(* Integers are W bits wide and wrap, as the build's do.  Text is a        *)
(* sequence of one-character strings.  Maps are modelled in HashMap, not   *)
(* here; pow, sqrt, the conversions of floats and file access are left     *)
(* out, and a float is a number of halves.                                 *)
(***************************************************************************)
EXTENDS Integers, Sequences, SequencesExt, TLC
LOCAL INSTANCE Bitwise

CONSTANT W                      \* the width of Int; 64 in the code
ASSUME WidthAssumption == W \in Nat \ {0}

MaxInt == 2 ^ (W - 1) - 1
MinInt == -(2 ^ (W - 1))
Wrap(i) == ((i - MinInt) % (2 ^ W)) + MinInt

(* -------------------------------- nodes -------------------------------- *)
Null == <<"Null">>              \* a type pointer nobody has set
Kind(n) == n[1]
Ty(n) == n[3]
Sym(x) == <<"sym", x, Null>>
Lit(k, v) == <<k, v, Null>>
List(items) == <<"list", items, Null>>
IsSym(n, x) == Kind(n) = "sym" /\ n[2] = x
\* is_sym(items[0], x) for a list node
Form(n, x) == Kind(n) = "list" /\ n[2] # <<>> /\ IsSym(n[2][1], x)

(* -------------------------------- types -------------------------------- *)
T_Int == <<"Int">>
T_Float == <<"Float">>
T_Bool == <<"Bool">>
T_Str == <<"Str">>
T_Unit == <<"Unit">>
T_Any == <<"Any">>
T_Error == <<"Error">>
Func(params, ret) == <<"Func", params, ret>>
VecOf(t) == <<"Vec", t>>
ChanOf(t) == <<"Chan", t>>
OptionOf(t) == <<"Option", t>>
ResultOf(t, u) == <<"Result", t, u>>

RECURSIVE ty_eq(_, _)
ty_eq(a, b) ==
  \/ a = Null /\ b = Null
  \/ /\ Null \notin {a, b}
     /\ IF a[1] # b[1] THEN "Any" \in {a[1], b[1]}
        ELSE CASE a[1] = "Func" -> /\ ty_eq(a[3], b[3])
                                   /\ Len(a[2]) = Len(b[2])
                                   /\ \A i \in DOMAIN a[2] : ty_eq(a[2][i], b[2][i])
               [] a[1] \in {"Vec", "Chan", "Option"} -> ty_eq(a[2], b[2])
               [] a[1] = "Result" -> ty_eq(a[2], b[2]) /\ ty_eq(a[3], b[3])
               [] a[1] \in {"Struct", "Enum"} -> a[2] = b[2]
               [] OTHER -> TRUE

\* A name is compared up to its own length, so every prefix of a type's name
\* stands for the type.
Spellings == << <<"Int", {"Int", "In", "I"}>>, <<"Float", {"Float", "F"}>>,
                <<"Bool", {"Bool", "B"}>>, <<"Str", {"Str", "S"}>>,
                <<"Unit", {"Unit", "U"}>>, <<"Any", {"Any", "A"}>> >>

RECURSIVE parse_type_node(_)
parse_type_node(n) ==
  LET it == n[2]
      arrows == {i \in DOMAIN it : IsSym(it[i], "->")}
      arrow == CHOOSE i \in arrows : \A j \in arrows : i <= j
  IN CASE Kind(n) = "sym" ->
            (IF \E i \in DOMAIN Spellings : it \in Spellings[i][2]
             THEN <<(CHOOSE s \in ToSet(Spellings) : it \in s[2])[1]>> ELSE T_Error)
       [] Kind(n) # "list" -> T_Error
       [] Form(n, "Chan") /\ Len(it) = 2 -> ChanOf(parse_type_node(it[2]))
       [] Form(n, "Vec") /\ Len(it) = 2 -> VecOf(parse_type_node(it[2]))
       [] arrows # {} -> Func([i \in 1..(arrow - 1) |-> parse_type_node(it[i])],
                              parse_type_node(it[arrow + 1]))
       [] OTHER -> T_Error

(* -------------------------------- values ------------------------------- *)
v_unit == <<"UNIT">>
v_int(i) == <<"INT", i>>
v_bool(b) == <<"BOOL", b>>
v_float(h) == <<"FLOAT", h>>
v_str(s) == <<"STR", s>>
v_symbol(x) == <<"SYMBOL", x>>
v_list(s) == <<"LIST", s>>
v_some(v) == <<"OPTION", <<v>> >>
v_none == <<"OPTION", <<>> >>
v_result(ok, v) == <<"RESULT", ok, v>>
NullList == <<"LIST", <<>>, "NULL">>    \* v_list(NULL)
NullStr == <<"STR", <<>>, "NULL">>      \* v_str(NULL)
NullVec == <<"VEC", 0>>         \* v_vec(NULL)
NoValue == <<"NONE">>           \* an environment entry without a value

\* What an annotated type promises of a value (of a function, see FitsType).
Fits(v, t) ==
  CASE t[1] = "Int" -> v[1] = "INT"
    [] t[1] = "Float" -> v[1] = "FLOAT"
    [] t[1] = "Bool" -> v[1] = "BOOL"
    [] t[1] = "Str" -> v[1] = "STR"
    [] t[1] = "Unit" -> v[1] = "UNIT"
    [] t[1] = "Chan" -> v[1] = "CHAN"
    [] t[1] = "Vec" -> v[1] = "VEC" /\ v # NullVec
    [] t[1] = "Option" -> v[1] = "OPTION"
    [] t[1] = "Result" -> v[1] = "RESULT"
    [] OTHER -> TRUE

(* ------------------------------- natives ------------------------------- *)
IntOps == {"+", "-", "*", "/", "mod", "%", "min", "max"}
BitOps == {"bit-and", "bit-or", "bit-xor", "shl", "shr"}
IntTests == {"<", ">", "<=", ">="}
Rounding == {"floor", "ceil", "round"}
ListTests == {"list?", "symbol?"}

\* The type vm_new registers a native with.
Signatures ==
  LET Sig(names, params, ret) == [f \in names |-> Func(params, ret)]
      VecAny == VecOf(T_Any)   Opt == OptionOf(T_Any)   Res == ResultOf(T_Any, T_Any)
      ChanInt == ChanOf(T_Int)
  IN  Sig({"print"}, <<T_Any>>, T_Unit)
   @@ Sig(IntOps, <<T_Int, T_Int>>, T_Int)
   @@ Sig(BitOps, <<T_Int, T_Int>>, T_Int)
   @@ Sig({"neg", "abs", "bit-not"}, <<T_Int>>, T_Int)
   @@ Sig({"=", "!=", "symbol="}, <<T_Any, T_Any>>, T_Bool)
   @@ Sig(IntTests, <<T_Int, T_Int>>, T_Bool)
   @@ Sig({"not"}, <<T_Bool>>, T_Bool)
   @@ Sig({"and", "or"}, <<T_Bool, T_Bool>>, T_Bool)
   @@ Sig({"str-concat"}, <<T_Str, T_Str>>, T_Str)
   @@ Sig({"str-len", "str-to-int"}, <<T_Str>>, T_Int)
   @@ Sig({"str-slice"}, <<T_Str, T_Int, T_Int>>, T_Str)
   @@ Sig({"str-index"}, <<T_Str, T_Str>>, T_Int)
   @@ Sig({"int-to-str"}, <<T_Int>>, T_Str)
   @@ Sig({"str-split-ws"}, <<T_Any>>, VecOf(T_Str))
   @@ Sig(Rounding, <<T_Float>>, T_Float)
   @@ Sig({"chan"}, <<>>, ChanInt)
   @@ Sig({"send"}, <<ChanInt, T_Int>>, T_Bool)
   @@ Sig({"recv"}, <<ChanInt>>, T_Int)
   @@ Sig({"spawn"}, <<Func(<<>>, T_Unit)>>, T_Unit)
   @@ Sig({"vec"}, <<>>, VecAny)
   @@ Sig({"vec-push"}, <<VecAny, T_Any>>, T_Unit)
   @@ Sig({"vec-get"}, <<VecAny, T_Int>>, T_Any)
   @@ Sig({"vec-len"}, <<VecAny>>, T_Int)
   @@ Sig(ListTests, <<T_Any>>, T_Bool)
   @@ Sig({"list-len"}, <<T_Any>>, T_Int)
   @@ Sig({"list-head", "list-tail", "unwrap", "struct-new"}, <<T_Any>>, T_Any)
   @@ Sig({"list-cons", "list-append", "unwrap-or"}, <<T_Any, T_Any>>, T_Any)
   @@ Sig({"some"}, <<T_Any>>, Opt)
   @@ Sig({"none"}, <<>>, Opt)
   @@ Sig({"some?", "none?"}, <<Opt>>, T_Bool)
   @@ Sig({"ok", "err"}, <<T_Any>>, Res)
   @@ Sig({"ok?", "err?"}, <<Res>>, T_Bool)
   @@ Sig({"unwrap-err"}, <<Res>>, T_Any)
   @@ Sig({"struct-get"}, <<T_Any, T_Int>>, T_Any)
   @@ Sig({"struct-set"}, <<T_Any, T_Int, T_Any>>, T_Unit)

FitsType(v, t) ==
  IF t[1] # "Func" THEN Fits(v, t)
  ELSE \/ v[1] = "FUNC" /\ ty_eq(Signatures[v[2]], t)
       \/ v[1] = "CLOSURE" /\ ty_eq(v[4], t)

Crash == <<"CRASH">>            \* the process dies: SIGFPE, or a read through NULL

Abs(x) == IF x < 0 THEN -x ELSE x
\* C division rounds towards zero; % has the sign of the dividend.
Quot(x, y) == LET q == Abs(x) \div Abs(y) IN IF (x < 0) = (y < 0) THEN q ELSE -q
IntOp(f, x, y) ==
  CASE f = "+" -> x + y
    [] f = "-" -> x - y
    [] f = "*" -> x * y
    [] f = "/" -> Quot(x, y)
    [] f \in {"mod", "%"} -> IF y = 0 THEN 0 ELSE x - y * Quot(x, y)
    [] f = "min" -> IF x < y THEN x ELSE y
    [] f = "max" -> IF x > y THEN x ELSE y
\* rt_div has no guard, rt_mod one against zero only.
Traps(f, x, y) ==
  /\ f \in {"/", "mod", "%"}
  /\ \/ y = 0 /\ f = "/"
     \/ x = MinInt /\ y = -1
\* Products and quotients are rounded to halves, and a quotient by zero, which
\* is infinite in C, is 0.
FloatOp(f, x, y) == CASE f = "*" -> Quot(x * y, 2)
                      [] f = "/" -> IF y = 0 THEN 0 ELSE Quot(2 * x, y)
                      [] OTHER -> IntOp(f, x, y)
Arith(f, a) ==
  IF a[1][1] = "INT" /\ a[2][1] = "INT"
  THEN IF Traps(f, a[1][2], a[2][2]) THEN Crash ELSE v_int(Wrap(IntOp(f, a[1][2], a[2][2])))
  ELSE IF a[1][1] = "FLOAT" /\ a[2][1] = "FLOAT" /\ f \notin {"mod", "%"}
  THEN v_float(FloatOp(f, a[1][2], a[2][2]))
  ELSE IF f \in {"+", "-", "*", "/"} THEN v_unit ELSE v_int(0)

\* The bits of x as a natural number; shifts take their count modulo the
\* width, as the shift instructions do where C leaves it undefined.
Bits(x) == x % (2 ^ W)
BitOp(f, x, y) ==
  Wrap(CASE f = "bit-and" -> Bits(x) & Bits(y)
         [] f = "bit-or" -> Bits(x) | Bits(y)
         [] f = "bit-xor" -> Bits(x) ^^ Bits(y)
         [] f = "shl" -> x * 2 ^ (y % W)
         [] f = "shr" -> x \div 2 ^ (y % W))

Unary(f, x) ==
  LET y == IF f = "abs" /\ x[2] >= 0 THEN x[2] ELSE -x[2]
  IN IF x[1] = "INT" THEN v_int(Wrap(y)) ELSE IF x[1] = "FLOAT" THEN v_float(y) ELSE v_int(0)

Compare(f, x, y) ==
  CASE f = "<" -> x < y
    [] f = ">" -> x > y
    [] f = "<=" -> x <= y
    [] f = ">=" -> x >= y
Equal(a, b) ==
  /\ a[1] = b[1]
  /\ \/ a[1] = "UNIT"
     \/ a[1] \in {"INT", "FLOAT", "BOOL", "STR"} /\ a[2] = b[2]

\* floor, ceil and round (halves away from zero) of a number of halves
Rounded(f, h) ==
  CASE h % 2 = 0 -> h
    [] f = "floor" \/ (f = "round" /\ h < 0) -> h - 1
    [] OTHER -> h + 1

Digits == <<"0", "1", "2", "3", "4", "5", "6", "7", "8", "9">>
RECURSIVE Decimal(_)
Decimal(n) == (IF n < 10 THEN <<>> ELSE Decimal(n \div 10)) \o <<Digits[(n % 10) + 1]>>
rt_int_to_str(i) == (IF i < 0 THEN <<"-">> ELSE <<>>) \o Decimal(Abs(i))
Blank == {" ", "\n"}
\* atoll: blanks, a sign, then the digits up to the first other character
RECURSIVE Leading(_, _)
Leading(s, n) ==
  IF s = <<>> \/ ~ \E d \in 1..10 : Digits[d] = s[1] THEN n
  ELSE Leading(Tail(s), 10 * n + (CHOOSE d \in 1..10 : Digits[d] = s[1]) - 1)
RECURSIVE rt_str_to_int(_)
rt_str_to_int(s) ==
  CASE s = <<>> -> 0
    [] s[1] \in Blank -> rt_str_to_int(Tail(s))
    [] s[1] = "-" -> -Leading(Tail(s), 0)
    [] s[1] = "+" -> Leading(Tail(s), 0)
    [] OTHER -> Leading(s, 0)

rt_str_slice(s, start, end) ==
  SubSeq(s, (IF start < 0 THEN 0 ELSE start) + 1, IF end > Len(s) THEN Len(s) ELSE end)
rt_str_index(s, t) ==
  LET at == {i \in 0..(Len(s) - Len(t)) : SubSeq(s, i + 1, i + Len(t)) = t}
  IN IF t = <<>> THEN 0 ELSE IF at = {} THEN -1 ELSE CHOOSE i \in at : \A j \in at : i <= j
\* the words between blanks
RECURSIVE Words(_, _)
Words(s, word) ==
  LET done == IF word = <<>> THEN <<>> ELSE << <<"STR", word>> >>
  IN IF s = <<>> THEN done
     ELSE IF s[1] \in Blank THEN done \o Words(Tail(s), <<>>) ELSE Words(Tail(s), Append(word, s[1]))

StrReaders == {"=", "!=", "str-concat", "str-len", "str-to-int", "str-slice", "str-index"}
\* Natives that neither read nor change the heap.
Pure(f, a) ==
  LET k(i) == a[i][1]   p(i) == a[i][2]   All(kind) == \A i \in DOMAIN a : k(i) = kind
      Chosen == (k(1) = "OPTION" /\ p(1) # <<>>) \/ (k(1) = "RESULT" /\ p(1))
      Content == IF k(1) = "OPTION" THEN p(1)[1] ELSE a[1][3]
  IN
  CASE NullStr \in ToSet(a) /\ f \in StrReaders -> Crash
    [] f \in IntOps -> Arith(f, a)
    [] f \in BitOps -> v_int(IF All("INT") THEN BitOp(f, p(1), p(2)) ELSE 0)
    [] f = "bit-not" -> v_int(IF All("INT") THEN -p(1) - 1 ELSE 0)
    [] f \in {"neg", "abs"} -> Unary(f, a[1])
    [] f \in IntTests ->
         v_bool((All("INT") \/ All("FLOAT")) /\ Compare(f, p(1), p(2)))
    [] f = "=" -> v_bool(Equal(a[1], a[2]))
    [] f = "!=" -> v_bool(~ Equal(a[1], a[2]))
    [] f = "symbol=" -> v_bool(All("SYMBOL") /\ p(1) = p(2))
    [] f = "not" -> v_bool(All("BOOL") /\ ~ p(1))
    [] f = "and" -> v_bool(All("BOOL") /\ p(1) /\ p(2))
    [] f = "or" -> v_bool(All("BOOL") /\ (p(1) \/ p(2)))
    [] f = "str-concat" -> IF All("STR") THEN v_str(p(1) \o p(2)) ELSE NullStr
    [] f = "str-len" -> v_int(IF All("STR") THEN Len(p(1)) ELSE 0)
    [] f = "str-to-int" -> v_int(IF All("STR") THEN Wrap(rt_str_to_int(p(1))) ELSE 0)
    [] f = "int-to-str" -> IF All("INT") THEN v_str(rt_int_to_str(p(1))) ELSE NullStr
    [] f = "str-slice" ->
         IF k(1) = "STR" /\ k(2) = "INT" /\ k(3) = "INT" THEN v_str(rt_str_slice(p(1), p(2), p(3))) ELSE NullStr
    [] f = "str-index" -> v_int(IF All("STR") THEN rt_str_index(p(1), p(2)) ELSE -1)
    [] f \in Rounding -> v_float(IF All("FLOAT") THEN Rounded(f, p(1)) ELSE IF All("INT") THEN 2 * p(1) ELSE 0)
    [] f = "list?" -> v_bool(All("LIST"))
    [] f = "symbol?" -> v_bool(All("SYMBOL"))
    [] f = "list-len" -> v_int(IF All("LIST") THEN Len(p(1)) ELSE 0)
    [] f = "list-head" -> IF All("LIST") /\ p(1) # <<>> THEN p(1)[1] ELSE v_unit
    [] f = "list-tail" ->
         IF ~ All("LIST") \/ a[1] = NullList THEN NullList ELSE v_list(IF p(1) = <<>> THEN <<>> ELSE Tail(p(1)))
    [] f = "list-cons" -> IF k(2) = "LIST" THEN v_list(<<a[1]>> \o p(2)) ELSE NullList
    [] f = "list-append" -> IF All("LIST") THEN v_list(p(1) \o p(2)) ELSE NullList
    [] f = "some" -> v_some(a[1])
    [] f = "none" -> v_none
    [] f \in {"ok", "err"} -> v_result(f = "ok", a[1])
    [] f = "some?" -> v_bool(All("OPTION") /\ Chosen)
    [] f = "none?" -> v_bool(~ (All("OPTION") /\ Chosen))
    [] f = "ok?" -> v_bool(All("RESULT") /\ Chosen)
    [] f = "err?" -> v_bool(~ (All("RESULT") /\ Chosen))
    [] f = "unwrap" -> IF Chosen THEN Content ELSE v_unit
    [] f = "unwrap-or" -> IF Chosen THEN Content ELSE a[2]
    [] f = "unwrap-err" -> IF All("RESULT") /\ ~ p(1) THEN a[1][3] ELSE v_unit
=============================================================================

------------------------------- MODULE MCImport -------------------------------
(***************************************************************************)
(* Two families of programs over a root, two files that the name a can     *)
(* mean, and ./b.sq.  Any of the imported files may not exist, and the     *)
(* root may be imported in its turn.                                       *)
(*                                                                         *)
(* Anything: every program of at most two forms in the root and at most    *)
(* one in each other file, ill-typed forms included.                       *)
(*                                                                         *)
(* Selves: programs of self-contained files of up to three forms that read *)
(* what they define, with imports before, between and after, where the     *)
(* files share their names and may give them different types: an import    *)
(* may retype a name that its importer is about to read.                   *)
(***************************************************************************)
EXTENDS Import, SequencesExt

MCFile == {"main.sq", "./a.sq", "std/a.sq", "./b.sq"}
MCModule == {"a", "b", "main"}
MCCandidates == [m \in MCModule |-> CASE m = "a" -> <<"./a.sq", "std/a.sq">>
                                      [] m = "b" -> <<"./b.sq">>
                                      [] m = "main" -> <<"main.sq">>]
MCGlobal == {"x", "y"}
MCType == {"Int", "Str", "Any"}

AForm(k, n, t, u, r) == [kind |-> k, what |-> n, type |-> t, yields |-> u, reads |-> r]
AnImport(m) == AForm("import", m, "Any", "Any", << >>)
AnError == AForm("ill", "", "Any", "Any", << >>)
\* [def x : t literal], the literal of type u, and [def x : Int y].
Literal(x, t, u) == AForm("def", x, t, u, << >>)
Copy(x, y) == AForm("def", x, "Int", "Int", [z \in {y} |-> {"Int", "Any"}])

Forms1 == {AnImport(m) : m \in MCModule}
            \cup {Literal("x", "Int", "Int"), Copy("y", "x"), AnError}

Anything ==
  UNION {{ p \in [{"main.sq"} \cup files -> BoundedSeq(Forms1, 2)] :
             \A f \in files : Len(p[f]) <= 1 }
           : files \in SUBSET (MCFile \ {"main.sq"})}

XInt == Literal("x", "Int", "Int")
Mains == { <<XInt, AnImport("a"), Copy("y", "x")>>, <<AnImport("a"), XInt, Copy("y", "x")>>,
           <<XInt, Copy("y", "x"), AnImport("a")>> }
Middles == { s \in BoundedSeq({AnImport("b"), XInt, Literal("x", "Str", "Str"),
                               Literal("y", "Int", "Int"), Copy("y", "x"), Copy("x", "y")}, 3) :
               \A i \in DOMAIN s : \A z \in DOMAIN s[i].reads :
                 \E j \in 1 .. i - 1 : s[j].what = z /\ s[j].type \in s[i].reads[z] }
Leaves == { <<Literal(z, t[1], t[2])>> :
              z \in MCGlobal, t \in {<<"Int", "Int">>, <<"Str", "Str">>, <<"Any", "Str">>} }

Selves ==
  { ("main.sq" :> m) @@ ("./a.sq" :> a) @@ ("std/a.sq" :> s) :
      m \in Mains, a \in {<< >>, <<Literal("x", "Str", "Str")>>}, s \in Middles }
  \cup
  { ("main.sq" :> m) @@ ("./a.sq" :> a) @@ ("std/a.sq" :> s) @@ ("./b.sq" :> b) :
      m \in Mains, a \in {<< >>, <<Literal("x", "Str", "Str")>>}, s \in Middles,
      b \in Leaves \cup {<<AnImport("main"), XInt>>} }

MCPrograms == Anything \cup Selves
===============================================================================

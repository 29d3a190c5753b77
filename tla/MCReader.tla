------------------------------- MODULE MCReader -------------------------------
(***************************************************************************)
(* Short texts over two alphabets, one for the kinds of tokens and one for *)
(* nesting, and the texts of all small programs.                           *)
(***************************************************************************)
EXTENDS Reader, SequencesExt

MCSpace == {" ", "\n"}

AnAtom(k, s) == [kind |-> k, lexeme |-> s]
MCAtoms == {AnAtom("symbol", <<"a", "-", "1">>), AnAtom("int", <<"-", "1", "0">>),
            AnAtom("float", <<"1", ".", "0">>), AnAtom("string", <<"a", "\\", "\"", "]">>),
            AnAtom(":", <<":">>), AnAtom("->", <<"-", ">">>)}
Single == {<<a>> : a \in MCAtoms}
Joined(S) == {FlattenSeq(s) : s \in BoundedSeq(S, 2)}

Flat == {Listed(s) : s \in Joined(Single)}
Deeper == {Listed(s) : s \in Joined(Flat)} \cup {Listed(x \o y) : x \in Flat, y \in Single}

MCPrograms == Joined(Single \cup Flat)
                \cup {x \o y : x \in Deeper, y \in {Listed(<< >>), <<AnAtom(":", <<":">>)>>}}

Tokens == BoundedSeq({"a", "1", "-", ">", ".", "\"", "\\", ";", "\n", "]"}, 4)
Nesting == BoundedSeq({"[", "]", "a", "@", " "}, 5)

MCTexts == Tokens \cup Nesting \cup {Append(s, "\n") : s \in Nesting}
===============================================================================

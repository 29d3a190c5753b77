-------------------------------- MODULE Reader --------------------------------
(***************************************************************************)
(* src/lexer.c and src/parser.c: from the characters of a text to a list   *)
(* of forms.  The parser keeps one token of lookahead, and its C stack of  *)
(* parse_list calls is the variable open, parse_toplevel's list first.     *)
(*                                                                         *)
(* Characters are strings of length one.  A list is kept as the sequence   *)
(* of its items, with those of the lists in it in their place, between     *)
(* brackets.  Atoms keep their kind and their spelling: what strtoll,      *)
(* strtod and the two Boolean words make of it is left out.                *)
(***************************************************************************)
EXTENDS Naturals, Sequences, FiniteSets

CONSTANTS Letter, Digit, Space,   \* isalpha, isdigit, isspace
          Texts,      \* texts that are read as they are
          Programs    \* programs that are printed and read back

VARIABLES text,
          source,      \* <<p>> if it is program p printed, else << >>
          pos,         \* where the lexer is
          cur, peek,   \* the parser's two tokens
          open,        \* the lists being built, the innermost last
          ending       \* the innermost parse_list has left its loop

vars == <<text, source, pos, cur, peek, open, ending>>

Operator == {"+", "-", "*", "/", "<", ">", "=", "!", "?", "%"}
Quote == "\""
EOT == "end"   \* the 0 that peek returns at the end of the text
Other == {"[", "]", ":", ";", ".", "_", "\\", Quote, EOT}

At(src, p) == IF p <= Len(src) THEN src[p] ELSE EOT

SymStart == Letter \cup Operator \cup {"_"}

(* strchr finds the terminator of its string: 0 counts as a symbol         *)
(* character.                                                              *)
SymPart == Letter \cup Digit \cup Operator \cup {"_", EOT}

(* The loops that pass over characters of a set, from p on: a loop ends    *)
(* where the first other character is, if there is one.                    *)
Endless(src, p, set) == \A q \in p .. Len(src) + 1 : At(src, q) \in set
Past(src, p, set) == CHOOSE q \in p .. Len(src) + 1 :
                       At(src, q) \notin set /\ \A r \in p .. q - 1 : At(src, r) \in set

(* skip_ws_comments ends at the first character that is neither space nor  *)
(* in a comment; a comment ends before a newline or at the end.            *)
InComment(src, p, q) == \E s \in p .. q : /\ At(src, s) = ";"
                                         /\ \A r \in s .. q : At(src, r) \notin {"\n", EOT}
Skipped(src, p, q) == At(src, q) \in Space \/ InComment(src, p, q)
Skip(src, p) == CHOOSE q \in p .. Len(src) + 1 :
                  ~Skipped(src, p, q) /\ \A r \in p .. q - 1 : Skipped(src, p, r)

(* Where the characters of a string that begins at p end: a backslash      *)
(* takes the next character along, unless there is none.                   *)
StringEnd(src, p) ==
  LET from[q \in 1 .. Len(src) + 1] ==
        IF At(src, q) \in {Quote, EOT} \/ (At(src, q) = "\\" /\ At(src, q + 1) = EOT) THEN q
        ELSE IF At(src, q) = "\\" THEN from[q + 2] ELSE from[q + 1]
  IN from[p]

NumberStart(src, q) == At(src, q) \in Digit \/ (At(src, q) = "-" /\ At(src, q + 1) \in Digit)
ArrowStart(src, q) == At(src, q) = "-" /\ At(src, q + 1) = ">"

(* A token: its kind, the characters first .. last, where the lexer goes on *)
Token(src, kind, first, last, next) ==
  [kind |-> kind, lexeme |-> SubSeq(src, first, last), next |-> next]

Number(src, q) ==
  LET e == Past(src, q + 1, Digit)
      f == Past(src, e + 1, Digit)
  IN IF At(src, e) = "." /\ At(src, e + 1) \in Digit THEN Token(src, "float", q, f - 1, f)
                                                     ELSE Token(src, "int", q, e - 1, e)

String(src, q) ==
  LET e == StringEnd(src, q + 1)
  IN Token(src, "string", q + 1, e - 1, IF At(src, e) = EOT THEN e ELSE e + 1)

(* A symbol that the text ends in is never finished: "never" is a call of  *)
(* lexer_next that does not return.                                        *)
Symbol(src, q) ==
  LET e == Past(src, q + 1, SymPart)
  IN IF Endless(src, q + 1, SymPart) THEN Token(src, "never", q, q - 1, q)
                                     ELSE Token(src, "symbol", q, e - 1, e)

Plain(c) == c \notin SymStart \cup Digit \cup {EOT, "[", "]", ":", Quote}

lexer_next(src, p) ==
  LET q == Skip(src, p)
      c == At(src, q)
  IN CASE c = EOT -> Token(src, "eof", q, q - 1, q)
       [] c \in {"[", "]", ":"} -> Token(src, c, q, q, q + 1)
       [] ArrowStart(src, q) -> Token(src, "->", q, q + 1, q + 2)
       [] c = Quote -> String(src, q)
       [] NumberStart(src, q) -> Number(src, q)
       [] c \in SymStart /\ ~ArrowStart(src, q) /\ ~NumberStart(src, q) -> Symbol(src, q)
       [] Plain(c) -> Token(src, "error", q, q, q + 1)
-------------------------------------------------------------------------------
(* An atom or a bracket as it is in a list. *)
Item(t) == [kind |-> t.kind, lexeme |-> t.lexeme]
Bracket(b) == [kind |-> b, lexeme |-> <<b>>]
Listed(items) == <<Bracket("[")>> \o items \o <<Bracket("]")>>

Atoms == {"symbol", "int", "float", "string", ":", "->"}

(* The grammar of the items of a program. *)
Digits(s, i, j) == i <= j /\ \A k \in i .. j : s[k] \in Digit
Signed(s, i) == i = 1 \/ (i = 2 /\ s[1] = "-")
IsNumber(s, i, kind) ==
  \/ kind = "int" /\ Digits(s, i, Len(s))
  \/ kind = "float" /\ \E k \in i .. Len(s) :
       s[k] = "." /\ Digits(s, i, k - 1) /\ Digits(s, k + 1, Len(s))
IsSymbol(s) ==
  /\ s # << >> /\ s[1] \in SymStart
  /\ \A k \in 2 .. Len(s) : s[k] \in SymPart \ {EOT}
  /\ s[1] = "-" /\ Len(s) > 1 => s[2] \notin Digit \cup {">"}
Spelled(x) ==
  \/ x.kind \in {"[", "]", ":"} /\ x.lexeme = <<x.kind>>
  \/ x.kind = "->" /\ x.lexeme = <<"-", ">">>
  \/ x.kind = "symbol" /\ IsSymbol(x.lexeme)
  \/ \E i \in 1 .. Len(x.lexeme) : Signed(x.lexeme, i) /\ IsNumber(x.lexeme, i, x.kind)
  \/ x.kind = "string" /\ StringEnd(x.lexeme, 1) = Len(x.lexeme) + 1

(* How many lists of a program are open after n of its items. *)
Count(p, n, kind) == Cardinality({i \in 1 .. n : p[i].kind = kind})
Balanced(p) == /\ \A n \in 1 .. Len(p) : Count(p, n, "]") <= Count(p, n, "[")
               /\ Count(p, Len(p), "]") = Count(p, Len(p), "[")

(* The classes of ctype.h are disjoint, and programs are what can be read. *)
ASSUME ReaderAssumption ==
  /\ {" ", "\n"} \subseteq Space
  /\ Letter \cap Digit = {} /\ Letter \cap Space = {} /\ Digit \cap Space = {}
  /\ (Letter \cup Digit \cup Space) \cap (Operator \cup Other) = {}
  /\ \A s \in Texts : s \in Seq(STRING)
  /\ \A p \in Programs : /\ p \in Seq([kind : STRING, lexeme : Seq(STRING)])
                         /\ \A i \in 1 .. Len(p) : Spelled(p[i])
                         /\ Balanced(p)

(* The text of a program: every item followed by a space. *)
Printed(p) ==
  LET upto[n \in 0 .. Len(p)] ==
        IF n = 0 THEN << >>
        ELSE upto[n - 1] \o (IF p[n].kind = "string" THEN <<Quote>> \o p[n].lexeme \o <<Quote>>
                                                     ELSE p[n].lexeme) \o <<" ">>
  IN upto[Len(p)]

Blank == [kind |-> "blank"]

Init == /\ \/ text \in Texts /\ source = << >>
           \/ \E p \in Programs : text = Printed(p) /\ source = <<p>>
        /\ pos = 1 /\ cur = Blank /\ peek = Blank
        /\ open = << << >> >> /\ ending = FALSE

advance ==
  LET t == lexer_next(text, pos)
  IN /\ t.kind # "never"
     /\ cur' = peek /\ peek' = t /\ pos' = t.next

Innermost == open[Len(open)]
Outer == SubSeq(open, 1, Len(open) - 1)
Nested == Len(open) > 1

(* The stack with items at the end of the last of some lists. *)
Push(lists, items) == [lists EXCEPT ![Len(lists)] = @ \o items]

(* parser_init: the first two tokens *)
Prime ==
  /\ cur = Blank
  /\ advance
  /\ UNCHANGED <<text, source, open, ending>>

Open ==
  /\ ~ending /\ cur.kind = "["
  /\ advance
  /\ open' = Append(open, << >>)
  /\ UNCHANGED <<text, source, ending>>

Atom ==
  /\ ~ending /\ cur.kind \in Atoms
  /\ advance
  /\ open' = Push(open, <<Item(cur)>>)
  /\ UNCHANGED <<text, source, ending>>

(* The loop of parse_list ends at its bracket or at the end of the text.   *)
ListEnds ==
  /\ ~ending /\ Nested /\ cur.kind \in {"]", "eof"}
  /\ ending' = TRUE
  /\ UNCHANGED <<text, source, pos, cur, peek, open>>

(* Seeded fault: a list with an unknown character yields no node. *)
Bug_CutDrops ==
  /\ ~ending /\ Nested /\ cur.kind = "error"
  /\ advance
  /\ open' = Outer
  /\ UNCHANGED <<text, source, ending>>

(* parse_form has no node for an unknown character, and the loop ends,     *)
(* too; the rest of the list goes to the list around it.                   *)
Cut ==
  /\ ~ending /\ Nested /\ cur.kind = "error"
  /\ advance
  /\ ending' = TRUE
  /\ UNCHANGED <<text, source, open>>

(* Seeded fault: the closing bracket is not consumed. *)
Bug_KeepBracket ==
  /\ ending
  /\ open' = Push(Outer, Listed(Innermost))
  /\ ending' = FALSE
  /\ UNCHANGED <<text, source, pos, cur, peek>>

(* parse_list returns, past a bracket if it is at one. *)
ListReturns ==
  /\ ending
  /\ IF cur.kind = "]" THEN advance ELSE UNCHANGED <<pos, cur, peek>>
  /\ open' = Push(Outer, Listed(Innermost))
  /\ ending' = FALSE
  /\ UNCHANGED <<text, source>>

(* Seeded fault: parse_form does not go past what it has no node for. *)
Bug_NoAdvance ==
  /\ ~Nested /\ cur.kind \in {"]", "error"}
  /\ UNCHANGED vars

(* parse_toplevel leaves out what has no node. *)
Drop ==
  /\ ~Nested /\ cur.kind \in {"]", "error"}
  /\ advance
  /\ UNCHANGED <<text, source, open, ending>>

Next == Prime \/ Open \/ Atom \/ ListEnds \/ Cut \/ ListReturns \/ Drop

Spec == Init /\ [][Next]_vars
FairSpec == Spec /\ WF_vars(Next)

(* parse_toplevel returns; its list is open[1] *)
Done == ~Nested /\ cur.kind = "eof"
-------------------------------------------------------------------------------
(* The atoms of a list, and those of its lists in their place. *)
AtomsOf(items) ==
  LET upto[n \in 0 .. Len(items)] ==
        IF n = 0 THEN << >>
        ELSE IF items[n].kind \in Atoms THEN Append(upto[n - 1], items[n]) ELSE upto[n - 1]
  IN upto[Len(items)]

(* The atoms that a text is made of, from each of its positions on. *)
Ahead(t) == IF t.kind \in Atoms THEN << Item(t) >> ELSE << >>
AtomsFrom(src) ==
  LET from[p \in 1 .. Len(src) + 1] ==
        LET t == lexer_next(src, p)
        IN IF t.kind \in {"eof", "never"} THEN << >> ELSE Ahead(t) \o from[t.next]
  IN from

(* However its brackets match and wherever unknown characters cut a list   *)
(* short, every atom of a text is in the program, in the order of the text. *)
NothingLost == Done => AtomsOf(open[1]) = AtomsFrom(text)[1]

(* Reading a printed program gives the program. *)
PrintsBack == Done /\ source # << >> => << open[1] >> = source

(* A text that ends in a space or a newline is read to its end, whatever   *)
(* it contains.                                                            *)
SpacedTextsRead == text # << >> /\ text[Len(text)] \in Space => <>Done
===============================================================================

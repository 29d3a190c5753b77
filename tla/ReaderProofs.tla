----------------------------- MODULE ReaderProofs ------------------------------
(***************************************************************************)
(* The reader for every alphabet, every text and every program: no atom of *)
(* a text is lost, and a printed program is read back.                     *)
(*                                                                         *)
(* The recursive functions of the model are CHOOSE expressions.  That each *)
(* has a solution, and so obeys its equation, follows from Onward and Upto;*)
(* what it computes for all arguments, from least counterexamples (Least)  *)
(* and from sets that climb to their bound (Climb).                        *)
(***************************************************************************)
EXTENDS Reader, SequenceTheorems, FiniteSetTheorems, WellFoundedInduction, TLAPS

(* What texts are made of: to the provers a literal need not be a string.  *)
Char == STRING \cup Space \cup Other
Kind == Atoms \cup {"[", "]", "eof", "never", "error"}

(* A set of natural numbers that is not empty has a least element. *)
LEMMA Least ==
  ASSUME NEW S \in SUBSET Nat, S # {}
  PROVE  \E n \in S : \A m \in S : n <= m
<1>1. PICK n \in S : \A m \in S : <<m, n>> \notin OpToRel(<, Nat)
  BY NatLessThanWellFounded, WFMin, Zenon
<1>2. \A m, k \in Nat : m < k => <<m, k>> \in {ss \in Nat \X Nat : ss[1] < ss[2]}
  OBVIOUS
<1>3. \A m, k \in Nat : m < k => <<m, k>> \in OpToRel(<, Nat)
  BY ONLY <1>2, Zenon DEF OpToRel
<1>4. \A m \in S : ~ (m < n)
  BY <1>1, <1>3, Zenon
<1> QED
  BY <1>4

(* A set of numbers up to N that is not empty has a greatest element. *)
LEMMA Greatest ==
  ASSUME NEW N \in Nat, NEW S \in SUBSET (0 .. N), S # {}
  PROVE  \E n \in S : \A m \in S : m <= n
<1> DEFINE T == {k \in 0 .. N : N - k \in S}
<1>1. \A n \in S : N - n \in T
  OBVIOUS
<1>2. T \in SUBSET Nat /\ T # {}
  <2>1. PICK n : n \in S
    OBVIOUS
  <2>2. N - n \in T
    BY <1>1, <2>1
  <2> QED
    BY <2>2
<1>3. PICK t \in T : \A u \in T : t <= u
  <2> HIDE DEF T
  <2> QED
    BY <1>2, Least
<1>4. N - t \in S /\ t \in Nat
  OBVIOUS
<1>5. ASSUME NEW m \in S PROVE m <= N - t
  <2>1. t <= N - m /\ m \in 0 .. N
    BY <1>1, <1>3
  <2> QED
    BY <1>4, <2>1
<1> QED
  BY <1>4, <1>5

(* Recursion along positions: f[q] is given by f at a later position, or   *)
(* by base where there is none.  Functions stand for what is computed, so  *)
(* that this is proved once.                                               *)
Solves(f, N, nxt, base, join) ==
  \A q \in 1 .. N : f[q] = IF nxt[q] <= q THEN base[q] ELSE join[<<q, f[nxt[q]]>>]
Forward(nxt, N) == \A q \in 1 .. N : nxt[q] <= q \/ nxt[q] <= N

(* Where every position goes on to a later one or stops, there is such a   *)
(* function.                                                               *)
LEMMA Onward ==
  ASSUME NEW N \in Nat, NEW S, NEW nxt \in [1 .. N -> Nat], NEW base \in [1 .. N -> S],
         NEW join \in [(1 .. N) \X S -> S], Forward(nxt, N)
  PROVE  \E f \in [1 .. N -> S] : Solves(f, N, nxt, base, join)
<1> USE DEF Forward
<1> DEFINE Eq(f, q) == f[q] = IF nxt[q] <= q THEN base[q] ELSE join[<<q, f[nxt[q]]>>]
           Solved(m) == \E f \in [m + 1 .. N -> S] : \A q \in m + 1 .. N : Eq(f, q)
           G == {m \in 0 .. N : Solved(m)}
<1>1. Solved(N)
  <2> DEFINE g == [q \in N + 1 .. N |-> base[q]]
  <2>1. N + 1 .. N = {}
    OBVIOUS
  <2>2. g \in [N + 1 .. N -> S]
    BY <2>1
  <2>3. \A q \in N + 1 .. N : Eq(g, q)
    BY <2>1
  <2> QED
    BY <2>2, <2>3, Zenon
<1>2. PICK m \in G : \A k \in G : m <= k
  <2>1. G \in SUBSET Nat /\ N \in G
    <3> HIDE DEF Solved
    <3> QED
      BY <1>1
  <2> HIDE DEF G
  <2> QED
    BY <2>1, Least
<1>3. m \in 0 .. N /\ Solved(m)
  BY <1>2, Zenon
<1>4. ASSUME m # 0 PROVE FALSE
  <2>1. PICK k \in 0 .. N : k = m - 1
    BY <1>3, <1>4
  <2>2. m = k + 1 /\ m \in 1 .. N
    BY <2>1, <1>3, <1>4
  <2>3. PICK f \in [m + 1 .. N -> S] : \A q \in m + 1 .. N : Eq(f, q)
    BY <1>3, Zenon
  <2> DEFINE v == IF nxt[m] <= m THEN base[m] ELSE join[<<m, f[nxt[m]]>>]
             g == [q \in m .. N |-> IF q = m THEN v ELSE f[q]]
  <2>4. ASSUME NEW q \in m .. N, ~ nxt[q] <= q PROVE nxt[q] \in m + 1 .. N
    <3>1. q \in 1 .. N
      BY <2>2
    <3>2. nxt[q] \in Nat /\ nxt[q] <= N
      BY <2>4, <3>1
    <3> QED
      BY <2>2, <2>4, <3>2
  <2>5. v \in S
    <3>1. CASE nxt[m] <= m
      BY <2>2, <3>1
    <3>2. CASE ~ nxt[m] <= m
      <4>1. nxt[m] \in m + 1 .. N
        BY <2>2, <2>4, <3>2
      <4>2. f[nxt[m]] \in S
        BY <4>1
      <4> QED
        BY <2>2, <3>2, <4>2
    <3> QED
      BY <3>1, <3>2
  <2>6. g \in [m .. N -> S]
    <3> HIDE DEF v
    <3>1. \A q \in m .. N : q # m => q \in m + 1 .. N
      BY <2>2
    <3> QED
      BY <2>5, <3>1
  <2>7. ASSUME NEW q \in m .. N PROVE Eq(g, q)
    <3>1. ~ nxt[q] <= q => g[nxt[q]] = f[nxt[q]]
      <4> HIDE DEF v
      <4>1. ASSUME NEW r \in m + 1 .. N PROVE r \in m .. N /\ r # m
        BY <2>2, <4>1
      <4> QED
        BY <2>4, <4>1
    <3>2. CASE q = m
      <4>1. g[m] = v
        BY <2>2
      <4> QED
        BY <3>1, <3>2, <4>1
    <3>3. CASE q # m
      <4>1. q \in m + 1 .. N
        BY <2>2, <3>3
      <4>2. g[q] = f[q]
        BY <3>3
      <4>3. Eq(f, q)
        BY <2>3, <4>1, Zenon
      <4> QED
        BY <3>1, <4>2, <4>3
    <3> QED
      BY <3>2, <3>3
  <2>8. Solved(k)
    <3> HIDE DEF g, Eq
    <3> QED
      BY <2>2, <2>6, <2>7, Zenon
  <2>9. k \in G
    <3> HIDE DEF Solved
    <3> QED
      BY <2>8
  <2> HIDE DEF G
  <2> QED
    BY <1>2, <2>2, <2>9
<1>5. Solved(0)
  BY <1>3, <1>4, Zenon
<1>6. 0 + 1 = 1
  OBVIOUS
<1> QED
  BY <1>5, <1>6, Zenon DEF Solves

(* The same from the left: f[n] is given by f[n - 1].                      *)
Climbs(f, N, base, join) == f[0] = base /\ \A n \in 1 .. N : f[n] = join[<<n, f[n - 1]>>]

(* Recursion from 0 up to N has a solution.                                *)
LEMMA Upto ==
  ASSUME NEW N \in Nat, NEW S, NEW base \in S, NEW join \in [(1 .. N) \X S -> S]
  PROVE  \E f \in [0 .. N -> S] : Climbs(f, N, base, join)
<1> DEFINE Ok(f, m) == f[0] = base /\ \A n \in 1 .. m : f[n] = join[<<n, f[n - 1]>>]
           Solved(m) == \E f \in [0 .. m -> S] : Ok(f, m)
           Good == {m \in 0 .. N : Solved(m)}
<1>1. Solved(0)
  <2> DEFINE f == [n \in 0 .. 0 |-> base]
  <2>1. f \in [0 .. 0 -> S] /\ f[0] = base
    OBVIOUS
  <2>2. 1 .. 0 = {}
    OBVIOUS
  <2>3. Ok(f, 0)
    BY <2>1, <2>2
  <2> QED
    BY <2>1, <2>3, Zenon
<1>2. PICK m \in Good : \A k \in Good : k <= m
  <2>1. Good \in SUBSET (0 .. N) /\ 0 \in Good
    <3> HIDE DEF Solved
    <3> QED
      BY <1>1
  <2> HIDE DEF Good
  <2> QED
    BY <2>1, Greatest
<1>3. m \in 0 .. N /\ Solved(m)
  BY <1>2, Zenon
<1>4. ASSUME m # N PROVE FALSE
  <2>1. PICK k \in 1 .. N : k = m + 1
    BY <1>3, <1>4
  <2>2. m = k - 1 /\ m \in Nat
    BY <1>3, <2>1
  <2>3. PICK f \in [0 .. m -> S] : Ok(f, m)
    BY <1>3, Zenon
  <2> DEFINE v == join[<<k, f[m]>>]
             g == [n \in 0 .. k |-> IF n = k THEN v ELSE f[n]]
  <2>4. v \in S
    BY <2>2
  <2>5. g \in [0 .. k -> S]
    <3> HIDE DEF v
    <3>1. \A n \in 0 .. k : n # k => n \in 0 .. m
      BY <2>1, <2>2
    <3> QED
      BY <2>4, <3>1
  <2>6. g[0] = base
    BY <2>1, <2>2, <2>3
  <2>7. ASSUME NEW n \in 1 .. k PROVE g[n] = join[<<n, g[n - 1]>>]
    <3>1. n - 1 \in 0 .. m /\ n - 1 \in 0 .. k /\ n - 1 # k
      BY <2>1, <2>2
    <3>2. g[n - 1] = f[n - 1]
      <4> HIDE DEF v
      <4> QED
        BY <3>1
    <3>3. CASE n = k
      <4>1. g[k] = v
        BY <2>1
      <4>2. n - 1 = m
        BY <2>2, <3>3
      <4> QED
        BY <3>2, <3>3, <4>1, <4>2
    <3>4. CASE n # k
      <4>1. n \in 1 .. m /\ n \in 0 .. k
        BY <2>1, <2>2, <3>4
      <4>2. g[n] = f[n]
        BY <3>4, <4>1
      <4> QED
        BY <2>3, <3>2, <4>1, <4>2
    <3> QED
      BY <3>3, <3>4
  <2>8. Solved(k)
    <3>1. Ok(g, k)
      <4> HIDE DEF g
      <4> QED
        BY <2>6, <2>7
    <3> HIDE DEF g, Ok
    <3> QED
      BY <2>5, <3>1, Zenon
  <2>9. k \in Good
    <3>1. k \in 0 .. N
      BY <2>1
    <3> HIDE DEF Solved
    <3> QED
      BY <2>8, <3>1
  <2> HIDE DEF Good
  <2> QED
    BY <1>2, <1>3, <2>1, <2>9
<1> QED
  BY <1>3, <1>4, Zenon DEF Climbs
(* Induction, with a set for what is shown of a number.                    *)
LEMMA Climb ==
  ASSUME NEW N \in Nat, NEW P, 0 \in P, \A n \in 1 .. N : n - 1 \in P => n \in P
  PROVE  \A n \in 0 .. N : n \in P
<1> DEFINE Bad == {n \in 0 .. N : n \notin P}
<1> SUFFICES ASSUME Bad # {} PROVE FALSE
  OBVIOUS
<1>1. PICK n \in Bad : \A m \in Bad : n <= m
  <2>1. Bad \in SUBSET Nat
    OBVIOUS
  <2> HIDE DEF Bad
  <2> QED
    BY <2>1, Least
<1>2. n \in 1 .. N /\ n - 1 \in 0 .. N /\ ~ n <= n - 1
  OBVIOUS
<1>3. n - 1 \in P
  BY <1>1, <1>2
<1> QED
  BY <1>2, <1>3
-------------------------------------------------------------------------------
(* What is known of the classes of characters.                             *)
White == " "
Semicolon == ";"

(* The classes of characters that lexer_next tells apart do not overlap.   *)
LEMMA Classes ==
  /\ EOT \notin Digit \cup Space \cup SymStart /\ EOT \in SymPart
  /\ \A c \in {"[", "]", ":", Quote} : c \notin Digit \cup Space \cup SymPart \cup {EOT, "-", "\\"}
  /\ "-" \notin Digit /\ ">" \notin Digit /\ "." \notin Digit /\ "-" \in SymStart
  /\ \A c \in Digit : c \notin SymStart
  /\ White \notin Digit \cup SymPart \cup {EOT, Quote, ">", ".", Semicolon} /\ White \in Space
  /\ Semicolon \notin Digit \cup SymStart \cup {EOT, "[", "]", ":", "-", Quote}
  /\ \A c \in Space : c \notin Digit \cup SymStart \cup {Semicolon, "[", "]", ":", "-", Quote}
  /\ SymStart \subseteq SymPart
  BY ReaderAssumption, Zenon DEF EOT, SymStart, SymPart, Quote, Operator, Other, White, Semicolon

(* A set of positions from a on that is not empty has a first one.         *)
LEMMA First ==
  ASSUME NEW a \in Nat, NEW b \in Nat, NEW S \in SUBSET (a .. b), S # {}
  PROVE  \E q \in S : \A r \in a .. q - 1 : r \notin S
<1>1. PICK q \in S : \A r \in S : q <= r
  BY Least
<1>2. q \in Nat /\ S \subseteq Nat
  OBVIOUS
<1> QED
  BY <1>1, <1>2

(* A loop over characters of a set ends where it should, and only there.   *)
LEMMA PastIs ==
  ASSUME NEW src \in Seq(Char), NEW p \in Nat, NEW set, ~ Endless(src, p, set)
  PROVE  /\ Past(src, p, set) \in p .. Len(src) + 1
         /\ At(src, Past(src, p, set)) \notin set
         /\ \A r \in p .. Past(src, p, set) - 1 : At(src, r) \in set
<1> DEFINE S == {q \in p .. Len(src) + 1 : At(src, q) \notin set}
<1>1. S # {}
  BY DEF Endless
<1>2. PICK q \in S : \A r \in p .. q - 1 : r \notin S
  <2>1. Len(src) + 1 \in Nat /\ S \in SUBSET (p .. Len(src) + 1)
    OBVIOUS
  <2> HIDE DEF S
  <2> QED
    BY <1>1, <2>1, First
<1>3. q \in p .. Len(src) + 1 /\ At(src, q) \notin set
  OBVIOUS
<1>4. ASSUME NEW r \in p .. q - 1 PROVE At(src, r) \in set
  <2>1. r \in p .. Len(src) + 1
    BY <1>3
  <2> QED
    BY <1>2, <2>1
<1> QED
  BY <1>3, <1>4, Zenon DEF Past

(* Past is the first position whose character is not in the set.           *)
LEMMA PastUnique ==
  ASSUME NEW src \in Seq(Char), NEW p \in Nat, NEW set, NEW q \in p .. Len(src) + 1,
         At(src, q) \notin set, \A r \in p .. q - 1 : At(src, r) \in set
  PROVE  Past(src, p, set) = q /\ ~ Endless(src, p, set)
<1>1. ~ Endless(src, p, set)
  BY DEF Endless
<1>2. PICK e \in p .. Len(src) + 1 : e = Past(src, p, set)
  BY <1>1, PastIs
<1>3. At(src, e) \notin set /\ \A r \in p .. e - 1 : At(src, r) \in set
  BY <1>1, <1>2, PastIs
<1>4. ~ e < q /\ ~ q < e
  BY <1>3
<1> QED
  BY <1>1, <1>2, <1>4

(* A run of digits ends, at the end of the text if not before.             *)
LEMMA DigitsEnd ==
  ASSUME NEW src \in Seq(Char), NEW p \in 1 .. Len(src) + 1
  PROVE  ~ Endless(src, p, Digit)
<1>1. At(src, Len(src) + 1) = EOT /\ Len(src) + 1 \in p .. Len(src) + 1
  BY DEF At
<1>2. EOT \notin Digit
  BY Classes
<1> QED
  BY <1>1, <1>2, Zenon DEF Endless

(* Spaces and comments end at the end of the text at the latest.           *)
LEMMA SkipIs ==
  ASSUME NEW src \in Seq(Char), NEW p \in 1 .. Len(src) + 1
  PROVE  /\ Skip(src, p) \in p .. Len(src) + 1
         /\ ~ Skipped(src, p, Skip(src, p))
         /\ \A r \in p .. Skip(src, p) - 1 : Skipped(src, p, r)
<1> DEFINE S == {q \in p .. Len(src) + 1 : ~ Skipped(src, p, q)}
<1>1. Len(src) + 1 \in S
  <2>1. At(src, Len(src) + 1) = EOT /\ Len(src) + 1 \in p .. Len(src) + 1
    BY DEF At
  <2>2. ~ InComment(src, p, Len(src) + 1)
    <3>1. \A s \in p .. Len(src) + 1 : Len(src) + 1 \in s .. Len(src) + 1
      OBVIOUS
    <3> QED
      BY <2>1, <3>1, Zenon DEF InComment
  <2> QED
    BY <2>1, <2>2, Classes DEF Skipped
<1>2. PICK q \in S : \A r \in p .. q - 1 : r \notin S
  <2>1. p \in Nat /\ Len(src) + 1 \in Nat /\ S \in SUBSET (p .. Len(src) + 1)
    OBVIOUS
  <2> HIDE DEF S
  <2> QED
    BY <1>1, <2>1, First
<1>3. q \in p .. Len(src) + 1 /\ ~ Skipped(src, p, q)
  OBVIOUS
<1>4. ASSUME NEW r \in p .. q - 1 PROVE Skipped(src, p, r)
  <2>1. r \in p .. Len(src) + 1
    BY <1>3
  <2> QED
    BY <1>2, <2>1
<1> QED
  BY <1>3, <1>4, Zenon DEF Skip

(* Skip is the first position that is not skipped.                         *)
LEMMA SkipUnique ==
  ASSUME NEW src \in Seq(Char), NEW p \in 1 .. Len(src) + 1, NEW q \in p .. Len(src) + 1,
         ~ Skipped(src, p, q), \A r \in p .. q - 1 : Skipped(src, p, r)
  PROVE  Skip(src, p) = q
<1>1. PICK e \in p .. Len(src) + 1 : e = Skip(src, p)
  BY SkipIs
<1>2. ~ Skipped(src, p, e) /\ \A r \in p .. e - 1 : Skipped(src, p, r)
  BY <1>1, SkipIs
<1>3. ~ e < q /\ ~ q < e
  BY <1>2
<1> QED
  BY <1>1, <1>3

(* The characters of a string, one step at a time.                         *)
StringStops(src, q) == \/ At(src, q) \in {Quote, EOT}
                       \/ At(src, q) = "\\" /\ At(src, q + 1) = EOT

(* The recursion that StringEnd stands for has a solution, for every text. *)
LEMMA StringEndIs ==
  ASSUME NEW src \in Seq(Char), NEW p \in 1 .. Len(src) + 1
  PROVE  StringEnd(src, p) = IF StringStops(src, p) THEN p
                             ELSE IF At(src, p) = "\\" THEN StringEnd(src, p + 2)
                             ELSE StringEnd(src, p + 1)
<1> DEFINE N == Len(src) + 1
           Ends(f) == [q \in 1 .. N |->
             IF At(src, q) \in {Quote, EOT} \/ (At(src, q) = "\\" /\ At(src, q + 1) = EOT) THEN q
             ELSE IF At(src, q) = "\\" THEN f[q + 2] ELSE f[q + 1]]
           nxt == [q \in 1 .. N |-> IF StringStops(src, q) THEN q
                                    ELSE IF At(src, q) = "\\" THEN q + 2 ELSE q + 1]
           base == [q \in 1 .. N |-> q]
           join == [x \in (1 .. N) \X Nat |-> x[2]]
<1>1. ASSUME NEW q \in 1 .. N, ~ StringStops(src, q)
      PROVE  nxt[q] \in q + 1 .. N
  BY <1>1 DEF StringStops, At, EOT
<1>2. /\ N \in Nat /\ nxt \in [1 .. N -> Nat] /\ base \in [1 .. N -> Nat]
      /\ join \in [(1 .. N) \X Nat -> Nat]
      /\ Forward(nxt, N)
  <2>1. N \in Nat /\ nxt \in [1 .. N -> Nat] /\ base \in [1 .. N -> Nat]
    OBVIOUS
  <2>2. join \in [(1 .. N) \X Nat -> Nat]
    OBVIOUS
  <2>3. ASSUME NEW q \in 1 .. N PROVE nxt[q] <= q \/ nxt[q] <= N
    <3>1. CASE StringStops(src, q)
      BY <3>1
    <3>2. CASE ~ StringStops(src, q)
      <4> HIDE DEF nxt
      <4> QED
        BY <1>1, <3>2
    <3> QED
      BY <3>1, <3>2
  <2> QED
    BY <2>1, <2>2, <2>3, Zenon DEF Forward
<1>3. PICK f \in [1 .. N -> Nat] : Solves(f, N, nxt, base, join)
  <2> HIDE DEF N, nxt, base, join
  <2> QED
    BY <1>2, Onward
<1>4. ASSUME NEW q \in 1 .. N
      PROVE  f[q] = IF StringStops(src, q) THEN q
                    ELSE IF At(src, q) = "\\" THEN f[q + 2] ELSE f[q + 1]
  <2>1. CASE StringStops(src, q)
    <3>1. nxt[q] = q /\ base[q] = q /\ q <= q
      BY <2>1
    <3> HIDE DEF N, nxt, base, join
    <3>2. f[q] = base[q]
      BY <1>3, <3>1 DEF Solves
    <3> QED
      BY <2>1, <3>1, <3>2
  <2>2. CASE ~ StringStops(src, q)
    <3>1. nxt[q] = IF At(src, q) = "\\" THEN q + 2 ELSE q + 1
      BY <2>2
    <3>2. nxt[q] \in q + 1 .. N
      BY <1>1, <2>2
    <3>3. f[nxt[q]] \in Nat
      <4> HIDE DEF nxt
      <4> QED
        BY <3>2
    <3>4. f[q] = join[<<q, f[nxt[q]]>>]
      <4> HIDE DEF nxt, base, join
      <4> QED
        BY <1>3, <3>2 DEF Solves
    <3>5. join[<<q, f[nxt[q]]>>] = f[nxt[q]]
      BY <3>3
    <3> HIDE DEF nxt, join, base
    <3> QED
      BY <2>2, <3>1, <3>4, <3>5
  <2> QED
    BY <2>1, <2>2
<1>5. \E g : g = Ends(g)
  <2>1. f = [q \in 1 .. N |-> f[q]]
    OBVIOUS
  <2>2. f = Ends(f)
    BY <1>4, <2>1 DEF StringStops
  <2> QED
    BY <2>2, Zenon
<1> DEFINE from == CHOOSE g : g = Ends(g)
<1>6. from = Ends(from)
  BY <1>5, Zenon
<1>7. \A q : StringEnd(src, q) = from[q]
  BY Zenon DEF StringEnd
<1> HIDE DEF from
<1>8. from[p] = Ends(from)[p]
  BY <1>6, Zenon
<1> QED
  BY <1>7, <1>8 DEF StringStops

(* A string ends within the text or at its end.                            *)
LEMMA StringEndRange ==
  ASSUME NEW src \in Seq(Char)
  PROVE  \A p \in 1 .. Len(src) + 1 : StringEnd(src, p) \in p .. Len(src) + 1
<1> DEFINE N == Len(src) + 1
           Bad == {p \in 1 .. N : StringEnd(src, p) \notin p .. N}
<1> SUFFICES ASSUME Bad # {} PROVE FALSE
  BY Zenon
<1>1. PICK p \in Bad : \A q \in Bad : q <= p
  <2>1. N \in Nat /\ Bad \in SUBSET (0 .. N)
    OBVIOUS
  <2> HIDE DEF Bad, N
  <2> QED
    BY <2>1, Greatest
<1>2. p \in 1 .. N /\ StringEnd(src, p) \notin p .. N
  OBVIOUS
<1>3. CASE StringStops(src, p)
  <2>1. StringEnd(src, p) = p
    BY <1>2, <1>3, StringEndIs
  <2> QED
    BY <1>2, <2>1
<1>4. CASE ~ StringStops(src, p)
  <2>1. PICK r \in p + 1 .. N : StringEnd(src, p) = StringEnd(src, r)
    <3>1. /\ p + 1 \in p + 1 .. N
          /\ At(src, p) = "\\" => p + 2 \in p + 1 .. N
      BY <1>2, <1>4 DEF StringStops, At, EOT
    <3> HIDE DEF N
    <3> QED
      BY <1>2, <1>4, <3>1, StringEndIs DEF N
  <2>2. r \in 1 .. N /\ ~ r <= p
    BY <1>2, <2>1
  <2>3. r \notin Bad
    BY <1>1, <2>2, Zenon
  <2>4. StringEnd(src, r) \in r .. N
    BY <2>2, <2>3
  <2> QED
    BY <1>2, <2>1, <2>4
<1> QED
  BY <1>3, <1>4
-------------------------------------------------------------------------------
(* Exactly one of the branches of lexer_next is taken. *)
LEMMA LexerCases ==
  ASSUME NEW src \in Seq(Char), NEW p \in 1 .. Len(src) + 1,
         NEW q, q = Skip(src, p), NEW c, c = At(src, q)
  PROVE  /\ c = EOT => lexer_next(src, p) = Token(src, "eof", q, q - 1, q)
         /\ c \in {"[", "]", ":"} => lexer_next(src, p) = Token(src, c, q, q, q + 1)
         /\ ArrowStart(src, q) => lexer_next(src, p) = Token(src, "->", q, q + 1, q + 2)
         /\ c = Quote => lexer_next(src, p) = String(src, q)
         /\ NumberStart(src, q) => lexer_next(src, p) = Number(src, q)
         /\ c \in SymStart /\ ~ ArrowStart(src, q) /\ ~ NumberStart(src, q)
              => lexer_next(src, p) = Symbol(src, q)
         /\ Plain(c) => lexer_next(src, p) = Token(src, "error", q, q, q + 1)
         /\ \/ c = EOT \/ c \in {"[", "]", ":"} \/ ArrowStart(src, q) \/ c = Quote
            \/ NumberStart(src, q) \/ Plain(c)
            \/ c \in SymStart /\ ~ ArrowStart(src, q) /\ ~ NumberStart(src, q)
<1> DEFINE C1 == c = EOT
           C2 == c \in {"[", "]", ":"}
           C3 == ArrowStart(src, q)
           C4 == c = Quote
           C5 == NumberStart(src, q)
           C6 == c \in SymStart /\ ~ ArrowStart(src, q) /\ ~ NumberStart(src, q)
           C7 == Plain(c)
<1>1. lexer_next(src, p) =
        CASE C1 -> Token(src, "eof", q, q - 1, q)
          [] C2 -> Token(src, c, q, q, q + 1)
          [] C3 -> Token(src, "->", q, q + 1, q + 2)
          [] C4 -> String(src, q)
          [] C5 -> Number(src, q)
          [] C6 -> Symbol(src, q)
          [] C7 -> Token(src, "error", q, q, q + 1)
  BY Zenon DEF lexer_next
<1>2. /\ ~ (C1 /\ (C2 \/ C3 \/ C4 \/ C5 \/ C6 \/ C7))
      /\ ~ (C2 /\ (C3 \/ C4 \/ C5 \/ C6 \/ C7))
      /\ ~ (C3 /\ (C4 \/ C5 \/ C6 \/ C7))
      /\ ~ (C4 /\ (C5 \/ C6 \/ C7))
      /\ ~ (C5 /\ (C6 \/ C7)) /\ ~ (C6 /\ C7)
  BY Classes DEF ArrowStart, NumberStart, Plain, EOT, Quote, SymStart, SymPart
<1>3. C1 \/ C2 \/ C3 \/ C4 \/ C5 \/ C6 \/ C7
  BY DEF Plain, NumberStart, ArrowStart
<1> HIDE DEF C1, C2, C3, C4, C5, C6, C7
<1>4. /\ C1 => lexer_next(src, p) = Token(src, "eof", q, q - 1, q)
      /\ C2 => lexer_next(src, p) = Token(src, c, q, q, q + 1)
      /\ C3 => lexer_next(src, p) = Token(src, "->", q, q + 1, q + 2)
      /\ C4 => lexer_next(src, p) = String(src, q)
      /\ C5 => lexer_next(src, p) = Number(src, q)
      /\ C6 => lexer_next(src, p) = Symbol(src, q)
      /\ C7 => lexer_next(src, p) = Token(src, "error", q, q, q + 1)
  BY <1>1, <1>2, Zenon
<1> QED
  BY <1>3, <1>4, Zenon DEF C1, C2, C3, C4, C5, C6, C7

AnItem == [kind : Kind, lexeme : Seq(Char)]
AToken == [kind : Kind, lexeme : Seq(Char), next : Nat]

(* What Token makes of positions of a text is a token.                     *)
LEMMA TokenType ==
  ASSUME NEW src \in Seq(Char), NEW kind \in Kind, NEW next \in Nat,
         NEW first \in 1 .. Len(src) + 1, NEW last \in 0 .. Len(src)
  PROVE  /\ Token(src, kind, first, last, next) \in AToken
         /\ Token(src, kind, first, last, next).kind = kind
         /\ Token(src, kind, first, last, next).next = next
<1>1. SubSeq(src, first, last) \in Seq(Char)
  <2>1. first \in Int /\ last \in Int /\ \A i \in first .. last : src[i] \in Char
    OBVIOUS
  <2> QED
    BY <2>1, SubSeqProperties
<1> QED
  BY <1>1 DEF Token, AToken

(* lexer_next goes on, and finds the end of the text again.                *)
Advances(src, p, t) ==
  /\ t \in AToken
  /\ t.next \in 1 .. Len(src) + 1
  /\ t.kind \in {"eof", "never"} \/ p < t.next
  /\ t.kind = "eof" => lexer_next(src, t.next).kind = "eof"

(* A token that begins at the next position or later advances the lexer.   *)
LEMMA TokenAdvances ==
  ASSUME NEW src \in Seq(Char), NEW p \in 1 .. Len(src) + 1,
         NEW kind \in Kind, NEW next \in 1 .. Len(src) + 1,
         NEW first \in 1 .. Len(src) + 1, NEW last \in 0 .. Len(src),
         lexer_next(src, p) = Token(src, kind, first, last, next),
         kind \in {"eof", "never"} \/ p < next,
         kind = "eof" => lexer_next(src, next).kind = "eof"
  PROVE  Advances(src, p, lexer_next(src, p))
<1>1. next \in Nat
  OBVIOUS
<1>2. /\ Token(src, kind, first, last, next) \in AToken
      /\ Token(src, kind, first, last, next).kind = kind
      /\ Token(src, kind, first, last, next).next = next
  BY <1>1, TokenType
<1> QED
  BY <1>2 DEF Advances

(* lexer_next returns a token and goes on behind it, save at the end of a  *)
(* text.                                                                   *)
THEOREM LexerAdvances ==
  ASSUME NEW src \in Seq(Char), NEW p \in 1 .. Len(src) + 1
  PROVE  Advances(src, p, lexer_next(src, p))
<1> DEFINE N == Len(src) + 1
<1>1. PICK q \in p .. N : q = Skip(src, p)
  BY SkipIs
<1>2. PICK c : c = At(src, q)
  OBVIOUS
<1>3. q \in 1 .. N /\ q - 1 \in 0 .. Len(src) /\ p <= q
  BY <1>1
<1>4. c # EOT => q \in 1 .. Len(src) /\ q + 1 \in 1 .. N
  BY <1>2, <1>3 DEF At
<1> USE DEF Kind, Atoms
<1>5. CASE c = EOT
  <2>1. lexer_next(src, p) = Token(src, "eof", q, q - 1, q)
    BY <1>1, <1>2, <1>5, LexerCases
  <2>3. Skip(src, q) = q
    <3>1. q \in q .. N /\ q .. q - 1 = {}
      BY <1>3
    <3>2. ~ InComment(src, q, q)
      <4>1. \A s \in q .. q : s = q
        BY <1>3
      <4>2. At(src, q) # Semicolon
        BY <1>2, <1>5, Classes
      <4> QED
        BY <4>1, <4>2, Zenon DEF InComment, Semicolon
    <3>3. ~ Skipped(src, q, q)
      BY <1>2, <1>5, <3>2, Classes DEF Skipped
    <3> QED
      BY <1>3, <3>1, <3>3, SkipUnique
  <2>4. lexer_next(src, q) = Token(src, "eof", q, q - 1, q)
    BY <1>2, <1>3, <1>5, <2>3, LexerCases
  <2>5. lexer_next(src, q).kind = "eof"
    BY <2>4 DEF Token
  <2> QED
    BY <1>3, <2>1, <2>5, TokenAdvances
<1>6. CASE c \in {"[", "]", ":"}
  <2>1. lexer_next(src, p) = Token(src, c, q, q, q + 1)
    BY <1>1, <1>2, <1>6, LexerCases
  <2>2. c # EOT /\ c # "eof"
    BY <1>6 DEF EOT
  <2>3. q \in 0 .. Len(src) /\ p < q + 1 /\ c \in Kind /\ q + 1 \in 1 .. N
    BY <1>3, <1>4, <1>6, <2>2
  <2> QED
    BY <1>3, <2>1, <2>2, <2>3, TokenAdvances
<1>7. CASE ArrowStart(src, q)
  <2>1. lexer_next(src, p) = Token(src, "->", q, q + 1, q + 2)
    BY <1>1, <1>2, <1>7, LexerCases
  <2>2. q + 1 \in 0 .. Len(src) /\ q + 2 \in 1 .. N
    BY <1>3, <1>7 DEF ArrowStart, At, EOT
  <2>3. p < q + 2
    BY <1>3
  <2> QED
    BY <1>3, <2>1, <2>2, <2>3, TokenAdvances
<1>8. CASE c = Quote
  <2>1. lexer_next(src, p) = String(src, q)
    BY <1>1, <1>2, <1>8, LexerCases
  <2>2. c # EOT
    BY <1>8 DEF EOT, Quote
  <2>3. PICK e \in q + 1 .. N : e = StringEnd(src, q + 1)
    BY <1>4, <2>2, StringEndRange
  <2>4. PICK nx : nx = IF At(src, e) = EOT THEN e ELSE e + 1
    OBVIOUS
  <2>5. nx \in q + 1 .. N /\ e - 1 \in 0 .. Len(src)
    BY <1>3, <2>3, <2>4 DEF At
  <2>6. lexer_next(src, p) = Token(src, "string", q + 1, e - 1, nx)
    BY <2>1, <2>3, <2>4, Zenon DEF String
  <2>7. nx \in 1 .. N /\ p < nx /\ q + 1 \in 1 .. N
    BY <1>3, <1>4, <2>2, <2>5
  <2> QED
    BY <2>5, <2>6, <2>7, TokenAdvances
<1>9. CASE NumberStart(src, q)
  <2>1. lexer_next(src, p) = Number(src, q)
    BY <1>1, <1>2, <1>9, LexerCases
  <2>2. c # EOT
    BY <1>2, <1>9, Classes DEF NumberStart, EOT
  <2>3. PICK e \in q + 1 .. N : e = Past(src, q + 1, Digit)
    <3>1. q + 1 \in Nat /\ q + 1 \in 1 .. N
      BY <1>4, <2>2
    <3> QED
      BY <3>1, DigitsEnd, PastIs
  <2>4. CASE At(src, e) = "." /\ At(src, e + 1) \in Digit
    <3>1. e + 1 \in 1 .. N /\ e + 1 \in Nat
      BY <1>3, <2>3, <2>4 DEF At, EOT
    <3>2. PICK f \in e + 1 .. N : f = Past(src, e + 1, Digit)
      BY <3>1, DigitsEnd, PastIs
    <3>3. lexer_next(src, p) = Token(src, "float", q, f - 1, f)
      BY <2>1, <2>3, <2>4, <3>2, Zenon DEF Number
    <3>4. f \in 1 .. N /\ f - 1 \in 0 .. Len(src) /\ p < f
      BY <1>3, <2>3, <3>2
    <3> QED
      BY <1>3, <3>3, <3>4, TokenAdvances
  <2>5. CASE ~ (At(src, e) = "." /\ At(src, e + 1) \in Digit)
    <3>1. lexer_next(src, p) = Token(src, "int", q, e - 1, e)
      BY <2>1, <2>3, <2>5, Zenon DEF Number
    <3>2. e - 1 \in 0 .. Len(src) /\ e \in 1 .. N /\ p < e
      BY <1>3, <2>3
    <3> QED
      BY <1>3, <3>1, <3>2, TokenAdvances
  <2> QED
    BY <2>4, <2>5
<1>10. CASE c \in SymStart /\ ~ ArrowStart(src, q) /\ ~ NumberStart(src, q)
  <2>1. lexer_next(src, p) = Symbol(src, q)
    BY <1>1, <1>2, <1>10, LexerCases
  <2>2. CASE Endless(src, q + 1, SymPart)
    <3>1. lexer_next(src, p) = Token(src, "never", q, q - 1, q)
      BY <2>1, <2>2, Zenon DEF Symbol
    <3> QED
      BY <1>3, <3>1, TokenAdvances
  <2>3. CASE ~ Endless(src, q + 1, SymPart)
    <3>1. PICK e \in q + 1 .. N : e = Past(src, q + 1, SymPart)
      <4>1. q + 1 \in Nat
        BY <1>3
      <4> QED
        BY <2>3, <4>1, PastIs
    <3>2. lexer_next(src, p) = Token(src, "symbol", q, e - 1, e)
      BY <2>1, <2>3, <3>1, Zenon DEF Symbol
    <3>3. e - 1 \in 0 .. Len(src) /\ e \in 1 .. N /\ p < e
      BY <1>3, <3>1
    <3> QED
      BY <1>3, <3>2, <3>3, TokenAdvances
  <2> QED
    BY <2>2, <2>3
<1>11. CASE Plain(c)
  <2>1. lexer_next(src, p) = Token(src, "error", q, q, q + 1)
    BY <1>1, <1>2, <1>11, LexerCases
  <2>2. c # EOT
    BY <1>11 DEF Plain
  <2>3. q \in 0 .. Len(src) /\ p < q + 1 /\ q + 1 \in 1 .. N
    BY <1>3, <1>4, <2>2
  <2> QED
    BY <1>3, <2>1, <2>3, TokenAdvances
<1> QED
  BY <1>1, <1>2, <1>5, <1>6, <1>7, <1>8, <1>9, <1>10, <1>11, LexerCases, Zenon

(* A call of lexer_next on a text that ends in a space or a newline        *)
(* returns, wherever it begins: the loop of a symbol ends there, if not    *)
(* before.                                                                 *)
THEOREM SpacedTextsReturn ==
  ASSUME NEW src \in Seq(Char), src # << >>, src[Len(src)] \in Space,
         NEW p \in 1 .. Len(src) + 1
  PROVE  lexer_next(src, p).kind # "never"
<1>1. PICK q \in p .. Len(src) + 1 : q = Skip(src, p)
  BY SkipIs
<1>2. PICK c : c = At(src, q)
  OBVIOUS
<1>3. Len(src) \in Nat /\ q \in Nat
  BY <1>1
<1>4. CASE c \in SymStart /\ ~ ArrowStart(src, q) /\ ~ NumberStart(src, q)
  <2>1. q <= Len(src) /\ c = src[q]
    BY <1>2, <1>3, <1>4, Classes DEF At
  <2>2. q # Len(src)
    BY <1>4, <2>1, Classes
  <2>3. Len(src) \in q + 1 .. Len(src) + 1 /\ At(src, Len(src)) \in Space
    BY <1>3, <2>1, <2>2 DEF At
  <2>4. \A d \in Space : d \notin SymPart
    BY ReaderAssumption, Zenon DEF SymPart, EOT, Operator, Other
  <2>5. ~ Endless(src, q + 1, SymPart)
    BY <2>3, <2>4 DEF Endless
  <2>6. lexer_next(src, p) = Symbol(src, q)
    BY <1>1, <1>2, <1>4, LexerCases
  <2>7. lexer_next(src, p).kind = "symbol"
    BY <2>5, <2>6 DEF Symbol, Token
  <2> QED
    BY <2>7
<1>5. CASE c \in {"[", "]", ":"}
  BY <1>1, <1>2, <1>5, LexerCases DEF Token
<1>6. CASE c = Quote
  <2>1. lexer_next(src, p) = String(src, q)
    BY <1>1, <1>2, <1>6, LexerCases
  <2> QED
    BY <2>1 DEF String, Token
<1>7. CASE NumberStart(src, q)
  <2>1. lexer_next(src, p) = Number(src, q)
    BY <1>1, <1>2, <1>7, LexerCases
  <2> QED
    BY <2>1 DEF Number, Token
<1>8. CASE c = EOT \/ ArrowStart(src, q) \/ Plain(c)
  <2>1. \/ lexer_next(src, p) = Token(src, "eof", q, q - 1, q)
        \/ lexer_next(src, p) = Token(src, "->", q, q + 1, q + 2)
        \/ lexer_next(src, p) = Token(src, "error", q, q, q + 1)
    BY <1>1, <1>2, <1>8, LexerCases
  <2> QED
    BY <2>1 DEF Token
<1> QED
  BY <1>1, <1>2, <1>4, <1>5, <1>6, <1>7, <1>8, LexerCases
-------------------------------------------------------------------------------
(* A token gives an item of a list.                                        *)
LEMMA ItemType ==
  ASSUME NEW t \in AToken
  PROVE  Item(t) \in AnItem /\ Item(t).kind = t.kind /\ Ahead(t) \in Seq(AnItem)
<1>1. Item(t) \in AnItem /\ Item(t).kind = t.kind
  BY DEF AToken, AnItem, Item
<1> QED
  BY <1>1 DEF Ahead

(* The atoms of a text, one token at a time.                               *)
LEMMA AtomsFromIs ==
  ASSUME NEW src \in Seq(Char), NEW p \in 1 .. Len(src) + 1,
         NEW t, t = lexer_next(src, p)
  PROVE  AtomsFrom(src)[p] = IF t.kind \in {"eof", "never"} THEN << >>
                             ELSE Ahead(t) \o AtomsFrom(src)[t.next]
<1> DEFINE N == Len(src) + 1
           Stop(q) == lexer_next(src, q).kind \in {"eof", "never"}
           Rec(f) == [q \in 1 .. N |->
             IF Stop(q) THEN << >> ELSE Ahead(lexer_next(src, q)) \o f[lexer_next(src, q).next]]
           nxt == [q \in 1 .. N |-> IF Stop(q) THEN q ELSE lexer_next(src, q).next]
           base == [q \in 1 .. N |-> << >>]
           join == [x \in (1 .. N) \X Seq(AnItem) |-> Ahead(lexer_next(src, x[1])) \o x[2]]
<1>1. ASSUME NEW q \in 1 .. N
      PROVE  /\ Ahead(lexer_next(src, q)) \in Seq(AnItem)
             /\ Stop(q) \/ lexer_next(src, q).next \in q + 1 .. N
  <2>1. Advances(src, q, lexer_next(src, q))
    BY LexerAdvances
  <2> QED
    BY <2>1, ItemType DEF Advances
<1>2. \A q \in 1 .. N : nxt[q] = IF Stop(q) THEN q ELSE lexer_next(src, q).next
  <2> HIDE DEF Stop
  <2> QED
    OBVIOUS
<1>3. ASSUME NEW q \in 1 .. N PROVE nxt[q] \in Nat /\ (nxt[q] <= q <=> Stop(q)) /\ nxt[q] <= N
  <2> HIDE DEF Stop, nxt
  <2> QED
    BY <1>1, <1>2
<1>4. N \in Nat /\ nxt \in [1 .. N -> Nat] /\ Forward(nxt, N)
  <2>1. nxt = [q \in 1 .. N |-> nxt[q]]
    OBVIOUS
  <2> HIDE DEF Stop, nxt
  <2> QED
    BY <1>3, <2>1 DEF Forward
<1>5. base \in [1 .. N -> Seq(AnItem)] /\ \A q \in 1 .. N : base[q] = << >>
  OBVIOUS
<1>6. join \in [(1 .. N) \X Seq(AnItem) -> Seq(AnItem)]
  <2> HIDE DEF N
  <2>1. ASSUME NEW x \in (1 .. N) \X Seq(AnItem)
        PROVE  Ahead(lexer_next(src, x[1])) \o x[2] \in Seq(AnItem)
    <3>1. x[1] \in 1 .. N /\ x[2] \in Seq(AnItem)
      OBVIOUS
    <3> QED
      BY <1>1, <3>1, ConcatProperties
  <2> QED
    BY <2>1
<1>7. PICK f \in [1 .. N -> Seq(AnItem)] : Solves(f, N, nxt, base, join)
  <2> HIDE DEF N, nxt, base, join
  <2> QED
    BY <1>4, <1>5, <1>6, Onward
<1>8. ASSUME NEW q \in 1 .. N
      PROVE  f[q] = IF Stop(q) THEN << >> ELSE Ahead(lexer_next(src, q)) \o f[lexer_next(src, q).next]
  <2>1. f[q] = IF nxt[q] <= q THEN base[q] ELSE join[<<q, f[nxt[q]]>>]
    <3> HIDE DEF N, nxt, base, join
    <3> QED
      BY <1>7 DEF Solves
  <2>2. CASE Stop(q)
    <3> HIDE DEF N, nxt, base, join, Stop
    <3> QED
      BY <1>3, <1>5, <2>1, <2>2
  <2>3. CASE ~ Stop(q)
    <3>1. nxt[q] \in 1 .. N /\ ~ nxt[q] <= q /\ nxt[q] = lexer_next(src, q).next
      <4> HIDE DEF nxt, base, join, Stop
      <4> QED
        BY <1>2, <1>3, <2>3
    <3>2. f[nxt[q]] \in Seq(AnItem)
      <4> HIDE DEF nxt, N
      <4> QED
        BY <3>1
    <3>3. join[<<q, f[nxt[q]]>>] = Ahead(lexer_next(src, q)) \o f[nxt[q]]
      <4> HIDE DEF nxt, N
      <4> QED
        BY <3>2
    <3> HIDE DEF N, nxt, base, join, Stop
    <3> QED
      BY <2>1, <2>3, <3>1, <3>3
  <2> QED
    BY <2>2, <2>3
<1>9. \E g : g = Rec(g)
  <2> HIDE DEF Stop, N
  <2>1. f = [q \in 1 .. N |-> f[q]]
    OBVIOUS
  <2>2. f = Rec(f)
    BY <1>8, <2>1
  <2> QED
    BY <2>2, Zenon
<1> DEFINE from == CHOOSE g : g = Rec(g)
<1>10. from = Rec(from)
  BY <1>9, Zenon
<1>11. AtomsFrom(src) = from
  BY Zenon DEF AtomsFrom
<1> HIDE DEF from
<1>12. from[p] = Rec(from)[p]
  BY <1>10, Zenon
<1> QED
  BY <1>11, <1>12

(* The atoms of a text are a list of items.                                *)
LEMMA AtomsFromType ==
  ASSUME NEW src \in Seq(Char)
  PROVE  \A p \in 1 .. Len(src) + 1 : AtomsFrom(src)[p] \in Seq(AnItem)
<1> DEFINE N == Len(src) + 1
           Bad == {p \in 1 .. N : AtomsFrom(src)[p] \notin Seq(AnItem)}
<1> SUFFICES ASSUME Bad # {} PROVE FALSE
  BY Zenon
<1>1. PICK p \in Bad : \A q \in Bad : q <= p
  <2>1. N \in Nat /\ Bad \in SUBSET (0 .. N)
    OBVIOUS
  <2> HIDE DEF Bad, N
  <2> QED
    BY <2>1, Greatest
<1>2. p \in 1 .. N /\ AtomsFrom(src)[p] \notin Seq(AnItem)
  OBVIOUS
<1>3. PICK t : t = lexer_next(src, p)
  OBVIOUS
<1>4. Advances(src, p, t)
  BY <1>2, <1>3, LexerAdvances
<1>5. AtomsFrom(src)[p] = IF t.kind \in {"eof", "never"} THEN << >>
                         ELSE Ahead(t) \o AtomsFrom(src)[t.next]
  BY <1>2, <1>3, AtomsFromIs
<1>6. t.kind \notin {"eof", "never"}
  BY <1>2, <1>5
<1>7. t.next \in 1 .. N /\ ~ t.next <= p
  BY <1>2, <1>4, <1>6 DEF Advances, AToken
<1>8. AtomsFrom(src)[t.next] \in Seq(AnItem)
  <2>1. t.next \notin Bad
    BY <1>1, <1>7, Zenon
  <2> QED
    BY <1>7, <2>1
<1>9. Ahead(t) \in Seq(AnItem)
  BY <1>4, ItemType DEF Advances
<1> QED
  BY <1>2, <1>5, <1>6, <1>8, <1>9, ConcatProperties

(* The atoms of a list, one item at a time.                                *)
AtomsUpto(f, s) ==
  /\ f[0] = << >>
  /\ \A n \in 1 .. Len(s) :
       f[n] = IF s[n].kind \in Atoms THEN Append(f[n - 1], s[n]) ELSE f[n - 1]

(* The recursion that AtomsOf stands for has a solution, for every list.   *)
LEMMA AtomsOfIs ==
  ASSUME NEW s \in Seq(AnItem)
  PROVE  \E f : AtomsUpto(f, s) /\ AtomsOf(s) = f[Len(s)]
<1> DEFINE N == Len(s)
           Rec(f) == [n \in 0 .. N |->
             IF n = 0 THEN << >>
             ELSE IF s[n].kind \in Atoms THEN Append(f[n - 1], s[n]) ELSE f[n - 1]]
           join == [x \in (1 .. N) \X Seq(AnItem) |->
                      IF s[x[1]].kind \in Atoms THEN Append(x[2], s[x[1]]) ELSE x[2]]
<1>1. N \in Nat /\ << >> \in Seq(AnItem) /\ \A n \in 1 .. N : s[n] \in AnItem
  OBVIOUS
<1>2. join \in [(1 .. N) \X Seq(AnItem) -> Seq(AnItem)]
  <2> HIDE DEF N
  <2>1. ASSUME NEW x \in (1 .. N) \X Seq(AnItem)
        PROVE  (IF s[x[1]].kind \in Atoms THEN Append(x[2], s[x[1]]) ELSE x[2]) \in Seq(AnItem)
    <3>1. s[x[1]] \in AnItem /\ x[2] \in Seq(AnItem)
      BY <1>1
    <3>2. Append(x[2], s[x[1]]) \in Seq(AnItem)
      BY <3>1, AppendProperties
    <3> QED
      BY <3>1, <3>2
  <2> QED
    BY <2>1
<1>3. PICK f \in [0 .. N -> Seq(AnItem)] : Climbs(f, N, << >>, join)
  <2> HIDE DEF N, join
  <2> QED
    BY <1>1, <1>2, Upto
<1>4. ASSUME NEW n \in 1 .. N
      PROVE  f[n] = IF s[n].kind \in Atoms THEN Append(f[n - 1], s[n]) ELSE f[n - 1]
  <2>1. f[n - 1] \in Seq(AnItem)
    <3>1. n - 1 \in 0 .. N
      BY <1>1
    <3> HIDE DEF N
    <3> QED
      BY <3>1
  <2>2. join[<<n, f[n - 1]>>] = IF s[n].kind \in Atoms THEN Append(f[n - 1], s[n]) ELSE f[n - 1]
    <3> HIDE DEF N
    <3> QED
      BY <2>1
  <2> HIDE DEF N, join
  <2> QED
    BY <1>3, <2>2 DEF Climbs
<1>5. \E g : g = Rec(g)
  <2> HIDE DEF N, join
  <2>1. f = [n \in 0 .. N |-> f[n]]
    OBVIOUS
  <2>2. \A n \in 0 .. N : n = 0 \/ n \in 1 .. N
    BY <1>1
  <2>3. \A n \in 0 .. N : f[n] = Rec(f)[n]
    BY <1>3, <1>4, <2>2 DEF Climbs
  <2>4. f = Rec(f)
    BY <2>1, <2>3
  <2> QED
    BY <2>4, Zenon
<1> DEFINE upto == CHOOSE g : g = Rec(g)
<1>6. upto = Rec(upto)
  BY <1>5, Zenon
<1>7. AtomsOf(s) = upto[Len(s)]
  BY Zenon DEF AtomsOf
<1> HIDE DEF upto
<1>8. AtomsUpto(upto, s)
  <2>1. \A n \in 0 .. N : upto[n] = Rec(upto)[n]
    BY <1>6, Zenon
  <2>2. 0 \in 0 .. N /\ \A n \in 1 .. N : n \in 0 .. N /\ n # 0
    BY <1>1
  <2>3. upto[0] = << >>
    BY <2>1, <2>2
  <2>4. ASSUME NEW n \in 1 .. N
        PROVE  upto[n] = IF s[n].kind \in Atoms THEN Append(upto[n - 1], s[n]) ELSE upto[n - 1]
    BY <2>1, <2>2
  <2> QED
    BY <2>3, <2>4 DEF AtomsUpto
<1> QED
  BY <1>7, <1>8, Zenon

(* The atoms of the first items of a list are a list.                      *)
LEMMA AtomsUptoType ==
  ASSUME NEW s \in Seq(AnItem), NEW f, AtomsUpto(f, s)
  PROVE  \A n \in 0 .. Len(s) : f[n] \in Seq(AnItem)
<1> DEFINE P == {n \in 0 .. Len(s) : f[n] \in Seq(AnItem)}
<1>1. 0 \in P /\ Len(s) \in Nat
  <2>1. f[0] = << >> /\ << >> \in Seq(AnItem) /\ Len(s) \in Nat
    BY DEF AtomsUpto
  <2>2. f[0] \in Seq(AnItem) /\ 0 \in 0 .. Len(s)
    <3>1. f[0] \in Seq(AnItem)
      BY <2>1, Zenon
    <3> QED
      BY <2>1, <3>1
  <2> QED
    BY <2>1, <2>2
<1>2. ASSUME NEW n \in 1 .. Len(s), n - 1 \in P PROVE n \in P
  <2>1. f[n - 1] \in Seq(AnItem) /\ s[n] \in AnItem /\ n \in 0 .. Len(s)
    BY <1>2
  <2>2. Append(f[n - 1], s[n]) \in Seq(AnItem)
    BY <2>1, AppendProperties
  <2>3. f[n] = Append(f[n - 1], s[n]) \/ f[n] = f[n - 1]
    BY DEF AtomsUpto
  <2> QED
    BY <2>1, <2>2, <2>3
<1>3. \A n \in 0 .. Len(s) : n \in P
  <2> HIDE DEF P
  <2> QED
    BY <1>1, <1>2, Climb
<1> QED
  BY <1>3

(* They depend on these items alone.                                       *)
LEMMA AtomsUptoSame ==
  ASSUME NEW s \in Seq(AnItem), NEW r \in Seq(AnItem), NEW f, NEW g,
         AtomsUpto(f, s), AtomsUpto(g, r),
         Len(s) <= Len(r), \A n \in 1 .. Len(s) : s[n] = r[n]
  PROVE  \A n \in 0 .. Len(s) : f[n] = g[n]
<1> DEFINE P == {n \in 0 .. Len(s) : f[n] = g[n]}
<1>1. 0 \in P /\ Len(s) \in Nat
  BY DEF AtomsUpto
<1>2. ASSUME NEW n \in 1 .. Len(s), n - 1 \in P PROVE n \in P
  <2>1. f[n - 1] = g[n - 1] /\ s[n] = r[n] /\ n \in 1 .. Len(r) /\ n \in 0 .. Len(s)
    BY <1>2
  <2>2. f[n] = g[n]
    BY <2>1 DEF AtomsUpto
  <2> QED
    BY <2>1, <2>2
<1>3. \A n \in 0 .. Len(s) : n \in P
  <2> HIDE DEF P
  <2> QED
    BY <1>1, <1>2, Climb
<1> QED
  BY <1>3

(* No items, no atoms.                                                     *)
LEMMA AtomsOfEmpty == AtomsOf(<< >>) = << >>
<1>1. << >> \in Seq(AnItem) /\ Len(<< >>) = 0
  OBVIOUS
<1>2. PICK f : AtomsUpto(f, << >>) /\ AtomsOf(<< >>) = f[Len(<< >>)]
  BY <1>1, AtomsOfIs
<1> QED
  BY <1>1, <1>2 DEF AtomsUpto

(* An item more is an atom more, or none if it is a bracket.               *)
LEMMA AtomsOfAppend ==
  ASSUME NEW s \in Seq(AnItem), NEW x \in AnItem
  PROVE  /\ AtomsOf(s) \in Seq(AnItem)
         /\ AtomsOf(Append(s, x)) = IF x.kind \in Atoms THEN Append(AtomsOf(s), x) ELSE AtomsOf(s)
<1>1. PICK r : r = Append(s, x)
  OBVIOUS
<1>2. /\ r \in Seq(AnItem) /\ Len(r) = Len(s) + 1 /\ Len(s) \in Nat
      /\ \A n \in 1 .. Len(s) : s[n] = r[n]
      /\ r[Len(r)] = x
  BY <1>1, AppendProperties
<1>3. PICK f : AtomsUpto(f, s) /\ AtomsOf(s) = f[Len(s)]
  BY AtomsOfIs
<1>4. PICK g : AtomsUpto(g, r) /\ AtomsOf(r) = g[Len(r)]
  BY <1>2, AtomsOfIs
<1>5. g[Len(s)] = f[Len(s)] /\ f[Len(s)] \in Seq(AnItem)
  <2>1. Len(s) <= Len(r) /\ Len(s) \in 0 .. Len(s)
    BY <1>2
  <2> QED
    BY <1>2, <1>3, <1>4, <2>1, AtomsUptoSame, AtomsUptoType
<1>6. Len(r) \in 1 .. Len(r) /\ Len(r) - 1 = Len(s)
  BY <1>2
<1>7. g[Len(r)] = IF x.kind \in Atoms THEN Append(g[Len(s)], x) ELSE g[Len(s)]
  BY <1>2, <1>4, <1>6 DEF AtomsUpto
<1> QED
  BY <1>1, <1>3, <1>4, <1>5, <1>7
-------------------------------------------------------------------------------
(* The lists that are being built, as one sequence: the items of each come *)
(* after the bracket that opened it.                                       *)
Unrolls(R, lists) ==
  /\ R \in [1 .. Len(lists) -> Seq(AnItem)]
  /\ R[1] = lists[1]
  /\ \A j \in 2 .. Len(lists) : R[j] = Append(R[j - 1], Bracket("[")) \o lists[j]
Unrolled(lists, s) == \E R : Unrolls(R, lists) /\ s = R[Len(lists)]

Lists == Seq(Seq(AnItem)) \ {<< >>}

(* Brackets are items.                                                     *)
LEMMA BracketType == Bracket("[") \in AnItem /\ Bracket("]") \in AnItem
  BY DEF Bracket, AnItem, Kind, Char, Other

(* Joining lists of items is associative.                                  *)
LEMMA ItemsAssociate ==
  \A a, b, c \in Seq(AnItem) : (a \o b) \o c = a \o (b \o c)
  BY ConcatAssociative

(* There is an innermost list, and each is a list of items.                *)
LEMMA ListsType ==
  ASSUME NEW lists \in Lists
  PROVE  /\ Len(lists) \in Nat \ {0} /\ Len(lists) \in 1 .. Len(lists)
         /\ \A j \in 1 .. Len(lists) : lists[j] \in Seq(AnItem)
  BY DEF Lists

(* Lists unroll to a list of items, one list to itself.                    *)
LEMMA UnrolledType ==
  ASSUME NEW lists \in Lists, NEW s, Unrolled(lists, s)
  PROVE  s \in Seq(AnItem) /\ (Len(lists) = 1 => s = lists[1])
  BY ListsType DEF Unrolled, Unrolls

(* Items at the end of the innermost list are at the end of them all.      *)
LEMMA UnrolledPush ==
  ASSUME NEW lists \in Lists, NEW s, Unrolled(lists, s), NEW items \in Seq(AnItem)
  PROVE  Push(lists, items) \in Lists /\ Unrolled(Push(lists, items), s \o items)
<1> DEFINE n == Len(lists)
           new == Push(lists, items)
<1>1. /\ n \in Nat \ {0} /\ n \in 1 .. n
      /\ \A j \in 1 .. n : lists[j] \in Seq(AnItem)
  BY ListsType
<1>2. lists[n] \o items \in Seq(AnItem)
  BY <1>1, ConcatProperties
<1>3. lists \in Seq(Seq(AnItem)) /\ lists # << >>
  BY DEF Lists
<1>4. new = [lists EXCEPT ![n] = lists[n] \o items]
  BY DEF Push
<1>5. new \in Seq(Seq(AnItem)) /\ Len(new) = n
  BY <1>1, <1>2, <1>3, <1>4, ExceptSeq
<1>6. new[n] = lists[n] \o items /\ \A j \in 1 .. n : j # n => new[j] = lists[j]
  BY <1>1, <1>3, <1>4
<1>7. new \in Lists
  BY <1>1, <1>5 DEF Lists
<1>8. PICK R : Unrolls(R, lists) /\ s = R[n]
  BY DEF Unrolled
<1>9. R \in [1 .. n -> Seq(AnItem)] /\ s \in Seq(AnItem)
  BY <1>1, <1>8 DEF Unrolls
<1> DEFINE Q == [j \in 1 .. n |-> IF j = n THEN s \o items ELSE R[j]]
<1>10. s \o items \in Seq(AnItem)
  BY <1>9, ConcatProperties
<1>11. Q \in [1 .. n -> Seq(AnItem)] /\ Q[n] = s \o items
  <2> HIDE DEF n
  <2> QED
    BY <1>1, <1>9, <1>10
<1>12. Q[1] = new[1]
  <2>1. CASE n = 1
    BY <1>6, <1>8, <1>11, <2>1 DEF Unrolls
  <2>2. CASE n # 1
    <3>1. 1 \in 1 .. n
      BY <1>1
    <3>2. Q[1] = R[1] /\ new[1] = lists[1]
      <4> HIDE DEF new
      <4> QED
        BY <1>6, <2>2, <3>1
    <3> QED
      BY <1>8, <3>2 DEF Unrolls
  <2> QED
    BY <2>1, <2>2
<1>13. ASSUME NEW j \in 2 .. n PROVE Q[j] = Append(Q[j - 1], Bracket("[")) \o new[j]
  <2>1. j \in 1 .. n /\ j - 1 \in 1 .. n /\ j - 1 # n
    BY <1>1
  <2>2. Q[j - 1] = R[j - 1] /\ R[j - 1] \in Seq(AnItem)
    <3> HIDE DEF n
    <3> QED
      BY <1>9, <2>1
  <2>3. R[j] = Append(R[j - 1], Bracket("[")) \o lists[j]
    BY <1>8 DEF Unrolls
  <2>4. CASE j # n
    <3>1. Q[j] = R[j] /\ new[j] = lists[j]
      <4> HIDE DEF n, new
      <4> QED
        BY <1>6, <2>1, <2>4
    <3> HIDE DEF Q, new
    <3> QED
      BY <2>2, <2>3, <3>1
  <2>5. CASE j = n
    <3>1. Append(R[j - 1], Bracket("[")) \in Seq(AnItem)
      BY <2>2, BracketType, AppendProperties
    <3>2. s \o items = Append(R[j - 1], Bracket("[")) \o (lists[n] \o items)
      <4>1. s = Append(R[j - 1], Bracket("[")) \o lists[n] /\ lists[n] \in Seq(AnItem)
        BY <1>1, <1>8, <2>3, <2>5, Zenon
      <4> HIDE DEF n
      <4> QED
        BY <3>1, <4>1, ItemsAssociate, Zenon
    <3> HIDE DEF Q, new
    <3> QED
      BY <1>6, <1>11, <2>2, <2>5, <3>2
  <2> QED
    BY <2>4, <2>5
<1>14. Unrolls(Q, new) /\ s \o items = Q[Len(new)]
  <2> HIDE DEF Q, new
  <2> QED
    BY <1>5, <1>11, <1>12, <1>13 DEF Unrolls
<1> QED
  BY <1>7, <1>14 DEF Unrolled

(* A list that begins puts its bracket at the end of them all.             *)
LEMMA UnrolledOpen ==
  ASSUME NEW lists \in Lists, NEW s, Unrolled(lists, s)
  PROVE  /\ Append(lists, << >>) \in Lists
         /\ Unrolled(Append(lists, << >>), Append(s, Bracket("[")))
<1> DEFINE n == Len(lists)
           new == Append(lists, << >>)
<1>1. n \in Nat \ {0} /\ n \in 1 .. n
  BY ListsType
<1>2. lists \in Seq(Seq(AnItem)) /\ << >> \in Seq(AnItem)
  BY DEF Lists
<1>3. /\ new \in Seq(Seq(AnItem)) /\ new # << >> /\ Len(new) = n + 1
      /\ \A j \in 1 .. n : new[j] = lists[j]
      /\ new[n + 1] = << >>
  BY <1>2, AppendProperties
<1>4. PICK R : Unrolls(R, lists) /\ s = R[n]
  BY DEF Unrolled
<1>5. R \in [1 .. n -> Seq(AnItem)] /\ s \in Seq(AnItem)
  BY <1>1, <1>4 DEF Unrolls
<1>6. Append(s, Bracket("[")) \in Seq(AnItem)
  BY <1>5, BracketType, AppendProperties
<1> DEFINE Q == [j \in 1 .. n + 1 |-> IF j = n + 1 THEN Append(s, Bracket("[")) ELSE R[j]]
<1>7. /\ Q \in [1 .. n + 1 -> Seq(AnItem)] /\ Q[n + 1] = Append(s, Bracket("["))
      /\ \A j \in 1 .. n : Q[j] = R[j]
  <2> HIDE DEF n
  <2> QED
    BY <1>1, <1>5, <1>6
<1>8. Q[1] = new[1]
  <2>1. 1 \in 1 .. n
    BY <1>1
  <2> HIDE DEF Q, new
  <2> QED
    BY <1>3, <1>4, <1>7, <2>1 DEF Unrolls
<1>9. ASSUME NEW j \in 2 .. n + 1 PROVE Q[j] = Append(Q[j - 1], Bracket("[")) \o new[j]
  <2>1. j - 1 \in 1 .. n /\ Q[j - 1] = R[j - 1]
    <3>1. j - 1 \in 1 .. n
      BY <1>1
    <3> HIDE DEF Q
    <3> QED
      BY <1>7, <3>1
  <2>2. CASE j = n + 1
    <3>1. j - 1 = n
      BY <1>1, <2>2
    <3>2. Append(s, Bracket("[")) \o << >> = Append(s, Bracket("["))
      BY <1>6, ConcatEmptySeq
    <3> HIDE DEF Q, new
    <3> QED
      BY <1>3, <1>4, <1>7, <2>1, <2>2, <3>1, <3>2
  <2>3. CASE j # n + 1
    <3>1. j \in 2 .. n /\ j \in 1 .. n
      BY <1>1, <2>3
    <3>2. Q[j] = R[j] /\ new[j] = lists[j]
      <4> HIDE DEF Q, new
      <4> QED
        BY <1>3, <1>7, <3>1
    <3>3. R[j] = Append(R[j - 1], Bracket("[")) \o lists[j]
      BY <1>4, <3>1 DEF Unrolls
    <3> HIDE DEF Q, new
    <3> QED
      BY <2>1, <3>2, <3>3
  <2> QED
    BY <2>2, <2>3
<1>10. Unrolls(Q, new) /\ Append(s, Bracket("[")) = Q[Len(new)]
  <2> HIDE DEF Q, new
  <2> QED
    BY <1>3, <1>7, <1>8, <1>9 DEF Unrolls
<1>11. new \in Lists
  BY <1>3 DEF Lists
<1> QED
  BY <1>10, <1>11 DEF Unrolled

(* A list that ends takes its brackets to the list around it.              *)
LEMMA UnrolledReturn ==
  ASSUME NEW lists \in Lists, NEW s, Unrolled(lists, s), Len(lists) > 1,
         NEW outer, outer = SubSeq(lists, 1, Len(lists) - 1),
         NEW items, items = lists[Len(lists)]
  PROVE  /\ Push(outer, Listed(items)) \in Lists
         /\ Unrolled(Push(outer, Listed(items)), Append(s, Bracket("]")))
<1> DEFINE n == Len(lists)
<1>1. n \in Nat \ {0} /\ n \in 1 .. n /\ items \in Seq(AnItem)
  BY ListsType
<1>2. PICK m \in Nat : m = n - 1
  BY <1>1
<1>3. m \in Nat \ {0} /\ n \in 2 .. n /\ m \in 1 .. n /\ m \in 1 .. m /\ n - 1 = m
  BY <1>1, <1>2
<1>4. /\ outer \in Seq(Seq(AnItem)) /\ Len(outer) = m
      /\ \A j \in 1 .. m : outer[j] = lists[j]
  <2>1. lists \in Seq(Seq(AnItem)) /\ 1 \in Int /\ m \in Int /\ 1 <= m
    BY <1>3 DEF Lists
  <2>2. \A j \in 1 .. m : lists[j] \in Seq(AnItem)
    <3> SUFFICES ASSUME NEW j \in 1 .. m PROVE lists[j] \in Seq(AnItem)
      OBVIOUS
    <3>1. j \in 1 .. Len(lists)
      BY ONLY <1>1, <1>2
    <3>2. \A i \in 1 .. Len(lists) : lists[i] \in Seq(AnItem)
      BY ONLY lists \in Lists, ListsType
    <3> QED
      BY ONLY <3>1, <3>2
  <2>3. outer = SubSeq(lists, 1, m)
    BY <1>2
  <2>4. /\ outer \in Seq(Seq(AnItem)) /\ Len(outer) = m - 1 + 1
        /\ \A j \in 1 .. m - 1 + 1 : outer[j] = lists[1 + j - 1]
    BY <2>1, <2>2, <2>3, SubSeqProperties
  <2>5. m - 1 + 1 = m /\ \A j \in 1 .. m : 1 + j - 1 = j
    BY <2>1
  <2> QED
    BY <2>4, <2>5
<1>5. PICK R : Unrolls(R, lists) /\ s = R[n]
  BY DEF Unrolled
<1>6. R \in [1 .. n -> Seq(AnItem)] /\ R[m] \in Seq(AnItem)
  BY <1>3, <1>5 DEF Unrolls
<1>7. s = Append(R[m], Bracket("[")) \o items
  BY <1>3, <1>5 DEF Unrolls
<1> DEFINE Q == [j \in 1 .. m |-> R[j]]
<1>8. Unrolled(outer, R[m]) /\ outer \in Lists
  <2>1. Q \in [1 .. m -> Seq(AnItem)] /\ \A j \in 1 .. m : Q[j] = R[j]
    <3>1. \A j \in 1 .. m : j \in 1 .. n
      BY <1>1, <1>2
    <3> HIDE DEF n
    <3> QED
      BY <1>6, <3>1
  <2>2. 1 \in 1 .. m /\ Q[1] = outer[1]
    <3>1. 1 \in 1 .. m
      BY <1>3
    <3> HIDE DEF Q
    <3> QED
      BY <1>4, <1>5, <2>1, <3>1 DEF Unrolls
  <2>3. ASSUME NEW j \in 2 .. m PROVE Q[j] = Append(Q[j - 1], Bracket("[")) \o outer[j]
    <3>1. j \in 2 .. n /\ j \in 1 .. m /\ j - 1 \in 1 .. m
      BY <1>1, <1>2
    <3>2. R[j] = Append(R[j - 1], Bracket("[")) \o lists[j]
      BY <1>5, <3>1 DEF Unrolls
    <3> HIDE DEF Q
    <3> QED
      BY <1>4, <2>1, <3>1, <3>2
  <2>4. outer \in Lists
    BY <1>3, <1>4 DEF Lists
  <2>5. Unrolls(Q, outer) /\ R[m] = Q[Len(outer)]
    <3> HIDE DEF Q
    <3> QED
      BY <1>3, <1>4, <2>1, <2>2, <2>3 DEF Unrolls
  <2> QED
    BY <2>4, <2>5 DEF Unrolled
<1>9. Listed(items) \in Seq(AnItem) /\ R[m] \o Listed(items) = Append(s, Bracket("]"))
  <2> DEFINE a == << Bracket("[") >>
             b == << Bracket("]") >>
  <2>1. a \in Seq(AnItem) /\ b \in Seq(AnItem)
    BY BracketType
  <2>2. Append(R[m], Bracket("[")) = R[m] \o a
    BY <1>6, BracketType, AppendIsConcat
  <2>3. a \o items \in Seq(AnItem) /\ R[m] \o a \in Seq(AnItem) /\ (R[m] \o a) \o items \in Seq(AnItem)
    BY <1>1, <1>6, <2>1, ConcatProperties
  <2>4. Append(s, Bracket("]")) = ((R[m] \o a) \o items) \o b
    BY <1>7, <2>2, <2>3, BracketType, AppendIsConcat
  <2> HIDE DEF a, b
  <2>5. (R[m] \o a) \o items = R[m] \o (a \o items)
    BY <1>1, <1>6, <2>1, ItemsAssociate
  <2>6. (R[m] \o (a \o items)) \o b = R[m] \o ((a \o items) \o b)
    BY <1>6, <2>1, <2>3, ItemsAssociate
  <2>7. (a \o items) \o b \in Seq(AnItem)
    BY <2>1, <2>3, ConcatProperties
  <2>8. Listed(items) = (a \o items) \o b
    BY DEF Listed, a, b
  <2> QED
    BY <2>4, <2>5, <2>6, <2>7, <2>8
<1> QED
  BY <1>8, <1>9, UnrolledPush
-------------------------------------------------------------------------------
Tokens == AToken \cup {Blank}

ReaderType ==
  /\ text \in Seq(Char) /\ pos \in 1 .. Len(text) + 1
  /\ cur \in Tokens /\ peek \in Tokens
  /\ open \in Lists /\ (ending => Nested)

(* Behind the end of the text there is only the end of the text.           *)
Lookahead ==
  /\ peek = Blank => cur = Blank
  /\ cur.kind = "eof" => peek.kind = "eof"
  /\ peek.kind = "eof" => lexer_next(text, pos).kind = "eof"

(* The atoms of the lists, of the two tokens and of what is still to be    *)
(* read are those of the text.                                             *)
Rest == Ahead(cur) \o (Ahead(peek) \o AtomsFrom(text)[pos])
Kept == \E s : Unrolled(open, s) /\ AtomsOf(s) \o Rest = AtomsFrom(text)[1]

(* The parser has tokens or, before parser_init, none.                     *)
LEMMA AheadType ==
  ASSUME NEW t \in Tokens
  PROVE  /\ Ahead(t) \in Seq(AnItem)
         /\ t.kind \in Kind \cup {"blank"} /\ (t.kind = "blank" <=> t = Blank)
<1>1. CASE t \in AToken
  <2>1. t.kind \in Kind
    BY <1>1 DEF AToken
  <2>2. t.kind # "blank" /\ Blank.kind = "blank"
    BY <2>1 DEF Kind, Atoms, Blank
  <2> QED
    BY <1>1, <2>1, <2>2, ItemType
<1>2. CASE t = Blank
  BY <1>2 DEF Blank, Ahead, Atoms
<1> QED
  BY <1>1, <1>2 DEF Tokens

(* advance keeps the tokens in step with the lexer, and what it takes from *)
(* cur is all that the rest loses.                                         *)
LEMMA AdvanceKeeps ==
  ASSUME ReaderType, Lookahead, advance, text' = text
  PROVE  /\ pos' \in 1 .. Len(text') + 1 /\ cur' \in Tokens /\ peek' \in Tokens
         /\ Lookahead'
         /\ Rest' \in Seq(AnItem) /\ Rest = Ahead(cur) \o Rest'
<1>1. PICK t : t = lexer_next(text, pos)
  OBVIOUS
<1>2. t.kind # "never" /\ cur' = peek /\ peek' = t /\ pos' = t.next
  BY <1>1 DEF advance
<1>3. /\ t \in AToken /\ t.next \in 1 .. Len(text) + 1
      /\ t.kind = "eof" => lexer_next(text, t.next).kind = "eof"
  BY <1>1, LexerAdvances DEF Advances, ReaderType
<1>4. t \in Tokens /\ t # Blank
  BY <1>3, AheadType DEF Tokens, AToken, Kind, Atoms, Blank
<1>5. Lookahead'
  <2>1. peek'.kind = "eof" => lexer_next(text', pos').kind = "eof"
    BY <1>2, <1>3
  <2>2. cur'.kind = "eof" => peek'.kind = "eof"
    BY <1>1, <1>2 DEF Lookahead
  <2>3. peek' # Blank
    BY <1>2, <1>4
  <2> QED
    BY <2>1, <2>2, <2>3 DEF Lookahead
<1> DEFINE A == AtomsFrom(text)[pos]
           B == AtomsFrom(text)[t.next]
<1>6. Ahead(cur) \in Seq(AnItem) /\ Ahead(peek) \in Seq(AnItem) /\ Ahead(t) \in Seq(AnItem)
  BY <1>4, AheadType DEF ReaderType
<1>7. B \in Seq(AnItem)
  BY <1>3, AtomsFromType DEF ReaderType
<1>8. A = Ahead(t) \o B
  <2>1. A = IF t.kind \in {"eof", "never"} THEN << >> ELSE Ahead(t) \o B
    BY <1>1, AtomsFromIs DEF ReaderType
  <2>2. CASE t.kind = "eof"
    <3>1. Ahead(t) = << >>
      BY <2>2 DEF Ahead, Atoms
    <3>2. B = << >>
      BY <1>3, <2>2, AtomsFromIs DEF ReaderType
    <3>3. << >> \o << >> = << >>
      OBVIOUS
    <3> QED
      BY <2>1, <2>2, <3>1, <3>2, <3>3
  <2> QED
    BY <1>2, <2>1, <2>2
<1>9. Rest' = Ahead(peek) \o (Ahead(t) \o B)
  BY <1>2 DEF Rest
<1>10. Rest = Ahead(cur) \o (Ahead(peek) \o A)
  BY DEF Rest
<1>11. Rest' \in Seq(AnItem)
  <2> HIDE DEF B
  <2>1. Ahead(t) \o B \in Seq(AnItem)
    BY <1>6, <1>7, ConcatProperties
  <2> QED
    BY <1>6, <1>9, <2>1, ConcatProperties
<1> HIDE DEF A, B
<1> QED
  BY <1>2, <1>3, <1>4, <1>5, <1>8, <1>9, <1>10, <1>11 DEF ReaderType

(* Nothing is lost of the rest when cur is no atom.                        *)
LEMMA SilentAdvance ==
  ASSUME ReaderType, Lookahead, advance, text' = text, cur.kind \notin Atoms
  PROVE  Rest' = Rest
<1>1. Rest' \in Seq(AnItem) /\ Rest = Ahead(cur) \o Rest'
  BY AdvanceKeeps
<1>2. Ahead(cur) = << >>
  BY DEF Ahead
<1>3. << >> \o Rest' = Rest'
  BY <1>1, ConcatEmptySeq
<1> QED
  BY <1>1, <1>2, <1>3

(* A text as it is printed, one item at a time.                            *)
Shown(x) == IF x.kind = "string" THEN <<Quote>> \o x.lexeme \o <<Quote>> ELSE x.lexeme
AProgram == Seq([kind : STRING, lexeme : Seq(STRING)])
PrintedUpto(f, p) ==
  /\ f[0] = << >>
  /\ \A n \in 1 .. Len(p) : f[n] = f[n - 1] \o Shown(p[n]) \o << White >>

(* A program is made of items.                                             *)
LEMMA ProgramType ==
  ASSUME NEW p \in AProgram
  PROVE  Len(p) \in Nat /\ \A n \in 1 .. Len(p) : p[n] \in [kind : STRING, lexeme : Seq(STRING)]
  BY LenProperties, ElementOfSeq, Zenon DEF AProgram

(* A space and a quote are texts.                                          *)
LEMMA MarkType == << White >> \in Seq(Char) /\ << Quote >> \in Seq(Char)
<1>1. White \in Char /\ Quote \in Char
  BY Classes DEF Char, Other
<1>2. \A c \in Char : <<c>> \in Seq(Char)
  OBVIOUS
<1> QED
  BY <1>1, <1>2, Zenon

(* An item is printed as a text.                                           *)
LEMMA PrintType ==
  ASSUME NEW x \in [kind : STRING, lexeme : Seq(STRING)]
  PROVE  Shown(x) \in Seq(Char)
<1>1. x.lexeme \in Seq(Char)
  <2>1. x.lexeme \in Seq(STRING) /\ STRING \subseteq Char
    BY DEF Char
  <2> QED
    BY <2>1, SeqMonotonic
<1>2. <<Quote>> \o x.lexeme \in Seq(Char)
  BY <1>1, MarkType, ConcatProperties
<1>3. (<<Quote>> \o x.lexeme) \o <<Quote>> \in Seq(Char)
  BY <1>2, MarkType, ConcatProperties
<1> QED
  BY <1>1, <1>3 DEF Shown

(* The recursion that Printed stands for has a solution, for every         *)
(* program.                                                                *)
LEMMA PrintedIs ==
  ASSUME NEW p \in AProgram
  PROVE  \E f : PrintedUpto(f, p) /\ Printed(p) = f[Len(p)]
<1> DEFINE N == Len(p)
           Rec(f) == [n \in 0 .. N |->
             IF n = 0 THEN << >>
             ELSE f[n - 1] \o (IF p[n].kind = "string" THEN <<Quote>> \o p[n].lexeme \o <<Quote>>
                                                       ELSE p[n].lexeme) \o << White >>]
           join == [x \in (1 .. N) \X Seq(Char) |-> x[2] \o Shown(p[x[1]]) \o << White >>]
<1>1. N \in Nat /\ << >> \in Seq(Char)
  <2>1. N \in Nat
    BY ProgramType
  <2> QED
    BY <2>1
<1>2. \A n \in 1 .. N : Shown(p[n]) \in Seq(Char)
  BY PrintType, ProgramType
<1>3. join \in [(1 .. N) \X Seq(Char) -> Seq(Char)]
  <2> HIDE DEF N
  <2>1. ASSUME NEW x \in (1 .. N) \X Seq(Char)
        PROVE  x[2] \o Shown(p[x[1]]) \o << White >> \in Seq(Char)
    <3>1. Shown(p[x[1]]) \in Seq(Char) /\ x[2] \in Seq(Char)
      BY <1>2
    <3>2. x[2] \o Shown(p[x[1]]) \in Seq(Char)
      BY <3>1, ConcatProperties
    <3> QED
      BY MarkType, <3>2, ConcatProperties
  <2> QED
    BY <2>1
<1>4. PICK f \in [0 .. N -> Seq(Char)] : Climbs(f, N, << >>, join)
  <2> HIDE DEF N, join
  <2> QED
    BY <1>1, <1>3, Upto
<1>5. ASSUME NEW n \in 1 .. N
      PROVE  f[n] = f[n - 1] \o Shown(p[n]) \o << White >>
  <2>1. f[n - 1] \in Seq(Char)
    <3>1. n - 1 \in 0 .. N
      BY <1>1
    <3> HIDE DEF N
    <3> QED
      BY <3>1
  <2>2. join[<<n, f[n - 1]>>] = f[n - 1] \o Shown(p[n]) \o << White >>
    <3> HIDE DEF N
    <3> QED
      BY <2>1
  <2> HIDE DEF N, join
  <2> QED
    BY <1>4, <2>2 DEF Climbs
<1>6. \E g : g = Rec(g)
  <2> HIDE DEF N, join
  <2>1. f = [n \in 0 .. N |-> f[n]]
    OBVIOUS
  <2>2. \A n \in 0 .. N : n = 0 \/ n \in 1 .. N
    BY <1>1
  <2>3. \A n \in 0 .. N : f[n] = Rec(f)[n]
    BY <1>4, <1>5, <2>2 DEF Climbs, Shown
  <2>4. f = Rec(f)
    BY <2>1, <2>3
  <2> QED
    BY <2>4, Zenon
<1> DEFINE upto == CHOOSE g : g = Rec(g)
<1>7. upto = Rec(upto)
  BY <1>6, Zenon
<1>8. Printed(p) = upto[Len(p)]
  BY Zenon DEF Printed, White
<1> HIDE DEF upto
<1>9. PrintedUpto(upto, p)
  <2>1. \A n \in 0 .. N : upto[n] = Rec(upto)[n]
    BY <1>7, Zenon
  <2>2. 0 \in 0 .. N /\ \A n \in 1 .. N : n \in 0 .. N /\ n # 0
    BY <1>1
  <2>3. upto[0] = << >>
    BY <2>1, <2>2
  <2>4. ASSUME NEW n \in 1 .. N PROVE upto[n] = upto[n - 1] \o Shown(p[n]) \o << White >>
    BY <2>1, <2>2 DEF Shown
  <2> QED
    BY <2>3, <2>4 DEF PrintedUpto
<1> QED
  BY <1>8, <1>9, Zenon

(* What is printed of the first items is a text.                           *)
LEMMA PrintedType ==
  ASSUME NEW p \in AProgram, NEW f, PrintedUpto(f, p)
  PROVE  \A n \in 0 .. Len(p) : f[n] \in Seq(Char)
<1> DEFINE P == {n \in 0 .. Len(p) : f[n] \in Seq(Char)}
<1>1. 0 \in P /\ Len(p) \in Nat
  <2>1. f[0] = << >> /\ << >> \in Seq(Char) /\ Len(p) \in Nat
    <3>1. << >> \in Seq(Char)
      OBVIOUS
    <3> QED
      BY <3>1, ProgramType, Zenon DEF PrintedUpto
  <2>2. f[0] \in Seq(Char) /\ 0 \in 0 .. Len(p)
    <3>1. f[0] \in Seq(Char)
      BY <2>1, Zenon
    <3> QED
      BY <2>1, <3>1
  <2> QED
    BY <2>1, <2>2
<1>2. ASSUME NEW n \in 1 .. Len(p), n - 1 \in P PROVE n \in P
  <2>1. f[n - 1] \in Seq(Char) /\ n \in 0 .. Len(p)
    BY <1>1, <1>2
  <2>2. f[n - 1] \o Shown(p[n]) \in Seq(Char)
    BY <2>1, PrintType, ProgramType, ConcatProperties
  <2>3. f[n - 1] \o Shown(p[n]) \o << White >> \in Seq(Char)
    BY <2>2, MarkType, ConcatProperties
  <2>4. f[n] = f[n - 1] \o Shown(p[n]) \o << White >>
    BY DEF PrintedUpto
  <2> QED
    BY <2>1, <2>3, <2>4
<1>3. \A n \in 0 .. Len(p) : n \in P
  <2> HIDE DEF P
  <2> QED
    BY <1>1, <1>2, Climb
<1> QED
  BY <1>3
-------------------------------------------------------------------------------
ReaderInv == ReaderType /\ Lookahead /\ Kept

(* Every text the reader begins with is made of characters.                *)
LEMMA TextType ==
  ASSUME Init
  PROVE  text \in Seq(Char)
<1>1. CASE text \in Texts
  <2>1. text \in Seq(STRING) /\ STRING \subseteq Char
    BY <1>1, ReaderAssumption DEF Char
  <2> QED
    BY <2>1, SeqMonotonic
<1>2. ASSUME NEW p \in Programs, text = Printed(p) PROVE text \in Seq(Char)
  <2>1. p \in AProgram
    BY ReaderAssumption DEF AProgram
  <2>2. PICK f : PrintedUpto(f, p) /\ Printed(p) = f[Len(p)]
    BY <2>1, PrintedIs
  <2>3. Len(p) \in 0 .. Len(p)
    BY <2>1, ProgramType
  <2> QED
    BY <1>2, <2>1, <2>2, <2>3, PrintedType
<1> QED
  BY <1>1, <1>2 DEF Init

(* parse_toplevel's empty list unrolls to no items.                        *)
LEMMA UnrolledNothing == << << >> >> \in Lists /\ Unrolled(<< << >> >>, << >>)
<1> DEFINE e == << >>
           lists == <<e>>
           R == [j \in 1 .. 1 |-> e]
<1>1. e \in Seq(AnItem) /\ lists \in Seq(Seq(AnItem)) /\ lists # << >>
  OBVIOUS
<1>2. Len(lists) = 1 /\ lists[1] = e
  OBVIOUS
<1>3. R \in [1 .. 1 -> Seq(AnItem)] /\ R[1] = e
  <2> HIDE DEF e
  <2> QED
    BY <1>1
<1>4. 2 .. 1 = {}
  OBVIOUS
<1> HIDE DEF e, lists, R
<1>5. Unrolls(R, lists) /\ e = R[Len(lists)]
  BY <1>2, <1>3, <1>4 DEF Unrolls
<1>6. lists \in Lists /\ Unrolled(lists, e)
  BY <1>1, <1>5 DEF Lists, Unrolled
<1> QED
  BY <1>6 DEF lists, e

(* The invariant holds when the parser is set up ...                       *)
LEMMA ReaderInit ==
  ASSUME Init
  PROVE  ReaderInv
<1>1. text \in Seq(Char)
  BY TextType
<1>2. pos = 1 /\ cur = Blank /\ peek = Blank /\ open = << << >> >> /\ ending = FALSE
  BY DEF Init
<1>3. 1 \in 1 .. Len(text) + 1
  BY <1>1
<1>4. ReaderType /\ Lookahead
  BY <1>1, <1>2, <1>3, UnrolledNothing DEF ReaderType, Lookahead, Tokens, Blank
<1>5. Rest = AtomsFrom(text)[1] /\ Rest \in Seq(AnItem)
  <2>1. AtomsFrom(text)[1] \in Seq(AnItem)
    BY <1>1, <1>3, AtomsFromType
  <2>2. Ahead(Blank) = << >>
    BY DEF Ahead, Blank, Atoms
  <2>3. << >> \o AtomsFrom(text)[1] = AtomsFrom(text)[1]
    BY <2>1, ConcatEmptySeq
  <2> QED
    BY <1>2, <2>1, <2>2, <2>3 DEF Rest
<1>6. AtomsOf(<< >>) \o Rest = AtomsFrom(text)[1]
  BY <1>5, AtomsOfEmpty, ConcatEmptySeq
<1>7. Unrolled(open, << >>)
  BY <1>2, UnrolledNothing
<1>8. Kept
  BY <1>6, <1>7, Zenon DEF Kept
<1> QED
  BY <1>4, <1>8 DEF ReaderInv

(* ... and every step of the parser keeps it.                              *)
LEMMA ReaderStep ==
  ASSUME ReaderInv, [Next]_vars
  PROVE  ReaderInv'
<1>1. PICK s : Unrolled(open, s) /\ AtomsOf(s) \o Rest = AtomsFrom(text)[1]
  BY DEF ReaderInv, Kept
<1>2. ReaderType /\ Lookahead /\ open \in Lists /\ s \in Seq(AnItem)
  BY <1>1, UnrolledType DEF ReaderInv, ReaderType
<1>3. cur \in Tokens /\ cur.kind \in Kind \cup {"blank"} /\ (cur.kind = "blank" <=> cur = Blank)
  BY <1>2, AheadType DEF ReaderType
<1>4. ASSUME advance, text' = text
      PROVE  /\ pos' \in 1 .. Len(text') + 1 /\ cur' \in Tokens /\ peek' \in Tokens
             /\ text' \in Seq(Char) /\ Lookahead'
             /\ Rest' \in Seq(AnItem) /\ Rest = Ahead(cur) \o Rest'
             /\ (cur.kind \notin Atoms => Rest' = Rest)
  BY <1>2, <1>4, AdvanceKeeps, SilentAdvance DEF ReaderType
<1>5. ASSUME text' = text, NEW r, Unrolled(open', r), AtomsOf(r) = AtomsOf(s), Rest' = Rest
      PROVE  Kept'
  <2>1. AtomsOf(r) \o Rest' = AtomsFrom(text')[1]
    BY <1>1, <1>5
  <2> QED
    BY <1>5, <2>1, Zenon DEF Kept
<1>6. CASE Prime
  <2>1. /\ text' = text /\ open' = open /\ ending' = ending /\ advance
        /\ cur.kind \notin Atoms
    BY <1>6, <1>3 DEF Prime, Blank, Atoms
  <2>2. Kept'
    BY <1>1, <1>4, <1>5, <2>1
  <2>3. ReaderType'
    BY <1>2, <1>4, <2>1 DEF ReaderType, Nested
  <2> QED
    BY <1>4, <2>1, <2>2, <2>3 DEF ReaderInv
<1>7. CASE Open
  <2>1. /\ text' = text /\ open' = Append(open, << >>) /\ ending' = ending /\ ~ ending
        /\ advance /\ cur.kind \notin Atoms
    BY <1>7 DEF Open, Atoms
  <2>2. open' \in Lists /\ Unrolled(open', Append(s, Bracket("[")))
    BY <1>1, <1>2, <2>1, UnrolledOpen
  <2>3. AtomsOf(Append(s, Bracket("["))) = AtomsOf(s)
    BY <1>2, BracketType, AtomsOfAppend DEF Bracket, Atoms
  <2>4. Kept'
    BY <1>4, <1>5, <2>1, <2>2, <2>3
  <2>5. ReaderType'
    BY <1>4, <2>1, <2>2 DEF ReaderType
  <2> QED
    BY <1>4, <2>1, <2>4, <2>5 DEF ReaderInv
<1>8. CASE Atom
  <2>1. /\ text' = text /\ open' = Push(open, << Item(cur) >>) /\ ending' = ending /\ ~ ending
        /\ advance /\ cur.kind \in Atoms
    BY <1>8 DEF Atom
  <2>2. cur \in AToken
    BY <1>3, <2>1 DEF Tokens, Blank, Atoms
  <2>3. Item(cur) \in AnItem /\ Item(cur).kind = cur.kind /\ << Item(cur) >> \in Seq(AnItem)
    BY <2>2, ItemType
  <2>4. s \o << Item(cur) >> = Append(s, Item(cur))
    BY <1>2, <2>3, AppendIsConcat
  <2>5. open' \in Lists /\ Unrolled(open', Append(s, Item(cur)))
    BY <1>1, <1>2, <2>1, <2>3, <2>4, UnrolledPush
  <2>6. AtomsOf(s) \in Seq(AnItem) /\ AtomsOf(Append(s, Item(cur))) = Append(AtomsOf(s), Item(cur))
    BY <1>2, <2>1, <2>3, AtomsOfAppend
  <2>7. Append(AtomsOf(s), Item(cur)) = AtomsOf(s) \o Ahead(cur)
    BY <2>1, <2>3, <2>6, AppendIsConcat DEF Ahead
  <2>8. (AtomsOf(s) \o Ahead(cur)) \o Rest' = AtomsOf(s) \o (Ahead(cur) \o Rest')
    <3>1. Ahead(cur) \in Seq(AnItem) /\ Rest' \in Seq(AnItem)
      BY <1>3, <1>4, <2>1, AheadType
    <3> QED
      BY <2>6, <3>1, ItemsAssociate
  <2>9. AtomsOf(Append(s, Item(cur))) \o Rest' = AtomsFrom(text')[1]
    BY <1>1, <1>4, <2>1, <2>6, <2>7, <2>8
  <2>10. Kept'
    BY <2>5, <2>9, Zenon DEF Kept
  <2>11. ReaderType'
    BY <1>4, <2>1, <2>5 DEF ReaderType
  <2> QED
    BY <1>4, <2>1, <2>10, <2>11 DEF ReaderInv
<1>9. CASE ListEnds
  <2>1. /\ text' = text /\ pos' = pos /\ cur' = cur /\ peek' = peek /\ open' = open
        /\ Nested
    BY <1>9 DEF ListEnds
  <2>2. Lookahead' /\ ReaderType' /\ Rest' = Rest
    BY <1>2, <2>1 DEF Lookahead, ReaderType, Rest, Nested
  <2>3. Kept'
    BY <1>1, <1>5, <2>1, <2>2
  <2> QED
    BY <2>2, <2>3 DEF ReaderInv
<1>10. CASE Cut
  <2>1. /\ text' = text /\ open' = open /\ Nested /\ advance
        /\ cur.kind \notin Atoms
    BY <1>10 DEF Cut, Atoms
  <2>2. Kept'
    BY <1>1, <1>4, <1>5, <2>1
  <2>3. ReaderType'
    BY <1>2, <1>4, <2>1 DEF ReaderType, Nested
  <2> QED
    BY <1>4, <2>1, <2>2, <2>3 DEF ReaderInv
<1>11. CASE ListReturns
  <2>1. /\ text' = text /\ open' = Push(Outer, Listed(Innermost)) /\ ending' = FALSE /\ ending
        /\ (cur.kind = "]" /\ advance) \/ (pos' = pos /\ cur' = cur /\ peek' = peek)
    <3>1. (cur.kind = "]" /\ advance) \/ (pos' = pos /\ cur' = cur /\ peek' = peek)
      BY <1>11, Zenon DEF ListReturns
    <3> QED
      BY <1>11, <3>1 DEF ListReturns
  <2>2. Len(open) > 1
    BY <1>2, <2>1 DEF ReaderType, Nested
  <2>3. open' \in Lists /\ Unrolled(open', Append(s, Bracket("]")))
    BY <1>1, <1>2, <2>1, <2>2, UnrolledReturn DEF Outer, Innermost
  <2>4. AtomsOf(Append(s, Bracket("]"))) = AtomsOf(s)
    BY <1>2, BracketType, AtomsOfAppend DEF Bracket, Atoms
  <2>5. /\ pos' \in 1 .. Len(text') + 1 /\ cur' \in Tokens /\ peek' \in Tokens
        /\ text' \in Seq(Char) /\ Lookahead' /\ Rest' = Rest
    <3>1. CASE cur.kind = "]" /\ advance
      BY <1>4, <2>1, <3>1 DEF Atoms
    <3>2. CASE pos' = pos /\ cur' = cur /\ peek' = peek
      BY <1>2, <2>1, <3>2 DEF ReaderType, Lookahead, Rest
    <3> QED
      BY <2>1, <3>1, <3>2
  <2>6. Kept'
    BY <1>5, <2>1, <2>3, <2>4, <2>5
  <2>7. ReaderType'
    BY <2>1, <2>3, <2>5 DEF ReaderType
  <2> QED
    BY <2>5, <2>6, <2>7 DEF ReaderInv
<1>12. CASE Drop
  <2>1. /\ text' = text /\ open' = open /\ ending' = ending /\ advance
        /\ cur.kind \notin Atoms
    BY <1>12 DEF Drop, Atoms
  <2>2. Kept'
    BY <1>1, <1>4, <1>5, <2>1
  <2>3. ReaderType'
    BY <1>2, <1>4, <2>1 DEF ReaderType, Nested
  <2> QED
    BY <1>4, <2>1, <2>2, <2>3 DEF ReaderInv
<1>13. CASE UNCHANGED vars
  BY <1>13 DEF ReaderInv, ReaderType, Lookahead, Kept, Rest, Nested, vars
<1> QED
  BY <1>6, <1>7, <1>8, <1>9, <1>10, <1>11, <1>12, <1>13 DEF Next

(* At every moment the atoms of the lists, of the two tokens and of the    *)
(* text that is still to be read are those of the text, in order.          *)
THEOREM ReaderInvariant == Spec => []ReaderInv
  BY ReaderInit, ReaderStep, PTL DEF Spec

(* Every atom of a text is in its program, for every text.                 *)
THEOREM NothingLostHolds == Spec => []NothingLost
<1>1. ASSUME ReaderInv, Done PROVE AtomsOf(open[1]) = AtomsFrom(text)[1]
  <2>1. PICK s : Unrolled(open, s) /\ AtomsOf(s) \o Rest = AtomsFrom(text)[1]
    BY <1>1 DEF ReaderInv, Kept
  <2>2. open \in Lists /\ s \in Seq(AnItem)
    BY <1>1, <2>1, UnrolledType DEF ReaderInv, ReaderType
  <2>3. s = open[1]
    <3>1. Len(open) = 1
      <4>1. PICK n \in Nat : n = Len(open) /\ n # 0
        BY <2>2, ListsType
      <4>2. ~ Len(open) > 1
        BY <1>1, Zenon DEF Done, Nested
      <4> QED
        BY <4>1, <4>2
    <3> QED
      BY <2>1, <2>2, <3>1, UnrolledType
  <2>4. Rest = << >>
    <3>1. cur.kind = "eof" /\ peek.kind = "eof" /\ lexer_next(text, pos).kind = "eof"
      BY <1>1 DEF ReaderInv, Lookahead, Done
    <3>2. Ahead(cur) = << >> /\ Ahead(peek) = << >>
      BY <3>1 DEF Ahead, Atoms
    <3>3. AtomsFrom(text)[pos] = << >>
      BY <1>1, <3>1, AtomsFromIs DEF ReaderInv, ReaderType
    <3>4. << >> \o << >> = << >>
      OBVIOUS
    <3> QED
      BY <3>2, <3>3, <3>4 DEF Rest
  <2>5. AtomsOf(s) \in Seq(AnItem)
    BY <2>2, BracketType, AtomsOfAppend
  <2>6. AtomsOf(s) \o << >> = AtomsOf(s)
    BY <2>5, ConcatEmptySeq
  <2> QED
    BY <2>1, <2>3, <2>4, <2>6
<1>2. ReaderInv => NothingLost
  BY <1>1 DEF NothingLost
<1> QED
  BY <1>2, ReaderInvariant, PTL
-------------------------------------------------------------------------------
(* The characters s after position b of a text, and one more.              *)
Written(src, b, s) == b + Len(s) < Len(src) /\ \A i \in 1 .. Len(s) : src[b + i] = s[i]

(* What At reads of a text that has s behind b.                            *)
LEMMA WrittenAt ==
  ASSUME NEW src \in Seq(Char), NEW b \in Nat, NEW s \in Seq(Char), Written(src, b, s)
  PROVE  /\ \A i \in 1 .. Len(s) : At(src, b + i) = s[i] /\ s[i] \in Char
         /\ At(src, b + Len(s) + 1) = src[b + Len(s) + 1]
         /\ Len(s) \in Nat /\ Len(src) \in Nat /\ b + Len(s) + 1 \in 1 .. Len(src)
         /\ SubSeq(src, b + 1, b + Len(s)) = s
<1>1. Len(s) \in Nat /\ Len(src) \in Nat /\ b + Len(s) + 1 \in 1 .. Len(src)
  BY DEF Written
<1>2. ASSUME NEW i \in 1 .. Len(s) PROVE At(src, b + i) = s[i] /\ s[i] \in Char
  <2>1. b + i <= Len(src) /\ src[b + i] = s[i]
    BY <1>1 DEF Written
  <2> QED
    BY <2>1 DEF At
<1>3. At(src, b + Len(s) + 1) = src[b + Len(s) + 1]
  BY <1>1 DEF At
<1>4. SubSeq(src, b + 1, b + Len(s)) = s
  <2> DEFINE r == SubSeq(src, b + 1, b + Len(s))
  <2>1. b + 1 \in Int /\ b + Len(s) \in Int /\ \A i \in b + 1 .. b + Len(s) : src[i] \in Char
    BY <1>1
  <2>2. /\ r \in Seq(Char) /\ Len(r) = IF b + 1 <= b + Len(s) THEN b + Len(s) - (b + 1) + 1 ELSE 0
        /\ \A i \in 1 .. b + Len(s) - (b + 1) + 1 : r[i] = src[b + 1 + i - 1]
    BY <2>1, SubSeqProperties
  <2> HIDE DEF r
  <2>3. Len(r) = Len(s) /\ b + Len(s) - (b + 1) + 1 = Len(s)
    BY <1>1, <2>2
  <2>4. ASSUME NEW i \in 1 .. Len(s) PROVE r[i] = s[i]
    <3>1. b + 1 + i - 1 = b + i
      OBVIOUS
    <3> QED
      BY <2>2, <2>3, <3>1 DEF Written
  <2>5. r = s
    BY <2>2, <2>3, <2>4, SeqEqual
  <2> QED
    BY <2>5 DEF r
<1> QED
  BY <1>1, <1>2, <1>3, <1>4

(* The space before an item is skipped, and the item is not.               *)
LEMMA SkipSpace ==
  ASSUME NEW src \in Seq(Char), NEW b \in Nat, NEW q \in 1 .. Len(src) + 1,
         q = b + 1 \/ (q = b /\ At(src, b) = White),
         b + 1 \in 1 .. Len(src) + 1, At(src, b + 1) \notin Space, At(src, b + 1) # Semicolon
  PROVE  Skip(src, q) = b + 1
<1>1. /\ At(src, b + 1) \notin Space /\ At(src, b + 1) # Semicolon
      /\ b + 1 \in q .. Len(src) + 1 /\ b + 1 \in 1 .. Len(src) + 1 /\ Len(src) \in Nat
  OBVIOUS
<1>2. CASE q = b + 1
  <2>1. ~ InComment(src, q, q)
    <3>1. \A s \in q .. q : s = q
      OBVIOUS
    <3> QED
      BY <1>1, <1>2, <3>1, Zenon DEF InComment, Semicolon
  <2>2. ~ Skipped(src, q, q)
    BY <1>1, <1>2, <2>1 DEF Skipped
  <2>3. q \in q .. Len(src) + 1 /\ q .. q - 1 = {}
    OBVIOUS
  <2> QED
    BY <1>2, <2>2, <2>3, SkipUnique
<1>3. CASE q = b /\ At(src, b) = White
  <2>1. At(src, b) = White /\ b \in 1 .. Len(src) + 1
    BY <1>1, <1>3 DEF At
  <2>2. ~ InComment(src, b, b + 1)
    <3>1. \A s \in b .. b + 1 : s = b \/ s = b + 1
      OBVIOUS
    <3>2. At(src, b) # Semicolon
      BY <2>1, Classes
    <3> QED
      BY <1>1, <3>1, <3>2, Zenon DEF InComment, Semicolon
  <2>3. ~ Skipped(src, b, b + 1)
    BY <1>1, <2>2, Zenon DEF Skipped
  <2>4. Skipped(src, b, b)
    BY <2>1, Classes DEF Skipped
  <2>5. \A r \in b .. b + 1 - 1 : r = b
    OBVIOUS
  <2>6. \A r \in b .. b + 1 - 1 : Skipped(src, b, r)
    BY <2>4, <2>5
  <2>7. b + 1 \in b .. Len(src) + 1
    BY <1>1, <1>3
  <2>8. Skip(src, b) = b + 1
    BY <2>1, <2>3, <2>6, <2>7, SkipUnique
  <2> QED
    BY <1>3, <2>8
<1> QED
  BY <1>2, <1>3

(* A string between quotes ends where it would end by itself.              *)
LEMMA StringShift ==
  ASSUME NEW src \in Seq(Char), NEW c \in Nat, NEW s \in Seq(Char), Written(src, c, s),
         src[c + Len(s) + 1] = Quote
  PROVE  \A q \in 1 .. Len(s) + 1 :
           StringEnd(s, q) = Len(s) + 1 => StringEnd(src, c + q) = c + Len(s) + 1
<1> DEFINE L == Len(s)
           Bad == {q \in 1 .. L + 1 : StringEnd(s, q) = L + 1 /\ StringEnd(src, c + q) # c + L + 1}
<1> SUFFICES ASSUME Bad # {} PROVE FALSE
  BY Zenon
<1>1. PICK q \in Bad : \A r \in Bad : r <= q
  <2>1. L + 1 \in Nat /\ Bad \in SUBSET (0 .. L + 1)
    OBVIOUS
  <2> HIDE DEF Bad, L
  <2> QED
    BY <2>1, Greatest
<1>2. q \in 1 .. L + 1 /\ StringEnd(s, q) = L + 1 /\ StringEnd(src, c + q) # c + L + 1
  OBVIOUS
<1> HIDE DEF Bad
<1>3. /\ \A i \in 1 .. L : At(src, c + i) = s[i] /\ At(s, i) = s[i]
      /\ At(src, c + L + 1) = Quote /\ At(s, L + 1) = EOT /\ c + q \in 1 .. Len(src) + 1 /\ L \in Nat
  BY <1>2, WrittenAt DEF At
<1>4. CASE q = L + 1
  <2>1. StringStops(src, c + q) /\ c + q = c + L + 1
    BY <1>3, <1>4 DEF StringStops
  <2>2. StringEnd(src, c + q) = c + q
    BY <1>3, <2>1, StringEndIs
  <2> QED
    BY <1>2, <2>1, <2>2
<1>5. CASE q # L + 1
  <2>1. q \in 1 .. L /\ q + 1 \in 1 .. L + 1
    BY <1>2, <1>3, <1>5
  <2>2. At(src, c + q) = At(s, q)
    BY <1>3, <2>1
  <2>3. ~ StringStops(s, q)
    BY <1>2, <1>5, StringEndIs
  <2>4. At(s, q) \notin {Quote, EOT} /\ (At(s, q) = "\\" => At(s, q + 1) # EOT)
    BY <2>3 DEF StringStops
  <2>5. ASSUME NEW r \in {q + 1, q + 2}, r \in 1 .. L + 1, StringEnd(s, q) = StringEnd(s, r),
               StringEnd(src, c + q) = StringEnd(src, c + r)
        PROVE  FALSE
    <3>1. r \in Bad
      BY <1>2, <2>5 DEF Bad
    <3>2. ~ r <= q
      BY <2>1, <2>5
    <3> QED
      BY <1>1, <3>1, <3>2
  <2>6. CASE At(s, q) = "\\"
    <3>1. q + 1 \in 1 .. L
      BY <1>3, <2>1, <2>4, <2>6
    <3>2. c + q + 1 = c + (q + 1) /\ c + q + 2 = c + (q + 2) /\ q + 2 \in 1 .. L + 1
      BY <1>2, <1>3, <3>1
    <3>3. At(src, c + q + 1) = At(s, q + 1)
      BY <1>3, <3>1, <3>2
    <3>4. ~ StringStops(src, c + q)
      BY <2>2, <2>4, <2>6, <3>3 DEF StringStops
    <3>5. StringEnd(s, q) = StringEnd(s, q + 2)
      BY <1>2, <2>3, <2>6, StringEndIs
    <3>6. StringEnd(src, c + q) = StringEnd(src, c + q + 2)
      BY <1>3, <2>2, <2>6, <3>4, StringEndIs
    <3> QED
      BY <2>5, <3>2, <3>5, <3>6
  <2>7. CASE At(s, q) # "\\"
    <3>1. ~ StringStops(src, c + q)
      BY <2>2, <2>4, <2>7 DEF StringStops
    <3>2. StringEnd(s, q) = StringEnd(s, q + 1)
      BY <1>2, <2>3, <2>7, StringEndIs
    <3>3. StringEnd(src, c + q) = StringEnd(src, c + q + 1)
      BY <1>3, <2>2, <2>7, <3>1, StringEndIs
    <3>4. c + q + 1 = c + (q + 1)
      BY <2>1
    <3> QED
      BY <2>1, <2>5, <3>2, <3>3, <3>4
  <2> QED
    BY <2>6, <2>7
<1> QED
  BY <1>4, <1>5
-------------------------------------------------------------------------------
(* What lexer_next makes of the spelling of an item.                       *)
Read(kind, s, next) == [kind |-> kind, lexeme |-> s, next |-> next]

(* A bracket or a colon is read back ...                                   *)
LEMMA LexMark ==
  ASSUME NEW src \in Seq(Char), NEW b \in Nat, NEW q \in 1 .. Len(src) + 1,
         Skip(src, q) = b + 1, NEW c \in {"[", "]", ":"}, Written(src, b, <<c>>)
  PROVE  lexer_next(src, q) = Read(c, <<c>>, b + 1 + 1)
<1> DEFINE s == <<c>>
<1>1. s \in Seq(Char) /\ Len(s) = 1 /\ s[1] = c
  <2>1. c \in Char
    BY DEF Char, Other
  <2> QED
    BY <2>1
<1>2. At(src, b + 1) = c /\ SubSeq(src, b + 1, b + 1) = s
  <2>1. 1 \in 1 .. 1
    OBVIOUS
  <2>2. Written(src, b, s)
    OBVIOUS
  <2> HIDE DEF s
  <2>3. /\ \A i \in 1 .. Len(s) : At(src, b + i) = s[i]
        /\ SubSeq(src, b + 1, b + Len(s)) = s
    BY <1>1, <2>2, WrittenAt
  <2> QED
    BY <1>1, <2>1, <2>3
<1>3. lexer_next(src, q) = Token(src, c, b + 1, b + 1, b + 1 + 1)
  BY <1>2, LexerCases
<1> QED
  BY <1>2, <1>3 DEF Token, Read

(* ... an arrow ...                                                        *)
LEMMA LexArrow ==
  ASSUME NEW src \in Seq(Char), NEW b \in Nat, NEW q \in 1 .. Len(src) + 1,
         Skip(src, q) = b + 1, Written(src, b, <<"-", ">">>)
  PROVE  lexer_next(src, q) = Read("->", <<"-", ">">>, b + 2 + 1)
<1> DEFINE s == <<"-", ">">>
<1>1. src[b + 1] = "-" /\ src[b + 2] = ">" /\ b + 2 < Len(src)
  <2>1. Len(s) = 2 /\ s[1] = "-" /\ s[2] = ">" /\ 1 \in 1 .. 2 /\ 2 \in 1 .. 2
    OBVIOUS
  <2> HIDE DEF s
  <2> QED
    BY <2>1, Zenon DEF Written, s
<1>2. At(src, b + 1) = "-" /\ At(src, b + 1 + 1) = ">"
  <2>1. b + 1 + 1 = b + 2 /\ b + 1 <= Len(src) /\ b + 2 <= Len(src)
    BY <1>1
  <2> QED
    BY <1>1, <2>1 DEF At
<1>3. lexer_next(src, q) = Token(src, "->", b + 1, b + 1 + 1, b + 1 + 2)
  BY <1>2, LexerCases DEF ArrowStart
<1>4. SubSeq(src, b + 1, b + 2) = <<src[b + 1], src[b + 2]>>
  <2> DEFINE r == SubSeq(src, b + 1, b + 2)
             t == <<src[b + 1], src[b + 2]>>
  <2>1. b + 1 \in Int /\ b + 2 \in Int /\ \A i \in b + 1 .. b + 2 : src[i] \in Char
    BY <1>1
  <2>2. /\ r \in Seq(Char) /\ Len(r) = IF b + 1 <= b + 2 THEN b + 2 - (b + 1) + 1 ELSE 0
        /\ \A i \in 1 .. b + 2 - (b + 1) + 1 : r[i] = src[b + 1 + i - 1]
    BY <2>1, SubSeqProperties
  <2> HIDE DEF r
  <2>3. /\ b + 2 - (b + 1) + 1 = 2 /\ b + 1 <= b + 2 /\ b + 1 + 1 - 1 = b + 1 /\ b + 1 + 2 - 1 = b + 2
        /\ 1 \in 1 .. 2 /\ 2 \in 1 .. 2
    OBVIOUS
  <2>4. Len(r) = 2 /\ r[1] = src[b + 1] /\ r[2] = src[b + 2]
    BY <2>2, <2>3
  <2>5. t \in Seq(Char) /\ Len(t) = 2 /\ t[1] = src[b + 1] /\ t[2] = src[b + 2]
    <3>1. b + 1 \in b + 1 .. b + 2 /\ b + 2 \in b + 1 .. b + 2
      OBVIOUS
    <3> QED
      BY <2>1, <3>1
  <2> HIDE DEF t
  <2>6. \A i \in 1 .. 2 : r[i] = t[i]
    <3>1. \A i \in 1 .. 2 : i = 1 \/ i = 2
      OBVIOUS
    <3> QED
      BY <2>4, <2>5, <3>1
  <2>7. r = t
    BY <2>2, <2>4, <2>5, <2>6, SeqEqual
  <2> QED
    BY <2>7 DEF r, t
<1>5. b + 1 + 1 = b + 2 /\ b + 1 + 2 = b + 2 + 1
  OBVIOUS
<1> QED
  BY <1>1, <1>3, <1>4, <1>5 DEF Token, Read

(* ... a symbol that a space follows ...                                   *)
LEMMA LexSymbol ==
  ASSUME NEW src \in Seq(Char), NEW b \in Nat, NEW q \in 1 .. Len(src) + 1,
         Skip(src, q) = b + 1, NEW s \in Seq(Char), Written(src, b, s),
         At(src, b + Len(s) + 1) = White, IsSymbol(s)
  PROVE  lexer_next(src, q) = Read("symbol", s, b + Len(s) + 1)
<1> DEFINE L == Len(s)
<1>1. /\ L \in Nat /\ Len(src) \in Nat /\ b + L + 1 \in 1 .. Len(src)
      /\ \A i \in 1 .. L : At(src, b + i) = s[i]
      /\ SubSeq(src, b + 1, b + L) = s
  BY WrittenAt
<1>2. L # 0 /\ s[1] \in SymStart /\ \A k \in 2 .. L : s[k] \in SymPart
  BY <1>1 DEF IsSymbol
<1>3. 1 \in 1 .. L /\ At(src, b + 1) = s[1]
  BY <1>1, <1>2
<1>4. At(src, b + 1) = "-" => At(src, b + 1 + 1) \notin Digit /\ At(src, b + 1 + 1) # ">"
  <2>1. CASE L = 1
    <3>1. At(src, b + 1 + 1) = White
      BY <2>1
    <3> QED
      BY <3>1, Classes
  <2>2. CASE L # 1
    <3>1. 2 \in 1 .. L /\ L > 1 /\ b + 1 + 1 = b + 2
      BY <1>1, <1>2, <2>2
    <3>2. At(src, b + 1 + 1) = s[2]
      BY <1>1, <3>1
    <3>3. s[1] = "-" => s[2] \notin Digit \cup {">"}
      BY <3>1 DEF IsSymbol
    <3> QED
      BY <1>3, <3>2, <3>3
  <2> QED
    BY <2>1, <2>2
<1>5. ~ ArrowStart(src, b + 1) /\ ~ NumberStart(src, b + 1)
  <2>1. At(src, b + 1) \notin Digit
    BY <1>2, <1>3, Classes
  <2> QED
    BY <1>4, <2>1 DEF ArrowStart, NumberStart
<1>6. lexer_next(src, q) = Symbol(src, b + 1)
  BY <1>2, <1>3, <1>5, LexerCases
<1>7. Past(src, b + 1 + 1, SymPart) = b + L + 1 /\ ~ Endless(src, b + 1 + 1, SymPart)
  <2>1. b + 1 + 1 \in Nat /\ b + L + 1 \in b + 1 + 1 .. Len(src) + 1
    BY <1>1, <1>2
  <2>2. At(src, b + L + 1) \notin SymPart
    BY Classes
  <2>3. ASSUME NEW r \in b + 1 + 1 .. b + L + 1 - 1 PROVE At(src, r) \in SymPart
    <3>1. PICK k \in 2 .. L : r = b + k
      <4>1. r - b \in 2 .. L /\ r = b + (r - b)
        BY <1>1
      <4> QED
        BY <4>1
    <3>2. k \in 1 .. L
      OBVIOUS
    <3>3. At(src, b + k) = s[k] /\ s[k] \in SymPart
      BY <1>1, <1>2, <3>2
    <3> QED
      BY <3>1, <3>3
  <2> QED
    BY <2>1, <2>2, <2>3, PastUnique
<1>8. PICK e : e = Past(src, b + 1 + 1, SymPart)
  OBVIOUS
<1>9. Symbol(src, b + 1) = Token(src, "symbol", b + 1, e - 1, e)
  BY <1>7, <1>8, Zenon DEF Symbol
<1>10. e = b + L + 1 /\ e - 1 = b + L
  BY <1>1, <1>7, <1>8
<1> QED
  BY <1>1, <1>6, <1>9, <1>10 DEF Token, Read

(* ... a string between its quotes ...                                     *)
LEMMA LexString ==
  ASSUME NEW src \in Seq(Char), NEW b \in Nat, NEW q \in 1 .. Len(src) + 1,
         Skip(src, q) = b + 1, NEW s \in Seq(Char), Written(src, b + 1, s),
         At(src, b + 1) = Quote, src[b + 1 + Len(s) + 1] = Quote,
         StringEnd(s, 1) = Len(s) + 1
  PROVE  lexer_next(src, q) = Read("string", s, b + 1 + Len(s) + 1 + 1)
<1> DEFINE L == Len(s)
           e == b + 1 + L + 1
<1>1. /\ L \in Nat /\ b + 1 \in Nat /\ e \in 1 .. Len(src) /\ At(src, e) = Quote
      /\ SubSeq(src, b + 1 + 1, b + 1 + L) = s
  <2>1. b + 1 \in Nat
    OBVIOUS
  <2> QED
    BY <2>1, WrittenAt
<1>2. StringEnd(src, b + 1 + 1) = e
  <2>1. 1 \in 1 .. L + 1
    BY <1>1
  <2> QED
    BY <1>1, <2>1, StringShift
<1>3. lexer_next(src, q) = String(src, b + 1)
  BY LexerCases
<1>4. At(src, e) # EOT
  BY <1>1, Classes
<1> HIDE DEF e
<1>5. String(src, b + 1) = Token(src, "string", b + 1 + 1, e - 1, e + 1)
  BY <1>2, <1>4, Zenon DEF String
<1>6. e - 1 = b + 1 + L
  BY <1>1 DEF e
<1> QED
  BY <1>1, <1>3, <1>5, <1>6 DEF Token, Read, e

(* Digits after position b + i, and another character.                     *)
LEMMA PastDigits ==
  ASSUME NEW src \in Seq(Char), NEW b \in Nat, NEW s \in Seq(Char), Written(src, b, s),
         NEW i \in 1 .. Len(s) + 1, NEW j \in i .. Len(s) + 1,
         \A k \in i .. j - 1 : s[k] \in Digit, At(src, b + j) \notin Digit
  PROVE  Past(src, b + i, Digit) = b + j
<1>1. Len(s) \in Nat /\ Len(src) \in Nat /\ \A k \in 1 .. Len(s) : At(src, b + k) = s[k]
  BY WrittenAt
<1>2. b + i \in Nat /\ b + j \in b + i .. Len(src) + 1
  BY <1>1, WrittenAt
<1>3. ASSUME NEW r \in b + i .. b + j - 1 PROVE At(src, r) \in Digit
  <2>1. PICK k \in i .. j - 1 : r = b + k
    <3>1. r - b \in i .. j - 1 /\ r = b + (r - b)
      OBVIOUS
    <3> QED
      BY <3>1
  <2>2. k \in 1 .. Len(s)
    BY <1>1
  <2> QED
    BY <1>1, <2>1, <2>2
<1> QED
  BY <1>2, <1>3, PastUnique

(* ... and a number that a space follows.                                  *)
LEMMA LexNumber ==
  ASSUME NEW src \in Seq(Char), NEW b \in Nat, NEW q \in 1 .. Len(src) + 1,
         Skip(src, q) = b + 1, NEW s \in Seq(Char), Written(src, b, s),
         At(src, b + Len(s) + 1) = White,
         NEW kind, NEW i \in 1 .. Len(s), Signed(s, i), IsNumber(s, i, kind)
  PROVE  lexer_next(src, q) = Read(kind, s, b + Len(s) + 1)
<1> DEFINE L == Len(s)
<1>1. /\ L \in Nat /\ Len(src) \in Nat /\ b + L + 1 \in 1 .. Len(src)
      /\ \A k \in 1 .. L : At(src, b + k) = s[k]
      /\ SubSeq(src, b + 1, b + L) = s
  BY WrittenAt
<1>2. s[i] \in Digit /\ (i = 1 \/ (i = 2 /\ s[1] = "-"))
  <2>1. i = 1 \/ (i = 2 /\ s[1] = "-")
    BY DEF Signed
  <2>2. CASE kind = "int" /\ Digits(s, i, L)
    BY <1>1, <2>1, <2>2 DEF Digits
  <2>3. CASE \E k \in i .. L : Digits(s, i, k - 1)
    <3>1. i \in i .. L
      BY <1>1
    <3> QED
      BY <2>1, <2>3 DEF Digits
  <2> QED
    BY <2>2, <2>3 DEF IsNumber
<1>3. NumberStart(src, b + 1)
  <2>1. CASE i = 1
    <3>1. At(src, b + 1) = s[1]
      BY <1>1, <2>1
    <3> QED
      BY <1>2, <2>1, <3>1 DEF NumberStart
  <2>2. CASE i = 2 /\ s[1] = "-"
    <3>1. 1 \in 1 .. L /\ 2 \in 1 .. L /\ b + 1 + 1 = b + 2
      BY <1>1, <2>2
    <3>2. At(src, b + 1) = "-" /\ At(src, b + 1 + 1) = s[2]
      BY <1>1, <2>2, <3>1
    <3> QED
      BY <1>2, <2>2, <3>2 DEF NumberStart
  <2> QED
    BY <1>2, <2>1, <2>2
<1>4. lexer_next(src, q) = Number(src, b + 1)
  BY <1>3, LexerCases
<1>5. PICK e : e = Past(src, b + 1 + 1, Digit)
  OBVIOUS
<1>6. ASSUME NEW j \in i + 1 .. L + 1, Digits(s, i, j - 1), At(src, b + j) \notin Digit
      PROVE  e = b + j
  <2>1. 2 \in 1 .. L + 1 /\ j \in 2 .. L + 1 /\ b + 1 + 1 = b + 2
    BY <1>1
  <2>2. ASSUME NEW k \in 2 .. j - 1 PROVE s[k] \in Digit
    <3>1. k \in i .. j - 1
      BY <1>2
    <3> QED
      BY <1>6, <3>1 DEF Digits
  <2> QED
    BY <1>5, <1>6, <2>1, <2>2, PastDigits
<1>7. CASE kind = "int" /\ Digits(s, i, L)
  <2>1. PICK j \in i + 1 .. L + 1 : j = L + 1
    BY <1>1
  <2>2. j - 1 = L /\ b + j = b + L + 1
    BY <1>1, <2>1
  <2>3. e = b + j
    BY <1>6, <1>7, <2>2, Classes
  <2>4. At(src, e) # "."
    BY <2>2, <2>3, Classes
  <2>5. Number(src, b + 1) = Token(src, "int", b + 1, e - 1, e)
    BY <1>5, <2>4, Zenon DEF Number
  <2>6. e = b + L + 1 /\ e - 1 = b + L
    BY <1>1, <2>2, <2>3
  <2> QED
    BY <1>1, <1>4, <1>7, <2>5, <2>6 DEF Token, Read
<1>8. CASE kind = "float" /\ \E k \in i .. L :
             s[k] = "." /\ Digits(s, i, k - 1) /\ Digits(s, k + 1, L)
  <2>1. PICK k \in i .. L : s[k] = "." /\ Digits(s, i, k - 1) /\ Digits(s, k + 1, L)
    BY <1>8
  <2>2. k \in i + 1 .. L + 1 /\ k \in 1 .. L /\ k + 1 \in 1 .. L
    BY <1>1, <2>1 DEF Digits
  <2>3. At(src, b + k) = "." /\ At(src, b + (k + 1)) = s[k + 1]
    BY <1>1, <2>1, <2>2
  <2>4. e = b + k
    BY <1>6, <2>1, <2>2, <2>3, Classes
  <2>5. e + 1 = b + (k + 1)
    BY <2>2, <2>4
  <2>6. At(src, e + 1) \in Digit
    <3>1. k + 1 \in k + 1 .. L
      BY <1>1, <2>2
    <3> QED
      BY <2>1, <2>3, <2>5, <3>1 DEF Digits
  <2>7. PICK f : f = Past(src, e + 1, Digit)
    OBVIOUS
  <2>8. f = b + L + 1
    <3>1. PICK j \in k + 1 .. L + 1 : j = L + 1
      BY <1>1, <2>2
    <3>2. j - 1 = L /\ b + j = b + L + 1 /\ k + 1 \in 1 .. L + 1
      BY <1>1, <2>2, <3>1
    <3>3. PICK i1 \in 1 .. L + 1 : i1 = k + 1
      BY <3>2
    <3>4. \A m \in i1 .. j - 1 : s[m] \in Digit
      BY <2>1, <3>2, <3>3 DEF Digits
    <3>5. At(src, b + j) \notin Digit
      BY <3>2, Classes
    <3>6. j \in i1 .. L + 1 /\ e + 1 = b + i1
      BY <2>5, <3>3
    <3>7. Past(src, b + i1, Digit) = b + j
      BY <3>4, <3>5, <3>6, PastDigits
    <3> QED
      BY <2>7, <3>2, <3>6, <3>7
  <2>9. Number(src, b + 1) = Token(src, "float", b + 1, f - 1, f)
    BY <1>5, <2>3, <2>4, <2>6, <2>7, Zenon DEF Number
  <2>10. f - 1 = b + L
    BY <1>1, <2>8
  <2> QED
    BY <1>1, <1>4, <1>8, <2>8, <2>9, <2>10 DEF Token, Read
<1> QED
  BY <1>7, <1>8 DEF IsNumber

AnEntry == [kind : STRING, lexeme : Seq(STRING)]

(* The characters of an item are a text.                                   *)
LEMMA LexemeType ==
  ASSUME NEW x \in AnEntry
  PROVE  x.lexeme \in Seq(Char)
<1>1. x.lexeme \in Seq(STRING) /\ STRING \subseteq Char
  BY DEF Char, AnEntry
<1> QED
  BY <1>1, SeqMonotonic

(* Programs have atoms and brackets.                                       *)
LEMMA SpelledKind ==
  ASSUME NEW x, Spelled(x)
  PROVE  x.kind \in Atoms \cup {"[", "]"}
  BY DEF Spelled, IsNumber, Atoms

(* The characters of a string as it is printed.                            *)
LEMMA PrintString ==
  ASSUME NEW x \in AnEntry, x.kind = "string"
  PROVE  /\ Len(Shown(x)) = Len(x.lexeme) + 2 /\ Len(x.lexeme) \in Nat
         /\ Shown(x)[1] = Quote /\ Shown(x)[Len(x.lexeme) + 2] = Quote
         /\ \A i \in 1 .. Len(x.lexeme) : Shown(x)[1 + i] = x.lexeme[i]
<1> DEFINE s == x.lexeme
           a == <<Quote>>
           b == a \o s
           c == b \o a
           L == Len(s)
<1>1. s \in Seq(Char) /\ L \in Nat
  BY LexemeType
<1>2. a \in Seq(Char) /\ Len(a) = 1 /\ a[1] = Quote
  <2>1. a \in Seq(Char)
    BY MarkType
  <2> QED
    BY <2>1
<1> HIDE DEF a, s
<1>3. b \in Seq(Char) /\ Len(b) = 1 + L /\ \A i \in 1 .. 1 + L : b[i] = IF i <= 1 THEN a[i] ELSE s[i - 1]
  <2>1. /\ b \in Seq(Char) /\ Len(b) = Len(a) + Len(s)
        /\ \A i \in 1 .. Len(a) + Len(s) : b[i] = IF i <= Len(a) THEN a[i] ELSE s[i - Len(a)]
    BY <1>1, <1>2, ConcatProperties
  <2> HIDE DEF b
  <2> QED
    BY <1>1, <1>2, <2>1
<1> HIDE DEF b
<1>4. Len(c) = 1 + L + 1 /\ \A i \in 1 .. 1 + L + 1 : c[i] = IF i <= 1 + L THEN b[i] ELSE a[i - (1 + L)]
  <2>1. /\ Len(c) = Len(b) + Len(a)
        /\ \A i \in 1 .. Len(b) + Len(a) : c[i] = IF i <= Len(b) THEN b[i] ELSE a[i - Len(b)]
    BY <1>2, <1>3, ConcatProperties
  <2> HIDE DEF c
  <2> QED
    BY <1>1, <1>2, <1>3, <2>1
<1> HIDE DEF c
<1>5. c[1] = Quote
  <2>1. 1 \in 1 .. 1 + L /\ 1 \in 1 .. 1 + L + 1 /\ 1 <= 1 + L
    BY <1>1
  <2> QED
    BY <1>2, <1>3, <1>4, <2>1
<1>6. c[L + 2] = Quote
  <2>1. L + 2 \in 1 .. 1 + L + 1 /\ ~ L + 2 <= 1 + L /\ L + 2 - (1 + L) = 1
    BY <1>1
  <2> QED
    BY <1>2, <1>4, <2>1
<1>7. ASSUME NEW i \in 1 .. L PROVE c[1 + i] = s[i]
  <2>1. 1 + i \in 1 .. 1 + L /\ 1 + i \in 1 .. 1 + L + 1 /\ 1 + i <= 1 + L /\ ~ 1 + i <= 1 /\ 1 + i - 1 = i
    BY <1>1
  <2> QED
    BY <1>3, <1>4, <2>1
<1>8. Shown(x) = c
  BY Zenon DEF Shown, a, b, c, s
<1>9. 1 + L + 1 = L + 2
  BY <1>1
<1> QED
  BY <1>1, <1>4, <1>5, <1>6, <1>7, <1>8, <1>9 DEF s

(* An item begins with what is neither space nor comment.                  *)
LEMMA ItemStarts ==
  ASSUME NEW x \in AnEntry, Spelled(x)
  PROVE  /\ Len(Shown(x)) \in Nat \ {0}
         /\ Shown(x)[1] \notin Space /\ Shown(x)[1] # Semicolon
<1> DEFINE s == x.lexeme
<1>1. s \in Seq(Char) /\ Len(s) \in Nat
  BY LexemeType
<1>2. CASE x.kind = "string"
  BY <1>2, PrintString, Classes
<1>3. CASE x.kind # "string"
  <2>1. Shown(x) = s
    BY <1>3 DEF Shown
  <2>2. CASE x.kind \in {"[", "]", ":"} /\ s = <<x.kind>>
    <3>1. Len(s) = 1 /\ s[1] \in {"[", "]", ":"}
      BY <2>2
    <3> QED
      BY <2>1, <3>1, Classes
  <2>3. CASE s = <<"-", ">">>
    <3>1. Len(s) = 2 /\ s[1] = "-"
      BY <2>3
    <3> QED
      BY <2>1, <3>1, Classes
  <2>4. CASE IsSymbol(s)
    <3>1. Len(s) # 0 /\ s[1] \in SymStart
      BY <1>1, <2>4 DEF IsSymbol
    <3> QED
      BY <1>1, <2>1, <3>1, Classes
  <2>5. CASE \E i \in 1 .. Len(s) : Signed(s, i) /\ IsNumber(s, i, x.kind)
    <3>1. PICK i \in 1 .. Len(s) : Signed(s, i) /\ IsNumber(s, i, x.kind)
      BY <2>5
    <3>2. Len(s) # 0
      BY <1>1
    <3>3. s[i] \in Digit
      <4>1. CASE Digits(s, i, Len(s))
        BY <1>1, <4>1 DEF Digits
      <4>2. CASE \E k \in i .. Len(s) : Digits(s, i, k - 1)
        <5>1. PICK k \in i .. Len(s) : Digits(s, i, k - 1)
          BY <4>2
        <5>2. i \in i .. k - 1
          BY <1>1, <5>1 DEF Digits
        <5> QED
          BY <5>1, <5>2 DEF Digits
      <4> QED
        BY <3>1, <4>1, <4>2 DEF IsNumber
    <3>4. s[1] \in Digit \/ s[1] = "-"
      BY <3>1, <3>3 DEF Signed
    <3> QED
      BY <1>1, <2>1, <3>2, <3>4, Classes
  <2> QED
    BY <1>3, <2>2, <2>3, <2>4, <2>5 DEF Spelled
<1> QED
  BY <1>2, <1>3

(* Every item of a program is read back from what is printed of it.        *)
LEMMA LexItem ==
  ASSUME NEW src \in Seq(Char), NEW b \in Nat, NEW q \in 1 .. Len(src) + 1,
         Skip(src, q) = b + 1, NEW x \in AnEntry, Spelled(x), Written(src, b, Shown(x)),
         At(src, b + Len(Shown(x)) + 1) = White
  PROVE  lexer_next(src, q) = Read(x.kind, x.lexeme, b + Len(Shown(x)) + 1)
<1>1. PICK s \in Seq(Char) : s = x.lexeme
  BY LexemeType
<1>2. Len(s) \in Nat /\ Shown(x) \in Seq(Char)
  BY PrintType DEF AnEntry
<1>3. CASE x.kind = "string"
  <2>1. /\ Len(Shown(x)) = Len(s) + 2 /\ Shown(x)[1] = Quote /\ Shown(x)[Len(s) + 2] = Quote
        /\ \A i \in 1 .. Len(s) : Shown(x)[1 + i] = s[i]
    BY <1>1, <1>3, PrintString
  <2>2. \A i \in 1 .. Len(s) + 2 : At(src, b + i) = Shown(x)[i] /\ src[b + i] = Shown(x)[i]
    <3>1. PICK r \in Seq(Char) : r = Shown(x)
      BY <1>2
    <3>2. Written(src, b, r) /\ Len(r) = Len(s) + 2
      BY <2>1, <3>1
    <3>3. \A i \in 1 .. Len(r) : At(src, b + i) = r[i]
      BY <3>2, WrittenAt
    <3>4. \A i \in 1 .. Len(r) : src[b + i] = r[i]
      BY <3>2 DEF Written
    <3> QED
      BY <3>1, <3>2, <3>3, <3>4
  <2>3. At(src, b + 1) = Quote
    BY <1>2, <2>1, <2>2
  <2>4. src[b + 1 + Len(s) + 1] = Quote
    <3>1. b + 1 + Len(s) + 1 = b + (Len(s) + 2) /\ Len(s) + 2 \in 1 .. Len(s) + 2
      BY <1>2
    <3> QED
      BY <2>1, <2>2, <3>1
  <2>5. Written(src, b + 1, s)
    <3>1. b + 1 + Len(s) < Len(src)
      BY <1>2, <2>1 DEF Written
    <3>2. ASSUME NEW i \in 1 .. Len(s) PROVE src[b + 1 + i] = s[i]
      <4>1. b + 1 + i = b + (1 + i) /\ 1 + i \in 1 .. Len(s) + 2
        BY <1>2
      <4> QED
        BY <2>1, <2>2, <4>1
    <3> QED
      BY <3>1, <3>2 DEF Written
  <2>6. StringEnd(s, 1) = Len(s) + 1
    BY <1>1, <1>3 DEF Spelled, IsNumber
  <2>7. lexer_next(src, q) = Read("string", s, b + 1 + Len(s) + 1 + 1)
    BY <2>3, <2>4, <2>5, <2>6, LexString
  <2>8. b + 1 + Len(s) + 1 + 1 = b + Len(Shown(x)) + 1
    BY <1>2, <2>1
  <2> QED
    BY <1>1, <1>3, <2>7, <2>8
<1>4. CASE x.kind # "string"
  <2>1. Shown(x) = s /\ Written(src, b, s) /\ At(src, b + Len(s) + 1) = White
    BY <1>1, <1>4 DEF Shown
  <2>2. CASE x.kind \in {"[", "]", ":"} /\ s = <<x.kind>>
    <3>1. PICK c \in {"[", "]", ":"} : c = x.kind
      BY <2>2
    <3>2. Written(src, b, <<c>>)
      BY <2>1, <2>2, <3>1, Zenon
    <3>3. lexer_next(src, q) = Read(c, <<c>>, b + 1 + 1)
      BY <3>2, LexMark
    <3>4. Len(s) = 1
      BY <2>2
    <3> QED
      BY <1>1, <2>1, <2>2, <3>1, <3>3, <3>4
  <2>3. CASE x.kind = "->" /\ s = <<"-", ">">>
    <3>1. lexer_next(src, q) = Read("->", <<"-", ">">>, b + 2 + 1)
      <4>1. Written(src, b, <<"-", ">">>)
        BY <2>1, <2>3, Zenon
      <4> QED
        BY <4>1, LexArrow
    <3>2. Len(s) = 2
      BY <2>3
    <3> QED
      BY <1>1, <2>1, <2>3, <3>1, <3>2
  <2>4. CASE x.kind = "symbol" /\ IsSymbol(s)
    <3>1. lexer_next(src, q) = Read("symbol", s, b + Len(s) + 1)
      BY <2>1, <2>4, LexSymbol
    <3> QED
      BY <1>1, <2>1, <2>4, <3>1
  <2>5. CASE \E i \in 1 .. Len(s) : Signed(s, i) /\ IsNumber(s, i, x.kind)
    <3>1. PICK i \in 1 .. Len(s) : Signed(s, i) /\ IsNumber(s, i, x.kind)
      BY <2>5
    <3>2. lexer_next(src, q) = Read(x.kind, s, b + Len(s) + 1)
      BY <2>1, <3>1, LexNumber
    <3> QED
      BY <1>1, <2>1, <3>2
  <2> QED
    BY <1>1, <1>4, <2>2, <2>3, <2>4, <2>5 DEF Spelled
<1> QED
  BY <1>3, <1>4
-------------------------------------------------------------------------------
Begins(a, b) == Len(a) <= Len(b) /\ \A i \in 1 .. Len(a) : b[i] = a[i]

(* What is printed of an item more: its characters and a space.            *)
Continues(p, f, n, m) ==
  /\ f[n] \in Seq(Char) /\ f[m] \in Seq(Char) /\ Shown(p[n]) \in Seq(Char)
  /\ Len(f[n]) = Len(f[m]) + Len(Shown(p[n])) + 1
  /\ Begins(f[m], f[n])
  /\ \A i \in 1 .. Len(Shown(p[n])) : f[n][Len(f[m]) + i] = Shown(p[n])[i]
  /\ f[n][Len(f[n])] = White

(* Each step of Printed continues the one before.                          *)
LEMMA PrintedOne ==
  ASSUME NEW p \in AProgram, NEW f, PrintedUpto(f, p), NEW n \in 1 .. Len(p), NEW m, m = n - 1
  PROVE  Continues(p, f, n, m)
<1>1. m \in 0 .. Len(p) /\ n \in 0 .. Len(p)
  BY ProgramType
<1>2. f[n] \in Seq(Char) /\ f[m] \in Seq(Char) /\ Shown(p[n]) \in Seq(Char)
  BY <1>1, PrintedType, PrintType, ProgramType
<1>3. PICK a \in Seq(Char), r \in Seq(Char), w \in Seq(Char) :
        a = f[m] /\ r = Shown(p[n]) /\ w = << White >>
  BY <1>2, MarkType
<1>4. Len(w) = 1 /\ w[1] = White /\ Len(a) \in Nat /\ Len(r) \in Nat
  BY <1>3
<1>5. PICK b : b = a \o r
  OBVIOUS
<1>6. PICK c : c = b \o w
  OBVIOUS
<1>7. c = f[n]
  BY <1>3, <1>5, <1>6 DEF PrintedUpto
<1>8. /\ b \in Seq(Char) /\ Len(b) = Len(a) + Len(r)
      /\ \A i \in 1 .. Len(a) + Len(r) : b[i] = IF i <= Len(a) THEN a[i] ELSE r[i - Len(a)]
  BY <1>5, ConcatProperties
<1>9. /\ Len(c) = Len(b) + Len(w)
      /\ \A i \in 1 .. Len(b) + Len(w) : c[i] = IF i <= Len(b) THEN b[i] ELSE w[i - Len(b)]
  <2>1. b \in Seq(Char)
    BY <1>8
  <2>2. /\ Len(b \o w) = Len(b) + Len(w)
        /\ \A i \in 1 .. Len(b) + Len(w) : (b \o w)[i] = IF i <= Len(b) THEN b[i] ELSE w[i - Len(b)]
    BY ONLY <2>1, w \in Seq(Char), ConcatProperties
  <2> QED
    BY <1>6, <2>2
<1>10. Len(c) = Len(a) + Len(r) + 1
  BY <1>4, <1>8, <1>9
<1>11. Begins(a, c)
  <2>1. ASSUME NEW i \in 1 .. Len(a) PROVE c[i] = a[i]
    <3>1. i \in 1 .. Len(b) + Len(w) /\ i \in 1 .. Len(a) + Len(r) /\ i <= Len(b) /\ i <= Len(a)
      BY <1>4, <1>8
    <3> QED
      BY <1>8, <1>9, <3>1
  <2> QED
    BY <1>4, <1>10, <2>1 DEF Begins
<1>12. ASSUME NEW i \in 1 .. Len(r) PROVE c[Len(a) + i] = r[i]
  <2>1. /\ Len(a) + i \in 1 .. Len(b) + Len(w) /\ Len(a) + i \in 1 .. Len(a) + Len(r)
        /\ Len(a) + i <= Len(b) /\ ~ Len(a) + i <= Len(a) /\ Len(a) + i - Len(a) = i
    BY <1>4, <1>8
  <2> QED
    BY <1>8, <1>9, <2>1
<1>13. c[Len(c)] = White
  <2>1. Len(c) \in 1 .. Len(b) + Len(w) /\ ~ Len(c) <= Len(b) /\ Len(c) - Len(b) = 1
    BY <1>4, <1>8, <1>9
  <2> QED
    BY <1>4, <1>9, <2>1
<1> QED
  BY <1>2, <1>3, <1>7, <1>10, <1>11, <1>12, <1>13 DEF Continues

(* Each step of Printed begins with all those before it.                   *)
LEMMA PrintedBegins ==
  ASSUME NEW p \in AProgram, NEW f, PrintedUpto(f, p)
  PROVE  \A n \in 0 .. Len(p) : \A k \in 0 .. n : Begins(f[k], f[n])
<1> DEFINE Good(n) == \A k \in 0 .. n : Begins(f[k], f[n])
           P == {n \in 0 .. Len(p) : Good(n)}
<1>1. Len(p) \in Nat /\ \A n \in 0 .. Len(p) : f[n] \in Seq(Char)
  BY ProgramType, PrintedType
<1>2. \A n \in 0 .. Len(p) : Begins(f[n], f[n])
  BY <1>1 DEF Begins
<1>3. 0 \in P
  <2>1. 0 \in 0 .. Len(p) /\ \A k \in 0 .. 0 : k = 0
    BY <1>1
  <2> QED
    BY <1>2, <2>1
<1>4. ASSUME NEW n \in 1 .. Len(p), n - 1 \in P PROVE n \in P
  <2>1. PICK m \in 0 .. Len(p) : m = n - 1
    BY <1>1
  <2>2. Begins(f[m], f[n])
    BY <2>1, PrintedOne DEF Continues
  <2>3. ASSUME NEW k \in 0 .. n PROVE Begins(f[k], f[n])
    <3>1. CASE k = n
      BY <1>2, <3>1
    <3>2. CASE k # n
      <4>1. k \in 0 .. m /\ k \in 0 .. Len(p) /\ n \in 0 .. Len(p)
        BY <1>1, <2>1, <3>2
      <4>2. Begins(f[k], f[m])
        BY <1>4, <2>1, <4>1
      <4>3. Len(f[k]) \in Nat /\ Len(f[m]) \in Nat /\ Len(f[n]) \in Nat
        BY <1>1, <2>1, <4>1
      <4>4. Len(f[k]) <= Len(f[n])
        BY <2>2, <4>2, <4>3 DEF Begins
      <4>5. ASSUME NEW i \in 1 .. Len(f[k]) PROVE f[n][i] = f[k][i]
        <5>1. i \in 1 .. Len(f[m])
          BY <4>2, <4>3 DEF Begins
        <5> QED
          BY <2>2, <4>2, <5>1 DEF Begins
      <4> QED
        BY <4>4, <4>5 DEF Begins
    <3> QED
      BY <3>1, <3>2
  <2> QED
    BY <1>1, <2>3
<1>5. \A n \in 0 .. Len(p) : n \in P
  <2> HIDE DEF P
  <2> QED
    BY <1>1, <1>3, <1>4, Climb
<1> QED
  BY <1>5

(* Token t is item number n of the program, or the end if there is none.   *)
AtItem(p, t, n) ==
  IF n <= Len(p) THEN t.kind = p[n].kind /\ t.lexeme = p[n].lexeme ELSE t.kind = "eof"

(* Position q of the printed program is behind n items.                    *)
Behind(p, f, src, n, q) ==
  /\ q \in 1 .. Len(src) + 1
  /\ IF n = 0 THEN q = 1
     ELSE IF n <= Len(p) THEN q = Len(f[n]) ELSE lexer_next(src, q).kind = "eof"

(* From behind an item, lexer_next reads the next one.                     *)
LEMMA ReadOn ==
  ASSUME NEW p \in AProgram, \A i \in 1 .. Len(p) : Spelled(p[i]),
         NEW f, PrintedUpto(f, p), NEW src, src = f[Len(p)],
         NEW n \in Nat, NEW q, Behind(p, f, src, n, q),
         NEW t, t = lexer_next(src, q)
  PROVE  t \in AToken /\ AtItem(p, t, n + 1) /\ Behind(p, f, src, n + 1, t.next)
<1>1. /\ Len(p) \in Nat /\ src \in Seq(Char) /\ Len(src) \in Nat
      /\ \A i \in 1 .. Len(p) : p[i] \in AnEntry
  <2>1. Len(p) \in Nat /\ \A i \in 1 .. Len(p) : p[i] \in AnEntry
    BY ProgramType DEF AnEntry
  <2>2. Len(p) \in 0 .. Len(p)
    BY <2>1
  <2>3. src \in Seq(Char)
    BY <2>2, PrintedType
  <2> QED
    BY <2>1, <2>3
<1>2. q \in 1 .. Len(src) + 1
  BY DEF Behind
<1>3. /\ t \in AToken /\ t.next \in 1 .. Len(src) + 1
      /\ t.kind = "eof" => lexer_next(src, t.next).kind = "eof"
  BY <1>1, <1>2, LexerAdvances DEF Advances
<1>4. CASE n <= Len(p)
  <2>1. PICK b \in Nat : b = Len(f[n])
    BY <1>1, <1>4, PrintedType
  <2>2. Begins(f[n], src) /\ b <= Len(src)
    <3>1. n \in 0 .. Len(p) /\ Len(p) \in 0 .. Len(p)
      BY <1>1, <1>4
    <3> QED
      BY <2>1, <3>1, PrintedBegins DEF Begins
  <2>3. q = b + 1 \/ (q = b /\ At(src, b) = White)
    <3>1. CASE n = 0
      <4>1. b = 0
        BY <2>1, <3>1 DEF PrintedUpto
      <4> QED
        BY <3>1, <4>1 DEF Behind
    <3>2. CASE n # 0
      <4>1. n \in 1 .. Len(p) /\ q = b
        BY <1>1, <1>4, <2>1, <3>2 DEF Behind
      <4>2. f[n][b] = White
        <5>1. PICK j : j = n - 1
          OBVIOUS
        <5>2. Continues(p, f, n, j)
          BY <4>1, <5>1, PrintedOne
        <5> QED
          BY <2>1, <4>1, <5>2 DEF Continues
      <4>3. b \in 1 .. b
        BY <1>2, <4>1
      <4>4. src[b] = White
        BY <2>1, <2>2, <4>2, <4>3 DEF Begins
      <4> QED
        BY <2>2, <4>1, <4>4 DEF At
    <3> QED
      BY <3>1, <3>2
  <2>4. CASE n = Len(p)
    <3>1. b = Len(src)
      BY <2>1, <2>4
    <3>2. At(src, b + 1) = EOT /\ b + 1 \in 1 .. Len(src) + 1
      BY <1>1, <3>1 DEF At
    <3>3. Skip(src, q) = b + 1
      BY <1>1, <1>2, <2>3, <3>2, SkipSpace, Classes
    <3>4. lexer_next(src, q) = Token(src, "eof", b + 1, b + 1 - 1, b + 1)
      BY <1>1, <1>2, <3>2, <3>3, LexerCases
    <3>5. t.kind = "eof"
      BY <3>4 DEF Token
    <3>6. ~ n + 1 <= Len(p) /\ n + 1 # 0
      BY <1>1, <2>4
    <3> QED
      BY <1>3, <3>5, <3>6 DEF AtItem, Behind
  <2>5. CASE n # Len(p)
    <3>1. PICK m \in 1 .. Len(p) : m = n + 1
      BY <1>1, <1>4, <2>5
    <3>2. PICK x \in AnEntry : x = p[m] /\ Spelled(x)
      BY <1>1
    <3>3. Continues(p, f, m, n)
      <4>1. n = m - 1
        BY <3>1
      <4> QED
        BY <3>1, <4>1, PrintedOne
    <3>4. PICK r \in Seq(Char) : r = Shown(x)
      BY <3>2, <3>3 DEF Continues
    <3>5. /\ Len(f[m]) = b + Len(r) + 1 /\ f[m][Len(f[m])] = White
          /\ \A i \in 1 .. Len(r) : f[m][b + i] = r[i]
      BY <2>1, <3>2, <3>3, <3>4 DEF Continues
    <3>6. Begins(f[m], src)
      <4>1. m \in 0 .. Len(p) /\ Len(p) \in 0 .. Len(p)
        BY <1>1
      <4> QED
        BY <4>1, PrintedBegins
    <3>7. Len(r) \in Nat /\ Len(r) # 0 /\ r[1] \notin Space /\ r[1] # Semicolon
      BY <3>2, <3>4, ItemStarts
    <3>8. b + Len(r) + 1 <= Len(src) /\ src[b + Len(r) + 1] = White
      <4>1. b + Len(r) + 1 \in 1 .. Len(f[m])
        BY <3>5, <3>7
      <4> QED
        BY <1>1, <3>5, <3>6, <4>1 DEF Begins
    <3>9. Written(src, b, r)
      <4>1. b + Len(r) < Len(src)
        BY <1>1, <3>7, <3>8
      <4>2. ASSUME NEW i \in 1 .. Len(r) PROVE src[b + i] = r[i]
        <5>1. b + i \in 1 .. Len(f[m])
          BY <3>5, <3>7
        <5> QED
          BY <3>5, <3>6, <5>1 DEF Begins
      <4> QED
        BY <4>1, <4>2 DEF Written
    <3>10. At(src, b + 1) = r[1] /\ At(src, b + Len(r) + 1) = White
      <4>1. 1 \in 1 .. Len(r)
        BY <3>7
      <4> QED
        BY <1>1, <3>8, <3>9, <4>1, WrittenAt
    <3>11. Skip(src, q) = b + 1
      <4>1. b + 1 \in 1 .. Len(src) + 1
        BY <1>1, <2>2
      <4>2. At(src, b + 1) \notin Space /\ At(src, b + 1) # Semicolon
        BY <3>7, <3>10
      <4> QED
        BY <1>1, <1>2, <2>3, <4>1, <4>2, SkipSpace
    <3>12. t = Read(x.kind, x.lexeme, b + Len(r) + 1)
      BY <1>1, <1>2, <3>2, <3>4, <3>9, <3>10, <3>11, LexItem
    <3>13. t.kind = x.kind /\ t.lexeme = x.lexeme /\ t.next = Len(f[m])
      BY <3>5, <3>12 DEF Read
    <3>14. AtItem(p, t, m)
      BY <3>2, <3>13 DEF AtItem
    <3>15. Behind(p, f, src, m, t.next)
      BY <1>3, <3>13 DEF Behind
    <3> QED
      BY <1>3, <3>1, <3>14, <3>15
  <2> QED
    BY <2>4, <2>5
<1>5. CASE ~ n <= Len(p)
  <2>1. t.kind = "eof" /\ ~ n + 1 <= Len(p) /\ n + 1 # 0
    BY <1>1, <1>5 DEF Behind
  <2> QED
    BY <1>3, <2>1 DEF AtItem, Behind
<1> QED
  BY <1>4, <1>5
-------------------------------------------------------------------------------
(* Counting one item more.                                                 *)
LEMMA CountNext ==
  ASSUME NEW p, NEW n \in Nat, NEW m, m = n + 1, NEW kind
  PROVE  /\ Count(p, n, kind) \in Nat
         /\ Count(p, m, kind) = IF p[m].kind = kind THEN Count(p, n, kind) + 1 ELSE Count(p, n, kind)
<1> DEFINE S == {i \in 1 .. n : p[i].kind = kind}
           T == {i \in 1 .. m : p[i].kind = kind}
<1>1. IsFiniteSet(S) /\ Cardinality(S) \in Nat
  <2>1. IsFiniteSet(1 .. n) /\ S \in SUBSET (1 .. n)
    BY FS_Interval
  <2> HIDE DEF S
  <2>2. IsFiniteSet(S)
    BY <2>1, FS_Subset
  <2> QED
    BY <2>2, FS_CardinalityType
<1>2. CASE p[m].kind = kind
  <2>1. T = S \cup {m} /\ m \notin S
    BY <1>2
  <2> HIDE DEF S, T
  <2>2. Cardinality(T) = Cardinality(S) + 1
    BY <1>1, <2>1, FS_AddElement
  <2> QED
    BY <1>1, <1>2, <2>2 DEF Count, S, T
<1>3. CASE p[m].kind # kind
  <2>1. T = S
    BY <1>3
  <2> QED
    BY <1>1, <1>3, <2>1 DEF Count
<1> QED
  BY <1>2, <1>3

(* No items have no brackets.                                              *)
LEMMA CountNone == \A p, kind : Count(p, 0, kind) = 0
<1> SUFFICES ASSUME NEW p, NEW kind PROVE Count(p, 0, kind) = 0
  OBVIOUS
<1>1. {i \in 1 .. 0 : p[i].kind = kind} = {}
  OBVIOUS
<1> QED
  BY <1>1, FS_EmptySet, Zenon DEF Count

(* k items of the program that was printed are in the lists, and the two   *)
(* tokens are the next ones.                                               *)
Reads(p, f, k) ==
  /\ source = <<p>> /\ p \in Programs /\ PrintedUpto(f, p) /\ text = f[Len(p)]
  /\ k \in 0 .. Len(p)
  /\ Unrolled(open, SubSeq(p, 1, k))
  /\ Count(p, k, "[") = Count(p, k, "]") + (Len(open) - 1)
  /\ IF cur # Blank
     THEN AtItem(p, cur, k + 1) /\ AtItem(p, peek, k + 2) /\ Behind(p, f, text, k + 2, pos)
     ELSE /\ k = 0
          /\ IF peek # Blank THEN AtItem(p, peek, 1) /\ Behind(p, f, text, 1, pos)
                             ELSE Behind(p, f, text, 0, pos)
  /\ ending => cur.kind = "]"
Matches == source # << >> => \E p, f, k : Reads(p, f, k)

(* Programs are sequences of items, spelled as the lexer reads them, and   *)
(* their brackets match.                                                   *)
LEMMA ProgramFacts ==
  ASSUME NEW p \in Programs
  PROVE  /\ p \in AProgram /\ Len(p) \in Nat
         /\ \A i \in 1 .. Len(p) : p[i] \in AnEntry /\ Spelled(p[i])
         /\ \A n \in 1 .. Len(p) : Count(p, n, "]") <= Count(p, n, "[")
         /\ Count(p, Len(p), "]") = Count(p, Len(p), "[")
<1>1. p \in AProgram /\ (\A i \in 1 .. Len(p) : Spelled(p[i])) /\ Balanced(p)
  BY ReaderAssumption, Zenon DEF AProgram
<1>2. Len(p) \in Nat /\ \A i \in 1 .. Len(p) : p[i] \in AnEntry
  BY <1>1, ProgramType DEF AnEntry
<1> QED
  BY <1>1, <1>2 DEF Balanced

(* What the parser makes of token number k + 1 of a program.               *)
LEMMA NextItem ==
  ASSUME NEW p \in Programs, NEW k \in 0 .. Len(p), NEW t, AtItem(p, t, k + 1), t.kind # "eof",
         NEW m, m = k + 1
  PROVE  /\ m \in 1 .. Len(p) /\ p[m].kind = t.kind /\ t.kind \in Atoms \cup {"[", "]"}
         /\ p[m] = Item(t)
         /\ t.kind \in {"[", "]"} => p[m] = Bracket(t.kind)
         /\ SubSeq(p, 1, m) = Append(SubSeq(p, 1, k), p[m])
<1>1. m \in 1 .. Len(p) /\ Len(p) \in Nat /\ p[m].kind = t.kind /\ p[m].lexeme = t.lexeme
  BY ProgramFacts DEF AtItem
<1>2. p \in AProgram /\ p[m] \in AnEntry /\ Spelled(p[m])
  BY <1>1, ProgramFacts
<1>3. p[m] = [kind |-> p[m].kind, lexeme |-> p[m].lexeme]
  BY <1>2 DEF AnEntry
<1>4. p[m] = Item(t)
  BY <1>1, <1>3 DEF Item
<1>5. t.kind \in {"[", "]"} => p[m] = Bracket(t.kind)
  <2>1. t.kind \in {"[", "]"} => p[m].lexeme = <<p[m].kind>>
    BY <1>1, <1>2 DEF Spelled, IsNumber
  <2> QED
    BY <1>1, <1>3, <2>1 DEF Bracket
<1>6. SubSeq(p, 1, m) = Append(SubSeq(p, 1, k), p[m])
  <2>1. \A i \in 1 .. m : p[i] \in AnEntry
    BY <1>1, ProgramFacts
  <2>2. 1 \in Int /\ m \in Int /\ 1 <= m /\ m - 1 = k
    BY <1>1
  <2>3. SubSeq(p, 1, m) = Append(SubSeq(p, 1, m - 1), p[m])
    BY <2>1, <2>2, SubSeqRecursiveSecond
  <2> QED
    BY <2>2, <2>3
<1> QED
  BY <1>1, <1>2, <1>4, <1>5, <1>6, SpelledKind
(* The end of the text comes behind the last item only.                    *)
LEMMA AtEnd ==
  ASSUME NEW p \in Programs, NEW k \in 0 .. Len(p), NEW t, AtItem(p, t, k + 1), t.kind = "eof"
  PROVE  k = Len(p)
<1>1. Len(p) \in Nat
  BY ProgramFacts
<1>2. SUFFICES ASSUME k # Len(p) PROVE FALSE
  OBVIOUS
<1>3. PICK m \in 1 .. Len(p) : m = k + 1
  BY <1>1, <1>2
<1>4. p[m].kind = "eof"
  BY <1>3 DEF AtItem
<1>5. p[m] \in AnEntry /\ Spelled(p[m])
  BY <1>3, ProgramFacts
<1>6. p[m].kind \in Atoms \cup {"[", "]"}
  BY <1>5, SpelledKind
<1> QED
  BY <1>4, <1>6 DEF Atoms

(* A step of both tokens takes the parser one item on.                     *)
LEMMA TwoAhead ==
  ASSUME ReaderInv, advance, text' = text, cur # Blank,
         NEW p, NEW f, NEW k, Reads(p, f, k), NEW m, m = k + 1
  PROVE  /\ cur' # Blank
         /\ AtItem(p, cur', m + 1) /\ AtItem(p, peek', m + 2) /\ Behind(p, f, text', m + 2, pos')
<1>1. PICK t : t = lexer_next(text, pos)
  OBVIOUS
<1>2. cur' = peek /\ peek' = t /\ pos' = t.next
  BY <1>1 DEF advance
<1>3. /\ p \in Programs /\ PrintedUpto(f, p) /\ text = f[Len(p)] /\ k \in 0 .. Len(p)
      /\ AtItem(p, peek, k + 2) /\ Behind(p, f, text, k + 2, pos)
  BY DEF Reads
<1>4. peek # Blank
  BY DEF ReaderInv, Lookahead
<1>5. Len(p) \in Nat /\ p \in AProgram /\ \A i \in 1 .. Len(p) : Spelled(p[i])
  BY <1>3, ProgramFacts
<1>6. PICK n \in Nat : n = k + 2
  BY <1>3, <1>5
<1>7. n = m + 1 /\ n + 1 = m + 2
  BY <1>3, <1>5, <1>6
<1>8. AtItem(p, t, n + 1) /\ Behind(p, f, text, n + 1, t.next)
  BY <1>1, <1>3, <1>5, <1>6, ReadOn
<1> QED
  BY <1>2, <1>3, <1>4, <1>6, <1>7, <1>8

(* The parser begins with nothing read ...                                 *)
LEMMA MatchesInit ==
  ASSUME Init
  PROVE  Matches
<1>1. CASE source = << >>
  BY <1>1 DEF Matches
<1>2. ASSUME NEW p \in Programs, text = Printed(p), source = << p >> PROVE Matches
  <2>1. p \in AProgram /\ Len(p) \in Nat
    BY ProgramFacts
  <2>2. PICK f : PrintedUpto(f, p) /\ Printed(p) = f[Len(p)]
    BY <2>1, PrintedIs
  <2>3. PICK k \in 0 .. Len(p) : k = 0
    BY <2>1
  <2>4. pos = 1 /\ cur = Blank /\ peek = Blank /\ open = << << >> >> /\ ending = FALSE
    BY DEF Init
  <2>5. SubSeq(p, 1, k) = << >>
    BY <2>1, <2>3, SubSeqEmpty DEF AProgram
  <2>6. Unrolled(open, SubSeq(p, 1, k)) /\ Len(open) = 1
    BY <2>4, <2>5, UnrolledNothing
  <2>7. Count(p, k, "[") = Count(p, k, "]") + (Len(open) - 1)
    BY <2>3, <2>6, CountNone
  <2>8. Behind(p, f, text, 0, pos)
    <3>1. text \in Seq(Char)
      BY TextType
    <3> QED
      BY <2>4, <3>1 DEF Behind
  <2>9. Reads(p, f, k)
    BY <1>2, <2>2, <2>3, <2>4, <2>6, <2>7, <2>8 DEF Reads
  <2> QED
    BY <2>9 DEF Matches
<1> QED
  BY <1>1, <1>2 DEF Init
(* The lists after one item more.                                          *)
LEMMA PushLength ==
  ASSUME NEW lists, NEW items
  PROVE  Len(Push(lists, items)) = Len(lists)
  BY DEF Push

(* ... and every step keeps the lists in step with the program.            *)
LEMMA MatchesStep ==
  ASSUME ReaderInv, Matches, [Next]_vars
  PROVE  Matches'
<1>1. CASE source = << >>
  <2>1. source' = source
    BY DEF Next, Prime, Open, Atom, ListEnds, Cut, ListReturns, Drop, vars
  <2> QED
    BY <1>1, <2>1 DEF Matches
<1>2. ASSUME NEW p, NEW f, NEW k, Reads(p, f, k) PROVE Matches'
  <2>1. /\ source = << p >> /\ p \in Programs /\ PrintedUpto(f, p) /\ text = f[Len(p)]
        /\ k \in 0 .. Len(p) /\ Unrolled(open, SubSeq(p, 1, k))
        /\ Count(p, k, "[") = Count(p, k, "]") + (Len(open) - 1)
        /\ (cur # Blank => AtItem(p, cur, k + 1))
        /\ (ending => cur.kind = "]")
    BY <1>2 DEF Reads
  <2>2. /\ open \in Lists /\ Len(open) \in Nat \ {0} /\ Len(p) \in Nat
        /\ cur \in Tokens /\ cur.kind \in Kind \cup {"blank"} /\ (cur.kind = "blank" <=> cur = Blank)
        /\ (ending => Len(open) > 1)
    <3>1. open \in Lists /\ cur \in Tokens /\ (ending => Len(open) > 1)
      BY DEF ReaderInv, ReaderType, Nested
    <3> QED
      BY <2>1, <3>1, ListsType, AheadType, ProgramFacts
  <2>3. PICK a \in Nat, b \in Nat, d \in Nat :
          a = Count(p, k, "[") /\ b = Count(p, k, "]") /\ d = Len(open) /\ a = b + (d - 1)
    <3>1. k \in Nat
      BY <2>1, <2>2
    <3>2. Count(p, k, "[") \in Nat /\ Count(p, k, "]") \in Nat
      BY <3>1, CountNext
    <3> QED
      BY <2>1, <2>2, <3>2
  <2>4. ASSUME cur # Blank, cur.kind # "eof", NEW m, m = k + 1
        PROVE  /\ m \in 1 .. Len(p) /\ p[m].kind = cur.kind /\ cur.kind \in Atoms \cup {"[", "]"}
               /\ p[m] = Item(cur) /\ (cur.kind \in {"[", "]"} => p[m] = Bracket(cur.kind))
               /\ SubSeq(p, 1, m) = Append(SubSeq(p, 1, k), p[m])
    BY <2>1, <2>4, NextItem
  <2>5. ASSUME cur # Blank, cur.kind # "eof", NEW m, m = k + 1
        PROVE  /\ Count(p, m, "[") = IF cur.kind = "[" THEN a + 1 ELSE a
               /\ Count(p, m, "]") = IF cur.kind = "]" THEN b + 1 ELSE b
    <3>1. p[m].kind = cur.kind /\ k \in Nat
      BY <2>1, <2>2, <2>4, <2>5
    <3>2. \A kind : Count(p, m, kind) = IF p[m].kind = kind THEN Count(p, k, kind) + 1
                                                            ELSE Count(p, k, kind)
      BY <2>5, <3>1, CountNext
    <3> QED
      BY <2>3, <3>1, <3>2
  <2>6. ASSUME advance, text' = text, source' = source, cur # Blank, ~ ending',
               NEW m \in 1 .. Len(p), m = k + 1,
               Unrolled(open', SubSeq(p, 1, m)),
               Count(p, m, "[") = Count(p, m, "]") + (Len(open') - 1)
        PROVE  Matches'
    <3>1. /\ cur' # Blank
          /\ AtItem(p, cur', m + 1) /\ AtItem(p, peek', m + 2) /\ Behind(p, f, text', m + 2, pos')
      BY <1>2, <2>6, TwoAhead
    <3>2. m \in 0 .. Len(p)
      BY <2>6
    <3>3. Reads(p, f, m)'
      BY <2>1, <2>6, <3>1, <3>2 DEF Reads
    <3> QED
      BY <3>3 DEF Matches
  <2>7. CASE Prime
    <3>1. cur = Blank /\ advance /\ text' = text /\ source' = source /\ open' = open /\ ending' = ending
      BY <2>7 DEF Prime
    <3>2. ~ ending /\ k = 0
      BY <1>2, <2>1, <3>1 DEF Reads, Blank
    <3>3. PICK t : t = lexer_next(text, pos)
      OBVIOUS
    <3>4. cur' = peek /\ peek' = t /\ pos' = t.next
      BY <3>1, <3>3 DEF advance
    <3>5. p \in AProgram /\ \A i \in 1 .. Len(p) : Spelled(p[i])
      BY <2>1, ProgramFacts
    <3>6. ASSUME NEW n \in Nat, Behind(p, f, text, n, pos), NEW r, r = n + 1
          PROVE  t \in AToken /\ AtItem(p, t, r) /\ Behind(p, f, text, r, t.next)
      BY <2>1, <3>3, <3>5, <3>6, ReadOn
    <3>7. \A u \in AToken : u # Blank
      BY AheadType DEF Tokens, AToken, Kind, Atoms, Blank
    <3>8. CASE peek = Blank
      <4>1. Behind(p, f, text, 0, pos)
        BY <1>2, <3>1, <3>8 DEF Reads
      <4>2. t # Blank /\ AtItem(p, t, 1) /\ Behind(p, f, text, 1, t.next)
        BY <3>6, <3>7, <4>1
      <4>3. Reads(p, f, k)'
        BY <2>1, <3>1, <3>2, <3>4, <3>8, <4>2 DEF Reads
      <4> QED
        BY <4>3 DEF Matches
    <3>9. CASE peek # Blank
      <4>1. AtItem(p, peek, 1) /\ Behind(p, f, text, 1, pos)
        BY <1>2, <3>1, <3>9 DEF Reads
      <4>2. AtItem(p, t, 2) /\ Behind(p, f, text, 2, t.next)
        BY <3>6, <4>1
      <4>3. k + 1 = 1 /\ k + 2 = 2
        BY <3>2
      <4>4. Reads(p, f, k)'
        BY <2>1, <3>1, <3>2, <3>4, <3>9, <4>1, <4>2, <4>3 DEF Reads
      <4> QED
        BY <4>4 DEF Matches
    <3> QED
      BY <3>8, <3>9
  <2>8. CASE Open
    <3>1. /\ text' = text /\ source' = source /\ open' = Append(open, << >>)
          /\ ~ ending /\ ending' = ending /\ advance /\ cur.kind = "["
      BY <2>8 DEF Open
    <3>2. cur # Blank
      BY <3>1 DEF Blank
    <3>3. PICK m : m = k + 1
      OBVIOUS
    <3>4. m \in 1 .. Len(p) /\ SubSeq(p, 1, m) = Append(SubSeq(p, 1, k), Bracket("["))
      BY <2>4, <3>1, <3>2, <3>3
    <3>5. Unrolled(open', SubSeq(p, 1, m))
      BY <2>1, <2>2, <3>1, <3>4, UnrolledOpen
    <3>6. Len(open') = d + 1
      BY <2>2, <2>3, <3>1 DEF Lists
    <3>7. Count(p, m, "[") = a + 1 /\ Count(p, m, "]") = b
      BY <2>5, <3>1, <3>2, <3>3
    <3>8. Count(p, m, "[") = Count(p, m, "]") + (Len(open') - 1)
      BY <2>3, <3>6, <3>7
    <3> QED
      BY <2>6, <3>1, <3>2, <3>3, <3>4, <3>5, <3>8
  <2>9. CASE Atom
    <3>1. /\ text' = text /\ source' = source /\ open' = Push(open, << Item(cur) >>)
          /\ ~ ending /\ ending' = ending /\ advance /\ cur.kind \in Atoms
      BY <2>9 DEF Atom
    <3>2. cur # Blank /\ cur.kind # "eof" /\ cur.kind # "[" /\ cur.kind # "]"
      BY <3>1 DEF Blank, Atoms
    <3>3. PICK m : m = k + 1
      OBVIOUS
    <3>4. m \in 1 .. Len(p) /\ SubSeq(p, 1, m) = Append(SubSeq(p, 1, k), Item(cur))
      BY <2>4, <3>2, <3>3
    <3>5. Item(cur) \in AnItem /\ << Item(cur) >> \in Seq(AnItem)
      <4>1. cur \in AToken
        BY <2>2, <3>2 DEF Tokens
      <4>2. Item(cur) \in AnItem
        BY <4>1, ItemType
      <4> QED
        BY <4>2
    <3>6. SubSeq(p, 1, m) = SubSeq(p, 1, k) \o << Item(cur) >>
      <4>1. SubSeq(p, 1, k) \in Seq(AnItem)
        BY <2>1, <2>2, UnrolledType
      <4> QED
        BY <3>4, <3>5, <4>1, AppendIsConcat
    <3>7. Unrolled(open', SubSeq(p, 1, m))
      BY <2>1, <2>2, <3>1, <3>5, <3>6, UnrolledPush
    <3>8. Len(open') = d
      BY <2>3, <3>1, PushLength
    <3>9. Count(p, m, "[") = a /\ Count(p, m, "]") = b
      BY <2>5, <3>2, <3>3
    <3>10. Count(p, m, "[") = Count(p, m, "]") + (Len(open') - 1)
      BY <2>3, <3>8, <3>9
    <3> QED
      BY <2>6, <3>1, <3>2, <3>3, <3>4, <3>7, <3>10
  <2>10. CASE ListEnds
    <3>1. /\ text' = text /\ source' = source /\ open' = open /\ pos' = pos
          /\ cur' = cur /\ peek' = peek /\ Nested /\ cur.kind \in {"]", "eof"}
      BY <2>10 DEF ListEnds
    <3>2. cur # Blank
      BY <3>1 DEF Blank
    <3>3. cur.kind # "eof"
      <4>1. SUFFICES ASSUME cur.kind = "eof" PROVE FALSE
        OBVIOUS
      <4>2. k = Len(p)
        BY <2>1, <3>2, <4>1, AtEnd
      <4>3. a = b
        BY <2>1, <2>3, <4>2, ProgramFacts
      <4> QED
        BY <2>3, <3>1, <4>3 DEF Nested
    <3>4. Reads(p, f, k)'
      BY <1>2, <3>1, <3>3 DEF Reads
    <3> QED
      BY <3>4 DEF Matches
  <2>11. CASE Cut
    <3>1. cur.kind = "error"
      BY <2>11 DEF Cut
    <3>2. cur # Blank /\ cur.kind # "eof" /\ cur.kind \notin Atoms \cup {"[", "]"}
      BY <3>1 DEF Blank, Atoms
    <3> QED
      BY <2>4, <3>2
  <2>12. CASE ListReturns
    <3>1. ending /\ cur.kind = "]"
      BY <2>1, <2>12 DEF ListReturns
    <3>2. /\ text' = text /\ source' = source /\ open' = Push(Outer, Listed(Innermost))
          /\ ending' = FALSE /\ advance
      BY <2>12, <3>1 DEF ListReturns
    <3>3. cur # Blank
      BY <3>1 DEF Blank
    <3>4. PICK m : m = k + 1
      OBVIOUS
    <3>5. m \in 1 .. Len(p) /\ SubSeq(p, 1, m) = Append(SubSeq(p, 1, k), Bracket("]"))
      BY <2>4, <3>1, <3>3, <3>4
    <3>6. Len(open) > 1
      BY <2>2, <3>1
    <3>7. Unrolled(open', SubSeq(p, 1, m))
      BY <2>1, <2>2, <3>2, <3>5, <3>6, UnrolledReturn DEF Outer, Innermost
    <3>8. Len(open') = d - 1
      <4>1. Len(open') = Len(Outer)
        BY <3>2, PushLength
      <4>2. Len(Outer) = d - 1
        BY <2>2, <2>3, <3>6 DEF Outer, Lists
      <4> QED
        BY <4>1, <4>2
    <3>9. Count(p, m, "[") = a /\ Count(p, m, "]") = b + 1
      BY <2>5, <3>1, <3>3, <3>4
    <3>10. Count(p, m, "[") = Count(p, m, "]") + (Len(open') - 1)
      BY <2>3, <3>8, <3>9
    <3> QED
      BY <2>6, <3>2, <3>3, <3>4, <3>5, <3>7, <3>10
  <2>13. CASE Drop
    <3>1. ~ Nested /\ cur.kind \in {"]", "error"}
      BY <2>13 DEF Drop
    <3>2. cur # Blank /\ cur.kind # "eof"
      BY <3>1 DEF Blank
    <3>3. PICK m : m = k + 1
      OBVIOUS
    <3>4. m \in 1 .. Len(p) /\ cur.kind = "]"
      BY <2>4, <3>1, <3>2, <3>3 DEF Atoms
    <3>5. Count(p, m, "[") = a /\ Count(p, m, "]") = b + 1
      BY <2>5, <3>2, <3>3, <3>4
    <3>6. Count(p, m, "]") <= Count(p, m, "[")
      BY <2>1, <3>4, ProgramFacts
    <3>7. d = 1
      BY <2>2, <2>3, <3>1 DEF Nested
    <3> QED
      BY <2>3, <3>5, <3>6, <3>7
  <2>14. CASE UNCHANGED vars
    <3>1. Reads(p, f, k)'
      BY <1>2, <2>14 DEF Reads, vars
    <3> QED
      BY <3>1 DEF Matches
  <2> QED
    BY <2>7, <2>8, <2>9, <2>10, <2>11, <2>12, <2>13, <2>14 DEF Next
<1> QED
  BY <1>1, <1>2 DEF Matches

(* Reading a printed program gives the program, whatever the program.      *)
THEOREM PrintsBackHolds == Spec => []PrintsBack
<1>1. ASSUME ReaderInv, Matches, Done, source # << >> PROVE << open[1] >> = source
  <2>1. PICK p, f, k : Reads(p, f, k)
    BY <1>1 DEF Matches
  <2>2. cur.kind = "eof" /\ cur # Blank /\ ~ Nested
    BY <1>1 DEF Done, Blank
  <2>3. /\ source = << p >> /\ p \in Programs /\ k \in 0 .. Len(p)
        /\ Unrolled(open, SubSeq(p, 1, k)) /\ AtItem(p, cur, k + 1)
    BY <2>1, <2>2 DEF Reads
  <2>4. k = Len(p) /\ p \in AProgram
    BY <2>2, <2>3, AtEnd, ProgramFacts
  <2>5. SubSeq(p, 1, k) = p
    BY <2>4, SubSeqFull DEF AProgram
  <2>6. open \in Lists
    BY <1>1 DEF ReaderInv, ReaderType
  <2>7. Len(open) = 1
    <3>1. PICK n \in Nat : n = Len(open) /\ n # 0
      BY <2>6, ListsType
    <3>2. ~ Len(open) > 1
      BY <2>2 DEF Nested
    <3> QED
      BY <3>1, <3>2
  <2>8. p = open[1]
    BY <2>3, <2>5, <2>6, <2>7, UnrolledType
  <2> QED
    BY <2>3, <2>8
<1>2. ReaderInv /\ Matches => PrintsBack
  BY <1>1 DEF PrintsBack
<1>3. Init => ReaderInv /\ Matches
  BY ReaderInit, MatchesInit
<1>4. ReaderInv /\ Matches /\ [Next]_vars => (ReaderInv /\ Matches)'
  BY ReaderStep, MatchesStep
<1> QED
  BY <1>2, <1>3, <1>4, PTL DEF Spec
===============================================================================

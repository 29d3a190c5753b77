----------------------------- MODULE SharedProofs -----------------------------
(***************************************************************************)
(* What a thread can rely on when several use one environment, for any     *)
(* number of threads, names, values and entries.  The list is never broken *)
(* under a reader: what is on it was pushed, and links go to entries that  *)
(* were pushed before.  A push that races with another is what loses an    *)
(* entry; every other entry stays on the list, and on the list that a push *)
(* halfway is about to make the list.                                      *)
(***************************************************************************)
EXTENDS Shared, Links, SequenceTheorems, NaturalsInduction, WellFoundedInduction, TLAPS

-------------------------------------------------------------------------------
(* The list from p has p and is closed under nxt, ... *)
LEMMA ReachClosed ==
  ASSUME NEW A, NEW nil, NEW nxt \in [A -> A \cup {nil}], NEW p \in A \cup {nil}
  PROVE  Reach(p, nxt, nil) \subseteq A /\ Closed(Reach(p, nxt, nil), p, nxt, nil)
<1> DEFINE R == Reach(p, nxt, nil)
<1>1. DOMAIN nxt = A
  OBVIOUS
<1>2. R \subseteq A
  BY <1>1 DEF Reach
<1>3. p = nil \/ p \in R
  BY <1>1, Zenon DEF Reach, Closed
<1>4. ASSUME NEW a \in R, nxt[a] # nil PROVE nxt[a] \in R
  <2>1. a \in A /\ nxt[a] \in A
    BY <1>2, <1>4
  <2>2. ASSUME NEW S \in SUBSET A, Closed(S, p, nxt, nil) PROVE nxt[a] \in S
    <3>1. a \in S
      BY <1>1, <2>2, Zenon DEF Reach
    <3> QED
      BY <3>1, <2>2, <1>4, Zenon DEF Closed
  <2> QED
    BY <1>1, <2>1, <2>2, Zenon DEF Reach
<1> QED
  BY <1>2, <1>3, <1>4, Zenon DEF Closed

(* ... and no smaller set is. *)
LEMMA ReachLeast ==
  ASSUME NEW A, NEW nil, NEW nxt \in [A -> A \cup {nil}], NEW p,
         NEW S \in SUBSET A, Closed(S, p, nxt, nil)
  PROVE  Reach(p, nxt, nil) \subseteq S
<1>1. DOMAIN nxt = A
  OBVIOUS
<1> QED
  BY <1>1, Zenon DEF Reach

LEMMA ReachNil ==
  ASSUME NEW A, NEW nil, NEW nxt \in [A -> A \cup {nil}]
  PROVE  Reach(nil, nxt, nil) = {}
<1>1. {} \in SUBSET A /\ Closed({}, nil, nxt, nil)
  BY DEF Closed
<1> QED
  BY <1>1, ReachLeast

(* The list from p is p and the list from its successor. *)
LEMMA ReachStep ==
  ASSUME NEW A, NEW nil, nil \notin A, NEW nxt \in [A -> A \cup {nil}], NEW p \in A
  PROVE  Reach(p, nxt, nil) = {p} \cup Reach(nxt[p], nxt, nil)
<1> DEFINE R == Reach(p, nxt, nil)
           T == Reach(nxt[p], nxt, nil)
<1>1. nxt[p] \in A \cup {nil} /\ p # nil
  OBVIOUS
<1>2. R \subseteq A /\ Closed(R, p, nxt, nil)
  BY ReachClosed
<1>3. T \subseteq A /\ Closed(T, nxt[p], nxt, nil)
  BY <1>1, ReachClosed
<1> HIDE DEF R, T
<1>4. Closed({p} \cup T, p, nxt, nil)
  BY <1>3 DEF Closed
<1>5. R \subseteq {p} \cup T
  <2>1. {p} \cup T \in SUBSET A
    BY <1>3
  <2> QED
    BY <2>1, <1>4, ReachLeast DEF R
<1>6. p \in R /\ Closed(R, nxt[p], nxt, nil)
  BY <1>1, <1>2 DEF Closed
<1>7. T \subseteq R
  BY <1>2, <1>6, ReachLeast DEF T
<1> QED
  BY <1>5, <1>6, <1>7 DEF R, T

(* Writing to objects that are not on a list leaves it alone. *)
LEMMA ReachSame ==
  ASSUME NEW A, NEW nil, NEW nxt \in [A -> A \cup {nil}],
         NEW new \in [A -> A \cup {nil}], NEW p \in A \cup {nil},
         \A a \in Reach(p, nxt, nil) : new[a] = nxt[a]
  PROVE  Reach(p, new, nil) = Reach(p, nxt, nil)
<1> DEFINE R == Reach(p, nxt, nil)
           N == Reach(p, new, nil)
<1>1. R \subseteq A /\ Closed(R, p, nxt, nil)
  BY ReachClosed
<1>2. N \subseteq A /\ Closed(N, p, new, nil)
  BY ReachClosed
<1>3. \A a \in R : new[a] = nxt[a]
  OBVIOUS
<1> HIDE DEF R, N
<1>4. Closed(R, p, new, nil)
  BY <1>1, <1>3 DEF Closed
<1>5. N \subseteq R
  BY <1>1, <1>4, ReachLeast DEF N
<1>6. Closed(N, p, nxt, nil)
  BY <1>2, <1>3, <1>5 DEF Closed
<1>7. R \subseteq N
  BY <1>2, <1>6, ReachLeast DEF R
<1> QED
  BY <1>5, <1>7 DEF R, N

-------------------------------------------------------------------------------
Pushed == {order[i] : i \in DOMAIN order}
Kept == Pushed \ lost
List(p) == Reach(p, next, 0)

Filling(t) == pc[t] \in {"link", "publish"}
Reading(t) == pc[t] \notin {"idle", "link", "publish"}
AtEntry(t) == pc[t] \in {"copy", "done", "found", "unset"}

Content == {v[i] : v \in Val, i \in Word} \cup {None}
Cell == [Word -> Content]

Typed ==
  /\ limits \in Limits
  /\ used \in 0 .. MaxEntries
  /\ head \in Entry \cup {0}
  /\ next \in [Entry -> Entry \cup {0}]
  /\ name \in [Entry -> Name \cup {None}]
  /\ box \in [Entry -> Cell]
  /\ pc \in [Thread -> {"idle", "link", "publish", "get", "set", "copy", "done",
                        "found", "unset", "missed", "store"}]
  /\ want \in [Thread -> Name \cup {None}]
  /\ val \in [Thread -> Cell]
  /\ cur \in [Thread -> Entry \cup {0}]
  /\ words \in [Thread -> SUBSET Word]
  /\ copy \in [Thread -> Cell]
  /\ waiting \in [Thread -> Seq(Entry)]
  /\ order \in Seq(Entry)
  /\ lost \in SUBSET Entry
  /\ floor \in [Thread -> Entry \cup {0}]
  /\ upset \in [Thread -> SUBSET (Name \cup {None})]
  /\ own \in [Thread -> [name : Name \cup {None}, val : Cell]]

(* Words are moved only at an entry of the name of the call. *)
CallOf(t) ==
  /\ pc[t] # "idle" => want[t] \in Name
  /\ words[t] # {} => pc[t] \in {"copy", "store"}
  /\ AtEntry(t) \/ pc[t] = "store" => cur[t] # 0 /\ name[cur[t]] = want[t]

Calls == \A t \in Thread : CallOf(t)

(* An entry is pushed once, and one that is being filled in is known to    *)
(* its thread alone.                                                       *)
Private ==
  /\ \A i, j \in DOMAIN order : order[i] = order[j] => i = j
  /\ \A e \in Pushed : e <= used
  /\ lost \subseteq Pushed
  /\ \A t \in Thread : Filling(t) =>
       /\ cur[t] \in Entry /\ cur[t] <= used /\ cur[t] \notin Pushed
       /\ name[cur[t]] = want[t]
       /\ \A u \in Thread : Filling(u) /\ cur[u] = cur[t] => u = t

(* Links go from an entry to an older one, ... *)
Ordered ==
  /\ head # 0 => head \in Pushed
  /\ \A i \in DOMAIN order : next[order[i]] # 0 =>
       \E j \in DOMAIN order : j < i /\ next[order[i]] = order[j]
  /\ \A t \in Thread : pc[t] = "publish" /\ next[cur[t]] # 0 => next[cur[t]] \in Pushed

(* ... and lead to everything that was not lost. *)
Whole ==
  /\ Kept \subseteq List(head)
  /\ \A t \in Thread : pc[t] = "publish" => Kept \subseteq List(next[cur[t]])

(* A lookup has the entry that was the newest of the name still before it, *)
(* until it ends; and a set! holds an entry that was pushed.               *)
LookupOf(t) ==
  /\ Reading(t) /\ cur[t] # 0 => cur[t] \in Pushed
  /\ floor[t] # 0 => Reading(t) /\ floor[t] \in Pushed /\ name[floor[t]] = want[t]
  /\ Looking(t) /\ floor[t] # 0 => floor[t] \in List(cur[t])
  /\ AtEntry(t) /\ floor[t] # 0 =>
       \E i, j \in DOMAIN order : i <= j /\ floor[t] = order[i] /\ cur[t] = order[j]
  /\ pc[t] = "missed" => floor[t] = 0
  /\ \A i \in DOMAIN waiting[t] :
       waiting[t][i] \in Pushed /\ name[waiting[t][i]] \in Name

Lookups == \A t \in Thread : LookupOf(t)

ListInv == Typed /\ Calls /\ Private /\ Ordered /\ Whole /\ Lookups

-------------------------------------------------------------------------------
NoneLost(x) == \A e \in lost : name[e] # x
Relied(t, x) == x \notin upset[t] /\ NoneLost(x)

(* What a thread knows of a name that it assigns: the set! looks for the   *)
(* newest entry, and holds it while the new value is evaluated.            *)
Sure(t, x) ==
  Relied(t, x) =>
    /\ pc[t] = "set" /\ want[t] = x => floor[t] = Newest(x)
    /\ pc[t] = "found" /\ want[t] = x => cur[t] = Newest(x)
    /\ \A i \in DOMAIN waiting[t] : name[waiting[t][i]] = x => waiting[t][i] = Newest(x)

Assigned == \A t \in Thread, x \in Name : Sure(t, x)

(* What it knows of the name it set last, while own says so: while it      *)
(* stores, and afterwards, when it reads the name again.                   *)
Storing(t, x) ==
  pc[t] = "store" =>
    /\ want[t] = x /\ val[t] = own[t].val /\ NoneLost(x) /\ cur[t] = Newest(x)
    /\ \A i \in Word \ words[t] : box[cur[t]][i] = own[t].val[i]

Stored(t, x) ==
  pc[t] # "store" => NoneLost(x) /\ Newest(x) # 0 /\ box[Newest(x)] = own[t].val

Fetching(t, x) ==
  Reading(t) /\ pc[t] # "store" /\ want[t] = x =>
    /\ floor[t] = Newest(x) /\ pc[t] \notin {"missed", "unset"}
    /\ AtEntry(t) => cur[t] = Newest(x)
    /\ pc[t] \in {"copy", "done"} => \A i \in Word \ words[t] : copy[t][i] = own[t].val[i]

OwnedBy(t, x) ==
  own[t].name = x =>
    own[t].val \in Val /\ Storing(t, x) /\ Stored(t, x) /\ Fetching(t, x)

Owned == \A t \in Thread, x \in Name : OwnedBy(t, x)

-------------------------------------------------------------------------------
LEMMA Cells == Val \subseteq Cell /\ Junk \in Cell
<1>1. ASSUME NEW v \in Val PROVE v \in Cell
  <2>1. v = <<v[1], v[2]>>
    BY SharedAssumption
  <2>2. v[1] \in Content /\ v[2] \in Content
    BY DEF Content, Word
  <2>3. <<v[1], v[2]>> \in [Word -> Content]
    BY <2>2 DEF Word
  <2> QED
    BY ONLY <2>1, <2>3 DEF Cell
<1>2. None \in Content
  BY DEF Content
<1>3. Junk \in Cell
  BY <1>2 DEF Junk, Cell, Word
<1> QED
  BY <1>1, <1>3

LEMMA TypedInit == Init => Typed
  BY Cells, SharedAssumption DEF Init, Typed, Nothing, Entry

(* Newest gives 0 or an entry. *)
Of(x) == {i \in DOMAIN order : name[order[i]] = x /\ order[i] \notin lost}

LEMMA Greatest ==
  ASSUME NEW n \in Nat, NEW S \in SUBSET (1 .. n), S # {}
  PROVE  \E i \in S : \A j \in S : j <= i
<1> DEFINE T == {n - i : i \in S}
<1>1. T \in SUBSET Nat /\ T # {}
  <2>1. \A i \in S : n - i \in Nat
    OBVIOUS
  <2> QED
    BY <2>1
<1>2. PICK k \in T : \A m \in T : <<m, k>> \notin OpToRel(<, Nat)
  <2> HIDE DEF T
  <2> QED
    BY <1>1, NatLessThanWellFounded, WFMin, Zenon
<1>3. \A m, l \in Nat : m < l => <<m, l>> \in {ss \in Nat \X Nat : ss[1] < ss[2]}
  OBVIOUS
<1>4. \A m, l \in Nat : m < l => <<m, l>> \in OpToRel(<, Nat)
  BY ONLY <1>3, Zenon DEF OpToRel
<1>5. \A m \in T : ~ (m < k)
  <2> HIDE DEF T
  <2> QED
    BY ONLY <1>1, <1>2, <1>4, k \in T, Zenon
<1>6. PICK i \in S : k = n - i
  OBVIOUS
<1>7. ASSUME NEW j \in S PROVE j <= i
  <2>1. ~ (n - j < n - i)
    BY <1>5, <1>6
  <2>2. i \in Int /\ j \in Int
    OBVIOUS
  <2> QED
    BY ONLY <2>1, <2>2, n \in Nat
<1> QED
  BY <1>7

LEMMA NewestIs ==
  ASSUME order \in Seq(Entry), NEW x
  PROVE  /\ Of(x) = {} => Newest(x) = 0
         /\ Of(x) # {} => \E i \in Of(x) : Newest(x) = order[i] /\ \A j \in Of(x) : j <= i
<1> DEFINE m == CHOOSE i \in Of(x) : \A j \in Of(x) : j <= i
<1>1. Newest(x) = IF Of(x) = {} THEN 0 ELSE order[m]
  BY Zenon DEF Newest, Of
<1>2. Of(x) \in SUBSET (1 .. Len(order)) /\ Len(order) \in Nat
  BY LenProperties DEF Of
<1>3. Of(x) # {} => \E i \in Of(x) : \A j \in Of(x) : j <= i
  BY <1>2, Greatest
<1>4. Of(x) # {} => m \in Of(x) /\ \A j \in Of(x) : j <= m
  BY <1>3, Zenon
<1> HIDE DEF m
<1> QED
  BY <1>1, <1>4

LEMMA NewestTyped ==
  ASSUME Typed, NEW x
  PROVE  /\ Newest(x) \in Entry \cup {0}
         /\ Newest(x) # 0 => Newest(x) \in Kept /\ name[Newest(x)] = x
<1>1. order \in Seq(Entry)
  BY DEF Typed
<1>2. \A i \in DOMAIN order : order[i] \in Entry
  BY <1>1, LenProperties, ElementOfSeq
<1>3. \A i \in Of(x) : i \in DOMAIN order /\ name[order[i]] = x /\ order[i] \notin lost
  BY DEF Of
<1> QED
  BY <1>1, <1>2, <1>3, NewestIs DEF Kept, Pushed

(* The entries on the list from the i-th entry that was pushed are that    *)
(* one and ones pushed before.                                             *)
LEMMA OlderBehind ==
  ASSUME Typed, Ordered, NEW i \in DOMAIN order
  PROVE  List(order[i]) \subseteq {order[j] : j \in 1 .. i}
<1> DEFINE S == {order[j] : j \in 1 .. i}
<1>1. order \in Seq(Entry) /\ next \in [Entry -> Entry \cup {0}]
  BY DEF Typed
<1>2. DOMAIN order = 1 .. Len(order) /\ Len(order) \in Nat
  BY <1>1, LenProperties
<1>3. \A j \in DOMAIN order : order[j] \in Entry
  BY <1>1, <1>2, ElementOfSeq
<1>4. \A j \in 1 .. i : j \in DOMAIN order
  BY <1>2
<1>5. S \in SUBSET Entry
  BY <1>3, <1>4
<1>6. ASSUME NEW j \in 1 .. i, next[order[j]] # 0 PROVE next[order[j]] \in S
  <2>1. PICK k \in DOMAIN order : k < j /\ next[order[j]] = order[k]
    BY <1>4, <1>6 DEF Ordered
  <2>2. k \in 1 .. i
    BY <2>1, <1>2
  <2> QED
    BY <2>1, <2>2
<1>7. Closed(S, order[i], next, 0)
  <2>1. i \in 1 .. i
    BY <1>2
  <2> QED
    BY <1>6, <2>1 DEF Closed
<1> QED
  BY <1>1, <1>5, <1>7, ReachLeast DEF List
-------------------------------------------------------------------------------
(* Types, action by action. *)
LEMMA BackTyped ==
  ASSUME Typed, NEW t \in Thread, Back(t)
  PROVE  /\ pc' = [pc EXCEPT ![t] = "idle"]
         /\ want' \in [Thread -> Name \cup {None}] /\ val' \in [Thread -> Cell]
         /\ cur' \in [Thread -> Entry \cup {0}] /\ copy' \in [Thread -> Cell]
         /\ floor' \in [Thread -> Entry \cup {0}]
  BY Cells DEF Back, Typed

LEMMA ForgetTyped ==
  ASSUME Typed, NEW t \in Thread, Forget(t)
  PROVE  upset' \in [Thread -> SUBSET (Name \cup {None})]
  BY DEF Forget, Typed

LEMMA DisturbTyped ==
  ASSUME Typed, NEW t \in Thread, NEW S, Disturb(t, S)
  PROVE  own' \in [Thread -> [name : Name \cup {None}, val : Cell]]
  BY Cells DEF Disturb, Typed, Nothing

(* The entry that the innermost set! holds, and what is left without it. *)
LEMMA LastWaiting ==
  ASSUME Typed, NEW t \in Thread, waiting[t] # <<>>
  PROVE  /\ Len(waiting[t]) \in DOMAIN waiting[t]
         /\ waiting[t][Len(waiting[t])] \in Entry
         /\ SubSeq(waiting[t], 1, Len(waiting[t]) - 1) \in Seq(Entry)
         /\ \A i \in DOMAIN SubSeq(waiting[t], 1, Len(waiting[t]) - 1) :
              /\ i \in DOMAIN waiting[t]
              /\ SubSeq(waiting[t], 1, Len(waiting[t]) - 1)[i] = waiting[t][i]
<1>1. waiting[t] \in Seq(Entry)
  BY DEF Typed
<1> DEFINE s == waiting[t]
<1>2. PICK n \in Nat : n = Len(s)
  BY <1>1, LenProperties
<1>3. n # 0 /\ DOMAIN s = 1 .. n /\ \A i \in 1 .. n : s[i] \in Entry
  BY <1>1, <1>2, LenProperties, ElementOfSeq, EmptySeq
<1> HIDE DEF s
<1>4. SubSeq(s, 1, n - 1) \in Seq(Entry)
  BY <1>1, <1>2, <1>3, SubSeqProperties
<1>5. \A i \in DOMAIN SubSeq(s, 1, n - 1) : i \in 1 .. n /\ SubSeq(s, 1, n - 1)[i] = s[i]
  BY <1>1, <1>2, <1>3, SubSeqProperties
<1> QED
  BY <1>2, <1>3, <1>4, <1>5 DEF s

LEMMA TypedNext ==
  ASSUME Typed, Calls, Private, Lookups, NEW t \in Thread, Step(t), UNCHANGED limits
  PROVE  Typed'
<1> USE DEF Entry
<1>2. CASE \E x \in Name, v \in Val \cup {Junk} : CallDef(t, x, v)
  <2>1. PICK x \in Name, v \in Val \cup {Junk} : CallDef(t, x, v)
    BY <1>2
  <2>2. used + 1 \in 1 .. MaxEntries /\ v \in Cell
    <3>1. used < limits.entries /\ used \in 0 .. MaxEntries /\ limits.entries \in 0 .. MaxEntries
      BY <2>1, SharedAssumption DEF CallDef, Typed
    <3> QED
      BY <3>1, Cells, SharedAssumption
  <2> QED
    BY <2>1, <2>2 DEF CallDef, Start, Typed, history
<1>3. ASSUME NEW x \in Name, NEW k \in {"get", "set"}, Lookup(t, k, x) PROVE Typed'
  <2>1. Newest(x) \in Entry \cup {0}
    BY NewestTyped
  <2> QED
    BY <1>3, <2>1 DEF Lookup, Start, Typed, list
<1>5. CASE Link(t)
  BY <1>5 DEF Link, Typed, history
<1>6. CASE Publish(t)
  <2>1. cur[t] \in Entry
    BY <1>6 DEF Publish, Private, Filling
  <2>2. own' \in [Thread -> [name : Name \cup {None}, val : Cell]]
    BY <1>6, DisturbTyped DEF Publish
  <2>3. order' \in Seq(Entry)
    BY <1>6, <2>1, AppendProperties DEF Publish, Typed
  <2>4. upset' \in [Thread -> SUBSET (Name \cup {None})]
    BY <1>6 DEF Publish, Typed
  <2>5. lost' \in SUBSET Entry /\ head' \in Entry \cup {0}
    BY <1>6, <2>1 DEF Publish, Typed
  <2>6. UNCHANGED <<next, name, used, box, words, waiting>> /\ Back(t)
    BY <1>6 DEF Publish
  <2> QED
    BY <2>2, <2>3, <2>4, <2>5, <2>6, BackTyped DEF Typed
<1>7. CASE Walk(t)
  BY <1>7 DEF Walk, Typed, list, history
<1>8. CASE Missing(t)
  BY <1>8 DEF Missing, Typed, list, history
<1>9. CASE Found(t)
  <2>1. pc' \in [Thread -> {"idle", "link", "publish", "get", "set", "copy", "done",
                            "found", "unset", "missed", "store"}]
    BY <1>9 DEF Found, Typed
  <2>2. words' \in [Thread -> SUBSET Word]
    BY <1>9 DEF Found, Typed
  <2> QED
    BY <1>9, <2>1, <2>2 DEF Found, Typed, list, history
<1>10. CASE \E w \in Word : Copy(t, w)
  <2>1. PICK w \in Word : Copy(t, w)
    BY <1>10
  <2>2. cur[t] \in Entry
    BY <2>1 DEF Copy, Calls, CallOf, AtEntry, Typed
  <2>3. box[cur[t]][w] \in Content
    BY <2>2 DEF Typed, Cell
  <2>4. copy' \in [Thread -> Cell]
    BY <2>1, <2>3 DEF Copy, Typed, Cell
  <2> QED
    BY <2>1, <2>4 DEF Copy, Typed, list, history
<1>11. CASE Evaluate(t)
  <2>1. cur[t] \in Entry
    BY <1>11 DEF Evaluate, Calls, CallOf, AtEntry, Typed
  <2>2. waiting' \in [Thread -> Seq(Entry)]
    <3>1. Append(waiting[t], cur[t]) \in Seq(Entry)
      BY <2>1, AppendProperties DEF Typed
    <3> QED
      BY <1>11, <3>1 DEF Evaluate, Typed
  <2>3. UNCHANGED <<list, box, words, order, lost, upset, own>> /\ Back(t)
    BY <1>11 DEF Evaluate
  <2> QED
    BY <2>2, <2>3, BackTyped DEF Typed, list
<1>12. CASE \E v \in Val : CallStore(t, v)
  <2>1. PICK v \in Val : CallStore(t, v)
    BY <1>12
  <2> DEFINE e == waiting[t][Len(waiting[t])]
  <2>2. waiting[t] # <<>>
    BY <2>1 DEF CallStore
  <2>3. e \in Entry /\ SubSeq(waiting[t], 1, Len(waiting[t]) - 1) \in Seq(Entry)
    BY <2>2, LastWaiting
  <2>4. waiting' \in [Thread -> Seq(Entry)]
    BY <2>1, <2>3 DEF CallStore, Typed
  <2>5. upset' \in [Thread -> SUBSET (Name \cup {None})]
    BY <2>1, ForgetTyped DEF CallStore
  <2>6. v \in Cell /\ name[e] \in Name \cup {None}
    BY <2>3, Cells DEF Typed
  <2>7. own' \in [Thread -> [name : Name \cup {None}, val : Cell]]
    <3>1. \E r \in {[name |-> name[e], val |-> v], Nothing} : own' = [own EXCEPT ![t] = r]
      BY <2>1 DEF CallStore
    <3>2. {[name |-> name[e], val |-> v], Nothing} \subseteq [name : Name \cup {None}, val : Cell]
      BY <2>6, Cells DEF Nothing
    <3> QED
      BY <3>1, <3>2 DEF Typed
  <2>8. /\ pc' = [pc EXCEPT ![t] = "store"] /\ want' = [want EXCEPT ![t] = name[e]]
        /\ val' = [val EXCEPT ![t] = v] /\ cur' = [cur EXCEPT ![t] = e]
        /\ words' = [words EXCEPT ![t] = Word]
        /\ UNCHANGED <<list, box, copy, order, lost, floor>>
    BY <2>1 DEF CallStore, Start
  <2> HIDE DEF e
  <2> QED
    BY <2>3, <2>4, <2>5, <2>6, <2>7, <2>8 DEF Typed, list
<1>13. CASE \E w \in Word : Store(t, w)
  <2>1. PICK w \in Word : Store(t, w)
    BY <1>13
  <2>2. val[t][w] \in Content
    BY DEF Typed, Cell
  <2>3. box' \in [Entry -> Cell]
    BY <2>1, <2>2 DEF Store, Typed, Cell
  <2>4. own' \in [Thread -> [name : Name \cup {None}, val : Cell]]
    BY <2>1, DisturbTyped DEF Store
  <2>5. words' \in [Thread -> SUBSET Word] /\ UNCHANGED <<list, waiting, order, lost, upset>>
    BY <2>1 DEF Store, Typed
  <2>6. Back(t) \/ UNCHANGED <<pc, want, val, cur, copy, floor>>
    BY <2>1, Zenon DEF Store
  <2>7. /\ pc' \in [Thread -> {"idle", "link", "publish", "get", "set", "copy", "done",
                               "found", "unset", "missed", "store"}]
        /\ want' \in [Thread -> Name \cup {None}] /\ val' \in [Thread -> Cell]
        /\ cur' \in [Thread -> Entry \cup {0}] /\ copy' \in [Thread -> Cell]
        /\ floor' \in [Thread -> Entry \cup {0}]
    BY <2>6, BackTyped DEF Typed
  <2> QED
    BY <2>3, <2>4, <2>5, <2>7 DEF Typed, list
<1>14. CASE Return(t)
  <2>1. UNCHANGED <<list, box, words, waiting, order, lost, own>> /\ Back(t) /\ Forget(t)
    BY <1>14 DEF Return
  <2> QED
    BY <2>1, BackTyped, ForgetTyped DEF Typed, list
<1> QED
  BY <1>2, <1>3, <1>5, <1>6, <1>7, <1>8, <1>9, <1>10, <1>11, <1>12, <1>13, <1>14
     DEF Step, CallGet, CallSet
-------------------------------------------------------------------------------
(* Every step but those of def leaves the list alone, and the calls that   *)
(* are adding to it.                                                       *)
Still(t) ==
  /\ UNCHANGED <<head, next, name, used, order, lost>>
  /\ ~ Filling(t)'
  /\ \A u \in Thread \ {t} :
       /\ pc'[u] = pc[u] /\ want'[u] = want[u] /\ val'[u] = val[u] /\ cur'[u] = cur[u]
       /\ words'[u] = words[u] /\ copy'[u] = copy[u] /\ waiting'[u] = waiting[u]
       /\ floor'[u] = floor[u] /\ upset'[u] = upset[u]

(* The steps that are still. *)
Reads(t) == \/ \E x \in Name : CallGet(t, x) \/ CallSet(t, x)
            \/ Walk(t) \/ Missing(t) \/ Found(t)
            \/ Evaluate(t) \/ \E v \in Val : CallStore(t, v)
            \/ \E w \in Word : Copy(t, w) \/ Store(t, w)
            \/ Return(t)

LEMMA ReadersAreStill ==
  ASSUME Typed, NEW t \in Thread, Reads(t)
  PROVE  Still(t)
<1>1. CASE \E x \in Name : CallGet(t, x) \/ CallSet(t, x)
  BY <1>1 DEF CallGet, CallSet, Lookup, Start, Still, Filling, Typed, list
<1>2. CASE Walk(t)
  BY <1>2 DEF Walk, Looking, Still, Filling, Typed, list, history
<1>3. CASE Missing(t)
  BY <1>3 DEF Missing, Still, Filling, Typed, list, history
<1>4. CASE Found(t)
  BY <1>4 DEF Found, Looking, Still, Filling, Typed, list, history
<1>5. CASE \E w \in Word : Copy(t, w)
  BY <1>5 DEF Copy, Still, Filling, Typed, list, history
<1>6. CASE \E w \in Word : Store(t, w)
  BY <1>6 DEF Store, Back, Still, Filling, Typed, list
<1>7. CASE Return(t)
  BY <1>7 DEF Return, Back, Forget, Still, Filling, Typed, list
<1>8. CASE Evaluate(t)
  BY <1>8 DEF Evaluate, Back, Still, Filling, Typed, list
<1>9. CASE \E v \in Val : CallStore(t, v)
  BY <1>9 DEF CallStore, Start, Forget, Still, Filling, Typed, list
<1> QED
  BY <1>1, <1>2, <1>3, <1>4, <1>5, <1>6, <1>7, <1>8, <1>9, Zenon DEF Reads

LEMMA StillKeeps ==
  ASSUME Private, Ordered, Whole, NEW t \in Thread, Still(t)
  PROVE  /\ Pushed' = Pushed /\ Kept' = Kept /\ (\A p : List(p)' = List(p))
         /\ Private' /\ Ordered' /\ Whole'
<1>1. Pushed' = Pushed /\ Kept' = Kept /\ \A p : List(p)' = List(p)
  BY DEF Still, Pushed, Kept, List
<1>2. \A u \in Thread : Filling(u)' => u # t /\ Filling(u) /\ cur'[u] = cur[u] /\ want'[u] = want[u]
  BY DEF Still, Filling
<1>3. \A u \in Thread : pc'[u] = "publish" => u # t /\ pc[u] = "publish" /\ cur'[u] = cur[u]
  BY DEF Still, Filling
<1>4. Private'
  BY <1>1, <1>2 DEF Still, Private
<1>5. Ordered'
  BY <1>1, <1>3 DEF Still, Ordered
<1>6. Whole'
  BY <1>1, <1>3 DEF Still, Whole
<1> QED
  BY <1>1, <1>4, <1>5, <1>6
-------------------------------------------------------------------------------
(* The calls of the other threads. *)
LEMMA OthersLookups ==
  ASSUME Calls, Lookups, NEW t \in Thread, Still(t), NEW u \in Thread, u # t
  PROVE  CallOf(u)' /\ LookupOf(u)'
<1>1. /\ pc'[u] = pc[u] /\ want'[u] = want[u] /\ cur'[u] = cur[u] /\ waiting'[u] = waiting[u]
      /\ words'[u] = words[u] /\ floor'[u] = floor[u] /\ UNCHANGED <<next, name, order>>
  BY DEF Still
<1>2. Pushed' = Pushed /\ List(cur[u])' = List(cur[u])
  BY <1>1 DEF Pushed, List
<1>3. CallOf(u) /\ LookupOf(u)
  BY DEF Calls, Lookups
<1> QED
  BY <1>1, <1>2, <1>3 DEF CallOf, LookupOf, Reading, Looking, AtEntry

(* What a step does to the set!s that wait leaves them with their entries. *)
LEMMA WaitingKept ==
  ASSUME ListInv, NEW t \in Thread, Still(t),
         \A i \in DOMAIN waiting'[t] : i \in DOMAIN waiting[t] /\ waiting'[t][i] = waiting[t][i]
  PROVE  \A i \in DOMAIN waiting'[t] :
           waiting'[t][i] \in Pushed' /\ name'[waiting'[t][i]] \in Name
<1>1. Pushed' = Pushed /\ name' = name
  BY DEF Still, Pushed
<1>2. LookupOf(t)
  BY DEF ListInv, Lookups
<1> QED
  BY <1>1, <1>2 DEF LookupOf

LEMMA Split ==
  ASSUME Typed, Ordered, NEW p \in Pushed, NEW e \in List(p)
  PROVE  \E i, j \in DOMAIN order : i <= j /\ e = order[i] /\ p = order[j]
<1>1. PICK j \in DOMAIN order : p = order[j]
  BY DEF Pushed
<1>2. PICK i \in 1 .. j : e = order[i]
  BY <1>1, OlderBehind
<1>3. i \in DOMAIN order /\ i <= j
  <2>1. DOMAIN order = 1 .. Len(order) /\ Len(order) \in Nat
    BY LenProperties DEF Typed
  <2> QED
    BY <2>1
<1> QED
  BY <1>1, <1>2, <1>3

LEMMA ListBehind ==
  ASSUME Typed, NEW p \in Entry
  PROVE  /\ List(p) = {p} \cup List(next[p])
         /\ List(0) = {}
<1>1. next \in [Entry -> Entry \cup {0}] /\ 0 \notin Entry
  BY DEF Typed, Entry
<1>2. List(p) = {p} \cup List(next[p])
  BY <1>1, ReachStep DEF List
<1>3. List(0) = {}
  BY <1>1, ReachNil DEF List
<1> QED
  BY <1>2, <1>3

LEMMA LookupsGet ==
  ASSUME ListInv, NEW t \in Thread, Still(t), NEW x \in Name, NEW k \in {"get", "set"},
         Lookup(t, k, x)
  PROVE  CallOf(t)' /\ LookupOf(t)'
<1> USE DEF ListInv
<1>1. /\ pc'[t] = k /\ want'[t] = x /\ cur'[t] = head /\ words'[t] = {} /\ floor'[t] = Newest(x)
      /\ UNCHANGED <<head, next, name, order, waiting>>
  BY DEF Lookup, Start, Typed, list, Calls, CallOf
<1>2. Pushed' = Pushed /\ \A p : List(p)' = List(p)
  BY <1>1 DEF Pushed, List
<1>3. Newest(x) # 0 => Newest(x) \in List(head) /\ Newest(x) \in Pushed /\ name[Newest(x)] = x
  BY NewestTyped DEF Whole, Kept
<1>4. CallOf(t)'
  BY <1>1 DEF CallOf, AtEntry
<1>5. Looking(t)' /\ floor'[t] # 0 => floor'[t] \in List(cur[t])'
  <2>1. List(head)' = List(cur[t])'
    BY <1>1 DEF List
  <2>2. List(head)' = List(head)
    BY <1>1 DEF List
  <2> QED
    BY <1>1, <1>3, <2>1, <2>2
<1>6. \A i \in DOMAIN waiting'[t] : waiting'[t][i] \in Pushed' /\ name'[waiting'[t][i]] \in Name
  BY <1>1, WaitingKept
<1>7. LookupOf(t)'
  BY <1>1, <1>2, <1>3, <1>5, <1>6 DEF LookupOf, Reading, AtEntry, Ordered
<1> QED
  BY <1>4, <1>7

LEMMA LookupsWalk ==
  ASSUME ListInv, NEW t \in Thread, Still(t), Walk(t)
  PROVE  CallOf(t)' /\ LookupOf(t)'
<1> USE DEF ListInv
<1>1. /\ pc[t] \in {"get", "set"} /\ cur[t] # 0 /\ name[cur[t]] # want[t]
      /\ cur'[t] = next[cur[t]] /\ UNCHANGED <<head, next, name, order, pc, want, words, floor, waiting>>
  BY DEF Walk, Looking, Typed, list, history
<1>2. Pushed' = Pushed /\ List(cur[t])' = List(next[cur[t]])
  BY <1>1 DEF Pushed, List
<1>3. CallOf(t) /\ LookupOf(t)
  BY DEF Calls, Lookups
<1>4. cur[t] \in Entry /\ cur[t] \in Pushed
  BY <1>1, <1>3 DEF LookupOf, Reading, Typed
<1>5. next[cur[t]] # 0 => next[cur[t]] \in Pushed
  BY <1>4 DEF Ordered, Pushed
<1>6. floor[t] # 0 => floor[t] \in List(next[cur[t]])
  <2>1. floor[t] # 0 => floor[t] \in List(cur[t]) /\ floor[t] # cur[t]
    BY <1>1, <1>3 DEF LookupOf, Looking
  <2> QED
    BY <1>4, <2>1, ListBehind
<1>7. CallOf(t)'
  BY <1>1, <1>3 DEF CallOf, AtEntry
<1>8. LookupOf(t)'
  BY <1>1, <1>2, <1>3, <1>5, <1>6 DEF LookupOf, Reading, AtEntry, Looking
<1> QED
  BY <1>7, <1>8

LEMMA LookupsEnd ==
  ASSUME ListInv, NEW t \in Thread, Still(t), Missing(t) \/ Found(t)
  PROVE  CallOf(t)' /\ LookupOf(t)'
<1> USE DEF ListInv
<1>1. UNCHANGED <<head, next, name, order, want, cur, floor, waiting>> /\ Looking(t)
  BY DEF Missing, Found, list, history
<1>2. Pushed' = Pushed
  BY <1>1 DEF Pushed
<1>3. CallOf(t) /\ LookupOf(t) /\ words[t] = {}
  BY <1>1 DEF Calls, Lookups, CallOf, Looking
<1>4. CASE Missing(t)
  <2>1. pc'[t] = "missed" /\ words'[t] = {} /\ cur[t] = 0
    BY <1>3, <1>4 DEF Missing, Typed
  <2>2. floor[t] = 0
    <3>1. List(0) = {}
      BY ReachNil DEF List, Typed
    <3> QED
      BY <1>1, <1>3, <2>1, <3>1 DEF LookupOf
  <2>3. CallOf(t)'
    BY <1>1, <1>3, <2>1 DEF CallOf, AtEntry, Looking
  <2>4. LookupOf(t)'
    BY <1>1, <1>2, <1>3, <2>1, <2>2 DEF LookupOf, Reading, AtEntry, Looking
  <2> QED
    BY <2>3, <2>4
<1>5. CASE Found(t)
  <2>1. /\ pc'[t] \in {"copy", "found", "unset"} /\ cur[t] # 0 /\ name[cur[t]] = want[t]
        /\ words'[t] # {} => pc'[t] = "copy"
    BY <1>3, <1>5 DEF Found, Typed
  <2>2. cur[t] \in Pushed
    BY <1>1, <1>3, <2>1 DEF LookupOf, Reading, Looking
  <2>3. floor[t] # 0 =>
          \E i, j \in DOMAIN order : i <= j /\ floor[t] = order[i] /\ cur[t] = order[j]
    BY <1>1, <1>3, <2>2, Split DEF LookupOf
  <2>4. CallOf(t)'
    BY <1>1, <1>3, <2>1 DEF CallOf, Looking
  <2>5. LookupOf(t)'
    BY <1>1, <1>2, <1>3, <2>1, <2>2, <2>3 DEF LookupOf, Reading, AtEntry, Looking
  <2> QED
    BY <2>4, <2>5
<1> QED
  BY <1>4, <1>5

(* A call that is back leaves nothing to keep but the set!s that wait. *)
LEMMA LookupsBack ==
  ASSUME ListInv, NEW t \in Thread, Still(t), Back(t), words'[t] = {},
         \A i \in DOMAIN waiting'[t] :
           waiting'[t][i] \in Pushed' /\ name'[waiting'[t][i]] \in Name
  PROVE  CallOf(t)' /\ LookupOf(t)'
<1>1. pc'[t] = "idle" /\ floor'[t] = 0
  BY DEF Back, ListInv, Typed
<1> QED
  BY <1>1 DEF CallOf, LookupOf, Reading, AtEntry, Looking

LEMMA LookupsMove ==
  ASSUME ListInv, NEW t \in Thread, Still(t), NEW w \in Word, Copy(t, w) \/ Store(t, w)
  PROVE  CallOf(t)' /\ LookupOf(t)'
<1> USE DEF ListInv
<1>1. /\ UNCHANGED <<head, next, name, order, waiting>> /\ w \in words[t]
      /\ pc[t] \in {"copy", "store"} /\ words'[t] = words[t] \ {w}
  <2>1. CASE Copy(t, w)
    BY <2>1 DEF Copy, list, history, Typed
  <2>2. CASE Store(t, w)
    BY <2>2 DEF Store, list, Typed
  <2> QED
    BY <2>1, <2>2
<1>2. Pushed' = Pushed
  BY <1>1 DEF Pushed
<1>3. CallOf(t) /\ LookupOf(t)
  BY DEF Calls, Lookups
<1>4. CASE words[t] # {w} \/ Copy(t, w)
  <2>1. /\ UNCHANGED <<want, cur, floor>>
        /\ \/ pc'[t] = pc[t] /\ words[t] # {w}
           \/ pc'[t] = "done" /\ pc[t] = "copy" /\ words[t] = {w}
    BY <1>4 DEF Copy, Store, Typed, history
  <2>2. CallOf(t)'
    BY <1>1, <1>3, <2>1 DEF CallOf, AtEntry
  <2>3. LookupOf(t)'
    BY <1>1, <1>2, <1>3, <2>1 DEF LookupOf, Reading, Looking, AtEntry
  <2> QED
    BY <2>2, <2>3
<1>5. CASE words[t] = {w} /\ Store(t, w)
  <2>1. Back(t) /\ words'[t] = {}
    BY <1>1, <1>5 DEF Store
  <2>2. \A i \in DOMAIN waiting'[t] : waiting'[t][i] \in Pushed' /\ name'[waiting'[t][i]] \in Name
    BY <1>1, WaitingKept
  <2> QED
    BY <2>1, <2>2, LookupsBack
<1> QED
  BY <1>4, <1>5

LEMMA LookupsReturn ==
  ASSUME ListInv, NEW t \in Thread, Still(t), Return(t)
  PROVE  CallOf(t)' /\ LookupOf(t)'
<1>1. Back(t) /\ words'[t] = {} /\ UNCHANGED waiting
  BY DEF Return, ListInv, Calls, CallOf
<1>2. \A i \in DOMAIN waiting'[t] : waiting'[t][i] \in Pushed' /\ name'[waiting'[t][i]] \in Name
  BY <1>1, WaitingKept
<1> QED
  BY <1>1, <1>2, LookupsBack

LEMMA LookupsEvaluate ==
  ASSUME ListInv, NEW t \in Thread, Still(t), Evaluate(t)
  PROVE  CallOf(t)' /\ LookupOf(t)'
<1> USE DEF ListInv
<1>1. /\ Back(t) /\ words'[t] = {} /\ pc[t] = "found"
      /\ UNCHANGED <<order, name>> /\ waiting'[t] = Append(waiting[t], cur[t])
  BY DEF Evaluate, list, Calls, CallOf, Typed
<1>2. CallOf(t) /\ LookupOf(t)
  BY DEF Calls, Lookups
<1>3. cur[t] \in Pushed /\ name[cur[t]] \in Name /\ cur[t] \in Entry
  BY <1>1, <1>2 DEF CallOf, LookupOf, Reading, AtEntry, Typed
<1>4. \A i \in DOMAIN Append(waiting[t], cur[t]) :
        \/ i \in DOMAIN waiting[t] /\ Append(waiting[t], cur[t])[i] = waiting[t][i]
        \/ Append(waiting[t], cur[t])[i] = cur[t]
  BY <1>3, AppendProperties, LenProperties DEF Typed
<1>5. Pushed' = Pushed
  BY <1>1 DEF Pushed
<1>6. \A i \in DOMAIN waiting'[t] : waiting'[t][i] \in Pushed' /\ name'[waiting'[t][i]] \in Name
  BY <1>1, <1>2, <1>3, <1>4, <1>5 DEF LookupOf
<1> QED
  BY <1>1, <1>6, LookupsBack

LEMMA LookupsCallStore ==
  ASSUME ListInv, NEW t \in Thread, Still(t), NEW v \in Val, CallStore(t, v)
  PROVE  CallOf(t)' /\ LookupOf(t)'
<1> USE DEF ListInv
<1> DEFINE e == waiting[t][Len(waiting[t])]
<1>1. /\ pc[t] = "idle" /\ pc'[t] = "store" /\ want'[t] = name[e] /\ cur'[t] = e
      /\ waiting[t] # <<>> /\ waiting'[t] = SubSeq(waiting[t], 1, Len(waiting[t]) - 1)
      /\ UNCHANGED <<order, name, floor>>
  BY DEF CallStore, Start, list, Typed
<1>2. CallOf(t) /\ LookupOf(t) /\ floor[t] = 0
  BY <1>1 DEF Calls, Lookups, LookupOf, Reading
<1>3. e \in Pushed /\ name[e] \in Name /\ e # 0
  <2>1. Len(waiting[t]) \in DOMAIN waiting[t] /\ e \in Entry
    BY <1>1, LastWaiting
  <2> QED
    BY <1>2, <2>1 DEF LookupOf, Entry
<1>4. \A i \in DOMAIN waiting'[t] : waiting'[t][i] \in Pushed' /\ name'[waiting'[t][i]] \in Name
  <2>1. \A i \in DOMAIN waiting'[t] : i \in DOMAIN waiting[t] /\ waiting'[t][i] = waiting[t][i]
    BY <1>1, LastWaiting
  <2> QED
    BY <2>1, WaitingKept
<1>5. Pushed' = Pushed
  BY <1>1 DEF Pushed
<1> HIDE DEF e
<1> QED
  BY <1>1, <1>2, <1>3, <1>4, <1>5 DEF CallOf, LookupOf, Reading, Looking, AtEntry
-------------------------------------------------------------------------------
(* The steps of def: an entry is made, is linked to the head there is, and *)
(* becomes the head.                                                       *)
LEMMA DefKeeps ==
  ASSUME ListInv, NEW t \in Thread, NEW x \in Name, NEW v, CallDef(t, x, v)
  PROVE  Calls' /\ Private' /\ Ordered' /\ Whole' /\ Lookups'
<1> USE DEF ListInv
<1>1. /\ pc[t] = "idle" /\ used + 1 \in Entry /\ used \in Nat /\ used' = used + 1
      /\ UNCHANGED <<head, next, words, waiting, order, lost, floor>>
      /\ pc'[t] = "link" /\ want'[t] = x /\ cur'[t] = used + 1
      /\ name'[used + 1] = x /\ \A e \in Entry \ {used + 1} : name'[e] = name[e]
  <2>1. used < limits.entries /\ used \in 0 .. MaxEntries /\ limits.entries \in 0 .. MaxEntries
    BY SharedAssumption DEF CallDef, Typed
  <2>2. used + 1 \in Entry /\ used \in Nat
    BY <2>1, SharedAssumption DEF Entry
  <2> QED
    BY <2>2 DEF CallDef, Start, Typed, history
<1>2. \A u \in Thread \ {t} : pc'[u] = pc[u] /\ want'[u] = want[u] /\ cur'[u] = cur[u]
  BY DEF CallDef, Start, Typed
<1>3. Pushed' = Pushed /\ Kept' = Kept /\ \A p : List(p)' = List(p)
  BY <1>1 DEF Pushed, Kept, List
<1>4. Pushed \subseteq Entry /\ used + 1 \notin Pushed
  <2>1. \A i \in DOMAIN order : order[i] \in Entry
    BY LenProperties, ElementOfSeq DEF Typed
  <2>2. used + 1 \notin Pushed
    BY <1>1 DEF Private
  <2> QED
    BY <2>1, <2>2 DEF Pushed
<1>5. \A e \in Pushed : name'[e] = name[e]
  BY <1>1, <1>4
<1>6. words[t] = {} /\ floor[t] = 0
  BY <1>1 DEF Calls, CallOf, Lookups, LookupOf, Reading
<1>7. \A u \in Thread \ {t} : Filling(u) => cur[u] # used + 1 /\ name'[cur[u]] = name[cur[u]]
  <2> SUFFICES ASSUME NEW u \in Thread \ {t}, Filling(u)
               PROVE  cur[u] # used + 1 /\ name'[cur[u]] = name[cur[u]]
    OBVIOUS
  <2>1. cur[u] \in Entry /\ cur[u] <= used
    BY DEF Private
  <2> QED
    BY <1>1, <2>1 DEF Entry
<1>8. Calls'
  <2>1. ASSUME NEW u \in Thread \ {t} PROVE CallOf(u)'
    <3>1. CallOf(u) /\ LookupOf(u)
      BY DEF Calls, Lookups
    <3>2. AtEntry(u) \/ pc[u] = "store" => name'[cur[u]] = name[cur[u]]
      BY <1>5, <3>1 DEF CallOf, LookupOf, AtEntry, Reading
    <3> QED
      BY <1>1, <1>2, <3>1, <3>2 DEF CallOf, AtEntry
  <2>2. CallOf(t)'
    BY <1>1, <1>6 DEF CallOf, AtEntry
  <2> QED
    BY <2>1, <2>2 DEF Calls
<1>9. Private'
  <2>1. \A e \in Pushed : e <= used + 1
    <3>1. \A e \in Pushed : e <= used
      BY DEF Private
    <3>2. Pushed \subseteq Int /\ used \in Int
      BY <1>1, <1>4 DEF Entry
    <3> SUFFICES ASSUME NEW e \in Pushed PROVE e <= used + 1
      OBVIOUS
    <3>3. e \in Int /\ e <= used
      BY <3>1, <3>2
    <3> HIDE DEF ListInv
    <3> QED
      BY ONLY <3>2, <3>3
  <2>2. ASSUME NEW u \in Thread, Filling(u)'
        PROVE  /\ cur'[u] \in Entry /\ cur'[u] <= used' /\ cur'[u] \notin Pushed
               /\ name'[cur'[u]] = want'[u]
               /\ \A z \in Thread : Filling(z)' /\ cur'[z] = cur'[u] => z = u
    <3>1. \A z \in Thread \ {t} : Filling(z)' => Filling(z) /\ cur'[z] = cur[z] /\ cur[z] # used + 1
      BY <1>2, <1>7 DEF Filling
    <3>2. CASE u = t
      BY <1>1, <1>4, <3>1, <3>2
    <3>3. CASE u # t
      <4>1. /\ cur[u] \in Entry /\ cur[u] <= used /\ cur[u] \notin Pushed /\ name[cur[u]] = want[u]
            /\ \A z \in Thread : Filling(z) /\ cur[z] = cur[u] => z = u
        BY <2>2, <3>1, <3>3, Zenon DEF Private
      <4>2. cur[u] <= used + 1
        BY <1>1, <4>1 DEF Entry
      <4> QED
        BY <1>1, <1>2, <1>7, <2>2, <3>1, <3>3, <4>1, <4>2
    <3> QED
      BY <3>2, <3>3
  <2> QED
    BY <1>1, <1>3, <2>1, <2>2 DEF Private
<1>10. Ordered'
  BY <1>1, <1>2, <1>3 DEF Ordered
<1>11. Whole'
  <2>1. ASSUME NEW u \in Thread, pc'[u] = "publish"
        PROVE  pc[u] = "publish" /\ cur'[u] = cur[u]
    BY <1>1, <1>2, <2>1
  <2> QED
    BY <1>1, <1>3, <2>1 DEF Whole
<1>12. ASSUME NEW u \in Thread PROVE LookupOf(u)'
  <2>1. LookupOf(u)
    BY DEF Lookups
  <2>2. \A i \in DOMAIN waiting'[u] : waiting'[u][i] \in Pushed' /\ name'[waiting'[u][i]] \in Name
    BY <1>1, <1>3, <1>5, <2>1 DEF LookupOf
  <2>3. CASE u = t
    BY <1>1, <1>6, <2>2, <2>3 DEF LookupOf, Reading, Looking, AtEntry
  <2>4. CASE u # t
    <3>1. /\ pc'[u] = pc[u] /\ want'[u] = want[u] /\ cur'[u] = cur[u] /\ floor'[u] = floor[u]
          /\ order' = order
      BY <1>1, <1>2, <2>4
    <3>2. List(cur[u])' = List(cur[u])
      BY <1>1, <3>1 DEF List
    <3>3. floor[u] # 0 => name'[floor[u]] = name[floor[u]]
      BY <1>5, <2>1 DEF LookupOf
    <3> QED
      BY <1>3, <2>1, <2>2, <3>1, <3>2, <3>3 DEF LookupOf, Reading, Looking, AtEntry
  <2> QED
    BY <2>3, <2>4
<1> QED
  BY <1>8, <1>9, <1>10, <1>11, <1>12 DEF Lookups

LEMMA PushedEntries ==
  ASSUME Typed
  PROVE  Pushed \subseteq Entry
<1>1. \A i \in DOMAIN order : order[i] \in Entry
  BY LenProperties, ElementOfSeq DEF Typed
<1> QED
  BY <1>1 DEF Pushed

LEMMA ListPushed ==
  ASSUME Typed, Ordered, NEW p \in Pushed \cup {0}
  PROVE  List(p) \subseteq Pushed
<1>1. CASE p \in Pushed
  BY <1>1, Split DEF Pushed
<1>2. CASE p = 0
  <2>1. List(0) = {}
    BY ReachNil DEF List, Typed
  <2> QED
    BY <1>2, <2>1
<1> QED
  BY <1>1, <1>2

LEMMA LinkKeeps ==
  ASSUME ListInv, Typed', NEW t \in Thread, Link(t)
  PROVE  Calls' /\ Private' /\ Ordered' /\ Whole' /\ Lookups'
<1> USE DEF ListInv
<1>1. /\ pc[t] = "link"
      /\ UNCHANGED <<head, name, used, want, cur, words, waiting, order, lost, floor>>
      /\ next'[cur[t]] = head /\ \A e \in Entry \ {cur[t]} : next'[e] = next[e]
      /\ pc'[t] = "publish" /\ \A u \in Thread \ {t} : pc'[u] = pc[u]
      /\ cur[t] \in Entry /\ cur[t] \notin Pushed
  BY DEF Link, Typed, history, Private, Filling
<1>2. Pushed' = Pushed /\ Kept' = Kept
  BY <1>1 DEF Pushed, Kept
<1>3. \A e \in Pushed : next'[e] = next[e]
  BY <1>1, PushedEntries
<1>4. ASSUME NEW p \in Pushed \cup {0} PROVE Reach(p, next', 0) = List(p)
  <2>1. next \in [Entry -> Entry \cup {0}] /\ next' \in [Entry -> Entry \cup {0}] /\ p \in Entry \cup {0}
    BY PushedEntries DEF Typed, Entry
  <2>2. \A a \in Reach(p, next, 0) : next'[a] = next[a]
    BY <1>3, ListPushed DEF List
  <2> QED
    BY <2>1, <2>2, ReachSame DEF List
<1>5. \A u \in Thread : /\ Filling(u)' = Filling(u) /\ Reading(u)' = Reading(u)
                       /\ Looking(u)' = Looking(u) /\ AtEntry(u)' = AtEntry(u)
  BY <1>1 DEF Filling, Reading, Looking, AtEntry
<1>6. Calls'
  BY <1>1, <1>5 DEF Calls, CallOf
<1>7. Private'
  BY <1>1, <1>2, <1>5 DEF Private
<1>8. \A u \in Thread : pc[u] = "publish" => u # t /\ cur[u] \in Entry /\ cur[u] # cur[t]
  BY <1>1 DEF Private, Filling
<1>9. Ordered'
  <2>1. \A i \in DOMAIN order : next'[order[i]] # 0 =>
          \E j \in DOMAIN order : j < i /\ next'[order[i]] = order[j]
    BY <1>3 DEF Ordered, Pushed
  <2>2. ASSUME NEW u \in Thread, pc'[u] = "publish", next'[cur[u]] # 0 PROVE next'[cur[u]] \in Pushed
    <3>1. CASE u = t
      BY <1>1, <2>2, <3>1 DEF Ordered
    <3>2. CASE u # t
      BY <1>1, <1>8, <2>2, <3>2 DEF Ordered
    <3> QED
      BY <3>1, <3>2
  <2> QED
    BY <1>1, <1>2, <2>1, <2>2 DEF Ordered
<1>10. Kept \subseteq Reach(head, next', 0)
  <2>1. head \in Pushed \cup {0}
    BY DEF Ordered
  <2> QED
    BY <2>1, <1>4 DEF Whole
<1>11. Whole'
  <2>1. ASSUME NEW u \in Thread, pc'[u] = "publish" PROVE Kept \subseteq Reach(next'[cur[u]], next', 0)
    <3>1. CASE u = t
      BY <1>1, <1>10, <3>1
    <3>2. CASE u # t
      <4>1. pc[u] = "publish" /\ next'[cur[u]] = next[cur[u]]
        BY <1>1, <1>8, <2>1, <3>2
      <4>2. next[cur[u]] \in Pushed \cup {0}
        BY <4>1 DEF Ordered
      <4> QED
        BY <4>1, <4>2, <1>4 DEF Whole
    <3> QED
      BY <3>1, <3>2
  <2> QED
    BY <1>1, <1>2, <1>10, <2>1 DEF Whole, List
<1>12. ASSUME NEW u \in Thread PROVE LookupOf(u)'
  <2>1. LookupOf(u)
    BY DEF Lookups
  <2>2. Looking(u) /\ floor[u] # 0 => floor[u] \in Reach(cur[u], next', 0)
    <3>1. Looking(u) => cur[u] \in Pushed \cup {0}
      BY <2>1 DEF LookupOf, Looking, Reading
    <3> QED
      BY <2>1, <3>1, <1>4 DEF LookupOf
  <2>3. pc'[u] = "missed" => pc[u] = "missed"
    BY <1>1
  <2>4. List(cur[u])' = Reach(cur[u], next', 0)
    BY <1>1 DEF List
  <2> QED
    BY <1>1, <1>2, <1>5, <2>1, <2>2, <2>3, <2>4 DEF LookupOf
<1> QED
  BY <1>6, <1>7, <1>9, <1>11, <1>12 DEF Lookups

LEMMA PublishKeeps ==
  ASSUME ListInv, Typed', NEW t \in Thread, Publish(t)
  PROVE  Calls' /\ Private' /\ Ordered' /\ Whole' /\ Lookups'
<1> USE DEF ListInv
<1> DEFINE e == cur[t]
           n == Len(order)
<1>1. /\ pc[t] = "publish" /\ UNCHANGED <<next, name, used, words, waiting>> /\ head' = e
      /\ pc'[t] = "idle" /\ floor'[t] = 0 /\ words[t] = {}
      /\ \A u \in Thread \ {t} : /\ pc'[u] = pc[u] /\ want'[u] = want[u] /\ cur'[u] = cur[u]
                                /\ floor'[u] = floor[u]
  <2>1. pc[t] = "publish" /\ UNCHANGED <<next, name, used, words, waiting>> /\ head' = e /\ Back(t)
    BY DEF Publish
  <2>2. words[t] = {}
    BY <2>1 DEF Calls, CallOf
  <2> QED
    BY <2>1, <2>2 DEF Back, Typed
<1>2. /\ e \in Entry /\ e # 0 /\ e <= used /\ e \notin Pushed /\ name[e] = want[t]
      /\ \A u \in Thread : Filling(u) /\ cur[u] = e => u = t
  BY <1>1 DEF Private, Filling, Entry
<1>3. /\ order \in Seq(Entry) /\ n \in Nat /\ DOMAIN order = 1 .. n /\ DOMAIN order' = 1 .. n + 1
      /\ order'[n + 1] = e /\ \A i \in 1 .. n : order'[i] = order[i]
  BY <1>2, AppendProperties, LenProperties DEF Publish, Typed
<1>4. Pushed' = Pushed \cup {e}
  <2>1. 1 .. n + 1 = (1 .. n) \cup {n + 1}
    BY <1>3
  <2> HIDE DEF n, e
  <2> QED
    BY <1>3, <2>1 DEF Pushed
<1>5. lost \subseteq lost' /\ lost' \subseteq lost \cup {e} /\ Kept' \subseteq Kept \cup {e}
  BY <1>4 DEF Publish, Kept
<1>6. (\E u \in Thread \ {t} : pc[u] = "publish") => Kept' \subseteq Kept
  BY <1>4, <1>5 DEF Publish, Kept
<1>7. \A p : List(p)' = List(p)
  BY <1>1 DEF List
<1> HIDE DEF e, n
<1>8. List(e) = {e} \cup List(next[e])
  BY <1>2, ListBehind
<1>9. Calls'
  BY <1>1 DEF Calls, CallOf, AtEntry
<1>10. Private'
  <2>1. ASSUME NEW i \in 1 .. n + 1, NEW j \in 1 .. n + 1, order'[i] = order'[j] PROVE i = j
    <3>1. \A k \in 1 .. n : order'[k] \in Pushed
      BY <1>3 DEF Pushed
    <3>2. CASE i \in 1 .. n /\ j \in 1 .. n
      BY <1>3, <2>1, <3>2 DEF Private
    <3>3. CASE i = n + 1 /\ j = n + 1
      BY <3>3
    <3>4. ~ (i = n + 1 /\ j \in 1 .. n) /\ ~ (j = n + 1 /\ i \in 1 .. n)
      BY <1>2, <1>3, <2>1, <3>1
    <3> QED
      BY <1>3, <3>2, <3>3, <3>4
  <2>2. \A f \in Pushed' : f <= used'
    BY <1>1, <1>2, <1>4 DEF Private
  <2>3. lost' \subseteq Pushed'
    BY <1>4, <1>5 DEF Private
  <2>4. \A u \in Thread : Filling(u)' => Filling(u) /\ u # t /\ cur'[u] = cur[u] /\ want'[u] = want[u]
    BY <1>1 DEF Filling
  <2>5. ASSUME NEW u \in Thread, Filling(u)'
        PROVE  /\ cur'[u] \in Entry /\ cur'[u] <= used' /\ cur'[u] \notin Pushed'
               /\ name'[cur'[u]] = want'[u]
               /\ \A z \in Thread : Filling(z)' /\ cur'[z] = cur'[u] => z = u
    BY <1>1, <1>2, <1>4, <2>4, <2>5 DEF Private
  <2> QED
    BY <1>3, <2>1, <2>2, <2>3, <2>5 DEF Private
<1>11. next[e] # 0 => next[e] \in Pushed
  BY <1>1 DEF Ordered, e
<1>12. Ordered'
  <2>1. ASSUME NEW i \in 1 .. n + 1, next[order'[i]] # 0
        PROVE  \E j \in 1 .. n + 1 : j < i /\ next[order'[i]] = order'[j]
    <3>1. CASE i \in 1 .. n
      <4>1. PICK j \in 1 .. n : j < i /\ next[order[i]] = order[j]
        BY <1>3, <2>1, <3>1 DEF Ordered
      <4>2. order'[j] = order[j] /\ order'[i] = order[i] /\ j \in 1 .. n + 1
        BY <1>3, <3>1
      <4> QED
        BY <4>1, <4>2
    <3>2. CASE i = n + 1
      <4>1. PICK j \in 1 .. n : next[e] = order[j]
        BY <1>3, <1>11, <2>1, <3>2 DEF Pushed
      <4>2. order'[j] = order[j] /\ order'[i] = e /\ j \in 1 .. n + 1 /\ j < i
        BY <1>3, <3>2
      <4> QED
        BY <4>1, <4>2
    <3> QED
      BY <1>3, <3>1, <3>2
  <2>2. \A u \in Thread : pc'[u] = "publish" => pc[u] = "publish" /\ cur'[u] = cur[u]
    BY <1>1
  <2> QED
    BY <1>1, <1>3, <1>4, <2>1, <2>2 DEF Ordered
<1>13. Whole'
  <2>1. Kept' \subseteq List(e)
    BY <1>1, <1>5, <1>8 DEF Whole, e
  <2>2. ASSUME NEW u \in Thread, pc'[u] = "publish"
        PROVE  Kept' \subseteq List(next[cur[u]]) /\ cur'[u] = cur[u]
    <3>1. u # t /\ pc[u] = "publish" /\ cur'[u] = cur[u]
      BY <1>1, <2>2
    <3> QED
      BY <1>6, <3>1 DEF Whole
  <2> QED
    BY <1>1, <2>1, <2>2 DEF Whole, List
<1>14. ASSUME NEW u \in Thread PROVE LookupOf(u)'
  <2>1. LookupOf(u)
    BY DEF Lookups
  <2>2. \A i \in DOMAIN waiting'[u] : waiting'[u][i] \in Pushed' /\ name'[waiting'[u][i]] \in Name
    BY <1>1, <1>4, <2>1 DEF LookupOf
  <2>3. CASE u = t
    BY <1>1, <2>2, <2>3 DEF LookupOf, Reading, Looking, AtEntry
  <2>4. CASE u # t
    <3>1. /\ pc'[u] = pc[u] /\ want'[u] = want[u] /\ cur'[u] = cur[u] /\ floor'[u] = floor[u]
          /\ name' = name
      BY <1>1, <2>4
    <3>2. List(cur[u])' = List(cur[u])
      BY <1>1, <3>1 DEF List
    <3>3. ASSUME AtEntry(u), floor[u] # 0
          PROVE  \E i, j \in 1 .. n + 1 : i <= j /\ floor[u] = order'[i] /\ cur[u] = order'[j]
      <4>1. PICK i, j \in 1 .. n : i <= j /\ floor[u] = order[i] /\ cur[u] = order[j]
        BY <1>3, <2>1, <3>3 DEF LookupOf
      <4>2. order'[i] = order[i] /\ order'[j] = order[j] /\ i \in 1 .. n + 1 /\ j \in 1 .. n + 1
        BY <1>3
      <4> QED
        BY <4>1, <4>2
    <3>4. AtEntry(u)' = AtEntry(u) /\ Reading(u)' = Reading(u) /\ Looking(u)' = Looking(u)
      BY <3>1 DEF AtEntry, Reading, Looking
    <3>5. AtEntry(u)' /\ floor'[u] # 0 =>
            \E i, j \in DOMAIN order' : i <= j /\ floor'[u] = order'[i] /\ cur'[u] = order'[j]
      BY ONLY <1>3, <3>1, <3>3, <3>4
    <3> QED
      BY <1>4, <2>1, <2>2, <3>1, <3>2, <3>4, <3>5 DEF LookupOf
  <2> QED
    BY <2>3, <2>4
<1> QED
  BY <1>9, <1>10, <1>12, <1>13, <1>14 DEF Lookups
-------------------------------------------------------------------------------
LEMMA ListInit == Init => ListInv
<1> SUFFICES ASSUME Init PROVE ListInv
  OBVIOUS
<1>1. Typed
  BY TypedInit
<1>2. DOMAIN order = {} /\ Pushed = {} /\ Kept = {}
  BY DEF Init, Pushed, Kept
<1>3. Calls /\ Private
  BY <1>2 DEF Init, Calls, CallOf, AtEntry, Private, Filling
<1>4. Ordered /\ Whole
  BY <1>2 DEF Init, Ordered, Whole
<1>5. Lookups
  BY <1>2 DEF Init, Lookups, LookupOf, Reading, Looking, AtEntry
<1> QED
  BY <1>1, <1>3, <1>4, <1>5 DEF ListInv

LEMMA ListStep ==
  ASSUME ListInv, NEW t \in Thread, Step(t), UNCHANGED limits
  PROVE  ListInv'
<1>1. Typed'
  BY TypedNext DEF ListInv
<1>2. CASE \E x \in Name, v \in Val \cup {Junk} : CallDef(t, x, v)
  BY <1>1, <1>2, DefKeeps DEF ListInv
<1>3. CASE Link(t)
  BY <1>1, <1>3, LinkKeeps DEF ListInv
<1>4. CASE Publish(t)
  BY <1>1, <1>4, PublishKeeps DEF ListInv
<1>5. CASE Reads(t)
  <2>1. Still(t)
    BY <1>5, ReadersAreStill, Zenon DEF ListInv
  <2>2. Private' /\ Ordered' /\ Whole'
    BY <2>1, StillKeeps, Zenon DEF ListInv
  <2>3. CallOf(t)' /\ LookupOf(t)'
    BY <1>5, <2>1, LookupsGet, LookupsWalk, LookupsEnd, LookupsMove, LookupsReturn,
       LookupsEvaluate, LookupsCallStore DEF Reads, CallGet, CallSet
  <2>4. \A u \in Thread \ {t} : CallOf(u)' /\ LookupOf(u)'
    BY <2>1, OthersLookups DEF ListInv
  <2> QED
    BY <1>1, <2>2, <2>3, <2>4 DEF ListInv, Calls, Lookups
<1> QED
  BY <1>2, <1>3, <1>4, <1>5, Zenon DEF Step, Reads

LEMMA ListNext == ListInv /\ [Next]_vars => ListInv'
<1> SUFFICES ASSUME ListInv, [Next]_vars PROVE ListInv'
  OBVIOUS
<1>1. CASE UNCHANGED vars
  <2>1. UNCHANGED <<limits, head, next, name, used, box, pc, want, val, cur, words, copy, waiting,
                    order, lost, floor, upset, own>>
    BY <1>1 DEF vars, list, locals, history
  <2>2. Typed' /\ Calls' /\ Lookups'
    BY <2>1 DEF ListInv, Typed, Calls, CallOf, Lookups, LookupOf, Reading, Looking, AtEntry,
       Pushed, List
  <2>3. Private' /\ Ordered' /\ Whole'
    BY <2>1 DEF ListInv, Private, Ordered, Whole, Filling, Pushed, Kept, List
  <2> QED
    BY <2>2, <2>3 DEF ListInv
<1>2. CASE Next
  BY <1>2, ListStep DEF Next
<1> QED
  BY <1>1, <1>2

THEOREM SharedTypeCorrect == Spec => []ListInv
  BY ListInit, ListNext, PTL DEF Spec

LEMMA AgeIs ==
  ASSUME Private, NEW i \in DOMAIN order
  PROVE  Age(order[i]) = i
  BY DEF Private, Age

(* A lookup ends at an entry that is at least as new as the newest there   *)
(* was when it began.                                                      *)
THEOREM LookupFindsNewest == Spec => []FindsNewest
<1>1. ListInv => FindsNewest
  <2> SUFFICES ASSUME ListInv, NEW t \in Thread
               PROVE  /\ pc[t] = "missed" => floor[t] = 0
                      /\ AtEntry(t) /\ floor[t] # 0 => Age(cur[t]) >= Age(floor[t])
    BY DEF FindsNewest, AtEntry
  <2>1. ASSUME AtEntry(t), floor[t] # 0 PROVE Age(cur[t]) >= Age(floor[t])
    <3>1. PICK i, j \in DOMAIN order : i <= j /\ floor[t] = order[i] /\ cur[t] = order[j]
      BY <2>1 DEF ListInv, Lookups, LookupOf
    <3>2. Age(floor[t]) = i /\ Age(cur[t]) = j
      BY <3>1, AgeIs DEF ListInv
    <3>3. i \in Nat /\ j \in Nat
      BY LenProperties DEF ListInv, Typed
    <3> QED
      BY <3>1, <3>2, <3>3
  <2> QED
    BY <2>1 DEF ListInv, Lookups, LookupOf
<1> QED
  BY <1>1, SharedTypeCorrect, PTL
-------------------------------------------------------------------------------
(* The newest entry of a name stays so until one of that name is pushed.   *)
LEMMA NewestSame ==
  ASSUME Typed, NEW x, Of(x)' = Of(x), \A i \in Of(x) : order'[i] = order[i]
  PROVE  Newest(x)' = Newest(x)
<1> DEFINE m == CHOOSE i \in Of(x) : \A j \in Of(x) : j <= i
<1>1. Newest(x) = IF Of(x) = {} THEN 0 ELSE order[m]
  BY Zenon DEF Newest, Of
<1>2. Newest(x)' = IF Of(x)' = {} THEN 0 ELSE order'[m']
  BY Zenon DEF Newest, Of
<1>3. m' = m
  OBVIOUS
<1>4. Of(x) # {} => m \in Of(x)
  <2>1. Of(x) \in SUBSET (1 .. Len(order)) /\ Len(order) \in Nat
    BY LenProperties DEF Of, Typed
  <2>2. Of(x) # {} => \E i \in Of(x) : \A j \in Of(x) : j <= i
    BY <2>1, Greatest
  <2> QED
    BY <2>2, Zenon
<1> HIDE DEF m
<1> QED
  BY <1>1, <1>2, <1>3, <1>4

(* ... that is, through every step that is not the end of a push of it. *)
LEMMA StillNames ==
  ASSUME NEW t, Still(t), NEW x
  PROVE  Newest(x)' = Newest(x) /\ NoneLost(x)' = NoneLost(x)
  BY DEF Still, Newest, NoneLost

LEMMA DefNames ==
  ASSUME ListInv, NEW t \in Thread, NEW y, NEW v, CallDef(t, y, v), NEW x
  PROVE  /\ Newest(x)' = Newest(x) /\ NoneLost(x)' = NoneLost(x)
         /\ \A e \in Pushed : name'[e] = name[e] /\ box'[e] = box[e]
<1>1. /\ UNCHANGED <<order, lost>> /\ used \in Nat
      /\ \A e \in Entry \ {used + 1} : name'[e] = name[e] /\ box'[e] = box[e]
  BY DEF CallDef, ListInv, Typed, history
<1>2. \A e \in Pushed : name'[e] = name[e] /\ box'[e] = box[e]
  <2>1. \A e \in Pushed : e \in Entry /\ e # used + 1
    BY <1>1, PushedEntries DEF ListInv, Private
  <2> QED
    BY <1>1, <2>1
<1>3. \A i \in DOMAIN order : order[i] \in Pushed
  BY DEF Pushed
<1>4. Of(x)' = Of(x)
  BY <1>1, <1>2, <1>3 DEF Of
<1>5. Newest(x)' = Newest(x)
  BY <1>1, <1>4, NewestSame DEF ListInv
<1>6. NoneLost(x)' = NoneLost(x)
  BY <1>1, <1>2 DEF NoneLost, ListInv, Private
<1> QED
  BY <1>2, <1>5, <1>6

LEMMA PublishNames ==
  ASSUME ListInv, NEW t \in Thread, Publish(t), NEW x, x # want[t]
  PROVE  Newest(x)' = Newest(x) /\ NoneLost(x)' = NoneLost(x)
<1> DEFINE e == cur[t]
           n == Len(order)
<1>1. name' = name /\ pc[t] = "publish" /\ lost \subseteq lost' /\ lost' \subseteq lost \cup {e}
  BY DEF Publish
<1>2. e \in Entry /\ e \notin Pushed /\ name[e] = want[t]
  BY <1>1 DEF ListInv, Private, Filling
<1>3. /\ order \in Seq(Entry) /\ n \in Nat /\ DOMAIN order = 1 .. n /\ DOMAIN order' = 1 .. n + 1
      /\ order'[n + 1] = e /\ \A i \in 1 .. n : order'[i] = order[i]
  BY <1>2, AppendProperties, LenProperties DEF Publish, ListInv, Typed
<1> HIDE DEF e, n
<1>4. \A i \in 1 .. n : order[i] \in Pushed
  BY <1>3 DEF Pushed
<1>5. 1 .. n + 1 = (1 .. n) \cup {n + 1}
  BY <1>3
<1>6. \A i \in 1 .. n : order[i] \notin lost <=> order'[i] \notin lost'
  BY <1>1, <1>2, <1>3, <1>4
<1>7. Of(x)' = Of(x)
  BY <1>1, <1>2, <1>3, <1>5, <1>6 DEF Of
<1>8. Newest(x)' = Newest(x)
  BY <1>3, <1>7, NewestSame DEF ListInv, Of
<1>9. NoneLost(x)' = NoneLost(x)
  BY <1>1, <1>2 DEF NoneLost
<1> QED
  BY <1>8, <1>9

(* A lookup of a name that no race has touched ends at the newest entry.   *)
LEMMA LookupExact ==
  ASSUME ListInv, NEW t \in Thread, Looking(t), cur[t] # 0, name[cur[t]] = want[t],
         NEW x, x = want[t], floor[t] = Newest(x), NoneLost(x)
  PROVE  cur[t] = Newest(x)
<1>1. /\ Typed /\ Ordered /\ order \in Seq(Entry) /\ LookupOf(t)
      /\ \A i, j \in DOMAIN order : order[i] = order[j] => i = j
  BY DEF ListInv, Typed, Private, Lookups
<1>2. PICK j \in DOMAIN order : cur[t] = order[j]
  BY <1>1 DEF LookupOf, Looking, Reading, Pushed
<1>3. j \in Of(x)
  BY <1>2 DEF Of, NoneLost
<1>4. PICK m \in Of(x) : Newest(x) = order[m] /\ \A k \in Of(x) : k <= m
  BY <1>1, <1>3, NewestIs
<1>5. m \in DOMAIN order /\ order[m] # 0 /\ DOMAIN order \subseteq Nat
  <2>1. \A i \in DOMAIN order : order[i] \in Entry
    BY <1>1, LenProperties, ElementOfSeq
  <2>2. DOMAIN order \subseteq Nat
    BY <1>1, LenProperties
  <2> QED
    BY <2>1, <2>2, <1>4 DEF Of, Entry
<1>6. Newest(x) \in List(order[j])
  BY <1>1, <1>2, <1>4, <1>5 DEF LookupOf
<1>7. PICK i \in 1 .. j : Newest(x) = order[i]
  BY <1>1, <1>6, OlderBehind
<1>8. i \in DOMAIN order
  <2>1. DOMAIN order = 1 .. Len(order) /\ Len(order) \in Nat
    BY <1>1, LenProperties
  <2> QED
    BY <2>1
<1>9. i = m
  BY <1>1, <1>4, <1>5, <1>7, <1>8
<1>10. j <= m /\ m <= j
  BY <1>3, <1>4, <1>5, <1>7, <1>9
<1>11. j = m
  BY ONLY <1>5, <1>10
<1> QED
  BY <1>2, <1>4, <1>11
-------------------------------------------------------------------------------
(* A thread that a step leaves where it is stays sure of a name. *)
LEMMA SureSame ==
  ASSUME NEW u, NEW x, Sure(u, x),
         Newest(x)' = Newest(x), NoneLost(x)' = NoneLost(x), upset[u] \subseteq upset'[u],
         pc'[u] = pc[u], want'[u] = want[u], cur'[u] = cur[u], floor'[u] = floor[u],
         waiting'[u] = waiting[u],
         \A i \in DOMAIN waiting[u] : name'[waiting[u][i]] = name[waiting[u][i]]
  PROVE  Sure(u, x)'
<1>1. Relied(u, x)' => Relied(u, x)
  BY DEF Relied
<1> QED
  BY <1>1 DEF Sure

(* So does one that is not about to assign, of the names it waits for. *)
LEMMA SureRest ==
  ASSUME NEW t, Still(t), NEW x, Sure(t, x), pc'[t] \notin {"set", "found"},
         \A i \in DOMAIN waiting'[t] :
           i \in DOMAIN waiting[t] /\ waiting'[t][i] = waiting[t][i] /\ upset'[t] = upset[t]
  PROVE  Sure(t, x)'
<1>1. Newest(x)' = Newest(x) /\ NoneLost(x)' = NoneLost(x) /\ name' = name
  BY StillNames DEF Still
<1>2. ASSUME NEW i \in DOMAIN waiting'[t], Relied(t, x)', name[waiting'[t][i]] = x
      PROVE  waiting'[t][i] = Newest(x)
  BY <1>1, <1>2 DEF Relied, Sure
<1> QED
  BY <1>1, <1>2 DEF Sure

LEMMA SureReads ==
  ASSUME ListInv, NEW t \in Thread, Still(t), Reads(t), NEW x \in Name, Sure(t, x)
  PROVE  Sure(t, x)'
<1>1. /\ Newest(x)' = Newest(x) /\ NoneLost(x)' = NoneLost(x) /\ name' = name /\ Typed
  BY StillNames DEF Still, ListInv
<1>2. CASE \E y \in Name : CallGet(t, y)
  BY <1>1, <1>2, SureRest DEF CallGet, Lookup, Start, Typed
<1>3. CASE \E y \in Name : CallSet(t, y)
  <2>1. PICK y \in Name : CallSet(t, y)
    BY <1>3
  <2>2. pc'[t] = "set" /\ want'[t] = y /\ floor'[t] = Newest(y) /\ UNCHANGED <<waiting, upset>>
    BY <1>1, <2>1 DEF CallSet, Lookup, Start, Typed
  <2> QED
    BY <1>1, <2>2 DEF Sure, Relied
<1>4. CASE Walk(t)
  <2>1. pc[t] \in {"get", "set"} /\ UNCHANGED <<pc, want, floor, waiting, upset>>
    BY <1>4 DEF Walk, Looking, history
  <2> QED
    BY <1>1, <2>1 DEF Sure, Relied
<1>5. CASE Missing(t)
  <2>1. pc'[t] = "missed" /\ UNCHANGED <<waiting, upset>>
    BY <1>1, <1>5 DEF Missing, Typed, history
  <2> QED
    BY <2>1, SureRest
<1>6. CASE Found(t)
  <2>1. /\ Looking(t) /\ cur[t] # 0 /\ name[cur[t]] = want[t] /\ pc'[t] # "set"
        /\ pc'[t] = "found" => pc[t] = "set"
        /\ UNCHANGED <<want, cur, floor, waiting, upset>>
    BY <1>1, <1>6 DEF Found, Looking, Typed, history
  <2>2. Relied(t, x) /\ pc'[t] = "found" /\ want[t] = x => cur[t] = Newest(x)
    <3>1. Relied(t, x) /\ pc[t] = "set" /\ want[t] = x => floor[t] = Newest(x) /\ NoneLost(x)
      BY DEF Sure, Relied
    <3> QED
      BY <1>6, <2>1, <3>1, LookupExact DEF Found
  <2> QED
    BY <1>1, <2>1, <2>2 DEF Sure, Relied
<1>7. CASE Evaluate(t)
  <2>1. /\ pc[t] = "found" /\ pc'[t] = "idle" /\ UNCHANGED upset /\ cur[t] \in Entry
        /\ waiting'[t] = Append(waiting[t], cur[t]) /\ name[cur[t]] = want[t]
    BY <1>1, <1>7 DEF Evaluate, Back, ListInv, Calls, CallOf, AtEntry, Typed
  <2>2. \A i \in DOMAIN Append(waiting[t], cur[t]) :
          \/ i \in DOMAIN waiting[t] /\ Append(waiting[t], cur[t])[i] = waiting[t][i]
          \/ Append(waiting[t], cur[t])[i] = cur[t]
    BY <1>1, <2>1, AppendProperties, LenProperties DEF Typed
  <2>3. ASSUME Relied(t, x)', NEW i \in DOMAIN waiting'[t], name[waiting'[t][i]] = x
        PROVE  waiting'[t][i] = Newest(x)
    <3>1. Relied(t, x)
      BY <1>1, <2>1, <2>3 DEF Relied
    <3> QED
      BY <2>1, <2>2, <2>3, <3>1 DEF Sure
  <2> QED
    BY <1>1, <2>1, <2>3 DEF Sure
<1>8. CASE \E v \in Val : CallStore(t, v)
  <2>1. /\ pc'[t] = "store" /\ waiting[t] # <<>> /\ Forget(t)
        /\ waiting'[t] = SubSeq(waiting[t], 1, Len(waiting[t]) - 1)
    BY <1>1, <1>8 DEF CallStore, Start, Typed
  <2>2. waiting'[t] # <<>> => upset'[t] = upset[t]
    BY <1>1, <2>1 DEF Forget, Typed
  <2>3. waiting'[t] = <<>> => DOMAIN waiting'[t] = {}
    OBVIOUS
  <2>4. \A i \in DOMAIN waiting'[t] : i \in DOMAIN waiting[t] /\ waiting'[t][i] = waiting[t][i]
    BY <1>1, <2>1, LastWaiting
  <2> QED
    BY <2>1, <2>2, <2>3, <2>4, SureRest
<1>9. CASE \E w \in Word : Copy(t, w) \/ Store(t, w)
  <2>1. pc'[t] \notin {"set", "found"} /\ UNCHANGED <<waiting, upset>>
    <3>1. CASE \E w \in Word : Copy(t, w)
      BY <1>1, <3>1 DEF Copy, Typed, history
    <3>2. CASE \E w \in Word : Store(t, w)
      BY <1>1, <3>2 DEF Store, Back, Typed
    <3> QED
      BY <1>9, <3>1, <3>2
  <2> QED
    BY <2>1, SureRest
<1>10. CASE Return(t)
  <2>1. pc'[t] = "idle" /\ UNCHANGED waiting /\ Forget(t)
    BY <1>1, <1>10 DEF Return, Back, Typed
  <2>2. waiting'[t] # <<>> => upset'[t] = upset[t]
    BY <1>1, <2>1 DEF Forget, Typed
  <2>3. waiting'[t] = <<>> => DOMAIN waiting'[t] = {}
    OBVIOUS
  <2> QED
    BY <2>1, <2>2, <2>3, SureRest
<1> QED
  BY <1>2, <1>3, <1>4, <1>5, <1>6, <1>7, <1>8, <1>9, <1>10 DEF Reads

LEMMA AssignedInit == Init => Assigned
<1> SUFFICES ASSUME Init, NEW t \in Thread, NEW x \in Name PROVE Sure(t, x)
  BY DEF Assigned
<1>1. pc[t] = "idle" /\ waiting[t] = <<>>
  BY DEF Init
<1> QED
  BY <1>1 DEF Sure

LEMMA AssignedStep ==
  ASSUME ListInv, Assigned, NEW t \in Thread, Step(t)
  PROVE  Assigned'
<1> SUFFICES ASSUME NEW u \in Thread, NEW x \in Name PROVE Sure(u, x)'
  BY DEF Assigned
<1>1. Sure(u, x) /\ Typed /\ LookupOf(u)
  BY DEF Assigned, ListInv, Lookups
<1>2. CASE \E y \in Name, v \in Val \cup {Junk} : CallDef(t, y, v)
  <2>1. PICK y \in Name, v \in Val \cup {Junk} : CallDef(t, y, v)
    BY <1>2
  <2>2. /\ Newest(x)' = Newest(x) /\ NoneLost(x)' = NoneLost(x)
        /\ \A e \in Pushed : name'[e] = name[e]
    BY <2>1, DefNames
  <2>3. \A i \in DOMAIN waiting[u] : name'[waiting[u][i]] = name[waiting[u][i]]
    BY <1>1, <2>2 DEF LookupOf
  <2>4. UNCHANGED <<floor, waiting, upset>> /\ pc'[t] = "link"
    BY <1>1, <2>1 DEF CallDef, Start, Typed, history
  <2>5. CASE u = t
    BY <1>1, <2>2, <2>3, <2>4, <2>5 DEF Sure, Relied
  <2>6. CASE u # t
    <3>1. pc'[u] = pc[u] /\ want'[u] = want[u] /\ cur'[u] = cur[u]
      BY <1>1, <2>1, <2>6 DEF CallDef, Start, Typed
    <3> QED
      BY <1>1, <2>2, <2>3, <2>4, <3>1, SureSame
  <2> QED
    BY <2>5, <2>6
<1>3. CASE Link(t)
  <2>1. /\ UNCHANGED <<order, lost, name, want, cur, waiting, floor, upset>>
        /\ pc'[t] = "publish" /\ \A z \in Thread \ {t} : pc'[z] = pc[z]
    BY <1>1, <1>3 DEF Link, Typed, history
  <2>2. Newest(x)' = Newest(x) /\ NoneLost(x)' = NoneLost(x)
    BY <2>1 DEF Newest, NoneLost
  <2> QED
    BY <1>1, <2>1, <2>2 DEF Sure, Relied
<1>4. CASE Publish(t)
  <2>1. /\ name' = name /\ waiting' = waiting /\ pc[t] = "publish" /\ pc'[t] = "idle"
        /\ upset'[u] = IF Assigning(u) THEN upset[u] \cup {want[t]} ELSE upset[u]
        /\ u # t => /\ pc'[u] = pc[u] /\ want'[u] = want[u] /\ cur'[u] = cur[u]
                    /\ floor'[u] = floor[u]
    BY <1>1, <1>4 DEF Publish, Back, Typed
  <2>2. CASE ~ Assigning(u)
    <3>1. DOMAIN waiting[u] = {}
      BY <2>2 DEF Assigning
    <3>2. pc'[u] \notin {"set", "found"}
      BY <2>1, <2>2 DEF Assigning
    <3> QED
      BY <2>1, <3>1, <3>2 DEF Sure
  <2>3. CASE Assigning(u) /\ x = want[t]
    BY <2>1, <2>3 DEF Sure, Relied
  <2>4. CASE Assigning(u) /\ x # want[t]
    <3>1. Newest(x)' = Newest(x) /\ NoneLost(x)' = NoneLost(x)
      BY <1>4, <2>4, PublishNames
    <3>2. CASE u = t
      BY <1>1, <2>1, <2>4, <3>1, <3>2 DEF Sure, Relied
    <3>3. CASE u # t
      BY <1>1, <2>1, <2>4, <3>1, <3>3, SureSame
    <3> QED
      BY <3>2, <3>3
  <2> QED
    BY <2>2, <2>3, <2>4
<1>5. CASE Reads(t)
  <2>1. Still(t)
    BY <1>1, <1>5, ReadersAreStill
  <2>2. CASE u = t
    BY <1>1, <1>5, <2>1, <2>2, SureReads
  <2>3. CASE u # t
    BY <1>1, <2>1, <2>3, StillNames, SureSame DEF Still
  <2> QED
    BY <2>2, <2>3
<1> QED
  BY <1>2, <1>3, <1>4, <1>5, Zenon DEF Step, Reads
-------------------------------------------------------------------------------
(* What a thread knows of the name it set last stands when a step leaves   *)
(* the thread where it is, ...                                             *)
LEMMA OwnedSame ==
  ASSUME ListInv, NEW u \in Thread, NEW x, OwnedBy(u, x), own'[u] = own[u],
         Newest(x)' = Newest(x), NoneLost(x)' = NoneLost(x),
         pc'[u] = pc[u], want'[u] = want[u], val'[u] = val[u], cur'[u] = cur[u],
         words'[u] = words[u], copy'[u] = copy[u], floor'[u] = floor[u],
         Newest(x) # 0 => box'[Newest(x)] = box[Newest(x)]
  PROVE  OwnedBy(u, x)'
<1> SUFFICES ASSUME own[u].name = x PROVE OwnedBy(u, x)'
  BY DEF OwnedBy
<1>1. own[u].val \in Val /\ Storing(u, x) /\ Stored(u, x) /\ Fetching(u, x)
  BY DEF OwnedBy
<1>2. Storing(u, x)'
  <2>1. pc[u] = "store" => cur[u] # 0
    BY DEF ListInv, Calls, CallOf
  <2> QED
    BY <1>1, <2>1 DEF Storing
<1>3. Stored(u, x)'
  BY <1>1 DEF Stored
<1>4. Fetching(u, x)'
  BY <1>1 DEF Fetching, Reading, AtEntry
<1> QED
  BY <1>1, <1>2, <1>3, <1>4 DEF OwnedBy

(* ... and when its call neither looks up nor stores any more. *)
LEMMA OwnedRest ==
  ASSUME NEW u, NEW x, OwnedBy(u, x), own'[u] = own[u],
         Newest(x)' = Newest(x), NoneLost(x)' = NoneLost(x),
         pc[u] # "store", ~ Reading(u)', Newest(x) # 0 => box'[Newest(x)] = box[Newest(x)]
  PROVE  OwnedBy(u, x)'
<1> SUFFICES ASSUME own[u].name = x PROVE OwnedBy(u, x)'
  BY DEF OwnedBy
<1>1. own[u].val \in Val /\ Stored(u, x) /\ pc'[u] # "store"
  BY DEF OwnedBy, Reading
<1>2. Storing(u, x)' /\ Stored(u, x)' /\ Fetching(u, x)'
  BY <1>1 DEF Storing, Stored, Fetching
<1> QED
  BY <1>1, <1>2 DEF OwnedBy

(* The other threads, when t does not change the list. *)
LEMMA OthersOwned ==
  ASSUME ListInv, NEW t \in Thread, Still(t), NEW u \in Thread \ {t}, NEW x \in Name,
         OwnedBy(u, x),
         \/ own'[u] = own[u] /\ UNCHANGED box
         \/ own'[u] = Nothing
         \/ /\ own'[u] = own[u] /\ own[u].name # want[t]
            /\ cur[t] \in Entry /\ name[cur[t]] = want[t]
            /\ \A e \in Entry \ {cur[t]} : box'[e] = box[e]
  PROVE  OwnedBy(u, x)'
<1>1. CASE own'[u] = Nothing
  BY <1>1, SharedAssumption DEF OwnedBy, Nothing
<1>2. CASE own[u].name # x /\ own'[u] = own[u]
  BY <1>2 DEF OwnedBy
<1>3. CASE own'[u] = own[u] /\ own[u].name = x /\ own'[u] # Nothing
  <2>1. Newest(x) # 0 => Newest(x) \in Entry /\ name[Newest(x)] = x
    BY NewestTyped DEF ListInv
  <2>2. Newest(x) # 0 => box'[Newest(x)] = box[Newest(x)]
    BY <1>3, <2>1
  <2>3. Newest(x)' = Newest(x) /\ NoneLost(x)' = NoneLost(x)
    BY StillNames
  <2>4. /\ pc'[u] = pc[u] /\ want'[u] = want[u] /\ val'[u] = val[u] /\ cur'[u] = cur[u]
        /\ words'[u] = words[u] /\ copy'[u] = copy[u] /\ floor'[u] = floor[u]
    BY DEF Still
  <2> QED
    BY <1>3, <2>2, <2>3, <2>4, OwnedSame
<1> QED
  BY <1>1, <1>2, <1>3

LEMMA OwnedLookup ==
  ASSUME ListInv, NEW t \in Thread, Still(t), NEW x, OwnedBy(t, x),
         NEW y \in Name, NEW k \in {"get", "set"}, Lookup(t, k, y)
  PROVE  OwnedBy(t, x)'
<1>1. /\ UNCHANGED <<box, own>> /\ pc[t] = "idle" /\ pc'[t] = k /\ want'[t] = y
      /\ floor'[t] = Newest(y)
  BY DEF Lookup, Start, ListInv, Typed
<1>2. Newest(x)' = Newest(x) /\ NoneLost(x)' = NoneLost(x)
  BY StillNames
<1> QED
  BY <1>1, <1>2 DEF OwnedBy, Storing, Stored, Fetching, AtEntry

LEMMA OwnedWalk ==
  ASSUME NEW t \in Thread, Still(t), NEW x, OwnedBy(t, x), Walk(t)
  PROVE  OwnedBy(t, x)'
<1>1. UNCHANGED <<box, words, own, pc, want, copy, floor>> /\ pc[t] \in {"get", "set"}
  BY DEF Walk, Looking, history
<1>2. Newest(x)' = Newest(x) /\ NoneLost(x)' = NoneLost(x)
  BY StillNames
<1> QED
  BY <1>1, <1>2 DEF OwnedBy, Storing, Stored, Fetching, AtEntry, Reading

LEMMA OwnedMissing ==
  ASSUME ListInv, NEW t \in Thread, Still(t), NEW x, OwnedBy(t, x), Missing(t)
  PROVE  OwnedBy(t, x)'
<1>1. /\ UNCHANGED <<box, own, want, floor>> /\ pc'[t] = "missed"
      /\ pc[t] \in {"get", "set"} /\ cur[t] = 0
  BY DEF Missing, Looking, history, ListInv, Typed
<1>2. Newest(x)' = Newest(x) /\ NoneLost(x)' = NoneLost(x)
  BY StillNames
<1>3. floor[t] = 0
  <2>1. List(0) = {}
    BY ReachNil DEF List, ListInv, Typed
  <2> QED
    BY <1>1, <2>1 DEF ListInv, Lookups, LookupOf, Looking
<1>4. own[t].name = x => want[t] # x
  BY <1>1, <1>3 DEF OwnedBy, Stored, Fetching, Reading
<1> QED
  BY <1>1, <1>2, <1>4 DEF OwnedBy, Storing, Stored, Fetching

LEMMA OwnedFound ==
  ASSUME ListInv, NEW t \in Thread, Still(t), NEW x, OwnedBy(t, x), Found(t)
  PROVE  OwnedBy(t, x)'
<1>1. /\ UNCHANGED <<box, own, want, cur, copy, floor>> /\ Looking(t)
      /\ cur[t] # 0 /\ name[cur[t]] = want[t] /\ pc'[t] \in {"copy", "found", "unset"}
      /\ pc'[t] = "unset" => box[cur[t]] = Junk
      /\ pc'[t] = "copy" => words'[t] = Word
  BY DEF Found, history, ListInv, Typed
<1>2. Newest(x)' = Newest(x) /\ NoneLost(x)' = NoneLost(x)
  BY StillNames
<1> SUFFICES ASSUME own[t].name = x PROVE OwnedBy(t, x)'
  BY <1>1 DEF OwnedBy
<1>3. own[t].val \in Val /\ Stored(t, x) /\ pc[t] # "store"
  BY <1>1 DEF OwnedBy, Looking
<1>4. want[t] = x => floor[t] = Newest(x)
  BY <1>1 DEF OwnedBy, Fetching, Looking, Reading
<1>5. want[t] = x => cur[t] = Newest(x)
  BY <1>1, <1>3, <1>4, LookupExact DEF Stored
<1>6. own[t].val # Junk
  <2>1. own[t].val[1] # None
    BY <1>3, SharedAssumption
  <2> QED
    BY <2>1 DEF Junk
<1>7. want[t] = x => pc'[t] # "unset"
  BY <1>1, <1>3, <1>5, <1>6 DEF Stored
<1>8. Storing(t, x)' /\ Stored(t, x)'
  BY <1>1, <1>2, <1>3 DEF Storing, Stored
<1>9. Fetching(t, x)'
  BY <1>1, <1>2, <1>4, <1>5, <1>7 DEF Fetching
<1> QED
  BY <1>1, <1>3, <1>8, <1>9 DEF OwnedBy

LEMMA OwnedCopy ==
  ASSUME ListInv, NEW t \in Thread, Still(t), NEW x, OwnedBy(t, x),
         NEW w \in Word, Copy(t, w)
  PROVE  OwnedBy(t, x)'
<1>1. /\ UNCHANGED <<box, own, want, cur, floor>> /\ words'[t] = words[t] \ {w}
      /\ pc'[t] \in {"copy", "done"} /\ pc[t] = "copy"
  BY DEF Copy, history, ListInv, Typed
<1>2. copy'[t][w] = box[cur[t]][w] /\ \A i \in Word \ {w} : copy'[t][i] = copy[t][i]
  BY DEF Copy, ListInv, Typed, Cell
<1>3. Newest(x)' = Newest(x) /\ NoneLost(x)' = NoneLost(x)
  BY StillNames
<1> SUFFICES ASSUME own[t].name = x PROVE OwnedBy(t, x)'
  BY <1>1 DEF OwnedBy
<1>4. own[t].val \in Val /\ Stored(t, x) /\ Fetching(t, x)
  BY DEF OwnedBy
<1>5. Storing(t, x)' /\ Stored(t, x)'
  BY <1>1, <1>3, <1>4 DEF Storing, Stored
<1>6. Fetching(t, x)'
  <2> SUFFICES ASSUME want[t] = x PROVE Fetching(t, x)'
    BY <1>1 DEF Fetching
  <2>1. /\ floor[t] = Newest(x) /\ cur[t] = Newest(x)
        /\ \A i \in Word \ words[t] : copy[t][i] = own[t].val[i]
    BY <1>1, <1>4 DEF Fetching, Reading, AtEntry
  <2>2. box[cur[t]] = own[t].val
    BY <1>1, <1>4, <2>1 DEF Stored
  <2>3. \A i \in Word \ words'[t] : copy'[t][i] = own[t].val[i]
    BY <1>1, <1>2, <2>1, <2>2
  <2> QED
    BY <1>1, <1>3, <2>1, <2>3 DEF Fetching
<1> QED
  BY <1>1, <1>4, <1>5, <1>6 DEF OwnedBy

LEMMA OwnedCallStore ==
  ASSUME ListInv, NEW t \in Thread, Still(t), NEW x \in Name, Sure(t, x),
         NEW v \in Val, CallStore(t, v)
  PROVE  OwnedBy(t, x)'
<1> DEFINE e == waiting[t][Len(waiting[t])]
           ok == name[e] \notin upset[t] /\ \A l \in lost : name[l] # name[e]
<1>1. /\ waiting[t] # <<>> /\ pc'[t] = "store" /\ want'[t] = name[e] /\ cur'[t] = e
      /\ val'[t] = v /\ words'[t] = Word
  BY DEF CallStore, Start, ListInv, Typed
<1>2. own'[t] = IF ok THEN [name |-> name[e], val |-> v] ELSE Nothing
  BY DEF CallStore, ListInv, Typed
<1>3. Len(waiting[t]) \in DOMAIN waiting[t]
  BY <1>1, LastWaiting DEF ListInv
<1>4. Newest(x)' = Newest(x) /\ NoneLost(x)' = NoneLost(x)
  BY StillNames
<1>5. CASE own'[t].name = x
  <2>1. ok /\ name[e] = x /\ own'[t].val = v
    BY <1>2, <1>5, SharedAssumption DEF Nothing
  <2>2. Relied(t, x)
    BY <2>1 DEF Relied, NoneLost
  <2>3. e = Newest(x)
    BY <1>3, <2>1, <2>2 DEF Sure
  <2> HIDE DEF e, ok
  <2>4. Storing(t, x)'
    BY <1>1, <1>4, <2>1, <2>2, <2>3 DEF Storing, Relied
  <2> QED
    BY <1>1, <2>1, <2>4 DEF OwnedBy, Stored, Fetching
<1> QED
  BY <1>5 DEF OwnedBy

LEMMA OwnedStore ==
  ASSUME ListInv, NEW t \in Thread, Still(t), NEW x, OwnedBy(t, x),
         NEW w \in Word, Store(t, w)
  PROVE  OwnedBy(t, x)'
<1>1. /\ own'[t] = own[t] /\ pc[t] = "store" /\ w \in words[t] /\ words'[t] = words[t] \ {w}
      /\ cur[t] \in Entry /\ cur[t] # 0
  BY DEF Store, Disturb, ListInv, Typed, Calls, CallOf
<1>2. /\ box'[cur[t]][w] = val[t][w] /\ \A i \in Word \ {w} : box'[cur[t]][i] = box[cur[t]][i]
      /\ box'[cur[t]] \in Cell
  <2>1. val[t][w] \in Content
    BY DEF ListInv, Typed, Cell
  <2> QED
    BY <1>1, <2>1 DEF Store, ListInv, Typed, Cell
<1>3. Newest(x)' = Newest(x) /\ NoneLost(x)' = NoneLost(x)
  BY StillNames
<1> SUFFICES ASSUME own[t].name = x PROVE OwnedBy(t, x)'
  BY <1>1 DEF OwnedBy
<1>4. /\ own[t].val \in Val /\ want[t] = x /\ val[t] = own[t].val /\ NoneLost(x)
      /\ cur[t] = Newest(x) /\ \A i \in Word \ words[t] : box[cur[t]][i] = own[t].val[i]
  BY <1>1 DEF OwnedBy, Storing
<1>5. \A i \in Word \ words'[t] : box'[cur[t]][i] = own[t].val[i]
  BY <1>1, <1>2, <1>4
<1>6. CASE words[t] = {w}
  <2>1. pc'[t] = "idle"
    BY <1>6 DEF Store, Back, ListInv, Typed
  <2>2. box'[cur[t]] = own[t].val
    <3>1. own[t].val \in Cell
      BY DEF ListInv, Typed
    <3>2. \A i \in Word : box'[cur[t]][i] = own[t].val[i]
      BY <1>1, <1>5, <1>6
    <3> QED
      BY ONLY <1>2, <3>1, <3>2 DEF Cell
  <2>3. Stored(t, x)'
    BY <1>1, <1>3, <1>4, <2>2 DEF Stored
  <2> QED
    BY <1>1, <1>4, <2>1, <2>3 DEF OwnedBy, Storing, Fetching, Reading
<1>7. CASE words[t] # {w}
  <2>1. UNCHANGED <<pc, want, val, cur, copy, floor>>
    BY <1>7 DEF Store
  <2>2. Storing(t, x)'
    BY <1>1, <1>3, <1>4, <1>5, <2>1 DEF Storing
  <2> QED
    BY <1>1, <1>4, <2>1, <2>2 DEF OwnedBy, Stored, Fetching
<1> QED
  BY <1>6, <1>7

(* What Store does to the others. *)
LEMMA StoreOthers ==
  ASSUME ListInv, NEW t \in Thread, Still(t), NEW u \in Thread \ {t}, NEW x \in Name,
         OwnedBy(u, x), NEW w \in Word, Store(t, w)
  PROVE  OwnedBy(u, x)'
<1>1. /\ own'[u] = IF own[u].name = want[t] THEN Nothing ELSE own[u]
      /\ cur[t] \in Entry /\ name[cur[t]] = want[t]
      /\ \A e \in Entry \ {cur[t]} : box'[e] = box[e]
  BY DEF Store, Disturb, ListInv, Typed, Calls, CallOf
<1> QED
  BY <1>1, OthersOwned

LEMMA OwnedReads ==
  ASSUME ListInv, Assigned, Owned, NEW t \in Thread, Still(t), Reads(t),
         NEW u \in Thread, NEW x \in Name
  PROVE  OwnedBy(u, x)'
<1>1. OwnedBy(u, x) /\ Sure(u, x)
  BY DEF Assigned, Owned
<1>2. CASE \E y \in Name : CallGet(t, y) \/ CallSet(t, y)
  <2>1. UNCHANGED <<box, own>>
    BY <1>2 DEF CallGet, CallSet, Lookup
  <2> QED
    BY <1>1, <1>2, <2>1, OthersOwned, OwnedLookup DEF CallGet, CallSet
<1>3. CASE Walk(t)
  BY <1>1, <1>3, OthersOwned, OwnedWalk DEF Walk, history
<1>4. CASE Missing(t)
  BY <1>1, <1>4, OthersOwned, OwnedMissing DEF Missing, history
<1>5. CASE Found(t)
  BY <1>1, <1>5, OthersOwned, OwnedFound DEF Found, history
<1>6. CASE \E w \in Word : Copy(t, w)
  <2>1. UNCHANGED <<box, own>>
    BY <1>6 DEF Copy, history
  <2> QED
    BY <1>1, <1>6, <2>1, OthersOwned, OwnedCopy
<1>7. CASE \E w \in Word : Store(t, w)
  BY <1>1, <1>7, OwnedStore, StoreOthers
<1>8. CASE \E v \in Val : CallStore(t, v)
  <2>1. UNCHANGED box /\ \A z \in Thread \ {t} : own'[z] = own[z]
    BY <1>8 DEF CallStore, ListInv, Typed
  <2> QED
    BY <1>1, <1>8, <2>1, OthersOwned, OwnedCallStore
<1>9. CASE Evaluate(t) \/ Return(t)
  <2>1. UNCHANGED <<box, own>> /\ pc[t] # "store" /\ pc'[t] = "idle"
    BY <1>9 DEF Evaluate, Return, Back, ListInv, Typed
  <2>2. Newest(x)' = Newest(x) /\ NoneLost(x)' = NoneLost(x)
    BY StillNames
  <2> QED
    BY <1>1, <2>1, <2>2, OthersOwned, OwnedRest DEF Reading
<1> QED
  BY <1>2, <1>3, <1>4, <1>5, <1>6, <1>7, <1>8, <1>9 DEF Reads

(* A new entry is not yet the newest, and does not move the others. *)
LEMMA OwnedDef ==
  ASSUME ListInv, NEW t \in Thread, NEW y, NEW v, CallDef(t, y, v),
         NEW u \in Thread, NEW x, OwnedBy(u, x)
  PROVE  OwnedBy(u, x)'
<1>1. /\ UNCHANGED <<words, floor, copy, val, own>> /\ pc[t] = "idle" /\ pc'[t] = "link"
      /\ u # t => pc'[u] = pc[u] /\ want'[u] = want[u] /\ cur'[u] = cur[u]
  BY DEF CallDef, Start, ListInv, Typed, history
<1>2. Newest(x)' = Newest(x) /\ NoneLost(x)' = NoneLost(x)
  BY DefNames
<1>3. Newest(x) # 0 => box'[Newest(x)] = box[Newest(x)]
  BY DefNames, NewestTyped DEF ListInv, Kept
<1>4. CASE u = t
  BY <1>1, <1>2, <1>3, <1>4, OwnedRest DEF Reading
<1>5. CASE u # t
  BY <1>1, <1>2, <1>3, <1>5, OwnedSame
<1> QED
  BY <1>4, <1>5

LEMMA OwnedLink ==
  ASSUME ListInv, NEW t \in Thread, Link(t), NEW u \in Thread, NEW x, OwnedBy(u, x)
  PROVE  OwnedBy(u, x)'
<1>1. /\ UNCHANGED <<order, lost, name, box, want, val, cur, words, copy, floor, own>>
      /\ pc[t] = "link" /\ pc'[t] = "publish"
      /\ u # t => pc'[u] = pc[u]
  BY DEF Link, history, ListInv, Typed
<1>2. Newest(x)' = Newest(x) /\ NoneLost(x)' = NoneLost(x)
  BY <1>1 DEF Newest, NoneLost
<1>3. own'[u] = own[u] /\ box'[Newest(x)] = box[Newest(x)]
  BY <1>1
<1>4. CASE u = t
  BY <1>1, <1>2, <1>3, <1>4, OwnedRest DEF Reading
<1>5. CASE u # t
  <2>1. /\ pc'[u] = pc[u] /\ want'[u] = want[u] /\ val'[u] = val[u] /\ cur'[u] = cur[u]
        /\ words'[u] = words[u] /\ copy'[u] = copy[u] /\ floor'[u] = floor[u]
    BY <1>1, <1>5
  <2> QED
    BY <1>2, <1>3, <2>1, OwnedSame
<1> QED
  BY <1>4, <1>5

LEMMA OwnedPublish ==
  ASSUME ListInv, NEW t \in Thread, Publish(t), NEW u \in Thread, NEW x \in Name, OwnedBy(u, x)
  PROVE  OwnedBy(u, x)'
<1>1. /\ UNCHANGED <<box, words>> /\ pc[t] = "publish" /\ pc'[t] = "idle"
      /\ own'[u] = IF own[u].name = want[t] THEN Nothing ELSE own[u]
      /\ u # t => /\ pc'[u] = pc[u] /\ want'[u] = want[u] /\ val'[u] = val[u] /\ cur'[u] = cur[u]
                  /\ copy'[u] = copy[u] /\ floor'[u] = floor[u]
  BY DEF Publish, Back, Disturb, ListInv, Typed
<1>2. CASE own[u].name = want[t]
  BY <1>1, <1>2, SharedAssumption DEF OwnedBy, Nothing
<1>3. CASE own[u].name # want[t] /\ x = want[t]
  BY <1>1, <1>3 DEF OwnedBy
<1>4. CASE own[u].name # want[t] /\ x # want[t]
  <2>1. Newest(x)' = Newest(x) /\ NoneLost(x)' = NoneLost(x)
    BY <1>4, PublishNames
  <2>2. own'[u] = own[u]
    BY <1>1, <1>4
  <2>3. CASE u = t
    BY <1>1, <2>1, <2>2, <2>3, OwnedRest DEF Reading
  <2>4. CASE u # t
    BY <1>1, <2>1, <2>2, <2>4, OwnedSame
  <2> QED
    BY <2>3, <2>4
<1> QED
  BY <1>2, <1>3, <1>4
-------------------------------------------------------------------------------
LEMMA OwnedInit == Init => Owned
  BY SharedAssumption DEF Init, Owned, OwnedBy, Nothing

LEMMA OwnedStep ==
  ASSUME ListInv, Assigned, Owned, NEW t \in Thread, Step(t)
  PROVE  Owned'
<1> SUFFICES ASSUME NEW u \in Thread, NEW x \in Name PROVE OwnedBy(u, x)'
  BY DEF Owned
<1>1. OwnedBy(u, x)
  BY DEF Owned
<1>2. CASE \E y \in Name, v \in Val \cup {Junk} : CallDef(t, y, v)
  BY <1>1, <1>2, OwnedDef
<1>3. CASE Link(t)
  BY <1>1, <1>3, OwnedLink
<1>4. CASE Publish(t)
  BY <1>1, <1>4, OwnedPublish
<1>5. CASE Reads(t)
  BY <1>5, ReadersAreStill, OwnedReads DEF ListInv
<1> QED
  BY <1>2, <1>3, <1>4, <1>5, Zenon DEF Step, Reads

LEMMA OwnedNext == ListInv /\ Assigned /\ Owned /\ [Next]_vars => Assigned' /\ Owned'
<1> SUFFICES ASSUME ListInv, Assigned, Owned, [Next]_vars PROVE Assigned' /\ Owned'
  OBVIOUS
<1>1. CASE UNCHANGED vars
  <2>1. UNCHANGED <<name, box, pc, want, val, cur, words, copy, waiting,
                    order, lost, floor, upset, own>>
    BY <1>1 DEF vars, list, locals, history
  <2>2. ASSUME NEW u \in Thread, NEW x \in Name PROVE Sure(u, x)' /\ OwnedBy(u, x)'
    <3>1. Newest(x)' = Newest(x) /\ NoneLost(x)' = NoneLost(x)
      BY <2>1 DEF Newest, NoneLost
    <3>2. Sure(u, x) /\ OwnedBy(u, x)
      BY DEF Assigned, Owned
    <3> QED
      BY <2>1, <3>1, <3>2, SureSame, OwnedSame
  <2> QED
    BY <2>2 DEF Assigned, Owned
<1>2. CASE Next
  BY <1>2, AssignedStep, OwnedStep DEF Next
<1> QED
  BY <1>1, <1>2

(* A thread reads the whole value of its own set!, and never finds the     *)
(* name without one, as long as no other thread has stored to it since the *)
(* new value was there, nobody has defined it since the set! looked it up, *)
(* and no race lost an entry of it before.                                 *)
THEOREM SetIsReadBack == Spec => []OwnWrites
<1>1. ListInv /\ Owned => OwnWrites
  <2> SUFFICES ASSUME ListInv, Owned, NEW t \in Thread
               PROVE  /\ pc[t] = "done" /\ own[t].name = want[t] => copy[t] = own[t].val
                      /\ pc[t] \in {"missed", "unset"} => own[t].name # want[t]
    BY DEF OwnWrites
  <2> SUFFICES ASSUME pc[t] \in {"done", "missed", "unset"}, own[t].name = want[t]
               PROVE  pc[t] = "done" /\ copy[t] = own[t].val
    OBVIOUS
  <2>1. want[t] \in Name /\ words[t] = {}
    BY DEF ListInv, Calls, CallOf
  <2>2. ASSUME NEW x, x = want[t] PROVE Fetching(t, x)
    BY <2>1, <2>2 DEF Owned, OwnedBy
  <2>3. pc[t] = "done" /\ \A i \in Word : copy[t][i] = own[t].val[i]
    BY <2>1, <2>2 DEF Fetching, Reading
  <2>4. copy[t] \in Cell /\ own[t].val \in Cell
    BY DEF ListInv, Typed
  <2>5. copy[t] = own[t].val
    BY ONLY <2>3, <2>4 DEF Cell
  <2> QED
    BY <2>3, <2>5
<1> QED
  BY <1>1, ListInit, ListNext, AssignedInit, OwnedInit, OwnedNext, PTL DEF Spec
===============================================================================

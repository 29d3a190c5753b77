------------------------------ MODULE HeapProofs ------------------------------
(***************************************************************************)
(* The collector for any number of threads, addresses, sizes and roots, as *)
(* long as the calls of gc_alloc and gc_free_all do not overlap: what a    *)
(* lock around them would ensure, and what a program of one thread has     *)
(* anyway.  First what the steps of list code do to the objects on a list. *)
(***************************************************************************)
EXTENDS Heap, TLAPS

(* No object of A has the pointer h at its next field, and no two have the *)
(* same: each object is pointed to once.                                   *)
Tight(h, A, nxt, nil) ==
  \A a \in A : nxt[a] # nil =>
    /\ nxt[a] # h
    /\ \A b \in A : nxt[b] = nxt[a] => a = b

(* The list from p has p and is closed under nxt, ... *)
LEMMA ReachClosed ==
  ASSUME NEW A, NEW nil, NEW nxt \in [A -> A \cup {nil}], NEW p \in A \cup {nil}
  PROVE  Reach(p, nxt, nil) \subseteq A /\ Closed(Reach(p, nxt, nil), p, nxt, nil)
<1> DEFINE R == Reach(p, nxt, nil)
<1>1. DOMAIN nxt = A
  OBVIOUS
<1>2. R \subseteq A
  BY <1>1 DEF Reach
<1>3. p = nil \/ p \in R
  BY <1>1, Zenon DEF Reach, Closed
<1>4. ASSUME NEW a \in R, nxt[a] # nil PROVE nxt[a] \in R
  <2>1. a \in A /\ nxt[a] \in A
    BY <1>2, <1>4
  <2>2. ASSUME NEW S \in SUBSET A, Closed(S, p, nxt, nil) PROVE nxt[a] \in S
    <3>1. a \in S
      BY <1>1, <2>2, Zenon DEF Reach
    <3> QED
      BY <3>1, <2>2, <1>4, Zenon DEF Closed
  <2> QED
    BY <1>1, <2>1, <2>2, Zenon DEF Reach
<1> QED
  BY <1>2, <1>3, <1>4, Zenon DEF Closed

(* ... and no smaller set is. *)
LEMMA ReachLeast ==
  ASSUME NEW A, NEW nil, NEW nxt \in [A -> A \cup {nil}], NEW p,
         NEW S \in SUBSET A, Closed(S, p, nxt, nil)
  PROVE  Reach(p, nxt, nil) \subseteq S
<1>1. DOMAIN nxt = A
  OBVIOUS
<1> QED
  BY <1>1, Zenon DEF Reach

LEMMA ReachNil ==
  ASSUME NEW A, NEW nil, NEW nxt \in [A -> A \cup {nil}]
  PROVE  Reach(nil, nxt, nil) = {}
<1>1. {} \in SUBSET A /\ Closed({}, nil, nxt, nil)
  BY DEF Closed
<1> QED
  BY <1>1, ReachLeast

(* The list from p is p and the list from its successor. *)
LEMMA ReachStep ==
  ASSUME NEW A, NEW nil, nil \notin A, NEW nxt \in [A -> A \cup {nil}], NEW p \in A
  PROVE  Reach(p, nxt, nil) = {p} \cup Reach(nxt[p], nxt, nil)
<1> DEFINE R == Reach(p, nxt, nil)
           T == Reach(nxt[p], nxt, nil)
<1>1. nxt[p] \in A \cup {nil} /\ p # nil
  OBVIOUS
<1>2. R \subseteq A /\ Closed(R, p, nxt, nil)
  BY ReachClosed
<1>3. T \subseteq A /\ Closed(T, nxt[p], nxt, nil)
  BY <1>1, ReachClosed
<1> HIDE DEF R, T
<1>4. Closed({p} \cup T, p, nxt, nil)
  BY <1>3 DEF Closed
<1>5. R \subseteq {p} \cup T
  <2>1. {p} \cup T \in SUBSET A
    BY <1>3
  <2> QED
    BY <2>1, <1>4, ReachLeast DEF R
<1>6. p \in R /\ Closed(R, nxt[p], nxt, nil)
  BY <1>1, <1>2 DEF Closed
<1>7. T \subseteq R
  BY <1>2, <1>6, ReachLeast DEF T
<1> QED
  BY <1>5, <1>6, <1>7 DEF R, T

(* If nothing on the list from p points back to p, the list from its       *)
(* successor is the rest of it.                                            *)
LEMMA ReachTail ==
  ASSUME NEW A, NEW nil, nil \notin A, NEW nxt \in [A -> A \cup {nil}], NEW p \in A,
         \A a \in Reach(p, nxt, nil) : nxt[a] # p
  PROVE  Reach(nxt[p], nxt, nil) = Reach(p, nxt, nil) \ {p}
<1> DEFINE R == Reach(p, nxt, nil)
           T == Reach(nxt[p], nxt, nil)
<1>1. R \subseteq A /\ Closed(R, p, nxt, nil)
  BY ReachClosed
<1>2. R = {p} \cup T
  BY ReachStep
<1>3. \A a \in R : nxt[a] # p
  OBVIOUS
<1> HIDE DEF R, T
<1>4. Closed(R \ {p}, nxt[p], nxt, nil)
  BY <1>1, <1>3 DEF Closed
<1>5. T \subseteq R \ {p}
  <2>1. R \ {p} \in SUBSET A
    BY <1>1
  <2> QED
    BY <2>1, <1>4, ReachLeast DEF T
<1> QED
  BY <1>2, <1>5 DEF R, T

(* Writing to objects that are not on a list leaves it alone. *)
LEMMA ReachSame ==
  ASSUME NEW A, NEW nil, NEW nxt \in [A -> A \cup {nil}],
         NEW new \in [A -> A \cup {nil}], NEW p \in A \cup {nil},
         \A a \in Reach(p, nxt, nil) : new[a] = nxt[a]
  PROVE  Reach(p, new, nil) = Reach(p, nxt, nil)
<1> DEFINE R == Reach(p, nxt, nil)
           N == Reach(p, new, nil)
<1>1. R \subseteq A /\ Closed(R, p, nxt, nil)
  BY ReachClosed
<1>2. N \subseteq A /\ Closed(N, p, new, nil)
  BY ReachClosed
<1>3. \A a \in R : new[a] = nxt[a]
  OBVIOUS
<1> HIDE DEF R, N
<1>4. Closed(R, p, new, nil)
  BY <1>1, <1>3 DEF Closed
<1>5. N \subseteq R
  BY <1>1, <1>4, ReachLeast DEF N
<1>6. Closed(N, p, nxt, nil)
  BY <1>2, <1>3, <1>5 DEF Closed
<1>7. R \subseteq N
  BY <1>2, <1>6, ReachLeast DEF R
<1> QED
  BY <1>5, <1>7 DEF R, N

(* A list on which each object is pointed to once, from the head or from   *)
(* another: its head is not pointed to, so the rest is without it.         *)
LEMMA TakeFirst ==
  ASSUME NEW A, NEW nil, nil \notin A, NEW nxt \in [A -> A \cup {nil}], NEW h \in A,
         Tight(h, Reach(h, nxt, nil), nxt, nil)
  PROVE  /\ Reach(nxt[h], nxt, nil) = Reach(h, nxt, nil) \ {h}
         /\ Tight(nxt[h], Reach(nxt[h], nxt, nil), nxt, nil)
<1> DEFINE R == Reach(h, nxt, nil)
           T == Reach(nxt[h], nxt, nil)
<1>1. R \subseteq A /\ Closed(R, h, nxt, nil)
  BY ReachClosed
<1>2. h \in R
  BY <1>1 DEF Closed
<1>3. \A a \in R : nxt[a] # h
  BY DEF Tight
<1>4. T = R \ {h}
  BY <1>3, ReachTail
<1>5. Tight(h, R, nxt, nil)
  OBVIOUS
<1> HIDE DEF R, T
<1>6. Tight(nxt[h], T, nxt, nil)
  BY <1>2, <1>4, <1>5, Zenon DEF Tight
<1> QED
  BY <1>4, <1>6 DEF R, T

(* An object put in front of such a list. *)
LEMMA PutFirst ==
  ASSUME NEW A, NEW nil, nil \notin A, NEW nxt \in [A -> A \cup {nil}], NEW o \in A,
         o \notin Reach(nxt[o], nxt, nil),
         Tight(nxt[o], Reach(nxt[o], nxt, nil), nxt, nil)
  PROVE  /\ Reach(o, nxt, nil) = {o} \cup Reach(nxt[o], nxt, nil)
         /\ Tight(o, Reach(o, nxt, nil), nxt, nil)
<1> DEFINE T == Reach(nxt[o], nxt, nil)
           R == Reach(o, nxt, nil)
<1>1. nxt[o] \in A \cup {nil} /\ o # nil
  OBVIOUS
<1>2. T \subseteq A /\ Closed(T, nxt[o], nxt, nil)
  BY <1>1, ReachClosed
<1>3. R = {o} \cup T
  BY ReachStep
<1>4. o \notin T /\ Tight(nxt[o], T, nxt, nil)
  OBVIOUS
<1> HIDE DEF R, T
<1>5. \A a \in R : nxt[a] # nil => nxt[a] \in T
  BY <1>2, <1>3 DEF Closed
<1>6. Tight(o, R, nxt, nil)
  <2> SUFFICES ASSUME NEW a \in R, nxt[a] # nil
               PROVE  nxt[a] # o /\ \A b \in R : nxt[b] = nxt[a] => a = b
    BY DEF Tight
  <2>1. nxt[a] # o
    BY <1>4, <1>5
  <2>2. ASSUME NEW b \in R, nxt[b] = nxt[a] PROVE a = b
    BY <2>2, <1>3, <1>4, Zenon DEF Tight
  <2> QED
    BY <2>1, <2>2
<1> QED
  BY <1>3, <1>6 DEF R, T

(* The successor of c taken out of the list from h, as sweep does: *cur =  *)
(* unreached->next.                                                        *)
LEMMA Unlink ==
  ASSUME NEW A, NEW nil, nil \notin A, NEW nxt \in [A -> A \cup {nil}], NEW h \in A,
         Tight(h, Reach(h, nxt, nil), nxt, nil),
         NEW c \in Reach(h, nxt, nil), nxt[c] # nil,
         NEW new \in [A -> A \cup {nil}],
         new[c] = nxt[nxt[c]], \A a \in A \ {c} : new[a] = nxt[a]
  PROVE  /\ Reach(h, new, nil) = Reach(h, nxt, nil) \ {nxt[c]}
         /\ Tight(h, Reach(h, new, nil), new, nil)
         /\ nxt[c] # c
<1> DEFINE R == Reach(h, nxt, nil)
           N == Reach(h, new, nil)
           u == nxt[c]
<1>1. R \subseteq A /\ Closed(R, h, nxt, nil)
  BY ReachClosed
<1>2. c \in R /\ c \in A /\ u \in R /\ u \in A /\ h \in R /\ u # h /\ u # nil /\ h # nil
  BY <1>1 DEF Closed, Tight
<1>3. \A a \in R : nxt[a] = u => a = c
  BY <1>2, Zenon DEF Tight
<1>4. new[c] = nxt[u] /\ \A a \in A : a # c => new[a] = nxt[a]
  BY <1>2
<1>5. Tight(h, R, nxt, nil)
  OBVIOUS
<1>6. N \subseteq A /\ Closed(N, h, new, nil)
  BY ReachClosed
<1>7. nxt[c] = u
  OBVIOUS
<1> HIDE DEF R, N, u
<1>8. u # c
  <2> SUFFICES ASSUME u = c PROVE FALSE
    OBVIOUS
  <2>1. Closed(R \ {c}, h, nxt, nil)
    BY <1>1, <1>2, <1>3 DEF Closed
  <2>2. R \ {c} \in SUBSET A
    BY <1>1
  <2>3. R \subseteq R \ {c}
    BY <2>1, <2>2, ReachLeast DEF R
  <2> QED
    BY <2>3, <1>2
<1>9. nxt[u] # u
  BY <1>2, <1>3, <1>8
<1>10. Closed(R \ {u}, h, new, nil)
  BY <1>1, <1>2, <1>3, <1>4, <1>9 DEF Closed
<1>11. N \subseteq R \ {u}
  <2>1. R \ {u} \in SUBSET A
    BY <1>1
  <2> QED
    BY <2>1, <1>10, ReachLeast DEF N
<1>12. R \ {u} \subseteq N
  <2>1. CASE c \in N
    <3>1. Closed(N \cup {u}, h, nxt, nil)
      BY <2>1, <1>4, <1>6, <1>7 DEF Closed
    <3>2. N \cup {u} \in SUBSET A
      BY <1>2, <1>6
    <3>3. R \subseteq N \cup {u}
      BY <3>1, <3>2, ReachLeast DEF R
    <3> QED
      BY <3>3
  <2>2. CASE c \notin N
    <3>1. Closed(N, h, nxt, nil)
      BY <2>2, <1>4, <1>6 DEF Closed
    <3>2. R \subseteq N
      BY <3>1, <1>6, ReachLeast DEF R
    <3> QED
      BY <3>2
  <2> QED
    BY <2>1, <2>2
<1>13. N = R \ {u}
  BY <1>11, <1>12
<1>14. Tight(h, N, new, nil)
  <2> SUFFICES ASSUME NEW a \in N, new[a] # nil
               PROVE  new[a] # h /\ \A b \in N : new[b] = new[a] => a = b
    BY DEF Tight
  <2>1. a \in R /\ a # u /\ a \in A
    BY <1>1, <1>13
  <2> DEFINE s == IF a = c THEN u ELSE a
  <2>2. s \in R /\ nxt[s] = new[a]
    BY <1>2, <1>4, <2>1
  <2>3. new[a] # h /\ \A b \in R : nxt[b] = new[a] => b = s
    BY <1>5, <2>2, Zenon DEF Tight
  <2>4. ASSUME NEW b \in N, new[b] = new[a] PROVE a = b
    <3>1. b \in R /\ b # u /\ b \in A
      BY <1>1, <1>13
    <3>2. CASE b = c
      <4>1. nxt[u] = new[a]
        BY <2>4, <3>2, <1>4
      <4>2. u = s
        BY <4>1, <2>3, <1>2
      <4> QED
        BY <4>2, <3>2, <2>1
    <3>3. CASE b # c
      <4>1. nxt[b] = new[a]
        BY <2>4, <3>1, <3>3, <1>4
      <4>2. b = s
        BY <4>1, <2>3, <3>1
      <4> QED
        BY <4>2, <3>1
    <3> QED
      BY <3>2, <3>3
  <2> QED
    BY <2>3, <2>4
<1> QED
  BY <1>8, <1>13, <1>14 DEF R, N, u

-------------------------------------------------------------------------------
(* Calls of different threads do not overlap, and none follows gc_free_all.*)
Alone(t) == \A u \in Thread : u # t => pc[u] = "idle"
Serial == \A t \in Thread : pc[t] # "idle" => Alone(t)

OneThread == \E t : Thread = {t}

-------------------------------------------------------------------------------
(* A call of gc_alloc has its object from malloc on. *)
InAlloc == {"link", "publish", "count", "mark", "sweep", "return"}
HasObject == \A t \in Thread : pc[t] \in InAlloc => obj[t] \in Addr
Typed == TypeOK /\ HasObject

LEMMA TypeKept == Typed /\ [Next]_vars => Typed'
<1> SUFFICES ASSUME Typed, [Next]_vars PROVE Typed'
  OBVIOUS
<1> USE HeapAssumption DEF Typed, HasObject, InAlloc
<1>1. CASE UNCHANGED vars
  BY <1>1 DEF vars, TypeOK
<1>2. ASSUME NEW t \in Thread, Malloc(t) PROVE Typed'
  <2>1. PICK a \in Addr \ alloc : /\ alloc' = alloc \cup {a}
                                  /\ marked' = [marked EXCEPT ![a] = FALSE]
                                  /\ obj' = [obj EXCEPT ![t] = a]
    BY <1>2 DEF Malloc
  <2>2. PICK sz \in Size : size' = [size EXCEPT ![t] = sz]
    BY <1>2 DEF Malloc
  <2>3. /\ pc' = [pc EXCEPT ![t] = "link"] /\ UNCHANGED <<gc, next, roots, cur>>
        /\ allocs < MaxAllocs /\ allocs' = allocs + 1
    BY <1>2 DEF Malloc, Goto
  <2>4. a \in Addr /\ sz \in Nat /\ allocs' \in 0 .. MaxAllocs
    BY <2>3 DEF TypeOK
  <2>5. dangling' \subseteq Addr
    BY <1>2 DEF Malloc, TypeOK
  <2>6. TypeOK'
    BY <2>1, <2>2, <2>3, <2>4, <2>5 DEF gc, TypeOK
  <2>7. HasObject'
    BY <2>1, <2>3, <2>4 DEF TypeOK
  <2> QED
    BY <2>6, <2>7
<1>3. ASSUME NEW t \in Thread, Link(t) PROVE Typed'
  BY <1>3 DEF Link, Goto, gc, TypeOK
<1>4. ASSUME NEW t \in Thread, Publish(t) PROVE Typed'
  BY <1>4 DEF Publish, Goto, headers, TypeOK
<1>5. ASSUME NEW t \in Thread, Count(t) PROVE Typed'
  <2>1. bytes' \in Nat
    <3>1. size[t] \in Nat /\ bytes \in Nat
      <4>1. size[t] \in Size \cup {0} /\ bytes \in Nat
        BY DEF TypeOK
      <4>2. \A sz \in Size : sz \in Nat
        OBVIOUS
      <4> QED
        BY ONLY <4>1, <4>2
    <3>2. bytes' = bytes + size[t]
      BY <1>5 DEF Count
    <3> QED
      BY <3>1, <3>2
  <2>2. PICK l \in {"mark", "return"} : pc' = [pc EXCEPT ![t] = l]
    BY <1>5, Zenon DEF Count, Goto
  <2> QED
    BY <1>5, <2>1, <2>2 DEF Count, headers, TypeOK
<1>6. ASSUME NEW t \in Thread, Mark(t) PROVE Typed'
  BY <1>6 DEF Mark, Goto, gc, TypeOK
<1>7. ASSUME NEW t \in Thread, SweepKeep(t) PROVE Typed'
  BY <1>7, FieldAssumption DEF SweepKeep, Star, gc, TypeOK
<1>8. ASSUME NEW t \in Thread, SweepFree(t) PROVE Typed'
  <2>1. Star(cur[t]) \in Addr
    BY <1>8, FieldAssumption DEF SweepFree, Star, TypeOK
  <2>2. next[Star(cur[t])] \in Addr \cup {NULL}
    BY <2>1 DEF TypeOK
  <2>3. objects' \in Addr \cup {NULL} /\ next' \in [Addr -> Addr \cup {NULL}]
    BY <1>8, <2>2 DEF SweepFree, TypeOK
  <2>4. dangling' \subseteq Addr
    BY <1>8, <2>1 DEF SweepFree, TypeOK
  <2> QED
    BY <1>8, <2>3, <2>4 DEF SweepFree, TypeOK
<1>9. ASSUME NEW t \in Thread, SweepEnd(t) PROVE Typed'
  BY <1>9 DEF SweepEnd, Goto, headers, TypeOK
<1>10. ASSUME NEW t \in Thread, Return(t) PROVE Typed'
  BY <1>10 DEF Return, Goto, gc, headers, TypeOK
<1>11. ASSUME NEW t \in Thread, Teardown(t) PROVE Typed'
  BY <1>11 DEF Teardown, Goto, gc, headers, TypeOK
<1>12. ASSUME NEW t \in Thread, FreeOne(t) PROVE Typed'
  BY <1>12 DEF FreeOne, gc, headers, TypeOK
<1>13. ASSUME NEW t \in Thread, FreeEnd(t) PROVE Typed'
  BY <1>13 DEF FreeEnd, Goto, headers, TypeOK
<1>14. ASSUME NEW t \in Thread, NEW a \in Addr, Drop(t, a) PROVE Typed'
  BY <1>14 DEF Drop, gc, headers, TypeOK
<1> QED
  BY <1>1, <1>2, <1>3, <1>4, <1>5, <1>6, <1>7, <1>8, <1>9, <1>10, <1>11, <1>12,
     <1>13, <1>14
  DEF Next, AllocStep

LEMMA TypedHolds == Spec => []Typed
<1>1. Init => Typed
  BY HeapAssumption DEF Init, Typed, TypeOK, HasObject, InAlloc
<1> QED
  BY <1>1, TypeKept, PTL DEF Spec

(* Every field of the collector, of the objects and of a call stays in its *)
(* range, however the threads interleave: in particular, the place where a *)
(* sweep reads is the head of the list or an object, never a null pointer. *)
THEOREM HeapTypeCorrect == Spec => []TypeOK
  BY TypedHolds, PTL DEF Typed

-------------------------------------------------------------------------------
(* What holds of a call of t that no other overlaps.                       *)
(*                                                                         *)
(* The list holds the objects that are allocated, but the one that malloc  *)
(* has just returned, and points to each of them once.                     *)
Unlinked(t) == IF pc[t] \in {"link", "publish"} THEN {obj[t]} ELSE {}
Linked(t) ==
  pc[t] \notin {"freeall", "gone"} =>
    /\ OnList = alloc \ Unlinked(t)
    /\ Tight(objects, OnList, next, NULL)

(* The new object is not lost before it is on the list. *)
Fresh(t) ==
  /\ pc[t] \in {"link", "publish"} => obj[t] \in alloc
  /\ pc[t] = "publish" => next[obj[t]] = objects

(* Marks are on only in a sweep, and then only ahead of it. *)
Rest(t) == Reach(Star(cur[t]), next, NULL)
Marks(t) == IF pc[t] = "sweep" THEN \A a \in alloc : marked[a] => a \in Rest(t)
                               ELSE \A a \in alloc : ~marked[a]

(* The place of a sweep is behind what it has still to look at, and of     *)
(* that all is marked that the program refers to.                          *)
Sweeping(t) ==
  pc[t] = "sweep" =>
    /\ cur[t] # Head => cur[t] \in OnList \ Rest(t)
    /\ RootCallback => \A a \in Rest(t) : a \in roots => marked[a]

(* gc_free_all has still to free what is on the list from o. *)
TornDown(t) ==
  /\ pc[t] = "freeall" => /\ Reach(obj[t], next, NULL) = alloc
                          /\ Tight(obj[t], alloc, next, NULL)
  /\ pc[t] = "gone" => alloc = {}

Call(t) == Linked(t) /\ Fresh(t) /\ Marks(t) /\ Sweeping(t) /\ TornDown(t)

HInv == \A t \in Thread : Alone(t) => Call(t)

(* What the lemmas above say of the lists of the heap. *)
LEMMA ListFacts ==
  ASSUME Typed
  PROVE  /\ NULL \notin Addr /\ Head \notin Addr
         /\ next \in [Addr -> Addr \cup {NULL}]
         /\ \A p \in Addr \cup {NULL} :
              /\ Reach(p, next, NULL) \subseteq Addr
              /\ Closed(Reach(p, next, NULL), p, next, NULL)
         /\ Reach(NULL, next, NULL) = {}
         /\ OnList \subseteq Addr /\ Closed(OnList, objects, next, NULL)
<1>1. /\ NULL \notin Addr /\ Head \notin Addr /\ next \in [Addr -> Addr \cup {NULL}]
      /\ objects \in Addr \cup {NULL}
  BY HeapAssumption, FieldAssumption DEF Typed, TypeOK
<1>2. \A p \in Addr \cup {NULL} : /\ Reach(p, next, NULL) \subseteq Addr
                                  /\ Closed(Reach(p, next, NULL), p, next, NULL)
  BY <1>1, ReachClosed
<1>3. Reach(NULL, next, NULL) = {}
  BY <1>1, ReachNil
<1> QED
  BY <1>1, <1>2, <1>3 DEF OnList

LEMMA MallocKeeps ==
  ASSUME Typed, Typed', NEW t \in Thread, Call(t), Malloc(t)
  PROVE  Call(t)'
<1>1. PICK a \in Addr \ alloc : /\ alloc' = alloc \cup {a}
                                /\ marked' = [marked EXCEPT ![a] = FALSE]
                                /\ obj' = [obj EXCEPT ![t] = a]
  BY DEF Malloc
<1>2. pc[t] = "idle" /\ pc'[t] = "link" /\ obj'[t] = a
  BY <1>1 DEF Malloc, Goto, Typed, TypeOK
<1>3. UNCHANGED <<objects, next, roots, cur>>
  BY DEF Malloc, gc
<1>4. OnList' = OnList
  BY <1>3 DEF OnList
<1>5. OnList = alloc /\ Tight(objects, OnList, next, NULL)
  BY <1>2, Zenon DEF Call, Linked, Unlinked
<1>6. Linked(t)'
  <2>1. Unlinked(t)' = {a}
    BY <1>2 DEF Unlinked
  <2>2. OnList' = alloc' \ {a}
    BY <1>1, <1>4, <1>5
  <2> QED
    BY <1>3, <1>4, <1>5, <2>1, <2>2 DEF Linked
<1>7. \A b \in alloc' : ~marked'[b]
  BY <1>1, <1>2 DEF Call, Marks, Typed, TypeOK
<1> QED
  BY <1>1, <1>2, <1>6, <1>7 DEF Call, Fresh, Marks, Sweeping, TornDown

LEMMA LinkKeeps ==
  ASSUME Typed, Typed', NEW t \in Thread, Call(t), Link(t)
  PROVE  Call(t)'
<1>1. /\ pc[t] = "link" /\ pc'[t] = "publish"
      /\ next' = [next EXCEPT ![obj[t]] = objects]
      /\ UNCHANGED <<objects, marked, alloc, roots, obj, cur>>
  BY DEF Link, Goto, gc, Typed, TypeOK
<1>2. /\ OnList = alloc \ {obj[t]} /\ Tight(objects, OnList, next, NULL)
      /\ obj[t] \in alloc
  BY <1>1, Zenon DEF Call, Linked, Unlinked, Fresh
<1>3. next'[obj[t]] = objects /\ \A a \in OnList : next'[a] = next[a]
  <2>1. alloc \subseteq Addr
    BY DEF Typed, TypeOK
  <2> QED
    BY <2>1, <1>1, <1>2, ListFacts
<1>4. OnList' = OnList
  <2>1. next' \in [Addr -> Addr \cup {NULL}] /\ objects \in Addr \cup {NULL}
    BY DEF Typed, TypeOK
  <2>2. Reach(objects, next', NULL) = Reach(objects, next, NULL)
    BY <2>1, <1>3, ListFacts, ReachSame DEF OnList
  <2> QED
    BY <2>2, <1>1 DEF OnList
<1>5. Tight(objects, OnList, next', NULL)
  BY <1>2, <1>3 DEF Tight
<1>6. Linked(t)'
  <2>1. Unlinked(t)' = {obj[t]}
    BY <1>1 DEF Unlinked
  <2> QED
    BY <1>1, <1>2, <1>4, <1>5, <2>1 DEF Linked
<1>7. Fresh(t)' /\ Marks(t)'
  BY <1>1, <1>2, <1>3 DEF Call, Fresh, Marks
<1> QED
  BY <1>1, <1>6, <1>7 DEF Call, Sweeping, TornDown

LEMMA PublishKeeps ==
  ASSUME Typed, Typed', NEW t \in Thread, Call(t), Publish(t)
  PROVE  Call(t)'
<1>1. /\ pc[t] = "publish" /\ pc'[t] = "count" /\ objects' = obj[t]
      /\ UNCHANGED <<next, marked, alloc, roots, obj, cur>>
  BY DEF Publish, Goto, headers, Typed, TypeOK
<1> DEFINE o == obj[t]
<1>2. /\ OnList = alloc \ {o} /\ Tight(objects, OnList, next, NULL)
      /\ o \in alloc /\ next[o] = objects
  BY <1>1, Zenon DEF Call, Linked, Unlinked, Fresh
<1>3. o \in Addr
  BY <1>2 DEF Typed, TypeOK
<1>4. OnList = Reach(next[o], next, NULL)
  BY <1>2 DEF OnList
<1>5. o \notin Reach(next[o], next, NULL)
  BY <1>2, <1>4
<1>6. Tight(next[o], Reach(next[o], next, NULL), next, NULL)
  BY <1>2, <1>4
<1> HIDE DEF o
<1>7. /\ Reach(o, next, NULL) = {o} \cup Reach(next[o], next, NULL)
      /\ Tight(o, Reach(o, next, NULL), next, NULL)
  BY <1>3, <1>5, <1>6, ListFacts, PutFirst
<1>8. OnList' = Reach(o, next, NULL)
  BY <1>1 DEF OnList, o
<1>9. OnList' = alloc
  BY <1>2, <1>4, <1>7, <1>8
<1>10. Linked(t)'
  <2>1. Unlinked(t)' = {}
    BY <1>1 DEF Unlinked
  <2>2. Tight(objects', OnList', next', NULL)
    BY <1>1, <1>7, <1>8 DEF o
  <2> QED
    BY <1>1, <1>9, <2>1, <2>2 DEF Linked
<1>11. Fresh(t)' /\ Marks(t)'
  BY <1>1 DEF Call, Fresh, Marks
<1> QED
  BY <1>1, <1>10, <1>11 DEF Call, Sweeping, TornDown

(* Count and Return: no object, list or mark is touched. *)
LEMMA QuietKeeps ==
  ASSUME Typed, Typed', NEW t \in Thread, Call(t), Count(t) \/ Return(t)
  PROVE  Call(t)'
<1>1. /\ pc[t] \in {"count", "return"} /\ pc'[t] \in {"mark", "return", "idle"}
      /\ UNCHANGED <<objects, next, marked, alloc, obj, cur>>
  <2>1. CASE Count(t)
    BY <2>1 DEF Count, Goto, headers, Typed, TypeOK
  <2>2. CASE Return(t)
    BY <2>2 DEF Return, Goto, gc, headers, Typed, TypeOK
  <2> QED
    BY <2>1, <2>2
<1>2. OnList' = OnList
  BY <1>1 DEF OnList
<1>3. Linked(t)'
  BY <1>1, <1>2 DEF Call, Linked, Unlinked
<1> QED
  BY <1>1, <1>3 DEF Call, Fresh, Marks, Sweeping, TornDown

LEMMA MarkKeeps ==
  ASSUME Typed, Typed', NEW t \in Thread, Call(t), Mark(t)
  PROVE  Call(t)'
<1>1. /\ pc[t] = "mark" /\ pc'[t] = "sweep" /\ cur'[t] = Head
      /\ marked' = IF RootCallback THEN [a \in Addr |-> marked[a] \/ a \in roots]
                                   ELSE marked
      /\ UNCHANGED <<objects, next, alloc, roots, obj>>
  BY DEF Mark, Goto, gc, Typed, TypeOK
<1>2. OnList' = OnList /\ Rest(t)' = OnList
  BY <1>1 DEF OnList, Rest, Star
<1>3. OnList = alloc /\ Tight(objects, OnList, next, NULL)
  BY <1>1, Zenon DEF Call, Linked, Unlinked
<1>4. Linked(t)'
  BY <1>1, <1>2, <1>3 DEF Linked, Unlinked
<1>5. Marks(t)'
  BY <1>1, <1>2, <1>3 DEF Marks
<1>6. Sweeping(t)'
  <2>1. ASSUME RootCallback, NEW a \in OnList, a \in roots PROVE marked'[a]
    BY <1>1, <2>1, ListFacts
  <2> QED
    BY <1>1, <1>2, <2>1, Zenon DEF Sweeping
<1> QED
  BY <1>1, <1>4, <1>5, <1>6 DEF Call, Fresh, TornDown

(* The object a sweep looks at: it is on the list, with a list behind it   *)
(* that it is not on.                                                      *)
LEMMA SweepAt ==
  ASSUME Typed, NEW t \in Thread, Call(t), pc[t] = "sweep", Star(cur[t]) # NULL
  PROVE  /\ Star(cur[t]) \in OnList /\ OnList = alloc /\ Star(cur[t]) \in Rest(t)
         /\ Tight(objects, OnList, next, NULL)
         /\ Rest(t) \subseteq OnList
         /\ Reach(next[Star(cur[t])], next, NULL) = Rest(t) \ {Star(cur[t])}
<1> DEFINE u == Star(cur[t])
           R == Rest(t)
<1>1. /\ OnList = alloc /\ Tight(objects, OnList, next, NULL)
      /\ cur[t] # Head => cur[t] \in OnList \ R
  BY Zenon DEF Call, Linked, Unlinked, Sweeping
<1>2. Star(cur[t]) \in OnList
  <2>1. CASE cur[t] = Head
    BY <2>1, ListFacts DEF Star, Closed
  <2>2. CASE cur[t] # Head
    BY <2>2, <1>1, ListFacts DEF Star, Closed
  <2> QED
    BY <2>1, <2>2
<1>3. Star(cur[t]) \in Addr
  BY <1>2, ListFacts
<1>4. Closed(OnList, Star(cur[t]), next, NULL)
  BY <1>2, ListFacts DEF Closed
<1>5. R \subseteq OnList
  BY <1>4, ListFacts, ReachLeast DEF Rest
<1>6. u \in R
  <2>1. Closed(Reach(u, next, NULL), u, next, NULL)
    BY <1>3, ListFacts
  <2> QED
    BY <2>1 DEF Rest, Closed
<1>7. \A a \in R : next[a] # u
  <2> SUFFICES ASSUME NEW a \in R, next[a] = u PROVE FALSE
    OBVIOUS
  <2>1. CASE cur[t] = Head
    BY <2>1, <1>1, <1>5, Zenon DEF Star, Tight
  <2>2. CASE cur[t] # Head
    BY <2>2, <1>1, <1>5, Zenon DEF Star, Tight
  <2> QED
    BY <2>1, <2>2
<1>8. Reach(next[u], next, NULL) = Reach(u, next, NULL) \ {u}
  <2> DEFINE v == u
  <2>1. v \in Addr /\ \A a \in Reach(v, next, NULL) : next[a] # v
    BY <1>3, <1>7 DEF Rest
  <2> HIDE DEF v
  <2>2. Reach(next[v], next, NULL) = Reach(v, next, NULL) \ {v}
    BY <2>1, ListFacts, ReachTail
  <2> QED
    BY <2>2 DEF v
<1> QED
  BY <1>1, <1>2, <1>5, <1>6, <1>8 DEF Rest

LEMMA SweepKeepKeeps ==
  ASSUME Typed, Typed', NEW t \in Thread, Call(t), SweepKeep(t)
  PROVE  Call(t)'
<1> DEFINE u == Star(cur[t])
<1>1. /\ pc[t] = "sweep" /\ pc'[t] = "sweep" /\ Star(cur[t]) # NULL
      /\ cur'[t] = u
      /\ marked' = [marked EXCEPT ![u] = FALSE]
      /\ UNCHANGED <<objects, next, alloc, roots, obj, pc>>
  BY DEF SweepKeep, gc, Typed, TypeOK
<1>2. /\ u \in OnList /\ OnList = alloc /\ u \in Rest(t)
      /\ Tight(objects, OnList, next, NULL) /\ Rest(t) \subseteq OnList
      /\ Reach(next[u], next, NULL) = Rest(t) \ {u}
  BY <1>1, SweepAt
<1>3. u \in Addr /\ u # Head
  BY <1>2, ListFacts
<1>4. OnList' = OnList
  BY <1>1 DEF OnList
<1> HIDE DEF u
<1>5. Rest(t)' = Rest(t) \ {u}
  BY <1>1, <1>2, <1>3, Zenon DEF Rest, Star
<1>6. ~marked'[u] /\ \A a \in Addr : a # u => marked'[a] = marked[a]
  BY <1>1, <1>3 DEF Typed, TypeOK
<1>7. alloc \subseteq Addr
  BY DEF Typed, TypeOK
<1>8. Linked(t)'
  BY <1>1, <1>2, <1>4 DEF Linked, Unlinked
<1>9. Marks(t)'
  <2>1. \A a \in alloc : marked[a] => a \in Rest(t)
    BY <1>1, Zenon DEF Call, Marks
  <2>2. \A a \in alloc : marked'[a] => a \in Rest(t) \ {u}
    BY <2>1, <1>6, <1>7
  <2> QED
    BY <2>2, <1>1, <1>5, Zenon DEF Marks
<1>10. Sweeping(t)'
  <2>1. RootCallback => \A a \in Rest(t) : a \in roots => marked[a]
    BY <1>1, Zenon DEF Call, Sweeping
  <2>2. RootCallback => \A a \in Rest(t) \ {u} : a \in roots => marked'[a]
    BY <2>1, <1>2, <1>6, <1>7
  <2>3. cur'[t] \in OnList' \ Rest(t)'
    BY <1>1, <1>2, <1>4, <1>5
  <2>4. (cur[t] # Head => cur[t] \in OnList \ Rest(t))'
    BY <2>3, Zenon
  <2>5. (RootCallback => \A a \in Rest(t) : a \in roots => marked[a])'
    BY <2>2, <1>1, <1>5
  <2> QED
    BY <2>4, <2>5, Zenon DEF Sweeping
<1>11. Fresh(t)' /\ TornDown(t)'
  BY <1>1 DEF Fresh, TornDown
<1> QED
  BY <1>8, <1>9, <1>10, <1>11 DEF Call

(* After the object is unlinked the list is without it, and so is what the *)
(* sweep has still to look at.                                             *)
LEMMA Unlinks ==
  ASSUME Typed, Typed', NEW t \in Thread, Call(t), SweepFree(t)
  PROVE  /\ OnList' = OnList \ {Star(cur[t])}
         /\ Tight(objects', OnList', next', NULL)
         /\ Rest(t)' = Rest(t) \ {Star(cur[t])}
         /\ cur[t] # Head => cur[t] # Star(cur[t])
<1> DEFINE u == Star(cur[t])
           c == cur[t]
<1>1. /\ pc[t] = "sweep" /\ u # NULL /\ cur' = cur
      /\ c = Head => objects' = next[u] /\ next' = next
      /\ c # Head => objects' = objects /\ next' = [next EXCEPT ![c] = next[u]]
  BY DEF SweepFree
<1>2. /\ u \in OnList /\ OnList = alloc /\ u \in Rest(t)
      /\ Tight(objects, OnList, next, NULL) /\ Rest(t) \subseteq OnList
      /\ Reach(next[u], next, NULL) = Rest(t) \ {u}
  BY <1>1, SweepAt
<1>3. u \in Addr /\ u # Head
  BY <1>2, ListFacts
<1>4. CASE c = Head
  <2>1. u = objects
    BY <1>4 DEF Star
  <2>2. Rest(t) = OnList
    BY <1>4 DEF Rest, Star, OnList
  <2> HIDE DEF u
  <2>3. /\ Reach(next[u], next, NULL) = Reach(u, next, NULL) \ {u}
        /\ Tight(next[u], Reach(next[u], next, NULL), next, NULL)
    <3>1. Tight(u, Reach(u, next, NULL), next, NULL)
      BY <1>2, <2>1 DEF OnList
    <3> QED
      BY <3>1, <1>3, ListFacts, TakeFirst
  <2>4. OnList' = Reach(next[u], next, NULL) /\ Rest(t)' = OnList'
    BY <1>1, <1>4 DEF OnList, Rest, Star
  <2> QED
    BY <1>1, <1>2, <1>4, <2>2, <2>3, <2>4 DEF u
<1>5. CASE c # Head
  <2>1. u = next[c]
    BY <1>5 DEF Star
  <2>2. c \in OnList /\ c \notin Rest(t)
    BY <1>1, <1>5, Zenon DEF Call, Sweeping
  <2>3. c \in Addr
    BY <2>2, ListFacts
  <2>4. objects \in Addr
    <3>1. objects # NULL
      BY <2>2, ListFacts DEF OnList
    <3> QED
      BY <3>1 DEF Typed, TypeOK
  <2>5. /\ next' \in [Addr -> Addr \cup {NULL}]
        /\ next'[c] = next[u] /\ \A a \in Addr \ {c} : next'[a] = next[a]
    <3>1. next' \in [Addr -> Addr \cup {NULL}]
      BY DEF Typed, TypeOK
    <3> QED
      BY <3>1, <1>1, <1>5, <2>3, ListFacts
  <2> HIDE DEF u, c
  <2>6. /\ Reach(objects, next', NULL) = OnList \ {u}
        /\ Tight(objects, Reach(objects, next', NULL), next', NULL)
        /\ u # c
    BY <1>1, <1>2, <2>1, <2>2, <2>4, <2>5, ListFacts, Unlink DEF OnList
  <2>7. OnList' = Reach(objects, next', NULL) /\ Rest(t)' = Reach(next[u], next', NULL)
    BY <1>1, <1>5, <2>5 DEF OnList, Rest, Star, c
  <2>8. next[u] \in Addr \cup {NULL}
    BY <1>3, ListFacts
  <2>9. \A a \in Reach(next[u], next, NULL) : next'[a] = next[a]
    BY <1>2, <2>2, <2>5, ListFacts
  <2>10. Reach(next[u], next', NULL) = Reach(next[u], next, NULL)
    BY <2>5, <2>8, <2>9, ListFacts, ReachSame
  <2> QED
    BY <1>1, <1>2, <1>5, <2>6, <2>7, <2>10 DEF u, c
<1> QED
  BY <1>4, <1>5

LEMMA SweepFreeKeeps ==
  ASSUME Typed, Typed', NEW t \in Thread, Call(t), SweepFree(t)
  PROVE  Call(t)'
<1> DEFINE u == Star(cur[t])
<1>1. /\ pc[t] = "sweep" /\ pc'[t] = "sweep" /\ u # NULL /\ ~marked[u]
      /\ alloc' = alloc \ {u} /\ UNCHANGED <<cur, marked, roots>>
  BY DEF SweepFree
<1>2. OnList = alloc /\ u \in Rest(t)
  BY <1>1, SweepAt
<1>3. /\ OnList' = OnList \ {u} /\ Tight(objects', OnList', next', NULL)
      /\ Rest(t)' = Rest(t) \ {u} /\ (cur[t] # Head => cur[t] # u)
  BY Unlinks
<1>4. /\ \A a \in alloc : marked[a] => a \in Rest(t)
      /\ cur[t] # Head => cur[t] \in OnList \ Rest(t)
      /\ RootCallback => \A a \in Rest(t) : a \in roots => marked[a]
  BY <1>1, Zenon DEF Call, Marks, Sweeping
<1> HIDE DEF u
<1>5. Linked(t)'
  BY <1>1, <1>2, <1>3 DEF Linked, Unlinked
<1>6. Marks(t)'
  BY <1>1, <1>3, <1>4 DEF Marks
<1>7. Sweeping(t)'
  BY <1>1, <1>3, <1>4 DEF Sweeping
<1>8. Fresh(t)' /\ TornDown(t)'
  BY <1>1 DEF Fresh, TornDown
<1> QED
  BY <1>5, <1>6, <1>7, <1>8 DEF Call

(* At the end of a sweep there is nothing ahead, so nothing is marked. *)
LEMMA SweepEndKeeps ==
  ASSUME Typed, Typed', NEW t \in Thread, Call(t), SweepEnd(t)
  PROVE  Call(t)'
<1>1. /\ pc[t] = "sweep" /\ pc'[t] = "return" /\ Star(cur[t]) = NULL
      /\ UNCHANGED <<objects, next, marked, alloc, obj, cur>>
  BY DEF SweepEnd, Goto, headers, Typed, TypeOK
<1>2. Rest(t) = {}
  BY <1>1, ListFacts DEF Rest
<1>3. OnList' = OnList
  BY <1>1 DEF OnList
<1>4. Linked(t)'
  BY <1>1, <1>3 DEF Call, Linked, Unlinked
<1>5. Marks(t)'
  BY <1>1, <1>2 DEF Call, Marks
<1> QED
  BY <1>1, <1>4, <1>5 DEF Call, Fresh, Sweeping, TornDown

LEMMA TeardownKeeps ==
  ASSUME Typed, Typed', NEW t \in Thread, Call(t), Teardown(t)
  PROVE  Call(t)'
<1>1. /\ pc[t] = "idle" /\ pc'[t] = "freeall" /\ obj'[t] = objects
      /\ UNCHANGED <<next, marked, alloc>>
  BY DEF Teardown, Goto, gc, headers, Typed, TypeOK
<1>2. OnList = alloc /\ Tight(objects, OnList, next, NULL)
  BY <1>1, Zenon DEF Call, Linked, Unlinked
<1>3. TornDown(t)'
  BY <1>1, <1>2 DEF TornDown, OnList
<1> QED
  BY <1>1, <1>3 DEF Call, Linked, Fresh, Marks, Sweeping

LEMMA FreeOneKeeps ==
  ASSUME Typed, Typed', NEW t \in Thread, Call(t), FreeOne(t)
  PROVE  Call(t)'
<1> DEFINE o == obj[t]
<1>1. /\ pc[t] = "freeall" /\ pc'[t] = "freeall" /\ o # NULL
      /\ obj'[t] = next[o] /\ alloc' = alloc \ {o} /\ UNCHANGED <<next, marked>>
  BY DEF FreeOne, headers, Typed, TypeOK
<1>2. Reach(o, next, NULL) = alloc /\ Tight(o, alloc, next, NULL)
  BY <1>1, Zenon DEF Call, TornDown
<1>3. o \in Addr
  BY <1>1 DEF Typed, TypeOK
<1> HIDE DEF o
<1>4. /\ Reach(next[o], next, NULL) = Reach(o, next, NULL) \ {o}
      /\ Tight(next[o], Reach(next[o], next, NULL), next, NULL)
  BY <1>2, <1>3, ListFacts, TakeFirst
<1>5. TornDown(t)'
  BY <1>1, <1>2, <1>4 DEF TornDown
<1> QED
  BY <1>1, <1>5 DEF Call, Linked, Fresh, Marks, Sweeping

LEMMA FreeEndKeeps ==
  ASSUME Typed, Typed', NEW t \in Thread, Call(t), FreeEnd(t)
  PROVE  Call(t)'
<1>1. /\ pc[t] = "freeall" /\ pc'[t] = "gone" /\ obj[t] = NULL
      /\ UNCHANGED <<next, marked, alloc>>
  BY DEF FreeEnd, Goto, headers, Typed, TypeOK
<1>2. alloc = {}
  BY <1>1, ListFacts DEF Call, TornDown
<1> QED
  BY <1>1, <1>2 DEF Call, Linked, Fresh, Marks, Sweeping, TornDown

(* A root dropped by any thread. *)
LEMMA DropKeeps ==
  ASSUME NEW t \in Thread, NEW u \in Thread, NEW a \in Addr, Call(t), Drop(u, a)
  PROVE  Call(t)'
<1>1. /\ roots' = roots \ {a}
      /\ UNCHANGED <<objects, next, marked, alloc, pc, obj, cur>>
  BY DEF Drop, gc, headers
<1>2. OnList' = OnList /\ Rest(t)' = Rest(t)
  BY <1>1 DEF OnList, Rest, Star
<1> QED
  BY <1>1, <1>2 DEF Call, Linked, Unlinked, Fresh, Marks, Sweeping, TornDown

-------------------------------------------------------------------------------
LEMMA InitCall == Init => HInv
<1> SUFFICES ASSUME Init, NEW t \in Thread PROVE Call(t)
  BY DEF HInv
<1>1. /\ objects = NULL /\ alloc = {} /\ pc[t] = "idle"
      /\ next \in [Addr -> Addr \cup {NULL}]
  BY DEF Init
<1>2. OnList = {}
  BY <1>1, ReachNil DEF OnList
<1> QED
  BY <1>1, <1>2 DEF Call, Linked, Unlinked, Fresh, Marks, Sweeping, TornDown, Tight

(* Which thread a step is of, and what it does to the places of the others.*)
LEMMA StepOf ==
  ASSUME Typed, Next
  PROVE  \E t \in Thread :
           \/ \E a \in Addr : Drop(t, a)
           \/ /\ Malloc(t) \/ AllocStep(t) \/ Teardown(t) \/ FreeOne(t) \/ FreeEnd(t)
              /\ \A u \in Thread : u # t => pc'[u] = pc[u]
              /\ pc[t] # "idle" \/ pc'[t] # "idle"
<1>1. PICK t \in Thread : \/ Malloc(t) \/ AllocStep(t) \/ Teardown(t)
                          \/ FreeOne(t) \/ FreeEnd(t)
                          \/ \E a \in Addr : Drop(t, a)
  BY DEF Next
<1>2. pc \in [Thread -> {"idle", "link", "publish", "count", "mark",
                         "sweep", "return", "freeall", "gone"}]
  BY DEF Typed, TypeOK
<1>3. CASE Malloc(t)
  BY <1>2, <1>3 DEF Malloc, Goto
<1>4. CASE AllocStep(t)
  BY <1>2, <1>4
  DEF AllocStep, Link, Publish, Count, Mark, SweepKeep, SweepFree, SweepEnd, Return, Goto
<1>5. CASE Teardown(t) \/ FreeOne(t) \/ FreeEnd(t)
  BY <1>2, <1>5 DEF Teardown, FreeOne, FreeEnd, Goto
<1> QED
  BY <1>1, <1>3, <1>4, <1>5

LEMMA CallKeeps ==
  ASSUME Typed, Typed', NEW t \in Thread, Call(t),
         Malloc(t) \/ AllocStep(t) \/ Teardown(t) \/ FreeOne(t) \/ FreeEnd(t)
  PROVE  Call(t)'
BY MallocKeeps, LinkKeeps, PublishKeeps, QuietKeeps, MarkKeeps, SweepKeepKeeps,
   SweepFreeKeeps, SweepEndKeeps, TeardownKeeps, FreeOneKeeps, FreeEndKeeps
DEF AllocStep

LEMMA HInvKept ==
  ASSUME Typed, Typed', Serial, Serial', HInv, [Next]_vars
  PROVE  HInv'
<1>1. CASE UNCHANGED vars
  BY <1>1
  DEF vars, HInv, Alone, Call, Linked, Unlinked, Fresh, Marks, Sweeping, TornDown,
      OnList, Rest, Star
<1>2. ASSUME NEW u \in Thread, NEW a \in Addr, Drop(u, a) PROVE HInv'
  <2>1. pc' = pc
    BY <1>2 DEF Drop
  <2> QED
    BY <1>2, <2>1, DropKeeps DEF HInv, Alone
<1>3. ASSUME NEW t \in Thread,
             Malloc(t) \/ AllocStep(t) \/ Teardown(t) \/ FreeOne(t) \/ FreeEnd(t),
             \A u \in Thread : u # t => pc'[u] = pc[u],
             pc[t] # "idle" \/ pc'[t] # "idle"
      PROVE  HInv'
  <2>1. Alone(t) /\ Alone(t)'
    BY <1>3 DEF Serial, Alone
  <2>2. Call(t)'
    BY <1>3, <2>1, CallKeeps DEF HInv
  <2>3. ASSUME NEW u \in Thread, Alone(u)' PROVE Call(u)'
    <3>1. CASE u = t
      BY <2>2, <3>1
    <3>2. CASE u # t
      <4>1. pc'[t] = "idle" /\ pc'[u] = "idle"
        BY <2>1, <2>3, <3>2 DEF Alone
      <4> QED
        BY <2>2, <4>1
        DEF Call, Linked, Unlinked, Fresh, Marks, Sweeping, TornDown
    <3> QED
      BY <3>1, <3>2
  <2> QED
    BY <2>3 DEF HInv
<1> QED
  BY <1>1, <1>2, <1>3, StepOf

LEMMA HInvHolds == Spec /\ []Serial => []HInv
<1>1. Typed /\ Typed' /\ Serial /\ Serial' /\ HInv /\ [Next]_vars => HInv'
  BY HInvKept
<1> QED
  BY <1>1, InitCall, TypedHolds, PTL DEF Spec

-------------------------------------------------------------------------------
LEMMA ListInv ==
  ASSUME Typed, Serial, HInv
  PROVE  ListIntact /\ MarksCleared
<1>1. PICK t \in Thread : Alone(t)
  BY HeapAssumption DEF Serial, Alone
<1>2. Call(t)
  BY <1>1 DEF HInv
<1>3. ASSUME \A u \in Thread : pc[u] \notin {"freeall", "gone"}
      PROVE  OnList \subseteq alloc
  BY <1>2, <1>3 DEF Call, Linked
<1>4. ASSUME Quiet PROVE OnList = alloc
  BY <1>2, <1>4 DEF Quiet, Call, Linked, Unlinked
<1>5. ASSUME NEW u \in Thread, pc[u] = "gone" PROVE alloc = {}
  BY <1>5 DEF Serial, HInv, Call, TornDown
<1>6. ASSUME \A u \in Thread : pc[u] # "sweep" PROVE \A a \in alloc : ~marked[a]
  BY <1>2, <1>6 DEF Call, Marks
<1> QED
  BY <1>3, <1>4, <1>5, <1>6 DEF ListIntact, MarksCleared

LEMMA OneIsSerial == ASSUME OneThread PROVE Serial
BY DEF OneThread, Serial, Alone

(* As long as calls do not overlap, the list is never led through freed    *)
(* memory and loses no object: what gc_alloc handed out is found by every  *)
(* later sweep until it is freed, and by gc_free_all at the end.           *)
THEOREM SerialListIntact == Spec /\ []Serial => []ListIntact
  BY TypedHolds, HInvHolds, ListInv, PTL

(* Nor does a mark outlive the sweep it was set for.                       *)
THEOREM SerialMarksCleared == Spec /\ []Serial => []MarksCleared
  BY TypedHolds, HInvHolds, ListInv, PTL

(* The interpreter without spawn is such a program.                        *)
THEOREM OneThreadListIntact ==
  ASSUME OneThread
  PROVE  Spec => []ListIntact /\ []MarksCleared
  BY OneIsSerial, SerialListIntact, SerialMarksCleared, PTL

-------------------------------------------------------------------------------
(* What keeps the roots: the object a call will return is allocated, or    *)
(* was freed by the sweep of that call; and gc_free_all is run for a       *)
(* program that refers to nothing any more.                                *)
Kept ==
  /\ RootsKept
  /\ \A t \in Thread : pc[t] \in InAlloc => obj[t] \in alloc \cup dangling
  /\ \A t \in Thread : pc[t] \in {"freeall", "gone"} => roots = {}

LEMMA SweepFreeKept ==
  ASSUME RootCallback, Typed, NEW t \in Thread, Alone(t), Call(t), Kept, SweepFree(t)
  PROVE  Kept'
<1> DEFINE u == Star(cur[t])
<1>1. /\ pc[t] = "sweep" /\ u # NULL /\ ~marked[u]
      /\ alloc' = alloc \ {u}
      /\ dangling' = IF u = obj[t] THEN dangling \cup {u} ELSE dangling
      /\ UNCHANGED <<roots, pc, obj>>
  BY DEF SweepFree
<1>2. u \in Rest(t)
  BY <1>1, SweepAt
<1>3. u \notin roots
  BY <1>1, <1>2 DEF Call, Sweeping
<1> HIDE DEF u
<1>4. RootsKept'
  BY <1>1, <1>3 DEF Kept, RootsKept
<1>5. ASSUME NEW v \in Thread, pc[v] \in InAlloc PROVE obj[v] \in alloc' \cup dangling'
  <2>1. v = t
    BY <1>5 DEF Alone, InAlloc
  <2>2. obj[t] \in alloc \cup dangling
    BY <1>1 DEF Kept, InAlloc
  <2> QED
    BY <1>1, <2>1, <2>2
<1> QED
  BY <1>1, <1>4, <1>5 DEF Kept

LEMMA CallKept ==
  ASSUME RootCallback, Typed, Typed', NEW t \in Thread, Alone(t), Alone(t)', Call(t), Kept,
         Malloc(t) \/ AllocStep(t) \/ Teardown(t) \/ FreeOne(t) \/ FreeEnd(t)
  PROVE  Kept'
<1> DEFINE Holder == pc[t] \in InAlloc => obj[t] \in alloc \cup dangling
<1>1. RootsKept /\ Holder /\ (pc[t] \in {"freeall", "gone"} => roots = {})
  BY DEF Kept
<1>2. \A u \in Thread : u # t => pc'[u] = "idle"
  BY DEF Alone
<1>3. SUFFICES RootsKept' /\ Holder' /\ (pc'[t] \in {"freeall", "gone"} => roots' = {})
  <2> HIDE DEF Holder
  <2>1. ASSUME RootsKept', Holder', pc'[t] \in {"freeall", "gone"} => roots' = {}
        PROVE  Kept'
    BY <1>2, <2>1 DEF Kept, InAlloc, Holder
  <2> QED
    BY <2>1
<1> USE DEF InAlloc, RootsKept
<1>4. CASE Malloc(t)
  <2>1. PICK a \in Addr \ alloc : /\ alloc' = alloc \cup {a} /\ obj'[t] = a
                                  /\ dangling' = dangling \ {a}
    BY <1>4 DEF Malloc, Typed, TypeOK
  <2>2. roots' = roots /\ pc'[t] = "link"
    BY <1>4 DEF Malloc, Goto, Typed, TypeOK
  <2> QED
    BY <1>1, <2>1, <2>2
<1>5. CASE Link(t) \/ Publish(t) \/ Count(t) \/ Mark(t) \/ SweepKeep(t) \/ SweepEnd(t)
  <2>1. pc[t] \in InAlloc /\ pc'[t] \in InAlloc
    BY <1>5 DEF Link, Publish, Count, Mark, SweepKeep, SweepEnd, Goto, Typed, TypeOK
  <2>2. UNCHANGED <<alloc, roots, dangling, obj>>
    BY <1>5 DEF Link, Publish, Count, Mark, SweepKeep, SweepEnd
  <2> QED
    BY <1>1, <2>1, <2>2
<1>6. CASE SweepFree(t)
  <2>1. Kept'
    BY <1>6, SweepFreeKept
  <2> QED
    BY <2>1 DEF Kept
<1>7. CASE Return(t)
  <2>1. /\ pc[t] = "return" /\ pc'[t] = "idle"
        /\ roots' = roots \cup {obj[t]} /\ UNCHANGED <<alloc, dangling>>
    BY <1>7 DEF Return, Goto, Typed, TypeOK
  <2> QED
    BY <1>1, <2>1
<1>8. CASE Teardown(t)
  <2>1. roots' = {} /\ pc'[t] = "freeall"
    BY <1>8 DEF Teardown, Goto, Typed, TypeOK
  <2> QED
    BY <2>1
<1>9. CASE FreeOne(t) \/ FreeEnd(t)
  <2>1. /\ pc[t] = "freeall" /\ pc'[t] \in {"freeall", "gone"} /\ roots' = roots
    BY <1>9 DEF FreeOne, FreeEnd, Goto, Typed, TypeOK
  <2> QED
    BY <1>1, <2>1
<1> QED
  BY <1>4, <1>5, <1>6, <1>7, <1>8, <1>9 DEF AllocStep

LEMMA KeptNext ==
  ASSUME RootCallback, Typed, Typed', Serial, Serial', HInv, Kept, [Next]_vars
  PROVE  Kept'
<1>1. CASE UNCHANGED vars
  BY <1>1 DEF vars, Kept, RootsKept, InAlloc
<1>2. ASSUME NEW u \in Thread, NEW a \in Addr, Drop(u, a) PROVE Kept'
  <2>1. roots' = roots \ {a} /\ UNCHANGED <<alloc, dangling, pc, obj>>
    BY <1>2 DEF Drop
  <2> QED
    BY <2>1 DEF Kept, RootsKept, InAlloc
<1>3. ASSUME NEW t \in Thread,
             Malloc(t) \/ AllocStep(t) \/ Teardown(t) \/ FreeOne(t) \/ FreeEnd(t),
             \A u \in Thread : u # t => pc'[u] = pc[u],
             pc[t] # "idle" \/ pc'[t] # "idle"
      PROVE  Kept'
  <2>1. Alone(t) /\ Alone(t)' /\ Call(t)
    BY <1>3 DEF Serial, Alone, HInv
  <2> QED
    BY <1>3, <2>1, CallKept
<1> QED
  BY <1>1, <1>2, <1>3, StepOf

(* With a callback that marks the roots, whatever the program refers to is *)
(* allocated for as long as it does: no collection frees it, though its    *)
(* address may have been freed and handed out before.  The one exception   *)
(* is an object that gc_alloc returns after its own collection freed it    *)
(* (gc.c:22): such an object is named by dangling until malloc hands out   *)
(* its address again.                                                      *)
THEOREM SerialRootsKept ==
  ASSUME RootCallback
  PROVE  Spec /\ []Serial => []RootsKept
<1>1. Init => Kept
  BY DEF Init, Kept, RootsKept, InAlloc
<1>2. Typed /\ Typed' /\ Serial /\ Serial' /\ HInv /\ Kept /\ [Next]_vars => Kept'
  BY KeptNext
<1>3. Kept => RootsKept
  BY DEF Kept
<1> QED
  BY <1>1, <1>2, <1>3, TypedHolds, HInvHolds, PTL DEF Spec

===============================================================================

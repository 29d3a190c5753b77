--------------------------------- MODULE Heap ---------------------------------
(***************************************************************************)
(* src/gc.c: the list of objects that gc_alloc links, gc_collect sweeps    *)
(* and gc_free_all tears down, with the program around it.                 *)
(*                                                                         *)
(* There is no lock: every thread that evaluates code of one VM runs       *)
(* gc_alloc on the same GC, and the steps of two calls interleave between  *)
(* any two accesses to memory.  An object is an address malloc returns; a  *)
(* freed address may be returned again.                                    *)
(***************************************************************************)
EXTENDS Naturals, Links

CONSTANTS Thread,
          Addr,         \* the addresses malloc may return (bounds the heap)
          NULL,
          Size,         \* the object sizes
          Threshold,    \* next_threshold as gc_init sets it
          RootCallback, \* gc_set_root_callback was called.  Nothing in the
                        \* program calls it: FALSE is the interpreter, TRUE a
                        \* client of gc.h that marks what it can reach
          Main,         \* the thread that runs main
          MaxAllocs     \* calls of gc_alloc (bounds bytes_allocated)

ASSUME HeapAssumption ==
  /\ Main \in Thread
  /\ NULL \notin Addr
  /\ Size \subseteq Nat \ {0}
  /\ Threshold \in Nat \ {0}
  /\ RootCallback \in BOOLEAN
  /\ MaxAllocs \in Nat

VARIABLES objects, bytes, threshold, \* struct GC
          next, marked,              \* the headers of the objects
          alloc,                     \* the addresses malloc handed out
          roots,                     \* the objects the program still refers to
          dangling,                  \* history: freed, not handed out again, by
                                     \* the collection of their own gc_alloc
          pc, obj, size,             \* a call of gc_alloc: its place, o, sz
          cur,                       \* sweep: the Obj** it is at
          allocs

gc == <<objects, bytes, threshold>>
headers == <<next, marked>>
vars == <<objects, bytes, threshold, next, marked, alloc, roots, dangling, pc, obj, size,
          cur, allocs>>

(* An Obj**: the field gc->objects, or the next field of an object. *)
Head == "objects"
ASSUME FieldAssumption == Head \notin Addr

Star(p) == IF p = Head THEN objects ELSE next[p]

Goto(t, l) == pc' = [pc EXCEPT ![t] = l]

(* gc_init *)
Init == /\ objects = NULL
        /\ bytes = 0
        /\ threshold = Threshold
        /\ next = [a \in Addr |-> NULL]
        /\ marked = [a \in Addr |-> FALSE]
        /\ alloc = {}
        /\ roots = {}
        /\ dangling = {}
        /\ pc = [t \in Thread |-> "idle"]
        /\ obj = [t \in Thread |-> NULL]
        /\ size = [t \in Thread |-> 0]
        /\ cur = [t \in Thread |-> Head]
        /\ allocs = 0

(* Obj *o = malloc(sz); o->marked = 0 *)
Malloc(t) ==
  /\ pc[t] = "idle"
  /\ allocs < MaxAllocs
  /\ allocs' = allocs + 1
  /\ \E a \in Addr \ alloc :
        /\ alloc' = alloc \cup {a}
        /\ marked' = [marked EXCEPT ![a] = FALSE]
        /\ obj' = [obj EXCEPT ![t] = a]
        /\ dangling' = dangling \ {a}
  /\ \E sz \in Size : size' = [size EXCEPT ![t] = sz]
  /\ Goto(t, "link")
  /\ UNCHANGED <<gc, next, roots, cur>>

(* Seeded fault: o->next is set after gc->objects. *)
Bug_LinkLast(t) ==
  /\ pc[t] = "link"
  /\ next' = [next EXCEPT ![obj[t]] = obj[t]]
  /\ Goto(t, "publish")
  /\ UNCHANGED <<gc, marked, alloc, roots, dangling, obj, size, cur, allocs>>

(* o->next = gc->objects *)
Link(t) ==
  /\ pc[t] = "link"
  /\ next' = [next EXCEPT ![obj[t]] = objects]
  /\ Goto(t, "publish")
  /\ UNCHANGED <<gc, marked, alloc, roots, dangling, obj, size, cur, allocs>>

(* gc->objects = o *)
Publish(t) ==
  /\ pc[t] = "publish"
  /\ objects' = obj[t]
  /\ Goto(t, "count")
  /\ UNCHANGED <<bytes, threshold, headers, alloc, roots, dangling, obj, size, cur, allocs>>

(* Seeded fault: the size is taken off. *)
Bug_CountDown(t) ==
  /\ pc[t] = "count"
  /\ bytes' = bytes - size[t]
  /\ Goto(t, IF bytes' > threshold THEN "mark" ELSE "return")
  /\ UNCHANGED <<objects, threshold, headers, alloc, roots, dangling, obj, size, cur, allocs>>

(* bytes_allocated is only ever added to; passing the threshold collects.  *)
(* (One step: an addition lost to a race only makes collections rarer.)    *)
Count(t) ==
  /\ pc[t] = "count"
  /\ bytes' = bytes + size[t]
  /\ Goto(t, IF bytes' > threshold THEN "mark" ELSE "return")
  /\ UNCHANGED <<objects, threshold, headers, alloc, roots, dangling, obj, size, cur, allocs>>

(* gc_collect: the callback, if there is one, calls gc_mark on every root.  *)
(* Objects are leaves: nothing else is marked.                             *)
Mark(t) ==
  /\ pc[t] = "mark"
  /\ marked' = IF RootCallback THEN [a \in Addr |-> marked[a] \/ a \in roots]
                               ELSE marked
  /\ cur' = [cur EXCEPT ![t] = Head]
  /\ Goto(t, "sweep")
  /\ UNCHANGED <<gc, next, alloc, roots, dangling, obj, size, allocs>>

(* Seeded fault: sweep leaves the marks of the survivors on. *)
Bug_MarksStay(t) ==
  /\ pc[t] = "sweep"
  /\ Star(cur[t]) # NULL /\ marked[Star(cur[t])]
  /\ cur' = [cur EXCEPT ![t] = Star(cur[t])]
  /\ UNCHANGED <<gc, headers, alloc, roots, dangling, pc, obj, size, allocs>>

(* An object that is marked is kept and unmarked for the next cycle ... *)
SweepKeep(t) ==
  /\ pc[t] = "sweep"
  /\ Star(cur[t]) # NULL /\ marked[Star(cur[t])]
  /\ marked' = [marked EXCEPT ![Star(cur[t])] = FALSE]
  /\ cur' = [cur EXCEPT ![t] = Star(cur[t])]
  /\ UNCHANGED <<gc, next, alloc, roots, dangling, pc, obj, size, allocs>>

(* Seeded fault: sweep unlinks without freeing. *)
Bug_NoFree(t) ==
  LET unreached == Star(cur[t]) IN
  /\ pc[t] = "sweep"
  /\ unreached # NULL /\ ~marked[unreached]
  /\ IF cur[t] = Head
     THEN objects' = next[unreached] /\ UNCHANGED next
     ELSE next' = [next EXCEPT ![cur[t]] = next[unreached]] /\ UNCHANGED objects
  /\ UNCHANGED <<bytes, threshold, marked, alloc, roots, dangling, pc, obj, size, cur, allocs>>

(* Seeded fault: sweep ignores the mark bit. *)
Bug_IgnoreMark(t) ==
  LET unreached == Star(cur[t]) IN
  /\ pc[t] = "sweep"
  /\ unreached # NULL
  /\ IF cur[t] = Head
     THEN objects' = next[unreached] /\ UNCHANGED next
     ELSE next' = [next EXCEPT ![cur[t]] = next[unreached]] /\ UNCHANGED objects
  /\ alloc' = alloc \ {unreached}
  /\ dangling' = IF unreached = obj[t] THEN dangling \cup {unreached} ELSE dangling
  /\ UNCHANGED <<bytes, threshold, marked, roots, pc, obj, size, cur, allocs>>

(* ... any other is unlinked and freed. *)
SweepFree(t) ==
  LET unreached == Star(cur[t]) IN
  /\ pc[t] = "sweep"
  /\ unreached # NULL /\ ~marked[unreached]
  /\ IF cur[t] = Head
     THEN objects' = next[unreached] /\ UNCHANGED next
     ELSE next' = [next EXCEPT ![cur[t]] = next[unreached]] /\ UNCHANGED objects
  /\ alloc' = alloc \ {unreached}
  /\ dangling' = IF unreached = obj[t] THEN dangling \cup {unreached} ELSE dangling
  /\ UNCHANGED <<bytes, threshold, marked, roots, pc, obj, size, cur, allocs>>

SweepEnd(t) ==
  /\ pc[t] = "sweep"
  /\ Star(cur[t]) = NULL
  /\ threshold' = 2 * threshold
  /\ Goto(t, "return")
  /\ UNCHANGED <<objects, bytes, headers, alloc, roots, dangling, obj, size, cur, allocs>>

(* The caller gets o and keeps it in a value. *)
Return(t) ==
  /\ pc[t] = "return"
  /\ roots' = roots \cup {obj[t]}
  /\ Goto(t, "idle")
  /\ UNCHANGED <<gc, headers, alloc, dangling, obj, size, cur, allocs>>

(* The code a thread evaluates stops referring to an object. *)
Drop(t, a) ==
  /\ pc[t] = "idle"
  /\ a \in roots
  /\ roots' = roots \ {a}
  /\ UNCHANGED <<gc, headers, alloc, dangling, pc, obj, size, cur, allocs>>

(* gc_free_all, from vm_free, when the thread that runs main is done,      *)
(* whatever spawned threads are doing: it walks the list (o is obj[t]      *)
(* here) and frees what it meets.                                          *)
Teardown(t) ==
  /\ t = Main
  /\ pc[t] = "idle"
  /\ obj' = [obj EXCEPT ![t] = objects]
  /\ Goto(t, "freeall")
  /\ roots' = {}
  /\ UNCHANGED <<gc, headers, alloc, dangling, size, cur, allocs>>

FreeOne(t) ==
  /\ pc[t] = "freeall"
  /\ obj[t] # NULL
  /\ obj' = [obj EXCEPT ![t] = next[obj[t]]]
  /\ alloc' = alloc \ {obj[t]}
  /\ UNCHANGED <<gc, headers, roots, dangling, pc, size, cur, allocs>>

FreeEnd(t) ==
  /\ pc[t] = "freeall"
  /\ obj[t] = NULL
  /\ objects' = NULL /\ bytes' = 0 /\ threshold' = Threshold
  /\ Goto(t, "gone")
  /\ UNCHANGED <<headers, alloc, roots, dangling, obj, size, cur, allocs>>

AllocStep(t) == Link(t) \/ Publish(t) \/ Count(t) \/ Mark(t) \/ SweepKeep(t)
                \/ SweepFree(t) \/ SweepEnd(t) \/ Return(t)

Next == \E t \in Thread : Malloc(t) \/ AllocStep(t) \/ Teardown(t)
                           \/ FreeOne(t) \/ FreeEnd(t)
                           \/ \E a \in Addr : Drop(t, a)

Spec == Init /\ [][Next]_vars
FairSpec == Spec /\ \A t \in Thread : WF_vars(AllocStep(t) \/ FreeOne(t) \/ FreeEnd(t))
-------------------------------------------------------------------------------
TypeOK == /\ objects \in Addr \cup {NULL}
          /\ bytes \in Nat /\ threshold \in Nat
          /\ next \in [Addr -> Addr \cup {NULL}]
          /\ marked \in [Addr -> BOOLEAN]
          /\ alloc \subseteq Addr /\ roots \subseteq Addr
          /\ dangling \subseteq Addr
          /\ pc \in [Thread -> {"idle", "link", "publish", "count", "mark",
                                "sweep", "return", "freeall", "gone"}]
          /\ obj \in [Thread -> Addr \cup {NULL}]
          /\ size \in [Thread -> Size \cup {0}]
          /\ cur \in [Thread -> Addr \cup {Head}]
          /\ allocs \in 0 .. MaxAllocs

(* The objects on the list that starts at gc->objects. *)
OnList == Reach(objects, next, NULL)

Quiet == \A t \in Thread : pc[t] = "idle"

(* For one thread, the list and the allocated objects agree: the list is   *)
(* never led through freed memory, also in the middle of a sweep that      *)
(* edits the list it walks; between two calls it holds all that is         *)
(* allocated, so that a later sweep or gc_free_all finds every object; and *)
(* gc_free_all leaves none.                                                *)
ListIntact ==
  /\ (\A t \in Thread : pc[t] \notin {"freeall", "gone"}) => OnList \subseteq alloc
  /\ Quiet => OnList = alloc
  /\ (\E t \in Thread : pc[t] = "gone") => alloc = {}

(* A mark does not outlive the cycle that set it: an object dropped later  *)
(* is found unreached by the next sweep.                                   *)
MarksCleared == (\A t \in Thread : pc[t] # "sweep") => \A a \in alloc : ~marked[a]

(* What the program refers to is allocated, for as long as it refers to    *)
(* it: that is what a collector is for.                                    *)
RootsSurvive == roots \subseteq alloc

(* With a callback that marks the roots there is one exception and no      *)
(* other: the object a gc_alloc returns, when its own collection freed it  *)
(* (the callback cannot know it yet).  No collection frees what an earlier *)
(* gc_alloc returned intact, and none after the new one either.            *)
RootsKept == roots \subseteq alloc \cup dangling

(* Every walk ends: gc_alloc returns and gc_free_all comes to the end. *)
CallsReturn == \A t \in Thread : pc[t] \notin {"idle", "gone"}
                                   ~> pc[t] \in {"idle", "gone"}
===============================================================================

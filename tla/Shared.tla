-------------------------------- MODULE Shared --------------------------------
(***************************************************************************)
(* Several threads on one environment: the list of entries of src/env.c    *)
(* that the global environment, or the frame of a call, shares with the    *)
(* closures spawned from it.  No lock guards it.  A step is one access to  *)
(* a shared word, in the order the program makes them: env_set reads and   *)
(* then writes the head of the list, env_lookup follows one link, a symbol *)
(* copies the two words of a Value and set! overwrites them, in any order. *)
(* Between its lookup and its store, a set! holds its entry while the      *)
(* expression for the new value is evaluated, which may define, read and   *)
(* assign in its turn.  An entry may have no value: the typechecker enters *)
(* a name before the def is evaluated, and defstruct and defenum never     *)
(* give it one.                                                            *)
(* Threads other than the owner of the frame push on the global list when  *)
(* they evaluate an import.  gc_alloc pushes on gc->objects in the same    *)
(* two steps.                                                              *)
(***************************************************************************)
EXTENDS Naturals, Sequences

CONSTANTS Thread,
          Definer,   \* the threads that push on the list
          Name,
          Val,       \* values, <<kind, payload>>
          None,
          MaxEntries, \* bound: entries pushed in any run
          Limits     \* bounds, one of which holds for a run: on the entries
                     \* pushed, and for each thread on its set!s that are
                     \* inside each other's value (0: it makes none)

ASSUME SharedAssumption ==
  /\ Definer \subseteq Thread /\ MaxEntries \in Nat
  /\ Limits \subseteq [entries : 0 .. MaxEntries, nested : [Thread -> Nat]]
  /\ None \notin Val /\ None \notin Name
  /\ \A v \in Val : v = <<v[1], v[2]>> /\ v[1] # None /\ v[2] # None

Entry == 1 .. MaxEntries   \* entries, numbered as they are allocated
Word == {1, 2}
Junk == <<None, None>>     \* in the box of an entry: value is NULL

VARIABLES limits,                 \* the bounds of this run
          head, next, name, box,  \* Env.head; the fields of each entry
          used,                   \* how many entries are allocated
          pc, want, val, cur,     \* the call of each thread and its locals
          words, copy,            \* words left to move, and those copied
          waiting,                \* the entries that set!s of a thread hold
                                  \* while the new value is evaluated; the
                                  \* innermost is the last
          order,                  \* history: entries as they became head
          lost,                   \* history: entries pushed while another
                                  \* thread was about to write the head
          floor,                  \* history: the newest entry of the name
                                  \* when the lookup began
          upset,                  \* history: names defined by anyone since
                                  \* the outermost of those set!s began
          own                     \* history: name and value of the last set!,
                                  \* while nothing interfered

list == <<head, next, name, used>>
locals == <<pc, want, val, cur, words, copy, waiting>>
history == <<order, lost, floor, upset, own>>
vars == <<limits, list, box, locals, history>>

Nothing == [name |-> None, val |-> Junk]

Init == /\ limits \in Limits
        /\ head = 0 /\ used = 0 /\ order = <<>> /\ lost = {}
        /\ next = [e \in Entry |-> 0] /\ name = [e \in Entry |-> None]
        /\ box = [e \in Entry |-> Junk]
        /\ pc = [t \in Thread |-> "idle"] /\ want = [t \in Thread |-> None]
        /\ val = [t \in Thread |-> Junk] /\ cur = [t \in Thread |-> 0]
        /\ words = [t \in Thread |-> {}] /\ copy = [t \in Thread |-> Junk]
        /\ waiting = [t \in Thread |-> <<>>] /\ upset = [t \in Thread |-> {}]
        /\ floor = [t \in Thread |-> 0] /\ own = [t \in Thread |-> Nothing]

(* Where an entry stands in the order of the pushes; 0 for none. *)
Age(e) == IF \E i \in DOMAIN order : order[i] = e
          THEN CHOOSE i \in DOMAIN order : order[i] = e ELSE 0

(* The newest entry of x that no race has lost. *)
Newest(x) ==
  LET of == {i \in DOMAIN order : name[order[i]] = x /\ order[i] \notin lost}
  IN IF of = {} THEN 0 ELSE order[CHOOSE i \in of : \A j \in of : j <= i]

(* What the threads of S know of the name that t changes no longer holds. *)
Disturb(t, S) ==
  own' = [u \in Thread |-> IF u \in S /\ own[u].name = want[t]
                           THEN Nothing ELSE own[u]]

(* Thread t has a set! that has not begun to store. *)
Assigning(t) == pc[t] \in {"set", "found"} \/ waiting[t] # <<>>

Start(t, what, x) == /\ pc[t] = "idle"
                     /\ pc' = [pc EXCEPT ![t] = what]
                     /\ want' = [want EXCEPT ![t] = x]

(* The call returns, and its locals are gone. *)
Back(t) == /\ pc' = [pc EXCEPT ![t] = "idle"]
           /\ want' = [want EXCEPT ![t] = None]
           /\ val' = [val EXCEPT ![t] = Junk]
           /\ cur' = [cur EXCEPT ![t] = 0]
           /\ floor' = [floor EXCEPT ![t] = 0]
           /\ copy' = [copy EXCEPT ![t] = Junk]

-------------------------------------------------------------------------------
(* def: the value is boxed and a new entry filled in, both still private;  *)
(* or an entry is made without a value.                                    *)
CallDef(t, x, v) ==
  /\ used < limits.entries
  /\ Start(t, "link", x)
  /\ used' = used + 1
  /\ cur' = [cur EXCEPT ![t] = used + 1]
  /\ name' = [name EXCEPT ![used + 1] = x]
  /\ box' = [box EXCEPT ![used + 1] = v]
  /\ UNCHANGED <<head, next, val, words, copy, waiting, history>>

(* Seeded fault: the entry becomes the head before it is linked. *)
Bug_Link(t) ==
  /\ pc[t] = "link"
  /\ head' = cur[t]
  /\ pc' = [pc EXCEPT ![t] = "publish"]
  /\ UNCHANGED <<next, name, used, box, want, val, cur, words, copy, waiting, history>>

Link(t) ==
  /\ pc[t] = "link"
  /\ next' = [next EXCEPT ![cur[t]] = head]
  /\ pc' = [pc EXCEPT ![t] = "publish"]
  /\ UNCHANGED <<head, name, used, box, want, val, cur, words, copy, waiting, history>>

Publish(t) ==
  /\ pc[t] = "publish"
  /\ head' = cur[t]
  /\ Back(t)
  /\ order' = Append(order, cur[t])
  /\ lost' = IF \E u \in Thread \ {t} : pc[u] = "publish"
             THEN lost \cup {cur[t]} ELSE lost
  /\ Disturb(t, Thread)
  /\ upset' = [u \in Thread |-> IF Assigning(u) THEN upset[u] \cup {want[t]}
                                                ELSE upset[u]]
  /\ UNCHANGED <<next, name, used, box, words, waiting>>

-------------------------------------------------------------------------------
(* A symbol and set! first look the name up. *)
Lookup(t, what, x) ==
  /\ Start(t, what, x)
  /\ cur' = [cur EXCEPT ![t] = head]
  /\ floor' = [floor EXCEPT ![t] = Newest(x)]
  /\ UNCHANGED <<list, box, val, words, copy, waiting, order, lost, upset, own>>

CallGet(t, x) == Lookup(t, "get", x)
CallSet(t, x) == Len(waiting[t]) < limits.nested[t] /\ Lookup(t, "set", x)

Looking(t) == pc[t] \in {"get", "set"}

Walk(t) ==
  /\ Looking(t) /\ cur[t] # 0 /\ name[cur[t]] # want[t]
  /\ cur' = [cur EXCEPT ![t] = next[cur[t]]]
  /\ UNCHANGED <<list, box, pc, want, val, words, copy, waiting, history>>

(* The name is not there: Unit, or the complaint of set!. *)
Missing(t) ==
  /\ Looking(t) /\ cur[t] = 0
  /\ pc' = [pc EXCEPT ![t] = "missed"]
  /\ UNCHANGED <<list, box, want, val, cur, words, copy, waiting, history>>

(* An entry without a value is as good as none: Unit, or the complaint. *)
Found(t) ==
  /\ Looking(t) /\ cur[t] # 0 /\ name[cur[t]] = want[t]
  /\ IF box[cur[t]] # Junk /\ pc[t] = "get"
     THEN pc' = [pc EXCEPT ![t] = "copy"] /\ words' = [words EXCEPT ![t] = Word]
     ELSE /\ pc' = [pc EXCEPT ![t] = IF box[cur[t]] = Junk THEN "unset" ELSE "found"]
          /\ UNCHANGED words
  /\ UNCHANGED <<list, box, want, val, cur, copy, waiting, history>>

Copy(t, w) ==
  /\ pc[t] = "copy" /\ w \in words[t]
  /\ copy' = [copy EXCEPT ![t][w] = box[cur[t]][w]]
  /\ words' = [words EXCEPT ![t] = @ \ {w}]
  /\ pc' = [pc EXCEPT ![t] = IF words[t] = {w} THEN "done" ELSE @]
  /\ UNCHANGED <<list, box, want, val, cur, waiting, history>>

(* set! holds the entry it found and evaluates the new value: the calls of *)
(* t up to the matching CallStore are those of that expression.            *)
Evaluate(t) ==
  /\ pc[t] = "found"
  /\ waiting' = [waiting EXCEPT ![t] = Append(@, cur[t])]
  /\ Back(t)
  /\ UNCHANGED <<list, box, words, order, lost, upset, own>>

(* With no set! left that waits, what it had to know of is forgotten. *)
Forget(t) == upset' = [upset EXCEPT ![t] = IF waiting'[t] = <<>> THEN {} ELSE @]

(* The new value v is there, to be stored in the entry that was held.      *)
(* History: t may rely on it if the name was not defined in the meantime   *)
(* and none of its entries was lost.                                       *)
CallStore(t, v) ==
  LET e == waiting[t][Len(waiting[t])]
      x == name[e]
      Reliable == x \notin upset[t] /\ \A l \in lost : name[l] # x
  IN /\ waiting[t] # <<>>
     /\ Start(t, "store", x)
     /\ val' = [val EXCEPT ![t] = v]
     /\ cur' = [cur EXCEPT ![t] = e]
     /\ words' = [words EXCEPT ![t] = Word]
     /\ waiting' = [waiting EXCEPT ![t] = SubSeq(@, 1, Len(@) - 1)]
     /\ Forget(t)
     /\ own' = [own EXCEPT ![t] = IF Reliable THEN [name |-> x, val |-> v] ELSE Nothing]
     /\ UNCHANGED <<list, box, copy, order, lost, floor>>

(* Seeded fault: the value is stored in the entry at the head. *)
Bug_Store(t, w) ==
  /\ pc[t] = "store" /\ w \in words[t]
  /\ box' = [box EXCEPT ![head][w] = val[t][w]]
  /\ Disturb(t, Thread \ {t})
  /\ words' = [words EXCEPT ![t] = @ \ {w}]
  /\ IF words[t] = {w} THEN Back(t)
     ELSE UNCHANGED <<pc, want, val, cur, copy, floor>>
  /\ UNCHANGED <<list, waiting, order, lost, upset>>

Store(t, w) ==
  /\ pc[t] = "store" /\ w \in words[t]
  /\ box' = [box EXCEPT ![cur[t]][w] = val[t][w]]
  /\ Disturb(t, Thread \ {t})
  /\ words' = [words EXCEPT ![t] = @ \ {w}]
  /\ IF words[t] = {w} THEN Back(t)
     ELSE UNCHANGED <<pc, want, val, cur, copy, floor>>
  /\ UNCHANGED <<list, waiting, order, lost, upset>>

Return(t) == /\ pc[t] \in {"done", "unset", "missed"} /\ Back(t)
             /\ UNCHANGED <<list, box, words, waiting, order, lost, own>>
             /\ Forget(t)

Step(t) == \/ t \in Definer /\ \E x \in Name, v \in Val \cup {Junk} : CallDef(t, x, v)
           \/ \E x \in Name : CallGet(t, x) \/ CallSet(t, x)
           \/ Link(t) \/ Publish(t)
           \/ Walk(t) \/ Missing(t) \/ Found(t)
           \/ Evaluate(t) \/ \E v \in Val : CallStore(t, v)
           \/ \E w \in Word : Copy(t, w) \/ Store(t, w)
           \/ Return(t)

Next == \E t \in Thread : Step(t) /\ UNCHANGED limits

Spec == Init /\ [][Next]_vars

-------------------------------------------------------------------------------
(* A lookup ends at an entry of its name that is at least as new as the    *)
(* newest one there was when it began: neither a push halfway nor one that *)
(* happens during the walk hides a definition or shows a shadowed one.     *)
(* What a push loses when two threads are between reading and writing the  *)
(* head is excepted, and nothing else.                                     *)
FindsNewest ==
  \A t \in Thread :
    /\ pc[t] = "missed" => floor[t] = 0
    /\ pc[t] \in {"copy", "done", "found", "unset"} /\ floor[t] # 0
         => Age(cur[t]) >= Age(floor[t])

(* A thread reads back what it assigned, in one piece and never as a name  *)
(* without a value, as long as                                             *)
(*  - no other thread has stored to that name since the new value was there*)
(*    (the store may then be torn or overwritten);                         *)
(*  - no thread, not even this one, has defined that name since the set!   *)
(*    (or the one in whose new value it is) looked its name up: the        *)
(*    evaluation of the new value may define it, and the store goes to the *)
(*    entry that this shadowed;                                            *)
(*  - no entry of the name had been lost in a race of two pushes: a lost   *)
(*    entry comes back on the list, before the one that was set, when a    *)
(*    thread that linked to it in between publishes.                       *)
OwnWrites ==
  \A t \in Thread :
    /\ pc[t] = "done" /\ own[t].name = want[t] => copy[t] = own[t].val
    /\ pc[t] \in {"missed", "unset"} => own[t].name # want[t]

===============================================================================

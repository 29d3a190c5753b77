--------------------------------- MODULE Links ---------------------------------
(***************************************************************************)
(* Singly linked lists in memory.  next maps an object to the one its next *)
(* field points to, nil is the null pointer, and p a pointer: an object or *)
(* nil.  The objects on the list from p are the least set that has p and   *)
(* is closed under next; this says nothing about order and needs no bound. *)
(***************************************************************************)
Closed(S, p, next, nil) == /\ p = nil \/ p \in S
                           /\ \A a \in S : next[a] = nil \/ next[a] \in S

Reach(p, next, nil) ==
  {a \in DOMAIN next : \A S \in SUBSET DOMAIN next : Closed(S, p, next, nil) => a \in S}
===============================================================================

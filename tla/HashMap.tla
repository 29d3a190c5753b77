------------------------------- MODULE HashMap --------------------------------
(***************************************************************************)
(* The map of src/runtime.c: open addressing with linear probing in a      *)
(* table that is made once (16 slots, map_new_gc) and never grows.         *)
(* map_set_pair and map_get_pair are one step per slot they look at.  The  *)
(* hash is any function from keys to slots: FNV-1a modulo the capacity     *)
(* gives each text one slot, and nothing else about it matters.            *)
(***************************************************************************)
EXTENDS Naturals, FiniteSets

CONSTANTS Key,     \* the texts used as keys
          Value,   \* the integers stored
          None,    \* no key, no value
          Cap      \* m->cap

ASSUME MapAssumption ==
  Cap \in Nat \ {0} /\ None \notin Key /\ None \notin Value /\ Value \subseteq Nat

Slot == 0 .. Cap - 1

VARIABLES hash,        \* the slot a key hashes to
          keys, vals,  \* m->slots: key (None where used is 0) and value
          len,         \* m->len
          pc, key, val, i, start, \* the call in progress and its locals
          answer       \* what the last map-get returned

table == <<keys, vals, len>>
vars == <<hash, keys, vals, len, pc, key, val, i, start, answer>>

Init == /\ hash \in [Key -> Slot]
        /\ keys = [s \in Slot |-> None]
        /\ vals = [s \in Slot |-> None]
        /\ len = 0
        /\ pc = "idle" /\ key = None /\ val = None /\ i = 0 /\ start = 0
        /\ answer = 0

(* Seeded fault: the probe does not go round. *)
Bug_NextNoWrap == i + 1

NextSlot == (i + 1) % Cap

(* The call returns, and its locals are gone. *)
Back == pc' = "idle" /\ key' = None /\ val' = None /\ i' = 0 /\ start' = 0

CallSet(k, v) ==
  /\ pc = "idle"
  /\ pc' = "set" /\ key' = k /\ val' = v /\ i' = hash[k]
  /\ UNCHANGED <<hash, table, start, answer>>

SetHit ==
  /\ pc = "set" /\ keys[i] = key
  /\ vals' = [vals EXCEPT ![i] = val]
  /\ Back
  /\ UNCHANGED <<hash, keys, len, answer>>

(* The loop has no other way out than an unused slot or the key itself. *)
SetProbe ==
  /\ pc = "set" /\ keys[i] \notin {None, key}
  /\ i' = NextSlot
  /\ UNCHANGED <<hash, table, pc, key, val, start, answer>>

(* Seeded fault: a new key goes into the first unused slot of the table. *)
Bug_FirstFree ==
  /\ pc = "set" /\ keys[i] = None
  /\ \E s \in Slot :
        /\ keys[s] = None /\ \A r \in 0 .. s - 1 : keys[r] # None
        /\ keys' = [keys EXCEPT ![s] = key]
        /\ vals' = [vals EXCEPT ![s] = val]
  /\ len' = len + 1
  /\ Back
  /\ UNCHANGED <<hash, answer>>

SetInsert ==
  /\ pc = "set" /\ keys[i] = None
  /\ keys' = [keys EXCEPT ![i] = key]
  /\ vals' = [vals EXCEPT ![i] = val]
  /\ len' = len + 1
  /\ Back
  /\ UNCHANGED <<hash, answer>>

CallGet(k) ==
  /\ pc = "idle"
  /\ pc' = "get" /\ key' = k /\ i' = hash[k] /\ start' = hash[k]
  /\ UNCHANGED <<hash, table, val, answer>>

GetHit ==
  /\ pc = "get" /\ keys[i] = key
  /\ answer' = vals[i]
  /\ Back
  /\ UNCHANGED <<hash, table>>

(* Seeded fault: the lookup does not notice that it came round. *)
Bug_GetForever ==
  /\ pc = "get" /\ keys[i] \notin {None, key}
  /\ i' = NextSlot
  /\ UNCHANGED <<hash, table, pc, key, val, start, answer>>

(* Seeded fault: the lookup stops at the end of the table. *)
Bug_NoWrap ==
  /\ pc = "get" /\ keys[i] \notin {None, key}
  /\ IF NextSlot = 0
     THEN Back /\ answer' = 0
     ELSE i' = NextSlot /\ UNCHANGED <<pc, key, val, start, answer>>
  /\ UNCHANGED <<hash, table>>

(* The lookup, other than the update, stops when it has come round. *)
GetProbe ==
  /\ pc = "get" /\ keys[i] \notin {None, key}
  /\ IF NextSlot = start
     THEN Back /\ answer' = 0
     ELSE i' = NextSlot /\ UNCHANGED <<pc, key, val, start, answer>>
  /\ UNCHANGED <<hash, table>>

GetMiss ==
  /\ pc = "get" /\ keys[i] = None
  /\ answer' = 0
  /\ Back
  /\ UNCHANGED <<hash, table>>

Work == SetHit \/ SetProbe \/ SetInsert \/ GetHit \/ GetProbe \/ GetMiss

Next == \/ \E k \in Key : CallGet(k) \/ \E v \in Value : CallSet(k, v)
        \/ Work

Spec == Init /\ [][Next]_vars
FairSpec == Spec /\ WF_vars(Work)
-------------------------------------------------------------------------------
TypeOK == /\ hash \in [Key -> Slot]
          /\ keys \in [Slot -> Key \cup {None}]
          /\ vals \in [Slot -> Value \cup {None}]
          /\ len \in Nat
          /\ pc \in {"idle", "set", "get"}
          /\ key \in Key \cup {None} /\ val \in Value \cup {None}
          /\ i \in Slot /\ start \in Slot
          /\ answer \in Nat

(* map-len tells how many keys there are, each in one slot. *)
LenCounts ==
  /\ len = Cardinality({s \in Slot : keys[s] # None})
  /\ \A s, r \in Slot : keys[s] = keys[r] /\ keys[s] # None => s = r

(* The slots from a to b, going round. *)
Run(a, b) == IF a <= b THEN a .. b ELSE (a .. Cap - 1) \cup (0 .. b)

(* Probing finds what was stored: no unused slot lies between the slot a   *)
(* key hashes to and the slot it is in.                                    *)
NoGap == \A s \in Slot :
  keys[s] # None => \A r \in Run(hash[keys[s]], s) : keys[r] # None

(* What the table holds can be counted and found: map-len is the number of *)
(* keys, no key is in two slots, and probing never stops short of one.     *)
KeysReachable == LenCounts /\ NoGap

(* Every call returns, except an update with a new key of a full table. *)
CallsReturn ==
  []<>(pc = "idle") \/ <>[](pc = "set" /\ len = Cap /\ \A s \in Slot : keys[s] # key)
-------------------------------------------------------------------------------
(* The table implements the partial function: each call has its effect,    *)
(* on its own key, when it returns.                                        *)
Meaning(k) == IF \E s \in Slot : keys[s] = k
              THEN vals[CHOOSE s \in Slot : keys[s] = k] ELSE None

Call == CASE pc = "idle" -> <<"none">>
          [] pc = "get" -> <<"get", key>>
          [] pc = "set" -> <<"set", key, val>>

Dict == INSTANCE Dictionary WITH dict <- [k \in Key |-> Meaning(k)], call <- Call

ImplementsDictionary == Dict!Spec
===============================================================================

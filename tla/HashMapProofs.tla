---------------------------- MODULE HashMapProofs -----------------------------
(***************************************************************************)
(* Theorems about HashMap, for every set of keys, every hash function and  *)
(* every capacity.                                                         *)
(***************************************************************************)
EXTENDS HashMap, FiniteSetTheorems, TLAPS

LEMMA ModWrap ==
  ASSUME NEW n \in Nat \ {0}, NEW x \in 0 .. n - 1
  PROVE  (x + 1) % n = IF x + 1 = n THEN 0 ELSE x + 1
  OBVIOUS

(* The next slot, going round. *)
LEMMA NextSlotIs ==
  ASSUME TypeOK
  PROVE  NextSlot \in Slot /\ NextSlot = IF i + 1 = Cap THEN 0 ELSE i + 1
<1>1. i \in 0 .. Cap - 1 /\ Cap \in Nat \ {0}
  BY MapAssumption DEF TypeOK, Slot
<1>2. NextSlot = IF i + 1 = Cap THEN 0 ELSE i + 1
  BY <1>1, ModWrap DEF NextSlot
<1> QED
  BY <1>1, <1>2 DEF Slot

LEMMA InitTypeOK == Init => TypeOK
  BY MapAssumption DEF Init, TypeOK, Slot

(* What a lookup answers is a number: a key in the table has a value. *)
Filled == \A s \in Slot : keys[s] # None => vals[s] \in Value

(* A call in progress has its arguments. *)
Arguments == /\ pc = "set" => key \in Key /\ val \in Value
             /\ pc = "get" => key \in Key /\ start = hash[key]

Basic == TypeOK /\ Filled /\ Arguments

LEMMA StepBasic == Basic /\ [Next]_vars => Basic'
<1> USE DEF Basic, TypeOK, Filled, Arguments, Back, table
<1> SUFFICES ASSUME Basic, [Next]_vars PROVE Basic'
  OBVIOUS
<1>0. CASE UNCHANGED vars
  BY <1>0 DEF vars
<1>1. ASSUME NEW k \in Key, CallGet(k) PROVE Basic'
  BY <1>1 DEF CallGet
<1>2. ASSUME NEW k \in Key, NEW v \in Value, CallSet(k, v) PROVE Basic'
  BY <1>2 DEF CallSet
<1>z. 0 \in Slot
  BY MapAssumption DEF Slot
<1>3. CASE SetHit
  BY <1>3, <1>z, MapAssumption DEF SetHit
<1>4. CASE SetProbe
  BY <1>4, NextSlotIs DEF SetProbe
<1>5. CASE SetInsert
  BY <1>5, <1>z, MapAssumption DEF SetInsert
<1>6. CASE GetHit
  BY <1>6, <1>z, MapAssumption DEF GetHit
<1>7. CASE GetProbe
  BY <1>7, <1>z, NextSlotIs DEF GetProbe
<1>8. CASE GetMiss
  BY <1>8, <1>z DEF GetMiss
<1> QED
  BY <1>0, <1>1, <1>2, <1>3, <1>4, <1>5, <1>6, <1>7, <1>8 DEF Next, Work

LEMMA BasicHolds == Spec => []Basic
<1>1. Init => Basic
  BY InitTypeOK DEF Init, Basic, Filled, Arguments
<1> QED
  BY <1>1, StepBasic, PTL DEF Spec

(* Every field of the map and of the call stays in its range: in           *)
(* particular no slot outside of the table is looked at.                   *)
THEOREM MapTypeCorrect == Spec => []TypeOK
  BY BasicHolds, PTL DEF Basic
-------------------------------------------------------------------------------
(* The slots a call has passed hold other keys.  When it has come round to *)
(* the slot it started from, this says nothing, and then no slot is free.  *)
Probed == pc # "idle" =>
  \A r \in Run(hash[key], i) : r # i => keys[r] \notin {None, key}

(* One slot per key. *)
OneSlot == \A s, r \in Slot : keys[s] = keys[r] /\ keys[s] # None => s = r

ProbeInv == NoGap /\ Probed /\ OneSlot

(* One more slot is passed. *)
LEMMA RunGrows ==
  ASSUME TypeOK, NEW h \in Slot, NEW r \in Run(h, NextSlot), r # NextSlot
  PROVE  r \in Run(h, i) /\ NextSlot # h
<1>1. Cap \in Nat \ {0} /\ i \in 0 .. Cap - 1 /\ h \in 0 .. Cap - 1
  BY MapAssumption DEF TypeOK, Slot
<1> QED
  BY <1>1, NextSlotIs DEF Run

(* Of two slots one is met first on the way from a third. *)
LEMMA RunOrder ==
  ASSUME NEW h \in Slot, NEW s \in Slot, NEW r \in Slot
  PROVE  s \in Run(h, r) \/ r \in Run(h, s)
  BY MapAssumption DEF Run, Slot

(* A search that ends at an unused slot has not missed its key. *)
LEMMA NotInTable ==
  ASSUME Basic, ProbeInv, pc # "idle", keys[i] = None, NEW s \in Slot
  PROVE  keys[s] # key
<1> SUFFICES ASSUME keys[s] = key PROVE FALSE
  OBVIOUS
<1>1. key \in Key /\ key # None /\ hash[key] \in Slot /\ i \in Slot
  BY MapAssumption DEF Basic, TypeOK, Arguments
<1>2. \A r \in Run(hash[key], s) : keys[r] # None
  BY <1>1 DEF ProbeInv, NoGap
<1>3. s \in Run(hash[key], i)
  BY <1>1, <1>2, RunOrder
<1> QED
  BY <1>1, <1>3 DEF ProbeInv, Probed

LEMMA StepProbeInv == Basic /\ ProbeInv /\ [Next]_vars => ProbeInv'
<1> SUFFICES ASSUME Basic, ProbeInv, [Next]_vars PROVE ProbeInv'
  OBVIOUS
<1> USE DEF ProbeInv, Back, table
<1>z. TypeOK /\ Arguments
  BY DEF Basic
<1>0. CASE UNCHANGED vars
  BY <1>0 DEF vars, NoGap, Probed, OneSlot, Run
<1>1. ASSUME NEW k \in Key, CallGet(k) \/ \E v \in Value : CallSet(k, v) PROVE ProbeInv'
  <2>1. UNCHANGED <<hash, keys>> /\ key' = k /\ i' = hash[k]
    BY <1>1 DEF CallGet, CallSet
  <2>2. Run(hash[k], hash[k]) = {hash[k]}
    BY <1>z DEF Run, Slot, TypeOK
  <2> QED
    BY <2>1, <2>2 DEF NoGap, Probed, OneSlot, Run
<1>2. CASE SetHit \/ GetHit \/ GetMiss
  BY <1>2 DEF SetHit, GetHit, GetMiss, NoGap, Probed, OneSlot, Run
<1>3. ASSUME SetProbe \/ (GetProbe /\ NextSlot # start) PROVE ProbeInv'
  <2>1. UNCHANGED <<hash, keys, key, pc>> /\ i' = NextSlot /\ keys[i] \notin {None, key}
        /\ pc # "idle"
    BY <1>3 DEF SetProbe, GetProbe
  <2>2. hash[key] \in Slot
    BY <1>z, <2>1 DEF TypeOK, Arguments
  <2>3. ASSUME NEW r \in Run(hash[key], NextSlot), r # NextSlot
        PROVE  keys[r] \notin {None, key}
    BY <1>z, <2>1, <2>2, <2>3, RunGrows DEF Probed
  <2>4. NoGap' /\ OneSlot'
    BY <2>1 DEF NoGap, OneSlot, Run
  <2> QED
    BY <2>1, <2>3, <2>4 DEF Probed, Run
<1>4. CASE GetProbe /\ NextSlot = start
  BY <1>4 DEF GetProbe, NoGap, Probed, OneSlot, Run
<1>5. CASE SetInsert
  <2>1. /\ pc = "set" /\ keys[i] = None /\ pc' = "idle" /\ UNCHANGED hash
        /\ keys' = [keys EXCEPT ![i] = key]
    BY <1>5 DEF SetInsert
  <2>2. i \in Slot /\ keys \in [Slot -> Key \cup {None}] /\ key \in Key /\ key # None
    BY <1>z, <2>1, MapAssumption DEF TypeOK, Arguments
  <2>3. \A s \in Slot : keys[s] # key
    BY <2>1, NotInTable
  <2>4. OneSlot'
    BY <2>1, <2>2, <2>3 DEF OneSlot
  <2>5. ASSUME NEW s \in Slot, keys'[s] # None, NEW r \in Run(hash[keys'[s]], s)
        PROVE  keys'[r] # None
    <3>1. CASE s # i
      BY <2>1, <2>2, <2>5, <3>1 DEF NoGap
    <3>2. CASE s = i
      BY <2>1, <2>2, <2>5, <3>2 DEF Probed
    <3> QED
      BY <3>1, <3>2
  <2>6. NoGap'
    BY <2>1, <2>5 DEF NoGap, Run
  <2> QED
    BY <2>1, <2>4, <2>6 DEF Probed
<1> QED
  BY <1>0, <1>1, <1>2, <1>3, <1>4, <1>5 DEF Next, Work, GetProbe

LEMMA ProbeInvHolds == Spec => []ProbeInv
<1>1. Init => ProbeInv
  BY DEF Init, ProbeInv, NoGap, Probed, OneSlot
<1> QED
  BY <1>1, StepProbeInv, BasicHolds, PTL DEF Spec

(* Probing finds what was stored: an update never leaves an unused slot    *)
(* between the slot a key hashes to and the slot it is in.                 *)
THEOREM NoGapOnTheWay == Spec => []NoGap
  BY ProbeInvHolds, PTL DEF ProbeInv
-------------------------------------------------------------------------------
Used == {s \in Slot : keys[s] # None}

LEMMA UsedFinite == IsFiniteSet(Used)
<1>1. IsFiniteSet(0 .. Cap - 1)
  BY MapAssumption, FS_Interval
<1> QED
  BY <1>1, FS_Subset DEF Used, Slot

LenIsUsed == len = Cardinality(Used)

LEMMA StepLen == Basic /\ LenIsUsed /\ [Next]_vars => LenIsUsed'
<1> SUFFICES ASSUME Basic, len = Cardinality(Used), [Next]_vars
             PROVE  len' = Cardinality(Used')
  BY DEF LenIsUsed
<1> USE DEF Back, table
<1>1. CASE SetInsert
  <2>1. /\ keys[i] = None /\ keys' = [keys EXCEPT ![i] = key] /\ len' = len + 1
        /\ pc = "set"
    BY <1>1 DEF SetInsert
  <2>2. i \in Slot /\ keys \in [Slot -> Key \cup {None}] /\ key # None
    BY <2>1, MapAssumption DEF Basic, TypeOK, Arguments
  <2>3. Used' = Used \cup {i}
    BY <2>1, <2>2 DEF Used
  <2>4. i \notin Used
    BY <2>1 DEF Used
  <2>5. Cardinality(Used \cup {i}) = Cardinality(Used) + 1
    BY <2>4, UsedFinite, FS_AddElement
  <2> QED
    BY <2>1, <2>3, <2>5
<1>2. CASE UNCHANGED vars
  BY <1>2 DEF vars, Used
<1>3. CASE (\E k \in Key : CallGet(k) \/ \E v \in Value : CallSet(k, v)) \/ SetHit
             \/ SetProbe \/ GetHit \/ GetProbe \/ GetMiss
  BY <1>3 DEF CallGet, CallSet, SetHit, SetProbe, GetHit, GetProbe, GetMiss, Used
<1> QED
  BY <1>1, <1>2, <1>3 DEF Next, Work

(* map-len counts the keys, each in a slot of its own, however updates and *)
(* lookups of the same and of colliding keys alternate.                    *)
THEOREM LengthCounts == Spec => []LenCounts
<1>1. Init => LenIsUsed
  <2>1. Init => Used = {}
    BY DEF Init, Used
  <2> QED
    BY <2>1, FS_EmptySet DEF Init, LenIsUsed
<1>2. LenIsUsed /\ OneSlot => LenCounts
  BY DEF LenCounts, OneSlot, LenIsUsed, Used
<1>3. ProbeInv => OneSlot
  BY DEF ProbeInv
<1> QED
  BY <1>1, <1>2, <1>3, StepLen, BasicHolds, ProbeInvHolds, PTL DEF Spec

(* Both together: for every capacity and hash function, map-len is the     *)
(* number of keys, and probing reaches every one of them.                  *)
THEOREM KeysCountedAndFound == Spec => []KeysReachable
BY NoGapOnTheWay, LengthCounts, PTL DEF KeysReachable
-------------------------------------------------------------------------------
(* A key that is in one slot means the value of that slot. *)
LEMMA SlotMeaning ==
  ASSUME NEW ks, NEW vs, NEW k, NEW s \in Slot, ks[s] = k,
         \A r \in Slot : ks[r] = k => r = s
  PROVE  /\ \E r \in Slot : ks[r] = k
         /\ vs[CHOOSE r \in Slot : ks[r] = k] = vs[s]
<1>1. (CHOOSE r \in Slot : ks[r] = k) = s
  OBVIOUS
<1> QED
  BY <1>1

LEMMA HitMeaning ==
  ASSUME Basic, ProbeInv, pc # "idle", keys[i] = key
  PROVE  Meaning(key) = vals[i] /\ vals[i] \in Value
<1>1. i \in Slot /\ keys[i] # None
  BY MapAssumption DEF Basic, TypeOK, Arguments
<1>2. \A r \in Slot : keys[r] = key => r = i
  BY <1>1 DEF ProbeInv, OneSlot
<1> QED
  BY <1>1, <1>2, SlotMeaning DEF Meaning, Basic, Filled

(* A lookup that came round has seen every slot. *)
LEMMA CameRound ==
  ASSUME Basic, ProbeInv, GetProbe, NextSlot = start, NEW s \in Slot
  PROVE  keys[s] # key
<1>1. pc = "get" /\ keys[i] # key /\ start = hash[key] /\ start \in Slot
  BY DEF GetProbe, Basic, TypeOK, Arguments
<1>2. TypeOK /\ Cap \in Nat \ {0} /\ i \in 0 .. Cap - 1 /\ s \in 0 .. Cap - 1
  BY MapAssumption DEF Basic, TypeOK, Slot
<1>3. start = IF i + 1 = Cap THEN 0 ELSE i + 1
  BY <1>2, NextSlotIs
<1>4. s \in Run(start, i)
  BY <1>2, <1>3 DEF Run
<1> QED
  BY <1>1, <1>4 DEF ProbeInv, Probed

(* An update changes the meaning of its key and of no other. *)
LEMMA UpdateMeaning ==
  ASSUME Basic, ProbeInv, SetHit \/ SetInsert
  PROVE  [k \in Key |-> Meaning(k)'] = [[k \in Key |-> Meaning(k)] EXCEPT ![key] = val]
<1>1. /\ pc = "set" /\ key \in Key /\ key # None /\ i \in Slot
      /\ keys \in [Slot -> Key \cup {None}] /\ vals \in [Slot -> Value \cup {None}]
  BY MapAssumption DEF SetHit, SetInsert, Basic, TypeOK, Arguments
<1>2. \A r \in Slot : keys[r] = key => r = i
  BY <1>1, NotInTable DEF SetHit, SetInsert, ProbeInv, OneSlot
<1>3. /\ keys' = [keys EXCEPT ![i] = key] /\ vals' = [vals EXCEPT ![i] = val]
      /\ keys[i] \in {None, key}
  BY <1>1 DEF SetHit, SetInsert
<1>4. ASSUME NEW k \in Key, k = key PROVE Meaning(k)' = val
  <2>1. keys'[i] = k /\ vals'[i] = val /\ \A r \in Slot : keys'[r] = k => r = i
    BY <1>1, <1>2, <1>3, <1>4
  <2> QED
    BY <1>1, <2>1, SlotMeaning DEF Meaning
<1>5. ASSUME NEW k \in Key, k # key
      PROVE  Meaning(k)' = Meaning(k)
  <2>1. k # None
    BY MapAssumption
  <2>2. \A r \in Slot : (keys'[r] = k) <=> (keys[r] = k)
    BY <1>1, <1>3, <1>5, <2>1
  <2>3. CASE \E s \in Slot : keys[s] = k
    <3>1. PICK s \in Slot : keys[s] = k
      BY <2>3
    <3>2. \A r \in Slot : keys[r] = k => r = s
      BY <2>1, <3>1 DEF ProbeInv, OneSlot
    <3>3. keys'[s] = k /\ (\A r \in Slot : keys'[r] = k => r = s) /\ s # i
      BY <1>3, <1>5, <2>1, <2>2, <3>1, <3>2
    <3>4. vals'[s] = vals[s]
      BY <1>1, <1>3, <3>3
    <3>5. Meaning(k) = vals[s]
      BY <3>1, <3>2, SlotMeaning DEF Meaning
    <3>6. Meaning(k)' = vals'[s]
      BY <3>1, <3>3, SlotMeaning DEF Meaning
    <3> QED
      BY <3>4, <3>5, <3>6
  <2>4. CASE ~ \E s \in Slot : keys[s] = k
    BY <2>2, <2>4 DEF Meaning
  <2> QED
    BY <2>3, <2>4
<1> QED
  BY <1>1, <1>4, <1>5

LEMMA StepImplements ==
  Basic /\ ProbeInv /\ [Next]_vars => [Dict!Next]_(Dict!dvars)
<1> SUFFICES ASSUME Basic, ProbeInv, [Next]_vars
             PROVE  [Dict!Next]_(Dict!dvars)
  OBVIOUS
<1> USE DEF Back, table
<1>0. CASE UNCHANGED vars
  BY <1>0 DEF vars, Dict!dvars, Meaning, Call
<1>1. ASSUME NEW k \in Key, CallGet(k) PROVE Dict!Invoke
  <2>1. Call = <<"none">> /\ Call' = <<"get", k>>
    BY <1>1 DEF CallGet, Call
  <2>2. UNCHANGED <<keys, vals, answer>>
    BY <1>1 DEF CallGet
  <2> QED
    BY <2>1, <2>2 DEF Dict!Invoke, Meaning
<1>2. ASSUME NEW k \in Key, NEW v \in Value, CallSet(k, v) PROVE Dict!Invoke
  <2>1. Call = <<"none">> /\ Call' = <<"set", k, v>>
    BY <1>2 DEF CallSet, Call
  <2>2. UNCHANGED <<keys, vals, answer>>
    BY <1>2 DEF CallSet
  <2> QED
    BY <2>1, <2>2 DEF Dict!Invoke, Meaning
<1>3. CASE SetHit \/ SetInsert
  <2>1. pc = "set" /\ pc' = "idle" /\ answer' = answer
    BY <1>3 DEF SetHit, SetInsert
  <2>2. Call = <<"set", key, val>> /\ Call' = <<"none">>
    BY <2>1 DEF Call
  <2>3. key \in Key /\ val \in Value
    BY <2>1 DEF Basic, Arguments
  <2>4. [k \in Key |-> Meaning(k)'] = [[k \in Key |-> Meaning(k)] EXCEPT ![key] = val]
    BY <1>3, UpdateMeaning
  <2>5. Dict!Assign
    BY <2>1, <2>2, <2>3, <2>4 DEF Dict!Assign
  <2> QED
    BY <2>5 DEF Dict!Next
<1>4. CASE SetProbe \/ (GetProbe /\ NextSlot # start)
  BY <1>4 DEF SetProbe, GetProbe, Dict!dvars, Meaning, Call
<1>5. CASE GetHit \/ GetMiss \/ (GetProbe /\ NextSlot = start)
  <2>1. pc = "get" /\ pc' = "idle" /\ UNCHANGED <<keys, vals>>
    BY <1>5 DEF GetHit, GetMiss, GetProbe
  <2>2. Call = <<"get", key>> /\ Call' = <<"none">>
    BY <2>1 DEF Call
  <2>3. key \in Key /\ key # None /\ i \in Slot
    BY <2>1, MapAssumption DEF Basic, Arguments, TypeOK
  <2>4. answer' = IF Meaning(key) = None THEN 0 ELSE Meaning(key)
    <3>1. CASE GetHit
      <4>1. Meaning(key) = vals[i] /\ vals[i] \in Value /\ answer' = vals[i]
        BY <2>1, <3>1, HitMeaning DEF GetHit
      <4> QED
        BY <4>1, MapAssumption
    <3>2. CASE GetMiss
      <4>1. \A s \in Slot : keys[s] # key
        BY <2>1, <3>2, NotInTable DEF GetMiss
      <4> QED
        BY <3>2, <4>1 DEF GetMiss, Meaning
    <3>3. CASE GetProbe /\ NextSlot = start
      <4>1. \A s \in Slot : keys[s] # key
        BY <3>3, CameRound
      <4> QED
        BY <3>3, <4>1 DEF GetProbe, Meaning
    <3> QED
      BY <1>5, <3>1, <3>2, <3>3
  <2>5. Dict!Lookup
    BY <2>1, <2>2, <2>3, <2>4 DEF Dict!Lookup, Meaning
  <2> QED
    BY <2>5 DEF Dict!Next
<1> QED
  BY <1>0, <1>1, <1>2, <1>3, <1>4, <1>5 DEF Next, Work, Dict!Next

(* The table is a dictionary: whatever the hash function, with collisions  *)
(* and with a full table, an update changes its own key only, and a lookup *)
(* answers the last value stored, or 0 if there is none.                   *)
THEOREM TableIsDictionary == Spec => ImplementsDictionary
<1>1. Init => Dict!Init
  BY MapAssumption DEF Init, Dict!Init, Meaning, Call
<1> QED
  BY <1>1, StepImplements, BasicHolds, ProbeInvHolds, PTL
  DEF Spec, ImplementsDictionary, Dict!Spec
===============================================================================

------------------------------ MODULE Dictionary ------------------------------
(***************************************************************************)
(* What a map of the language promises: a partial function from keys to    *)
(* integers.  An update changes the value of its key and of no other, a    *)
(* lookup answers the value of its key, or 0 if that was never set.        *)
(***************************************************************************)
EXTENDS Naturals

CONSTANTS Key, Value, None

VARIABLES dict,    \* the value of each key, None where there is none
          call,    \* "none", or the call in progress with its arguments
          answer   \* what the last lookup returned

dvars == <<dict, call, answer>>

Init == dict = [k \in Key |-> None] /\ call = <<"none">> /\ answer = 0

Invoke == /\ call = <<"none">>
          /\ \E k \in Key : \/ call' = <<"get", k>>
                            \/ \E v \in Value : call' = <<"set", k, v>>
          /\ UNCHANGED <<dict, answer>>

Assign == \E k \in Key, v \in Value :
  /\ call = <<"set", k, v>>
  /\ dict' = [dict EXCEPT ![k] = v]
  /\ call' = <<"none">>
  /\ UNCHANGED answer

Lookup == \E k \in Key :
  /\ call = <<"get", k>>
  /\ answer' = IF dict[k] = None THEN 0 ELSE dict[k]
  /\ call' = <<"none">>
  /\ UNCHANGED dict

Next == Invoke \/ Assign \/ Lookup

Spec == Init /\ [][Next]_dvars
===============================================================================

------------------------------- MODULE MCShared -------------------------------
(* Two threads and two names: pushes overlap, entries are shadowed, and    *)
(* names are found at either end of the list.  Either three entries, the   *)
(* fewest with which a lost one comes back, while one thread assigns; or   *)
(* two while both do, one of them also inside the value of another set!.   *)
EXTENDS Shared, TLC

CONSTANTS t1, t2, n1, n2, w1, w2

MCThread == {t1, t2}
MCName == {n1, n2}
\* The words of a value differ from those of another, so a torn one shows.
MCWord == {w1, w2}
MCVal == {<<w1, w1>>, <<w2, w2>>}
MCLimits == { [entries |-> 3, nested |-> (t1 :> 1 @@ t2 :> 0)],
              [entries |-> 2, nested |-> (t1 :> 2 @@ t2 :> 1)] }
Swaps == Permutations(MCName) \cup Permutations(MCWord)
===============================================================================

------------------------------ MODULE MCChannel -------------------------------
(* Small instances of Channel for TLC. *)
EXTENDS Channel, TLC

(* Threads are interchangeable, and so are the addresses malloc returns. *)
Symmetry == Permutations(Thread) \cup Permutations(Box)
===============================================================================

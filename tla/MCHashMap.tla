------------------------------ MODULE MCHashMap -------------------------------
(* Small instances of HashMap for TLC: every hash function on the keys. *)
EXTENDS HashMap
===============================================================================

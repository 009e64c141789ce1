------------------------------ MODULE MCKeyStep ------------------------------
(* Two teammates, and a key more than they can be given. *)
EXTENDS KeyStep

CONSTANTS ann, bob
=============================================================================

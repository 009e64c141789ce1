------------------------------- MODULE MCPanel -------------------------------
(* Two forms a visitor may submit, in two submissions. *)
EXTENDS Panel

CONSTANTS ann, bob, codenames
=============================================================================

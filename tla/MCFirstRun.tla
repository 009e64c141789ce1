----------------------------- MODULE MCFirstRun -----------------------------
(* Visitors with different forms. *)
EXTENDS FirstRun

MCSlug == [f \in Forms |-> f]
=============================================================================

---------------------------- MODULE MCTenantKeys ----------------------------
(* Tenants acme and globex share a deployment; each has a virtual key. *)
EXTENDS TenantKeys

CONSTANTS acme, globex, va, vg, openai

MCHolder == [k \in Prefixes |-> IF k = vg THEN globex ELSE acme]

\* acme's virtual key is good for one provider only.
MCAllowed == [k \in Prefixes |-> IF k = va THEN {openai} ELSE {}]
=============================================================================

-------------------------- MODULE MCVirtualKeyAuth --------------------------
(***************************************************************************)
(* VirtualKeyAuth on a small instance.                                     *)
(***************************************************************************)
EXTENDS VirtualKeyAuth

CONSTANTS good, twin, bad

\* Every prefix was issued with the secret good; the others are anybody else's.
MCIssuedSecret == [k \in Prefixes |-> good]

\* twin is another string with the FNV-1a value of good.
MCHash == [s \in Secrets |-> IF s = bad THEN "2e0f" ELSE "91ac"]
=============================================================================

----------------------------- MODULE OneTimeKey -----------------------------
(***************************************************************************)
(* What step 3 of the onboarding promises of a virtual key's plaintext:    *)
(* "Once a key is issued the screen swaps to a one-time reveal pane: the   *)
(* plaintext is shown, the operator must click Copy at least once, and     *)
(* only then can they advance to step 4.  The plaintext is never           *)
(* re-fetchable."                                                          *)
(***************************************************************************)
EXTENDS Naturals

CONSTANTS MaxKeys  \* bound: keys ever issued

Keys == 1 .. MaxKeys

VARIABLES
  fate,    \* fate[k]: where the plaintext of key k is
  copied,  \* Copy was clicked
  ahead    \* the operator is at step 4

vars == <<fate, copied, ahead>>

Fates == {"unissued", "underway", "shown", "gone"}

Shown == {k \in Keys : fate[k] = "shown"}

Becomes(k, what) == fate' = [fate EXCEPT ![k] = what]

Init == fate = [k \in Keys |-> "unissued"] /\ copied = FALSE /\ ahead = FALSE

\* The gateway issues key k; nobody may be waiting for its answer any more.
Issue(k) ==
  /\ fate[k] = "unissued"
  /\ \E what \in {"underway", "gone"} : Becomes(k, what)
  /\ UNCHANGED <<copied, ahead>>

Show(k) ==
  /\ fate[k] = "underway" /\ Shown = {}
  /\ Becomes(k, "shown")
  /\ copied' = FALSE
  /\ UNCHANGED ahead

Copy == Shown # {} /\ copied' = TRUE /\ UNCHANGED <<fate, ahead>>

Advance ==
  /\ Shown # {} /\ copied
  /\ fate' = [k \in Keys |-> IF k \in Shown THEN "gone" ELSE fate[k]]
  /\ copied' = FALSE
  /\ ahead' = TRUE

\* An answer that breaks off, or a page closed with what it shows or waits for.
Lose(K) ==
  /\ K \subseteq {k \in Keys : fate[k] \in {"underway", "shown"}}
  /\ fate' = [k \in Keys |-> IF k \in K THEN "gone" ELSE fate[k]]
  /\ copied' = (copied /\ K \cap Shown = {})
  /\ ahead' = FALSE

Next ==
  \/ \E k \in Keys : Issue(k) \/ Show(k)
  \/ Copy
  \/ Advance
  \/ \E K \in SUBSET Keys : Lose(K)

Spec == Init /\ [][Next]_vars

-----------------------------------------------------------------------------
\* What this comes to for a key.

\* One plaintext is shown at a time.
OneShown == \A j, k \in Shown : j = k

\* "The plaintext is never re-fetchable": one that has been shown stays where
\* it is until it is gone, and is gone for good.
NeverShownAgain ==
  [][\A k \in Keys : fate[k] \in {"shown", "gone"} => fate'[k] \in {fate[k], "gone"}]_vars
=============================================================================

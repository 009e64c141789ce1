---------------------------- MODULE MCInspector ----------------------------
(***************************************************************************)
(* Inspector on a small instance: the policies of two tenants, one of      *)
(* which has two of the same version, the policy of stream windows, and a  *)
(* few telling texts.                                                      *)
(***************************************************************************)
EXTENDS Inspector, TLC

CONSTANTS
  acme, draft, globex, bare, off, typo,    \* policies
  empty, credential, vague,                \* texts
  s1, s2,                                  \* shapes
  Listed                                   \* custom categories of acme

\* globex has a rule for the text "vague", to ESCALATE it.  draft is a second
\* policy of acme's company, in its first version too; it never asks the judge.
\* typo has a regex that does not compile.
MCPolicy == [p \in Policies |->
  [scope        |-> IF p = draft THEN acme ELSE p,
   mock         |-> p = off,
   categories   |-> CASE p = acme -> Listed [] p \in {globex, draft} -> 1
                      [] p = typo -> 3 [] OTHER -> 0,
   valid        |-> p # typo,
   llmOnly      |-> p = globex,
   noEscalation |-> p = draft,
   hits         |-> [t \in Texts |-> IF p = globex /\ t = vague THEN {"ESCALATE"} ELSE {}]]]

MCText == [t \in Texts |->
  [hits   |-> IF t = credential THEN {"BLOCK"} ELSE {},
   medium |-> t # empty,
   short  |-> FALSE]]

\* The judge masks vague texts, or cannot tell, and allows the rest.
MCJudgeSays == [k \in Policies \X Texts |->
  IF k[2] = vague THEN {"MASK", "ESCALATE"} ELSE {"ALLOW"}]

Prompt(p, t, s) == [kind |-> "prompt", policy |-> p, text |-> t, shape |-> s]

Window(t) == [kind |-> "window", policy |-> bare, text |-> t, shape |-> s1]

\* A text only the judge decides for one policy and a rule has a word on for
\* the others, in two message lists, and one that is blocked whatever the judge
\* says.
MCTelling ==
  {Prompt(p, vague, s1) : p \in {acme, draft, globex}}
    \cup {Prompt(acme, vague, s2), Prompt(acme, credential, s1)}

\* Every way through the semaphore: judged, mocked, not compiled, a window.
MCEveryKind ==
  {Prompt(p, vague, s1) : p \in {acme, globex, off, typo}}
    \cup {Prompt(acme, credential, s1), Window(credential)}

\* The same text under two tenants.
MCTenants == {Prompt(p, vague, s1) : p \in {acme, globex}}

\* Used without liveness.
Symmetry == Permutations(Calls) \cup Permutations(Addresses)
=============================================================================

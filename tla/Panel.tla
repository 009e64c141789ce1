-------------------------------- MODULE Panel --------------------------------
(***************************************************************************)
(* The panel in one browser tab: the pages (SetupPages) and the live log   *)
(* (LogStream), which lives as long as its page is shown and asks for its  *)
(* stream with the token of the session of the moment.                     *)
(***************************************************************************)
EXTENDS SetupPages, LogStream

vars == <<pagesVars, streamVars>>

Init == PagesInit /\ StreamInit

\* The log page comes and goes with its table.
Mounts ==
  CASE page # "logs" /\ page' = "logs" -> Mount("connecting")
    [] page = "logs" /\ page' # "logs" -> Mount("none")
    [] OTHER                           -> UNCHANGED streamVars

\* The log page is loaded again.
Reload == page = "logs" /\ Mount("connecting") /\ UNCHANGED pagesVars

Stream == StreamNext(session # Nobody /\ token) /\ UNCHANGED pagesVars

Next == (PagesNext /\ Mounts) \/ Reload \/ Stream

Spec == Init /\ [][Next]_vars

\* The panel's timers end what the gateway does not; nothing is asked of the
\* gateway, the feed or the user.
FairSpec == Spec /\ WF_vars(Waiting /\ Mounts)
=============================================================================

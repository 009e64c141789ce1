----------------------------- MODULE AdminProxy -----------------------------
(***************************************************************************)
(* The way of an admin call: the browser asks a route of the panel         *)
(* (panel/app/api/admin), the route passes the call to the gateway         *)
(* (panel/lib/admin-proxy.ts) and turns what becomes of it into one of     *)
(* four answers the onboarding pages can tell apart:                       *)
(*                                                                         *)
(*   payload   a 2xx with the gateway's JSON                               *)
(*   bare      a 2xx with {}: the gateway's body broke off                 *)
(*   error     a 4xx or 5xx, with or without an error text                 *)
(*   demo      the 503 with demo: true                                     *)
(***************************************************************************)

Answers == {"payload", "bare", "error", "demo"}

\* What the proxy gets of the gateway: a whole reply, the head of a 2xx whose
\* body breaks off, an error status, a 404, or nothing before the abort.
Replies == {"done", "cut", "refused", "notFound", "nothing"}

Ok(answer) == answer \in {"payload", "bare"}

\* Faulty Proxied: an abort is passed on like a body that breaks off.
ProxiedQuietly(reply) ==
  CASE reply = "done"                 -> "payload"
    [] reply \in {"cut", "nothing"}   -> "bare"
    [] reply = "refused"              -> "error"
    [] reply = "notFound"             -> "demo"

\* proxyToGateway.  A whole reply and a broken body keep the status; an
\* exception, the abort's included, becomes the demo answer, as a 404 does.
Proxied(reply) ==
  CASE reply = "done"                     -> "payload"
    [] reply = "cut"                      -> "bare"
    [] reply = "refused"                  -> "error"
    [] reply \in {"notFound", "nothing"}  -> "demo"
=============================================================================

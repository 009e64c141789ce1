------------------------------- MODULE KeyStep -------------------------------
(***************************************************************************)
(* Step 3 of the onboarding, "Create the first user"                       *)
(* (panel/components/onboarding/step-3-user.tsx, step-3-user-client.tsx):  *)
(* a virtual key for the admin, or for a teammate who is created first,    *)
(* with the routes (panel/app/api/admin/users) and the gateway's handlers  *)
(* behind them (gateway/internal/handlers/admin/users.go, keys.go).        *)
(*                                                                         *)
(* The plaintext of a key is in one answer and nowhere else.  The two      *)
(* calls of the teammate's path are two transactions: an abort, a broken   *)
(* answer or a reload can fall between them.                               *)
(*                                                                         *)
(* CreateVirtualKey asks its INSERT to return a column virtual_keys does   *)
(* not have, so at this commit the gateway refuses every key; the model    *)
(* lets it refuse or issue, as the panel is written for both.              *)
(***************************************************************************)
EXTENDS AdminProxy, Naturals, Sequences

CONSTANTS
  Emails,   \* addresses of teammates
  Admin,    \* the signed-in admin's account: the id of a row of admins; the row
            \* of users that mirrors the admin has an id of its own
  Invalid,  \* teammate entries with a short name or no address
  MaxKeys   \* bound: keys ever issued

ASSUME KeyStepAssumption ==
  /\ Admin \notin Emails
  /\ Invalid \notin Emails \cup {Admin}
  /\ MaxKeys \in Nat

VARIABLES
  screen,  \* step 3, step 4 or an error page
  me,      \* what the page was given of the admin: an id, no id, nothing
  tab,
  entry,   \* the teammate form
  alert,   \* the alert above the tabs
  call,    \* the call the page waits for
  issued,  \* the key the reveal pane shows, 0 if none
  copied,
  list,    \* the list of users: loading, or how its call ended
  users,   \* the addresses that have a row
  keys,    \* the keys issued, their owners in order
  late,    \* writes the gateway may still commit, unheard
  warned   \* the owners of whose calls the user saw the failure, or left

client == <<screen, me, tab, entry, alert, call, issued, copied, list>>
server == <<users, keys, late>>
vars == <<client, server, warned>>

Owners == Emails \cup {Admin}

NoCall == [kind |-> "none", at |-> "browser", owner |-> Admin, key |-> 0,
           answer |-> "error"]

Begun(kind, owner) == [NoCall EXCEPT !.kind = kind, !.at = "panel", !.owner = owner]

Pending == call.kind # "none"

Init ==
  /\ screen = "step3"
  /\ me \in {"id", "noId", "none"}
  /\ tab = "me"
  /\ entry = Invalid
  /\ alert = "none"
  /\ call = NoCall
  /\ issued = 0
  /\ copied = FALSE
  /\ list = "loading"
  /\ users = {}
  /\ keys = <<>>
  /\ late = {}
  /\ warned = {}

\* The write of the call that the page stops waiting for.
Unheard == IF call.at \in {"panel", "gateway"}
           THEN {[kind |-> call.kind, owner |-> call.owner]} ELSE {}

Concerned == IF Pending THEN {call.owner} ELSE {}

\* Step3User asks for the admin on every render; 2.5 s later it does without.
\* What the page held is gone.
Show(s) ==
  /\ screen' = s
  /\ me' \in IF s = "step3" THEN {"id", "noId", "none"} ELSE {"none"}
  /\ tab' = "me"
  /\ entry' = Invalid
  /\ alert' = "none"
  /\ call' = NoCall
  /\ issued' = 0
  /\ copied' = FALSE
  /\ list' = "loading"
  /\ late' = late \cup Unheard
  /\ warned' = warned \cup Concerned
  /\ UNCHANGED <<users, keys>>

-----------------------------------------------------------------------------
\* The user.

\* The reveal pane stands in for everything else.
Form == screen = "step3" /\ issued = 0

MinePane == Form /\ tab = "me"

TeammatePane == Form /\ tab = "teammate"

RevealPane == issued # 0

SwitchTab(t) ==
  /\ Form
  /\ t # tab
  /\ tab' = t
  /\ alert' = "none"
  /\ UNCHANGED <<screen, me, entry, call, issued, copied, list, server, warned>>

\* The fields stay open while a call is under way.
Fill(e) ==
  /\ TeammatePane
  /\ e # entry
  /\ entry' = e
  /\ UNCHANGED <<screen, me, tab, alert, call, issued, copied, list, server, warned>>

\* issueKeyFor.
Issue(owner) == call' = Begun("issue", owner) /\ alert' = "none"

HandleGenerateMine ==
  /\ MinePane /\ ~Pending
  /\ IF me = "id" THEN Issue(Admin) ELSE alert' = "demo" /\ UNCHANGED call
  /\ UNCHANGED <<screen, me, tab, entry, issued, copied, list, server, warned>>

\* teammateValid.
TeammateValid == entry \in Emails

HandleAddTeammate ==
  /\ TeammatePane /\ ~Pending
  /\ TeammateValid
  /\ call' = Begun("create", entry)
  /\ alert' = "none"
  /\ UNCHANGED <<screen, me, tab, entry, issued, copied, list, server, warned>>

\* A clipboard that fails counts as a copy.
Copy ==
  /\ RevealPane
  /\ copied' = TRUE
  /\ UNCHANGED <<screen, me, tab, entry, alert, call, issued, list, server, warned>>

\* Faulty Continue: the button is never disabled.
ContinueAnyway ==
  /\ RevealPane
  /\ Show("step4")

Continue ==
  /\ RevealPane /\ copied
  /\ Show("step4")

\* The page is opened, opened again or reloaded.
Visit == Show("step3")

-----------------------------------------------------------------------------
\* The calls.

Client == <<screen, me, tab, entry, alert, issued, copied, list>>

Reach(place) == [call EXCEPT !.at = place]

Heard(reply) == [call EXCEPT !.at = "answered", !.answer = Proxied(reply)]

\* POST of users/route.ts.
UsersRoute ==
  /\ call.at = "panel" /\ call.kind = "create"
  /\ call' \in {Reach("gateway"), Heard("refused")}
  /\ UNCHANGED <<Client, server, warned>>

\* POST of users/[id]/keys/route.ts.
KeysRoute ==
  /\ call.at = "panel" /\ call.kind = "issue"
  /\ call' \in {Reach("gateway"), Heard("refused")}
  /\ UNCHANGED <<Client, server, warned>>

\* Faulty Creatable: an address may have several rows.
CreatableAgain(e) == e \in Emails

\* UNIQUE (company_id, email).
Creatable(e) == e \in Emails \ users

\* user_id REFERENCES users (id): the admin's own id is none.
Issuable(owner) == owner \in users /\ Len(keys) < MaxKeys

\* The write itself: CreateUser, or CreateUserKey with its fresh plaintext.
Write(kind, owner) ==
  IF kind = "create"
  THEN Creatable(owner) /\ users' = users \cup {owner} /\ UNCHANGED keys
  ELSE Issuable(owner) /\ keys' = Append(keys, owner) /\ UNCHANGED users

Commit ==
  /\ call.at = "gateway"
  /\ Write(call.kind, call.owner)
  /\ call' = [Reach("committed") EXCEPT !.key = IF call.kind = "issue" THEN Len(keys) + 1
                                               ELSE 0]
  /\ UNCHANGED <<Client, late, warned>>

Replied ==
  /\ \/ call.at = "committed" /\ call' \in {Heard("done"), Heard("cut")}
     \/ call.at = "gateway" /\ call' \in {Heard("refused"), Heard("notFound")}
  /\ UNCHANGED <<Client, server, warned>>

\* Faulty Aborted: no timer.
AbortedNever == FALSE /\ UNCHANGED vars

Aborted ==
  /\ call.at \in {"gateway", "committed"}
  /\ call' = Heard("nothing")
  /\ late' = late \cup Unheard
  /\ UNCHANGED <<Client, users, keys, warned>>

\* Both handlers show an answer that is not the one they need, a 2xx without
\* its body included.
Fails ==
  /\ alert' = IF call.answer = "demo" THEN "demo" ELSE "error"
  /\ call' = NoCall
  /\ warned' = warned \cup {call.owner}
  /\ UNCHANGED <<issued, copied>>

\* Faulty CreateAnswered: the key is left to a second click.
CreateAnsweredOnly ==
  /\ call.at = "answered" /\ call.kind = "create"
  /\ IF call.answer = "payload"
     THEN call' = NoCall /\ UNCHANGED <<alert, issued, copied, warned>>
     ELSE Fails
  /\ UNCHANGED <<screen, me, tab, entry, list, server>>

\* handleAddTeammate goes on to issueKeyFor with the id it got.
CreateAnswered ==
  /\ call.at = "answered" /\ call.kind = "create"
  /\ IF call.answer = "payload"
     THEN Issue(call.owner) /\ UNCHANGED <<issued, copied, warned>>
     ELSE Fails
  /\ UNCHANGED <<screen, me, tab, entry, list, server>>

IssueAnswered ==
  /\ call.at = "answered" /\ call.kind = "issue"
  /\ IF call.answer = "payload"
     THEN /\ issued' = call.key
          /\ copied' = FALSE
          /\ call' = NoCall
          /\ UNCHANGED <<alert, warned>>
     ELSE Fails
  /\ UNCHANGED <<screen, me, tab, entry, list, server>>

FetchRejected ==
  /\ call.at \in {"panel", "gateway", "committed", "answered"}
  /\ Show("crashed")

LateWrite(w) ==
  /\ w \in late
  /\ late' = late \ {w}
  /\ Write(w.kind, w.owner) \/ UNCHANGED <<users, keys>>
  /\ UNCHANGED <<client, warned>>

\* The effect of UsersList: one listing for each visit, in the form's place only.
ListAnswered(outcome) ==
  /\ Form /\ list = "loading"
  /\ list' = outcome
  /\ UNCHANGED <<screen, me, tab, entry, alert, call, issued, copied, server, warned>>

-----------------------------------------------------------------------------
\* What the panel and the browser do of themselves.
Waiting == UsersRoute \/ KeysRoute \/ Aborted \/ CreateAnswered \/ IssueAnswered

ListWaiting == \E outcome \in Answers : ListAnswered(outcome)

Next ==
  \/ \E t \in {"me", "teammate"} : SwitchTab(t)
  \/ \E e \in Emails \cup {Invalid} : Fill(e)
  \/ HandleGenerateMine
  \/ HandleAddTeammate
  \/ Copy
  \/ Continue
  \/ Visit
  \/ Commit \/ Replied
  \/ Waiting
  \/ FetchRejected
  \/ \E w \in late : LateWrite(w)
  \/ ListWaiting

Spec == Init /\ [][Next]_vars

\* The panel's abort timer ends every call; nothing is asked of the gateway.
FairSpec == Spec /\ WF_vars(Waiting) /\ WF_vars(ListWaiting)

-----------------------------------------------------------------------------
\* Properties.

Writes == [kind : {"create", "issue"}, owner : Owners]

Calls ==
  [kind : {"none", "create", "issue"},
   at : {"browser", "panel", "gateway", "committed", "answered"},
   owner : Owners, key : 0 .. MaxKeys, answer : Answers]

TypeOK ==
  /\ screen \in {"step3", "step4", "crashed"}
  /\ me \in {"id", "noId", "none"}
  /\ tab \in {"me", "teammate"}
  /\ entry \in Emails \cup {Invalid}
  /\ alert \in {"none", "error", "demo"}
  /\ call \in Calls /\ (call.kind = "none" <=> call.at = "browser")
  /\ issued \in 0 .. MaxKeys
  /\ copied \in BOOLEAN
  /\ list \in Answers \cup {"loading"}
  /\ users \subseteq Emails
  /\ keys \in Seq(Emails) /\ Len(keys) <= MaxKeys
  /\ late \subseteq Writes
  /\ warned \subseteq Owners

\* Where the plaintext of key k is.
Fate(k) ==
  CASE k \notin DOMAIN keys            -> "unissued"
    [] k \in DOMAIN keys /\ issued = k -> "shown"
    [] k \in DOMAIN keys /\ issued # k /\ call.key = k -> "underway"
    [] OTHER                           -> "gone"

OTK == INSTANCE OneTimeKey WITH
         fate <- [k \in 1 .. MaxKeys |-> Fate(k)],
         copied <- copied,
         ahead <- screen = "step4"

\* The plaintext of a key is shown once, out of the answer that carries it, and
\* step 4 is reached from it only after a click on Copy.
OneTimeKeySpec == OTK!Spec

\* Retries, aborts and late commits give a teammate one key at most.
OneKeyPerTeammate == \A j, k \in DOMAIN keys : keys[j] = keys[k] => j = k

\* Nobody is left without a key in silence: a teammate who has a row has a key
\* that is shown or was, or one is on its way, or the user was told of a failure
\* or left a call behind.
NobodyStranded ==
  \A e \in users : \/ e \in warned
                   \/ Pending /\ call.owner = e
                   \/ \E k \in DOMAIN keys : keys[k] = e

\* Every click ends, in the pane, an alert or an error page; the list loads for a
\* user who does not reload for ever.
EveryClickEnds ==
  /\ Pending ~> ~Pending
  /\ <>[][~Visit]_vars => (list = "loading" ~> (list # "loading" \/ ~Form))
=============================================================================

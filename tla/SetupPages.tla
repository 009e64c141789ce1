----------------------------- MODULE SetupPages -----------------------------
(***************************************************************************)
(* The pages a visitor of the panel walks through: the root                *)
(* (panel/app/page.tsx), sign-in and sign-out, the onboarding wizard with  *)
(* its first step, "Create your admin account"                             *)
(* (panel/components/onboarding/step-1-create-admin.tsx), and the pages    *)
(* behind a session; with the routes and Auth.js callbacks they rest on    *)
(* (panel/app/api/setup, panel/auth.ts) and the gateway's endpoints behind *)
(* those (gateway/internal/handlers/admin/auth.go).                        *)
(*                                                                         *)
(* A submission of step 1 is two calls, the bootstrap and a sign-in.  The  *)
(* form stays open while they are under way, the panel gives the first one *)
(* up after five seconds, and the gateway counts the admins before the     *)
(* transaction that inserts one.                                           *)
(*                                                                         *)
(* A form stands for all its fields; two forms differ in their slug and    *)
(* their address.                                                          *)
(***************************************************************************)
EXTENDS Naturals

CONSTANTS
  Forms,       \* create-admin forms, filled in
  Valid,       \* those that pass the checks of the bootstrap route
  Unfinished,  \* a form whose passwords are short or do not match
  Nobody,      \* no session
  Templates,   \* quick-start templates of step 4
  MaxSubs      \* bound: submissions of step 1

ASSUME SetupPagesAssumption ==
  /\ Valid \subseteq Forms
  /\ Unfinished \notin Forms /\ Nobody \notin Forms
  /\ MaxSubs \in Nat

Subs == 1 .. MaxSubs

VARIABLES
  page,     \* what the browser shows
  session,  \* whose session cookie it holds
  token,    \* the gateway still accepts the session's token
  entry,    \* the form of step 1, or of sign-in
  alert,
  call,     \* the submission under way
  picked,   \* the templates picked in step 4
  subs,     \* how often step 1 was submitted
  form,     \* form[n]: what submission n carries
  told,     \* told[n]: what the user was told of it
  admins,   \* the submissions that have an admin row
  late      \* submissions the gateway may still carry out, unheard

pagesVars == <<page, session, token, entry, alert, call, picked, subs, form, told, admins, late>>

Steps == {"step1", "step2", "step3", "step4", "step5"}

AppPages == {"dashboard", "logs"}

Pages == Steps \cup AppPages \cup {"welcome", "signIn", "superAdmin", "notFound", "crashed"}

NoCall == [kind |-> "none", at |-> "browser", sub |-> 0, form |-> Unfinished, answer |-> "none"]

Pending == call.kind # "none"

-----------------------------------------------------------------------------
\* The probe of the gateway.

\* fetchSetupStatus: a 404 is a fresh installation, any other failure none that
\* can be reached.
SetupStatus == {"unreachable", IF admins = {} THEN "fresh" ELSE "installed"}

\* To SignInPage a gateway that cannot be reached is a first visit, too.
FirstTime(status) == status # "installed"

SignInPage(status) == IF FirstTime(status) THEN "welcome" ELSE "signIn"

\* A redirect to /sign-in probes again: status is the first probe, next that.

\* RootIndex.
Root(status, next) ==
  IF session # Nobody THEN "dashboard"
  ELSE IF FirstTime(status) THEN "step1" ELSE SignInPage(next)

\* The layout of the pages behind a session asks for one, whatever its token is
\* worth.
Behind(p, next) == IF session = Nobody THEN SignInPage(next) ELSE p

\* SuperAdminPage asks itself; the first admin is a super admin.
SuperAdmin(next) == IF session = Nobody THEN SignInPage(next) ELSE "superAdmin"

\* OnboardingStepPage asks neither for a session nor whether there is an admin.
Wizard(p) == IF p \in Steps THEN p ELSE "notFound"

\* SignUpRedirect.
SignUp == Wizard("step1")

Opened(address, status, next) ==
  CASE address = "/"          -> Root(status, next)
    [] address = "sign-in"    -> SignInPage(status)
    [] address = "sign-up"    -> SignUp
    [] address \in AppPages   -> Behind(address, next)
    [] address = "superAdmin" -> SuperAdmin(next)
    [] OTHER                  -> Wizard(address)

\* The sidebar.
Sidebar == AppPages \cup {"superAdmin"}

\* OnboardingStep, which shows steps 4 and 5: Back, and Continue or Finish.
StepLinks == IF page = "step4" THEN {"step3", "step5"} ELSE {"step4", "dashboard"}

\* "Use the sign-in form anyway" leads to the sign-in page, which looks at
\* nothing but the gateway; the page to reset a password does not exist.
Links ==
  CASE page = "welcome"              -> {"step1", "sign-in"}
    [] page = "signIn"               -> {"sign-in/reset"}
    [] page \in {"step4", "step5"}   -> StepLinks
    [] page \in AppPages             -> Sidebar
    [] OTHER                         -> {}

\* Links between pages of one layout keep the layout, and with it its check.
Followed(link, status, next) ==
  IF {page, link} \subseteq AppPages THEN link ELSE Opened(link, status, next)

-----------------------------------------------------------------------------
PagesInit ==
  /\ page = "step1"
  /\ session = Nobody /\ token = FALSE
  /\ entry = Unfinished /\ alert = "none"
  /\ call = NoCall
  /\ picked = {}
  /\ subs = 0
  /\ form = [n \in Subs |-> Unfinished]
  /\ told = [n \in Subs |-> "nothing"]
  /\ admins = {}
  /\ late = {}

\* A bootstrap the page stops waiting for.
Unheard ==
  IF call.kind = "bootstrap" /\ call.at \in {"panel", "gateway", "counted"}
  THEN {[sub |-> call.sub, counted |-> call.at = "counted"]} ELSE {}

\* The page's state goes with the page.
Goes(p) ==
  /\ page' = p
  /\ entry' = Unfinished /\ alert' = "none"
  /\ call' = NoCall
  /\ picked' = {}
  /\ late' = late \cup Unheard

accounts == <<subs, form, told, admins>>

\* An address is opened, whatever the page waits for.
Open(address) ==
  /\ \E status, next \in SetupStatus : Goes(Opened(address, status, next))
  /\ UNCHANGED <<session, token, accounts>>

Follow(link) ==
  /\ link \in Links
  /\ \E status, next \in SetupStatus : Goes(Followed(link, status, next))
  /\ UNCHANGED <<session, token, accounts>>

\* Step4Categories: local to the page, and gone with it.
Toggle(t) ==
  /\ page = "step4"
  /\ picked' = IF t \in picked THEN picked \ {t} ELSE picked \cup {t}
  /\ UNCHANGED <<page, session, token, entry, alert, call, accounts, late>>

\* signOut: the cookie goes, and /sign-in is loaded.
SignOut ==
  /\ page \in AppPages
  /\ session' = Nobody /\ token' = FALSE
  /\ \E status \in SetupStatus : Goes(SignInPage(status))
  /\ UNCHANGED accounts

\* The gateway's token lives for a day, the session's cookie for thirty of not
\* being used; another tab may sign out.
TokenExpires ==
  /\ token
  /\ token' = FALSE
  /\ UNCHANGED <<page, session, entry, alert, call, picked, accounts, late>>

SessionEnds ==
  /\ session # Nobody
  /\ session' = Nobody /\ token' = FALSE
  /\ UNCHANGED <<page, entry, alert, call, picked, accounts, late>>

-----------------------------------------------------------------------------
\* Step 1 and the sign-in form.

\* The fields stay open while a call is under way.
Fill(f) ==
  /\ page \in {"step1", "signIn"}
  /\ f # entry
  /\ entry' = f
  /\ UNCHANGED <<page, session, token, alert, call, picked, accounts, late>>

\* Only a finished form can be submitted, so the check of its passwords in the
\* handler finds nothing.
Submit ==
  /\ page = "step1" /\ ~Pending
  /\ entry \in Forms
  /\ subs < MaxSubs
  /\ subs' = subs + 1
  /\ form' = [form EXCEPT ![subs + 1] = entry]
  /\ alert' = "none"
  /\ call' = [NoCall EXCEPT !.kind = "bootstrap", !.at = "panel", !.sub = subs + 1,
                            !.form = entry]
  /\ UNCHANGED <<page, session, token, entry, picked, told, admins, late>>

SubmitSignIn ==
  /\ page = "signIn" /\ ~Pending
  /\ entry \in Forms
  /\ alert' = "none"
  /\ call' = [NoCall EXCEPT !.kind = "signIn", !.at = "panel", !.form = entry]
  /\ UNCHANGED <<page, session, token, entry, picked, accounts, late>>

-----------------------------------------------------------------------------
\* The calls.

Elsewhere == <<page, session, token, entry, alert, picked, subs, form, told>>

At(kind, place) == call.kind = kind /\ call.at = place

Reach(place) == [call EXCEPT !.at = place]

\* Faulty Bootstrapped: an abort counts as a refusal.
BootstrappedFlatly(reply) ==
  CASE reply = "done"                             -> "payload"
    [] reply \in {"refused", "nothing"}           -> "error"
    [] reply \in {"cut", "notFound"}              -> "demo"

\* The bootstrap route's answer: unlike the admin proxy, it calls a broken body
\* demo mode.
Bootstrapped(reply) ==
  CASE reply = "done"                             -> "payload"
    [] reply = "refused"                          -> "error"
    [] reply \in {"cut", "notFound", "nothing"}   -> "demo"

Heard(reply) == [call EXCEPT !.at = "answered", !.answer = Bootstrapped(reply)]

\* POST of setup/bootstrap/route.ts up to the gateway.
BootstrapRoute ==
  /\ At("bootstrap", "panel")
  /\ call' = IF call.form \in Valid THEN Reach("gateway") ELSE Heard("refused")
  /\ UNCHANGED <<Elsewhere, admins, late>>

\* PostBootstrap counts the admins: 409 if there is one.
CountAdmins ==
  /\ At("bootstrap", "gateway")
  /\ call' = IF admins = {} THEN Reach("counted") ELSE Heard("refused")
  /\ UNCHANGED <<Elsewhere, admins, late>>

\* UNIQUE (slug), UNIQUE (email).
Insertable(n) == \A m \in admins : form[m] # form[n]

Insert ==
  /\ At("bootstrap", "counted")
  /\ Insertable(call.sub)
  /\ admins' = admins \cup {call.sub}
  /\ call' = Reach("committed")
  /\ UNCHANGED <<Elsewhere, late>>

Replied ==
  /\ call.kind = "bootstrap"
  /\ \/ call.at = "committed" /\ call' \in {Heard("done"), Heard("cut")}
     \/ call.at \in {"gateway", "counted"} /\ call' \in {Heard("refused"), Heard("notFound")}
  /\ UNCHANGED <<Elsewhere, admins, late>>

\* Faulty Aborted: no timer.
AbortedNever == FALSE /\ UNCHANGED pagesVars

Aborted ==
  /\ call.kind = "bootstrap" /\ call.at \in {"gateway", "counted", "committed"}
  /\ call' = Heard("nothing")
  /\ late' = late \cup Unheard
  /\ UNCHANGED <<Elsewhere, admins>>

\* After the bootstrap's await: sign in with what was submitted, or an alert.
BootstrapAnswered ==
  /\ At("bootstrap", "answered")
  /\ LET tell(what) == told' = [told EXCEPT ![call.sub] = what]
     IN  IF call.answer = "payload"
         THEN /\ tell("created")
              /\ call' = [call EXCEPT !.kind = "signIn", !.at = "panel"]
              /\ UNCHANGED alert
         ELSE /\ tell(IF call.answer = "demo" THEN "unknown" ELSE "refused")
              /\ alert' = call.answer
              /\ call' = NoCall
  /\ UNCHANGED <<page, session, token, entry, picked, subs, form, admins, late>>

\* Faulty Authorize: the fields are read again after the bootstrap.
AuthorizeEntry ==
  /\ At("signIn", "panel")
  /\ \/ /\ \E m \in admins : form[m] = entry
        /\ session' = entry /\ token' = TRUE
        /\ call' = [Reach("answered") EXCEPT !.answer = "payload"]
     \/ call' = [Reach("answered") EXCEPT !.answer = "error"] /\ UNCHANGED <<session, token>>
  /\ UNCHANGED <<page, entry, alert, picked, accounts, late>>

\* authorize and the jwt and session callbacks: PostLogin knows the account, or
\* does not, or does not answer, and the three look alike.
Authorize ==
  /\ At("signIn", "panel")
  /\ \/ /\ \E m \in admins : form[m] = call.form
        /\ session' = call.form /\ token' = TRUE
        /\ call' = [Reach("answered") EXCEPT !.answer = "payload"]
     \/ call' = [Reach("answered") EXCEPT !.answer = "error"] /\ UNCHANGED <<session, token>>
  /\ UNCHANGED <<page, entry, alert, picked, accounts, late>>

\* Step 1 goes on to step 2, or to the sign-in page.
StepOneSignedIn ==
  /\ page = "step1" /\ At("signIn", "answered")
  /\ IF call.answer = "payload" THEN Goes("step2")
     ELSE \E status \in SetupStatus : Goes(SignInPage(status))
  /\ UNCHANGED <<session, token, accounts>>

\* The sign-in form goes to the page asked for, through its layout.
FormSignedIn ==
  /\ page = "signIn" /\ At("signIn", "answered")
  /\ IF call.answer = "payload"
     THEN \E next \in SetupStatus : Goes(Behind("dashboard", next))
     ELSE alert' = "error" /\ call' = NoCall /\ UNCHANGED <<page, entry, picked, late>>
  /\ UNCHANGED <<session, token, accounts>>

\* The rejected fetch escapes the transition.
FetchRejected ==
  /\ Pending
  /\ Goes("crashed")
  /\ UNCHANGED <<session, token, accounts>>

\* A submission nobody waits for any more: given up, counted or carried out.
LateSub(w) ==
  /\ w \in late
  /\ \/ late' = late \ {w} /\ UNCHANGED admins
     \/ /\ ~w.counted /\ admins = {}
        /\ late' = (late \ {w}) \cup {[w EXCEPT !.counted = TRUE]}
        /\ UNCHANGED admins
     \/ /\ w.counted /\ Insertable(w.sub)
        /\ late' = late \ {w}
        /\ admins' = admins \cup {w.sub}
  /\ UNCHANGED <<Elsewhere, call>>

-----------------------------------------------------------------------------
Addresses == {"/", "sign-in", "sign-up", "superAdmin"} \cup Steps \cup AppPages

\* What the panel and the browser do of themselves; a sign-in ends with Node's
\* own time limit for a fetch.
Waiting ==
  \/ BootstrapRoute \/ Aborted \/ BootstrapAnswered
  \/ Authorize \/ StepOneSignedIn \/ FormSignedIn

PagesNext ==
  \/ \E address \in Addresses : Open(address)
  \/ \E link \in Addresses \cup {"sign-in/reset"} : Follow(link)
  \/ \E t \in Templates : Toggle(t)
  \/ SignOut \/ TokenExpires \/ SessionEnds
  \/ \E f \in Forms \cup {Unfinished} : Fill(f)
  \/ Submit \/ SubmitSignIn
  \/ CountAdmins \/ Insert \/ Replied
  \/ Waiting
  \/ FetchRejected
  \/ \E w \in late : LateSub(w)

-----------------------------------------------------------------------------
\* Properties.

Calls ==
  [kind : {"none", "bootstrap", "signIn"},
   at : {"browser", "panel", "gateway", "counted", "committed", "answered"},
   sub : Subs \cup {0}, form : Forms \cup {Unfinished},
   answer : {"none", "payload", "error", "demo"}]

Writes == [sub : Subs, counted : BOOLEAN]

PagesTypeOK ==
  /\ page \in Pages
  /\ session \in Forms \cup {Nobody} /\ token \in BOOLEAN
  /\ entry \in Forms \cup {Unfinished}
  /\ alert \in {"none", "error", "demo"}
  /\ call \in Calls /\ (call.kind = "bootstrap" => call.sub \in Subs)
  /\ call.kind # "none" => call.form \in Forms
  /\ picked \subseteq Templates
  /\ subs \in Subs \cup {0}
  /\ form \in [Subs -> Forms \cup {Unfinished}]
  /\ told \in [Subs -> {"nothing", "created", "refused", "unknown"}]
  /\ admins \subseteq Subs
  /\ late \subseteq Writes

\* A submission the wizard goes on from has its admin; one it calls refused, and
\* not demo mode, has none and never will, however late the gateway is.
ToldOfAdmin ==
  \A n \in Subs : /\ told[n] = "created" => n \in admins
                  /\ told[n] = "refused" => n \notin admins \cup {w.sub : w \in late}

\* A session is for an account there is, and step 1 opens one only for the
\* account its own submission has created, whatever is typed meanwhile and
\* whatever an earlier submission creates late.
SessionIsOwn ==
  [][session' \notin {session, Nobody} =>
       /\ \E m \in admins : form[m] = session'
       /\ page = "step1" => told[subs] = "created" /\ session' = form[subs]]_pagesVars

\* Every submission ends, on the next page, in an alert or in an error page.
SubmissionEnds == Pending ~> ~Pending
=============================================================================

---------------------------- MODULE ProviderStep ----------------------------
(***************************************************************************)
(* Step 2 of the onboarding, "Connect a provider"                          *)
(* (panel/components/onboarding/step-2-provider.tsx), with the routes it   *)
(* calls (panel/app/api/admin/providers) and what the gateway makes of     *)
(* the calls (gateway/internal/handlers/admin/providers.go).               *)
(*                                                                         *)
(* The user types while calls are under way: the form is never disabled,   *)
(* only the two buttons are.  A call carries what the form held when its   *)
(* button was pressed.  Its answer, the answer to a listing, the abort     *)
(* timer of the panel and a commit the panel no longer waits for fall      *)
(* between any two of the user's steps.                                    *)
(*                                                                         *)
(* Texts are empty, blank (spaces only) or words without outer spaces.     *)
(***************************************************************************)
EXTENDS AdminProxy, Naturals, Sequences

CONSTANTS
  Empty, Blank, Words,  \* texts
  Preset,               \* the API version the form starts with
  Inputs,               \* bound: Inputs[f]: the texts typed into field f
  Tiles,                \* bound: the providers picked
  MaxRows,              \* bound: rows of the deployment map
  MaxSaves,             \* bound: times Save is pressed
  None                  \* no provider, no payload

Texts == Words \cup {Empty, Blank}

FieldNames == {"label", "apiKey", "baseUrl", "orgId", "projectId",
               "azureEndpoint", "azureApiVersion"}

Providers == {"openai", "anthropic", "google", "azure"}

ASSUME ProviderStepAssumption ==
  /\ Empty # Blank
  /\ Words \cap {Empty, Blank} = {}
  /\ Preset \in Words
  /\ Inputs \in [FieldNames \cup {"row"} -> SUBSET Texts]
  /\ Tiles \subseteq Providers
  /\ MaxRows \in Nat \ {0}
  /\ MaxSaves \in Nat
  /\ None \notin Providers

Saves == 1 .. MaxSaves

VARIABLES
  screen,      \* what the browser shows: the step, another page, or an error
  selected,    \* the provider picked
  form,        \* form[f]: the text in field f
  rows,        \* form.azureDeployments, a text for each row
  testResult,  \* the alert under the form
  skipTest,    \* the checkbox
  saveError,   \* the alert under the buttons
  call,        \* the call the page waits for
  list,        \* the list of saved providers
  reads,       \* listings under way
  saves,       \* how often Save was pressed
  told,        \* told[n]: what the user was told of save n
  stored,      \* the saves that have a row
  late,        \* the saves the gateway may still commit, unheard
  sent,        \* the payload of the call, as built by its handler
  tested,      \* the payload the test result is about
  drifted      \* the form was changed under the test, or a row of it removed

page == <<selected, form, rows, testResult, skipTest, saveError>>
ghosts == <<sent, tested, drifted>>
server == <<saves, told, stored, late>>
vars == <<screen, page, call, list, reads, server, ghosts>>

-----------------------------------------------------------------------------
\* The form.

Trim(t) == IF t = Blank THEN Empty ELSE t

\* emptyForm, with a label kept.
EmptyForm(label) ==
  [f \in FieldNames |-> CASE f = "label"           -> label
                          [] f = "azureApiVersion" -> Preset
                          [] OTHER                 -> Empty]

\* The fields ProviderForm shows.
Fields(p) ==
  {"label", "apiKey"} \cup
    CASE p = "openai"    -> {"baseUrl", "orgId"}
      [] p = "anthropic" -> {"baseUrl"}
      [] p = "google"    -> {"projectId"}
      [] p = "azure"     -> {"azureEndpoint", "azureApiVersion"}

\* A row stands for its model and its deployment: empty unless both are given.
Complete(row) == Trim(row) # Empty

\* isFormValid.
RequiredOk ==
  /\ selected # None
  /\ Trim(form["label"]) # Empty
  /\ form["apiKey"] # Empty
  /\ selected = "google" => Trim(form["projectId"]) # Empty
  /\ selected = "azure" =>
       /\ \A f \in {"azureEndpoint", "azureApiVersion"} : Trim(form[f]) # Empty
       /\ \E i \in DOMAIN rows : Complete(rows[i])

\* buildConfig: a field left blank is left out, if the provider can do without
\* it; so are the incomplete rows.  The order of the rows is left out, too.
BuildConfig ==
  LET own == Fields(selected) \ {"label", "apiKey"}
      kept == {f \in own : selected \in {"openai", "anthropic"} => Trim(form[f]) # Empty}
  IN  [fields |-> [f \in kept |-> Trim(form[f])],
       deployments |-> IF selected # "azure" THEN {}
                       ELSE {Trim(rows[i]) : i \in {j \in DOMAIN rows : Complete(rows[j])}}]

\* The body of a test, and of a save but for its label.
Payload == [provider |-> selected, apiKey |-> form["apiKey"], config |-> BuildConfig]

-----------------------------------------------------------------------------
NoCall == [kind |-> "none", at |-> "browser", save |-> 0, answer |-> "error",
           earned |-> TRUE]

Pending == call.kind # "none"

\* testResult?.ok === true || skipTest.
CanSave == RequiredOk /\ (testResult = "ok" \/ skipTest)

\* The buttons that are not disabled.
Enabled ==
  {b \in {"test", "save"} : /\ screen = "step2"
                            /\ ~Pending
                            /\ IF b = "test" THEN RequiredOk ELSE CanSave}

\* The effect of ProviderList: a listing for each refresh signal.
Loading(signal) == [signal |-> signal, loading |-> TRUE, view |-> "none", items |-> {}]
Listing(signal) == [signal |-> signal, at |-> "panel", rows |-> {}]

Init ==
  /\ screen = "step2"
  /\ selected = None
  /\ form = EmptyForm(Empty)
  /\ rows = <<Empty>>
  /\ testResult = "none"
  /\ skipTest = FALSE
  /\ saveError = "none"
  /\ call = NoCall
  /\ list = Loading(0)
  /\ reads = {Listing(0)}
  /\ saves = 0
  /\ told = [n \in Saves |-> "nothing"]
  /\ stored = {}
  /\ late = {}
  /\ sent = None
  /\ tested = None
  /\ drifted = FALSE

\* The writes of the call that the page stops waiting for.
Unheard == IF call.kind = "save" /\ call.at \in {"panel", "gateway"} THEN {call.save} ELSE {}

\* The page's state goes with the page; a mounted page asks for the list.
Show(s) ==
  /\ screen' = s
  /\ selected' = None
  /\ form' = EmptyForm(Empty)
  /\ rows' = <<Empty>>
  /\ testResult' = "none"
  /\ skipTest' = FALSE
  /\ saveError' = "none"
  /\ call' = NoCall
  /\ list' = Loading(0)
  /\ reads' = IF s = "step2" THEN {Listing(0)} ELSE {}
  /\ late' = late \cup Unheard
  /\ sent' = None
  /\ tested' = None
  /\ drifted' = FALSE
  /\ UNCHANGED <<saves, told, stored>>

-----------------------------------------------------------------------------
\* The user.

\* The tiles are there with the page, the rest of the card once one is picked.
OnTiles == screen = "step2"
OnForm == OnTiles /\ selected # None

\* pick: the label and the checkbox stay.
Pick(p) ==
  /\ OnTiles
  /\ p \in Tiles
  /\ selected' = p
  /\ form' = EmptyForm(form["label"])
  /\ rows' = <<Empty>>
  /\ testResult' = "none"
  /\ saveError' = "none"
  /\ tested' = None
  /\ drifted' = (drifted \/ call.kind = "test")
  /\ UNCHANGED <<screen, skipTest, call, list, reads, server, sent>>

\* Field hands on every text it is given.
Types(f, t) == /\ OnForm
               /\ f \in Fields(selected)
               /\ t \in Inputs[f] \ {form[f]}

\* Faulty Invalidate: forgotten in one of the handlers.
Keep == UNCHANGED <<testResult, tested>>

\* An edit takes the test result away; a test under way answers later.
Invalidate == testResult' = "none" /\ tested' = None

Update(f, t) ==
  /\ Types(f, t)
  /\ form' = [form EXCEPT ![f] = t]
  /\ Invalidate
  /\ drifted' = (drifted \/ call.kind = "test")
  /\ UNCHANGED <<screen, selected, rows, skipTest, saveError, call, list, reads,
                 server, sent>>

\* The deployment map.
Mapping == screen = "step2" /\ selected = "azure"

\* A patch of one field may leave the row what it is.
UpdateAzureRow(i, t) ==
  /\ Mapping
  /\ i \in DOMAIN rows /\ t \in Inputs["row"]
  /\ rows' = [rows EXCEPT ![i] = t]
  /\ Invalidate
  /\ drifted' = (drifted \/ call.kind = "test")
  /\ UNCHANGED <<screen, selected, form, skipTest, saveError, call, list, reads,
                 server, sent>>

\* Neither this nor the removal of a row takes the test result away.
AddAzureRow ==
  /\ Mapping
  /\ Len(rows) < MaxRows
  /\ rows' = Append(rows, Empty)
  /\ UNCHANGED <<screen, selected, form, testResult, skipTest, saveError, call,
                 list, reads, server, ghosts>>

RemoveAzureRow(i) ==
  /\ Mapping
  /\ i \in DOMAIN rows /\ Len(rows) > 1
  /\ rows' = [j \in 1 .. Len(rows) - 1 |-> rows[IF j < i THEN j ELSE j + 1]]
  /\ drifted' = TRUE
  /\ UNCHANGED <<screen, selected, form, testResult, skipTest, saveError, call,
                 list, reads, server, sent, tested>>

ToggleSkip ==
  /\ OnForm
  /\ skipTest' = ~skipTest
  /\ UNCHANGED <<screen, selected, form, rows, testResult, saveError, call, list,
                 reads, server, ghosts>>

HandleTest ==
  /\ "test" \in Enabled
  /\ testResult' = "none"
  /\ call' = [NoCall EXCEPT !.kind = "test", !.at = "panel"]
  /\ sent' = Payload
  /\ tested' = None
  /\ drifted' = FALSE
  /\ UNCHANGED <<screen, selected, form, rows, skipTest, saveError, list, reads,
                 server>>

\* earned: the test was skipped by choice, or passed for what is saved.
HandleSave ==
  /\ "save" \in Enabled
  /\ saves < MaxSaves
  /\ saves' = saves + 1
  /\ saveError' = "none"
  /\ call' = [NoCall EXCEPT !.kind = "save", !.at = "panel", !.save = saves + 1,
                            !.earned = (skipTest \/ tested = Payload)]
  /\ sent' = Payload
  /\ UNCHANGED <<screen, selected, form, rows, testResult, skipTest, list, reads,
                 told, stored, late, tested, drifted>>

\* The page is opened, opened again or reloaded, whatever it waits for.
Visit == Show("step2")

-----------------------------------------------------------------------------
\* The calls.

Reach(place) == [call EXCEPT !.at = place]

Heard(reply) == [call EXCEPT !.at = "answered", !.answer = Proxied(reply)]

Elsewhere == <<screen, page, list, reads, saves, told, ghosts>>

\* The routes' own checks, before anything is sent.
RouteRefuses == sent.provider = None \/ sent.apiKey = Empty

\* POST of providers/route.ts and of providers/test/route.ts: to the gateway,
\* unless a check or the session's missing token stops it.
Route ==
  /\ call.at = "panel"
  /\ \/ ~RouteRefuses /\ call' = Reach("gateway")
     \/ call' = Heard("refused")
  /\ UNCHANGED <<Elsewhere, stored, late>>

\* CreateProvider: the key must hold more than spaces, and each call inserts a
\* row of its own.
Commit ==
  /\ call.at = "gateway"
  /\ call.kind = "save"
  /\ sent.apiKey # Blank
  /\ call' = Reach("committed")
  /\ stored' = stored \cup {call.save}
  /\ UNCHANGED <<Elsewhere, late>>

\* The reply arrives before the abort.  A test that fails is refused here: its
\* 200 says ok: false, and the page makes no difference.
Replied ==
  /\ \/ call.at = "committed" /\ \E reply \in {"done", "cut"} : call' = Heard(reply)
     \/ /\ call.at = "gateway" /\ call.kind = "test" /\ sent.apiKey # Blank
        /\ \E reply \in {"done", "cut"} : call' = Heard(reply)
     \/ call.at = "gateway" /\ \E reply \in {"refused", "notFound"} : call' = Heard(reply)
  /\ UNCHANGED <<Elsewhere, stored, late>>

\* Faulty Aborted: no timer.
AbortedNever == FALSE /\ UNCHANGED vars

\* The abort timer, or a gateway that is down: the gateway may still be at it.
Aborted ==
  /\ call.at \in {"gateway", "committed"}
  /\ call' = Heard("nothing")
  /\ late' = late \cup Unheard
  /\ UNCHANGED <<Elsewhere, stored>>

\* handleTest, after its await.
TestAnswered ==
  /\ call.at = "answered" /\ call.kind = "test"
  /\ testResult' = CASE call.answer = "payload"          -> "ok"
                     [] call.answer \in {"bare", "error"} -> "failed"
                     [] call.answer = "demo"             -> "demo"
  /\ tested' = IF call.answer = "payload" THEN sent ELSE None
  /\ call' = NoCall
  /\ sent' = None
  /\ UNCHANGED <<screen, selected, form, rows, skipTest, saveError, list, reads,
                 server, drifted>>

\* handleSave, after its await: a success refreshes the list and leaves for
\* step 3, and the button stays disabled until the page has changed.
SaveAnswered ==
  /\ call.at = "answered" /\ call.kind = "save"
  /\ LET tell(what) == told' = [told EXCEPT ![call.save] = what]
     IN  IF Ok(call.answer)
         THEN /\ tell("saved")
              /\ call' = Reach("leaving")
              /\ list' = Loading(list.signal + 1)
              /\ reads' = reads \cup {Listing(list.signal + 1)}
              /\ UNCHANGED <<saveError, sent>>
         ELSE /\ tell(IF call.answer = "demo" THEN "unknown" ELSE "refused")
              /\ saveError' = call.answer
              /\ call' = NoCall
              /\ sent' = None
              /\ UNCHANGED <<list, reads>>
  /\ UNCHANGED <<screen, selected, form, rows, testResult, skipTest, saves, stored,
                 late, tested, drifted>>

Leave ==
  /\ call.at = "leaving"
  /\ Show("away")

\* The browser's connection to the panel breaks: the rejected fetch escapes the
\* transition, and no error boundary of the panel's own catches it.
FetchRejected ==
  /\ call.at \in {"panel", "gateway", "committed", "answered"}
  /\ Show("crashed")

\* A write nobody waits for any more: committed after all, or not.
LateWrite(n) ==
  /\ n \in late
  /\ late' = late \ {n}
  /\ stored' \in {stored, stored \cup {n}}
  /\ UNCHANGED <<Elsewhere, call>>

-----------------------------------------------------------------------------
\* The list.

\* ListProviders.
ListRead(r) ==
  /\ r \in reads /\ r.at = "panel"
  /\ reads' = (reads \ {r}) \cup {[r EXCEPT !.at = "read", !.rows = stored]}
  /\ UNCHANGED <<screen, page, call, list, server, ghosts>>

\* What a listing can end with: a reply proxied, or a rejected fetch, which the
\* page shows like a demo answer.
ListOutcomes(r) ==
  {Proxied(reply) : reply \in IF r.at = "read" THEN {"done", "cut", "nothing"}
                              ELSE {"refused", "notFound", "nothing"}}

\* Faulty ListAnswered: the effect's cleanup does not cancel.
ListAnsweredLate(r, outcome) ==
  /\ r \in reads
  /\ outcome \in ListOutcomes(r)
  /\ reads' = reads \ {r}
  /\ list' = [list EXCEPT !.loading = FALSE,
                         !.view = outcome,
                         !.items = IF outcome = "payload" THEN r.rows ELSE {}]
  /\ UNCHANGED <<screen, page, call, server, ghosts>>

\* An answer to an earlier signal is dropped.
ListAnswered(r, outcome) ==
  /\ r \in reads
  /\ outcome \in ListOutcomes(r)
  /\ reads' = reads \ {r}
  /\ list' = IF r.signal # list.signal THEN list
             ELSE [list EXCEPT !.loading = FALSE,
                               !.view = outcome,
                               !.items = IF outcome = "payload" THEN r.rows ELSE {}]
  /\ UNCHANGED <<screen, page, call, server, ghosts>>

\* The rows the list shows: none after a broken body.
Table == IF list.loading \/ ~Ok(list.view) THEN {} ELSE list.items

-----------------------------------------------------------------------------
Gateway == Commit \/ Replied \/ \E r \in reads : ListRead(r)

\* What the panel and the browser do of themselves.
Waiting == Route \/ Aborted \/ TestAnswered \/ SaveAnswered \/ Leave

ListWaiting == \E r \in reads, outcome \in Answers : ListAnswered(r, outcome)

Next ==
  \/ \E p \in Providers : Pick(p)
  \/ \E f \in FieldNames, t \in Texts : Update(f, t)
  \/ \E i \in 1 .. MaxRows, t \in Texts : UpdateAzureRow(i, t)
  \/ AddAzureRow
  \/ \E i \in 1 .. MaxRows : RemoveAzureRow(i)
  \/ ToggleSkip
  \/ HandleTest
  \/ HandleSave
  \/ Visit
  \/ Gateway
  \/ Waiting
  \/ FetchRejected
  \/ \E n \in Saves : LateWrite(n)
  \/ ListWaiting

Spec == Init /\ [][Next]_vars

\* Nothing is asked of the gateway: the panel answers, because its abort timer
\* ends every call and every listing, and the browser takes the answer.
FairSpec ==
  /\ Spec
  /\ WF_vars(Waiting)
  /\ WF_vars(ListWaiting)

-----------------------------------------------------------------------------
\* Properties.

Calls ==
  [kind : {"none", "test", "save"},
   at : {"browser", "panel", "gateway", "committed", "answered", "leaving"},
   save : Saves \cup {0}, answer : Answers, earned : BOOLEAN]

TypeOK ==
  /\ screen \in {"step2", "away", "crashed"}
  /\ selected \in Providers \cup {None}
  /\ form \in [FieldNames -> Texts]
  /\ rows \in Seq(Texts)
  /\ testResult \in {"none", "ok", "failed", "demo"}
  /\ skipTest \in BOOLEAN
  /\ saveError \in {"none", "error", "demo"}
  /\ call \in Calls /\ (call.kind = "save" => call.save \in Saves)
  /\ list \in [signal : Nat, loading : BOOLEAN, view : Answers \cup {"none"},
               items : SUBSET Saves]
  /\ reads \subseteq [signal : Nat, at : {"panel", "read"}, rows : SUBSET Saves]
  /\ saves \in Saves \cup {0}
  /\ told \in [Saves -> {"nothing", "saved", "refused", "unknown"}]
  /\ stored \in SUBSET Saves
  /\ late \in SUBSET Saves
  /\ drifted \in BOOLEAN

\* "Connected" is said of what the form holds now, unless the form was edited
\* while the test was under way or a row of the deployment map was removed
\* since: every other edit takes the result away.
ResultIsOfThisForm == testResult = "ok" /\ ~drifted => tested = Payload

\* A save the page calls done has its row, and one it calls refused (and not
\* "demo") has none and never will: no abort, late commit or broken body turns
\* one into the other.
ToldIsTrue ==
  \A n \in Saves : /\ told[n] = "saved" => n \in stored
                   /\ told[n] = "refused" => n \notin stored \cup late

\* A list that was answered in full shows all that the user was told are saved,
\* and only rows there are, whatever order the listings and the save are
\* answered in.
ListNeverOlder ==
  /\ list.view = "payload" => \A n \in Saves : told[n] = "saved" => n \in list.items
  /\ Table \subseteq stored

\* Every call ends, in an alert, the next page or an error; the list loads
\* for a user who does not reload for ever.
NothingHangs ==
  /\ Pending ~> ~Pending
  /\ <>[][~Visit]_vars => (list.loading ~> (~list.loading \/ screen # "step2"))

\* "Once a test has succeeded - or the user explicitly opts out - Save persists
\* the provider", and "any edit invalidates the previous test result": what is
\* saved without opting out is what was tested.
SaveIsEarned == call.kind = "save" => call.earned
=============================================================================

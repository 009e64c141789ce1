----------------------------- MODULE PanelProofs -----------------------------
(***************************************************************************)
(* Proofs about Panel: its type correctness, what the user is told of a    *)
(* submission of step 1, whose session is opened, and what the live log    *)
(* shows.                                                                  *)
(***************************************************************************)
EXTENDS Panel, TLAPS

-----------------------------------------------------------------------------
\* The pages.

\* Every address and every link shows one of the pages.
LEMMA PagesAreShown ==
  ASSUME NEW status \in SetupStatus, NEW next \in SetupStatus
  PROVE  /\ SignInPage(status) \in Pages
         /\ \A address \in Addresses : Opened(address, status, next) \in Pages
         /\ \A link \in Links : Followed(link, status, next) \in Pages
         /\ Behind("dashboard", next) \in Pages
<1>1. SignInPage(status) \in Pages /\ SignInPage(next) \in Pages
  BY DEF SignInPage, Pages
<1>2. Root(status, next) \in Pages
  BY <1>1 DEF Root, Pages, Steps, AppPages
<1>3. \A p \in AppPages : Behind(p, next) \in Pages
  BY <1>1 DEF Behind, Pages
<1>4. SuperAdmin(next) \in Pages
  BY <1>1 DEF SuperAdmin, Pages
<1>5. \A p : Wizard(p) \in Pages
  BY DEF Wizard, Pages
<1>6. ASSUME NEW address PROVE Opened(address, status, next) \in Pages
  <2>1. CASE address = "/"
    BY <1>2, <2>1 DEF Opened, AppPages
  <2>2. CASE address = "sign-in"
    BY <1>1, <2>2 DEF Opened, AppPages
  <2>3. CASE address = "sign-up"
    BY <1>5, <2>3 DEF Opened, SignUp, AppPages
  <2>4. CASE address \in AppPages
    BY <1>3, <2>4 DEF Opened, AppPages
  <2>5. CASE address = "superAdmin"
    BY <1>4, <2>5 DEF Opened, AppPages
  <2>6. CASE address \notin {"/", "sign-in", "sign-up", "superAdmin"} \cup AppPages
    BY <1>5, <2>6 DEF Opened
  <2> QED BY <2>1, <2>2, <2>3, <2>4, <2>5, <2>6
<1>7. \A link : Followed(link, status, next) \in Pages
  BY <1>6 DEF Followed, Pages
<1>8. "dashboard" \in AppPages
  BY DEF AppPages
<1> QED BY <1>1, <1>3, <1>6, <1>7, <1>8

LEMMA NoCallIsNone ==
  NoCall \in Calls /\ NoCall.kind = "none" /\ NoCall.at = "browser"
BY DEF NoCall, Calls

\* What is left behind when a submission is given up.
LEMMA UnheardIs ==
  ASSUME PagesTypeOK
  PROVE  /\ Unheard \subseteq Writes
         /\ \A w \in Unheard : /\ call.kind = "bootstrap" /\ w.sub = call.sub
                               /\ call.at \in {"panel", "gateway", "counted"}
<1>1. call.kind = "bootstrap" => call.sub \in Subs
  BY DEF PagesTypeOK
<1>2. CASE call.kind = "bootstrap" /\ call.at \in {"panel", "gateway", "counted"}
  <2>1. Unheard = {[sub |-> call.sub, counted |-> call.at = "counted"]}
    BY <1>2 DEF Unheard
  <2>2. [sub |-> call.sub, counted |-> call.at = "counted"] \in Writes
    BY <1>1, <1>2 DEF Writes
  <2> QED BY <1>2, <2>1, <2>2
<1>3. CASE ~(call.kind = "bootstrap" /\ call.at \in {"panel", "gateway", "counted"})
  BY <1>3 DEF Unheard
<1> QED BY <1>2, <1>3

\* What becomes of a reply.
LEMMA BootstrappedSays ==
  /\ Bootstrapped("done") = "payload" /\ Bootstrapped("refused") = "error"
  /\ Bootstrapped("cut") = "demo" /\ Bootstrapped("notFound") = "demo"
  /\ Bootstrapped("nothing") = "demo"
BY DEF Bootstrapped

BootstrapReplies == {"done", "refused", "cut", "notFound", "nothing"}

LEMMA CallsMoveOn ==
  ASSUME PagesTypeOK
  PROVE  /\ \A place \in {"gateway", "counted", "committed", "answered"} :
              /\ Reach(place) \in Calls /\ Reach(place).at = place
              /\ Reach(place).kind = call.kind /\ Reach(place).sub = call.sub
              /\ Reach(place).form = call.form
         /\ \A reply \in BootstrapReplies :
              /\ Heard(reply) \in Calls /\ Heard(reply).at = "answered"
              /\ Heard(reply).kind = call.kind /\ Heard(reply).sub = call.sub
              /\ Heard(reply).form = call.form /\ Heard(reply).answer = Bootstrapped(reply)
<1>0. call \in Calls
  BY DEF PagesTypeOK
<1>1. \A reply \in BootstrapReplies : Bootstrapped(reply) \in {"none", "payload", "error", "demo"}
  BY BootstrappedSays DEF BootstrapReplies
<1>2. ASSUME NEW place \in {"gateway", "counted", "committed", "answered"}
      PROVE  /\ Reach(place) \in Calls /\ Reach(place).at = place
             /\ Reach(place).kind = call.kind /\ Reach(place).sub = call.sub
             /\ Reach(place).form = call.form
  BY <1>0 DEF Calls, Reach
<1>3. ASSUME NEW reply \in BootstrapReplies
      PROVE  /\ Heard(reply) \in Calls /\ Heard(reply).at = "answered"
             /\ Heard(reply).kind = call.kind /\ Heard(reply).sub = call.sub
             /\ Heard(reply).form = call.form /\ Heard(reply).answer = Bootstrapped(reply)
  BY <1>0, <1>1 DEF Calls, Heard
<1> QED BY <1>2, <1>3

-----------------------------------------------------------------------------
\* The steps by what they touch.

\* A page goes; the session may have ended with it.
Moves == \E p \in Pages : /\ Goes(p)
                          /\ UNCHANGED <<subs, form, told, admins>>
                          /\ \/ UNCHANGED <<session, token>>
                             \/ session' = Nobody /\ token' = FALSE

\* Neither the page, the call nor the accounts.
Local ==
  /\ UNCHANGED <<page, call, subs, form, told, admins, late>>
  /\ \/ UNCHANGED session /\ token' \in {token, FALSE}
     \/ session' = Nobody /\ token' = FALSE
  /\ entry' \in Forms \cup {Unfinished} /\ picked' \subseteq Templates
  /\ UNCHANGED alert

Begins == Submit \/ SubmitSignIn

Travels == BootstrapRoute \/ CountAdmins \/ Insert \/ Replied \/ Aborted

FormFails ==
  /\ call.kind = "signIn" /\ alert' = "error" /\ call' = NoCall
  /\ UNCHANGED <<page, session, token, entry, picked, subs, form, told, admins, late>>

Lates == \E w \in late : LateSub(w)

LEMMA PagesNextIsKnown ==
  ASSUME PagesTypeOK, PagesNext
  PROVE  \/ Moves \/ Local \/ Begins \/ Travels \/ BootstrapAnswered \/ Authorize \/ FormFails
         \/ Lates
<1> USE DEF Moves
<1>1. ASSUME NEW address \in Addresses, Open(address) PROVE Moves
  BY <1>1, PagesAreShown DEF Open, accounts
<1>2. ASSUME NEW link, Follow(link) PROVE Moves
  BY <1>2, PagesAreShown DEF Follow, accounts
<1>3. ASSUME NEW t \in Templates, Toggle(t) PROVE Local
  BY <1>3 DEF Toggle, Local, accounts, PagesTypeOK
<1>4. CASE SignOut
  BY <1>4, PagesAreShown DEF SignOut, accounts
<1>5. CASE TokenExpires \/ SessionEnds
  BY <1>5 DEF TokenExpires, SessionEnds, Local, accounts, PagesTypeOK
<1>6. ASSUME NEW f \in Forms \cup {Unfinished}, Fill(f) PROVE Local
  BY <1>6 DEF Fill, Local, accounts, PagesTypeOK
<1>7. CASE StepOneSignedIn
  <2>1. "step2" \in Pages
    BY DEF Pages, Steps
  <2> QED BY <1>7, <2>1, PagesAreShown DEF StepOneSignedIn, accounts
<1>8. CASE FormSignedIn
  <2>1. CASE call.answer = "payload"
    BY <1>8, <2>1, PagesAreShown DEF FormSignedIn, accounts
  <2>2. CASE call.answer # "payload"
    BY <1>8, <2>2 DEF FormSignedIn, FormFails, At, accounts
  <2> QED BY <2>1, <2>2
<1>9. CASE FetchRejected
  <2>1. "crashed" \in Pages
    BY DEF Pages
  <2> QED BY <1>9, <2>1 DEF FetchRejected, accounts
<1> HIDE DEF Moves
<1> QED BY <1>1, <1>2, <1>3, <1>4, <1>5, <1>6, <1>7, <1>8, <1>9
        DEF PagesNext, Waiting, Begins, Travels, Lates

-----------------------------------------------------------------------------
\* Type correctness of the pages.

LEMMA MovesKeepType ==
  ASSUME PagesTypeOK, Moves
  PROVE  PagesTypeOK'
<1>1. page' \in Pages /\ entry' = Unfinished /\ alert' = "none" /\ call' = NoCall /\ picked' = {}
  BY DEF Moves, Goes
<1>2. late' \subseteq Writes
  BY UnheardIs DEF Moves, Goes, PagesTypeOK
<1>3. session' \in Forms \cup {Nobody} /\ token' \in BOOLEAN
  BY DEF Moves, PagesTypeOK
<1>4. UNCHANGED <<subs, form, told, admins>>
  BY DEF Moves
<1> QED BY <1>1, <1>2, <1>3, <1>4, NoCallIsNone DEF PagesTypeOK

LEMMA BeginsIs ==
  ASSUME PagesTypeOK, Begins
  PROVE  /\ call' \in Calls /\ call'.at = "panel"
         /\ call'.form = entry /\ entry \in Forms
         /\ alert' = "none" /\ ~Pending
         /\ UNCHANGED <<page, session, token, entry, picked, told, admins, late>>
         /\ \/ /\ page = "step1" /\ call'.kind = "bootstrap" /\ call'.sub = subs + 1
               /\ subs < MaxSubs /\ subs' = subs + 1
               /\ form' = [form EXCEPT ![subs + 1] = entry]
            \/ /\ page = "signIn" /\ call'.kind = "signIn"
               /\ UNCHANGED <<subs, form>>
<1> USE DEF PagesTypeOK
<1>0. NoCall \in Calls
  BY NoCallIsNone
<1>1. CASE Submit
  <2>1. subs + 1 \in Subs
    BY <1>1, SetupPagesAssumption DEF Submit, Subs
  <2>2. /\ call' \in Calls /\ call'.at = "panel" /\ call'.form = entry
        /\ call'.kind = "bootstrap" /\ call'.sub = subs + 1
    BY <1>0, <1>1, <2>1 DEF Submit, Calls
  <2> QED BY <1>1, <2>2 DEF Submit
<1>2. CASE SubmitSignIn
  <2>1. call' \in Calls /\ call'.at = "panel" /\ call'.form = entry /\ call'.kind = "signIn"
    BY <1>0, <1>2 DEF SubmitSignIn, Calls
  <2> QED BY <1>2, <2>1 DEF SubmitSignIn, accounts
<1> QED BY <1>1, <1>2 DEF Begins

\* Where a bootstrap goes, and what it leaves behind.
LEMMA TravelsIs ==
  ASSUME PagesTypeOK, Travels
  PROVE  /\ call.kind = "bootstrap" /\ call'.kind = "bootstrap" /\ call' \in Calls
         /\ call'.sub = call.sub /\ call'.form = call.form
         /\ UNCHANGED <<page, session, token, entry, alert, picked, subs, form, told>>
         /\ late' \subseteq late \cup Unheard
         /\ call'.at \in {"gateway", "counted", "committed", "answered"}
         /\ \/ /\ call.at = "counted" /\ call'.at = "committed"
               /\ admins' = admins \cup {call.sub} /\ late' = late
            \/ /\ call.at \in {"panel", "gateway", "counted"} /\ admins' = admins
               /\ \/ call'.at \in {"gateway", "counted"} /\ late' = late
                  \/ call'.at = "answered" /\ call'.answer \in {"error", "demo"} /\ late' = late
                  \/ call'.at = "answered" /\ call'.answer = "demo"
            \/ /\ call.at = "committed" /\ call'.at = "answered" /\ admins' = admins /\ late' = late
               /\ call'.answer \in {"payload", "demo"}
<1>0. \A reply \in BootstrapReplies : Heard(reply) \in Calls
  BY CallsMoveOn
<1>1. CASE BootstrapRoute
  BY <1>1, CallsMoveOn, BootstrappedSays DEF BootstrapRoute, At, Elsewhere, BootstrapReplies
<1>2. CASE CountAdmins
  BY <1>2, CallsMoveOn, BootstrappedSays DEF CountAdmins, At, Elsewhere, BootstrapReplies
<1>3. CASE Insert
  BY <1>3, CallsMoveOn DEF Insert, At, Elsewhere
<1>4. CASE Replied
  BY <1>4, CallsMoveOn, BootstrappedSays DEF Replied, Elsewhere, BootstrapReplies
<1>5. CASE Aborted
  <2>1. CASE call.at = "committed"
    BY <1>5, <2>1, CallsMoveOn, BootstrappedSays
    DEF Aborted, Unheard, Elsewhere, BootstrapReplies
  <2>2. CASE call.at # "committed"
    BY <1>5, <2>2, CallsMoveOn, BootstrappedSays DEF Aborted, Elsewhere, BootstrapReplies
  <2> QED BY <2>1, <2>2
<1> QED BY <1>1, <1>2, <1>3, <1>4, <1>5 DEF Travels

LEMMA AnsweredIs ==
  ASSUME PagesTypeOK, BootstrapAnswered
  PROVE  /\ At("bootstrap", "answered")
         /\ call' \in Calls
         /\ \/ /\ call.answer = "payload" /\ told' = [told EXCEPT ![call.sub] = "created"]
               /\ call'.kind = "signIn" /\ call'.form = call.form /\ alert' = alert
            \/ /\ call.answer # "payload" /\ call' = NoCall /\ alert' = call.answer
               /\ told' = [told EXCEPT ![call.sub] =
                             IF call.answer = "demo" THEN "unknown" ELSE "refused"]
         /\ UNCHANGED <<page, session, token, entry, picked, subs, form, admins, late>>
<1>0. call \in Calls
  BY DEF PagesTypeOK
<1>1. CASE call.answer = "payload"
  <2>1. call' = [call EXCEPT !.kind = "signIn", !.at = "panel"]
    BY <1>1 DEF BootstrapAnswered
  <2>2. call' \in Calls /\ call'.kind = "signIn" /\ call'.form = call.form
    BY <1>0, <2>1 DEF Calls
  <2> QED BY <1>1, <2>2 DEF BootstrapAnswered
<1>2. CASE call.answer # "payload"
  BY <1>2, NoCallIsNone DEF BootstrapAnswered
<1> QED BY <1>1, <1>2

LEMMA AuthorizeIs ==
  ASSUME PagesTypeOK, Authorize
  PROVE  /\ call.kind = "signIn" /\ call'.kind = "signIn" /\ call' \in Calls
         /\ call'.form = call.form
         /\ \/ /\ \E m \in admins : form[m] = call.form
               /\ session' = call.form /\ token' = TRUE
            \/ UNCHANGED <<session, token>>
         /\ UNCHANGED <<page, entry, alert, picked, subs, form, told, admins, late>>
<1>0. call \in Calls
  BY DEF PagesTypeOK
<1>1. PICK answer \in {"payload", "error"} : call' = [Reach("answered") EXCEPT !.answer = answer]
  BY DEF Authorize
<1>2. call'.kind = call.kind /\ call'.form = call.form /\ call' \in Calls
  BY <1>0, <1>1 DEF Reach, Calls
<1> QED BY <1>2 DEF Authorize, At, accounts

\* What a late submission may still do.
LEMMA LateIs ==
  ASSUME PagesTypeOK, NEW w \in late, LateSub(w)
  PROVE  /\ UNCHANGED <<page, session, token, entry, alert, call, picked, subs, form, told>>
         /\ w.sub \in Subs
         /\ late' \subseteq Writes
         /\ \A v \in late' : \E u \in late : v.sub = u.sub
         /\ admins' \in {admins, admins \cup {w.sub}}
<1>0. w \in Writes /\ late \subseteq Writes /\ w.sub \in Subs
  BY DEF PagesTypeOK, Writes
<1>1. CASE late' = late \ {w} /\ UNCHANGED admins
  BY <1>0, <1>1 DEF LateSub, Elsewhere
<1>2. CASE late' = (late \ {w}) \cup {[w EXCEPT !.counted = TRUE]} /\ UNCHANGED admins
  <2>1. [w EXCEPT !.counted = TRUE] \in Writes /\ [w EXCEPT !.counted = TRUE].sub = w.sub
    BY <1>0 DEF Writes
  <2> QED BY <1>0, <1>2, <2>1 DEF LateSub, Elsewhere
<1>3. CASE late' = late \ {w} /\ admins' = admins \cup {w.sub}
  BY <1>0, <1>3 DEF LateSub, Elsewhere
<1> QED BY <1>1, <1>2, <1>3 DEF LateSub

LEMMA PagesKeepType ==
  ASSUME PagesTypeOK, PagesNext
  PROVE  PagesTypeOK'
<1> USE DEF PagesTypeOK
<1>1. CASE Moves
  BY <1>1, MovesKeepType
<1>2. CASE Local
  BY <1>2 DEF Local
<1>3. CASE Begins
  <2>1. subs' \in Subs \cup {0}
    BY <1>3, BeginsIs, SetupPagesAssumption DEF Subs
  <2>2. form' \in [Subs -> Forms \cup {Unfinished}]
    BY <1>3, BeginsIs
  <2>3. call' \in Calls /\ (call'.kind = "bootstrap" => call'.sub \in Subs)
    BY <1>3, BeginsIs, SetupPagesAssumption DEF Subs
  <2> QED BY <1>3, <2>1, <2>2, <2>3, BeginsIs
<1>4. CASE Travels
  <2>1. call.sub \in Subs /\ late' \subseteq Writes
    BY <1>4, TravelsIs, UnheardIs
  <2>2. admins' \subseteq Subs
    BY <1>4, <2>1, TravelsIs
  <2> QED BY <1>4, <2>1, <2>2, TravelsIs
<1>5. CASE BootstrapAnswered
  <2>1. told' \in [Subs -> {"nothing", "created", "refused", "unknown"}]
    BY <1>5, AnsweredIs
  <2>2. alert' \in {"none", "error", "demo"}
    BY <1>5, AnsweredIs DEF Calls
  <2>3. call' \in Calls /\ call'.kind # "bootstrap" /\ (call'.kind # "none" => call'.form \in Forms)
    BY <1>5, AnsweredIs, NoCallIsNone DEF At
  <2> QED BY <1>5, <2>1, <2>2, <2>3, AnsweredIs
<1>6. CASE Authorize
  <2>1. session' \in Forms \cup {Nobody} /\ token' \in BOOLEAN
    <3>1. CASE UNCHANGED <<session, token>>
      BY <3>1
    <3>2. CASE /\ \E m \in admins : form[m] = call.form
               /\ session' = call.form /\ token' = TRUE
      BY <1>6, <3>2, AuthorizeIs
    <3> QED BY <1>6, <3>1, <3>2, AuthorizeIs
  <2> QED BY <1>6, <2>1, AuthorizeIs
<1>7. CASE FormFails
  BY <1>7, NoCallIsNone DEF FormFails
<1>8. CASE Lates
  BY <1>8, LateIs DEF Lates
<1> QED BY <1>1, <1>2, <1>3, <1>4, <1>5, <1>6, <1>7, <1>8, PagesNextIsKnown

-----------------------------------------------------------------------------
\* What the user is told, and whose session is opened.

LateSubs == {w.sub : w \in late}

\* The bootstrap under way: of the last submission, of which nothing was told.
BootIsLast ==
  call.kind = "bootstrap" =>
    /\ page = "step1" /\ call.sub = subs /\ call.form = form[subs] /\ told[subs] = "nothing"
    /\ call.at \in {"panel", "gateway", "counted", "committed", "answered"}
    /\ call.at \in {"panel", "gateway", "counted"} => subs \notin admins \cup LateSubs
    /\ call.at = "committed" => subs \in admins
    /\ call.at = "answered" /\ call.answer = "payload" => subs \in admins
    /\ call.at = "answered" /\ call.answer # "payload" /\ call.answer # "demo" =>
         subs \notin admins \cup LateSubs

\* The sign-in that follows it is with what it carried.
SignInIsOwn ==
  call.kind = "signIn" =>
    /\ page \in {"step1", "signIn"}
    /\ page = "step1" => subs \in Subs /\ told[subs] = "created" /\ call.form = form[subs]

\* Nothing is known, told or left of a submission to come.
Unsent == \A n \in Subs : n > subs => told[n] = "nothing" /\ n \notin admins \cup LateSubs

PagesInv == PagesTypeOK /\ BootIsLast /\ SignInIsOwn /\ Unsent /\ ToldOfAdmin

LEMMA LateSubsOfLess ==
  ASSUME PagesTypeOK, \A v \in late' : v \in late \/ \E u \in late : v.sub = u.sub
  PROVE  LateSubs' \subseteq LateSubs
BY DEF LateSubs

LEMMA MovesKeepPages ==
  ASSUME PagesInv, Moves
  PROVE  BootIsLast' /\ SignInIsOwn' /\ Unsent' /\ ToldOfAdmin'
<1> USE DEF PagesInv
<1>1. call' = NoCall /\ UNCHANGED <<subs, form, told, admins>> /\ late' = late \cup Unheard
  BY DEF Moves, Goes
<1>2. call'.kind = "none"
  BY <1>1, NoCallIsNone
<1>3. \A n \in LateSubs' : n \in LateSubs \/ (n = subs /\ call.kind = "bootstrap" /\ told[subs] = "nothing")
  BY <1>1, UnheardIs DEF LateSubs, BootIsLast
<1>4. BootIsLast' /\ SignInIsOwn'
  BY <1>2 DEF BootIsLast, SignInIsOwn
<1>5. subs \in Nat
  BY SetupPagesAssumption DEF PagesTypeOK, Subs
<1>6. Unsent'
  BY <1>1, <1>3, <1>5, SetupPagesAssumption DEF Unsent, Subs
<1>7. ToldOfAdmin'
  <2>1. \A n \in Subs : told'[n] = "refused" => n \notin admins' \cup LateSubs'
    BY <1>1, <1>3 DEF ToldOfAdmin, LateSubs
  <2> QED BY <1>1, <2>1 DEF ToldOfAdmin, LateSubs
<1> QED BY <1>4, <1>6, <1>7

\* The promises rest on the call, the accounts and nothing else.
LEMMA QuietKeepsPages ==
  ASSUME PagesInv, UNCHANGED <<page, subs, form, told, admins, late>>,
         UNCHANGED call \/ call'.kind = "none"
  PROVE  BootIsLast' /\ SignInIsOwn' /\ Unsent' /\ ToldOfAdmin'
<1>1. LateSubs' = LateSubs
  BY DEF LateSubs
<1>2. BootIsLast' /\ SignInIsOwn'
  BY <1>1 DEF PagesInv, BootIsLast, SignInIsOwn
<1>3. Unsent'
  BY <1>1 DEF PagesInv, Unsent
<1>4. ToldOfAdmin'
  BY DEF PagesInv, ToldOfAdmin
<1> QED BY <1>2, <1>3, <1>4

LEMMA BeginsKeepPages ==
  ASSUME PagesInv, Begins
  PROVE  BootIsLast' /\ SignInIsOwn' /\ Unsent' /\ ToldOfAdmin'
<1> USE DEF PagesInv
<1>0. UNCHANGED <<page, told, admins, late>> /\ LateSubs' = LateSubs
  BY BeginsIs DEF LateSubs
<1>1. ToldOfAdmin'
  BY <1>0 DEF ToldOfAdmin
<1>2. CASE call'.kind = "bootstrap"
  <2>1. page = "step1" /\ call'.sub = subs + 1 /\ subs < MaxSubs /\ subs' = subs + 1
        /\ form' = [form EXCEPT ![subs + 1] = entry] /\ call'.form = entry /\ call'.at = "panel"
    BY <1>2, BeginsIs
  <2>2. subs \in Nat /\ subs + 1 \in Subs /\ subs + 1 > subs
    BY <2>1, SetupPagesAssumption DEF PagesTypeOK, Subs
  <2>3. told[subs + 1] = "nothing" /\ subs + 1 \notin admins \cup LateSubs
    BY <2>2 DEF Unsent
  <2>4. BootIsLast'
    BY <1>0, <1>2, <2>1, <2>2, <2>3 DEF BootIsLast, PagesTypeOK
  <2>5. Unsent'
    BY <1>0, <2>1, <2>2, SetupPagesAssumption DEF Unsent, Subs
  <2>6. SignInIsOwn'
    BY <1>2 DEF SignInIsOwn
  <2> QED BY <1>1, <2>4, <2>5, <2>6
<1>3. CASE call'.kind # "bootstrap"
  <2>1. page = "signIn" /\ UNCHANGED <<subs, form>>
    BY <1>3, BeginsIs
  <2>2. BootIsLast' /\ SignInIsOwn'
    BY <1>0, <1>3, <2>1 DEF BootIsLast, SignInIsOwn
  <2>3. Unsent'
    BY <1>0, <2>1 DEF Unsent
  <2> QED BY <1>1, <2>2, <2>3
<1> QED BY <1>2, <1>3

LEMMA TravelsKeepPages ==
  ASSUME PagesInv, Travels
  PROVE  BootIsLast' /\ SignInIsOwn' /\ Unsent' /\ ToldOfAdmin'
<1> USE DEF PagesInv
<1>1. /\ call.kind = "bootstrap" /\ call'.kind = "bootstrap"
      /\ call'.sub = call.sub /\ call'.form = call.form
      /\ UNCHANGED <<page, subs, form, told>>
  BY TravelsIs
<1>2. call.sub = subs /\ subs \in Subs /\ told[subs] = "nothing"
  BY <1>1 DEF BootIsLast, PagesTypeOK
<1>3. admins' \subseteq admins \cup {subs} /\ LateSubs' \subseteq LateSubs \cup {subs}
  <2>1. late' \subseteq late \cup Unheard
    BY TravelsIs
  <2>2. \A w \in Unheard : w.sub = subs
    BY <1>2, UnheardIs
  <2> QED BY <1>2, <2>1, <2>2, TravelsIs DEF LateSubs
<1>4. SignInIsOwn'
  BY <1>1 DEF SignInIsOwn
<1>5. Unsent'
  BY <1>1, <1>2, <1>3, SetupPagesAssumption DEF Unsent, Subs
<1>6. ToldOfAdmin'
  <2>1. \A n \in Subs : told[n] = "refused" => n \notin admins \cup LateSubs /\ n # subs
    BY <1>2 DEF ToldOfAdmin, LateSubs
  <2>2. \A n \in Subs : told'[n] = "refused" => n \notin admins' \cup LateSubs'
    BY <1>1, <1>3, <2>1
  <2>3. admins \subseteq admins'
    BY TravelsIs
  <2> QED BY <1>1, <2>2, <2>3 DEF ToldOfAdmin, LateSubs
<1>7. BootIsLast'
  <2>0. /\ page = "step1" /\ call.form = form[subs]
        /\ call'.at \in {"gateway", "counted", "committed", "answered"}
    BY <1>1, TravelsIs DEF BootIsLast
  <2>1. CASE call.at = "counted" /\ call'.at = "committed" /\ admins' = admins \cup {call.sub}
    BY <1>1, <1>2, <2>0, <2>1 DEF BootIsLast
  <2>2. CASE call.at \in {"panel", "gateway", "counted"} /\ admins' = admins /\ late' = late
             /\ call'.at \in {"gateway", "counted"}
    BY <1>1, <1>2, <2>0, <2>2 DEF BootIsLast, LateSubs
  <2>3. CASE call.at \in {"panel", "gateway", "counted"} /\ admins' = admins /\ late' = late
             /\ call'.at = "answered" /\ call'.answer \in {"error", "demo"}
    BY <1>1, <1>2, <2>0, <2>3 DEF BootIsLast, LateSubs
  <2>4. CASE call'.at = "answered" /\ call'.answer = "demo"
    BY <1>1, <1>2, <2>0, <2>4 DEF BootIsLast
  <2>5. CASE call.at = "committed" /\ admins' = admins /\ call'.at = "answered"
             /\ call'.answer \in {"payload", "demo"}
    BY <1>1, <1>2, <2>0, <2>5 DEF BootIsLast
  <2> QED BY <2>1, <2>2, <2>3, <2>4, <2>5, TravelsIs
<1> QED BY <1>4, <1>5, <1>6, <1>7

LEMMA AnsweredKeepsPages ==
  ASSUME PagesInv, BootstrapAnswered
  PROVE  BootIsLast' /\ SignInIsOwn' /\ Unsent' /\ ToldOfAdmin'
<1> USE DEF PagesInv
<1>1. /\ call.kind = "bootstrap" /\ call.at = "answered"
      /\ UNCHANGED <<page, subs, form, admins, late>>
  BY AnsweredIs DEF At
<1>2. /\ call.sub = subs /\ subs \in Subs /\ call.form = form[subs]
      /\ call.answer = "payload" => subs \in admins
      /\ call.answer # "payload" /\ call.answer # "demo" => subs \notin admins \cup LateSubs
  BY <1>1 DEF BootIsLast, PagesTypeOK
<1>3. LateSubs' = LateSubs
  BY <1>1 DEF LateSubs
<1>4. \A n \in Subs : n # subs => told'[n] = told[n]
  BY <1>2, AnsweredIs DEF PagesTypeOK
<1>5. Unsent'
  BY <1>1, <1>2, <1>3, <1>4, SetupPagesAssumption DEF Unsent, Subs
<1>6. CASE call.answer = "payload"
  <2>1. told'[subs] = "created" /\ call'.kind = "signIn" /\ call'.form = call.form
    <3>1. call'.kind = "signIn" /\ call'.form = call.form
          /\ told' = [told EXCEPT ![call.sub] = "created"]
      BY <1>6, AnsweredIs
    <3> QED BY <1>2, <3>1 DEF PagesTypeOK
  <2>2. BootIsLast' /\ SignInIsOwn'
    BY <1>1, <1>2, <2>1 DEF BootIsLast, SignInIsOwn
  <2>3. ToldOfAdmin'
    BY <1>1, <1>2, <1>4, <1>6, <2>1 DEF ToldOfAdmin
  <2> QED BY <1>5, <2>2, <2>3
<1>7. CASE call.answer # "payload"
  <2>1. call'.kind = "none"
        /\ told' = [told EXCEPT ![call.sub] = IF call.answer = "demo" THEN "unknown" ELSE "refused"]
    BY <1>7, AnsweredIs, NoCallIsNone
  <2>2. told'[subs] = IF call.answer = "demo" THEN "unknown" ELSE "refused"
    BY <1>2, <2>1 DEF PagesTypeOK
  <2>3. BootIsLast' /\ SignInIsOwn'
    BY <2>1 DEF BootIsLast, SignInIsOwn
  <2>4. ToldOfAdmin'
    BY <1>1, <1>2, <1>4, <1>7, <2>2 DEF ToldOfAdmin, LateSubs
  <2> QED BY <1>5, <2>3, <2>4
<1> QED BY <1>6, <1>7

LEMMA PagesKeepInv ==
  ASSUME PagesInv, PagesNext
  PROVE  PagesInv'
<1>0. PagesTypeOK' /\ PagesTypeOK
  BY PagesKeepType DEF PagesInv
<1>1. CASE Local
  BY <1>0, <1>1, QuietKeepsPages DEF Local, PagesInv
<1>2. CASE FormFails
  BY <1>0, <1>2, QuietKeepsPages, NoCallIsNone DEF FormFails, PagesInv
<1>3. CASE Authorize
  <2>1. /\ call.kind = "signIn" /\ call'.kind = "signIn" /\ call'.form = call.form
        /\ UNCHANGED <<page, subs, form, told, admins, late>>
    BY <1>0, <1>3, AuthorizeIs
  <2>2. LateSubs' = LateSubs
    BY <2>1 DEF LateSubs
  <2>3. BootIsLast' /\ SignInIsOwn'
    BY <2>1 DEF PagesInv, BootIsLast, SignInIsOwn
  <2>4. Unsent' /\ ToldOfAdmin'
    BY <2>1, <2>2 DEF PagesInv, Unsent, ToldOfAdmin
  <2> QED BY <1>0, <2>3, <2>4 DEF PagesInv
<1>4. CASE Lates
  <2>1. PICK w \in late : LateSub(w)
    BY <1>4 DEF Lates
  <2>2. /\ UNCHANGED <<page, call, subs, form, told>>
        /\ w.sub \in LateSubs /\ LateSubs' \subseteq LateSubs
        /\ admins \subseteq admins' /\ admins' \subseteq admins \cup LateSubs
    BY <1>0, <2>1, LateIs DEF LateSubs
  <2>3. BootIsLast' /\ SignInIsOwn'
    BY <2>2 DEF PagesInv, BootIsLast, SignInIsOwn
  <2>4. Unsent'
    BY <2>2 DEF PagesInv, Unsent
  <2>5. ToldOfAdmin'
    <3>1. \A n \in Subs : told[n] = "refused" => n \notin admins \cup LateSubs
      BY DEF PagesInv, ToldOfAdmin, LateSubs
    <3>2. \A n \in Subs : told'[n] = "refused" => n \notin admins' \cup LateSubs'
      BY <2>2, <3>1
    <3> QED BY <2>2, <3>2 DEF PagesInv, ToldOfAdmin, LateSubs
  <2> QED BY <1>0, <2>3, <2>4, <2>5 DEF PagesInv
<1> QED BY <1>0, <1>1, <1>2, <1>3, <1>4, MovesKeepPages, BeginsKeepPages, TravelsKeepPages,
          AnsweredKeepsPages, PagesNextIsKnown DEF PagesInv

LEMMA PagesStart ==
  ASSUME PagesInit
  PROVE  PagesInv
<1> USE DEF PagesInit
<1>1. subs = 0 /\ LateSubs = {} /\ admins = {} /\ call.kind = "none"
  BY NoCallIsNone DEF LateSubs
<1>2. PagesTypeOK
  BY NoCallIsNone DEF PagesTypeOK, Writes, Subs, Pages, Steps
<1>3. BootIsLast /\ SignInIsOwn
  BY <1>1 DEF BootIsLast, SignInIsOwn
<1>4. Unsent
  BY <1>1 DEF Unsent
<1>5. ToldOfAdmin
  BY DEF ToldOfAdmin
<1> QED BY <1>2, <1>3, <1>4, <1>5 DEF PagesInv

LEMMA PagesRest ==
  ASSUME PagesInv, UNCHANGED pagesVars
  PROVE  PagesInv'
<1>1. UNCHANGED <<page, session, token, entry, alert, call, picked, subs, form, told, admins, late>>
  BY DEF pagesVars
<1>2. PagesTypeOK'
  BY <1>1 DEF PagesInv, PagesTypeOK
<1> QED BY <1>1, <1>2, QuietKeepsPages DEF PagesInv

\* The pages keep what they promise whatever the stream does.
LEMMA PagesHold == Spec => []PagesInv
<1>1. Init => PagesInv
  BY PagesStart DEF Init
<1>2. PagesInv /\ [Next]_vars => PagesInv'
  <2> SUFFICES ASSUME PagesInv, [Next]_vars PROVE PagesInv'
    OBVIOUS
  <2>1. CASE PagesNext /\ Mounts
    BY <2>1, PagesKeepInv
  <2>2. CASE Reload \/ Stream \/ UNCHANGED vars
    BY <2>2, PagesRest DEF Reload, Stream, vars
  <2> QED BY <2>1, <2>2 DEF Next
<1> QED BY <1>1, <1>2, PTL DEF Spec

\* A submission the wizard goes on from has its admin, one it calls refused has
\* none and never will, however late the gateway carries a given-up call out.
THEOREM UserIsToldOfTheAdmin == Spec => []ToldOfAdmin
<1>1. PagesInv => ToldOfAdmin
  BY DEF PagesInv
<1> QED BY <1>1, PagesHold, PTL

\* A session is opened for an existing account only, and by step 1 only for the
\* account its own submission has created.
THEOREM SessionsAreOwn == Spec => SessionIsOwn
<1> DEFINE Own == session' \notin {session, Nobody} =>
                    /\ \E m \in admins : form[m] = session'
                    /\ page = "step1" => told[subs] = "created" /\ session' = form[subs]
<1>1. PagesInv /\ [Next]_vars => [Own]_pagesVars
  <2> SUFFICES ASSUME PagesInv, [Next]_vars, ~UNCHANGED pagesVars PROVE Own
    OBVIOUS
  <2>0. PagesTypeOK
    BY DEF PagesInv
  <2>1. PagesNext
    BY DEF Next, Reload, Stream, vars
  <2>2. CASE Authorize
    <3>1. SignInIsOwn /\ call.kind = "signIn"
      BY <2>0, <2>2, AuthorizeIs DEF PagesInv
    <3> QED BY <2>0, <2>2, <3>1, AuthorizeIs DEF SignInIsOwn
  <2>3. CASE ~Authorize
    <3>1. session' \in {session, Nobody}
      BY <2>0, <2>1, <2>3, PagesNextIsKnown, BeginsIs, TravelsIs, AnsweredIs, LateIs
      DEF Moves, Local, FormFails, Lates
    <3> QED BY <3>1
  <2> QED BY <2>2, <2>3
<1> QED BY <1>1, PagesHold, PTL DEF Spec, SessionIsOwn

-----------------------------------------------------------------------------
\* The stream.

\* The hook calls a connection live only while it is open, pause or none.
StateIsLive == state = "connected" => es = "open"

LEMMA MountedStarts ==
  ASSUME NEW source \in {"none", "connecting"}, Mount(source)
  PROVE  StreamTypeOK' /\ StateIsLive' /\ wire' = <<>> /\ entries' = <<>> /\ heard' = {}
<1>1. wire' = <<>> /\ entries' = <<>> /\ sent' = 0 /\ heard' = {} /\ es' = source
      /\ state' = "connecting" /\ scrolled' = FALSE /\ paused' = FALSE
  BY DEF Mount
<1>2. 0 \in 0 .. MaxEntries
  BY LogStreamAssumption
<1>3. <<>> \in Seq(1 .. MaxEntries)
  OBVIOUS
<1>4. StreamTypeOK'
  BY <1>1, <1>2, <1>3 DEF StreamTypeOK
<1>5. StateIsLive'
  BY <1>1 DEF StateIsLive
<1> QED BY <1>1, <1>4, <1>5

\* The entries after a message.
LEMMA KeptIs ==
  ASSUME NEW S, entries \in Seq(S), NEW e \in S, Buffer \in Nat \ {0}
  PROVE  /\ Kept(e) \in Seq(S)
         /\ Len(Kept(e)) = IF Len(entries) < Buffer THEN Len(entries) + 1 ELSE Buffer
         /\ Kept(e)[1] = e
         /\ \A i \in 2 .. Len(Kept(e)) : Kept(e)[i] = entries[i - 1]
<1> DEFINE all == <<e>> \o entries
           n == IF Len(entries) < Buffer THEN Len(entries) + 1 ELSE Buffer
<1>1. /\ all \in Seq(S) /\ Len(all) = Len(entries) + 1 /\ all[1] = e
      /\ \A i \in 2 .. Len(all) : all[i] = entries[i - 1]
  OBVIOUS
<1>2. n \in 1 .. Len(all)
  BY <1>1
<1>3. Kept(e) = SubSeq(all, 1, n)
  BY DEF Kept
<1> HIDE DEF all, n
<1>4. /\ Kept(e) \in Seq(S) /\ Len(Kept(e)) = n
      /\ \A i \in 1 .. n : Kept(e)[i] = all[i]
  BY <1>1, <1>2, <1>3
<1>5. 1 \in 1 .. n /\ \A i \in 2 .. n : i \in 1 .. n /\ i \in 2 .. Len(all)
  BY <1>1, <1>2
<1> QED BY <1>1, <1>4, <1>5 DEF n

\* What is on its way is newer than what has arrived, and in order.
WireIsNewer ==
  /\ \A i, j \in DOMAIN wire : i < j => wire[i] < wire[j]
  /\ \A i \in DOMAIN wire : wire[i] <= sent /\ \A e \in heard : e < wire[i]
  /\ \A e \in heard : e <= sent

\* What is kept is newer than what is not.
KeptAreNewest ==
  /\ Len(entries) <= Buffer
  /\ \A i, j \in DOMAIN entries : i < j => entries[i] > entries[j]
  /\ \A i \in DOMAIN entries : entries[i] \in heard
  /\ \A e \in heard : \/ \E i \in DOMAIN entries : entries[i] = e
                      \/ Len(entries) = Buffer /\ e < entries[Buffer]

StreamInv == StreamTypeOK /\ StateIsLive /\ WireIsNewer /\ KeptAreNewest

LEMMA EmptyStream ==
  ASSUME wire = <<>>, entries = <<>>, heard = {}
  PROVE  WireIsNewer /\ KeptAreNewest
BY LogStreamAssumption DEF WireIsNewer, KeptAreNewest

LEMMA MountKeepsStream ==
  ASSUME NEW source \in {"none", "connecting"}, Mount(source)
  PROVE  StreamInv'
<1>1. WireIsNewer' /\ KeptAreNewest'
  BY MountedStarts, LogStreamAssumption DEF WireIsNewer, KeptAreNewest
<1> QED BY <1>1, MountedStarts DEF StreamInv

LEMMA ElementsOf ==
  ASSUME NEW S, NEW s \in Seq(S)
  PROVE  \A k \in 1 .. Len(s) : s[k] \in S
OBVIOUS

\* What a cap leaves of a sequence.
LEMMA CutIs ==
  ASSUME NEW len \in Nat, NEW cap \in Nat
  PROVE  LET n == IF len < cap THEN len ELSE cap IN n \in Nat /\ (n < len => n = cap)
OBVIOUS

\* Only in a full buffer does the last entry fall out.
LEMMA FullIsFull ==
  ASSUME NEW before \in Nat, NEW after \in Nat, NEW cap \in Nat, NEW i \in 1 .. before,
         before <= cap, after = IF before < cap THEN before + 1 ELSE cap, i + 1 > after
  PROVE  after = cap /\ i = cap /\ before = cap
OBVIOUS

LEMMA MessageKeepsStream ==
  ASSUME StreamInv, Message
  PROVE  StreamInv'
<1> DEFINE e == Head(wire)
<1>0. /\ es = "open" /\ wire # <<>> /\ wire' = Tail(wire)
      /\ UNCHANGED <<es, state, scrolled, paused, sent>>
  BY DEF Message
<1>1. /\ wire \in Seq(1 .. MaxEntries) /\ entries \in Seq(1 .. MaxEntries)
      /\ heard \subseteq 1 .. MaxEntries /\ sent \in 0 .. MaxEntries
  BY DEF StreamInv, StreamTypeOK
<1>2. /\ e = wire[1] /\ e \in 1 .. MaxEntries /\ 1 \in DOMAIN wire
      /\ Tail(wire) \in Seq(1 .. MaxEntries) /\ Len(Tail(wire)) = Len(wire) - 1
      /\ \A i \in DOMAIN Tail(wire) : i + 1 \in DOMAIN wire /\ Tail(wire)[i] = wire[i + 1]
  <2>1. /\ Len(wire) \in Nat /\ Len(wire) # 0 /\ DOMAIN wire = 1 .. Len(wire)
    BY <1>0, <1>1
  <2>2. e = wire[1] /\ 1 \in DOMAIN wire
    BY <2>1
  <2>3. e \in 1 .. MaxEntries
    <3>1. \A k \in 1 .. Len(wire) : wire[k] \in 1 .. MaxEntries
      BY <1>1, ElementsOf
    <3> QED BY <2>1, <2>2, <3>1
  <2>4. Tail(wire) \in Seq(1 .. MaxEntries) /\ Len(Tail(wire)) = Len(wire) - 1
    BY <1>0, <1>1
  <2>5. DOMAIN Tail(wire) = 1 .. (Len(wire) - 1)
    BY <2>4
  <2>6. \A i \in 1 .. (Len(wire) - 1) : Tail(wire)[i] = wire[i + 1]
    BY <1>0, <1>1
  <2>7. \A i \in 1 .. (Len(wire) - 1) : i + 1 \in DOMAIN wire
    BY <2>1
  <2> QED BY <2>2, <2>3, <2>4, <2>5, <2>6, <2>7
<1>3. /\ \A h \in heard : h < e
      /\ e <= sent
      /\ \A i \in DOMAIN Tail(wire) : e < Tail(wire)[i]
  BY <1>1, <1>2 DEF StreamInv, WireIsNewer
<1> HIDE DEF e
<1>4. StateIsLive'
  BY <1>0 DEF StreamInv, StateIsLive
<1>5. \A i, j \in DOMAIN Tail(wire) : i < j => Tail(wire)[i] < Tail(wire)[j]
  BY <1>1, <1>2 DEF StreamInv, WireIsNewer
<1>6. \A i \in DOMAIN Tail(wire) : Tail(wire)[i] <= sent /\ \A h \in heard : h < Tail(wire)[i]
  BY <1>1, <1>2 DEF StreamInv, WireIsNewer
<1>7. \A h \in heard : h <= sent
  BY DEF StreamInv, WireIsNewer
<1>7a. \/ UNCHANGED <<entries, heard>>
       \/ entries' = Kept(e) /\ heard' = heard \cup {e}
  BY DEF Message, Taken, e
<1>8. CASE UNCHANGED <<entries, heard>>
  <2>1. StreamTypeOK'
    BY <1>0, <1>1, <1>2, <1>8 DEF StreamInv, StreamTypeOK
  <2>2. WireIsNewer'
    BY <1>0, <1>5, <1>6, <1>7, <1>8 DEF WireIsNewer
  <2>3. KeptAreNewest'
    BY <1>8 DEF StreamInv, KeptAreNewest
  <2> QED BY <1>4, <2>1, <2>2, <2>3 DEF StreamInv
<1>9. CASE entries' = Kept(e) /\ heard' = heard \cup {e}
  <2>0. /\ Buffer \in Nat \ {0} /\ Len(entries) <= Buffer
        /\ \A i, j \in DOMAIN entries : i < j => entries[i] > entries[j]
        /\ \A i \in DOMAIN entries : entries[i] \in heard
        /\ \A h \in heard : \/ \E i \in DOMAIN entries : entries[i] = h
                            \/ Len(entries) = Buffer /\ h < entries[Buffer]
    BY LogStreamAssumption DEF StreamInv, KeptAreNewest
  <2>0a. /\ Kept(e) \in Seq(1 .. MaxEntries)
         /\ Len(Kept(e)) = IF Len(entries) < Buffer THEN Len(entries) + 1 ELSE Buffer
         /\ Kept(e)[1] = e
         /\ \A i \in 2 .. Len(Kept(e)) : Kept(e)[i] = entries[i - 1]
    <3>1. entries \in Seq(1 .. MaxEntries) /\ e \in 1 .. MaxEntries /\ Buffer \in Nat \ {0}
      BY <1>1, <1>2, <2>0
    <3> QED BY ONLY <3>1, KeptIs
  <2>1. /\ entries' \in Seq(1 .. MaxEntries)
        /\ Len(entries') = IF Len(entries) < Buffer THEN Len(entries) + 1 ELSE Buffer
        /\ entries'[1] = e
        /\ \A i \in 2 .. Len(entries') : entries'[i] = entries[i - 1]
    BY ONLY <1>9, <2>0a
  <2>2. StreamTypeOK'
    BY <1>0, <1>1, <1>2, <1>9, <2>1 DEF StreamInv, StreamTypeOK
  <2>3. WireIsNewer'
    BY <1>0, <1>1, <1>2, <1>3, <1>5, <1>6, <1>7, <1>9 DEF WireIsNewer
  <2>4. \A i \in 2 .. Len(entries') : i - 1 \in DOMAIN entries /\ entries'[i] = entries[i - 1]
    BY <1>1, <2>0, <2>1
  <2>5. \A i, j \in DOMAIN entries' : i < j => entries'[i] > entries'[j]
    <3> SUFFICES ASSUME NEW i \in 1 .. Len(entries'), NEW j \in 1 .. Len(entries'), i < j
                 PROVE  entries'[i] > entries'[j]
      BY <2>1
    <3>1. j \in 2 .. Len(entries') /\ entries'[j] = entries[j - 1] /\ j - 1 \in DOMAIN entries
      BY <2>1, <2>4
    <3>2. CASE i = 1
      BY <1>3, <2>0, <2>1, <3>1, <3>2
    <3>3. CASE i # 1
      <4>1. i \in 2 .. Len(entries')
        BY <3>3
      <4>2. i - 1 \in DOMAIN entries /\ entries'[i] = entries[i - 1] /\ i - 1 < j - 1
        BY <2>4, <4>1
      <4> QED BY <2>0, <3>1, <4>2
    <3> QED BY <3>2, <3>3
  <2>6. \A i \in DOMAIN entries' : entries'[i] \in heard'
    BY <1>9, <2>0, <2>1, <2>4
  <2>7. \A h \in heard' : \/ \E i \in DOMAIN entries' : entries'[i] = h
                          \/ Len(entries') = Buffer /\ h < entries'[Buffer]
    <3> SUFFICES ASSUME NEW h \in heard'
                 PROVE  \/ \E i \in 1 .. Len(entries') : entries'[i] = h
                        \/ Len(entries') = Buffer /\ h < entries'[Buffer]
      BY <2>1
    <3>0. Len(entries) \in Nat /\ Len(entries') \in Nat \ {0} /\ DOMAIN entries = 1 .. Len(entries)
      BY <1>1, <2>0, <2>1
    <3>00. \A k \in 1 .. Len(entries) : entries[k] \in 1 .. MaxEntries
      BY <1>1, ElementsOf
    <3>1. CASE h = e
      BY <2>1, <3>0, <3>1
    <3>2. CASE h \in heard /\ \E i \in DOMAIN entries : entries[i] = h
      <4>1. PICK i \in 1 .. Len(entries) : entries[i] = h
        BY <3>0, <3>2
      <4>2. CASE i + 1 <= Len(entries')
        <5>1. i + 1 \in 2 .. Len(entries') /\ entries'[i + 1] = entries[i]
          BY <2>1, <3>0, <4>2
        <5> QED BY <4>1, <5>1, <3>0
      <4>3. CASE i + 1 > Len(entries')
        <5>0. /\ Buffer \in Nat /\ Len(entries) <= Buffer
              /\ Len(entries') = IF Len(entries) < Buffer THEN Len(entries) + 1 ELSE Buffer
          BY <2>0, <2>1
        <5>1. Len(entries') = Buffer /\ i = Buffer /\ Len(entries) = Buffer
          BY <3>0, <4>3, <5>0, FullIsFull
        <5>2. CASE Buffer = 1
          BY <1>3, <2>1, <3>2, <5>1, <5>2
        <5>3. CASE Buffer # 1
          <6>1. Buffer \in 2 .. Len(entries') /\ entries'[Buffer] = entries[Buffer - 1]
            BY <2>0, <2>1, <5>1, <5>3
          <6>2. entries[Buffer - 1] > entries[Buffer]
            BY <2>0, <3>0, <5>1, <5>3
          <6>3. /\ entries[Buffer] \in 1 .. MaxEntries
                /\ entries[Buffer - 1] \in 1 .. MaxEntries
            <7>1. Buffer \in 1 .. Len(entries) /\ Buffer - 1 \in 1 .. Len(entries)
              BY <2>0, <5>1, <5>3
            <7> QED BY <3>00, <7>1
          <6> QED BY <4>1, <5>1, <6>1, <6>2, <6>3
        <5> QED BY <5>2, <5>3
      <4> QED BY <3>0, <4>2, <4>3
    <3>3. CASE h \in heard /\ Len(entries) = Buffer /\ h < entries[Buffer]
      <4>1. Len(entries') = Buffer
        BY <2>0, <2>1, <3>3
      <4>2. CASE Buffer = 1
        BY <1>3, <2>1, <3>3, <4>1, <4>2
      <4>3. CASE Buffer # 1
        <5>1. Buffer \in 2 .. Len(entries') /\ entries'[Buffer] = entries[Buffer - 1]
          BY <2>0, <2>1, <4>1, <4>3
        <5>2. entries[Buffer - 1] > entries[Buffer]
          BY <2>0, <3>0, <3>3, <4>3
        <5>3. /\ entries[Buffer] \in 1 .. MaxEntries /\ h \in 1 .. MaxEntries
              /\ entries[Buffer - 1] \in 1 .. MaxEntries
          <6>1. Buffer \in 1 .. Len(entries) /\ Buffer - 1 \in 1 .. Len(entries)
            BY <2>0, <3>3, <4>3
          <6>2. h \in 1 .. MaxEntries
            BY <1>1, <3>3
          <6> QED BY <3>00, <6>1, <6>2
        <5> QED BY <3>3, <4>1, <5>1, <5>2, <5>3
      <4> QED BY <4>2, <4>3
    <3> QED BY <1>9, <2>0, <3>1, <3>2, <3>3
  <2>8. Len(entries') <= Buffer
    BY <1>1, <2>0, <2>1
  <2>9. KeptAreNewest'
    BY <2>5, <2>6, <2>7, <2>8 DEF KeptAreNewest
  <2> QED BY <1>4, <2>2, <2>3, <2>9 DEF StreamInv
<1> QED BY <1>7a, <1>8, <1>9

\* The steps of the stream but the arrival of an entry leave what is shown.
LEMMA FeedKeepsStream ==
  ASSUME StreamInv, Feed
  PROVE  StreamInv'
<1>0. /\ UNCHANGED <<es, state, scrolled, paused, entries, heard>>
      /\ sent < MaxEntries /\ sent' = sent + 1
      /\ wire' = IF es = "open" THEN Append(wire, sent + 1) ELSE wire
  BY DEF Feed
<1>1. /\ wire \in Seq(1 .. MaxEntries) /\ heard \subseteq 1 .. MaxEntries /\ sent \in 0 .. MaxEntries
      /\ \A i, j \in DOMAIN wire : i < j => wire[i] < wire[j]
      /\ \A i \in DOMAIN wire : wire[i] <= sent /\ \A e \in heard : e < wire[i]
      /\ \A e \in heard : e <= sent
      /\ \A i \in DOMAIN wire : wire[i] \in 1 .. MaxEntries
  <2>1. /\ wire \in Seq(1 .. MaxEntries) /\ heard \subseteq 1 .. MaxEntries
        /\ sent \in 0 .. MaxEntries
    BY DEF StreamInv, StreamTypeOK
  <2>2. DOMAIN wire = 1 .. Len(wire)
    BY <2>1
  <2>3. \A i \in DOMAIN wire : wire[i] \in 1 .. MaxEntries
    BY <2>1, <2>2, ElementsOf
  <2> QED BY <2>1, <2>3 DEF StreamInv, WireIsNewer
<1>2. sent + 1 \in 1 .. MaxEntries /\ sent' \in 0 .. MaxEntries /\ sent' > sent
  BY <1>0, <1>1, LogStreamAssumption
<1>3. StateIsLive' /\ KeptAreNewest'
  BY <1>0 DEF StreamInv, StateIsLive, KeptAreNewest
<1>4. CASE es # "open"
  <2>1. StreamTypeOK'
    BY <1>0, <1>2, <1>4 DEF StreamInv, StreamTypeOK
  <2>2. WireIsNewer'
    BY <1>0, <1>1, <1>2, <1>4 DEF WireIsNewer
  <2> QED BY <1>3, <2>1, <2>2 DEF StreamInv
<1>5. CASE es = "open"
  <2>1. wire' = Append(wire, sent + 1)
    BY <1>0, <1>5
  <2>2. wire' \in Seq(1 .. MaxEntries) /\ Len(wire') = Len(wire) + 1 /\ Len(wire) \in Nat
    BY <1>1, <1>2, <2>1
  <2>3. /\ wire'[Len(wire) + 1] = sent + 1
        /\ \A i \in 1 .. Len(wire) : wire'[i] = wire[i]
    BY <1>1, <1>2, <2>1
  <2>4. DOMAIN wire' = 1 .. (Len(wire) + 1) /\ DOMAIN wire = 1 .. Len(wire)
    BY <1>1, <2>2
  <2>5. StreamTypeOK'
    BY <1>0, <1>2, <2>2 DEF StreamInv, StreamTypeOK
  <2>6. \A i \in DOMAIN wire' : wire'[i] <= sent' /\ \A e \in heard' : e < wire'[i]
    <3> SUFFICES ASSUME NEW i \in 1 .. (Len(wire) + 1)
                 PROVE  wire'[i] <= sent' /\ \A e \in heard : e < wire'[i]
      BY <1>0, <2>4
    <3>1. CASE i = Len(wire) + 1
      BY <1>0, <1>1, <1>2, <2>3, <3>1
    <3>2. CASE i # Len(wire) + 1
      <4>1. i \in DOMAIN wire /\ wire'[i] = wire[i]
        BY <2>2, <2>3, <2>4, <3>2
      <4>2. wire[i] <= sent /\ wire[i] \in 1 .. MaxEntries /\ \A e \in heard : e < wire[i]
        BY <1>1, <4>1
      <4> QED BY <1>0, <1>1, <1>2, <4>1, <4>2
    <3> QED BY <3>1, <3>2
  <2>7. \A i, j \in DOMAIN wire' : i < j => wire'[i] < wire'[j]
    <3> SUFFICES ASSUME NEW i \in 1 .. (Len(wire) + 1), NEW j \in 1 .. (Len(wire) + 1), i < j
                 PROVE  wire'[i] < wire'[j]
      BY <2>4
    <3>1. i \in DOMAIN wire /\ wire'[i] = wire[i] /\ wire[i] <= sent /\ wire[i] \in 1 .. MaxEntries
      <4>1. i \in 1 .. Len(wire)
        BY <2>2
      <4> QED BY <1>1, <2>3, <2>4, <4>1
    <3>2. CASE j = Len(wire) + 1
      BY <1>1, <1>2, <2>3, <3>1, <3>2
    <3>3. CASE j # Len(wire) + 1
      <4>1. j \in 1 .. Len(wire)
        BY <2>2, <3>3
      <4> QED BY <1>1, <2>3, <2>4, <3>1, <4>1
    <3> QED BY <3>2, <3>3
  <2>8. \A e \in heard' : e <= sent'
    <3>1. \A e \in heard : e \in Nat /\ e <= sent
      BY <1>1
    <3> QED BY <1>0, <1>1, <3>1
  <2> QED BY <1>3, <2>5, <2>6, <2>7, <2>8 DEF StreamInv, WireIsNewer
<1> QED BY <1>4, <1>5

\* The steps that touch neither the wire's order nor what is kept.
LEMMA QuietKeepsStream ==
  ASSUME StreamInv, UNCHANGED <<entries, sent, heard>>, wire' \in {wire, <<>>}
  PROVE  WireIsNewer' /\ KeptAreNewest' /\ wire' \in Seq(1 .. MaxEntries)
<1>1. KeptAreNewest'
  BY DEF StreamInv, KeptAreNewest
<1>2. WireIsNewer'
  <2>1. CASE wire' = wire
    BY <2>1 DEF StreamInv, WireIsNewer
  <2>2. CASE wire' = <<>>
    BY <2>2 DEF StreamInv, WireIsNewer
  <2> QED BY <2>1, <2>2
<1>3. wire' \in Seq(1 .. MaxEntries)
  <2>1. <<>> \in Seq(1 .. MaxEntries)
    OBVIOUS
  <2> QED BY <2>1 DEF StreamInv, StreamTypeOK
<1> QED BY <1>1, <1>2, <1>3

LEMMA StreamKeepsInv ==
  ASSUME StreamInv, NEW token_ \in BOOLEAN, StreamNext(token_)
  PROVE  StreamInv'
<1> USE DEF StreamInv
<1>1. CASE Connect(token_)
  <2>1. UNCHANGED <<scrolled, paused, wire, entries, sent, heard>>
    BY <1>1 DEF Connect
  <2>2. /\ es' \in {"open", "closed", "connecting"} /\ state' \in {"connected", "reconnecting"}
        /\ state' = "connected" => es' = "open"
    BY <1>1 DEF Connect
  <2>3. WireIsNewer' /\ KeptAreNewest' /\ wire' \in Seq(1 .. MaxEntries)
    BY <2>1, QuietKeepsStream
  <2>4. StreamTypeOK' /\ StateIsLive'
    BY <2>1, <2>2 DEF StreamTypeOK, StateIsLive
  <2> QED BY <2>3, <2>4
<1>2. CASE Drop
  <2>1. /\ UNCHANGED <<scrolled, paused, entries, sent, heard>> /\ wire' = <<>>
        /\ es' = "connecting" /\ state' = "reconnecting"
    BY <1>2 DEF Drop
  <2>2. WireIsNewer' /\ KeptAreNewest' /\ wire' \in Seq(1 .. MaxEntries)
    BY <2>1, QuietKeepsStream
  <2>3. StreamTypeOK' /\ StateIsLive'
    BY <2>1, <2>2 DEF StreamTypeOK, StateIsLive
  <2> QED BY <2>2, <2>3
<1>3. CASE Scroll \/ Render
  <2>1. UNCHANGED <<es, wire, entries, sent, heard>>
    BY <1>3 DEF Scroll, Render
  <2>2. WireIsNewer' /\ KeptAreNewest'
    BY <2>1, QuietKeepsStream
  <2>3. StreamTypeOK'
    BY <1>3, <2>1 DEF Scroll, Render, StreamTypeOK
  <2>4. StateIsLive'
    BY <1>3, <2>1 DEF Scroll, Render, StateIsLive
  <2> QED BY <2>2, <2>3, <2>4
<1> QED BY <1>1, <1>2, <1>3, FeedKeepsStream, MessageKeepsStream DEF StreamNext

\* The stream keeps what it promises whatever page comes or goes.
LEMMA StreamHolds == Spec => []StreamInv
<1>1. Init => StreamInv
  <2> SUFFICES ASSUME Init PROVE StreamInv
    OBVIOUS
  <2>1. <<>> \in Seq(1 .. MaxEntries) /\ 0 \in 0 .. MaxEntries
    BY LogStreamAssumption
  <2>2. StreamTypeOK /\ StateIsLive
    BY <2>1 DEF Init, StreamInit, StreamTypeOK, StateIsLive
  <2> QED BY <2>2, EmptyStream DEF Init, StreamInit, StreamInv
<1>2. StreamInv /\ [Next]_vars => StreamInv'
  <2> SUFFICES ASSUME StreamInv, [Next]_vars PROVE StreamInv'
    OBVIOUS
  <2>1. CASE UNCHANGED streamVars
    <3>1. UNCHANGED <<es, state, scrolled, paused, wire, entries, sent, heard>>
      BY <2>1 DEF streamVars
    <3>2. StreamTypeOK' /\ StateIsLive'
      BY <3>1 DEF StreamInv, StreamTypeOK, StateIsLive
    <3> QED BY <3>1, <3>2, QuietKeepsStream DEF StreamInv
  <2>2. CASE PagesNext /\ Mounts
    BY <2>1, <2>2, MountKeepsStream DEF Mounts
  <2>3. CASE Reload
    BY <2>3, MountKeepsStream DEF Reload
  <2>4. CASE Stream
    <3>1. (session # Nobody /\ token) \in BOOLEAN
      OBVIOUS
    <3> QED BY <2>4, <3>1, StreamKeepsInv DEF Stream
  <2> QED BY <2>1, <2>2, <2>3, <2>4 DEF Next, vars
<1> QED BY <1>1, <1>2, PTL DEF Spec

\* Every reachable state of the panel is well formed.
THEOREM TypeCorrect == Spec => [](PagesTypeOK /\ StreamTypeOK)
<1>1. PagesInv /\ StreamInv => PagesTypeOK /\ StreamTypeOK
  BY DEF PagesInv, StreamInv
<1> QED BY <1>1, PagesHold, StreamHolds, PTL

\* "Live" is shown of an open connection only, through breaks, pauses and pages
\* that come and go.
THEOREM LiveMeansOpen == Spec => []LiveIsLive
<1>1. StreamInv => LiveIsLive
  BY DEF StreamInv, StateIsLive, LiveIsLive, Indicator
<1> QED BY <1>1, StreamHolds, PTL

\* The rows are the newest entries that arrived while the table was not paused,
\* newest first, and none is missing but for the cap.
THEOREM RowsAreNewest == Spec => []RowsAreTheNewest
<1>1. StreamInv => RowsAreTheNewest
  <2> SUFFICES ASSUME StreamInv PROVE RowsAreTheNewest
    OBVIOUS
  <2> DEFINE n == IF Len(entries) < Visible THEN Len(entries) ELSE Visible
  <2>1. /\ entries \in Seq(1 .. MaxEntries) /\ Len(entries) \in Nat
        /\ DOMAIN entries = 1 .. Len(entries)
        /\ Buffer \in Nat \ {0} /\ Visible \in Nat \ {0}
        /\ heard \subseteq 1 .. MaxEntries
    BY LogStreamAssumption DEF StreamInv, StreamTypeOK
  <2>2. \A k \in 1 .. Len(entries) : entries[k] \in 1 .. MaxEntries
    BY <2>1, ElementsOf
  <2>3. n \in 0 .. Len(entries)
    BY <2>1
  <2>4. Rows = SubSeq(entries, 1, n)
    BY DEF Rows
  <2>5. n \in Nat /\ (n < Len(entries) => n = Visible)
    BY <2>1, CutIs
  <2> HIDE DEF n
  <2>6. Len(Rows) = n /\ DOMAIN Rows = 1 .. n /\ \A i \in 1 .. n : Rows[i] = entries[i]
    BY <2>1, <2>3, <2>4, <2>5
  <2>7. \A i, j \in DOMAIN Rows : i < j => Rows[i] > Rows[j]
    <3>1. \A i, j \in 1 .. Len(entries) : i < j => entries[i] > entries[j]
      BY <2>1 DEF StreamInv, KeptAreNewest
    <3>2. \A i \in 1 .. n : i \in 1 .. Len(entries)
      BY <2>1, <2>3
    <3> QED BY <2>6, <3>1, <3>2
  <2>8. ASSUME NEW e \in heard
        PROVE  \/ \E i \in DOMAIN Rows : Rows[i] = e
               \/ Rows # <<>> /\ e < Rows[Len(Rows)] /\ Len(Rows) \in {Buffer, Visible}
    <3>1. CASE \E i \in DOMAIN entries : entries[i] = e
      <4>1. PICK i \in 1 .. Len(entries) : entries[i] = e
        BY <2>1, <3>1
      <4>2. CASE i <= n
        <5>1. i \in 1 .. n
          BY <2>5, <4>2
        <5> QED BY <2>6, <4>1, <5>1
      <4>3. CASE i > n
        <5>1. n = Visible /\ n \in 1 .. Len(entries) /\ n < i
          BY <2>1, <2>3, <2>5, <4>3
        <5>2. entries[n] > e
          BY <2>1, <4>1, <5>1 DEF StreamInv, KeptAreNewest
        <5>3. Rows[n] = entries[n] /\ Rows # <<>>
          BY <2>6, <5>1
        <5> QED BY <2>2, <2>6, <4>1, <5>1, <5>2, <5>3
      <4> QED BY <2>5, <4>2, <4>3
    <3>2. CASE Len(entries) = Buffer /\ e < entries[Buffer]
      <4>1. n \in 1 .. Buffer /\ n \in {Buffer, Visible} /\ Buffer \in 1 .. Len(entries)
        BY <2>1, <3>2 DEF n
      <4>2. n = Buffer \/ entries[n] > entries[Buffer]
        BY <2>1, <3>2, <4>1 DEF StreamInv, KeptAreNewest
      <4>3. entries[n] \in 1 .. MaxEntries /\ entries[Buffer] \in 1 .. MaxEntries
            /\ e \in 1 .. MaxEntries
        BY <2>1, <2>2, <3>2, <4>1
      <4>4. e < entries[n]
        BY <3>2, <4>2, <4>3
      <4>5. Rows[n] = entries[n] /\ Rows # <<>>
        BY <2>6, <4>1
      <4> QED BY <2>6, <4>1, <4>4, <4>5
    <3> QED BY <3>1, <3>2 DEF StreamInv, KeptAreNewest
  <2> QED BY <2>7, <2>8 DEF RowsAreTheNewest
<1> QED BY <1>1, StreamHolds, PTL
=============================================================================

---------------------------- MODULE KeyStepProofs ----------------------------
(***************************************************************************)
(* Proofs about KeyStep: its type correctness, that no teammate gets two   *)
(* keys and none is left without one in silence, and that it implements    *)
(* OneTimeKey.                                                             *)
(***************************************************************************)
EXTENDS KeyStep, TLAPS

-----------------------------------------------------------------------------
\* The steps by what they touch.

\* Neither a call nor the server.
PageStep ==
  \/ \E t \in {"me", "teammate"} : SwitchTab(t)
  \/ \E e \in Emails \cup {Invalid} : Fill(e)
  \/ Copy
  \/ ListWaiting

Begins == HandleGenerateMine \/ HandleAddTeammate

Travels == UsersRoute \/ KeysRoute \/ Commit \/ Replied \/ Aborted

Ends == CreateAnswered \/ IssueAnswered

Lates == \E w \in late : LateWrite(w)

Screens == {"step3", "step4", "crashed"}

LEMMA NextIsKnown ==
  ASSUME Next
  PROVE  PageStep \/ Begins \/ Travels \/ Ends \/ Lates \/ \E s \in Screens : Show(s)
BY DEF Next, PageStep, Begins, Travels, Ends, Lates, Screens, Waiting, Continue, Visit,
       FetchRejected

-----------------------------------------------------------------------------
\* Type correctness.

\* What each reply becomes.
LEMMA ProxiedSays ==
  /\ Proxied("done") = "payload" /\ Proxied("cut") = "bare"
  /\ Proxied("refused") = "error"
  /\ Proxied("notFound") = "demo" /\ Proxied("nothing") = "demo"
BY DEF Proxied

Replied5 == {"done", "cut", "refused", "notFound", "nothing"}

\* A call that moves on or is answered keeps all else.
LEMMA CallsMoveOn ==
  ASSUME TypeOK
  PROVE  /\ \A place \in {"gateway", "committed"} :
              /\ Reach(place) \in Calls /\ Reach(place).at = place
              /\ Reach(place).kind = call.kind /\ Reach(place).owner = call.owner
              /\ Reach(place).key = call.key
         /\ \A reply \in Replied5 :
              /\ Heard(reply) \in Calls /\ Heard(reply).at = "answered"
              /\ Heard(reply).kind = call.kind /\ Heard(reply).owner = call.owner
              /\ Heard(reply).key = call.key /\ Heard(reply).answer = Proxied(reply)
<1>0. call \in Calls
  BY DEF TypeOK
<1>1. ASSUME NEW place \in {"gateway", "committed"}
      PROVE  /\ Reach(place) \in Calls /\ Reach(place).at = place
             /\ Reach(place).kind = call.kind /\ Reach(place).owner = call.owner
             /\ Reach(place).key = call.key
  BY <1>0 DEF Calls, Reach
<1>2. ASSUME NEW reply \in Replied5
      PROVE  /\ Heard(reply) \in Calls /\ Heard(reply).at = "answered"
             /\ Heard(reply).kind = call.kind /\ Heard(reply).owner = call.owner
             /\ Heard(reply).key = call.key /\ Heard(reply).answer = Proxied(reply)
  <2>1. Proxied(reply) \in Answers
    BY ProxiedSays DEF Replied5, Answers
  <2> QED BY <1>0, <2>1 DEF Calls, Heard
<1> QED BY <1>1, <1>2

\* What a call looks like when it begins, is committed, or is none.
LEMMA CallsBegin ==
  ASSUME NEW kind \in {"create", "issue"}, NEW owner \in Owners
  PROVE  /\ Begun(kind, owner) \in Calls
         /\ Begun(kind, owner).kind = kind /\ Begun(kind, owner).owner = owner
         /\ Begun(kind, owner).at = "panel" /\ Begun(kind, owner).key = 0
<1>2. 0 \in 0 .. MaxKeys
  BY KeyStepAssumption DEF KeyStepAssumption
<1>3. Begun(kind, owner) \in Calls
  BY <1>2 DEF Begun, NoCall, Calls, Answers
<1> QED BY <1>3 DEF Begun, NoCall

LEMMA NoCallIsNone ==
  NoCall \in Calls /\ NoCall.kind = "none" /\ NoCall.at = "browser" /\ NoCall.key = 0
BY KeyStepAssumption DEF KeyStepAssumption, NoCall, Calls, Answers, Owners

\* What a commit does to the call and to the server.
LEMMA CommitIs ==
  ASSUME TypeOK, Commit
  PROVE  /\ call'.kind = call.kind /\ call'.owner = call.owner /\ call'.at = "committed"
         /\ call' \in Calls
         /\ \/ /\ call.kind = "create" /\ call.owner \in Emails \ users
               /\ users' = users \cup {call.owner} /\ UNCHANGED keys
               /\ call'.key = 0
            \/ /\ call.kind = "issue" /\ call.owner \in users /\ Len(keys) < MaxKeys
               /\ keys' = Append(keys, call.owner) /\ UNCHANGED users
               /\ call'.key = Len(keys) + 1
<1> DEFINE key == IF call.kind = "issue" THEN Len(keys) + 1 ELSE 0
<1>0. call \in Calls /\ Len(keys) \in Nat /\ MaxKeys \in Nat /\ Reach("committed") \in Calls
  BY KeyStepAssumption, CallsMoveOn DEF TypeOK, KeyStepAssumption
<1>1. call' = [Reach("committed") EXCEPT !.key = key]
  BY DEF Commit
<1>2. /\ Write(call.kind, call.owner)
      /\ call.at = "gateway"
  BY DEF Commit
<1>3. call.kind \in {"create", "issue"}
  BY <1>0, <1>2 DEF TypeOK, Calls
<1>4. \/ /\ call.kind = "create" /\ call.owner \in Emails \ users
         /\ users' = users \cup {call.owner} /\ UNCHANGED keys
      \/ /\ call.kind = "issue" /\ call.owner \in users /\ Len(keys) < MaxKeys
         /\ keys' = Append(keys, call.owner) /\ UNCHANGED users
  BY <1>2, <1>3 DEF Write, Creatable, Issuable
<1>5. key \in 0 .. MaxKeys
  BY <1>0, <1>4
<1> HIDE DEF key
<1>6. /\ call' \in Calls /\ call'.key = key /\ call'.at = Reach("committed").at
      /\ call'.kind = Reach("committed").kind /\ call'.owner = Reach("committed").owner
  BY <1>0, <1>1, <1>5 DEF Calls
<1>7. call'.at = "committed" /\ call'.kind = call.kind /\ call'.owner = call.owner
  BY <1>6, CallsMoveOn
<1> QED BY <1>4, <1>6, <1>7 DEF key

\* What a late write does to the server.
LEMMA LateWriteIs ==
  ASSUME TypeOK, NEW w \in late, LateWrite(w)
  PROVE  /\ late' = late \ {w} /\ UNCHANGED <<client, warned>>
         /\ \/ UNCHANGED <<users, keys>>
            \/ /\ w.kind = "create" /\ w.owner \in Emails \ users
               /\ users' = users \cup {w.owner} /\ UNCHANGED keys
            \/ /\ w.kind = "issue" /\ w.owner \in users /\ Len(keys) < MaxKeys
               /\ keys' = Append(keys, w.owner) /\ UNCHANGED users
<1>1. w.kind \in {"create", "issue"}
  BY DEF TypeOK, Writes
<1> QED BY <1>1 DEF LateWrite, Write, Creatable, Issuable

LEMMA AppendKeepsKeys ==
  ASSUME TypeOK, NEW e \in Emails, Len(keys) < MaxKeys
  PROVE  /\ Append(keys, e) \in Seq(Emails)
         /\ Len(Append(keys, e)) = Len(keys) + 1 /\ Len(keys) + 1 <= MaxKeys
         /\ DOMAIN Append(keys, e) = DOMAIN keys \cup {Len(keys) + 1}
         /\ Len(keys) + 1 \notin DOMAIN keys
         /\ \A k \in DOMAIN keys : Append(keys, e)[k] = keys[k]
         /\ Append(keys, e)[Len(keys) + 1] = e
<1>1. keys \in Seq(Emails) /\ Len(keys) \in Nat /\ MaxKeys \in Nat /\ DOMAIN keys = 1 .. Len(keys)
  BY KeyStepAssumption DEF TypeOK, KeyStepAssumption
<1> QED BY <1>1

\* What is left behind when a call is given up.
LEMMA UnheardIs ==
  ASSUME TypeOK
  PROVE  /\ Unheard \subseteq Writes
         /\ \A w \in Unheard : /\ call.at \in {"panel", "gateway"}
                               /\ w.kind = call.kind /\ w.owner = call.owner
                               /\ Pending
BY DEF TypeOK, Calls, Writes, Unheard, Pending

LEMMA TypeStep == TypeOK /\ [Next]_vars => TypeOK'
<1> SUFFICES ASSUME TypeOK, [Next]_vars PROVE TypeOK'
  OBVIOUS
<1>1. CASE UNCHANGED vars
  BY <1>1 DEF TypeOK, vars, client, server
<1>2. CASE PageStep
  BY <1>2 DEF TypeOK, PageStep, SwitchTab, Fill, Copy, ListWaiting, ListAnswered, server
<1>3. CASE Begins
  <2>1. call' \in Calls /\ (call'.kind = "none" <=> call'.at = "browser")
    <3>1. CASE HandleGenerateMine
      <4>1. Admin \in Owners
        BY DEF Owners
      <4> QED BY <3>1, <4>1, CallsBegin DEF HandleGenerateMine, Issue, TypeOK
    <3>2. CASE HandleAddTeammate
      <4>1. entry \in Owners
        BY <3>2 DEF HandleAddTeammate, TeammateValid, Owners
      <4> QED BY <3>2, <4>1, CallsBegin DEF HandleAddTeammate
    <3> QED BY <1>3, <3>1, <3>2 DEF Begins
  <2>2. alert' \in {"none", "error", "demo"}
    BY <1>3 DEF Begins, HandleGenerateMine, HandleAddTeammate, Issue, TypeOK
  <2> QED BY <1>3, <2>1, <2>2 DEF TypeOK, Begins, HandleGenerateMine, HandleAddTeammate, server
<1>4. CASE Travels
  <2>1. /\ call.kind # "none" /\ call'.kind = call.kind /\ call'.at # "browser" /\ call' \in Calls
    BY <1>4, CallsMoveOn, CommitIs
       DEF Travels, UsersRoute, KeysRoute, Replied, Aborted, Commit, Replied5, TypeOK
  <2>2. users' \subseteq Emails /\ keys' \in Seq(Emails) /\ Len(keys') <= MaxKeys
    <3>1. CASE Commit
      <4>1. users \subseteq Emails /\ keys \in Seq(Emails) /\ Len(keys) <= MaxKeys
        BY DEF TypeOK
      <4> QED BY <3>1, <4>1, CommitIs, AppendKeepsKeys
    <3>2. CASE ~Commit
      <4>1. UNCHANGED <<users, keys>>
        BY <1>4, <3>2 DEF Travels, UsersRoute, KeysRoute, Replied, Aborted, server
      <4> QED BY <4>1 DEF TypeOK
    <3> QED BY <3>1, <3>2
  <2>3. late' \subseteq Writes
    BY <1>4, UnheardIs DEF TypeOK, Travels, UsersRoute, KeysRoute, Replied, Aborted, Commit, server
  <2>4. UNCHANGED <<screen, me, tab, entry, alert, issued, copied, list, warned>>
    BY <1>4 DEF Travels, UsersRoute, KeysRoute, Replied, Aborted, Commit, Client
  <2> QED BY <2>1, <2>2, <2>3, <2>4 DEF TypeOK
<1>5. CASE Ends
  <2>0. call \in Calls /\ call.owner \in Owners
    BY DEF TypeOK, Calls
  <2>1. call' \in Calls /\ (call'.kind = "none" <=> call'.at = "browser")
    BY <1>5, <2>0, CallsBegin, NoCallIsNone
       DEF Ends, CreateAnswered, IssueAnswered, Fails, Issue
  <2>2. alert' \in {"none", "error", "demo"} /\ issued' \in 0 .. MaxKeys /\ copied' \in BOOLEAN
    BY <1>5, <2>0 DEF Ends, CreateAnswered, IssueAnswered, Fails, Issue, TypeOK, Calls
  <2>3. warned' \subseteq Owners
    BY <1>5, <2>0 DEF Ends, CreateAnswered, IssueAnswered, Fails, Issue, TypeOK
  <2>4. UNCHANGED <<screen, me, tab, entry, list, users, keys, late>>
    BY <1>5 DEF Ends, CreateAnswered, IssueAnswered, server
  <2> QED BY <2>1, <2>2, <2>3, <2>4 DEF TypeOK
<1>6. ASSUME NEW w \in late, LateWrite(w) PROVE TypeOK'
  <2>1. users' \subseteq Emails /\ keys' \in Seq(Emails) /\ Len(keys') <= MaxKeys
    <3>1. users \subseteq Emails /\ keys \in Seq(Emails) /\ Len(keys) <= MaxKeys
      BY DEF TypeOK
    <3> QED BY <1>6, <3>1, LateWriteIs, AppendKeepsKeys
  <2>2. late' \subseteq Writes /\ UNCHANGED <<client, warned>>
    BY <1>6, LateWriteIs DEF TypeOK
  <2> QED BY <2>1, <2>2 DEF TypeOK, client
<1>7. ASSUME NEW s \in Screens, Show(s) PROVE TypeOK'
  <2>1. late' \subseteq Writes
    BY <1>7, UnheardIs DEF Show, TypeOK
  <2>2. warned' \subseteq Owners
    BY <1>7 DEF Show, Concerned, TypeOK, Calls
  <2>3. 0 \in 0 .. MaxKeys
    BY KeyStepAssumption DEF KeyStepAssumption
  <2> QED BY <1>7, <2>1, <2>2, <2>3, NoCallIsNone DEF Show, TypeOK, Screens
<1> QED BY <1>1, <1>2, <1>3, <1>4, <1>5, <1>6, <1>7, NextIsKnown DEF Lates

\* The page, the calls and the rows keep their shape.
THEOREM TypeCorrect == Spec => []TypeOK
<1>1. Init => TypeOK
  <2>1. 0 \in 0 .. MaxKeys /\ MaxKeys \in Nat
    BY KeyStepAssumption DEF KeyStepAssumption
  <2> SUFFICES ASSUME Init PROVE TypeOK
    OBVIOUS
  <2>2. keys \in Seq(Emails) /\ Len(keys) <= MaxKeys
    <3>1. keys = <<>>
      BY DEF Init
    <3> QED BY <2>1, <3>1
  <2>3. call \in Calls /\ call.kind = "none" /\ call.at = "browser"
    BY NoCallIsNone DEF Init
  <2> QED BY <2>1, <2>2, <2>3 DEF Init, TypeOK
<1> QED BY <1>1, TypeStep, PTL DEF Spec

-----------------------------------------------------------------------------
\* How calls go on.

\* A call moves on, is answered by what the gateway did, or is given up.
LEMMA TravelIs ==
  ASSUME TypeOK, Travels, ~Commit
  PROVE  /\ call.kind # "none"
         /\ call'.kind = call.kind /\ call'.owner = call.owner /\ call'.key = call.key
         /\ UNCHANGED <<screen, issued, copied, users, keys, warned>>
         /\ \/ call.at = "panel" /\ call'.at = "gateway" /\ UNCHANGED late
            \/ /\ call.at = "panel" /\ call'.at = "answered" /\ call'.answer = "error"
               /\ UNCHANGED late
            \/ /\ call.at = "committed" /\ call'.at = "answered"
               /\ call'.answer \in {"payload", "bare"} /\ UNCHANGED late
            \/ /\ call.at = "gateway" /\ call'.at = "answered"
               /\ call'.answer \in {"error", "demo"} /\ UNCHANGED late
            \/ /\ call.at \in {"gateway", "committed"} /\ call'.at = "answered"
               /\ call'.answer = "demo" /\ late' = late \cup Unheard
<1>0. \A reply \in {"done", "cut", "refused", "notFound", "nothing"} : reply \in Replied5
  BY DEF Replied5
<1>1. call.kind # "none" /\ UNCHANGED <<screen, issued, copied, users, keys, warned>>
  BY DEF Travels, UsersRoute, KeysRoute, Replied, Aborted, TypeOK, Client, server
<1>2. call'.kind = call.kind /\ call'.owner = call.owner /\ call'.key = call.key
  BY <1>0, CallsMoveOn DEF Travels, UsersRoute, KeysRoute, Replied, Aborted
<1>3. CASE UsersRoute \/ KeysRoute
  BY <1>0, <1>1, <1>2, <1>3, CallsMoveOn, ProxiedSays DEF UsersRoute, KeysRoute, server
<1>4. CASE Replied
  BY <1>0, <1>1, <1>2, <1>4, CallsMoveOn, ProxiedSays DEF Replied, server
<1>5. CASE Aborted
  BY <1>0, <1>1, <1>2, <1>5, CallsMoveOn, ProxiedSays DEF Aborted
<1> QED BY <1>3, <1>4, <1>5 DEF Travels

\* An answered call ends, shows its key, or goes on to the key.
LEMMA EndIs ==
  ASSUME TypeOK, Ends
  PROVE  /\ call.at = "answered" /\ UNCHANGED <<screen, users, keys, late>>
         /\ \/ /\ call.answer # "payload"
               /\ call' = NoCall /\ warned' = warned \cup {call.owner}
               /\ UNCHANGED <<issued, copied>>
            \/ /\ call.kind = "create" /\ call.answer = "payload"
               /\ call'.kind = "issue" /\ call'.at = "panel" /\ call'.owner = call.owner
               /\ call'.key = 0
               /\ UNCHANGED <<issued, copied, warned>>
            \/ /\ call.kind = "issue" /\ call.answer = "payload"
               /\ call' = NoCall /\ issued' = call.key /\ copied' = FALSE
               /\ UNCHANGED warned
<1>0. call.owner \in Owners
  BY DEF TypeOK, Calls
<1>1. CASE CreateAnswered
  BY <1>0, <1>1, CallsBegin DEF CreateAnswered, Fails, Issue, server
<1>2. CASE IssueAnswered
  BY <1>2 DEF IssueAnswered, Fails, server
<1> QED BY <1>1, <1>2 DEF Ends

\* A call begins where none was.
LEMMA BeginIs ==
  ASSUME TypeOK, Begins
  PROVE  /\ call.kind = "none" /\ screen = "step3" /\ issued = 0
         /\ UNCHANGED <<screen, issued, copied, users, keys, late, warned>>
         /\ \/ UNCHANGED call
            \/ /\ call'.kind = "issue" /\ call'.owner = Admin
               /\ call'.at = "panel" /\ call'.key = 0
            \/ /\ call'.kind = "create" /\ call'.owner \in Emails
               /\ call'.at = "panel" /\ call'.key = 0
<1>1. CASE HandleGenerateMine
  <2>1. Admin \in Owners
    BY DEF Owners
  <2> QED BY <1>1, <2>1, CallsBegin DEF HandleGenerateMine, Issue, MinePane, Form, Pending, server
<1>2. CASE HandleAddTeammate
  <2>1. entry \in Emails /\ entry \in Owners
    BY <1>2 DEF HandleAddTeammate, TeammateValid, Owners
  <2> QED BY <1>2, <2>1, CallsBegin DEF HandleAddTeammate, TeammatePane, Form, Pending, server
<1> QED BY <1>1, <1>2 DEF Begins

\* What the page alone does.
LEMMA PageStepIs ==
  ASSUME PageStep
  PROVE  /\ UNCHANGED <<screen, call, issued, users, keys, late, warned>>
         /\ UNCHANGED copied \/ (issued # 0 /\ copied' = TRUE)
BY DEF PageStep, SwitchTab, Fill, Copy, RevealPane, ListWaiting, ListAnswered, server

-----------------------------------------------------------------------------
\* One key per teammate.

HasKey(e) == \E k \in DOMAIN keys : keys[k] = e

\* Whoever has a key, and whoever may still get one: by a write left behind, by
\* the call, or by the call that follows the one that has created the teammate.
LateIssue(e) == \E w \in late : w.kind = "issue" /\ w.owner = e
IssueOut(e)  == call.kind = "issue" /\ call.owner = e /\ call.at \in {"panel", "gateway"}
IssueNext(e) == /\ call.kind = "create" /\ call.owner = e
                /\ \/ call.at = "committed"
                   \/ call.at = "answered" /\ call.answer = "payload"

\* At most one of the four, and only for a teammate who was created.
OneOf(e) ==
  /\ HasKey(e) => e \in users /\ ~LateIssue(e) /\ ~IssueOut(e) /\ ~IssueNext(e)
  /\ LateIssue(e) => e \in users /\ ~IssueOut(e) /\ ~IssueNext(e)
  /\ IssueOut(e) \/ IssueNext(e) => e \in users

KeysInv == OneKeyPerTeammate /\ \A e \in Emails : OneOf(e)

\* A step that issues no key, creates nobody and puts nobody in line.
LEMMA NobodyInLine ==
  ASSUME KeysInv, UNCHANGED <<users, keys>>,
         \A e \in Emails :
           /\ LateIssue(e)' => LateIssue(e) \/ (IssueOut(e) /\ ~IssueOut(e)')
           /\ IssueOut(e)' => IssueOut(e) \/ (IssueNext(e) /\ ~IssueNext(e)')
           /\ IssueNext(e)' => IssueNext(e)
  PROVE  KeysInv'
<1>1. \A e \in Emails : HasKey(e)' = HasKey(e)
  BY DEF HasKey
<1>2. \A e \in Emails : ~(IssueOut(e) /\ IssueNext(e)) /\ ~(IssueOut(e)' /\ IssueNext(e)')
  BY DEF IssueOut, IssueNext
<1>3. ASSUME NEW e \in Emails PROVE OneOf(e)'
  <2>1. OneOf(e)
    BY DEF KeysInv
  <2> QED BY <1>1, <1>2, <2>1 DEF OneOf
<1>4. OneKeyPerTeammate'
  BY DEF KeysInv, OneKeyPerTeammate
<1> QED BY <1>3, <1>4 DEF KeysInv

\* A key that is issued to e out of a line in which e was alone.
LEMMA KeyOutOfLine ==
  ASSUME TypeOK, KeysInv, NEW e \in users, Len(keys) < MaxKeys, keys' = Append(keys, e),
         UNCHANGED users, ~HasKey(e),
         ~LateIssue(e)', ~IssueOut(e)', ~IssueNext(e)',
         \A f \in Emails \ {e} : /\ LateIssue(f)' => LateIssue(f)
                                 /\ IssueOut(f)' => IssueOut(f)
                                 /\ IssueNext(f)' => IssueNext(f)
  PROVE  KeysInv'
<1>0. e \in Emails /\ users \subseteq Emails
  BY DEF TypeOK
<1>1. /\ DOMAIN keys' = DOMAIN keys \cup {Len(keys) + 1} /\ Len(keys) + 1 \notin DOMAIN keys
      /\ \A k \in DOMAIN keys : keys'[k] = keys[k]
      /\ keys'[Len(keys) + 1] = e
  BY <1>0, AppendKeepsKeys
<1>2. \A f \in Emails \ {e} : HasKey(f)' => HasKey(f)
  BY <1>1 DEF HasKey
<1>3. ASSUME NEW f \in Emails PROVE OneOf(f)'
  <2>1. OneOf(f)
    BY DEF KeysInv
  <2>2. CASE f = e
    BY <2>2 DEF OneOf
  <2>3. CASE f # e
    BY <1>2, <2>1, <2>3 DEF OneOf
  <2> QED BY <2>2, <2>3
<1>4. OneKeyPerTeammate'
  <2>1. \A k \in DOMAIN keys : keys[k] # e
    BY DEF HasKey
  <2> QED BY <1>1, <2>1 DEF KeysInv, OneKeyPerTeammate
<1> QED BY <1>3, <1>4 DEF KeysInv

\* A teammate who is created, by the call or late, has no key and is in no line.
LEMMA NewTeammate ==
  ASSUME KeysInv, NEW e \in Emails \ users, users' = users \cup {e}, UNCHANGED keys,
         \A f \in Emails : /\ LateIssue(f)' => LateIssue(f)
                           /\ IssueOut(f)' => IssueOut(f)
                           /\ IssueNext(f)' => IssueNext(f) \/ f = e
  PROVE  KeysInv'
<1>1. \A f \in Emails : HasKey(f)' = HasKey(f)
  BY DEF HasKey
<1>2. ASSUME NEW f \in Emails PROVE OneOf(f)'
  <2>1. OneOf(f) /\ OneOf(e)
    BY DEF KeysInv
  <2>2. CASE f = e
    BY <1>1, <2>1, <2>2 DEF OneOf
  <2>3. CASE f # e
    BY <1>1, <2>1, <2>3 DEF OneOf
  <2> QED BY <2>2, <2>3
<1>3. OneKeyPerTeammate'
  BY DEF KeysInv, OneKeyPerTeammate
<1> QED BY <1>2, <1>3 DEF KeysInv

LEMMA KeysStep == TypeOK /\ KeysInv /\ [Next]_vars => KeysInv'
<1> SUFFICES ASSUME TypeOK, KeysInv, [Next]_vars PROVE KeysInv'
  OBVIOUS
<1>0. Admin \notin Emails /\ NoCall.kind = "none"
  BY KeyStepAssumption, NoCallIsNone DEF KeyStepAssumption
<1>1. CASE PageStep \/ UNCHANGED vars
  <2>1. UNCHANGED <<call, users, keys, late>>
    BY <1>1, PageStepIs DEF vars, client, server
  <2>2. \A e \in Emails : /\ LateIssue(e)' = LateIssue(e)
                          /\ IssueOut(e)' = IssueOut(e) /\ IssueNext(e)' = IssueNext(e)
    BY <2>1 DEF LateIssue, IssueOut, IssueNext
  <2> QED BY <2>1, <2>2, NobodyInLine
<1>2. CASE Begins
  <2>1. \A e \in Emails : /\ LateIssue(e)' = LateIssue(e)
                          /\ IssueOut(e)' => IssueOut(e)
                          /\ IssueNext(e)' => IssueNext(e)
    BY <1>0, <1>2, BeginIs DEF LateIssue, IssueOut, IssueNext
  <2> QED BY <1>2, <2>1, NobodyInLine, BeginIs
<1>3. CASE Travels /\ ~Commit
  <2>1. ASSUME NEW e \in Emails
        PROVE  /\ LateIssue(e)' => LateIssue(e) \/ (IssueOut(e) /\ ~IssueOut(e)')
               /\ IssueOut(e)' => IssueOut(e)
               /\ IssueNext(e)' => IssueNext(e)
    BY <1>3, TravelIs, UnheardIs DEF LateIssue, IssueOut, IssueNext
  <2> QED BY <1>3, <2>1, NobodyInLine, TravelIs
<1>4. CASE Commit
  <2>1. UNCHANGED late /\ call.at = "gateway"
    BY <1>4 DEF Commit
  <2>2. \A f \in Emails : /\ LateIssue(f)' = LateIssue(f)
                          /\ ~IssueOut(f)'
                          /\ IssueNext(f)' => call.kind = "create" /\ f = call.owner
    BY <1>4, <2>1, CommitIs DEF LateIssue, IssueOut, IssueNext
  <2>3. CASE call.kind = "create"
    BY <1>4, <2>2, <2>3, CommitIs, NewTeammate
  <2>4. CASE call.kind # "create"
    <3> DEFINE e == call.owner
    <3>1. /\ e \in users /\ e \in Emails /\ Len(keys) < MaxKeys
          /\ keys' = Append(keys, e) /\ UNCHANGED users /\ call.kind = "issue"
      BY <1>4, <2>4, CommitIs DEF TypeOK
    <3>2. IssueOut(e) /\ OneOf(e)
      BY <2>1, <3>1 DEF IssueOut, KeysInv
    <3>3. ~HasKey(e) /\ ~LateIssue(e)
      BY <3>2 DEF OneOf
    <3> HIDE DEF e
    <3> QED BY <2>2, <2>4, <3>1, <3>3, KeyOutOfLine
  <2> QED BY <2>3, <2>4
<1>5. CASE Ends
  <2>1. ASSUME NEW e \in Emails
        PROVE  /\ LateIssue(e)' => LateIssue(e)
               /\ IssueOut(e)' => IssueNext(e)
               /\ ~IssueNext(e)'
    BY <1>0, <1>5, EndIs DEF LateIssue, IssueOut, IssueNext
  <2> QED BY <1>5, <2>1, NobodyInLine, EndIs
<1>6. ASSUME NEW w \in late, LateWrite(w) PROVE KeysInv'
  <2>1. late' = late \ {w} /\ UNCHANGED call /\ late \subseteq Writes
    BY <1>6, LateWriteIs DEF client, TypeOK
  <2>2. \A f \in Emails : /\ LateIssue(f)' => LateIssue(f)
                          /\ IssueOut(f)' = IssueOut(f) /\ IssueNext(f)' = IssueNext(f)
    BY <2>1 DEF LateIssue, IssueOut, IssueNext
  <2>3. CASE UNCHANGED <<users, keys>>
    BY <2>2, <2>3, NobodyInLine
  <2>4. CASE w.kind = "create" /\ ~UNCHANGED <<users, keys>>
    BY <1>6, <2>2, <2>4, LateWriteIs, NewTeammate
  <2>5. CASE w.kind # "create" /\ ~UNCHANGED <<users, keys>>
    <3> DEFINE e == w.owner
    <3>1. /\ e \in users /\ e \in Emails /\ Len(keys) < MaxKeys
          /\ keys' = Append(keys, e) /\ UNCHANGED users /\ w.kind = "issue"
      BY <1>6, <2>5, LateWriteIs DEF TypeOK
    <3>2. LateIssue(e) /\ OneOf(e)
      BY <3>1 DEF LateIssue, KeysInv
    <3>3. ~HasKey(e) /\ ~IssueOut(e) /\ ~IssueNext(e)
      BY <3>2 DEF OneOf
    <3>4. ~LateIssue(e)'
      BY <2>1, <3>1 DEF LateIssue, Writes
    <3> HIDE DEF e
    <3> QED BY <2>2, <3>1, <3>3, <3>4, KeyOutOfLine
  <2> QED BY <2>3, <2>4, <2>5
<1>7. ASSUME NEW s, Show(s) PROVE KeysInv'
  <2>1. /\ call' = NoCall /\ late' = late \cup Unheard /\ UNCHANGED <<users, keys>>
    BY <1>7 DEF Show
  <2>2. ASSUME NEW e \in Emails
        PROVE  /\ LateIssue(e)' => LateIssue(e) \/ (IssueOut(e) /\ ~IssueOut(e)')
               /\ ~IssueOut(e)' /\ ~IssueNext(e)'
    BY <1>0, <2>1, UnheardIs DEF LateIssue, IssueOut, IssueNext
  <2> QED BY <2>1, <2>2, NobodyInLine
<1> QED BY <1>1, <1>2, <1>3, <1>4, <1>5, <1>6, <1>7, NextIsKnown DEF Lates

LEMMA KeysStay == Spec => []KeysInv
<1>1. Init => KeysInv
  BY DEF Init, KeysInv, OneKeyPerTeammate, OneOf, HasKey, LateIssue, IssueOut, IssueNext, NoCall
<1> QED BY <1>1, KeysStep, TypeCorrect, PTL DEF Spec

\* For any teammates: however often the operator retries, and whatever commits
\* after the panel has given up, nobody is issued two keys.
THEOREM OneKeyEach == Spec => []OneKeyPerTeammate
<1>1. KeysInv => OneKeyPerTeammate
  BY DEF KeysInv
<1> QED BY <1>1, KeysStay, PTL

-----------------------------------------------------------------------------
\* Where the key of the call and the key on the screen are.

\* The page waits or shows a key, never both; a call knows its key from the commit
\* to its end, and only then.
KeysInHand ==
  /\ call.kind # "none" => screen = "step3" /\ issued = 0
  /\ issued # 0 => screen = "step3"
  /\ issued = 0 => copied = FALSE
  /\ issued <= Len(keys) /\ call.key <= Len(keys)
  /\ call.kind # "issue" \/ call.at \in {"panel", "gateway"} => call.key = 0
  /\ call.key # 0 => keys[call.key] = call.owner
  /\ call.kind = "issue" /\ call.at = "answered" /\ call.answer = "payload" => call.key # 0
  /\ call.kind = "issue" /\ call.at = "committed" => call.key # 0

LEMMA KeysInHandStep == TypeOK /\ KeysInHand /\ [Next]_vars => KeysInHand'
<1> SUFFICES ASSUME TypeOK, KeysInHand, [Next]_vars PROVE KeysInHand'
  OBVIOUS
<1>0. /\ keys \in Seq(Emails) /\ Len(keys) \in Nat /\ DOMAIN keys = 1 .. Len(keys)
      /\ issued \in Nat /\ call.key \in Nat /\ MaxKeys \in Nat
  BY KeyStepAssumption DEF TypeOK, Calls, KeyStepAssumption
<1>1. CASE PageStep \/ UNCHANGED vars
  <2>1. /\ UNCHANGED <<screen, call, issued, keys>>
        /\ UNCHANGED copied \/ issued # 0
    BY <1>1, PageStepIs DEF vars, client, server
  <2> QED BY <2>1 DEF KeysInHand
<1>2. CASE Begins
  <2>1. CASE UNCHANGED call
    BY <1>2, <2>1, BeginIs DEF KeysInHand
  <2>2. CASE ~UNCHANGED call
    BY <1>0, <1>2, <2>2, BeginIs DEF KeysInHand
  <2> QED BY <2>1, <2>2
<1>3. CASE Travels /\ ~Commit
  <2>1. /\ call.kind # "none" /\ call'.kind = call.kind /\ call'.owner = call.owner
        /\ call'.key = call.key /\ UNCHANGED <<screen, issued, copied, keys>>
    BY <1>3, TravelIs
  <2>2. /\ call'.at \in {"panel", "gateway"} => call.at \in {"panel", "gateway"}
        /\ call'.at # "committed"
        /\ call'.at = "answered" /\ call'.answer = "payload" => call.at = "committed"
    BY <1>3, TravelIs
  <2> QED BY <2>1, <2>2 DEF KeysInHand
<1>4. CASE Commit
  <2>1. UNCHANGED <<screen, issued, copied>> /\ call.at = "gateway" /\ call.kind # "none"
    BY <1>4 DEF Commit, Client, TypeOK
  <2>2. CASE call.kind = "create"
    BY <1>0, <1>4, <2>1, <2>2, CommitIs DEF KeysInHand
  <2>3. CASE call.kind # "create"
    <3>1. /\ call.owner \in Emails /\ Len(keys) < MaxKeys /\ keys' = Append(keys, call.owner)
          /\ call'.key = Len(keys) + 1 /\ call'.kind = "issue" /\ call'.owner = call.owner
          /\ call'.at = "committed"
      BY <1>4, <2>3, CommitIs DEF TypeOK
    <3>2. Len(keys') = Len(keys) + 1 /\ keys'[Len(keys) + 1] = call.owner
      BY <3>1, AppendKeepsKeys
    <3> QED BY <1>0, <2>1, <3>1, <3>2 DEF KeysInHand
  <2> QED BY <2>2, <2>3
<1>5. CASE Ends
  <2>0. call.kind # "none" /\ screen = "step3" /\ issued = 0
    BY <1>5, EndIs DEF TypeOK, KeysInHand
  <2>1. CASE call.answer # "payload"
    BY <1>0, <1>5, <2>0, <2>1, EndIs, NoCallIsNone DEF KeysInHand
  <2>2. CASE call.kind = "create" /\ call.answer = "payload"
    BY <1>0, <1>5, <2>0, <2>2, EndIs DEF KeysInHand
  <2>3. CASE call.kind = "issue" /\ call.answer = "payload"
    BY <1>0, <1>5, <2>0, <2>3, EndIs, NoCallIsNone DEF KeysInHand
  <2> QED BY <1>5, <2>1, <2>2, <2>3, EndIs
<1>6. ASSUME NEW w \in late, LateWrite(w) PROVE KeysInHand'
  <2>1. UNCHANGED <<screen, call, issued, copied>>
    BY <1>6, LateWriteIs DEF client
  <2>2. Len(keys) <= Len(keys') /\ \A k \in DOMAIN keys : keys'[k] = keys[k]
    <3>1. users \subseteq Emails
      BY DEF TypeOK
    <3> QED BY <1>0, <1>6, <3>1, LateWriteIs, AppendKeepsKeys
  <2>3. Len(keys') \in Nat
    BY <1>6, TypeStep DEF TypeOK, Next
  <2>4. call.key # 0 => call.key \in DOMAIN keys
    BY <1>0 DEF KeysInHand
  <2>5. issued <= Len(keys') /\ call.key <= Len(keys')
    BY <1>0, <2>2, <2>3 DEF KeysInHand
  <2> QED BY <2>1, <2>2, <2>4, <2>5 DEF KeysInHand
<1>7. ASSUME NEW s, Show(s) PROVE KeysInHand'
  <2>1. /\ call' = NoCall /\ issued' = 0 /\ copied' = FALSE /\ UNCHANGED keys
    BY <1>7 DEF Show
  <2> QED BY <1>0, <2>1, NoCallIsNone DEF KeysInHand
<1> QED BY <1>1, <1>2, <1>3, <1>4, <1>5, <1>6, <1>7, NextIsKnown DEF Lates

LEMMA KeysInHandStays == Spec => []KeysInHand
<1>1. Init => KeysInHand
  BY DEF Init, KeysInHand, NoCall
<1> QED BY <1>1, KeysInHandStep, TypeCorrect, PTL DEF Spec

-----------------------------------------------------------------------------
\* Nobody is stranded.

\* A write that is left behind is one the user was told of, or is about to be.
LateIsKnown ==
  \A w \in late : \/ w.owner \in warned
                 \/ /\ call.kind # "none" /\ call.owner = w.owner
                    /\ call.at = "answered" /\ call.answer = "demo"

Served(e) == \/ e \in warned
             \/ call.kind # "none" /\ call.owner = e
             \/ HasKey(e)

StrandInv == LateIsKnown /\ \A e \in users : Served(e)

LEMMA StrandStep == TypeOK /\ KeysInHand /\ StrandInv /\ [Next]_vars => StrandInv'
<1> SUFFICES ASSUME TypeOK, KeysInHand, StrandInv, [Next]_vars PROVE StrandInv'
  OBVIOUS
<1>0. keys \in Seq(Emails) /\ Len(keys) \in Nat /\ DOMAIN keys = 1 .. Len(keys)
      /\ users \subseteq Emails /\ call.key \in Nat
  BY DEF TypeOK, Calls
<1>1. CASE PageStep \/ UNCHANGED vars
  <2>1. UNCHANGED <<call, users, keys, late, warned>>
    BY <1>1, PageStepIs DEF vars, client, server
  <2> QED BY <2>1 DEF StrandInv, LateIsKnown, Served, HasKey
<1>2. CASE Begins
  <2>1. call.kind = "none" /\ UNCHANGED <<users, keys, late, warned>>
    BY <1>2, BeginIs
  <2> QED BY <2>1 DEF StrandInv, LateIsKnown, Served, HasKey
<1>3. CASE Travels /\ ~Commit
  <2>1. /\ call.kind # "none" /\ call'.kind = call.kind /\ call'.owner = call.owner
        /\ UNCHANGED <<users, keys, warned>> /\ call.at # "answered"
    BY <1>3, TravelIs
  <2>2. \A w \in late : w.owner \in warned
    BY <2>1 DEF StrandInv, LateIsKnown
  <2>3. LateIsKnown'
    BY <1>3, <2>1, <2>2, TravelIs, UnheardIs DEF LateIsKnown
  <2> QED BY <2>1, <2>3 DEF StrandInv, Served, HasKey
<1>4. CASE Commit
  <2>1. /\ UNCHANGED <<late, warned>> /\ call.at = "gateway"
        /\ call'.kind = call.kind /\ call'.owner = call.owner /\ call.kind # "none"
    BY <1>4, CommitIs DEF Commit, TypeOK
  <2>2. \A w \in late : w.owner \in warned
    BY <2>1 DEF StrandInv, LateIsKnown
  <2>3. users' \subseteq users \cup {call.owner} /\ \A e : HasKey(e) => HasKey(e)'
    BY <1>4, CommitIs, AppendKeepsKeys, <1>0 DEF HasKey
  <2> QED BY <2>1, <2>2, <2>3 DEF StrandInv, LateIsKnown, Served
<1>5. CASE Ends
  <2>0. call.at = "answered" /\ call.kind # "none" /\ UNCHANGED <<users, keys, late>>
    BY <1>5, EndIs DEF TypeOK
  <2>1. CASE call.answer # "payload"
    <3>1. warned' = warned \cup {call.owner}
      BY <1>5, <2>1, EndIs
    <3> QED BY <2>0, <3>1 DEF StrandInv, LateIsKnown, Served, HasKey
  <2>2. CASE call.kind = "create" /\ call.answer = "payload"
    <3>1. call'.kind = "issue" /\ call'.owner = call.owner /\ UNCHANGED warned
      BY <1>5, <2>2, EndIs
    <3>2. \A w \in late : w.owner \in warned
      BY <2>2 DEF StrandInv, LateIsKnown
    <3> QED BY <2>0, <3>1, <3>2 DEF StrandInv, LateIsKnown, Served, HasKey
  <2>3. CASE call.kind = "issue" /\ call.answer = "payload"
    <3>1. UNCHANGED warned
      BY <1>5, <2>3, EndIs
    <3>2. \A w \in late : w.owner \in warned
      BY <2>3 DEF StrandInv, LateIsKnown
    <3>3. HasKey(call.owner)
      BY <1>0, <2>0, <2>3 DEF HasKey, KeysInHand
    <3> QED BY <2>0, <3>1, <3>2, <3>3 DEF StrandInv, LateIsKnown, Served, HasKey
  <2> QED BY <1>5, <2>1, <2>2, <2>3, EndIs
<1>6. ASSUME NEW w \in late, LateWrite(w) PROVE StrandInv'
  <2>1. UNCHANGED <<call, warned>> /\ late' \subseteq late
    BY <1>6, LateWriteIs DEF client
  <2>2. users' \subseteq users \cup {w.owner} /\ \A e : HasKey(e) => HasKey(e)'
    BY <1>0, <1>6, LateWriteIs, AppendKeepsKeys DEF HasKey
  <2>3. w.owner \in warned \/ (call.kind # "none" /\ call.owner = w.owner)
    BY DEF StrandInv, LateIsKnown
  <2> QED BY <2>1, <2>2, <2>3 DEF StrandInv, LateIsKnown, Served
<1>7. ASSUME NEW s, Show(s) PROVE StrandInv'
  <2>1. /\ late' = late \cup Unheard /\ UNCHANGED <<users, keys>>
        /\ warned' = warned \cup Concerned
    BY <1>7 DEF Show
  <2>2. call.kind # "none" => call.owner \in warned'
    BY <2>1 DEF Concerned, Pending
  <2>3. \A w \in Unheard : w.owner = call.owner /\ call.kind # "none"
    BY UnheardIs DEF Pending
  <2>4. LateIsKnown'
    BY <2>1, <2>2, <2>3 DEF StrandInv, LateIsKnown
  <2> QED BY <2>1, <2>2, <2>4 DEF StrandInv, Served, HasKey
<1> QED BY <1>1, <1>2, <1>3, <1>4, <1>5, <1>6, <1>7, NextIsKnown DEF Lates

\* For any teammates: whoever was created has a key or had one, or is waited for,
\* or the operator knows that a call for them has failed.
THEOREM NobodyIsStranded == Spec => []NobodyStranded
<1>1. Init => StrandInv
  BY DEF Init, StrandInv, LateIsKnown
<1>2. StrandInv => NobodyStranded
  BY DEF StrandInv, Served, HasKey, NobodyStranded, Pending
<1> QED BY <1>1, <1>2, StrandStep, TypeCorrect, KeysInHandStays, PTL DEF Spec

-----------------------------------------------------------------------------
\* The refinement of OneTimeKey.

\* The variables of OneTimeKey, as KeyStep has them.
Fated == [k \in 1 .. MaxKeys |-> Fate(k)]

Ahead == screen = "step4"

LEMMA FateIs ==
  ASSUME NEW k
  PROVE  /\ k \notin DOMAIN keys => Fate(k) = "unissued"
         /\ k \in DOMAIN keys /\ issued = k => Fate(k) = "shown"
         /\ k \in DOMAIN keys /\ issued # k /\ call.key = k => Fate(k) = "underway"
         /\ k \in DOMAIN keys /\ issued # k /\ call.key # k => Fate(k) = "gone"
BY DEF Fate

LEMMA FateWillBe ==
  ASSUME NEW k
  PROVE  /\ k \notin DOMAIN keys' => Fate(k)' = "unissued"
         /\ k \in DOMAIN keys' /\ issued' = k => Fate(k)' = "shown"
         /\ k \in DOMAIN keys' /\ issued' # k /\ call'.key = k => Fate(k)' = "underway"
         /\ k \in DOMAIN keys' /\ issued' # k /\ call'.key # k => Fate(k)' = "gone"
BY DEF Fate

\* Fates change one by one.
LEMMA FatesBecome ==
  ASSUME NEW k \in 1 .. MaxKeys, NEW what, Fate(k)' = what,
         \A j \in 1 .. MaxKeys : j # k => Fate(j)' = Fate(j)
  PROVE  Fated' = [Fated EXCEPT ![k] = what]
BY DEF Fated

\* A step that moves no key.
LEMMA KeyStaysWhereItIs ==
  ASSUME UNCHANGED <<screen, issued, copied, keys>>, call'.key = call.key
  PROVE  UNCHANGED OTK!vars
<1>1. \A k \in 1 .. MaxKeys : Fate(k)' = Fate(k)
  BY DEF Fate
<1>2. Fated' = Fated
  BY <1>1 DEF Fated
<1>3. Ahead' = Ahead
  BY DEF Ahead
<1> QED BY <1>2, <1>3 DEF OTK!vars, Fated, Ahead

LEMMA KeyIsIssued ==
  ASSUME TypeOK, KeysInHand, NEW e \in Emails, Len(keys) < MaxKeys, keys' = Append(keys, e),
         UNCHANGED <<screen, issued, copied>>,
         call'.key = call.key \/ (call.key = 0 /\ call'.key = Len(keys) + 1)
  PROVE  OTK!Next
<1>0. /\ Len(keys) \in Nat /\ DOMAIN keys = 1 .. Len(keys) /\ MaxKeys \in Nat
      /\ issued \in Nat /\ call.key \in Nat
      /\ issued <= Len(keys) /\ call.key <= Len(keys)
  BY KeyStepAssumption DEF KeyStepAssumption, TypeOK, Calls, KeysInHand
<1>k. PICK k \in 1 .. MaxKeys : k = Len(keys) + 1
  BY <1>0
<1>1. DOMAIN keys' = DOMAIN keys \cup {k}
  BY <1>k, AppendKeepsKeys
<1>2. k \in 1 .. MaxKeys /\ k \notin DOMAIN keys /\ k # issued /\ k # call.key /\ k # 0
  BY <1>0, <1>k
<1>3. Fate(k) = "unissued"
  BY <1>2, FateIs
<1>4. Fate(k)' \in {"underway", "gone"}
  BY <1>1, <1>2, FateWillBe
<1>5. ASSUME NEW j \in 1 .. MaxKeys, j # k PROVE Fate(j)' = Fate(j)
  <2>1. j \in DOMAIN keys' <=> j \in DOMAIN keys
    BY <1>1, <1>5
  <2>2. issued' = j <=> issued = j
    OBVIOUS
  <2>3. call'.key = j <=> call.key = j
    BY <1>5, <1>k
  <2> QED BY <2>1, <2>2, <2>3, FateIs, FateWillBe
<1>6. PICK what \in {"underway", "gone"} : Fate(k)' = what
  BY <1>4
<1>7. Fated' = [Fated EXCEPT ![k] = what] /\ Fated[k] = "unissued"
  BY <1>2, <1>3, <1>5, <1>6, FatesBecome DEF Fated
<1>8. Ahead' = Ahead /\ copied' = copied
  BY DEF Ahead
<1>9. OTK!Issue(k)
  BY <1>7, <1>8 DEF OTK!Issue, OTK!Becomes, Fated, Ahead
<1> QED BY <1>2, <1>9 DEF OTK!Next, OTK!Keys

\* The page waits: no key is shown.
LEMMA NothingShown ==
  ASSUME TypeOK, issued = 0
  PROVE  OTK!Shown = {}
<1>1. DOMAIN keys = 1 .. Len(keys) /\ Len(keys) \in Nat /\ MaxKeys \in Nat
  BY KeyStepAssumption DEF TypeOK, KeyStepAssumption
<1>2. \A k \in 1 .. MaxKeys : Fate(k) # "shown"
  BY <1>1, FateIs
<1> QED BY <1>2 DEF OTK!Shown, OTK!Keys

LEMMA KeyIsShown ==
  ASSUME TypeOK, KeysInHand, issued = 0, call.key # 0, issued' = call.key, call'.key = 0,
         copied' = FALSE, UNCHANGED <<screen, keys>>
  PROVE  OTK!Next
<1>0. /\ Len(keys) \in Nat /\ DOMAIN keys = 1 .. Len(keys) /\ MaxKeys \in Nat
      /\ Len(keys) <= MaxKeys /\ call.key \in Nat /\ call.key <= Len(keys)
  BY KeyStepAssumption DEF KeyStepAssumption, TypeOK, Calls, KeysInHand
<1>k. PICK k \in 1 .. MaxKeys : k = call.key
  BY <1>0
<1>1. k \in DOMAIN keys /\ k # 0
  BY <1>0, <1>k
<1>2. Fate(k) = "underway" /\ Fate(k)' = "shown"
  BY <1>k, <1>1, FateIs, FateWillBe
<1>3. \A j \in 1 .. MaxKeys : j # k => Fate(j)' = Fate(j)
  <2> SUFFICES ASSUME NEW j \in 1 .. MaxKeys, j # k PROVE Fate(j)' = Fate(j)
    OBVIOUS
  <2>1. j # issued' /\ j # call'.key /\ j # issued /\ j # call.key
    BY <1>k
  <2> QED BY <2>1, FateIs, FateWillBe
<1>4. Fated' = [Fated EXCEPT ![k] = "shown"] /\ Fated[k] = "underway"
  BY <1>1, <1>2, <1>3, FatesBecome DEF Fated
<1>5. OTK!Show(k)
  BY <1>4, NothingShown DEF OTK!Show, OTK!Becomes, Fated
<1> QED BY <1>1, <1>5 DEF OTK!Next, OTK!Keys

\* What the page shows or waits for is gone with it.
LEMMA KeyIsLost ==
  ASSUME TypeOK, KeysInHand, issued' = 0, call'.key = 0, copied' = FALSE, UNCHANGED keys,
         screen' # "step4"
  PROVE  OTK!Next
<1> DEFINE K == {k \in 1 .. MaxKeys : Fate(k) \in {"underway", "shown"}}
<1>0. /\ Len(keys) \in Nat /\ DOMAIN keys = 1 .. Len(keys) /\ MaxKeys \in Nat
      /\ Len(keys) <= MaxKeys /\ issued \in Nat /\ issued <= Len(keys)
  BY KeyStepAssumption DEF KeyStepAssumption, TypeOK, KeysInHand
<1>1. \A k \in 1 .. MaxKeys : Fate(k)' = IF k \in K THEN "gone" ELSE Fate(k)
  <2> SUFFICES ASSUME NEW k \in 1 .. MaxKeys
               PROVE  Fate(k)' = IF k \in K THEN "gone" ELSE Fate(k)
    OBVIOUS
  <2>1. k # issued' /\ k # call'.key
    BY <1>0
  <2>2. CASE k \notin DOMAIN keys
    BY <2>2, FateIs, FateWillBe
  <2>3. CASE k \in DOMAIN keys
    <3>1. Fate(k)' = "gone"
      BY <2>1, <2>3, FateWillBe
    <3>2. k \in K \/ Fate(k) = "gone"
      BY <2>3, FateIs
    <3> QED BY <3>1, <3>2
  <2> QED BY <2>2, <2>3
<1>2. copied => issued \in K /\ Fate(issued) = "shown"
  <2>1. copied => issued # 0
    BY DEF KeysInHand
  <2> QED BY <1>0, <2>1, FateIs
<1>3. K \subseteq {k \in OTK!Keys : Fated[k] \in {"underway", "shown"}}
  BY DEF OTK!Keys, Fated
<1>4. Fated' = [k \in OTK!Keys |-> IF k \in K THEN "gone" ELSE Fated[k]]
  BY <1>1 DEF OTK!Keys, Fated
<1>5. copied' = (copied /\ K \cap OTK!Shown = {})
  <2>1. copied => issued \in K \cap OTK!Shown
    BY <1>2 DEF OTK!Shown, OTK!Keys
  <2>2. copied \in BOOLEAN
    BY DEF TypeOK
  <2> HIDE DEF K
  <2> QED BY <2>1, <2>2
<1>6. Ahead' = FALSE
  BY DEF Ahead
<1>7. K \in SUBSET OTK!Keys
  BY DEF OTK!Keys
<1> HIDE DEF K
<1>8. OTK!Lose(K)
  BY <1>3, <1>4, <1>5, <1>6 DEF OTK!Lose, Fated, Ahead
<1> QED BY <1>7, <1>8 DEF OTK!Next

\* Continue.
LEMMA KeyIsLeft ==
  ASSUME TypeOK, KeysInHand, Continue
  PROVE  OTK!Next
<1>0. /\ Len(keys) \in Nat /\ DOMAIN keys = 1 .. Len(keys) /\ MaxKeys \in Nat
      /\ Len(keys) <= MaxKeys /\ issued \in Nat /\ issued <= Len(keys) /\ issued # 0
      /\ copied
  BY KeyStepAssumption DEF KeyStepAssumption, TypeOK, KeysInHand, Continue
<1>1. /\ issued' = 0 /\ call'.key = 0 /\ copied' = FALSE /\ UNCHANGED keys /\ screen' = "step4"
  BY NoCallIsNone DEF Continue, Show
<1>2. call.key = 0
  BY <1>0 DEF KeysInHand
<1>3. issued \in DOMAIN keys /\ issued \in 1 .. MaxKeys
  BY <1>0
<1>4. OTK!Shown = {issued}
  <2>1. \A k \in 1 .. MaxKeys : Fate(k) = "shown" <=> k = issued
    BY <1>3, FateIs
  <2> QED BY <1>3, <2>1 DEF OTK!Shown, OTK!Keys
<1>5. \A k \in 1 .. MaxKeys : Fate(k)' = IF k = issued THEN "gone" ELSE Fate(k)
  <2> SUFFICES ASSUME NEW k \in 1 .. MaxKeys
               PROVE  Fate(k)' = IF k = issued THEN "gone" ELSE Fate(k)
    OBVIOUS
  <2>1. k # 0
    OBVIOUS
  <2>2. CASE k = issued
    BY <1>1, <1>3, <2>1, <2>2, FateWillBe
  <2>3. CASE k # issued
    BY <1>1, <1>2, <2>1, <2>3, FateIs, FateWillBe
  <2> QED BY <2>2, <2>3
<1>6. Fated' = [k \in OTK!Keys |-> IF k \in OTK!Shown THEN "gone" ELSE Fated[k]]
  BY <1>4, <1>5 DEF OTK!Keys, Fated
<1>7. Ahead' = TRUE
  BY <1>1 DEF Ahead
<1>8. OTK!Advance
  BY <1>0, <1>1, <1>4, <1>6, <1>7 DEF OTK!Advance, Fated, Ahead
<1> QED BY <1>8 DEF OTK!Next

LEMMA KeyIsCopied ==
  ASSUME TypeOK, KeysInHand, Copy
  PROVE  OTK!Next
<1>0. /\ DOMAIN keys = 1 .. Len(keys) /\ Len(keys) \in Nat /\ MaxKeys \in Nat
      /\ Len(keys) <= MaxKeys /\ issued \in Nat /\ issued <= Len(keys) /\ issued # 0
  BY KeyStepAssumption DEF KeyStepAssumption, TypeOK, KeysInHand, Copy, RevealPane
<1>1. issued \in DOMAIN keys /\ issued \in 1 .. MaxKeys
  BY <1>0
<1>2. OTK!Shown # {}
  BY <1>1, FateIs DEF OTK!Shown, OTK!Keys
<1>3. copied' = TRUE /\ UNCHANGED <<screen, issued, call, keys>>
  BY DEF Copy, server
<1>4. Fated' = Fated /\ Ahead' = Ahead
  <2>1. \A k \in 1 .. MaxKeys : Fate(k)' = Fate(k)
    BY <1>3 DEF Fate
  <2> QED BY <1>3, <2>1 DEF Fated, Ahead
<1>5. OTK!Copy
  BY <1>2, <1>3, <1>4 DEF OTK!Copy, Fated, Ahead
<1> QED BY <1>5 DEF OTK!Next

LEMMA RefinementStep ==
  TypeOK /\ KeysInHand /\ [Next]_vars => [OTK!Next]_(OTK!vars)
<1> SUFFICES ASSUME TypeOK, KeysInHand, [Next]_vars
             PROVE  OTK!Next \/ UNCHANGED OTK!vars
  OBVIOUS
<1>0. users \subseteq Emails /\ call.key \in Nat /\ issued \in Nat
  BY DEF TypeOK, Calls
<1>1. CASE UNCHANGED vars
  BY <1>1, KeyStaysWhereItIs DEF vars, client, server
<1>2. CASE PageStep
  <2>1. CASE Copy
    BY <2>1, KeyIsCopied
  <2>2. CASE ~Copy
    <3>1. UNCHANGED <<screen, issued, copied, keys, call>>
      BY <1>2, <2>2 DEF PageStep, SwitchTab, Fill, ListWaiting, ListAnswered, server
    <3> QED BY <3>1, KeyStaysWhereItIs
  <2> QED BY <2>1, <2>2
<1>3. CASE Begins
  <2>1. call.key = 0 /\ call'.key = 0
    BY <1>3, BeginIs DEF KeysInHand
  <2> QED BY <1>3, <2>1, BeginIs, KeyStaysWhereItIs
<1>4. CASE Travels /\ ~Commit
  BY <1>4, TravelIs, KeyStaysWhereItIs
<1>5. CASE Commit
  <2>1. UNCHANGED <<screen, issued, copied>> /\ call.at = "gateway" /\ call.key = 0
    BY <1>5 DEF Commit, Client, KeysInHand
  <2>2. CASE call.kind = "create"
    BY <1>5, <2>1, <2>2, CommitIs, KeyStaysWhereItIs
  <2>3. CASE call.kind # "create"
    BY <1>0, <1>5, <2>1, <2>3, CommitIs, KeyIsIssued
  <2> QED BY <2>2, <2>3
<1>6. CASE Ends
  <2>0. call.kind # "none" /\ screen = "step3" /\ issued = 0 /\ copied = FALSE
    BY <1>6, EndIs DEF TypeOK, KeysInHand
  <2>1. CASE call.answer # "payload"
    BY <1>6, <2>0, <2>1, EndIs, NoCallIsNone, KeyIsLost
  <2>2. CASE call.kind = "create" /\ call.answer = "payload"
    <3>1. call.key = 0
      BY <2>2 DEF KeysInHand
    <3> QED BY <1>6, <2>2, <3>1, EndIs, KeyStaysWhereItIs
  <2>3. CASE call.kind = "issue" /\ call.answer = "payload"
    <3>1. call.key # 0
      BY <1>6, <2>3, EndIs DEF KeysInHand
    <3> QED BY <1>6, <2>0, <2>3, <3>1, EndIs, NoCallIsNone, KeyIsShown
  <2> QED BY <1>6, <2>1, <2>2, <2>3, EndIs
<1>7. ASSUME NEW w \in late, LateWrite(w) PROVE OTK!Next \/ UNCHANGED OTK!vars
  <2>1. UNCHANGED <<screen, call, issued, copied>>
    BY <1>7, LateWriteIs DEF client
  <2>2. CASE UNCHANGED keys
    BY <2>1, <2>2, KeyStaysWhereItIs
  <2>3. CASE ~UNCHANGED keys
    BY <1>0, <1>7, <2>1, <2>3, LateWriteIs, KeyIsIssued
  <2> QED BY <2>2, <2>3
<1>8. CASE Continue
  BY <1>8, KeyIsLeft
<1>9. CASE Visit \/ FetchRejected
  <2>1. /\ issued' = 0 /\ call' = NoCall /\ copied' = FALSE /\ UNCHANGED keys
        /\ screen' # "step4"
    BY <1>9 DEF Visit, FetchRejected, Show
  <2> QED BY <2>1, NoCallIsNone, KeyIsLost
<1>10. Next => PageStep \/ Begins \/ Travels \/ Ends \/ Lates \/ Continue \/ Visit \/ FetchRejected
  BY DEF Next, PageStep, Begins, Travels, Ends, Lates, Waiting
<1> QED BY <1>1, <1>2, <1>3, <1>4, <1>5, <1>6, <1>7, <1>8, <1>9, <1>10 DEF Lates

\* Step 3 keeps its promise of a key's plaintext, for any teammates, whatever
\* breaks off and whenever the page is left.
THEOREM ImplementsOneTimeKey == Spec => OneTimeKeySpec
<1>1. Init => OTK!Init
  <2> SUFFICES ASSUME Init PROVE OTK!Init
    OBVIOUS
  <2>1. DOMAIN keys = {} /\ screen = "step3" /\ copied = FALSE
    BY DEF Init
  <2>2. \A k \in 1 .. MaxKeys : Fate(k) = "unissued"
    BY <2>1, FateIs
  <2> QED BY <2>1, <2>2 DEF OTK!Init, OTK!Keys
<1> QED BY <1>1, RefinementStep, TypeCorrect, KeysInHandStays, PTL
        DEF Spec, OneTimeKeySpec, OTK!Spec

-----------------------------------------------------------------------------
\* What the promise comes to.

LEMMA OneIsShown == OTK!Spec => []OTK!OneShown
<1>1. OTK!Init => OTK!OneShown
  BY DEF OTK!Init, OTK!OneShown, OTK!Shown, OTK!Keys
<1>2. OTK!OneShown /\ [OTK!Next]_(OTK!vars) => OTK!OneShown'
  <2> SUFFICES ASSUME OTK!OneShown, [OTK!Next]_(OTK!vars) PROVE OTK!OneShown'
    OBVIOUS
  <2>1. ASSUME NEW k \in OTK!Keys, OTK!Show(k) PROVE OTK!OneShown'
    <3>1. Fated' = [Fated EXCEPT ![k] = "shown"] /\ OTK!Shown = {}
      BY <2>1 DEF OTK!Show, OTK!Becomes, Fated
    <3>2. \A j \in OTK!Keys : Fated'[j] = "shown" => j = k
      BY <3>1 DEF OTK!Shown, OTK!Keys, Fated
    <3> QED BY <3>2 DEF OTK!OneShown, OTK!Shown, OTK!Keys, Fated
  <2>2. CASE ~\E k \in OTK!Keys : OTK!Show(k)
    <3>1. ASSUME NEW k \in OTK!Keys, Fated'[k] = "shown" PROVE Fated[k] = "shown"
      <4>1. ASSUME NEW j \in OTK!Keys, OTK!Issue(j) PROVE Fated[k] = "shown"
        BY <3>1, <4>1 DEF OTK!Issue, OTK!Becomes, OTK!Keys, Fated
      <4>2. CASE OTK!Advance
        BY <3>1, <4>2 DEF OTK!Advance, OTK!Keys, Fated
      <4>3. ASSUME NEW K, OTK!Lose(K) PROVE Fated[k] = "shown"
        BY <3>1, <4>3 DEF OTK!Lose, OTK!Keys, Fated
      <4>4. CASE OTK!Copy \/ UNCHANGED OTK!vars
        BY <3>1, <4>4 DEF OTK!Copy, OTK!vars, Fated
      <4> QED BY <2>2, <4>1, <4>2, <4>3, <4>4 DEF OTK!Next
    <3> QED BY <3>1 DEF OTK!OneShown, OTK!Shown, Fated
  <2> QED BY <2>1, <2>2
<1> QED BY <1>1, <1>2, PTL DEF OTK!Spec

\* The pane shows one plaintext, and whatever is done with the page, a plaintext
\* it has shown and shows no more never comes back.
THEOREM ShownOnce == Spec => []OTK!OneShown /\ OTK!NeverShownAgain
<1> DEFINE Stays == \A k \in OTK!Keys :
                      Fated[k] \in {"shown", "gone"} => Fated'[k] \in {Fated[k], "gone"}
<1>1. [OTK!Next]_(OTK!vars) => [Stays]_(OTK!vars)
  BY DEF Fated, OTK!Next, OTK!Shown, OTK!Keys, OTK!Issue, OTK!Show, OTK!Copy, OTK!Advance,
         OTK!Lose, OTK!Becomes
<1>2. OTK!Spec => [][Stays]_(OTK!vars)
  BY <1>1, PTL DEF OTK!Spec
<1>3. [][Stays]_(OTK!vars) => OTK!NeverShownAgain
  BY DEF OTK!NeverShownAgain, Fated
<1> QED BY <1>2, <1>3, OneIsShown, ImplementsOneTimeKey, PTL DEF OneTimeKeySpec
=============================================================================

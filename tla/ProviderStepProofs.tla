-------------------------- MODULE ProviderStepProofs --------------------------
(***************************************************************************)
(* Proofs about ProviderStep: its type correctness, that the user is told  *)
(* the truth of every save, that the list is never older than what the     *)
(* user was told, and that a test result is about the form on the screen.  *)
(***************************************************************************)
EXTENDS ProviderStep, TLAPS

-----------------------------------------------------------------------------
\* The steps by what they touch.
FormStep ==
  \/ \E p \in Providers : Pick(p)
  \/ \E f \in FieldNames, t \in Texts : Update(f, t)
  \/ \E i \in 1 .. MaxRows, t \in Texts : UpdateAzureRow(i, t)
  \/ AddAzureRow
  \/ \E i \in 1 .. MaxRows : RemoveAzureRow(i)
  \/ ToggleSkip

CallStep ==
  \/ HandleTest \/ HandleSave
  \/ Route \/ Commit \/ Replied \/ Aborted
  \/ TestAnswered \/ SaveAnswered
  \/ \E n \in Saves : LateWrite(n)

ListStep == (\E r \in reads : ListRead(r)) \/ ListWaiting

\* Type correctness.

\* What becomes of a reply is one of the answers.
LEMMA ProxiedIsAnswer ==
  ASSUME NEW reply \in Replies
  PROVE  Proxied(reply) \in Answers
BY DEF Proxied, Replies, Answers

\* A call that moves on or is answered keeps all else.
LEMMA CallsMoveOn ==
  ASSUME TypeOK
  PROVE  /\ \A place \in {"gateway", "committed", "leaving"} :
              /\ Reach(place) \in Calls /\ Reach(place).at = place
              /\ Reach(place).kind = call.kind /\ Reach(place).save = call.save
              /\ Reach(place).answer = call.answer
         /\ \A reply \in Replies :
              /\ Heard(reply) \in Calls /\ Heard(reply).at = "answered"
              /\ Heard(reply).kind = call.kind /\ Heard(reply).save = call.save
              /\ Heard(reply).answer = Proxied(reply)
<1>0. call \in Calls
  BY DEF TypeOK
<1>1. ASSUME NEW place \in {"gateway", "committed", "leaving"}
      PROVE  /\ Reach(place) \in Calls /\ Reach(place).at = place
             /\ Reach(place).kind = call.kind /\ Reach(place).save = call.save
             /\ Reach(place).answer = call.answer
  BY <1>0 DEF Calls, Reach
<1>2. ASSUME NEW reply \in Replies
      PROVE  /\ Heard(reply) \in Calls /\ Heard(reply).at = "answered"
             /\ Heard(reply).kind = call.kind /\ Heard(reply).save = call.save
             /\ Heard(reply).answer = Proxied(reply)
  BY <1>0, ProxiedIsAnswer DEF Calls, Heard
<1> QED BY <1>1, <1>2

\* A page that is shown anew starts from what Init starts from.
LEMMA ShowIsTyped ==
  ASSUME TypeOK, NEW s \in {"step2", "away", "crashed"}, Show(s)
  PROVE  TypeOK'
<1>0. ProviderStepAssumption
  BY ProviderStepAssumption
<1>1. EmptyForm(Empty) \in [FieldNames -> Texts]
  BY <1>0 DEF ProviderStepAssumption, EmptyForm, Texts
<1>2. NoCall \in Calls /\ NoCall.kind # "save"
  BY DEF NoCall, Calls, Answers
<1>3. late' \in SUBSET Saves
  BY DEF TypeOK, Show, Unheard
<1>4. /\ Loading(0) \in [signal : Nat, loading : BOOLEAN, view : Answers \cup {"none"},
                         items : SUBSET Saves]
      /\ Listing(0) \in [signal : Nat, at : {"panel", "read"}, rows : SUBSET Saves]
  BY DEF Loading, Listing
<1>5. <<Empty>> \in Seq(Texts)
  BY <1>0 DEF Texts
<1> QED BY <1>1, <1>2, <1>3, <1>4, <1>5 DEF TypeOK, Show

\* What the user does to the form.
LEMMA FormStepsAreTyped ==
  ASSUME TypeOK, FormStep
  PROVE  TypeOK'
<1>0. ProviderStepAssumption
  BY ProviderStepAssumption
<1>1. ASSUME NEW p \in Providers, Pick(p) PROVE TypeOK'
  <2>1. EmptyForm(form["label"]) \in [FieldNames -> Texts]
    BY <1>0 DEF ProviderStepAssumption, EmptyForm, Texts, TypeOK, FieldNames
  <2>2. <<Empty>> \in Seq(Texts)
    BY DEF Texts
  <2> QED BY <1>1, <2>1, <2>2 DEF TypeOK, Pick, server
<1>2. ASSUME NEW f \in FieldNames, NEW t \in Texts, Update(f, t) PROVE TypeOK'
  BY <1>2 DEF TypeOK, Update, Invalidate, server
<1>3. ASSUME NEW i \in 1 .. MaxRows, NEW t \in Texts, UpdateAzureRow(i, t) PROVE TypeOK'
  <2>1. rows' \in Seq(Texts)
    BY <1>3 DEF TypeOK, UpdateAzureRow
  <2> QED BY <1>3, <2>1 DEF TypeOK, UpdateAzureRow, Invalidate, server
<1>4. CASE AddAzureRow
  <2>1. Empty \in Texts
    BY DEF Texts
  <2> QED BY <1>4, <2>1 DEF TypeOK, AddAzureRow, server, ghosts
<1>5. ASSUME NEW i \in 1 .. MaxRows, RemoveAzureRow(i) PROVE TypeOK'
  <2>1. /\ Len(rows) \in Nat /\ i \in Nat /\ Len(rows) > 1
        /\ \A j \in 1 .. Len(rows) : rows[j] \in Texts
    BY <1>0, <1>5 DEF TypeOK, RemoveAzureRow, ProviderStepAssumption
  <2>2. \A j \in 1 .. Len(rows) - 1 : rows[IF j < i THEN j ELSE j + 1] \in Texts
    BY <2>1
  <2>3. rows' \in Seq(Texts)
    <3>1. rows' = [j \in 1 .. Len(rows) - 1 |-> rows[IF j < i THEN j ELSE j + 1]]
      BY <1>5 DEF RemoveAzureRow
    <3> DEFINE m == Len(rows) - 1
    <3>2. m \in Nat
      BY <2>1
    <3>3. rows' \in [1 .. m -> Texts]
      BY <2>2, <3>1
    <3> QED BY <3>2, <3>3
  <2> QED BY <1>5, <2>3 DEF TypeOK, RemoveAzureRow, server
<1>6. CASE ToggleSkip
  BY <1>6 DEF TypeOK, ToggleSkip, server, ghosts
<1> QED BY <1>1, <1>2, <1>3, <1>4, <1>5, <1>6 DEF FormStep

\* The calls and the list.
LEMMA CallStepsAreTyped ==
  ASSUME TypeOK, CallStep
  PROVE  TypeOK'
<1>0. /\ MaxSaves \in Nat
      /\ NoCall \in Calls /\ call \in Calls /\ saves \in Saves \cup {0}
      /\ \A reply \in {"done", "cut", "refused", "notFound", "nothing"} : reply \in Replies
  BY ProviderStepAssumption DEF ProviderStepAssumption, NoCall, Calls, Answers, TypeOK, Replies
<1>1. CASE HandleTest
  <2>1. call' \in Calls
    BY <1>0, <1>1 DEF HandleTest, NoCall, Calls
  <2>2. call'.kind # "save"
    BY <1>1 DEF HandleTest, NoCall
  <2> QED BY <1>1, <2>1, <2>2 DEF TypeOK, HandleTest, server
<1>2. CASE HandleSave
  <2>1. saves + 1 \in Saves
    BY <1>0, <1>2 DEF HandleSave, Saves
  <2> DEFINE earned == skipTest \/ tested = Payload
  <2>2. call' = [kind |-> "save", at |-> "panel", save |-> saves + 1, answer |-> "error",
                 earned |-> earned]
    BY <1>2 DEF HandleSave, NoCall
  <2>3. earned \in BOOLEAN
    BY DEF TypeOK
  <2> HIDE DEF earned
  <2>4. call' \in Calls
    BY <2>1, <2>2, <2>3 DEF Calls, Answers
  <2> QED BY <1>2, <2>1, <2>2, <2>4 DEF TypeOK, HandleSave
<1>3. CASE Route \/ Commit \/ Replied \/ Aborted
  <2>1. call' \in Calls
    BY <1>0, <1>3, CallsMoveOn DEF Route, Commit, Replied, Aborted
  <2>1a. call'.kind = call.kind /\ call'.save = call.save
    BY <1>0, <1>3, CallsMoveOn DEF Route, Commit, Replied, Aborted
  <2>2. stored' \in SUBSET Saves
    <3>1. CASE Commit
      BY <3>1 DEF TypeOK, Commit
    <3> QED BY <1>3, <3>1 DEF TypeOK, Route, Replied, Aborted
  <2>3. late' \in SUBSET Saves
    BY <1>3 DEF TypeOK, Route, Commit, Replied, Aborted, Unheard
  <2>4. UNCHANGED Elsewhere
    BY <1>3 DEF Route, Commit, Replied, Aborted
  <2> QED BY <2>1, <2>1a, <2>2, <2>3, <2>4 DEF TypeOK, Elsewhere, page, ghosts
<1>4. CASE TestAnswered
  <2>1. testResult' \in {"none", "ok", "failed", "demo"}
    BY <1>0, <1>4 DEF TestAnswered, Calls, Answers
  <2> QED BY <1>0, <1>4, <2>1 DEF TypeOK, TestAnswered, server, NoCall
<1>5. CASE SaveAnswered
  <2>1. call' \in Calls
    BY <1>0, <1>5, CallsMoveOn DEF SaveAnswered
  <2>1a. call'.kind = "save" => call'.save \in Saves
    BY <1>5, CallsMoveOn DEF SaveAnswered, TypeOK, NoCall
  <2>2. told' \in [Saves -> {"nothing", "saved", "refused", "unknown"}]
    BY <1>5 DEF TypeOK, SaveAnswered
  <2>3. saveError' \in {"none", "error", "demo"}
    BY <1>0, <1>5 DEF TypeOK, SaveAnswered, Calls, Answers, Ok
  <2>4. /\ list' \in [signal : Nat, loading : BOOLEAN, view : Answers \cup {"none"},
                      items : SUBSET Saves]
        /\ reads' \subseteq [signal : Nat, at : {"panel", "read"}, rows : SUBSET Saves]
    <3> DEFINE n == list.signal + 1
    <3>1. n \in Nat
      BY DEF TypeOK
    <3>2. \/ list' = Loading(n) /\ reads' = reads \cup {Listing(n)}
          \/ list' = list /\ reads' = reads
      BY <1>5 DEF SaveAnswered
    <3> HIDE DEF n
    <3>3. Loading(n) \in [signal : Nat, loading : BOOLEAN, view : Answers \cup {"none"},
                          items : SUBSET Saves]
      BY <3>1 DEF Loading
    <3>4. Listing(n) \in [signal : Nat, at : {"panel", "read"}, rows : SUBSET Saves]
      BY <3>1 DEF Listing
    <3> QED BY <3>2, <3>3, <3>4 DEF TypeOK
  <2> QED BY <1>5, <2>1, <2>1a, <2>2, <2>3, <2>4 DEF TypeOK, SaveAnswered
<1>6. ASSUME NEW n \in Saves, LateWrite(n) PROVE TypeOK'
  BY <1>6 DEF TypeOK, LateWrite, Elsewhere, page, ghosts
<1> QED BY <1>1, <1>2, <1>3, <1>4, <1>5, <1>6 DEF CallStep

LEMMA ListStepsAreTyped ==
  ASSUME TypeOK, ListStep
  PROVE  TypeOK'
<1>1. ASSUME NEW r \in reads, ListRead(r) PROVE TypeOK'
  <2>1. reads' \subseteq [signal : Nat, at : {"panel", "read"}, rows : SUBSET Saves]
    BY <1>1 DEF TypeOK, ListRead
  <2> QED BY <1>1, <2>1 DEF TypeOK, ListRead, page, server, ghosts
<1>2. ASSUME NEW r \in reads, NEW outcome \in Answers, ListAnswered(r, outcome) PROVE TypeOK'
  <2>1. list' \in [signal : Nat, loading : BOOLEAN, view : Answers \cup {"none"},
                   items : SUBSET Saves]
    BY <1>2 DEF TypeOK, ListAnswered
  <2> QED BY <1>2, <2>1 DEF TypeOK, ListAnswered, page, server, ghosts
<1> QED BY <1>1, <1>2 DEF ListStep, ListWaiting

LEMMA NextIsKnown ==
  ASSUME Next
  PROVE  FormStep \/ CallStep \/ ListStep \/ \E s \in {"step2", "away", "crashed"} : Show(s)
BY DEF Next, FormStep, CallStep, ListStep, Gateway, Waiting, Visit, Leave, FetchRejected

\* The program's variables keep their shape, whatever is typed, picked, answered
\* or given up.
THEOREM TypeCorrect == Spec => []TypeOK
<1>1. Init => TypeOK
  <2> SUFFICES ASSUME Init PROVE TypeOK
    OBVIOUS
  <2>0. ProviderStepAssumption
    BY ProviderStepAssumption
  <2>1. EmptyForm(Empty) \in [FieldNames -> Texts] /\ <<Empty>> \in Seq(Texts)
    BY <2>0 DEF ProviderStepAssumption, EmptyForm, Texts
  <2>2. NoCall \in Calls /\ NoCall.kind # "save"
    BY DEF NoCall, Calls, Answers
  <2>3. /\ Loading(0) \in [signal : Nat, loading : BOOLEAN, view : Answers \cup {"none"},
                           items : SUBSET Saves]
        /\ Listing(0) \in [signal : Nat, at : {"panel", "read"}, rows : SUBSET Saves]
    BY DEF Loading, Listing
  <2> QED BY <2>1, <2>2, <2>3 DEF Init, TypeOK
<1>2. TypeOK /\ [Next]_vars => TypeOK'
  <2> SUFFICES ASSUME TypeOK, [Next]_vars PROVE TypeOK'
    OBVIOUS
  <2>1. CASE UNCHANGED vars
    BY <2>1 DEF TypeOK, vars, page, server, ghosts
  <2>2. CASE FormStep
    BY <2>2, FormStepsAreTyped
  <2>3. CASE CallStep
    BY <2>3, CallStepsAreTyped
  <2>4. CASE ListStep
    BY <2>4, ListStepsAreTyped
  <2>5. CASE \E s \in {"step2", "away", "crashed"} : Show(s)
    BY <2>5, ShowIsTyped
  <2> QED BY <2>1, <2>2, <2>3, <2>4, <2>5, NextIsKnown
<1> QED BY <1>1, <1>2, PTL DEF Spec

-----------------------------------------------------------------------------
\* What the user is told of a save.

\* A save that was not pressed yet has left no trace, and one that is under way
\* has not been told of.
SavesSoFar ==
  /\ \A n \in Saves : n > saves => told[n] = "nothing" /\ n \notin stored \cup late
  /\ call.kind = "save" =>
       /\ call.save <= saves
       /\ call.at # "leaving" => told[call.save] = "nothing"

\* What the answer of a save says is true where it is, not only where it is told.
CallIsTrue ==
  call.kind = "save" =>
    /\ call.at \in {"panel", "gateway"} => call.save \notin stored \cup late
    /\ call.at = "committed" => call.save \in stored \ late
    /\ call.at = "answered" /\ Ok(call.answer) => call.save \in stored
    /\ call.at = "answered" /\ call.answer = "error" => call.save \notin stored \cup late

TruthInv == ToldIsTrue /\ SavesSoFar /\ CallIsTrue

\* The form and the list leave all of it alone.
LEMMA TruthIsOfTheCalls ==
  ASSUME TruthInv, UNCHANGED <<call, saves, told, stored, late>>
  PROVE  TruthInv'
BY DEF TruthInv, ToldIsTrue, SavesSoFar, CallIsTrue

\* A page that goes leaves the write it waits for behind.
LEMMA TruthOutlivesThePage ==
  ASSUME TypeOK, TruthInv, NEW s, Show(s)
  PROVE  TruthInv'
<1>1. /\ call'.kind = "none" /\ late' = late \cup Unheard
      /\ UNCHANGED <<saves, told, stored>>
  BY DEF Show, NoCall
<1>2. \A n \in Unheard : /\ n \in Saves /\ n <= saves
                        /\ told[n] = "nothing" /\ n \notin stored
  BY DEF Unheard, TypeOK, TruthInv, SavesSoFar, CallIsTrue
<1>3. saves \in Nat /\ Saves \subseteq Nat
  BY ProviderStepAssumption DEF ProviderStepAssumption, TypeOK, Saves
<1>4. ToldIsTrue'
  BY <1>1, <1>2 DEF TruthInv, ToldIsTrue
<1>5. SavesSoFar'
  BY <1>1, <1>2, <1>3 DEF TruthInv, SavesSoFar
<1>6. CallIsTrue'
  BY <1>1 DEF CallIsTrue
<1> QED BY <1>4, <1>5, <1>6 DEF TruthInv

\* What each reply becomes.
LEMMA ProxiedSays ==
  /\ Proxied("done") = "payload" /\ Proxied("cut") = "bare"
  /\ Proxied("refused") = "error"
  /\ Proxied("notFound") = "demo" /\ Proxied("nothing") = "demo"
  /\ Ok("payload") /\ Ok("bare") /\ ~Ok("error") /\ ~Ok("demo")
BY DEF Proxied, Ok

LEMMA TruthOnTheWay ==
  ASSUME TypeOK, TruthInv, Route \/ Commit \/ Replied \/ Aborted
  PROVE  TruthInv'
<1>0. /\ \A reply \in {"done", "cut", "refused", "notFound", "nothing"} : reply \in Replies
      /\ saves \in Nat /\ Saves \subseteq Nat
      /\ call.kind = "save" => call.save \in Saves /\ call.save <= saves
  BY ProviderStepAssumption
     DEF ProviderStepAssumption, Replies, TypeOK, Saves, TruthInv, SavesSoFar
<1>1. UNCHANGED <<saves, told>>
  BY DEF Route, Commit, Replied, Aborted, Elsewhere
<1>2. /\ call'.kind = call.kind /\ call'.save = call.save /\ call'.at # "leaving"
      /\ call.at \in {"panel", "gateway", "committed"}
  BY <1>0, CallsMoveOn DEF Route, Commit, Replied, Aborted
<1>3. CASE call.kind # "save"
  <2>1. UNCHANGED <<stored, late>>
    BY <1>3 DEF Route, Commit, Replied, Aborted, Unheard
  <2> QED BY <1>1, <1>2, <1>3, <2>1 DEF TruthInv, ToldIsTrue, SavesSoFar, CallIsTrue
<1>4. CASE call.kind = "save"
  <2>1. call.save \in Saves /\ call.save <= saves /\ told[call.save] = "nothing"
    BY <1>0, <1>2, <1>4 DEF TruthInv, SavesSoFar
  <2>2. stored' \subseteq stored \cup {call.save} /\ late' \subseteq late \cup {call.save}
    BY <1>4 DEF Route, Commit, Replied, Aborted, Unheard
  <2>3. ToldIsTrue'
    <3>1. stored \subseteq stored'
      BY DEF Route, Commit, Replied, Aborted
    <3> QED BY <1>1, <2>1, <2>2, <3>1 DEF TruthInv, ToldIsTrue
  <2>4. SavesSoFar'
    BY <1>0, <1>1, <1>2, <2>1, <2>2 DEF TruthInv, SavesSoFar
  <2>5. CallIsTrue'
    <3>1. CASE Route
      <4>1. UNCHANGED <<stored, late>> /\ call.save \notin stored \cup late
        BY <1>4, <3>1 DEF Route, TruthInv, CallIsTrue
      <4>2. call'.at = "gateway" \/ (call'.at = "answered" /\ call'.answer = "error")
        BY <1>0, <3>1, CallsMoveOn, ProxiedSays DEF Route
      <4> QED BY <1>2, <4>1, <4>2, ProxiedSays DEF CallIsTrue
    <3>2. CASE Commit
      <4>1. call.save \in stored' /\ UNCHANGED late /\ call.save \notin late
        BY <1>4, <3>2 DEF Commit, TruthInv, CallIsTrue
      <4>2. call'.at = "committed"
        BY <3>2, CallsMoveOn DEF Commit
      <4> QED BY <1>2, <4>1, <4>2 DEF CallIsTrue
    <3>3. CASE Replied
      <4>1. UNCHANGED <<stored, late>> /\ call'.at = "answered"
        BY <1>0, <3>3, CallsMoveOn DEF Replied
      <4>2. CASE call.at = "committed"
        <5>1. call.save \in stored /\ call'.answer \in {"payload", "bare"}
          BY <1>0, <1>4, <3>3, <4>2, CallsMoveOn, ProxiedSays
             DEF Replied, TruthInv, CallIsTrue
        <5> QED BY <1>2, <4>1, <5>1 DEF CallIsTrue
      <4>3. CASE call.at # "committed"
        <5>1. call.save \notin stored \cup late /\ call'.answer \in {"error", "demo"}
          BY <1>0, <1>4, <3>3, <4>3, CallsMoveOn, ProxiedSays
             DEF Replied, TruthInv, CallIsTrue
        <5> QED BY <1>2, <4>1, <5>1, ProxiedSays DEF CallIsTrue
      <4> QED BY <4>2, <4>3
    <3>4. CASE Aborted
      <4>1. call'.at = "answered" /\ call'.answer = "demo"
        BY <1>0, <3>4, CallsMoveOn, ProxiedSays DEF Aborted
      <4> QED BY <4>1, ProxiedSays DEF CallIsTrue
    <3> QED BY <3>1, <3>2, <3>3, <3>4
  <2> QED BY <2>3, <2>4, <2>5 DEF TruthInv
<1> QED BY <1>3, <1>4

LEMMA TruthIsTold ==
  ASSUME TypeOK, TruthInv, CallStep
  PROVE  TruthInv'
<1>0. /\ saves \in Nat /\ Saves \subseteq Nat
      /\ told \in [Saves -> {"nothing", "saved", "refused", "unknown"}]
      /\ call \in Calls
  BY ProviderStepAssumption DEF ProviderStepAssumption, TypeOK, Saves
<1>1. CASE HandleTest \/ TestAnswered
  <2>1. UNCHANGED <<saves, told, stored, late>>
    BY <1>1 DEF HandleTest, TestAnswered, server
  <2>2. CASE HandleTest
    <3>1. call'.kind = "test"
      BY <2>2 DEF HandleTest, NoCall
    <3> QED BY <2>1, <3>1 DEF TruthInv, ToldIsTrue, SavesSoFar, CallIsTrue
  <2>3. CASE TestAnswered
    <3>1. call'.kind = "none"
      BY <2>3 DEF TestAnswered, NoCall
    <3> QED BY <2>1, <3>1 DEF TruthInv, ToldIsTrue, SavesSoFar, CallIsTrue
  <2> QED BY <1>1, <2>2, <2>3
<1>2. CASE HandleSave
  <2>1. /\ call'.kind = "save" /\ call'.at = "panel" /\ call'.save = saves + 1
        /\ saves' = saves + 1 /\ UNCHANGED <<told, stored, late>>
    BY <1>2 DEF HandleSave, NoCall
  <2>2. saves + 1 \in Saves
    BY <1>0, <1>2, ProviderStepAssumption DEF HandleSave, Saves, ProviderStepAssumption
  <2>3. saves + 1 \notin stored \cup late /\ told[saves + 1] = "nothing"
    BY <1>0, <2>2 DEF TruthInv, SavesSoFar
  <2>4. SavesSoFar'
    BY <1>0, <2>1, <2>3 DEF TruthInv, SavesSoFar
  <2> QED BY <2>1, <2>3, <2>4 DEF TruthInv, ToldIsTrue, CallIsTrue
<1>3. CASE Route \/ Commit \/ Replied \/ Aborted
  BY <1>3, TruthOnTheWay
<1>4. CASE SaveAnswered
  <2>1. /\ call.kind = "save" /\ call.at = "answered" /\ call.save \in Saves
        /\ UNCHANGED <<saves, stored, late>>
        /\ call.save <= saves
    BY <1>4 DEF SaveAnswered, TypeOK, TruthInv, SavesSoFar
  <2>2. /\ call'.kind = "save" => call'.at = "leaving" /\ call'.save = call.save
        /\ call'.kind # "save" => call'.kind = "none"
    BY <1>4, CallsMoveOn DEF SaveAnswered, NoCall
  <2>3. PICK what \in {"saved", "refused", "unknown"} :
          /\ told' = [told EXCEPT ![call.save] = what]
          /\ what = "saved" => Ok(call.answer)
          /\ what = "refused" => ~Ok(call.answer) /\ call.answer # "demo"
    BY <1>4 DEF SaveAnswered
  <2>4. /\ what = "saved" => call.save \in stored
        /\ what = "refused" => call.save \notin stored \cup late
    BY <1>0, <2>1, <2>3 DEF TruthInv, CallIsTrue, Ok, Calls, Answers
  <2>5. ToldIsTrue'
    BY <1>0, <2>1, <2>3, <2>4 DEF TruthInv, ToldIsTrue
  <2>6. SavesSoFar'
    BY <1>0, <2>1, <2>2, <2>3 DEF TruthInv, SavesSoFar
  <2>7. CallIsTrue'
    BY <2>2 DEF CallIsTrue
  <2> QED BY <2>5, <2>6, <2>7 DEF TruthInv
<1>5. ASSUME NEW n \in Saves, LateWrite(n) PROVE TruthInv'
  <2>1. /\ n \in late /\ UNCHANGED <<call, saves, told>>
        /\ late' = late \ {n} /\ stored \subseteq stored' /\ stored' \subseteq stored \cup {n}
    BY <1>5 DEF LateWrite, Elsewhere
  <2>2. ToldIsTrue'
    BY <2>1 DEF TruthInv, ToldIsTrue
  <2>3. SavesSoFar'
    BY <2>1 DEF TruthInv, SavesSoFar
  <2>4. CallIsTrue'
    BY <2>1 DEF TruthInv, CallIsTrue
  <2> QED BY <2>2, <2>3, <2>4 DEF TruthInv
<1> QED BY <1>1, <1>2, <1>3, <1>4, <1>5 DEF CallStep

LEMMA TruthStays == Spec => []TruthInv
<1>1. Init => TruthInv
  BY ProviderStepAssumption
     DEF Init, TruthInv, ToldIsTrue, SavesSoFar, CallIsTrue, NoCall, Saves
<1>2. TypeOK /\ TruthInv /\ [Next]_vars => TruthInv'
  <2> SUFFICES ASSUME TypeOK, TruthInv, [Next]_vars PROVE TruthInv'
    OBVIOUS
  <2>1. CASE UNCHANGED vars \/ FormStep \/ ListStep
    <3>1. UNCHANGED <<call, saves, told, stored, late>>
      BY <2>1 DEF vars, server, FormStep, Pick, Update, UpdateAzureRow, AddAzureRow,
                  RemoveAzureRow, ToggleSkip, ListStep, ListRead, ListWaiting, ListAnswered
    <3> QED BY <3>1, TruthIsOfTheCalls
  <2>2. CASE CallStep
    BY <2>2, TruthIsTold
  <2>3. CASE \E s \in {"step2", "away", "crashed"} : Show(s)
    BY <2>3, TruthOutlivesThePage
  <2> QED BY <2>1, <2>2, <2>3, NextIsKnown
<1> QED BY <1>1, <1>2, TypeCorrect, PTL DEF Spec

\* For any number of saves and any fields: no abort, late commit or broken body
\* makes a save that has no row look done, or one that has a row look refused.
THEOREM UserIsToldTheTruth == Spec => []ToldIsTrue
<1>1. TruthInv => ToldIsTrue
  BY DEF TruthInv
<1> QED BY <1>1, TruthStays, PTL

-----------------------------------------------------------------------------
\* The list.

Told == {n \in Saves : told[n] = "saved"}

\* A listing of the latest signal began after the last save the user was told of.
ReadsAreFresh ==
  \A r \in reads :
    /\ r.signal <= list.signal
    /\ r.rows \subseteq stored
    /\ r.signal = list.signal /\ r.at = "read" => Told \subseteq r.rows

ListIsFresh ==
  /\ list.items \subseteq stored
  /\ list.view = "payload" => Told \subseteq list.items

FreshInv == ReadsAreFresh /\ ListIsFresh

\* Rows are never taken away, so the list and the listings stay what they are.
LEMMA FreshnessIsKept ==
  ASSUME FreshInv, UNCHANGED <<list, reads>>, Told' \subseteq Told, stored \subseteq stored'
  PROVE  FreshInv'
<1>1. ReadsAreFresh'
  BY DEF FreshInv, ReadsAreFresh
<1>2. ListIsFresh'
  BY DEF FreshInv, ListIsFresh
<1> QED BY <1>1, <1>2 DEF FreshInv

LEMMA FreshnessOfCalls ==
  ASSUME TypeOK, FreshInv, CallStep
  PROVE  FreshInv'
<1>1. CASE SaveAnswered
  <2>1. told \in [Saves -> {"nothing", "saved", "refused", "unknown"}] /\ list.signal \in Nat
    BY DEF TypeOK
  <2>2. UNCHANGED stored
    BY <1>1 DEF SaveAnswered
  <2>3. CASE Ok(call.answer)
    <3>1. /\ list' = Loading(list.signal + 1)
          /\ reads' = reads \cup {Listing(list.signal + 1)}
      BY <1>1, <2>3 DEF SaveAnswered
    <3>2. /\ list'.signal = list.signal + 1 /\ list'.items = {} /\ list'.view = "none"
          /\ Listing(list.signal + 1).signal = list.signal + 1
          /\ Listing(list.signal + 1).at = "panel" /\ Listing(list.signal + 1).rows = {}
      BY <3>1 DEF Loading, Listing
    <3>3. \A r \in reads : r.signal \in Nat /\ r.signal <= list.signal /\ r.rows \subseteq stored
      BY DEF TypeOK, FreshInv, ReadsAreFresh
    <3>4. ReadsAreFresh'
      <4> SUFFICES ASSUME NEW r \in reads'
                   PROVE  /\ r.signal <= list'.signal
                          /\ r.rows \subseteq stored
                          /\ r.signal = list'.signal => r.at # "read"
        BY <2>2 DEF ReadsAreFresh
      <4>1. CASE r \in reads
        BY <2>1, <3>2, <3>3, <4>1
      <4>2. CASE r = Listing(list.signal + 1)
        BY <2>1, <3>2, <4>2
      <4> QED BY <3>1, <4>1, <4>2
    <3>5. ListIsFresh'
      BY <3>2 DEF ListIsFresh
    <3> QED BY <3>4, <3>5 DEF FreshInv
  <2>4. CASE ~Ok(call.answer)
    <3>1. UNCHANGED <<list, reads>> /\ Told' \subseteq Told
      BY <1>1, <2>1, <2>4 DEF SaveAnswered, Told
    <3> QED BY <2>2, <3>1, FreshnessIsKept
  <2> QED BY <2>3, <2>4
<1>2. CASE ~SaveAnswered
  <2>1. UNCHANGED <<list, reads, told>> /\ stored \subseteq stored'
    BY <1>2 DEF CallStep, HandleTest, HandleSave, Route, Commit, Replied, Aborted, TestAnswered,
                LateWrite, Elsewhere, server
  <2>2. Told' \subseteq Told
    BY <2>1 DEF Told
  <2> QED BY <2>1, <2>2, FreshnessIsKept
<1> QED BY <1>1, <1>2

LEMMA FreshnessOfListings ==
  ASSUME TypeOK, FreshInv, ToldIsTrue, ListStep
  PROVE  FreshInv'
<1>0. Told \subseteq stored /\ Told' = Told /\ UNCHANGED <<told, stored>>
  BY DEF ToldIsTrue, Told, ListStep, ListRead, ListWaiting, ListAnswered, server
<1>1. ASSUME NEW r \in reads, ListRead(r) PROVE FreshInv'
  <2> DEFINE q == [r EXCEPT !.at = "read", !.rows = stored]
  <2>1. q.signal = r.signal /\ q.rows = stored
    BY DEF TypeOK
  <2>2. reads' = (reads \ {r}) \cup {q} /\ UNCHANGED list
    BY <1>1 DEF ListRead
  <2> HIDE DEF q
  <2>3. ReadsAreFresh'
    BY <1>0, <2>1, <2>2 DEF FreshInv, ReadsAreFresh
  <2>4. ListIsFresh'
    BY <1>0, <2>2 DEF FreshInv, ListIsFresh
  <2> QED BY <2>3, <2>4 DEF FreshInv
<1>2. ASSUME NEW r \in reads, NEW outcome \in Answers, ListAnswered(r, outcome)
      PROVE  FreshInv'
  <2>1. reads' \subseteq reads
    BY <1>2 DEF ListAnswered
  <2>2. CASE r.signal # list.signal
    <3>1. UNCHANGED list
      BY <1>2, <2>2 DEF ListAnswered
    <3>2. ReadsAreFresh' /\ ListIsFresh'
      BY <1>0, <2>1, <3>1 DEF FreshInv, ReadsAreFresh, ListIsFresh
    <3> QED BY <3>2 DEF FreshInv
  <2>3. CASE r.signal = list.signal
    <3> DEFINE items == IF outcome = "payload" THEN r.rows ELSE {}
    <3>1. list'.signal = list.signal /\ list'.view = outcome /\ list'.items = items
      BY <1>2, <2>3 DEF ListAnswered, TypeOK
    <3>2. outcome = "payload" => r.at = "read"
      BY <1>2, ProxiedSays DEF ListAnswered, ListOutcomes
    <3>3. r.rows \subseteq stored /\ (r.at = "read" => Told \subseteq r.rows)
      BY <2>3 DEF FreshInv, ReadsAreFresh
    <3>4. ListIsFresh'
      BY <1>0, <3>1, <3>2, <3>3 DEF ListIsFresh
    <3>5. ReadsAreFresh'
      BY <1>0, <2>1, <3>1 DEF FreshInv, ReadsAreFresh
    <3> QED BY <3>4, <3>5 DEF FreshInv
  <2> QED BY <2>2, <2>3
<1> QED BY <1>1, <1>2 DEF ListStep, ListWaiting

LEMMA FreshnessStays == Spec => []FreshInv
<1>1. Init => FreshInv
  BY DEF Init, FreshInv, ReadsAreFresh, ListIsFresh, Told, Loading, Listing
<1>2. TypeOK /\ ToldIsTrue /\ FreshInv /\ [Next]_vars => FreshInv'
  <2> SUFFICES ASSUME TypeOK, ToldIsTrue, FreshInv, [Next]_vars PROVE FreshInv'
    OBVIOUS
  <2>1. CASE UNCHANGED vars \/ FormStep
    <3>1. UNCHANGED <<list, reads, told, stored>>
      BY <2>1 DEF vars, server, FormStep, Pick, Update, UpdateAzureRow, AddAzureRow,
                  RemoveAzureRow, ToggleSkip
    <3>2. Told' \subseteq Told
      BY <3>1 DEF Told
    <3> QED BY <3>1, <3>2, FreshnessIsKept
  <2>2. CASE CallStep
    BY <2>2, FreshnessOfCalls
  <2>3. CASE ListStep
    BY <2>3, FreshnessOfListings
  <2>4. ASSUME NEW s \in {"step2", "away", "crashed"}, Show(s) PROVE FreshInv'
    <3>1. list' = Loading(0) /\ reads' \subseteq {Listing(0)}
      BY <2>4 DEF Show
    <3> QED BY <3>1 DEF FreshInv, ReadsAreFresh, ListIsFresh, Loading, Listing
  <2> QED BY <2>1, <2>2, <2>3, <2>4, NextIsKnown
<1> QED BY <1>1, <1>2, TypeCorrect, UserIsToldTheTruth, PTL DEF Spec

\* Whatever order the listings, the saves and the reloads are answered in, a list
\* that came in full has every save the user was told of, and no row too many.
THEOREM ListIsNeverOlder == Spec => []ListNeverOlder
<1>1. FreshInv => ListNeverOlder
  BY DEF FreshInv, ListIsFresh, ListNeverOlder, Told, Table
<1> QED BY <1>1, FreshnessStays, PTL

-----------------------------------------------------------------------------
\* The test result.

\* A test under way is about the form, as long as nobody has changed it.
TestIsOfThisForm == call.kind = "test" /\ ~drifted => sent = Payload

ResultInv == ResultIsOfThisForm /\ TestIsOfThisForm

\* The payload is a function of the provider, the fields and the filled rows.
LEMMA PayloadIsOfTheForm ==
  ASSUME UNCHANGED <<selected, form, rows>>
  PROVE  Payload' = Payload
BY DEF Payload, BuildConfig, Fields, Complete, Trim

LEMMA EmptyRowsDoNotCount ==
  ASSUME TypeOK, AddAzureRow
  PROVE  Payload' = Payload
<1>0. rows \in Seq(Texts) /\ rows' = Append(rows, Empty) /\ UNCHANGED <<selected, form>>
  BY DEF TypeOK, AddAzureRow
<1>1. ~Complete(Empty)
  BY DEF Complete, Trim
<1>2. /\ DOMAIN rows' = 1 .. Len(rows) + 1 /\ DOMAIN rows = 1 .. Len(rows) /\ Len(rows) \in Nat
      /\ \A i \in DOMAIN rows : rows'[i] = rows[i]
      /\ rows'[Len(rows) + 1] = Empty
  <2>1. Empty \in Texts
    BY DEF Texts
  <2> QED BY <1>0, <2>1
<1>3. {j \in DOMAIN rows' : Complete(rows'[j])} = {j \in DOMAIN rows : Complete(rows[j])}
  BY <1>1, <1>2
<1>4. {Trim(rows'[i]) : i \in {j \in DOMAIN rows' : Complete(rows'[j])}}
        = {Trim(rows[i]) : i \in {j \in DOMAIN rows : Complete(rows[j])}}
  BY <1>2, <1>3
<1> QED BY <1>0, <1>4 DEF Payload, BuildConfig, Fields

LEMMA ResultStays == Spec => []ResultInv
<1>1. Init => ResultInv
  BY DEF Init, ResultInv, ResultIsOfThisForm, TestIsOfThisForm, NoCall
<1>2. TypeOK /\ ResultInv /\ [Next]_vars => ResultInv'
  <2> SUFFICES ASSUME TypeOK, ResultInv, [Next]_vars PROVE ResultInv'
    OBVIOUS
  <2> USE DEF ResultInv, ResultIsOfThisForm, TestIsOfThisForm
  <2>1. CASE FormStep
    <3>1. CASE \/ \E p \in Providers : Pick(p)
               \/ \E f \in FieldNames, t \in Texts : Update(f, t)
               \/ \E i \in 1 .. MaxRows, t \in Texts : UpdateAzureRow(i, t)
               \/ \E i \in 1 .. MaxRows : RemoveAzureRow(i)
      <4>1. /\ testResult' = "none" \/ drifted'
            /\ call'.kind = "test" => drifted'
        BY <3>1 DEF Pick, Update, UpdateAzureRow, RemoveAzureRow, Invalidate
      <4> QED BY <4>1
    <3>2. CASE AddAzureRow
      <4>1. UNCHANGED <<testResult, call, ghosts>>
        BY <3>2 DEF AddAzureRow
      <4> QED BY <3>2, <4>1, EmptyRowsDoNotCount DEF ghosts
    <3>3. CASE ToggleSkip
      <4>1. UNCHANGED <<testResult, call, ghosts, selected, form, rows>>
        BY <3>3 DEF ToggleSkip
      <4> QED BY <4>1, PayloadIsOfTheForm DEF ghosts
    <3> QED BY <2>1, <3>1, <3>2, <3>3 DEF FormStep
  <2>2. CASE CallStep
    <3>0. UNCHANGED <<selected, form, rows>>
      BY <2>2 DEF CallStep, HandleTest, HandleSave, Route, Commit, Replied, Aborted,
                  TestAnswered, SaveAnswered, LateWrite, Elsewhere, page
    <3>1. Payload' = Payload
      BY <3>0, PayloadIsOfTheForm
    <3>2. CASE HandleTest
      BY <3>1, <3>2 DEF HandleTest
    <3>3. CASE HandleSave
      <4>1. call'.kind = "save" /\ UNCHANGED <<testResult, tested, drifted>>
        BY <3>3 DEF HandleSave, NoCall
      <4> QED BY <3>1, <4>1
    <3>4. CASE Route \/ Commit \/ Replied \/ Aborted
      <4>1. call'.kind = call.kind
        BY <3>4, CallsMoveOn DEF Route, Commit, Replied, Aborted, Replies
      <4>2. UNCHANGED <<testResult, sent, tested, drifted>>
        BY <3>4 DEF Route, Commit, Replied, Aborted, Elsewhere, page, ghosts
      <4> QED BY <3>1, <4>1, <4>2
    <3>5. CASE TestAnswered
      <4>1. /\ call.kind = "test" /\ call'.kind = "none" /\ UNCHANGED drifted
            /\ testResult' = "ok" => tested' = sent
        BY <3>5 DEF TestAnswered, NoCall, TypeOK, Calls, Answers
      <4> QED BY <3>1, <4>1
    <3>6. CASE SaveAnswered
      <4>1. call'.kind # "test" /\ UNCHANGED <<testResult, tested, drifted>>
        BY <3>6, CallsMoveOn DEF SaveAnswered, NoCall
      <4> QED BY <3>1, <4>1
    <3>7. CASE \E n \in Saves : LateWrite(n)
      <4>1. UNCHANGED <<call, testResult, sent, tested, drifted>>
        BY <3>7 DEF LateWrite, Elsewhere, page, ghosts
      <4> QED BY <3>1, <4>1
    <3> QED BY <2>2, <3>2, <3>3, <3>4, <3>5, <3>6, <3>7 DEF CallStep
  <2>3. CASE ListStep \/ UNCHANGED vars
    <3>1. UNCHANGED <<selected, form, rows, testResult, call, sent, tested, drifted>>
      BY <2>3 DEF vars, ListStep, ListRead, ListWaiting, ListAnswered, page, ghosts
    <3> QED BY <3>1, PayloadIsOfTheForm
  <2>4. ASSUME NEW s, Show(s) PROVE ResultInv'
    <3>1. testResult' = "none" /\ call'.kind = "none"
      BY <2>4 DEF Show, NoCall
    <3> QED BY <3>1
  <2> QED BY <2>1, <2>2, <2>3, <2>4, NextIsKnown
<1> QED BY <1>1, <1>2, TypeCorrect, PTL DEF Spec

\* "Connected" is never about another form than the one on the screen, but for
\* the two ways the run ps_stale shows.
THEOREM ResultIsAboutTheForm == Spec => []ResultIsOfThisForm
<1>1. ResultInv => ResultIsOfThisForm
  BY DEF ResultInv
<1> QED BY <1>1, ResultStays, PTL

\* SaveIsEarned, but for a form that changed under its test or lost a row.
EarnedUnlessDrifted == call.kind = "save" => call.earned \/ drifted

\* Those two ways are all there are: whatever else is picked, typed, skipped or
\* answered late, a save that was not opted out of the test is of the payload
\* that passed it.
THEOREM SaveIsEarnedUnlessDrifted == Spec => []EarnedUnlessDrifted
<1>1. Init => EarnedUnlessDrifted
  BY DEF Init, EarnedUnlessDrifted, NoCall
<1>2. TypeOK /\ ResultInv /\ EarnedUnlessDrifted /\ [Next]_vars => EarnedUnlessDrifted'
  <2> SUFFICES ASSUME TypeOK, ResultInv, EarnedUnlessDrifted, [Next]_vars
               PROVE  EarnedUnlessDrifted'
    OBVIOUS
  <2>1. CASE FormStep
    <3>1. UNCHANGED call
      BY <2>1 DEF FormStep, Pick, Update, UpdateAzureRow, AddAzureRow, RemoveAzureRow,
                  ToggleSkip
    <3>2. CASE \/ \E p \in Providers : Pick(p)
               \/ \E f \in FieldNames, t \in Texts : Update(f, t)
               \/ \E i \in 1 .. MaxRows, t \in Texts : UpdateAzureRow(i, t)
      <4>1. drifted' = (drifted \/ call.kind = "test")
        BY <3>2 DEF Pick, Update, UpdateAzureRow
      <4> QED BY <3>1, <4>1 DEF EarnedUnlessDrifted
    <3>3. CASE \E i \in 1 .. MaxRows : RemoveAzureRow(i)
      <4>1. drifted'
        BY <3>3 DEF RemoveAzureRow
      <4> QED BY <4>1 DEF EarnedUnlessDrifted
    <3>4. CASE AddAzureRow \/ ToggleSkip
      <4>1. UNCHANGED drifted
        BY <3>4 DEF AddAzureRow, ToggleSkip, ghosts
      <4> QED BY <3>1, <4>1 DEF EarnedUnlessDrifted
    <3> QED BY <2>1, <3>2, <3>3, <3>4 DEF FormStep
  <2>2. CASE CallStep
    <3>1. CASE HandleTest
      BY <3>1 DEF HandleTest, NoCall, EarnedUnlessDrifted
    <3>2. CASE HandleSave
      <4>1. skipTest \/ testResult = "ok"
        BY <3>2 DEF HandleSave, Enabled, CanSave
      <4>2. skipTest \/ drifted \/ tested = Payload
        BY <4>1 DEF ResultInv, ResultIsOfThisForm
      <4>3. call'.earned = (skipTest \/ tested = Payload) /\ UNCHANGED drifted
        BY <3>2 DEF HandleSave, NoCall
      <4> QED BY <4>2, <4>3 DEF EarnedUnlessDrifted
    <3>3. CASE Route \/ Commit \/ Replied \/ Aborted
      <4>1. call'.kind = call.kind /\ call'.earned = call.earned /\ UNCHANGED drifted
        BY <3>3 DEF Route, Commit, Replied, Aborted, Reach, Heard, Elsewhere, ghosts,
                    TypeOK, Calls
      <4> QED BY <4>1 DEF EarnedUnlessDrifted
    <3>4. CASE TestAnswered
      BY <3>4 DEF TestAnswered, NoCall, EarnedUnlessDrifted
    <3>5. CASE SaveAnswered
      <4>1. /\ UNCHANGED drifted
            /\ call' = NoCall \/ call' = Reach("leaving")
        BY <3>5 DEF SaveAnswered
      <4>2. call'.kind = "save" => call.kind = "save" /\ call'.earned = call.earned
        BY <4>1 DEF Reach, NoCall, TypeOK, Calls
      <4> QED BY <4>1, <4>2 DEF EarnedUnlessDrifted
    <3>6. CASE \E n \in Saves : LateWrite(n)
      BY <3>6 DEF LateWrite, Elsewhere, ghosts, EarnedUnlessDrifted
    <3> QED BY <2>2, <3>1, <3>2, <3>3, <3>4, <3>5, <3>6 DEF CallStep
  <2>3. CASE ListStep \/ UNCHANGED vars
    BY <2>3 DEF vars, ListStep, ListRead, ListWaiting, ListAnswered, page, ghosts,
                EarnedUnlessDrifted
  <2>4. ASSUME NEW s, Show(s) PROVE EarnedUnlessDrifted'
    BY <2>4 DEF Show, NoCall, EarnedUnlessDrifted
  <2> QED BY <2>1, <2>2, <2>3, <2>4, NextIsKnown
<1> QED BY <1>1, <1>2, TypeCorrect, ResultStays, PTL DEF Spec
=============================================================================

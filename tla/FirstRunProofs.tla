--------------------------- MODULE FirstRunProofs ---------------------------
(***************************************************************************)
(* Proofs about FirstRun: its type correctness, and that with one process  *)
(* at most that makes secrets every process works with the same ones for   *)
(* good, for any number of processes, calls and crashes.                   *)
(***************************************************************************)
EXTENDS FirstRun, TLAPS

\* What one move of one call has to respect.
LEMMA CallMoves ==
  ASSUME call \in [Calls -> Call], Served, NEW c \in Calls, UNCHANGED proc,
         NEW to \in {"idle", "refused", "failed", "created", "lost"} \cup Pending,
         call[c].pc \in Pending, Moves(c, to)
  PROVE  call' \in [Calls -> Call] /\ Served'
<1> DEFINE m == [call[c] EXCEPT !.pc = to]
<1>1. /\ m \in Call
      /\ m.form = call[c].form
      /\ m.at = call[c].at
  BY DEF Call
<1>2. call' = [call EXCEPT ![c] = m]
  BY DEF Moves
<1>3. call' \in [Calls -> Call]
  BY <1>1, <1>2
<1>4. \A d \in Calls : /\ call'[d].form = call[d].form
                       /\ call'[d].at = call[d].at
                       /\ call'[d].pc \in Pending => call[d].pc \in Pending
  BY <1>1, <1>2
<1> QED BY <1>3, <1>4 DEF Served, Up

\* What one step of one start has to respect: the process is not up, so no
\* call depends on it.
LEMMA StartMoves ==
  ASSUME proc \in [Procs -> Process], Loaded, Served, NEW p \in Procs, NEW q \in Process,
         ~Up(p), proc' = [proc EXCEPT ![p] = q],
         q.pc \in {"readJWT", "createJWT", "writeJWT", "up"} => q.kek \in Secret,
         q.pc = "up" => q.jwt \in Secret,
         UNCHANGED call
  PROVE  proc' \in [Procs -> Process] /\ Loaded' /\ Served'
<1>1. /\ proc' \in [Procs -> Process]
      /\ proc'[p] = q
      /\ \A r \in Procs : r # p => proc'[r] = proc[r]
  OBVIOUS
<1>2. Loaded'
  BY <1>1 DEF Loaded, Up
<1>3. Served'
  BY <1>1 DEF Served, Up
<1> QED BY <1>1, <1>2, <1>3

-----------------------------------------------------------------------------
\* Type correctness.

LEMMA TypeInit == Init => TypeOK
BY DeploymentAssumption
   DEF Init, TypeOK, Loaded, Served, File, Secret, Process, Down, Call, NoCall, Pending, Up

\* A step of the start of process p.
LEMMA TypeStart == ASSUME TypeOK, NEW p \in Procs, Start(p) \/ Launch(p) PROVE TypeOK'
<1>t. /\ proc \in [Procs -> Process]
      /\ proc[p] \in Process
      /\ kekFile \in File
      /\ jwtFile \in File
      /\ Down \in Process
  BY DEF TypeOK, Down, Process
<1>1. CASE Launch(p)
  <2> DEFINE q == [proc[p] EXCEPT !.pc = "statKEK"]
  <2>1. /\ q \in Process
        /\ q.pc = "statKEK"
        /\ proc[p].pc # "up"
        /\ proc' = [proc EXCEPT ![p] = q]
    BY <1>1, <1>t DEF Launch, Goes, Process, Starting
  <2> HIDE DEF q
  <2> QED BY <1>1, <2>1, StartMoves DEF Up, Launch, TypeOK
<1>2. CASE StatKEK(p)
  <2> DEFINE q == IF kekFile # "missing" THEN [proc[p] EXCEPT !.pc = "loadKEK"]
                  ELSE IF p \in Makers THEN [proc[p] EXCEPT !.pc = "genKEK"] ELSE Down
  <2>1. /\ q \in Process
        /\ q.pc \in {"loadKEK", "genKEK", "down"}
        /\ proc[p].pc # "up"
        /\ proc' = [proc EXCEPT ![p] = q]
    BY <1>2, <1>t DEF StatKEK, Goes, Exits, Down, Process, Starting
  <2> HIDE DEF q
  <2> QED BY <1>2, <2>1, StartMoves DEF Up, StatKEK, TypeOK
<1>3. CASE GenKEK(p)
  <2> DEFINE q == IF kekFile = "missing" THEN [proc[p] EXCEPT !.pc = "createKEK"] ELSE Down
  <2>1. /\ q \in Process
        /\ q.pc \in {"createKEK", "down"}
        /\ proc[p].pc # "up"
        /\ proc' = [proc EXCEPT ![p] = q]
    BY <1>3, <1>t DEF GenKEK, Goes, Exits, Down, Process, Starting
  <2> HIDE DEF q
  <2> QED BY <1>3, <2>1, StartMoves DEF Up, GenKEK, TypeOK
<1>4. CASE CreateKEK(p) \/ WriteKEK(p)
  <2> DEFINE q == [proc[p] EXCEPT !.pc = IF CreateKEK(p) THEN "writeKEK" ELSE "loadKEK"]
  <2>1. /\ q \in Process
        /\ q.pc \in {"writeKEK", "loadKEK"}
        /\ proc[p].pc # "up"
        /\ proc' = [proc EXCEPT ![p] = q]
    BY <1>4, <1>t DEF CreateKEK, WriteKEK, Goes, Process, Starting
  <2>2. kekFile' \in File /\ UNCHANGED <<jwtFile, companies, call, sessions>>
    BY <1>4 DEF CreateKEK, WriteKEK, File, Secret
  <2> HIDE DEF q
  <2> QED BY <2>1, <2>2, StartMoves DEF Up, TypeOK
<1>5. CASE LoadKEK(p)
  <2> DEFINE q == IF kekFile \in Secret
                    THEN [proc[p] EXCEPT !.pc = "readJWT", !.kek = kekFile]
                    ELSE Down
  <2>1. /\ q \in Process
        /\ q.pc \in {"readJWT", "down"}
        /\ q.pc = "readJWT" => q.kek \in Secret
        /\ proc[p].pc # "up"
        /\ proc' = [proc EXCEPT ![p] = q]
    BY <1>5, <1>t DEF LoadKEK, Goes, Exits, Down, Process, Starting
  <2> HIDE DEF q
  <2> QED BY <1>5, <2>1, StartMoves DEF Up, LoadKEK, TypeOK
<1>6. CASE ReadJWT(p)
  <2>0. proc[p].pc = "readJWT" /\ proc[p].kek \in Secret
    BY <1>6 DEF ReadJWT, Goes, Exits, TypeOK, Loaded
  <2> DEFINE q == IF jwtFile \in Secret
                    THEN [proc[p] EXCEPT !.pc = "up", !.jwt = jwtFile]
                    ELSE IF jwtFile = "missing" /\ p \in Makers
                           THEN [proc[p] EXCEPT !.pc = "createJWT"]
                           ELSE Down
  <2>1. /\ q \in Process
        /\ q.pc \in {"up", "createJWT"} => q.kek \in Secret
        /\ q.pc \in {"up", "createJWT", "down"}
        /\ q.pc = "up" => q.jwt \in Secret
        /\ proc[p].pc # "up"
        /\ proc' = [proc EXCEPT ![p] = q]
    BY <1>6, <1>t, <2>0, DeploymentAssumption
       DEF ReadJWT, Goes, Exits, Down, Process, Starting, Secret
  <2> HIDE DEF q
  <2> QED BY <1>6, <2>1, StartMoves DEF Up, ReadJWT, TypeOK
<1>7. CASE CreateJWT(p)
  <2> DEFINE q == [proc[p] EXCEPT !.pc = "writeJWT"]
  <2>1. /\ q \in Process
        /\ q.pc = "writeJWT"
        /\ q.kek \in Secret
        /\ proc[p].pc # "up"
        /\ proc' = [proc EXCEPT ![p] = q]
    BY <1>7, <1>t DEF CreateJWT, Goes, Process, Starting, TypeOK, Loaded
  <2> HIDE DEF q
  <2> QED BY <1>7, <2>1, StartMoves DEF Up, CreateJWT, TypeOK, File
<1>8. CASE WriteJWT(p)
  <2> DEFINE q == [proc[p] EXCEPT !.pc = "up", !.jwt = p]
  <2>1. /\ q \in Process
        /\ q.pc = "up"
        /\ q.kek \in Secret
        /\ q.jwt \in Secret
        /\ proc[p].pc # "up"
        /\ proc' = [proc EXCEPT ![p] = q]
    BY <1>8, <1>t DEF WriteJWT, Process, Starting, TypeOK, Loaded, Secret
  <2>2. jwtFile' \in File /\ UNCHANGED <<kekFile, companies, call, sessions>>
    BY <1>8 DEF WriteJWT, File, Secret
  <2> HIDE DEF q
  <2>3. proc' \in [Procs -> Process] /\ Loaded' /\ Served'
    BY <1>t, <2>1, <2>2, StartMoves DEF Up, TypeOK
  <2> QED BY <2>2, <2>3 DEF TypeOK
<1> QED BY <1>1, <1>2, <1>3, <1>4, <1>5, <1>6, <1>7, <1>8 DEF Start

LEMMA TypeCrash == ASSUME TypeOK, NEW p \in Procs, Crash(p) PROVE TypeOK'
<1>1. Down \in Process
  BY DEF Down, Process
<1>2. /\ proc' \in [Procs -> Process]
      /\ \A r \in Procs : r # p => proc'[r] = proc[r]
      /\ proc'[p].pc = "down"
  BY <1>1 DEF TypeOK, Crash, Down
<1>3. call' \in [Calls -> Call]
  BY DEF TypeOK, Crash, Call
<1>4. \A c \in Calls : call'[c].pc \in Pending => call'[c] = call[c] /\ call[c].at # p
  BY DEF TypeOK, Crash, Call, Pending
<1>5. Loaded'
  BY <1>2 DEF TypeOK, Loaded, Up
<1>6. Served'
  BY <1>2, <1>4 DEF TypeOK, Served, Up
<1> QED BY <1>2, <1>3, <1>5, <1>6 DEF TypeOK, Crash

\* A step of the call in slot c.
LEMMA TypeServe == ASSUME TypeOK, NEW c \in Calls, Serve(c) PROVE TypeOK'
<1> DEFINE Target == {"idle", "refused", "failed", "created", "lost"} \cup Pending
<1>1. /\ call[c].pc \in Pending
      /\ UNCHANGED <<kekFile, jwtFile, proc>>
      /\ \E to \in Target : Moves(c, to)
  BY DEF Serve, CountAdmins, Insert, Fail, Sign, GiveUp, Pending
<1>2. call' \in [Calls -> Call] /\ Served'
  BY <1>1, CallMoves DEF TypeOK
<1>3. Loaded'
  BY <1>1 DEF TypeOK, Loaded, Up
<1>4. /\ call[c].form \in Forms
      /\ proc[call[c].at].kek \in Secret
      /\ proc[call[c].at].jwt \in Secret
  BY <1>1 DEF TypeOK, Loaded, Served, Up
<1>5. companies' \subseteq [form : Forms, kek : Secret]
  BY <1>4 DEF Serve, CountAdmins, Insert, Fail, Sign, GiveUp, TypeOK
<1>6. sessions' \subseteq Secret
  BY <1>4 DEF Serve, CountAdmins, Insert, Fail, Sign, GiveUp, TypeOK
<1> QED BY <1>1, <1>2, <1>3, <1>5, <1>6 DEF TypeOK

LEMMA TypeSubmit ==
  ASSUME TypeOK, NEW c \in Calls, NEW p \in Procs, NEW f \in Forms, Submit(c, p, f)
  PROVE  TypeOK'
<1>1. call' \in [Calls -> Call]
  BY DEF TypeOK, Submit, Call, Pending
<1>2. Loaded'
  BY DEF TypeOK, Submit, Loaded, Up
<1>3. Served'
  BY DEF TypeOK, Submit, Served, Up
<1> QED BY <1>1, <1>2, <1>3 DEF TypeOK, Submit

LEMMA TypeNext == TypeOK /\ [Next]_vars => TypeOK'
<1> SUFFICES ASSUME TypeOK, [Next]_vars PROVE TypeOK'
  OBVIOUS
<1>1. ASSUME NEW p \in Procs, Start(p) \/ Launch(p) PROVE TypeOK'
  BY <1>1, TypeStart
<1>2. ASSUME NEW p \in Procs, Crash(p) PROVE TypeOK'
  BY <1>2, TypeCrash
<1>3. ASSUME NEW p \in Procs, Login(p) PROVE TypeOK'
  BY <1>3 DEF Login, TypeOK, Loaded, Served, Up
<1>4. CASE Install
  BY <1>4 DEF Install, TypeOK, Loaded, Served, Up, File, Secret
<1>5. ASSUME NEW c \in Calls, Serve(c) PROVE TypeOK'
  BY <1>5, TypeServe
<1>6. ASSUME NEW c \in Calls, NEW p \in Procs, NEW f \in Forms, Submit(c, p, f) PROVE TypeOK'
  BY <1>6, TypeSubmit
<1>7. CASE UNCHANGED vars
  BY <1>7 DEF vars, TypeOK, Loaded, Served, Up
<1> QED BY <1>1, <1>2, <1>3, <1>4, <1>5, <1>6, <1>7 DEF Next

\* The secrets a process serves with are whole secrets, and no call outlives
\* the process that serves it.
THEOREM TypeCorrect == Spec => []TypeOK
BY TypeInit, TypeNext, PTL DEF Spec

-----------------------------------------------------------------------------
\* Deployments in which one process at most makes secrets.

LEMMA SoleInit == Init => SoleMakerInv
<1> SUFFICES ASSUME Init PROVE SoleMakerInv
  OBVIOUS
<1>1. TypeOK
  BY TypeInit
<1> QED BY <1>1 DEF Init, SoleMakerInv, MakingInv, HoldingInv, Down, NoCall, Pending, Up

\* A step that touches a file finds no secret in it, so nobody who holds or
\* stored a secret is concerned.
LEMMA SecretsAreKept ==
  ASSUME SoleMakerInv, TypeOK',
         kekFile' # kekFile => kekFile \notin Secret,
         jwtFile' # jwtFile => jwtFile \notin Secret
  PROVE  /\ \A r \in Procs : proc'[r] = proc[r] =>
              /\ proc'[r].pc \in {"readJWT", "createJWT", "writeJWT", "up"} =>
                   proc'[r].kek = kekFile'
              /\ proc'[r].pc = "up" => proc'[r].jwt = jwtFile'
         /\ \A row \in companies : row.kek = kekFile'
         /\ \A s \in sessions : s = jwtFile'
BY DEF SoleMakerInv, HoldingInv, TypeOK, Loaded, Up

LEMMA SoleStart ==
  ASSUME SoleMaker, SoleMakerInv, NEW p \in Procs, Start(p) \/ Launch(p)
  PROVE  SoleMakerInv'
<1>1. TypeOK'
  BY TypeStart DEF SoleMakerInv
<1>2. UNCHANGED <<companies, sessions>>
  BY DEF Start, Launch, StatKEK, GenKEK, CreateKEK, WriteKEK, LoadKEK,
         ReadJWT, CreateJWT, WriteJWT
<1>3. /\ proc \in [Procs -> Process]
      /\ {"missing", "empty"} \cap Secret = {}
      /\ p \in Secret
  BY DeploymentAssumption DEF SoleMakerInv, TypeOK, Secret
<1>4. \A r \in Procs : r # p => proc'[r] = proc[r]
  BY <1>3 DEF Start, Launch, StatKEK, GenKEK, CreateKEK, WriteKEK, LoadKEK,
             ReadJWT, CreateJWT, WriteJWT, Goes, Exits
<1>5. /\ kekFile' # kekFile => kekFile \notin Secret /\ p \in Makers
      /\ jwtFile' # jwtFile => jwtFile \notin Secret /\ p \in Makers
  <2>1. CASE CreateKEK(p) \/ WriteKEK(p) \/ CreateJWT(p) \/ WriteJWT(p)
    BY <2>1, <1>3 DEF CreateKEK, WriteKEK, CreateJWT, WriteJWT, Goes, SoleMakerInv, MakingInv
  <2>2. CASE Launch(p) \/ StatKEK(p) \/ GenKEK(p) \/ LoadKEK(p) \/ ReadJWT(p)
    BY <2>2 DEF Launch, StatKEK, GenKEK, LoadKEK, ReadJWT
  <2> QED BY <2>1, <2>2 DEF Start
\* What p knows after its step.
<1>6. /\ proc'[p].pc \in {"genKEK", "createKEK", "writeKEK", "createJWT", "writeJWT"} => p \in Makers
      /\ proc'[p].pc \in {"genKEK", "createKEK"} => kekFile' = "missing"
      /\ proc'[p].pc = "writeKEK" => kekFile' = "empty"
      /\ proc'[p].pc = "createJWT" => jwtFile' = "missing"
      /\ proc'[p].pc = "writeJWT" => jwtFile' = "empty"
      /\ proc'[p].pc \in {"readJWT", "createJWT", "writeJWT", "up"} => proc'[p].kek = kekFile'
      /\ proc'[p].pc = "up" => proc'[p].jwt = jwtFile'
  <2>1. CASE Launch(p)
    BY <2>1, <1>3 DEF Launch, Goes, Process
  <2>2. CASE StatKEK(p)
    BY <2>2, <1>3 DEF StatKEK, Goes, Exits, Process, Down
  <2>3. CASE GenKEK(p)
    BY <2>3, <1>3 DEF GenKEK, Goes, Exits, Process, Down, SoleMakerInv, MakingInv
  <2>4. CASE CreateKEK(p)
    BY <2>4, <1>3 DEF CreateKEK, Goes, Process, SoleMakerInv, MakingInv
  <2>5. CASE WriteKEK(p)
    BY <2>5, <1>3 DEF WriteKEK, Goes, Process
  <2>6. CASE LoadKEK(p)
    BY <2>6, <1>3 DEF LoadKEK, Goes, Exits, Process, Down
  <2>7. CASE ReadJWT(p)
    BY <2>7, <1>3 DEF ReadJWT, Goes, Exits, Process, Down, SoleMakerInv, HoldingInv
  <2>8. CASE CreateJWT(p)
    BY <2>8, <1>3 DEF CreateJWT, Goes, Process, SoleMakerInv, MakingInv, HoldingInv
  <2>9. CASE WriteJWT(p)
    BY <2>9, <1>3 DEF WriteJWT, Process, SoleMakerInv, HoldingInv
  <2> QED BY <2>1, <2>2, <2>3, <2>4, <2>5, <2>6, <2>7, <2>8, <2>9 DEF Start
<1>7. MakingInv'
  BY <1>4, <1>5, <1>6 DEF SoleMaker, SoleMakerInv, MakingInv
<1>8. HoldingInv'
  BY <1>1, <1>4, <1>5, <1>6, SecretsAreKept DEF HoldingInv, Up
<1> QED BY <1>1, <1>2, <1>5, <1>7, <1>8, SecretsAreKept DEF SoleMakerInv

\* A step of the call in slot c: its process holds what the files hold.
LEMMA SoleServe == ASSUME SoleMakerInv, NEW c \in Calls, Serve(c) PROVE SoleMakerInv'
<1>1. TypeOK'
  BY TypeServe DEF SoleMakerInv
<1>2. UNCHANGED <<kekFile, jwtFile, proc>>
  BY DEF Serve, CountAdmins, Insert, Fail, Sign, GiveUp
<1>3. proc[call[c].at].kek = kekFile /\ proc[call[c].at].jwt = jwtFile
  BY DEF SoleMakerInv, HoldingInv, TypeOK, Served, Up,
         Serve, CountAdmins, Insert, Fail, Sign, GiveUp, Pending
<1>4. \A row \in companies' : row.kek = kekFile
  BY <1>3 DEF SoleMakerInv, Serve, CountAdmins, Insert, Fail, Sign, GiveUp
<1>5. \A s \in sessions' : s = jwtFile
  BY <1>3 DEF SoleMakerInv, Serve, CountAdmins, Insert, Fail, Sign, GiveUp
<1> QED BY <1>1, <1>2, <1>4, <1>5 DEF SoleMakerInv, MakingInv, HoldingInv, Up

LEMMA SoleNext == SoleMaker /\ SoleMakerInv /\ [Next]_vars => SoleMakerInv'
<1> SUFFICES ASSUME SoleMaker, SoleMakerInv, [Next]_vars PROVE SoleMakerInv'
  OBVIOUS
<1>t. TypeOK'
  BY TypeNext DEF SoleMakerInv
<1>1. ASSUME NEW p \in Procs, Start(p) \/ Launch(p) PROVE SoleMakerInv'
  BY <1>1, SoleStart
<1>2. ASSUME NEW p \in Procs, Crash(p) PROVE SoleMakerInv'
  <2>1. \A r \in Procs : proc'[r] = proc[r] \/ proc'[r] = Down
    BY <1>2 DEF Crash, SoleMakerInv, TypeOK
  <2> QED BY <1>2, <1>t, <2>1 DEF Crash, SoleMakerInv, MakingInv, HoldingInv, Up, Down
<1>3. ASSUME NEW p \in Procs, Login(p) PROVE SoleMakerInv'
  BY <1>3, <1>t DEF Login, SoleMakerInv, MakingInv, HoldingInv, Up
<1>4. CASE Install
  <2>1. /\ kekFile' # kekFile => kekFile \notin Secret
        /\ jwtFile' # jwtFile => jwtFile \notin Secret
    BY <1>4, DeploymentAssumption DEF Install, Secret
  <2>2. UNCHANGED <<proc, companies, sessions>> /\ \A p \in Makers : proc[p].pc = "down"
    BY <1>4 DEF Install
  <2>3. MakingInv'
    BY <2>2 DEF SoleMakerInv, MakingInv
  <2>4. HoldingInv'
    BY <1>t, <2>1, <2>2, SecretsAreKept DEF HoldingInv, Up
  <2> QED BY <1>t, <2>1, <2>2, <2>3, <2>4, SecretsAreKept DEF SoleMakerInv
<1>5. ASSUME NEW c \in Calls, Serve(c) PROVE SoleMakerInv'
  BY <1>5, SoleServe
<1>6. ASSUME NEW c \in Calls, NEW p \in Procs, NEW f \in Forms, Submit(c, p, f)
      PROVE  SoleMakerInv'
  BY <1>6, <1>t DEF Submit, SoleMakerInv, MakingInv, HoldingInv, Up
<1>7. CASE UNCHANGED vars
  BY <1>7, <1>t DEF vars, SoleMakerInv, MakingInv, HoldingInv, Up
<1> QED BY <1>1, <1>2, <1>3, <1>4, <1>5, <1>6, <1>7 DEF Next

\* With one process at most that makes secrets (initKEK, initJWTSecret without
\* LEAKSHIELD_PROD), what is made is made while it is missing, and what any
\* process holds is what the files hold.
THEOREM SoleMakerInvariance == Spec /\ SoleMaker => []SoleMakerInv
<1> SUFFICES ASSUME SoleMaker PROVE Spec => []SoleMakerInv
  OBVIOUS
<1>1. SoleMakerInv /\ [Next]_vars => SoleMakerInv'
  BY SoleNext
<1> QED BY <1>1, SoleInit, PTL DEF Spec

\* Then what a tenant stored stays readable by every process, now and after any
\* restart, whatever crashed and however many processes share the files.
THEOREM SoleMakerKeepsData == Spec /\ SoleMaker => []DataStaysReadable
<1>1. SoleMakerInv => DataStaysReadable
  BY DEF SoleMakerInv, HoldingInv, DataStaysReadable, Up
<1> QED BY <1>1, SoleMakerInvariance, PTL

\* And a session is accepted by every process, now and after any restart.
THEOREM SoleMakerKeepsSessions == Spec /\ SoleMaker => []SessionsStayValid
<1>1. SoleMakerInv => SessionsStayValid
  BY DEF SoleMakerInv, HoldingInv, SessionsStayValid, Up
<1> QED BY <1>1, SoleMakerInvariance, PTL

\* Whatever the number of submissions, retries and crashes: once there is a
\* company and no submission between its count and its insert, no other
\* company is created (PostBootstrap).
THEOREM SetupStaysClosed == Spec => SetupCloses
<1>1. ASSUME TypeOK, Closed, Next \/ UNCHANGED vars PROVE Closed' /\ UNCHANGED companies
  <2>t. /\ call \in [Calls -> Call]
        /\ companies # {}
        /\ \A c \in Calls : call[c].pc # "insert"
    BY <1>1 DEF TypeOK, Closed
  <2>1. ASSUME NEW c \in Calls, CountAdmins(c) PROVE Closed' /\ UNCHANGED companies
    BY <2>t, <2>1 DEF CountAdmins, Moves, Closed
  <2>2. ASSUME NEW c \in Calls, Fail(c) \/ Sign(c) \/ GiveUp(c)
        PROVE  Closed' /\ UNCHANGED companies
    <3>1. /\ UNCHANGED companies
          /\ Moves(c, "failed") \/ Moves(c, "created") \/ Moves(c, "lost")
      BY <2>2 DEF Fail, Sign, GiveUp
    <3>2. \A d \in Calls : call'[d].pc \in {call[d].pc, "failed", "created", "lost"}
      BY <2>t, <3>1 DEF Moves, Call
    <3> QED BY <2>t, <3>1, <3>2 DEF Closed
  <2>3. ASSUME NEW c \in Calls, Insert(c) PROVE FALSE
    BY <2>t, <2>3 DEF Insert
  <2>4. ASSUME NEW c \in Calls, NEW p \in Procs, NEW f \in Forms, Submit(c, p, f)
        PROVE  Closed' /\ UNCHANGED companies
    BY <2>t, <2>4 DEF Submit, Closed
  <2>5. ASSUME NEW p \in Procs, Crash(p) PROVE Closed' /\ UNCHANGED companies
    <3>1. \A c \in Calls : call'[c].pc \in {call[c].pc, "lost"}
      BY <2>t, <2>5 DEF Crash, Call
    <3> QED BY <2>t, <2>5, <3>1 DEF Crash, Closed
  <2>6. ASSUME UNCHANGED <<companies, call>> PROVE Closed' /\ UNCHANGED companies
    BY <2>t, <2>6 DEF Closed
  <2>7. ASSUME NEW p \in Procs, Launch(p) \/ Start(p) \/ Login(p)
        PROVE  UNCHANGED <<companies, call>>
    BY <2>7 DEF Launch, Login, Start, StatKEK, GenKEK, CreateKEK, WriteKEK, LoadKEK,
                ReadJWT, CreateJWT, WriteJWT
  <2>8. ASSUME Install \/ UNCHANGED vars PROVE UNCHANGED <<companies, call>>
    BY <2>8 DEF Install, vars
  <2> QED BY <1>1, <2>1, <2>2, <2>3, <2>4, <2>5, <2>6, <2>7, <2>8 DEF Next, Serve
<1>2. TypeOK /\ [Next]_vars => [Closed => Closed' /\ UNCHANGED companies]_vars
  BY <1>1, Zenon
<1> QED BY <1>2, TypeCorrect, PTL DEF Spec, SetupCloses
=============================================================================

------------------------------ MODULE FirstRun ------------------------------
(***************************************************************************)
(* The first run of an installation: gateway processes ("serve", "admin")  *)
(* that find or make the key-encryption key and the session secret on a    *)
(* disk they share (gateway/internal/server/bootstrap.go,                  *)
(* gateway/internal/crypto/envelope.go), and the public endpoints that     *)
(* create the first company and hand out sessions                          *)
(* (gateway/internal/handlers/admin/auth.go,                               *)
(* gateway/internal/store/companies.go).                                   *)
(*                                                                         *)
(* A process may die at any step and is started again.  A secret is named  *)
(* after whoever made it: a process writes each file at most once, because *)
(* nothing removes a file again.                                           *)
(***************************************************************************)
CONSTANTS
  Procs,     \* processes that share the disk and the database
  Calls,     \* concurrent submissions of the create-admin form
  Forms,     \* what visitors fill in
  Slug,      \* Slug[f]: the company slug of form f
  Email,     \* Email[f]: the admin's e-mail address in form f
  Makers,    \* the processes that make a missing secret: LEAKSHIELD_PROD is unset
  Operator,  \* who installs secrets by hand
  Nobody     \* no process, form or secret

ASSUME DeploymentAssumption ==
  /\ Makers \subseteq Procs
  /\ Operator \notin Procs
  /\ Nobody \notin Procs \cup Forms \cup {Operator}
  /\ {"missing", "empty"} \cap (Procs \cup {Operator}) = {}

VARIABLES
  kekFile,    \* the KEK file: "missing", "empty" (created, not yet written) or a secret
  jwtFile,    \* the file of the session secret, likewise
  proc,       \* proc[p]: what process p is doing and the secrets it holds
  companies,  \* the companies rows, each with its first admin
  call,       \* call[c]: the submission in slot c
  sessions    \* the secrets some client holds a token of

vars == <<kekFile, jwtFile, proc, companies, call, sessions>>

Secret == Procs \cup {Operator}

File == {"missing", "empty"} \cup Secret

\* Where a start can be.
Starting == {"statKEK", "genKEK", "createKEK", "writeKEK", "loadKEK",
             "readJWT", "createJWT", "writeJWT"}

Down == [pc |-> "down", kek |-> Nobody, jwt |-> Nobody]

Up(p) == proc[p].pc = "up"

Pending == {"count", "insert", "sign"}

NoCall == [pc |-> "idle", at |-> Nobody, form |-> Nobody]

Init ==
  /\ kekFile \in {"missing", Operator}
  /\ jwtFile \in {"missing", Operator}
  /\ proc = [p \in Procs |-> Down]
  /\ companies = {}
  /\ call = [c \in Calls |-> NoCall]
  /\ sessions = {}

-----------------------------------------------------------------------------
\* The start of a process: initKEK, then initJWTSecret.

\* Process p goes from one step of its start to another.
Goes(p, from, to) ==
  /\ proc[p].pc = from
  /\ proc' = [proc EXCEPT ![p].pc = to]

\* The start fails: the process exits.
Exits(p, from) ==
  /\ proc[p].pc = from
  /\ proc' = [proc EXCEPT ![p] = Down]

Launch(p) ==
  /\ Goes(p, "down", "statKEK")
  /\ UNCHANGED <<kekFile, jwtFile, companies, call, sessions>>

\* Faulty StatKEK: LEAKSHIELD_PROD is not looked at.
StatKEKMaking(p) ==
  /\ Goes(p, "statKEK", IF kekFile = "missing" THEN "genKEK" ELSE "loadKEK")
  /\ UNCHANGED <<kekFile, jwtFile, companies, call, sessions>>

StatKEK(p) ==
  /\ \/ kekFile # "missing" /\ Goes(p, "statKEK", "loadKEK")
     \/ kekFile = "missing" /\ p \in Makers /\ Goes(p, "statKEK", "genKEK")
     \/ kekFile = "missing" /\ p \notin Makers /\ Exits(p, "statKEK")
  /\ UNCHANGED <<kekFile, jwtFile, companies, call, sessions>>

\* Faulty GenKEK: who finds the file made meanwhile waits.
GenKEKWaiting(p) ==
  /\ kekFile = "missing"
  /\ Goes(p, "genKEK", "createKEK")
  /\ UNCHANGED <<kekFile, jwtFile, companies, call, sessions>>

\* GenerateAndWriteKEK looks a second time before it writes.
GenKEK(p) ==
  /\ \/ kekFile = "missing" /\ Goes(p, "genKEK", "createKEK")
     \/ kekFile # "missing" /\ Exits(p, "genKEK")
  /\ UNCHANGED <<kekFile, jwtFile, companies, call, sessions>>

\* os.WriteFile: open with O_CREATE and O_TRUNC ...
CreateKEK(p) ==
  /\ Goes(p, "createKEK", "writeKEK")
  /\ kekFile' = "empty"
  /\ UNCHANGED <<jwtFile, companies, call, sessions>>

\* ... then write.
WriteKEK(p) ==
  /\ Goes(p, "writeKEK", "loadKEK")
  /\ kekFile' = p
  /\ UNCHANGED <<jwtFile, companies, call, sessions>>

\* Faulty LoadKEK: the length of the key is not checked.
LoadAnyKEK(p) ==
  /\ \/ /\ kekFile # "missing"
        /\ proc[p].pc = "loadKEK"
        /\ proc' = [proc EXCEPT ![p].pc = "readJWT", ![p].kek = kekFile]
     \/ kekFile = "missing" /\ Exits(p, "loadKEK")
  /\ UNCHANGED <<kekFile, jwtFile, companies, call, sessions>>

\* NewLocalKEKFromFile: whatever the file now holds, unless it is too short.
LoadKEK(p) ==
  /\ \/ /\ kekFile \in Secret
        /\ proc[p].pc = "loadKEK"
        /\ proc' = [proc EXCEPT ![p].pc = "readJWT", ![p].kek = kekFile]
     \/ kekFile \notin Secret /\ Exits(p, "loadKEK")
  /\ UNCHANGED <<kekFile, jwtFile, companies, call, sessions>>

ReadJWT(p) ==
  /\ \/ /\ jwtFile \in Secret
        /\ proc[p].pc = "readJWT"
        /\ proc' = [proc EXCEPT ![p].pc = "up", ![p].jwt = jwtFile]
     \/ jwtFile = "empty" /\ Exits(p, "readJWT")
     \/ jwtFile = "missing" /\ p \in Makers /\ Goes(p, "readJWT", "createJWT")
     \/ jwtFile = "missing" /\ p \notin Makers /\ Exits(p, "readJWT")
  /\ UNCHANGED <<kekFile, jwtFile, companies, call, sessions>>

CreateJWT(p) ==
  /\ Goes(p, "createJWT", "writeJWT")
  /\ jwtFile' = "empty"
  /\ UNCHANGED <<kekFile, companies, call, sessions>>

\* Faulty WriteJWT: the secret never reaches the disk.
WriteJWTInMemory(p) ==
  /\ proc[p].pc = "writeJWT"
  /\ proc' = [proc EXCEPT ![p].pc = "up", ![p].jwt = p]
  /\ UNCHANGED <<kekFile, jwtFile, companies, call, sessions>>

\* The new secret is used as it is; the file is not read back.
WriteJWT(p) ==
  /\ proc[p].pc = "writeJWT"
  /\ proc' = [proc EXCEPT ![p].pc = "up", ![p].jwt = p]
  /\ jwtFile' = p
  /\ UNCHANGED <<kekFile, companies, call, sessions>>

\* The process dies, in its start or later, and with it what it was serving.
Crash(p) ==
  /\ proc[p].pc # "down"
  /\ proc' = [proc EXCEPT ![p] = Down]
  /\ call' = [c \in Calls |->
                IF call[c].at = p /\ call[c].pc \in Pending
                  THEN [call[c] EXCEPT !.pc = "lost"]
                  ELSE call[c]]
  /\ UNCHANGED <<kekFile, jwtFile, companies, sessions>>

\* The operator mounts the secrets a production start asks for, at any moment
\* no process is about to make them.
Install ==
  /\ \A p \in Makers : proc[p].pc = "down"
  /\ \/ kekFile = "missing" /\ kekFile' = Operator /\ UNCHANGED jwtFile
     \/ jwtFile = "missing" /\ jwtFile' = Operator /\ UNCHANGED kekFile
  /\ UNCHANGED <<proc, companies, call, sessions>>

-----------------------------------------------------------------------------
\* POST /auth/bootstrap.

Moves(c, to) == call' = [call EXCEPT ![c].pc = to]

Submit(c, p, f) ==
  /\ call[c].pc \notin Pending
  /\ Up(p)
  /\ call' = [call EXCEPT ![c] = [pc |-> "count", at |-> p, form |-> f]]
  /\ UNCHANGED <<kekFile, jwtFile, proc, companies, sessions>>

\* Faulty CountAdmins: only a company of the same name counts.
CountAdminsByName(c) ==
  /\ call[c].pc = "count"
  /\ Moves(c, IF \A row \in companies : Slug[row.form] # Slug[call[c].form]
                THEN "insert" ELSE "refused")
  /\ UNCHANGED <<kekFile, jwtFile, proc, companies, sessions>>

\* CountAdmins: 409 once there is an admin.
CountAdmins(c) ==
  /\ call[c].pc = "count"
  /\ Moves(c, IF companies = {} THEN "insert" ELSE "refused")
  /\ UNCHANGED <<kekFile, jwtFile, proc, companies, sessions>>

\* UNIQUE (slug) of companies and UNIQUE (email) of admins.
Unique(f) == \A row \in companies : Slug[row.form] # Slug[f] /\ Email[row.form] # Email[f]

\* DB.Bootstrap: one transaction writes the company, with a DEK wrapped under
\* the KEK this process holds, and its admin.
Insert(c) ==
  /\ call[c].pc = "insert"
  /\ Unique(call[c].form)
  /\ companies' = companies \cup {[form |-> call[c].form, kek |-> proc[call[c].at].kek]}
  /\ Moves(c, "sign")
  /\ UNCHANGED <<kekFile, jwtFile, proc, sessions>>

\* 503, 400 or 500: the database does not answer, the form is not valid, a row
\* of that name is there already.
Fail(c) ==
  /\ call[c].pc \in {"count", "insert"}
  /\ Moves(c, "failed")
  /\ UNCHANGED <<kekFile, jwtFile, proc, companies, sessions>>

\* 201 with a token.
Sign(c) ==
  /\ call[c].pc = "sign"
  /\ sessions' = sessions \cup {proc[call[c].at].jwt}
  /\ Moves(c, "created")
  /\ UNCHANGED <<kekFile, jwtFile, proc, companies>>

\* The panel's five seconds are over: it never learns how the call ended.
GiveUp(c) ==
  /\ call[c].pc \in Pending
  /\ Moves(c, "lost")
  /\ UNCHANGED <<kekFile, jwtFile, proc, companies, sessions>>

\* POST /auth/login with the password of an admin that exists.
Login(p) ==
  /\ Up(p)
  /\ companies # {}
  /\ sessions' = sessions \cup {proc[p].jwt}
  /\ UNCHANGED <<kekFile, jwtFile, proc, companies, call>>

-----------------------------------------------------------------------------
Start(p) ==
  \/ StatKEK(p) \/ GenKEK(p) \/ CreateKEK(p) \/ WriteKEK(p) \/ LoadKEK(p)
  \/ ReadJWT(p) \/ CreateJWT(p) \/ WriteJWT(p)

Serve(c) == CountAdmins(c) \/ Insert(c) \/ Fail(c) \/ Sign(c) \/ GiveUp(c)

Next ==
  \/ \E p \in Procs : Launch(p) \/ Start(p) \/ Crash(p) \/ Login(p)
  \/ Install
  \/ \E c \in Calls : Serve(c) \/ (\E p \in Procs, f \in Forms : Submit(c, p, f))

Spec == Init /\ [][Next]_vars

\* A process that was launched is scheduled, its handlers run, and the
\* orchestrator launches what exited; nobody has to submit or log in, the
\* operator need not install anything and nothing has to crash.
FairSpec ==
  /\ Spec
  /\ \A p \in Procs : WF_vars(Start(p)) /\ WF_vars(Launch(p))
  /\ \A c \in Calls : WF_vars(Serve(c))

-----------------------------------------------------------------------------
\* Properties.

Process ==
  [pc : {"down", "up"} \cup Starting, kek : Secret \cup {Nobody}, jwt : Secret \cup {Nobody}]

Call ==
  [pc : {"idle", "refused", "failed", "created", "lost"} \cup Pending,
   at : Procs \cup {Nobody}, form : Forms \cup {Nobody}]

\* A process past initKEK holds a KEK, and one that is up a session secret.
Loaded ==
  \A p \in Procs :
    /\ proc[p].pc \in {"readJWT", "createJWT", "writeJWT", "up"} => proc[p].kek \in Secret
    /\ Up(p) => proc[p].jwt \in Secret

\* A pending call is served by a process that is up.
Served ==
  \A c \in Calls :
    call[c].pc \in Pending => call[c].form \in Forms /\ call[c].at \in Procs /\ Up(call[c].at)

\* The shape of the state; who serves has both secrets, and no call outlives
\* the process that serves it.
TypeOK ==
  /\ kekFile \in File
  /\ jwtFile \in File
  /\ proc \in [Procs -> Process]
  /\ companies \subseteq [form : Forms, kek : Secret]
  /\ call \in [Calls -> Call]
  /\ sessions \subseteq Secret
  /\ Loaded
  /\ Served

\* What a tenant stored stays readable: every process that serves, and every
\* process started later, holds the KEK the tenant's DEK was wrapped under
\* (initKEK, Resolver.Bootstrap), whatever crashed in between.
DataStaysReadable ==
  \A row \in companies :
    /\ kekFile = row.kek
    /\ \A p \in Procs : Up(p) => proc[p].kek = row.kek

\* A session survives restarts and is accepted by every process
\* (initJWTSecret, JWTMiddleware).
SessionsStayValid ==
  \A s \in sessions :
    /\ jwtFile = s
    /\ \A p \in Procs : Up(p) => proc[p].jwt = s

\* The deployments for which both hold: one process at most makes secrets, the
\* others run with LEAKSHIELD_PROD.
SoleMaker == \A p, q \in Makers : p = q

\* Why they hold then: whoever is about to make a secret has seen that it is
\* missing and nobody else can make it meanwhile, so a file with a secret is
\* never touched again, and what a process holds is what the file holds.
MakingInv ==
  \A p \in Procs :
    /\ proc[p].pc \in {"genKEK", "createKEK", "writeKEK", "createJWT", "writeJWT"} => p \in Makers
    /\ proc[p].pc \in {"genKEK", "createKEK"} => kekFile = "missing"
    /\ proc[p].pc = "writeKEK" => kekFile = "empty"
    /\ proc[p].pc = "createJWT" => jwtFile = "missing"
    /\ proc[p].pc = "writeJWT" => jwtFile = "empty"

HoldingInv ==
  \A p \in Procs :
    /\ proc[p].pc \in {"readJWT", "createJWT", "writeJWT", "up"} => proc[p].kek = kekFile
    /\ Up(p) => proc[p].jwt = jwtFile

SoleMakerInv ==
  /\ TypeOK
  /\ MakingInv
  /\ HoldingInv
  /\ \A row \in companies : row.kek = kekFile
  /\ \A s \in sessions : s = jwtFile

\* PostBootstrap creates the first company only.  It counts the admins before
\* the transaction that inserts one, so two submissions may both pass; but as
\* soon as there is a company and nobody is between the count and the insert,
\* setup is closed: no later submission, and no retry of one whose answer was
\* lost, gets past the count.
Closed == companies # {} /\ \A c \in Calls : call[c].pc # "insert"

SetupCloses == [][Closed => Closed' /\ UNCHANGED companies]_vars

\* crypto/envelope.go on GenerateAndWriteKEK: it refuses to overwrite an
\* existing file.
KEKIsNotClobbered == [][(kekFile \in Secret) => UNCHANGED kekFile]_kekFile

\* A start that nothing kills ends, and a process that is down forever is one
\* the files keep down: a secret that is missing and not for this process to
\* make, or one whose writer died between creating the file and writing it.
Unstartable == {kekFile, jwtFile} \cap {"missing", "empty"} # {}

StartsUnlessFilesKeepItDown ==
  \A p \in Procs : ([]<>Up(p)) \/ ([]<><<Crash(p)>>_vars) \/ <>[]Unstartable
=============================================================================

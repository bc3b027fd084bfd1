------------------------------- MODULE Service -------------------------------
(***************************************************************************)
(* The service as its users meet it: client programs (cmd/client,          *)
(* api/client), the interceptors and handlers of the server (api/server)   *)
(* and its orderly end, over the job library.  A client program makes one  *)
(* call.  Jobs are those of JobLifecycle, which JobsLib implements; of the *)
(* library's own steps those are kept that a call can wait for, and mu.    *)
(* The output of a stream is in OutputStream, the teardown in ServerRun.   *)
(***************************************************************************)
EXTENDS ClientAuth

CONSTANTS
    Chains,  \* certificate chains that the TLS handshake lets through
    Jobs,    \* job IDs that Start can draw
    Calls,   \* client programs, numbered in the order in which they are run
    CommandLines  \* call -> the operations and certificates it may be run with

Operations == {"Start", "Stop", "Status", "StreamOutput"}

ASSUME ServiceAssumption ==
    /\ Chains \subseteq Seq(Certificates) \ {<<>>}
    /\ "" \notin Jobs
    /\ Calls \subseteq Nat
    /\ CommandLines \in [Calls -> SUBSET (Operations \X Chains)]

VARIABLES
    server,  \* serving, stopping (in GracefulStop), stopped
    state, alive,  \* the jobs, see JobLifecycle
    owner,   \* job -> ClientName
    mu,      \* the Stop calls that hold JobsLib.mu while they poll
    pc,      \* call -> where its request is
    op, target, chain,  \* call -> operation, job ID and certificates
    ctx,     \* call -> the client info in the context of its handler
    answer,  \* call -> the status on its way to the client, or printed
    gone     \* calls whose client has left: their context is done

jobVars  == <<state, alive, owner>>
argVars  == <<op, target, chain>>
vars == <<server, state, alive, owner, mu, pc, op, target, chain, ctx, answer, gone>>

Lib == INSTANCE JobLifecycle

\* Where a call is while its handler runs.
Pending == {"library", "publish", "stop", "live", "final"}

Statuses == {"ok", "Canceled", "Unauthenticated", "PermissionDenied", "Aborted",
             "Internal", "Unavailable", "panic"}

TypeOK ==
    /\ server \in {"serving", "stopping", "stopped"}
    /\ state \in [Jobs -> {"Unspecified", "Running", "TerminatedByAPI", "Completed"}]
    /\ alive \in [Jobs -> {"not started", "started", "collected"}]
    /\ owner \in [Jobs -> Names \cup {""}]
    /\ mu \subseteq Calls
    /\ pc \in [Calls -> Pending \cup {"idle", "sent", "answered", "over"}]
    /\ op \in [Calls -> Operations \cup {"none"}]
    /\ target \in [Calls -> Jobs \cup {""}]
    /\ chain \in [Calls -> Chains \cup {<<>>}]
    /\ ctx \in [Calls -> Contexts]
    /\ answer \in [Calls -> Statuses \cup {"none"}]
    /\ gone \subseteq Calls

Init ==
    /\ server = "serving"
    /\ Lib!Init
    /\ owner = [j \in Jobs |-> ""]
    /\ mu = {} /\ gone = {}
    /\ pc = [c \in Calls |-> "idle"]
    /\ op = [c \in Calls |-> "none"]
    /\ target = [c \in Calls |-> ""]
    /\ chain = [c \in Calls |-> <<>>]
    /\ ctx = [c \in Calls |-> Background]
    /\ answer = [c \in Calls |-> "none"]

Goto(c, label) == pc' = [pc EXCEPT ![c] = label]

\* An answer goes nowhere when its client has left.
Answer(c, status) ==
    IF c \in gone THEN Goto(c, "over") /\ UNCHANGED answer
    ELSE Goto(c, "answered") /\ answer' = [answer EXCEPT ![c] = status]

-----------------------------------------------------------------------------
(* The client program                                                      *)

Printed(c) == pc[c] = "over" /\ c \notin gone

\* IDs are not guessed: a user knows those that a Start has printed.
Told == {target[c] : c \in {d \in Calls : op[d] = "Start" /\ Printed(d) /\ answer[d] = "ok"}}

NextToRun(c) == pc[c] = "idle" /\ \A d \in Calls : d < c => pc[d] # "idle"

\* "" is an ID that no Start has drawn.
ClientMain(c) ==
    /\ NextToRun(c)
    /\ \E cmd \in CommandLines[c], j \in Told \cup {""} :
         /\ cmd[1] = "Start" => j = ""
         /\ op' = [op EXCEPT ![c] = cmd[1]]
         /\ chain' = [chain EXCEPT ![c] = cmd[2]]
         /\ target' = [target EXCEPT ![c] = j]
    /\ Goto(c, "sent")
    /\ UNCHANGED <<server, jobVars, mu, ctx, answer, gone>>

\* parseCommandLineArgs or NewClient fails, and nothing is sent.
ClientFails(c) ==
    /\ NextToRun(c)
    /\ Goto(c, "over")
    /\ UNCHANGED <<server, jobVars, mu, argVars, ctx, answer, gone>>

\* The answer arrives and is printed; for a stream, the status at its end.
ClientPrints(c) ==
    /\ pc[c] = "answered"
    /\ Goto(c, "over")
    /\ UNCHANGED <<server, jobVars, mu, argVars, ctx, answer, gone>>

\* A termination signal, or the connection breaks; an answer is lost.
ClientLeaves(c) ==
    /\ pc[c] \notin {"idle", "over"} /\ c \notin gone
    /\ gone' = gone \cup {c}
    /\ answer' = [answer EXCEPT ![c] = "none"]
    /\ pc' = [pc EXCEPT ![c] = IF @ = "answered" THEN "over" ELSE @]
    /\ UNCHANGED <<server, jobVars, mu, argVars, ctx>>

-----------------------------------------------------------------------------
(* Interceptors and handlers                                               *)

\* Fault: the stream interceptor passes the stream on without the wrapper.
HandlerContext_NotWrapped(c) ==
    IF op[c] = "StreamOutput" THEN Background ELSE ValidateClientFromTLSInfo(chain[c])

\* The unary interceptor passes the new context on, the stream interceptor a
\* stream wrapped around it.
HandlerContext(c) == ValidateClientFromTLSInfo(chain[c])

\* What a handler makes of the client info in its context; the conversion of
\* a value that is not there panics.
ClientInfoFromContext(info) ==
    IF info = Background THEN "panic"
    ELSE IF ClientInfoOK(info) THEN "ok" ELSE "PermissionDenied"

\* The interceptor refuses the call.
validateClient(c) ==
    /\ pc[c] = "sent" /\ server = "serving"
    /\ \/ c \in gone /\ Answer(c, "Canceled")
       \/ ValidateClientFromTLSInfo(chain[c]) = Background /\ Answer(c, "Unauthenticated")
    /\ UNCHANGED <<server, jobVars, mu, argVars, ctx, gone>>

\* The interceptor lets the call through, and the handler looks at the client
\* info and the context, as all four do before they call the library.
Handler(c) ==
    /\ pc[c] = "sent" /\ server = "serving"
    /\ ValidateClientFromTLSInfo(chain[c]) # Background
    /\ ctx' = [ctx EXCEPT ![c] = HandlerContext(c)]
    /\ \/ IF ClientInfoFromContext(ctx'[c]) = "ok"
          THEN Goto(c, "library") /\ UNCHANGED answer
          ELSE Answer(c, ClientInfoFromContext(ctx'[c]))
       \/ c \in gone /\ Answer(c, "Aborted")
    /\ UNCHANGED <<server, jobVars, mu, argVars, gone>>

\* gRPC takes no calls any more.
Refused(c) ==
    /\ pc[c] = "sent" /\ server # "serving"
    /\ Answer(c, "Unavailable")
    /\ UNCHANGED <<server, jobVars, mu, argVars, ctx, gone>>

-----------------------------------------------------------------------------
(* The library on behalf of a handler                                      *)

\* Fault: the directory is not looked for.
HasDirectory_Unchecked(c) == TRUE

\* verifyClientCgroup: directories are named as the table spells the clients.
HasDirectory(c) == ctx[c].name \in GetAuthorizedClientNames

\* Fault: any role of the table overrides the owner check.
Entitled_AnyRole(c) == owner[target[c]] = ctx[c].name \/ ctx[c].role # "Unauthorized"

\* The job's own client, or adminRole.
Entitled(c) == owner[target[c]] = ctx[c].name \/ ctx[c].role = "Admin"

Terminal == {"TerminatedByAPI", "Completed"}

\* No directory for the name, a done context, or a system call that fails.
StartFails(c) ==
    /\ pc[c] = "library" /\ op[c] = "Start"
    /\ Answer(c, "Internal")
    /\ UNCHANGED <<server, jobVars, mu, argVars, ctx, gone>>

\* Fault: the ID is returned before the job is in the table.
Launched_Answers(c) == Answer(c, "ok")

Launched(c) == Goto(c, "publish") /\ UNCHANGED answer

StartLaunch(c, j) ==
    /\ pc[c] = "library" /\ op[c] = "Start" /\ HasDirectory(c)
    /\ Lib!Launch(j)
    /\ target' = [target EXCEPT ![c] = j]
    /\ Launched(c)
    /\ UNCHANGED <<server, owner, mu, op, chain, ctx, gone>>

Published(c) == Answer(c, "ok")

StartPublish(c) ==
    /\ pc[c] = "publish" /\ mu = {}
    /\ Lib!Publish(target[c])
    /\ owner' = [owner EXCEPT ![target[c]] = ctx[c].name]
    /\ Published(c)
    /\ UNCHANGED <<server, mu, argVars, ctx, gone>>

\* Status, Stop and StreamOutputSetup that come to nothing.
Lookup(c) == pc[c] = "library" /\ op[c] # "Start"

LookupFails(c) ==
    /\ Lookup(c)
    /\ \/ c \in gone
       \/ op[c] = "Stop" /\ ~HasDirectory(c)
       \/ mu = {} /\ target[c] = ""
       \/ mu = {} /\ target[c] \in Jobs
          /\ (state[target[c]] = "Unspecified" \/ ~Entitled(c))
    /\ Answer(c, "Internal")
    /\ UNCHANGED <<server, jobVars, mu, argVars, ctx, gone>>

Found(c) ==
    /\ Lookup(c) /\ mu = {} /\ target[c] \in Jobs
    /\ state[target[c]] # "Unspecified" /\ Entitled(c)

\* Status, and Stop of a job that is over.
Details(c) ==
    /\ Found(c)
    /\ \/ op[c] = "Status"
       \/ op[c] = "Stop" /\ HasDirectory(c) /\ state[target[c]] \in Terminal
    /\ Answer(c, "ok")
    /\ UNCHANGED <<server, jobVars, mu, argVars, ctx, gone>>

StreamOutput(c) ==
    /\ Found(c) /\ op[c] = "StreamOutput"
    /\ Goto(c, IF state[target[c]] \in Terminal THEN "final" ELSE "live")
    /\ UNCHANGED <<server, jobVars, mu, argVars, ctx, answer, gone>>

\* OutputStream tells when; nothing here makes a live stream end.
StreamEnds(c) ==
    /\ pc[c] \in {"live", "final"}
    /\ Answer(c, "ok") \/ Answer(c, "Internal")
    /\ UNCHANGED <<server, jobVars, mu, argVars, ctx, gone>>

\* Stop kills what it finds under the caller's name and polls, with mu locked.
StopKills(c) ==
    /\ Found(c) /\ op[c] = "Stop" /\ HasDirectory(c)
    /\ state[target[c]] = "Running"
    /\ mu' = {c}
    /\ Goto(c, "stop")
    /\ UNCHANGED <<server, jobVars, argVars, ctx, answer, gone>>

StopEnds(c) ==
    /\ pc[c] = "stop"
    /\ Lib!End(target[c]) /\ state'[target[c]] = "TerminatedByAPI"
    /\ mu' = {}
    /\ Answer(c, "ok")
    /\ UNCHANGED <<server, owner, argVars, ctx, gone>>

\* Fault: this return keeps mu.
Unlock_Forgotten == UNCHANGED mu

Unlock == mu' = {}

\* The cgroup could not be killed or removed.
StopFails(c) ==
    /\ pc[c] = "stop" /\ alive[target[c]] = "collected"
    /\ Unlock
    /\ Answer(c, "Internal")
    /\ UNCHANGED <<server, jobVars, argVars, ctx, gone>>

\* The process ends and the wait goroutine collects it.
Collect(j) ==
    /\ server # "stopped"
    /\ Lib!Collect(j)
    /\ UNCHANGED <<server, owner, mu, pc, argVars, ctx, answer, gone>>

\* Fault: the job is written without taking mu.
Complete_NoLock(j) ==
    /\ server # "stopped"
    /\ Lib!End(j) /\ state'[j] = "Completed"
    /\ UNCHANGED <<server, owner, mu, pc, argVars, ctx, answer, gone>>

Complete(j) ==
    /\ server # "stopped" /\ mu = {}
    /\ Lib!End(j) /\ state'[j] = "Completed"
    /\ UNCHANGED <<server, owner, mu, pc, argVars, ctx, answer, gone>>

-----------------------------------------------------------------------------
(* Run                                                                     *)

StopServing ==
    /\ server = "serving"
    /\ server' = "stopping"
    /\ UNCHANGED <<jobVars, mu, pc, argVars, ctx, answer, gone>>

\* Fault: Stop in its place, which waits for no call.
GracefulStop_NoWait ==
    /\ server = "stopping"
    /\ server' = "stopped"
    /\ UNCHANGED <<jobVars, mu, pc, argVars, ctx, answer, gone>>

\* It waits for the calls that have begun.
GracefulStop ==
    /\ server = "stopping"
    /\ \A c \in Calls : pc[c] \notin Pending
    /\ server' = "stopped"
    /\ UNCHANGED <<jobVars, mu, pc, argVars, ctx, answer, gone>>

\* Every client program has ended.
AllOver ==
    /\ server = "stopped"
    /\ \A c \in Calls : pc[c] = "over"
    /\ UNCHANGED vars

-----------------------------------------------------------------------------
Client(c) == ClientMain(c) \/ ClientFails(c) \/ ClientPrints(c) \/ ClientLeaves(c)

\* What the goroutine of a call does without waiting for a live stream to end.
Serve(c) ==
    \/ validateClient(c) \/ Handler(c) \/ Refused(c) \/ StartFails(c) \/ \E j \in Jobs : StartLaunch(c, j)
    \/ StartPublish(c) \/ LookupFails(c) \/ Details(c) \/ StreamOutput(c)
    \/ StopKills(c) \/ StopEnds(c) \/ StopFails(c)

Next ==
    \/ \E c \in Calls : Client(c) \/ Serve(c) \/ StreamEnds(c)
    \/ \E j \in Jobs : Collect(j) \/ Complete(j)
    \/ StopServing \/ GracefulStop \/ AllOver

Spec == Init /\ [][Next]_vars

\* A Stop that has found the job's kill file.
Killed(j) ==
    \E c \in Calls : pc[c] = "stop" /\ target[c] = j /\ ctx[c].name = owner[j]

\* Handlers run, an ended job's output is sent, a killed process goes, and Run
\* goes on.  No client has to call, no process has to end by itself.
Fairness ==
    /\ \A c \in Calls : /\ WF_vars(Serve(c))
                        /\ WF_vars(pc[c] = "final" /\ StreamEnds(c))
    /\ \A j \in Jobs : WF_vars(Killed(j) /\ Collect(j))
    /\ WF_vars(GracefulStop)

FairSpec == Spec /\ Fairness

-----------------------------------------------------------------------------
(* Properties                                                              *)

\* The handlers' own check never disagrees with the interceptors': the client
\* info is in the context of every handler, unary or streaming, with the role
\* that the table has for the name.
HandlersKnowTheCaller ==
    \A c \in Calls : answer[c] \notin {"panic", "PermissionDenied"}

\* The name in the certificate that a call was accepted for.
CertifiedName(c) == GetJobmasterEntityNameFromCertCN(chain[c][Len(chain[c])])

\* Over the whole way from certificate to job table: who is told about a job,
\* streams it or has it stopped has a certificate for the name under which it
\* was started, or for an administrator's.
JobsAreTheirOwners ==
    \A c, s \in Calls :
        /\ op[s] = "Start" /\ op[c] \in Operations \ {"Start"}
        /\ target[c] # "" /\ target[c] = target[s]
        /\ pc[c] \in {"live", "final", "stop"} \/ answer[c] = "ok"
        => \/ CertifiedName(c) = CertifiedName(s)
           \/ IsClientAuthorized(CertifiedName(c)) = "Admin"

\* Every job belongs to a name of GetAuthorizedClientNames, spelled that way:
\* other spellings pass the authorization, but the teardown would not visit a
\* directory of theirs.
OwnersAreListed ==
    \A j \in Jobs : state[j] # "Unspecified" => owner[j] \in GetAuthorizedClientNames

\* A user who has been told an ID can ask for the job with the same
\* certificate, and is not told that it does not exist or is not theirs.
ToldIsUsable ==
    \A c, s \in Calls :
        /\ target[s] \in Told /\ op[s] = "Start" /\ op[c] = "Status"
        /\ target[c] = target[s] /\ chain[c] = chain[s] /\ c \notin gone
        => answer[c] # "Internal"

\* When GracefulStop has returned, and the teardown begins, no job is half started
\* and nobody has mu: whoever left in the meantime, every call has run to its end.
StoppedIsSettled ==
    server = "stopped" =>
        mu = {} /\ \A j \in Jobs : alive[j] # "not started" => state[j] # "Unspecified"

\* No handler finds its job's state beyond its next step: what a Start is about to
\* publish nobody has published, collected or ended, and while a Stop polls with mu
\* the job stays Running, also when its process ends by itself.  mu is held by the
\* polling Stop alone, so nothing waits for a lock that a finished call has kept.
PendingCanEnd ==
    /\ \A c \in Calls :
         /\ pc[c] = "publish" => alive[target[c]] = "started" /\ state[target[c]] = "Unspecified"
         /\ pc[c] = "stop" => mu = {c} /\ state[target[c]] = "Running"
    /\ \A c \in mu : pc[c] = "stop"

\* Calls that may keep the server from stopping: a live stream, and a Stop by
\* an administrator of a job whose kill file it has not found.
Hangs(c) == \/ pc[c] = "live"
            \/ pc[c] = "stop" /\ ctx[c].name # owner[target[c]]

\* After a termination signal GracefulStop returns, unless one of those calls stays for
\* ever: it waits for nothing else.
ShutdownCompletes ==
    (server = "stopping" ~> server = "stopped") \/ \E c \in Calls : <>[]Hangs(c)
==============================================================================

---------------------------- MODULE ServiceProofs ----------------------------
(***************************************************************************)
(* Proofs about Service, for any table of clients, certificates, jobs and  *)
(* number of calls: who a handler takes its caller for, whose jobs are     *)
(* whose, and what a Start has told.  That GracefulStop returns is left to *)
(* TLC.                                                                    *)
(***************************************************************************)
EXTENDS Service, TLAPS

\* A call that a handler has taken on and that has not failed.
Accepted(c) == pc[c] \in Pending \/ answer[c] = "ok"

\* Which labels go with which operations and answers.
LabelOK(c) ==
    /\ pc[c] = "idle" \/ op[c] \notin Operations => target[c] = ""
    /\ pc[c] \notin {"answered", "over"} => answer[c] = "none"
    /\ pc[c] = "publish" => op[c] = "Start"
    /\ pc[c] = "stop" => op[c] = "Stop"
    /\ pc[c] \in {"live", "final"} => op[c] = "StreamOutput"
    /\ c \in gone => pc[c] # "idle" /\ answer[c] = "none"

LabelInv == \A c \in Calls : LabelOK(c)

\* A handler works with what its caller's certificates say.
CallerInv ==
    \A c \in Calls :
        /\ pc[c] = "sent" \/ Accepted(c) => op[c] \in Operations /\ chain[c] \in Chains
        /\ Accepted(c) => /\ ctx[c] = ValidateClientFromTLSInfo(chain[c])
                          /\ ctx[c] # Background

\* How far a Start has come with its job.
StartOK(c) ==
    /\ pc[c] \in {"sent", "library"} => target[c] = ""
    /\ pc[c] = "publish" \/ answer[c] = "ok" => target[c] \in Jobs
    /\ target[c] # "" =>
         /\ alive[target[c]] # "not started"
         /\ pc[c] = "publish" => HasDirectory(c)
         /\ pc[c] # "publish" => state[target[c]] # "Unspecified"
         /\ pc[c] = "publish" \/ answer[c] = "ok" \/ c \in gone
         /\ state[target[c]] # "Unspecified" => owner[target[c]] = CertifiedName(c)

StartInv == \A c \in Calls : op[c] = "Start" => StartOK(c)

\* No two Starts draw the same ID.
DrawnOnce ==
    \A c, d \in Calls :
        op[c] = "Start" /\ op[d] = "Start" /\ target[c] # "" /\ target[c] = target[d]
            => c = d

\* The other operations are asked for jobs that a Start has told, and done for
\* jobs of the table that the caller is entitled to.
UseOK(c) ==
    /\ target[c] # "" => target[c] \in Told
    /\ pc[c] \in {"live", "final", "stop"} \/ answer[c] = "ok" =>
         target[c] \in Jobs /\ state[target[c]] # "Unspecified" /\ Entitled(c)

UseInv == \A c \in Calls : op[c] \in Operations \ {"Start"} => UseOK(c)

\* Only jobs that have been launched are in the table.
JobInv == \A j \in Jobs : state[j] # "Unspecified" => alive[j] # "not started"

\* Who started a job is not refused its status.
UsableInv ==
    \A c, s \in Calls :
        /\ op[s] = "Start" /\ op[c] = "Status"
        /\ target[c] # "" /\ target[c] = target[s] /\ chain[c] = chain[s] /\ c \notin gone
        => answer[c] # "Internal"

SInv == /\ TypeOK /\ LabelInv /\ CallerInv /\ StartInv /\ DrawnOnce /\ UseInv /\ JobInv
        /\ HandlersKnowTheCaller /\ OwnersAreListed /\ UsableInv

-----------------------------------------------------------------------------
(* Certificates and names                                                  *)

\* What authz says of a name is one of three roles, and only names of the table
\* have the two that count.
LEMMA RoleOfName ==
  ASSUME NEW n \in Names
  PROVE  IsClientAuthorized(n) \in {"Unauthorized", "Admin", "User"}
BY AuthAssumption DEF IsClientAuthorized

\* What the interceptor makes of a chain that it accepts: the name is that of
\* the last certificate and the role that of the name, so that the handler's
\* own check passes.
LEMMA AcceptedChain ==
  ASSUME NEW c \in Calls, chain[c] \in Chains,
         ValidateClientFromTLSInfo(chain[c]) # Background
  PROVE  LET info == ValidateClientFromTLSInfo(chain[c]) IN
         /\ info \in Contexts
         /\ info.name = CertifiedName(c) /\ info.name \in Names
         /\ info.role = IsClientAuthorized(info.name)
         /\ ClientInfoFromContext(info) = "ok"
<1> DEFINE ch == chain[c]
           name == GetJobmasterEntityNameFromCertCN(ch[Len(ch)])
<1>1. ch \in Seq(Certificates) /\ ch # <<>>
  BY ServiceAssumption
<1>2. Len(ch) \in 1..Len(ch) /\ ch[Len(ch)] \in Certificates
  BY <1>1
<1>3. CertificateOK(ch[Len(ch)])
  BY <1>2 DEF ValidateClientFromTLSInfo
<1>4. name \in Names \cup {""} /\ name # ""
  BY <1>2, <1>3 DEF CertificateOK, GetJobmasterEntityNameFromCertCN, Certificates
<1>5. name \in Names /\ IsClientAuthorized(name) \in {"Admin", "User"}
  BY <1>3, <1>4, RoleOfName DEF CertificateOK
<1>6. ValidateClientFromTLSInfo(ch) = [name |-> name, role |-> IsClientAuthorized(name)]
  BY DEF ValidateClientFromTLSInfo
<1>7. name = CertifiedName(c)
  BY DEF CertifiedName
<1>8. [name |-> name, role |-> IsClientAuthorized(name)] \in Contexts
  BY <1>5 DEF Contexts
<1>9. "" \notin Names
  BY AuthAssumption
<1>10. [name |-> name, role |-> IsClientAuthorized(name)] # Background
  BY <1>5, <1>9 DEF Background
<1>11. ClientInfoOK([name |-> name, role |-> IsClientAuthorized(name)])
  BY <1>4, <1>5 DEF ClientInfoOK
<1> HIDE DEF name
<1> QED BY <1>5, <1>6, <1>7, <1>8, <1>10, <1>11 DEF ClientInfoFromContext

\* The same for a call that a handler has taken on.
LEMMA CallerFacts ==
  ASSUME CallerInv, NEW c \in Calls, Accepted(c)
  PROVE  /\ ctx[c].name = CertifiedName(c) /\ ctx[c].name \in Names
         /\ ctx[c].role = IsClientAuthorized(CertifiedName(c))
         /\ ctx[c] \in Contexts
<1>1. chain[c] \in Chains /\ ctx[c] = ValidateClientFromTLSInfo(chain[c]) /\ ctx[c] # Background
  BY DEF CallerInv
<1> QED BY <1>1, AcceptedChain

-----------------------------------------------------------------------------
(* The inductive invariant                                                 *)

\* Before the first call.
LEMMA SInvInit == Init => SInv
<1> SUFFICES ASSUME Init PROVE SInv
  OBVIOUS
<1>1. TypeOK
  BY DEF Init, TypeOK, Contexts, Lib!Init
<1>2. LabelInv /\ CallerInv /\ StartInv /\ DrawnOnce /\ UseInv
  BY DEF Init, LabelInv, LabelOK, CallerInv, StartInv, StartOK, DrawnOnce, UseInv, UseOK, Accepted, Pending, Operations
<1>3. HandlersKnowTheCaller /\ OwnersAreListed /\ UsableInv /\ JobInv
  BY DEF Init, HandlersKnowTheCaller, OwnersAreListed, UsableInv, JobInv, Lib!Init
<1> QED BY <1>1, <1>2, <1>3 DEF SInv

\* A call that is over keeps its answer, so that what has been told stays told.
LEMMA ToldStays ==
  ASSUME \A c \in Calls : pc[c] = "over" =>
            /\ pc'[c] = pc[c] /\ op'[c] = op[c] /\ target'[c] = target[c]
            /\ answer'[c] = answer[c] /\ (c \in gone' => c \in gone)
  PROVE  Told \subseteq Told'
BY DEF Told, Printed

\* One call goes to another label.
LEMMA GotoFacts ==
  ASSUME TypeOK, NEW c \in Calls, NEW label, pc' = [pc EXCEPT ![c] = label]
  PROVE  pc'[c] = label /\ \A d \in Calls \ {c} : pc'[d] = pc[d]
<1>1. pc \in [Calls -> Pending \cup {"idle", "sent", "answered", "over"}]
  BY DEF TypeOK
<1> QED BY <1>1

\* One call gets an answer, or has lost its client.
LEMMA AnswerFacts ==
  ASSUME TypeOK, NEW c \in Calls, NEW status, Answer(c, status)
  PROVE  /\ pc'[c] = (IF c \in gone THEN "over" ELSE "answered")
         /\ answer'[c] = (IF c \in gone THEN answer[c] ELSE status)
         /\ \A d \in Calls \ {c} : pc'[d] = pc[d] /\ answer'[d] = answer[d]
<1>1. pc' = [pc EXCEPT ![c] = IF c \in gone THEN "over" ELSE "answered"]
  BY DEF Answer, Goto
<1>2. answer' = [answer EXCEPT ![c] = IF c \in gone THEN answer[c] ELSE status]
  <2>1. answer \in [Calls -> Statuses \cup {"none"}]
    BY DEF TypeOK
  <2>2. CASE c \in gone
    BY <2>1, <2>2 DEF Answer
  <2>3. CASE c \notin gone
    BY <2>3 DEF Answer
  <2> QED BY <2>2, <2>3
<1>3. pc'[c] = (IF c \in gone THEN "over" ELSE "answered") /\ \A d \in Calls \ {c} : pc'[d] = pc[d]
  BY <1>1, GotoFacts
<1>4. answer \in [Calls -> Statuses \cup {"none"}]
  BY DEF TypeOK
<1> QED BY <1>2, <1>3, <1>4

\* A Start draws an ID.
LEMMA LaunchFacts ==
  ASSUME TypeOK, NEW c \in Calls, NEW j \in Jobs, StartLaunch(c, j)
  PROVE  /\ pc[c] = "library" /\ alive[j] = "not started" /\ alive'[j] = "started"
         /\ \A k \in Jobs \ {j} : alive'[k] = alive[k]
         /\ target'[c] = j /\ pc'[c] = "publish"
         /\ \A d \in Calls \ {c} : target'[d] = target[d] /\ pc'[d] = pc[d]
<1>1. /\ pc[c] = "library" /\ alive[j] = "not started"
      /\ alive' = [alive EXCEPT ![j] = "started"]
      /\ target' = [target EXCEPT ![c] = j] /\ pc' = [pc EXCEPT ![c] = "publish"]
  BY DEF StartLaunch, Launched, Goto, Lib!Launch
<1>2. alive \in [Jobs -> {"not started", "started", "collected"}] /\ target \in [Calls -> Jobs \cup {""}]
  BY DEF TypeOK
<1>3. alive'[j] = "started" /\ \A k \in Jobs \ {j} : alive'[k] = alive[k]
  BY <1>1, <1>2
<1>4. target'[c] = j /\ \A d \in Calls \ {c} : target'[d] = target[d]
  BY <1>1, <1>2
<1>5. pc'[c] = "publish" /\ \A d \in Calls \ {c} : pc'[d] = pc[d]
  BY <1>1, GotoFacts
<1> QED BY <1>1, <1>3, <1>4, <1>5

\* A client program is run, with an ID that has been told or with none.
LEMMA ClientMainStep ==
  ASSUME SInv, NEW c \in Calls, ClientMain(c) PROVE SInv'
<1> USE DEF SInv
<1>1. PICK cmd \in CommandLines[c], j \in Told \cup {""} :
        /\ cmd[1] = "Start" => j = ""
        /\ op' = [op EXCEPT ![c] = cmd[1]]
        /\ chain' = [chain EXCEPT ![c] = cmd[2]]
        /\ target' = [target EXCEPT ![c] = j]
  BY DEF ClientMain
<1>2. cmd[1] \in Operations /\ cmd[2] \in Chains
  <2>1. CommandLines[c] \in SUBSET (Operations \X Chains)
    BY ServiceAssumption
  <2> QED BY <2>1
<1>3. Told \subseteq Jobs
  BY DEF Told, Printed, StartInv, StartOK
<1>4. /\ pc[c] = "idle" /\ pc' = [pc EXCEPT ![c] = "sent"]
      /\ target[c] = "" /\ answer[c] = "none" /\ c \notin gone
      /\ UNCHANGED <<server, jobVars, mu, ctx, answer, gone>>
  BY DEF ClientMain, NextToRun, Goto, LabelInv, LabelOK
<1>5. TypeOK'
  <2>1. op' \in [Calls -> Operations \cup {"none"}]
    BY <1>1, <1>2 DEF TypeOK
  <2>2. chain' \in [Calls -> Chains \cup {<<>>}]
    BY <1>1, <1>2 DEF TypeOK
  <2>3. target' \in [Calls -> Jobs \cup {""}]
    BY <1>1, <1>3 DEF TypeOK
  <2>4. pc' \in [Calls -> Pending \cup {"idle", "sent", "answered", "over"}]
    BY <1>4 DEF TypeOK
  <2> QED BY <1>4, <2>1, <2>2, <2>3, <2>4 DEF TypeOK, jobVars
<1>6. /\ pc[c] = "idle" /\ target[c] = "" /\ answer[c] = "none" /\ c \notin gone
      /\ pc'[c] = "sent" /\ op'[c] \in Operations /\ chain'[c] \in Chains
      /\ target'[c] \in Told \cup {""} /\ (op'[c] = "Start" => target'[c] = "")
      /\ \A d \in Calls \ {c} : /\ pc'[d] = pc[d] /\ op'[d] = op[d]
                               /\ chain'[d] = chain[d] /\ target'[d] = target[d]
      /\ UNCHANGED <<server, state, alive, owner, mu, ctx, answer, gone>>
  <2>1. pc'[c] = "sent" /\ \A d \in Calls \ {c} : pc'[d] = pc[d]
    BY <1>4, GotoFacts
  <2>2. op'[c] = cmd[1] /\ \A d \in Calls \ {c} : op'[d] = op[d]
    <3>1. op \in [Calls -> Operations \cup {"none"}] /\ op' = [op EXCEPT ![c] = cmd[1]]
      BY <1>1 DEF TypeOK
    <3> HIDE DEF SInv
    <3> QED BY <3>1
  <2>3. chain'[c] = cmd[2] /\ \A d \in Calls \ {c} : chain'[d] = chain[d]
    <3>1. chain \in [Calls -> Chains \cup {<<>>}] /\ chain' = [chain EXCEPT ![c] = cmd[2]]
      BY <1>1 DEF TypeOK
    <3> HIDE DEF SInv
    <3> QED BY <3>1
  <2>4. target'[c] = j /\ \A d \in Calls \ {c} : target'[d] = target[d]
    <3>1. target \in [Calls -> Jobs \cup {""}] /\ target' = [target EXCEPT ![c] = j]
      BY <1>1 DEF TypeOK
    <3> HIDE DEF SInv
    <3> QED BY <3>1
  <2> QED BY <1>1, <1>2, <1>4, <2>1, <2>2, <2>3, <2>4 DEF jobVars
<1>7. Told \subseteq Told'
  BY <1>6, ToldStays
<1>8. LabelInv'
  <2> SUFFICES ASSUME NEW d \in Calls PROVE LabelOK(d)'
    BY DEF LabelInv
  <2>1. LabelOK(d)
    BY DEF LabelInv
  <2> QED BY <1>6, <2>1 DEF LabelOK
<1>9. CallerInv'
  BY <1>6 DEF CallerInv, Accepted, Pending
<1>10. StartInv'
  <2> SUFFICES ASSUME NEW d \in Calls, op'[d] = "Start" PROVE StartOK(d)'
    BY DEF StartInv
  <2>1. CASE d = c
    BY <1>6, <2>1 DEF StartOK
  <2>2. CASE d # c
    <3>1. StartOK(d)
      BY <1>6, <2>2 DEF StartInv
    <3> QED BY <1>6, <2>2, <3>1 DEF StartOK, HasDirectory, CertifiedName
  <2> QED BY <2>1, <2>2
<1>11. DrawnOnce'
  <2> SUFFICES ASSUME NEW d \in Calls, NEW e \in Calls, op'[d] = "Start", op'[e] = "Start",
                      target'[d] # "", target'[d] = target'[e]
               PROVE  d = e
    BY DEF DrawnOnce
  <2>1. d # c /\ e # c
    BY <1>6
  <2> QED BY <1>6, <2>1 DEF DrawnOnce
<1>12. UseInv'
  BY <1>6, <1>7 DEF UseInv, UseOK, Entitled
<1>13. (HandlersKnowTheCaller /\ OwnersAreListed /\ JobInv)'
  BY <1>6 DEF HandlersKnowTheCaller, OwnersAreListed, JobInv
<1>14. UsableInv'
  <2> SUFFICES ASSUME NEW d \in Calls, NEW s \in Calls,
                      op'[s] = "Start", op'[d] = "Status", d \notin gone',
                      target'[d] # "", target'[d] = target'[s], chain'[d] = chain'[s]
               PROVE  answer'[d] # "Internal"
    BY DEF UsableInv
  <2>1. CASE d = c
    BY <1>6, <2>1
  <2>2. CASE d # c
    <3>1. s # c
      BY <1>6
    <3> QED BY <1>6, <2>2, <3>1 DEF UsableInv
  <2> QED BY <2>1, <2>2
<1> QED BY <1>5, <1>8, <1>9, <1>10, <1>11, <1>12, <1>13, <1>14

\* The jobs go on, and none appears in or leaves the table.
JobsGoOn ==
    /\ UNCHANGED owner
    /\ state' \in [Jobs -> {"Unspecified", "Running", "TerminatedByAPI", "Completed"}]
    /\ alive' \in [Jobs -> {"not started", "started", "collected"}]
    /\ \A j \in Jobs : /\ state'[j] = "Unspecified" <=> state[j] = "Unspecified"
                       /\ alive[j] # "not started" => alive'[j] # "not started"

\* The steps that concern no call.
LEMMA QuietStep ==
  ASSUME SInv, JobsGoOn, UNCHANGED <<pc, argVars, ctx, answer, gone>>,
         server' \in {"serving", "stopping", "stopped"}, mu' \subseteq Calls
  PROVE  SInv'
<1> USE DEF SInv, argVars
<1>1. Told' = Told
  BY DEF Told, Printed
<1>2. TypeOK'
  BY DEF TypeOK, JobsGoOn
<1>3. (LabelInv /\ CallerInv)'
  BY DEF LabelInv, LabelOK, CallerInv, Accepted
<1>4. StartInv'
  BY DEF StartInv, StartOK, JobsGoOn, HasDirectory, CertifiedName, TypeOK
<1>5. (DrawnOnce /\ UsableInv /\ HandlersKnowTheCaller)'
  BY DEF DrawnOnce, UsableInv, HandlersKnowTheCaller
<1>6. UseInv'
  BY <1>1 DEF UseInv, UseOK, Entitled, JobsGoOn
<1>7. OwnersAreListed' /\ JobInv'
  BY DEF OwnersAreListed, JobInv, JobsGoOn
<1> QED BY <1>2, <1>3, <1>4, <1>5, <1>6, <1>7

\* A client program ends, before it has sent anything or with its answer.
LEMMA ClientEndStep ==
  ASSUME SInv, NEW c \in Calls, ClientFails(c) \/ ClientPrints(c) PROVE SInv'
<1> USE DEF SInv
<1>1. /\ pc[c] \in {"idle", "answered"} /\ pc' = [pc EXCEPT ![c] = "over"]
      /\ UNCHANGED <<server, state, alive, owner, mu, op, target, chain, ctx, answer, gone>>
  BY DEF ClientFails, ClientPrints, NextToRun, Goto, jobVars, argVars
<1>2. TypeOK'
  BY <1>1 DEF TypeOK
<1>3. /\ pc[c] \in {"idle", "answered"} /\ pc'[c] = "over"
      /\ \A d \in Calls \ {c} : pc'[d] = pc[d]
      /\ UNCHANGED <<state, alive, owner, op, target, chain, ctx, answer, gone>>
  BY <1>1, GotoFacts
<1>4. Told \subseteq Told'
  BY <1>3, ToldStays
<1>5. LabelInv'
  BY <1>3 DEF LabelInv, LabelOK
<1>6. CallerInv'
  BY <1>3 DEF CallerInv, Accepted, Pending
<1>7. StartInv'
  BY <1>3 DEF StartInv, StartOK, HasDirectory, CertifiedName
<1>8. UseInv'
  BY <1>3, <1>4 DEF UseInv, UseOK, Entitled
<1>9. (DrawnOnce /\ UsableInv /\ HandlersKnowTheCaller /\ OwnersAreListed /\ JobInv)'
  BY <1>3 DEF DrawnOnce, UsableInv, HandlersKnowTheCaller, OwnersAreListed, JobInv
<1> QED BY <1>2, <1>5, <1>6, <1>7, <1>8, <1>9

\* A client leaves; the answer on its way is lost.
LEMMA ClientLeavesStep ==
  ASSUME SInv, NEW c \in Calls, ClientLeaves(c) PROVE SInv'
<1> USE DEF SInv
<1>1. /\ pc[c] \notin {"idle", "over"} /\ gone' = gone \cup {c}
      /\ answer' = [answer EXCEPT ![c] = "none"]
      /\ pc' = [pc EXCEPT ![c] = IF pc[c] = "answered" THEN "over" ELSE pc[c]]
      /\ UNCHANGED <<server, state, alive, owner, mu, op, target, chain, ctx>>
  BY DEF ClientLeaves, jobVars, argVars
<1>2. TypeOK'
  BY <1>1 DEF TypeOK
<1>3. /\ UNCHANGED <<state, alive, owner, op, target, chain, ctx>>
      /\ pc[c] \notin {"idle", "over"} /\ answer'[c] = "none" /\ gone' = gone \cup {c}
      /\ pc'[c] = pc[c] \/ (pc[c] = "answered" /\ pc'[c] = "over")
      /\ \A d \in Calls \ {c} : /\ pc'[d] = pc[d] /\ answer'[d] = answer[d]
  <2>1. /\ pc'[c] = IF pc[c] = "answered" THEN "over" ELSE pc[c]
        /\ \A d \in Calls \ {c} : pc'[d] = pc[d]
    BY <1>1, GotoFacts
  <2>2. answer'[c] = "none" /\ \A d \in Calls \ {c} : answer'[d] = answer[d]
    BY <1>1 DEF TypeOK
  <2> QED BY <1>1, <2>1, <2>2
<1>4. Told \subseteq Told'
  BY <1>3, ToldStays
<1>5. LabelInv'
  <2> SUFFICES ASSUME NEW d \in Calls PROVE LabelOK(d)'
    BY DEF LabelInv
  <2>1. LabelOK(d)
    BY DEF LabelInv
  <2> HIDE DEF SInv
  <2> QED BY <1>3, <2>1 DEF LabelOK
<1>6. CallerInv'
  BY <1>3 DEF CallerInv, Accepted, Pending
<1>7. StartInv'
  <2> SUFFICES ASSUME NEW d \in Calls, op[d] = "Start" PROVE StartOK(d)'
    BY <1>3 DEF StartInv
  <2>1. StartOK(d)
    BY DEF StartInv
  <2>2. CASE d = c
    BY <1>3, <2>1, <2>2 DEF StartOK, HasDirectory, CertifiedName
  <2>3. CASE d # c
    BY <1>3, <2>1, <2>3 DEF StartOK, HasDirectory, CertifiedName
  <2> QED BY <2>2, <2>3
<1>8. UseInv'
  BY <1>3, <1>4 DEF UseInv, UseOK, Entitled
<1>9. DrawnOnce' /\ HandlersKnowTheCaller' /\ OwnersAreListed' /\ JobInv'
  BY <1>3 DEF DrawnOnce, HandlersKnowTheCaller, OwnersAreListed, JobInv
<1>10. UsableInv'
  BY <1>3 DEF UsableInv
<1> QED BY <1>2, <1>5, <1>6, <1>7, <1>8, <1>9, <1>10

\* The interceptor lets a call through: the handler's own check passes.
LEMMA HandlerStep ==
  ASSUME SInv, NEW c \in Calls, Handler(c) PROVE SInv'
<1> USE DEF SInv
<1>1. /\ pc[c] = "sent" /\ chain[c] \in Chains /\ op[c] \in Operations
      /\ ValidateClientFromTLSInfo(chain[c]) # Background
      /\ ctx' = [ctx EXCEPT ![c] = ValidateClientFromTLSInfo(chain[c])]
      /\ UNCHANGED <<server, state, alive, owner, mu, op, target, chain, gone>>
  BY DEF Handler, HandlerContext, CallerInv, jobVars, argVars
<1>2. /\ ValidateClientFromTLSInfo(chain[c]) \in Contexts
      /\ ClientInfoFromContext(ValidateClientFromTLSInfo(chain[c])) = "ok"
  BY <1>1, AcceptedChain
<1>3. /\ UNCHANGED answer
      /\ \/ pc' = [pc EXCEPT ![c] = "library"]
         \/ c \in gone /\ pc' = [pc EXCEPT ![c] = "over"]
  <2>1. ctx'[c] = ValidateClientFromTLSInfo(chain[c])
    BY <1>1 DEF TypeOK
  <2> QED BY <2>1, <1>2 DEF Handler, Answer, Goto
<1>4. TypeOK'
  BY <1>1, <1>2, <1>3 DEF TypeOK, Pending
<1>5. /\ UNCHANGED <<state, alive, owner, op, target, chain, answer, gone>>
      /\ pc[c] = "sent" /\ (pc'[c] = "library" \/ (pc'[c] = "over" /\ c \in gone))
      /\ ctx'[c] = ValidateClientFromTLSInfo(chain[c])
      /\ \A d \in Calls \ {c} : pc'[d] = pc[d] /\ ctx'[d] = ctx[d]
  <2>1. pc'[c] = "library" \/ (pc'[c] = "over" /\ c \in gone)
    BY <1>3, GotoFacts
  <2>2. \A d \in Calls \ {c} : pc'[d] = pc[d]
    BY <1>3, GotoFacts
  <2>3. ctx'[c] = ValidateClientFromTLSInfo(chain[c]) /\ \A d \in Calls \ {c} : ctx'[d] = ctx[d]
    BY <1>1 DEF TypeOK
  <2> QED BY <1>1, <1>3, <2>1, <2>2, <2>3
<1>6. answer[c] = "none"
  BY <1>5 DEF LabelInv, LabelOK
<1>7. Told \subseteq Told'
  BY <1>5, ToldStays
<1>8. LabelInv'
  BY <1>5, <1>6 DEF LabelInv, LabelOK
<1>9. CallerInv'
  BY <1>1, <1>5 DEF CallerInv, Accepted
<1>10. StartInv'
  BY <1>5, <1>6 DEF StartInv, StartOK, HasDirectory, CertifiedName
<1>11. UseInv'
  BY <1>5, <1>6, <1>7 DEF UseInv, UseOK, Entitled
<1>12. DrawnOnce' /\ HandlersKnowTheCaller' /\ OwnersAreListed' /\ JobInv'
  BY <1>5 DEF DrawnOnce, HandlersKnowTheCaller, OwnersAreListed, JobInv
<1>13. UsableInv'
  BY <1>5 DEF UsableInv
<1> QED BY <1>4, <1>8, <1>9, <1>10, <1>11, <1>12, <1>13

\* What an answer to a call is given for.
MayAnswer(c, status) ==
    /\ pc[c] \in Pending \cup {"sent"} /\ (op[c] = "Start" => target[c] = "")
    /\ status \in Statuses \ {"panic", "PermissionDenied"}
    /\ status = "Internal" => pc[c] \in Pending
    /\ status = "ok" => /\ op[c] # "Start" /\ pc[c] \in Pending /\ target[c] \in Jobs
                        /\ state[target[c]] # "Unspecified" /\ Entitled(c)
    /\ status = "Internal" /\ op[c] = "Status" /\ c \notin gone /\ target[c] \in Jobs
         => state[target[c]] = "Unspecified" \/ ~Entitled(c)

\* Every answer but that of a Start that has published its job.
LEMMA AnswerStep ==
  ASSUME SInv, NEW c \in Calls, NEW status, MayAnswer(c, status), Answer(c, status),
         JobsGoOn, UNCHANGED <<server, argVars, ctx, gone>>, mu' \subseteq Calls
  PROVE  SInv'
<1> USE DEF SInv, argVars
<1>1. /\ pc[c] \in Pending \cup {"sent"} /\ pc'[c] \in {"answered", "over"}
      /\ answer'[c] = status \/ (c \in gone /\ answer'[c] = answer[c])
      /\ \A d \in Calls \ {c} : pc'[d] = pc[d] /\ answer'[d] = answer[d]
      /\ pc' \in [Calls -> Pending \cup {"idle", "sent", "answered", "over"}]
      /\ answer' \in [Calls -> Statuses \cup {"none"}]
  <2>1. pc[c] \in Pending \cup {"sent"} /\ status \in Statuses
    BY DEF MayAnswer
  <2>2. /\ pc \in [Calls -> Pending \cup {"idle", "sent", "answered", "over"}]
        /\ answer \in [Calls -> Statuses \cup {"none"}]
    BY DEF TypeOK
  <2>3. /\ pc' \in [Calls -> Pending \cup {"idle", "sent", "answered", "over"}]
        /\ answer' \in [Calls -> Statuses \cup {"none"}]
    <3> HIDE DEF SInv
    <3>1. CASE c \in gone
      BY <2>2, <3>1 DEF Answer, Goto
    <3>2. CASE c \notin gone
      BY <2>1, <2>2, <3>2 DEF Answer, Goto
    <3> QED BY <3>1, <3>2
  <2> QED BY <2>1, <2>3, AnswerFacts
<1>2. answer[c] = "none" /\ (c \in gone => answer'[c] = "none")
  BY <1>1 DEF LabelInv, LabelOK, MayAnswer, Answer, Goto, Pending
<1>3. TypeOK'
  BY <1>1 DEF TypeOK, JobsGoOn
<1>4. Told \subseteq Told'
  BY <1>1, ToldStays DEF Pending
<1>5. LabelInv'
  <2> SUFFICES ASSUME NEW d \in Calls PROVE LabelOK(d)'
    BY DEF LabelInv
  <2>1. LabelOK(d)
    BY DEF LabelInv
  <2> HIDE DEF SInv
  <2> QED BY <1>1, <1>2, <2>1 DEF LabelOK, Pending
<1>6. CallerInv'
  BY <1>1, <1>2 DEF CallerInv, Accepted, MayAnswer, Pending
<1>7. StartInv'
  <2>1. op[c] = "Start" => target[c] = ""
    BY DEF MayAnswer
  <2>2. op[c] = "Start" => status # "ok"
    BY DEF MayAnswer
  <2>3. ASSUME NEW d \in Calls, op[d] = "Start" PROVE StartOK(d)'
    <3>1. CASE d = c
      BY <1>1, <1>2, <2>1, <2>2, <2>3, <3>1 DEF StartOK
    <3>2. CASE d # c
      <4>1. StartOK(d) /\ pc'[d] = pc[d] /\ answer'[d] = answer[d]
        BY <1>1, <2>3, <3>2 DEF StartInv
      <4>2. target[d] # "" => target[d] \in Jobs
        BY DEF TypeOK
      <4> QED BY <4>1, <4>2 DEF StartOK, HasDirectory, CertifiedName, JobsGoOn
    <3> QED BY <3>1, <3>2
  <2> QED BY <2>3 DEF StartInv
<1>8. UseInv'
  <2>1. status = "ok" => target[c] \in Jobs /\ state[target[c]] # "Unspecified" /\ Entitled(c)
    BY DEF MayAnswer
  <2>2. ASSUME NEW d \in Calls, op[d] \in Operations \ {"Start"} PROVE UseOK(d)'
    <3>1. UseOK(d) /\ (target[d] # "" => target[d] \in Told')
      BY <1>4, <2>2 DEF UseInv, UseOK
    <3>2. CASE d = c
      BY <1>1, <1>2, <2>1, <3>1, <3>2 DEF UseOK, Entitled, JobsGoOn
    <3>3. CASE d # c
      BY <1>1, <3>1, <3>3 DEF UseOK, Entitled, JobsGoOn
    <3> QED BY <3>2, <3>3
  <2> QED BY <2>2 DEF UseInv
<1>9. DrawnOnce' /\ OwnersAreListed' /\ JobInv'
  BY <1>1 DEF DrawnOnce, OwnersAreListed, JobInv, JobsGoOn
<1>10. HandlersKnowTheCaller'
  BY <1>1, <1>2 DEF HandlersKnowTheCaller, MayAnswer
<1>11. UsableInv'
  <2> SUFFICES ASSUME NEW d \in Calls, NEW s \in Calls,
                      op[s] = "Start", op[d] = "Status", d \notin gone,
                      target[d] # "", target[d] = target[s], chain[d] = chain[s],
                      answer'[d] = "Internal"
               PROVE  FALSE
    BY DEF UsableInv
  <2>a. d = c
    BY <1>1 DEF UsableInv
  <2>b. status = "Internal"
    BY <1>1, <2>a
  <2> USE <2>a, <2>b
  <2>1. target[c] \in Jobs /\ (state[target[c]] = "Unspecified" \/ ~Entitled(c))
    BY DEF MayAnswer, TypeOK
  <2>2. PICK t \in Calls : op[t] = "Start" /\ pc[t] = "over" /\ answer[t] = "ok"
                           /\ target[t] = target[c]
    BY DEF UseInv, UseOK, Told, Printed, Operations
  <2>3. t = s
    BY <2>2 DEF DrawnOnce
  <2>4. state[target[c]] # "Unspecified" /\ owner[target[c]] = CertifiedName(c)
    BY <2>2, <2>3 DEF StartInv, StartOK, CertifiedName
  <2>5. pc[c] \in Pending
    BY DEF MayAnswer
  <2>6. ctx[c].name = CertifiedName(c)
    BY <2>5, CallerFacts DEF Accepted
  <2> QED BY <2>1, <2>4, <2>6 DEF Entitled
<1> QED BY <1>3, <1>5, <1>6, <1>7, <1>8, <1>9, <1>10, <1>11

\* A stream begins, or a Stop polls.
LEMMA EnterStep ==
  ASSUME SInv, NEW c \in Calls, StreamOutput(c) \/ StopKills(c) PROVE SInv'
<1> USE DEF SInv
<1>1. /\ pc[c] = "library" /\ target[c] \in Jobs /\ state[target[c]] # "Unspecified"
      /\ Entitled(c)
      /\ \/ op[c] = "StreamOutput" /\ pc'[c] \in {"live", "final"}
         \/ op[c] = "Stop" /\ pc'[c] = "stop"
      /\ \A d \in Calls \ {c} : pc'[d] = pc[d]
      /\ pc' \in [Calls -> Pending \cup {"idle", "sent", "answered", "over"}]
      /\ mu' \subseteq Calls
      /\ UNCHANGED <<server, state, alive, owner, op, target, chain, ctx, answer, gone>>
  <2>1. Found(c) /\ UNCHANGED <<server, jobVars, argVars, ctx, answer, gone>>
    BY DEF StreamOutput, StopKills
  <2>2. CASE StreamOutput(c)
    BY <2>1, <2>2 DEF StreamOutput, Found, Lookup, Goto, TypeOK, Pending, jobVars, argVars
  <2>3. CASE StopKills(c)
    <3>1. /\ pc[c] = "library" /\ target[c] \in Jobs /\ state[target[c]] # "Unspecified"
          /\ Entitled(c) /\ op[c] = "Stop" /\ mu' = {c}
          /\ pc' = [pc EXCEPT ![c] = "stop"]
      BY <2>3 DEF StopKills, Found, Lookup, Goto
    <3>2. pc'[c] = "stop" /\ \A d \in Calls \ {c} : pc'[d] = pc[d]
      BY <3>1, GotoFacts
    <3>3. pc' \in [Calls -> Pending \cup {"idle", "sent", "answered", "over"}]
      BY <3>1 DEF TypeOK, Pending
    <3> QED BY <2>1, <3>1, <3>2, <3>3 DEF jobVars, argVars
  <2> QED BY <2>2, <2>3
<1>2. TypeOK'
  BY <1>1 DEF TypeOK
<1>3. Told \subseteq Told'
  BY <1>1, ToldStays
<1>4. LabelInv'
  BY <1>1 DEF LabelInv, LabelOK
<1>5. CallerInv'
  BY <1>1 DEF CallerInv, Accepted, Pending
<1>6. StartInv'
  BY <1>1 DEF StartInv, StartOK, HasDirectory, CertifiedName
<1>7. UseInv'
  BY <1>1, <1>3 DEF UseInv, UseOK, Entitled
<1>8. (DrawnOnce /\ UsableInv /\ HandlersKnowTheCaller /\ OwnersAreListed /\ JobInv)'
  BY <1>1 DEF DrawnOnce, UsableInv, HandlersKnowTheCaller, OwnersAreListed, JobInv
<1> QED BY <1>2, <1>4, <1>5, <1>6, <1>7, <1>8

\* A Start draws an ID that no other has.
LEMMA LaunchStep ==
  ASSUME SInv, NEW c \in Calls, NEW j \in Jobs, StartLaunch(c, j) PROVE SInv'
<1> USE DEF SInv
<1>1. /\ pc[c] = "library" /\ op[c] = "Start" /\ HasDirectory(c)
      /\ alive[j] = "not started" /\ alive' = [alive EXCEPT ![j] = "started"]
      /\ target' = [target EXCEPT ![c] = j] /\ pc' = [pc EXCEPT ![c] = "publish"]
      /\ UNCHANGED <<server, state, owner, mu, op, chain, ctx, answer, gone>>
  BY DEF StartLaunch, Launched, Goto, Lib!Launch
<1>2. TypeOK'
  BY <1>1 DEF TypeOK, Pending
<1>3. /\ pc[c] = "library" /\ op[c] = "Start" /\ HasDirectory(c)
      /\ alive[j] = "not started" /\ alive'[j] = "started"
      /\ \A k \in Jobs \ {j} : alive'[k] = alive[k]
      /\ target'[c] = j /\ pc'[c] = "publish"
      /\ \A d \in Calls \ {c} : target'[d] = target[d] /\ pc'[d] = pc[d]
      /\ UNCHANGED <<server, state, owner, mu, op, chain, ctx, answer, gone>>
  <2>1. TypeOK
    OBVIOUS
  <2> HIDE DEF SInv
  <2>2. /\ alive[j] = "not started" /\ alive'[j] = "started"
        /\ \A k \in Jobs \ {j} : alive'[k] = alive[k]
        /\ target'[c] = j /\ pc'[c] = "publish"
        /\ \A d \in Calls \ {c} : target'[d] = target[d] /\ pc'[d] = pc[d]
    BY <2>1, LaunchFacts
  <2> QED BY <1>1, <2>2
<1>4. answer[c] = "none" /\ target[c] = "" /\ j # ""
  BY <1>3, ServiceAssumption DEF LabelInv, LabelOK, StartInv, StartOK
<1>5. \A d \in Calls : target[d] # j
  <2>1. \A d \in Calls : op[d] = "Start" => target[d] # j
    BY <1>3, <1>4 DEF StartInv, StartOK
  <2>2. j \notin Told
    BY <2>1 DEF Told
  <2>3. \A d \in Calls : op[d] \notin Operations => target[d] = ""
    BY DEF LabelInv, LabelOK
  <2> QED BY <1>4, <2>1, <2>2, <2>3 DEF UseInv, UseOK
<1>6. Told \subseteq Told'
  BY <1>3, ToldStays
<1>7. LabelInv'
  <2>1. LabelOK(c)'
    BY <1>3, <1>4 DEF LabelInv, LabelOK, Operations
  <2>2. ASSUME NEW d \in Calls \ {c} PROVE LabelOK(d)'
    <3>1. LabelOK(d)
      BY DEF LabelInv
    <3>2. /\ pc'[d] = pc[d] /\ target'[d] = target[d]
          /\ UNCHANGED <<op, answer, gone>>
      BY <1>3
    <3> QED BY <3>1, <3>2 DEF LabelOK
  <2> QED BY <2>1, <2>2 DEF LabelInv
<1>8. CallerInv'
  BY <1>3, <1>4 DEF CallerInv, Accepted, Pending
<1>9. StartInv'
  <2>1. \A d \in Calls \ {c} : target[d] # j /\ pc'[d] = pc[d] /\ target'[d] = target[d]
    BY <1>3, <1>5
  <2>2. state[j] = "Unspecified"
    BY <1>3 DEF JobInv
  <2>3. StartOK(c)'
    BY <1>3, <1>4, <2>2 DEF StartOK, HasDirectory
  <2>4. ASSUME NEW d \in Calls \ {c}, op[d] = "Start" PROVE StartOK(d)'
    <3>1. StartOK(d) /\ (target[d] # "" => target[d] \in Jobs)
      BY <2>4 DEF StartInv, TypeOK
    <3>2. target[d] # "" => alive'[target[d]] = alive[target[d]]
      BY <1>3, <2>1, <3>1
    <3> HIDE DEF SInv
    <3> QED BY <1>3, <2>1, <3>1, <3>2 DEF StartOK, HasDirectory, CertifiedName
  <2> QED BY <1>3, <2>3, <2>4 DEF StartInv
<1>10. UseInv'
  <2> SUFFICES ASSUME NEW d \in Calls, op[d] \in Operations \ {"Start"} PROVE UseOK(d)'
    BY <1>3 DEF UseInv
  <2>1. UseOK(d) /\ d # c
    BY <1>3 DEF UseInv
  <2> QED BY <1>3, <1>6, <2>1 DEF UseOK, Entitled
<1>11. DrawnOnce'
  <2> SUFFICES ASSUME NEW d \in Calls, NEW e \in Calls, op'[d] = "Start", op'[e] = "Start",
                      target'[d] # "", target'[d] = target'[e]
               PROVE  d = e
    BY DEF DrawnOnce
  <2>1. CASE d = c \/ e = c
    BY <1>3, <1>5, <2>1
  <2>2. CASE d # c /\ e # c
    BY <1>3, <2>2 DEF DrawnOnce
  <2> QED BY <2>1, <2>2
<1>12. UsableInv'
  <2> SUFFICES ASSUME NEW d \in Calls, NEW s \in Calls,
                      op'[s] = "Start", op'[d] = "Status", d \notin gone',
                      target'[d] # "", target'[d] = target'[s], chain'[d] = chain'[s]
               PROVE  answer'[d] # "Internal"
    BY DEF UsableInv
  <2>1. d # c
    BY <1>3
  <2>2. s # c
    BY <1>3, <1>5, <2>1
  <2> QED BY <1>3, <2>1, <2>2 DEF UsableInv
<1>13. HandlersKnowTheCaller' /\ OwnersAreListed' /\ JobInv'
  BY <1>3 DEF HandlersKnowTheCaller, OwnersAreListed, JobInv
<1> QED BY <1>2, <1>7, <1>8, <1>9, <1>10, <1>11, <1>12, <1>13

\* A Start publishes its job under the name that the caller was accepted for.
LEMMA PublishStep ==
  ASSUME SInv, NEW c \in Calls, StartPublish(c) PROVE SInv'
<1> USE DEF SInv
<1>1. /\ pc[c] = "publish" /\ op[c] = "Start" /\ target[c] \in Jobs /\ HasDirectory(c)
      /\ answer[c] = "none"
  BY ServiceAssumption DEF StartPublish, LabelInv, LabelOK, StartInv, StartOK
<1>2. ctx[c].name = CertifiedName(c) /\ ctx[c].name \in Names
  BY <1>1, CallerFacts DEF Accepted, Pending
<1>3. /\ state[target[c]] = "Unspecified"
      /\ state' = [state EXCEPT ![target[c]] = "Running"]
      /\ owner' = [owner EXCEPT ![target[c]] = ctx[c].name]
      /\ UNCHANGED <<server, alive, mu, op, target, chain, ctx, gone>>
  BY DEF StartPublish, Lib!Publish, argVars
<1>4. /\ pc'[c] \in {"answered", "over"}
      /\ answer'[c] = "ok" \/ (c \in gone /\ answer'[c] = "none")
      /\ \A d \in Calls \ {c} : pc'[d] = pc[d] /\ answer'[d] = answer[d]
      /\ pc' \in [Calls -> Pending \cup {"idle", "sent", "answered", "over"}]
      /\ answer' \in [Calls -> Statuses \cup {"none"}]
      /\ c \in gone => answer'[c] = "none"
  <2>1. /\ pc \in [Calls -> Pending \cup {"idle", "sent", "answered", "over"}]
        /\ answer \in [Calls -> Statuses \cup {"none"}]
    BY DEF TypeOK
  <2>2. Answer(c, "ok")
    BY DEF StartPublish, Published
  <2>3. /\ pc' \in [Calls -> Pending \cup {"idle", "sent", "answered", "over"}]
        /\ answer' \in [Calls -> Statuses \cup {"none"}]
    <3> HIDE DEF SInv
    <3>1. CASE c \in gone
      BY <2>1, <2>2, <3>1 DEF Answer, Goto
    <3>2. CASE c \notin gone
      BY <2>1, <2>2, <3>2 DEF Answer, Goto, Statuses
    <3> QED BY <3>1, <3>2
  <2> QED BY <1>1, <2>2, <2>3, AnswerFacts
<1>5. TypeOK'
  BY <1>1, <1>2, <1>3, <1>4 DEF TypeOK
<1>6. /\ state'[target[c]] = "Running" /\ owner'[target[c]] = CertifiedName(c)
      /\ \A k \in Jobs \ {target[c]} : state'[k] = state[k] /\ owner'[k] = owner[k]
  <2>1. state \in [Jobs -> {"Unspecified", "Running", "TerminatedByAPI", "Completed"}]
    BY DEF TypeOK
  <2>2. owner \in [Jobs -> Names \cup {""}]
    BY DEF TypeOK
  <2> HIDE DEF SInv
  <2>3. state'[target[c]] = "Running" /\ \A k \in Jobs \ {target[c]} : state'[k] = state[k]
    BY <1>1, <1>3, <2>1
  <2>4. owner'[target[c]] = ctx[c].name /\ \A k \in Jobs \ {target[c]} : owner'[k] = owner[k]
    BY <1>1, <1>3, <2>2
  <2> QED BY <1>2, <2>3, <2>4
<1>7. Told \subseteq Told'
  BY <1>1, <1>3, <1>4, ToldStays
<1>8. LabelInv'
  <2> SUFFICES ASSUME NEW d \in Calls PROVE LabelOK(d)'
    BY DEF LabelInv
  <2>1. LabelOK(d)
    BY DEF LabelInv
  <2>2. CASE d = c
    BY <1>1, <1>3, <1>4, <2>1, <2>2 DEF LabelOK
  <2>3. CASE d # c
    BY <1>3, <1>4, <2>1, <2>3 DEF LabelOK
  <2> QED BY <2>2, <2>3
<1>9. CallerInv'
  BY <1>1, <1>3, <1>4 DEF CallerInv, Accepted, Pending
<1>10. StartInv'
  <2>1. \A d \in Calls \ {c} : op[d] = "Start" => target[d] # target[c]
    BY <1>1, ServiceAssumption DEF DrawnOnce
  <2>2. StartOK(c) /\ target[c] # ""
    BY <1>1, ServiceAssumption DEF StartInv
  <2>3. StartOK(c)'
    BY <1>1, <1>3, <1>4, <1>6, <2>2 DEF StartOK, CertifiedName
  <2>4. ASSUME NEW d \in Calls \ {c}, op[d] = "Start" PROVE StartOK(d)'
    <3>1. StartOK(d) /\ (target[d] # "" => target[d] \in Jobs)
      BY <2>4 DEF StartInv, TypeOK
    <3>2. /\ pc'[d] = pc[d] /\ answer'[d] = answer[d]
          /\ UNCHANGED <<alive, op, target, chain, ctx, gone>>
      BY <1>3, <1>4
    <3>3. CASE target[d] = ""
      BY <3>1, <3>2, <3>3, ServiceAssumption DEF StartOK
    <3>4. CASE target[d] # ""
      <4>1. state'[target[d]] = state[target[d]] /\ owner'[target[d]] = owner[target[d]]
        BY <1>6, <2>1, <2>4, <3>1, <3>4
      <4> QED BY <3>1, <3>2, <4>1 DEF StartOK, HasDirectory, CertifiedName
    <3> QED BY <3>3, <3>4
  <2> QED BY <1>3, <2>3, <2>4 DEF StartInv
<1>11. UseInv'
  <2> SUFFICES ASSUME NEW d \in Calls, op[d] \in Operations \ {"Start"}
               PROVE  /\ target[d] # "" => target[d] \in Told'
                      /\ pc'[d] \in {"live", "final", "stop"} \/ answer'[d] = "ok" =>
                           /\ target[d] \in Jobs /\ state'[target[d]] # "Unspecified"
                           /\ owner'[target[d]] = ctx[d].name \/ ctx[d].role = "Admin"
    BY <1>3 DEF UseInv, UseOK, Entitled
  <2>1. d # c
    BY <1>1
  <2>2. target[d] # "" => target[d] \in Told'
    BY <1>7 DEF UseInv, UseOK
  <2>3. ASSUME pc[d] \in {"live", "final", "stop"} \/ answer[d] = "ok"
        PROVE  /\ target[d] \in Jobs /\ state'[target[d]] # "Unspecified"
               /\ owner'[target[d]] = ctx[d].name \/ ctx[d].role = "Admin"
    <3>1. target[d] \in Jobs /\ state[target[d]] # "Unspecified" /\ Entitled(d)
      BY <2>3 DEF UseInv, UseOK
    <3> QED BY <1>3, <1>6, <3>1 DEF Entitled
  <2> QED BY <1>4, <2>1, <2>2, <2>3
<1>12. DrawnOnce' /\ HandlersKnowTheCaller'
  BY <1>3, <1>4 DEF DrawnOnce, HandlersKnowTheCaller
<1>13. OwnersAreListed' /\ JobInv'
  <2>1. alive[target[c]] # "not started"
    BY <1>1, ServiceAssumption DEF StartInv, StartOK
  <2> QED BY <1>1, <1>2, <1>3, <1>6, <2>1 DEF OwnersAreListed, JobInv, HasDirectory
<1>14. UsableInv'
  <2>1. \A d \in Calls : op[d] = "Status" => answer'[d] = answer[d]
    BY <1>1, <1>4
  <2> QED BY <1>3, <2>1 DEF UsableInv
<1> QED BY <1>5, <1>8, <1>9, <1>10, <1>11, <1>12, <1>13, <1>14

\* The answers that AnswerStep is about, and what each is given for.
LEMMA AnsweringStep ==
  ASSUME SInv, NEW c \in Calls,
         \/ validateClient(c) \/ Refused(c) \/ StartFails(c) \/ LookupFails(c) \/ Details(c)
         \/ StreamEnds(c) \/ StopFails(c)
  PROVE  SInv'
<1> USE DEF SInv
<1>1. LabelOK(c) /\ (op[c] = "Start" => StartOK(c)) /\ (op[c] \in Operations \ {"Start"} => UseOK(c))
  BY DEF LabelInv, StartInv, UseInv
<1>2. mu \subseteq Calls /\ (UNCHANGED jobVars => JobsGoOn)
  BY DEF TypeOK, jobVars, JobsGoOn
<1>3. ASSUME NEW status, Answer(c, status), MayAnswer(c, status), mu' \subseteq Calls,
             UNCHANGED <<server, jobVars, argVars, ctx, gone>>
      PROVE  SInv'
  BY <1>2, <1>3, AnswerStep
<1>4. CASE validateClient(c)
  <2>1. PICK status \in {"Canceled", "Unauthenticated"} : Answer(c, status)
    BY <1>4 DEF validateClient
  <2>2. MayAnswer(c, status)
    BY <1>1, <1>4 DEF validateClient, MayAnswer, StartOK, Statuses
  <2> QED BY <1>2, <1>3, <1>4, <2>1, <2>2 DEF validateClient
<1>5. CASE Refused(c)
  <2>1. MayAnswer(c, "Unavailable")
    BY <1>1, <1>5 DEF Refused, MayAnswer, StartOK, Statuses
  <2> QED BY <1>2, <1>3, <1>5, <2>1 DEF Refused
<1>6. CASE StartFails(c)
  <2>1. MayAnswer(c, "Internal")
    BY <1>1, <1>6 DEF StartFails, MayAnswer, StartOK, Statuses, Pending
  <2> QED BY <1>2, <1>3, <1>6, <2>1 DEF StartFails
<1>7. CASE LookupFails(c)
  <2>1. op[c] # "Start" /\ pc[c] \in Pending
    BY <1>7 DEF LookupFails, Lookup, Pending
  <2>2. MayAnswer(c, "Internal")
    BY <1>7, <2>1, ServiceAssumption DEF LookupFails, MayAnswer, Statuses
  <2> QED BY <1>2, <1>3, <1>7, <2>2 DEF LookupFails
<1>8. CASE Details(c)
  <2>1. MayAnswer(c, "ok")
    BY <1>8 DEF Details, Found, Lookup, MayAnswer, Statuses, Pending
  <2> QED BY <1>2, <1>3, <1>8, <2>1 DEF Details
<1>9. CASE StreamEnds(c)
  <2>1. op[c] = "StreamOutput" /\ pc[c] \in {"live", "final"}
    BY <1>1, <1>9 DEF StreamEnds, LabelOK
  <2>2. UseOK(c)
    BY <1>1, <2>1 DEF Operations
  <2>3. MayAnswer(c, "ok") /\ MayAnswer(c, "Internal")
    BY <2>1, <2>2 DEF MayAnswer, UseOK, Statuses, Pending
  <2> QED BY <1>2, <1>3, <1>9, <2>3 DEF StreamEnds
<1>10. CASE StopFails(c)
  <2>1. op[c] = "Stop" /\ pc[c] = "stop"
    BY <1>1, <1>10 DEF StopFails, LabelOK
  <2>2. MayAnswer(c, "Internal")
    BY <2>1 DEF MayAnswer, Statuses, Pending
  <2> QED BY <1>3, <1>10, <2>2 DEF StopFails, Unlock
<1> QED BY <1>4, <1>5, <1>6, <1>7, <1>8, <1>9, <1>10

\* A job ends, by a Stop or by itself.
LEMMA EndStep ==
  ASSUME SInv, NEW j \in Jobs, Lib!End(j), UNCHANGED owner
  PROVE  JobsGoOn
<1>1. PICK s \in {"TerminatedByAPI", "Completed"} :
        state[j] = "Running" /\ state' = [state EXCEPT ![j] = s] /\ UNCHANGED alive
  BY DEF Lib!End
<1>2. TypeOK
  BY DEF SInv
<1>3. \A k \in Jobs : state'[k] = IF k = j THEN s ELSE state[k]
  BY <1>1, <1>2 DEF TypeOK
<1> QED BY <1>1, <1>2, <1>3 DEF TypeOK, JobsGoOn

\* Every step keeps the invariant.
LEMMA SInvStep == SInv /\ [Next]_vars => SInv'
<1> SUFFICES ASSUME SInv, [Next]_vars PROVE SInv'
  OBVIOUS
<1>1. TypeOK
  BY DEF SInv
<1>2. UNCHANGED jobVars => JobsGoOn
  BY <1>1 DEF TypeOK, jobVars, JobsGoOn
<1>3. ASSUME NEW c \in Calls, Client(c) PROVE SInv'
  BY <1>3, ClientMainStep, ClientEndStep, ClientLeavesStep DEF Client
<1>4. ASSUME NEW c \in Calls, StopEnds(c) PROVE SInv'
  <2>1. op[c] = "Stop" /\ pc[c] = "stop" /\ UseOK(c)
    BY <1>4 DEF StopEnds, SInv, LabelInv, LabelOK, UseInv, Operations
  <2>2. MayAnswer(c, "ok")
    BY <2>1 DEF MayAnswer, UseOK, Statuses, Pending
  <2>3. JobsGoOn
    BY <1>4, <2>1, EndStep DEF StopEnds, UseOK
  <2> QED BY <1>4, <2>2, <2>3, AnswerStep DEF StopEnds
<1>5. ASSUME NEW c \in Calls, Serve(c) \/ StreamEnds(c) PROVE SInv'
  BY <1>4, <1>5, AnsweringStep, HandlerStep, LaunchStep, PublishStep, EnterStep DEF Serve
<1>6. ASSUME NEW j \in Jobs, Collect(j) \/ Complete(j) PROVE SInv'
  <2>1. JobsGoOn
    <3>1. CASE Collect(j)
      BY <1>1, <3>1 DEF Collect, Lib!Collect, TypeOK, JobsGoOn
    <3>2. CASE Complete(j)
      BY <3>2, EndStep DEF Complete
    <3> QED BY <1>6, <3>1, <3>2
  <2> QED BY <1>1, <1>6, <2>1, QuietStep DEF Collect, Complete, TypeOK
<1>7. CASE StopServing \/ GracefulStop \/ AllOver \/ UNCHANGED vars
  <2>1. UNCHANGED <<jobVars, mu, pc, argVars, ctx, answer, gone>>
    BY <1>7 DEF StopServing, GracefulStop, AllOver, vars, jobVars, argVars
  <2>2. server' \in {"serving", "stopping", "stopped"}
    BY <1>1, <1>7 DEF StopServing, GracefulStop, AllOver, vars, TypeOK
  <2> QED BY <1>1, <1>2, <2>1, <2>2, QuietStep DEF TypeOK
<1> QED BY <1>3, <1>5, <1>6, <1>7 DEF Next

\* Hence it holds throughout.
LEMMA SInvHolds == Spec => []SInv
BY SInvInit, SInvStep, PTL DEF Spec

-----------------------------------------------------------------------------
(* What follows                                                            *)

\* No step gives a variable a value of another kind: an owner is a client name,
\* an answer one of the statuses.
THEOREM ServiceTypeCorrect == Spec => []TypeOK
<1>1. SInv => TypeOK
  BY DEF SInv
<1> QED BY <1>1, SInvHolds, PTL

\* The client info reaches every handler, and the handlers' own check never
\* turns down what the interceptors let through.
THEOREM CallersAreKnown == Spec => []HandlersKnowTheCaller
<1>1. SInv => HandlersKnowTheCaller
  BY DEF SInv
<1> QED BY <1>1, SInvHolds, PTL

\* Every job belongs to a client whose directory the server sets up and tears
\* down.
THEOREM OwnersListed == Spec => []OwnersAreListed
<1>1. SInv => OwnersAreListed
  BY DEF SInv
<1> QED BY <1>1, SInvHolds, PTL

\* A call is served for a job only with a certificate for the name of the
\* Start, or for an administrator's.
THEOREM OwnJobsOnly == Spec => []JobsAreTheirOwners
<1>1. SInv => JobsAreTheirOwners
  <2> SUFFICES ASSUME SInv, NEW c \in Calls, NEW s \in Calls,
                      op[s] = "Start", op[c] \in Operations \ {"Start"},
                      target[c] # "", target[c] = target[s],
                      pc[c] \in {"live", "final", "stop"} \/ answer[c] = "ok"
               PROVE  \/ CertifiedName(c) = CertifiedName(s)
                      \/ IsClientAuthorized(CertifiedName(c)) = "Admin"
    BY DEF JobsAreTheirOwners
  <2>1. state[target[c]] # "Unspecified" /\ Entitled(c)
    BY DEF SInv, UseInv, UseOK
  <2>2. owner[target[c]] = CertifiedName(s)
    BY <2>1 DEF SInv, StartInv, StartOK
  <2>3. ctx[c].name = CertifiedName(c) /\ ctx[c].role = IsClientAuthorized(CertifiedName(c))
    BY CallerFacts DEF SInv, Accepted, Pending
  <2> QED BY <2>1, <2>2, <2>3 DEF Entitled
<1> QED BY <1>1, SInvHolds, PTL

\* Who was told an ID is not refused the job's status with the same
\* certificate.
THEOREM ToldUsable == Spec => []ToldIsUsable
<1>1. SInv => ToldIsUsable
  <2>1. SInv => Told \subseteq Jobs
    BY DEF SInv, Told, StartInv, StartOK
  <2> QED BY <2>1, ServiceAssumption DEF SInv, ToldIsUsable, UsableInv
<1> QED BY <1>1, SInvHolds, PTL

-----------------------------------------------------------------------------
(* What GracefulStop leaves behind                                         *)

\* A Start between launch and publish accounts for a job that is half started, a
\* polling Stop for mu; once stopped, the server has no call under way.
SettledInv ==
    /\ \A c \in mu : pc[c] = "stop"
    /\ \A j \in Jobs : alive[j] # "not started" /\ state[j] = "Unspecified"
                       => \E c \in Calls : pc[c] = "publish" /\ target[c] = j
    /\ server = "stopped" => \A c \in Calls : pc[c] \notin Pending

\* The call c moves, and accounts for what it does to the jobs and to mu.
Accounts(c) ==
    /\ server' = server
    /\ \A d \in Calls \ {c} : pc'[d] = pc[d] /\ target'[d] = target[d]
    /\ pc'[c] \in Pending => server # "stopped"
    /\ mu' \subseteq mu \cup {c}
    /\ c \in mu' => pc'[c] = "stop"
    /\ \A j \in Jobs : alive'[j] # "not started" /\ state'[j] = "Unspecified"
                       => \/ /\ alive[j] # "not started" /\ state[j] = "Unspecified"
                             /\ pc[c] # "publish" \/ target[c] # j
                          \/ pc'[c] = "publish" /\ target'[c] = j

\* Such a move leaves nothing unaccounted for.
LEMMA AccountedMove ==
  ASSUME SInv, SettledInv, NEW c \in Calls, Accounts(c)
  PROVE  SettledInv'
<1>1. ASSUME NEW d \in mu' PROVE pc'[d] = "stop"
  <2>1. mu \subseteq Calls /\ mu' \subseteq mu \cup {c}
    BY DEF Accounts, SInv, TypeOK
  <2>2. d \in Calls /\ (d = c \/ d \in mu)
    BY <2>1
  <2> QED BY <2>2 DEF SettledInv, Accounts
<1>2. ASSUME NEW j \in Jobs, alive'[j] # "not started", state'[j] = "Unspecified"
      PROVE  \E d \in Calls : pc'[d] = "publish" /\ target'[d] = j
  <2>1. CASE pc'[c] = "publish" /\ target'[c] = j
    BY <2>1
  <2>2. CASE ~(pc'[c] = "publish" /\ target'[c] = j)
    <3>1. /\ alive[j] # "not started" /\ state[j] = "Unspecified"
          /\ pc[c] # "publish" \/ target[c] # j
      BY <1>2, <2>2 DEF Accounts
    <3>2. PICK d \in Calls : pc[d] = "publish" /\ target[d] = j
      BY <3>1 DEF SettledInv
    <3>3. d # c
      BY <3>1, <3>2
    <3> QED BY <3>2, <3>3 DEF Accounts
  <2> QED BY <2>1, <2>2
<1>3. server' = "stopped" => \A d \in Calls : pc'[d] \notin Pending
  BY DEF SettledInv, Accounts
<1> QED BY <1>1, <1>2, <1>3 DEF SettledInv

\* The steps of client programs and interceptors, and those of handlers that neither
\* launch, publish nor end a job, move one call.
Ordinary(c) ==
    \/ Client(c) \/ validateClient(c) \/ Handler(c) \/ Refused(c)
    \/ StartFails(c) \/ LookupFails(c) \/ Details(c) \/ StreamOutput(c)
    \/ StopKills(c) \/ StopFails(c) \/ StreamEnds(c)

LEMMA OthersStay ==
  ASSUME TypeOK, NEW c \in Calls, Ordinary(c)
  PROVE  /\ UNCHANGED <<server, state, alive>>
         /\ \A d \in Calls \ {c} : pc'[d] = pc[d] /\ target'[d] = target[d]
<1> USE DEF Ordinary
<1>1. /\ UNCHANGED <<server, state, alive>>
      /\ UNCHANGED target \/ ClientMain(c)
  BY DEF Client, ClientFails, ClientPrints, ClientLeaves, ClientMain, validateClient, Handler,
     Refused, StartFails, LookupFails, Details, StreamOutput, StopKills, StopFails, StreamEnds,
     jobVars, argVars
<1>2. \A d \in Calls \ {c} : target'[d] = target[d]
  <2>1. CASE ClientMain(c)
    <3>1. PICK j : target' = [target EXCEPT ![c] = j]
      BY <2>1 DEF ClientMain
    <3>2. target \in [Calls -> Jobs \cup {""}]
      BY DEF TypeOK
    <3> QED BY <3>1, <3>2
  <2> QED BY <1>1, <2>1
<1>3. \A d \in Calls \ {c} : pc'[d] = pc[d]
  <2>1. CASE \E status : Answer(c, status)
    BY <2>1, AnswerFacts
  <2>2. CASE \E label : pc' = [pc EXCEPT ![c] = label]
    BY <2>2, GotoFacts
  <2>3. CASE Client(c) \/ StreamOutput(c) \/ StopKills(c)
    <3>1. \E label : pc' = [pc EXCEPT ![c] = label]
      BY <2>3 DEF Client, ClientMain, ClientFails, ClientPrints, ClientLeaves, StreamOutput,
         StopKills, Goto
    <3> QED BY <2>2, <3>1
  <2>4. CASE Handler(c)
    BY <2>1, <2>2, <2>4 DEF Handler, Goto
  <2>5. CASE \/ validateClient(c) \/ Refused(c) \/ StartFails(c) \/ LookupFails(c)
             \/ Details(c) \/ StopFails(c) \/ StreamEnds(c)
    BY <2>1, <2>5 DEF validateClient, Refused, StartFails, LookupFails, Details, StopFails, StreamEnds
  <2> QED BY <2>3, <2>4, <2>5
<1> QED BY <1>1, <1>2, <1>3

\* They leave nothing unaccounted for.
LEMMA OrdinaryMove ==
  ASSUME SInv, SettledInv, NEW c \in Calls,
         Ordinary(c)
  PROVE  SettledInv'
<1> USE DEF Ordinary
<1>0. TypeOK
  BY DEF SInv
<1>1. pc[c] # "publish" \/ ClientLeaves(c)
  BY DEF Client, ClientMain, ClientFails, ClientPrints, NextToRun, validateClient, Handler,
     Refused, StartFails, LookupFails, Details, StreamOutput, StopKills, StopFails, StreamEnds,
     Lookup, Found
<1>2. /\ UNCHANGED <<server, state, alive>>
      /\ \A d \in Calls \ {c} : pc'[d] = pc[d] /\ target'[d] = target[d]
  BY <1>0, OthersStay
<1>3. CASE ClientLeaves(c)
  <2>1. /\ pc'[c] = pc[c] \/ (pc[c] = "answered" /\ pc'[c] = "over")
        /\ UNCHANGED <<mu, target>>
    BY <1>0, <1>3 DEF TypeOK, argVars, ClientLeaves
  <2>2. Accounts(c)
    BY <1>2, <2>1 DEF Accounts, SettledInv, Pending
  <2> QED BY <2>2, AccountedMove
<1>4. CASE StopKills(c)
  <2>1. mu' = {c} /\ pc'[c] = "stop" /\ pc[c] = "library"
    BY <1>0, <1>4 DEF TypeOK, StopKills, Found, Lookup, Goto
  <2>2. Accounts(c)
    BY <1>2, <2>1 DEF Accounts, SettledInv, Pending
  <2> QED BY <2>2, AccountedMove
<1>5. CASE StopFails(c)
  <2>1. mu' = {} /\ pc'[c] \notin Pending /\ pc[c] = "stop"
    <3>1. mu' = {} /\ Answer(c, "Internal") /\ pc[c] = "stop"
      BY <1>5 DEF StopFails, Unlock
    <3> QED BY <1>0, <3>1, AnswerFacts DEF Pending
  <2>2. Accounts(c)
    BY <1>2, <2>1 DEF Accounts
  <2> QED BY <2>2, AccountedMove
<1>6. CASE ~(ClientLeaves(c) \/ StopKills(c) \/ StopFails(c))
  <2>1. mu' = mu /\ pc[c] \notin {"stop", "publish"}
    BY <1>6 DEF Client, ClientMain, ClientFails, ClientPrints, NextToRun, validateClient, Handler,
       Refused, StartFails, LookupFails, Details, StreamOutput, StreamEnds, Lookup, Found
  <2>2. pc'[c] \in Pending => server # "stopped"
    <3>1. CASE Handler(c)
      BY <3>1 DEF Handler
    <3>2. CASE StreamOutput(c)
      BY <3>2 DEF StreamOutput, Found, Lookup, SettledInv, Pending
    <3>3. CASE ~(Handler(c) \/ StreamOutput(c))
      <4>1. CASE ClientMain(c) \/ ClientFails(c) \/ ClientPrints(c)
        <5>1. PICK label \in {"sent", "over"} : pc' = [pc EXCEPT ![c] = label]
          BY <4>1 DEF ClientMain, ClientFails, ClientPrints, Goto
        <5> QED BY <1>0, <5>1, GotoFacts DEF Pending
      <4>2. CASE \/ validateClient(c) \/ Refused(c) \/ StartFails(c)
                 \/ LookupFails(c) \/ Details(c) \/ StreamEnds(c)
        <5>1. PICK status : Answer(c, status)
          BY <4>2 DEF validateClient, Refused, StartFails, LookupFails, Details, StreamEnds
        <5> QED BY <1>0, <5>1, AnswerFacts DEF Pending
      <4> QED BY <1>6, <3>3, <4>1, <4>2 DEF Client
    <3> QED BY <3>1, <3>2, <3>3
  <2>3. c \notin mu
    BY <2>1 DEF SettledInv
  <2>4. Accounts(c)
    BY <1>2, <2>1, <2>2, <2>3 DEF Accounts
  <2> QED BY <2>4, AccountedMove
<1> QED BY <1>3, <1>4, <1>5, <1>6

\* Nothing is half started, and nobody polls, before the first call.
LEMMA SettledInit == Init => SettledInv
  BY DEF Init, Lib!Init, SettledInv, Pending

\* Every step keeps the account.
LEMMA SettledStep == SInv /\ SettledInv /\ [Next]_vars => SettledInv'
<1> SUFFICES ASSUME SInv, SettledInv, [Next]_vars PROVE SettledInv'
  OBVIOUS
<1>0. TypeOK
  BY DEF SInv
<1>1. ASSUME NEW c \in Calls, NEW j \in Jobs, StartLaunch(c, j) PROVE SettledInv'
  <2>1. /\ pc'[c] = "publish" /\ target'[c] = j /\ pc[c] = "library"
        /\ UNCHANGED <<server, mu, state>>
        /\ \A d \in Calls \ {c} : pc'[d] = pc[d] /\ target'[d] = target[d]
        /\ \A k \in Jobs \ {j} : alive'[k] = alive[k]
    <3>1. /\ pc[c] = "library" /\ alive[j] = "not started" /\ alive'[j] = "started"
          /\ \A k \in Jobs \ {j} : alive'[k] = alive[k]
          /\ target'[c] = j /\ pc'[c] = "publish"
          /\ \A d \in Calls \ {c} : target'[d] = target[d] /\ pc'[d] = pc[d]
      BY <1>0, <1>1, LaunchFacts
    <3> QED BY <1>1, <3>1 DEF StartLaunch, Lib!Launch
  <2>2. Accounts(c)
    BY <2>1 DEF Accounts, SettledInv, Pending
  <2> QED BY <2>2, AccountedMove
<1>2. ASSUME NEW c \in Calls, StartPublish(c) PROVE SettledInv'
  <2>1. target[c] \in Jobs
    BY <1>2 DEF StartPublish, SInv, LabelInv, LabelOK, StartInv, StartOK
  <2>2. /\ pc'[c] \notin Pending /\ pc[c] = "publish"
        /\ UNCHANGED <<server, mu, alive, target>>
        /\ \A d \in Calls \ {c} : pc'[d] = pc[d]
        /\ \A j \in Jobs : state'[j] = IF j = target[c] THEN "Running" ELSE state[j]
    <3>1. /\ pc'[c] \in {"answered", "over"} /\ pc[c] = "publish"
          /\ UNCHANGED <<server, mu, target>>
          /\ \A d \in Calls \ {c} : pc'[d] = pc[d]
      <4>1. Answer(c, "ok") /\ pc[c] = "publish" /\ UNCHANGED <<server, mu, target>>
        BY <1>2 DEF StartPublish, Published, argVars
      <4> QED BY <1>0, <4>1, AnswerFacts
    <3>2. alive' = alive /\ state' = [state EXCEPT ![target[c]] = "Running"]
      BY <1>2 DEF StartPublish, Lib!Publish
    <3> QED BY <1>0, <2>1, <3>1, <3>2 DEF TypeOK, Pending
  <2>3. Accounts(c)
    BY <2>1, <2>2 DEF Accounts, SettledInv
  <2> QED BY <2>3, AccountedMove
<1>3. ASSUME NEW c \in Calls, StopEnds(c) PROVE SettledInv'
  <2>1. op[c] = "Stop" /\ pc[c] = "stop" /\ target[c] \in Jobs
    BY <1>3 DEF StopEnds, SInv, LabelInv, LabelOK, UseInv, UseOK, Operations
  <2>2. /\ pc'[c] \notin Pending /\ mu' = {}
        /\ UNCHANGED <<server, target>>
        /\ \A d \in Calls \ {c} : pc'[d] = pc[d]
    <3>1. /\ UNCHANGED <<server, target>> /\ mu' = {} /\ Answer(c, "ok")
      BY <1>3 DEF StopEnds, argVars
    <3>2. pc' = [pc EXCEPT ![c] = "over"] \/ pc' = [pc EXCEPT ![c] = "answered"]
      BY <3>1 DEF Answer, Goto
    <3>3. pc \in [Calls -> Pending \cup {"idle", "sent", "answered", "over"}]
      BY <1>0 DEF TypeOK
    <3> QED BY <3>1, <3>2, <3>3 DEF Pending
  <2>3. JobsGoOn /\ UNCHANGED alive
    BY <1>3, <2>1, EndStep DEF StopEnds, Lib!End
  <2>4. Accounts(c)
    BY <2>1, <2>2, <2>3 DEF Accounts, JobsGoOn
  <2> QED BY <2>4, AccountedMove
<1>4. ASSUME NEW c \in Calls, Client(c) \/ Serve(c) \/ StreamEnds(c) PROVE SettledInv'
  BY <1>1, <1>2, <1>3, <1>4, OrdinaryMove DEF Serve, Ordinary
<1>5. ASSUME NEW j \in Jobs, Collect(j) \/ Complete(j) PROVE SettledInv'
  <2>1. /\ UNCHANGED <<server, mu, pc, target>>
        /\ \A k \in Jobs : /\ state'[k] = "Unspecified" <=> state[k] = "Unspecified"
                           /\ alive'[k] # "not started" => alive[k] # "not started"
    <3>1. CASE Collect(j)
      BY <1>0, <3>1 DEF TypeOK, argVars, Collect, Lib!Collect
    <3>2. CASE Complete(j)
      BY <3>2, EndStep DEF argVars, Complete, Lib!End, JobsGoOn
    <3> QED BY <1>5, <3>1, <3>2
  <2> QED BY <2>1 DEF SettledInv
<1>6. CASE StopServing \/ GracefulStop \/ AllOver \/ UNCHANGED vars
  <2>1. /\ UNCHANGED <<mu, pc, target, alive, state>>
        /\ server' = "stopped" => server = "stopped" \/ \A c \in Calls : pc[c] \notin Pending
    BY <1>6 DEF StopServing, GracefulStop, AllOver, vars, jobVars, argVars
  <2> QED BY <2>1 DEF SettledInv
<1> QED BY <1>4, <1>5, <1>6 DEF Next

\* When GracefulStop has returned every launched job is in the table and mu is
\* free: the teardown begins with a settled library.
THEOREM SettledWhenStopped == Spec => []StoppedIsSettled
<1>1. SInv /\ SettledInv => StoppedIsSettled
  <2> SUFFICES ASSUME SInv, SettledInv, server = "stopped"
               PROVE  mu = {} /\ \A j \in Jobs : alive[j] # "not started" => state[j] # "Unspecified"
    BY DEF StoppedIsSettled
  <2>1. \A c \in Calls : pc[c] # "stop" /\ pc[c] # "publish"
    BY DEF SettledInv, Pending
  <2>2. mu \subseteq Calls
    BY DEF SInv, TypeOK
  <2> QED BY <2>1, <2>2 DEF SettledInv
<1> QED BY <1>1, SettledInit, SettledStep, SInvHolds, PTL DEF Spec

-----------------------------------------------------------------------------
(* No call under way is in another's way                                   *)

\* PendingCanEnd for one call.
CanEnd(c) ==
    /\ pc[c] = "publish" => alive[target[c]] = "started" /\ state[target[c]] = "Unspecified"
    /\ pc[c] = "stop" => mu = {c} /\ state[target[c]] = "Running"

CanEndInv == \A c \in Calls : CanEnd(c)

\* What else is known of a call that publishes or polls: the job is one, and no two
\* Starts are about to publish the same.
LEMMA UnderWay ==
  ASSUME SInv
  PROVE  /\ \A c \in Calls : pc[c] \in {"publish", "stop"} => target[c] \in Jobs
         /\ \A c, d \in Calls : pc[c] = "publish" /\ pc[d] = "publish" /\ target[c] = target[d]
                               => c = d
<1>1. ASSUME NEW c \in Calls, pc[c] = "publish" PROVE op[c] = "Start" /\ target[c] \in Jobs
  BY <1>1 DEF SInv, LabelInv, LabelOK, StartInv, StartOK
<1>2. ASSUME NEW c \in Calls, pc[c] = "stop" PROVE target[c] \in Jobs
  BY <1>2 DEF SInv, LabelInv, LabelOK, UseInv, UseOK, Operations
<1>3. \A c, d \in Calls : pc[c] = "publish" /\ pc[d] = "publish" /\ target[c] = target[d] => c = d
  BY <1>1, ServiceAssumption DEF SInv, DrawnOnce
<1> QED BY <1>1, <1>2, <1>3

\* A call that the step does not move, and whose job and lock it leaves alone.
LEMMA CanEndStays ==
  ASSUME CanEndInv, NEW d \in Calls, pc'[d] = pc[d], target'[d] = target[d],
         pc[d] \in {"publish", "stop"} =>
             alive'[target[d]] = alive[target[d]] /\ state'[target[d]] = state[target[d]],
         pc[d] = "stop" => mu' = mu
  PROVE  CanEnd(d)'
<1>1. CanEnd(d)
  BY DEF CanEndInv
<1> QED BY <1>1 DEF CanEnd

\* mu is free when a Stop begins to poll, and the one that polls is the one that unlocks.
LEMMA OrdinaryCanEnd ==
  ASSUME SInv, SettledInv, CanEndInv, NEW c \in Calls, Ordinary(c)
  PROVE  CanEndInv'
<1>0. TypeOK
  BY DEF SInv
<1>1. /\ UNCHANGED <<server, state, alive>>
      /\ \A d \in Calls \ {c} : pc'[d] = pc[d] /\ target'[d] = target[d]
  BY <1>0, OthersStay
<1>2. ASSUME NEW d \in Calls \ {c}, pc[d] = "stop" PROVE mu' = mu
  <2>1. mu = {d}
    BY <1>2 DEF CanEndInv, CanEnd
  <2>2. ~StopKills(c)
    BY <2>1 DEF StopKills, Found
  <2>3. ~StopFails(c)
    BY <2>1 DEF StopFails, CanEndInv, CanEnd
  <2> QED BY <2>2, <2>3 DEF Ordinary, Client, ClientMain, ClientFails, ClientPrints, ClientLeaves,
             validateClient, Handler, Refused, StartFails, LookupFails, Details, StreamOutput, StreamEnds
<1>3. \A d \in Calls \ {c} : CanEnd(d)'
  BY <1>1, <1>2, CanEndStays
<1>4. CanEnd(c)'
  <2>1. CASE ClientLeaves(c)
    <3>1. /\ pc' = [pc EXCEPT ![c] = IF pc[c] = "answered" THEN "over" ELSE pc[c]]
          /\ UNCHANGED <<mu, target>>
      BY <2>1 DEF ClientLeaves, argVars
    <3>2. pc'[c] = pc[c] \/ pc'[c] = "over"
      BY <1>0, <3>1, GotoFacts
    <3>3. CASE pc'[c] = pc[c]
      BY <1>1, <3>1, <3>3, CanEndStays
    <3>4. CASE pc'[c] = "over"
      BY <3>4 DEF CanEnd
    <3> QED BY <3>2, <3>3, <3>4
  <2>2. CASE StopKills(c)
    <3>1. mu' = {c} /\ pc' = [pc EXCEPT ![c] = "stop"] /\ target' = target /\ state[target[c]] = "Running"
      BY <2>2 DEF StopKills, Goto, argVars
    <3>2. pc'[c] = "stop"
      BY <1>0, <3>1, GotoFacts
    <3> QED BY <1>1, <3>1, <3>2 DEF CanEnd
  <2>3. CASE StreamOutput(c)
    <3>1. PICK label \in {"final", "live"} : pc' = [pc EXCEPT ![c] = label]
      BY <2>3 DEF StreamOutput, Goto
    <3> QED BY <1>0, <3>1, GotoFacts DEF CanEnd
  <2>4. CASE \E label \in {"sent", "over", "library"} : pc' = [pc EXCEPT ![c] = label]
    <3>1. PICK label \in {"sent", "over", "library"} : pc' = [pc EXCEPT ![c] = label]
      BY <2>4
    <3> QED BY <1>0, <3>1, GotoFacts DEF CanEnd
  <2>5. CASE \E status : Answer(c, status)
    <3>1. PICK status : Answer(c, status)
      BY <2>5
    <3> QED BY <1>0, <3>1, AnswerFacts DEF CanEnd
  <2>6. CASE ClientMain(c) \/ ClientFails(c) \/ ClientPrints(c)
    BY <2>4, <2>6 DEF ClientMain, ClientFails, ClientPrints, Goto
  <2>7. CASE Handler(c)
    BY <2>4, <2>5, <2>7 DEF Handler, Goto
  <2>8. CASE \/ validateClient(c) \/ Refused(c) \/ StartFails(c) \/ LookupFails(c)
             \/ Details(c) \/ StopFails(c) \/ StreamEnds(c)
    BY <2>5, <2>8 DEF validateClient, Refused, StartFails, LookupFails, Details, StopFails, StreamEnds
  <2> QED BY <2>1, <2>2, <2>3, <2>6, <2>7, <2>8 DEF Ordinary, Client
<1> QED BY <1>3, <1>4 DEF CanEndInv

\* Every step keeps it: a job is published only by its own Start and without mu, and is
\* ended only by the Stop that holds mu, or when nobody holds it.
LEMMA CanEndStep == SInv /\ SettledInv /\ CanEndInv /\ [Next]_vars => CanEndInv'
<1> SUFFICES ASSUME SInv, SettledInv, CanEndInv, [Next]_vars PROVE CanEndInv'
  OBVIOUS
<1>0. TypeOK
  BY DEF SInv
<1>a. ASSUME NEW d \in Calls
      PROVE  /\ pc[d] = "publish" => alive[target[d]] = "started" /\ state[target[d]] = "Unspecified"
             /\ pc[d] = "stop" => mu = {d} /\ state[target[d]] = "Running"
             /\ pc[d] \in {"publish", "stop"} => target[d] \in Jobs
  BY UnderWay DEF CanEndInv, CanEnd
<1>1. ASSUME NEW c \in Calls, NEW j \in Jobs, StartLaunch(c, j) PROVE CanEndInv'
  <2>1. /\ pc'[c] = "publish" /\ target'[c] = j /\ alive[j] = "not started" /\ alive'[j] = "started"
        /\ UNCHANGED <<mu, state>>
        /\ \A d \in Calls \ {c} : pc'[d] = pc[d] /\ target'[d] = target[d]
        /\ \A k \in Jobs \ {j} : alive'[k] = alive[k]
    <3>1. /\ pc[c] = "library" /\ alive[j] = "not started" /\ alive'[j] = "started"
          /\ \A k \in Jobs \ {j} : alive'[k] = alive[k]
          /\ target'[c] = j /\ pc'[c] = "publish"
          /\ \A d \in Calls \ {c} : target'[d] = target[d] /\ pc'[d] = pc[d]
      BY <1>0, <1>1, LaunchFacts
    <3> QED BY <1>1, <3>1 DEF StartLaunch, Lib!Launch
  <2>2. state[j] = "Unspecified"
    BY <2>1 DEF SInv, JobInv
  <2>3. CanEnd(c)'
    BY <2>1, <2>2 DEF CanEnd
  <2>4. ASSUME NEW d \in Calls \ {c} PROVE CanEnd(d)'
    <3>1. pc[d] \in {"publish", "stop"} => target[d] \in Jobs \ {j}
      BY <1>a, <2>1, <2>2
    <3> QED BY <2>1, <3>1, CanEndStays
  <2> QED BY <2>3, <2>4 DEF CanEndInv
<1>2. ASSUME NEW c \in Calls, StartPublish(c) PROVE CanEndInv'
  <2>1. /\ pc[c] = "publish" /\ mu = {} /\ Answer(c, "ok")
        /\ UNCHANGED <<mu, alive, target>>
        /\ state' = [state EXCEPT ![target[c]] = "Running"]
    BY <1>2 DEF StartPublish, Published, Lib!Publish, argVars
  <2>2. pc'[c] \in {"answered", "over"} /\ \A d \in Calls \ {c} : pc'[d] = pc[d]
    BY <1>0, <2>1, AnswerFacts
  <2>3. CanEnd(c)'
    BY <2>2 DEF CanEnd
  <2>4. ASSUME NEW d \in Calls \ {c} PROVE CanEnd(d)'
    <3>1. pc[d] # "stop"
      BY <1>a, <2>1
    <3>2. pc[d] = "publish" => target[d] \in Jobs /\ target[d] # target[c]
      BY <2>1, UnderWay
    <3>3. pc[d] = "publish" => state'[target[d]] = state[target[d]]
      BY <1>0, <2>1, <3>2 DEF TypeOK
    <3> QED BY <2>1, <2>2, <3>1, <3>3, CanEndStays
  <2> QED BY <2>3, <2>4 DEF CanEndInv
<1>3. ASSUME NEW c \in Calls, StopEnds(c) PROVE CanEndInv'
  <2>1. /\ pc[c] = "stop" /\ Answer(c, "ok") /\ UNCHANGED <<alive, target>>
        /\ \E s : state' = [state EXCEPT ![target[c]] = s]
    BY <1>3 DEF StopEnds, Lib!End, argVars
  <2>2. pc'[c] \in {"answered", "over"} /\ \A d \in Calls \ {c} : pc'[d] = pc[d]
    BY <1>0, <2>1, AnswerFacts
  <2>3. CanEnd(c)'
    BY <2>2 DEF CanEnd
  <2>4. ASSUME NEW d \in Calls \ {c} PROVE CanEnd(d)'
    <3>1. pc[d] # "stop"
      BY <1>a, <2>1
    <3>2. pc[d] = "publish" => target[d] \in Jobs /\ target[d] # target[c]
      BY <1>a, <2>1
    <3>3. pc[d] = "publish" => state'[target[d]] = state[target[d]]
      BY <1>0, <2>1, <3>2 DEF TypeOK
    <3> QED BY <2>1, <2>2, <3>1, <3>3, CanEndStays
  <2> QED BY <2>3, <2>4 DEF CanEndInv
<1>4. ASSUME NEW c \in Calls, Client(c) \/ Serve(c) \/ StreamEnds(c) PROVE CanEndInv'
  BY <1>1, <1>2, <1>3, <1>4, OrdinaryCanEnd DEF Serve, Ordinary
<1>5. ASSUME NEW j \in Jobs, Collect(j) PROVE CanEndInv'
  <2>1. /\ state[j] = "Running" /\ UNCHANGED <<state, mu, pc, target>>
        /\ \A k \in Jobs \ {j} : alive'[k] = alive[k]
    BY <1>0, <1>5 DEF TypeOK, Collect, Lib!Collect, argVars
  <2>2. ASSUME NEW d \in Calls PROVE CanEnd(d)'
    <3>1. pc[d] = "publish" => target[d] \in Jobs \ {j}
      BY <1>a, <2>1
    <3> QED BY <1>a, <2>1, <3>1 DEF CanEnd
  <2> QED BY <2>2 DEF CanEndInv
<1>6. ASSUME NEW j \in Jobs, Complete(j) PROVE CanEndInv'
  <2>1. /\ state[j] = "Running" /\ mu = {} /\ UNCHANGED <<alive, mu, pc, target>>
        /\ \E s : state' = [state EXCEPT ![j] = s]
    BY <1>6 DEF Complete, Lib!End, argVars
  <2>2. \A k \in Jobs \ {j} : state'[k] = state[k]
    BY <1>0, <2>1 DEF TypeOK
  <2>3. ASSUME NEW d \in Calls PROVE CanEnd(d)'
    <3>1. pc[d] # "stop" /\ (pc[d] = "publish" => target[d] \in Jobs \ {j})
      BY <1>a, <2>1
    <3> QED BY <2>1, <2>2, <3>1, CanEndStays
  <2> QED BY <2>3 DEF CanEndInv
<1>7. CASE StopServing \/ GracefulStop \/ AllOver \/ UNCHANGED vars
  <2>1. UNCHANGED <<mu, pc, target, alive, state>>
    BY <1>7 DEF StopServing, GracefulStop, AllOver, vars, jobVars, argVars
  <2> QED BY <2>1, CanEndStays DEF CanEndInv
<1> QED BY <1>4, <1>5, <1>6, <1>7 DEF Next

\* A Start never finds the job that it is about to publish published, collected or
\* ended, a polling Stop never finds its own ended by the wait goroutine, and mu is
\* held by the one Stop that polls.
THEOREM CallsCanEnd == Spec => []PendingCanEnd
<1>1. Init => CanEndInv
  BY DEF Init, CanEndInv, CanEnd
<1>2. SettledInv /\ CanEndInv => PendingCanEnd
  BY DEF SettledInv, CanEndInv, CanEnd, PendingCanEnd
<1> QED BY <1>1, <1>2, CanEndStep, SettledInit, SettledStep, SInvHolds, PTL DEF Spec
==============================================================================

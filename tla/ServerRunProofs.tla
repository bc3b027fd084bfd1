--------------------------- MODULE ServerRunProofs ---------------------------
(* What holds of every run of the server, for any clients, jobs and number *)
(* of restarts, and whether or not system calls fail.                      *)
EXTENDS ServerRun, TLAPS

(* The inductive invariant behind ServingIsReady and CleanExit             *)

\* A directory lies in its parent, and live processes in a directory.
TreeInv ==
    /\ dirs # {} \/ "" \in controlled => parent
    /\ \A j \in Jobs : home[j] \in dirs \cup {""}
    /\ \A j \in Jobs : Living(j) => home[j] # ""

SetupLabels ==
    {"mk_client", "ctl_client", "undo_client", "verify", "tls", "serving", "stopping"}

\* How far setup has come: what the loop has passed is there and controlled.
SetupInv ==
    /\ pc \in {"ctl_parent", "rm_parent"} => parent
    /\ pc \in SetupLabels => /\ parent /\ "" \in controlled
                             /\ Clients \ todo \subseteq dirs \cap controlled
    /\ pc \in {"ctl_client", "undo_client"} => cur \in dirs
    /\ pc \in {"verify", "tls", "serving", "stopping"} => todo = {}

\* An outcome belongs to a server that is off, and ok to an empty hierarchy.
OutcomeInv ==
    /\ outcome # "none" => pc = "off"
    /\ outcome = "ok" => ~parent

RunInv == TypeOK /\ TreeInv /\ SetupInv /\ OutcomeInv
-----------------------------------------------------------------------------
\* Before the first start there is no hierarchy and no job.
LEMMA RunInvInit == Init => RunInv
<1> SUFFICES ASSUME Init PROVE RunInv
    OBVIOUS
<1>1. runs \in 0..MaxRuns
    <2>1. runs = 0
        BY DEF Init
    <2>2. QED
        BY <2>1, MaxRunsAssumption
<1>2. TypeOK
    BY <1>1 DEF Init, TypeOK, Labels, Configs
<1>3. TreeInv /\ SetupInv /\ OutcomeInv
    BY DEF Init, TreeInv, SetupInv, SetupLabels, OutcomeInv, Living
<1>4. QED
    BY <1>2, <1>3 DEF RunInv

\* A start of the server within the bound.
LEMMA NextRun == ASSUME NEW r \in 0..MaxRuns, r < MaxRuns PROVE r + 1 \in 0..MaxRuns
BY MaxRunsAssumption

\* Every step of setupJobmasterCgroups and NewServer keeps the invariant.
LEMMA SetupStep == RunInv /\ SetupNext /\ UNCHANGED faulty => RunInv'
<1> SUFFICES ASSUME RunInv, SetupNext, UNCHANGED faulty PROVE RunInv'
    OBVIOUS
<1> USE DEF RunInv, TypeOK, Labels, TeardownLabels, Configs, TreeInv, SetupInv, SetupLabels,
            OutcomeInv, Living, Exit, jobVars, fsVars, configVars
<1>1. CASE Boot
    <2>1. runs \in 0..MaxRuns /\ runs < MaxRuns /\ runs' = runs + 1
        BY <1>1 DEF Boot
    <2>2. runs' \in 0..MaxRuns
        BY <2>1, NextRun, Zenon
    <2>3. QED
        BY <1>1, <2>2 DEF Boot
<1>2. CASE MkParent
    BY <1>2 DEF MkParent
<1>3. CASE MkParentFails
    BY <1>3 DEF MkParentFails
<1>4. CASE CtlParent
    BY <1>4 DEF CtlParent
<1>5. CASE CtlParentFails
    BY <1>5 DEF CtlParentFails
<1>6. CASE RmParent
    BY <1>6 DEF RmParent, RmdirParent, CanRmdirParent
<1>7. ASSUME NEW cl \in Clients, MkClient(cl) PROVE RunInv'
    BY <1>7 DEF MkClient, MkdirAll
<1>8. CASE MkClientFails
    BY <1>8 DEF MkClientFails, SetupFails, MkdirMayFail
<1>9. CASE CtlClient
    BY <1>9 DEF CtlClient
<1>10. CASE CtlClientFails
    BY <1>10 DEF CtlClientFails
<1>11. CASE UndoClient
    BY <1>11 DEF UndoClient, RmdirClient, CanRmdirClient, JobsIn, SetupFails
<1>12. CASE ClientsDone
    BY <1>12 DEF ClientsDone
<1>13. CASE Verify
    BY <1>13 DEF Verify
<1>14. CASE VerifyFails
    BY <1>14 DEF VerifyFails
<1>15. CASE NewServer
    BY <1>15 DEF NewServer
<1>16. CASE NewServerFails
    BY <1>16 DEF NewServerFails
<1>17. QED
    BY <1>1, <1>2, <1>3, <1>4, <1>5, <1>6, <1>7, <1>8, <1>9, <1>10, <1>11, <1>12,
       <1>13, <1>14, <1>15, <1>16 DEF SetupNext

\* A step of the jobs alone keeps the invariant if each job stays below a client's
\* directory, and stays there at least as long as it has live processes.
LEMMA JobsStep ==
  ASSUME RunInv, UNCHANGED <<faulty, runVars, fsVars>>,
         home' \in [Jobs -> Clients \cup {""}],
         proc' \in [Jobs -> {"none", "alive", "dying", "dead"}],
         supervised' \subseteq Jobs,
         \A k \in Jobs : home'[k] \in dirs \cup {""} /\ (Living(k)' => home'[k] # "")
  PROVE  RunInv'
<1>1. UNCHANGED <<faulty, pc, todo, cur, entries, errs, failed, outcome, runs,
                  config, inherited, parent, dirs, controlled>>
    BY DEF runVars, fsVars
<1>2. TypeOK'
    BY <1>1, Zenon DEF RunInv, TypeOK
<1>3. TreeInv'
    BY <1>1 DEF RunInv, TreeInv
<1>4. SetupInv' /\ OutcomeInv'
    BY <1>1 DEF RunInv, SetupInv, OutcomeInv
<1>5. QED
    BY <1>2, <1>3, <1>4 DEF RunInv

\* Jobs that come and go, the end of serving and crashes keep the invariant.
LEMMA ServeStep == RunInv /\ ServeNext /\ UNCHANGED faulty => RunInv'
<1> SUFFICES ASSUME RunInv, ServeNext, UNCHANGED faulty PROVE RunInv'
    OBVIOUS
<1>0. /\ home \in [Jobs -> Clients \cup {""}]
      /\ proc \in [Jobs -> {"none", "alive", "dying", "dead"}]
      /\ supervised \subseteq Jobs
      /\ dirs \subseteq Clients
      /\ \A k \in Jobs : home[k] \in dirs \cup {""} /\ (Living(k) => home[k] # "")
    BY DEF RunInv, TypeOK, TreeInv
<1>1. ASSUME NEW j \in Jobs, NEW cl \in Clients, StartJob(j, cl) \/ StartJobFails(j, cl)
      PROVE  RunInv'
    <2>1. /\ cl \in dirs /\ home' = [home EXCEPT ![j] = cl]
          /\ UNCHANGED <<runVars, fsVars>> /\ supervised' \subseteq Jobs
        BY <1>0, <1>1 DEF StartJob, StartJobFails
    <2>2. PICK s \in {"alive", "dead"} : proc' = [proc EXCEPT ![j] = s]
        BY <1>1 DEF StartJob, StartJobFails
    <2>3. \A k \in Jobs : home'[k] \in dirs \cup {""} /\ (Living(k)' => home'[k] # "")
        BY <1>0, <2>1, <2>2, ClientsAssumption DEF Living
    <2>4. QED
        BY <1>0, <2>1, <2>2, <2>3, JobsStep
<1>2. ASSUME NEW j \in Jobs, JobEnds(j) PROVE RunInv'
    <2>1. /\ proc' = [proc EXCEPT ![j] = "dead"]
          /\ UNCHANGED <<runVars, fsVars, home, supervised>>
        BY <1>2 DEF JobEnds
    <2>2. \A k \in Jobs : Living(k)' => Living(k)
        BY <1>0, <2>1 DEF Living
    <2>3. QED
        BY <1>0, <2>1, <2>2, JobsStep
<1>3. ASSUME NEW j \in Jobs, WaiterRemoves(j) PROVE RunInv'
    <2>1. /\ ~Living(j) /\ supervised' = supervised \ {j}
          /\ home' = [home EXCEPT ![j] = ""] \/ home' = home
          /\ UNCHANGED <<runVars, fsVars, proc>>
        BY <1>3 DEF WaiterRemoves, Living
    <2>2. /\ home' \in [Jobs -> Clients \cup {""}]
          /\ home'[j] \in {home[j], ""}
          /\ \A k \in Jobs : k # j => home'[k] = home[k]
        BY <1>0, <2>1
    <2>3. \A k \in Jobs : Living(k)' => Living(k)
        BY <2>1 DEF Living
    <2>4. QED
        BY <1>0, <2>1, <2>2, <2>3, JobsStep
<1> USE DEF RunInv, TypeOK, Labels, TeardownLabels, Configs, TreeInv, SetupInv, SetupLabels,
            OutcomeInv, Living, Exit, jobVars, fsVars, configVars, runVars
<1>4. CASE StopServing
    BY <1>4 DEF StopServing
<1>5. CASE GracefulStop
    BY <1>5 DEF GracefulStop
<1>6. CASE Crash
    BY <1>6 DEF Crash
<1>7. QED
    BY <1>1, <1>2, <1>3, <1>4, <1>5, <1>6 DEF ServeNext

\* Every step of TeardownJobmasterCgroups keeps the invariant.
LEMMA TeardownStep == RunInv /\ TeardownNext /\ UNCHANGED faulty => RunInv'
<1> SUFFICES ASSUME RunInv, TeardownNext, UNCHANGED faulty PROVE RunInv'
    OBVIOUS
<1> USE DEF RunInv, TypeOK, Labels, TeardownLabels, Configs, TreeInv, SetupInv, SetupLabels,
            OutcomeInv, Living, Exit, jobVars, fsVars, configVars
<1>1. ASSUME NEW cl \in Clients, TdStat(cl) PROVE RunInv'
    BY <1>1 DEF TdStat
<1>2. ASSUME NEW j \in Jobs, TdRmdirJob(j) PROVE RunInv'
    BY <1>2 DEF TdRmdirJob, CanRmdirJob
<1>3. CASE TdStatFails
    BY <1>3 DEF TdStatFails
<1>4. CASE TdKill
    BY <1>4 DEF TdKill, SigKill
<1>5. CASE TdList
    BY <1>5 DEF TdList, JobsIn
<1>6. CASE TdRmdirClient
    BY <1>6 DEF TdRmdirClient, RmdirClient, CanRmdirClient, JobsIn
<1>7. CASE TdErrors
    BY <1>7 DEF TdErrors
<1>8. CASE TdClientsGone
    BY <1>8 DEF TdClientsGone
<1>9. CASE TdRmdirParent
    BY <1>9 DEF TdRmdirParent, RmdirParent, ParentStays, Result, CanRmdirParent
<1>10. QED
    BY <1>1, <1>2, <1>3, <1>4, <1>5, <1>6, <1>7, <1>8, <1>9 DEF TeardownNext

\* The invariant holds throughout every behaviour of the server.
THEOREM RunInvariance == Spec => []RunInv
<1>1. RunInv /\ [Next]_vars => RunInv'
    <2> SUFFICES ASSUME RunInv, [Next]_vars PROVE RunInv'
        OBVIOUS
    <2>1. CASE UNCHANGED vars
        BY <2>1 DEF vars, RunInv, TypeOK, TreeInv, SetupInv, OutcomeInv, Living
    <2>2. QED
        BY <2>1, SetupStep, ServeStep, TeardownStep DEF Next
<1>2. QED
    BY <1>1, RunInvInit, PTL DEF Spec

\* Type correctness of the server's run.
THEOREM RunTypeCorrect == Spec => []TypeOK
<1>1. RunInv => TypeOK
    BY DEF RunInv
<1>2. QED
    BY <1>1, RunInvariance, PTL

\* A server that takes calls stands on a complete, controlled hierarchy,
\* whatever failed in its setup and whatever earlier runs left behind.
THEOREM ReadyWhenServing == Spec => []ServingIsReady
<1>1. RunInv => ServingIsReady
    BY DEF RunInv, TypeOK, SetupInv, SetupLabels, ServingIsReady
<1>2. QED
    BY <1>1, RunInvariance, PTL

\* Run returns nil only if no directory and no live process is left, of this
\* run or of one that crashed.
THEOREM OkMeansClean == Spec => []CleanExit
<1>1. RunInv => CleanExit
    BY DEF RunInv, TypeOK, TreeInv, OutcomeInv, CleanExit
<1>2. QED
    BY <1>1, RunInvariance, PTL

-----------------------------------------------------------------------------
(* Runs in which no system call fails by itself                            *)

\* Where a process that nobody has killed can still be: with a client that the
\* teardown has not come to.
Unkilled ==
    CASE pc \in {"td_client", "td_kill"} -> todo
      [] pc \in {"td_list", "td_jobs"}   -> todo \ {cur}
      [] pc = "td_parent"                -> {}
      [] OTHER                           -> Clients

\* Before it serves, the server has no process but inherited ones.
EarlyLabels == {"mk_parent", "ctl_parent", "mk_client", "ctl_client", "verify", "tls"}

\* Setup fails over the configuration only, and the teardown, which no run with a bad
\* one comes to, leaves no process running behind it.
Orderly ==
    /\ ~failed /\ pc \notin {"rm_parent", "undo_client"}
    /\ pc \in EarlyLabels \ {"mk_parent"} => config # "bad device"
    /\ pc \in {"serving", "stopping"} \cup TeardownLabels => config = "good"
    /\ \A j \in Jobs : proc[j] = "alive" => home[j] \in Unkilled
    /\ pc \in EarlyLabels => \A j \in Jobs : proc[j] = "alive" => j \in inherited
    /\ outcome \in {"ok", "err"} =>
          \A j \in Jobs : proc[j] = "alive" => config # "good" /\ j \in inherited

OrderlyInv == ~faulty => Orderly

\* Before the first start.
LEMMA OrderlyInit == Init => OrderlyInv
BY DEF Init, OrderlyInv, Orderly, EarlyLabels, TeardownLabels

\* Only a system call that fails by itself, or a bad configuration, makes setup fail.
LEMMA OrderlySetup == RunInv /\ OrderlyInv /\ SetupNext /\ UNCHANGED faulty => OrderlyInv'
<1> SUFFICES ASSUME RunInv, OrderlyInv, SetupNext, UNCHANGED faulty, ~faulty PROVE Orderly'
    BY DEF OrderlyInv
<1> DEFINE Early == /\ pc' \in EarlyLabels /\ outcome' = "none"
                    /\ pc' # "mk_parent" => config' # "bad device"
                    /\ \A j \in Jobs : proc[j] = "alive" => j \in inherited'
           Refused == /\ pc' = "off" /\ outcome' = "err" /\ config' # "good"
                      /\ \A j \in Jobs : proc[j] = "alive" => j \in inherited'
           Ready == pc' = "serving" /\ outcome' = "none" /\ config' = "good"
<1>1. UNCHANGED <<home, proc>>
    BY DEF SetupNext, Boot, MkParent, MkParentFails, CtlParent, CtlParentFails, RmParent, MkClient,
           MkClientFails, MkdirMayFail, CtlClient, CtlClientFails, UndoClient, ClientsDone, Verify,
           VerifyFails, NewServer, NewServerFails, jobVars
<1>2. \A j \in Jobs : proc[j] = "alive" => home[j] \in Clients
    BY DEF RunInv, TypeOK, TreeInv, Living
<1>3. ~failed' /\ (Early \/ Refused \/ Ready)
    <2> USE DEF RunInv, TypeOK, OrderlyInv, Orderly, OutcomeInv, SetupInv, SetupLabels,
            EarlyLabels, configVars
    <2>1. CASE Boot
        BY <2>1 DEF Boot
    <2>2. ASSUME pc \in EarlyLabels, pc' \in EarlyLabels, config # "bad device",
                 UNCHANGED <<failed, outcome, config, inherited>>
          PROVE  ~failed' /\ Early
        BY <2>2
    <2>3. CASE MkParent \/ CtlParent \/ CtlClient \/ ClientsDone
        BY <2>2, <2>3 DEF MkParent, CtlParent, CtlClient, ClientsDone
    <2>4. CASE Verify \/ \E cl \in Clients : MkClient(cl)
        BY <2>2, <2>4 DEF Verify, MkClient
    <2>5. CASE NewServer
        <3>1. /\ pc = "tls" /\ config # "bad files" /\ pc' = "serving"
              /\ UNCHANGED <<failed, outcome, config>>
            BY <2>5 DEF NewServer
        <3>2. config \in Configs \ {"bad device"}
            BY <3>1
        <3>3. config' = "good"
            BY <3>1, <3>2 DEF Configs
        <3>4. QED
            BY <3>1, <3>3
    <2>6. CASE MkParentFails \/ NewServerFails
        <3>1. /\ pc \in {"mk_parent", "tls"} /\ config \in {"bad device", "bad files"}
              /\ pc' = "off" /\ outcome' = "err" /\ UNCHANGED <<failed, config, inherited>>
            BY <2>6 DEF MkParentFails, NewServerFails, Exit
        <3>2. QED
            BY <3>1
    <2>7. ~VerifyFails
        BY DEF VerifyFails
    <2>8. ~(RmParent \/ UndoClient)
        BY DEF RmParent, UndoClient
    <2>9. ~(CtlParentFails \/ MkClientFails \/ CtlClientFails)
        BY DEF CtlParentFails, MkClientFails, MkdirMayFail, CtlClientFails
    <2>10. QED
        BY <2>1, <2>3, <2>4, <2>5, <2>6, <2>7, <2>8, <2>9 DEF SetupNext
<1>4. pc' \in EarlyLabels \cup {"off", "serving"}
    BY <1>3
<1>5. Unkilled' = Clients
    BY <1>4 DEF Unkilled, EarlyLabels
<1>6. QED
    BY <1>1, <1>2, <1>3, <1>5 DEF OrderlyInv, Orderly, EarlyLabels, TeardownLabels

\* Jobs start before the teardown, with a client that it will visit.
LEMMA OrderlyServe == RunInv /\ OrderlyInv /\ ServeNext /\ UNCHANGED faulty => OrderlyInv'
<1> SUFFICES ASSUME RunInv, OrderlyInv, ServeNext, UNCHANGED faulty, ~faulty PROVE Orderly'
    BY DEF OrderlyInv
<1> USE DEF RunInv, TypeOK, Labels, OrderlyInv, Orderly, Unkilled, OutcomeInv, EarlyLabels,
            TeardownLabels, runVars, configVars, fsVars, jobVars, Exit
<1>1. ASSUME NEW j \in Jobs, NEW cl \in Clients, StartJob(j, cl) PROVE Orderly'
    BY <1>1 DEF StartJob
<1>2. ASSUME NEW j \in Jobs, NEW cl \in Clients, StartJobFails(j, cl) PROVE Orderly'
    BY <1>2 DEF StartJobFails
<1>3. ASSUME NEW j \in Jobs, JobEnds(j) PROVE Orderly'
    BY <1>3 DEF JobEnds
<1>4. ASSUME NEW j \in Jobs, WaiterRemoves(j) PROVE Orderly'
    <2>1. /\ proc[j] = "dead" /\ UNCHANGED <<proc, pc, todo, cur, failed, outcome, config, inherited>>
          /\ \A k \in Jobs \ {j} : home'[k] = home[k]
        BY <1>4 DEF WaiterRemoves
    <2>2. QED
        BY <2>1
<1>5. CASE StopServing
    BY <1>5 DEF StopServing
<1>6. CASE GracefulStop
    BY <1>6 DEF GracefulStop
<1>7. CASE Crash
    BY <1>7 DEF Crash, TreeInv, Living
<1>8. QED
    BY <1>1, <1>2, <1>3, <1>4, <1>5, <1>6, <1>7 DEF ServeNext

\* The teardown passes over a client only if it has no directory, and so no
\* process, or after its kill.
LEMMA OrderlyTeardown == RunInv /\ OrderlyInv /\ TeardownNext /\ UNCHANGED faulty => OrderlyInv'
<1> SUFFICES ASSUME RunInv, OrderlyInv, TeardownNext, UNCHANGED faulty, ~faulty PROVE Orderly'
    BY DEF OrderlyInv
<1> USE DEF RunInv, TypeOK, Labels, OrderlyInv, Orderly, Unkilled, OutcomeInv, EarlyLabels,
            TeardownLabels, configVars, fsVars, jobVars, Exit
<1>1. ASSUME NEW cl \in Clients, TdStat(cl) PROVE Orderly'
    <2>1. CASE cl \in dirs
        BY <1>1, <2>1 DEF TdStat
    <2>2. CASE cl \notin dirs
        BY <1>1, <2>2 DEF TdStat, TreeInv, Living
    <2>3. QED
        BY <2>1, <2>2
<1>2. ASSUME NEW j \in Jobs, TdRmdirJob(j) PROVE Orderly'
    BY <1>2 DEF TdRmdirJob, CanRmdirJob, Living
<1>3. CASE TdKill
    BY <1>3 DEF TdKill, SigKill
<1>4. CASE TdList
    BY <1>4 DEF TdList
<1>5. CASE TdRmdirClient
    BY <1>5 DEF TdRmdirClient
<1>6. CASE TdErrors \/ TdClientsGone
    <2>1. pc = "td_client" /\ UNCHANGED <<home, proc, failed, config>>
        BY <1>6 DEF TdErrors, TdClientsGone
    <2>2. \A j \in Jobs : proc[j] # "alive"
        BY <1>6, <2>1 DEF TdErrors, TdClientsGone
    <2>3. pc' \in {"off", "td_parent"}
        BY <1>6 DEF TdErrors, TdClientsGone
    <2>4. QED
        BY <2>1, <2>2, <2>3
<1>7. CASE TdRmdirParent
    BY <1>7 DEF TdRmdirParent, RmdirParent, ParentStays, Result
<1>8. ~TdStatFails
    BY DEF TdStatFails
<1>9. QED
    BY <1>1, <1>2, <1>3, <1>4, <1>5, <1>6, <1>7, <1>8 DEF TeardownNext

\* The invariant of runs without failing calls holds throughout.
LEMMA OrderlyInvariance == Spec => []OrderlyInv
<1>1. RunInv /\ OrderlyInv /\ [Next]_vars => OrderlyInv'
    <2> SUFFICES ASSUME RunInv, OrderlyInv, [Next]_vars PROVE OrderlyInv'
        OBVIOUS
    <2>1. CASE UNCHANGED vars
        BY <2>1 DEF vars, OrderlyInv, Orderly, Unkilled, EarlyLabels
    <2>2. QED
        BY <2>1, OrderlySetup, OrderlyServe, OrderlyTeardown DEF Next
<1>2. QED
    BY <1>1, OrderlyInit, RunInvariance, PTL DEF Spec

\* If no system call fails by itself, Run leaves no process of its own running, and
\* with a good configuration none at all, however the removal of directories went.
THEOREM NothingRunsOn == Spec => []NoRunaways
<1>1. OrderlyInv => NoRunaways
    BY DEF OrderlyInv, Orderly, NoRunaways
<1>2. QED
    BY <1>1, OrderlyInvariance, PTL

-----------------------------------------------------------------------------
(* Jobs that a crash has left running                                      *)

\* A job that a run has inherited has no wait goroutine, which could remove its
\* directory, and cannot be started again.
InheritInv ==
    /\ pc = "off" => supervised = {}
    /\ \A j \in inherited : j \notin supervised /\ proc[j] # "none"

\* Every step keeps it: with the server its wait goroutines go.
LEMMA InheritInvariance == Spec => []InheritInv
<1>1. Init => InheritInv
    BY DEF Init, InheritInv
<1>2. RunInv /\ InheritInv /\ [Next]_vars => InheritInv'
    <2> SUFFICES ASSUME RunInv, InheritInv, [Next]_vars PROVE InheritInv'
        OBVIOUS
    <2> USE DEF InheritInv, RunInv, TypeOK, jobVars, configVars, Exit
    <2>1. CASE SetupNext
        <3>1. CASE Boot
            BY <3>1 DEF Boot
        <3>2. CASE SetupNext /\ ~Boot
            <4>1. UNCHANGED <<inherited, proc>> /\ pc # "off"
                BY <3>2 DEF SetupNext, MkParent, MkParentFails, CtlParent, CtlParentFails, RmParent,
                   MkClient, MkClientFails, CtlClient, CtlClientFails, UndoClient, ClientsDone, Verify,
                   VerifyFails, NewServer, NewServerFails
            <4>2. CASE MkParentFails \/ RmParent \/ VerifyFails \/ NewServerFails
                BY <4>1, <4>2 DEF MkParentFails, RmParent, VerifyFails, NewServerFails
            <4>3. CASE ~(MkParentFails \/ RmParent \/ VerifyFails \/ NewServerFails)
                <5>1. supervised' = supervised /\ pc' # "off"
                    BY <3>2, <4>3 DEF SetupNext, MkParent, CtlParent, CtlParentFails, MkClient,
                       MkClientFails, SetupFails, CtlClient, CtlClientFails, UndoClient, ClientsDone,
                       Verify, NewServer
                <5>2. QED
                    BY <4>1, <5>1
            <4>4. QED
                BY <4>2, <4>3
        <3>3. QED
            BY <2>1, <3>1, <3>2
    <2>2. CASE ServeNext
        BY <2>2 DEF ServeNext, StartJob, StartJobFails, JobEnds, WaiterRemoves, StopServing,
           GracefulStop, Crash, runVars
    <2>3. CASE TeardownNext
        BY <2>3 DEF TeardownNext, TdStat, TdRmdirJob, TdStatFails, TdKill, SigKill, TdList,
           TdRmdirClient, TdErrors, TdClientsGone, TdRmdirParent, ParentStays
    <2>4. CASE UNCHANGED vars
        BY <2>4 DEF vars
    <2>5. QED
        BY <2>1, <2>2, <2>3, <2>4 DEF Next
<1>3. QED
    BY <1>1, <1>2, RunInvariance, PTL DEF Spec

\* Setup, serving and crashes keep them as they were found, and the teardown, once
\* begun, ends with a good configuration.
LEMMA LeftoversStep ==
    RunInv /\ OrderlyInv /\ InheritInv /\ LeftoversSurviveSetup /\ [Next]_vars
        => LeftoversSurviveSetup'
<1> SUFFICES ASSUME RunInv, OrderlyInv, InheritInv, LeftoversSurviveSetup, [Next]_vars, ~faulty
             PROVE  LeftoversSurviveSetup'
    BY DEF LeftoversSurviveSetup, Next, vars
<1> USE DEF LeftoversSurviveSetup, TeardownLabels, fsVars, jobVars, configVars, Exit
<1>1. CASE SetupNext
    <2>1. CASE Boot
        <3>1. \A j \in Jobs : proc[j] = "alive" => home[j] \in dirs
            BY DEF RunInv, TreeInv, Living
        <3>2. QED
            BY <2>1, <3>1 DEF Boot
    <2>2. CASE MkParent \/ CtlParent \/ CtlClient \/ ClientsDone \/ Verify \/ NewServer
        BY <2>2 DEF MkParent, CtlParent, CtlClient, ClientsDone, Verify, NewServer
    <2>3. CASE \E cl \in Clients : MkClient(cl)
        BY <2>3 DEF MkClient, MkdirAll
    <2>4. CASE MkParentFails \/ NewServerFails \/ VerifyFails
        BY <2>4 DEF MkParentFails, NewServerFails, VerifyFails
    <2>5. ~(RmParent \/ UndoClient)
        BY DEF RmParent, UndoClient, OrderlyInv, Orderly
    <2>6. ~(CtlParentFails \/ MkClientFails \/ CtlClientFails)
        BY DEF CtlParentFails, MkClientFails, MkdirMayFail, CtlClientFails
    <2>7. QED
        BY <1>1, <2>1, <2>2, <2>3, <2>4, <2>5, <2>6 DEF SetupNext
<1>2. CASE ServeNext
    <2> USE DEF RunInv, TypeOK, InheritInv, runVars
    <2>1. ASSUME NEW j \in Jobs, \/ \E cl \in Clients : StartJob(j, cl) \/ StartJobFails(j, cl)
                               \/ WaiterRemoves(j)
          PROVE  LeftoversSurviveSetup'
        <3>1. j \notin inherited /\ UNCHANGED <<runVars, fsVars>>
            BY <2>1 DEF StartJob, StartJobFails, WaiterRemoves
        <3>2. \A k \in Jobs \ {j} : home'[k] = home[k] /\ proc'[k] = proc[k]
            BY <2>1 DEF StartJob, StartJobFails, WaiterRemoves
        <3>3. QED
            BY <3>1, <3>2
    <2>2. ASSUME NEW j \in Jobs, JobEnds(j) PROVE LeftoversSurviveSetup'
        BY <2>2 DEF JobEnds
    <2>3. CASE StopServing \/ GracefulStop
        BY <2>3 DEF StopServing, GracefulStop, OrderlyInv, Orderly
    <2>4. CASE Crash
        BY <2>4 DEF Crash
    <2>5. QED
        BY <1>2, <2>1, <2>2, <2>3, <2>4 DEF ServeNext
<1>3. CASE TeardownNext
    <2>1. pc \in TeardownLabels /\ config = "good" /\ config' = config
        BY <1>3 DEF OrderlyInv, Orderly, TeardownNext, TdStat, TdRmdirJob, TdStatFails, TdKill,
           TdList, TdRmdirClient, TdErrors, TdClientsGone, TdRmdirParent
    <2>2. pc' \in TeardownLabels \cup {"off"}
        BY <1>3 DEF TeardownNext, TdStat, TdRmdirJob, TdStatFails, TdKill, TdList,
           TdRmdirClient, TdErrors, TdClientsGone, TdRmdirParent, ParentStays
    <2>3. QED
        BY <2>1, <2>2
<1>4. CASE UNCHANGED vars
    BY <1>4 DEF vars
<1>5. QED
    BY <1>1, <1>2, <1>3, <1>4 DEF Next

\* If no system call fails by itself, jobs that a crash has left running come through
\* the next setup, and through a run with a bad configuration, unkilled and with
\* their directories.
THEOREM LeftoversAreKept == Spec => []LeftoversSurviveSetup
<1>1. Init => LeftoversSurviveSetup
    BY DEF Init, LeftoversSurviveSetup
<1>2. QED
    BY <1>1, LeftoversStep, RunInvariance, OrderlyInvariance, InheritInvariance, PTL DEF Spec

-----------------------------------------------------------------------------
(* What makes the teardown fail                                            *)

\* The loop stands at a client that has a directory, and as long as it has met no
\* error the directories left are those it has still to visit.
SweepInv ==
    ~faulty =>
        /\ pc \in TeardownLabels => parent
        /\ pc \in {"td_kill", "td_list", "td_jobs"} => cur \in dirs
        /\ pc \in TeardownLabels \ {"td_parent"} /\ ~errs => dirs \subseteq todo
        /\ pc = "td_parent" => dirs = {}

\* Before the first start.
LEMMA SweepInit == Init => SweepInv
BY DEF Init, SweepInv, TeardownLabels

\* Every step of the teardown keeps it, and only GracefulStop leads there.
LEMMA SweepStep == RunInv /\ OrderlyInv /\ SweepInv /\ [Next]_vars => SweepInv'
<1> SUFFICES ASSUME RunInv, OrderlyInv, SweepInv, [Next]_vars, ~faulty PROVE SweepInv'
    BY DEF Next, vars, SweepInv
<1> USE DEF SweepInv, TeardownLabels
<1>1. CASE SetupNext
    <2>1. pc \notin {"rm_parent", "undo_client"}
        BY DEF OrderlyInv, Orderly
    <2>2. pc' \notin TeardownLabels
        BY <1>1, <2>1 DEF SetupNext, Boot, MkParent, MkParentFails, CtlParent, CtlParentFails, RmParent,
           MkClient, MkClientFails, MkdirMayFail, CtlClient, CtlClientFails, UndoClient, ClientsDone,
           Verify, VerifyFails, NewServer, NewServerFails, Exit
    <2>3. QED
        BY <2>2
<1>2. CASE ServeNext
    <2>1. CASE GracefulStop
        BY <2>1 DEF GracefulStop, RunInv, TypeOK, SetupInv, SetupLabels, fsVars
    <2>2. CASE StopServing \/ Crash
        BY <2>2 DEF StopServing, Crash, Exit
    <2>3. CASE \E j \in Jobs : \/ \E cl \in Clients : StartJob(j, cl) \/ StartJobFails(j, cl)
                             \/ JobEnds(j) \/ WaiterRemoves(j)
        <3>1. UNCHANGED <<runVars, fsVars>>
            BY <2>3 DEF StartJob, StartJobFails, JobEnds, WaiterRemoves
        <3>2. QED
            BY <3>1 DEF runVars, fsVars
    <2>4. QED
        BY <1>2, <2>1, <2>2, <2>3 DEF ServeNext
<1>3. CASE TeardownNext
    <2> USE DEF fsVars, Exit
    <2>1. ASSUME NEW cl \in Clients, TdStat(cl) PROVE SweepInv'
        BY <2>1 DEF TdStat
    <2>2. ASSUME NEW j \in Jobs, TdRmdirJob(j) PROVE SweepInv'
        <3>1. pc = "td_jobs" /\ UNCHANGED <<pc, todo, cur, parent, dirs>>
            BY <2>2 DEF TdRmdirJob
        <3>2. errs => errs'
            BY <2>2, Zenon DEF TdRmdirJob
        <3>3. QED
            BY <3>1, <3>2
    <2>3. CASE TdKill \/ TdList
        <3>1. /\ pc \in {"td_kill", "td_list"} /\ pc' \in {"td_list", "td_jobs"}
              /\ UNCHANGED <<todo, cur, parent, dirs>> /\ (errs => errs')
            BY <2>3 DEF TdKill, TdList
        <3>2. QED
            BY <3>1
    <2>4. CASE TdRmdirClient
        BY <2>4 DEF TdRmdirClient, RmdirClient, RunInv, TypeOK
    <2>5. CASE TdErrors \/ TdStatFails \/ TdRmdirParent
        BY <2>5 DEF TdErrors, TdStatFails, TdRmdirParent, ParentStays
    <2>6. CASE TdClientsGone
        BY <2>6 DEF TdClientsGone
    <2>7. QED
        BY <1>3, <2>1, <2>2, <2>3, <2>4, <2>5, <2>6 DEF TeardownNext
<1>4. CASE UNCHANGED vars
    BY <1>4 DEF vars
<1>5. QED
    BY <1>1, <1>2, <1>3, <1>4 DEF Next

\* What a step may not do when no system call fails by itself.
BlockedByJobs ==
    ~faulty =>
        /\ errs' /\ ~errs => \E j \in Jobs : j \in entries \/ home[j] = cur
        /\ outcome' = "err" => errs \/ config # "good" \/ outcome = "err"

\* The directory that cannot be removed is a job's, or holds one.
LEMMA BlockedStep == RunInv /\ OrderlyInv /\ SweepInv /\ [Next]_vars => BlockedByJobs
<1> SUFFICES ASSUME RunInv, OrderlyInv, SweepInv, [Next]_vars, ~faulty PROVE BlockedByJobs
    BY DEF BlockedByJobs
<1> USE DEF BlockedByJobs
<1>1. CASE SetupNext
    <2>1. pc \notin {"rm_parent", "undo_client"} /\ ~VerifyFails
        BY DEF OrderlyInv, Orderly, RunInv, TypeOK, SetupInv, SetupLabels, VerifyFails
    <2>2. CASE Boot \/ MkParent \/ MkParentFails \/ CtlParent \/ CtlParentFails \/ RmParent
        BY <2>1, <2>2 DEF Boot, MkParent, MkParentFails, CtlParent, CtlParentFails, RmParent
    <2>3. CASE \/ \E cl \in Clients : MkClient(cl)
               \/ MkClientFails \/ CtlClient \/ CtlClientFails \/ UndoClient \/ ClientsDone
        BY <2>1, <2>3 DEF MkClient, MkClientFails, CtlClient, CtlClientFails, UndoClient, ClientsDone
    <2>4. CASE Verify \/ NewServer \/ NewServerFails
        BY <2>4 DEF Verify, NewServer, NewServerFails
    <2>5. QED
        BY <1>1, <2>1, <2>2, <2>3, <2>4 DEF SetupNext
<1>2. CASE ServeNext
    BY <1>2 DEF ServeNext, StartJob, StartJobFails, JobEnds, WaiterRemoves, StopServing, GracefulStop,
       Crash, Exit, runVars
<1>3. CASE TeardownNext
    <2>1. CASE TdRmdirClient
        <3>1. pc = "td_jobs" /\ cur \in dirs /\ outcome' = outcome
            BY <2>1 DEF TdRmdirClient, SweepInv
        <3>2. errs' /\ ~errs => JobsIn(cur) # {}
            BY <2>1, <3>1 DEF TdRmdirClient, CanRmdirClient
        <3>3. QED
            BY <3>1, <3>2 DEF JobsIn
    <2>2. CASE TdRmdirParent
        <3>1. parent /\ dirs = {} /\ ~failed
            BY <2>2 DEF TdRmdirParent, SweepInv, TeardownLabels, OrderlyInv, Orderly
        <3>2. outcome' = "ok" /\ errs' = errs
            BY <2>2, <3>1 DEF TdRmdirParent, CanRmdirParent, Exit, Result
        <3>3. QED
            BY <3>2
    <2>3. ASSUME NEW j \in Jobs, TdRmdirJob(j) PROVE BlockedByJobs
        BY <2>3 DEF TdRmdirJob
    <2>4. CASE TdErrors \/ TdStatFails \/ TdClientsGone \/ \E cl \in Clients : TdStat(cl)
        BY <2>4 DEF TdErrors, TdStatFails, TdClientsGone, TdStat
    <2>5. CASE TdKill \/ TdList
        BY <2>5 DEF TdKill, TdList
    <2>6. QED
        BY <1>3, <2>1, <2>2, <2>3, <2>4, <2>5 DEF TeardownNext
<1>4. CASE UNCHANGED vars
    BY <1>4 DEF vars
<1>5. QED
    BY <1>1, <1>2, <1>3, <1>4 DEF Next

\* If no system call fails by itself, the teardown fails only over the directory of
\* a job, and Run only over that or a bad configuration: directories of clients and
\* their parent are never in the way.
THEOREM JobsAloneBlock == Spec => OnlyJobsBlockTeardown
<1>1. Spec => []SweepInv
    BY SweepInit, SweepStep, RunInvariance, OrderlyInvariance, PTL DEF Spec
<1>2. RunInv /\ OrderlyInv /\ SweepInv /\ [Next]_vars => [BlockedByJobs]_vars
    BY BlockedStep
<1>3. QED
    BY <1>1, <1>2, RunInvariance, OrderlyInvariance, PTL
       DEF Spec, OnlyJobsBlockTeardown, BlockedByJobs
==============================================================================

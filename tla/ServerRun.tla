------------------------------ MODULE ServerRun ------------------------------
(***************************************************************************)
(* A run of the server process (api/server/server.go) and the cgroup       *)
(* hierarchy it sets up and tears down (jobslib/cgroups.go):               *)
(*                                                                         *)
(*     /sys/fs/cgroup/jobmaster/<client>/<job>                             *)
(*                                                                         *)
(* The hierarchy and the processes in it outlive the server process, so a  *)
(* run starts from whatever an earlier one, which may have crashed, left.  *)
(* What the RPCs do to one job is in module JobsLib; here a job is one     *)
(* thing with a directory and processes.  System calls answer according to *)
(* the state of the kernel; in faulty behaviours they may also fail for no *)
(* reason that the model knows.  Each run has a configuration, which may   *)
(* be bad in any behaviour.                                                *)
(***************************************************************************)
EXTENDS Integers, FiniteSets

CONSTANTS
    Clients,   \* GetAuthorizedClientNames(), which lists a map in any order
    Jobs,      \* job IDs, of all runs
    MaxRuns    \* bound: how often the server is started

ASSUME ClientsAssumption == "" \notin Clients

ASSUME MaxRunsAssumption == MaxRuns \in Nat

VARIABLES
    faulty,      \* may system calls fail by themselves; it does not change
    pc,          \* label of the goroutine that executes Run
    todo,        \* clients the current loop over clientList has still to visit
    cur,         \* the client it visits
    entries,     \* job directories that ReadDir listed and the loop has not visited
    errs,        \* is errList non-empty
    failed,      \* did setupJobmasterCgroups fail (its teardown is running)
    outcome,     \* how the last run ended: ok and err are the results of Run
    runs,        \* runs started so far
    config,      \* the configuration of the last run
    inherited,   \* jobs of earlier runs that were running when it was started
    parent,      \* does the directory jobmaster exist
    dirs,        \* clients whose directory exists
    controlled,  \* directories with controllers enabled: clients, "" for jobmaster
    home,        \* job -> client whose directory holds the job's, "" if none
    proc,        \* job -> its processes: none, alive, dying (sent SIGKILL), dead
    supervised   \* jobs with a wait goroutine

runVars  == <<pc, todo, cur, entries, errs, failed, outcome, runs, config, inherited>>
configVars == <<config, inherited>>
fsVars   == <<parent, dirs, controlled>>
jobVars  == <<home, proc, supervised>>
vars == <<faulty, pc, todo, cur, entries, errs, failed, outcome, runs, config, inherited,
          parent, dirs, controlled, home, proc, supervised>>

TeardownLabels == {"td_client", "td_kill", "td_list", "td_jobs", "td_parent"}

Labels ==
    {"off", "mk_parent", "ctl_parent", "rm_parent", "mk_client", "ctl_client",
     "undo_client", "verify", "tls", "serving", "stopping"} \cup TeardownLabels

\* ServerConfig: good, with an IODeviceID that is empty or not a device number, or
\* with a certificate, key or CA file that cannot be loaded.
Configs == {"good", "bad device", "bad files"}

TypeOK ==
    /\ faulty \in BOOLEAN
    /\ pc \in Labels
    /\ todo \subseteq Clients
    /\ cur \in Clients \cup {""}
    /\ entries \subseteq Jobs
    /\ errs \in BOOLEAN
    /\ failed \in BOOLEAN
    /\ outcome \in {"none", "ok", "err", "crash"}
    /\ runs \in 0..MaxRuns
    /\ config \in Configs
    /\ inherited \subseteq Jobs
    /\ parent \in BOOLEAN
    /\ dirs \subseteq Clients
    /\ controlled \subseteq dirs \cup {""}
    /\ home \in [Jobs -> Clients \cup {""}]
    /\ proc \in [Jobs -> {"none", "alive", "dying", "dead"}]
    /\ supervised \subseteq Jobs

Init ==
    /\ faulty \in BOOLEAN
    /\ pc = "off"
    /\ todo = {}
    /\ cur = ""
    /\ entries = {}
    /\ errs = FALSE
    /\ failed = FALSE
    /\ outcome = "none"
    /\ runs = 0
    /\ config = "good"
    /\ inherited = {}
    /\ parent = FALSE
    /\ dirs = {}
    /\ controlled = {}
    /\ home = [j \in Jobs |-> ""]
    /\ proc = [j \in Jobs |-> "none"]
    /\ supervised = {}

-----------------------------------------------------------------------------
(* The kernel: rmdir refuses a cgroup that has children or live processes. *)

JobsIn(cl) == {j \in Jobs : home[j] = cl}

Living(j) == proc[j] \in {"alive", "dying"}

CanRmdirJob(j) == home[j] # "" /\ ~Living(j)

CanRmdirClient(cl) == cl \in dirs /\ JobsIn(cl) = {}

CanRmdirParent == parent /\ dirs = {}

\* Rmdir, with the controllers that were enabled in the directory.
RmdirClient(cl) ==
    /\ CanRmdirClient(cl)
    /\ dirs' = dirs \ {cl}
    /\ controlled' = controlled \ {cl}

RmdirParent ==
    /\ CanRmdirParent
    /\ parent' = FALSE
    /\ controlled' = controlled \ {""}

\* The end of the process; its goroutines go with it.
Exit(result) ==
    /\ pc' = "off"
    /\ outcome' = result
    /\ supervised' = {}

-----------------------------------------------------------------------------
(* setupJobmasterCgroups, called by NewServer through CreateJobsLib        *)

Boot ==
    /\ pc = "off"
    /\ runs < MaxRuns
    /\ runs' = runs + 1
    /\ pc' = "mk_parent"
    /\ outcome' = "none"
    /\ failed' = FALSE
    /\ config' \in Configs
    /\ inherited' = {j \in Jobs : proc[j] = "alive"}
    /\ UNCHANGED <<todo, cur, entries, errs, fsVars, jobVars>>

\* os.MkdirAll, after the checks of the IODeviceID: an existing directory is no error.
MkParent ==
    /\ pc = "mk_parent"
    /\ config # "bad device"
    /\ pc' = "ctl_parent"
    /\ parent' = TRUE
    /\ UNCHANGED <<todo, cur, entries, errs, failed, outcome, runs, configVars, dirs, controlled,
                   jobVars>>

\* The IODeviceID is refused, or the call fails: Run returns before it serves.
MkParentFails ==
    /\ pc = "mk_parent"
    /\ faulty \/ config = "bad device"
    /\ Exit("err")
    /\ UNCHANGED <<todo, cur, entries, errs, failed, runs, configVars, fsVars, home, proc>>

\* Writing cgroup.subtree_control; then the loop over the clients begins.
CtlParent ==
    /\ pc = "ctl_parent"
    /\ pc' = "mk_client"
    /\ controlled' = controlled \cup {""}
    /\ todo' = Clients
    /\ errs' = FALSE
    /\ UNCHANGED <<cur, entries, failed, outcome, runs, configVars, parent, dirs, jobVars>>

CtlParentFails ==
    /\ pc = "ctl_parent"
    /\ faulty
    /\ pc' = "rm_parent"
    /\ UNCHANGED <<todo, cur, entries, errs, failed, outcome, runs, configVars, fsVars, jobVars>>

\* os.Remove of the parent; either way setup has failed, without a teardown.
RmParent ==
    /\ pc = "rm_parent"
    /\ \/ RmdirParent
       \/ (faulty \/ ~CanRmdirParent) /\ UNCHANGED <<parent, controlled>>
    /\ Exit("err")
    /\ UNCHANGED <<todo, cur, entries, errs, failed, runs, configVars, dirs, home, proc>>

\* Fault: the directory is not made.
MkdirAll_Nothing(cl) == UNCHANGED dirs

MkdirAll(cl) == dirs' = dirs \cup {cl}

\* os.MkdirAll, again: a directory of an earlier run will do.
MkClient(cl) ==
    /\ pc = "mk_client"
    /\ cl \in todo
    /\ cur' = cl
    /\ pc' = "ctl_client"
    /\ MkdirAll(cl)
    /\ UNCHANGED <<todo, entries, errs, failed, outcome, runs, configVars, parent, controlled, jobVars>>

\* Fault: go on with the next client where the code breaks.
SetupFails_Continues ==
    /\ pc' = "mk_client"
    /\ todo' = todo \ {cur}
    /\ UNCHANGED failed

\* break, and the clean-up over the whole clientList; its own errList is empty.
SetupFails ==
    /\ pc' = "td_client"
    /\ failed' = TRUE
    /\ todo' = Clients

\* Fault: Mkdir, which an existing directory makes fail.
MkdirMayFail_NotAll == faulty \/ todo \cap dirs # {}

MkdirMayFail == faulty

MkClientFails ==
    /\ pc = "mk_client"
    /\ todo # {}
    /\ MkdirMayFail
    /\ SetupFails
    /\ UNCHANGED <<cur, entries, errs, outcome, runs, configVars, fsVars, jobVars>>

CtlClient ==
    /\ pc = "ctl_client"
    /\ controlled' = controlled \cup {cur}
    /\ todo' = todo \ {cur}
    /\ pc' = "mk_client"
    /\ UNCHANGED <<cur, entries, errs, failed, outcome, runs, configVars, parent, dirs, jobVars>>

CtlClientFails ==
    /\ pc = "ctl_client"
    /\ faulty
    /\ pc' = "undo_client"
    /\ UNCHANGED <<todo, cur, entries, errs, failed, outcome, runs, configVars, fsVars, jobVars>>

\* Rmdir of the client directory without controllers, then break.
UndoClient ==
    /\ pc = "undo_client"
    /\ \/ RmdirClient(cur)
       \/ (faulty \/ ~CanRmdirClient(cur)) /\ UNCHANGED <<dirs, controlled>>
    /\ SetupFails
    /\ UNCHANGED <<cur, entries, errs, outcome, runs, configVars, parent, jobVars>>

ClientsDone ==
    /\ pc = "mk_client"
    /\ todo = {}
    /\ pc' = "verify"
    /\ UNCHANGED <<todo, cur, entries, errs, failed, outcome, runs, configVars, fsVars, jobVars>>

\* verifyCgroups.  It fails without cleaning up.
Verify ==
    /\ pc = "verify"
    /\ parent /\ Clients \subseteq dirs
    /\ pc' = "tls"
    /\ UNCHANGED <<todo, cur, entries, errs, failed, outcome, runs, configVars, fsVars, jobVars>>

VerifyFails ==
    /\ pc = "verify"
    /\ faulty \/ ~(parent /\ Clients \subseteq dirs)
    /\ Exit("err")
    /\ UNCHANGED <<todo, cur, entries, errs, failed, runs, configVars, fsVars, home, proc>>

\* loadTLSConfigForServer and the rest of NewServer.
NewServer ==
    /\ pc = "tls"
    /\ config # "bad files"
    /\ pc' = "serving"
    /\ UNCHANGED <<todo, cur, entries, errs, failed, outcome, runs, configVars, fsVars, jobVars>>

\* Run returns the error of NewServer at once: the hierarchy stays.
NewServerFails ==
    /\ pc = "tls"
    /\ faulty \/ config = "bad files"
    /\ Exit("err")
    /\ UNCHANGED <<todo, cur, entries, errs, failed, runs, configVars, fsVars, home, proc>>

SetupNext ==
    \/ Boot \/ MkParent \/ MkParentFails \/ CtlParent \/ CtlParentFails \/ RmParent
    \/ \E cl \in Clients : MkClient(cl)
    \/ MkClientFails \/ CtlClient \/ CtlClientFails \/ UndoClient \/ ClientsDone
    \/ Verify \/ VerifyFails \/ NewServer \/ NewServerFails

-----------------------------------------------------------------------------
(* Serving.  Jobs go on when the server does not.                          *)

\* A Start call: createJobCgroup, exec, and the wait goroutine.  Calls that
\* have begun go on while GracefulStop waits for them.
StartJob(j, cl) ==
    /\ pc \in {"serving", "stopping"}
    /\ proc[j] = "none"
    /\ cl \in dirs
    /\ home' = [home EXCEPT ![j] = cl]
    /\ proc' = [proc EXCEPT ![j] = "alive"]
    /\ supervised' = supervised \cup {j}
    /\ UNCHANGED <<runVars, fsVars>>

\* A Start call that fails after createJobCgroup leaves the directory behind.
StartJobFails(j, cl) ==
    /\ pc \in {"serving", "stopping"}
    /\ proc[j] = "none"
    /\ cl \in dirs
    /\ home' = [home EXCEPT ![j] = cl]
    /\ proc' = [proc EXCEPT ![j] = "dead"]
    /\ UNCHANGED <<runVars, fsVars, supervised>>

\* The processes end by themselves, or SIGKILL has taken effect.
JobEnds(j) ==
    /\ Living(j)
    /\ proc' = [proc EXCEPT ![j] = "dead"]
    /\ UNCHANGED <<runVars, fsVars, home, supervised>>

\* The wait goroutine's removeJobCgroup; nobody waits for it, so it can run in
\* the middle of the teardown.  It fails if the directory is still busy.
WaiterRemoves(j) ==
    /\ j \in supervised
    /\ proc[j] = "dead"
    /\ supervised' = supervised \ {j}
    /\ home' = [home EXCEPT ![j] = ""] \/ UNCHANGED home
    /\ UNCHANGED <<runVars, fsVars, proc>>

\* A termination signal, or Serve returns.
StopServing ==
    /\ pc = "serving"
    /\ pc' = "stopping"
    /\ UNCHANGED <<todo, cur, entries, errs, failed, outcome, runs, configVars, fsVars, jobVars>>

\* GracefulStop has waited for the pending calls.
GracefulStop ==
    /\ pc = "stopping"
    /\ pc' = "td_client"
    /\ todo' = Clients
    /\ errs' = FALSE
    /\ UNCHANGED <<cur, entries, failed, outcome, runs, configVars, fsVars, jobVars>>

\* A panic, or SIGKILL, at any time.
Crash ==
    /\ pc # "off"
    /\ Exit("crash")
    /\ UNCHANGED <<todo, cur, entries, errs, failed, runs, configVars, fsVars, home, proc>>

ServeNext ==
    \/ \E j \in Jobs :
          \/ \E cl \in Clients : StartJob(j, cl) \/ StartJobFails(j, cl)
          \/ JobEnds(j) \/ WaiterRemoves(j)
    \/ StopServing \/ GracefulStop \/ Crash

-----------------------------------------------------------------------------
(* TeardownJobmasterCgroups, by Run or for a failed setup                  *)

\* Fault: a client without jobs is passed over.
TdStat_SkipsIdle(cl) ==
    /\ pc = "td_client"
    /\ cl \in todo
    /\ IF JobsIn(cl) # {}
       THEN pc' = "td_kill" /\ cur' = cl /\ UNCHANGED todo
       ELSE todo' = todo \ {cl} /\ UNCHANGED <<pc, cur>>
    /\ UNCHANGED <<entries, errs, failed, outcome, runs, configVars, fsVars, jobVars>>

\* os.Stat: a client without a directory is passed over.
TdStat(cl) ==
    /\ pc = "td_client"
    /\ cl \in todo
    /\ IF cl \in dirs
       THEN pc' = "td_kill" /\ cur' = cl /\ UNCHANGED todo
       ELSE todo' = todo \ {cl} /\ UNCHANGED <<pc, cur>>
    /\ UNCHANGED <<entries, errs, failed, outcome, runs, configVars, fsVars, jobVars>>

\* Any other error of os.Stat: return, with the other clients not visited.
TdStatFails ==
    /\ pc = "td_client"
    /\ todo # {}
    /\ faulty
    /\ Exit("err")
    /\ UNCHANGED <<todo, cur, entries, errs, failed, runs, configVars, fsVars, home, proc>>

\* Fault: the kill file of the client is not written.
SigKill_Skipped(cl) == UNCHANGED proc

SigKill(cl) ==
    proc' = [j \in Jobs |-> IF home[j] = cl /\ proc[j] = "alive" THEN "dying" ELSE proc[j]]

\* 1 into cgroup.kill: SIGKILL to all that lives below; it takes its time.
TdKill ==
    /\ pc = "td_kill"
    /\ pc' = "td_list"
    /\ \/ SigKill(cur) /\ UNCHANGED errs
       \/ faulty /\ errs' = TRUE /\ UNCHANGED proc
    /\ UNCHANGED <<todo, cur, entries, failed, outcome, runs, configVars, fsVars, home, supervised>>

\* os.ReadDir.
TdList ==
    /\ pc = "td_list"
    /\ pc' = "td_jobs"
    /\ \/ entries' = JobsIn(cur) /\ UNCHANGED errs
       \/ faulty /\ entries' = {} /\ errs' = TRUE
    /\ UNCHANGED <<todo, cur, failed, outcome, runs, configVars, fsVars, jobVars>>

TdRmdirJob(j) ==
    /\ pc = "td_jobs"
    /\ j \in entries
    /\ entries' = entries \ {j}
    /\ \/ CanRmdirJob(j) /\ home' = [home EXCEPT ![j] = ""] /\ UNCHANGED errs
       \/ (faulty \/ ~CanRmdirJob(j)) /\ errs' = TRUE /\ UNCHANGED home
    /\ UNCHANGED <<pc, todo, cur, failed, outcome, runs, configVars, fsVars, proc, supervised>>

TdRmdirClient ==
    /\ pc = "td_jobs"
    /\ entries = {}
    /\ \/ RmdirClient(cur) /\ UNCHANGED errs
       \/ /\ faulty \/ ~CanRmdirClient(cur)
          /\ errs' = TRUE
          /\ UNCHANGED <<dirs, controlled>>
    /\ todo' = todo \ {cur}
    /\ pc' = "td_client"
    /\ UNCHANGED <<cur, entries, failed, outcome, runs, configVars, parent, jobVars>>

\* Errors of the loop are returned, and the parent is left alone.
TdErrors ==
    /\ pc = "td_client"
    /\ todo = {}
    /\ errs
    /\ Exit("err")
    /\ UNCHANGED <<todo, cur, entries, errs, failed, runs, configVars, fsVars, home, proc>>

TdClientsGone ==
    /\ pc = "td_client"
    /\ todo = {}
    /\ ~errs
    /\ pc' = "td_parent"
    /\ UNCHANGED <<todo, cur, entries, errs, failed, outcome, runs, configVars, fsVars, jobVars>>

\* A failed setup is an error however well its clean-up went.
Result == IF failed THEN "err" ELSE "ok"

\* Fault: the error of the last Rmdir is dropped.
ParentStays_Dropped == Exit(Result) /\ UNCHANGED <<parent, controlled>>

ParentStays == Exit("err") /\ UNCHANGED <<parent, controlled>>

TdRmdirParent ==
    /\ pc = "td_parent"
    /\ \/ RmdirParent /\ Exit(Result)
       \/ (faulty \/ ~CanRmdirParent) /\ ParentStays
    /\ UNCHANGED <<todo, cur, entries, errs, failed, runs, configVars, dirs, home, proc>>

TeardownNext ==
    \/ \E cl \in Clients : TdStat(cl)
    \/ \E j \in Jobs : TdRmdirJob(j)
    \/ TdStatFails \/ TdKill \/ TdList \/ TdRmdirClient \/ TdErrors
    \/ TdClientsGone \/ TdRmdirParent

-----------------------------------------------------------------------------
Next == (SetupNext \/ ServeNext \/ TeardownNext) /\ UNCHANGED faulty

Spec == Init /\ [][Next]_vars

-----------------------------------------------------------------------------
(* Properties                                                              *)

\* A server that takes calls has the whole hierarchy under it, with controllers
\* enabled everywhere, so that createJobCgroup can set limits: whatever failed
\* during setup, and whatever an earlier run left.
ServingIsReady ==
    pc \in {"tls", "serving", "stopping"} =>
        parent /\ dirs = Clients /\ controlled = Clients \cup {""}

\* When Run returns nil, nothing is left: no directory, and no process of this
\* run or of one that crashed before it.
CleanExit ==
    outcome = "ok" => ~parent /\ dirs = {} /\ \A j \in Jobs : home[j] = "" /\ ~Living(j)

\* If no system call fails by itself, Run never leaves a process of its own running,
\* however the removal of directories went, and with a good configuration none of
\* earlier runs either.  A run that its configuration keeps from serving returns
\* without a teardown, and what it has inherited from a crash runs on.
NoRunaways ==
    ~faulty /\ outcome \in {"ok", "err"} =>
        \A j \in Jobs : proc[j] = "alive" => config # "good" /\ j \in inherited

\* If no system call fails by itself, jobs that a crash has left running come through
\* the setup of the next run, although their directories are in its way, and through
\* the whole of a run with a bad configuration: they are not killed and keep their
\* directories, below those of the clients, where a later teardown finds them.
LeftoversSurviveSetup ==
    /\ ~faulty
    /\ \/ pc \notin TeardownLabels \cup {"off"}
       \/ outcome = "err" /\ config # "good"
    => \A j \in inherited : home[j] \in dirs /\ proc[j] # "dying"

\* If no system call fails by itself and the configuration is good, only the
\* directory of a job makes the teardown, and with it Run, fail: one that is still
\* there or one that ReadDir has listed.  Client directories and their parent are
\* never in the way, though wait goroutines remove directories under the teardown's
\* feet, and setup does not fail.
OnlyJobsBlockTeardown ==
    [][~faulty =>
         /\ errs' /\ ~errs => \E j \in Jobs : j \in entries \/ home[j] = cur
         /\ outcome' = "err" => errs \/ config # "good" \/ outcome = "err"]_vars
==============================================================================

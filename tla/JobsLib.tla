------------------------------- MODULE JobsLib -------------------------------
(***************************************************************************)
(* The job library (jobslib/jobslib.go) with the per-job half of           *)
(* jobslib/cgroups.go: Start, Stop, Status and the goroutine that Start    *)
(* leaves behind to wait for the process.                                  *)
(*                                                                         *)
(* Threads are the RPC calls (each runs one library operation) and one     *)
(* wait goroutine per job, named by the job itself.  A label of pc is a    *)
(* point between two steps that other threads can see: a system call on    *)
(* shared kernel state, or the taking or releasing of JobsLib.mu.  A       *)
(* critical section without a blocking call inside is one action; Stop     *)
(* keeps mu over several.                                                  *)
(*                                                                         *)
(* The kernel (processes, cgroup directories) is the environment.          *)
(***************************************************************************)
EXTENDS Integers, FiniteSets

CONSTANTS
    Clients,     \* client names a call can carry
    Admins,      \* the clients whose role is Admin (overrideClientCheck)
    ClientDirs,  \* clients with a cgroup directory (made by setupJobmasterCgroups)
    Jobs,        \* job IDs (KSUIDs) that Start can draw
    Calls,       \* RPC calls, each used once
    ExitCodes    \* exit codes of a process that ends by itself

ASSUME ConstantsAssumption ==
    /\ Admins \subseteq Clients
    /\ ClientDirs \subseteq Clients
    /\ "" \notin Clients
    /\ Calls \cap Jobs = {}
    /\ ExitCodes \subseteq Nat

VARIABLES
    pc,             \* thread -> label
    op,             \* call -> the operation it runs
    who,            \* call -> clientName
    target,         \* call -> jobID argument (Start: the ID it drew)
    retval,         \* call -> its copy of the Job, which it returns if it ends in ok
    mu,             \* the calls that hold JobsLib.mu for writing over several steps
    jobs,           \* the keys of JobsLib.jobs
    job,            \* the Job structs
    clientToJobID,  \* client -> IDs of the jobs it started
    issued,         \* IDs drawn so far
    cgroups,        \* existing job cgroup directories, <<client, job>>
    logs,           \* IDs whose output file exists
    proc,           \* the job's main process
    children,       \* does the job's cgroup hold live descendants of it
    killed,         \* was 1 written to the cgroup.kill file of the job
    wstatus         \* wait status: the exit code, -1 for death by signal

callVars   == <<op, who, target, retval>>
tableVars  == <<jobs, job, clientToJobID, issued>>
kernelVars == <<cgroups, logs, proc, children, killed, wstatus>>
vars == <<pc, op, who, target, retval, mu, jobs, job, clientToJobID, issued,
          cgroups, logs, proc, children, killed, wstatus>>

-----------------------------------------------------------------------------
(* Data                                                                    *)

JobStates == {"Unspecified", "Running", "TerminatedByAPI", "Completed"}

Terminal == {"TerminatedByAPI", "Completed"}

\* Mesg is the set of notes put into it; Ended says whether EndedUnixMilli is set.
Job == [ClientName : Clients \cup {""}, State : JobStates,
        ExitCode : ExitCodes \cup {-1, 0}, SignalStr : {"", "killed", "SIGKILL"},
        Mesg : SUBSET {"stop requested", "cgroup not removed"}, Ended : BOOLEAN]

\* The Go zero value Job{}.
ZeroJob == [ClientName |-> "", State |-> "Unspecified", ExitCode |-> 0,
            SignalStr |-> "", Mesg |-> {}, Ended |-> FALSE]

CallLabels ==
    {"idle", "st_cgroup", "st_file", "st_exec", "st_register", "find", "copy",
     "sp_lock", "kill_open", "kill_write", "poll", "sp_finish", "ok", "err"}

RemoveLabels == {"rm_open", "rm_write", "rm_stat", "rm_rmdir"}

WaiterLabels == {"none", "wait", "update", "update_rmerr", "finished"}

Threads == Calls \cup Jobs

LabelsOK ==
    /\ pc \in [Threads -> CallLabels \cup RemoveLabels \cup WaiterLabels]
    /\ \A c \in Calls : pc[c] \in CallLabels \cup RemoveLabels
    /\ \A j \in Jobs : pc[j] \in WaiterLabels \cup RemoveLabels

CallsOK ==
    /\ op \in [Calls -> {"none", "Start", "Stop", "Status"}]
    /\ who \in [Calls -> Clients \cup {""}]
    /\ target \in [Calls -> Jobs \cup {""}]
    /\ retval \in [Calls -> Job]

TableOK ==
    /\ mu \in SUBSET Calls
    /\ jobs \in SUBSET Jobs
    /\ job \in [Jobs -> Job]
    /\ clientToJobID \in [Clients -> SUBSET Jobs]
    /\ issued \in SUBSET Jobs

KernelOK ==
    /\ cgroups \in SUBSET (Clients \X Jobs)
    /\ logs \in SUBSET Jobs
    /\ proc \in [Jobs -> {"none", "running", "zombie", "reaped"}]
    /\ children \in [Jobs -> BOOLEAN]
    /\ killed \in [Jobs -> BOOLEAN]
    /\ wstatus \in [Jobs -> ExitCodes \cup {-1, 0}]

TypeOK == LabelsOK /\ CallsOK /\ TableOK /\ KernelOK

Init ==
    /\ pc = [t \in Threads |-> IF t \in Calls THEN "idle" ELSE "none"]
    /\ op = [c \in Calls |-> "none"]
    /\ who = [c \in Calls |-> ""]
    /\ target = [c \in Calls |-> ""]
    /\ retval = [c \in Calls |-> ZeroJob]
    /\ mu = {}
    /\ jobs = {}
    /\ job = [j \in Jobs |-> ZeroJob]
    /\ clientToJobID = [cl \in Clients |-> {}]
    /\ issued = {}
    /\ cgroups = {}
    /\ logs = {}
    /\ proc = [j \in Jobs |-> "none"]
    /\ children = [j \in Jobs |-> FALSE]
    /\ killed = [j \in Jobs |-> FALSE]
    /\ wstatus = [j \in Jobs |-> 0]

\* The job a thread works on, and the client name it works for.
JobOf(t) == IF t \in Jobs THEN t ELSE target[t]

ClientOf(t) == IF t \in Jobs THEN job[t].ClientName ELSE who[t]

\* cgroup2MountRoot/jobmaster/<clientName>/<jobID>, as both callers of
\* terminateJob and removeJobCgroup build it: from their own clientName.
JobDir(t) == <<ClientOf(t), JobOf(t)>>

\* Live processes in the job's cgroup; a zombie does not count.
Populated(j) == proc[j] = "running" \/ children[j]

Goto(t, label) == pc' = [pc EXCEPT ![t] = label]

-----------------------------------------------------------------------------
(* Start.  A failed check, a done context or a failed system call makes it *)
(* return an error; what it created before stays, except the output file.  *)

Start(c) ==
    /\ pc[c] = "idle"
    /\ \E cl \in Clients :
         /\ op' = [op EXCEPT ![c] = "Start"]
         /\ who' = [who EXCEPT ![c] = cl]
         /\ \/ Goto(c, "err") /\ UNCHANGED <<target, issued>>
            \/ /\ cl \in ClientDirs
               /\ \E j \in Jobs \ issued :
                    /\ target' = [target EXCEPT ![c] = j]
                    /\ issued' = issued \cup {j}
               /\ Goto(c, "st_cgroup")
    /\ UNCHANGED <<retval, mu, jobs, job, clientToJobID, kernelVars>>

\* Mkdir, then four limit files: only a failed Mkdir leaves no directory.
createJobCgroup(c) ==
    /\ pc[c] = "st_cgroup"
    /\ \/ Goto(c, "err") /\ UNCHANGED cgroups
       \/ Goto(c, "err") /\ cgroups' = cgroups \cup {JobDir(c)}
       \/ Goto(c, "st_file") /\ cgroups' = cgroups \cup {JobDir(c)}
    /\ UNCHANGED <<callVars, mu, tableVars, logs, proc, children, killed, wstatus>>

StartCreateFile(c) ==
    /\ pc[c] = "st_file"
    /\ \/ Goto(c, "err") /\ UNCHANGED logs
       \/ Goto(c, "st_exec") /\ logs' = logs \cup {target[c]}
    /\ UNCHANGED <<callVars, mu, tableVars, cgroups, proc, children, killed, wstatus>>

\* os.Remove of the output file can fail in turn.
StartExec(c) ==
    /\ pc[c] = "st_exec"
    /\ \/ /\ Goto(c, "err")
          /\ logs' \in {logs, logs \ {target[c]}}
          /\ UNCHANGED proc
       \/ /\ Goto(c, "st_register")
          /\ proc' = [proc EXCEPT ![target[c]] = "running"]
          /\ UNCHANGED logs
    /\ UNCHANGED <<callVars, mu, tableVars, cgroups, children, killed, wstatus>>

\* Fault: the context is checked again once the process runs.
StartRegister_LateContextCheck(c) ==
    /\ pc[c] = "st_register"
    /\ Goto(c, "err")
    /\ UNCHANGED <<callVars, mu, tableVars, kernelVars>>

\* Fault: the job is registered without the name of its client.
StartRegister_NoName(c) ==
    LET j == target[c] IN
    /\ pc[c] = "st_register"
    /\ mu = {}
    /\ jobs' = jobs \cup {j}
    /\ job' = [job EXCEPT ![j] = [ZeroJob EXCEPT !.State = "Running"]]
    /\ clientToJobID' = [clientToJobID EXCEPT ![who[c]] = @ \cup {j}]
    /\ pc' = [pc EXCEPT ![c] = "ok", ![j] = "wait"]
    /\ UNCHANGED <<callVars, mu, issued, kernelVars>>

StartRegister(c) ==
    LET j == target[c] IN
    /\ pc[c] = "st_register"
    /\ mu = {}
    /\ jobs' = jobs \cup {j}
    /\ job' = [job EXCEPT ![j] = [ZeroJob EXCEPT !.ClientName = who[c],
                                                 !.State = "Running"]]
    /\ clientToJobID' = [clientToJobID EXCEPT ![who[c]] = @ \cup {j}]
    /\ pc' = [pc EXCEPT ![c] = "ok", ![j] = "wait"]
    /\ UNCHANGED <<callVars, mu, issued, kernelVars>>

-----------------------------------------------------------------------------
(* Status (StreamOutputSetup reads the table in the same way) and Stop.    *)

Status(c) ==
    /\ pc[c] = "idle"
    /\ \E cl \in Clients, j \in Jobs :
         /\ op' = [op EXCEPT ![c] = "Status"]
         /\ who' = [who EXCEPT ![c] = cl]
         /\ target' = [target EXCEPT ![c] = j]
    /\ Goto(c, "err") \/ Goto(c, "find")
    /\ UNCHANGED <<retval, mu, tableVars, kernelVars>>

Stop(c) ==
    /\ pc[c] = "idle"
    /\ \E cl \in Clients, j \in Jobs :
         /\ op' = [op EXCEPT ![c] = "Stop"]
         /\ who' = [who EXCEPT ![c] = cl]
         /\ target' = [target EXCEPT ![c] = j]
         /\ Goto(c, "err") \/ (cl \in ClientDirs /\ Goto(c, "find"))
    /\ UNCHANGED <<retval, mu, tableVars, kernelVars>>

\* Fault: any caller will do.
Entitled_Anybody(c) == TRUE

\* May the caller see and stop the job: its own, or overrideClientCheck.
Entitled(c) == \/ job[target[c]].ClientName = who[c]
               \/ who[c] \in Admins

findJobByJobID(c) ==
    /\ pc[c] = "find"
    /\ \/ Goto(c, "err")
       \/ mu = {} /\ target[c] \in jobs /\ Goto(c, "copy")
    /\ UNCHANGED <<callVars, mu, tableVars, kernelVars>>

\* The copy is made under the read lock; Status then checks the owner on it.
deepCopyJobFromPointer(c) ==
    /\ pc[c] = "copy"
    /\ \/ Goto(c, "err") /\ UNCHANGED retval
       \/ /\ mu = {}
          /\ retval' = [retval EXCEPT ![c] = job[target[c]]]
          /\ \/ op[c] = "Stop" /\ Goto(c, "sp_lock")
             \/ op[c] = "Status" /\ Entitled(c) /\ Goto(c, "ok")
             \/ op[c] = "Status" /\ ~Entitled(c) /\ Goto(c, "err")
    /\ UNCHANGED <<op, who, target, mu, tableVars, kernelVars>>

\* Stop takes mu.  It returns the copy it made before if the job is over.
StopLock(c) ==
    /\ pc[c] = "sp_lock"
    /\ mu = {}
    /\ \/ ~Entitled(c) /\ Goto(c, "err") /\ UNCHANGED mu
       \/ /\ Entitled(c) /\ job[target[c]].State \in Terminal
          /\ Goto(c, "ok") /\ UNCHANGED mu
       \/ /\ Entitled(c) /\ job[target[c]].State \notin Terminal
          /\ Goto(c, "kill_open") /\ mu' = {c}
    /\ UNCHANGED <<callVars, tableVars, kernelVars>>

-----------------------------------------------------------------------------
(* terminateJob and removeJobCgroup, run by Stop and by the wait goroutine *)
(* on the same directory without a common lock.                            *)

\* An error from the cgroup functions: Stop returns it and unlocks mu, the
\* wait goroutine notes it and carries on.
CgroupError(t) ==
    IF t \in Calls THEN Goto(t, "err") /\ mu' = mu \ {t}
                   ELSE Goto(t, "update_rmerr") /\ UNCHANGED mu

\* terminateJob, open half of os.WriteFile: no kill file, no work.
KillFileOpen(t) ==
    /\ \/ pc[t] = "kill_open" /\ JobDir(t) \in cgroups /\ Goto(t, "kill_write")
       \/ pc[t] = "kill_open" /\ JobDir(t) \notin cgroups /\ Goto(t, "poll")
       \/ pc[t] = "rm_open" /\ JobDir(t) \in cgroups /\ Goto(t, "rm_write")
       \/ pc[t] = "rm_open" /\ JobDir(t) \notin cgroups /\ Goto(t, "rm_stat")
    /\ UNCHANGED <<callVars, mu, tableVars, kernelVars>>

\* Fault: writing to the kill file is forgotten.
Kill_Dropped(j) == UNCHANGED killed

Kill(j) == killed' = [killed EXCEPT ![j] = TRUE]

\* The write half: ENODEV, not ENOENT, when the directory went after the open.
KillFileWrite(t) ==
    /\ pc[t] \in {"kill_write", "rm_write"}
    /\ \/ /\ JobDir(t) \in cgroups
          /\ Kill(JobOf(t))
          /\ \/ pc[t] = "kill_write" /\ Goto(t, "poll")
             \/ pc[t] = "rm_write" /\ Goto(t, "rm_stat")
          /\ UNCHANGED mu
       \/ JobDir(t) \notin cgroups /\ CgroupError(t) /\ UNCHANGED killed
    /\ UNCHANGED <<callVars, tableVars, cgroups, logs, proc, children, wstatus>>

\* removeJobCgroup returns without an error.
CgroupRemoved(t) == Goto(t, IF t \in Calls THEN "sp_finish" ELSE "update")

RemoveStat(t) ==
    /\ pc[t] = "rm_stat"
    /\ \/ JobDir(t) \in cgroups /\ Goto(t, "rm_rmdir")
       \/ JobDir(t) \notin cgroups /\ CgroupRemoved(t)
    /\ UNCHANGED <<callVars, mu, tableVars, kernelVars>>

\* Fault: any result of Rmdir is taken for success.
RemoveRmdir_ErrorIgnored(t) ==
    /\ pc[t] = "rm_rmdir"
    /\ cgroups' = IF Populated(JobOf(t)) THEN cgroups ELSE cgroups \ {JobDir(t)}
    /\ CgroupRemoved(t)
    /\ UNCHANGED <<callVars, mu, tableVars, logs, proc, children, killed, wstatus>>

\* EBUSY while the cgroup holds live processes, ENOENT when it is gone.
RemoveRmdir(t) ==
    /\ pc[t] = "rm_rmdir"
    /\ \/ /\ JobDir(t) \in cgroups /\ ~Populated(JobOf(t))
          /\ cgroups' = cgroups \ {JobDir(t)}
          /\ CgroupRemoved(t)
          /\ UNCHANGED mu
       \/ /\ JobDir(t) \in cgroups => Populated(JobOf(t))
          /\ CgroupError(t)
          /\ UNCHANGED cgroups
    /\ UNCHANGED <<callVars, tableVars, logs, proc, children, killed, wstatus>>

-----------------------------------------------------------------------------
(* The end of Stop                                                         *)

\* Fault: a process that nobody has waited for yet is taken to be gone.
ProcessGone_Zombie(j) == proc[j] \in {"zombie", "reaped"}

\* Signal 0 fails once the process has been reaped (PIDs are not reused).
ProcessGone(j) == proc[j] = "reaped"

StopPoll(c) ==
    /\ pc[c] = "poll"
    /\ ProcessGone(target[c])
    /\ Goto(c, "rm_open")
    /\ UNCHANGED <<callVars, mu, tableVars, kernelVars>>

\* What Stop writes into the job, and again into its own copy.
Stopped(r) == [r EXCEPT !.State = "TerminatedByAPI", !.Ended = TRUE,
                        !.Mesg = @ \cup {"stop requested"},
                        !.ExitCode = -1, !.SignalStr = "SIGKILL"]

\* Fault: only the copy for the caller is updated.
StopFinish_CopyOnly(c) ==
    /\ pc[c] = "sp_finish"
    /\ retval' = [retval EXCEPT ![c] = Stopped(retval[c])]
    /\ mu' = mu \ {c}
    /\ Goto(c, "ok")
    /\ UNCHANGED <<op, who, target, tableVars, kernelVars>>

StopFinish(c) ==
    /\ pc[c] = "sp_finish"
    /\ job' = [job EXCEPT ![target[c]] = Stopped(job[target[c]])]
    /\ retval' = [retval EXCEPT ![c] = Stopped(retval[c])]
    /\ mu' = mu \ {c}
    /\ Goto(c, "ok")
    /\ UNCHANGED <<op, who, target, jobs, clientToJobID, issued, kernelVars>>

-----------------------------------------------------------------------------
(* The wait goroutine                                                      *)

\* Fault: the goroutine goes on before the process has ended.
WaiterReap_TooEarly(j) ==
    /\ pc[j] = "wait"
    /\ Goto(j, "rm_open")
    /\ UNCHANGED <<callVars, mu, tableVars, kernelVars>>

\* cmd.Wait returns: the process is reaped, its status is known.
WaiterReap(j) ==
    /\ pc[j] = "wait"
    /\ proc[j] = "zombie"
    /\ proc' = [proc EXCEPT ![j] = "reaped"]
    /\ Goto(j, "rm_open")
    /\ UNCHANGED <<callVars, mu, tableVars, cgroups, logs, children, killed, wstatus>>

\* Fault: the raw wait status is stored, exit code in the high byte.
Exited_RawStatus(j) == [job[j] EXCEPT !.ExitCode = wstatus[j] * 256]

\* What the goroutine writes into the job whatever its state.  "killed" stands
\* for the name of whichever signal ended the process.
Exited(j) == [job[j] EXCEPT
                !.ExitCode = wstatus[j],
                !.SignalStr = IF wstatus[j] = -1 THEN "killed" ELSE "",
                !.Mesg = IF pc[j] = "update_rmerr"
                           THEN @ \cup {"cgroup not removed"} ELSE @]

Completed(r) == [r EXCEPT !.State = "Completed", !.Ended = TRUE]

\* Fault: the state that Stop has set is overwritten.
Updated_StepsOverStop(j) == Completed(Exited(j))

\* Fault: the whole update is skipped for a job that Stop has ended.
Updated_SkippedAfterStop(j) ==
    IF job[j].State = "TerminatedByAPI" THEN job[j] ELSE Completed(Exited(j))

\* Fault: the goroutine returns at once when the cgroup cannot be removed.
Updated_LeavesOnError(j) ==
    IF pc[j] = "update_rmerr" THEN job[j] ELSE Completed(Exited(j))

Updated(j) ==
    IF job[j].State = "TerminatedByAPI" THEN Exited(j) ELSE Completed(Exited(j))

\* Fault: the job is written without taking mu.
WaiterUpdate_NoLock(j) ==
    /\ pc[j] \in {"update", "update_rmerr"}
    /\ job' = [job EXCEPT ![j] = Updated(j)]
    /\ Goto(j, "finished")
    /\ UNCHANGED <<callVars, mu, jobs, clientToJobID, issued, kernelVars>>

WaiterUpdate(j) ==
    /\ pc[j] \in {"update", "update_rmerr"}
    /\ mu = {}
    /\ job' = [job EXCEPT ![j] = Updated(j)]
    /\ Goto(j, "finished")
    /\ UNCHANGED <<callVars, mu, jobs, clientToJobID, issued, kernelVars>>

-----------------------------------------------------------------------------
(* The kernel                                                              *)

\* A process that SIGKILL is pending for may still have been exiting by itself.
ProcessExit(j) ==
    /\ proc[j] = "running"
    /\ proc' = [proc EXCEPT ![j] = "zombie"]
    /\ \E s \in ExitCodes \cup {-1} : wstatus' = [wstatus EXCEPT ![j] = s]
    /\ UNCHANGED <<pc, callVars, mu, tableVars, cgroups, logs, children, killed>>

ChildFork(j) ==
    /\ proc[j] = "running" /\ ~killed[j] /\ ~children[j]
    /\ children' = [children EXCEPT ![j] = TRUE]
    /\ UNCHANGED <<pc, callVars, mu, tableVars, cgroups, logs, proc, killed, wstatus>>

ChildrenExit(j) ==
    /\ children[j]
    /\ children' = [children EXCEPT ![j] = FALSE]
    /\ UNCHANGED <<pc, callVars, mu, tableVars, cgroups, logs, proc, killed, wstatus>>

\* Every call has returned and nothing is left to run.
AllOver ==
    /\ \A c \in Calls : pc[c] \in {"ok", "err"}
    /\ \A j \in Jobs : pc[j] \in {"none", "finished"} /\ ~Populated(j)
    /\ UNCHANGED vars

-----------------------------------------------------------------------------
StartStep(c) == \/ createJobCgroup(c) \/ StartCreateFile(c)
                \/ StartExec(c) \/ StartRegister(c)

StopStep(c) == \/ findJobByJobID(c) \/ deepCopyJobFromPointer(c) \/ StopLock(c)
               \/ StopPoll(c) \/ StopFinish(c)

CgroupStep(t) == \/ KillFileOpen(t) \/ KillFileWrite(t)
                 \/ RemoveStat(t) \/ RemoveRmdir(t)

Call(c) == Start(c) \/ Status(c) \/ Stop(c) \/ StartStep(c) \/ StopStep(c)

Waiter(j) == WaiterReap(j) \/ WaiterUpdate(j)

Kernel(j) == ProcessExit(j) \/ ChildFork(j) \/ ChildrenExit(j)

Next == \/ \E c \in Calls : Call(c)
        \/ \E j \in Jobs : Waiter(j) \/ Kernel(j)
        \/ \E t \in Threads : CgroupStep(t)
        \/ AllOver

Spec == Init /\ [][Next]_vars

\* The Go scheduler runs every thread that can run; SIGKILL ends what it is
\* pending for.  Nothing makes a call arrive or a process end by itself.
Fairness ==
    /\ \A c \in Calls : WF_vars(StartStep(c) \/ StopStep(c))
    /\ \A j \in Jobs : WF_vars(Waiter(j))
    /\ \A t \in Threads : WF_vars(CgroupStep(t))
    /\ \A j \in Jobs : WF_vars(killed[j] /\ ProcessExit(j))
    /\ \A j \in Jobs : WF_vars(killed[j] /\ ChildrenExit(j))

FairSpec == Spec /\ Fairness

-----------------------------------------------------------------------------
(* Properties                                                              *)

\* A job is reported as over only when its process has been reaped: Stop
\* polls for it, the wait goroutine waits for it, and neither relies on the
\* other (jobslib.go Stop, Start).
EndedMeansReaped ==
    \A j \in Jobs : job[j].State \in Terminal => proc[j] = "reaped"

\* A process that has not been reaped is known: its job is in the table, with
\* a goroutine waiting for it, or the Start that launched it is about to put
\* it there.  No error path of Start loses a running process.
NoLostProcess ==
    \A j \in Jobs : proc[j] \in {"running", "zombie"} =>
        \/ j \in jobs /\ pc[j] = "wait"
        \/ \E c \in Calls : pc[c] = "st_register" /\ target[c] = j

\* Once the wait goroutine has finished, whatever still lives in the job's
\* cgroup has SIGKILL pending: descendants do not outlive the job, although
\* Stop and the goroutine race to kill and to remove the same cgroup.
NoSurvivors ==
    \A j \in Jobs : pc[j] = "finished" => (Populated(j) => killed[j])

\* A job cgroup that is still there when the wait goroutine has finished is
\* owned up to in the job's Mesg.
LeakIsReported ==
    \A j \in Jobs :
        pc[j] = "finished" /\ <<job[j].ClientName, j>> \in cgroups
            => "cgroup not removed" \in job[j].Mesg

\* When the wait goroutine has finished, ExitCode and SignalStr are the ones
\* of the process, also for a job that Stop has ended with values of its own.
ExitStatusSettles ==
    \A j \in Jobs : pc[j] = "finished" =>
        /\ job[j].ExitCode = wstatus[j]
        /\ job[j].SignalStr = IF wstatus[j] = -1 THEN "killed" ELSE ""

\* Only the successful Stop of the job's own client, or of an administrator,
\* makes a job TerminatedByAPI.
StoppedByEntitled ==
    \A j \in Jobs : job[j].State = "TerminatedByAPI" =>
        \E c \in Calls : /\ op[c] = "Stop" /\ target[c] = j /\ pc[c] = "ok"
                         /\ who[c] \in Admins \cup {job[j].ClientName}

\* What a caller was told about the end of a job stays true: a copy handed out
\* with a terminal state agrees with the table from then on.
ReportedEndIsTrue ==
    \A c \in Calls :
        pc[c] = "ok" /\ retval[c].State \in Terminal
            => /\ job[target[c]].State = retval[c].State
               /\ job[target[c]].Ended

\* A terminal state is final, and a job never leaves the table: Stop and the
\* wait goroutine both write State, in either order.
TerminalIsFinal ==
    [][\A j \in Jobs :
         /\ job[j].State \in Terminal => job'[j].State = job[j].State
         /\ job[j].Ended => job'[j].Ended
         /\ j \in jobs => j \in jobs']_vars

\* Stop works on a copy that it made before it took mu, and returns that copy:
\* inside its critical section the copy is the job, whoever wrote the job between
\* the two locks.
StopCopyIsCurrent ==
    \A c \in Calls :
        pc[c] \in RemoveLabels \cup {"kill_open", "kill_write", "poll", "sp_finish"}
            => retval[c] = job[target[c]]

\* A call that may stay in Stop's polling loop: it polls for a job of another
\* client, whose kill file terminateJob has not found.
ForeignPoll(c) == pc[c] = "poll" /\ job[target[c]].ClientName # who[c]

\* While Stop by the job's own client polls with mu locked, what it polls for does
\* not wait for mu: the process is gone, or its wait goroutine is in cmd.Wait, and
\* a process that still runs has SIGKILL pending.
OwnStopIsServed ==
    \A c \in Calls : pc[c] = "poll" /\ ~ForeignPoll(c) =>
        \/ ProcessGone(target[c])
        \/ /\ pc[target[c]] = "wait"
           /\ proc[target[c]] = "running" => killed[target[c]]

\* When Stop has returned without an error the job is over and its process reaped,
\* although the copy that it returns may be one from before, of a running job that
\* somebody else has ended while Stop waited for mu.
StopOkMeansOver ==
    \A c \in Calls : op[c] = "Stop" /\ pc[c] = "ok" =>
        /\ job[target[c]].State \in Terminal /\ proc[target[c]] = "reaped"
        /\ retval[c].State \in {"Running", job[target[c]].State}

\* A process that still runs has SIGKILL pending only while Stop by its own client
\* polls for it.  The wait goroutine never kills it, nor does an administrator's Stop
\* of somebody else's job, which looks for the kill file under the wrong name.
OnlyOwnerKills ==
    \A j \in Jobs : killed[j] /\ proc[j] = "running" =>
        \E c \in Calls : /\ op[c] = "Stop" /\ pc[c] = "poll" /\ target[c] = j
                         /\ who[c] = job[j].ClientName

\* Every job cgroup that exists is accounted for: its job is in the table, under the
\* client in whose directory it lies, or the Start that made it is under way or
\* has returned an error (which leaves the directory behind).
CgroupsAccountedFor ==
    \A cl \in Clients, j \in Jobs : <<cl, j>> \in cgroups =>
        \/ j \in jobs /\ job[j].ClientName = cl
        \/ /\ j \notin jobs
           /\ \E c \in Calls : /\ op[c] = "Start" /\ who[c] = cl /\ target[c] = j
                            /\ pc[c] \in {"st_file", "st_exec", "st_register", "err"}

\* Stop by the job's own client comes back.
OwnStopReturns ==
    \A c \in Calls : pc[c] = "poll" /\ ~ForeignPoll(c) ~> pc[c] \in {"ok", "err"}

\* The end of a process is reported in the job's State, unless an
\* administrator's Stop of somebody else's job keeps mu for ever.
ExitIsReported ==
    \/ \A j \in Jobs :
         proc[j] = "zombie" /\ j \in jobs ~> job[j].State \in Terminal
    \/ <>[](\E c \in Calls : ForeignPoll(c))

-----------------------------------------------------------------------------
(* Refinement                                                              *)

StateOf == [j \in Jobs |-> job[j].State]

AliveOf == [j \in Jobs |-> IF proc[j] = "none" THEN "not started"
                           ELSE IF proc[j] = "reaped" THEN "collected" ELSE "started"]

Lifecycle == INSTANCE JobLifecycle WITH state <- StateOf, alive <- AliveOf

\* The library implements the life of a job as JobLifecycle states it.
ImplementsLifecycle == Lifecycle!Spec
==============================================================================

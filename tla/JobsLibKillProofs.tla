--------------------------- MODULE JobsLibKillProofs ---------------------------
(* Theorems about the cgroup directories of JobsLib and about what is        *)
(* killed through them (cgroups.go createJobCgroup, terminateJob), for any   *)
(* clients, jobs, calls and exit codes.                                      *)
EXTENDS JobsLibProofs

USE DEF callVars, tableVars, kernelVars

\* Where a call of Start can be once it has made its directory.
Made == {"st_file", "st_exec", "st_register", "err"}

\* A directory bears an ID that was drawn.  A Start under way has its job's directory
\* in its own client's, if it has made one, and there is no other.
DirOfStart(c) ==
    pc[c] \in Starting =>
        /\ op[c] = "Start"
        /\ \A cl \in Clients : <<cl, target[c]>> \in cgroups => cl = who[c] /\ pc[c] \in Made

DirInv ==
    /\ \A cl \in Clients, j \in Jobs : <<cl, j>> \in cgroups => j \in issued
    /\ \A c \in Calls : DirOfStart(c)

\* Only a registered job can have been killed.
KillInv ==
    /\ CgroupsAccountedFor /\ DirInv
    /\ \A j \in Jobs : killed[j] => j \in jobs
    /\ OnlyOwnerKills

-----------------------------------------------------------------------------
(* Steps that make no directory, register no job and kill nothing          *)

SameArgs(c) == op'[c] = op[c] /\ who'[c] = who[c] /\ target'[c] = target[c]

\* The call c goes on, or begins, or stands still; it leaves the polling loop only
\* when the process is gone.
GoesOn(c) ==
    /\ pc[c] \in Made => pc'[c] \in Made /\ SameArgs(c)
    /\ pc[c] = "poll" => \/ pc'[c] = "poll" /\ SameArgs(c)
                         \/ proc[target[c]] # "running"
    /\ pc'[c] \in Starting => pc[c] \in Starting /\ SameArgs(c)
                              /\ (pc[c] \in Made => pc'[c] \in Made)

\* No directory is made, no job registered or given away.
SameOwners ==
    /\ cgroups' \subseteq cgroups
    /\ jobs' = jobs /\ issued' = issued
    /\ \A j \in jobs : job'[j].ClientName = job[j].ClientName

\* Nor is a job killed, or one that is registered launched.
Harmless ==
    /\ SameOwners
    /\ \A j \in Jobs : killed'[j] => killed[j]
    /\ \A j \in jobs : proc'[j] = "running" => proc[j] = "running"

\* Such a step keeps the account of directories.
LEMMA AccountKept ==
  ASSUME KillInv, SameOwners, \A c \in Calls : GoesOn(c)
  PROVE  CgroupsAccountedFor' /\ DirInv'
<1>1. CgroupsAccountedFor'
  <2> SUFFICES ASSUME NEW cl \in Clients, NEW j \in Jobs, <<cl, j>> \in cgroups', j \notin jobs
               PROVE  \E c \in Calls : /\ op'[c] = "Start" /\ who'[c] = cl /\ target'[c] = j
                                       /\ pc'[c] \in Made
    BY DEF KillInv, CgroupsAccountedFor, SameOwners, Made
  <2>1. PICK c \in Calls : op[c] = "Start" /\ who[c] = cl /\ target[c] = j /\ pc[c] \in Made
    BY DEF KillInv, CgroupsAccountedFor, SameOwners, Made
  <2> QED BY <2>1 DEF GoesOn, SameArgs
<1>2. DirInv'
  <2>1. \A cl \in Clients, j \in Jobs : <<cl, j>> \in cgroups' => j \in issued'
    BY DEF KillInv, DirInv, SameOwners
  <2>2. ASSUME NEW c \in Calls, pc'[c] \in Starting PROVE DirOfStart(c)'
    <3>1. pc[c] \in Starting /\ SameArgs(c) /\ (pc[c] \in Made => pc'[c] \in Made)
      BY <2>2 DEF GoesOn
    <3>2. /\ op[c] = "Start"
          /\ \A cl \in Clients : <<cl, target[c]>> \in cgroups => cl = who[c] /\ pc[c] \in Made
      BY <3>1 DEF KillInv, DirInv, DirOfStart
    <3> QED BY <3>1, <3>2 DEF DirOfStart, SameArgs, SameOwners
  <2> QED BY <2>1, <2>2 DEF DirInv, DirOfStart
<1> QED BY <1>1, <1>2

\* A step that does no harm keeps the account of kills as well.
LEMMA HarmlessKeeps ==
  ASSUME KillInv, Harmless, \A c \in Calls : GoesOn(c)
  PROVE  KillInv'
<1> USE DEF Harmless
<1>1. CgroupsAccountedFor' /\ DirInv'
  BY AccountKept
<1>2. \A j \in Jobs : killed'[j] => j \in jobs'
  BY DEF KillInv, SameOwners
<1>3. OnlyOwnerKills'
  <2> SUFFICES ASSUME NEW j \in Jobs, killed'[j], proc'[j] = "running"
               PROVE  \E c \in Calls : /\ op'[c] = "Stop" /\ pc'[c] = "poll" /\ target'[c] = j
                                       /\ who'[c] = job'[j].ClientName
    BY DEF OnlyOwnerKills
  <2>1. j \in jobs /\ killed[j] /\ proc[j] = "running"
    BY DEF KillInv, SameOwners
  <2>2. PICK c \in Calls : /\ op[c] = "Stop" /\ pc[c] = "poll" /\ target[c] = j
                           /\ who[c] = job[j].ClientName
    BY <2>1 DEF KillInv, OnlyOwnerKills
  <2>3. pc'[c] = "poll" /\ SameArgs(c)
    BY <2>1, <2>2 DEF GoesOn
  <2> QED BY <2>1, <2>2, <2>3 DEF SameArgs, SameOwners
<1> QED BY <1>1, <1>2, <1>3 DEF KillInv

\* A call that the step does not move stands still.
LEMMA StandsStill ==
  ASSUME NEW c \in Calls, pc'[c] = pc[c], SameArgs(c)
  PROVE  GoesOn(c)
  BY DEF GoesOn

-----------------------------------------------------------------------------
(* Calls of Start                                                          *)

\* Status and Stop begin with an ID that means nothing to them yet.
LEMMA OthersBegin ==
  ASSUME IInv, KillInv, NEW c \in Calls, Status(c) \/ Stop(c)
  PROVE  KillInv'
<1>1. pc[c] = "idle" /\ UNCHANGED <<cgroups, jobs, issued, job, killed, proc>>
  BY DEF Status, Stop
<1>2. PICK l \in {"err", "find"} : Goto(c, l)
  BY DEF Status, Stop
<1>3. MovesCall(c, l)
  BY <1>2, GotoCall DEF IInv, CallLabels
<1>4. \A d \in Calls : d # c => SameArgs(d)
  BY DEF Status, Stop, SameArgs, IInv, TypeOK, CallsOK
<1>5. \A d \in Calls : GoesOn(d)
  <2>1. GoesOn(c)
    BY <1>1, <1>3 DEF GoesOn, MovesCall, Starting, Made
  <2>2. \A d \in Calls : d # c => GoesOn(d)
    BY <1>3, <1>4, StandsStill DEF MovesCall
  <2> QED BY <2>1, <2>2
<1>6. Harmless
  BY <1>1 DEF Harmless, SameOwners
<1> QED BY <1>5, <1>6, HarmlessKeeps

\* The ID that Start draws is not that of any directory.
LEMMA StartBegins ==
  ASSUME IInv, KillInv, NEW c \in Calls, Start(c)
  PROVE  KillInv'
<1>1. pc[c] = "idle" /\ UNCHANGED <<cgroups, jobs, job, killed, proc>>
  BY DEF Start
<1>2. /\ op'[c] = "Start" /\ issued \subseteq issued'
      /\ \A d \in Calls : d # c => SameArgs(d)
  BY DEF Start, SameArgs, IInv, TypeOK, CallsOK
<1>3. PICK l \in {"err", "st_cgroup"} : Goto(c, l) /\ (l = "st_cgroup" => target'[c] \notin issued)
  BY DEF Start, IInv, TypeOK, CallsOK
<1>4. MovesCall(c, l)
  BY <1>3, GotoCall DEF IInv, CallLabels
<1>5. CgroupsAccountedFor'
  <2> SUFFICES ASSUME NEW cl \in Clients, NEW j \in Jobs, <<cl, j>> \in cgroups, j \notin jobs
               PROVE  \E d \in Calls : /\ op'[d] = "Start" /\ who'[d] = cl /\ target'[d] = j
                                       /\ pc'[d] \in Made
    BY <1>1 DEF KillInv, CgroupsAccountedFor, Made
  <2>1. PICK d \in Calls : op[d] = "Start" /\ who[d] = cl /\ target[d] = j /\ pc[d] \in Made
    BY DEF KillInv, CgroupsAccountedFor, Made
  <2>2. d # c
    BY <1>1, <2>1 DEF Made
  <2> QED BY <1>2, <1>4, <2>1, <2>2 DEF MovesCall, SameArgs
<1>6. DirInv'
  <2>1. \A cl \in Clients, j \in Jobs : <<cl, j>> \in cgroups' => j \in issued'
    BY <1>1, <1>2 DEF KillInv, DirInv
  <2>2. ASSUME NEW d \in Calls PROVE DirOfStart(d)'
    <3>1. CASE d = c
      <4>1. \A cl \in Clients, j \in Jobs : <<cl, j>> \in cgroups => j \in issued
        BY DEF KillInv, DirInv
      <4>2. target'[c] \in Jobs \/ l # "st_cgroup"
        BY <1>1, <1>2, <1>3, <1>4, BeginInv DEF IInv, ArgInv, ArgOf, MovesCall, Starting, TypeOK, TableOK
      <4> QED BY <1>1, <1>2, <1>3, <1>4, <3>1, <4>1, <4>2 DEF DirOfStart, MovesCall, Starting
    <3>2. CASE d # c
      BY <1>1, <1>2, <1>4, <3>2 DEF KillInv, DirInv, DirOfStart, MovesCall, SameArgs
    <3> QED BY <3>1, <3>2
  <2> QED BY <2>1, <2>2 DEF DirInv
<1>7. OnlyOwnerKills'
  <2> SUFFICES ASSUME NEW j \in Jobs, killed[j], proc[j] = "running"
               PROVE  \E d \in Calls : /\ op'[d] = "Stop" /\ pc'[d] = "poll" /\ target'[d] = j
                                       /\ who'[d] = job[j].ClientName
    BY <1>1 DEF OnlyOwnerKills
  <2>1. PICK d \in Calls : /\ op[d] = "Stop" /\ pc[d] = "poll" /\ target[d] = j
                           /\ who[d] = job[j].ClientName
    BY DEF KillInv, OnlyOwnerKills
  <2>2. d # c
    BY <1>1, <2>1
  <2> QED BY <1>2, <1>4, <2>1, <2>2 DEF MovesCall, SameArgs
<1> QED BY <1>1, <1>5, <1>6, <1>7 DEF KillInv

\* A new directory is in the name of its maker, and the only one with its ID.
LEMMA DirectoryMade ==
  ASSUME IInv, KillInv, NEW c \in Calls, createJobCgroup(c)
  PROVE  KillInv'
<1>1. /\ pc[c] = "st_cgroup"
      /\ UNCHANGED <<op, who, target, jobs, issued, job, killed, proc>>
      /\ cgroups' \subseteq cgroups \cup {<<who[c], target[c]>>}
  BY Dirs DEF createJobCgroup
<1>2. /\ who[c] \in Clients /\ target[c] \in Jobs /\ target[c] \in issued
      /\ target[c] \notin jobs /\ op[c] = "Start"
      /\ \A cl \in Clients : <<cl, target[c]>> \notin cgroups
  BY <1>1 DEF IInv, ArgInv, ArgOf, Starting, TypeOK, TableOK, KillInv, DirInv, DirOfStart, Made
<1>3. PICK l \in {"err", "st_file"} : Goto(c, l)
  BY DEF createJobCgroup
<1>4. MovesCall(c, l) /\ pc'[c] \in Made
  <2>1. MovesCall(c, l)
    BY <1>3, GotoCall DEF IInv, CallLabels
  <2> QED BY <2>1 DEF MovesCall, Made
<1>5. CgroupsAccountedFor'
  <2> SUFFICES ASSUME NEW cl \in Clients, NEW j \in Jobs, <<cl, j>> \in cgroups'
               PROVE  \/ j \in jobs /\ job[j].ClientName = cl
                      \/ /\ j \notin jobs
                         /\ \E d \in Calls : /\ op[d] = "Start" /\ who[d] = cl /\ target[d] = j
                                             /\ pc'[d] \in Made
    BY <1>1 DEF CgroupsAccountedFor, Made
  <2>1. CASE <<cl, j>> \in cgroups
    <3>1. CASE j \in jobs
      BY <2>1, <3>1 DEF KillInv, CgroupsAccountedFor
    <3>2. CASE j \notin jobs
      <4>1. PICK d \in Calls : op[d] = "Start" /\ who[d] = cl /\ target[d] = j /\ pc[d] \in Made
        BY <2>1, <3>2 DEF KillInv, CgroupsAccountedFor, Made
      <4>2. pc'[d] \in Made
        BY <1>4, <4>1 DEF MovesCall
      <4> QED BY <3>2, <4>1, <4>2
    <3> QED BY <3>1, <3>2
  <2>2. CASE <<cl, j>> = <<who[c], target[c]>>
    BY <1>2, <1>4, <2>2
  <2> QED BY <1>1, <2>1, <2>2
<1>6. DirInv'
  <2>1. \A cl \in Clients, j \in Jobs : <<cl, j>> \in cgroups' => j \in issued'
    BY <1>1, <1>2 DEF KillInv, DirInv
  <2>2. ASSUME NEW d \in Calls PROVE DirOfStart(d)'
    <3>1. CASE d = c
      BY <1>1, <1>2, <1>4, <3>1 DEF DirOfStart
    <3>2. CASE d # c
      <4>1. pc[d] \in Starting => target[d] # target[c]
        BY <1>1, <3>2 DEF IInv, FreshInv, Starting
      <4> QED BY <1>1, <1>4, <3>2, <4>1 DEF KillInv, DirInv, DirOfStart, MovesCall
    <3> QED BY <3>1, <3>2
  <2> QED BY <2>1, <2>2 DEF DirInv
<1>7. OnlyOwnerKills'
  BY <1>1, <1>4 DEF KillInv, OnlyOwnerKills, MovesCall
<1> QED BY <1>1, <1>5, <1>6, <1>7 DEF KillInv

\* The output file and the launch; the process that is launched is in no table yet.
LEMMA FileAndLaunch ==
  ASSUME IInv, KillInv, NEW c \in Calls, StartCreateFile(c) \/ StartExec(c)
  PROVE  KillInv'
<1>1. /\ pc[c] \in {"st_file", "st_exec"}
      /\ UNCHANGED <<op, who, target, cgroups, jobs, issued, job, killed>>
      /\ proc' = proc \/ proc' = [proc EXCEPT ![target[c]] = "running"]
  BY DEF StartCreateFile, StartExec
<1>2. PICK l \in {"err", "st_exec", "st_register"} : Goto(c, l)
  BY DEF StartCreateFile, StartExec
<1>3. MovesCall(c, l)
  BY <1>2, GotoCall DEF IInv, CallLabels
<1>4. \A d \in Calls : GoesOn(d)
  <2>1. GoesOn(c)
    BY <1>1, <1>3 DEF GoesOn, MovesCall, SameArgs, Starting, Made
  <2>2. \A d \in Calls : d # c => GoesOn(d)
    BY <1>1, <1>3, StandsStill DEF MovesCall, SameArgs
  <2> QED BY <2>1, <2>2
<1>5. Harmless
  <2>1. target[c] \notin jobs /\ jobs \subseteq Jobs
    BY <1>1 DEF IInv, ArgInv, ArgOf, Starting, TypeOK, TableOK
  <2>2. \A j \in jobs : proc'[j] = proc[j]
    BY <1>1, <2>1 DEF IInv, TypeOK, KernelOK
  <2> QED BY <1>1, <2>2 DEF Harmless, SameOwners
<1> QED BY <1>4, <1>5, HarmlessKeeps

\* The job is registered under the client in whose directory its own is.
LEMMA RegisteredWhereItIs ==
  ASSUME IInv, KillInv, NEW c \in Calls, StartRegister(c)
  PROVE  KillInv'
<1> DEFINE i == target[c]
<1>1. /\ pc[c] = "st_register" /\ i \in Jobs /\ i \notin jobs /\ who[c] \in Clients
      /\ UNCHANGED <<op, who, target, cgroups, issued, killed, proc>>
      /\ jobs' = jobs \cup {i}
  BY DEF StartRegister, IInv, ArgInv, ArgOf, Starting, TypeOK, TableOK
<1>2. /\ job'[i].ClientName = who[c]
      /\ \A j \in Jobs : j # i => job'[j] = job[j]
  BY <1>1 DEF StartRegister, ZeroJob, IInv, TypeOK, TableOK
<1>3. /\ pc'[c] = "ok"
      /\ \A d \in Calls : d # c => pc'[d] = pc[d]
  BY <1>1, ConstantsAssumption DEF StartRegister, IInv, TypeOK, LabelsOK, Threads
<1>4. \A cl \in Clients : <<cl, i>> \in cgroups => cl = who[c]
  BY <1>1 DEF KillInv, DirInv, DirOfStart, Starting
<1> HIDE DEF i
<1>5. CgroupsAccountedFor'
  <2> SUFFICES ASSUME NEW cl \in Clients, NEW j \in Jobs, <<cl, j>> \in cgroups
               PROVE  \/ j \in jobs' /\ job'[j].ClientName = cl
                      \/ /\ j \notin jobs'
                         /\ \E d \in Calls : /\ op[d] = "Start" /\ who[d] = cl /\ target[d] = j
                                             /\ pc'[d] \in Made
    BY <1>1 DEF CgroupsAccountedFor, Made
  <2>1. CASE j = i
    BY <1>1, <1>2, <1>4, <2>1
  <2>2. CASE j # i /\ j \in jobs
    BY <1>1, <1>2, <2>2 DEF KillInv, CgroupsAccountedFor
  <2>3. CASE j # i /\ j \notin jobs
    <3>1. PICK d \in Calls : op[d] = "Start" /\ who[d] = cl /\ target[d] = j /\ pc[d] \in Made
      BY <2>3 DEF KillInv, CgroupsAccountedFor, Made
    <3>2. d # c
      BY <2>3, <3>1 DEF i
    <3> QED BY <1>1, <1>3, <2>3, <3>1, <3>2
  <2> QED BY <2>1, <2>2, <2>3
<1>6. DirInv'
  <2>1. \A cl \in Clients, j \in Jobs : <<cl, j>> \in cgroups' => j \in issued'
    BY <1>1 DEF KillInv, DirInv
  <2>2. \A d \in Calls : DirOfStart(d)'
    BY <1>1, <1>3 DEF KillInv, DirInv, DirOfStart, Starting
  <2> QED BY <2>1, <2>2 DEF DirInv
<1>7. \A j \in Jobs : killed[j] => j \in jobs
  BY DEF KillInv
<1>8. OnlyOwnerKills'
  <2> SUFFICES ASSUME NEW j \in Jobs, killed[j], proc[j] = "running"
               PROVE  \E d \in Calls : /\ op[d] = "Stop" /\ pc'[d] = "poll" /\ target[d] = j
                                       /\ who[d] = job'[j].ClientName
    BY <1>1 DEF OnlyOwnerKills
  <2>1. PICK d \in Calls : /\ op[d] = "Stop" /\ pc[d] = "poll" /\ target[d] = j
                           /\ who[d] = job[j].ClientName
    BY DEF KillInv, OnlyOwnerKills
  <2>2. d # c /\ job'[j] = job[j]
    BY <1>1, <1>2, <1>7, <2>1
  <2> QED BY <1>3, <2>1, <2>2
<1> QED BY <1>1, <1>5, <1>6, <1>7, <1>8 DEF KillInv

-----------------------------------------------------------------------------
(* Stop, Status, the wait goroutine and the kernel                         *)

\* Outside the cgroup functions a call of Stop or Status does no harm, and it stops
\* polling when the process is gone.
LEMMA StopHarmless ==
  ASSUME IInv, KillInv, NEW c \in Calls, StopStep(c)
  PROVE  KillInv'
<1>1. /\ pc[c] \in {"find", "copy", "sp_lock", "poll", "sp_finish"}
      /\ UNCHANGED <<op, who, target, cgroups, jobs, issued, killed, proc>>
      /\ pc[c] = "poll" => proc[target[c]] # "running"
  BY DEF StopStep, findJobByJobID, deepCopyJobFromPointer, StopLock, StopPoll, ProcessGone, StopFinish
<1>2. PICK l \in {"err", "ok", "copy", "sp_lock", "kill_open", "rm_open"} : Goto(c, l)
  BY DEF StopStep, findJobByJobID, deepCopyJobFromPointer, StopLock, StopPoll, StopFinish
<1>3. MovesCall(c, l)
  BY <1>2, GotoCall DEF IInv, CallLabels, RemoveLabels
<1>4. \A d \in Calls : GoesOn(d)
  <2>1. GoesOn(c)
    BY <1>1, <1>3 DEF GoesOn, MovesCall, Starting, Made
  <2>2. \A d \in Calls : d # c => GoesOn(d)
    BY <1>1, <1>3, StandsStill DEF MovesCall, SameArgs
  <2> QED BY <2>1, <2>2
<1>5. \A j \in jobs : job'[j].ClientName = job[j].ClientName
  <2>1. CASE StopFinish(c)
    <3>1. /\ job' = [job EXCEPT ![target[c]] = Stopped(job[target[c]])]
          /\ job \in [Jobs -> Job] /\ jobs \subseteq Jobs
      BY <2>1 DEF StopFinish, IInv, TypeOK, TableOK
    <3>2. \A j \in Jobs : Stopped(job[j]).ClientName = job[j].ClientName
      BY <3>1, StoppedFacts
    <3> QED BY <3>1, <3>2
  <2>2. CASE job' = job
    BY <2>2
  <2> QED BY <2>1, <2>2 DEF StopStep, findJobByJobID, deepCopyJobFromPointer, StopLock, StopPoll
<1>6. Harmless
  BY <1>1, <1>5 DEF Harmless, SameOwners
<1> QED BY <1>4, <1>6, HarmlessKeeps

\* The wait goroutine's own steps, and what processes do by themselves.
LEMMA WaiterAndKernelHarmless ==
  ASSUME IInv, KillInv, NEW j \in Jobs, Waiter(j) \/ Kernel(j)
  PROVE  KillInv'
<1>1. UNCHANGED <<op, who, target, cgroups, jobs, issued, killed>>
  BY DEF Waiter, Kernel, WaiterReap, WaiterUpdate, ProcessExit, ChildFork, ChildrenExit
<1>2. \A c \in Calls : pc'[c] = pc[c]
  <2>1. CASE \E l \in {"rm_open", "finished"} : Goto(j, l)
    <3>1. PICK l \in {"rm_open", "finished"} : Goto(j, l)
      BY <2>1
    <3> QED BY <3>1, GotoWaiter DEF IInv, WaiterLabels, RemoveLabels, MovesWaiter
  <2>2. CASE pc' = pc
    BY <2>2
  <2> QED BY <2>1, <2>2 DEF Waiter, Kernel, WaiterReap, WaiterUpdate, ProcessExit, ChildFork, ChildrenExit
<1>3. \A c \in Calls : GoesOn(c)
  BY <1>1, <1>2, StandsStill DEF SameArgs
<1>4. job \in [Jobs -> Job] /\ jobs \subseteq Jobs
  BY DEF IInv, TypeOK, TableOK
<1>5. \A i \in jobs : job'[i].ClientName = job[i].ClientName
  <2>1. CASE WaiterUpdate(j)
    <3>1. job' = [job EXCEPT ![j] = Updated(j)]
      BY <2>1 DEF WaiterUpdate
    <3>2. job[j] \in Job /\ wstatus[j] \in ExitCodes \cup {-1, 0}
      BY <1>4 DEF IInv, TypeOK, KernelOK
    <3>3. Updated(j).ClientName = job[j].ClientName
      BY <3>2, UpdatedFacts
    <3> QED BY <1>4, <3>1, <3>3
  <2>2. CASE job' = job
    BY <2>2
  <2> QED BY <2>1, <2>2 DEF Waiter, Kernel, WaiterReap, ProcessExit, ChildFork, ChildrenExit
<1>6. \A i \in Jobs : proc'[i] = "running" => proc[i] = "running"
  BY DEF Waiter, Kernel, WaiterReap, WaiterUpdate, ProcessExit, ChildFork, ChildrenExit, IInv, TypeOK, KernelOK
<1>7. Harmless
  BY <1>1, <1>4, <1>5, <1>6 DEF Harmless, SameOwners
<1> QED BY <1>3, <1>7, HarmlessKeeps

-----------------------------------------------------------------------------
(* terminateJob and removeJobCgroup, by either caller                      *)

\* The cgroup functions make no directory and touch neither table nor arguments.
LEMMA CgroupFrame ==
  ASSUME IInv, NEW t \in Threads, CgroupStep(t)
  PROVE  /\ SameOwners /\ UNCHANGED <<op, who, target, job, jobs, proc>>
         /\ \A c \in Calls : GoesOn(c) /\ (c # t => pc'[c] = pc[c])
<1>1. SameOwners /\ UNCHANGED <<op, who, target, job, jobs, proc>>
  BY DEF CgroupStep, KillFileOpen, KillFileWrite, RemoveStat, RemoveRmdir, SameOwners
<1>2. PICK l : Goto(t, l) /\ l \in {"kill_write", "poll", "sp_finish", "err", "update", "update_rmerr"} \cup RemoveLabels
  BY DEF CgroupStep, KillFileOpen, KillFileWrite, RemoveStat, RemoveRmdir, CgroupError, CgroupRemoved, RemoveLabels
<1>3. /\ pc' = [pc EXCEPT ![t] = l] /\ t \in DOMAIN pc /\ Calls \subseteq DOMAIN pc
      /\ pc[t] \in {"kill_open", "kill_write"} \cup RemoveLabels
  BY <1>2 DEF IInv, TypeOK, LabelsOK, Threads, Goto, CgroupStep, KillFileOpen, KillFileWrite, RemoveStat, RemoveRmdir, RemoveLabels
<1>4. \A c \in Calls : c # t => pc'[c] = pc[c]
  BY <1>3
<1>5. ASSUME NEW c \in Calls PROVE GoesOn(c)
  <2>1. CASE c = t
    <3>1. l \notin Starting /\ pc[c] \notin Made \cup {"poll"} /\ pc'[c] = l
      BY <1>2, <1>3, <2>1 DEF Starting, Made, RemoveLabels
    <3> QED BY <3>1 DEF GoesOn
  <2>2. CASE c # t
    BY <1>1, <1>4, <2>2, StandsStill DEF SameArgs
  <2> QED BY <2>1, <2>2
<1> QED BY <1>1, <1>4, <1>5

\* The job whose kill file a thread writes is registered.  If its process still runs,
\* then the writer is Stop, about to poll, and by CgroupsAccountedFor it has found the
\* kill file because the job is its own client's.
LEMMA WriterOwns ==
  ASSUME IInv, KillInv, NEW t \in Threads, KillFileWrite(t), JobDir(t) \in cgroups
  PROVE  /\ JobOf(t) \in jobs
         /\ proc[JobOf(t)] = "running" =>
              /\ t \in Calls /\ op[t] = "Stop" /\ target[t] = JobOf(t)
              /\ who[t] = job[JobOf(t)].ClientName /\ pc'[t] = "poll"
<1>0. pc[t] \in {"kill_write", "rm_write"}
  BY DEF KillFileWrite
<1>1. CASE t \in Jobs
  <2>1. JobOf(t) = t /\ pc[t] = "rm_write"
    BY <1>0, <1>1 DEF JobOf, IInv, TypeOK, LabelsOK, WaiterLabels, RemoveLabels
  <2>2. t \in jobs /\ proc[t] = "reaped"
    BY <1>1, <2>1 DEF IInv, TableInv, TableOf, ProcInv, ProcOfJob
  <2> QED BY <2>1, <2>2
<1>2. CASE t \in Calls
  <2>1. JobOf(t) = target[t] /\ JobDir(t) = <<who[t], target[t]>>
    BY <1>2, Dirs, ConstantsAssumption DEF JobOf
  <2>2. target[t] \in jobs /\ target[t] \in Jobs /\ op[t] = "Stop"
    BY <1>0, <1>2 DEF IInv, ArgInv, ArgOf, Holding, RemoveLabels, TypeOK, TableOK
  <2>3. ASSUME proc[target[t]] = "running"
        PROVE  who[t] = job[target[t]].ClientName /\ pc'[t] = "poll"
    <3>1. pc[t] = "kill_write"
      BY <1>0, <1>2, <2>3 DEF IInv, ProcInv, ProcOfCall, RemoveLabels
    <3>2. pc' = [pc EXCEPT ![t] = "poll"]
      BY <3>1 DEF KillFileWrite, Goto
    <3>3. pc'[t] = "poll"
      BY <3>2 DEF IInv, TypeOK, LabelsOK
    <3>4. <<who[t], target[t]>> \in cgroups /\ who[t] \in Clients
      BY <2>1 DEF IInv, TypeOK, KernelOK
    <3> QED BY <2>2, <3>3, <3>4 DEF KillInv, CgroupsAccountedFor
  <2> QED BY <1>2, <2>1, <2>2, <2>3
<1> QED BY <1>1, <1>2 DEF Threads

\* A write to a kill file is the owner's, or comes when the process has been reaped.
LEMMA KillWritten ==
  ASSUME IInv, KillInv, NEW t \in Threads, KillFileWrite(t), JobDir(t) \in cgroups
  PROVE  KillInv'
<1> DEFINE i == JobOf(t)
<1>1. /\ SameOwners /\ UNCHANGED <<op, who, target, job, jobs, proc>>
      /\ \A c \in Calls : GoesOn(c) /\ (c # t => pc'[c] = pc[c])
  BY CgroupFrame DEF CgroupStep
<1>2. /\ i \in jobs
      /\ proc[i] = "running" =>
              /\ t \in Calls /\ op[t] = "Stop" /\ target[t] = i
              /\ who[t] = job[i].ClientName /\ pc'[t] = "poll"
  BY WriterOwns
<1>3. killed' = [killed EXCEPT ![i] = TRUE] /\ pc[t] # "poll"
  BY DEF KillFileWrite, Kill
<1> HIDE DEF i
<1>4. \A j \in Jobs : killed'[j] => killed[j] \/ j = i
  BY <1>3 DEF IInv, TypeOK, KernelOK
<1>5. \A j \in Jobs : killed'[j] => j \in jobs'
  BY <1>1, <1>2, <1>4 DEF KillInv
<1>6. OnlyOwnerKills'
  <2> SUFFICES ASSUME NEW j \in Jobs, killed'[j], proc[j] = "running"
               PROVE  \E c \in Calls : /\ op[c] = "Stop" /\ pc'[c] = "poll" /\ target[c] = j
                                       /\ who[c] = job[j].ClientName
    BY <1>1 DEF OnlyOwnerKills
  <2>1. CASE j = i
    BY <1>2, <2>1
  <2>2. CASE killed[j]
    <3>1. PICK c \in Calls : /\ op[c] = "Stop" /\ pc[c] = "poll" /\ target[c] = j
                             /\ who[c] = job[j].ClientName
      BY <2>2 DEF KillInv, OnlyOwnerKills
    <3> QED BY <1>1, <1>3, <3>1
  <2> QED BY <1>4, <2>1, <2>2
<1> QED BY <1>1, <1>5, <1>6, AccountKept DEF KillInv

\* Every step of the cgroup functions.
LEMMA CgroupKills ==
  ASSUME IInv, KillInv, NEW t \in Threads, CgroupStep(t)
  PROVE  KillInv'
<1>1. CASE KillFileWrite(t) /\ JobDir(t) \in cgroups
  BY <1>1, KillWritten
<1>2. CASE killed' = killed
  <2>1. Harmless /\ \A c \in Calls : GoesOn(c)
    BY <1>2, CgroupFrame DEF Harmless
  <2> QED BY <2>1, HarmlessKeeps
<1> QED BY <1>1, <1>2 DEF CgroupStep, KillFileOpen, KillFileWrite, RemoveStat, RemoveRmdir

-----------------------------------------------------------------------------
(* The invariant and what follows from it                                  *)

LEMMA InitKill == Init => KillInv
<1> SUFFICES ASSUME Init PROVE KillInv
  OBVIOUS
<1>1. /\ \A c \in Calls : pc[c] = "idle"
      /\ cgroups = {} /\ \A j \in Jobs : ~killed[j]
  BY DEF Init, Threads
<1> QED BY <1>1 DEF KillInv, CgroupsAccountedFor, DirInv, DirOfStart, Starting, OnlyOwnerKills

LEMMA StutterKill == ASSUME KillInv, UNCHANGED vars PROVE KillInv'
<1>1. UNCHANGED <<pc, op, who, target, jobs, issued, job, cgroups, proc, killed>>
  BY DEF vars
<1>2. Harmless /\ \A c \in Calls : GoesOn(c)
  BY <1>1 DEF Harmless, SameOwners, GoesOn, SameArgs
<1> QED BY <1>2, HarmlessKeeps

LEMMA NextKill == IInv /\ KillInv /\ [Next]_vars => KillInv'
<1> SUFFICES ASSUME IInv, KillInv, [Next]_vars PROVE KillInv'
  OBVIOUS
<1>1. ASSUME NEW c \in Calls, Call(c) PROVE KillInv'
  BY <1>1, StartBegins, OthersBegin, DirectoryMade, FileAndLaunch, RegisteredWhereItIs, StopHarmless
  DEF Call, StartStep
<1>2. ASSUME NEW j \in Jobs, Waiter(j) \/ Kernel(j) PROVE KillInv'
  BY <1>2, WaiterAndKernelHarmless
<1>3. ASSUME NEW t \in Threads, CgroupStep(t) PROVE KillInv'
  BY <1>3, CgroupKills
<1>4. CASE AllOver \/ UNCHANGED vars
  BY <1>4, StutterKill DEF AllOver
<1> QED BY <1>1, <1>2, <1>3, <1>4 DEF Next

LEMMA KillInvariance == Spec => []KillInv
  BY InitKill, NextKill, Invariance, PTL DEF Spec

\* A process that still runs is killed through its cgroup only by Stop of its own
\* client, which then polls for it.
THEOREM OwnersKill == Spec => []OnlyOwnerKills
<1>1. KillInv => OnlyOwnerKills
  BY DEF KillInv
<1> QED BY <1>1, KillInvariance, PTL

\* Every job cgroup belongs to a registered job of the client in whose directory it
\* lies, or to a Start under way or failed.
THEOREM CgroupsAccounted == Spec => []CgroupsAccountedFor
<1>1. KillInv => CgroupsAccountedFor
  BY DEF KillInv
<1> QED BY <1>1, KillInvariance, PTL
==============================================================================

-------------------------- MODULE JobsLibStopProofs --------------------------
(* Theorems about Stop's critical section in JobsLib (jobslib.go Stop): what *)
(* it knows of the job and of the process while it keeps mu locked, for any  *)
(* clients, jobs, calls and exit codes.                                      *)
EXTENDS JobsLibProofs

USE DEF callVars, tableVars, kernelVars

\* Before Stop takes mu its copy may be stale, but then the job is over and Stop
\* returns; past the lock nobody else writes the job.
CopyKnown(c) ==
    /\ pc[c] \in Holding => retval[c] = job[target[c]]
    /\ pc[c] = "sp_lock" => \/ retval[c] = job[target[c]]
                            \/ job[target[c]].State \in Terminal

\* The job's own client has written the kill file, unless it was gone with the
\* processes.
KillKnown(c) ==
    pc[c] = "poll" /\ job[target[c]].ClientName = who[c]
        => (proc[target[c]] = "running" => killed[target[c]])

\* A Stop that has come to ok, through its critical section or past it, has an
\* ended job, and a copy of it from some time after it was registered.
AnswerKnown(c) ==
    /\ pc[c] \in Starting => op[c] = "Start"
    /\ pc[c] = "sp_lock" => retval[c].State # "Unspecified"
    /\ pc[c] = "ok" /\ op[c] = "Stop" => /\ target[c] \in jobs
                                         /\ job[target[c]].State \in Terminal
                                         /\ retval[c].State # "Unspecified"

StopOf(c) == CopyKnown(c) /\ KillKnown(c) /\ AnswerKnown(c)

StopInv == \A c \in Calls : StopOf(c)

\* The call c does not take part in the step.
Aside(c) == /\ pc'[c] = pc[c] /\ op'[c] = op[c] /\ who'[c] = who[c]
            /\ target'[c] = target[c] /\ retval'[c] = retval[c]

\* What the step may do to registered jobs: end them while nobody else holds mu.
Undisturbed(c) ==
    /\ jobs \subseteq jobs'
    /\ \A i \in jobs : /\ \/ job'[i] = job[i]
                          \/ mu # {c} /\ job'[i].State \in Terminal
                       /\ killed[i] => killed'[i]
                       /\ proc'[i] = "running" => proc[i] = "running"

\* A call that stands aside knows afterwards what it knew before.
LEMMA AsideKeeps ==
  ASSUME IInv, NEW c \in Calls, StopOf(c), Aside(c), Undisturbed(c)
  PROVE  StopOf(c)'
<1>1. AnswerKnown(c)'
  BY DEF StopOf, AnswerKnown, Aside, Undisturbed
<1>2. CASE pc[c] \in Holding
  <2>1. target[c] \in jobs /\ mu = {c}
    BY <1>2 DEF IInv, ArgInv, ArgOf, LockInv
  <2> QED BY <1>1, <1>2, <2>1 DEF StopOf, CopyKnown, KillKnown, Aside, Undisturbed, Holding, RemoveLabels
<1>3. CASE pc[c] = "sp_lock"
  <2>1. target[c] \in jobs
    BY <1>3 DEF IInv, ArgInv, ArgOf
  <2> QED BY <1>1, <1>3, <2>1 DEF StopOf, CopyKnown, KillKnown, Aside, Undisturbed, Holding, RemoveLabels
<1> QED BY <1>1, <1>2, <1>3 DEF StopOf, CopyKnown, KillKnown, Aside, Holding

\* A call outside Stop's second half has nothing else to know.
LEMMA Outside ==
  ASSUME NEW c \in Calls, pc'[c] \notin Holding \cup {"sp_lock"}, AnswerKnown(c)'
  PROVE  StopOf(c)'
  BY DEF StopOf, CopyKnown, KillKnown, Holding

\* Nobody knows anything in an empty library.
LEMMA InitStop == Init => StopInv
<1> SUFFICES ASSUME Init, NEW c \in Calls PROVE StopOf(c)
  BY DEF StopInv
<1>1. pc[c] = "idle"
  BY ConstantsAssumption DEF Init, Threads
<1>2. op[c] = "none"
  BY DEF Init
<1> QED BY <1>1, <1>2 DEF StopOf, CopyKnown, KillKnown, AnswerKnown, Starting, Holding, RemoveLabels

\* The steps of a call of Start, and the beginning of any call.
LEMMA StartKeepsStop ==
  ASSUME IInv, StopInv, NEW c \in Calls, Start(c) \/ Status(c) \/ Stop(c) \/ StartStep(c)
  PROVE  StopInv'
<1>0. TypeOK
  BY DEF IInv
<1>1. pc'[c] \notin Holding \cup {"sp_lock"} /\ \A d \in Calls \ {c} : pc'[d] = pc[d]
  <2>1. CASE StartRegister(c)
    <3>1. target[c] \in Jobs
      BY <1>0, <2>1 DEF StartRegister, IInv, ArgInv, ArgOf, Starting, TypeOK, TableOK
    <3> QED BY <1>0, <2>1, <3>1, ConstantsAssumption DEF TypeOK, LabelsOK, Threads, StartRegister, Holding, RemoveLabels
  <2>2. CASE ~StartRegister(c)
    BY <1>0, <2>2, ConstantsAssumption DEF TypeOK, LabelsOK, Threads, Start, Status, Stop, StartStep,
       createJobCgroup, StartCreateFile, StartExec, Goto, Holding, RemoveLabels
  <2> QED BY <2>1, <2>2
<1>2. \A d \in Calls \ {c} : Aside(d)
  BY <1>0, <1>1 DEF Aside, TypeOK, CallsOK, Start, Status, Stop, StartStep,
     createJobCgroup, StartCreateFile, StartExec, StartRegister
<1>3. ASSUME NEW i \in jobs
      PROVE  /\ job'[i] = job[i] /\ killed'[i] = killed[i]
             /\ proc'[i] = "running" => proc[i] = "running"
  <2>1. i \in Jobs
    BY <1>0 DEF TypeOK, TableOK
  <2>2. CASE UNCHANGED <<job, proc, killed>>
    BY <2>2
  <2>3. CASE StartExec(c)
    <3>1. target[c] # i
      BY <2>3 DEF StartExec, IInv, ArgInv, ArgOf, Starting
    <3> QED BY <1>0, <2>1, <2>3, <3>1 DEF StartExec, TypeOK, KernelOK
  <2>4. CASE StartRegister(c)
    <3>1. target[c] # i
      BY <2>4 DEF StartRegister, IInv, ArgInv, ArgOf, Starting
    <3> QED BY <1>0, <2>1, <2>4, <3>1 DEF StartRegister, TypeOK, TableOK
  <2> QED BY <2>2, <2>3, <2>4 DEF Start, Status, Stop, StartStep, createJobCgroup, StartCreateFile
<1>4. jobs \subseteq jobs'
  BY DEF Start, Status, Stop, StartStep, createJobCgroup, StartCreateFile, StartExec, StartRegister
<1>5. \A d \in Calls \ {c} : StopOf(d)'
  BY <1>2, <1>3, <1>4, AsideKeeps DEF StopInv, Undisturbed
<1>6. AnswerKnown(c)'
  <2>1. (pc'[c] # "sp_lock" /\ pc'[c] \notin Starting \cup {"ok"}) \/ op'[c] = "Start"
    <3>1. CASE Start(c)
      BY <1>0, <3>1 DEF Start, TypeOK, CallsOK
    <3>2. CASE Status(c) \/ Stop(c)
      BY <1>0, <3>2, ConstantsAssumption DEF Status, Stop, Goto, TypeOK, LabelsOK, Threads, Starting
    <3>3. CASE StartStep(c)
      BY <3>3 DEF StartStep, createJobCgroup, StartCreateFile, StartExec, StartRegister, StopInv,
         StopOf, AnswerKnown, Starting
    <3> QED BY <3>1, <3>2, <3>3
  <2> QED BY <1>1, <2>1 DEF AnswerKnown
<1> QED BY <1>1, <1>5, <1>6, Outside DEF StopInv

\* The steps of Stop and Status outside the cgroup functions.
LEMMA StopKeepsStop ==
  ASSUME IInv, StopInv, NEW c \in Calls, StopStep(c)
  PROVE  StopInv'
<1>0. TypeOK
  BY DEF IInv
<1>1. /\ \A d \in Calls \ {c} : Aside(d)
      /\ UNCHANGED <<op, who, target, killed, proc, jobs>>
  BY <1>0, ConstantsAssumption DEF TypeOK, LabelsOK, CallsOK, Threads, StopStep, findJobByJobID,
     deepCopyJobFromPointer, StopLock, StopPoll, StopFinish, Goto, Aside
<1>2. CASE StopFinish(c)
  <2>1. target[c] \in Jobs /\ job[target[c]] \in Job /\ mu = {c} /\ pc'[c] = "ok"
    BY <1>0, <1>2, ConstantsAssumption DEF StopFinish, IInv, ArgInv, ArgOf, LockInv, Holding, TypeOK,
       TableOK, LabelsOK, Threads, Goto
  <2>2. Stopped(job[target[c]]).State \in Terminal
    BY <2>1 DEF Stopped, Job, Terminal
  <2>3. \A i \in jobs : job'[i] = job[i] \/ job'[i].State \in Terminal
    BY <1>0, <1>2, <2>1, <2>2 DEF StopFinish, TypeOK, TableOK
  <2>4. \A d \in Calls \ {c} : Undisturbed(d)
    BY <1>1, <2>1, <2>3 DEF Undisturbed
  <2>5. \A d \in Calls \ {c} : StopOf(d)'
    BY <1>1, <2>4, AsideKeeps DEF StopInv
  <2>6. AnswerKnown(c)'
    <3>1. target[c] \in jobs /\ retval[c] \in Job
      BY <1>0, <1>2 DEF StopFinish, IInv, ArgInv, ArgOf, Holding, TypeOK, CallsOK
    <3>2. /\ job'[target[c]] = Stopped(job[target[c]])
          /\ retval'[c] = Stopped(retval[c])
      BY <1>0, <1>2, <2>1 DEF StopFinish, TypeOK, CallsOK, TableOK
    <3>3. Stopped(retval[c]).State = "TerminatedByAPI"
      BY <3>1 DEF Stopped, Job
    <3> QED BY <1>1, <2>1, <2>2, <3>1, <3>2, <3>3 DEF AnswerKnown, Starting
  <2> QED BY <2>1, <2>5, <2>6, Outside DEF StopInv, Holding, RemoveLabels
<1>3. CASE findJobByJobID(c) \/ deepCopyJobFromPointer(c) \/ StopLock(c) \/ StopPoll(c)
  <2>1. job' = job
    BY <1>3 DEF findJobByJobID, deepCopyJobFromPointer, StopLock, StopPoll
  <2>2. \A d \in Calls \ {c} : StopOf(d)'
    BY <1>1, <2>1, AsideKeeps DEF StopInv, Undisturbed
  <2>3. CASE findJobByJobID(c) \/ (deepCopyJobFromPointer(c) /\ pc'[c] # "sp_lock")
             \/ (StopLock(c) /\ pc'[c] # "kill_open")
    <3>1. pc'[c] \notin Holding \cup {"sp_lock"}
      BY <1>0, <2>3, ConstantsAssumption DEF TypeOK, LabelsOK, Threads, findJobByJobID,
         deepCopyJobFromPointer, StopLock, Goto, Holding, RemoveLabels
    <3>2. AnswerKnown(c)'
      <4>1. pc'[c] \notin Starting \cup {"sp_lock"}
        BY <1>0, <2>3, <3>1, ConstantsAssumption DEF TypeOK, LabelsOK, Threads, findJobByJobID,
           deepCopyJobFromPointer, StopLock, Goto, Starting
      <4>2. ASSUME pc'[c] = "ok", op'[c] = "Stop"
            PROVE  StopLock(c) /\ job[target[c]].State \in Terminal
        BY <1>0, <1>1, <2>3, <4>2, ConstantsAssumption DEF TypeOK, LabelsOK, Threads, findJobByJobID,
           deepCopyJobFromPointer, StopLock, Goto
      <4>3. StopLock(c) => /\ target[c] \in jobs /\ retval' = retval
                           /\ retval[c].State # "Unspecified"
        BY DEF StopLock, IInv, ArgInv, ArgOf, StopInv, StopOf, AnswerKnown
      <4> QED BY <1>1, <2>1, <4>1, <4>2, <4>3 DEF AnswerKnown
    <3> QED BY <2>2, <3>1, <3>2, Outside DEF StopInv
  <2>4. CASE deepCopyJobFromPointer(c) /\ pc'[c] = "sp_lock"
    <3>1. retval'[c] = job[target[c]]
      BY <1>0, <2>4, ConstantsAssumption DEF TypeOK, LabelsOK, CallsOK, Threads, deepCopyJobFromPointer, Goto
    <3>2. job[target[c]].State # "Unspecified"
      <4>1. target[c] \in jobs /\ target[c] \in Jobs
        BY <1>0, <2>4 DEF deepCopyJobFromPointer, IInv, ArgInv, ArgOf, TypeOK, TableOK
      <4> QED BY <4>1 DEF IInv, TableInv, TableOf
    <3>3. StopOf(c)'
      BY <1>1, <2>1, <2>4, <3>1, <3>2 DEF StopOf, CopyKnown, KillKnown, AnswerKnown, Starting, Holding, RemoveLabels
    <3> QED BY <2>2, <3>3 DEF StopInv
  <2>5. CASE StopLock(c) /\ pc'[c] = "kill_open"
    <3>1. job[target[c]].State \notin Terminal /\ pc[c] = "sp_lock" /\ retval' = retval
      BY <1>0, <2>5, ConstantsAssumption DEF TypeOK, LabelsOK, Threads, StopLock, Goto
    <3>2. retval'[c] = job[target[c]]
      BY <3>1 DEF StopInv, StopOf, CopyKnown
    <3>3. StopOf(c)'
      BY <1>1, <2>1, <2>5, <3>2 DEF StopOf, CopyKnown, KillKnown, AnswerKnown, Starting
    <3> QED BY <2>2, <3>3 DEF StopInv
  <2>6. CASE StopPoll(c)
    <3>1. pc[c] = "poll" /\ pc'[c] = "rm_open" /\ retval' = retval
      BY <1>0, <2>6, ConstantsAssumption DEF TypeOK, LabelsOK, Threads, StopPoll, Goto
    <3>2. StopOf(c)'
      BY <1>1, <2>1, <3>1 DEF StopInv, StopOf, CopyKnown, KillKnown, AnswerKnown, Starting, Holding
    <3> QED BY <2>2, <3>2 DEF StopInv
  <2> QED BY <1>3, <2>3, <2>4, <2>5, <2>6
<1> QED BY <1>2, <1>3 DEF StopStep

\* terminateJob and removeJobCgroup leave the jobs alone; Stop comes to its polling
\* loop with the kill file written, or without one.
LEMMA CgroupKeepsStop ==
  ASSUME IInv, StopInv, NEW t \in Threads, CgroupStep(t)
  PROVE  StopInv'
<1>0. TypeOK
  BY DEF IInv
<1>1. /\ UNCHANGED <<op, who, target, retval, job, proc, jobs>>
      /\ \A i \in Jobs : killed[i] => killed'[i]
      /\ \A c \in Calls : c # t => pc'[c] = pc[c]
  BY <1>0, ConstantsAssumption DEF TypeOK, LabelsOK, KernelOK, Threads, CgroupStep, KillFileOpen, KillFileWrite, Kill,
     RemoveStat, RemoveRmdir, CgroupRemoved, CgroupError, Goto
<1>2. \A c \in Calls : c # t => StopOf(c)'
  <2>1. \A c \in Calls : Undisturbed(c)
    BY <1>0, <1>1 DEF Undisturbed, TypeOK, TableOK
  <2> QED BY <1>1, <2>1, AsideKeeps DEF StopInv, Aside
<1>3. ASSUME t \in Calls PROVE StopOf(t)'
  <2>1. pc[t] \in Holding
    BY <1>3 DEF CgroupStep, KillFileOpen, KillFileWrite, RemoveStat, RemoveRmdir, Holding, RemoveLabels
  <2>2. target[t] \in jobs /\ target[t] \in Jobs /\ retval'[t] = job'[target'[t]]
    BY <1>0, <1>1, <1>3, <2>1 DEF IInv, ArgInv, ArgOf, StopInv, StopOf, CopyKnown, TypeOK, TableOK
  <2>3. CopyKnown(t)'
    BY <2>2 DEF CopyKnown
  <2>4. ASSUME pc'[t] = "poll", job[target[t]].ClientName = who[t], proc[target[t]] = "running"
        PROVE  killed'[target[t]]
    <3>1. JobDir(t) = <<job[target[t]].ClientName, target[t]>> /\ JobOf(t) = target[t]
      BY <1>3, <2>4, Dirs, ConstantsAssumption DEF JobOf
    <3>2. JobDir(t) \in cgroups
      BY <2>2, <2>4, <3>1 DEF IInv, CgroupInv, CgroupOfJob, Populated
    <3>3. KillFileWrite(t) /\ pc[t] = "kill_write"
      BY <1>0, <1>3, <2>4, <3>2, ConstantsAssumption DEF TypeOK, LabelsOK, Threads, CgroupStep, KillFileOpen, KillFileWrite,
         RemoveStat, RemoveRmdir, CgroupRemoved, CgroupError, Goto
    <3> QED BY <1>0, <2>2, <3>1, <3>2, <3>3 DEF KillFileWrite, Kill, TypeOK, KernelOK
  <2>5. AnswerKnown(t)'
    <3>1. pc'[t] \notin Starting \cup {"sp_lock", "ok"}
      BY <1>0, <1>3, ConstantsAssumption DEF TypeOK, LabelsOK, Threads, CgroupStep, KillFileOpen, KillFileWrite,
         RemoveStat, RemoveRmdir, CgroupRemoved, CgroupError, Goto, Starting
    <3> QED BY <3>1 DEF AnswerKnown
  <2> QED BY <1>1, <2>3, <2>4, <2>5 DEF StopOf, KillKnown
<1> QED BY <1>2, <1>3 DEF StopInv

\* The wait goroutine and the kernel: the goroutine writes a job only while mu is
\* free, and ends it when it does.
LEMMA OtherKeepsStop ==
  ASSUME IInv, StopInv, NEW j \in Jobs, Waiter(j) \/ Kernel(j)
  PROVE  StopInv'
<1>0. TypeOK
  BY DEF IInv
<1>1. \A c \in Calls : Aside(c)
  BY <1>0, ConstantsAssumption DEF TypeOK, LabelsOK, Threads, Waiter, Kernel, WaiterReap, WaiterUpdate,
     ProcessExit, ChildFork, ChildrenExit, Goto, Aside
<1>2. CASE WaiterUpdate(j)
  <2>1. /\ job \in [Jobs -> Job] /\ jobs \subseteq Jobs
        /\ wstatus[j] \in ExitCodes \cup {-1, 0}
    BY <1>0 DEF TypeOK, TableOK, KernelOK
  <2>2. Updated(j).State \in Terminal
    <3>1. job[j] \in Job
      BY <2>1
    <3> QED BY <2>1, <3>1, UpdatedFacts DEF Terminal
  <2>3. /\ job' = [job EXCEPT ![j] = Updated(j)] /\ mu = {}
        /\ UNCHANGED <<jobs, killed, proc>>
    BY <1>2 DEF WaiterUpdate
  <2>4. \A i \in jobs : job'[i] = job[i] \/ job'[i].State \in Terminal
    BY <2>1, <2>2, <2>3
  <2>5. \A c \in Calls : Undisturbed(c)
    BY <2>3, <2>4 DEF Undisturbed
  <2> QED BY <1>1, <2>5, AsideKeeps DEF StopInv
<1>3. CASE WaiterReap(j) \/ Kernel(j)
  <2>1. /\ UNCHANGED <<job, killed, jobs>>
        /\ \A i \in Jobs : proc'[i] = "running" => proc[i] = "running"
    BY <1>0, <1>3 DEF TypeOK, KernelOK, Kernel, WaiterReap, ProcessExit, ChildFork, ChildrenExit
  <2>2. \A c \in Calls : Undisturbed(c)
    BY <1>0, <2>1 DEF Undisturbed, TypeOK, TableOK
  <2> QED BY <1>1, <2>2, AsideKeeps DEF StopInv
<1> QED BY <1>2, <1>3 DEF Waiter

\* Every step keeps what Stop knows.
LEMMA NextStop == IInv /\ StopInv /\ [Next]_vars => StopInv'
<1> SUFFICES ASSUME IInv, StopInv, [Next]_vars PROVE StopInv'
  OBVIOUS
<1>1. CASE AllOver \/ UNCHANGED vars
  BY <1>1 DEF AllOver, vars, StopInv, StopOf, CopyKnown, KillKnown, AnswerKnown
<1> QED BY <1>1, StartKeepsStop, StopKeepsStop, CgroupKeepsStop, OtherKeepsStop DEF Next, Call

\* What Stop knows, on top of the inductive invariant of the library.
THEOREM StopInvariance == Spec => []StopInv
  BY InitStop, NextStop, Invariance, PTL DEF Spec

\* The copy that Stop made under the read lock is the job throughout its critical
\* section, although it did not check the State again on the copy.
THEOREM StopReturnsTheJob == Spec => []StopCopyIsCurrent
<1>1. StopInv => StopCopyIsCurrent
  BY DEF StopInv, StopOf, CopyKnown, StopCopyIsCurrent, Holding
<1> QED BY <1>1, StopInvariance, PTL

\* While Stop by the job's own client polls with mu locked, the end of the process
\* does not depend on mu.
THEOREM OwnPollIsServed == Spec => []OwnStopIsServed
<1>1. ASSUME IInv, StopInv PROVE OwnStopIsServed
  <2> SUFFICES ASSUME NEW c \in Calls, pc[c] = "poll", ~ForeignPoll(c)
               PROVE  \/ ProcessGone(target[c])
                      \/ /\ pc[target[c]] = "wait"
                         /\ proc[target[c]] = "running" => killed[target[c]]
    BY DEF OwnStopIsServed
  <2>1. target[c] \in jobs /\ target[c] \in Jobs
    BY <1>1 DEF IInv, ArgInv, ArgOf, Holding, TypeOK, TableOK
  <2>2. proc[target[c]] = "running" => killed[target[c]]
    BY <1>1 DEF StopInv, StopOf, KillKnown, ForeignPoll
  <2>3. pc[target[c]] = "wait" \/ proc[target[c]] = "reaped"
    BY <1>1, <2>1 DEF IInv, TableInv, TableOf, ProcInv, ProcOfJob
  <2> QED BY <2>2, <2>3 DEF ProcessGone
<1> QED BY <1>1, Invariance, StopInvariance, PTL

\* A Stop that has returned without an error has not promised too much.
THEOREM StopsAreReal == Spec => []StopOkMeansOver
<1>1. ASSUME IInv, StopInv PROVE StopOkMeansOver
  <2> SUFFICES ASSUME NEW c \in Calls, op[c] = "Stop", pc[c] = "ok"
               PROVE  /\ job[target[c]].State \in Terminal /\ proc[target[c]] = "reaped"
                      /\ retval[c].State \in {"Running", job[target[c]].State}
    BY DEF StopOkMeansOver
  <2>1. /\ target[c] \in jobs /\ job[target[c]].State \in Terminal
        /\ retval[c].State # "Unspecified"
    BY <1>1 DEF StopInv, StopOf, AnswerKnown
  <2>2. target[c] \in Jobs /\ retval[c].State \in JobStates
    BY <1>1, <2>1 DEF IInv, TypeOK, TableOK, CallsOK, Job
  <2>3. proc[target[c]] = "reaped"
    BY <1>1, <2>1, <2>2, ReapedWhenEnded DEF EndedMeansReaped
  <2>4. retval[c].State \in Terminal => job[target[c]].State = retval[c].State
    BY <1>1 DEF IInv, CopyInv, CopyOf
  <2> QED BY <2>1, <2>2, <2>3, <2>4 DEF JobStates, Terminal
<1> QED BY <1>1, Invariance, StopInvariance, PTL
==============================================================================

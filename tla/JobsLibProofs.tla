---------------------------- MODULE JobsLibProofs ----------------------------
(* Theorems about JobsLib, for any clients, jobs, calls and exit codes.    *)
EXTENDS JobsLibSteps

USE DEF callVars, tableVars, kernelVars

\* The invariant holds of an empty library.
LEMMA InitInv == Init => IInv
<1> SUFFICES ASSUME Init PROVE IInv
  OBVIOUS
<1>0. /\ \A c \in Calls : pc[c] = "idle"
      /\ \A j \in Jobs : pc[j] = "none"
  BY ConstantsAssumption DEF Init, Threads
<1>z. ZeroJob \in Job /\ ZeroJob.State = "Unspecified" /\ ~ZeroJob.Ended
  BY DEF ZeroJob, Job, JobStates
<1>1. TypeOK
  <2>1. LabelsOK
    BY <1>0 DEF Init, LabelsOK, Threads, CallLabels, WaiterLabels
  <2>2. CallsOK /\ TableOK
    BY <1>z DEF Init, CallsOK, TableOK
  <2>3. KernelOK
    BY DEF Init, KernelOK
  <2> QED BY <2>1, <2>2, <2>3 DEF TypeOK
<1>2. LockInv /\ ArgInv /\ FreshInv
  BY <1>0 DEF Init, LockInv, ArgInv, ArgOf, FreshInv, Starting, Holding, RemoveLabels
<1>3. TableInv /\ CopyInv
  BY <1>0, <1>z DEF Init, TableInv, TableOf, CopyInv, CopyOf, Terminal
<1>4. ProcInv /\ CgroupInv
  BY <1>0 DEF Init, ProcInv, ProcOfJob, ProcOfCall, CgroupInv, CgroupOfCall, CgroupOfJob, Populated, RemoveLabels, Purged
<1>5. NoLostProcess /\ LeakIsReported /\ ExitStatusSettles /\ StoppedByEntitled
  BY <1>0, <1>z DEF Init, NoLostProcess, LeakIsReported, ExitStatusSettles, StoppedByEntitled
<1> QED BY <1>1, <1>2, <1>3, <1>4, <1>5 DEF IInv

\* The invariant is a state predicate: a step that changes nothing keeps it.
LEMMA StutterInv == ASSUME IInv, UNCHANGED vars PROVE IInv'
<1>1. UNCHANGED <<pc, op, who, target, retval, mu, jobs, job, clientToJobID, issued,
                  cgroups, logs, proc, children, killed, wstatus>>
  BY DEF vars
<1>2. TypeOK'
  BY <1>1 DEF IInv, TypeOK, LabelsOK, CallsOK, TableOK, KernelOK
<1>3. LockInv' /\ ArgInv' /\ FreshInv' /\ TableInv' /\ CopyInv'
  BY <1>1 DEF IInv, LockInv, ArgInv, ArgOf, Entitled, FreshInv, TableInv, TableOf, CopyInv, CopyOf
<1>4. ProcInv' /\ CgroupInv'
  BY <1>1 DEF IInv, ProcInv, ProcOfJob, ProcOfCall, CgroupInv, CgroupOfCall, CgroupOfJob, Populated
<1>5. NoLostProcess' /\ LeakIsReported' /\ ExitStatusSettles'
  BY <1>1 DEF IInv, NoLostProcess, LeakIsReported, ExitStatusSettles
<1>6. StoppedByEntitled'
  BY <1>1 DEF IInv, StoppedByEntitled
<1> QED BY <1>2, <1>3, <1>4, <1>5, <1>6 DEF IInv

\* Every step of every thread keeps the invariant.
LEMMA NextInv == IInv /\ [Next]_vars => IInv'
<1> SUFFICES ASSUME IInv, [Next]_vars PROVE IInv'
  OBVIOUS
<1>1. ASSUME NEW c \in Calls, Call(c) PROVE IInv'
  BY <1>1, BeginInv, StartStepInv, StopStepInv DEF Call
<1>2. ASSUME NEW j \in Jobs, Waiter(j) \/ Kernel(j) PROVE IInv'
  BY <1>2, WaiterReapInv, WaiterUpdateInv, KernelInv DEF Waiter
<1>3. ASSUME NEW t \in Threads, CgroupStep(t) PROVE IInv'
  BY <1>3, CallCgroupInv, WaiterCgroupInv DEF Threads
<1>4. CASE AllOver \/ UNCHANGED vars
  BY <1>4, StutterInv DEF AllOver
<1> QED BY <1>1, <1>2, <1>3, <1>4 DEF Next

\* The inductive invariant holds throughout, for any number of clients, jobs and
\* concurrent calls of Start, Stop and Status.
THEOREM Invariance == Spec => []IInv
  BY InitInv, NextInv, PTL DEF Spec

\* The variables of the library always have their types.
THEOREM TypeCorrect == Spec => []TypeOK
<1>1. IInv => TypeOK
  BY DEF IInv
<1> QED BY <1>1, Invariance, PTL

\* The invariant contains that an ended job has no process left.
LEMMA ReapedWhenEnded == IInv => EndedMeansReaped
  BY DEF IInv, EndedMeansReaped, TableInv, TableOf, ProcInv, ProcOfJob

\* Neither Stop nor the wait goroutine reports a job as over before its process
\* has been reaped.
THEOREM EndIsReal == Spec => []EndedMeansReaped
  BY ReapedWhenEnded, Invariance, PTL

\* When the wait goroutine is through, every process left in the job's cgroup has
\* SIGKILL pending, whoever of Stop and the goroutine came first at each step.
THEOREM NothingSurvives == Spec => []NoSurvivors
<1>1. IInv => NoSurvivors
  BY DEF IInv, NoSurvivors, Populated, CgroupInv, CgroupOfJob, Purged, ProcInv, ProcOfJob
<1> QED BY <1>1, Invariance, PTL

\* No path through Start loses track of a process it has launched.
THEOREM NothingLost == Spec => []NoLostProcess
<1>1. IInv => NoLostProcess
  BY DEF IInv
<1> QED BY <1>1, Invariance, PTL

\* A job cgroup that is left behind is always owned up to in the job's Mesg.
THEOREM LeaksAreReported == Spec => []LeakIsReported
<1>1. IInv => LeakIsReported
  BY DEF IInv
<1> QED BY <1>1, Invariance, PTL

\* The exit status that a job shows in the end is the one of its process.
THEOREM StatusSettles == Spec => []ExitStatusSettles
<1>1. IInv => ExitStatusSettles
  BY DEF IInv
<1> QED BY <1>1, Invariance, PTL

\* Only an entitled caller's Stop makes a job TerminatedByAPI.
THEOREM OnlyEntitledStop == Spec => []StoppedByEntitled
<1>1. IInv => StoppedByEntitled
  BY DEF IInv
<1> QED BY <1>1, Invariance, PTL

\* A job that Status or Stop has reported as over stays as reported.
THEOREM ReportsHold == Spec => []ReportedEndIsTrue
<1>1. ASSUME IInv PROVE ReportedEndIsTrue
  <2> SUFFICES ASSUME NEW c \in Calls, retval[c].State \in Terminal
               PROVE  job[target[c]].State = retval[c].State /\ job[target[c]].Ended
    BY DEF ReportedEndIsTrue
  <2>1. target[c] \in Jobs /\ job[target[c]].State = retval[c].State
    BY <1>1 DEF IInv, CopyInv, CopyOf, TypeOK, TableOK
  <2> QED BY <1>1, <2>1 DEF IInv, TableInv, TableOf
<1> QED BY <1>1, Invariance, PTL

-----------------------------------------------------------------------------
(* Steps                                                                   *)

\* An empty library is an initial state of the abstract specification.
LEMMA InitLifecycle == Init => Lifecycle!Init
<1> SUFFICES ASSUME Init PROVE Lifecycle!Init
  OBVIOUS
<1>1. \A j \in Jobs : job[j].State = "Unspecified" /\ proc[j] = "none"
  BY DEF Init, ZeroJob
<1> QED BY <1>1 DEF Lifecycle!Init, StateOf, AliveOf

\* Steps that leave jobs and processes alone are invisible to it.
LEMMA SameLife ==
  ASSUME UNCHANGED <<job, proc>>
  PROVE  UNCHANGED Lifecycle!vars
  BY DEF Lifecycle!vars, StateOf, AliveOf

\* Every step of the library is a step of JobLifecycle or invisible to it.
LEMMA LifecycleStep ==
  ASSUME IInv, [Next]_vars
  PROVE  [Lifecycle!Next]_(Lifecycle!vars)
<1>0. /\ job \in [Jobs -> Job]
      /\ proc \in [Jobs -> {"none", "running", "zombie", "reaped"}]
      /\ wstatus \in [Jobs -> ExitCodes \cup {-1, 0}]
  BY DEF IInv, TypeOK, TableOK, KernelOK
<1>1. ASSUME NEW c \in Calls, Call(c) PROVE [Lifecycle!Next]_(Lifecycle!vars)
  <2>1. CASE StartExec(c)
    <3>1. target[c] \in Jobs /\ proc[target[c]] = "none"
      BY <2>1 DEF StartExec, IInv, ArgInv, ArgOf, Starting, ProcInv, ProcOfCall, TypeOK, TableOK
    <3>2. CASE UNCHANGED proc
      BY <2>1, <3>2, SameLife DEF StartExec
    <3>3. CASE proc' = [proc EXCEPT ![target[c]] = "running"]
      <4>1. Lifecycle!Launch(target[c])
        BY <1>0, <2>1, <3>1, <3>3 DEF StartExec, Lifecycle!Launch, StateOf, AliveOf
      <4> QED BY <3>1, <4>1 DEF Lifecycle!Next
    <3> QED BY <2>1, <3>2, <3>3 DEF StartExec
  <2>2. CASE StartRegister(c)
    <3>1. /\ target[c] \in Jobs /\ proc[target[c]] \in {"running", "zombie"}
          /\ job[target[c]].State = "Unspecified"
      BY <2>2 DEF StartRegister, IInv, ArgInv, ArgOf, Starting, ProcInv, ProcOfCall, TypeOK, TableOK, TableInv, TableOf
    <3>2. /\ \A i \in Jobs : job'[i].State = IF i = target[c] THEN "Running" ELSE job[i].State
          /\ proc' = proc
      BY <1>0, <2>2, <3>1 DEF StartRegister, ZeroJob
    <3>3. Lifecycle!Publish(target[c])
      BY <3>1, <3>2 DEF Lifecycle!Publish, StateOf, AliveOf
    <3> QED BY <3>1, <3>3 DEF Lifecycle!Next
  <2>3. CASE StopFinish(c)
    <3>1. /\ target[c] \in Jobs /\ proc[target[c]] = "reaped"
          /\ job[target[c]].State = "Running"
      BY <2>3 DEF StopFinish, IInv, ArgInv, ArgOf, Holding, ProcInv, ProcOfCall, TypeOK, TableOK
    <3>2. /\ \A i \in Jobs : job'[i].State = IF i = target[c] THEN "TerminatedByAPI" ELSE job[i].State
          /\ proc' = proc
      <4>1. job[target[c]] \in Job /\ job' = [job EXCEPT ![target[c]] = Stopped(job[target[c]])]
        BY <1>0, <2>3, <3>1 DEF StopFinish
      <4>2. proc' = proc
        BY <2>3 DEF StopFinish
      <4> QED BY <1>0, <3>1, <4>1, <4>2, StoppedFacts
    <3>3. Lifecycle!End(target[c])
      BY <3>1, <3>2 DEF Lifecycle!End, StateOf, AliveOf
    <3> QED BY <3>1, <3>3 DEF Lifecycle!Next
  <2>4. CASE \/ Start(c) \/ Status(c) \/ Stop(c) \/ createJobCgroup(c) \/ StartCreateFile(c)
             \/ findJobByJobID(c) \/ deepCopyJobFromPointer(c) \/ StopLock(c) \/ StopPoll(c)
    BY <2>4, SameLife DEF Start, Status, Stop, createJobCgroup, StartCreateFile,
       findJobByJobID, deepCopyJobFromPointer, StopLock, StopPoll
  <2> QED BY <1>1, <2>1, <2>2, <2>3, <2>4 DEF Call, StartStep, StopStep
<1>2. ASSUME NEW j \in Jobs, Waiter(j) \/ Kernel(j) PROVE [Lifecycle!Next]_(Lifecycle!vars)
  <2>1. CASE WaiterReap(j)
    <3>1. proc[j] = "zombie" /\ job[j].State = "Running"
      <4>1. pc[j] = "wait" /\ proc[j] = "zombie" /\ j \in jobs /\ job[j].State \in JobStates
        BY <1>0, <2>1 DEF WaiterReap, IInv, TableInv, TableOf, Job
      <4> QED BY <4>1 DEF IInv, TableInv, TableOf, JobStates, Terminal
    <3>2. proc' = [proc EXCEPT ![j] = "reaped"] /\ job' = job
      BY <2>1 DEF WaiterReap
    <3>3. Lifecycle!Collect(j)
      BY <1>0, <3>1, <3>2 DEF Lifecycle!Collect, StateOf, AliveOf
    <3> QED BY <3>3 DEF Lifecycle!Next
  <2>2. CASE WaiterUpdate(j)
    <3>1. /\ proc[j] = "reaped" /\ job[j].State \in {"Running", "TerminatedByAPI"}
      <4>1. pc[j] \in {"update", "update_rmerr"} /\ job[j].State \in JobStates
        BY <1>0, <2>2 DEF WaiterUpdate, Job
      <4> QED BY <4>1 DEF IInv, TableInv, TableOf, ProcInv, ProcOfJob, JobStates
    <3>2. /\ \A i \in Jobs : job'[i].State = IF i = j /\ job[j].State = "Running" THEN "Completed" ELSE job[i].State
          /\ proc' = proc
      <4>1. job' = [job EXCEPT ![j] = Updated(j)] /\ proc' = proc
        BY <2>2 DEF WaiterUpdate
      <4>2. Updated(j).State = IF job[j].State = "TerminatedByAPI" THEN "TerminatedByAPI" ELSE "Completed"
        BY <1>0, UpdatedFacts
      <4> QED BY <1>0, <3>1, <4>1, <4>2
    <3>3. CASE job[j].State = "TerminatedByAPI"
      BY <3>2, <3>3 DEF Lifecycle!vars, StateOf, AliveOf
    <3>4. CASE job[j].State = "Running"
      <4>1. Lifecycle!End(j)
        BY <3>1, <3>2, <3>4 DEF Lifecycle!End, StateOf, AliveOf
      <4> QED BY <4>1 DEF Lifecycle!Next
    <3> QED BY <3>1, <3>3, <3>4
  <2>3. CASE ProcessExit(j)
    <3>1. AliveOf' = AliveOf /\ StateOf' = StateOf
      BY <1>0, <2>3 DEF ProcessExit, StateOf, AliveOf
    <3> QED BY <3>1 DEF Lifecycle!vars
  <2>4. CASE ChildFork(j) \/ ChildrenExit(j)
    BY <2>4, SameLife DEF ChildFork, ChildrenExit
  <2> QED BY <1>2, <2>1, <2>2, <2>3, <2>4 DEF Waiter, Kernel
<1>3. ASSUME NEW t \in Threads, CgroupStep(t) PROVE [Lifecycle!Next]_(Lifecycle!vars)
  BY <1>3, SameLife DEF CgroupStep, KillFileOpen, KillFileWrite, Kill, RemoveStat, RemoveRmdir
<1>4. CASE AllOver \/ UNCHANGED vars
  BY <1>4, SameLife DEF AllOver, vars
<1> QED BY <1>1, <1>2, <1>3, <1>4 DEF Next

\* What a step may not do to an ended job, or to the table.
Final ==
    \A j \in Jobs :
        /\ job[j].State \in Terminal => job'[j].State = job[j].State
        /\ job[j].Ended => job'[j].Ended
        /\ j \in jobs => j \in jobs'

\* Only StartRegister, StopFinish and WaiterUpdate write a job; none of them
\* takes an end back.
LEMMA FinalStep ==
  ASSUME IInv, [Next]_vars
  PROVE  Final
<1>0. job \in [Jobs -> Job]
  BY DEF IInv, TypeOK, TableOK
<1>s. UNCHANGED <<jobs, job>> => Final
  BY DEF Final
<1>1. ASSUME NEW c \in Calls, Call(c) PROVE Final
  <2>1. CASE StartRegister(c)
    <3>1. /\ target[c] \in Jobs /\ target[c] \notin jobs
          /\ job[target[c]].State \notin Terminal /\ ~job[target[c]].Ended
      BY <2>1 DEF StartRegister, IInv, ArgInv, ArgOf, Starting, TypeOK, TableOK, TableInv, TableOf, Terminal
    <3>2. /\ \A i \in Jobs : i # target[c] => job'[i] = job[i]
          /\ jobs \subseteq jobs'
      BY <1>0, <2>1 DEF StartRegister
    <3> QED BY <3>1, <3>2 DEF Final
  <2>2. CASE StopFinish(c)
    <3>1. target[c] \in Jobs /\ job[target[c]].State \notin Terminal
      BY <2>2 DEF StopFinish, IInv, ArgInv, ArgOf, Holding, TypeOK, TableOK, Terminal
    <3>2. /\ \A i \in Jobs : i # target[c] => job'[i] = job[i]
          /\ job'[target[c]].Ended
          /\ jobs' = jobs
      <4>1. Stopped(job[target[c]]).Ended
        BY <1>0, <3>1, StoppedFacts
      <4> QED BY <1>0, <2>2, <3>1, <4>1 DEF StopFinish
    <3> QED BY <3>1, <3>2 DEF Final
  <2>3. CASE \/ Start(c) \/ Status(c) \/ Stop(c) \/ createJobCgroup(c) \/ StartCreateFile(c) \/ StartExec(c)
             \/ findJobByJobID(c) \/ deepCopyJobFromPointer(c) \/ StopLock(c) \/ StopPoll(c)
    BY <2>3, <1>s DEF Start, Status, Stop, createJobCgroup, StartCreateFile, StartExec,
       findJobByJobID, deepCopyJobFromPointer, StopLock, StopPoll
  <2> QED BY <1>1, <2>1, <2>2, <2>3 DEF Call, StartStep, StopStep
<1>2. ASSUME NEW j \in Jobs, Waiter(j) PROVE Final
  <2>1. CASE WaiterUpdate(j)
    <3>1. job[j].State # "Completed"
      BY <2>1 DEF WaiterUpdate, IInv, TableInv, TableOf
    <3>2. /\ \A i \in Jobs : i # j => job'[i] = job[i]
          /\ job[j].State = "TerminatedByAPI" => job'[j].State = "TerminatedByAPI"
          /\ job[j].Ended => job'[j].Ended
          /\ jobs' = jobs
      <4>1. job' = [job EXCEPT ![j] = Updated(j)] /\ jobs' = jobs
        BY <2>1 DEF WaiterUpdate
      <4>2. wstatus[j] \in ExitCodes \cup {-1, 0} /\ job[j] \in Job
        BY DEF IInv, TypeOK, TableOK, KernelOK
      <4> QED BY <1>0, <4>1, <4>2, UpdatedFacts
    <3> QED BY <3>1, <3>2 DEF Final, Terminal
  <2>2. CASE WaiterReap(j)
    BY <2>2, <1>s DEF WaiterReap
  <2> QED BY <1>2, <2>1, <2>2 DEF Waiter
<1>3. ASSUME NEW j \in Jobs, Kernel(j) PROVE Final
  BY <1>3, <1>s DEF Kernel, ProcessExit, ChildFork, ChildrenExit
<1>4. ASSUME NEW t \in Threads, CgroupStep(t) PROVE Final
  BY <1>4, <1>s DEF CgroupStep, KillFileOpen, KillFileWrite, Kill, RemoveStat, RemoveRmdir
<1>5. CASE AllOver \/ UNCHANGED vars
  BY <1>5, <1>s DEF AllOver, vars
<1> QED BY <1>1, <1>2, <1>3, <1>4, <1>5 DEF Next

\* Terminal states are final and jobs stay in the table, although Stop and the
\* wait goroutine write State in either order.
THEOREM Finality == Spec => TerminalIsFinal
<1>1. IInv /\ [Next]_vars => [Final]_vars
  BY FinalStep
<1> QED BY <1>1, Invariance, PTL DEF Spec, TerminalIsFinal, Final

\* The library implements the abstract life of a job.
THEOREM Refinement == Spec => ImplementsLifecycle
<1>1. IInv /\ [Next]_vars => [Lifecycle!Next]_(Lifecycle!vars)
  BY LifecycleStep
<1> QED BY <1>1, InitLifecycle, Invariance, PTL DEF Spec, ImplementsLifecycle, Lifecycle!Spec
==============================================================================

---------------------------- MODULE JobsLibSteps ----------------------------
(* Each step of JobsLib keeps its inductive invariant IInv.                *)
(*                                                                         *)
(* Steps that only move a thread on share a lemma per kind of thread       *)
(* (CallMove, WaiterMove, CallBegins, StartAdvances); the three steps that *)
(* write a job have a lemma of their own.                                  *)
EXTENDS JobsLibInv, TLAPS

USE DEF callVars, tableVars, kernelVars

-----------------------------------------------------------------------------
(* Moving from one label to the next                                       *)

\* Only the call c changes its label, to l.
MovesCall(c, l) ==
    /\ LabelsOK'
    /\ pc'[c] = l
    /\ \A d \in Calls : d # c => pc'[d] = pc[d]
    /\ \A j \in Jobs : pc'[j] = pc[j]

\* Only the wait goroutine of j changes its label, to l.
MovesWaiter(j, l) ==
    /\ LabelsOK'
    /\ pc'[j] = l
    /\ \A i \in Jobs : i # j => pc'[i] = pc[i]
    /\ \A c \in Calls : pc'[c] = pc[c]

\* Goto moves one call, since calls and wait goroutines are different threads.
LEMMA GotoCall ==
  ASSUME TypeOK, NEW c \in Calls, NEW l \in CallLabels \cup RemoveLabels, Goto(c, l)
  PROVE  MovesCall(c, l)
  BY ConstantsAssumption DEF TypeOK, LabelsOK, Goto, Threads, MovesCall

\* The same for a wait goroutine.
LEMMA GotoWaiter ==
  ASSUME TypeOK, NEW j \in Jobs, NEW l \in WaiterLabels \cup RemoveLabels, Goto(j, l)
  PROVE  MovesWaiter(j, l)
  BY ConstantsAssumption DEF TypeOK, LabelsOK, Goto, Threads, MovesWaiter

\* The directory that terminateJob and removeJobCgroup build, for either caller,
\* before and after a step.
LEMMA Dirs ==
  /\ \A c \in Calls : JobDir(c) = <<who[c], target[c]>>
  /\ \A j \in Jobs : JobDir(j) = <<job[j].ClientName, j>>
  /\ \A c \in Calls : JobDir(c)' = <<who'[c], target'[c]>>
  /\ \A j \in Jobs : JobDir(j)' = <<job'[j].ClientName, j>>
  BY ConstantsAssumption DEF JobDir, JobOf, ClientOf

\* What Stop writes into a job, field by field.
LEMMA StoppedFacts ==
  ASSUME NEW r \in Job
  PROVE  /\ Stopped(r) \in Job
         /\ Stopped(r).ClientName = r.ClientName
         /\ Stopped(r).State = "TerminatedByAPI" /\ Stopped(r).Ended
  BY DEF Stopped, Job, JobStates

\* What the wait goroutine writes into a job, field by field.
LEMMA UpdatedFacts ==
  ASSUME NEW j \in Jobs, job[j] \in Job, wstatus[j] \in ExitCodes \cup {-1, 0}
  PROVE  /\ Updated(j) \in Job
         /\ Updated(j).ClientName = job[j].ClientName
         /\ Updated(j).State = IF job[j].State = "TerminatedByAPI" THEN "TerminatedByAPI" ELSE "Completed"
         /\ job[j].Ended \/ job[j].State # "TerminatedByAPI" => Updated(j).Ended
         /\ Updated(j).ExitCode = wstatus[j]
         /\ Updated(j).SignalStr = IF wstatus[j] = -1 THEN "killed" ELSE ""
         /\ pc[j] = "update_rmerr" => "cgroup not removed" \in Updated(j).Mesg
<1>1. /\ Exited(j) \in Job
      /\ Exited(j).ClientName = job[j].ClientName
      /\ Exited(j).State = job[j].State
      /\ Exited(j).Ended = job[j].Ended
      /\ Exited(j).ExitCode = wstatus[j]
      /\ Exited(j).SignalStr = IF wstatus[j] = -1 THEN "killed" ELSE ""
      /\ pc[j] = "update_rmerr" => "cgroup not removed" \in Exited(j).Mesg
  BY DEF Exited, Job
<1>2. CASE job[j].State = "TerminatedByAPI"
  <2>1. Updated(j) = Exited(j)
    BY <1>2 DEF Updated
  <2> QED BY <1>1, <1>2, <2>1
<1>3. CASE job[j].State # "TerminatedByAPI"
  <2>1. Updated(j) = [Exited(j) EXCEPT !.State = "Completed", !.Ended = TRUE]
    BY <1>3 DEF Updated, Completed
  <2> QED BY <1>1, <1>3, <2>1 DEF Job, JobStates
<1> QED BY <1>2, <1>3

\* Directories go only for registered jobs, and only without live processes.
OnlyEmptyRemoved ==
    \A cl \in Clients, j \in Jobs :
        <<cl, j>> \in cgroups /\ <<cl, j>> \notin cgroups' => j \in jobs /\ ~Populated(j)

\* What terminateJob and removeJobCgroup can do to the shared state.
CgroupChange ==
    /\ killed' \in [Jobs -> BOOLEAN]
    /\ \A j \in Jobs : killed[j] => killed'[j]
    /\ cgroups' \subseteq cgroups
    /\ OnlyEmptyRemoved
    /\ UNCHANGED <<op, who, target, tableVars, logs, proc, children, wstatus>>

\* Such a change takes no cgroup away from a call of Start that is under way, nor
\* from a job with live processes.
LEMMA DirsKept ==
  ASSUME IInv, CgroupChange
  PROVE  /\ \A c \in Calls : pc[c] \in {"st_file", "st_exec", "st_register"}
                               => <<who[c], target[c]>> \in cgroups'
         /\ \A j \in jobs : Populated(j) => <<job[j].ClientName, j>> \in cgroups'
<1>1. ASSUME NEW c \in Calls, pc[c] \in {"st_file", "st_exec", "st_register"}
      PROVE  <<who[c], target[c]>> \in cgroups'
  <2>1. /\ who[c] \in Clients /\ target[c] \in Jobs /\ target[c] \notin jobs
        /\ <<who[c], target[c]>> \in cgroups
    BY <1>1 DEF IInv, ArgInv, ArgOf, CgroupInv, CgroupOfCall, Starting, TypeOK, TableOK
  <2> QED BY <2>1 DEF CgroupChange, OnlyEmptyRemoved
<1>2. ASSUME NEW j \in jobs, Populated(j)
      PROVE  <<job[j].ClientName, j>> \in cgroups'
  <2>1. j \in Jobs /\ <<job[j].ClientName, j>> \in cgroups
    BY <1>2 DEF IInv, CgroupInv, CgroupOfJob, TypeOK, TableOK
  <2>2. job[j].ClientName \in Clients
    BY <2>1 DEF IInv, TypeOK, KernelOK
  <2> QED BY <1>2, <2>1, <2>2 DEF CgroupChange, OnlyEmptyRemoved
<1> QED BY <1>1, <1>2

\* A call in its second half moves on to l: what it needs to know there.
MayMove(c, l) ==
    /\ pc[c] \notin Starting \cup {"idle", "ok"}
    /\ l \notin Starting \cup {"idle", "find"}
    /\ l \in Holding \cup {"copy", "sp_lock"} => target[c] \in jobs
    /\ l \in Holding \cup {"sp_lock"} => op[c] = "Stop"
    /\ l \in Holding => job[target[c]].State = "Running" /\ Entitled(c)
    /\ l \in RemoveLabels \cup {"sp_finish"} => proc[target[c]] = "reaped"
    /\ l # "copy" \/ pc[c] = "find"

\* How mu and the copy that the call returns may change with it.
LockMoves(c, l) ==
    /\ mu' = IF l \in Holding THEN {c} ELSE mu \ {c}
    /\ l \in Holding => mu \in {{}, {c}}

CopyMoves(c, l) ==
    /\ retval' \in [Calls -> Job]
    /\ \A d \in Calls : d # c => retval'[d] = retval[d]
    /\ \/ retval'[c] = retval[c]
       \/ retval'[c] = job[target[c]] /\ target[c] \in jobs /\ l # "copy"

\* A call of Stop or Status that moves on to l keeps the invariant if it knows
\* there what the invariant asks of a call at l.
LEMMA CallMove ==
  ASSUME IInv, NEW c \in Calls, NEW l \in CallLabels \cup RemoveLabels,
         Goto(c, l), MayMove(c, l), LockMoves(c, l), CopyMoves(c, l), CgroupChange
  PROVE  IInv'
<1>0. MovesCall(c, l)
  BY GotoCall DEF IInv
<1> USE DEF MayMove, LockMoves, CopyMoves
<1> USE DEF MovesCall
<1>1. TypeOK'
  BY <1>0 DEF IInv, TypeOK, CallsOK, TableOK, KernelOK, CgroupChange
<1>2. LockInv'
  BY <1>0 DEF IInv, LockInv, TypeOK, TableOK
<1>3. ArgInv'
  BY <1>0 DEF IInv, ArgInv, ArgOf, Entitled, CgroupChange
<1>4. FreshInv'
  BY <1>0 DEF IInv, FreshInv, CgroupChange
<1>5. TableInv'
  BY <1>0 DEF IInv, TableInv, TableOf, CgroupChange
<1>6. ProcInv'
  BY <1>0 DEF IInv, ProcInv, ProcOfJob, ProcOfCall, CgroupChange, Starting
<1>7. CgroupInv'
  <2>1. \A d \in Calls : CgroupOfCall(d)'
    BY <1>0, DirsKept DEF CgroupOfCall, Starting, CgroupChange
  <2>2. \A j \in Jobs : CgroupOfJob(j)'
    BY <1>0, DirsKept DEF IInv, CgroupInv, CgroupOfJob, Populated, CgroupChange
  <2> QED BY <2>1, <2>2 DEF CgroupInv
<1>8. CopyInv'
  <2>1. l \in Holding \cup {"copy", "sp_lock", "ok", "err"}
    BY DEF CallLabels, Holding, Starting
  <2>2. retval'[c].State \in Terminal => l # "copy"
    BY DEF IInv, CopyInv, CopyOf, Holding, RemoveLabels
  <2> QED BY <1>0, <2>1, <2>2 DEF IInv, CopyInv, CopyOf, CgroupChange
<1>9. NoLostProcess'
  BY <1>0 DEF IInv, NoLostProcess, CgroupChange, Starting
<1>10. LeakIsReported' /\ ExitStatusSettles'
  BY <1>0 DEF IInv, LeakIsReported, ExitStatusSettles, CgroupChange
<1>11. StoppedByEntitled'
  BY <1>0 DEF IInv, StoppedByEntitled, CgroupChange
<1> QED BY <1>1, <1>2, <1>3, <1>4, <1>5, <1>6, <1>7, <1>8, <1>9, <1>10, <1>11 DEF IInv

\* The wait goroutine moves on inside or out of removeJobCgroup: past the kill no
\* unkilled process may be left, and success means that the directory is gone.
LEMMA WaiterMove ==
  ASSUME IInv, NEW j \in Jobs, pc[j] \in RemoveLabels,
         NEW l \in RemoveLabels \cup {"update", "update_rmerr"}, Goto(j, l),
         CgroupChange, UNCHANGED <<mu, retval>>,
         l \in Purged /\ children[j] => killed'[j],
         l = "update" => <<job[j].ClientName, j>> \notin cgroups'
  PROVE  IInv'
<1>0. /\ MovesWaiter(j, l)
      /\ pc[j] \notin {"none", "wait", "update", "update_rmerr", "finished"}
      /\ l \notin {"none", "wait", "finished"}
  BY GotoWaiter DEF IInv, WaiterLabels, RemoveLabels
<1> USE DEF MovesWaiter
<1>1. TypeOK'
  BY <1>0 DEF IInv, TypeOK, CallsOK, TableOK, KernelOK, CgroupChange
<1>2. LockInv' /\ ArgInv' /\ FreshInv'
  BY <1>0 DEF IInv, LockInv, ArgInv, ArgOf, FreshInv, Entitled, CgroupChange, TypeOK, TableOK
<1>3. TableInv' /\ CopyInv'
  BY <1>0 DEF IInv, TableInv, TableOf, CopyInv, CopyOf, CgroupChange
<1>4. ProcInv'
  BY <1>0 DEF IInv, ProcInv, ProcOfJob, ProcOfCall, CgroupChange
<1>5. CgroupInv'
  <2>1. \A d \in Calls : CgroupOfCall(d)'
    BY <1>0, DirsKept DEF CgroupOfCall, CgroupChange
  <2>2. \A i \in Jobs : CgroupOfJob(i)'
    BY <1>0, DirsKept DEF IInv, CgroupInv, CgroupOfJob, Populated, CgroupChange
  <2> QED BY <2>1, <2>2 DEF CgroupInv
<1>6. NoLostProcess'
  BY <1>0 DEF IInv, NoLostProcess, CgroupChange
<1>7. LeakIsReported' /\ ExitStatusSettles'
  BY <1>0 DEF IInv, LeakIsReported, ExitStatusSettles, CgroupChange
<1>8. StoppedByEntitled'
  BY <1>0 DEF IInv, StoppedByEntitled, CgroupChange
<1> QED BY <1>1, <1>2, <1>3, <1>4, <1>5, <1>6, <1>7, <1>8 DEF IInv

\* A call arrives: it takes its arguments, and Start draws an ID nobody has.
Begins(c, o, cl, j, l) ==
    /\ Goto(c, l)
    /\ op' = [op EXCEPT ![c] = o]
    /\ who' = [who EXCEPT ![c] = cl]
    /\ target' = [target EXCEPT ![c] = j]
    /\ issued' = IF l = "st_cgroup" THEN issued \cup {j} ELSE issued
    /\ l = "find" => j \in Jobs
    /\ l = "st_cgroup" => j \in Jobs \ issued
    /\ UNCHANGED <<retval, mu, jobs, job, clientToJobID, kernelVars>>

\* The arrival of a call keeps the invariant.
LEMMA CallBegins ==
  ASSUME IInv, NEW c \in Calls, pc[c] = "idle",
         NEW o \in {"Start", "Stop", "Status"}, NEW cl \in Clients, NEW j \in Jobs \cup {""},
         NEW l \in {"err", "find", "st_cgroup"}, Begins(c, o, cl, j, l)
  PROVE  IInv'
<1>0. /\ MovesCall(c, l)
      /\ l \notin Holding \cup {"copy", "sp_lock", "ok"}
      /\ pc[c] \notin Holding \cup Starting \cup {"ok", "sp_lock", "err"}
      /\ l \in Starting => l = "st_cgroup"
  BY GotoCall DEF IInv, Begins, CallLabels, Holding, RemoveLabels, Starting
<1>a. /\ op' \in [Calls -> {"none", "Start", "Stop", "Status"}]
      /\ who' \in [Calls -> Clients \cup {""}]
      /\ target' \in [Calls -> Jobs \cup {""}]
  BY DEF IInv, TypeOK, CallsOK, Begins
<1>b. /\ op'[c] = o /\ who'[c] = cl /\ target'[c] = j
      /\ \A d \in Calls : d # c => op'[d] = op[d] /\ who'[d] = who[d] /\ target'[d] = target[d]
  BY DEF IInv, TypeOK, CallsOK, Begins
<1>c. /\ issued' \in SUBSET Jobs
      /\ issued \subseteq issued'
      /\ l = "st_cgroup" => j \in Jobs /\ j \notin issued /\ j \in issued'
      /\ l = "find" => j \in Jobs
      /\ \A i \in issued' : i \in issued \/ (l = "st_cgroup" /\ i = j)
  BY DEF IInv, TypeOK, TableOK, Begins
<1>d. UNCHANGED <<retval, mu, jobs, job, clientToJobID, cgroups, logs, proc, children, killed, wstatus>>
  BY DEF Begins
<1> USE DEF MovesCall
<1>1. TypeOK'
  BY <1>0, <1>a, <1>c, <1>d DEF IInv, TypeOK, CallsOK, TableOK, KernelOK
<1>2. LockInv'
  BY <1>0, <1>d DEF IInv, LockInv, TypeOK, TableOK
<1>3. ArgInv'
  <2> SUFFICES ASSUME NEW d \in Calls PROVE ArgOf(d)'
    BY DEF ArgInv
  <2>1. CASE d = c
    BY <1>0, <1>b, <1>c, <1>d, <2>1 DEF IInv, ArgOf, TableInv
  <2>2. CASE d # c
    BY <1>0, <1>b, <1>c, <1>d, <2>2 DEF IInv, ArgInv, ArgOf, ArgOf, Entitled
  <2> QED BY <2>1, <2>2
<1>4. FreshInv'
  <2>1. \A d \in Calls : pc[d] \in Starting => target[d] \in issued
    BY DEF IInv, ArgInv, ArgOf
  <2> SUFFICES ASSUME NEW d \in Calls, NEW e \in Calls, d # e,
                      pc'[d] \in Starting, pc'[e] \in Starting
               PROVE  target'[d] # target'[e]
    BY DEF FreshInv
  <2>2. CASE d # c /\ e # c
    BY <1>0, <1>b, <2>2 DEF IInv, FreshInv
  <2>3. CASE d = c \/ e = c
    BY <1>0, <1>b, <1>c, <2>1, <2>3
  <2> QED BY <2>2, <2>3
<1>5. TableInv'
  <2>1. jobs' \subseteq issued'
    BY <1>c, <1>d DEF IInv, TableInv
  <2>2. ASSUME NEW i \in Jobs PROVE TableOf(i)'
    <3>1. TableOf(i) /\ pc'[i] = pc[i] /\ jobs' = jobs /\ job' = job
      BY <1>0, <1>d DEF IInv, TableInv
    <3> QED BY <3>1 DEF TableOf
  <2> QED BY <2>1, <2>2 DEF TableInv
<1>6. ProcInv'
  <2>1. ASSUME NEW i \in Jobs PROVE ProcOfJob(i)'
    BY <1>0, <1>c, <1>d DEF IInv, ProcInv, ProcOfJob
  <2>2. ASSUME NEW d \in Calls PROVE ProcOfCall(d)'
    <3>1. CASE d = c
      BY <1>0, <1>b, <1>c, <1>d, <3>1 DEF IInv, ProcInv, ProcOfJob, ProcOfCall, Holding
    <3>2. CASE d # c
      BY <1>0, <1>b, <1>d, <3>2 DEF IInv, ProcInv, ProcOfCall
    <3> QED BY <3>1, <3>2
  <2> QED BY <2>1, <2>2 DEF ProcInv
<1>7. CgroupInv'
  <2>1. ASSUME NEW d \in Calls PROVE CgroupOfCall(d)'
    BY <1>0, <1>b, <1>d DEF IInv, CgroupInv, CgroupOfCall
  <2>2. ASSUME NEW i \in Jobs PROVE CgroupOfJob(i)'
    BY <1>0, <1>d DEF IInv, CgroupInv, CgroupOfJob, Populated
  <2> QED BY <2>1, <2>2 DEF CgroupInv
<1>8. CopyInv'
  BY <1>0, <1>b, <1>d DEF IInv, CopyInv, CopyOf
<1>9. NoLostProcess'
  <2> SUFFICES ASSUME NEW i \in Jobs, proc[i] \in {"running", "zombie"}, ~(i \in jobs /\ pc[i] = "wait")
               PROVE  \E d \in Calls : pc'[d] = "st_register" /\ target'[d] = i
    BY <1>0, <1>d DEF NoLostProcess
  <2>1. PICK d \in Calls : pc[d] = "st_register" /\ target[d] = i
    BY DEF IInv, NoLostProcess
  <2> QED BY <1>0, <1>b, <2>1
<1>10. LeakIsReported' /\ ExitStatusSettles'
  BY <1>0, <1>d DEF IInv, LeakIsReported, ExitStatusSettles
<1>11. StoppedByEntitled'
  <2> SUFFICES ASSUME NEW i \in Jobs, job[i].State = "TerminatedByAPI"
               PROVE  \E d \in Calls : /\ op'[d] = "Stop" /\ target'[d] = i /\ pc'[d] = "ok"
                                       /\ who'[d] \in Admins \cup {job[i].ClientName}
    BY <1>d DEF StoppedByEntitled
  <2>1. PICK d \in Calls : /\ op[d] = "Stop" /\ target[d] = i /\ pc[d] = "ok"
                           /\ who[d] \in Admins \cup {job[i].ClientName}
    BY DEF IInv, StoppedByEntitled
  <2> QED BY <1>0, <1>b, <2>1
<1> QED BY <1>1, <1>2, <1>3, <1>4, <1>5, <1>6, <1>7, <1>8, <1>9, <1>10, <1>11 DEF IInv

\* Start makes its cgroup, its output file, its process, or fails on the way.
Advances(c, l) ==
    /\ Goto(c, l)
    /\ cgroups \subseteq cgroups'
    /\ cgroups' \subseteq cgroups \cup {<<who[c], target[c]>>}
    /\ l # "err" => <<who[c], target[c]>> \in cgroups'
    /\ logs' \in SUBSET Jobs
    /\ proc' = IF l = "st_register" THEN [proc EXCEPT ![target[c]] = "running"] ELSE proc
    /\ UNCHANGED <<callVars, mu, tableVars, children, killed, wstatus>>

\* The steps of Start before it takes mu keep the invariant: the job ID is its
\* own, and the process it launches stays with the call that launched it.
LEMMA StartAdvances ==
  ASSUME IInv, NEW c \in Calls, pc[c] \in {"st_cgroup", "st_file", "st_exec"},
         NEW l \in {"err", "st_file", "st_exec", "st_register"}, Advances(c, l)
  PROVE  IInv'
<1>0. /\ MovesCall(c, l)
      /\ pc[c] \in Starting /\ pc[c] \notin Holding
      /\ l \notin Holding
      /\ l # "err" => l \in Starting
  BY GotoCall DEF IInv, Advances, CallLabels, Holding, RemoveLabels, Starting
<1>a. /\ who[c] \in Clients
      /\ target[c] \in Jobs /\ target[c] \in issued /\ target[c] \notin jobs
      /\ proc[target[c]] = "none"
  BY <1>0 DEF IInv, ArgInv, ArgOf, ProcInv, ProcOfCall, TypeOK, TableOK
<1>b. /\ proc' \in [Jobs -> {"none", "running", "zombie", "reaped"}]
      /\ \A i \in Jobs : i # target[c] => proc'[i] = proc[i]
      /\ proc'[target[c]] = IF l = "st_register" THEN "running" ELSE "none"
  BY <1>a DEF IInv, TypeOK, KernelOK, Advances
<1>c. /\ cgroups' \in SUBSET (Clients \X Jobs)
      /\ logs' \in SUBSET Jobs
      /\ cgroups \subseteq cgroups'
      /\ l # "err" => <<who[c], target[c]>> \in cgroups'
  <2>1. <<who[c], target[c]>> \in Clients \X Jobs
    BY <1>a
  <2> QED BY <2>1 DEF IInv, TypeOK, KernelOK, Advances
<1>f. ASSUME NEW i \in Jobs, NEW cl, i # target[c], <<cl, i>> \in cgroups'
      PROVE  <<cl, i>> \in cgroups
  <2>1. <<cl, i>> # <<who[c], target[c]>>
    BY <1>f
  <2> QED BY <1>f, <2>1 DEF Advances
<1>d. UNCHANGED <<op, who, target, retval, mu, jobs, job, clientToJobID, issued, children, killed, wstatus>>
  BY DEF Advances
<1>e. \A d \in Calls : d # c /\ pc[d] \in Starting => target[d] # target[c]
  BY <1>0 DEF IInv, FreshInv
<1> USE DEF MovesCall
<1>1. TypeOK'
  BY <1>0, <1>b, <1>c, <1>d DEF IInv, TypeOK, CallsOK, TableOK, KernelOK
<1>2. LockInv'
  BY <1>0, <1>d DEF IInv, LockInv, TypeOK, TableOK
<1>3. ArgInv'
  <2> SUFFICES ASSUME NEW d \in Calls PROVE ArgOf(d)'
    BY DEF ArgInv
  <2> QED BY <1>0, <1>a, <1>d DEF IInv, ArgInv, ArgOf, Entitled, Starting
<1>4. FreshInv'
  BY <1>0, <1>d, <1>e DEF IInv, FreshInv, Starting
<1>5. TableInv'
  BY <1>0, <1>d DEF IInv, TableInv, TableOf
<1>6. ProcInv'
  <2>1. ASSUME NEW i \in Jobs PROVE ProcOfJob(i)'
    BY <1>0, <1>a, <1>b, <1>d DEF IInv, ProcInv, ProcOfJob, TableInv, TableOf
  <2>2. ASSUME NEW d \in Calls PROVE ProcOfCall(d)'
    <3>1. CASE d = c
      BY <1>0, <1>b, <1>d, <3>1 DEF ProcOfCall, RemoveLabels
    <3>2. CASE d # c
      BY <1>0, <1>a, <1>b, <1>d, <1>e, <3>2 DEF IInv, ProcInv, ProcOfCall, Starting, ArgInv, ArgOf, Holding, TypeOK, TableOK
    <3> QED BY <3>1, <3>2
  <2> QED BY <2>1, <2>2 DEF ProcInv
<1>7. CgroupInv'
  <2>1. ASSUME NEW d \in Calls PROVE CgroupOfCall(d)'
    BY <1>0, <1>c, <1>d DEF IInv, CgroupInv, CgroupOfCall
  <2>2. ASSUME NEW i \in Jobs PROVE CgroupOfJob(i)'
    <3> QED BY <1>0, <1>a, <1>b, <1>c, <1>d, <1>f DEF IInv, CgroupInv, CgroupOfJob, Populated, Purged, TableInv, TableOf
  <2> QED BY <2>1, <2>2 DEF CgroupInv
<1>8. CopyInv'
  <2> SUFFICES ASSUME NEW d \in Calls PROVE CopyOf(d)'
    BY DEF CopyInv
  <2> QED BY <1>0, <1>d DEF IInv, CopyInv, CopyOf, Starting
<1>9. NoLostProcess'
  <2> SUFFICES ASSUME NEW i \in Jobs, proc'[i] \in {"running", "zombie"}, ~(i \in jobs /\ pc[i] = "wait")
               PROVE  \E d \in Calls : pc'[d] = "st_register" /\ target[d] = i
    BY <1>0, <1>d DEF NoLostProcess
  <2>1. CASE i = target[c]
    BY <1>0, <1>b, <2>1
  <2>2. CASE i # target[c]
    <3>1. PICK d \in Calls : pc[d] = "st_register" /\ target[d] = i
      BY <1>b, <2>2 DEF IInv, NoLostProcess
    <3> QED BY <1>0, <3>1
  <2> QED BY <2>1, <2>2
<1>10. LeakIsReported'
  <2> SUFFICES ASSUME NEW i \in Jobs, pc[i] = "finished", <<job[i].ClientName, i>> \in cgroups'
               PROVE  "cgroup not removed" \in job[i].Mesg
    BY <1>0, <1>d DEF LeakIsReported
  <2>1. i # target[c]
    BY <1>a DEF IInv, TableInv, TableOf
  <2> QED BY <1>f, <2>1 DEF IInv, LeakIsReported
<1>11. ExitStatusSettles'
  BY <1>0, <1>d DEF IInv, ExitStatusSettles
<1>12. StoppedByEntitled'
  BY <1>0, <1>d DEF IInv, StoppedByEntitled, Starting
<1> QED BY <1>1, <1>2, <1>3, <1>4, <1>5, <1>6, <1>7, <1>8, <1>9, <1>10, <1>11, <1>12 DEF IInv

\* Putting the job into the table hands its process over to the wait goroutine.
LEMMA StartRegisterInv ==
  ASSUME IInv, NEW c \in Calls, StartRegister(c)
  PROVE  IInv'
<1> DEFINE j == target[c]
<1>0. pc[c] = "st_register" /\ mu = {}
  BY DEF StartRegister
<1>a. /\ who[c] \in Clients
      /\ j \in Jobs /\ j \in issued /\ j \notin jobs
      /\ proc[j] \in {"running", "zombie"}
      /\ <<who[c], j>> \in cgroups
      /\ pc[j] = "none" /\ job[j].State = "Unspecified"
  BY <1>0 DEF IInv, ArgInv, ArgOf, Starting, ProcInv, ProcOfCall, CgroupInv, CgroupOfCall, TypeOK, TableOK, TableInv, TableOf
<1> HIDE DEF j
<1>b. /\ LabelsOK'
      /\ pc'[c] = "ok" /\ pc'[j] = "wait"
      /\ \A d \in Calls : d # c => pc'[d] = pc[d]
      /\ \A i \in Jobs : i # j => pc'[i] = pc[i]
  BY <1>a, ConstantsAssumption DEF IInv, TypeOK, LabelsOK, StartRegister, Threads, CallLabels, WaiterLabels, j
<1>c. /\ job' \in [Jobs -> Job]
      /\ job'[j].ClientName = who[c] /\ job'[j].State = "Running"
      /\ \A i \in Jobs : i # j => job'[i] = job[i]
  <2>1. [ZeroJob EXCEPT !.ClientName = who[c], !.State = "Running"] \in Job
    BY <1>a DEF ZeroJob, Job, JobStates
  <2>2. job' = [job EXCEPT ![j] = [ZeroJob EXCEPT !.ClientName = who[c], !.State = "Running"]]
    BY DEF StartRegister, j
  <2>3. job \in [Jobs -> Job]
    BY DEF IInv, TypeOK, TableOK
  <2> QED BY <1>a, <2>1, <2>2, <2>3 DEF ZeroJob
<1>d. /\ jobs' = jobs \cup {j}
      /\ clientToJobID' \in [Clients -> SUBSET Jobs]
      /\ UNCHANGED <<op, who, target, retval, mu, issued, cgroups, logs, proc, children, killed, wstatus>>
  BY <1>a DEF StartRegister, j, IInv, TypeOK, TableOK
<1>e. \A d \in Calls : d # c /\ pc[d] \in Starting => target[d] # j
  BY <1>0 DEF IInv, FreshInv, j, Starting
<1>f. \A d \in Calls : pc[d] \notin Holding
  BY <1>0 DEF IInv, LockInv
<1>g. \A d \in Calls : d # c /\ pc[d] \in {"copy", "sp_lock"} => target[d] \in jobs /\ target[d] # j
  BY <1>a DEF IInv, ArgInv, ArgOf
<1>1. TypeOK'
  BY <1>a, <1>b, <1>c, <1>d DEF IInv, TypeOK, CallsOK, TableOK, KernelOK
<1>2. LockInv'
  BY <1>0, <1>b, <1>d, <1>f DEF LockInv, Holding, RemoveLabels
<1>3. ArgInv'
  <2> SUFFICES ASSUME NEW d \in Calls PROVE ArgOf(d)'
    BY DEF ArgInv
  <2>1. CASE d = c
    BY <1>b, <2>1 DEF ArgOf, Starting, Holding, RemoveLabels
  <2>2. CASE d # c
    BY <1>b, <1>d, <1>e, <1>f, <1>g, <2>2 DEF IInv, ArgInv, ArgOf
  <2> QED BY <2>1, <2>2
<1>4. FreshInv'
  BY <1>b, <1>d DEF IInv, FreshInv, Starting
<1>5. TableInv'
  <2>1. jobs' \subseteq issued'
    BY <1>a, <1>d DEF IInv, TableInv
  <2>2. ASSUME NEW i \in Jobs PROVE TableOf(i)'
    BY <1>b, <1>c, <1>d DEF IInv, TableInv, TableOf, Terminal
  <2> QED BY <2>1, <2>2 DEF TableInv
<1>6. ProcInv'
  <2>1. ASSUME NEW i \in Jobs PROVE ProcOfJob(i)'
    BY <1>a, <1>b, <1>d DEF IInv, ProcInv, ProcOfJob
  <2>2. ASSUME NEW d \in Calls PROVE ProcOfCall(d)'
    BY <1>b, <1>d DEF IInv, ProcInv, ProcOfCall, RemoveLabels
  <2> QED BY <2>1, <2>2 DEF ProcInv
<1>7. CgroupInv'
  <2>1. ASSUME NEW d \in Calls PROVE CgroupOfCall(d)'
    BY <1>b, <1>d DEF IInv, CgroupInv, CgroupOfCall
  <2>2. ASSUME NEW i \in Jobs PROVE CgroupOfJob(i)'
    BY <1>a, <1>b, <1>c, <1>d DEF IInv, CgroupInv, CgroupOfJob, Populated, Purged
  <2> QED BY <2>1, <2>2 DEF CgroupInv
<1>8. CopyInv'
  <2> SUFFICES ASSUME NEW d \in Calls PROVE CopyOf(d)'
    BY DEF CopyInv
  <2>1. retval[d].State \in Terminal => /\ d # c
                                        /\ target[d] # j /\ target[d] \in jobs /\ target[d] \in Jobs
                                        /\ pc[d] \in Holding \cup {"sp_lock", "ok", "err"}
                                        /\ job[target[d]].State = retval[d].State
    BY <1>0, <1>a DEF IInv, CopyInv, CopyOf, Holding, RemoveLabels, TypeOK, TableOK
  <2> QED BY <1>b, <1>c, <1>d, <2>1 DEF CopyOf
<1>9. NoLostProcess'
  <2> SUFFICES ASSUME NEW i \in Jobs, proc[i] \in {"running", "zombie"}, ~(i \in jobs' /\ pc'[i] = "wait")
               PROVE  \E d \in Calls : pc'[d] = "st_register" /\ target[d] = i
    BY <1>d DEF NoLostProcess
  <2>1. i # j
    BY <1>b, <1>d
  <2>2. PICK d \in Calls : pc[d] = "st_register" /\ target[d] = i
    BY <1>b, <1>d, <2>1 DEF IInv, NoLostProcess
  <2> QED BY <1>b, <2>1, <2>2 DEF j
<1>10. LeakIsReported' /\ ExitStatusSettles'
  BY <1>b, <1>c, <1>d DEF IInv, LeakIsReported, ExitStatusSettles
<1>11. StoppedByEntitled'
  <2> SUFFICES ASSUME NEW i \in Jobs, job'[i].State = "TerminatedByAPI"
               PROVE  \E d \in Calls : /\ op[d] = "Stop" /\ target[d] = i /\ pc'[d] = "ok"
                                       /\ who[d] \in Admins \cup {job'[i].ClientName}
    BY <1>d DEF StoppedByEntitled
  <2>1. i # j /\ job'[i] = job[i]
    BY <1>c
  <2>2. PICK d \in Calls : /\ op[d] = "Stop" /\ target[d] = i /\ pc[d] = "ok"
                           /\ who[d] \in Admins \cup {job[i].ClientName}
    BY <2>1 DEF IInv, StoppedByEntitled
  <2> QED BY <1>0, <1>b, <2>1, <2>2
<1> QED BY <1>1, <1>2, <1>3, <1>4, <1>5, <1>6, <1>7, <1>8, <1>9, <1>10, <1>11 DEF IInv

\* Stop may declare the job ended: mu has been locked since it saw the job
\* Running, so no other thread has ended it, and the process has been reaped.
LEMMA StopFinishInv ==
  ASSUME IInv, NEW c \in Calls, StopFinish(c)
  PROVE  IInv'
<1> DEFINE j == target[c]
<1>0. /\ pc[c] = "sp_finish" /\ pc[c] \in Holding
      /\ mu = {c} /\ mu' = {}
      /\ MovesCall(c, "ok")
  BY GotoCall DEF StopFinish, IInv, LockInv, CallLabels, Holding
<1>a. /\ j \in Jobs /\ j \in jobs
      /\ op[c] = "Stop" /\ job[j].State = "Running" /\ Entitled(c)
      /\ proc[j] = "reaped" /\ pc[j] \notin {"none", "wait", "finished"}
  BY <1>0 DEF IInv, ArgInv, ArgOf, ProcInv, ProcOfCall, ProcOfJob, TypeOK, TableOK, TableInv, TableOf, Terminal
<1>x. who[c] \in Admins \cup {job[j].ClientName}
  BY <1>a DEF Entitled
<1> HIDE DEF j
<1>b. /\ job' \in [Jobs -> Job]
      /\ job'[j].ClientName = job[j].ClientName
      /\ job'[j].State = "TerminatedByAPI" /\ job'[j].Ended
      /\ \A i \in Jobs : i # j => job'[i] = job[i]
  <2>1. job' = [job EXCEPT ![j] = Stopped(job[j])]
    BY DEF StopFinish, j
  <2>2. job \in [Jobs -> Job] /\ job[j] \in Job
    BY <1>a DEF IInv, TypeOK, TableOK
  <2> QED BY <1>a, <2>1, <2>2, StoppedFacts
<1>c. /\ retval' \in [Calls -> Job]
      /\ retval'[c].State = "TerminatedByAPI"
      /\ \A d \in Calls : d # c => retval'[d] = retval[d]
  <2>1. retval' = [retval EXCEPT ![c] = Stopped(retval[c])]
    BY DEF StopFinish
  <2>2. retval \in [Calls -> Job] /\ retval[c] \in Job
    BY DEF IInv, TypeOK, CallsOK
  <2> QED BY <2>1, <2>2, StoppedFacts
<1>d. UNCHANGED <<op, who, target, jobs, clientToJobID, issued, cgroups, logs, proc, children, killed, wstatus>>
  BY DEF StopFinish
<1>f. \A d \in Calls : d # c => pc[d] \notin Holding
  BY <1>0 DEF IInv, LockInv
<1>g. \A d \in Calls : target[d] = j => retval[d].State \notin Terminal
  BY <1>a DEF IInv, CopyInv, CopyOf, Terminal
<1> USE DEF MovesCall
<1>1. TypeOK'
  BY <1>0, <1>b, <1>c, <1>d DEF IInv, TypeOK, CallsOK, TableOK, KernelOK
<1>2. LockInv'
  BY <1>0, <1>f DEF LockInv, Holding, RemoveLabels
<1>3. ArgInv'
  <2> SUFFICES ASSUME NEW d \in Calls PROVE ArgOf(d)'
    BY DEF ArgInv
  <2>1. CASE d = c
    BY <1>0, <2>1 DEF ArgOf, Starting, Holding, RemoveLabels
  <2>2. CASE d # c
    BY <1>0, <1>d, <1>f, <2>2 DEF IInv, ArgInv, ArgOf
  <2> QED BY <2>1, <2>2
<1>4. FreshInv'
  BY <1>0, <1>d DEF IInv, FreshInv, Starting
<1>5. TableInv'
  <2>1. jobs' \subseteq issued'
    BY <1>d DEF IInv, TableInv
  <2>2. ASSUME NEW i \in Jobs PROVE TableOf(i)'
    BY <1>0, <1>a, <1>b, <1>d DEF IInv, TableInv, TableOf, Terminal
  <2> QED BY <2>1, <2>2 DEF TableInv
<1>6. ProcInv'
  <2>1. ASSUME NEW i \in Jobs PROVE ProcOfJob(i)'
    BY <1>0, <1>d DEF IInv, ProcInv, ProcOfJob
  <2>2. ASSUME NEW d \in Calls PROVE ProcOfCall(d)'
    BY <1>0, <1>d DEF IInv, ProcInv, ProcOfCall, RemoveLabels
  <2> QED BY <2>1, <2>2 DEF ProcInv
<1>7. CgroupInv'
  <2>1. ASSUME NEW d \in Calls PROVE CgroupOfCall(d)'
    BY <1>0, <1>d DEF IInv, CgroupInv, CgroupOfCall
  <2>2. ASSUME NEW i \in Jobs PROVE CgroupOfJob(i)'
    BY <1>0, <1>b, <1>d DEF IInv, CgroupInv, CgroupOfJob, Populated
  <2> QED BY <2>1, <2>2 DEF CgroupInv
<1>8. CopyInv'
  <2> SUFFICES ASSUME NEW d \in Calls PROVE CopyOf(d)'
    BY DEF CopyInv
  <2>1. CASE d = c
    BY <1>0, <1>a, <1>b, <1>c, <1>d, <2>1 DEF CopyOf, j
  <2>2. CASE d # c
    <3>1. retval[d].State \in Terminal => target[d] \in Jobs /\ target[d] # j
      BY <1>g DEF IInv, CopyInv, CopyOf, TypeOK, TableOK
    <3> QED BY <1>0, <1>b, <1>c, <1>d, <2>2, <3>1 DEF IInv, CopyInv, CopyOf
  <2> QED BY <2>1, <2>2
<1>9. NoLostProcess'
  BY <1>0, <1>d DEF IInv, NoLostProcess
<1>h. \A i \in Jobs : pc'[i] = "finished" => pc[i] = "finished" /\ job'[i] = job[i]
  BY <1>0, <1>a, <1>b
<1>10. LeakIsReported' /\ ExitStatusSettles'
  <2>1. LeakIsReported'
    BY <1>d, <1>h DEF IInv, LeakIsReported
  <2>2. ExitStatusSettles'
    BY <1>d, <1>h DEF IInv, ExitStatusSettles
  <2> QED BY <2>1, <2>2
<1>11. StoppedByEntitled'
  <2> SUFFICES ASSUME NEW i \in Jobs, job'[i].State = "TerminatedByAPI"
               PROVE  \E d \in Calls : /\ op[d] = "Stop" /\ target[d] = i /\ pc'[d] = "ok"
                                       /\ who[d] \in Admins \cup {job'[i].ClientName}
    BY <1>d DEF StoppedByEntitled
  <2>1. CASE i = j
    BY <1>0, <1>a, <1>x, <1>b, <2>1 DEF j
  <2>2. CASE i # j
    <3>1. PICK d \in Calls : /\ op[d] = "Stop" /\ target[d] = i /\ pc[d] = "ok"
                             /\ who[d] \in Admins \cup {job[i].ClientName}
      BY <1>b, <2>2 DEF IInv, StoppedByEntitled
    <3> QED BY <1>0, <1>b, <2>2, <3>1
  <2> QED BY <2>1, <2>2
<1> QED BY <1>1, <1>2, <1>3, <1>4, <1>5, <1>6, <1>7, <1>8, <1>9, <1>10, <1>11 DEF IInv

\* cmd.Wait returns in the wait goroutine.
LEMMA WaiterReapInv ==
  ASSUME IInv, NEW j \in Jobs, WaiterReap(j)
  PROVE  IInv'
<1>0. pc[j] = "wait" /\ proc[j] = "zombie" /\ MovesWaiter(j, "rm_open") /\ j \in jobs
  BY GotoWaiter DEF WaiterReap, IInv, RemoveLabels, TableInv, TableOf
<1>b. /\ proc' \in [Jobs -> {"none", "running", "zombie", "reaped"}]
      /\ proc'[j] = "reaped"
      /\ \A i \in Jobs : i # j => proc'[i] = proc[i]
  BY DEF WaiterReap, IInv, TypeOK, KernelOK
<1>d. UNCHANGED <<op, who, target, retval, mu, jobs, job, clientToJobID, issued, cgroups, logs, children, killed, wstatus>>
  BY DEF WaiterReap
<1> USE DEF MovesWaiter
<1>1. TypeOK'
  BY <1>0, <1>b, <1>d DEF IInv, TypeOK, CallsOK, TableOK, KernelOK
<1>2. LockInv' /\ FreshInv'
  BY <1>0, <1>d DEF IInv, LockInv, FreshInv, TypeOK, TableOK
<1>3. ArgInv' /\ CopyInv'
  BY <1>0, <1>d DEF IInv, ArgInv, ArgOf, Entitled, CopyInv, CopyOf
<1>5. TableInv'
  BY <1>0, <1>d DEF IInv, TableInv, TableOf
<1>6. ProcInv'
  <2>1. ASSUME NEW i \in Jobs PROVE ProcOfJob(i)'
    BY <1>0, <1>b, <1>d DEF IInv, ProcInv, ProcOfJob, TableInv
  <2>2. ASSUME NEW d \in Calls PROVE ProcOfCall(d)'
    <3>1. pc[d] \in Starting => target[d] \in Jobs /\ target[d] # j
      BY <1>0 DEF IInv, ArgInv, ArgOf, TypeOK, TableOK
    <3>2. pc[d] \in Holding => target[d] \in Jobs
      BY DEF IInv, ArgInv, ArgOf, TypeOK, TableOK
    <3> QED BY <1>0, <1>b, <1>d, <3>1, <3>2 DEF IInv, ProcInv, ProcOfCall, Starting, Holding
  <2> QED BY <2>1, <2>2 DEF ProcInv
<1>7. CgroupInv'
  <2>1. ASSUME NEW d \in Calls PROVE CgroupOfCall(d)'
    BY <1>0, <1>d DEF IInv, CgroupInv, CgroupOfCall
  <2>2. ASSUME NEW i \in Jobs PROVE CgroupOfJob(i)'
    BY <1>0, <1>b, <1>d DEF IInv, CgroupInv, CgroupOfJob, Populated, Purged
  <2> QED BY <2>1, <2>2 DEF CgroupInv
<1>9. NoLostProcess'
  BY <1>0, <1>b, <1>d DEF IInv, NoLostProcess
<1>10. LeakIsReported' /\ ExitStatusSettles'
  BY <1>0, <1>d DEF IInv, LeakIsReported, ExitStatusSettles
<1>11. StoppedByEntitled'
  BY <1>0, <1>d DEF IInv, StoppedByEntitled
<1> QED BY <1>1, <1>2, <1>3, <1>5, <1>6, <1>7, <1>9, <1>10, <1>11 DEF IInv

\* The last update of the wait goroutine, on a job that Stop may have ended.
LEMMA WaiterUpdateInv ==
  ASSUME IInv, NEW j \in Jobs, WaiterUpdate(j)
  PROVE  IInv'
<1>0. /\ pc[j] \in {"update", "update_rmerr"} /\ mu = {}
      /\ MovesWaiter(j, "finished")
      /\ j \in jobs /\ job[j].State \in {"Running", "TerminatedByAPI"}
  <2>1. job[j].State \in JobStates
    BY DEF IInv, TypeOK, TableOK, Job
  <2> QED BY <2>1, GotoWaiter DEF WaiterUpdate, IInv, WaiterLabels, TableInv, TableOf, JobStates
<1>b. /\ job' \in [Jobs -> Job]
      /\ job'[j].ClientName = job[j].ClientName
      /\ job'[j].State = IF job[j].State = "TerminatedByAPI" THEN "TerminatedByAPI" ELSE "Completed"
      /\ job'[j].Ended
      /\ job'[j].ExitCode = wstatus[j]
      /\ job'[j].SignalStr = IF wstatus[j] = -1 THEN "killed" ELSE ""
      /\ pc[j] = "update_rmerr" => "cgroup not removed" \in job'[j].Mesg
      /\ \A i \in Jobs : i # j => job'[i] = job[i]
  <2>1. job' = [job EXCEPT ![j] = Updated(j)]
    BY DEF WaiterUpdate
  <2>2. job \in [Jobs -> Job] /\ job[j] \in Job /\ wstatus[j] \in ExitCodes \cup {-1, 0}
    BY DEF IInv, TypeOK, TableOK, KernelOK
  <2>3. job[j].State = "TerminatedByAPI" => job[j].Ended
    BY DEF IInv, TableInv, TableOf, Terminal
  <2> QED BY <2>1, <2>2, <2>3, UpdatedFacts
<1>d. UNCHANGED <<op, who, target, retval, mu, jobs, clientToJobID, issued, cgroups, logs, proc, children, killed, wstatus>>
  BY DEF WaiterUpdate
<1>f. \A d \in Calls : pc[d] \notin Holding
  BY <1>0 DEF IInv, LockInv
<1> USE DEF MovesWaiter
<1>1. TypeOK'
  BY <1>0, <1>b, <1>d DEF IInv, TypeOK, CallsOK, TableOK, KernelOK
<1>2. LockInv' /\ FreshInv'
  BY <1>0, <1>d DEF IInv, LockInv, FreshInv, TypeOK, TableOK
<1>3. ArgInv'
  BY <1>0, <1>d, <1>f DEF IInv, ArgInv, ArgOf
<1>4. CopyInv'
  <2> SUFFICES ASSUME NEW d \in Calls PROVE CopyOf(d)'
    BY DEF CopyInv
  <2>1. retval[d].State \in Terminal => target[d] \in Jobs
    BY DEF IInv, CopyInv, CopyOf, TypeOK, TableOK
  <2> QED BY <1>0, <1>b, <1>d, <2>1 DEF IInv, CopyInv, CopyOf, Terminal
<1>5. TableInv'
  <2>1. jobs' \subseteq issued'
    BY <1>d DEF IInv, TableInv
  <2>2. ASSUME NEW i \in Jobs PROVE TableOf(i)'
    <3>1. TableOf(i)
      BY DEF IInv, TableInv
    <3>2. CASE i = j
      BY <1>0, <1>b, <1>d, <3>1, <3>2 DEF TableOf, Terminal
    <3>3. CASE i # j
      BY <1>0, <1>b, <1>d, <3>1, <3>3 DEF TableOf
    <3> QED BY <3>2, <3>3
  <2> QED BY <2>1, <2>2 DEF TableInv
<1>6. ProcInv'
  <2>1. ASSUME NEW i \in Jobs PROVE ProcOfJob(i)'
    BY <1>0, <1>d DEF IInv, ProcInv, ProcOfJob
  <2>2. ASSUME NEW d \in Calls PROVE ProcOfCall(d)'
    BY <1>0, <1>d DEF IInv, ProcInv, ProcOfCall
  <2> QED BY <2>1, <2>2 DEF ProcInv
<1>7. CgroupInv'
  <2>1. ASSUME NEW d \in Calls PROVE CgroupOfCall(d)'
    BY <1>0, <1>d DEF IInv, CgroupInv, CgroupOfCall
  <2>2. ASSUME NEW i \in Jobs PROVE CgroupOfJob(i)'
    BY <1>0, <1>b, <1>d DEF IInv, CgroupInv, CgroupOfJob, Populated, Purged
  <2> QED BY <2>1, <2>2 DEF CgroupInv
<1>8. NoLostProcess'
  BY <1>0, <1>d DEF IInv, NoLostProcess
<1>9. LeakIsReported'
  <2>1. pc[j] = "update" => <<job[j].ClientName, j>> \notin cgroups
    BY DEF IInv, CgroupInv, CgroupOfJob
  <2> QED BY <1>0, <1>b, <1>d, <2>1 DEF IInv, LeakIsReported
<1>10. ExitStatusSettles'
  <2> SUFFICES ASSUME NEW i \in Jobs, pc'[i] = "finished"
               PROVE  /\ job'[i].ExitCode = wstatus[i]
                      /\ job'[i].SignalStr = IF wstatus[i] = -1 THEN "killed" ELSE ""
    BY <1>d DEF ExitStatusSettles
  <2>1. CASE i = j
    BY <1>b, <2>1
  <2>2. CASE i # j
    <3>1. pc[i] = "finished" /\ job'[i] = job[i]
      BY <1>0, <1>b, <2>2
    <3> QED BY <3>1 DEF IInv, ExitStatusSettles
  <2> QED BY <2>1, <2>2
<1>11. StoppedByEntitled'
  <2> SUFFICES ASSUME NEW i \in Jobs, job'[i].State = "TerminatedByAPI"
               PROVE  \E d \in Calls : /\ op[d] = "Stop" /\ target[d] = i /\ pc'[d] = "ok"
                                       /\ who[d] \in Admins \cup {job'[i].ClientName}
    BY <1>d DEF StoppedByEntitled
  <2>1. job[i].State = "TerminatedByAPI" /\ job'[i].ClientName = job[i].ClientName
    BY <1>b
  <2>2. PICK d \in Calls : /\ op[d] = "Stop" /\ target[d] = i /\ pc[d] = "ok"
                           /\ who[d] \in Admins \cup {job[i].ClientName}
    BY <2>1 DEF IInv, StoppedByEntitled
  <2> QED BY <1>0, <2>1, <2>2
<1> QED BY <1>1, <1>2, <1>3, <1>4, <1>5, <1>6, <1>7, <1>8, <1>9, <1>10, <1>11 DEF IInv

\* What processes do by themselves keeps the invariant.
LEMMA KernelInv ==
  ASSUME IInv, NEW j \in Jobs, Kernel(j)
  PROVE  IInv'
<1>0. UNCHANGED <<pc, op, who, target, retval, mu, jobs, job, clientToJobID, issued, cgroups, logs, killed>>
  BY DEF Kernel, ProcessExit, ChildFork, ChildrenExit
<1>1. LockInv' /\ ArgInv' /\ FreshInv' /\ TableInv' /\ CopyInv'
  BY <1>0 DEF IInv, LockInv, ArgInv, ArgOf, Entitled, FreshInv, TableInv, TableOf, CopyInv, CopyOf
<1>2. LeakIsReported' /\ StoppedByEntitled'
  BY <1>0 DEF IInv, LeakIsReported, StoppedByEntitled
<1>3. ASSUME NEW d \in Calls PROVE CgroupOfCall(d)'
  BY <1>0 DEF IInv, CgroupInv, CgroupOfCall
<1>4. CASE ProcessExit(j)
  <2>0. /\ proc[j] = "running"
        /\ proc' \in [Jobs -> {"none", "running", "zombie", "reaped"}]
        /\ proc'[j] = "zombie" /\ \A i \in Jobs : i # j => proc'[i] = proc[i]
        /\ wstatus' \in [Jobs -> ExitCodes \cup {-1, 0}]
        /\ \A i \in Jobs : i # j => wstatus'[i] = wstatus[i]
        /\ children' = children
    BY <1>4 DEF ProcessExit, IInv, TypeOK, KernelOK
  <2>1. TypeOK'
    BY <1>0, <2>0 DEF IInv, TypeOK, LabelsOK, CallsOK, TableOK, KernelOK
  <2>2. ASSUME NEW i \in Jobs PROVE ProcOfJob(i)'
    BY <1>0, <2>0 DEF IInv, ProcInv, ProcOfJob
  <2>3. ASSUME NEW d \in Calls PROVE ProcOfCall(d)'
    <3>1. pc[d] \in Starting \cup Holding => target[d] \in Jobs
      BY DEF IInv, ArgInv, ArgOf, TypeOK, TableOK
    <3> QED BY <1>0, <2>0, <3>1 DEF IInv, ProcInv, ProcOfCall, Starting, Holding
  <2>4. ASSUME NEW i \in Jobs PROVE CgroupOfJob(i)'
    BY <1>0, <2>0 DEF IInv, CgroupInv, CgroupOfJob, Populated
  <2>5. NoLostProcess'
    BY <1>0, <2>0 DEF IInv, NoLostProcess
  <2>6. ExitStatusSettles'
    <3>1. pc[j] # "finished"
      BY <2>0 DEF IInv, ProcInv, ProcOfJob
    <3> QED BY <1>0, <2>0, <3>1 DEF IInv, ExitStatusSettles
  <2> QED BY <1>1, <1>2, <1>3, <2>1, <2>2, <2>3, <2>4, <2>5, <2>6 DEF IInv, ProcInv, CgroupInv
<1>5. CASE ChildFork(j) \/ ChildrenExit(j)
  <2>0. /\ children' \in [Jobs -> BOOLEAN]
        /\ \A i \in Jobs : i # j => children'[i] = children[i]
        /\ children'[j] => children[j] \/ proc[j] = "running"
        /\ UNCHANGED <<proc, wstatus>>
    BY <1>5 DEF ChildFork, ChildrenExit, IInv, TypeOK, KernelOK
  <2>1. TypeOK'
    BY <1>0, <2>0 DEF IInv, TypeOK, LabelsOK, CallsOK, TableOK, KernelOK
  <2>2. ASSUME NEW i \in Jobs PROVE ProcOfJob(i)'
    BY <1>0, <2>0 DEF IInv, ProcInv, ProcOfJob
  <2>3. ASSUME NEW d \in Calls PROVE ProcOfCall(d)'
    BY <1>0, <2>0 DEF IInv, ProcInv, ProcOfCall
  <2>4. ASSUME NEW i \in Jobs PROVE CgroupOfJob(i)'
    <3>1. pc[i] \in Purged => proc[i] = "reaped"
      BY DEF IInv, ProcInv, ProcOfJob, Purged
    <3> QED BY <1>0, <2>0, <3>1 DEF IInv, CgroupInv, CgroupOfJob, Populated
  <2>5. NoLostProcess' /\ ExitStatusSettles'
    BY <1>0, <2>0 DEF IInv, NoLostProcess, ExitStatusSettles
  <2> QED BY <1>1, <1>2, <1>3, <2>1, <2>2, <2>3, <2>4, <2>5 DEF IInv, ProcInv, CgroupInv
<1> QED BY <1>4, <1>5 DEF Kernel

\* The first step of each operation.
LEMMA BeginInv ==
  ASSUME IInv, NEW c \in Calls, Start(c) \/ Status(c) \/ Stop(c)
  PROVE  IInv'
<1>0. pc[c] = "idle" /\ target[c] \in Jobs \cup {""}
      /\ target \in [Calls -> Jobs \cup {""}]
  BY DEF Start, Status, Stop, IInv, TypeOK, CallsOK
<1>1. CASE Start(c)
  <2>1. \/ \E cl \in Clients : Begins(c, "Start", cl, target[c], "err")
        \/ \E cl \in Clients, j \in Jobs : Begins(c, "Start", cl, j, "st_cgroup")
    BY <1>0, <1>1 DEF Start, Begins
  <2> QED BY <1>0, <2>1, CallBegins
<1>2. CASE Status(c)
  <2>1. \E cl \in Clients, j \in Jobs, l \in {"err", "find"} : Begins(c, "Status", cl, j, l)
    BY <1>2 DEF Status, Begins
  <2> QED BY <1>0, <2>1, CallBegins
<1>3. CASE Stop(c)
  <2>1. \E cl \in Clients, j \in Jobs, l \in {"err", "find"} : Begins(c, "Stop", cl, j, l)
    BY <1>3 DEF Stop, Begins
  <2> QED BY <1>0, <2>1, CallBegins
<1> QED BY <1>1, <1>2, <1>3

\* Every later step of Start.
LEMMA StartStepInv ==
  ASSUME IInv, NEW c \in Calls, StartStep(c)
  PROVE  IInv'
<1>1. CASE createJobCgroup(c)
  <2>1. pc[c] = "st_cgroup" /\ \E l \in {"err", "st_file"} : Advances(c, l)
    BY <1>1, Dirs DEF createJobCgroup, Advances, IInv, TypeOK, KernelOK
  <2> QED BY <2>1, StartAdvances
<1>2. CASE StartCreateFile(c)
  <2>0. pc[c] = "st_file" /\ target[c] \in Jobs /\ <<who[c], target[c]>> \in cgroups
    BY <1>2 DEF StartCreateFile, IInv, ArgInv, ArgOf, Starting, CgroupInv, CgroupOfCall, TypeOK, TableOK
  <2>1. \E l \in {"err", "st_exec"} : Advances(c, l)
    BY <1>2, <2>0 DEF StartCreateFile, Advances, IInv, TypeOK, KernelOK
  <2> QED BY <2>0, <2>1, StartAdvances
<1>3. CASE StartExec(c)
  <2>0. pc[c] = "st_exec" /\ <<who[c], target[c]>> \in cgroups
    BY <1>3 DEF StartExec, IInv, CgroupInv, CgroupOfCall
  <2>1. \E l \in {"err", "st_register"} : Advances(c, l)
    BY <1>3, <2>0 DEF StartExec, Advances, IInv, TypeOK, KernelOK
  <2> QED BY <2>0, <2>1, StartAdvances
<1> QED BY <1>1, <1>2, <1>3, StartRegisterInv DEF StartStep

\* A step that leaves tables and kernel alone is a CgroupChange.
LEMMA NoChange ==
  ASSUME TypeOK, UNCHANGED <<op, who, target, tableVars, kernelVars>>
  PROVE  CgroupChange
  BY DEF TypeOK, KernelOK, CgroupChange, OnlyEmptyRemoved

\* The steps of Stop and Status outside the cgroup functions.
LEMMA StopStepInv ==
  ASSUME IInv, NEW c \in Calls, StopStep(c)
  PROVE  IInv'
<1>0. /\ TypeOK /\ LockInv
      /\ retval \in [Calls -> Job] /\ job \in [Jobs -> Job] /\ mu \in SUBSET Calls /\ jobs \in SUBSET Jobs
      /\ ArgOf(c)
  BY DEF IInv, ArgInv, TypeOK, CallsOK, TableOK
<1> USE DEF Starting, Holding, RemoveLabels
<1>1. CASE findJobByJobID(c)
  <2>0. pc[c] = "find" /\ UNCHANGED <<mu, retval>> /\ c \notin mu /\ CgroupChange
    BY <1>0, <1>1, NoChange DEF findJobByJobID, LockInv
  <2>1. \E l \in {"err", "copy"} : Goto(c, l) /\ (l = "copy" => target[c] \in jobs)
    BY <1>1 DEF findJobByJobID
  <2>2. PICK l \in {"err", "copy"} : Goto(c, l) /\ (l = "copy" => target[c] \in jobs)
    BY <2>1
  <2>3. MayMove(c, l) /\ LockMoves(c, l) /\ CopyMoves(c, l)
    BY <1>0, <2>0, <2>2 DEF MayMove, LockMoves, CopyMoves
  <2> QED BY <2>0, <2>2, <2>3, CallMove DEF CallLabels
<1>2. CASE deepCopyJobFromPointer(c)
  <2>0. /\ pc[c] = "copy" /\ UNCHANGED mu /\ c \notin mu /\ target[c] \in jobs /\ target[c] \in Jobs
        /\ CgroupChange
    BY <1>0, <1>2, NoChange DEF deepCopyJobFromPointer, LockInv, ArgOf
  <2>1. PICK l \in {"err", "ok", "sp_lock"} :
           /\ Goto(c, l) /\ (l = "sp_lock" => op[c] = "Stop")
           /\ \/ retval' = retval
              \/ retval' = [retval EXCEPT ![c] = job[target[c]]]
    BY <1>2 DEF deepCopyJobFromPointer
  <2>2. MayMove(c, l) /\ LockMoves(c, l)
    BY <2>0, <2>1 DEF MayMove, LockMoves
  <2>3. CopyMoves(c, l)
    BY <1>0, <2>0, <2>1 DEF CopyMoves
  <2> QED BY <2>0, <2>1, <2>2, <2>3, CallMove DEF CallLabels
<1>3. CASE StopLock(c)
  <2>0. /\ pc[c] = "sp_lock" /\ mu = {} /\ UNCHANGED retval /\ target[c] \in jobs /\ op[c] = "Stop"
        /\ CgroupChange
    BY <1>0, <1>3, NoChange DEF StopLock, ArgOf
  <2>1. job[target[c]].State \notin Terminal => job[target[c]].State = "Running"
    <3>1. target[c] \in Jobs /\ job[target[c]].State \in JobStates /\ job[target[c]].State # "Unspecified"
      BY <1>0, <2>0 DEF IInv, Job, TableInv, TableOf
    <3> QED BY <3>1 DEF JobStates, Terminal
  <2>2. PICK l \in {"err", "ok", "kill_open"} :
           /\ Goto(c, l)
           /\ mu' = IF l = "kill_open" THEN {c} ELSE {}
           /\ l = "kill_open" => Entitled(c) /\ job[target[c]].State \notin Terminal
    BY <1>3 DEF StopLock
  <2>3. MayMove(c, l) /\ LockMoves(c, l) /\ CopyMoves(c, l)
    BY <1>0, <2>0, <2>1, <2>2 DEF MayMove, LockMoves, CopyMoves
  <2> QED BY <2>0, <2>2, <2>3, CallMove DEF CallLabels
<1>4. CASE StopPoll(c)
  <2>0. /\ pc[c] = "poll" /\ UNCHANGED <<mu, retval>> /\ mu = {c} /\ Goto(c, "rm_open")
        /\ proc[target[c]] = "reaped" /\ CgroupChange
    BY <1>0, <1>4, NoChange DEF StopPoll, ProcessGone, LockInv
  <2>1. MayMove(c, "rm_open") /\ LockMoves(c, "rm_open") /\ CopyMoves(c, "rm_open")
    BY <1>0, <2>0 DEF MayMove, LockMoves, CopyMoves, ArgOf
  <2> QED BY <2>0, <2>1, CallMove
<1> QED BY <1>1, <1>2, <1>3, <1>4, StopFinishInv DEF StopStep

\* Writing the kill file and removing the directory are a CgroupChange: Rmdir
\* succeeds on an empty cgroup only.
LEMMA RemoveChange ==
  ASSUME IInv, NEW t \in Threads, pc[t] \in Holding, KillFileWrite(t) \/ RemoveRmdir(t)
  PROVE  CgroupChange
<1>1. JobOf(t) \in jobs /\ JobOf(t) \in Jobs /\ JobDir(t) = <<ClientOf(t), JobOf(t)>>
  BY ConstantsAssumption DEF IInv, ArgInv, ArgOf, TableInv, TableOf, JobOf, JobDir, Threads, Holding, RemoveLabels, TypeOK, TableOK
<1>2. CASE KillFileWrite(t)
  BY <1>1, <1>2 DEF KillFileWrite, Kill, IInv, TypeOK, KernelOK, CgroupChange, OnlyEmptyRemoved
<1>3. CASE RemoveRmdir(t)
  <2>1. /\ cgroups' \subseteq cgroups
        /\ \A d \in cgroups : d \notin cgroups' => d = JobDir(t) /\ ~Populated(JobOf(t))
        /\ UNCHANGED <<op, who, target, tableVars, logs, proc, children, killed, wstatus>>
    BY <1>3 DEF RemoveRmdir
  <2>2. OnlyEmptyRemoved
    BY <1>1, <2>1 DEF OnlyEmptyRemoved
  <2> QED BY <2>1, <2>2 DEF IInv, TypeOK, KernelOK, CgroupChange
<1> QED BY <1>2, <1>3

\* terminateJob and removeJobCgroup, run by Stop with mu locked.
LEMMA CallCgroupInv ==
  ASSUME IInv, NEW c \in Calls, CgroupStep(c)
  PROVE  IInv'
<1>0. /\ TypeOK /\ LockInv /\ ArgOf(c) /\ ProcOfCall(c)
      /\ retval \in [Calls -> Job] /\ mu \in SUBSET Calls
  BY DEF IInv, ArgInv, ProcInv, TypeOK, CallsOK, TableOK
<1>1. /\ pc[c] \in {"kill_open", "kill_write"} \cup RemoveLabels
      /\ pc[c] \in Holding /\ mu = {c} /\ UNCHANGED retval
  BY <1>0 DEF CgroupStep, KillFileOpen, KillFileWrite, Kill, RemoveStat, RemoveRmdir, LockInv, Holding, RemoveLabels
<1>2. CgroupChange
  BY <1>0, <1>1, NoChange, RemoveChange DEF CgroupStep, KillFileOpen, RemoveStat, Threads
<1>3. PICK l \in {"kill_write", "poll", "rm_write", "rm_stat", "rm_rmdir", "sp_finish", "err"} :
         /\ Goto(c, l)
         /\ mu' = IF l = "err" THEN mu \ {c} ELSE mu
         /\ l \in {"rm_write", "rm_stat", "rm_rmdir", "sp_finish"} => pc[c] \in RemoveLabels
  BY DEF CgroupStep, KillFileOpen, KillFileWrite, Kill, RemoveStat, RemoveRmdir, CgroupError, CgroupRemoved, RemoveLabels
<1>4. MayMove(c, l) /\ LockMoves(c, l) /\ CopyMoves(c, l)
  BY <1>0, <1>1, <1>3 DEF MayMove, LockMoves, CopyMoves, ArgOf, ProcOfCall, Starting, Holding, RemoveLabels
<1> QED BY <1>2, <1>3, <1>4, CallMove DEF CallLabels, RemoveLabels

\* removeJobCgroup, run by the wait goroutine without a lock.
LEMMA WaiterCgroupInv ==
  ASSUME IInv, NEW j \in Jobs, CgroupStep(j)
  PROVE  IInv'
<1>0. /\ TypeOK /\ pc[j] \in WaiterLabels \cup RemoveLabels /\ j \in Threads /\ j \notin Calls
      /\ j \in jobs /\ JobOf(j) = j /\ JobDir(j) = <<job[j].ClientName, j>>
      /\ (proc[j] = "reaped" <=> pc[j] \notin {"none", "wait"})
      /\ CgroupOfJob(j)
  BY Dirs, ConstantsAssumption DEF IInv, TypeOK, LabelsOK, Threads, JobOf, TableInv, TableOf, ProcInv, ProcOfJob, CgroupInv,
     CgroupStep, KillFileOpen, KillFileWrite, RemoveStat, RemoveRmdir
<1>1. pc[j] \in RemoveLabels /\ proc[j] = "reaped"
  BY <1>0 DEF CgroupStep, KillFileOpen, KillFileWrite, Kill, RemoveStat, RemoveRmdir, WaiterLabels, RemoveLabels
<1>2. CgroupChange /\ UNCHANGED <<mu, retval>>
  BY <1>0, <1>1, NoChange, RemoveChange DEF CgroupStep, KillFileOpen, KillFileWrite, Kill, RemoveStat, RemoveRmdir, CgroupError, Holding
<1>3. PICK l \in RemoveLabels \cup {"update", "update_rmerr"} :
         /\ Goto(j, l)
         /\ l \in Purged /\ children[j] => killed'[j]
         /\ l = "update" => <<job[j].ClientName, j>> \notin cgroups'
  <2>1. CASE KillFileOpen(j)
    BY <1>0, <1>1, <2>1 DEF KillFileOpen, CgroupOfJob, Populated, RemoveLabels, Purged
  <2>2. CASE KillFileWrite(j)
    BY <1>0, <1>1, <2>2 DEF KillFileWrite, Kill, CgroupError, CgroupOfJob, Populated, RemoveLabels, Purged, IInv, TypeOK, KernelOK
  <2>3. CASE RemoveStat(j)
    BY <1>0, <1>1, <2>3 DEF RemoveStat, CgroupRemoved, CgroupOfJob, RemoveLabels, Purged
  <2>4. CASE RemoveRmdir(j)
    BY <1>0, <1>1, <2>4 DEF RemoveRmdir, CgroupRemoved, CgroupError, CgroupOfJob, RemoveLabels, Purged
  <2> QED BY <2>1, <2>2, <2>3, <2>4 DEF CgroupStep
<1> QED BY <1>1, <1>2, <1>3, WaiterMove
=============================================================================

----------------------------- MODULE JobsLibInv -----------------------------
(* The inductive invariant of JobsLib: what is true between any two steps, *)
(* said in enough detail that each step keeps it.                          *)
EXTENDS JobsLib

Starting == {"st_cgroup", "st_file", "st_exec", "st_register"}

\* The part of Stop that runs with mu locked.
Holding == RemoveLabels \cup {"kill_open", "kill_write", "poll", "sp_finish"}

\* The part of removeJobCgroup after its terminateJob, and what follows it.
Purged == {"rm_stat", "rm_rmdir", "update", "update_rmerr", "finished"}

\* mu is held by the one call inside Stop's critical section.
LockInv ==
    /\ \A c \in Calls : pc[c] \in Holding => mu = {c}
    /\ \A c \in mu : pc[c] \in Holding

\* What a call knows of its own arguments at each point.
ArgOf(c) ==
    /\ pc[c] \in Starting => /\ who[c] \in Clients
                             /\ target[c] \in issued \ jobs
    /\ pc[c] = "find" => target[c] \in Jobs
    /\ pc[c] \in Holding \cup {"copy", "sp_lock"} => target[c] \in jobs
    /\ pc[c] \in Holding \cup {"sp_lock"} => op[c] = "Stop"
    /\ pc[c] \in Holding => /\ job[target[c]].State = "Running"
                            /\ Entitled(c)

ArgInv == \A c \in Calls : ArgOf(c)

\* Two calls of Start never work on the same job ID.
FreshInv ==
    \A c, d \in Calls :
        pc[c] \in Starting /\ pc[d] \in Starting /\ target[c] = target[d] => c = d

\* A job is in the table exactly from when its wait goroutine runs, and its
\* State tells how far the goroutine and Stop have come.
TableOf(j) ==
    /\ j \in jobs <=> pc[j] # "none"
    /\ j \in jobs <=> job[j].State # "Unspecified"
    /\ job[j].State \in Terminal => job[j].Ended /\ pc[j] \notin {"none", "wait"}
    /\ job[j].Ended => j \in jobs
    /\ job[j].State = "Completed" => pc[j] = "finished"
    /\ pc[j] = "finished" => job[j].State \in Terminal

TableInv ==
    /\ jobs \subseteq issued
    /\ \A j \in Jobs : TableOf(j)

\* How far the process is, seen from each thread that works on the job.
ProcOfJob(j) ==
    /\ j \notin issued => proc[j] = "none"
    /\ pc[j] = "wait" => proc[j] \in {"running", "zombie"}
    /\ proc[j] = "reaped" <=> pc[j] \notin {"none", "wait"}
    /\ children[j] => proc[j] # "none"

ProcOfCall(c) ==
    /\ pc[c] \in {"st_cgroup", "st_file", "st_exec"} => proc[target[c]] = "none"
    /\ pc[c] = "st_register" => proc[target[c]] \in {"running", "zombie"}
    /\ pc[c] \in RemoveLabels \cup {"sp_finish"} => proc[target[c]] = "reaped"

ProcInv ==
    /\ \A j \in Jobs : ProcOfJob(j)
    /\ \A c \in Calls : ProcOfCall(c)

\* A job's processes have their cgroup; past the kill none is unkilled.
CgroupOfCall(c) ==
    pc[c] \in {"st_file", "st_exec", "st_register"} => <<who[c], target[c]>> \in cgroups

CgroupOfJob(j) ==
    /\ j \in jobs /\ Populated(j) => <<job[j].ClientName, j>> \in cgroups
    /\ pc[j] \in Purged /\ children[j] => killed[j]
    /\ pc[j] = "update" => <<job[j].ClientName, j>> \notin cgroups

CgroupInv ==
    /\ \A c \in Calls : CgroupOfCall(c)
    /\ \A j \in Jobs : CgroupOfJob(j)

\* A copy with a terminal State was made of a job with that State.
CopyOf(c) ==
    retval[c].State \in Terminal =>
        /\ pc[c] \in Holding \cup {"sp_lock", "ok", "err"}
        /\ target[c] \in jobs
        /\ job[target[c]].State = retval[c].State

CopyInv == \A c \in Calls : CopyOf(c)

\* The inductive invariant of the library: the parts above and those safety
\* properties that carry themselves over a step once the parts are known.
IInv ==
    /\ TypeOK /\ LockInv /\ ArgInv /\ FreshInv /\ TableInv /\ ProcInv
    /\ CgroupInv /\ CopyInv
    /\ NoLostProcess /\ LeakIsReported /\ ExitStatusSettles /\ StoppedByEntitled
=============================================================================

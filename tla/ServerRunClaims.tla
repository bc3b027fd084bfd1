--------------------------- MODULE ServerRunClaims ---------------------------
(* A statement of the repository about the teardown that its code does not *)
(* meet, refuted by TLC.                                                   *)
EXTENDS ServerRun

\* cgroups.go:214: "tears down the jobmaster cgroup hierarchy after first
\* terminating any running client job/process".  The kill takes its time, and
\* Rmdir fails with EBUSY meanwhile; and a directory that ReadDir listed may
\* be removed by its wait goroutine first, which is an error too.  Runs that
\* their configuration ends before there is anything to tear down are left out.
TeardownRemovesAll ==
    ~faulty /\ config = "good" /\ outcome \in {"ok", "err"} => ~parent
==============================================================================

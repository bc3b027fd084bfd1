---------------------------- MODULE JobsLibClaims ----------------------------
(* A statement of the repository about the job library that its code does  *)
(* not meet, refuted by TLC.                                               *)
EXTENDS JobsLib

\* jobs.proto:25: "The superuser would be able to stop any job".  terminateJob
\* is given the caller's name and finds no kill file below it, so the process
\* runs on and Stop polls for it, with mu locked.
AcceptedStopReturns ==
    \A c \in Calls : pc[c] = "kill_open" ~> pc[c] \in {"ok", "err"}
==============================================================================

---------------------------- MODULE JobLifecycle ----------------------------
(***************************************************************************)
(* What the job library promises about one job after the other: a job is   *)
(* published while nobody has collected its process yet, it is reported as *)
(* Running until the process has been collected, and then as ended, in one *)
(* of two ways, once and for all.                                          *)
(***************************************************************************)
CONSTANT Jobs

VARIABLES
    state,   \* job -> the State a client would be shown
    alive    \* job -> "not started", "started" or "collected"

vars == <<state, alive>>

Init == /\ state = [j \in Jobs |-> "Unspecified"]
        /\ alive = [j \in Jobs |-> "not started"]

Launch(j) == /\ alive[j] = "not started"
             /\ alive' = [alive EXCEPT ![j] = "started"]
             /\ UNCHANGED state

Publish(j) == /\ alive[j] = "started" /\ state[j] = "Unspecified"
              /\ state' = [state EXCEPT ![j] = "Running"]
              /\ UNCHANGED alive

Collect(j) == /\ alive[j] = "started" /\ state[j] = "Running"
              /\ alive' = [alive EXCEPT ![j] = "collected"]
              /\ UNCHANGED state

End(j) == /\ alive[j] = "collected" /\ state[j] = "Running"
          /\ \E s \in {"TerminatedByAPI", "Completed"} :
               state' = [state EXCEPT ![j] = s]
          /\ UNCHANGED alive

Next == \E j \in Jobs : Launch(j) \/ Publish(j) \/ Collect(j) \/ End(j)

Spec == Init /\ [][Next]_vars
==============================================================================

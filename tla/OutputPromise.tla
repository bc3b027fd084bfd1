---------------------------- MODULE OutputPromise ----------------------------
(***************************************************************************)
(* What StreamOutput promises of the output of jobs, as far as the code    *)
(* keeps it: every stream sends its job's output from the beginning, in    *)
(* order and each byte once, and nothing before it was written; a stream   *)
(* of a job that had ended ends well only with all of the output, any      *)
(* other only after some job's process has gone, which need not be its own *)
(* where there are several.  How the streams learn of new output, and that *)
(* live streams may miss the last of it, is left open.                     *)
(***************************************************************************)
EXTENDS Naturals

CONSTANTS Jobs, Readers, MaxLen

VARIABLES
    written,  \* job -> length of its output
    life,     \* job -> "none", "running", "exited" (its process), "ended" (in the table)
    stream,   \* reader -> "none", "live", "final", "complete" or "failed"
    of,       \* reader -> the job it streams
    sent      \* reader -> how much of the output it has been sent

vars == <<written, life, stream, of, sent>>

Init ==
    /\ written = [j \in Jobs |-> 0]
    /\ life = [j \in Jobs |-> "none"]
    /\ stream = [r \in Readers |-> "none"]
    /\ of \in [Readers -> Jobs]
    /\ sent = [r \in Readers |-> 0]

\* The processes of a job write until the job is recorded as ended.
Write(j) ==
    /\ life[j] \in {"running", "exited"} /\ written[j] < MaxLen
    /\ written' = [written EXCEPT ![j] = @ + 1]
    /\ UNCHANGED <<life, stream, of, sent>>

Advance(j) ==
    /\ life' = [life EXCEPT ![j] = CASE @ = "none" -> "running"
                                     [] @ = "running" -> "exited"
                                     [] OTHER -> "ended"]
    /\ UNCHANGED <<written, stream, of, sent>>

Open(r, j) ==
    /\ stream[r] = "none"
    /\ of' = [of EXCEPT ![r] = j]
    /\ stream' = [stream EXCEPT ![r] = IF life[j] = "ended" THEN "final" ELSE "live"]
    /\ UNCHANGED <<written, life, sent>>

Refuse(r) ==
    /\ stream[r] = "none"
    /\ stream' = [stream EXCEPT ![r] = "failed"]
    /\ UNCHANGED <<written, life, of, sent>>

\* What the stream still owes when it ends well.
Complete(r) ==
    IF stream[r] = "final" THEN sent'[r] = written[of[r]]
    ELSE \E j \in Jobs : life[j] \in {"exited", "ended"}

Send(r) ==
    /\ stream[r] \in {"live", "final"}
    /\ \E n \in sent[r]..written[of[r]] : sent' = [sent EXCEPT ![r] = n]
    /\ \E s \in {stream[r], "complete", "failed"} :
         /\ s = "complete" => Complete(r)
         /\ stream' = [stream EXCEPT ![r] = s]
    /\ UNCHANGED <<written, life, of>>

Next ==
    \/ \E j \in Jobs : Write(j) \/ Advance(j)
    \/ \E r \in Readers : Refuse(r) \/ Send(r) \/ \E j \in Jobs : Open(r, j)

Spec == Init /\ [][Next]_vars

-----------------------------------------------------------------------------
(* What the promise comes to                                               *)

\* A stream has never been sent more than its job has written.
OnlyWritten == \A r \in Readers : sent[r] <= written[of[r]]

\* A stream only moves forward in the output of one job, and not at all before it
\* is opened or after it has ended, well or not.
OnceInOrder ==
    [][\A r \in Readers :
         /\ sent'[r] >= sent[r]
         /\ sent'[r] # sent[r] => stream[r] \in {"live", "final"}
         /\ stream[r] # "none" => of'[r] = of[r]
         /\ stream[r] \in {"complete", "failed"} => stream'[r] = stream[r]]_vars

\* A stream of a job that had ended ends well only when it has been sent all that
\* the job has written, and nothing is added to the output of such a job.
EndedIsWhole ==
    [][/\ \A r \in Readers : stream[r] = "final" /\ stream'[r] = "complete" =>
            life[of[r]] = "ended" /\ sent'[r] = written[of[r]]
       /\ \A j \in Jobs : life[j] = "ended" => life'[j] = "ended" /\ written'[j] = written[j]]_vars
==============================================================================

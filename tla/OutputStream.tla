---------------------------- MODULE OutputStream ----------------------------
(***************************************************************************)
(* How the output of a job reaches the callers of StreamOutput: the output *)
(* file and its inotify events, the Watcher goroutine of each job          *)
(* (jobslib/watcher.go) and the StreamOutput handlers                      *)
(* (api/server/server_impl.go), which meet in two objects of JobsLib that  *)
(* all jobs share: the mutex WatcherLock and the condition variable        *)
(* CvEvent with its mutex L.                                               *)
(*                                                                         *)
(* Of Start, Stop and the wait goroutine only what the streams can see is  *)
(* kept; module JobsLib has the rest.  A job's output is its length in     *)
(* units of which a read buffer holds Chunk.  The environment is the       *)
(* kernel, the job's processes and the RPC clients.                        *)
(***************************************************************************)
EXTENDS Integers, FiniteSets

CONSTANTS
    Jobs,      \* jobs that Start launches
    Readers,   \* StreamOutput calls, each used once
    Chunk,     \* chunklenBytes
    MaxLen     \* bound: the longest output a job writes

ASSUME ConstantsAssumption ==
    /\ Jobs # {} /\ Jobs \cap Readers = {}
    /\ Chunk \in Nat \ {0}
    /\ MaxLen \in Nat

VARIABLES
    phase,        \* job -> none, launched (cmd.Start), Running and Ended (in the table)
    cancelled,    \* jobs whose wait goroutine has called wcancel
    fds,          \* job -> who has its output file open for writing
    len,          \* job -> length of its output file
    watch,        \* jobs whose output file has an inotify watch
    events,       \* job -> events queued on its inotify descriptor
    wpc,          \* job -> label of its Watcher
    WatcherLock,  \* holders of JobsLib.WatcherLock
    L,            \* holders of JobsLib.CvEvent.L
    waiting,      \* readers on the notify list of CvEvent
    rpc,          \* reader -> label of its StreamOutput
    rjob,         \* reader -> the job it streams
    currPos,      \* reader -> currPos
    bytesread,    \* reader -> bytesread
    eof           \* reader -> is err io.EOF (otherwise nil)

jobVars    == <<phase, cancelled, fds, len>>
watchVars  == <<watch, events, wpc>>
syncVars   == <<WatcherLock, L, waiting>>
readerVars == <<rpc, rjob, currPos, bytesread, eof>>
vars == <<phase, cancelled, fds, len, watch, events, wpc, WatcherLock, L,
          waiting, rpc, rjob, currPos, bytesread, eof>>

-----------------------------------------------------------------------------
WatcherLabels ==
    {"none", "setup", "lock", "check", "read_lock", "read", "note", "burst",
     "unlock", "bye", "done"}

ReaderLabels ==
    {"idle", "final", "top", "lock", "try", "let_go", "wait", "asleep", "out",
     "try_eof", "let_go_eof", "send", "final_ok", "live_ok", "err", "panic"}

\* Start's own descriptor and the ones that the job's main process and its
\* descendants inherit; all of them name one open file description.
Writers == {"start", "main", "descendant"}

TypeOK ==
    /\ phase \in [Jobs -> {"none", "launched", "Running", "Ended"}]
    /\ cancelled \subseteq Jobs
    /\ fds \in [Jobs -> SUBSET Writers]
    /\ len \in [Jobs -> 0..MaxLen]
    /\ watch \subseteq Jobs
    /\ events \in [Jobs -> SUBSET {"IN_MODIFY", "IN_CLOSE_WRITE"}]
    /\ wpc \in [Jobs -> WatcherLabels]
    /\ WatcherLock \subseteq Jobs \cup Readers
    /\ Cardinality(WatcherLock) <= 1
    /\ L \subseteq Jobs \cup Readers
    /\ Cardinality(L) <= 1
    /\ waiting \subseteq Readers
    /\ rpc \in [Readers -> ReaderLabels]
    /\ rjob \in [Readers -> Jobs]
    /\ currPos \in [Readers -> 0..MaxLen]
    /\ bytesread \in [Readers -> 0..Chunk]
    /\ eof \in [Readers -> BOOLEAN]

\* The rjob of a call that has not arrived means nothing.
Init ==
    /\ phase = [j \in Jobs |-> "none"]
    /\ cancelled = {}
    /\ fds = [j \in Jobs |-> {}]
    /\ len = [j \in Jobs |-> 0]
    /\ watch = {}
    /\ events = [j \in Jobs |-> {}]
    /\ wpc = [j \in Jobs |-> "none"]
    /\ WatcherLock = {}
    /\ L = {}
    /\ waiting = {}
    /\ rpc = [r \in Readers |-> "idle"]
    /\ rjob = [r \in Readers |-> CHOOSE j \in Jobs : TRUE]
    /\ currPos = [r \in Readers |-> 0]
    /\ bytesread = [r \in Readers |-> 0]
    /\ eof = [r \in Readers |-> FALSE]

-----------------------------------------------------------------------------
(* The output file.  Equal events that follow each other are merged by     *)
(* inotify, and no write comes after the last close, so a queue of events  *)
(* is a set.                                                               *)

Notify(j, event) ==
    events' = IF j \in watch THEN [events EXCEPT ![j] = @ \cup {event}] ELSE events

\* The kernel reports IN_CLOSE_WRITE when the last descriptor goes.
CloseFile(j, w) ==
    /\ w \in fds[j]
    /\ fds' = [fds EXCEPT ![j] = @ \ {w}]
    /\ IF fds'[j] = {} THEN Notify(j, "IN_CLOSE_WRITE") ELSE UNCHANGED events

-----------------------------------------------------------------------------
(* The life of a job, as far as its output is concerned                    *)

\* os.Create and a successful cmd.Start.
Launch(j) ==
    /\ phase[j] = "none"
    /\ phase' = [phase EXCEPT ![j] = "launched"]
    /\ fds' = [fds EXCEPT ![j] = {"start", "main"}]
    /\ UNCHANGED <<cancelled, len, watchVars, syncVars, readerVars>>

\* Start puts the job into the table; its wait goroutine starts the Watcher.
Register(j) ==
    /\ phase[j] = "launched"
    /\ phase' = [phase EXCEPT ![j] = "Running"]
    /\ wpc' = [wpc EXCEPT ![j] = "setup"]
    /\ UNCHANGED <<cancelled, fds, len, watch, events, syncVars, readerVars>>

\* Start's deferred joFile.Close, after its deferred mu.Unlock.
StartReturns(j) ==
    /\ phase[j] \in {"Running", "Ended"}
    /\ CloseFile(j, "start")
    /\ UNCHANGED <<phase, cancelled, len, watch, wpc, syncVars, readerVars>>

Fork(j) ==
    /\ "main" \in fds[j]
    /\ fds' = [fds EXCEPT ![j] = @ \cup {"descendant"}]
    /\ UNCHANGED <<phase, cancelled, len, watchVars, syncVars, readerVars>>

\* A job is not recorded as ended before its cgroup was sent SIGKILL, so
\* descendants write no more from then on.
Write(j) ==
    /\ "main" \in fds[j] \/ ("descendant" \in fds[j] /\ phase[j] # "Ended")
    /\ len[j] < MaxLen
    /\ len' = [len EXCEPT ![j] = @ + 1]
    /\ Notify(j, "IN_MODIFY")
    /\ UNCHANGED <<phase, cancelled, fds, watch, wpc, syncVars, readerVars>>

ProcessExit(j, w) ==
    /\ w # "start" /\ CloseFile(j, w)
    /\ UNCHANGED <<phase, cancelled, len, watch, wpc, syncVars, readerVars>>

\* Stop has seen the process go and sets TerminatedByAPI; it cancels nothing.
StopEnds(j) ==
    /\ phase[j] = "Running"
    /\ "main" \notin fds[j]
    /\ phase' = [phase EXCEPT ![j] = "Ended"]
    /\ UNCHANGED <<cancelled, fds, len, watchVars, syncVars, readerVars>>

\* The wait goroutine updates the job and calls wcancel.
WaiterEnds(j) ==
    /\ phase[j] \in {"Running", "Ended"}
    /\ "main" \notin fds[j]
    /\ j \notin cancelled
    /\ phase' = [phase EXCEPT ![j] = "Ended"]
    /\ cancelled' = cancelled \cup {j}
    /\ UNCHANGED <<fds, len, watchVars, syncVars, readerVars>>

-----------------------------------------------------------------------------
(* Watcher                                                                 *)

WatcherGoto(j, label) == wpc' = [wpc EXCEPT ![j] = label]

\* WaitForFile, InotifyInit and InotifyAddWatch.  The file exists since before
\* the goroutine does, so WaitForFile looks at the context and goes on.
WatcherSetup(j) ==
    /\ wpc[j] = "setup"
    /\ j \notin cancelled
    /\ watch' = watch \cup {j}
    /\ WatcherGoto(j, "lock")
    /\ UNCHANGED <<events, jobVars, syncVars, readerVars>>

\* The context is done already, or a call of the setup fails.
WatcherSetupFails(j) ==
    /\ wpc[j] = "setup"
    /\ WatcherGoto(j, "done")
    /\ UNCHANGED <<watch, events, jobVars, syncVars, readerVars>>

WatcherTakesLock(j) ==
    /\ wpc[j] = "lock"
    /\ WatcherLock = {}
    /\ WatcherLock' = {j}
    /\ WatcherGoto(j, "check")
    /\ UNCHANGED <<watch, events, L, waiting, jobVars, readerVars>>

\* The select on ctx.Done() at the head of the loop.
WatcherCheck(j) ==
    /\ wpc[j] = "check"
    /\ WatcherGoto(j, IF j \in cancelled THEN "unlock" ELSE "read_lock")
    /\ UNCHANGED <<watch, events, jobVars, syncVars, readerVars>>

WatcherReadLock(j) ==
    /\ wpc[j] = "read_lock"
    /\ L = {}
    /\ L' = {j}
    /\ WatcherGoto(j, "read")
    /\ UNCHANGED <<watch, events, WatcherLock, waiting, jobVars, readerVars>>

\* The read blocks, with L held, until there is an event; it takes them all.
WatcherRead(j) ==
    /\ wpc[j] = "read"
    /\ events[j] # {}
    /\ events' = [events EXCEPT ![j] = {}]
    /\ L' = {}
    /\ WatcherGoto(j, IF "IN_CLOSE_WRITE" \in events[j] THEN "burst" ELSE "note")
    /\ UNCHANGED <<watch, WatcherLock, waiting, jobVars, readerVars>>

\* The read fails: unlock and continue.
WatcherReadError(j) ==
    /\ wpc[j] = "read"
    /\ L' = {}
    /\ WatcherGoto(j, "check")
    /\ UNCHANGED <<watch, events, WatcherLock, waiting, jobVars, readerVars>>

\* Fault: nobody is woken.
Broadcast_Silent == UNCHANGED waiting

Broadcast == waiting' = {}

\* The broadcast for an IN_MODIFY.
WatcherNote(j) ==
    /\ wpc[j] = "note"
    /\ Broadcast
    /\ WatcherGoto(j, "check")
    /\ UNCHANGED <<watch, events, WatcherLock, L, jobVars, readerVars>>

\* One of the dozen broadcasts for an IN_CLOSE_WRITE.
WatcherBurst(j) ==
    /\ wpc[j] = "burst"
    /\ Broadcast
    /\ WatcherGoto(j, "burst") \/ WatcherGoto(j, "unlock")
    /\ UNCHANGED <<watch, events, WatcherLock, L, jobVars, readerVars>>

\* The deferred function: unlock, and only then the last broadcast.
WatcherUnlock(j) ==
    /\ wpc[j] = "unlock"
    /\ WatcherLock' = {}
    /\ WatcherGoto(j, "bye")
    /\ UNCHANGED <<watch, events, L, waiting, jobVars, readerVars>>

WatcherBye(j) ==
    /\ wpc[j] = "bye"
    /\ Broadcast
    /\ watch' = watch \ {j}
    /\ events' = [events EXCEPT ![j] = {}]
    /\ WatcherGoto(j, "done")
    /\ UNCHANGED <<WatcherLock, L, jobVars, readerVars>>

WatcherNext(j) ==
    \/ WatcherSetup(j) \/ WatcherSetupFails(j) \/ WatcherTakesLock(j)
    \/ WatcherCheck(j) \/ WatcherReadLock(j) \/ WatcherRead(j)
    \/ WatcherReadError(j) \/ WatcherNote(j) \/ WatcherBurst(j)
    \/ WatcherUnlock(j) \/ WatcherBye(j)

-----------------------------------------------------------------------------
(* StreamOutput                                                            *)

Goto(r, label) == rpc' = [rpc EXCEPT ![r] = label]

\* Fault: a read that overruns the buffer.
ReadLen_Unbounded(r) == len[rjob[r]] - currPos[r]

\* What fp.ReadAt(buffer, currPos) returns: a short read comes with io.EOF.
ReadLen(r) ==
    LET left == len[rjob[r]] - currPos[r] IN IF left < Chunk THEN left ELSE Chunk

ReadEOF(r) == ReadLen(r) < Chunk

Read(r) ==
    /\ bytesread' = [bytesread EXCEPT ![r] = ReadLen(r)]
    /\ eof' = [eof EXCEPT ![r] = ReadEOF(r)]

\* Fault: the loop for ended jobs as soon as the main process has gone.
FirstLoop_Exited(j) == IF "main" \notin fds[j] THEN "final" ELSE "top"

FirstLoop(j) == IF phase[j] = "Ended" THEN "final" ELSE "top"

\* StreamOutputSetup copies the job, and the copy's state picks the loop.
StreamOutput(r, j) ==
    /\ rpc[r] = "idle"
    /\ phase[j] \in {"Running", "Ended"}
    /\ rjob' = [rjob EXCEPT ![r] = j]
    /\ Goto(r, FirstLoop(j))
    /\ UNCHANGED <<currPos, bytesread, eof, jobVars, watchVars, syncVars>>

\* A refused caller, an unknown job, a file that cannot be opened.
StreamRefused(r) ==
    /\ rpc[r] = "idle"
    /\ Goto(r, "err")
    /\ UNCHANGED <<rjob, currPos, bytesread, eof, jobVars, watchVars, syncVars>>

\* The context of the call is done: looked at once per round of either loop.
StreamCancelled(r) ==
    /\ rpc[r] \in {"final", "top"}
    /\ Goto(r, "err")
    /\ UNCHANGED <<rjob, currPos, bytesread, eof, jobVars, watchVars, syncVars>>

\* Fault: what was read together with EOF is not sent.
FinalSent_DropsTail(r) == IF ReadEOF(r) THEN 0 ELSE ReadLen(r)

FinalSent(r) == ReadLen(r)

\* One round for an ended job: read and send.  After a full buffer err is nil
\* and the handler calls err.Error() on it, which it also does when ss.Send
\* fails: the status is the text of err, the result of the read.
FinalChunk(r) ==
    /\ rpc[r] = "final"
    /\ Read(r)
    /\ currPos' = [currPos EXCEPT ![r] = @ + FinalSent(r)]
    /\ IF ReadEOF(r) THEN Goto(r, "final_ok") \/ (ReadLen(r) > 0 /\ Goto(r, "err"))
       ELSE Goto(r, "panic")
    /\ UNCHANGED <<rjob, jobVars, watchVars, syncVars>>

LiveTop(r) ==
    /\ rpc[r] = "top"
    /\ Goto(r, "lock")
    /\ UNCHANGED <<rjob, currPos, bytesread, eof, jobVars, watchVars, syncVars>>

\* Fault: read once before looking at WatcherLock.
LiveFirst_Reads(r) == Read(r) /\ Goto(r, IF ReadLen(r) = 0 THEN "try" ELSE "out")

\* The head of the inner loop; err keeps its value.
LiveFirst(r) ==
    /\ bytesread' = [bytesread EXCEPT ![r] = 0]
    /\ Goto(r, "try") /\ UNCHANGED eof

LiveLock(r) ==
    /\ rpc[r] = "lock"
    /\ L = {}
    /\ L' = {r}
    /\ LiveFirst(r)
    /\ UNCHANGED <<rjob, currPos, WatcherLock, waiting, jobVars, watchVars>>

\* WatcherLock.TryLock(), in the inner loop and after an EOF, where a free lock
\* is taken to mean that no more output will come.
LiveTryLock(r) ==
    /\ rpc[r] \in {"try", "try_eof"}
    /\ IF WatcherLock = {}
       THEN /\ WatcherLock' = {r}
            /\ Goto(r, IF rpc[r] = "try" THEN "let_go" ELSE "let_go_eof")
       ELSE /\ UNCHANGED WatcherLock
            /\ Goto(r, IF rpc[r] = "try" THEN "wait" ELSE "send")
    /\ UNCHANGED <<rjob, currPos, bytesread, eof, L, waiting, jobVars, watchVars>>

\* Fault: no WatcherLock.Unlock().
LiveLetGo_KeepsLock(r) ==
    /\ rpc[r] \in {"let_go", "let_go_eof"}
    /\ Goto(r, IF rpc[r] = "let_go" THEN "out" ELSE "live_ok")
    /\ UNCHANGED <<rjob, currPos, bytesread, eof, syncVars, jobVars, watchVars>>

\* WatcherLock.Unlock(); then break, which skips the loop's ReadAt, or return
\* nil, with whatever was read still in the buffer.
LiveLetGo(r) ==
    /\ rpc[r] \in {"let_go", "let_go_eof"}
    /\ WatcherLock' = {}
    /\ Goto(r, IF rpc[r] = "let_go" THEN "out" ELSE "live_ok")
    /\ UNCHANGED <<rjob, currPos, bytesread, eof, L, waiting, jobVars, watchVars>>

\* CvEvent.Wait(): onto the notify list, release L, sleep.
LiveWait(r) ==
    /\ rpc[r] = "wait"
    /\ waiting' = waiting \cup {r}
    /\ L' = {}
    /\ Goto(r, "asleep")
    /\ UNCHANGED <<rjob, currPos, bytesread, eof, WatcherLock, jobVars, watchVars>>

\* Wait returns, with L locked again, and the loop's post statement reads.
LiveWake(r) ==
    /\ rpc[r] = "asleep"
    /\ r \notin waiting
    /\ L = {}
    /\ L' = {r}
    /\ Read(r)
    /\ Goto(r, IF ReadLen(r) = 0 THEN "try" ELSE "out")
    /\ UNCHANGED <<rjob, currPos, WatcherLock, waiting, jobVars, watchVars>>

LiveUnlock(r) ==
    /\ rpc[r] = "out"
    /\ L' = {}
    /\ Goto(r, IF eof[r] THEN "try_eof" ELSE "send")
    /\ UNCHANGED <<rjob, currPos, bytesread, eof, WatcherLock, waiting, jobVars, watchVars>>

LiveSend(r) ==
    /\ rpc[r] = "send"
    /\ currPos' = [currPos EXCEPT ![r] = @ + bytesread[r]]
    /\ Goto(r, "top") \/ (bytesread[r] > 0 /\ Goto(r, "err"))
    /\ UNCHANGED <<rjob, bytesread, eof, jobVars, watchVars, syncVars>>

ReaderNext(r) ==
    \/ \E j \in Jobs : StreamOutput(r, j)
    \/ StreamRefused(r) \/ StreamCancelled(r) \/ FinalChunk(r) \/ LiveTop(r)
    \/ LiveLock(r) \/ LiveTryLock(r) \/ LiveLetGo(r) \/ LiveWait(r) \/ LiveWake(r)
    \/ LiveUnlock(r) \/ LiveSend(r)

-----------------------------------------------------------------------------
\* A panic in a handler ends the server process; nothing recovers it.
Crashed == \E r \in Readers : rpc[r] = "panic"

JobNext(j) ==
    \/ Launch(j) \/ Register(j) \/ StartReturns(j) \/ Fork(j) \/ Write(j)
    \/ ProcessExit(j, "main") \/ ProcessExit(j, "descendant") \/ StopEnds(j) \/ WaiterEnds(j)

Next ==
    /\ ~Crashed
    /\ \/ \E j \in Jobs : JobNext(j) \/ WatcherNext(j)
       \/ \E r \in Readers : ReaderNext(r)

Spec == Init /\ [][Next]_vars

-----------------------------------------------------------------------------
(* Fairness.  A goroutine that can run does run: weak fairness.  One that  *)
(* waits for a mutex gets it in the end if the mutex keeps being released: *)
(* strong fairness, which Go's mutexes guarantee (starvation mode).  So    *)
(* does a read of the inotify descriptor that keeps being retried while    *)
(* events are queued.  Start, the wait goroutine and SIGKILL do their      *)
(* work.  Nothing makes a job write or exit, or a client call or cancel;   *)
(* a client takes what is sent to it or its Send fails.                    *)

ReaderRuns(r) ==
    ~Crashed /\ \/ FinalChunk(r) \/ LiveTop(r) \/ LiveTryLock(r) \/ LiveLetGo(r)
                \/ LiveWait(r) \/ LiveUnlock(r) \/ LiveSend(r)

WatcherRuns(j) ==
    ~Crashed /\ \/ WatcherSetup(j) \/ WatcherSetupFails(j) \/ WatcherCheck(j)
                \/ WatcherNote(j) \/ (WatcherBurst(j) /\ wpc'[j] = "unlock")
                \/ WatcherUnlock(j) \/ WatcherBye(j)

JobRuns(j) ==
    ~Crashed /\ \/ Register(j) \/ StartReturns(j) \/ WaiterEnds(j)
                \/ (phase[j] = "Ended" /\ ProcessExit(j, "descendant"))

Fairness ==
    /\ \A r \in Readers : /\ WF_vars(ReaderRuns(r))
                          /\ SF_vars(~Crashed /\ LiveLock(r))
                          /\ SF_vars(~Crashed /\ LiveWake(r))
    /\ \A j \in Jobs : /\ WF_vars(WatcherRuns(j))
                       /\ SF_vars(~Crashed /\ WatcherTakesLock(j))
                       /\ SF_vars(~Crashed /\ WatcherReadLock(j))
                       /\ SF_vars(~Crashed /\ WatcherRead(j))
                       /\ WF_vars(JobRuns(j))

FairSpec == Spec /\ Fairness

-----------------------------------------------------------------------------
(* Properties                                                              *)

\* StreamOutput of a job that had ended when it was called, and that returns
\* without an error, has sent the whole file: reading it without the watcher
\* is safe because nothing is written any more.
FinalStreamComplete ==
    \A r \in Readers : rpc[r] = "final_ok" => currPos[r] = len[rjob[r]]

\* A live stream that ends without an error does so after its job's process is
\* gone: an EOF seen before the Watcher locked WatcherLock never counts.
NoEarlyEnd ==
    \A r \in Readers : rpc[r] = "live_ok" => "main" \notin fds[rjob[r]]

\* Who has WatcherLock and who has L is what the labels say: a lock is never
\* taken twice, never kept by a goroutine that goes on without it, and never
\* unlocked by one that does not have it, which in Go is fatal.
LocksMatchLabels ==
    /\ WatcherLock =
         {j \in Jobs : wpc[j] \in {"check", "read_lock", "read", "note", "burst", "unlock"}}
         \cup {r \in Readers : rpc[r] \in {"let_go", "let_go_eof"}}
    /\ L = {j \in Jobs : wpc[j] = "read"}
           \cup {r \in Readers : rpc[r] \in {"try", "let_go", "wait", "out"}}

\* What a caller can tell of a job, and of a stream.
LifeOf ==
    [j \in Jobs |-> IF phase[j] = "none" THEN "none"
                    ELSE IF phase[j] = "Ended" THEN "ended"
                    ELSE IF "main" \in fds[j] THEN "running" ELSE "exited"]

StreamOf ==
    [r \in Readers |-> CASE rpc[r] = "idle" -> "none"
                         [] rpc[r] = "final" -> "final"
                         [] rpc[r] \in {"final_ok", "live_ok"} -> "complete"
                         [] rpc[r] \in {"err", "panic"} -> "failed"
                         [] OTHER -> "live"]

Promise == INSTANCE OutputPromise WITH
    written <- len, life <- LifeOf, stream <- StreamOf, of <- rjob, sent <- currPos

\* The streams keep OutputPromise: no byte twice, none that was not written and
\* none after the end of the stream, though count and error of the last read
\* outlive the round that read them; and an end without an error is one that
\* OutputPromise allows.  A panic fails its own stream.
KeepsOutputPromise == Promise!Spec

\* A reader asleep in CvEvent.Wait while events are queued for a running
\* Watcher is woken, although the Watcher needs L to see them.
PendingEventWakes ==
    \A r \in Readers :
        r \in waiting /\ events[rjob[r]] # {} /\ rjob[r] \in WatcherLock
            ~> r \notin waiting \/ Crashed

\* A Watcher with an IN_CLOSE_WRITE queued comes to its end, whatever the
\* readers do with the two locks.
CloseEndsWatch ==
    \A j \in Jobs : "IN_CLOSE_WRITE" \in events[j] ~> wpc[j] = "done" \/ Crashed
==============================================================================

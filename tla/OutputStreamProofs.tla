-------------------------- MODULE OutputStreamProofs --------------------------
(***************************************************************************)
(* Proofs about OutputStream, for any number of jobs and readers, any      *)
(* buffer size and output: type correctness, the use of the two locks, the *)
(* completeness of streams of ended jobs, and that OutputPromise is kept.  *)
(* That a live stream does not end before its own job's process is proved  *)
(* for a single job; with several, which share WatcherLock, it does not    *)
(* hold: OutputStream_claim_other.                                         *)
(***************************************************************************)
EXTENDS OutputStream, FiniteSetTheorems, TLAPS

\* A Watcher that has WatcherLock, and a reader that has it.
Holding == {"check", "read_lock", "read", "note", "burst", "unlock"}

LettingGo == {"let_go", "let_go_eof"}

LiveLabels == {"top", "lock", "try", "wait", "asleep", "out", "try_eof", "send"} \cup LettingGo

\* How far a job, its file and its Watcher are.
FileOK(j) ==
    /\ phase[j] = "none" => fds[j] = {}
    /\ phase[j] \in {"none", "launched"} => wpc[j] = "none"
    /\ phase[j] = "Ended" => "main" \notin fds[j]
    /\ j \in cancelled => phase[j] = "Ended"
    /\ j \in watch => wpc[j] # "none"
    /\ "IN_CLOSE_WRITE" \in events[j] => fds[j] = {} /\ wpc[j] # "none"
    /\ wpc[j] \in {"burst", "unlock", "bye"} => "main" \notin fds[j]
    /\ wpc[j] \in Holding => WatcherLock = {j}

FileInv == \A j \in Jobs : FileOK(j)

\* What a reader has sent, and what it is about to send, is in the file; the
\* file of a job that had ended stays as it is.
ReaderOK(r) ==
    /\ rpc[r] = "idle" => currPos[r] = 0 /\ ~eof[r]
    /\ rpc[r] \notin {"idle", "err"} => phase[rjob[r]] \in {"Running", "Ended"}
    /\ currPos[r] <= len[rjob[r]]
    /\ rpc[r] \in LiveLabels \ {"top", "lock"} => currPos[r] + bytesread[r] <= len[rjob[r]]
    /\ rpc[r] \in {"final", "final_ok"} => phase[rjob[r]] = "Ended"
    /\ rpc[r] = "final_ok" => currPos[r] = len[rjob[r]]
    /\ rpc[r] \in LettingGo => WatcherLock = {r}
    /\ rpc[r] \in {"try_eof", "let_go_eof"} => eof[r]

ReaderInv == \A r \in Readers : ReaderOK(r)

StreamInv == TypeOK /\ FileInv /\ ReaderInv

SingleJob == \A i, j \in Jobs : i = j

\* The job's Watcher has had WatcherLock, and does not give it back before the
\* process is gone.
Watched(j) ==
    /\ wpc[j] \in Holding \cup {"bye", "done"}
    /\ wpc[j] \in {"bye", "done"} => "main" \notin fds[j]

SomeoneWatched == \E j \in Jobs : Watched(j)

SomeoneGone == \E j \in Jobs : phase[j] # "none" /\ "main" \notin fds[j]

\* Whoever was woken was woken by a Watcher, and only then can have read; a
\* stream ends when no Watcher has WatcherLock any more.
WakeOK(r) ==
    /\ rpc[r] = "asleep" /\ r \notin waiting => SomeoneWatched
    /\ rpc[r] \in LiveLabels /\ eof[r] => SomeoneWatched
    /\ rpc[r] \in {"let_go_eof", "live_ok"} => SomeoneGone

WakeInv == \A r \in Readers : WakeOK(r)

\* The labels at which a reader has L.
LHolding == {"try", "let_go", "wait", "out"}

\* LocksMatchLabels in the form that is inductive: who is at a label with a lock
\* has it alone (for WatcherLock FileOK and ReaderOK say so), and who has a lock
\* is at such a label.
LockInv ==
    /\ \A j \in Jobs : /\ wpc[j] = "read" => L = {j}
                       /\ j \in L => wpc[j] = "read"
                       /\ j \in WatcherLock => wpc[j] \in Holding
    /\ \A r \in Readers : /\ rpc[r] \in LHolding => L = {r}
                          /\ r \in L => rpc[r] \in LHolding
                          /\ r \in WatcherLock => rpc[r] \in LettingGo

-----------------------------------------------------------------------------
\* Nobody or one holder.
LEMMA OneHolder == Cardinality({}) <= 1 /\ \A x : Cardinality({x}) <= 1
BY FS_EmptySet, FS_Singleton

\* Different holders make different locks.
LEMMA Singletons == \A x, y : {x} # {} /\ (x # y => {x} # {y})
OBVIOUS

\* Before the first job.
LEMMA StreamInvInit == Init => StreamInv
<1> SUFFICES ASSUME Init PROVE StreamInv
  OBVIOUS
<1>1. (CHOOSE j \in Jobs : TRUE) \in Jobs
  BY ConstantsAssumption
<1>2. TypeOK
  BY <1>1, OneHolder, ConstantsAssumption DEF Init, TypeOK, WatcherLabels, ReaderLabels
<1>3. FileInv
  BY DEF Init, FileInv, FileOK, Holding
<1>4. ReaderInv
  BY <1>1, ConstantsAssumption DEF Init, ReaderInv, ReaderOK, LiveLabels, LettingGo
<1> QED BY <1>2, <1>3, <1>4 DEF StreamInv

-----------------------------------------------------------------------------
(* The steps of a job                                                      *)

\* A job, its processes and Start's descriptor leave what was read as it is.
LEMMA JobStep ==
  ASSUME StreamInv, NEW j \in Jobs, JobNext(j) PROVE StreamInv'
<1> USE DEF StreamInv
<1>1. TypeOK'
  <2> USE DEF TypeOK, WatcherLabels, watchVars, syncVars, readerVars
  <2>1. CASE Launch(j)
    BY <2>1, ConstantsAssumption DEF Launch, Writers
  <2>2. CASE Register(j)
    BY <2>2, ConstantsAssumption DEF Register, Writers
  <2>3. CASE StartReturns(j)
    BY <2>3, ConstantsAssumption DEF StartReturns, CloseFile, Notify, Writers
  <2>4. CASE Fork(j)
    BY <2>4, ConstantsAssumption DEF Fork, Writers
  <2>5. CASE Write(j)
    BY <2>5, ConstantsAssumption DEF Write, Notify, Writers
  <2>6. CASE StopEnds(j)
    BY <2>6, ConstantsAssumption DEF StopEnds, Writers
  <2>7. CASE WaiterEnds(j)
    BY <2>7, ConstantsAssumption DEF WaiterEnds, Writers
  <2>8. ASSUME NEW w \in {"main", "descendant"}, ProcessExit(j, w) PROVE TypeOK'
    BY <2>8 DEF ProcessExit, CloseFile, Notify
  <2> QED BY <2>1, <2>2, <2>3, <2>4, <2>5, <2>6, <2>7, <2>8 DEF JobNext
<1>2. FileInv'
  <2> SUFFICES ASSUME NEW k \in Jobs PROVE FileOK(k)'
    BY DEF FileInv
  <2>0. FileOK(k) /\ FileOK(j)
    BY DEF FileInv
  <2> USE <2>0 DEF FileOK, TypeOK, watchVars, syncVars, readerVars
  <2>1. CASE Launch(j)
    BY <2>1 DEF Launch, Holding
  <2>2. CASE Register(j)
    BY <2>2 DEF Register, Holding
  <2>3. CASE StartReturns(j)
    BY <2>3 DEF StartReturns, CloseFile, Notify, Holding
  <2>4. CASE Fork(j)
    BY <2>4 DEF Fork, Holding
  <2>5. CASE Write(j)
    BY <2>5 DEF Write, Notify, Holding
  <2>6. CASE StopEnds(j)
    BY <2>6 DEF StopEnds, Holding
  <2>7. CASE WaiterEnds(j)
    BY <2>7 DEF WaiterEnds, Holding
  <2>8. ASSUME NEW w \in {"main", "descendant"}, ProcessExit(j, w) PROVE FileOK(k)'
    BY <2>8 DEF ProcessExit, CloseFile, Notify
  <2> QED BY <2>1, <2>2, <2>3, <2>4, <2>5, <2>6, <2>7, <2>8 DEF JobNext
<1>3. ReaderInv'
  <2>1. /\ UNCHANGED <<WatcherLock, rpc, rjob, currPos, bytesread, eof>>
        /\ \A k \in Jobs : /\ phase[k] \in {"Running", "Ended"} => phase'[k] \in {"Running", "Ended"}
                           /\ phase[k] = "Ended" => phase'[k] = "Ended" /\ len'[k] = len[k]
                           /\ len[k] <= len'[k]
                           /\ len[k] \in Nat /\ len'[k] \in Nat
    <3>0. \A k \in Jobs : len[k] \in Nat /\ len'[k] \in Nat
      BY <1>1, ConstantsAssumption DEF TypeOK
    <3> USE <3>0 DEF TypeOK, syncVars, readerVars
    <3>1. CASE Launch(j) \/ Register(j) \/ StopEnds(j) \/ WaiterEnds(j)
      BY <3>1 DEF Launch, Register, StopEnds, WaiterEnds
    <3>2. CASE StartReturns(j) \/ Fork(j) \/ ProcessExit(j, "main") \/ ProcessExit(j, "descendant")
      BY <3>2 DEF StartReturns, Fork, ProcessExit
    <3>3. CASE Write(j)
      <4>1. phase[j] # "Ended"
        BY <3>3 DEF Write, FileInv, FileOK
      <4> QED BY <3>3, <4>1, ConstantsAssumption DEF Write
    <3> QED BY <3>1, <3>2, <3>3 DEF JobNext
  <2>2. \A r \in Readers : rjob[r] \in Jobs /\ currPos[r] \in Nat /\ bytesread[r] \in Nat
    BY ConstantsAssumption DEF TypeOK
  <2> SUFFICES ASSUME NEW r \in Readers PROVE ReaderOK(r)'
    BY DEF ReaderInv
  <2>3. ReaderOK(r)
    BY DEF ReaderInv
  <2> QED BY <2>1, <2>2, <2>3 DEF ReaderOK
<1> QED BY <1>1, <1>2, <1>3

-----------------------------------------------------------------------------
(* The steps of a Watcher                                                  *)

\* A Watcher has WatcherLock exactly as long as its label says.
LEMMA WatcherStep ==
  ASSUME StreamInv, NEW j \in Jobs, WatcherNext(j) PROVE StreamInv'
<1> USE DEF StreamInv
<1>1. TypeOK'
  <2> USE OneHolder DEF TypeOK, WatcherLabels, WatcherGoto, jobVars, syncVars, readerVars, Broadcast
  <2>1. CASE WatcherSetup(j)
    BY <2>1 DEF WatcherSetup
  <2>2. CASE WatcherSetupFails(j)
    BY <2>2 DEF WatcherSetupFails
  <2>3. CASE WatcherTakesLock(j)
    BY <2>3 DEF WatcherTakesLock
  <2>4. CASE WatcherCheck(j)
    BY <2>4 DEF WatcherCheck
  <2>5. CASE WatcherReadLock(j)
    BY <2>5 DEF WatcherReadLock
  <2>6. CASE WatcherRead(j)
    BY <2>6 DEF WatcherRead
  <2>7. CASE WatcherReadError(j)
    BY <2>7 DEF WatcherReadError
  <2>8. CASE WatcherNote(j)
    BY <2>8 DEF WatcherNote
  <2>9. CASE WatcherBurst(j)
    BY <2>9 DEF WatcherBurst
  <2>10. CASE WatcherUnlock(j)
    BY <2>10 DEF WatcherUnlock
  <2>11. CASE WatcherBye(j)
    BY <2>11 DEF WatcherBye
  <2> QED BY <2>1, <2>2, <2>3, <2>4, <2>5, <2>6, <2>7, <2>8, <2>9, <2>10, <2>11 DEF WatcherNext
<1>2. FileInv'
  <2> SUFFICES ASSUME NEW k \in Jobs PROVE FileOK(k)'
    BY DEF FileInv
  <2>0. FileOK(k) /\ FileOK(j)
    BY DEF FileInv
  <2> USE <2>0 DEF FileOK, TypeOK, WatcherGoto, jobVars, syncVars, readerVars, Holding
  <2>1. CASE WatcherSetup(j)
    BY <2>1 DEF WatcherSetup
  <2>2. CASE WatcherSetupFails(j)
    BY <2>2 DEF WatcherSetupFails
  <2>3. CASE WatcherTakesLock(j)
    BY <2>3 DEF WatcherTakesLock
  <2>4. CASE WatcherCheck(j)
    BY <2>4 DEF WatcherCheck
  <2>5. CASE WatcherReadLock(j)
    BY <2>5 DEF WatcherReadLock
  <2>6. CASE WatcherRead(j)
    BY <2>6 DEF WatcherRead
  <2>7. CASE WatcherReadError(j)
    BY <2>7 DEF WatcherReadError
  <2>8. CASE WatcherNote(j)
    BY <2>8 DEF WatcherNote
  <2>9. CASE WatcherBurst(j)
    BY <2>9 DEF WatcherBurst
  <2>10. CASE WatcherUnlock(j)
    <3>1. CASE k = j
      BY <2>10, <3>1 DEF WatcherUnlock
    <3>2. CASE k # j
      <4>0. {k} # {j}
        BY <3>2, Singletons, Zenon
      <4>1. wpc[k] \notin Holding
        BY <2>10, <4>0 DEF WatcherUnlock
      <4> QED BY <2>10, <3>2, <4>1 DEF WatcherUnlock
    <3> QED BY <3>1, <3>2
  <2>11. CASE WatcherBye(j)
    BY <2>11 DEF WatcherBye
  <2> QED BY <2>1, <2>2, <2>3, <2>4, <2>5, <2>6, <2>7, <2>8, <2>9, <2>10, <2>11 DEF WatcherNext
<1>3. ReaderInv'
  <2>1. /\ UNCHANGED <<phase, len, rpc, rjob, currPos, bytesread, eof>>
        /\ WatcherLock = {j} \/ WatcherLock = {} \/ UNCHANGED WatcherLock
    BY DEF WatcherNext, WatcherSetup, WatcherSetupFails, WatcherTakesLock, WatcherCheck,
           WatcherReadLock, WatcherRead, WatcherReadError, WatcherNote, WatcherBurst,
           WatcherUnlock, WatcherBye, FileInv, FileOK, Holding, jobVars, syncVars, readerVars
  <2>2. \A r \in Readers : {r} # {j} /\ {r} # {}
    BY ConstantsAssumption
  <2> QED BY <2>1, <2>2 DEF ReaderInv, ReaderOK
<1> QED BY <1>1, <1>2, <1>3

-----------------------------------------------------------------------------
(* The steps of a reader                                                   *)

\* What ReadAt returns: no more than the buffer holds and the file has, and a
\* short read only at the end of the file.
LEMMA ReadBounds ==
  ASSUME TypeOK, NEW r \in Readers, ReaderOK(r)
  PROVE  /\ ReadLen(r) \in 0..Chunk /\ currPos[r] + ReadLen(r) \in 0..MaxLen
         /\ currPos[r] + ReadLen(r) <= len[rjob[r]]
         /\ ReadEOF(r) => currPos[r] + ReadLen(r) = len[rjob[r]]
<1>1. /\ len[rjob[r]] \in 0..MaxLen /\ currPos[r] \in 0..MaxLen
      /\ currPos[r] <= len[rjob[r]] /\ Chunk \in Nat \ {0} /\ MaxLen \in Nat
  BY ConstantsAssumption DEF TypeOK, ReaderOK
<1> QED BY <1>1 DEF ReadLen, ReadEOF

\* A reader sends only what is in the file, and takes and returns the locks.
LEMMA ReaderStep ==
  ASSUME StreamInv, NEW r \in Readers, ReaderNext(r) PROVE StreamInv'
<1> USE DEF StreamInv
<1>0. /\ ReaderOK(r) /\ ReadLen(r) \in 0..Chunk /\ currPos[r] + ReadLen(r) \in 0..MaxLen
      /\ currPos[r] + ReadLen(r) <= len[rjob[r]]
      /\ ReadEOF(r) => currPos[r] + ReadLen(r) = len[rjob[r]]
      /\ Chunk \in Nat \ {0} /\ MaxLen \in Nat
  BY ReadBounds, ConstantsAssumption DEF ReaderInv
<1>1. TypeOK'
  <2> USE <1>0, OneHolder DEF TypeOK, ReaderLabels, Goto, jobVars, syncVars, watchVars
  <2>1. CASE StreamRefused(r)
    BY <2>1 DEF StreamRefused
  <2>2. CASE StreamCancelled(r)
    BY <2>2 DEF StreamCancelled
  <2>3. CASE FinalChunk(r)
    <3>1. /\ currPos' = [currPos EXCEPT ![r] = currPos[r] + ReadLen(r)]
          /\ bytesread' = [bytesread EXCEPT ![r] = ReadLen(r)]
          /\ eof' = [eof EXCEPT ![r] = ReadEOF(r)] /\ ReadEOF(r) \in BOOLEAN
      BY <2>3 DEF FinalChunk, FinalSent, Read, ReadEOF
    <3>2. \E l \in {"final_ok", "err", "panic"} : rpc' = [rpc EXCEPT ![r] = l]
      BY <2>3 DEF FinalChunk
    <3> HIDE <1>0
    <3>3. /\ currPos' \in [Readers -> 0..MaxLen] /\ bytesread' \in [Readers -> 0..Chunk]
          /\ eof' \in [Readers -> BOOLEAN]
      BY <1>0, <3>1
    <3> QED BY <2>3, <3>2, <3>3 DEF FinalChunk
  <2>4. CASE LiveTop(r)
    BY <2>4 DEF LiveTop
  <2>5. CASE LiveLock(r)
    <3>1. bytesread' \in [Readers -> 0..Chunk]
      BY <2>5 DEF LiveLock, LiveFirst
    <3> QED BY <2>5, <3>1 DEF LiveLock, LiveFirst
  <2>6. CASE LiveTryLock(r)
    <3>1. CASE WatcherLock' = {r}
      <4>1. WatcherLock' \subseteq Jobs \cup Readers /\ Cardinality(WatcherLock') <= 1
        BY <3>1
      <4> QED BY <2>6, <4>1 DEF LiveTryLock
    <3>2. CASE WatcherLock' = WatcherLock
      BY <2>6, <3>2 DEF LiveTryLock
    <3> QED BY <2>6, <3>1, <3>2 DEF LiveTryLock
  <2>7. CASE LiveLetGo(r)
    BY <2>7 DEF LiveLetGo
  <2>8. CASE LiveWait(r)
    BY <2>8 DEF LiveWait
  <2>9. CASE LiveWake(r)
    <3>1. /\ bytesread' = [bytesread EXCEPT ![r] = ReadLen(r)]
          /\ eof' = [eof EXCEPT ![r] = ReadEOF(r)] /\ ReadEOF(r) \in BOOLEAN
      BY <2>9 DEF LiveWake, Read, ReadEOF
    <3>2. bytesread' \in [Readers -> 0..Chunk] /\ eof' \in [Readers -> BOOLEAN]
      BY <3>1
    <3> QED BY <2>9, <3>2 DEF LiveWake
  <2>10. CASE LiveUnlock(r)
    BY <2>10 DEF LiveUnlock
  <2>11. CASE LiveSend(r)
    <3>1. currPos[r] + bytesread[r] \in 0..MaxLen
      BY <2>11 DEF LiveSend, ReaderOK, LiveLabels
    <3>2. currPos' \in [Readers -> 0..MaxLen]
      BY <2>11, <3>1 DEF LiveSend
    <3> QED BY <2>11, <3>2 DEF LiveSend
  <2>12. ASSUME NEW j \in Jobs, StreamOutput(r, j) PROVE TypeOK'
    BY <2>12 DEF StreamOutput, FirstLoop
  <2> QED BY <2>1, <2>2, <2>3, <2>4, <2>5, <2>6, <2>7, <2>8, <2>9, <2>10, <2>11, <2>12 DEF ReaderNext
<1>2. FileInv'
  <2>1. /\ UNCHANGED <<phase, cancelled, fds, watch, events, wpc>>
        /\ WatcherLock = {r} \/ WatcherLock = {} \/ UNCHANGED WatcherLock
    BY <1>0 DEF ReaderNext, StreamOutput, StreamRefused, StreamCancelled, FinalChunk, LiveTop,
           LiveLock, LiveTryLock, LiveLetGo, LiveWait, LiveWake, LiveUnlock, LiveSend, ReaderOK,
           LettingGo, jobVars, syncVars, watchVars
  <2>2. \A k \in Jobs : {r} # {k} /\ {k} # {}
    BY ConstantsAssumption
  <2> QED BY <2>1, <2>2 DEF FileInv, FileOK
<1>3. ReaderInv'
  <2> SUFFICES ASSUME NEW q \in Readers PROVE ReaderOK(q)'
    BY DEF ReaderInv
  <2>0. ReaderOK(q)
    BY DEF ReaderInv
  <2> USE <1>0, <2>0 DEF ReaderOK, TypeOK, Goto, LiveLabels, LettingGo, jobVars, syncVars, watchVars
  <2>1. CASE StreamRefused(r)
    BY <2>1 DEF StreamRefused
  <2>2. CASE StreamCancelled(r)
    BY <2>2 DEF StreamCancelled
  <2>3. CASE FinalChunk(r)
    BY <2>3 DEF FinalChunk, FinalSent, Read
  <2>4. CASE LiveTop(r)
    BY <2>4 DEF LiveTop
  <2>5. CASE LiveLock(r)
    BY <2>5 DEF LiveLock, LiveFirst
  <2>6. CASE LiveTryLock(r)
    <3>1. CASE q = r
      BY <2>6, <3>1 DEF LiveTryLock
    <3>2. CASE q # r
      <4>1. rpc'[q] = rpc[q] /\ (WatcherLock = {q} => WatcherLock # {})
        BY <2>6, <3>2 DEF LiveTryLock
      <4> QED BY <2>6, <3>2, <4>1 DEF LiveTryLock
    <3> QED BY <3>1, <3>2
  <2>7. CASE LiveLetGo(r)
    BY <2>7 DEF LiveLetGo
  <2>8. CASE LiveWait(r)
    BY <2>8 DEF LiveWait
  <2>9. CASE LiveWake(r)
    BY <2>9 DEF LiveWake, Read
  <2>10. CASE LiveUnlock(r)
    BY <2>10 DEF LiveUnlock
  <2>11. CASE LiveSend(r)
    BY <2>11 DEF LiveSend
  <2>12. ASSUME NEW j \in Jobs, StreamOutput(r, j) PROVE ReaderOK(q)'
    BY <2>12 DEF StreamOutput, FirstLoop
  <2> QED BY <2>1, <2>2, <2>3, <2>4, <2>5, <2>6, <2>7, <2>8, <2>9, <2>10, <2>11, <2>12 DEF ReaderNext
<1> QED BY <1>1, <1>2, <1>3

\* Locks, labels, files and positions fit together in every reachable state.
THEOREM StreamInvariance == Spec => []StreamInv
<1>1. StreamInv /\ [Next]_vars => StreamInv'
  <2> SUFFICES ASSUME StreamInv, [Next]_vars PROVE StreamInv'
    OBVIOUS
  <2>1. CASE UNCHANGED vars
    BY <2>1 DEF vars, StreamInv, TypeOK, FileInv, FileOK, ReaderInv, ReaderOK
  <2> QED BY <2>1, JobStep, WatcherStep, ReaderStep DEF Next
<1> QED BY <1>1, StreamInvInit, PTL DEF Spec

\* No step gives a variable a value of another kind: each mutex has one holder
\* at most, no read overruns its buffer, no position the output.
THEOREM StreamTypeCorrect == Spec => []TypeOK
<1>1. StreamInv => TypeOK
  BY DEF StreamInv
<1> QED BY <1>1, StreamInvariance, PTL

\* The stream of an ended job that ends well has sent the whole file, however
\* many jobs and readers there are.
THEOREM FinalStreamsComplete == Spec => []FinalStreamComplete
<1>1. StreamInv => FinalStreamComplete
  BY DEF StreamInv, ReaderInv, ReaderOK, FinalStreamComplete
<1> QED BY <1>1, StreamInvariance, PTL

-----------------------------------------------------------------------------
(* The two locks                                                           *)

\* A Watcher takes L and WatcherLock when they are free and gives back its own.
LEMMA LockWatcher ==
  ASSUME StreamInv, LockInv, NEW j \in Jobs, WatcherNext(j) PROVE LockInv'
<1>0. TypeOK /\ FileOK(j) /\ UNCHANGED rpc /\ \A r \in Readers : r # j
  BY ConstantsAssumption
     DEF StreamInv, FileInv, WatcherNext, WatcherSetup, WatcherSetupFails, WatcherTakesLock, WatcherCheck,
         WatcherReadLock, WatcherRead, WatcherReadError, WatcherNote, WatcherBurst, WatcherUnlock, WatcherBye,
         readerVars
<1> USE <1>0 DEF LockInv, TypeOK, FileOK, WatcherGoto, Holding, syncVars
<1>1. CASE WatcherSetup(j)
  BY <1>1 DEF WatcherSetup
<1>2. CASE WatcherSetupFails(j)
  BY <1>2 DEF WatcherSetupFails
<1>3. CASE WatcherTakesLock(j)
  BY <1>3 DEF WatcherTakesLock
<1>4. CASE WatcherCheck(j)
  BY <1>4 DEF WatcherCheck
<1>5. CASE WatcherReadLock(j)
  BY <1>5 DEF WatcherReadLock
<1>6. CASE WatcherRead(j)
  BY <1>6 DEF WatcherRead
<1>7. CASE WatcherReadError(j)
  BY <1>7 DEF WatcherReadError
<1>8. CASE WatcherNote(j)
  BY <1>8 DEF WatcherNote
<1>9. CASE WatcherBurst(j)
  BY <1>9 DEF WatcherBurst
<1>10. CASE WatcherUnlock(j)
  BY <1>10 DEF WatcherUnlock
<1>11. CASE WatcherBye(j)
  BY <1>11 DEF WatcherBye
<1> QED BY <1>1, <1>2, <1>3, <1>4, <1>5, <1>6, <1>7, <1>8, <1>9, <1>10, <1>11 DEF WatcherNext

\* So does a reader.
LEMMA LockReader ==
  ASSUME StreamInv, LockInv, NEW r \in Readers, ReaderNext(r) PROVE LockInv'
<1>0. TypeOK /\ ReaderOK(r) /\ UNCHANGED wpc /\ \A j \in Jobs : r # j
  BY ConstantsAssumption
     DEF StreamInv, ReaderInv, ReaderNext, StreamOutput, StreamRefused, StreamCancelled, FinalChunk, LiveTop,
         LiveLock, LiveTryLock, LiveLetGo, LiveWait, LiveWake, LiveUnlock, LiveSend, watchVars
<1>a. \A j \in Jobs : L = {r} => wpc[j] # "read"
  <2> SUFFICES ASSUME NEW j \in Jobs PROVE L = {r} => wpc[j] # "read"
    OBVIOUS
  <2>1. wpc[j] = "read" => L = {j}
    BY DEF LockInv
  <2>2. {r} # {j}
    BY <1>0, Singletons
  <2> QED BY <2>1, <2>2
<1> USE <1>0 DEF LockInv, TypeOK, ReaderOK, Goto, LHolding, LettingGo, syncVars
<1>1. CASE StreamRefused(r) \/ StreamCancelled(r) \/ LiveTop(r) \/ LiveSend(r)
  BY <1>1 DEF StreamRefused, StreamCancelled, LiveTop, LiveSend
<1>2. CASE FinalChunk(r)
  BY <1>2 DEF FinalChunk
<1>3. CASE LiveLock(r)
  BY <1>3 DEF LiveLock, LiveFirst
<1>4. CASE LiveTryLock(r)
  BY <1>4 DEF LiveTryLock
<1>5. CASE LiveLetGo(r)
  BY <1>5 DEF LiveLetGo
<1>6. CASE LiveWait(r)
  <2>1. L = {r} /\ r \in L /\ L' = {} /\ rpc' = [rpc EXCEPT ![r] = rpc'[r]] /\ rpc'[r] \notin LHolding
    BY <1>6 DEF LiveWait
  <2>2. \A j \in Jobs : wpc[j] # "read"
    BY <1>a, <2>1
  <2>3. \A q \in Readers \ {r} : q \notin L /\ rpc[q] \notin LHolding
    BY <2>1
  <2> QED BY <1>6, <2>1, <2>2, <2>3 DEF LiveWait
<1>7. CASE LiveWake(r)
  BY <1>7 DEF LiveWake
<1>8. CASE LiveUnlock(r)
  <2>1. L = {r} /\ r \in L /\ L' = {} /\ rpc' = [rpc EXCEPT ![r] = rpc'[r]] /\ rpc'[r] \notin LHolding
    BY <1>8 DEF LiveUnlock
  <2>2. \A j \in Jobs : wpc[j] # "read"
    BY <1>a, <2>1
  <2>3. \A q \in Readers \ {r} : q \notin L /\ rpc[q] \notin LHolding
    BY <2>1
  <2> QED BY <1>8, <2>1, <2>2, <2>3 DEF LiveUnlock
<1>9. ASSUME NEW j \in Jobs, StreamOutput(r, j) PROVE LockInv'
  BY <1>9 DEF StreamOutput, FirstLoop
<1> QED BY <1>1, <1>2, <1>3, <1>4, <1>5, <1>6, <1>7, <1>8, <1>9 DEF ReaderNext

\* Watchers and readers use WatcherLock and L as their labels say: no goroutine
\* unlocks what it does not have, or leaves a lock locked behind it, however many
\* jobs and readers share the two.
THEOREM LocksAreUsedWell == Spec => []LocksMatchLabels
<1>1. Init => LockInv
  BY DEF Init, LockInv, LHolding
<1>2. StreamInv /\ LockInv /\ [Next]_vars => LockInv'
  <2> SUFFICES ASSUME StreamInv, LockInv, [Next]_vars PROVE LockInv'
    OBVIOUS
  <2>1. CASE UNCHANGED vars
    BY <2>1 DEF vars, LockInv
  <2>2. ASSUME NEW j \in Jobs, JobNext(j) PROVE LockInv'
    <3>1. /\ UNCHANGED <<WatcherLock, L, rpc>>
          /\ \A k \in Jobs : wpc'[k] = wpc[k] \/ (wpc[k] = "none" /\ wpc'[k] = "setup")
      BY <2>2 DEF StreamInv, FileInv, FileOK, TypeOK, JobNext, Launch, Register, StartReturns, Fork, Write,
                  ProcessExit, StopEnds, WaiterEnds, watchVars, syncVars, readerVars
    <3> QED BY <3>1 DEF LockInv, Holding
  <2> QED BY <2>1, <2>2, LockWatcher, LockReader DEF Next
<1>3. StreamInv /\ LockInv => LocksMatchLabels
  <2> SUFFICES ASSUME StreamInv, LockInv PROVE LocksMatchLabels
    OBVIOUS
  <2>1. /\ WatcherLock \subseteq Jobs \cup Readers /\ L \subseteq Jobs \cup Readers
        /\ \A j \in Jobs : wpc[j] \in Holding => j \in WatcherLock
        /\ \A r \in Readers : rpc[r] \in LettingGo => r \in WatcherLock
    BY DEF StreamInv, TypeOK, FileInv, FileOK, ReaderInv, ReaderOK
  <2> QED BY <2>1 DEF LockInv, LocksMatchLabels, Holding, LettingGo, LHolding
<1> QED BY <1>1, <1>2, <1>3, StreamInvariance, PTL DEF Spec

-----------------------------------------------------------------------------
(* Who wakes the readers                                                   *)

\* What a Watcher has gone through stays so, and no process comes back.
LEMMA WatchedStays ==
  ASSUME StreamInv, [Next]_vars
  PROVE  (SomeoneWatched => SomeoneWatched') /\ (SomeoneGone => SomeoneGone')
<1> USE DEF StreamInv
<1> SUFFICES ASSUME NEW j \in Jobs
             PROVE  /\ Watched(j) => Watched(j)'
                    /\ phase[j] # "none" /\ "main" \notin fds[j] =>
                           phase'[j] # "none" /\ "main" \notin fds'[j]
  BY DEF SomeoneWatched, SomeoneGone
<1>0. FileOK(j) /\ (Watched(j) => phase[j] \notin {"none", "launched"})
  BY DEF FileInv, FileOK, Watched, Holding
<1>1. ASSUME NEW k \in Jobs, JobNext(k) PROVE Watched(j) => wpc'[j] = wpc[j]
  BY <1>0, <1>1 DEF JobNext, Launch, Register, StartReturns, Fork, Write, ProcessExit, StopEnds,
              WaiterEnds, watchVars, TypeOK
<1>2. ASSUME NEW k \in Jobs, JobNext(k)
      PROVE  /\ phase[j] # "none" => phase'[j] # "none"
             /\ phase[j] # "none" /\ "main" \notin fds[j] => "main" \notin fds'[j]
  BY <1>2 DEF JobNext, Launch, Register, StartReturns, Fork, Write, ProcessExit, CloseFile, StopEnds,
              WaiterEnds, TypeOK
<1>3. ASSUME NEW k \in Jobs, WatcherNext(k) PROVE UNCHANGED <<phase, fds>> /\ (Watched(j) => Watched(j)')
  <2> USE <1>0 DEF FileOK, Watched, Holding, WatcherGoto, TypeOK, jobVars
  <2>1. CASE WatcherSetup(k)
    BY <2>1 DEF WatcherSetup
  <2>2. CASE WatcherSetupFails(k)
    BY <2>2 DEF WatcherSetupFails
  <2>3. CASE WatcherTakesLock(k)
    BY <2>3 DEF WatcherTakesLock
  <2>4. CASE WatcherCheck(k)
    BY <2>4 DEF WatcherCheck
  <2>5. CASE WatcherReadLock(k)
    BY <2>5 DEF WatcherReadLock
  <2>6. CASE WatcherRead(k)
    BY <2>6 DEF WatcherRead
  <2>7. CASE WatcherReadError(k)
    BY <2>7 DEF WatcherReadError
  <2>8. CASE WatcherNote(k)
    BY <2>8 DEF WatcherNote
  <2>9. CASE WatcherBurst(k)
    BY <2>9 DEF WatcherBurst
  <2>10. CASE WatcherUnlock(k)
    BY <2>10 DEF WatcherUnlock
  <2>11. CASE WatcherBye(k)
    BY <2>11 DEF WatcherBye
  <2> QED BY <1>3, <2>1, <2>2, <2>3, <2>4, <2>5, <2>6, <2>7, <2>8, <2>9, <2>10, <2>11 DEF WatcherNext
<1>4. ASSUME NEW r \in Readers, ReaderNext(r) PROVE UNCHANGED <<phase, wpc, fds>>
  BY <1>4 DEF ReaderNext, StreamOutput, StreamRefused, StreamCancelled, FinalChunk, LiveTop,
              LiveLock, LiveTryLock, LiveLetGo, LiveWait, LiveWake, LiveUnlock, LiveSend,
              jobVars, watchVars
<1>5. CASE UNCHANGED vars
  BY <1>5 DEF vars, Watched
<1> QED BY <1>0, <1>1, <1>2, <1>3, <1>4, <1>5 DEF Next, Watched

\* A broadcast comes from a Watcher, which by then has had WatcherLock.
LEMMA WakeWatcher ==
  ASSUME StreamInv, WakeInv, NEW j \in Jobs, WatcherNext(j), [Next]_vars
  PROVE  WakeInv'
<1> USE DEF StreamInv
<1>1. UNCHANGED <<rpc, eof, fds>>
  BY DEF WatcherNext, WatcherSetup, WatcherSetupFails, WatcherTakesLock, WatcherCheck,
         WatcherReadLock, WatcherRead, WatcherReadError, WatcherNote, WatcherBurst,
         WatcherUnlock, WatcherBye, jobVars, readerVars
<1>2. UNCHANGED waiting \/ Watched(j)'
  <2>1. FileOK(j)
    BY DEF FileInv
  <2>2. CASE WatcherNote(j) \/ WatcherBurst(j) \/ WatcherBye(j)
    BY <1>1, <2>1, <2>2
       DEF WatcherNote, WatcherBurst, WatcherBye, WatcherGoto, FileOK, Watched, Holding, TypeOK
  <2>3. CASE ~(WatcherNote(j) \/ WatcherBurst(j) \/ WatcherBye(j))
    BY <2>3 DEF WatcherNext, WatcherSetup, WatcherSetupFails, WatcherTakesLock, WatcherCheck,
           WatcherReadLock, WatcherRead, WatcherReadError, WatcherUnlock, syncVars
  <2> QED BY <2>2, <2>3
<1>3. Watched(j)' => SomeoneWatched'
  BY DEF SomeoneWatched
<1> QED BY <1>1, <1>2, <1>3, WatchedStays DEF WakeInv, WakeOK

\* A reader reads only after it was woken, and TryLock after an EOF succeeds only
\* when the Watcher has given WatcherLock back.
LEMMA WakeReader ==
  ASSUME StreamInv, WakeInv, NEW r \in Readers, ReaderNext(r), [Next]_vars PROVE WakeInv'
<1> USE DEF StreamInv
<1> SUFFICES ASSUME NEW q \in Readers PROVE WakeOK(q)'
  BY DEF WakeInv
<1>0. (SomeoneWatched => SomeoneWatched') /\ (SomeoneGone => SomeoneGone')
  BY WatchedStays
<1>1. WakeOK(q) /\ WakeOK(r) /\ ReaderOK(r)
  BY DEF WakeInv, ReaderInv
<1> USE <1>0, <1>1 DEF WakeOK, TypeOK, Goto, LiveLabels, LettingGo, syncVars
<1>2. CASE StreamRefused(r)
  BY <1>2 DEF StreamRefused
<1>3. CASE StreamCancelled(r)
  BY <1>3 DEF StreamCancelled
<1>4. CASE FinalChunk(r)
  <2>1. rpc'[r] \in {"final_ok", "err", "panic"} /\ \A x \in Readers \ {r} : rpc'[x] = rpc[x]
    BY <1>4 DEF FinalChunk
  <2>2. \A x \in Readers \ {r} : eof'[x] = eof[x]
    BY <1>4 DEF FinalChunk, Read
  <2> QED BY <1>4, <2>1, <2>2 DEF FinalChunk
<1>5. CASE LiveTop(r)
  BY <1>5 DEF LiveTop
<1>6. CASE LiveLock(r)
  BY <1>6 DEF LiveLock, LiveFirst
<1>7. CASE LiveTryLock(r)
  <2>1. ASSUME WatcherLock = {}, NEW j \in Jobs, Watched(j) PROVE SomeoneGone
    BY <2>1 DEF FileInv, FileOK, Watched, Holding, SomeoneGone
  <2>2. WatcherLock = {} /\ SomeoneWatched => SomeoneGone
    BY <2>1 DEF SomeoneWatched
  <2> QED BY <1>7, <2>2 DEF LiveTryLock, ReaderOK
<1>8. CASE LiveLetGo(r)
  BY <1>8 DEF LiveLetGo
<1>9. CASE LiveWait(r)
  BY <1>9 DEF LiveWait
<1>10. CASE LiveWake(r)
  BY <1>10 DEF LiveWake, Read
<1>11. CASE LiveUnlock(r)
  BY <1>11 DEF LiveUnlock
<1>12. CASE LiveSend(r)
  BY <1>12 DEF LiveSend
<1>13. ASSUME NEW j \in Jobs, StreamOutput(r, j) PROVE WakeOK(q)'
  BY <1>13 DEF StreamOutput, FirstLoop, ReaderOK
<1> QED BY <1>2, <1>3, <1>4, <1>5, <1>6, <1>7, <1>8, <1>9, <1>10, <1>11, <1>12, <1>13 DEF ReaderNext

\* Nobody is woken, and nobody reads, before some Watcher has WatcherLock, and no
\* stream ends well before some job's process.
LEMMA WakeInvariance == Spec => []WakeInv
<1>1. Init => WakeInv
  BY DEF Init, WakeInv, WakeOK, LiveLabels, LettingGo
<1>2. StreamInv /\ WakeInv /\ [Next]_vars => WakeInv'
  <2> SUFFICES ASSUME StreamInv, WakeInv, [Next]_vars PROVE WakeInv'
    OBVIOUS
  <2>1. CASE UNCHANGED vars
    BY <2>1 DEF vars, WakeInv, WakeOK, SomeoneWatched, SomeoneGone, Watched
  <2>2. ASSUME NEW j \in Jobs, JobNext(j) PROVE WakeInv'
    <3>1. UNCHANGED <<rpc, eof, waiting>>
      BY <2>2 DEF JobNext, Launch, Register, StartReturns, Fork, Write, ProcessExit, StopEnds, WaiterEnds,
             syncVars, readerVars
    <3> QED BY <3>1, WatchedStays DEF WakeInv, WakeOK
  <2> QED BY <2>1, <2>2, WakeWatcher, WakeReader DEF Next
<1> QED BY <1>1, <1>2, StreamInvariance, PTL DEF Spec

\* As long as there is one job, a live stream that ends without an error ends
\* after its job's process.
THEOREM NoStreamEndsEarly == ASSUME SingleJob PROVE Spec => []NoEarlyEnd
<1>1. StreamInv /\ WakeInv => NoEarlyEnd
  <2> SUFFICES ASSUME StreamInv, WakeInv, NEW r \in Readers, rpc[r] = "live_ok"
               PROVE  "main" \notin fds[rjob[r]]
    BY DEF NoEarlyEnd
  <2>1. PICK j \in Jobs : "main" \notin fds[j]
    BY DEF WakeInv, WakeOK, SomeoneGone
  <2>2. rjob[r] \in Jobs
    BY DEF StreamInv, TypeOK
  <2> QED BY <2>1, <2>2 DEF SingleJob
<1> QED BY <1>1, StreamInvariance, WakeInvariance, PTL

-----------------------------------------------------------------------------
(* OutputPromise                                                           *)

\* What OutputPromise sees of a label.
LEMMA StreamLabels ==
  ASSUME TypeOK, NEW r \in Readers
  PROVE  /\ rpc[r] = "idle" => StreamOf[r] = "none"
         /\ rpc[r] = "final" => StreamOf[r] = "final"
         /\ rpc[r] \in LiveLabels => StreamOf[r] = "live"
         /\ rpc[r] \in {"final_ok", "live_ok"} => StreamOf[r] = "complete"
         /\ rpc[r] \in {"err", "panic"} => StreamOf[r] = "failed"
BY DEF StreamOf, LiveLabels, LettingGo

\* Before the first job.
LEMMA PromiseInit == Init => Promise!Init
<1> SUFFICES ASSUME Init PROVE Promise!Init
  OBVIOUS
<1>1. rjob \in [Readers -> Jobs]
  BY ConstantsAssumption DEF Init
<1> QED BY <1>1 DEF Init, Promise!Init, LifeOf, StreamOf

\* A job gets further in life.
LEMMA PromiseAdvance ==
  ASSUME NEW j \in Jobs, UNCHANGED <<len, rpc, rjob, currPos>>,
         \A k \in Jobs \ {j} : LifeOf'[k] = LifeOf[k],
         \/ LifeOf[j] = "none" /\ LifeOf'[j] = "running"
         \/ LifeOf[j] = "running" /\ LifeOf'[j] = "exited"
         \/ LifeOf[j] \in {"exited", "ended"} /\ LifeOf'[j] = "ended"
  PROVE  Promise!Advance(j)
<1>1. StreamOf' = StreamOf
  BY DEF StreamOf
<1>2. LifeOf' = [LifeOf EXCEPT ![j] = CASE LifeOf[j] = "none" -> "running"
                                        [] LifeOf[j] = "running" -> "exited"
                                        [] OTHER -> "ended"]
  <2>1. LifeOf' = [k \in Jobs |-> LifeOf'[k]] /\ LifeOf = [k \in Jobs |-> LifeOf[k]]
    BY DEF LifeOf
  <2> HIDE DEF LifeOf
  <2> QED BY <2>1
<1> QED BY <1>1, <1>2 DEF Promise!Advance

\* The steps of a job.
LEMMA PromiseJob ==
  ASSUME StreamInv, NEW j \in Jobs, JobNext(j) PROVE [Promise!Next]_(Promise!vars)
<1>0. TypeOK /\ FileOK(j) /\ UNCHANGED <<rpc, rjob, currPos, StreamOf>>
  BY DEF StreamInv, FileInv, JobNext, Launch, Register, StartReturns, Fork, Write, ProcessExit, StopEnds,
         WaiterEnds, readerVars, StreamOf
<1>1. SUFFICES \/ UNCHANGED <<len, LifeOf>>
               \/ UNCHANGED len /\ Promise!Advance(j)
               \/ Promise!Write(j)
  BY <1>0, <1>1 DEF Promise!Next, Promise!vars
<1> USE <1>0 DEF TypeOK, FileOK
<1>2. CASE Launch(j)
  <2>1. LifeOf[j] = "none" /\ LifeOf'[j] = "running" /\ \A k \in Jobs \ {j} : LifeOf'[k] = LifeOf[k]
    BY <1>2 DEF Launch, LifeOf
  <2> QED BY <1>2, <2>1, PromiseAdvance DEF Launch
<1>3. CASE Register(j) \/ StartReturns(j) \/ Fork(j) \/ ProcessExit(j, "descendant")
  <2>1. UNCHANGED len
    BY <1>3 DEF Register, StartReturns, Fork, ProcessExit
  <2>2. \A k \in Jobs : /\ ("main" \in fds'[k]) = ("main" \in fds[k])
                        /\ phase'[k] = phase[k] \/ (phase[k] = "launched" /\ phase'[k] = "Running")
    BY <1>3 DEF Register, StartReturns, Fork, ProcessExit, CloseFile, watchVars
  <2>3. UNCHANGED LifeOf
    BY <2>2 DEF LifeOf
  <2> QED BY <2>1, <2>3
<1>4. CASE Write(j)
  <2>1. phase[j] \notin {"none", "Ended"}
    BY <1>4 DEF Write
  <2>2. LifeOf[j] \in {"running", "exited"} /\ UNCHANGED LifeOf
    BY <1>4, <2>1 DEF Write, LifeOf
  <2> QED BY <1>4, <2>2 DEF Write, Promise!Write
<1>5. CASE ProcessExit(j, "main")
  <2>1. "main" \in fds[j] /\ phase[j] \notin {"none", "Ended"} /\ UNCHANGED <<phase, len>>
    BY <1>5 DEF ProcessExit, CloseFile
  <2>2. "main" \notin fds'[j] /\ \A k \in Jobs \ {j} : fds'[k] = fds[k]
    BY <1>5 DEF ProcessExit, CloseFile
  <2>3. LifeOf[j] = "running" /\ LifeOf'[j] = "exited" /\ \A k \in Jobs \ {j} : LifeOf'[k] = LifeOf[k]
    BY <2>1, <2>2 DEF LifeOf
  <2> QED BY <2>1, <2>3, PromiseAdvance
<1>6. CASE StopEnds(j) \/ WaiterEnds(j)
  <2>1. /\ phase[j] \in {"Running", "Ended"} /\ "main" \notin fds[j] /\ UNCHANGED <<fds, len>>
        /\ phase' = [phase EXCEPT ![j] = "Ended"]
    BY <1>6 DEF StopEnds, WaiterEnds
  <2>2. /\ LifeOf[j] \in {"exited", "ended"} /\ LifeOf'[j] = "ended"
        /\ \A k \in Jobs \ {j} : LifeOf'[k] = LifeOf[k]
    BY <2>1 DEF LifeOf
  <2> QED BY <2>1, <2>2, PromiseAdvance
<1> QED BY <1>2, <1>3, <1>4, <1>5, <1>6 DEF JobNext

\* A reader goes on, or its stream ends.
LEMMA PromiseSend ==
  ASSUME NEW r \in Readers, UNCHANGED <<len, LifeOf, rjob>>,
         StreamOf[r] \in {"live", "final"},
         StreamOf' = [StreamOf EXCEPT ![r] = StreamOf'[r]],
         StreamOf'[r] \in {StreamOf[r], "complete", "failed"},
         currPos' = [currPos EXCEPT ![r] = currPos'[r]], currPos'[r] \in currPos[r]..len[rjob[r]],
         StreamOf'[r] = "complete" => Promise!Complete(r)
  PROVE  Promise!Send(r)
<1> DEFINE n == currPos'[r]
           s == StreamOf'[r]
<1>1. n \in currPos[r]..len[rjob[r]] /\ currPos' = [currPos EXCEPT ![r] = n]
  OBVIOUS
<1>2. /\ s \in {StreamOf[r], "complete", "failed"} /\ StreamOf' = [StreamOf EXCEPT ![r] = s]
      /\ s = "complete" => Promise!Complete(r)
  OBVIOUS
<1> HIDE DEF n, s
<1> QED BY <1>1, <1>2 DEF Promise!Send

\* The steps of a reader.
LEMMA PromiseReader ==
  ASSUME StreamInv, WakeInv, NEW r \in Readers, ReaderNext(r), TypeOK'
  PROVE  [Promise!Next]_(Promise!vars)
<1>0. TypeOK /\ ReaderOK(r) /\ WakeOK(r) /\ rjob[r] \in Jobs
  BY DEF StreamInv, ReaderInv, WakeInv, TypeOK
<1>1. UNCHANGED <<phase, fds, len, LifeOf>>
  BY DEF ReaderNext, StreamOutput, StreamRefused, StreamCancelled, FinalChunk, LiveTop, LiveLock, LiveTryLock,
         LiveLetGo, LiveWait, LiveWake, LiveUnlock, LiveSend, jobVars, LifeOf
<1>2. \A q \in Readers \ {r} : rpc'[q] = rpc[q] /\ StreamOf'[q] = StreamOf[q]
  <2>1. \E l : Goto(r, l)
    BY DEF ReaderNext, StreamOutput, StreamRefused, StreamCancelled, FinalChunk, LiveTop, LiveLock, LiveFirst,
         LiveTryLock, LiveLetGo, LiveWait, LiveWake, LiveUnlock, LiveSend
  <2>2. \A q \in Readers \ {r} : rpc'[q] = rpc[q]
    BY <1>0, <2>1 DEF Goto, TypeOK
  <2> QED BY <2>2 DEF StreamOf
<1>3. StreamOf' = [StreamOf EXCEPT ![r] = StreamOf'[r]] /\ (StreamOf'[r] = StreamOf[r] => UNCHANGED StreamOf)
  <2>1. StreamOf' = [q \in Readers |-> StreamOf'[q]] /\ StreamOf = [q \in Readers |-> StreamOf[q]]
    BY DEF StreamOf
  <2> HIDE DEF StreamOf
  <2> QED BY <1>2, <2>1
<1>4. CASE \/ LiveTop(r) \/ LiveLock(r) \/ LiveTryLock(r) \/ LiveWait(r) \/ LiveWake(r) \/ LiveUnlock(r)
           \/ LiveLetGo(r) /\ rpc[r] = "let_go"
  <2>1. rpc[r] \in LiveLabels /\ rpc'[r] \in LiveLabels /\ UNCHANGED <<rjob, currPos>>
    BY <1>0, <1>4 DEF LiveTop, LiveLock, LiveFirst, LiveTryLock, LiveLetGo, LiveWait, LiveWake, LiveUnlock, Goto,
           LiveLabels, LettingGo, TypeOK
  <2> QED BY <1>0, <1>1, <1>3, <2>1, StreamLabels DEF Promise!vars, StreamOf, LiveLabels, LettingGo
<1>5. ASSUME NEW j \in Jobs, StreamOutput(r, j) PROVE Promise!Open(r, j)
  <2>1. /\ rpc[r] = "idle" /\ rpc'[r] = FirstLoop(j) /\ rjob' = [rjob EXCEPT ![r] = j] /\ UNCHANGED currPos
        /\ phase[j] # "none"
    BY <1>0, <1>5 DEF StreamOutput, Goto, TypeOK
  <2>2. StreamOf[r] = "none" /\ StreamOf'[r] = IF phase[j] = "Ended" THEN "final" ELSE "live"
    BY <1>0, <2>1 DEF FirstLoop, StreamOf
  <2>3. (LifeOf[j] = "ended") = (phase[j] = "Ended")
    BY <2>1 DEF LifeOf
  <2> QED BY <1>1, <1>3, <2>1, <2>2, <2>3 DEF Promise!Open
<1>6. CASE StreamRefused(r)
  <2>1. StreamOf[r] = "none" /\ StreamOf'[r] = "failed" /\ UNCHANGED <<rjob, currPos>>
    BY <1>0, <1>6 DEF StreamRefused, Goto, StreamOf, TypeOK
  <2> QED BY <1>1, <1>3, <2>1 DEF Promise!Next, Promise!Refuse
<1>7. CASE StreamCancelled(r)
  <2>1. StreamOf[r] \in {"live", "final"} /\ StreamOf'[r] = "failed" /\ UNCHANGED <<rjob, currPos>>
    BY <1>0, <1>7 DEF StreamCancelled, Goto, StreamOf, TypeOK
  <2>2. currPos'[r] \in currPos[r]..len[rjob[r]] /\ currPos' = [currPos EXCEPT ![r] = currPos'[r]]
    BY <1>0, <2>1, ConstantsAssumption DEF TypeOK, ReaderOK
  <2> QED BY <1>1, <1>3, <2>1, <2>2, PromiseSend DEF Promise!Next
<1>8. CASE FinalChunk(r)
  <2>1. /\ rpc[r] = "final" /\ rpc'[r] \in {"final_ok", "err", "panic"} /\ UNCHANGED rjob
        /\ rpc'[r] = "final_ok" => ReadEOF(r)
    BY <1>0, <1>8 DEF FinalChunk, Goto, TypeOK
  <2>2. currPos' = [currPos EXCEPT ![r] = currPos[r] + ReadLen(r)] /\ currPos'[r] = currPos[r] + ReadLen(r)
    BY <1>0, <1>8 DEF FinalChunk, FinalSent, TypeOK
  <2>3. /\ StreamOf[r] = "final" /\ StreamOf'[r] \in {"complete", "failed"}
        /\ StreamOf'[r] = "complete" => ReadEOF(r)
    BY <2>1 DEF StreamOf
  <2>4. currPos'[r] \in currPos[r]..len[rjob[r]] /\ (ReadEOF(r) => currPos'[r] = len[rjob[r]])
    BY <1>0, <2>2, ReadBounds, ConstantsAssumption DEF TypeOK
  <2>5. StreamOf'[r] = "complete" => Promise!Complete(r)
    BY <2>3, <2>4 DEF Promise!Complete
  <2> QED BY <1>1, <1>3, <2>1, <2>2, <2>3, <2>4, <2>5, PromiseSend DEF Promise!Next
<1>9. CASE LiveSend(r)
  <2>1. /\ rpc[r] = "send" /\ rpc'[r] \in {"top", "err"} /\ UNCHANGED rjob
        /\ currPos' = [currPos EXCEPT ![r] = currPos[r] + bytesread[r]]
        /\ currPos'[r] = currPos[r] + bytesread[r]
    BY <1>0, <1>9 DEF LiveSend, Goto, TypeOK
  <2>2. StreamOf[r] = "live" /\ StreamOf'[r] \in {"live", "failed"}
    BY <2>1 DEF StreamOf
  <2>3. currPos'[r] \in currPos[r]..len[rjob[r]]
    BY <1>0, <2>1, ConstantsAssumption DEF ReaderOK, LiveLabels, TypeOK
  <2> QED BY <1>1, <1>3, <2>1, <2>2, <2>3, PromiseSend DEF Promise!Next
<1>10. CASE LiveLetGo(r) /\ rpc[r] = "let_go_eof"
  <2>1. StreamOf[r] = "live" /\ StreamOf'[r] = "complete" /\ UNCHANGED <<rjob, currPos>>
    BY <1>0, <1>10 DEF LiveLetGo, Goto, StreamOf, TypeOK
  <2>2. currPos'[r] \in currPos[r]..len[rjob[r]] /\ currPos' = [currPos EXCEPT ![r] = currPos'[r]]
    BY <1>0, <2>1, ConstantsAssumption DEF TypeOK, ReaderOK
  <2>3. Promise!Complete(r)
    <3>1. PICK j \in Jobs : phase[j] # "none" /\ "main" \notin fds[j]
      BY <1>0, <1>10 DEF WakeOK, SomeoneGone
    <3>2. LifeOf[j] \in {"exited", "ended"}
      BY <3>1 DEF LifeOf
    <3> QED BY <1>0, <2>1, <3>2 DEF Promise!Complete
  <2> QED BY <1>1, <1>3, <2>1, <2>2, <2>3, PromiseSend DEF Promise!Next
<1> QED BY <1>4, <1>5, <1>6, <1>7, <1>8, <1>9, <1>10 DEF ReaderNext, LiveLetGo, Promise!Next

\* Every behaviour of the files, the Watchers and the streams is one that
\* OutputPromise allows, however many jobs share the locks.
THEOREM PromiseKept == Spec => KeepsOutputPromise
<1>1. StreamInv /\ WakeInv /\ StreamInv' /\ [Next]_vars => [Promise!Next]_(Promise!vars)
  <2> SUFFICES ASSUME StreamInv, WakeInv, StreamInv', [Next]_vars PROVE [Promise!Next]_(Promise!vars)
    OBVIOUS
  <2>1. CASE UNCHANGED vars
    BY <2>1 DEF vars, Promise!vars, LifeOf, StreamOf
  <2>2. ASSUME NEW j \in Jobs, WatcherNext(j) PROVE UNCHANGED Promise!vars
    BY <2>2 DEF WatcherNext, WatcherSetup, WatcherSetupFails, WatcherTakesLock, WatcherCheck,
         WatcherReadLock, WatcherRead, WatcherReadError, WatcherNote, WatcherBurst, WatcherUnlock,
         WatcherBye, jobVars, readerVars, Promise!vars, LifeOf, StreamOf
  <2> QED BY <2>1, <2>2, PromiseJob, PromiseReader DEF Next, StreamInv
<1> QED BY <1>1, PromiseInit, StreamInvariance, WakeInvariance, PTL DEF Spec, KeepsOutputPromise, Promise!Spec

-----------------------------------------------------------------------------
(* What the promise comes to (OutputPromiseProofs), said of the streams    *)

Kept == INSTANCE OutputPromiseProofs WITH
    written <- len, life <- LifeOf, stream <- StreamOf, of <- rjob, sent <- currPos

\* Both instances mean the same steps.
LEMMA SameSteps == [Promise!Next]_(Promise!vars) => [Kept!Next]_(Kept!vars)
<1>1. \A j \in Jobs : (Promise!Write(j) => Kept!Write(j)) /\ (Promise!Advance(j) => Kept!Advance(j))
  BY Zenon DEF Promise!Write, Kept!Write, Promise!Advance, Kept!Advance
<1>2. \A r \in Readers : Promise!Refuse(r) => Kept!Refuse(r)
  BY Zenon DEF Promise!Refuse, Kept!Refuse
<1>3. \A r \in Readers : Promise!Send(r) => Kept!Send(r)
  BY Zenon DEF Promise!Send, Kept!Send, Promise!Complete, Kept!Complete
<1>4. \A r \in Readers, j \in Jobs : Promise!Open(r, j) => Kept!Open(r, j)
  BY Zenon DEF Promise!Open, Kept!Open
<1>5. Promise!Next => Kept!Next
  BY <1>1, <1>2, <1>3, <1>4, Zenon DEF Promise!Next, Kept!Next
<1>6. UNCHANGED Promise!vars => UNCHANGED Kept!vars
  BY DEF Promise!vars, Kept!vars
<1> QED BY <1>5, <1>6

\* The code's streams are prefixes of the output of their jobs, go through it once
\* and stop where they end; those of ended jobs end well only with all of it.
THEOREM StreamsArePrefixes ==
  Spec => []Promise!OnlyWritten /\ Promise!OnceInOrder /\ Promise!EndedIsWhole
<1>1. Promise!Init => Kept!PromiseInv
  BY Kept!PromiseInvInit DEF Promise!Init, Kept!Init
<1>2. Kept!PromiseInv /\ [Promise!Next]_(Promise!vars) => Kept!PromiseInv'
  BY SameSteps, Kept!PromiseStep
<1>3. Kept!PromiseInv /\ [Promise!Next]_(Promise!vars)
        => [Kept!Forward]_(Promise!vars) /\ [Kept!Whole]_(Promise!vars)
  BY SameSteps, Kept!PromiseStep
<1>4. Kept!PromiseInv => Promise!OnlyWritten
  BY DEF Kept!PromiseInv, Promise!OnlyWritten
<1> QED BY <1>1, <1>2, <1>3, <1>4, PromiseKept, PTL
        DEF KeepsOutputPromise, Promise!Spec, Promise!OnceInOrder, Promise!EndedIsWhole,
            Kept!Forward, Kept!Whole
==============================================================================

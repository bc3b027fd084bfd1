------------------------- MODULE OutputStreamClaims -------------------------
(* Statements of the repository about output streaming that its code does  *)
(* not meet.  Each is the property of a run in which TLC refutes it.       *)
EXTENDS OutputStream

\* server_impl.go:222: "we'll keep looping until we get the job done".  The
\* first full buffer comes with a nil err, and the handler calls its Error().
FullChunksAreLooped == ~Crashed

\* jobs.proto:35-37: the stream goes up to "the final available output entry".
\* A read that meets the end of the file after the Watcher has gone is not
\* sent, and a stale EOF ends the stream without another read.
LiveTailSent ==
    \A r \in Readers : rpc[r] = "live_ok" => currPos[r] = len[rjob[r]]

\* watcher.go:78: the last broadcast is "To give any readers a final wakeup".
\* A reader between its failed TryLock and Wait is not on the list yet.
FinalWakeup ==
    waiting # {} => \E j \in Jobs : wpc[j] \notin {"none", "setup", "done"}

\* watcher.go:50-51: ctx, "the cancellation of which will terminate the watch".
\* A Watcher that blocks in its read does not look at ctx, and an
\* IN_CLOSE_WRITE that came before the watch was added never comes again.
CancelEndsWatch ==
    \A j \in Jobs : j \in cancelled ~> wpc[j] = "done" \/ Crashed

\* cmd/client/main.go:61-62: "the RPC call will wait until the server indicates
\* that the job has finished running".  WatcherLock is shared: the end of
\* another job's Watcher ends the stream of this one.
StreamOutlivesOtherJobs == NoEarlyEnd
==============================================================================

# Verification of jobmaster

Jobmaster runs Linux processes on behalf of remote clients: a gRPC server with
mutual TLS, a job library that starts each job in a cgroup of its own, and a
command-line client. This directory holds TLA+ models of the parts that keep
state and share it between goroutines, processes and the kernel, the TLC
configurations that check them, and TLAPS proofs.

Run a configuration with `tlc -workers 2 -config X.cfg M` (the modules are the
`MC*` ones) and check the proofs with `tlapm M.tla`.

## 1. The system

| Part | Source | State | Operations |
|---|---|---|---|
| Job library | `jobslib/jobslib.go`, `job.go` | job table, client-to-jobs map, both under `mu` | `Start`, `Stop`, `Status`, `StreamOutputSetup`, one wait goroutine per job |
| Job cgroups | `jobslib/cgroups.go` 294-404 | one directory per job in the cgroup file system | `createJobCgroup`, `terminateJob`, `removeJobCgroup` |
| Cgroup hierarchy | `jobslib/cgroups.go` 80-292 | the directories `jobmaster` and `jobmaster/<client>` | `setupJobmasterCgroups`, `verifyCgroups`, `TeardownJobmasterCgroups` |
| Watcher | `jobslib/watcher.go` | an inotify descriptor per job; `WatcherLock` and `CvEvent`, one of each per server | `WaitForFile`, `Watcher` |
| RPC handlers | `api/server/server_impl.go` | position and last error of each stream | `Start`, `Stop`, `Status`, `StreamOutput` |
| Server process | `api/server/server.go`, `cmd/server` | whether it serves | `NewServer`, `Run`, `GracefulStop` |
| Validation | `validate_client.go`, `api/authn` | name and role in the context of each call | the two interceptors, certificate checks |
| Authorization | `api/authz` | the table of clients and roles, never changed | `IsClientAuthorized`, `GetAuthorizedClientNames` |
| Client | `api/client`, `cmd/client` | none | one call per process, a signal ends it |

**How they interact.** A handler calls the job library on its own goroutine.
`Start` makes a cgroup, creates the output file, launches the process, puts the
job into the table and leaves a goroutine behind that waits for the process and
starts a Watcher for its output. `Stop` writes to the job's `cgroup.kill`, polls
until the process is gone *with `mu` locked*, removes the cgroup and updates the
job; the wait goroutine removes the same cgroup and updates the same job. The
Watcher turns inotify events into broadcasts on `CvEvent`; `StreamOutput`
handlers wait on it and take "`WatcherLock` is free" to mean that no more output
will come. Every call first passes an interceptor, which turns the certificates of the
connection into a name and a role in the call's context; the handler checks them
again and hands the name to the library, where it is compared with the owner of a
job and becomes part of the path of its cgroup. `Run` sets the hierarchy up, serves, stops gracefully and tears the
hierarchy down while wait goroutines may still be running.

**What is hard.** Two writers of a job's final state; two removers of one
directory; a lock kept over a wait; a process that runs before it is registered;
synchronisation objects shared by all jobs; a condition variable signalled
without its lock; a blocking read with a lock held; values of an earlier loop
round used in a later one; setup and teardown that fail half way, and leftovers
of a crashed run; a client that leaves between the launch of its job and the
answer; names that are looked up in one way and compared in another; an end that
waits for every call. `PROJECT.json` lists these hazards at their lines.

**What makes each part correct.** The library: a job is reported as ended only
when it has, once, truthfully, by somebody who may; nothing runs on unnoticed.
Streams: every byte once, in order, to the end, and the end is noticed. The
hierarchy: complete whenever calls are served; gone, with everything in it, when
`Run` says so. The service: a call acts under the name and role of its
certificate, from the interceptor to the job table; what a user has been told is
usable; no job is left half started; an ending
server waits for nothing but calls that are known not to end.

## 2. Modules

| Module | Content |
|---|---|
| `JobLifecycle` | abstract: the life of a job as a client may rely on it |
| `JobsLib` | `Start`, `Stop`, `Status`, wait goroutines, job cgroups; refines `JobLifecycle` |
| `JobsLibClaims` | statements of the repository about the library that do not hold |
| `JobsLibInv` | the inductive invariant of `JobsLib` |
| `JobsLibSteps`, `JobsLibProofs` | proofs: one lemma per group of actions; the theorems |
| `JobsLibStopProofs` | theorems about `Stop`'s critical section |
| `JobsLibKillProofs` | theorems about the job cgroups and what is killed through them |
| `OutputPromise` | abstract: what a stream sends, and when it may end |
| `OutputPromiseProofs` | what `OutputPromise` comes to |
| `OutputStream` | output file, inotify, Watchers, `StreamOutput`; refines `OutputPromise` |
| `OutputStreamClaims` | statements about streaming that do not hold |
| `OutputStreamProofs` | inductive invariants, theorems and the refinement of `OutputStream` |
| `ServerRun` | setup, serving, teardown, crashes and restarts |
| `ServerRunClaims` | a statement about teardown that does not hold |
| `ServerRunProofs` | inductive invariants and theorems of `ServerRun` |
| `ClientAuth` | certificates, the table of clients, the decision of an interceptor |
| `Service` | composition: client programs, `ClientAuth`, handlers, the jobs of `JobLifecycle`, the orderly end |
| `ServiceProofs` | inductive invariant and theorems of `Service` |
| `MCJobsLib`, `MCOutputStream`, `MCServerRun`, `MCService` | instances and symmetry sets for TLC |

Operators whose name ends in `_Something` after the name of an action or operator (for
example `StopFinish_CopyOnly`) are faults: versions of that action with a plausible
mistake, kept to confirm that a property would notice it. No specification uses
them.

### JobsLib

Threads are the RPC calls (`Calls`) and one wait goroutine per job (named by the
job). `pc` is the point of a thread between two steps others can observe: a
system call, or the taking or releasing of `mu`. `mu` is the set of calls that
keep the write lock over several steps (only `Stop` does); a critical section
without a blocking call inside is a single action whose guard is `mu = {}`.
Threads take `mu` at most once more after any point, so readers and writers need
no separate queues.

| Code | Actions |
|---|---|
| `Start` | `Start`, `createJobCgroup`, `StartCreateFile`, `StartExec`, `StartRegister` |
| wait goroutine | `WaiterReap`, the cgroup actions, `WaiterUpdate` |
| `Stop` | `Stop`, `findJobByJobID`, `deepCopyJobFromPointer`, `StopLock`, the cgroup actions, `StopPoll`, the cgroup actions, `StopFinish` |
| `Status`, `StreamOutputSetup` | `Status`, `findJobByJobID`, `deepCopyJobFromPointer` |
| `terminateJob` | `KillFileOpen`, `KillFileWrite` |
| `removeJobCgroup` | the same, then `RemoveStat`, `RemoveRmdir` |
| kernel | `ProcessExit`, `ChildFork`, `ChildrenExit` |

Modelling decisions:

- Argument checks, context checks and failing system calls on the way to an
  error return are a nondeterministic error alternative of the action they
  belong to. The cgroup file system is assumed to answer according to its state
  (`ENOENT`, `ENODEV`, `EBUSY`); it has no failures of its own here.
- `os.WriteFile` on the kill file is an open and a write: a directory removed
  between the two gives `ENODEV`, which `terminateJob` does not forgive.
- SIGKILL takes effect some time after the write. A process that was exiting by
  itself keeps its own exit code. A zombie no longer populates its cgroup.
- Job IDs are never drawn twice (KSUIDs), PIDs are never reused, `cmd.Wait`
  fails in no other way than by an exit status.
- `Mesg` is the set of notes added to it, `EndedUnixMilli` whether it is set,
  `"killed"` the name of whichever signal ended the process. Command, arguments,
  PID, start time and file path never change and are left out.
- `ClientDirs` are the clients whose directory `verifyClientCgroup` finds.

### OutputStream

Two kinds of threads: the Watcher of each job (`wpc`) and `StreamOutput` calls
(`rpc`). `WatcherLock` and `L` are sets of holders, `waiting` is the notify list
of `CvEvent`. `StreamOutput`'s variables `currPos`, `bytesread` and `err` are
kept, the last as `eof`, since their stale values matter.

- Output is its length. `Chunk` units fill a buffer; `ReadAt` returns a full
  buffer without an error or a short one with `io.EOF`.
- `Start`'s descriptor and those of the job's processes share one open file
  description, so there is one `IN_CLOSE_WRITE`, after the last of them is
  closed. Queued events are a set: inotify merges equal ones and nothing is
  written after the last close. Events before `InotifyAddWatch` are lost.
- Once a job is recorded as ended its cgroup has been sent SIGKILL
  (`NoSurvivors` of `JobsLib`), so its descendants write no more.
- The Watcher's dozen broadcasts at the end are one or more broadcasts.
- A panic in a handler ends the server: no interceptor recovers it.
- `WaitForFile` finds the file at its first look because `Start` creates it
  before the goroutine exists.

`OutputPromise` knows nothing of locks, events or buffers: output grows, a
stream is sent a prefix of it that grows too, and ends well only when it may. It
is as strong as the code allows: a stream of an ended job owes all of the output,
a live one only that the process of some job is gone, because the code does lose
the tail of live streams (`OutputStream_claim_tail`) and does end them with the
Watcher of another job (`OutputStream_claim_other`); with one job that job is its
own, which `NoEarlyEnd` says directly. `OnlyWritten`, `OnceInOrder` and
`EndedIsWhole` spell out what the promise is worth to a client. `LifeOf` and `StreamOf` are the
refinement mapping: labels to the states a caller can tell apart.

### ServerRun

`pc` follows the goroutine that executes `Run`. The state that outlives the
process is the directory tree (`parent`, `dirs`, `home`), which directories have
controllers enabled (`controlled`) and the jobs' processes (`proc`). A crash is
possible in every state; `Boot` starts the next run over what is there. In the
behaviours in which `faulty` is true (it is chosen at the start and never
changes) every system call can also fail for no reason that the model knows.
Each run has a configuration (`config`), which can be bad in any behaviour,
without a failing call: an `IODeviceID` that `NewServer` or `CreateJobsLib`
refuses before anything is made, or a certificate, key or CA file that
`loadTLSConfigForServer` cannot load, after the hierarchy has been set up. Then
`Run` returns without a teardown. `inherited` remembers which jobs were running
when the run was started; it is there for the properties only.
`WaiterRemoves` stands for `removeJobCgroup` as a whole (its steps are in
`JobsLib`) and can come between any two steps of the teardown. The client list
comes from a Go map, so the loops visit clients in any order. `GracefulStop`
returns here; `Service` is about the calls that it waits for.

### ClientAuth and Service

`ClientAuth` has no variables. A certificate is what the checks look at: whether
its algorithms are allowed (`ValidateCertCryptoAndValidity`; the handshake checks
the dates), whether its CN has the prefix `jobmaster-`, and what follows it
(`GetJobmasterEntityNameFromCertCN`). `ValidateClientFromTLSInfo` is the loop
over the whole chain: every certificate has to pass, and name and role are those
of the last one visited. Names come in several spellings; `ToLower` maps each to
the one that the table is keyed by.

`Service` follows a request (`pc`) from a client program to its end.

| Code | Actions |
|---|---|
| `cmd/client` `main`, `NewClient` | `ClientMain`, `ClientFails`, `ClientPrints`, `ClientLeaves` |
| interceptors, `ClientInfoFromContext` and the head of each handler | `validateClient`, `Handler`, `Refused` |
| `Start` | `StartFails`, `StartLaunch`, `StartPublish` |
| `Status`, `Stop`, `StreamOutput` | `LookupFails`, `Details`, `StopKills`, `StopEnds`, `StopFails`, `StreamOutput`, `StreamEnds` |
| process and wait goroutine | `Collect`, `Complete` |
| `Run` | `StopServing`, `GracefulStop` |

- Interceptor and handler head are one step: neither touches shared state nor
  waits. The context's cancellation can precede either, hence the `c \in gone`
  alternatives.
- A client program makes one call. Programs are numbered in the order in which
  they are run, which is no loss: an ID can be used only after the program that
  printed it, and programs that are running overlap freely. `CommandLines` says
  which operations and certificates each may be run with.
- IDs are not guessed: a program is run with an ID that a `Start` has printed, or
  with one that nobody has drawn.
- The jobs are those of `JobLifecycle`, which `JobsLib` is shown to implement. Of
  the library's own steps only those are kept that a call can wait for: the
  registration after the launch, and `mu` while a `Stop` polls. A `Stop` that the
  library lets through for an administrator polls for a process that it has not
  killed, as in `JobsLib`.
- Leaving cancels the context of a call. After their first check neither the
  library nor the unary handlers look at it again; an answer then goes nowhere.
- The output and the end of streams are left to `OutputStream`: here a stream
  just ends, sooner or later or never.

## 3. Runs

All runs check for deadlock unless noted. Bounds are named constants.

**Passing.**

- `JobsLib_one`: one job, three calls, three clients of which one is an
  administrator and one has no directory, safety and liveness together; about
  270,000 states. Three calls are enough for a Start and two operations that race
  each other and the wait goroutine; all properties are about one job.
- `OutputStream_one`: one job, two readers, buffers of 2, output up to 3 (empty,
  short, full, full and a rest); about 350,000 states up to symmetry. Two readers
  are needed because readers disturb each other through `WatcherLock`. One job is
  what TLC can afford with them; the theorems have any number. Deadlock
  is not checked: a server whose jobs and calls are over is at rest.
- `OutputStream_live`: the same with buffers and output of 1, about 55,000
  states, without symmetry.
- `ServerRun_restart`: three runs of the server, two clients, two jobs, good and
  bad configurations, with and without failing calls, about 105,000 states up to
  symmetry. Two crashes with leftovers of both before the last run, or a crash, a
  run with a bad configuration over its leftovers and a good one after both; two clients so that a loop can break
  half way; two jobs so that one directory is busy while another is not.
  Deadlock is not checked, because the number of runs is bounded.
- `Service_calls`: three client programs and one job, two spellings of a client
  and an administrator, a chain with an intermediate certificate that names
  nobody; about 675,000 states. The first program starts a job, the second does
  anything, the third asks for the job or stops it: enough for two calls to use
  a job that a third has started, and for a `Stop` to keep others waiting while
  the server ends.

| Property | Says |
|---|---|
| `EndedMeansReaped` | a terminal state means the process has been reaped |
| `NoLostProcess` | every process is waited for or about to be registered |
| `NoSurvivors` | what outlives the wait goroutine has SIGKILL pending |
| `LeakIsReported` | a cgroup that stays is mentioned in `Mesg` |
| `ExitStatusSettles` | exit code and signal end up as those of the process |
| `StoppedByEntitled` | `TerminatedByAPI` comes from a successful `Stop` of the owner or an administrator |
| `ReportedEndIsTrue` | an end that was reported stays true |
| `StopCopyIsCurrent` | inside `Stop`'s critical section its copy, made before it, is the job |
| `OwnStopIsServed` | while an owner's `Stop` polls with `mu` locked, the process is dead or dying and will be reaped without `mu` |
| `StopOkMeansOver` | a `Stop` without an error leaves an ended job whose process is reaped |
| `OnlyOwnerKills` | a process that still runs has SIGKILL pending only while its own client's `Stop` polls for it |
| `CgroupsAccountedFor` | every job cgroup is that of a registered job of the client, or of a `Start` under way or failed |
| `TerminalIsFinal` | terminal states are final (action property) |
| `ImplementsLifecycle` | `JobsLib` refines `JobLifecycle` |
| `OwnStopReturns`, `ExitIsReported` | liveness of the library |
| `FinalStreamComplete` | a stream of an ended job that ends well is complete |
| `KeepsOutputPromise` | `OutputStream` refines `OutputPromise`: every byte once, in order, and no end that is not due |
| `NoEarlyEnd` | with one job, a live stream does not end before its process |
| `LocksMatchLabels` | `WatcherLock` and `L` are never taken twice, kept by mistake or unlocked by another |
| `PendingEventWakes`, `CloseEndsWatch` | liveness of wakeups and Watchers |
| `ServingIsReady` | calls are served only over a complete, controlled hierarchy |
| `CleanExit` | nil from `Run` means no directory and no process is left |
| `NoRunaways` | without failing calls: `Run` leaves none of its own processes running, and with a good configuration none of earlier runs |
| `LeftoversSurviveSetup` | without failing calls: jobs that run on after a crash are neither killed nor lost by the next setup, nor by a run that fails over its configuration |
| `OnlyJobsBlockTeardown` | without failing calls: the teardown fails only over the directory of a job, and `Run` only over that or its configuration (action property) |
| `HandlersKnowTheCaller` | the handlers' own check never contradicts the interceptors |
| `JobsAreTheirOwners` | from certificate to job table, jobs are served to owners and administrators |
| `OwnersAreListed` | jobs belong to names in the spelling that setup and teardown visit |
| `ToldIsUsable` | who has been told an ID can ask for the job |
| `StoppedIsSettled` | when `GracefulStop` has returned, no job is half started and nobody has `mu` |
| `PendingCanEnd` | the job of a `Start` about to publish and of a polling `Stop` is left to it, and `mu` is held by a polling `Stop` alone |
| `ShutdownCompletes` | `GracefulStop` returns unless a live stream or an administrator's `Stop` stays for ever |

**Refuted.** Seven statements in documentation and comments that the code does
not meet, one run each (`*_claim_*`); `PROJECT.json` quotes them.

| Run | What happens |
|---|---|
| `JobsLib_claim_superuser` | `Stop` by an administrator looks for the kill file under the administrator's own name, kills nothing and polls for ever with `mu` locked |
| `OutputStream_claim_loop` | a full buffer for an ended job leads to `err.Error()` on nil |
| `OutputStream_claim_tail` | the last output of a live stream is read and not sent |
| `OutputStream_claim_wakeup` | a reader on its way into `Wait` misses the last broadcast |
| `OutputStream_claim_cancel` | a Watcher that missed the close blocks in `read` and ignores its context |
| `OutputStream_claim_other` | the end of one job's Watcher ends the stream of another job |
| `ServerRun_claim_teardown` | `Rmdir` after the kill meets `EBUSY`, or `ENOENT` after a wait goroutine |

Other places where text and code part, which behaviours of the models show but
no run of its own checks:

- `Stop` of a job that ends while `Stop` waits for `mu` returns the copy it made
  before, which may say Running (jobslib.go:447; README.md:159 speaks of "the
  details of that job"). The job is over all the same: `StopOkMeansOver`.
- The wait goroutine writes the process's exit code over the -1 of `Stop`, and a
  job killed by the kernel becomes Completed (jobslib.go:346, 351;
  README.md:164).
- `removeJobCgroup` between its `Stat` and its `Rmdir` can lose the directory to
  the other remover, and `Stop` then fails for a job that is gone
  (cgroups.go:398; jobslib.go:482 calls it idempotent).
- A reader whose Watcher has gone, and whose last `err` is nil, goes round its
  loop without reading (server_impl.go:238, 256).
- Output that exists when a stream begins is sent only after the next file event
  (server_impl.go:235; jobs.proto:34-35).
- Spellings are equal for the authorization only. A client whose certificate
  spells its name in another way than the table is let in, but `Start` and `Stop`
  look for a directory of that spelling and always fail, and the job started
  under one spelling is refused to the other (jobslib.go:219, 381, 405; authz.go:18
  calls names case-insensitive).
- With several certificates the caller is the one of the last, which for a chain
  sent leaf first is the issuer (validate_client.go:97-120); a chain with an
  intermediate certificate that is no client of the table is refused.
- A certificate that cannot be loaded makes `Run` return after the hierarchy was
  set up, without a teardown (server.go:76-78, 142-145): the directories stay, and
  so do the jobs of a crashed server. `NoRunaways` and `LeftoversSurviveSetup` say
  what is left then, and that the next run with a good configuration takes it over.
- `Run` returns the error of the teardown; one of `Listen` or `Serve` is only
  logged (server.go:170-188).

## 4. Fairness

`JobsLib`: weak fairness for each call that has begun, each wait goroutine and
each thread's cgroup steps (the Go scheduler runs what can run), and for the
death of processes with SIGKILL pending. Weak fairness is enough for `mu`,
because each call holds it a bounded number of times and calls are used once.
No call has to arrive and no process has to end by itself.

`OutputStream`: weak fairness for steps that need no lock; strong fairness for
`L.Lock`, `WatcherLock.Lock` and the return from `Wait`, since Go's mutexes hand
over to a waiter after at most a millisecond of waiting (starvation mode), and
for a read that is retried while events are queued. `Start`, the wait goroutine
and SIGKILL complete. Jobs need not write or exit, clients need not call or
cancel; a send returns, because the client takes the data or is disconnected.

`Service`: weak fairness for every step of a handler that does not wait for a
live stream, for the end of streams of ended jobs (one read and one send, in
`OutputStream`; the panic that a full buffer leads to is left to that module),
for the death of a process whose kill file a `Stop` has found, and for
`GracefulStop`. No program has to be run, to leave or to print its answer, no job
to end by itself, and nobody has to stop the server. `ShutdownCompletes` therefore excepts `Hangs`: nothing bounds the life of
a live stream, nor of a process that an administrator's `Stop` polls for. That a live stream can
sleep on after its job has ended, or go round its loop without reading, is shown in
`OutputStream` (`OutputStream_claim_wakeup`, and the list in section 3), not here.

## 5. Proofs

Everything below holds for all values of the constants that meet the named
assumptions: clients have non-empty names, administrators and clients with
directories are clients, calls and jobs are different things, exit codes are
natural numbers; there is a job to stream and a buffer holds something; the
table is keyed by lower-case names with a role each, and the handshake lets no
empty chain through.

`JobsLibProofs` proves `Spec => []IInv` and from it every invariant of
`JobsLib_one`, `TerminalIsFinal` and the refinement of `JobLifecycle`. None of
the invariants is inductive by itself. `IInv` (module `JobsLibInv`) adds:

- `LockInv`: `mu` is held by one call at most, exactly while it is between
  `StopLock` and its return;
- `ArgInv`, `FreshInv`: what a call's label says about its arguments, and that
  IDs in flight belong to one `Start` each;
- `TableInv`: what the wait goroutine's label says about the job in the table;
- `ProcInv`: how far the process is, given the labels of the threads that deal
  with it (this is what makes `EndedMeansReaped` inductive: a `Stop` past its
  poll has seen the process reaped);
- `CgroupInv`: a job's processes have their cgroup, no descendant is unkilled
  once `removeJobCgroup` is past its kill, and the directory is gone when the
  wait goroutine goes on without an error;
- `CopyInv`: what the copy in a call can say about the job.

`JobsLibSteps` has a lemma for each action, or group of actions, preserving
`IInv`; `JobsLibProofs` combines them. For the refinement, every step maps to
`Launch`, `Publish`, `Collect`, `End` or a stutter.

`JobsLibStopProofs` adds a second layer, `StopInv`, on top of `IInv`: what each
`Stop` knows of its job. `CopyKnown` says that the copy is the job once `mu` is
held, and that before that a copy that has become stale is one of a job that is
over, so that `Stop` returns it instead of working on it; `KillKnown`, that
the owner's `Stop` polls for a process with SIGKILL pending; `AnswerKnown`, what
an ok stands for. Most steps only have to show that they do not touch a call, nor
a job whose `mu` somebody keeps (`Aside`, `Undisturbed`). From it
follow `StopReturnsTheJob`, `OwnPollIsServed` (the safety half of
`OwnStopReturns`: nothing that the polling loop waits for waits for `mu`) and
`StopsAreReal`.

`JobsLibKillProofs` proves `OwnersKill` and `CgroupsAccounted` together, from
`KillInv` on top of `IInv`. `OnlyOwnerKills` needs to know that a kill file found
under the caller's own name belongs to the caller's job, which is what
`CgroupsAccountedFor` says of a registered job. That in turn needs `DirInv`: a
directory bears an ID that was drawn, so that the ID of a new `Start` is that of
no directory, and a `Start` under way has its job's directory in its own client's
and nowhere else, so that `StartRegister` records the name under which the
directory lies. Most steps are `Harmless` (no directory made, no job registered,
given away, launched or killed) and are done by one lemma; the write to the kill
file is the one that matters (`WriterOwns`).

`ServerRunProofs` proves `RunTypeCorrect`, `ReadyWhenServing` and
`OkMeansClean`, with or without faults and for any number of runs, from
`RunInv`: directories lie in existing parents and live processes in
directories (`TreeInv`); the clients that the setup loop has passed have
controlled directories (`SetupInv`); an outcome belongs to a server that is off
(`OutcomeInv`). For `NothingRunsOn`, where no system call fails by itself,
`OrderlyInv` adds what a teardown has reached: while it is under way, every
process in a directory that it has passed has been killed; the only error exits
of setup are those of the configuration, with no process but inherited ones; and
serving and teardown are left to runs with a good one. `LeftoversAreKept` needs
`InheritInv` besides: wait goroutines go with their server, so none of them can
remove the directory of an inherited job. For `JobsAloneBlock`, `SweepInv` says which
client directories are left at each point of the loop: as long as the teardown has
met no error, only those that it has still to visit.

`OutputStreamProofs` proves `StreamTypeCorrect` and `FinalStreamsComplete` for
any number of jobs and readers and any buffer, from `StreamInv`. `FileInv` ties
the phase of a job to its descriptors, its watch and the labels of its Watcher,
and says that a Watcher between lock and unlock is the holder of `WatcherLock`;
`ReaderInv` says that what a reader has sent and what is in its buffer are in the
file, and that the file of a job that had ended stays as it is. `LockInv` adds the
converse for both locks, that a holder is where the code holds them, and gives
`LocksAreUsedWell`.

That `OutputPromise` is implemented (`PromiseKept`) needs `WakeInv`: a reader that
was woken, or that carries an EOF, can only have got there after some Watcher had
locked `WatcherLock`, and a Watcher gives it back only after the process of its job
is gone. The refinement maps every step of the Watcher to a stutter, and every
step of a job or reader to one of `OutputPromise`. `OutputPromiseProofs` proves
of the abstract specification alone that streams are prefixes, move forward in one
file and are whole for ended jobs; `StreamsArePrefixes` carries these over to
`OutputStream`. (The prover cannot cite a temporal theorem of an instance, so it
cites the step lemmas of `OutputPromiseProofs` and repeats the temporal step.)
That a live stream ends no earlier than the process of *its* job
(`NoStreamEndsEarly`) has the hypothesis that there is one job (`SingleJob`), and
is false without it, as `OutputStream_claim_other` shows.

`ServiceProofs` proves the seven invariants of `Service_calls` for any table, chains,
jobs and number of programs, from `SInv`: which labels go with which operations
and answers (`LabelInv`); that the context of an accepted call is what its own
certificates say (`CallerInv`); how far a `Start` has come with its job
(`StartInv`); that no two Starts draw the same ID (`DrawnOnce`); that the others
work on jobs that have been told and that their caller is entitled to (`UseInv`);
that the table has launched jobs only (`JobInv`); and a form of `ToldIsUsable`
that does not depend on the answer having been printed (`UsableInv`). For
`SettledWhenStopped`, `SettledInv` has a call account for whatever is unfinished:
a `Start` on its way to the table for a job that is half started, a polling `Stop`
for `mu`; and a server that has stopped has no call under way. `CallsCanEnd` adds
`CanEndInv`: between the launch and `StartPublish` nobody else touches the job,
because no other call has its ID and it is not in the table, and while a `Stop`
polls, the wait goroutine cannot end the job, for want of `mu`. It is the safety
half of `ShutdownCompletes`.

Only model-checked: liveness (`OwnStopReturns`, `ExitIsReported`,
`PendingEventWakes`, `CloseEndsWatch`, `ShutdownCompletes`), since fairness and
ENABLED are beyond the prover. Every safety property of the passing runs is a
theorem.

## 6. Not modelled, and what is left

Not modelled, and why:

- Generated code (`api/gen`) and the message definitions: no logic of their own.
- The copying of a `Job` into a response field by field, printing, log messages,
  the parsing of command lines beyond "it fails or it does not": no property
  tells the results apart. The one place where text and code part there:
  jobs.proto:114 says that `ended` is unset while a job runs, and the handlers
  send the timestamp of a zero `EndedUnixMilli`.
- TLS and cryptography belong to Go's library; certificates enter as what the
  program's own checks make of them.
- The values of resource limits written into a cgroup: the kernel enforces them.
- Read errors of the output file other than EOF, and the 200 retries of
  `WaitForFile`, whose file is there at the first look.
- PID reuse: `Stop` polls for a PID that may belong to another process by then
  (jobslib.go:459). Whether and for how long is up to the host, and nothing in the
  program bounds it; a model that allows it has `Stop` hang and shows no more.

Left to do, should the code grow:

1. A composition of `OutputStream` with `Service`, so that a live stream's end is
   the Watcher's doing and not a choice.
2. Larger instances: two jobs in `Service_calls`, three readers in
   `OutputStream_one`. The theorems cover both for safety.

# dtrun: TLA+ models, checks and proofs

dtrun is an OCI container runtime that makes a container's execution
reproducible. A ptrace supervisor runs the threads of the container one at a
time, answers the system calls that would bring in randomness or time, and
writes a trace. Around it, short-lived `dtrun` commands and a daemon per
container share a directory on disk. A child process makes the container out of
mounts, capabilities and a root file system, which `dtrun flatten` unpacks from an
image. This development models all of these.

    tlc -workers 2 -config AnyThreads.cfg MCSupervisor     # any run below
    tlapm SupervisorProofs.tla                             # any module of proofs

## The system

| Component | State | Operations | Interacts through |
|---|---|---|---|
| Supervisor bookkeeping (`runtime/supervisor.rs`) | threads, virtual ids, run queue, parked threads and futex queues, pending injections, stashed clone arguments, pending signals, attach stops seen or awaited, tick, random position, trace | register/exit of a task, block, wake, yield, schedule, syscall entry/exit | called by the dispatch loop |
| Supervisor loop (`run`, `dispatch`, `await_attach`) | current thread, nested waits | one handler per wait status | `waitpid`/`ptrace` with the kernel |
| Host (`runtime/host.rs`) | ready/maps/answer pipes, relay threads, state to write | `run`, `create`, the daemon's `supervisor_created`, `supervisor_wait_and_run`, `supervise_and_finish` | forks the daemon, clones the child, FIFO, state file |
| Child (`runtime/child.rs`, `mounts.rs`, `credentials.rs`, `net.rs`) | how far its setup has come; the mounts, files, capability sets and working directory it has made | handshake, one call per setting of the config, `raise(SIGSTOP)`, exec | pipes, ptrace, the kernel |
| Configuration (`oci/config.rs`) | none that lasts | parse, validate | read by host and child |
| Image flattening (`oci/image.rs`) | the destination tree | unpack an entry, apply a whiteout, normalise a directory | the file system |
| Commands (`runtime/ops.rs`, `exec.rs`) | the state they have read | `start`, `kill`, `delete [--force]`, `state`, `list`, `exec` | state file, FIFO, pid |
| State directory (`runtime/state.rs`) | `state.json`, `exec.fifo`, `trace.jsonl` | make, reset, write, read, append, remove | the file system |
| cgroups, id maps (`cgroup.rs`, `namespaces.rs`) | kernel objects | `apply_limits`, `map_root_user` | called by host |
| Signal names, CLI (`signal.rs`, `cli.rs`, `main.rs`) | none that lasts | parse | called once |

What is hard here:

* **Concurrency with the kernel.** Stops of different tasks are reported in any
  order: a child's attach stop before or after its parent's clone event, exits of
  a group in any order, signals at any time. `await_attach` dispatches other
  reports while it waits, and those may start a nested `await_attach`.
* **Simulated futexes.** A parked thread exists only in the supervisor's maps; a
  lost wake or a stale entry is a hang or a wake spent on a dead thread.
* **Processes that share a directory without a lock.** Each command reads the
  state, decides and acts, one system call at a time.
* **Crashes and partial failure.** A supervisor may be killed at any step, the
  child may fail at any step of its setup, and `create` must still answer.
* **A long sequence of steps that undo or need each other.** The child mounts,
  masks, rebinds, remounts and gives up its privileges in a fixed order; some
  failures end it, others are passed over, and a later step works on what the
  earlier ones left. An archive is applied entry by entry in the same way.

What makes each component correct is the list of properties below; the hazards
they answer to are in `PROJECT.json`, each at its line.

## The modules

| Module | Models | State and actions |
|---|---|---|
| `SupervisorState` | `struct Supervisor` and the methods of `impl Supervisor` except the loop | a record `s`; each method is an operator from `s` to the new `s`. A ptrace request a method makes is added to `s.resumed` |
| `Supervisor` | the loop, and the kernel it runs against | one action per wait status (`SyscallEntry`, `CloneEvent`, `ExitEvent`, `AwaitedAttach`, `OtherSigstop`, `SignalStop`, `InitExited`, `ThreadExited`, ...); each ends with `Commit`, which applies the loop's tail and the requests made, all of them, to the tasks |
| `SupervisorProofs`, `GuestProofs`, `SchedulingProofs`, `LifecycleProofs`, `PromiseProofs`, `ChildSetupProofs`, `FlattenProofs` | | the theorems of the section on proofs, with their lemmas |
| `SequenceFacts` | | lemmas on naturals, prefixes and paths that several of them use |
| `Determinism` | two runs of `Supervisor` with one seed | keeps the first trace, starts over, compares |
| `Lifecycle` | host, child, ops, exec and state | per command `cli`, per container `sup` (the daemon, or `run` itself), `proc` (pids), `fs` (directory), `bytes` (FIFOs), `cgroup`; one action per system call that touches shared state |
| `RoundRobin` | what the scheduler promises (abstract) | the running thread, the queue of ready ones, the parked ones; yield, park, wake, admit, leave |
| `Scheduling` | | `Supervisor` with the refinement mapping to `RoundRobin` |
| `Container` | what the commands promise of a container (abstract) | its life, whether it is attached, whether a start was asked for, the record |
| `ChildSetup` | configuration rules and the child's setup | `conf`, the next step `pc` and list index `i`, `k` (mounts and files), `cwd`, `cred`; one action per step of `setup_and_exec_child` |
| `Flatten` | `flatten`, `unpack_reader`, `normalize_tree` | the archive, the next entry, the destination `tree`, the directories `todo`; one action per kind of entry and per directory |
| `MCSupervisor`, `MCDeterminism`, `MCLifecycle`, `MCChildSetup`, `MCFlatten` | | guests, command sets, bundles and archives for TLC |

`SupervisorState` <- `Supervisor` <- `Scheduling`, `Determinism`; `Lifecycle` sees a
supervised run as one step that ends with an exit code or an error, which is what
`Supervisor` shows of it, and the child's setup as one that succeeds or fails,
which is what `ChildSetup` shows.

### Supervisor

The kernel is external and modelled from what the code relies on: a task is in
user code, in a syscall, asleep, in one of the ptrace stops, dying, or gone;
`task[p].at` says which. A stop that `waitpid` has not returned yet is in
`reports`. A request to a task that is not stopped is `ESRCH`, which ends the loop
with the outcome `"ptrace"`. The guest is a constant `Code`, a set of steps (from
a label, when some words of memory have some values, to a syscall and a label),
so a guest is either a concrete program or, with one label, every program.

Data is abstracted as follows. Random bytes are a position in the seeded stream,
time is the tick counter, a trace line is the event's name and the numbers in it
that a run could get wrong (virtual ids, kind). Signals are of four kinds: one
with a handler, a fatal one, SIGSTOP and SIGKILL. Memory holds futex and tid words
only. Reads and writes of guest memory by the supervisor succeed.

`intercept_futex` simulates waits, wakes and requeues, and passes every other
operation to the kernel, however many threads there are. Three stand for those
(`PassedOps`): `lock_pi` takes a free word or may sleep, `unlock_pi` ends such a sleep
or frees the word, `wake_op` wakes the kernel's waiters. `await_attach` takes any
SIGSTOP of its child for the attach stop (`ReportedSigstop`), a signal's too.

The fields of the Rust struct correspond by name (`pending_start` is
`pendingStart`). `Thread.scheduled` is membership in `s.scheduled`. `stack` holds
the children that nested `await_attach` calls wait for.

### Lifecycle

A command is a process of its own and interleaves with the others at each system
call. `Commands[c]` are the commands invocation `c` may turn out to be. `delete`
and `delete --force`, and `kill` with and without SIGKILL, are told apart by name.
A FIFO is named by the `create` that made it, so that a removed and remade path is
another FIFO; its bytes go when its last user closes it. `state.json` can be
absent, truncated, garbled by two writers, or a state whose field `by` stands for
everything in it that describes one container (bundle, seed, time). A pid that was
freed may go to a process of the host.

`MayFail` lists what may go wrong: a bad bundle, `map_root_user`, the child's setup,
`supervise`, no delegated cgroup, reuse of pids. `MaxCrashes` bounds the
supervisors killed from outside. `Resources` are the containers whose config has
`linux.resources`: for the others `apply_limits` returns at once, and for these it only
warns when the host does not let it move the init (`MustLimit`). An init killed before
its start may be found in its exit stop (`SuperviseKilled`) or not (`SuperviseGone`).

### The abstract specifications

`RoundRobin` knows nothing of ptrace: one thread runs, the ready ones wait in a
queue, the parked ones in a queue per futex word, and each event of a thread is
followed by at most one hand-over of the processor to the head of the queue.
`Scheduling` maps `running` to `s.current` (none if that thread has been reaped
while its group dies), `queue` to `s.runnable` and `parked` to `s.waiting`. A
handler, with the nested waits it starts, is one step of `RoundRobin` or none: a
wake that went to the wrong end, a thread that enters the queue twice, a current
thread replaced outside its own event or a waiter dropped with its process is not.

`Container` is the life of a container as the commands' documentation tells it:
`none`, `creating`, `created`, `started`, `running`, `dead`, in this direction only,
from `created` to `started` only after a start was asked for or in `run`. The record
is never ahead of the life. `Lifecycle` maps `life` from the process that is the
container's (a pid that now belongs to somebody else is `dead`) and the step its
supervisor has reached, and `record` from `state.json`, absent while it is
truncated or garbled. The promise is kept for an id that one container uses;
`TwoCreates` shows that it is not for two.

### ChildSetup

A bundle is a record with one field per setting the code reads. Values that only
matter as valid or not are a few names (a hostname is fine, empty, too long or with
odd characters). A path is the sequence of its components.

The kernel's part is external. `k.mounts` has the mounts by the time each was
made (a function on some of the naturals: a recursive bind copies the mounts below
it at the distances they had); a path is shown by the last one at it or above it,
except that nothing mounted over `/` itself is seen by a process whose root is
already there. A file is
known by its file system and its path there, so a bind mount is another way to the
same file. A bind with `MS_REC` takes along the mounts below. Of procfs only the
files the code opens exist. The capability rules are those of `capset(2)`,
`prctl(2)` and of `execve(2)` for root and for others. `HostDevices` and `HostDirs` are
what the host has at configured device paths: `O_PATH` opens a directory too, which is
then bound over a directory, or fails over the placeholder. A sysctl whose file is
missing is made where one can be, that is, on a tmpfs over `/proc/sys`. Mounts are
private from `make_root_private` on, so a change to private or slave changes nothing;
`OptionsAssumption` leaves out `remount` and, but for binds, which ignore them, shared
and unbindable propagation.

`Refusals` are the steps the kernel may refuse for reasons outside the model (a
missing privilege of the host, a security module). A mandatory step then ends the
child, a best-effort one (devices, masks, read-only paths) is passed over, each
element by itself. `refused`, `masked` and `sealed` are history variables.

A mask or a read-only bind of `/` is carried out and has no effect: what is mounted
over the root is not seen, and the remount needs a root that is a mount itself. So
`masked` does not record `/`, and `NonePassedOver` speaks of paths below it. A file is
masked by a bind of `/dev/null`: where that is missing, or is the placeholder that a
device which could not be bound leaves behind, masks of files are passed over, and
`NonePassedOver` says nothing of them.

### Flatten

An entry is a kind, a path and the executable bit; a name carries a mark for the
prefix `.wh.`. What `tar::Entry::unpack_in` does is external: missing parents are
made, files are replaced, a file and a directory in each other's place is an error.
`WhitedOut` is what the two removals of a whiteout do, whose results the code ignores:
an opaque marker takes the directory it is in, with `remove_dir_all` alone, so that a
file there stays; `.wh.` with no name takes a directory but no file; `.wh..` empties
the directory, and `.wh...` the one above, in which the destination itself is if the
whiteout is at the top. A link leads out of the tree.
`normalize_tree` takes the directories of its stack in any order, because
`read_dir` lists them in any.

## Runs

Passing runs. Each property has a mutated definition in its module (the *faulty
variants*) that makes TLC find it violated.

| Run | Instance | Properties |
|---|---|---|
| `AnyThreads` | every guest of up to 3 threads on one futex word: wait, timed wait, wake, requeue, cmp_requeue, wake_op, lock_pi, unlock_pi, clone (may fail), exec, exit, exit_group. 2.5M states | `SingleRunner` one scheduled thread executes, the current one. `RunQueueInv`, `ParkedInv`, `NoThreadLost` the queues are exact. `InjectionPairsUp` an injected result reaches the syscall it was made for. `VtidsUnique`. `NoPtraceError` no request meets a running or dead task. `NoFutexStall` no `FUTEX_WAIT` sleeps in the kernel while others depend on the scheduler (a `FUTEX_LOCK_PI` may, `PiLock`). `DeadlockIsReal`. `TakesTurns` the loop implements `RoundRobin`. `Fifo`, `SwitchOnlyAtSyscall` as the module header promises |
| `AnyTasks` | every guest of up to 3 tasks, threads and forked processes, and one signal of any kind. 670k states | `IInv` (three tasks are too few for `LateStop`) the inductive invariant, of which `SingleRunner`, `RunQueueInv` and `NoThreadLost` are parts or consequences, with processes and signals around the threads |
| `ThreadsTwice` | `tests/fixtures/threads.c` with 3 workers, run twice | `TypeOK`, `SameTrace`, `CompletesNormally` (an exit status, no error), `Finishes` |
| `Progress` | three threads that never stop; or a fork that talks through a pipe | `RunsInTurn`, `PipesServed`; `ScheduledSharesInit` every scheduled thread is one of the init's process, whose memory the futex queues are about |
| `OneContainer` | create or run, start or exec, kill (both kinds) or delete --force, delete or a query; one crash; all failures. 840k states | `TypeOK`, `NoUnsupervisedInit`, `LimitsBeforeEntrypoint` with limits configured and a host that can apply them, the entrypoint runs in its cgroup, `StoppedIsDead`, `RemovesOnlyDead`, `KeepsPromises` (`Lifecycle` implements `Container`) |
| `SameId` | create, run, start and delete --force of one id, two pids. 935k states | `SetupBeforeAnswer`, `PausedUntilStarted`, `LeavesNoChild` a supervisor that ends leaves no child in its setup |
| `Answers` | create, start, delete, a query; every setup failure | `CreateAnswers`, `RunningEnds`, `OutputRecorded` |
| `Setup` | 403 bundles; any step refused. 340k states | `TypeOK`; `StartsUnless` which accepted bundles reach the entrypoint, told from the config alone (if it writes nothing under `/proc` or has nothing but procfs and a tmpfs there); `EntrypointCaps` with which capabilities; `MaskHolds`, `ReadonlyHolds` what was covered or sealed stays so; `NonePassedOver` nothing that exists at the end was passed over |
| `Unpack` | every archive of up to 3 entries out of 21, four destinations. 280k states | `LastEntryDecides` the tree is what the last entry about each path says, if the whiteouts are opaque or name something; `Reproducible` no metadata of the archive is left on a file or directory |

Runs in which the code departs from what its documentation or comments say; the
quotations are under "findings" in `PROJECT.json`.

| Run | Refutes | Because |
|---|---|---|
| `TimedWaits` | `NothingRemainsToWake` | timed futex waits are parked without their timeout and `Deadlock` is reported |
| `SameTraceFork` | `SameTrace` | concurrent processes share the generator, the tick and the trace |
| `LostStart` | `StartReleases` | the pid is reported before the FIFO is opened; a byte written in between is lost |

Further configurations, kept beside the regular runs, show consequences of the
same kind. Each checks one formula and TLC finds it violated:

| Configuration (module) | Formula | Shows |
|---|---|---|
| `ForkThenThread` (MCSupervisor) | `Finishes` | `group_exiting`, set by a forked process's `exit_group`, is never reset; a later thread exit schedules no one |
| `KillThreads` (MCSupervisor) | `CompletesNormally` | SIGKILL with a worker current: `schedule_next` resumes a dying thread, the loop ends with `ESRCH` |
| `LeaderExits` (MCSupervisor) | `Finishes` | main ends with `exit(2)` while a worker lives: main stays current, the worker is never scheduled |
| `PipeBetweenThreads` (MCSupervisor) | `Finishes` | a thread that blocks in a syscall other than futex on another thread stalls both |
| `PiLock` (MCSupervisor) | `Finishes` | a contended `FUTEX_LOCK_PI` sleeps in the kernel with the turn; the holder of the lock is never scheduled |
| `LateStop` (MCSupervisor) | `RunQueueInv` | after a nested `await_attach`, a SIGSTOP is taken for the attach stop of a thread that runs already; it takes four tasks |
| `NestedForks` (MCSupervisor) | `Finishes` | a nested `await_attach` consumes the outer child's attach stop |
| `ForkedThread` (MCSupervisor) | `ScheduledSharesInit` | threads of a forked process are scheduled with the init's |
| `KillBeforeStart` (MCLifecycle) | `LiveStateIsOwned` | SIGKILL, then start: the state stays at `running` with no supervisor |
| `StalePid` (MCLifecycle) | `ActsOnItsContainer` | kill reaches another process that was given the pid |
| `DeleteRace` (MCLifecycle) | `DeleteLeavesNothing` | the last trace lines bring files back during the removal |
| `DeleteOfReused` (MCLifecycle) | `RemovesOnlyDead` | delete checks one container and removes another's directory |
| `TwoCreates` (MCLifecycle) | `StateDescribesOne` | two creates of one id: the pid of one, the fields of the other |
| `FailedCreate` (MCLifecycle) | `DirHasState` | a failed create leaves a directory that cannot be deleted |
| `RunLeavesState` (MCLifecycle) | `RunDeletes` | `run` does not delete the container |
| `LeakedChild` (MCLifecycle) | `LeavesNoWaiter` | after a failed `map_root_user` the child waits for ever on a pipe whose write end it holds itself |
| `ReadonlyRoot` (MCChildSetup) | `ReadonlyRootHonoured` | the read-only remount of `/` comes after the capabilities are dropped and needs a mount point |
| `CwdUnderMount` (MCChildSetup) | `CwdIsShown` | the working directory is entered before the mounts; one of them covers it |
| `DevicesNeedProc` (MCChildSetup) | `DevicesAppear` | without a proc mount the default devices are empty regular files |
| `OpaqueWhiteout` (MCFlatten) | `OpaqueKeepsDirectory` | an opaque whiteout removes the directory it should clear |
| `LinkTimes` (MCFlatten) | `EveryFileNormalized` | a symbolic link keeps the archive's times |
| `TruncatedArchive` (MCFlatten) | `SuccessIsComplete` | an unreadable header ends the archive and `flatten` succeeds |

### Bounds

Three tasks are the least that show a parent, its new child and a bystander whose
stop arrives in between, a wake with two waiters, and a queue in which order
matters; one futex word is enough for queues to be wrong because tid words share
it in the general guests. One signal at any step reaches every state with every
kind. `PipeCapacity` 1 makes both ends of the pipe block. In the general guests
the tasks other than the init are interchangeable, so symmetry is used; runs with
liveness properties use none. Concrete guests have four tasks.

In `Lifecycle` four invocations cover each pair of commands with a creator and
one more; one pid is enough for one container and makes reuse immediate; two
creators need two. One crash at any step is enough because a supervisor's crash
affects only its own init. A second one adds nothing but the other supervisor's.

In `Setup` the bundles are not a full product: settings are combined where some
step reads both (mounts, masks, read-only paths and the OOM score; mounts, network
and sysctls; capabilities, id map and read-only root; working directory and
mounts), and each rule of `validate` is broken once. Two nested paths in each order
are what a rebind can get wrong. Four capabilities have one at the end of the range
and the one the root remount needs. In `Unpack` three entries give write, delete,
write again, and a clash of kinds after either; names one level deep give a
directory with contents; the kinds of entry are all there are in the code.

### Fairness

`Supervisor`: weak fairness of each task's kernel steps and of handling each
task's report, and of the loop's first step. The kernel runs every runnable task
and `waitpid(-1)` returns every report at last. Signals are never forced.
`Lifecycle`: weak fairness of each process that can take its next step and of
guests ending; nobody has to enter a command, no pid has to be reused, no
supervisor has to be killed. Runs over `Spec` check safety only, without fairness.

Deadlock is checked where the guest is meant to end. In the general guests and in
`Lifecycle` the system may stop: a guest may leave all its tasks asleep in the
kernel, and when the last command has ended nothing is left to do. `ChildSetup`
and `Flatten` rest in their last state, so that a step with no way on is reported.

## Proofs

Every theorem is for all values of the constants: any number of tasks, futex words,
commands, pids, crashes, any guest, bundle, archive and destination. The `ASSUME`s
of the modules say what the constants are and nothing else; TLC evaluates them in
the runs. For `ChildSetup` that is: the shape of a bundle, that the files of its root
are in directories (`TreesAssumption`), that a device node has nothing below it
(`HostDevicesAssumption`), that no mount has the options that are left out
(`OptionsAssumption`), and that the capability names are distinct and have
`SYS_ADMIN` among them. Some theorems have a hypothesis, which is stated with them.

| Module | Theorem | States |
|---|---|---|
| `SupervisorProofs` | `Invariant`, `TypeCorrect` | `IInv`, `TypeOK`, for a guest that gets no SIGSTOP (`NoStops`) |
| | `SingleRunnerHolds`, `RunQueueHolds`, `ParkedHolds`, `NoThreadLostHolds`, `VtidsUniqueHolds` | the properties of these names, under `NoStops` |
| `GuestProofs` | `PairInvariant`, `InjectionPairsUpHolds` | `PairInv`, `InjectionPairsUp`, under `NoStops` |
| | `ThreadInvariant`, `NoPtraceErrorHolds`, `NoFutexStallHolds`, `DeadlockIsRealHolds` | `ThreadInv` and the properties of these names, under `NoForks` and `NoFatalSignals` |
| | `CompletesUnlessParked` | under the same: an exit status, or a deadlock with the init parked |
| | `CompletesNormallyHolds` | `CompletesNormally`, if also nobody waits in a futex (`NoFutexWaits`) |
| | `ScheduledSharesInitHolds` | `ScheduledSharesInit`, if forked processes create no threads (`ForkedAlone`, `ForksNoted`), under `NoStops` |
| `SchedulingProofs` | `TakesTurnsHolds` | the loop implements `RoundRobin`, under `NoStops` |
| | `FifoHolds`, `SwitchHolds` | `Fifo`, `SwitchOnlyAtSyscall`, under `NoStops` |
| `LifecycleProofs` | `Invariant`, `TypeCorrect` | `IInv`, `TypeOK` |
| | `NoUnsupervisedInitHolds`, `LimitsHolds`, `PausedUntilStartedHolds`, `SetupBeforeAnswerHolds` | the handshake, for any number of containers of one id |
| | `LeavesNoChildHolds` | `LeavesNoChild`, if no supervisor is killed from outside (`MaxCrashes = 0`) |
| | `StoppedIsDeadHolds`, `RemovesOnlyDeadHolds` | for an id given to one container (`OneContainerOnly`) |
| `PromiseProofs` | `KeepsPromisesHolds` | `Lifecycle` implements `Container`, under `OneContainerOnly` |
| `ChildSetupProofs` | `Invariant`, `TypeCorrect` | its `IInv`, `TypeOK` |
| | `MaskHoldsHolds`, `ReadonlyHoldsHolds`, `EntrypointCapsHolds` | the properties of these names |
| | `StartInvariant` | `StartInv`: what had to be so for the child to get where it is |
| | `StartsUnlessHolds` | `StartsUnless`, for bundles that have nothing written under `/proc` (`WritesNoProc`) |
| | `PassedInvariant`, `NonePassedOverHolds` | `PassedInv`, `NonePassedOver`, if no configured device is a directory of the host (`DevicesAreNodes`) |
| `FlattenProofs` | `Invariant`, `LastEntryDecidesHolds`, `ReproducibleHolds` | its `IInv` and the two properties |

The hypotheses are what the code needs. A supervisor killed in the handshake does
leave its child behind, since EXITKILL is set only once the child has stopped.
And two containers of one id do break the three statements that assume one: one
supervisor then records the end of its container in the state of the other
(`DeleteOfReused` and `TwoCreates` show it).

The same goes for the guest. With a SIGSTOP and four tasks, `await_attach` can take the
signal for an attach stop and queue a thread that is queued or runs already (`LateStop`):
what is said of the run queue needs `NoStops`. Without forks nothing nests, and SIGSTOP
does no harm (`ThreadInvariant` and what follows from it). `NoForks` and `NoFatalSignals` are what the guest of
`AnyThreads` satisfies: threads that do whatever they like with their futexes, start
and end each other, fail to clone, and call exec. With SIGKILL a dying thread is
resumed (`KillThreads`), or, between a clone and its event, a thread is taken for the
last one while its child is still there; with a forked process a thread can sleep in
a futex of the kernel while others wait for the scheduler. `CompletesNormally` also
fails for a guest that really deadlocks, and for one in timed waits (`TimedWaits`), so
it needs a guest without waits; for the others `CompletesUnlessParked` says what else
can happen. `ForkedAlone(L)` says that forked processes run code of their own, `L`,
without clones (`ForkedThread` shows the opposite); `ForksNoted`, that where a clone can
fail, and so leave its note in `clone_pending`, no fork is made by a call that the
supervisor does not look at and that would use the note up. The guest of `Progress`
satisfies both.

### Supervisor

Under `NoStops` and under `NoForks` the stop that `await_attach` takes is the attach stop
(`AttachOnly`); the rest of the argument uses no more of the two than that.
`SingleRunner` is not inductive: whether a thread may be resumed depends on
which stops are still to be reported, which tasks are registered, and on requests
already made and not yet applied. `IInv` is `TypeOK` and two parts.

* `Bookkeeping(s)` is about the supervisor's record alone: the run queue, the
  parked threads, no thread lost, the virtual ids.
* `Link(t, r, s, stk)` ties it to the tasks `t`, the unreported stops `r` and the
  nested waits `stk`: a scheduled task that executes, has an unreported stop or is
  about to be resumed is the current one; a task that was never registered has not
  executed; a task in `pendingStart` still has its attach stop ahead; the child of
  an unreported clone event is new to the supervisor.

Both are stated for any `t, r, s, stk`, so that they also hold of the result of a
method while its requests are unapplied. The argument then follows the code: each
method of `SupervisorState` preserves `Bookkeeping` and the link; the tail of the
loop (`LoopTail`) does; applying the requests (`Commit`) does; and a step of the
kernel leaves `s` alone and only moves a task along (`QuietInv`). One step per
action combines them.

`InjectionPairsUp` needs more than `IInv`: a result could be lost or reach the
wrong syscall if its task were resumed at the exit stop before that stop is handled.
Two places resume a task on account of an older stop, `schedule_next` and the return
of `await_attach`. `PairInv` rules both out: a task with a result to come is inside
its replaced syscall and not yet resumed at its exit stop, and the parent of an
awaited child is still in its clone event stop, keeps its turn and has one handler.

For a guest of threads, `ThreadInv` says what "one at a time" means for all of them,
not just for who executes: every thread is held in a stop that the supervisor has
handled, or is the one whose turn it is, or is being ended by that one (exec and
`exit_group`), or is the new child that is being awaited. It also says that at every
moment there is somebody whose turn it is, and that one who waits in a kernel futex is
the only one scheduled, unless its wait returns at once. `NoPtraceError` then holds because every request goes to a task that
is held; `DeadlockIsReal`, because `schedule_next` finds nobody only when nobody is
held but the parked.

For `ScheduledSharesInit`, `FamilyInv` follows the notes that syscall entry makes in
`clone_pending`. A note that survives a failed clone is used by the next clone event of
that task, which may not be of the same kind; the invariant says for each note which
events can still use it.

`TakesTurns` is proved handler by handler. A step of the loop is split into what the
handler does to the queues and the turn that `schedule_next` may give afterwards, in
the handler or in the tail of the loop (`TurnGiven`); the first is one of
`RoundRobin`'s events or none, the second is its hand-over. `SwitchOnlyAtSyscall`
comes out of the same case analysis. `Fifo` follows from what each event does to the
order of the run queue: it appends, removes the head, or removes an element.

### Lifecycle

`IInv` says where each command, supervisor and process can be relative to the others:

* `CommandsInStep`: what a command has read by the step it is at, and that a
  supervisor exists only for a command that created it;
* `Handshake`: which stages of the init go with each step of its supervisor;
* `Ownership`: a container's process is the one its supervisor cloned and has not
  reaped; this is what makes pid reuse harmless here, because the pid a supervisor
  holds is not free until it has waited for it;
* `Fifos`: a byte in a FIFO, and every release, goes back to a `start` that wrote it;
* `Limits`, `Records`: a state names, and an answer speaks of, only a container that
  went through its setup;
* `Endings`, for one container: `stopped` is recorded, and read by `delete`, only of a
  dead one.

`KeepsPromises` is proved from `IInv` in the current and the next state. A command
changes no life unless it kills, and a killed process only goes forward; a supervisor
changes the life of its own container; the record is written after the fact it tells.

### ChildSetup

The masks and the read-only paths are applied one after the other, to paths that may
lie above or below each other, by binds that copy what is mounted below. The lemma
everything rests on is `BoundOntoItself`: a bind with `MS_REC` of a path onto itself
shows every path as it was shown before, through the new mount or through the copy of
the mount that showed it. So `apply_readonly_paths` changes nothing of what is seen
but the read-only flag of the path it remounts (`RemountShows`). A mask changes what
is seen at and below its path, and nothing else (`MountShows`). Files that are made on
the way (placeholders, missing directories) move no mount. From this, a covered path
stays covered and a sealed one sealed (`StaysCovered`), for any number of paths.
`BoundRecFlat`, the bind without `MS_REC`, breaks both.

`IInv` adds the types, the index within the list each step walks, that nothing is
masked or sealed before its stage, and that the capability sets are the initial ones
before `apply_capabilities` and exactly what it computes between it and the `execve`:
`EntrypointCaps` then follows from the kernel's rule for `execve`. `NamesAssumption`
only lists the strings in the module: the provers do not know that a literal is an
element of `STRING`, and TLC confirms it.

`StartInv` collects what the steps behind the child have shown of its bundle, and for a
child that failed without a refusal, which condition its bundle lacks.

`NonePassedOver` is about paths that do not exist when their turn comes, could not be
made, and must not exist in the end, although every later mask and bind changes what
paths lead to and may create directories. A path can be created later if it is merely
absent; the invariant has to say why it cannot. `Sound(k)` says that the files of each
file system are in directories, that what is mounted was there, and that mount points
are in directories: then whatever exists has directories all the way above it, across
mounts (`Above`). `Uniform(k)` says that until the first remount the mounts of one file
system are all read-only or all not. So when `create_dir_all` fails, something on the
way is missing in a directory of a file system where nothing can be made by any path,
or below something that is no directory: the path is `Stuck`. Each step keeps a stuck
path stuck, unless it is covered by a mask above it (`GrownStuck` for what is created,
`StuckStays` for what is mounted, `MaskLeaves`, `ReadonlySeals`), and a stuck path does
not exist (`StuckGone`). Among the read-only paths `Uniform` no longer holds: there a
path that could not be made is stuck or is shown by a read-only mount already
(`Barred`).

### Flatten

`IInv` says that after `m` entries the tree is `Result(m)`, a definition that looks at
the list of entries and not at the way they were applied: a path is present if the
last entry that writes or deletes it writes it, or it was there before. One lemma per kind of
entry shows that applying it leads from `Result(m)` to `Result(m + 1)`, with the
subtrees that a whiteout removes and the parents that an entry creates. For
`Reproducible`, what is not normalised yet is below a directory on the stack
(`Reachable`), in whatever order the stack is worked off.

### What is only model-checked

* All liveness: `Finishes`, `RunsInTurn`, `PipesServed`, `CreateAnswers`,
  `RunningEnds`, `OutputRecorded`. The prover has no rules for fairness.
* `SameTrace`. It compares two runs, one after the other, of which the second must
  repeat what the first wrote. A proof would have to say what the trace of a guest is,
  as a recursive function of the number of steps, and show by induction that every
  interleaving computes it. That is induction over data.
* `StartsUnless` for bundles that write a sysctl or the OOM score. Which file is
  found under `/proc` then depends on every mount, device and mask of the bundle.
  `ProcWritable` and `SysCovered` foretell it where nothing but procfs and a tmpfs over
  `/proc/sys` is mounted there (`PlainProc`), and `StartsUnless` says nothing of other
  bundles that write there: a bind of a writable procfs over `/proc`, for one, would
  also do. `StartInv` is proved for all.
* `IInv` with a SIGSTOP, for three tasks (`AnyTasks`); for four it does not hold.
* `NonePassedOver` with directories of the host among the devices.
* The hypotheses of `GuestProofs` cut guests off. What lies beyond is refuted for some
  of them (above) and checked by TLC for single ones: the properties of `ThreadsTwice`
  with a guest that joins its threads by futexes.

The installed provers cannot use a theorem with an operator parameter. Where
induction over the naturals was needed it goes through sets and their least element
(`LeastNat`, `InductionUpTo` in `SequenceFacts`). The folds of the community modules
and `SelectSeq` stay out of reach, so the queues, trees and mounts of the modules that
are proved about are defined by comprehension.

## Not modelled

* The wait of a vfork parent, exec by a thread other than the leader, SIGCONT,
  and SIGKILL between `waitpid` and the requests of the handler.
* Failures of `pipe2`, `fork`, `clone`, and of reads and writes of guest memory.
* Of the futex operations that are always passed on, those other than the three of
  `PassedOps`: the death of a lock's owner, the second wake of `FUTEX_WAKE_OP`,
  `FUTEX_WAIT_REQUEUE_PI` (which sleeps as `lock_pi` does), time limits.
* In `ChildSetup`: the mount option `remount` (two entries for one destination are
  rejected unless they are spelled differently); shared and unbindable propagation of
  what is mounted, and a change of it that the kernel propagates; what is mounted
  inside a directory of the host that is bound as a device, and whether the child may
  write there (it may make nothing in it); mounts of the host inside the root
  file system, symbolic links in configured paths, the `personality` call.
  `process.user` is parsed but no code applies it.
* In `Flatten`: hard links, entries below a symbolic link, links that leave the
  tree, ownership.
* The values written to cgroup files (64-bit arithmetic that nothing reads back),
  the text of id maps, signal names (a table), JSON and argument parsing, the fields
  of other platforms, logging and time stamps.

## Plan

1. Done: `SupervisorState`, `Supervisor`, their type and safety invariants checked
   and proved; `Determinism`; `Lifecycle` with its safety and liveness runs.
2. Done: the abstract scheduler and container with their refinements, `ChildSetup`,
   `Flatten`.
3. Done: both refinements, `Fifo`, `SwitchOnlyAtSyscall` and `InjectionPairsUp`; the
   safety of `Lifecycle`; masks, read-only paths and capabilities of `ChildSetup`;
   `Flatten`.
4. Done: `NoPtraceError`, `NoFutexStall`, `DeadlockIsReal`, `CompletesNormally` and
   `ScheduledSharesInit` for the guests they hold for, guests with SIGSTOP and futex
   operations that are always passed on told apart; `StartsUnless` for bundles that
   write nothing under `/proc`; `NonePassedOver`.

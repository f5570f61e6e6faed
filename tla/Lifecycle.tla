----------------------------- MODULE Lifecycle -----------------------------
(***************************************************************************)
(* The life of one container id: the dtrun commands that name it, the      *)
(* supervisor daemon that `create` forks (or the supervising process that  *)
(* `run` is), the container's init process and the container directory     *)
(* they share (runtime/host.rs, ops.rs, state.rs, exec.rs, child.rs).      *)
(*                                                                         *)
(* Every command is an operating-system process of its own, so commands    *)
(* interleave at every system call that touches something shared: the      *)
(* entries of the directory, the exec FIFO, the init's pid.  The loop of   *)
(* runtime/supervisor.rs is one step here that ends with an exit code or   *)
(* an error; Supervisor.tla is its model.                                  *)
(*                                                                         *)
(* A supervisor is named by the command that made it, a FIFO by the        *)
(* `create` that made it: a path that was removed and made again leads to  *)
(* another FIFO.  Failures of pipe2, fork and clone are left out.          *)
(***************************************************************************)
EXTENDS Integers, FiniteSets

CONSTANTS
    Cli,            \* the invocations of dtrun, one process each
    Commands,       \* the commands each may be
    NoCli,
    Pid,            \* host pids
    NoPid,
    Codes,          \* exit codes of guests
    Resources,      \* the creators whose config has linux.resources
    MayFail,        \* what may go wrong, a subset of Failures
    MaxCrashes      \* how many supervisors may be killed

CommandNames ==
    {"create", "run", "start", "kill", "sigkill", "delete", "force", "exec", "state", "list"}

\* "config": the bundle is unusable.  "map": map_root_user fails.  "setup":
\* the child fails before its SIGSTOP.  "supervise": supervise() returns an
\* error.  "cgroup": no delegated cgroup v2 tree, or one that will not have
\* the init.  "reuse": the host gives a freed pid to a process of its own.
Failures == {"config", "map", "setup", "supervise", "cgroup", "reuse"}

Killed == 137

ASSUME CliAssumption == NoCli \notin Cli
ASSUME PidAssumption == NoPid \notin Pid
ASSUME CommandsAssumption == Commands \in [Cli -> SUBSET CommandNames]
ASSUME MayFailAssumption == MayFail \subseteq Failures
ASSUME BoundAssumption == MaxCrashes \in Nat
ASSUME CodesAssumption == Codes \subseteq Nat
ASSUME ResourcesAssumption == Resources \subseteq Cli

VARIABLES
    cli,        \* the commands
    sup,        \* the supervisor each `create` or `run` has
    proc,       \* the processes at the pids
    fs,         \* the container directory
    bytes,      \* bytes in each FIFO
    cgroup,     \* the pids moved into the container's cgroup
    crashes     \* supervisors killed so far

vars == <<cli, sup, proc, fs, bytes, cgroup, crashes>>

-----------------------------------------------------------------------------
(* State *)

Creators == {c \in Cli : cli[c].cmd \in {"create", "run"}}
Detached(c) == cli[c].cmd = "create"

\* ContainerState.  `by` stands for the fields that describe one container
\* (bundle, rootfs, seed, created) and tell it from another of the same id.
StateRecord ==
    [status : {"created", "running", "stopped"}, pid : Pid, code : Codes \cup {0, Killed}, by : Cli]

\* state.json: absent, truncated by File::create, the interleaved output of
\* two writers, or a state.
Absent == [status |-> "absent"]
Empty == [status |-> "empty"]
Garbled == [status |-> "garbled"]
FileContent == StateRecord \cup {Absent, Empty, Garbled}

\* read_state succeeds.
Parses(f) == f.status \in {"created", "running", "stopped"}

Entries == {"state", "fifo", "trace"}

\* A line of trace.jsonl: who wrote it, and whether it is an event of the
\* supervised run or a captured output line.
Line == Cli \X {"event", "output"}

Answers == {"none", "pid", "error"}

CliType ==
    [cmd : CommandNames \cup {"none"},
     pc : {"idle", "begin", "reset", "mkfifo", "fork", "wait", "open", "write", "close",
           "send", "scan", "unlink", "enter", "inside", "done"},
     st : FileContent,              \* the state it read
     ino : Cli \cup {NoCli},        \* the FIFO it opened
     todo : SUBSET Entries,         \* entries remove_dir_all has yet to unlink
     joined : 0..6,                 \* namespaces entered
     hit : Cli \cup {NoCli},        \* whose process it signalled or joined
     result : {"none", "ok", "error", "refused"}]

SupType ==
    [pc : {"none", "spawn", "map", "wait_stop", "open_state", "write_state", "report",
           "open_fifo", "read_fifo", "limits", "read_state", "supervise", "supervising",
           "relay", "exited"},
     pid : Pid \cup {NoPid},
     st : FileContent,              \* the state write_state is to write
     ino : Cli \cup {NoCli},
     answer : Answers]              \* what it wrote to the ready pipe

\* "foreign" is a host process that has nothing to do with dtrun.
ProcType ==
    [pc : {"free", "foreign", "cloned", "wait_maps", "setup", "stopping", "paused",
           "running", "zombie"},
     owner : Cli \cup {NoCli},
     code : Codes \cup {0, 1, Killed}]

FsType ==
    [dir : BOOLEAN, entries : SUBSET Entries, file : FileContent, fifo : Cli \cup {NoCli},
     lines : SUBSET Line,
     opened : SUBSET Cli]           \* supervisors with state.json open for writing

\* Every variable has its type.
TypeOK ==
    /\ cli \in [Cli -> CliType]
    /\ sup \in [Cli -> SupType]
    /\ proc \in [Pid -> ProcType]
    /\ fs \in FsType
    /\ bytes \in [Cli -> Nat]
    /\ cgroup \in SUBSET Pid
    /\ crashes \in 0..MaxCrashes

FreeProc == [pc |-> "free", owner |-> NoCli, code |-> 0]

Init ==
    /\ cli = [c \in Cli |-> [cmd |-> "none", pc |-> "idle", st |-> Absent, ino |-> NoCli,
                             todo |-> {}, joined |-> 0, hit |-> NoCli, result |-> "none"]]
    /\ sup = [c \in Cli |-> [pc |-> "none", pid |-> NoPid, st |-> Absent, ino |-> NoCli,
                             answer |-> "none"]]
    /\ proc = [p \in Pid |-> FreeProc]
    /\ fs = [dir |-> FALSE, entries |-> {}, file |-> Absent, fifo |-> NoCli,
             lines |-> {}, opened |-> {}]
    /\ bytes = [c \in Cli |-> 0]
    /\ cgroup = {}
    /\ crashes = 0

-----------------------------------------------------------------------------
(* The command line *)

Goto(c, pc) == cli' = [cli EXCEPT ![c].pc = pc]

Finish(c, result) == cli' = [cli EXCEPT ![c].pc = "done", ![c].result = result]

\* main: a command is entered and parsed.
Invoke(c) ==
    /\ cli[c].pc = "idle"
    /\ \E cmd \in Commands[c] : cli' = [cli EXCEPT ![c].cmd = cmd, ![c].pc = "begin"]
    /\ UNCHANGED <<sup, proc, fs, bytes, cgroup, crashes>>

\* load_host or Host::validate rejects the bundle before anything is made.
RejectBundle(c) ==
    /\ cli[c].pc = "begin" /\ c \in Creators /\ "config" \in MayFail
    /\ Finish(c, "error")
    /\ UNCHANGED <<sup, proc, fs, bytes, cgroup, crashes>>

\* init_container_dir: create_dir_all also accepts a directory that exists.
InitContainerDir(c) ==
    /\ cli[c].pc = "begin" /\ c \in Creators
    /\ fs' = [fs EXCEPT !.dir = TRUE]
    /\ Goto(c, "reset")
    /\ UNCHANGED <<sup, proc, bytes, cgroup, crashes>>

\* reset_trace; `run` goes on in this process as the supervisor.
ResetTrace(c) ==
    /\ cli[c].pc = "reset"
    /\ fs' = IF fs.dir THEN [fs EXCEPT !.entries = @ \cup {"trace"}, !.lines = {}] ELSE fs
    /\ Goto(c, IF Detached(c) THEN "mkfifo" ELSE "wait")
    /\ sup' = IF Detached(c) THEN sup ELSE [sup EXCEPT ![c].pc = "spawn"]
    /\ UNCHANGED <<proc, bytes, cgroup, crashes>>

\* mkfifo; EEXIST is not an error.
Mkfifo(c) ==
    /\ cli[c].pc = "mkfifo"
    /\ IF fs.dir
       THEN /\ fs' = [fs EXCEPT !.entries = @ \cup {"fifo"},
                                !.fifo = IF "fifo" \in fs.entries THEN @ ELSE c]
            /\ Goto(c, "fork")
       ELSE Finish(c, "error") /\ UNCHANGED fs
    /\ UNCHANGED <<sup, proc, bytes, cgroup, crashes>>

\* create_detached, the parent's side: fork the daemon, then read a line.
ForkDaemon(c) ==
    /\ cli[c].pc = "fork"
    /\ sup' = [sup EXCEPT ![c].pc = "spawn"]
    /\ Goto(c, "wait")
    /\ UNCHANGED <<proc, fs, bytes, cgroup, crashes>>

\* Processes of c that have inherited the ready pipe and not yet exec'd.
HoldsReadyPipe(c) ==
    \E p \in Pid : /\ proc[p].owner = c
                   /\ proc[p].pc \in {"cloned", "wait_maps", "setup", "stopping", "paused"}

\* The line is a pid, or an error; end of file is an error too.
ReadAnswer(c) ==
    /\ cli[c].pc = "wait" /\ Detached(c)
    /\ \/ sup[c].answer # "none"
       \/ sup[c].pc = "exited" /\ ~HoldsReadyPipe(c)
    /\ Finish(c, IF sup[c].answer = "pid" THEN "ok" ELSE "error")
    /\ UNCHANGED <<sup, proc, fs, bytes, cgroup, crashes>>

-----------------------------------------------------------------------------
(* The end of a supervisor process *)

\* Faulty variant: PTRACE_O_EXITKILL is not among the options.
ExitKillUnset(c) == proc

\* PTRACE_O_EXITKILL, set when the init was first seen stopped, kills it with
\* its tracer; a child still in setup is not traced and lives on.
ExitKill(c) ==
    [p \in Pid |-> IF proc[p].owner = c /\ proc[p].pc \in {"paused", "running"}
                   THEN [proc[p] EXCEPT !.pc = "zombie", !.code = Killed]
                   ELSE proc[p]]

\* Processes that have FIFO i open keep the bytes in it.
FifoUsers(i) ==
    {c \in Cli : \/ sup[c].pc = "read_fifo" /\ sup[c].ino = i
                 \/ cli[c].pc \in {"write", "close"} /\ cli[c].ino = i}

\* Closing the last descriptor of a FIFO discards its bytes.
CloseFifo(c, i) ==
    bytes' = IF i # NoCli /\ FifoUsers(i) \subseteq {c} THEN [bytes EXCEPT ![i] = 0] ELSE bytes

\* The supervisor of c ends; `run` ends with it.
ExitSupervisor(c, answer, result) ==
    /\ sup' = [sup EXCEPT ![c].pc = "exited", ![c].answer = answer]
    /\ proc' = ExitKill(c)
    /\ fs' = [fs EXCEPT !.opened = @ \ {c}]
    /\ CloseFifo(c, sup[c].ino)
    /\ IF Detached(c) THEN UNCHANGED cli ELSE Finish(c, result)

\* Faulty variant: the daemon exits without writing the error.
SupervisorErrorSilent(c) == ExitSupervisor(c, sup[c].answer, "error")

\* An error on the way: before the answer it is the answer; afterwards the
\* daemon ignores it and exits.
SupervisorError(c) ==
    ExitSupervisor(c, IF sup[c].answer = "none" THEN "error" ELSE sup[c].answer, "error")

-----------------------------------------------------------------------------
(* spawn_created and the child it clones *)

Clone(c, p) ==
    /\ sup[c].pc = "spawn"
    /\ proc[p].pc = "free"
    /\ proc' = [proc EXCEPT ![p] = [pc |-> "cloned", owner |-> c, code |-> 0]]
    /\ sup' = [sup EXCEPT ![c].pc = "map", ![c].pid = p]
    /\ UNCHANGED <<cli, fs, bytes, cgroup, crashes>>

\* setup_and_exec_child: signal ready, then read the acknowledgement.  The
\* child's own copy of the write end keeps that read from ever failing.
ChildReady(p) ==
    /\ proc[p].pc = "cloned"
    /\ proc' = [proc EXCEPT ![p].pc = "wait_maps"]
    /\ UNCHANGED <<cli, sup, fs, bytes, cgroup, crashes>>

\* map_root_user for the waiting child, and the acknowledgement.
MapRootUser(c) ==
    /\ sup[c].pc = "map"
    /\ proc[sup[c].pid].pc = "wait_maps"
    /\ proc' = [proc EXCEPT ![sup[c].pid].pc = "setup"]
    /\ sup' = [sup EXCEPT ![c].pc = "wait_stop"]
    /\ UNCHANGED <<cli, fs, bytes, cgroup, crashes>>

\* map_root_user fails: refused by the kernel, or the child is dead.
MapFails(c) ==
    /\ sup[c].pc = "map"
    /\ \/ proc[sup[c].pid].pc = "wait_maps" /\ "map" \in MayFail
       \/ proc[sup[c].pid].pc = "zombie"
    /\ SupervisorError(c)
    /\ UNCHANGED <<cgroup, crashes>>

\* The rest of the setup, up to raise(SIGSTOP).
ChildStops(p) ==
    /\ proc[p].pc = "setup"
    /\ proc' = [proc EXCEPT ![p].pc = "stopping"]
    /\ UNCHANGED <<cli, sup, fs, bytes, cgroup, crashes>>

\* A setup step fails and the child returns 1.
ChildFails(p) ==
    /\ proc[p].pc = "setup" /\ "setup" \in MayFail
    /\ proc' = [proc EXCEPT ![p].pc = "zombie", ![p].code = 1]
    /\ UNCHANGED <<cli, sup, fs, bytes, cgroup, crashes>>

\* mk_state
MkState(c, status) == [status |-> status, pid |-> sup[c].pid, code |-> 0, by |-> c]

\* Faulty variant: the daemon goes on without waiting for the stop.
ChildPausedUnwaited(c) ==
    /\ sup[c].pc = "wait_stop"
    /\ sup' = IF Detached(c)
              THEN [sup EXCEPT ![c].pc = "open_state", ![c].st = MkState(c, "created")]
              ELSE [sup EXCEPT ![c].pc = "limits"]
    /\ UNCHANGED <<cli, proc, fs, bytes, cgroup, crashes>>

\* The waitpid of spawn_created sees the stop and sets the ptrace options.
ChildPaused(c) ==
    /\ sup[c].pc = "wait_stop"
    /\ proc[sup[c].pid].pc = "stopping"
    /\ proc' = [proc EXCEPT ![sup[c].pid].pc = "paused"]
    /\ sup' = IF Detached(c)
              THEN [sup EXCEPT ![c].pc = "open_state", ![c].st = MkState(c, "created")]
              ELSE [sup EXCEPT ![c].pc = "limits"]
    /\ UNCHANGED <<cli, fs, bytes, cgroup, crashes>>

\* The waitpid of spawn_created sees the child dead.
ChildDied(c) ==
    /\ sup[c].pc = "wait_stop"
    /\ proc[sup[c].pid].pc = "zombie"
    /\ SupervisorError(c)
    /\ UNCHANGED <<cgroup, crashes>>

-----------------------------------------------------------------------------
(* The state file *)

\* write_state, File::create: the file is made or truncated.  Without a
\* directory it fails, which only the last write survives.
OpenState(c) ==
    /\ sup[c].pc = "open_state"
    /\ IF fs.dir
       THEN /\ fs' = [fs EXCEPT !.entries = @ \cup {"state"}, !.file = Empty, !.opened = @ \cup {c}]
            /\ sup' = [sup EXCEPT ![c].pc = "write_state"]
            /\ UNCHANGED <<cli, proc, bytes>>
       ELSE IF sup[c].st.status = "stopped"
       THEN sup' = [sup EXCEPT ![c].pc = "relay"] /\ UNCHANGED <<cli, proc, fs, bytes>>
       ELSE SupervisorError(c)
    /\ UNCHANGED <<cgroup, crashes>>

\* What a write leaves in the file: a second writer's bytes may show.
Written(c) ==
    CASE c \notin fs.opened -> {fs.file}
      [] c \in fs.opened /\ fs.file = Empty -> {sup[c].st}
      [] OTHER -> {sup[c].st, Garbled}

\* write_state, write_all; then what the caller does next.
WriteState(c) ==
    /\ sup[c].pc = "write_state"
    /\ \E f \in Written(c) : fs' = [fs EXCEPT !.file = f, !.opened = @ \ {c}]
    /\ sup' = [sup EXCEPT ![c].pc = CASE sup[c].st.status = "created" -> "report"
                                      [] sup[c].st.status = "running" -> "supervise"
                                      [] sup[c].st.status = "stopped" -> "relay"]
    /\ UNCHANGED <<cli, proc, bytes, cgroup, crashes>>

-----------------------------------------------------------------------------
(* The daemon between create and start *)

\* supervisor_created: the pid is written to the ready pipe.
Report(c) ==
    /\ sup[c].pc = "report"
    /\ sup' = [sup EXCEPT ![c].pc = "open_fifo", ![c].answer = "pid"]
    /\ UNCHANGED <<cli, proc, fs, bytes, cgroup, crashes>>

\* supervisor_wait_and_run: the FIFO is opened for reading and writing.
OpenFifo(c) ==
    /\ sup[c].pc = "open_fifo"
    /\ IF "fifo" \in fs.entries
       THEN /\ sup' = [sup EXCEPT ![c].pc = "read_fifo", ![c].ino = fs.fifo]
            /\ UNCHANGED <<cli, proc, fs, bytes>>
       ELSE SupervisorError(c)
    /\ UNCHANGED <<cgroup, crashes>>

\* Faulty variant: the FIFO is read without blocking.
ReadFifoNonblocking(c) ==
    /\ sup[c].pc = "read_fifo"
    /\ bytes' = [bytes EXCEPT ![sup[c].ino] = 0]
    /\ sup' = [sup EXCEPT ![c].pc = "limits"]
    /\ UNCHANGED <<cli, proc, fs, cgroup, crashes>>

\* read_exact through a BufReader: blocks for a byte and takes them all.
ReadFifo(c) ==
    /\ sup[c].pc = "read_fifo"
    /\ bytes[sup[c].ino] > 0
    /\ bytes' = [bytes EXCEPT ![sup[c].ino] = 0]
    /\ sup' = [sup EXCEPT ![c].pc = "limits"]
    /\ UNCHANGED <<cli, proc, fs, cgroup, crashes>>

\* Faulty variant: the init is not moved into the cgroup.
ApplyLimitsUnmoved(c) ==
    /\ sup[c].pc = "limits"
    /\ sup' = IF Detached(c)
              THEN [sup EXCEPT ![c].pc = "read_state"]
              ELSE [sup EXCEPT ![c].pc = "open_state", ![c].st = MkState(c, "running")]
    /\ UNCHANGED <<cli, proc, fs, bytes, cgroup, crashes>>

\* What apply_limits cannot avoid: it returns at once for a config without
\* linux.resources, and only warns when the host will not have the init moved.
MustLimit(c) == c \in Resources /\ "cgroup" \notin MayFail

\* cgroup::apply_limits: best effort.  `run` then writes its first state.
ApplyLimits(c) ==
    /\ sup[c].pc = "limits"
    /\ \/ c \in Resources /\ cgroup' = cgroup \cup {sup[c].pid}
       \/ ~MustLimit(c) /\ cgroup' = cgroup
    /\ sup' = IF Detached(c)
              THEN [sup EXCEPT ![c].pc = "read_state"]
              ELSE [sup EXCEPT ![c].pc = "open_state", ![c].st = MkState(c, "running")]
    /\ UNCHANGED <<cli, proc, fs, bytes, crashes>>

\* read_state, or a fresh state if that fails, with status and pid replaced.
ReadState(c) ==
    /\ sup[c].pc = "read_state"
    /\ sup' = [sup EXCEPT ![c].pc = "open_state",
                          ![c].st = IF Parses(fs.file)
                                    THEN [fs.file EXCEPT !.status = "running", !.pid = sup[c].pid]
                                    ELSE MkState(c, "running")]
    /\ UNCHANGED <<cli, proc, fs, bytes, cgroup, crashes>>

-----------------------------------------------------------------------------
(* supervise_and_finish *)

\* trace_event makes the file again if it is gone, but not the directory.
Traced(c, kind) ==
    IF fs.dir THEN [fs EXCEPT !.entries = @ \cup {"trace"}, !.lines = @ \cup {<<c, kind>>}] ELSE fs

\* supervise resumes the init, which execs the entrypoint.
Supervise(c) ==
    /\ sup[c].pc = "supervise"
    /\ proc[sup[c].pid].pc = "paused"
    /\ proc' = [proc EXCEPT ![sup[c].pid].pc = "running"]
    /\ sup' = [sup EXCEPT ![c].pc = "supervising"]
    /\ UNCHANGED <<cli, fs, bytes, cgroup, crashes>>

\* The init was killed while paused and the first PTRACE_SYSCALL finds it in its
\* exit stop (PTRACE_O_TRACEEXIT): the loop goes on and reports the signal.
SuperviseKilled(c) ==
    /\ sup[c].pc = "supervise"
    /\ proc[sup[c].pid].pc = "zombie"
    /\ sup' = [sup EXCEPT ![c].pc = "supervising"]
    /\ UNCHANGED <<cli, proc, fs, bytes, cgroup, crashes>>

\* Or it is on its way there, or past it, and the request fails (ESRCH).
SuperviseGone(c) ==
    /\ sup[c].pc = "supervise"
    /\ proc[sup[c].pid].pc = "zombie"
    /\ SupervisorError(c)
    /\ UNCHANGED <<cgroup, crashes>>

TraceEvent(c) ==
    /\ sup[c].pc = "supervising"
    /\ fs' = Traced(c, "event")
    /\ UNCHANGED <<cli, sup, proc, bytes, cgroup, crashes>>

\* The entrypoint ends.
GuestExit(p, code) ==
    /\ proc[p].pc = "running"
    /\ proc' = [proc EXCEPT ![p].pc = "zombie", ![p].code = code]
    /\ UNCHANGED <<cli, sup, fs, bytes, cgroup, crashes>>

\* Faulty variant: supervise returns while the init is still alive.
SuperviseReturnsEarly(c) ==
    /\ sup[c].pc = "supervising"
    /\ sup' = [sup EXCEPT ![c].pc = "open_state", ![c].st.status = "stopped"]
    /\ fs' = Traced(c, "event")
    /\ UNCHANGED <<cli, proc, bytes, cgroup, crashes>>

\* Faulty variant: the stopped state is not written.
SuperviseReturnsUnsaved(c) ==
    /\ sup[c].pc = "supervising"
    /\ proc[sup[c].pid].pc = "zombie"
    /\ sup' = [sup EXCEPT ![c].pc = "relay"]
    /\ proc' = [proc EXCEPT ![sup[c].pid] = FreeProc]
    /\ cgroup' = cgroup \ {sup[c].pid}
    /\ fs' = Traced(c, "event")
    /\ UNCHANGED <<cli, bytes, crashes>>

\* supervise reaps the init, records the exit and returns its code.
SuperviseReturns(c) ==
    LET p == sup[c].pid
    IN /\ sup[c].pc = "supervising"
       /\ proc[p].pc = "zombie"
       /\ sup' = [sup EXCEPT ![c].pc = "open_state", ![c].st.status = "stopped",
                             ![c].st.code = proc[p].code]
       /\ proc' = [proc EXCEPT ![p] = FreeProc]
       /\ cgroup' = cgroup \ {p}
       /\ fs' = Traced(c, "event")
       /\ UNCHANGED <<cli, bytes, crashes>>

\* supervise returns an error, which leaves the state file as it is.
SuperviseFails(c) ==
    /\ sup[c].pc = "supervising" /\ "supervise" \in MayFail
    /\ SupervisorError(c)
    /\ UNCHANGED <<cgroup, crashes>>

\* Faulty variant: the relays are dropped.
RelayDropped(c) ==
    /\ sup[c].pc = "relay"
    /\ sup' = [sup EXCEPT ![c].pc = "exited"]
    /\ IF Detached(c) THEN UNCHANGED cli ELSE Finish(c, "ok")
    /\ UNCHANGED <<proc, fs, bytes, cgroup, crashes>>

\* The relays are joined and their lines appended; then the process ends.
Relay(c) ==
    /\ sup[c].pc = "relay"
    /\ sup' = [sup EXCEPT ![c].pc = "exited"]
    /\ fs' = Traced(c, "output")
    /\ IF Detached(c) THEN UNCHANGED cli ELSE Finish(c, "ok")
    /\ UNCHANGED <<proc, bytes, cgroup, crashes>>

\* A supervisor is killed from outside.
SupervisorKilled(c) ==
    /\ sup[c].pc \notin {"none", "exited"}
    /\ crashes < MaxCrashes
    /\ crashes' = crashes + 1
    /\ ExitSupervisor(c, sup[c].answer, "error")
    /\ UNCHANGED cgroup

-----------------------------------------------------------------------------
(* Pids *)

\* The host's init reaps what a dead supervisor left.
HostReaps(p) ==
    /\ proc[p].pc = "zombie"
    /\ sup[proc[p].owner].pc = "exited"
    /\ proc' = [proc EXCEPT ![p] = FreeProc]
    /\ cgroup' = cgroup \ {p}
    /\ UNCHANGED <<cli, sup, fs, bytes, crashes>>

HostReuses(p) ==
    /\ proc[p].pc = "free" /\ "reuse" \in MayFail
    /\ \E c \in Cli : sup[c].pid = p
    /\ proc' = [proc EXCEPT ![p].pc = "foreign"]
    /\ UNCHANGED <<cli, sup, fs, bytes, cgroup, crashes>>

\* kill(p, SIGKILL): a host process simply goes.
Slay(p) ==
    proc' = CASE proc[p].pc = "foreign" -> [proc EXCEPT ![p] = FreeProc]
              [] proc[p].pc \in {"free", "zombie"} -> proc
              [] OTHER -> [proc EXCEPT ![p].pc = "zombie", ![p].code = Killed]

-----------------------------------------------------------------------------
(* start, kill, delete, exec, state, list *)

\* Every one of them starts with read_state and gives up if that fails.
ReadFails(c) ==
    /\ cli[c].pc = "begin" /\ c \notin Creators /\ cli[c].cmd # "list"
    /\ ~Parses(fs.file)
    /\ Finish(c, "error")
    /\ UNCHANGED <<sup, proc, fs, bytes, cgroup, crashes>>

\* read_state, the command's check of it, and where it goes on.
Reads(c, allowed, pc) ==
    /\ cli[c].pc = "begin" /\ Parses(fs.file)
    /\ IF fs.file.status \in allowed
       THEN cli' = [cli EXCEPT ![c].pc = pc, ![c].st = fs.file]
       ELSE cli' = [cli EXCEPT ![c].pc = "done", ![c].st = fs.file, ![c].result = "refused"]
    /\ UNCHANGED <<sup, proc, fs, bytes, cgroup, crashes>>

StartRead(c) == cli[c].cmd = "start" /\ Reads(c, {"created"}, "open")

StartOpen(c) ==
    /\ cli[c].pc = "open"
    /\ IF "fifo" \in fs.entries
       THEN cli' = [cli EXCEPT ![c].pc = "write", ![c].ino = fs.fifo]
       ELSE Finish(c, "error")
    /\ UNCHANGED <<sup, proc, fs, bytes, cgroup, crashes>>

StartWrite(c) ==
    /\ cli[c].pc = "write"
    /\ bytes' = [bytes EXCEPT ![cli[c].ino] = @ + 1]
    /\ Goto(c, "close")
    /\ UNCHANGED <<sup, proc, fs, cgroup, crashes>>

StartClose(c) ==
    /\ cli[c].pc = "close"
    /\ CloseFifo(c, cli[c].ino)
    /\ Finish(c, "ok")
    /\ UNCHANGED <<sup, proc, fs, cgroup, crashes>>

\* kill_container does not look at the status.
KillRead(c) ==
    cli[c].cmd \in {"kill", "sigkill"} /\ Reads(c, {"created", "running", "stopped"}, "send")

\* A signal other than SIGKILL is the guest's to act on: see GuestExit.
KillSend(c) ==
    /\ cli[c].pc = "send" /\ cli[c].cmd \in {"kill", "sigkill"}
    /\ LET p == cli[c].st.pid
       IN IF proc[p].pc = "free"
          THEN Finish(c, "error") /\ UNCHANGED proc
          ELSE /\ cli' = [cli EXCEPT ![c].pc = "done", ![c].result = "ok",
                                     ![c].hit = proc[p].owner]
               /\ IF cli[c].cmd = "sigkill" THEN Slay(p) ELSE UNCHANGED proc
    /\ UNCHANGED <<sup, fs, bytes, cgroup, crashes>>

\* Faulty variant: delete does not look at the status.
DeleteReadUnchecked(c) ==
    cli[c].cmd = "delete" /\ Reads(c, {"created", "running", "stopped"}, "scan")

DeleteRead(c) == cli[c].cmd = "delete" /\ Reads(c, {"stopped"}, "scan")

ForceRead(c) == cli[c].cmd = "force" /\ Reads(c, {"created", "running", "stopped"}, "send")

\* delete --force: the error of kill is ignored.
ForceKill(c) ==
    /\ cli[c].pc = "send" /\ cli[c].cmd = "force"
    /\ cli' = [cli EXCEPT ![c].pc = "scan",
                          ![c].hit = IF proc[cli[c].st.pid].pc = "free"
                                     THEN cli[c].st.by ELSE proc[cli[c].st.pid].owner]
    /\ Slay(cli[c].st.pid)
    /\ UNCHANGED <<sup, fs, bytes, cgroup, crashes>>

\* remove_dir_all: the entries found are unlinked one by one, then the
\* directory is removed, which fails if it has gained an entry.
RemoveScan(c) ==
    /\ cli[c].pc = "scan"
    /\ IF fs.dir
       THEN cli' = [cli EXCEPT ![c].pc = "unlink", ![c].todo = fs.entries]
       ELSE Finish(c, "error")
    /\ UNCHANGED <<sup, proc, fs, bytes, cgroup, crashes>>

Unlinked(e) ==
    CASE e = "state" -> [fs EXCEPT !.entries = @ \ {e}, !.file = Absent, !.opened = {}]
      [] e = "fifo" -> [fs EXCEPT !.entries = @ \ {e}, !.fifo = NoCli]
      [] e = "trace" -> [fs EXCEPT !.entries = @ \ {e}, !.lines = {}]

RemoveEntry(c, e) ==
    /\ cli[c].pc = "unlink" /\ e \in cli[c].todo
    /\ fs' = Unlinked(e)
    /\ cli' = [cli EXCEPT ![c].todo = @ \ {e}]
    /\ UNCHANGED <<sup, proc, bytes, cgroup, crashes>>

RemoveDir(c) ==
    /\ cli[c].pc = "unlink" /\ cli[c].todo = {}
    /\ IF fs.dir /\ fs.entries = {}
       THEN fs' = [fs EXCEPT !.dir = FALSE] /\ Finish(c, "ok")
       ELSE UNCHANGED fs /\ Finish(c, "error")
    /\ UNCHANGED <<sup, proc, bytes, cgroup, crashes>>

\* exec_in_container is refused only for a stopped container.
ExecRead(c) == cli[c].cmd = "exec" /\ Reads(c, {"created", "running"}, "enter")

\* Faulty variant: one namespace too many.
EnterNsTwice(c) ==
    LET p == cli[c].st.pid
    IN /\ cli[c].pc = "enter"
       /\ IF proc[p].pc \in {"free", "zombie"}
          THEN Finish(c, "error")
          ELSE cli' = [cli EXCEPT ![c].joined = @ + 1, ![c].hit = proc[p].owner,
                                  ![c].pc = IF cli[c].joined = 6 THEN "inside" ELSE "enter"]
       /\ UNCHANGED <<sup, proc, fs, bytes, cgroup, crashes>>

\* enter_ns: user, mnt, net, ipc, uts, pid, each through /proc/<pid>/ns.
EnterNs(c) ==
    LET p == cli[c].st.pid
    IN /\ cli[c].pc = "enter"
       /\ IF proc[p].pc \in {"free", "zombie"}
          THEN Finish(c, "error")
          ELSE cli' = [cli EXCEPT ![c].joined = @ + 1, ![c].hit = proc[p].owner,
                                  ![c].pc = IF cli[c].joined = 5 THEN "inside" ELSE "enter"]
       /\ UNCHANGED <<sup, proc, fs, bytes, cgroup, crashes>>

\* The command runs in a forked child and its code is returned.
ExecEnds(c) ==
    /\ cli[c].pc = "inside"
    /\ Finish(c, "ok")
    /\ UNCHANGED <<sup, proc, fs, bytes, cgroup, crashes>>

\* print_state and list_containers only read; list skips what it cannot.
Prints(c) ==
    /\ cli[c].pc = "begin"
    /\ cli' = [cli EXCEPT ![c].pc = "done", ![c].result = "ok",
                          ![c].st = IF Parses(fs.file) THEN fs.file ELSE Absent]
    /\ UNCHANGED <<sup, proc, fs, bytes, cgroup, crashes>>

PrintState(c) == cli[c].cmd = "state" /\ Parses(fs.file) /\ Prints(c)

ListContainers(c) == cli[c].cmd = "list" /\ Prints(c)

-----------------------------------------------------------------------------
(* The specification *)

CommandStep(c) ==
    \/ RejectBundle(c) \/ InitContainerDir(c) \/ ResetTrace(c) \/ Mkfifo(c) \/ ForkDaemon(c)
    \/ ReadAnswer(c)
    \/ ReadFails(c)
    \/ StartRead(c) \/ StartOpen(c) \/ StartWrite(c) \/ StartClose(c)
    \/ KillRead(c) \/ KillSend(c)
    \/ DeleteRead(c) \/ ForceRead(c) \/ ForceKill(c)
    \/ RemoveScan(c) \/ (\E e \in Entries : RemoveEntry(c, e)) \/ RemoveDir(c)
    \/ ExecRead(c) \/ EnterNs(c) \/ ExecEnds(c)
    \/ PrintState(c) \/ ListContainers(c)

SupervisorStep(c) ==
    \/ \E p \in Pid : Clone(c, p)
    \/ MapRootUser(c) \/ MapFails(c) \/ ChildPaused(c) \/ ChildDied(c)
    \/ OpenState(c) \/ WriteState(c) \/ Report(c) \/ OpenFifo(c) \/ ReadFifo(c)
    \/ ApplyLimits(c) \/ ReadState(c)
    \/ Supervise(c) \/ SuperviseKilled(c) \/ SuperviseGone(c) \/ SuperviseReturns(c) \/ SuperviseFails(c)
    \/ Relay(c)

ProcessStep(p) ==
    \/ ChildReady(p) \/ ChildStops(p) \/ ChildFails(p)
    \/ \E code \in Codes : GuestExit(p, code)
    \/ HostReaps(p)

Next ==
    \/ \E c \in Cli : Invoke(c) \/ CommandStep(c) \/ SupervisorStep(c)
    \/ \E c \in Cli : TraceEvent(c) \/ SupervisorKilled(c)
    \/ \E p \in Pid : ProcessStep(p) \/ HostReuses(p)

Spec == Init /\ [][Next]_vars

\* Processes that can run are scheduled and guests end; no command has to be
\* entered, no pid reused and no supervisor killed.
Fairness ==
    /\ \A c \in Cli : WF_vars(CommandStep(c)) /\ WF_vars(SupervisorStep(c))
    /\ \A p \in Pid : WF_vars(ProcessStep(p))

FairSpec == Spec /\ Fairness
-----------------------------------------------------------------------------
(* Properties *)

\* A container is answered for, and named by the state file, only when its
\* init has been through the whole setup and its supervisor holds it with
\* EXITKILL set: a setup that fails is reported as an error, and never leaves
\* a `created` behind.
SetupBeforeAnswer ==
    \A p \in Pid, c \in Cli :
        /\ proc[p].owner = c
        /\ proc[p].pc \in {"cloned", "wait_maps", "setup", "stopping"}
        => /\ sup[c].answer # "pid"
           /\ Parses(fs.file) => fs.file.by # c

\* Whichever step of the handshake fails, a supervisor that ends leaves no child
\* behind but one that still waits for its id map, which is the one the code
\* cannot reach (it holds the write end of the pipe it reads).
LeavesNoChild ==
    \A p \in Pid : proc[p].pc \in {"cloned", "setup", "stopping"}
                   => sup[proc[p].owner].pc # "exited"

\* ... and not even that one.
LeavesNoWaiter ==
    \A p \in Pid : proc[p].pc = "wait_maps" => sup[proc[p].owner].pc # "exited"

\* The entrypoint of a created container runs only after a `start` has written
\* into the FIFO its supervisor reads: `create` prepares but does not start.
PausedUntilStarted ==
    \A p \in Pid :
        proc[p].pc = "running" /\ Detached(proc[p].owner)
        => \E c \in Cli : /\ cli[c].cmd = "start" /\ cli[c].pc \in {"close", "done"}
                          /\ cli[c].ino = sup[proc[p].owner].ino

\* No container outlives its supervisor: an init that was paused or runs has a
\* live supervisor, whatever error or signal ended others (EXITKILL).
NoUnsupervisedInit ==
    \A p \in Pid : proc[p].pc \in {"paused", "running"}
                   => /\ sup[proc[p].owner].pc \notin {"none", "exited"}
                      /\ sup[proc[p].owner].pid = p

\* Where a cgroup tree is delegated the entrypoint of a config with resources
\* never runs outside of the container's cgroup: apply_limits comes before the
\* init is resumed.  (Without linux.resources there is no cgroup at all.)
LimitsBeforeEntrypoint ==
    \A p \in Pid : proc[p].pc = "running" /\ MustLimit(proc[p].owner) => p \in cgroup

\* The state file describes one container: its pid is the init of the
\* container the other fields (seed, bundle) are about.
StateDescribesOne ==
    Parses(fs.file) => sup[fs.file.by].pid = fs.file.pid

Alive(c) == \E p \in Pid : proc[p].owner = c /\ proc[p].pc \in {"paused", "running"}

\* The state says `stopped` only when the container's init is dead.
StoppedIsDead ==
    fs.file.status = "stopped" => ~Alive(fs.file.by)

\* A delete without --force never unlinks anything while a container of the
\* id is alive, however its check and its removal interleave with the rest.
RemovesOnlyDead ==
    \A c \in Cli : cli[c].cmd = "delete" /\ cli[c].pc = "unlink" => \A d \in Creators : ~Alive(d)

\* The supervisor of c has taken up the start of its container.
StartTaken(c) ==
    \/ sup[c].pc = "limits" /\ Detached(c)
    \/ sup[c].pc \in {"read_state", "supervise"}
    \/ sup[c].pc \in {"open_state", "write_state"} /\ sup[c].st.status = "running"

\* The life of the container of c, as Container.tla tells it.
Life(c) ==
    LET p == sup[c].pid
    IN CASE p = NoPid -> "none"
         [] p # NoPid /\ proc[p].owner # c -> "dead"
         [] p # NoPid /\ proc[p].owner = c ->
              CASE proc[p].pc \in {"cloned", "wait_maps", "setup", "stopping"} -> "creating"
                [] proc[p].pc = "paused" -> IF StartTaken(c) THEN "started" ELSE "created"
                [] proc[p].pc = "running" -> "running"
                [] proc[p].pc = "zombie" -> "dead"

Lives == [c \in Cli |-> Life(c)]
Attached == {c \in Cli : cli[c].cmd = "run" /\ sup[c].pid # NoPid}
Asked ==
    \E c \in Cli : cli[c].cmd = "start" /\ cli[c].pc \in {"close", "done"} /\ cli[c].ino # NoCli
Recorded == IF Parses(fs.file) THEN <<fs.file.by, fs.file.status>> ELSE NoCli

Promised == INSTANCE Container WITH
    Containers <- Cli, NoRecord <- NoCli,
    life <- Lives, attached <- Attached, asked <- Asked, record <- Recorded

\* Commands, daemon, child and state file together keep the promises of
\* Container.tla for an id that is given to one container: the container lives
\* its life in one direction and the state file is never ahead of it, with
\* kills, failed steps and killed supervisors anywhere in between.
KeepsPromises == Promised!Spec

-----------------------------------------------------------------------------
(* The inductive invariant behind the safety properties *)

\* Where a command r can be, and what it has read by then.
InStep(r) ==
    /\ r.pc = "idle" <=> r.cmd = "none"
    /\ r.pc \in {"reset", "wait"} => r.cmd \in {"create", "run"}
    /\ r.pc \in {"mkfifo", "fork"} => r.cmd = "create"
    /\ r.pc \in {"open", "write", "close"} => r.cmd = "start"
    /\ r.pc \in {"open", "write", "close", "send", "scan", "unlink", "enter"} => r.st \in StateRecord
    /\ r.pc \in {"write", "close"} => r.ino \in Cli
    /\ r.pc \in {"idle", "begin", "enter"} => r.joined < 6

\* A supervisor s is about to write a state, holds an init that went through
\* its setup, has the start it waited for, has applied the limits, has reaped.
Saving(s, status) == s.pc \in {"open_state", "write_state"} /\ s.st.status = status
Prepared(s) ==
    \/ s.pc \in {"report", "open_fifo", "read_fifo", "limits", "read_state", "supervise"}
    \/ Saving(s, "created") \/ Saving(s, "running")
Limited(s) == s.pc \in {"read_state", "supervise", "supervising"} \/ Saving(s, "running")
Released(s) == s.pc = "limits" \/ Limited(s)
Reaped(s) == s.pc = "relay" \/ Saving(s, "stopped")

CommandsInStep ==
    \A c \in Cli : /\ InStep(cli[c]) /\ cli[c].cmd \in Commands[c] \cup {"none"}
                   /\ sup[c].pc # "none" => c \in Creators /\ cli[c].pc \in {"wait", "done"}

\* Supervisor and init go through the handshake together.
HasInit(c, stages) ==
    /\ sup[c].pid \in Pid
    /\ proc[sup[c].pid].owner = c /\ proc[sup[c].pid].pc \in stages
Handshake ==
    \A c \in Cli :
        /\ sup[c].pc \in {"none", "spawn"} => sup[c].pid = NoPid
        /\ sup[c].pc = "map" => HasInit(c, {"cloned", "wait_maps", "zombie"})
        /\ sup[c].pc = "wait_stop" => HasInit(c, {"setup", "stopping", "zombie"})
        /\ Prepared(sup[c]) => HasInit(c, {"paused", "zombie"})
        /\ sup[c].pc = "supervising" => HasInit(c, {"running", "zombie"})
        /\ Reaped(sup[c]) => sup[c].pid \in Pid

\* A process of a container is the one its supervisor cloned and has not
\* reaped, and only a supervisor that is there holds one past its setup.
Ownership ==
    \A p \in Pid :
        LET s == sup[proc[p].owner]
        IN /\ proc[p].owner = NoCli <=> proc[p].pc \in {"free", "foreign"}
           /\ proc[p].owner # NoCli =>
                  /\ s.pid = p /\ ~Reaped(s)
                  /\ s.pc = "exited" => /\ proc[p].pc \notin {"paused", "running"}
                                        /\ crashes > 0 \/ proc[p].pc \in {"wait_maps", "zombie"}
                  /\ proc[p].pc = "zombie" \/ proc[p].code = 0
                  /\ s.pc \in {"map", "wait_stop", "exited"} \/ proc[p].code \in Codes \cup {0, Killed}

\* A FIFO that is there has a maker, and a byte in it, or the release of who
\* read one, a `start` that wrote it.
Started(f) ==
    \E c \in Cli : cli[c].cmd = "start" /\ cli[c].pc \in {"close", "done"} /\ cli[c].ino = f
Fifos ==
    /\ "fifo" \in fs.entries => fs.fifo \in Cli
    /\ \A f \in Cli : bytes[f] > 0 => Started(f)
    /\ \A c \in Cli : /\ sup[c].pc = "read_fifo" => sup[c].ino \in Cli
                      /\ Detached(c) /\ Released(sup[c]) => Started(sup[c].ino)

Limits == \A c \in Cli : MustLimit(c) /\ Limited(sup[c]) => sup[c].pid \in cgroup

\* The init of c has been through its setup, or died in it while it was held.
SetUp(c) ==
    /\ sup[c].pc \notin {"none", "spawn", "map", "wait_stop"}
    /\ \A p \in Pid : proc[p].owner = c => proc[p].pc \in {"paused", "running", "zombie"}

\* Whoever is answered for, or named by a state, went through the setup.
Records ==
    /\ \A c \in Cli :
           /\ sup[c].answer = "pid" => SetUp(c)
           /\ sup[c].pc \in {"open_state", "write_state", "supervise", "supervising"} =>
                  sup[c].st \in StateRecord /\ SetUp(sup[c].st.by)
           /\ sup[c].pc \in {"supervise", "supervising"} => sup[c].st.status = "running"
    /\ Parses(fs.file) => SetUp(fs.file.by)

\* The id is given to one container.
OneContainerOnly ==
    \A c, d \in Cli :
        Commands[c] \cap {"create", "run"} # {} /\ Commands[d] \cap {"create", "run"} # {} => c = d

Gone(c) == SetUp(c) /\ ~Alive(c)

\* Then `stopped` is recorded, and read by delete, only of a dead container.
Endings ==
    /\ fs.file.status = "stopped" => Gone(fs.file.by)
    /\ \A c \in Cli : cli[c].cmd = "delete" /\ cli[c].pc \in {"scan", "unlink"} => Gone(cli[c].st.by)

IInv ==
    /\ TypeOK /\ CommandsInStep /\ Handshake /\ Ownership /\ Fifos /\ Limits /\ Records
    /\ OneContainerOnly => Endings

-----------------------------------------------------------------------------
(* What documentation says of it, and what is expected of it *)

\* A state file that says `created` or `running` has a supervisor that will
\* bring it up to date: without one the container can be neither started nor
\* deleted, and delete answers that it is still running.
LiveStateIsOwned ==
    fs.file.status \in {"created", "running"} => sup[fs.file.by].pc # "exited"

\* kill, delete --force and exec act on the init of the container whose state
\* they read.
ActsOnItsContainer ==
    \A c \in Cli :
        \/ cli[c].cmd \in {"kill", "sigkill"} /\ cli[c].result = "ok"
        \/ cli[c].cmd = "force" /\ cli[c].pc = "scan"
        \/ cli[c].joined > 0
        => cli[c].hit = cli[c].st.by

\* Nothing of the id is going on.
Quiet ==
    \A c \in Cli : cli[c].pc \in {"idle", "done"} /\ sup[c].pc \in {"none", "exited"}

\* A delete that is past its check removes the container directory.
DeleteLeavesNothing ==
    /\ Quiet
    /\ \E c \in Cli : cli[c].cmd \in {"delete", "force"} /\ cli[c].result \in {"ok", "error"} /\ Parses(cli[c].st)
    => ~fs.dir

\* A container directory that no command or supervisor is busy with contains
\* a state file; without it the id is not listed and cannot be deleted.
DirHasState == Quiet /\ fs.dir => Parses(fs.file)

\* `run` deletes the container when it ends.
RunDeletes == \A c \in Cli : cli[c].cmd = "run" /\ cli[c].result = "ok" => ~fs.dir

\* Every `create` comes back with an answer, whichever step of the handshake
\* with the daemon and the child fails.
CreateAnswers ==
    \A c \in Cli : Detached(c) /\ cli[c].pc # "idle" ~> cli[c].pc = "done"

\* A container that is recorded as running is in the end recorded as stopped,
\* or deleted.
RunningEnds ==
    fs.file.status = "running" ~> fs.file.status \in {"stopped", "absent"}

\* Once a container is recorded as stopped its output gets into the trace,
\* unless the container is being deleted.
OutputRecorded ==
    \A c \in Cli :
        fs.file.status = "stopped" /\ fs.file.by = c
        ~> <<c, "output">> \in fs.lines \/ fs.file.status = "absent"

\* A `start` that succeeds releases the container.
StartReleases ==
    \A s, c \in Cli :
        cli[s].cmd = "start" /\ cli[s].result = "ok" /\ cli[s].st.by = c
        ~> sup[c].pc \notin {"report", "open_fifo", "read_fifo"}
=============================================================================

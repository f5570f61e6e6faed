---------------------------- MODULE Supervisor -----------------------------
(***************************************************************************)
(* dtrun's ptrace supervisor (runtime/supervisor.rs) driving the tasks of  *)
(* a container.                                                            *)
(*                                                                         *)
(* Two parties take steps.  The kernel runs the tasks (task, reports, mem, *)
(* pipe, signalsLeft): a task that is not in a ptrace stop moves by itself *)
(* until its next stop, which waitpid may then report in any order.  The   *)
(* supervisor (sv, stack, outcome) takes one reported status at a time;    *)
(* handling it, with the tail of the run loop, is one step.                *)
(*                                                                         *)
(* A guest program is a set Code of steps: at label `from`, if the futex   *)
(* words satisfy `when`, store `set`, make the syscall `op` and continue   *)
(* at `to`.                                                                *)
(***************************************************************************)
EXTENDS SupervisorState

CONSTANTS
    Labels,         \* program points of the guest
    Start,          \* where the init begins
    Code,           \* the guest program
    Signals,        \* the signals that may be sent to tasks
    MaxSignals,     \* bound on how many are sent
    PipeCapacity,   \* bytes the pipe holds
    CloneMayFail    \* whether clone may fail (EAGAIN)

\* A syscall with its arguments: the futex word, or child_tid of a clone; the
\* expected value; the two counts; where a new task starts.
Op == {o \in [name : SyscallNames, addr : Addr \cup {NoAddr}, val : Nat, n : Nat, n2 : Nat,
              entry : Labels] : o.name \in FutexOps => o.addr \in Addr}

ASSUME CodeAssumption ==
    /\ Start \in Labels
    /\ \A c \in Code :
          /\ c.from \in Labels /\ c.to \in Labels /\ c.op \in Op
          /\ DOMAIN c.when \subseteq Addr /\ DOMAIN c.set \subseteq Addr
          /\ \A a \in DOMAIN c.set : c.set[a] \in Nat
ASSUME SignalsAssumption ==
    /\ Signals \subseteq Signal \cup {"kill"}
    /\ MaxSignals \in Nat /\ PipeCapacity \in Nat /\ CloneMayFail \in BOOLEAN

VARIABLES
    task,        \* kernel: what each task is doing
    reports,     \* kernel: tasks in a stop waitpid has not yet reported
    mem,         \* kernel: futex words of each address space (by thread group)
    pipe,        \* kernel: bytes in the one pipe the guest's tasks share
    signalsLeft, \* signals that may still be sent
    sv,          \* supervisor: struct Supervisor
    stack,       \* supervisor: await_attach calls in progress, <<parent, child>>
    outcome      \* supervisor: what supervise() returned

kernelVars == <<task, reports, mem, pipe, signalsLeft>>
svVars == <<sv, stack, outcome>>
vars == <<task, reports, mem, pipe, signalsLeft, sv, stack, outcome>>

\* Where a task is.  Running: about to raise its attach SIGSTOP; in user code;
\* executing a syscall; asleep in a syscall; about to return from one; killed
\* or exiting; past its exit event.
Running == {"born", "user", "kernel", "asleep", "return", "dying", "final"}
\* Ptrace stops: attach SIGSTOP, syscall entry, clone event, exec event, syscall
\* exit, signal, exit event.
Stops == {"attach", "entry", "clonestop", "execstop", "exitcall", "signal", "exitstop"}
Dead == {"gone", "reaped"}
Where == Running \cup Stops \cup Dead \cup {"unborn"}

Task == [at : Where, label : Labels, op : Op, tgid : Pids, ctid : Addr \cup {NoAddr},
         child : Pids, sig : (Signals \ {"kill"}) \cup {NoSig}, fatal : BOOLEAN]

Outcomes == {"idle", "running", "exited", "signaled", "deadlock", "ptrace"}
Returned == outcome \notin {"idle", "running"}

TypeOK ==
    /\ task \in [Pids -> Task]
    /\ reports \subseteq Pids
    /\ mem \in [Pids -> [Addr -> Nat]]
    /\ pipe \in Nat
    /\ signalsLeft \in Nat
    /\ sv \in SupervisorType
    /\ stack \in Seq(Pids \X Pids)
    /\ outcome \in Outcomes

NoOp == [name |-> "sys", addr |-> NoAddr, val |-> 0, n |-> 0, n2 |-> 0, entry |-> Start]

\* spawn_created has consumed the init's SIGSTOP and left it stopped.
InitialTasks ==
    [p \in Pids |->
       [at |-> IF p = InitPid THEN "attach" ELSE "unborn",
        label |-> Start, op |-> NoOp, tgid |-> p, ctid |-> NoAddr,
        child |-> p, sig |-> NoSig, fatal |-> FALSE]]

Init ==
    /\ task = InitialTasks
    /\ reports = {}
    /\ mem = [p \in Pids |-> [a \in Addr |-> 0]]
    /\ pipe = 0
    /\ signalsLeft = MaxSignals
    /\ sv = NewSupervisor
    /\ stack = <<>>
    /\ outcome = "idle"

-----------------------------------------------------------------------------
(* Kernel: tasks *)

Alive(p) == task[p].at \notin Dead \cup {"unborn"}
Group(t, p) == {q \in Pids : t[q].tgid = t[p].tgid /\ t[q].at # "unborn"}

\* SIGKILL to every task of S: it leaves whatever stop or sleep it was in.
Killable == (Running \cup Stops) \ {"dying", "exitstop", "final"}
Doomed(t, S) == {q \in S : t[q].at \in Killable}
Doom(t, S, fatal) ==
    [q \in Pids |-> IF q \in Doomed(t, S)
                    THEN [t[q] EXCEPT !.at = "dying", !.fatal = fatal]
                    ELSE t[q]]

\* A task reaches a stop, which becomes available to waitpid.
StopAt(p, at) ==
    /\ task' = [task EXCEPT ![p].at = at]
    /\ reports' = reports \cup {p}

\* User code up to and including the next syscall instruction.
UserStep(p) ==
    /\ task[p].at = "user"
    /\ \E c \in Code :
          LET words == mem[task[p].tgid] IN
          /\ c.from = task[p].label
          /\ \A a \in DOMAIN c.when : words[a] = c.when[a]
          /\ mem' = [mem EXCEPT ![task[p].tgid] =
                        [a \in Addr |-> IF a \in DOMAIN c.set THEN c.set[a] ELSE @[a]]]
          /\ task' = [task EXCEPT ![p].at = "entry", ![p].op = c.op, ![p].label = c.to]
    /\ reports' = reports \cup {p}
    /\ UNCHANGED <<pipe, signalsLeft, svVars>>

\* A new task raises the SIGSTOP of its automatic attach.
Attach(p) ==
    /\ task[p].at = "born"
    /\ StopAt(p, "attach")
    /\ UNCHANGED <<mem, pipe, signalsLeft, svVars>>

\* A syscall the supervisor replaced, or one without effect on other tasks.
ExecuteSimple(p) ==
    /\ task[p].at = "kernel"
    /\ \/ p \in sv.pending
       \/ task[p].op.name \in {"sys", "getrandom", "clock_mono", "clock_real", "gettimeofday"}
       \/ CloneMayFail /\ task[p].op.name \in {"clone", "fork", "rawfork"}
    /\ StopAt(p, "exitcall")
    /\ UNCHANGED <<mem, pipe, signalsLeft, svVars>>

Word(p) == mem[task[p].tgid][task[p].op.addr]

\* futex(FUTEX_WAIT) passed to the kernel.
ExecuteWait(p) ==
    /\ task[p].at = "kernel" /\ p \notin sv.pending
    /\ task[p].op.name \in {"wait", "timedwait"}
    /\ IF Word(p) = task[p].op.val
       THEN task' = [task EXCEPT ![p].at = "asleep"] /\ UNCHANGED reports
       ELSE StopAt(p, "exitcall")
    /\ UNCHANGED <<mem, pipe, signalsLeft, svVars>>

\* Tasks asleep in the kernel on word a of thread group g's address space.
Sleepers(g, a, ops) ==
    {q \in Pids : /\ task[q].at = "asleep" /\ task[q].tgid = g
                  /\ task[q].op.name \in ops /\ task[q].op.addr = a}

\* futex(FUTEX_WAKE / FUTEX_(CMP_)REQUEUE / FUTEX_WAKE_OP) passed to the kernel; a
\* requeue counts as waking the requeued waiters, and the store of a FUTEX_WAKE_OP
\* as one of the guest.  FUTEX_UNLOCK_PI hands the lock to a sleeper or frees it.
ExecuteWake(p) ==
    LET op == task[p].op
        unlock == op.name = "unlock_pi"
        n == IF unlock THEN 1
             ELSE IF op.name \in {"wake", "wake_op"} THEN op.n ELSE op.n + op.n2
        sleepers == Sleepers(task[p].tgid, op.addr,
                             IF unlock THEN {"lock_pi"} ELSE {"wait", "timedwait"})
    IN
    /\ task[p].at = "kernel" /\ p \notin sv.pending
    /\ op.name \in {"wake", "requeue", "cmp_requeue", "wake_op", "unlock_pi"}
    /\ \E W \in SUBSET sleepers :
          /\ IF op.name = "cmp_requeue" /\ Word(p) # op.val
             THEN W = {}
             ELSE Cardinality(W) = Min({n, Cardinality(sleepers)})
          /\ task' = [q \in Pids |->
                        IF q = p THEN [task[q] EXCEPT !.at = "exitcall"]
                        ELSE IF q \in W THEN [task[q] EXCEPT !.at = "return"]
                        ELSE task[q]]
    /\ reports' = reports \cup {p}
    /\ mem' = IF unlock /\ sleepers = {}
              THEN [mem EXCEPT ![task[p].tgid][op.addr] = 0] ELSE mem
    /\ UNCHANGED <<pipe, signalsLeft, svVars>>

\* futex(FUTEX_LOCK_PI): the lock is taken if its word is 0; else the caller sleeps,
\* or gets an error (EDEADLK, ESRCH).
ExecuteLock(p) ==
    /\ task[p].at = "kernel" /\ task[p].op.name = "lock_pi"
    /\ \/ Word(p) = 0 /\ StopAt(p, "exitcall")
             /\ mem' = [mem EXCEPT ![task[p].tgid][task[p].op.addr] = 1]
       \/ Word(p) # 0 /\ StopAt(p, "exitcall") /\ UNCHANGED mem
       \/ Word(p) # 0 /\ task' = [task EXCEPT ![p].at = "asleep"] /\ UNCHANGED <<reports, mem>>
    /\ UNCHANGED <<pipe, signalsLeft, svVars>>

\* clone/fork succeeds: the child exists, the parent stops for the clone event.
\* A process gets a copy of the address space; a thread's tid word is set.
ExecuteClone(p) ==
    LET op == task[p].op
        thread == op.name = "clone"
    IN
    /\ task[p].at = "kernel"
    /\ op.name \in {"clone", "fork", "rawfork"}
    /\ \E c \in Pids :
          /\ task[c].at = "unborn"
          /\ task' = [task EXCEPT
                ![p].at = "clonestop", ![p].child = c,
                ![c].at = "born", ![c].label = op.entry,
                ![c].tgid = IF thread THEN task[p].tgid ELSE c,
                ![c].ctid = IF op.name = "rawfork" THEN NoAddr ELSE op.addr]
          /\ mem' = IF thread
                    THEN [mem EXCEPT ![task[p].tgid] =
                            [a \in Addr |-> IF a = op.addr THEN 1 ELSE @[a]]]
                    ELSE [mem EXCEPT ![c] = mem[task[p].tgid]]
    /\ reports' = reports \cup {p}
    /\ UNCHANGED <<pipe, signalsLeft, svVars>>

\* execve by a thread group leader: the other threads are killed, and the exec
\* event follows once they have been reaped.
ExecuteExec(p) ==
    LET others == {q \in Group(task, p) : q # p /\ task[q].at # "reaped"} IN
    /\ task[p].at = "kernel" /\ task[p].op.name = "exec" /\ task[p].tgid = p
    /\ IF others = {}
       THEN StopAt(p, "execstop")
       ELSE /\ Doomed(task, others) # {}
            /\ task' = Doom(task, others, FALSE)
            /\ reports' = reports \ Doomed(task, others)
    /\ UNCHANGED <<mem, pipe, signalsLeft, svVars>>

\* exit(2): only this task.
ExecuteExit(p) ==
    /\ task[p].at = "kernel" /\ task[p].op.name = "exit"
    /\ task' = [task EXCEPT ![p].at = "dying"]
    /\ UNCHANGED <<reports, mem, pipe, signalsLeft, svVars>>

\* exit_group(2): the whole thread group.
ExecuteExitGroup(p) ==
    /\ task[p].at = "kernel" /\ task[p].op.name = "exit_group"
    /\ task' = Doom(task, Group(task, p), FALSE)
    /\ reports' = reports \ Doomed(task, Group(task, p))
    /\ UNCHANGED <<mem, pipe, signalsLeft, svVars>>

\* read(2) and write(2) on a pipe: empty or full, it puts the caller to sleep.
PipeReady(p) ==
    \/ task[p].op.name = "pipe_read" /\ pipe > 0
    \/ task[p].op.name = "pipe_write" /\ pipe < PipeCapacity

PipeTransfer(p) == pipe' = IF task[p].op.name = "pipe_read" THEN pipe - 1 ELSE pipe + 1

ExecutePipe(p) ==
    /\ task[p].at = "kernel" /\ task[p].op.name \in {"pipe_read", "pipe_write"}
    /\ \/ PipeReady(p) /\ PipeTransfer(p) /\ StopAt(p, "exitcall")
       \/ ~PipeReady(p) /\ task' = [task EXCEPT ![p].at = "asleep"] /\ UNCHANGED <<pipe, reports>>
    /\ UNCHANGED <<mem, signalsLeft, svVars>>

\* A sleeper goes on: its wait times out, or the pipe is ready.
WakeUp(p) ==
    /\ task[p].at = "asleep"
    /\ \/ task[p].op.name = "timedwait" /\ UNCHANGED pipe
       \/ PipeReady(p) /\ PipeTransfer(p)
    /\ task' = [task EXCEPT ![p].at = "return"]
    /\ UNCHANGED <<reports, mem, signalsLeft, svVars>>

\* Syscall exit stop after a sleep, a clone event or an exec event.
Return(p) ==
    /\ task[p].at = "return"
    /\ StopAt(p, "exitcall")
    /\ UNCHANGED <<mem, pipe, signalsLeft, svVars>>

\* The PTRACE_EVENT_EXIT stop of a task that exits or has been killed.
ExitStop(p) ==
    /\ task[p].at = "dying"
    /\ StopAt(p, "exitstop")
    /\ UNCHANGED <<mem, pipe, signalsLeft, svVars>>

\* The task is gone: its tid word is cleared and one kernel sleeper woken.  The
\* last task of the init's group takes the whole pid namespace with it.
Final(p) ==
    LET g == task[p].tgid
        a == task[p].ctid
        sleepers == IF a = NoAddr THEN {} ELSE Sleepers(g, a, {"wait", "timedwait"})
        last == g = InitPid /\ \A q \in Group(task, p) \ {p} : task[q].at \in Dead
        dead == [task EXCEPT ![p].at = "gone"]
        victims == IF last THEN Doomed(dead, Pids) ELSE {}
    IN
    /\ task[p].at = "final"
    /\ mem' = [mem EXCEPT ![g] = [b \in Addr |-> IF b = a THEN 0 ELSE @[b]]]
    /\ \E W \in SUBSET sleepers :
          /\ Cardinality(W) = Min({1, Cardinality(sleepers)})
          /\ task' = Doom([q \in Pids |-> IF q \in W THEN [dead[q] EXCEPT !.at = "return"]
                                                      ELSE dead[q]], victims, TRUE)
    /\ reports' = reports \ victims
    /\ UNCHANGED <<pipe, signalsLeft, svVars>>

\* A signal reaches a task in user code; SIGKILL reaches its whole group.
SignalArrives(p) ==
    /\ signalsLeft > 0 /\ outcome = "running"
    /\ signalsLeft' = signalsLeft - 1
    /\ \/ \E sig \in Signals \ {"kill"} :
             /\ task[p].at = "user"
             /\ task' = [task EXCEPT ![p].at = "signal", ![p].sig = sig]
             /\ reports' = reports \cup {p}
       \/ /\ "kill" \in Signals
          /\ task[p].tgid = p /\ Doomed(task, Group(task, p)) # {}
          /\ task' = Doom(task, Group(task, p), TRUE)
          /\ reports' = reports \ Doomed(task, Group(task, p))
    /\ UNCHANGED <<mem, pipe, svVars>>

-----------------------------------------------------------------------------
(* Supervisor *)

\* Where PTRACE_SYSCALL sends a stopped task; a fatal signal kills its group.
NextAt(at) ==
    CASE at \in {"attach", "exitcall", "signal"} -> "user"
      [] at = "entry" -> "kernel"
      [] at \in {"clonestop", "execstop"} -> "return"
      [] at = "exitstop" -> "final"
      [] OTHER -> at

\* The effect of the ptrace requests s.resumed on the tasks.
Resumed(t, s) ==
    LET moved == [q \in Pids |->
                    IF \E r \in s.resumed : r[1] = q
                    THEN [t[q] EXCEPT !.at = NextAt(@), !.sig = NoSig,
                                      !.op = IF t[q].at = "exitcall" THEN NoOp ELSE @]
                    ELSE t[q]]
        killed == {q \in Pids : \E r \in s.resumed : r[2] = "fatal" /\ t[q].tgid = t[r[1]].tgid
                                                     /\ t[q].at # "unborn"}
    IN  Doom(moved, killed, TRUE)

\* A ptrace request to a task that is not in a stop fails with ESRCH.
PtraceFails(t, s) == \E r \in s.resumed : t[r[1]].at \notin Stops

\* The rest of run()'s loop body: with no current thread, schedule the next one;
\* inside an await_attach the loop has not been reached.
LoopTail(s, stk) ==
    IF stk = <<>> /\ s.current = NoPid /\ s.err = "ok" THEN ScheduleNext(s) ELSE s

\* The status of p has been handled with result s: the requests take effect,
\* and an error ends supervise().
Commit(p, t, s, stk) ==
    LET s1 == LoopTail(s, stk) IN
    /\ task' = IF PtraceFails(t, s1) THEN t ELSE Resumed(t, s1)
    /\ reports' = {q \in reports \ {p} :
                     /\ \A r \in s1.resumed : r[1] # q
                     /\ task'[q].at # "dying"}
    /\ sv' = [s1 EXCEPT !.resumed = {}]
    /\ stack' = stk
    /\ outcome' = IF PtraceFails(t, s1) THEN "ptrace"
                  ELSE IF s1.err = "deadlock" THEN "deadlock"
                  ELSE "running"
    /\ UNCHANGED <<mem, pipe, signalsLeft>>

\* waitpid reports the stop of p.
Reported(p, at) ==
    /\ outcome = "running"
    /\ p \in reports
    /\ task[p].at = at

\* run(): schedule the init before the first waitpid.
Run ==
    /\ outcome = "idle"
    /\ Commit(InitPid, task, sv, <<>>)

\* The value at the futex word of the syscall p is entering.
EntryWord(p) == IF task[p].op.addr \in Addr THEN Word(p) ELSE 0

SyscallEntry(p) ==
    LET op == task[p].op
        s == OnSyscallEntry(sv, p, op, EntryWord(p))
    IN
    /\ Reported(p, "entry")
    /\ Commit(p, task,
              IF Parks(sv, p, op, EntryWord(p)) THEN [s EXCEPT !.current = NoPid]
                                                ELSE ResumeStopped(s, p),
              stack)

SyscallExit(p) ==
    LET s == OnSyscallExit(sv, p, task[p].op) IN
    /\ Reported(p, "exitcall")
    /\ Commit(p, task, IF IsScheduled(sv, p) THEN YieldCurrent(s, p) ELSE ResumeThread(s, p), stack)

\* Faulty variant: the attach stop of the child is not awaited.
CloneEventUnawaited(p) ==
    /\ Reported(p, "clonestop")
    /\ Commit(p, task,
              ResumeStopped(RegisterThread([sv EXCEPT !.clonePending[p] = DefaultCloneInfo],
                                           task[p].child, sv.clonePending[p]), p), stack)

\* PTRACE_EVENT_CLONE/FORK/VFORK: register the child, then wait for its attach
\* stop (await_attach) unless it has been seen; the parent stays stopped meanwhile.
CloneEvent(p) ==
    LET child == task[p].child
        s == RegisterThread([sv EXCEPT !.clonePending[p] = DefaultCloneInfo], child,
                            sv.clonePending[p])
    IN
    /\ Reported(p, "clonestop")
    /\ IF child \in s.pendingStart
       THEN Commit(p, task, s, Append(stack, <<p, child>>))
       ELSE Commit(p, task, ResumeStopped(s, p), stack)

\* PTRACE_EVENT_EXIT, whoever it is.
ExitEvent(p) ==
    /\ Reported(p, "exitstop")
    /\ Commit(p, task, ResumeThread(sv, p), stack)

\* The other events.
OtherEvent(p) ==
    /\ Reported(p, "execstop")
    /\ Commit(p, task, ResumeStopped(sv, p), stack)

\* waitpid reports that SIGSTOP has stopped p: its attach, or a signal.
ReportedSigstop(p) == Reported(p, "attach") \/ (Reported(p, "signal") /\ task[p].sig = "stop")

\* The innermost await_attach waits for the child p.
Awaited(p) == stack # <<>> /\ Last(stack)[2] = p

\* Faulty variant: the parent yields to the child.
AwaitedAttachYields(p) ==
    /\ ReportedSigstop(p) /\ Awaited(p)
    /\ Commit(p, task, YieldCurrent(Started(sv, p), Last(stack)[1]), Front(stack))

\* Faulty variant: the parent is not resumed.
AwaitedAttachHeld(p) ==
    /\ ReportedSigstop(p) /\ Awaited(p)
    /\ Commit(p, task, Started(sv, p), Front(stack))

\* await_attach takes any SIGSTOP of its child for the attach stop and returns to the
\* clone event's handler, which resumes the parent.
AwaitedAttach(p) ==
    /\ ReportedSigstop(p) /\ Awaited(p)
    /\ Commit(p, task, ResumeStopped(Started(sv, p), Last(stack)[1]), Front(stack))

\* Faulty variant: whoever stops is resumed.
OnSigstopResumes(s, p) == ResumeThread(s, p)

\* The result of a Stopped(p, SIGSTOP) status in dispatch.
OnSigstop(s, p) ==
    IF s.current = p THEN ResumeThread(s, p)
    ELSE IF p \in s.pendingStart THEN Started(s, p)
    ELSE IF p \notin s.threads THEN [s EXCEPT !.stoppedPending = @ \cup {p}]
    ELSE s

OtherSigstop(p) ==
    /\ ReportedSigstop(p) /\ ~Awaited(p)
    /\ Commit(p, task, OnSigstop(sv, p), stack)

\* The result of a Stopped(p, sig) status for another signal.
OnSignal(s, p, sig) ==
    IF s.current = p THEN Deliver(s, p, sig)
    ELSE IF IsScheduled(s, p) THEN [s EXCEPT !.sigPending[p] = sig]
    ELSE IF p \in s.threads THEN Deliver(s, p, sig)
    ELSE s

SignalStop(p) ==
    /\ Reported(p, "signal") /\ task[p].sig # "stop"
    /\ Commit(p, task, OnSignal(sv, p, task[p].sig), stack)

\* waitpid reports the exit of p: of a group leader only after the rest of its
\* group, of the init only after everyone.
Reapable(p) ==
    /\ outcome = "running"
    /\ task[p].at = "gone"
    /\ \A q \in Pids \ {p} : (p = InitPid \/ task[q].tgid = p) => task[q].at \in {"unborn", "reaped"}

\* Exited(init) or Signaled(init): supervise() returns the exit code.
InitExited ==
    /\ Reapable(InitPid)
    /\ task' = [task EXCEPT ![InitPid].at = "reaped"]
    /\ outcome' = IF task[InitPid].fatal THEN "signaled" ELSE "exited"
    /\ sv' = TraceJson(sv, IF task[InitPid].fatal THEN "signal" ELSE "exit", 0, 0)
    /\ UNCHANGED <<reports, mem, pipe, signalsLeft, stack>>

\* Faulty variant: the next thread is resumed though the group is dying.
OnExitedUnguarded(s, p) ==
    LET s1 == OnThreadExit(s, p, s.current = p) IN
    IF s.current = p THEN ScheduleNext([s1 EXCEPT !.current = NoPid]) ELSE s1

\* The result of the exit status of another task.
OnExited(s, p) ==
    LET s1 == OnThreadExit(s, p, s.current = p) IN
    IF s.current = p /\ ~s.groupExiting THEN ScheduleNext([s1 EXCEPT !.current = NoPid]) ELSE s1

ThreadExited(p) ==
    /\ Reapable(p) /\ p # InitPid
    /\ Commit(p, [task EXCEPT ![p].at = "reaped"], OnExited(sv, p), stack)

\* supervise() has returned.
Done == Returned /\ UNCHANGED vars

-----------------------------------------------------------------------------
KernelStep(p) ==
    \/ UserStep(p) \/ Attach(p) \/ ExecuteSimple(p) \/ ExecuteWait(p) \/ ExecuteWake(p)
    \/ ExecuteLock(p) \/ ExecuteClone(p) \/ ExecuteExec(p) \/ ExecuteExit(p) \/ ExecuteExitGroup(p)
    \/ ExecutePipe(p) \/ WakeUp(p) \/ Return(p) \/ ExitStop(p) \/ Final(p)

SupervisorStep(p) ==
    \/ SyscallEntry(p) \/ SyscallExit(p) \/ CloneEvent(p) \/ ExitEvent(p) \/ OtherEvent(p)
    \/ AwaitedAttach(p) \/ OtherSigstop(p) \/ SignalStop(p) \/ ThreadExited(p)

Next ==
    \/ Run
    \/ InitExited
    \/ \E p \in Pids : SignalArrives(p)
    \/ \E p \in Pids : KernelStep(p)
    \/ \E p \in Pids : SupervisorStep(p)
    \/ Done

Spec == Init /\ [][Next]_vars

\* The kernel keeps every runnable task going, and reports every stop in time.
Fairness ==
    /\ \A p \in Pids : WF_vars(KernelStep(p))
    /\ \A p \in Pids : WF_vars(SupervisorStep(p))
    /\ WF_vars(Run) /\ WF_vars(InitExited)

FairSpec == Spec /\ Fairness

-----------------------------------------------------------------------------
(* Safety *)

\* The scheduled threads that are executing guest code or one of its syscalls.
Executing == {p \in sv.scheduled : task[p].at \in {"user", "kernel", "asleep", "return"}}

\* "Threads are run one at a time": whatever order stops are reported in, a
\* scheduled thread executes only while it is the supervisor's current one.
SingleRunner == Executing \subseteq {sv.current}

\* The run queue holds no thread twice, and only live scheduled threads that are
\* not parked, not running and not waiting for their attach stop; so
\* schedule_next never skips an entry.
RunQueueOK(s) ==
    /\ IsInjective(s.runnable)
    /\ Range(s.runnable) \subseteq s.scheduled \ (s.blocked \cup s.pendingStart \cup {s.current})
RunQueueInv == RunQueueOK(sv)

\* A parked thread is in exactly one futex queue, once, and a queue holds only
\* parked threads: no wake is spent on a thread that is not waiting, and no
\* parked thread is out of reach of a wake.
ParkedOK(s) ==
    /\ \A a \in Addr : Range(s.waiting[a]) \subseteq s.blocked /\ IsInjective(s.waiting[a])
    /\ \A p \in s.blocked : \E a \in Addr : p \in Range(s.waiting[a])
    /\ \A a, b \in Addr : a # b => Range(s.waiting[a]) \cap Range(s.waiting[b]) = {}
    /\ s.blocked \subseteq s.scheduled \ (s.pendingStart \cup {s.current})
ParkedInv == ParkedOK(sv)

\* No scheduled thread is lost: each is running, queued, parked, or waiting for
\* its attach stop.
NotLost(s) ==
    s.scheduled \subseteq {s.current} \cup Range(s.runnable) \cup s.blocked \cup s.pendingStart
NoThreadLost == NotLost(sv)

Injected == (FutexOps \ PassedOps) \cup {"getrandom", "clock_mono", "clock_real", "gettimeofday"}
PairedAt == {"entry", "kernel", "exitcall", "dying", "exitstop", "final"}

\* An injected return value goes to the syscall it was made for: a pending
\* injection belongs to a task inside an intercepted syscall.
InjectionPairsUp ==
    \A p \in sv.pending : Alive(p) => task[p].at \in PairedAt /\ task[p].op.name \in Injected

\* A thread identity in the trace names one live thread: vtids are never reused.
VtidsUnique ==
    \A p, q \in sv.threads : p # q => sv.vtid[p] # sv.vtid[q]

\* No ptrace request of the supervisor meets a task that is not stopped, so
\* supervise() does not end with an ESRCH error.
NoPtraceError == outcome # "ptrace"

\* intercept_futex, "so a wait never blocks in the kernel (which would stall the
\* single-runner scheduler)": no thread sleeps in a FUTEX_WAIT of the kernel while
\* another one depends on the scheduler.  A FUTEX_LOCK_PI may: it is not intercepted.
NoFutexStall ==
    \A p \in sv.scheduled :
        task[p].at = "asleep" /\ task[p].op.name \in {"wait", "timedwait"} => sv.scheduled = {p}

\* SuperviseError::Deadlock is returned only when every task left is parked.
DeadlockIsReal ==
    outcome = "deadlock" => \A p \in Pids : Alive(p) => p \in sv.blocked

\* ... and none of them has a timeout that would wake it.
NothingRemainsToWake ==
    outcome = "deadlock" => \A p \in sv.blocked : task[p].op.name # "timedwait"

\* Scheduled tasks share the init's address space.
ScheduledSharesInit == \A p \in sv.scheduled : task[p].tgid = InitPid

-----------------------------------------------------------------------------
(* Action properties *)

\* FIFO: a step that makes a queued thread current leaves none of those queued
\* before it in the queue, and queued threads never overtake one another.
FifoStep ==
    \A i, j \in DOMAIN sv.runnable :
        i < j =>
          LET p == sv.runnable[i] q == sv.runnable[j] IN
          /\ sv'.current = q => sv.current = q \/ p \notin Range(sv'.runnable)
          /\ \A k, m \in DOMAIN sv'.runnable :
                sv'.runnable[k] = p /\ sv'.runnable[m] = q => k < m
Fifo == [][FifoStep]_vars

\* "Switched only at syscall boundaries": the current thread is replaced only at
\* the entry of a wait that parks it, at a syscall exit, or after it is gone.
SwitchStep ==
    sv.current \in Pids /\ sv'.current # sv.current =>
        LET p == sv.current IN
        \/ p \in reports /\ task[p].at = "exitcall"
        \/ p \in reports /\ task[p].at = "entry" /\ p \in sv'.blocked
        \/ task[p].at = "gone"
SwitchOnlyAtSyscall == [][SwitchStep]_vars

-----------------------------------------------------------------------------
(* Liveness *)

\* supervise() returns.
Finishes == <>Returned

\* supervise() returns an exit status, not an error.
CompletesNormally == Returned => outcome \in {"exited", "signaled"}

\* A queued thread gets its turn (or the run ends, or it is killed).
RunsInTurn ==
    \A p \in Pids :
        (\E i \in DOMAIN sv.runnable : sv.runnable[i] = p) ~>
            (sv.current = p \/ Returned \/ ~Alive(p))

\* "Fork/vfork children ... must be allowed to run concurrently": a process that
\* sleeps in a pipe until another process acts on it is woken (or the run ends).
PipesServed ==
    \A p \in Pids :
        (task[p].at = "asleep" /\ task[p].op.name \in {"pipe_read", "pipe_write"}) ~>
            (task[p].at # "asleep" \/ Returned)

-----------------------------------------------------------------------------
(***************************************************************************)
(* The inductive invariant behind the safety properties.  It is stated for *)
(* any tasks t, unreported stops r, supervisor state s and await_attach    *)
(* calls stk, so that it also speaks of the result of a handler whose      *)
(* ptrace requests (s.resumed) are still to be applied.                    *)
(***************************************************************************)

\* The supervisor's own bookkeeping.
VtidsOK(s) ==
    /\ \A p \in s.threads : s.vtid[p] < s.vtidNext
    /\ \A p, q \in s.threads : p # q => s.vtid[p] # s.vtid[q]
Bookkeeping(s) ==
    /\ s.scheduled \subseteq s.threads
    /\ s.pendingStart \subseteq s.threads \ {s.current}
    /\ s.stoppedPending \cap s.threads = {}
    /\ RunQueueOK(s) /\ ParkedOK(s) /\ NotLost(s) /\ VtidsOK(s)

ExecutingAt == {"user", "kernel", "asleep", "return"}
ReportedAt == {"entry", "clonestop", "execstop", "exitcall", "signal"}
Resuming(s) == {r[1] : r \in s.resumed}

\* q executes, has just stopped doing so, or is about to be resumed.
Busy(t, r, s, q) ==
    \/ t[q].at \in ExecutingAt
    \/ q \in r /\ t[q].at \in ReportedAt
    \/ q \in Resuming(s) /\ t[q].at # "exitstop"

OnlyCurrentBusy(t, r, s) == \A q \in s.scheduled : Busy(t, r, s, q) => q = s.current

\* A task the supervisor has not registered has not got past its attach stop.
Unregistered(t, s) ==
    \A q \in Pids \ s.threads :
        /\ t[q].at \notin ExecutingAt \cup ReportedAt
        /\ q \in Resuming(s) => t[q].at # "attach"
Unborn(t, s) ==
    \A q \in Pids : t[q].at = "unborn" => q \notin s.threads \cup s.stoppedPending

\* A task whose attach stop is still to be observed is not taken for one whose
\* attach stop has been.
AttachAhead(t, r, s) ==
    \A q \in Pids : t[q].at = "born" \/ (q \in r /\ t[q].at = "attach") =>
        /\ q \notin s.stoppedPending
        /\ q \in s.threads => q \in s.pendingStart

KnownOrReaped(t, s, q) == q \in s.threads \/ t[q].at = "reaped"
CurrentKnown(t, s) == s.current \in Pids => KnownOrReaped(t, s, s.current)
StackKnown(t, s, stk) ==
    \A i \in DOMAIN stk : KnownOrReaped(t, s, stk[i][1]) /\ KnownOrReaped(t, s, stk[i][2])

\* The child of an unhandled clone event is new to the supervisor, and nobody
\* else's child.
CloneStopped(t, r, p) == p \in r /\ t[p].at = "clonestop"
ChildNew(t, r, s) ==
    \A p \in Pids : CloneStopped(t, r, p) =>
        /\ t[p].child \notin s.threads
        /\ t[p].child # s.current
        /\ t[t[p].child].at # "unborn"
        /\ \A q \in Pids : CloneStopped(t, r, q) /\ t[q].child = t[p].child => q = p

Link(t, r, s, stk) ==
    /\ OnlyCurrentBusy(t, r, s)
    /\ Unregistered(t, s) /\ Unborn(t, s)
    /\ AttachAhead(t, r, s)
    /\ CurrentKnown(t, s) /\ StackKnown(t, s, stk)
    /\ ChildNew(t, r, s)

IInv ==
    /\ TypeOK
    /\ Bookkeeping(sv)
    /\ Link(task, reports, sv, stack)
    /\ sv.resumed = {}

(***************************************************************************)
(* The same for the results the supervisor holds for replaced syscalls.    *)
(***************************************************************************)

Ending == {"dying", "exitstop", "final", "gone", "reaped"}

\* A task with a result to come is in its replaced syscall; at the exit stop
\* where the result is written, nobody has resumed it yet.
ResultsHeld(t, r, s) ==
    \A p \in s.pending :
        /\ t[p].at # "unborn"
        /\ t[p].at \notin Dead => t[p].at \in PairedAt /\ t[p].op.name \in Injected
        /\ t[p].at = "exitcall" => p \in r \ Resuming(s)

\* A parent whose clone event is being handled stays in that stop, and keeps its
\* turn, until await_attach returns; it has one handler.
ParentsHeld(t, r, s, stk) ==
    /\ \A i \in DOMAIN stk :
          \/ t[stk[i][1]].at \in Ending
          \/ /\ t[stk[i][1]].at = "clonestop"
             /\ stk[i][1] \notin r \cup Resuming(s)
             /\ stk[i][1] \in s.scheduled => stk[i][1] = s.current
    /\ \A i, j \in DOMAIN stk : stk[i][1] = stk[j][1] => i = j

Pairing(t, r, s, stk) == ResultsHeld(t, r, s) /\ ParentsHeld(t, r, s, stk)

\* What makes InjectionPairsUp inductive.
PairInv ==
    /\ Pairing(task, reports, sv, stack)
    /\ outcome = "idle" => sv.pending = {}
=============================================================================

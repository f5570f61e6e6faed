-------------------------- MODULE SupervisorState --------------------------
(***************************************************************************)
(* The state of dtrun's ptrace supervisor (struct Supervisor of            *)
(* runtime/supervisor.rs) and its methods.                                 *)
(*                                                                         *)
(* The state is a record whose fields are those of the Rust struct; a      *)
(* method is an operator from a record to a record that keeps the method's *)
(* name.  Supervisor.tla drives these operators from the stops the kernel  *)
(* reports.  HashMap<Pid, Thread> is split into the set of its keys        *)
(* (threads), the set of the keys whose thread is `scheduled`, and the     *)
(* functions vtid and childTid; an absent map entry is the default value   *)
(* of the function.                                                        *)
(*                                                                         *)
(* Three fields are not in the struct.  `resumed` collects the ptrace      *)
(* requests <<pid, signal>> of the status being handled (the caller        *)
(* applies them to the tracees), `err` is the error the handler returns,   *)
(* and `trace` is the trace file the run has appended to.                  *)
(***************************************************************************)
EXTENDS Integers, Sequences, SequencesExt

CONSTANTS
    Pids,       \* host pids of tasks
    InitPid,    \* the container init, the pid handed to supervise()
    NoPid,      \* Option::None for `current`
    Addr,       \* futex words
    NoAddr,     \* child_tid = 0, or CLONE_CHILD_CLEARTID not requested
    Tracing     \* whether the trace is recorded in the state

ASSUME PidsAssumption == InitPid \in Pids /\ NoPid \notin Pids
ASSUME AddrAssumption == NoAddr \notin Addr
ASSUME TracingAssumption == Tracing \in BOOLEAN

\* Signals a tracee can stop for: "handled" by the guest, "fatal" by default
\* action, "stop" (SIGSTOP).  SIGKILL never produces a stop.
Signal == {"handled", "fatal", "stop"}
NoSig == "none"

\* CloneInfo: the flags that matter are CLONE_THREAD and, with a child_tid,
\* CLONE_CHILD_CLEARTID.
CloneInfo == [thread : BOOLEAN, childTid : Addr \cup {NoAddr}]
DefaultCloneInfo == [thread |-> FALSE, childTid |-> NoAddr]

\* The futex operations: those intercept_futex simulates, and of the others, which
\* it always passes on (FUTEX_LOCK_PI, FUTEX_UNLOCK_PI, FUTEX_WAKE_OP, ...), one
\* that sleeps, one that ends such a sleep and one that wakes waiters.
PassedOps == {"lock_pi", "unlock_pi", "wake_op"}
FutexOps == {"wait", "timedwait", "wake", "requeue", "cmp_requeue"} \cup PassedOps

\* The syscalls the supervisor tells apart, and "sys" for the others.
SyscallNames ==
    {"sys", "getrandom", "clock_mono", "clock_real", "gettimeofday", "clone",
     "fork", "rawfork", "exec", "exit", "exit_group", "pipe_read", "pipe_write"} \cup FutexOps
EventNames == SyscallNames \cup {"clock_gettime", "schedule", "thread_create", "thread_exit", "signal", "exit"}

\* One line of trace.jsonl; its seq is its position.  `a` and `b` stand for
\* the numbers in "detail" (vtids, PRNG draws, clock ticks, kinds).
Event == [event : EventNames, a : Int, b : Int]

NoVtid == -1

SupervisorType ==
    [threads : SUBSET Pids,
     scheduled : SUBSET Pids,
     vtid : [Pids -> Nat],
     childTid : [Pids -> Addr \cup {NoAddr}],
     vtidNext : Nat,
     runnable : Seq(Pids),
     pendingStart : SUBSET Pids,
     stoppedPending : SUBSET Pids,
     blocked : SUBSET Pids,
     waiting : [Addr -> Seq(Pids)],
     current : Pids \cup {NoPid},
     lastVtid : Int,
     sigPending : [Pids -> Signal \cup {NoSig}],
     clonePending : [Pids -> CloneInfo],
     groupExiting : BOOLEAN,
     pending : SUBSET Pids,
     rng : Nat,
     tick : Nat,
     trace : Seq(Event),
     resumed : SUBSET (Pids \X (Signal \cup {NoSig})),
     err : {"ok", "deadlock"}]

\* supervise(): the init is registered and runnable, nothing is current.
NewSupervisor ==
    [threads |-> {InitPid},
     scheduled |-> {InitPid},
     vtid |-> [p \in Pids |-> 0],
     childTid |-> [p \in Pids |-> NoAddr],
     vtidNext |-> 1,
     runnable |-> <<InitPid>>,
     pendingStart |-> {},
     stoppedPending |-> {},
     blocked |-> {},
     waiting |-> [a \in Addr |-> <<>>],
     current |-> NoPid,
     lastVtid |-> NoVtid,
     sigPending |-> [p \in Pids |-> NoSig],
     clonePending |-> [p \in Pids |-> DefaultCloneInfo],
     groupExiting |-> FALSE,
     pending |-> {},
     rng |-> 0,
     tick |-> 0,
     trace |-> <<>>,
     resumed |-> {},
     err |-> "ok"]

-----------------------------------------------------------------------------
(* Trace lines *)

TraceJson(s, event, a, b) ==
    IF Tracing
    THEN [s EXCEPT !.trace = Append(@, [event |-> event, a |-> a, b |-> b])]
    ELSE s

\* trace_syscall records no thread id.
TraceSyscall(s, name, kind) == TraceJson(s, name, kind, 0)

TraceFutex(s, p, name, kind) == TraceJson(s, name, kind, s.vtid[p])

\* The kinds of an intercepted syscall in the trace.
Pass == 0
Inject == 1
Wait == 2
Woke == 3

-----------------------------------------------------------------------------
(* Resuming tracees *)

\* resume_thread: PTRACE_SYSCALL with the signal held back for p, if any.
ResumeThread(s, p) ==
    [s EXCEPT !.resumed = @ \cup {<<p, s.sigPending[p]>>},
              !.sigPending[p] = NoSig]

\* ptrace::syscall(p, Some(sig))
Deliver(s, p, sig) == [s EXCEPT !.resumed = @ \cup {<<p, sig>>}]

IsScheduled(s, p) == p \in s.scheduled

ResumeCurrent(s, p) == IF s.current = p THEN ResumeThread(s, p) ELSE s

\* What every handler does with a tracee it is done with.
ResumeStopped(s, p) ==
    IF IsScheduled(s, p) THEN ResumeCurrent(s, p) ELSE ResumeThread(s, p)

-----------------------------------------------------------------------------
(* The run queue *)

\* The entries schedule_next does not skip.
ReadyAt(s) == {i \in DOMAIN s.runnable : s.runnable[i] \in s.threads \ s.blocked}

\* A stop is still expected from someone the scheduler does not run.
StopExpected(s) == s.pendingStart # {} \/ s.threads # s.scheduled

SwitchTo(s, i) ==
    LET tid == s.runnable[i]
        to == s.vtid[tid]
        s1 == IF s.lastVtid # to THEN TraceJson(s, "schedule", s.lastVtid, to) ELSE s
    IN  ResumeThread([s1 EXCEPT !.runnable = SubSeq(@, i + 1, Len(@)),
                                !.lastVtid = to,
                                !.current = tid], tid)

\* Faulty variant: the thread queued last is taken first.
ScheduleNextLifo(s) ==
    IF s.runnable # <<>>
    THEN ResumeThread([s EXCEPT !.runnable = Front(@), !.current = Last(s.runnable)],
                      Last(s.runnable))
    ELSE [s EXCEPT !.err = IF StopExpected(s) THEN @ ELSE "deadlock"]

ScheduleNext(s) ==
    IF ReadyAt(s) # {}
    THEN SwitchTo(s, Min(ReadyAt(s)))
    ELSE [s EXCEPT !.runnable = <<>>,
                   !.err = IF StopExpected(s) THEN @ ELSE "deadlock"]

\* Faulty variant: the yielding thread is not queued again.
YieldCurrentDropped(s, p) ==
    ScheduleNext(IF s.current = p THEN [s EXCEPT !.current = NoPid] ELSE s)

\* Faulty variant: the yielding thread goes to the front of the queue.
YieldCurrentFirst(s, p) ==
    ScheduleNext(IF s.current = p
                 THEN [s EXCEPT !.current = NoPid, !.runnable = <<p>> \o @]
                 ELSE s)

YieldCurrent(s, p) ==
    ScheduleNext(IF s.current = p
                 THEN [s EXCEPT !.current = NoPid, !.runnable = Append(@, p)]
                 ELSE s)

\* Faulty variant: a new thread is resumed at once.
ReleaseAtOnce(s, p) == ResumeThread(s, p)

\* A task whose attach stop and clone event have both been seen is let go.
Release(s, p) ==
    IF IsScheduled(s, p)
    THEN [s EXCEPT !.runnable = Append(@, p)]
    ELSE ResumeThread(s, p)

\* The attach stop of a registered task is seen.
Started(s, p) == Release([s EXCEPT !.pendingStart = @ \ {p}], p)

-----------------------------------------------------------------------------
(* Simulated futex queues *)

Block(s, p, a) ==
    [s EXCEPT !.blocked = @ \cup {p}, !.waiting[a] = Append(@, p)]

\* How many of the threads parked on a a wake of n takes.  Every entry of a
\* waiting queue is in `blocked` (QueueInv), so none is passed over.
WokenCount(s, a, n) == IF n < Len(s.waiting[a]) THEN n ELSE Len(s.waiting[a])

\* Faulty variant: the woken threads stay in `blocked`.
WakeStillBlocked(s, a, n) ==
    LET q == s.waiting[a]
        k == WokenCount(s, a, n)
    IN  [s EXCEPT !.waiting[a] = SubSeq(q, k + 1, Len(q)), !.runnable = @ \o SubSeq(q, 1, k)]

\* Faulty variant: the threads that parked last are woken first.
WakeYoungest(s, a, n) ==
    LET q == s.waiting[a]
        k == WokenCount(s, a, n)
        woken == SubSeq(q, Len(q) - k + 1, Len(q))
    IN  [s EXCEPT !.waiting[a] = SubSeq(q, 1, Len(q) - k),
                  !.blocked = @ \ Range(woken),
                  !.runnable = @ \o woken]

\* Faulty variant: the woken threads are not queued.
WakeUnqueued(s, a, n) ==
    LET q == s.waiting[a]
        k == WokenCount(s, a, n)
    IN  [s EXCEPT !.waiting[a] = SubSeq(q, k + 1, Len(q)),
                  !.blocked = @ \ Range(SubSeq(q, 1, k))]

Wake(s, a, n) ==
    LET q == s.waiting[a]
        k == WokenCount(s, a, n)
        woken == SubSeq(q, 1, k)
    IN  [s EXCEPT !.waiting[a] = SubSeq(q, k + 1, Len(q)),
                  !.blocked = @ \ Range(woken),
                  !.runnable = @ \o woken]

\* Faulty variant: nothing is removed.
RetainAll(q, p) == q

\* VecDeque::retain(|q| q != p), on a queue that holds p at most once (QueueInv).
Retain(q, p) ==
    IF p \in Range(q) THEN RemoveAt(q, CHOOSE i \in DOMAIN q : q[i] = p) ELSE q

-----------------------------------------------------------------------------
(* Registration and exit of tasks *)

\* Faulty variant: the new thread is given the id of one that lives.
RegisterThreadSameVtid(s, p, info) ==
    LET s1 == [s EXCEPT !.threads = @ \cup {p},
                        !.scheduled = IF info.thread THEN @ \cup {p} ELSE @,
                        !.vtid[p] = s.vtidNext - 1,
                        !.childTid[p] = info.childTid,
                        !.vtidNext = @ + 1]
    IN  IF p \in s.threads
        THEN s
        ELSE IF p \in s1.stoppedPending
             THEN Release([s1 EXCEPT !.stoppedPending = @ \ {p}], p)
             ELSE [s1 EXCEPT !.pendingStart = @ \cup {p}]

RegisterThread(s, p, info) ==
    LET s1 == [s EXCEPT !.threads = @ \cup {p},
                        !.scheduled = IF info.thread THEN @ \cup {p} ELSE @,
                        !.vtid[p] = s.vtidNext,
                        !.childTid[p] = info.childTid,
                        !.vtidNext = @ + 1]
        s2 == IF p \in s1.stoppedPending
              THEN Release([s1 EXCEPT !.stoppedPending = @ \ {p}], p)
              ELSE [s1 EXCEPT !.pendingStart = @ \cup {p}]
    IN  IF p \in s.threads
        THEN s
        ELSE TraceJson(s2, "thread_create", s.vtidNext, IF info.thread THEN 1 ELSE 0)

\* Faulty variant: the thread that joins is not woken.
WakeJoinerForgotten(s, p) == s

\* The CLONE_CHILD_CLEARTID wake of on_thread_exit.
WakeJoiner(s, p) ==
    IF s.childTid[p] # NoAddr THEN Wake(s, s.childTid[p], 1) ELSE s

\* What on_thread_exit does for a pid it knows.
Unregister(s, p, record) ==
    LET s1 == WakeJoiner([s EXCEPT !.threads = @ \ {p}, !.scheduled = @ \ {p}], p)
        s2 == IF record THEN TraceJson(s1, "thread_exit", s.vtid[p], 0) ELSE s1
    IN  [s2 EXCEPT !.pending = @ \ {p}]

\* clone_pending is not cleaned up here.
OnThreadExit(s, p, record) ==
    LET s1 == IF p \in s.threads THEN Unregister(s, p, record) ELSE s
    IN  [s1 EXCEPT !.runnable = Retain(@, p),
                   !.blocked = @ \ {p},
                   !.waiting = [a \in Addr |-> Retain(s1.waiting[a], p)],
                   !.sigPending[p] = NoSig,
                   !.pendingStart = @ \ {p},
                   !.stoppedPending = @ \ {p}]

-----------------------------------------------------------------------------
(* Syscall stops *)

SkipSyscall(s, p) == [s EXCEPT !.pending = @ \cup {p}]

\* A call draws from the PRNG; the stream position stands for the bytes.
InterceptGetrandom(s, p) ==
    TraceJson(SkipSyscall([s EXCEPT !.rng = @ + 1], p), "getrandom", s.rng, 0)

\* Faulty variant: the clock runs backwards.
InterceptClockGettimeBackwards(s, p, monotonic) ==
    SkipSyscall([s EXCEPT !.tick = IF monotonic THEN @ - 1 ELSE @], p)

\* Monotonic clocks advance one step per read, the wall clock is frozen.
InterceptClockGettime(s, p, monotonic) ==
    LET s1 == [s EXCEPT !.tick = IF monotonic THEN @ + 1 ELSE @]
    IN  TraceJson(SkipSyscall(s1, p), "clock_gettime",
                  IF monotonic THEN s.tick ELSE 0, IF monotonic THEN 1 ELSE 0)

InterceptGettimeofday(s, p) ==
    TraceJson(SkipSyscall(s, p), "gettimeofday", 0, 0)

\* Faulty variant: CLONE_THREAD is not looked at.
StashCloneThread(s, p, op) ==
    [s EXCEPT !.clonePending[p] = [thread |-> TRUE, childTid |-> op.addr]]

\* fork(2) and vfork(2) are other syscalls and are not recorded.
StashClone(s, p, op) ==
    [s EXCEPT !.clonePending[p] = [thread |-> op.name = "clone", childTid |-> op.addr]]

\* Faulty variant: they are simulated from three threads on.
SimulatedOffByOne(s, p) == IsScheduled(s, p) /\ \E q, r \in s.scheduled \ {p} : q # r

\* Futexes are simulated for a scheduled thread that is not the only one.
Simulated(s, p) == IsScheduled(s, p) /\ s.scheduled # {p}

\* Wakes (and requeues, which are wakes of n and then of n2).
FutexWake(s, p, op) ==
    LET s1 == Wake(s, op.addr, op.n)
        s2 == IF op.name = "wake" THEN s1 ELSE Wake(s1, op.addr, op.n2)
    IN  TraceFutex(SkipSyscall(s2, p), p, op.name, Woke)

\* Whether p, stopped at the entry of op with `word` at its futex address, parks.
Parks(s, p, op, word) ==
    /\ op.name \in {"wait", "timedwait"}
    /\ Simulated(s, p)
    /\ word = op.val

InterceptFutex(s, p, op, word) ==
    IF Parks(s, p, op, word)
    THEN TraceFutex(Block(SkipSyscall(s, p), p, op.addr), p, op.name, Wait)
    ELSE IF /\ Simulated(s, p)
            /\ \/ op.name \in {"wake", "requeue"}
               \/ op.name = "cmp_requeue" /\ word = op.val
         THEN FutexWake(s, p, op)
         ELSE TraceFutex(s, p, op.name, Pass)

OnSyscallEntry(s, p, op, word) ==
    CASE op.name = "getrandom" -> InterceptGetrandom(s, p)
      [] op.name \in {"clock_mono", "clock_real"} ->
            InterceptClockGettime(s, p, op.name = "clock_mono")
      [] op.name = "gettimeofday" -> InterceptGettimeofday(s, p)
      [] op.name \in FutexOps -> InterceptFutex(s, p, op, word)
      [] op.name = "exit_group" ->
            TraceSyscall([s EXCEPT !.groupExiting = TRUE], op.name, Pass)
      [] op.name \in {"clone", "fork"} -> TraceSyscall(StashClone(s, p, op), op.name, Pass)
      [] OTHER -> TraceSyscall(s, op.name, Pass)

\* Faulty variant: the pending result is not consumed.
OnSyscallExitUnconsumed(s, p, op) ==
    IF p \in s.pending THEN TraceSyscall(s, op.name, Inject) ELSE s

OnSyscallExit(s, p, op) ==
    IF p \in s.pending
    THEN TraceSyscall([s EXCEPT !.pending = @ \ {p}], op.name, Inject)
    ELSE s
=============================================================================

---------------------------- MODULE MCSupervisor ----------------------------
(***************************************************************************)
(* Guest programs and constants for model checking Supervisor.             *)
(***************************************************************************)
EXTENDS Scheduling

CONSTANTS p0, p1, p2, p3

TwoPids == {p0, p1}
ThreePids == {p0, p1, p2}
FourPids == {p0, p1, p2, p3}

\* Syscalls of the guests.
Call(name) == [NoOp EXCEPT !.name = name]
Futex(name, a, v, n, m) == [NoOp EXCEPT !.name = name, !.addr = a, !.val = v, !.n = n, !.n2 = m]
Create(name, a, l) == [NoOp EXCEPT !.name = name, !.addr = a, !.entry = l]

AnyLabels == {"any"}
NoWords == [a \in {} |-> 0]
At(a, v) == [x \in {a} |-> v]
Do(from, op, to) == [from |-> from, when |-> NoWords, set |-> NoWords, op |-> op, to |-> to]
If(from, a, v, op, to) == [Do(from, op, to) EXCEPT !.when = At(a, v)]
IfSet(from, a, v, w, op, to) == [If(from, a, v, op, to) EXCEPT !.set = At(a, w)]

-----------------------------------------------------------------------------
\* The most general guests over one futex word: any task may make any of the
\* guest's syscalls at any time, and store 0 or 1 in the word before a plain one.
Stores == {[Do("any", Call("sys"), "any") EXCEPT !.set = At("x", v)] : v \in {0, 1}}
Calls(ops) == {Do("any", op, "any") : op \in ops}

AnyThreads ==
    Stores \cup Calls(
        {Futex("wait", "x", 1, 0, 0), Futex("timedwait", "x", 0, 0, 0),
         Futex("wake", "x", 0, 1, 0), Futex("requeue", "x", 0, 1, 1),
         Futex("cmp_requeue", "x", 1, 0, 1), Futex("wake_op", "x", 0, 1, 0),
         Futex("lock_pi", "x", 0, 0, 0), Futex("unlock_pi", "x", 0, 0, 0),
         Create("clone", "x", "any"), Call("exit"), Call("exit_group"), Call("exec")})

AnyTasks ==
    Calls({Futex("wait", "x", 0, 0, 0), Futex("wake", "x", 0, 1, 0),
           Create("clone", "x", "any"), Create("fork", "x", "any"),
           Call("exit"), Call("exit_group")})

\* Tasks other than the init are interchangeable.
Symmetry == Permutations(Pids \ {InitPid})

-----------------------------------------------------------------------------
\* tests/fixtures/threads.c with three workers: each registers itself with the
\* kernel, takes the mutex (futex word "lock": 0 free, 1 held, 2 contended), draws
\* random bytes, releases it, prints, gives back its stack and exits; main creates
\* and joins them, reads the clocks and exits.
Lock(from, contended, op, to) ==
    {IfSet(from, "lock", 0, IF from = contended THEN 2 ELSE 1, op, to)}
    \cup {IfSet(from, "lock", v, 2, Futex("wait", "lock", 2, 0, 0), contended) : v \in {1, 2}}
Unlock(from, woke, to) ==
    {IfSet(from, "lock", 1, 0, Call("sys"), to),
     IfSet(from, "lock", 2, 0, Futex("wake", "lock", 0, 1, 0), woke),
     Do(woke, Call("sys"), to)}
Critical(op, to) ==
    Lock("w0", "w1", op, "w2") \cup Lock("w1", "w1", op, "w2") \cup Unlock("w2", "w3", to)
Join(from, tid, op, to) ==
    {If(from, tid, 1, Futex("wait", tid, 1, 0, 0), from), If(from, tid, 0, op, to)}

Worker ==
    Critical(Call("getrandom"), "w4")
    \cup {Do("s0", Call("sys"), "w0"), Do("w4", Call("sys"), "w5"), Do("w5", Call("exit"), "w5")}

ThreadsC ==
    Worker
    \cup {Do("m0", Create("clone", "t1", "s0"), "m1"), Do("m1", Create("clone", "t2", "s0"), "m2"),
          Do("m2", Create("clone", "t3", "s0"), "m3")}
    \cup Join("m3", "t1", Call("clock_mono"), "m4") \cup Join("m4", "t2", Call("clock_real"), "m5")
    \cup Join("m5", "t3", Call("gettimeofday"), "m6") \cup {Do("m6", Call("exit_group"), "m6")}

ThreadLabels == {"m0", "m1", "m2", "m3", "m4", "m5", "m6", "s0", "w0", "w1", "w2", "w3", "w4", "w5"}

\* A guest that does one of two things.  Either main and two workers for ever
\* make syscalls and take the mutex; or, like a shell, main forks a process, by
\* clone or by fork, that writes to a pipe and exits, and reads the pipe.
Progress ==
    {Do("m0", Create("clone", "t1", "w0"), "m1"), Do("m1", Create("clone", "t2", "w0"), "w0"),
     Do("w0", Call("sys"), "w0")} \cup Critical(Call("sys"), "w0")
    \cup
    {Do("m0", Create("fork", "t1", "c0"), "m2"), Do("m0", Create("rawfork", NoAddr, "c0"), "m2"),
     Do("m2", Call("pipe_read"), "m3"), Do("m3", Call("pipe_read"), "m4"),
     Do("m4", Call("exit_group"), "m4"),
     Do("c0", Call("sys"), "c1"), Do("c1", Call("pipe_write"), "c2"),
     Do("c2", Call("pipe_write"), "c3"), Do("c3", Call("exit_group"), "c3")}
ProgressLabels == ThreadLabels \cup {"c0", "c1", "c2", "c3"}

ProcessLabels == {"m0", "m1", "m2", "m3", "c0", "c1", "c2", "w0", "w1", "w2"}

\* An init that forks a process, waits for its byte, and then runs a thread.
ForkThenThread ==
    {Do("m0", Create("fork", NoAddr, "c0"), "m1"), Do("m1", Call("pipe_read"), "m2"),
     Do("m2", Create("clone", "t1", "w0"), "m3"),
     Do("c0", Call("pipe_write"), "c1"), Do("c1", Call("exit_group"), "c1"),
     Do("w0", Call("exit"), "w0")}
    \cup Join("m3", "t1", Call("exit_group"), "m3")

\* Main ends with pthread_exit (exit(2)); the worker goes on and ends the process.
LeaderExits ==
    {Do("m0", Create("clone", "t1", "w0"), "m1"), Do("m1", Call("exit"), "m1"),
     Do("w0", Call("sys"), "w1"), Do("w1", Call("exit_group"), "w1")}

\* Main reads a pipe its worker writes.
PipeBetweenThreads ==
    {Do("m0", Create("clone", "t1", "w0"), "m1"), Do("m1", Call("pipe_read"), "m2"),
     Do("m2", Call("exit_group"), "m2"),
     Do("w0", Call("sys"), "w1"), Do("w1", Call("pipe_write"), "w2"),
     Do("w2", Call("exit"), "w2")}

\* Main waits with a timeout for a worker that waits, with a timeout, too.
TimedWaits ==
    {Do("m0", Create("clone", "t1", "w0"), "m1"),
     Do("m1", Futex("timedwait", "lock", 0, 0, 0), "m2"), Do("m2", Call("exit_group"), "m2"),
     Do("w0", Futex("timedwait", "lock", 0, 0, 0), "w1"), Do("w1", Call("exit"), "w1")}

\* The init and the process it forks each fork again; the children then compute
\* without syscalls until the init's exit ends them.
NestedForks ==
    {Do("m0", Create("fork", NoAddr, "c0"), "m1"), Do("m1", Create("fork", NoAddr, "c1"), "m2"),
     Do("m2", Call("exit_group"), "m2"),
     Do("c0", Create("fork", NoAddr, "c1"), "c1")}

\* The init forks a process that starts a thread, and creates one itself.
ForkedThread ==
    {Do("m0", Create("fork", NoAddr, "c0"), "m1"), Do("m1", Call("exit_group"), "m1"),
     Do("c0", Create("clone", "t1", "w0"), "c1"), Do("c1", Call("exit"), "c1"),
     Do("w0", Call("exit"), "w0")}

\* Main and its worker take the same priority-inheritance lock.
PiCritical(from, holds, done, to) ==
    {Do(from, Futex("lock_pi", "t1", 0, 0, 0), holds), Do(holds, Call("sys"), done),
     Do(done, Futex("unlock_pi", "t1", 0, 0, 0), to)}
PiLock ==
    {Do("m0", Create("clone", NoAddr, "w0"), "m1"), Do("c0", Call("exit_group"), "c0"),
     Do("c1", Call("exit"), "c1")}
    \cup PiCritical("m1", "m2", "m3", "c0") \cup PiCritical("w0", "w1", "w2", "c1")

\* The init forks twice; the first process starts a thread that runs for ever.
LateStop ==
    {Do("m0", Create("fork", NoAddr, "c0"), "m1"), Do("m1", Create("fork", NoAddr, "c1"), "m2"),
     Do("m2", Call("sys"), "m2"),
     Do("c0", Create("clone", NoAddr, "w0"), "c1"), Do("w0", Call("sys"), "w0")}

\* The init and a forked process both draw random bytes.
ForkRandom ==
    {Do("m0", Create("fork", NoAddr, "c0"), "m1"), Do("m1", Call("getrandom"), "m2"),
     Do("m2", Call("exit_group"), "m2"),
     Do("c0", Call("getrandom"), "c1"), Do("c1", Call("exit_group"), "c1")}
=============================================================================

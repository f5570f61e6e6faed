----------------------------- MODULE Scheduling -----------------------------
(***************************************************************************)
(* The supervisor of Supervisor.tla is a round-robin scheduler: its run    *)
(* queue, its futex queues and its current thread behave as RoundRobin.tla *)
(* prescribes, whatever the kernel does and reports.  A current thread     *)
(* that has been reaped (it stays `current` in a dying group) counts as    *)
(* none.                                                                   *)
(***************************************************************************)
EXTENDS Supervisor

\* The thread whose turn it is, if it is still there.
OnTurn(s) == IF s.current \in s.scheduled THEN s.current ELSE NoPid

Turns == INSTANCE RoundRobin WITH
    Thread <- Pids,
    First <- InitPid,
    NoThread <- NoPid,
    Words <- Addr,
    running <- OnTurn(sv),
    queue <- sv.runnable,
    parked <- sv.waiting

\* The loop implements the round-robin scheduler: of all its handlers, nested
\* attach waits, thread deaths and failed clones, each is one of its steps.
TakesTurns == Turns!Spec
=============================================================================

---------------------------- MODULE Determinism -----------------------------
(***************************************************************************)
(* Two runs of the supervisor on the same guest with the same seed, one    *)
(* after the other: the trace file of the first is kept in `golden` while  *)
(* the second is written (tests/runtime.rs compares the two files).  The   *)
(* kernel is free to order its steps and reports differently in each.      *)
(***************************************************************************)
EXTENDS Supervisor

VARIABLE golden    \* the finished trace of the first run, empty during it

allVars == <<vars, golden>>

DInit == Init /\ golden = <<>>

\* The second `dtrun run`: reset_trace empties the file, supervise() starts over.
Rerun ==
    /\ Returned /\ golden = <<>>
    /\ golden' = sv.trace
    /\ task' = InitialTasks
    /\ reports' = {}
    /\ mem' = [p \in Pids |-> [a \in Addr |-> 0]]
    /\ pipe' = 0
    /\ signalsLeft' = MaxSignals
    /\ sv' = NewSupervisor
    /\ stack' = <<>>
    /\ outcome' = "idle"

DNext == (Next /\ UNCHANGED golden) \/ Rerun

DSpec == DInit /\ [][DNext]_allVars
DFairSpec == DSpec /\ Fairness

\* "The exact same seed yields the identical execution trajectory every single
\* time": the second trace never departs from the first, and ends where it ends.
SameTrace ==
    golden # <<>> =>
        /\ IsPrefix(sv.trace, golden)
        /\ Returned => sv.trace = golden
=============================================================================

---------------------------- MODULE MCLifecycle ----------------------------
(* Commands for the runs of Lifecycle.tla.                                 *)
EXTENDS Lifecycle, TLC

CONSTANTS c1, c2, c3, c4, q1, q2

\* Every command on one container.
OneContainer ==
    c1 :> {"create", "run"} @@ c2 :> {"start", "exec"} @@ c3 :> {"sigkill", "kill", "force"}
    @@ c4 :> {"delete", "state", "list"}

\* Two containers that are given one id.
SameId == c1 :> {"create"} @@ c2 :> {"run"} @@ c3 :> {"start"} @@ c4 :> {"force"}
CreateAgain == c1 :> {"create"} @@ c2 :> {"create"} @@ c3 :> {"start"} @@ c4 :> {"delete"}
TwoCreates == c1 :> {"create"} @@ c2 :> {"create"} @@ c3 :> {"start"}

CreateStart == c1 :> {"create"} @@ c2 :> {"start"}
CreateStartQuery ==
    c1 :> {"create"} @@ c2 :> {"start"} @@ c3 :> {"delete"} @@ c4 :> {"state", "list"}
CreateKillStart == c1 :> {"create"} @@ c2 :> {"start"} @@ c3 :> {"sigkill"}
CreateStartDelete == c1 :> {"create"} @@ c2 :> {"start"} @@ c3 :> {"delete"}
JustRun == c1 :> {"run"}
JustCreate == c1 :> {"create"}
RunKill == c1 :> {"run"} @@ c2 :> {"sigkill"}

TwoPids == {q1, q2}
OnePid == {q1}
Symmetry == Permutations(TwoPids)
=============================================================================

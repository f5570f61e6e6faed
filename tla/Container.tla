----------------------------- MODULE Container ------------------------------
(***************************************************************************)
(* What `create`, `start`, `run` and `delete` promise of a container: the  *)
(* life of its init process, and what the recorded state says of it.       *)
(*                                                                         *)
(* A life goes one way, none -> creating -> created -> started -> running  *)
(* -> dead, may end at any point, and leaves `created` only after somebody *)
(* asked for the start (or the container is attached: `run`).  The record  *)
(* may be missing, and may lag behind, but is never ahead of the life:     *)
(* `running` is recorded for a container whose start was accepted,         *)
(* `stopped` for one that is dead.                                         *)
(***************************************************************************)
CONSTANTS Containers, NoRecord

VARIABLES
    life,       \* of each container
    attached,   \* the containers of `run`
    asked,      \* whether a start has been asked for
    record      \* the recorded state, <<container, status>>

vars == <<life, attached, asked, record>>

Init ==
    /\ life = [c \in Containers |-> "none"]
    /\ attached = {}
    /\ asked = FALSE
    /\ record = NoRecord

Becomes(c, from, to) ==
    /\ life[c] \in from
    /\ life' = [life EXCEPT ![c] = to]

Create(c) ==
    /\ Becomes(c, {"none"}, "creating")
    /\ attached' \in {attached, attached \cup {c}}
    /\ UNCHANGED <<asked, record>>

Created(c) ==
    /\ Becomes(c, {"creating"}, "created")
    /\ UNCHANGED <<attached, asked, record>>

AskStart ==
    /\ asked' = TRUE
    /\ UNCHANGED <<life, attached, record>>

Start(c) ==
    /\ asked \/ c \in attached
    /\ Becomes(c, {"created"}, "started")
    /\ UNCHANGED <<attached, asked, record>>

Run(c) ==
    /\ Becomes(c, {"started"}, "running")
    /\ UNCHANGED <<attached, asked, record>>

Die(c) ==
    /\ Becomes(c, {"creating", "created", "started", "running"}, "dead")
    /\ UNCHANGED <<attached, asked, record>>

\* The statuses that may be recorded in each part of a life.
Recordable(l) ==
    CASE l = "created" -> {"created"}
      [] l = "started" -> {"running"}
      [] l = "dead" -> {"created", "running", "stopped"}
      [] OTHER -> {}

Record(c) ==
    /\ \E s \in Recordable(life[c]) : record' = <<c, s>>
    /\ UNCHANGED <<life, attached, asked>>

\* The record is being rewritten, or has been deleted.
Erase ==
    /\ record' = NoRecord
    /\ UNCHANGED <<life, attached, asked>>

Next ==
    \/ \E c \in Containers :
          Create(c) \/ Created(c) \/ Start(c) \/ Run(c) \/ Die(c) \/ Record(c)
    \/ AskStart
    \/ Erase

Spec == Init /\ [][Next]_vars
=============================================================================

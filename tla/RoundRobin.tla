----------------------------- MODULE RoundRobin -----------------------------
(***************************************************************************)
(* What dtrun's scheduler promises, without ptrace, stops or attaching:    *)
(* one thread runs at a time, the others take turns in the order in which  *)
(* they became ready, and the threads parked on a futex word are woken in  *)
(* the order in which they parked.                                         *)
(*                                                                         *)
(* Every step is one event (a turn ends, a thread parks, wakes others,     *)
(* arrives or leaves), after which a free processor is given to the head   *)
(* of the queue, in the same step or in a later one.  So the interleaving  *)
(* is a function of the order of the events alone.                         *)
(***************************************************************************)
EXTENDS Integers, Sequences, SequencesExt

CONSTANTS
    Thread,
    First,      \* the thread that is ready at the start
    NoThread,
    Words        \* futex words

VARIABLES
    running,    \* the thread whose turn it is
    queue,      \* the threads that are ready, in the order of their turns
    parked      \* the threads parked on each word, in the order they parked

vars == <<running, queue, parked>>

Init ==
    /\ running = NoThread
    /\ queue = <<First>>
    /\ parked = [w \in Words |-> <<>>]

\* With r running (or no thread) and q ready, the head of q may get its turn.
Settle(r, q) ==
    \/ running' = r /\ queue' = q
    \/ r = NoThread /\ q # <<>> /\ running' = Head(q) /\ queue' = Tail(q)

Dispatch ==
    /\ Settle(running, queue)
    /\ UNCHANGED parked

\* The turn of the running thread ends.
Yield ==
    /\ running # NoThread
    /\ Settle(NoThread, Append(queue, running))
    /\ UNCHANGED parked

Park(w) ==
    /\ running # NoThread
    /\ parked' = [parked EXCEPT ![w] = Append(@, running)]
    /\ Settle(NoThread, queue)

\* The n longest parked threads of w are ready again, in that order.
Woken(w, n) == SubSeq(parked[w], 1, n)
StillParked(w, n) == [parked EXCEPT ![w] = SubSeq(@, n + 1, Len(@))]

Wake(w, n) ==
    /\ parked' = StillParked(w, n)
    /\ Settle(running, queue \o Woken(w, n))

\* A thread that is nowhere yet gets ready.
Admit(t) ==
    /\ t # running
    /\ t \notin Range(queue)
    /\ \A w \in Words : t \notin Range(parked[w])
    /\ Settle(running, Append(queue, t))
    /\ UNCHANGED parked

Without(q, t) ==
    IF t \in Range(q) THEN RemoveAt(q, CHOOSE i \in DOMAIN q : q[i] = t) ELSE q

\* t leaves, from wherever it is, the ready threads q and the parked ones f.
Depart(t, q, f) ==
    /\ parked' = [v \in Words |-> Without(f[v], t)]
    /\ Settle(IF running = t THEN NoThread ELSE running, Without(q, t))

Leave(t) == Depart(t, queue, parked)

\* A thread leaves after waking the one that joins it, parked on w.
LeaveJoined(t, w) ==
    /\ parked[w] # <<>>
    /\ Depart(t, queue \o Woken(w, 1), StillParked(w, 1))

Next ==
    \/ Dispatch
    \/ Yield
    \/ \E w \in Words :
          \/ Park(w)
          \/ \E n \in 0..Len(parked[w]) : Wake(w, n)
    \/ \E t \in Thread :
          \/ Admit(t)
          \/ Leave(t)
          \/ \E w \in Words : LeaveJoined(t, w)

Spec == Init /\ [][Next]_vars
=============================================================================

----------------------------- MODULE GuestProofs -----------------------------
(***************************************************************************)
(* What the supervisor does to the tasks of the guest.                     *)
(*                                                                         *)
(* 1. Whatever the guest, the signals but SIGSTOP (NoStops) and the order  *)
(* of the stops: the result the supervisor holds for a replaced syscall    *)
(* (pending) is written into that syscall and no other (InjectionPairsUp). *)
(* IInv does not say enough for that.  A result could reach the wrong      *)
(* syscall if its task were resumed at the exit stop before that stop is   *)
(* handled, and two places resume a task whose stop was reported earlier:  *)
(* schedule_next and the return of await_attach.  PairInv adds that        *)
(* neither does it to a task with a result to come: a queued thread has no *)
(* unhandled stop, and the parent of an awaited child is still in its      *)
(* clone event stop.  SupervisorProofs has what each handler asks for      *)
(* (Asks); PairKeep, PairSchedule and PairCommit carry Pairing through it. *)
(*                                                                         *)
(* 2. For a guest of threads, which never forks and gets no fatal signal   *)
(* (a SIGSTOP is no harm to it): its threads really take turns             *)
(* (ThreadInv).  All but one are in a stop that has been handled, or are   *)
(* being ended by the one that is not, so no ptrace request fails, no      *)
(* thread sleeps in a FUTEX_WAIT that another one would have to wake, and  *)
(* a reported deadlock is one.  Beyond that guest the claims are false:    *)
(* with processes or SIGKILL TLC finds counterexamples to each.            *)
(*                                                                         *)
(* 3. For a guest whose forked processes create no threads: whoever is     *)
(* scheduled shares the init's memory (FamilyInv).  A note in              *)
(* clone_pending outlives a clone that fails or dies, so the proof follows *)
(* each note to the clone event that uses it up.                           *)
(***************************************************************************)
EXTENDS SupervisorProofs

\* A handler's result keeps Pairing if it resumes no task whose result is still to
\* be written and no held parent, takes no held parent's turn, and holds new
\* results only for tasks entering a syscall it replaces.
LEMMA PairKeep ==
    ASSUME NEW t, NEW r, NEW s, NEW stk, Pairing(t, r, s, stk),
           NEW s2, NEW r2, NEW X, NEW Y, Asks(s, s2, X, Y), r2 \subseteq r,
           \A x \in X : /\ t[x].at = "exitcall" => x \notin s2.pending
                        /\ t[x].at = "clonestop" => \A i \in DOMAIN stk : stk[i][1] # x,
           \A y \in Y : t[y].at = "entry" /\ t[y].op.name \in Injected,
           \A q \in r \ r2 : t[q].at = "exitcall" => q \notin s2.pending,
           \A q : t[q].at = "clonestop" /\ q \in s2.scheduled =>
                     q \in s.scheduled /\ (q = s.current => q = s2.current)
    PROVE  Pairing(t, r2, s2, stk)
  <1>1. ResultsHeld(t, r2, s2)
    <2> SUFFICES ASSUME NEW p \in s2.pending
                 PROVE  /\ t[p].at # "unborn"
                        /\ t[p].at \notin Dead => t[p].at \in PairedAt /\ t[p].op.name \in Injected
                        /\ t[p].at = "exitcall" => p \in r2 \ Resuming(s2)
      BY DEF ResultsHeld
    <2>1. CASE p \in s.pending
      BY <2>1 DEF Pairing, ResultsHeld, Asks
    <2>2. CASE p \in Y
      BY <2>2 DEF PairedAt
    <2> QED
      BY <2>1, <2>2 DEF Asks
  <1>2. ParentsHeld(t, r2, s2, stk)
    <2>1. ASSUME NEW i \in DOMAIN stk, t[stk[i][1]].at \notin Ending
          PROVE  /\ t[stk[i][1]].at = "clonestop"
                 /\ stk[i][1] \notin r2 \cup Resuming(s2)
                 /\ stk[i][1] \in s2.scheduled => stk[i][1] = s2.current
      <3>1. /\ t[stk[i][1]].at = "clonestop" /\ stk[i][1] \notin r \cup Resuming(s)
            /\ stk[i][1] \in s.scheduled => stk[i][1] = s.current
        BY <2>1 DEF Pairing, ParentsHeld
      <3>2. stk[i][1] \notin X
        BY <3>1
      <3> QED
        BY <3>1, <3>2 DEF Asks
    <2>2. \A i, j \in DOMAIN stk : stk[i][1] = stk[j][1] => i = j
      BY DEF Pairing, ParentsHeld
    <2> QED
      BY <2>1, <2>2 DEF ParentsHeld
  <1> QED
    BY <1>1, <1>2 DEF Pairing

\* What schedule_next resumes: a queued thread, which becomes current.
LEMMA ScheduleAsks ==
    ASSUME NEW s \in SupervisorType, Bookkeeping(s)
    PROVE  /\ ScheduleNext(s).scheduled = s.scheduled
           /\ \/ Asks(s, ScheduleNext(s), {}, {}) /\ ScheduleNext(s).current = s.current
              \/ \E q \in s.scheduled :
                    Asks(s, ScheduleNext(s), {q}, {}) /\ ScheduleNext(s).current = q
  <1>0. s.runnable \in Seq(Pids) /\ Range(s.runnable) \subseteq s.scheduled
    BY DEF SupervisorType, Bookkeeping, RunQueueOK
  <1>1. CASE s.runnable = <<>>
    <2>1. ReadyAt(s) = {}
      BY <1>1, AllReady
    <2>2. /\ ScheduleNext(s).resumed = s.resumed /\ ScheduleNext(s).pending = s.pending
          /\ ScheduleNext(s).scheduled = s.scheduled /\ ScheduleNext(s).current = s.current
      BY <2>1 DEF ScheduleNext
    <2> QED
      BY <2>2 DEF Asks, Resuming
  <1>2. CASE s.runnable # <<>>
    <2>1. Min(ReadyAt(s)) = 1 /\ ReadyAt(s) # {}
      <3>1. Min(ReadyAt(s)) = 1 /\ Len(s.runnable) >= 1 /\ ReadyAt(s) = DOMAIN s.runnable
        BY <1>2, AllReady
      <3>2. 1 \in DOMAIN s.runnable
        BY <1>0, <3>1
      <3> QED
        BY <3>1, <3>2
    <2>2. ScheduleNext(s) = SwitchTo(s, 1)
      BY <2>1 DEF ScheduleNext
    <2> DEFINE q == s.runnable[1]
               s1 == IF s.lastVtid # s.vtid[q] THEN TraceJson(s, "schedule", s.lastVtid, s.vtid[q]) ELSE s
               s2 == [s1 EXCEPT !.runnable = SubSeq(@, 1 + 1, Len(@)), !.lastVtid = s.vtid[q], !.current = q]
    <2>3. SwitchTo(s, 1) = ResumeThread(s2, q)
      BY DEF SwitchTo
    <2>4. /\ s1.resumed = s.resumed /\ s1.pending = s.pending /\ s1.scheduled = s.scheduled
          /\ DOMAIN s1 = DOMAIN s
      BY DEF TraceJson
    <2>5. "current" \in DOMAIN s
      BY DEF SupervisorType
    <2>6. q \in s.scheduled
      BY <1>0, <1>2 DEF Range
    <2> HIDE DEF q, s1
    <2>7. /\ s2.resumed = s.resumed /\ s2.pending = s.pending /\ s2.scheduled = s.scheduled
          /\ s2.current = q
      BY <2>4, <2>5
    <2> HIDE DEF s2
    <2>8. Asks(s2, ResumeThread(s2, q), {q}, {}) /\ SameTurn(s2, ResumeThread(s2, q))
      BY ResumeTurn
    <2>9. /\ Asks(s, ScheduleNext(s), {q}, {})
          /\ ScheduleNext(s).scheduled = s.scheduled /\ ScheduleNext(s).current = q
      BY <2>2, <2>3, <2>7, <2>8 DEF Asks, SameTurn, Resuming
    <2> QED
      BY <2>6, <2>9
  <1> QED
    BY <1>1, <1>2

\* The thread schedule_next resumes has no result waiting at an exit stop, and is
\* not a parent whose clone event is being handled.
LEMMA PairSchedule ==
    ASSUME NEW t, NEW r, NEW s, NEW stk, Inv(t, r, s, stk), Pairing(t, r, s, stk), s.current = NoPid
    PROVE  Pairing(t, r, ScheduleNext(s), stk)
  <1> DEFINE s2 == ScheduleNext(s)
  <1>0. s \in SupervisorType /\ Bookkeeping(s) /\ r \subseteq Pids /\ s.scheduled \subseteq Pids
    BY DEF Inv, SupervisorType
  <1>1. /\ s2.scheduled = s.scheduled
        /\ \/ Asks(s, s2, {}, {}) /\ s2.current = s.current
           \/ \E q \in s.scheduled : Asks(s, s2, {q}, {}) /\ s2.current = q
    BY <1>0, ScheduleAsks
  <1> HIDE DEF s2
  <1>2. \A q \in s.scheduled : ~Busy(t, r, s, q)
    BY <1>0, NobodyBusy, PidsAssumption
  <1>3. \A i \in DOMAIN stk : stk[i][1] \in s.scheduled => t[stk[i][1]].at \in Ending
    BY <1>0, PidsAssumption DEF Pairing, ParentsHeld
  <1>4. CASE Asks(s, s2, {}, {}) /\ s2.current = s.current
    <2>1. Pairing(t, r, s2, stk)
      BY <1>1, <1>4, PairKeep
    <2> QED
      BY <2>1 DEF s2
  <1>5. ASSUME NEW q \in s.scheduled, Asks(s, s2, {q}, {}) PROVE Pairing(t, r, s2, stk)
    <2>1. t[q].at = "exitcall" => q \notin s2.pending
      BY <1>2, <1>5 DEF Pairing, ResultsHeld, Busy, ReportedAt, Asks
    <2>2. t[q].at = "clonestop" => \A i \in DOMAIN stk : stk[i][1] # q
      BY <1>3 DEF Ending
    <2>3. \A x : x \in s2.scheduled => x \in s.scheduled /\ (x = s.current => x = s2.current)
      BY <1>0, <1>1, PidsAssumption
    <2> QED
      BY <1>5, <2>1, <2>2, <2>3, PairKeep
  <1> QED
    BY <1>1, <1>4, <1>5 DEF s2

\* The requests of a handler take effect: a result at an exit stop stays with its
\* task, and a held parent stays where it is.
LEMMA PairCommit ==
    ASSUME NEW p \in Pids, NEW t, NEW s, NEW stk,
           Inv(t, reports \ {p}, s, stk), Pairing(t, reports \ {p}, s, stk), Commit(p, t, s, stk)
    PROVE  PairInv'
  <1> DEFINE s1 == LoopTail(s, stk)
             r == reports \ {p}
  <1>1. Inv(t, r, s1, stk) /\ Pairing(t, r, s1, stk)
    BY ScheduleInv, PairSchedule DEF LoopTail
  <1>2. /\ task' = IF PtraceFails(t, s1) THEN t ELSE Resumed(t, s1)
        /\ reports' = {q \in r : (\A x \in s1.resumed : x[1] # q) /\ task'[q].at # "dying"}
        /\ sv' = [s1 EXCEPT !.resumed = {}]
        /\ stack' = stk
        /\ outcome' # "idle"
    BY DEF Commit
  <1> HIDE DEF s1
  <1>3. reports' = {q \in r : q \notin Resuming(s1) /\ task'[q].at # "dying"}
    BY <1>2 DEF Resuming
  <1>4. s1 \in SupervisorType /\ t \in [Pids -> Task] /\ stk \in Seq(Pids \X Pids) /\ r \in SUBSET Pids
    BY <1>1 DEF Inv
  <1>5. /\ sv'.pending = s1.pending /\ Resuming(sv') = {}
        /\ sv'.scheduled = s1.scheduled /\ sv'.current = s1.current
    <2>1. sv'.pending = s1.pending /\ sv'.resumed = {}
          /\ sv'.scheduled = s1.scheduled /\ sv'.current = s1.current
      BY <1>2, <1>4 DEF SupervisorType
    <2> QED
      BY <2>1 DEF Resuming
  <1>6. \A q \in Pids : \/ task'[q] = t[q]
                        \/ RequestedTask(t, s1, task', q)
    BY <1>2, <1>4, RequestedShape
  <1> HIDE DEF r
  <1>7. ASSUME NEW q \in s1.pending
        PROVE  /\ task'[q].at # "unborn"
               /\ task'[q].at \notin Dead => task'[q].at \in PairedAt /\ task'[q].op.name \in Injected
               /\ task'[q].at = "exitcall" => q \in reports'
    <2>1. q \in Pids
      BY <1>4 DEF SupervisorType
    <2>2. /\ t[q].at # "unborn"
          /\ t[q].at \notin Dead => t[q].at \in PairedAt /\ t[q].op.name \in Injected
          /\ t[q].at = "exitcall" => q \in r \ Resuming(s1)
      BY <1>1 DEF Pairing, ResultsHeld
    <2>3. CASE task'[q] = t[q]
      BY <1>3, <2>2, <2>3
    <2>4. CASE RequestedTask(t, s1, task', q)
      <3>1. task'[q].op = t[q].op
        BY <2>2, <2>4 DEF RequestedTask
      <3>2. q \in Resuming(s1) /\ t[q].at \in Stops \cap PairedAt => t[q].at \in {"entry", "exitstop"}
        BY <2>2 DEF Stops, PairedAt
      <3>3. NextAt("entry") = "kernel" /\ NextAt("exitstop") = "final"
        BY DEF NextAt
      <3> QED
        BY <1>3, <2>2, <2>4, <3>1, <3>2, <3>3 DEF RequestedTask, Dead, PairedAt, Stops
    <2> QED
      BY <1>6, <2>1, <2>3, <2>4
  <1>8. ASSUME NEW i \in DOMAIN stk, task'[stk[i][1]].at \notin Ending
        PROVE  /\ task'[stk[i][1]].at = "clonestop"
               /\ stk[i][1] \notin reports'
               /\ stk[i][1] \in s1.scheduled => stk[i][1] = s1.current
    <2> DEFINE q == stk[i][1]
    <2>1. q \in Pids
      BY <1>4
    <2>2. \/ t[q].at \in Ending
          \/ /\ t[q].at = "clonestop" /\ q \notin r \cup Resuming(s1)
             /\ q \in s1.scheduled => q = s1.current
      BY <1>1 DEF Pairing, ParentsHeld
    <2> HIDE DEF q
    <2>3. task'[q].at \notin Ending
      BY <1>8 DEF q
    <2>4. CASE task'[q] = t[q]
      BY <1>3, <2>2, <2>3, <2>4 DEF q
    <2>5. CASE RequestedTask(t, s1, task', q)
      <3>1. t[q].at \notin Ending
        <4>1. t[q].at \in Stops \cap Ending => t[q].at = "exitstop"
          BY DEF Stops, Ending
        <4>2. NextAt("exitstop") = "final"
          BY DEF NextAt
        <4> QED
          BY <2>3, <2>5, <4>1, <4>2 DEF RequestedTask, Ending
      <3>2. task'[q].at = t[q].at
        BY <2>2, <2>3, <2>5, <3>1 DEF RequestedTask, Ending
      <3> QED
        BY <1>3, <2>2, <3>1, <3>2 DEF q
    <2> QED
      BY <1>6, <2>1, <2>4, <2>5
  <1>9. \A i, j \in DOMAIN stk : stk[i][1] = stk[j][1] => i = j
    BY <1>1 DEF Pairing, ParentsHeld
  <1>10. ResultsHeld(task', reports', sv')
    BY <1>5, <1>7 DEF ResultsHeld
  <1>11. ParentsHeld(task', reports', sv', stack')
    BY <1>2, <1>5, <1>8, <1>9 DEF ParentsHeld
  <1> QED
    BY <1>2, <1>10, <1>11 DEF PairInv, Pairing

\* Taking the report of a task that is not at an exit stop keeps Pairing.
LEMMA PairParts ==
    ASSUME IInv, PairInv
    PROVE  /\ Pairing(task, reports, sv, stack) /\ Resuming(sv) = {}
           /\ sv.scheduled \subseteq Pids /\ sv.pending \subseteq Pids /\ reports \subseteq Pids
           /\ stack \in Seq(Pids \X Pids) /\ task \in [Pids -> Task]
  BY IInvParts DEF PairInv, IInv, TypeOK, SupervisorType

\* The syscall-entry stop handler keeps PairInv.
LEMMA PairEntry ==
    ASSUME IInv, PairInv, NEW p \in Pids, SyscallEntry(p) PROVE PairInv'
  <1>1. PICK s : /\ Commit(p, task, s, stack) /\ Inv(task, reports \ {p}, s, stack)
                 /\ Asks(sv, s, {p}, Replaced(task[p].op, p))
                 /\ s.scheduled = sv.scheduled /\ (s.current = sv.current \/ sv.current = p)
    BY SyscallEntryResult
  <1>2. task[p].at = "entry"
    BY DEF SyscallEntry, Reported
  <1>3. \A y \in Replaced(task[p].op, p) : task[y].at = "entry" /\ task[y].op.name \in Injected
    BY <1>2 DEF Replaced
  <1>4. Pairing(task, reports, sv, stack)
    BY PairParts
  <1>5. Pairing(task, reports \ {p}, s, stack)
    BY <1>1, <1>2, <1>3, <1>4, PairKeep
  <1> QED
    BY <1>1, <1>5, PairCommit

\* The syscall-exit stop handler, which writes the result, keeps PairInv.
LEMMA PairExit ==
    ASSUME IInv, PairInv, NEW p \in Pids, SyscallExit(p) PROVE PairInv'
  <1>0. task[p].at = "exitcall" /\ Pairing(task, reports, sv, stack)
    BY PairParts DEF SyscallExit, Reported
  <1>1. PICK s : /\ Commit(p, task, s, stack) /\ Inv(task, reports \ {p}, s, stack)
                 /\ \/ SameTurn(sv, s) /\ Asks(sv, s, {p}, {}) /\ p \notin s.pending
                    \/ /\ sv.current = p /\ p \in sv.scheduled
                       /\ p \in reports /\ task[p].at = "exitcall"
                       /\ \E u : /\ Inv(task, reports \ {p}, u, stack)
                                 /\ Yields(sv, u, p) /\ s = ScheduleNext(u)
                                 /\ Asks(sv, u, {}, {}) /\ p \notin u.pending
    BY SyscallExitResult
  <1>2. CASE SameTurn(sv, s) /\ Asks(sv, s, {p}, {}) /\ p \notin s.pending
    <2>1. Pairing(task, reports \ {p}, s, stack)
      BY <1>0, <1>2, PairKeep DEF SameTurn
    <2> QED
      BY <1>1, <2>1, PairCommit
  <1>3. ASSUME sv.current = p, NEW u, Inv(task, reports \ {p}, u, stack), Yields(sv, u, p),
               s = ScheduleNext(u), Asks(sv, u, {}, {}), p \notin u.pending
        PROVE  PairInv'
    <2>1. u.scheduled = sv.scheduled /\ u.current = NoPid
      BY <1>3 DEF Yields
    <2>2. Pairing(task, reports \ {p}, u, stack)
      BY <1>0, <1>3, <2>1, PairKeep
    <2>3. Pairing(task, reports \ {p}, s, stack)
      BY <1>3, <2>1, <2>2, PairSchedule
    <2> QED
      BY <1>1, <2>3, PairCommit
  <1> QED
    BY <1>1, <1>2, <1>3

\* Pushing a parent that has just reported its clone event.
LEMMA PairPush ==
    ASSUME NEW t, NEW r, NEW s, NEW stk \in Seq(Pids \X Pids), NEW p \in Pids, NEW c \in Pids,
           Pairing(t, r, s, stk), t[p].at = "clonestop", p \notin r \cup Resuming(s),
           p \in s.scheduled => p = s.current,
           \A i \in DOMAIN stk : stk[i][1] # p
    PROVE  Pairing(t, r, s, Append(stk, <<p, c>>))
  <1> DEFINE stk2 == Append(stk, <<p, c>>)
  <1>1. /\ DOMAIN stk2 = DOMAIN stk \cup {Len(stk) + 1}
        /\ \A i \in DOMAIN stk : stk2[i] = stk[i]
        /\ stk2[Len(stk) + 1] = <<p, c>>
    OBVIOUS
  <1> HIDE DEF stk2
  <1>2. \A i \in DOMAIN stk2 : (i \in DOMAIN stk /\ stk2[i][1] = stk[i][1]) \/ (i = Len(stk) + 1 /\ stk2[i][1] = p)
    BY <1>1
  <1>3. /\ \A i \in DOMAIN stk :
              \/ t[stk[i][1]].at \in Ending
              \/ /\ t[stk[i][1]].at = "clonestop" /\ stk[i][1] \notin r \cup Resuming(s)
                 /\ stk[i][1] \in s.scheduled => stk[i][1] = s.current
        /\ \A i, j \in DOMAIN stk : stk[i][1] = stk[j][1] => i = j
    BY DEF Pairing, ParentsHeld
  <1>4. ParentsHeld(t, r, s, stk2)
    <2>1. ASSUME NEW i \in DOMAIN stk2
          PROVE  \/ t[stk2[i][1]].at \in Ending
                 \/ /\ t[stk2[i][1]].at = "clonestop" /\ stk2[i][1] \notin r \cup Resuming(s)
                    /\ stk2[i][1] \in s.scheduled => stk2[i][1] = s.current
      <3>1. CASE i \in DOMAIN stk /\ stk2[i][1] = stk[i][1]
        BY <1>3, <3>1, Zenon
      <3>2. CASE stk2[i][1] = p
        BY <3>2
      <3> QED
        BY <1>2, <3>1, <3>2
    <2>2. ASSUME NEW i \in DOMAIN stk2, NEW j \in DOMAIN stk2, stk2[i][1] = stk2[j][1] PROVE i = j
      <3>1. CASE i \in DOMAIN stk /\ j \in DOMAIN stk
        BY <1>1, <1>3, <2>2, <3>1
      <3> QED
        BY <1>1, <1>2, <2>2, <3>1
    <2> QED
      BY <2>1, <2>2 DEF ParentsHeld
  <1> QED
    BY <1>4 DEF Pairing, stk2

\* The clone event handler keeps PairInv: the parent is held, or resumed at once.
LEMMA PairClone ==
    ASSUME IInv, PairInv, NEW p \in Pids, CloneEvent(p) PROVE PairInv'
  <1>0. /\ p \in reports /\ task[p].at = "clonestop" /\ Pairing(task, reports, sv, stack)
        /\ Resuming(sv) = {} /\ stack \in Seq(Pids \X Pids)
    BY PairParts DEF CloneEvent, Reported
  <1>1. PICK s, stk :
           /\ Commit(p, task, s, stk) /\ Inv(task, reports \ {p}, s, stk)
           /\ \E q \in Pids :
                 /\ q # sv.current /\ q \notin sv.scheduled /\ Admits(sv, s, q)
                 /\ q \notin sv.threads /\ p \in sv.threads
                 /\ \/ stk = Append(stack, <<p, q>>) /\ Asks(sv, s, {q}, {})
                    \/ stk = stack /\ Asks(sv, s, {p, q}, {})
    BY CloneEventResult
  <1>2. PICK q \in Pids :
           /\ q # sv.current /\ q \notin sv.scheduled /\ Admits(sv, s, q)
           /\ q \notin sv.threads /\ p \in sv.threads
           /\ \/ stk = Append(stack, <<p, q>>) /\ Asks(sv, s, {q}, {})
              \/ stk = stack /\ Asks(sv, s, {p, q}, {})
    BY <1>1
  <1>3. task[q].at \notin {"exitcall", "clonestop"} /\ p # q
    BY <1>2 DEF IInv, Link, Unregistered, ReportedAt
  <1>4. \A i \in DOMAIN stack : stack[i][1] # p
    BY <1>0 DEF Pairing, ParentsHeld, Ending
  <1>5. /\ s.scheduled \subseteq sv.scheduled \cup {q} /\ s.current = sv.current
        /\ sv.scheduled \subseteq s.scheduled
    BY <1>2 DEF Admits
  <1>6. \A x : task[x].at = "clonestop" /\ x \in s.scheduled =>
                  x \in sv.scheduled /\ (x = sv.current => x = s.current)
    BY <1>3, <1>5
  <1>7. CASE stk = Append(stack, <<p, q>>) /\ Asks(sv, s, {q}, {})
    <2>1. Pairing(task, reports \ {p}, s, stack)
      BY <1>0, <1>3, <1>6, <1>7, PairKeep
    <2>2. p \notin (reports \ {p}) \cup Resuming(s)
      BY <1>0, <1>3, <1>7 DEF Asks
    <2>3. p \in s.scheduled => p = s.current
      BY <1>0, <1>3, <1>5, ReporterCurrent DEF ReportedAt
    <2>4. Pairing(task, reports \ {p}, s, stk)
      BY <1>0, <1>4, <1>7, <2>1, <2>2, <2>3, PairPush
    <2> QED
      BY <1>1, <2>4, PairCommit
  <1>8. CASE stk = stack /\ Asks(sv, s, {p, q}, {})
    <2>1. Pairing(task, reports \ {p}, s, stack)
      BY <1>0, <1>3, <1>4, <1>6, <1>8, PairKeep
    <2> QED
      BY <1>1, <1>8, <2>1, PairCommit
  <1> QED
    BY <1>2, <1>7, <1>8

\* The handlers of the other events and of signal stops keep PairInv.
LEMMA PairEvents ==
    ASSUME IInv, PairInv, NEW p \in Pids,
           ExitEvent(p) \/ OtherEvent(p) \/ OtherSigstop(p) \/ SignalStop(p)
    PROVE  PairInv'
  <1>1. PICK s : /\ Commit(p, task, s, stack) /\ Inv(task, reports \ {p}, s, stack)
                 /\ s.scheduled = sv.scheduled /\ s.current = sv.current /\ Asks(sv, s, {p}, {})
                 /\ task[p].at \in {"exitstop", "execstop", "attach", "signal"}
    <2>1. CASE ExitEvent(p) \/ OtherEvent(p)
      BY <2>1, EventResult DEF SameTurn
    <2>2. CASE OtherSigstop(p) \/ SignalStop(p)
      BY <2>2, StoppedResult DEF SameTurn, Admits
    <2> QED
      BY <2>1, <2>2
  <1>2. Pairing(task, reports \ {p}, s, stack)
    BY <1>1, PairParts, PairKeep
  <1> QED
    BY <1>1, <1>2, PairCommit

\* await_attach returns: the parent is resumed, once.
LEMMA PairAttach ==
    ASSUME IInv, AttachOnly, PairInv, NEW p \in Pids, AwaitedAttach(p) PROVE PairInv'
  <1>0. /\ Pairing(task, reports, sv, stack) /\ stack \in Seq(Pids \X Pids)
    BY PairParts
  <1>1. PICK s, stk :
           /\ Commit(p, task, s, stk) /\ Inv(task, reports \ {p}, s, stk)
           /\ Admits(sv, s, p) /\ s.scheduled = sv.scheduled
           /\ stack # <<>> /\ stk = Front(stack) /\ task[p].at = "attach"
           /\ Asks(sv, s, {p, Last(stack)[1]}, {})
    BY AwaitedAttachResult
  <1>2. /\ Last(stack) = stack[Len(stack)] /\ Len(stack) \in DOMAIN stack
        /\ DOMAIN stk \subseteq DOMAIN stack \ {Len(stack)}
        /\ \A i \in DOMAIN stk : stk[i] = stack[i]
    BY <1>0, <1>1 DEF Front, Last
  <1> DEFINE u == stack[Len(stack)][1]
  <1>3. ParentsHeld(task, reports, sv, stk) /\ \A i \in DOMAIN stk : stk[i][1] # u
    BY <1>0, <1>2 DEF Pairing, ParentsHeld
  <1>4. Pairing(task, reports, sv, stk)
    BY <1>0, <1>3 DEF Pairing
  <1>5. task[u].at # "exitcall"
    BY <1>0, <1>2 DEF Pairing, ParentsHeld, Ending
  <1>6. Asks(sv, s, {p, u}, {}) /\ s.current = sv.current
    BY <1>1, <1>2 DEF Admits
  <1> HIDE DEF u
  <1>7. Pairing(task, reports \ {p}, s, stk)
    BY <1>1, <1>3, <1>4, <1>5, <1>6, PairKeep
  <1> QED
    BY <1>1, <1>7, PairCommit

\* Reaping a task keeps Pairing.
LEMMA PairReaped ==
    ASSUME IInv, PairInv, NEW p \in Pids, task[p].at = "gone", NEW t,
           t = [task EXCEPT ![p].at = "reaped"]
    PROVE  Pairing(t, reports, sv, stack)
  <1>0. /\ Pairing(task, reports, sv, stack) /\ task \in [Pids -> Task]
        /\ sv.pending \subseteq Pids /\ stack \in Seq(Pids \X Pids)
    BY PairParts
  <1>1. t[p].at = "reaped" /\ \A q \in Pids \ {p} : t[q] = task[q]
    BY <1>0, ReapedTask
  <1>2. ResultsHeld(t, reports, sv)
    BY <1>0, <1>1 DEF Pairing, ResultsHeld, Dead
  <1>3. \A i \in DOMAIN stack : stack[i][1] \in Pids
    BY <1>0
  <1>4. ParentsHeld(t, reports, sv, stack)
    BY <1>0, <1>1, <1>3 DEF Pairing, ParentsHeld, Ending
  <1> QED
    BY <1>2, <1>4 DEF Pairing

\* The step for the exit of a task other than the init keeps PairInv.
LEMMA PairExited ==
    ASSUME IInv, PairInv, NEW p \in Pids, ThreadExited(p) PROVE PairInv'
  <1>1. PICK t, s, s1 :
           /\ Commit(p, t, s, stack) /\ Inv(t, reports \ {p}, s, stack)
           /\ Inv(t, reports \ {p}, s1, stack)
           /\ task[p].at = "gone" /\ t = [task EXCEPT ![p].at = "reaped"]
           /\ Asks(sv, s1, {}, {})
           /\ \E w \in SupervisorType :
                 /\ Leaves(sv, s1, p, w)
                 /\ w = sv \/ \E a \in Addr : WakeResult(sv, a, 1, w)
           /\ \/ s = s1
              \/ /\ sv.current = p
                 /\ Inv(t, reports \ {p}, [s1 EXCEPT !.current = NoPid], stack)
                 /\ s = ScheduleNext([s1 EXCEPT !.current = NoPid])
    BY ThreadExitedResult
  <1>2. Pairing(t, reports, sv, stack) /\ t[p].at = "reaped"
    BY <1>1, PairReaped, ReapedTask
  <1>3. s1.scheduled = sv.scheduled \ {p} /\ s1.current = sv.current
    BY <1>1 DEF Leaves
  <1>4. CASE s = s1
    <2>1. Pairing(t, reports \ {p}, s1, stack)
      <3>1. Asks(sv, s1, {}, {})
        BY <1>1
      <3> QED
        BY <1>2, <1>3, <3>1, PairKeep
    <2> QED
      BY <1>1, <1>4, <2>1, PairCommit
  <1>5. CASE /\ sv.current = p
             /\ Inv(t, reports \ {p}, [s1 EXCEPT !.current = NoPid], stack)
             /\ s = ScheduleNext([s1 EXCEPT !.current = NoPid])
    <2> DEFINE s2 == [s1 EXCEPT !.current = NoPid]
    <2>1. /\ s2.scheduled = sv.scheduled \ {p} /\ s2.current = NoPid
          /\ s2.resumed = s1.resumed /\ s2.pending = s1.pending
      BY <1>1, <1>3 DEF Inv, SupervisorType
    <2>2. Inv(t, reports \ {p}, s2, stack) /\ s = ScheduleNext(s2)
      BY <1>5
    <2> HIDE DEF s2
    <2>3. Asks(sv, s2, {}, {})
      BY <1>1, <2>1 DEF Asks, Resuming
    <2>4. Pairing(t, reports \ {p}, s2, stack)
      BY <1>2, <1>5, <2>1, <2>3, PairKeep
    <2>5. Pairing(t, reports \ {p}, s, stack)
      BY <2>1, <2>2, <2>4, PairSchedule
    <2> QED
      BY <1>1, <2>5, PairCommit
  <1> QED
    BY <1>1, <1>4, <1>5

\* Run keeps PairInv: no result is held before the first status.
LEMMA PairRun ==
    ASSUME IInv, PairInv, Run PROVE PairInv'
  <1>1. sv.pending = {} /\ Commit(InitPid, task, sv, <<>>) /\ InitPid \in Pids
    BY PidsAssumption DEF Run, PairInv
  <1>2. Inv(task, reports \ {InitPid}, sv, <<>>)
    BY <1>1, IInvParts, PopInv
  <1>3. Pairing(task, reports \ {InitPid}, sv, <<>>)
    BY <1>1 DEF Pairing, ResultsHeld, ParentsHeld
  <1> QED
    BY <1>1, <1>2, <1>3, PairCommit

\* The end of supervise() keeps PairInv.
LEMMA PairInitExited ==
    ASSUME IInv, PairInv, InitExited PROVE PairInv'
  <1> DEFINE e == IF task[InitPid].fatal THEN "signal" ELSE "exit"
  <1>1. /\ InitPid \in Pids /\ task[InitPid].at = "gone"
        /\ task' = [task EXCEPT ![InitPid].at = "reaped"]
        /\ sv' = TraceJson(sv, e, 0, 0) /\ outcome' # "idle"
        /\ UNCHANGED <<reports, stack>>
    BY PidsAssumption DEF InitExited, Reapable
  <1>2. /\ sv'.pending = sv.pending /\ sv'.resumed = sv.resumed
        /\ sv'.scheduled = sv.scheduled /\ sv'.current = sv.current
    BY <1>1 DEF TraceJson
  <1> HIDE DEF e
  <1>3. Pairing(task', reports, sv, stack)
    BY <1>1, PairReaped
  <1>4. Pairing(task', reports', sv', stack')
    BY <1>1, <1>2, <1>3 DEF Pairing, ResultsHeld, ParentsHeld, Resuming
  <1> QED
    BY <1>1, <1>4 DEF PairInv

-----------------------------------------------------------------------------
(* Steps of the kernel *)

\* What a step of the kernel does to each task: one that can neither be in a
\* replaced syscall nor be a held parent may do as it likes; the others stay, end,
\* or come to the exit stop of a syscall.
PairedMove(t, r, s, t2, r2, q) ==
    \/ t[q].at \in {"unborn", "born", "user", "asleep", "return"}
    \/ t[q].at = "kernel" /\ q \notin s.pending
    \/ t[q].at = "kernel" /\ t2[q].at = "exitcall" /\ t2[q].op = t[q].op /\ q \in r2
    \/ t2[q].at = t[q].at /\ t2[q].op = t[q].op /\ (q \in r2 <=> q \in r)
    \/ t2[q].at \in Ending /\ t2[q].op = t[q].op /\ t[q].at \notin Dead

\* The steps of the kernel keep PairInv.
LEMMA PairKernel ==
    ASSUME IInv, PairInv, \A q \in Pids : PairedMove(task, reports, sv, task', reports', q),
           UNCHANGED svVars
    PROVE  PairInv'
  <1>0. /\ Pairing(task, reports, sv, stack) /\ Resuming(sv) = {}
        /\ sv.pending \subseteq Pids /\ stack \in Seq(Pids \X Pids)
        /\ sv' = sv /\ stack' = stack /\ outcome' = outcome
    BY PairParts DEF svVars
  <1>1. ASSUME NEW q \in sv.pending
        PROVE  /\ task'[q].at # "unborn"
               /\ task'[q].at \notin Dead => task'[q].at \in PairedAt /\ task'[q].op.name \in Injected
               /\ task'[q].at = "exitcall" => q \in reports'
    <2>1. /\ task[q].at # "unborn"
          /\ task[q].at \notin Dead => task[q].at \in PairedAt /\ task[q].op.name \in Injected
          /\ task[q].at = "exitcall" => q \in reports
      BY <1>0 DEF Pairing, ResultsHeld
    <2>2. PairedMove(task, reports, sv, task', reports', q)
      BY <1>0
    <2> QED
      BY <2>1, <2>2 DEF PairedMove, PairedAt, Ending, Dead
  <1>2. ASSUME NEW i \in DOMAIN stack
        PROVE  \/ task'[stack[i][1]].at \in Ending
               \/ /\ task'[stack[i][1]].at = "clonestop" /\ stack[i][1] \notin reports'
                  /\ stack[i][1] \in sv.scheduled => stack[i][1] = sv.current
    <2> DEFINE q == stack[i][1]
    <2>1. q \in Pids
      BY <1>0
    <2>2. \/ task[q].at \in Ending
          \/ /\ task[q].at = "clonestop" /\ q \notin reports
             /\ q \in sv.scheduled => q = sv.current
      BY <1>0 DEF Pairing, ParentsHeld
    <2> HIDE DEF q
    <2>3. PairedMove(task, reports, sv, task', reports', q)
      BY <2>1
    <2>4. \/ task'[q].at \in Ending
          \/ /\ task'[q].at = "clonestop" /\ q \notin reports'
             /\ q \in sv.scheduled => q = sv.current
      BY <2>2, <2>3 DEF PairedMove, Ending
    <2> QED
      BY <2>4 DEF q
  <1>3. ResultsHeld(task', reports', sv')
    BY <1>0, <1>1 DEF ResultsHeld
  <1>4. ParentsHeld(task', reports', sv', stack')
    <2>1. \A i, j \in DOMAIN stack : stack[i][1] = stack[j][1] => i = j
      BY <1>0 DEF Pairing, ParentsHeld
    <2> QED
      BY <1>0, <1>2, <2>1 DEF ParentsHeld
  <1> QED
    BY <1>0, <1>3, <1>4 DEF PairInv, Pairing

\* A task executing a syscall that is not replaced has no result held for it.
LEMMA NotReplaced ==
    ASSUME IInv, PairInv, NEW p \in Pids, task[p].at = "kernel",
           task[p].op.name \notin Injected
    PROVE  p \notin sv.pending
  BY PairParts DEF Pairing, ResultsHeld, Dead

\* A step that moves one task.
LEMMA PairMoveOne ==
    ASSUME IInv, PairInv, NEW p \in Pids, NEW at, task' = [task EXCEPT ![p].at = at],
           reports' \in {reports, reports \cup {p}}, UNCHANGED svVars,
           \/ task[p].at \in {"born", "user", "asleep", "return"}
           \/ task[p].at = "kernel" /\ p \notin sv.pending
           \/ task[p].at = "kernel" /\ at = "exitcall" /\ p \in reports'
           \/ task[p].at \in {"kernel", "dying"} /\ at \in Ending
    PROVE  PairInv'
  <1>0. task \in [Pids -> Task]
    BY PairParts
  <1>1. \A q \in Pids \ {p} : task'[q] = task[q] /\ (q \in reports' <=> q \in reports)
    BY <1>0
  <1>2. task'[p].at = at /\ task'[p].op = task[p].op
    <2>1. task'[p] = [task[p] EXCEPT !.at = at] /\ task[p] \in Task
      BY <1>0
    <2> QED
      BY <2>1 DEF Task
  <1>3. PairedMove(task, reports, sv, task', reports', p)
    BY <1>2 DEF PairedMove, Dead
  <1>4. \A q \in Pids : PairedMove(task, reports, sv, task', reports', q)
    BY <1>1, <1>3 DEF PairedMove
  <1> QED
    BY <1>4, PairKernel

\* The kernel steps that move one task keep PairInv.
LEMMA PairSimpleSteps ==
    ASSUME IInv, PairInv, NEW p \in Pids,
           \/ Attach(p) \/ ExecuteSimple(p) \/ ExecuteWait(p) \/ ExecuteLock(p) \/ ExecuteExit(p)
           \/ ExecutePipe(p) \/ WakeUp(p) \/ Return(p) \/ ExitStop(p)
    PROVE  PairInv'
  <1>1. CASE Attach(p)
    BY <1>1, PairMoveOne DEF Attach, StopAt
  <1>2. CASE ExecuteSimple(p)
    BY <1>2, PairMoveOne DEF ExecuteSimple, StopAt
  <1>3. CASE ExecuteWait(p)
    BY <1>3, PairMoveOne DEF ExecuteWait, StopAt
  <1>4. CASE ExecuteExit(p)
    BY <1>4, PairMoveOne DEF ExecuteExit, Ending
  <1>5. CASE ExecutePipe(p)
    <2>1. p \notin sv.pending
      BY <1>5, NotReplaced DEF ExecutePipe, Injected, FutexOps, PassedOps
    <2> QED
      BY <1>5, <2>1, PairMoveOne DEF ExecutePipe, StopAt
  <1>6. CASE WakeUp(p)
    BY <1>6, PairMoveOne DEF WakeUp
  <1>7. CASE Return(p)
    BY <1>7, PairMoveOne DEF Return, StopAt
  <1>8. CASE ExitStop(p)
    BY <1>8, PairMoveOne DEF ExitStop, StopAt, Ending
  <1>9. CASE ExecuteLock(p)
    <2>1. p \notin sv.pending
      BY <1>9, NotReplaced DEF ExecuteLock, Injected, FutexOps, PassedOps
    <2> QED
      BY <1>9, <2>1, PairMoveOne DEF ExecuteLock, StopAt
  <1> QED
    BY <1>1, <1>2, <1>3, <1>4, <1>5, <1>6, <1>7, <1>8, <1>9

\* User code that makes a syscall keeps PairInv.
LEMMA PairUserStep ==
    ASSUME IInv, PairInv, NEW p \in Pids, UserStep(p) PROVE PairInv'
  <1>1. task \in [Pids -> Task] /\ task[p].at = "user" /\ reports' = reports \cup {p} /\ UNCHANGED svVars
    BY PairParts DEF UserStep
  <1>2. PICK c \in Code :
           task' = [task EXCEPT ![p].at = "entry", ![p].op = c.op, ![p].label = c.to]
    BY DEF UserStep
  <1>3. \A q \in Pids \ {p} : task'[q] = task[q]
    BY <1>1, <1>2
  <1>4. \A q \in Pids : PairedMove(task, reports, sv, task', reports', q)
    BY <1>1, <1>3 DEF PairedMove
  <1> QED
    BY <1>1, <1>4, PairKernel

\* A wake in the kernel keeps PairInv.
LEMMA PairWake ==
    ASSUME IInv, PairInv, NEW p \in Pids, ExecuteWake(p) PROVE PairInv'
  <1>1. /\ task[p].at = "kernel" /\ p \notin sv.pending /\ reports' = reports \cup {p}
        /\ UNCHANGED svVars
    BY DEF ExecuteWake
  <1>2. PICK ops, W :
           /\ W \subseteq Sleepers(task[p].tgid, task[p].op.addr, ops)
           /\ task' = [q \in Pids |->
                         IF q = p THEN [task[q] EXCEPT !.at = "exitcall"]
                         ELSE IF q \in W THEN [task[q] EXCEPT !.at = "return"]
                         ELSE task[q]]
    BY DEF ExecuteWake
  <1>3. \A q \in W : task[q].at = "asleep"
    BY <1>2 DEF Sleepers
  <1>4. \A q \in Pids : q = p \/ q \in W \/ task'[q] = task[q]
    BY <1>2
  <1>5. \A q \in Pids : PairedMove(task, reports, sv, task', reports', q)
    BY <1>1, <1>3, <1>4 DEF PairedMove
  <1> QED
    BY <1>1, <1>5, PairKernel

\* Killing tasks keeps PairInv.
LEMMA PairDoom ==
    ASSUME IInv, PairInv, NEW S, NEW b \in BOOLEAN, task' = Doom(task, S, b),
           reports' = reports \ Doomed(task, S), UNCHANGED svVars
    PROVE  PairInv'
  <1>1. DoomResult(task, S, task')
    BY PairParts, DoomType
  <1>2. \A q \in Pids : PairedMove(task, reports, sv, task', reports', q)
    BY <1>1 DEF DoomResult, PairedMove, Ending, Dead
  <1> QED
    BY <1>2, PairKernel

\* exec, exit_group and signals keep PairInv.
LEMMA PairKillSteps ==
    ASSUME IInv, PairInv, NEW p \in Pids, ExecuteExec(p) \/ ExecuteExitGroup(p) \/ SignalArrives(p)
    PROVE  PairInv'
  <1>1. CASE ExecuteExec(p)
    <2> DEFINE others == {q \in Group(task, p) : q # p /\ task[q].at # "reaped"}
    <2>1. /\ task[p].at = "kernel" /\ UNCHANGED svVars
          /\ \/ StopAt(p, "execstop")
             \/ task' = Doom(task, others, FALSE) /\ reports' = reports \ Doomed(task, others)
      BY <1>1 DEF ExecuteExec
    <2>2. p \notin sv.pending
      BY <1>1, NotReplaced DEF ExecuteExec, Injected, FutexOps, PassedOps
    <2> HIDE DEF others
    <2>3. CASE StopAt(p, "execstop")
      BY <2>1, <2>2, <2>3, PairMoveOne DEF StopAt
    <2> QED
      BY <2>1, <2>3, PairDoom
  <1>2. CASE ExecuteExitGroup(p)
    BY <1>2, PairDoom DEF ExecuteExitGroup
  <1>3. CASE SignalArrives(p)
    <2>1. UNCHANGED svVars
      BY <1>3 DEF SignalArrives
    <2>2. CASE task' = Doom(task, Group(task, p), TRUE) /\ reports' = reports \ Doomed(task, Group(task, p))
      BY <2>1, <2>2, PairDoom
    <2>3. ASSUME NEW sig, task[p].at = "user", reports' = reports \cup {p},
                 task' = [task EXCEPT ![p].at = "signal", ![p].sig = sig]
          PROVE  PairInv'
      <3>1. task \in [Pids -> Task]
        BY PairParts
      <3>2. \A q \in Pids \ {p} : task'[q] = task[q]
        BY <2>3, <3>1
      <3>3. \A q \in Pids : PairedMove(task, reports, sv, task', reports', q)
        BY <2>3, <3>2 DEF PairedMove
      <3> QED
        BY <2>1, <3>3, PairKernel
    <2> QED
      BY <1>3, <2>2, <2>3 DEF SignalArrives
  <1> QED
    BY <1>1, <1>2, <1>3

\* The end of a task keeps PairInv.
LEMMA PairFinal ==
    ASSUME IInv, PairInv, NEW p \in Pids, Final(p) PROVE PairInv'
  <1> DEFINE g == task[p].tgid
             a == task[p].ctid
             sleepers == IF a = NoAddr THEN {} ELSE Sleepers(g, a, {"wait", "timedwait"})
             last == g = InitPid /\ \A q \in Group(task, p) \ {p} : task[q].at \in Dead
             dead == [task EXCEPT ![p].at = "gone"]
             victims == IF last THEN Doomed(dead, Pids) ELSE {}
             T(W) == [q \in Pids |-> IF q \in W THEN [dead[q] EXCEPT !.at = "return"] ELSE dead[q]]
  <1>0. task \in [Pids -> Task] /\ UNCHANGED svVars
    BY PairParts DEF Final
  <1>1. PICK W \in SUBSET sleepers : task' = Doom(T(W), victims, TRUE)
    BY DEF Final
  <1>2. task[p].at = "final" /\ reports' = reports \ victims
    BY DEF Final
  <1>3. \A q \in W : task[q].at = "asleep"
    BY DEF Sleepers
  <1>4. /\ dead[p].at = "gone" /\ dead[p].op = task[p].op
        /\ \A q \in Pids \ {p} : dead[q] = task[q]
    <2>1. dead[p] = [task[p] EXCEPT !.at = "gone"] /\ task[p] \in Task
      BY <1>0
    <2>2. dead[p].at = "gone" /\ dead[p].op = task[p].op
      BY <2>1 DEF Task
    <2> QED
      BY <1>0, <2>2
  <1>5. \A q \in victims : dead[q].at \in Killable
    BY DEF Doomed
  <1> HIDE DEF dead, victims, sleepers
  <1>6. ASSUME NEW q \in Pids, q \notin W
        PROVE  /\ T(W)[q] = dead[q]
               /\ task'[q] = IF q \in victims
                             THEN [dead[q] EXCEPT !.at = "dying", !.fatal = TRUE] ELSE dead[q]
    <2>1. T(W)[q] = dead[q]
      BY <1>6
    <2>2. q \in Doomed(T(W), victims) <=> q \in victims
      BY <1>5, <2>1 DEF Doomed
    <2>3. task'[q] = IF q \in Doomed(T(W), victims)
                     THEN [T(W)[q] EXCEPT !.at = "dying", !.fatal = TRUE] ELSE T(W)[q]
      BY <1>1 DEF Doom
    <2> HIDE DEF T
    <2> QED
      BY <2>1, <2>2, <2>3, Zenon
  <1>7. ASSUME NEW q \in Pids PROVE PairedMove(task, reports, sv, task', reports', q)
    <2>1. CASE q \in W
      BY <1>3, <2>1 DEF PairedMove
    <2>2. CASE q \notin W /\ q = p
      <3>1. p \notin victims
        BY <1>4, <1>5 DEF Killable, Running, Stops
      <3>2. task'[p] = dead[p]
        BY <1>6, <2>2, <3>1
      <3> QED
        BY <1>2, <1>4, <2>2, <3>2 DEF PairedMove, Ending, Dead
    <2>3. CASE q \notin W /\ q # p /\ q \notin victims
      <3>1. task'[q] = task[q]
        BY <1>4, <1>6, <2>3
      <3> QED
        BY <1>2, <2>3, <3>1 DEF PairedMove
    <2>4. CASE q \notin W /\ q # p /\ q \in victims
      <3>1. task'[q] = [task[q] EXCEPT !.at = "dying", !.fatal = TRUE] /\ task[q] \in Task
        BY <1>0, <1>4, <1>6, <2>4
      <3>2. task'[q].at = "dying" /\ task'[q].op = task[q].op
        BY <3>1 DEF Task
      <3>3. task[q].at \in Killable
        BY <1>4, <1>5, <2>4
      <3> QED
        BY <3>2, <3>3 DEF PairedMove, Ending, Dead, Killable, Running, Stops
    <2> QED
      BY <2>1, <2>2, <2>3, <2>4
  <1> QED
    BY <1>0, <1>7, PairKernel

\* A clone keeps PairInv.
LEMMA PairExecuteClone ==
    ASSUME IInv, PairInv, NEW p \in Pids, ExecuteClone(p) PROVE PairInv'
  <1>0. task \in [Pids -> Task]
    BY PairParts
  <1>1. /\ task[p].at = "kernel" /\ reports' = reports \cup {p} /\ UNCHANGED svVars
        /\ \E c \in Pids : /\ task[c].at = "unborn"
                           /\ \A q \in Pids \ {p, c} : task'[q] = task[q]
    BY <1>0 DEF ExecuteClone
  <1>2. p \notin sv.pending
    BY NotReplaced DEF ExecuteClone, Injected, FutexOps, PassedOps
  <1>3. \A q \in Pids : PairedMove(task, reports, sv, task', reports', q)
    BY <1>1, <1>2 DEF PairedMove
  <1> QED
    BY <1>1, <1>3, PairKernel

\* Every step keeps PairInv.
LEMMA NextPair == IInv /\ AttachOnly /\ PairInv /\ [Next]_vars => PairInv'
  <1> SUFFICES ASSUME IInv, AttachOnly, PairInv, [Next]_vars PROVE PairInv'
    OBVIOUS
  <1>1. CASE Run
    BY <1>1, PairRun
  <1>2. CASE InitExited
    BY <1>2, PairInitExited
  <1>3. ASSUME NEW p \in Pids, SignalArrives(p) PROVE PairInv'
    BY <1>3, PairKillSteps
  <1>4. ASSUME NEW p \in Pids, KernelStep(p) PROVE PairInv'
    BY <1>4, PairUserStep, PairSimpleSteps, PairWake, PairExecuteClone, PairKillSteps, PairFinal
    DEF KernelStep
  <1>5. ASSUME NEW p \in Pids, SupervisorStep(p) PROVE PairInv'
    BY <1>5, PairEntry, PairExit, PairClone, PairEvents, PairAttach, PairExited DEF SupervisorStep
  <1>6. CASE UNCHANGED vars
    BY <1>6 DEF vars, PairInv, Pairing, ResultsHeld, ParentsHeld, Resuming
  <1>7. CASE Done
    BY <1>6, <1>7 DEF Done
  <1> QED
    BY <1>1, <1>2, <1>3, <1>4, <1>5, <1>6, <1>7 DEF Next

\* The initial states satisfy PairInv.
LEMMA InitPair == Init => PairInv
  BY DEF Init, PairInv, Pairing, ResultsHeld, ParentsHeld, NewSupervisor

\* The results held for replaced syscalls are held for the right ones, if nobody sends
\* SIGSTOP.
THEOREM PairInvariant ==
    ASSUME NoStops PROVE Spec => []PairInv
  <1>1. IInv /\ PairInv /\ [Next]_vars => PairInv'
    BY NextPair, NoStopsAttach
  <1> QED
    BY <1>1, InitPair, Invariant, PTL DEF Spec

\* Every injected return value goes to the syscall it was made for, if nobody sends
\* SIGSTOP.
THEOREM InjectionPairsUpHolds ==
    ASSUME NoStops PROVE Spec => []InjectionPairsUp
  <1>1. PairInv => InjectionPairsUp
    BY DEF PairInv, Pairing, ResultsHeld, InjectionPairsUp, Alive
  <1> QED
    BY <1>1, PairInvariant, PTL

-----------------------------------------------------------------------------
(* One thread group *)

\* A guest that creates threads and no processes.
NoForks == \A c \in Code : c.op.name \notin {"fork", "rawfork"}

\* The syscalls that the guest makes.
GuestOps == {c.op : c \in Code} \cup {NoOp}

\* Every task is a thread of the init, and makes none but the guest's syscalls.
OneGroup(t) ==
    \A q \in Pids : /\ t[q].at # "unborn" => t[q].tgid = InitPid
                    /\ t[q].op \in GuestOps

\* q stays in its group, is no new task, and makes no new syscall.
SameGroup(t, t2, q) ==
    /\ t2[q].tgid = t[q].tgid /\ t2[q].op \in {t[q].op, NoOp}
    /\ t2[q].label = t[q].label /\ t2[q].child = t[q].child
    /\ t2[q].at = "unborn" <=> t[q].at = "unborn"

\* A step that leaves the groups alone keeps OneGroup.
LEMMA GroupKeep ==
    ASSUME NEW t, NEW t2, OneGroup(t), \A q \in Pids : SameGroup(t, t2, q)
    PROVE  OneGroup(t2)
  <1>1. NoOp \in GuestOps
    BY DEF GuestOps
  <1> QED
    BY <1>1 DEF OneGroup, SameGroup

\* A guest that never forks makes no such syscall.
LEMMA GuestForks ==
    ASSUME NoForks, NEW op \in GuestOps
    PROVE  op.name \notin {"fork", "rawfork"}
  BY DEF NoForks, GuestOps, NoOp

\* Killing tasks leaves the groups alone.
LEMMA DoomGroup ==
    ASSUME NEW t \in [Pids -> Task], NEW S, NEW b
    PROVE  \A q \in Pids : SameGroup(t, Doom(t, S, b), q)
  <1> SUFFICES ASSUME NEW q \in Pids PROVE SameGroup(t, Doom(t, S, b), q)
    OBVIOUS
  <1> DEFINE d == Doom(t, S, b)[q]
  <1>1. t[q] \in Task /\ (d = t[q] \/ (d = [t[q] EXCEPT !.at = "dying", !.fatal = b] /\ t[q].at \in Killable))
    BY DEF Doom, Doomed
  <1> HIDE DEF d
  <1>2. /\ d.tgid = t[q].tgid /\ d.op = t[q].op /\ d.label = t[q].label /\ d.child = t[q].child
        /\ d.at = "unborn" <=> t[q].at = "unborn"
    BY <1>1 DEF Task, Killable, Running, Stops
  <1> QED
    BY <1>2 DEF SameGroup, d

\* The ptrace requests of a handler leave the groups alone.
LEMMA ResumedGroup ==
    ASSUME NEW t \in [Pids -> Task], NEW s \in SupervisorType, ~PtraceFails(t, s)
    PROVE  \A q \in Pids : SameGroup(t, Resumed(t, s), q)
  <1> DEFINE moved == [q \in Pids |->
                         IF \E x \in s.resumed : x[1] = q
                         THEN [t[q] EXCEPT !.at = NextAt(@), !.sig = NoSig,
                                           !.op = IF t[q].at = "exitcall" THEN NoOp ELSE @]
                         ELSE t[q]]
             killed == {q \in Pids : \E x \in s.resumed : x[2] = "fatal" /\ t[q].tgid = t[x[1]].tgid
                                                          /\ t[q].at # "unborn"}
  <1>1. Resumed(t, s) = Doom(moved, killed, TRUE)
    BY DEF Resumed
  <1>2. ASSUME NEW q \in Pids PROVE moved[q] \in Task /\ SameGroup(t, moved, q)
    <2>1. CASE \E x \in s.resumed : x[1] = q
      <3> DEFINE op2 == IF t[q].at = "exitcall" THEN NoOp ELSE t[q].op
      <3>1. moved[q] = [t[q] EXCEPT !.at = NextAt(t[q].at), !.sig = NoSig, !.op = op2]
        BY <2>1
      <3>2. t[q].at \in Stops
        BY <2>1 DEF PtraceFails
      <3>3. t[q] \in Task /\ NextAt(t[q].at) \in Where \ {"unborn"} /\ t[q].at # "unborn"
        BY <3>2 DEF NextAt, Where, Stops, Running
      <3>4. op2 \in Op /\ op2 \in {t[q].op, NoOp}
        BY <3>3, TaskFields, NoOpType
      <3> HIDE DEF moved, op2
      <3>5. /\ moved[q] \in Task /\ moved[q].tgid = t[q].tgid /\ moved[q].op = op2
            /\ moved[q].at = NextAt(t[q].at) /\ moved[q].label = t[q].label /\ moved[q].child = t[q].child
        BY <3>1, <3>3, <3>4 DEF Task
      <3> QED
        BY <3>3, <3>4, <3>5 DEF SameGroup
    <2>2. CASE ~\E x \in s.resumed : x[1] = q
      <3>1. moved[q] = t[q]
        BY <2>2
      <3> QED
        BY <3>1 DEF SameGroup
    <2> QED
      BY <2>1, <2>2
  <1>3. moved \in [Pids -> Task]
    <2>1. \A q \in Pids : moved[q] \in Task
      BY <1>2
    <2>2. moved = [q \in Pids |-> moved[q]]
      OBVIOUS
    <2> HIDE DEF moved
    <2> QED
      BY <2>1, <2>2
  <1> HIDE DEF moved, killed
  <1>4. \A q \in Pids : SameGroup(moved, Doom(moved, killed, TRUE), q)
    BY <1>3, DoomGroup
  <1> QED
    BY <1>1, <1>2, <1>4 DEF SameGroup

\* A handled status leaves the groups alone.
LEMMA CommitGroup ==
    ASSUME NEW p \in Pids, NEW t, NEW s, NEW stk,
           Inv(t, reports \ {p}, s, stk), Commit(p, t, s, stk), OneGroup(t)
    PROVE  OneGroup(task')
  <1> DEFINE s1 == LoopTail(s, stk)
  <1>1. Inv(t, reports \ {p}, s1, stk)
    BY ScheduleInv DEF LoopTail
  <1>2. task' = IF PtraceFails(t, s1) THEN t ELSE Resumed(t, s1)
    BY DEF Commit
  <1> HIDE DEF s1
  <1>3. CASE ~PtraceFails(t, s1)
    BY <1>1, <1>2, <1>3, ResumedGroup, GroupKeep DEF Inv
  <1> QED
    BY <1>2, <1>3

\* The supervisor's steps leave the groups alone.
LEMMA SupervisorGroup ==
    ASSUME IInv, AttachOnly, NEW p \in Pids, SupervisorStep(p), OneGroup(task)
    PROVE  OneGroup(task')
  <1>1. CASE ThreadExited(p)
    <2>1. PICK t, s : /\ Commit(p, t, s, stack) /\ Inv(t, reports \ {p}, s, stack)
                      /\ t = [task EXCEPT ![p].at = "reaped"] /\ task[p].at = "gone"
      BY <1>1, ThreadExitedResult
    <2>2. \A q \in Pids : SameGroup(task, t, q)
      BY <2>1, KernelTypes DEF SameGroup, Task
    <2> QED
      BY <2>1, <2>2, GroupKeep, CommitGroup
  <1>2. CASE ~ThreadExited(p)
    <2>1. \E s, stk : Commit(p, task, s, stk) /\ Inv(task, reports \ {p}, s, stk)
      <3>1. CASE SyscallEntry(p)
        BY <3>1, SyscallEntryResult
      <3>2. CASE SyscallExit(p)
        BY <3>2, SyscallExitResult
      <3>3. CASE CloneEvent(p)
        BY <3>3, CloneEventResult
      <3>4. CASE ExitEvent(p) \/ OtherEvent(p)
        BY <3>4, EventResult
      <3>5. CASE AwaitedAttach(p)
        BY <3>5, AwaitedAttachResult
      <3>6. CASE OtherSigstop(p) \/ SignalStop(p)
        BY <3>6, StoppedResult
      <3> QED
        BY <1>2, <3>1, <3>2, <3>3, <3>4, <3>5, <3>6 DEF SupervisorStep
    <2> QED
      BY <2>1, CommitGroup
  <1> QED
    BY <1>1, <1>2

\* The kernel makes a thread of the init for each clone.
LEMMA CloneGroup ==
    ASSUME NoForks, IInv, NEW p \in Pids, ExecuteClone(p), OneGroup(task)
    PROVE  OneGroup(task')
  <1>0. task \in [Pids -> Task] /\ task[p] \in Task /\ task[p].at = "kernel" /\ task[p].op.name = "clone"
    BY KernelTypes, GuestForks DEF ExecuteClone, OneGroup
  <1>1. PICK c \in Pids :
          /\ task[c].at = "unborn"
          /\ task' = [task EXCEPT
                ![p].at = "clonestop", ![p].child = c,
                ![c].at = "born", ![c].label = task[p].op.entry,
                ![c].tgid = IF task[p].op.name = "clone" THEN task[p].tgid ELSE c,
                ![c].ctid = IF task[p].op.name = "rawfork" THEN NoAddr ELSE task[p].op.addr]
    BY DEF ExecuteClone
  <1>2. c # p /\ task[c] \in Task
    BY <1>0, <1>1
  <1>3. /\ \A q \in Pids \ {p, c} : task'[q] = task[q]
        /\ task'[p].tgid = task[p].tgid /\ task'[p].op = task[p].op
        /\ task'[c].tgid = task[p].tgid /\ task'[c].op = task[c].op
    BY <1>0, <1>1, <1>2 DEF Task
  <1> QED
    BY <1>0, <1>1, <1>3 DEF OneGroup

\* A task that moves stays in its group.
LEMMA MoveGroup ==
    ASSUME IInv, NEW p \in Pids, task[p].at # "unborn", NEW at, at # "unborn",
           task' = [task EXCEPT ![p].at = at], OneGroup(task)
    PROVE  OneGroup(task')
  <1>1. task \in [Pids -> Task] /\ task[p] \in Task
    BY KernelTypes
  <1>2. \A q \in Pids : SameGroup(task, task', q)
    BY <1>1 DEF SameGroup, Task
  <1> QED
    BY <1>2, GroupKeep

\* The end of a task leaves the groups alone.
LEMMA FinalGroup ==
    ASSUME IInv, NEW p \in Pids, Final(p), OneGroup(task)
    PROVE  OneGroup(task')
  <1> DEFINE dead == [task EXCEPT ![p].at = "gone"]
             T(W) == [q \in Pids |-> IF q \in W THEN [dead[q] EXCEPT !.at = "return"] ELSE dead[q]]
  <1>0. task \in [Pids -> Task] /\ task[p] \in Task /\ task[p].at = "final"
    BY KernelTypes DEF Final
  <1>1. PICK W, V : /\ task' = Doom(T(W), V, TRUE)
                    /\ \A q \in W : task[q].at = "asleep"
    BY Zenon DEF Final, Sleepers
  <1> DEFINE t == T(W)
  <1>2. ASSUME NEW q \in Pids PROVE t[q] \in Task /\ SameGroup(task, t, q)
    <2>0. task[q] \in Task /\ {"gone", "return"} \subseteq Where
      BY <1>0 DEF Where, Running, Dead
    <2>1. CASE q \in W
      <3>1. t[q] = [task[q] EXCEPT !.at = "return"] /\ task[q].at = "asleep"
        BY <1>0, <1>1, <2>1
      <3> HIDE DEF t
      <3> QED
        BY <2>0, <3>1 DEF Task, SameGroup
    <2>2. CASE q \notin W /\ q = p
      <3>1. t[q] = [task[q] EXCEPT !.at = "gone"]
        BY <1>0, <2>2
      <3> HIDE DEF t
      <3> QED
        BY <1>0, <2>0, <2>2, <3>1 DEF Task, SameGroup
    <2>3. CASE q \notin W /\ q # p
      <3>1. t[q] = task[q]
        BY <1>0, <2>3
      <3> QED
        BY <2>0, <3>1 DEF SameGroup
    <2> QED
      BY <2>1, <2>2, <2>3
  <1>3. t \in [Pids -> Task]
    BY <1>2
  <1>4. OneGroup(t)
    BY <1>2, GroupKeep
  <1> HIDE DEF t
  <1> QED
    BY <1>1, <1>3, <1>4, DoomGroup, GroupKeep DEF t

\* The kernel's steps keep the one thread group.
LEMMA KernelGroup ==
    ASSUME NoForks, IInv, NEW p \in Pids, KernelStep(p) \/ SignalArrives(p), OneGroup(task)
    PROVE  OneGroup(task')
  <1>0. task \in [Pids -> Task] /\ task[p] \in Task
    BY KernelTypes
  <1>d. ASSUME NEW S, NEW b, task' = Doom(task, S, b) PROVE OneGroup(task')
    BY <1>0, <1>d, DoomGroup, GroupKeep
  <1>1. CASE UserStep(p)
    <2>1. PICK c \in Code : task' = [task EXCEPT ![p].at = "entry", ![p].op = c.op, ![p].label = c.to]
      BY <1>1 DEF UserStep
    <2>2. /\ \A q \in Pids \ {p} : task'[q] = task[q]
          /\ task'[p].tgid = task[p].tgid /\ task'[p].op = c.op /\ task[p].at = "user"
      BY <1>0, <1>1, <2>1 DEF Task, UserStep
    <2> QED
      BY <2>2 DEF OneGroup, GuestOps
  <1>2. CASE Attach(p) \/ ExecuteSimple(p) \/ ExecuteExit(p) \/ Return(p) \/ ExitStop(p) \/ WakeUp(p)
    BY <1>2, MoveGroup DEF Attach, ExecuteSimple, ExecuteExit, Return, ExitStop, WakeUp, StopAt
  <1>3. CASE ExecuteWait(p) \/ ExecutePipe(p) \/ ExecuteLock(p)
    BY <1>3, MoveGroup DEF ExecuteWait, ExecutePipe, ExecuteLock, StopAt
  <1>4. CASE ExecuteWake(p)
    <2>1. PICK ops, W :
             /\ W \subseteq Sleepers(task[p].tgid, task[p].op.addr, ops)
             /\ task' = [q \in Pids |->
                           IF q = p THEN [task[q] EXCEPT !.at = "exitcall"]
                           ELSE IF q \in W THEN [task[q] EXCEPT !.at = "return"]
                           ELSE task[q]]
      BY <1>4 DEF ExecuteWake
    <2>2. task[p].at = "kernel" /\ \A q \in W : task[q].at = "asleep"
      BY <1>4, <2>1 DEF ExecuteWake, Sleepers
    <2>3. ASSUME NEW q \in Pids PROVE SameGroup(task, task', q)
      <3>1. task[q] \in Task
        BY <1>0
      <3>2. CASE q = p
        <4>1. task'[q] = [task[q] EXCEPT !.at = "exitcall"]
          BY <2>1, <3>2
        <4> QED
          BY <2>2, <3>1, <3>2, <4>1 DEF SameGroup, Task
      <3>3. CASE q # p /\ q \in W
        <4>1. task'[q] = [task[q] EXCEPT !.at = "return"]
          BY <2>1, <3>3
        <4> QED
          BY <2>2, <3>1, <3>3, <4>1 DEF SameGroup, Task
      <3>4. CASE q # p /\ q \notin W
        BY <2>1, <3>4 DEF SameGroup
      <3> QED
        BY <3>2, <3>3, <3>4
    <2> QED
      BY <2>3, GroupKeep
  <1>5. CASE ExecuteClone(p)
    BY <1>5, CloneGroup
  <1>6. CASE ExecuteExec(p)
    <2>1. task[p].at = "kernel" /\ (StopAt(p, "execstop") \/ \E S : task' = Doom(task, S, FALSE))
      BY <1>6 DEF ExecuteExec
    <2> QED
      BY <1>d, <2>1, MoveGroup DEF StopAt
  <1>7. CASE ExecuteExitGroup(p)
    BY <1>7, <1>d DEF ExecuteExitGroup
  <1>8. CASE Final(p)
    BY <1>8, FinalGroup
  <1>9. CASE SignalArrives(p)
    <2>1. ASSUME NEW sig, task[p].at = "user", task' = [task EXCEPT ![p].at = "signal", ![p].sig = sig]
          PROVE  OneGroup(task')
      <3>1. \A q \in Pids : SameGroup(task, task', q)
        BY <1>0, <2>1 DEF SameGroup, Task
      <3> QED
        BY <3>1, GroupKeep
    <2> QED
      BY <1>9, <1>d, <2>1 DEF SignalArrives
  <1> QED
    BY <1>1, <1>2, <1>3, <1>4, <1>5, <1>6, <1>7, <1>8, <1>9 DEF KernelStep

\* Every step of a guest that never forks keeps its one thread group.
LEMMA NextGroup ==
    ASSUME NoForks
    PROVE  IInv /\ AttachOnly /\ OneGroup(task) /\ [Next]_vars => OneGroup(task)'
  <1> SUFFICES ASSUME IInv, AttachOnly, OneGroup(task), [Next]_vars PROVE OneGroup(task')
    OBVIOUS
  <1>1. CASE Run
    <2>1. Inv(task, reports \ {InitPid}, sv, <<>>) /\ InitPid \in Pids
      BY IInvParts, PopInv, PidsAssumption DEF IInv
    <2> QED
      BY <1>1, <2>1, CommitGroup DEF Run
  <1>2. CASE InitExited
    <2>1. task' = [task EXCEPT ![InitPid].at = "reaped"] /\ task[InitPid].at = "gone"
      BY <1>2 DEF InitExited, Reapable
    <2> QED
      BY <2>1, PidsAssumption, MoveGroup
  <1>3. ASSUME NEW p \in Pids, KernelStep(p) \/ SignalArrives(p) PROVE OneGroup(task')
    BY <1>3, KernelGroup
  <1>4. ASSUME NEW p \in Pids, SupervisorStep(p) PROVE OneGroup(task')
    BY <1>4, SupervisorGroup
  <1>5. CASE UNCHANGED vars
    BY <1>5 DEF vars
  <1>6. CASE Done
    BY <1>5, <1>6 DEF Done
  <1> QED
    BY <1>1, <1>2, <1>3, <1>4, <1>5, <1>6 DEF Next

-----------------------------------------------------------------------------
(* Taking turns, in a guest of threads *)

\* No signal that ends a task is sent.
NoFatalSignals == Signals \subseteq {"handled", "stop"}

\* q waits for its turn: it is in a stop the supervisor has handled, at the entry of
\* a syscall only if its result is already known.
Held(t, r, s, q) ==
    /\ t[q].at \in {"attach", "entry", "exitcall"} /\ q \notin r
    /\ t[q].at = "entry" => q \in s.pending /\ t[q].op.name \in Injected

\* On its way out, and not yet reaped.
Leaving == Ending \ {"reaped"}

\* While c makes exec, the kernel ends the other threads.
ExecKills(t, c) == t[c].at = "kernel" /\ t[c].op.name = "exec"

\* Those that do not run wait for their turn, or are ended by the one that does.
OthersHeld(t, r, s) ==
    \A q \in s.scheduled \ (s.pendingStart \cup {s.current}) :
        Held(t, r, s, q) \/ ((s.groupExiting \/ ExecKills(t, s.current)) /\ t[q].at \in Leaving)

\* The supervisor has noted the clone or exit_group that a thread executes; the child
\* of a clone event has not run yet.
EntryNoted(t, r, s) ==
    \A q \in Pids :
        /\ (t[q].at = "kernel" /\ t[q].op.name = "clone") \/ CloneStopped(t, r, q)
              => s.clonePending[q].thread
        /\ t[q].at = "kernel" /\ t[q].op.name = "exit_group" => s.groupExiting
        /\ CloneStopped(t, r, q) => t[t[q].child].at \in {"born", "attach"}

\* q is the child of a clone event that is still to be handled.
ToBeRegistered(t, r, q) ==
    t[q].at \in {"born", "attach"} /\ \E p \in Pids : CloneStopped(t, r, p) /\ t[p].child = q

\* Every task is a thread the scheduler knows, or is about to.
AllScheduled(t, r, s) ==
    /\ s.threads = s.scheduled /\ InitPid \in s.scheduled
    /\ \A q \in Pids \ s.scheduled : t[q].at \in {"unborn", "reaped"} \/ ToBeRegistered(t, r, q)
    /\ \A q \in s.stoppedPending : t[q].at = "attach" /\ q \notin r

\* No signal is held back, and none is fatal.
NoSignalHeld(t, s) == \A q \in Pids : s.sigPending[q] = NoSig /\ t[q].sig # "fatal"

\* At most one new thread is awaited, and its parent is the one whose turn it is.
Awaiting(t, r, s, stk) ==
    \/ stk = <<>> /\ s.pendingStart = {}
    \/ \E ch \in s.scheduled :
          /\ stk = <<<<s.current, ch>>>> /\ s.pendingStart = {ch}
          /\ t[s.current].at = "clonestop" /\ s.current \notin r
          /\ t[ch].at \in {"born", "attach"}

\* Somebody's turn it is, until exit_group ends them all.
SomebodysTurn(t, s) ==
    /\ s.current \in Pids /\ s.err = "ok"
    /\ s.current \in s.scheduled \/ s.groupExiting
    /\ s.groupExiting =>
         \/ t[s.current].at = "kernel" /\ t[s.current].op.name = "exit_group"
         \/ t[s.current].at \in Ending /\ \A q \in s.scheduled : t[q].at \in Leaving

\* A wait reaches the kernel only if nobody else could be stalled by it, or it will
\* return at once.
WaitsAlone(t, s, m) ==
    \A q \in Pids :
        /\ t[q].at = "kernel" /\ t[q].op.name \in {"wait", "timedwait"} /\ q \notin s.pending
              => s.scheduled = {q} \/ m[t[q].tgid][t[q].op.addr] # t[q].op.val
        /\ t[q].at = "asleep" /\ t[q].op.name \in {"wait", "timedwait"} => s.scheduled = {q}

\* The threads take turns: one runs, and the others wait for theirs.
InTurn(t, r, s, stk, m) ==
    /\ NoSignalHeld(t, s) /\ EntryNoted(t, r, s) /\ AllScheduled(t, r, s)
    /\ Awaiting(t, r, s, stk) /\ OthersHeld(t, r, s) /\ SomebodysTurn(t, s)
    /\ WaitsAlone(t, s, m)

\* While the guest runs its threads take turns; a deadlock leaves none but parked
\* threads, the end of the run none at all; and no ptrace request fails.
ThreadInv ==
    /\ OneGroup(task)
    /\ outcome = "idle" => task = InitialTasks /\ reports = {} /\ sv = NewSupervisor /\ stack = <<>>
    /\ outcome = "running" => InTurn(task, reports, sv, stack, mem)
    /\ outcome = "deadlock" =>
          /\ InitPid \in sv.blocked
          /\ \A q \in Pids : task[q].at \in {"unborn", "reaped"} \/ (task[q].at \in Stops /\ q \in sv.blocked)
    /\ outcome \in {"exited", "signaled"} => \A q \in Pids : task[q].at \in {"unborn", "reaped"}
    /\ outcome # "ptrace"

\* The fields of the supervisor that InTurn speaks of, but for the requests, the
\* turn and the results held.
SameRest(s, s2) ==
    /\ s2.threads = s.threads /\ s2.scheduled = s.scheduled
    /\ s2.pendingStart = s.pendingStart /\ s2.stoppedPending = s.stoppedPending
    /\ s2.sigPending = s.sigPending /\ s2.clonePending = s.clonePending
    /\ s2.groupExiting = s.groupExiting /\ s2.err = s.err

\* c, in a stop, is resumed: nothing but where it is changes.
ResumedTo(t, t2, c) ==
    /\ \A q \in Pids \ {c} : t2[q] = t[q]
    /\ t2[c].at = NextAt(t[c].at) /\ t2[c].sig = NoSig
    /\ t2[c].op = IF t[c].at = "exitcall" THEN NoOp ELSE t[c].op
    /\ t2[c].tgid = t[c].tgid /\ t2[c].child = t[c].child

\* What the supervisor knows of a syscall it lets c enter.
EntryKnown(t, s, m, c) ==
    /\ t[c].op.name = "clone" => s.clonePending[c].thread
    /\ t[c].op.name = "exit_group" => s.groupExiting
    /\ t[c].op.name \in {"wait", "timedwait"} /\ c \notin s.pending
          => s.scheduled = {c} \/ m[t[c].tgid][t[c].op.addr] # t[c].op.val

\* The stops in which the one whose turn it is may be resumed.
ResumableAt == {"attach", "entry", "exitcall", "clonestop", "execstop", "signal"}

\* The one whose turn it is is resumed while the others wait.
LEMMA TurnTaken ==
    ASSUME NEW t, NEW r, NEW s, NEW m, NEW t2, NEW r2, NEW s2, NEW c \in Pids,
           s.scheduled \subseteq Pids, c \in s.scheduled, s.pendingStart = {}, s.err = "ok",
           s.stoppedPending \subseteq Pids \ s.scheduled, c \notin r,
           NoSignalHeld(t, s), AllScheduled(t, r, s),
           \A q \in s.scheduled \ {c} : Held(t, r, s, q),
           t[c].at \in ResumableAt, t[c].at = "entry" => EntryKnown(t, s, m, c),
           s.groupExiting => t[c].at = "entry" /\ t[c].op.name = "exit_group",
           ResumedTo(t, t2, c), r2 \subseteq r,
           SameRest(s, s2), s2.current = c, s2.pending = s.pending
    PROVE  InTurn(t2, r2, s2, <<>>, m)
  <1>0. /\ t2[c].at \in {"user", "kernel", "return"}
        /\ t2[c].at = "kernel" <=> t[c].at = "entry"
        /\ t2[c].at = "kernel" => t2[c].op = t[c].op
    BY DEF ResumedTo, NextAt, ResumableAt
  <1>1. ASSUME NEW q \in Pids, q # c
        PROVE  t2[q] = t[q] /\ t[q].at \notin {"kernel", "asleep"} /\ ~CloneStopped(t, r, q)
    <2>1. t2[q] = t[q]
      BY <1>1 DEF ResumedTo
    <2>2. CASE q \in s.scheduled
      BY <1>1, <2>1, <2>2 DEF Held, CloneStopped
    <2>3. CASE q \notin s.scheduled
      BY <2>1, <2>3 DEF AllScheduled, ToBeRegistered, CloneStopped
    <2> QED
      BY <2>2, <2>3
  <1>2. /\ s2.scheduled = s.scheduled /\ s2.threads = s.threads /\ s2.pendingStart = {}
        /\ s2.sigPending = s.sigPending /\ s2.clonePending = s.clonePending
        /\ s2.stoppedPending = s.stoppedPending /\ s2.groupExiting = s.groupExiting /\ s2.err = "ok"
    BY DEF SameRest
  <1>3. NoSignalHeld(t2, s2)
    BY <1>1, <1>2 DEF NoSignalHeld, ResumedTo, NoSig
  <1>4. EntryNoted(t2, r2, s2)
    BY <1>0, <1>1, <1>2 DEF EntryNoted, EntryKnown, CloneStopped
  <1>5. AllScheduled(t2, r2, s2)
    <2>1. ASSUME NEW q \in Pids \ s.scheduled PROVE t2[q].at \in {"unborn", "reaped"}
      <3>1. q # c /\ (t[q].at \in {"unborn", "reaped"} \/ ToBeRegistered(t, r, q))
        BY DEF AllScheduled
      <3>2. CASE ToBeRegistered(t, r, q)
        <4>1. PICK p \in Pids : CloneStopped(t, r, p) /\ t[p].child = q
          BY <3>2 DEF ToBeRegistered
        <4>2. p = c
          BY <1>1, <4>1
        <4> QED
          BY <4>1, <4>2 DEF CloneStopped
      <3> QED
        BY <1>1, <3>1, <3>2
    <2>2. ASSUME NEW q \in s.stoppedPending PROVE t2[q].at = "attach" /\ q \notin r2
      <3>1. q # c /\ q \in Pids /\ t[q].at = "attach" /\ q \notin r
        BY DEF AllScheduled
      <3> QED
        BY <1>1, <3>1
    <2> QED
      BY <1>2, <2>1, <2>2 DEF AllScheduled
  <1>6. OthersHeld(t2, r2, s2)
    BY <1>1, <1>2 DEF OthersHeld, Held
  <1>7. SomebodysTurn(t2, s2)
    BY <1>0, <1>2 DEF SomebodysTurn
  <1>8. WaitsAlone(t2, s2, m)
    <2> SUFFICES ASSUME NEW q \in Pids
                 PROVE  /\ t2[q].at = "kernel" /\ t2[q].op.name \in {"wait", "timedwait"} /\ q \notin s2.pending
                              => s2.scheduled = {q} \/ m[t2[q].tgid][t2[q].op.addr] # t2[q].op.val
                        /\ t2[q].at = "asleep" /\ t2[q].op.name \in {"wait", "timedwait"} => s2.scheduled = {q}
      BY DEF WaitsAlone
    <2>1. CASE q = c
      BY <1>0, <1>2, <2>1 DEF EntryKnown, ResumedTo
    <2>2. CASE q # c
      BY <1>1, <2>2
    <2> QED
      BY <2>1, <2>2
  <1>9. Awaiting(t2, r2, s2, <<>>)
    BY <1>2 DEF Awaiting
  <1> QED
    BY <1>3, <1>4, <1>5, <1>6, <1>7, <1>8, <1>9 DEF InTurn

\* One request to a stopped task, with a signal that does not kill.
LEMMA OneRequest ==
    ASSUME NEW t \in [Pids -> Task], NEW s, NEW c \in Pids, NEW sig, sig # "fatal",
           s.resumed = {<<c, sig>>}, t[c].at \in Stops
    PROVE  ~PtraceFails(t, s) /\ ResumedTo(t, Resumed(t, s), c)
  <1> DEFINE moved == [q \in Pids |->
                         IF \E x \in s.resumed : x[1] = q
                         THEN [t[q] EXCEPT !.at = NextAt(@), !.sig = NoSig,
                                           !.op = IF t[q].at = "exitcall" THEN NoOp ELSE @]
                         ELSE t[q]]
             killed == {q \in Pids : \E x \in s.resumed : x[2] = "fatal" /\ t[q].tgid = t[x[1]].tgid
                                                          /\ t[q].at # "unborn"}
             op2 == IF t[c].at = "exitcall" THEN NoOp ELSE t[c].op
  <1>1. <<c, sig>>[1] = c /\ <<c, sig>>[2] = sig
    OBVIOUS
  <1>2. ~PtraceFails(t, s)
    BY <1>1 DEF PtraceFails
  <1>3. killed = {}
    BY <1>1
  <1>4. Resumed(t, s) = Doom(moved, killed, TRUE)
    BY DEF Resumed
  <1>5. \A q \in Pids : (\E x \in s.resumed : x[1] = q) <=> q = c
    BY <1>1
  <1>6. /\ \A q \in Pids \ {c} : moved[q] = t[q]
        /\ moved[c] = [t[c] EXCEPT !.at = NextAt(t[c].at), !.sig = NoSig, !.op = op2]
    BY <1>5
  <1> HIDE DEF killed, moved
  <1>7. \A q \in Pids : Resumed(t, s)[q] = moved[q]
    BY <1>3, <1>4 DEF Doom, Doomed
  <1>8. t[c] \in Task
    OBVIOUS
  <1> HIDE DEF op2
  <1>9. /\ moved[c].at = NextAt(t[c].at) /\ moved[c].sig = NoSig /\ moved[c].op = op2
        /\ moved[c].tgid = t[c].tgid /\ moved[c].child = t[c].child
    BY <1>6, <1>8 DEF Task
  <1> QED
    BY <1>2, <1>6, <1>7, <1>9 DEF ResumedTo, op2

\* No request.
LEMMA NoRequest ==
    ASSUME NEW t \in [Pids -> Task], NEW s, s.resumed = {}
    PROVE  ~PtraceFails(t, s) /\ Resumed(t, s) = t
  <1> DEFINE moved == [q \in Pids |->
                         IF \E x \in s.resumed : x[1] = q
                         THEN [t[q] EXCEPT !.at = NextAt(@), !.sig = NoSig,
                                           !.op = IF t[q].at = "exitcall" THEN NoOp ELSE @]
                         ELSE t[q]]
             killed == {q \in Pids : \E x \in s.resumed : x[2] = "fatal" /\ t[q].tgid = t[x[1]].tgid
                                                          /\ t[q].at # "unborn"}
  <1>1. ~PtraceFails(t, s)
    BY DEF PtraceFails
  <1>2. killed = {} /\ moved = t
    OBVIOUS
  <1>3. Resumed(t, s) = Doom(moved, killed, TRUE)
    BY DEF Resumed
  <1> HIDE DEF moved, killed
  <1>4. Doom(t, {}, TRUE) = t
    BY DEF Doom, Doomed
  <1> QED
    BY <1>1, <1>2, <1>3, <1>4

\* The step handles a status of p with result s1, which resumes c, or nobody.
ResumesOne(p, t, s1, stk, c) ==
    /\ ResumedTo(t, task', c)
    /\ reports' \subseteq reports \ {p, c}
    /\ \A q \in reports \ {p, c} : task'[q].at # "dying" => q \in reports'
    /\ sv' = [s1 EXCEPT !.resumed = {}] /\ stack' = stk /\ mem' = mem
    /\ s1.err = "deadlock" => outcome' = "deadlock"
    /\ s1.err # "deadlock" => outcome' = "running"

\* A handled status resumes nobody.
ResumesNobody(p, t, s1, stk) ==
    /\ task' = t /\ reports' = {q \in reports \ {p} : t[q].at # "dying"}
    /\ sv' = [s1 EXCEPT !.resumed = {}] /\ stack' = stk /\ mem' = mem
    /\ s1.err = "deadlock" => outcome' = "deadlock"
    /\ s1.err # "deadlock" => outcome' = "running"

\* What a handled status that asks for one resumption leaves.
LEMMA CommitOne ==
    ASSUME NEW p, NEW t \in [Pids -> Task], NEW s, NEW stk, Commit(p, t, s, stk),
           NEW s1, s1 = LoopTail(s, stk), NEW c \in Pids, NEW sig, sig # "fatal",
           s1.resumed = {<<c, sig>>}, t[c].at \in Stops
    PROVE  ResumesOne(p, t, s1, stk, c)
  <1>1. ~PtraceFails(t, s1) /\ ResumedTo(t, Resumed(t, s1), c)
    BY OneRequest
  <1>2. /\ task' = IF PtraceFails(t, s1) THEN t ELSE Resumed(t, s1)
        /\ reports' = {q \in reports \ {p} : (\A x \in s1.resumed : x[1] # q) /\ task'[q].at # "dying"}
        /\ sv' = [s1 EXCEPT !.resumed = {}] /\ stack' = stk /\ mem' = mem
        /\ outcome' = IF PtraceFails(t, s1) THEN "ptrace"
                      ELSE IF s1.err = "deadlock" THEN "deadlock" ELSE "running"
    BY DEF Commit
  <1>3. \A q : (\A x \in s1.resumed : x[1] # q) <=> q # c
    <2>1. <<c, sig>>[1] = c
      OBVIOUS
    <2> QED
      BY <2>1
  <1>4. /\ reports' \subseteq reports \ {p, c}
        /\ \A q \in reports \ {p, c} : task'[q].at # "dying" => q \in reports'
    BY <1>2, <1>3
  <1> QED
    BY <1>1, <1>2, <1>4 DEF ResumesOne

\* What a handled status that asks for none leaves.
LEMMA CommitNone ==
    ASSUME NEW p, NEW t \in [Pids -> Task], NEW s, NEW stk, Commit(p, t, s, stk),
           NEW s1, s1 = LoopTail(s, stk), s1.resumed = {}
    PROVE  ResumesNobody(p, t, s1, stk)
  <1>1. ~PtraceFails(t, s1) /\ Resumed(t, s1) = t
    BY NoRequest
  <1>2. /\ task' = IF PtraceFails(t, s1) THEN t ELSE Resumed(t, s1)
        /\ reports' = {q \in reports \ {p} : (\A x \in s1.resumed : x[1] # q) /\ task'[q].at # "dying"}
        /\ sv' = [s1 EXCEPT !.resumed = {}] /\ stack' = stk /\ mem' = mem
        /\ outcome' = IF PtraceFails(t, s1) THEN "ptrace"
                      ELSE IF s1.err = "deadlock" THEN "deadlock" ELSE "running"
    BY DEF Commit
  <1>3. task' = t
    BY <1>1, <1>2
  <1> QED
    BY <1>1, <1>2, <1>3 DEF ResumesNobody

\* s1 is s after the turn was given to c; or there is nobody to give it to.
GivesTurn(s, s1, c) ==
    /\ SameRest(s, s1) /\ s1.pending = s.pending
    /\ s1.current = c /\ s1.resumed = {<<c, NoSig>>}

\* Every scheduled thread is parked, and schedule_next reports a deadlock.
NobodyReady(s, s1) ==
    /\ s.scheduled \subseteq s.blocked /\ s1.blocked = s.blocked
    /\ s1.current = NoPid /\ s1.resumed = {} /\ s1.err = "deadlock"

\* schedule_next, when every task is scheduled and none awaited.
LEMMA ScheduleGives ==
    ASSUME NEW s \in SupervisorType, Bookkeeping(s), s.current = NoPid, s.resumed = {},
           \A q \in Pids : s.sigPending[q] = NoSig, s.threads = s.scheduled, s.pendingStart = {}
    PROVE  \/ \E c \in s.scheduled \ s.blocked : GivesTurn(s, ScheduleNext(s), c)
           \/ NobodyReady(s, ScheduleNext(s))
  <1>0. /\ s.runnable \in Seq(Pids) /\ Range(s.runnable) \subseteq s.scheduled \ s.blocked
        /\ s.sigPending \in [Pids -> Signal \cup {NoSig}] /\ s.scheduled \subseteq Pids
    BY DEF SupervisorType, Bookkeeping, RunQueueOK
  <1>1. CASE s.runnable = <<>>
    <2>1. ReadyAt(s) = {} /\ ~StopExpected(s)
      BY <1>1, AllReady DEF StopExpected
    <2>2. ScheduleNext(s) = [s EXCEPT !.runnable = <<>>, !.err = "deadlock"]
      BY <2>1 DEF ScheduleNext, SupervisorType
    <2>3. s.scheduled \subseteq s.blocked
      <3>1. Range(s.runnable) = {}
        BY <1>1 DEF Range
      <3> QED
        BY <1>0, <3>1, PidsAssumption DEF Bookkeeping, NotLost
    <2> QED
      BY <2>2, <2>3 DEF NobodyReady, SupervisorType
  <1>2. CASE s.runnable # <<>>
    <2>1. Min(ReadyAt(s)) = 1 /\ ReadyAt(s) # {}
      <3>1. Min(ReadyAt(s)) = 1 /\ Len(s.runnable) >= 1 /\ ReadyAt(s) = DOMAIN s.runnable
        BY <1>2, AllReady
      <3>2. 1 \in DOMAIN s.runnable
        BY <1>0, <3>1
      <3> QED
        BY <3>1, <3>2
    <2>2. ScheduleNext(s) = SwitchTo(s, 1)
      BY <2>1 DEF ScheduleNext
    <2> DEFINE c == s.runnable[1]
               s1 == IF s.lastVtid # s.vtid[c] THEN TraceJson(s, "schedule", s.lastVtid, s.vtid[c]) ELSE s
               s2 == [s1 EXCEPT !.runnable = SubSeq(@, 1 + 1, Len(@)), !.lastVtid = s.vtid[c], !.current = c]
    <2>3. SwitchTo(s, 1) = ResumeThread(s2, c)
      BY DEF SwitchTo
    <2>4. c \in s.scheduled \ s.blocked /\ c \in Pids
      <3>1. c \in Range(s.runnable)
        BY <1>0, <1>2 DEF Range
      <3> QED
        BY <1>0, <3>1
    <2>5. SameRest(s, s1) /\ s1.pending = s.pending /\ s1.resumed = {} /\ DOMAIN s1 = DOMAIN s
      BY DEF TraceJson, SameRest
    <2>6. "current" \in DOMAIN s
      BY DEF SupervisorType
    <2> HIDE DEF c, s1
    <2>7. SameRest(s, s2) /\ s2.pending = s.pending /\ s2.resumed = {} /\ s2.current = c
          /\ DOMAIN s2 = DOMAIN s
      BY <2>5, <2>6 DEF SameRest
    <2>8. "resumed" \in DOMAIN s /\ "sigPending" \in DOMAIN s
      BY DEF SupervisorType
    <2> HIDE DEF s2
    <2> DEFINE s3 == ResumeThread(s2, c)
    <2>9. /\ s3.threads = s2.threads /\ s3.scheduled = s2.scheduled
          /\ s3.pendingStart = s2.pendingStart /\ s3.stoppedPending = s2.stoppedPending
          /\ s3.clonePending = s2.clonePending /\ s3.groupExiting = s2.groupExiting /\ s3.err = s2.err
          /\ s3.pending = s2.pending /\ s3.current = s2.current
          /\ s3.resumed = s2.resumed \cup {<<c, s2.sigPending[c]>>}
          /\ s3.sigPending = [s2.sigPending EXCEPT ![c] = NoSig]
      BY <2>7, <2>8 DEF ResumeThread
    <2> HIDE DEF s3
    <2>10. s2.sigPending = s.sigPending /\ s.sigPending[c] = NoSig
      BY <2>4, <2>7 DEF SameRest
    <2>11. [s.sigPending EXCEPT ![c] = NoSig] = s.sigPending
      BY <1>0, <2>4, <2>10
    <2>12. GivesTurn(s, s3, c)
      BY <2>7, <2>9, <2>10, <2>11 DEF GivesTurn, SameRest
    <2> QED
      BY <2>2, <2>3, <2>4, <2>12 DEF s3
  <1> QED
    BY <1>1, <1>2

\* Nobody is in an unhandled clone event, so every task the scheduler does not know
\* is not there yet or is gone.
LEMMA AllKnown ==
    ASSUME NEW t, NEW r, NEW s, AllScheduled(t, r, s), \A p \in s.scheduled : ~CloneStopped(t, r, p)
    PROVE  \A q \in Pids \ s.scheduled : t[q].at \in {"unborn", "reaped"}
  BY DEF AllScheduled, ToBeRegistered, CloneStopped

\* schedule_next gives the turn to a thread that waits for it, or all are parked.
LEMMA NextTurn ==
    ASSUME NEW p \in Pids, NEW t \in [Pids -> Task], NEW s \in SupervisorType, Bookkeeping(s),
           NEW u, Commit(p, t, u, <<>>), u = s \/ u = ScheduleNext(s),
           s.current = NoPid, s.resumed = {}, s.err = "ok", s.pendingStart = {}, ~s.groupExiting,
           NoSignalHeld(t, s), AllScheduled(t, reports \ {p}, s),
           \A q \in s.scheduled : Held(t, reports \ {p}, s, q), OneGroup(task')
    PROVE  ThreadInv'
  <1> DEFINE n == ScheduleNext(s)
             r == reports \ {p}
  <1>0. /\ s.scheduled \subseteq Pids /\ s.stoppedPending \subseteq Pids \ s.scheduled
        /\ \A q \in Pids : s.sigPending[q] = NoSig
        /\ s.threads = s.scheduled
    BY DEF SupervisorType, Bookkeeping, NoSignalHeld, AllScheduled
  <1>1. \/ \E c \in s.scheduled \ s.blocked : GivesTurn(s, n, c)
        \/ NobodyReady(s, n)
    BY <1>0, ScheduleGives
  <1>2. n.current # NoPid \/ n.err # "ok"
    BY <1>0, <1>1, PidsAssumption DEF GivesTurn, NobodyReady
  <1>3. LoopTail(u, <<>>) = n
    BY <1>2 DEF LoopTail
  <1> HIDE DEF n
  <1>4. ASSUME NEW c \in s.scheduled \ s.blocked, GivesTurn(s, n, c)
        PROVE  ThreadInv'
    <2>1. n.resumed = {<<c, NoSig>>} /\ NoSig # "fatal" /\ c \in Pids /\ Held(t, r, s, c)
      BY <1>0, <1>4 DEF GivesTurn, NoSig
    <2>2. t[c].at \in Stops /\ t[c].at \in ResumableAt /\ c \notin r
      BY <2>1 DEF Held, Stops, ResumableAt
    <2>3. /\ ResumedTo(t, task', c) /\ reports' \subseteq r
          /\ sv' = [n EXCEPT !.resumed = {}] /\ stack' = <<>> /\ mem' = mem
          /\ n.err # "deadlock" => outcome' = "running"
      <3>1. ResumesOne(p, t, n, <<>>, c)
        BY <1>3, <2>1, <2>2, CommitOne
      <3> QED
        BY <3>1 DEF ResumesOne
    <2>4. SameRest(s, sv') /\ sv'.current = c /\ sv'.pending = s.pending /\ outcome' = "running"
      BY <1>4, <2>3 DEF GivesTurn, SameRest
    <2>5. t[c].at = "entry" => EntryKnown(t, s, mem, c)
      BY <2>1 DEF Held, EntryKnown, Injected, FutexOps, PassedOps
    <2>6. \A q \in s.scheduled \ {c} : Held(t, r, s, q)
      OBVIOUS
    <2> HIDE DEF r
    <2>7. AllScheduled(t, r, s)
      BY DEF r
    <2>8. InTurn(task', reports', sv', <<>>, mem)
      BY <1>0, <2>1, <2>2, <2>3, <2>4, <2>5, <2>6, <2>7, TurnTaken
    <2> QED
      BY <2>3, <2>4, <2>8 DEF ThreadInv
  <1>5. CASE NobodyReady(s, n)
    <2>1. n.resumed = {} /\ n.err = "deadlock" /\ n.blocked = s.blocked /\ s.scheduled \subseteq s.blocked
      BY <1>5 DEF NobodyReady
    <2>2. task' = t /\ sv' = [n EXCEPT !.resumed = {}] /\ outcome' = "deadlock"
      <3>1. ResumesNobody(p, t, n, <<>>)
        BY <1>3, <2>1, CommitNone
      <3> QED
        BY <2>1, <3>1 DEF ResumesNobody
    <2>3. \A q \in s.scheduled : ~CloneStopped(t, r, q) /\ t[q].at \in Stops
      BY DEF Held, CloneStopped, Stops
    <2>4. \A q \in Pids \ s.scheduled : t[q].at \in {"unborn", "reaped"}
      BY <2>3, AllKnown
    <2>5. sv'.blocked = s.blocked /\ InitPid \in s.blocked
      BY <2>1, <2>2 DEF AllScheduled
    <2>6. \A q \in Pids : task'[q].at \in {"unborn", "reaped"} \/ (task'[q].at \in Stops /\ q \in sv'.blocked)
      BY <2>1, <2>2, <2>3, <2>4, <2>5
    <2> QED
      BY <2>2, <2>5, <2>6 DEF ThreadInv
  <1> QED
    BY <1>1, <1>4, <1>5

\* The one whose turn it is goes on.
LEMMA SameTurnTaken ==
    ASSUME NEW p \in Pids, NEW s \in SupervisorType, Bookkeeping(s), task \in [Pids -> Task],
           NEW c \in s.scheduled, NEW sig, sig # "fatal",
           Commit(p, task, s, <<>>), s.current = c, s.resumed = {<<c, sig>>}, s.err = "ok",
           s.pendingStart = {}, c \notin reports \ {p},
           NoSignalHeld(task, s), AllScheduled(task, reports \ {p}, s),
           \A q \in s.scheduled \ {c} : Held(task, reports \ {p}, s, q),
           task[c].at \in ResumableAt, task[c].at = "entry" => EntryKnown(task, s, mem, c),
           s.groupExiting => task[c].at = "entry" /\ task[c].op.name = "exit_group",
           OneGroup(task')
    PROVE  ThreadInv'
  <1> DEFINE r == reports \ {p}
  <1>0. s.scheduled \subseteq Pids /\ s.stoppedPending \subseteq Pids \ s.scheduled /\ c \in Pids
    BY DEF SupervisorType, Bookkeeping, AllScheduled
  <1>1. LoopTail(s, <<>>) = s
    BY <1>0, PidsAssumption DEF LoopTail
  <1>2. task[c].at \in Stops
    BY DEF Stops, ResumableAt
  <1>3. /\ ResumedTo(task, task', c) /\ reports' \subseteq r
        /\ sv' = [s EXCEPT !.resumed = {}] /\ stack' = <<>> /\ mem' = mem
        /\ outcome' = "running"
    <2>1. ResumesOne(p, task, s, <<>>, c)
      BY <1>0, <1>1, <1>2, CommitOne
    <2> QED
      BY <2>1 DEF ResumesOne
  <1>4. SameRest(s, sv') /\ sv'.current = c /\ sv'.pending = s.pending
    BY <1>3 DEF SameRest
  <1> HIDE DEF r
  <1>5. AllScheduled(task, r, s) /\ c \notin r /\ \A q \in s.scheduled \ {c} : Held(task, r, s, q)
    BY DEF r
  <1>6. InTurn(task', reports', sv', <<>>, mem)
    BY <1>0, <1>3, <1>4, <1>5, TurnTaken
  <1> QED
    BY <1>3, <1>6 DEF ThreadInv

-----------------------------------------------------------------------------
(* ThreadInv: the supervisor's steps *)

\* The one that reports a stop of its own has the turn; the others wait.
LEMMA ReporterTurn ==
    ASSUME IInv, ThreadInv, outcome = "running", NEW p \in reports, p \in Pids, task[p].at \in ReportedAt
    PROVE  /\ sv.current = p /\ p \in sv.scheduled /\ p \notin reports \ {p}
           /\ stack = <<>> /\ sv.pendingStart = {} /\ ~sv.groupExiting /\ sv.err = "ok"
           /\ NoSignalHeld(task, sv) /\ EntryNoted(task, reports, sv)
           /\ AllScheduled(task, reports, sv)
           /\ task[p].at # "clonestop" => AllScheduled(task, reports \ {p}, sv)
           /\ \A q \in sv.scheduled \ {p} : Held(task, reports \ {p}, sv, q)
  <1>0. InTurn(task, reports, sv, stack, mem)
    BY DEF ThreadInv
  <1>1. sv.threads = sv.scheduled /\ sv.scheduled \subseteq Pids
    BY <1>0 DEF InTurn, AllScheduled, IInv, TypeOK, SupervisorType
  <1>2. p \in sv.scheduled /\ sv.current = p
    BY <1>1, ReporterCurrent
  <1>3. ~sv.groupExiting /\ sv.err = "ok"
    BY <1>0, <1>2 DEF InTurn, SomebodysTurn, ReportedAt, Ending
  <1>4. stack = <<>> /\ sv.pendingStart = {}
    BY <1>0, <1>2 DEF InTurn, Awaiting
  <1>5. \A q \in sv.scheduled \ {p} : Held(task, reports \ {p}, sv, q)
    BY <1>0, <1>2, <1>3, <1>4 DEF InTurn, OthersHeld, ExecKills, ReportedAt, Held
  <1>6. task[p].at # "clonestop" => AllScheduled(task, reports \ {p}, sv)
    BY <1>0 DEF InTurn, AllScheduled, ToBeRegistered, CloneStopped
  <1> QED
    BY <1>0, <1>2, <1>3, <1>4, <1>5, <1>6 DEF InTurn

\* What on_syscall_entry leaves alone, and what it notes of the syscall.
EntryFields(s, p, op, word, e) ==
    /\ e.threads = s.threads /\ e.scheduled = s.scheduled
    /\ e.pendingStart = s.pendingStart /\ e.stoppedPending = s.stoppedPending
    /\ e.sigPending = s.sigPending /\ e.err = s.err
    /\ e.current = s.current /\ e.resumed = s.resumed
    /\ s.pending \subseteq e.pending
    /\ Parks(s, p, op, word) => p \in e.pending
    /\ op.name = "clone" => e.clonePending[p].thread
    /\ op.name = "exit_group" => e.groupExiting
    /\ op.name # "exit_group" => e.groupExiting = s.groupExiting
    /\ op.name \notin {"clone", "fork"} => e.clonePending = s.clonePending

\* on_syscall_entry changes no more than EntryFields says.
LEMMA EntryFrame ==
    ASSUME NEW s \in SupervisorType, NEW p \in Pids, NEW op \in Op, NEW word
    PROVE  EntryFields(s, p, op, word, OnSyscallEntry(s, p, op, word))
  <1> DEFINE Same(u) == /\ u.threads = s.threads /\ u.scheduled = s.scheduled
                        /\ u.pendingStart = s.pendingStart /\ u.stoppedPending = s.stoppedPending
                        /\ u.sigPending = s.sigPending /\ u.err = s.err
                        /\ u.current = s.current /\ u.resumed = s.resumed
                        /\ s.pending \subseteq u.pending /\ DOMAIN u = DOMAIN s
             Kept(u) == Same(u) /\ u.groupExiting = s.groupExiting /\ u.clonePending = s.clonePending
             e == OnSyscallEntry(s, p, op, word)
  <1>0. "groupExiting" \in DOMAIN s /\ "pending" \in DOMAIN s /\ "clonePending" \in DOMAIN s
        /\ s.clonePending \in [Pids -> CloneInfo]
    BY DEF SupervisorType
  <1>1. ASSUME NEW u, NEW x, NEW a, NEW b, Kept(u) PROVE Kept(TraceJson(u, x, a, b))
    BY <1>1 DEF TraceJson
  <1>2. ASSUME NEW u, NEW a, NEW n, Kept(u) PROVE Kept(Wake(u, a, n))
    BY <1>2 DEF Wake
  <1>3. ASSUME NEW u, Kept(u) PROVE Kept(SkipSyscall(u, p)) /\ p \in SkipSyscall(u, p).pending
    BY <1>0, <1>3 DEF SkipSyscall
  <1>4. Kept(s)
    OBVIOUS
  <1>5. /\ Kept([s EXCEPT !.rng = @ + 1])
        /\ \A m : Kept([s EXCEPT !.tick = IF m THEN @ + 1 ELSE @])
    OBVIOUS
  <1>6. ASSUME NEW u, NEW a, Kept(u) PROVE Kept(Block(u, p, a)) /\ Block(u, p, a).pending = u.pending
    BY <1>6 DEF Block
  <1>t. \A u, x, a, b : /\ TraceJson(u, x, a, b).pending = u.pending
                        /\ TraceJson(u, x, a, b).clonePending = u.clonePending
                        /\ TraceJson(u, x, a, b).groupExiting = u.groupExiting
                        /\ Same(u) => Same(TraceJson(u, x, a, b))
    BY DEF TraceJson
  <1>7. CASE op.name \in {"getrandom", "clock_mono", "clock_real", "gettimeofday"}
    <2>2. \/ e = InterceptGetrandom(s, p) \/ e = InterceptGettimeofday(s, p)
          \/ e = InterceptClockGettime(s, p, TRUE) \/ e = InterceptClockGettime(s, p, FALSE)
      BY <1>7 DEF OnSyscallEntry, FutexOps, PassedOps
    <2> HIDE DEF Kept
    <2>3. Kept(InterceptGetrandom(s, p)) /\ Kept(InterceptGettimeofday(s, p))
      BY <1>1, <1>3, <1>4, <1>5 DEF InterceptGetrandom, InterceptGettimeofday
    <2>4. Kept(InterceptClockGettime(s, p, TRUE)) /\ Kept(InterceptClockGettime(s, p, FALSE))
      BY <1>1, <1>3, <1>5 DEF InterceptClockGettime
    <2>5. ~Parks(s, p, op, word)
      BY <1>7 DEF Parks
    <2> HIDE DEF e
    <2>6. Kept(e)
      BY <2>2, <2>3, <2>4, Zenon
    <2>7. EntryFields(s, p, op, word, e)
      BY <1>7, <2>5, <2>6 DEF EntryFields, Kept
    <2> QED
      BY <2>7 DEF e
  <1>8. CASE op.name \in FutexOps
    <2>1. e = InterceptFutex(s, p, op, word)
      BY <1>8 DEF OnSyscallEntry, FutexOps, PassedOps
    <2> HIDE DEF Kept
    <2>2. Kept(FutexWake(s, p, op))
      <3> DEFINE s1 == Wake(s, op.addr, op.n)
                 s2 == IF op.name = "wake" THEN s1 ELSE Wake(s1, op.addr, op.n2)
      <3>1. Kept(s2)
        BY <1>2, <1>4
      <3> HIDE DEF s2
      <3>2. Kept(TraceFutex(SkipSyscall(s2, p), p, op.name, Woke))
        BY <3>1, <1>1, <1>3 DEF TraceFutex
      <3> QED
        BY <3>2 DEF FutexWake, s2
    <2>3. /\ Kept(TraceFutex(Block(SkipSyscall(s, p), p, op.addr), p, op.name, Wait))
          /\ p \in TraceFutex(Block(SkipSyscall(s, p), p, op.addr), p, op.name, Wait).pending
      <3>1. Kept(SkipSyscall(s, p)) /\ p \in SkipSyscall(s, p).pending
        BY <1>3, <1>4
      <3>2. Kept(Block(SkipSyscall(s, p), p, op.addr)) /\ p \in Block(SkipSyscall(s, p), p, op.addr).pending
        BY <3>1, <1>6
      <3> QED
        BY <3>2, <1>1, <1>t DEF TraceFutex
    <2>4. Kept(TraceFutex(s, p, op.name, Pass))
      BY <1>1, <1>4 DEF TraceFutex
    <2>5. Kept(e) /\ (Parks(s, p, op, word) => p \in e.pending)
      BY <2>1, <2>2, <2>3, <2>4 DEF InterceptFutex
    <2> HIDE DEF e
    <2>6. EntryFields(s, p, op, word, e)
      BY <1>8, <2>5 DEF EntryFields, Kept, FutexOps, PassedOps
    <2> QED
      BY <2>6 DEF e
  <1>9. CASE op.name \notin FutexOps \cup {"getrandom", "clock_mono", "clock_real", "gettimeofday"}
    <2>0. ~Parks(s, p, op, word)
      BY <1>9 DEF Parks, FutexOps, PassedOps
    <2>1. CASE op.name = "exit_group"
      <3>1. e = TraceSyscall([s EXCEPT !.groupExiting = TRUE], op.name, Pass)
        BY <1>9, <2>1 DEF OnSyscallEntry
      <3> DEFINE u == [s EXCEPT !.groupExiting = TRUE]
      <3>2. Same(u) /\ u.groupExiting /\ u.clonePending = s.clonePending
        BY <1>0
      <3> HIDE DEF u
      <3>3. Same(e) /\ e.groupExiting /\ e.clonePending = s.clonePending
        <4>1. e = TraceJson(u, op.name, Pass, 0)
          BY <3>1 DEF TraceSyscall, u
        <4> HIDE DEF e, Same
        <4> QED
          BY <3>2, <4>1, <1>t
      <3> HIDE DEF e
      <3>4. EntryFields(s, p, op, word, e)
        BY <2>0, <2>1, <3>3 DEF EntryFields
      <3> QED
        BY <3>4 DEF e
    <2>2. CASE op.name \in {"clone", "fork"}
      <3>1. e = TraceSyscall(StashClone(s, p, op), op.name, Pass)
        BY <1>9, <2>2 DEF OnSyscallEntry
      <3> DEFINE u == StashClone(s, p, op)
      <3>2. Same(u) /\ u.groupExiting = s.groupExiting /\ (op.name = "clone" => u.clonePending[p].thread)
        <4>1. Same(u) /\ u.groupExiting = s.groupExiting
          BY DEF StashClone
        <4>2. u.clonePending[p] = [thread |-> op.name = "clone", childTid |-> op.addr]
          BY <1>0 DEF StashClone
        <4>3. [thread |-> op.name = "clone", childTid |-> op.addr].thread = (op.name = "clone")
          OBVIOUS
        <4>4. op.name = "clone" => u.clonePending[p].thread
          BY <4>2, <4>3, Zenon
        <4> QED
          BY <4>1, <4>4
      <3> HIDE DEF u
      <3>3. Same(e) /\ e.groupExiting = s.groupExiting /\ (op.name = "clone" => e.clonePending[p].thread)
        BY <3>1, <3>2, <1>t DEF TraceSyscall, u
      <3> HIDE DEF e
      <3>4. EntryFields(s, p, op, word, e)
        BY <2>0, <2>2, <3>3 DEF EntryFields
      <3> QED
        BY <3>4 DEF e
    <2>3. CASE op.name \notin {"exit_group", "clone", "fork"}
      <3>1. e = TraceSyscall(s, op.name, Pass)
        BY <1>9, <2>3 DEF OnSyscallEntry
      <3>3. Same(e) /\ e.groupExiting = s.groupExiting /\ e.clonePending = s.clonePending
        BY <3>1, <1>4, <1>t DEF TraceSyscall
      <3> HIDE DEF e
      <3>4. EntryFields(s, p, op, word, e)
        BY <2>0, <2>3, <3>3 DEF EntryFields
      <3> QED
        BY <3>4 DEF e
    <2> QED
      BY <2>1, <2>2, <2>3
  <1> QED
    BY <1>7, <1>8, <1>9

\* One more request, and nothing else.
ResumesThread(s, s2, p, sig) ==
    /\ SameRest(s, s2) /\ s2.pending = s.pending /\ s2.current = s.current
    /\ s2.resumed = s.resumed \cup {<<p, sig>>}
    /\ s2 \in SupervisorType /\ (Bookkeeping(s) => Bookkeeping(s2))

\* A request with a signal.
LEMMA DeliverFields ==
    ASSUME NEW s \in SupervisorType, NEW p \in Pids, NEW sig \in Signal \cup {NoSig}
    PROVE  ResumesThread(s, Deliver(s, p, sig), p, sig)
  <1> DEFINE s2 == Deliver(s, p, sig)
  <1>1. s.resumed \subseteq Pids \X (Signal \cup {NoSig})
    BY DEF SupervisorType
  <1>3. s2 = [s EXCEPT !.resumed = s.resumed \cup {<<p, sig>>}]
    BY DEF Deliver
  <1> HIDE DEF s2
  <1>4. /\ s2 \in SupervisorType /\ SameRest(s, s2) /\ s2.pending = s.pending /\ s2.current = s.current
        /\ s2.resumed = s.resumed \cup {<<p, sig>>}
    <2>1. <<p, sig>> \in Pids \X (Signal \cup {NoSig})
      OBVIOUS
    <2>2. s.resumed \cup {<<p, sig>>} \in SUBSET (Pids \X (Signal \cup {NoSig}))
      BY <1>1, <2>1
    <2>3. s2 \in SupervisorType /\ s2.resumed = s.resumed \cup {<<p, sig>>}
      BY <1>3, <2>2 DEF SupervisorType
    <2>4. SameRest(s, s2) /\ s2.pending = s.pending /\ s2.current = s.current
      BY <1>3 DEF SameRest
    <2> QED
      BY <2>3, <2>4
  <1>5. Bookkeeping(s) => Bookkeeping(s2)
    <2>1. /\ s2.threads = s.threads /\ s2.scheduled = s.scheduled
          /\ s2.vtid = s.vtid /\ s2.vtidNext = s.vtidNext
          /\ s2.runnable = s.runnable /\ s2.blocked = s.blocked /\ s2.waiting = s.waiting
          /\ s2.pendingStart = s.pendingStart /\ s2.stoppedPending = s.stoppedPending
          /\ s2.current = s.current
      BY <1>3
    <2> QED
      BY <2>1 DEF Bookkeeping, RunQueueOK, ParkedOK, NotLost, VtidsOK
  <1> QED
    BY <1>4, <1>5 DEF ResumesThread, s2

\* resume_thread, for a thread that no signal is held for.
LEMMA ResumeFields ==
    ASSUME NEW s \in SupervisorType, NEW p \in Pids, s.sigPending[p] = NoSig
    PROVE  ResumesThread(s, ResumeThread(s, p), p, NoSig)
  <1>1. [s.sigPending EXCEPT ![p] = NoSig] = s.sigPending
    BY DEF SupervisorType
  <1>2. ResumeThread(s, p) = Deliver(s, p, NoSig)
    BY <1>1 DEF ResumeThread, Deliver, SupervisorType
  <1> QED
    BY <1>2, DeliverFields

\* A syscall entry: the thread goes on in its syscall, or parks and another has its turn.
LEMMA EntryTurn ==
    ASSUME IInv, ThreadInv, NEW p \in Pids, SyscallEntry(p), OneGroup(task')
    PROVE  ThreadInv'
  <1> DEFINE op == task[p].op
             word == EntryWord(p)
             e == OnSyscallEntry(sv, p, op, word)
             r == reports \ {p}
  <1>0. /\ op \in Op /\ Inv(task, r, sv, stack) /\ sv.resumed = {} /\ task \in [Pids -> Task]
        /\ sv \in SupervisorType
    BY IInvParts, TaskFields DEF IInv, TypeOK
  <1>1. /\ outcome = "running" /\ p \in reports /\ task[p].at = "entry"
        /\ Commit(p, task, IF Parks(sv, p, op, word) THEN [e EXCEPT !.current = NoPid]
                                                      ELSE ResumeStopped(e, p), stack)
    BY DEF SyscallEntry, Reported
  <1>2. /\ sv.current = p /\ p \in sv.scheduled /\ p \notin r
        /\ stack = <<>> /\ sv.pendingStart = {} /\ ~sv.groupExiting /\ sv.err = "ok"
        /\ NoSignalHeld(task, sv) /\ AllScheduled(task, r, sv)
        /\ \A q \in sv.scheduled \ {p} : Held(task, r, sv, q)
    BY <1>1, ReporterTurn DEF ReportedAt
  <1>3. ~Busy(task, r, sv, p)
    BY <1>1, ReporterCurrent DEF ReportedAt
  <1>4. EntryFields(sv, p, op, word, e)
    BY <1>0, EntryFrame
  <1>w. op.name \in {"wait", "timedwait"} => op.addr \in Addr /\ op.name \in FutexOps
    BY <1>0, OpFields DEF FutexOps, PassedOps
  <1>v. op.name \in {"wait", "timedwait"} => word = mem[task[p].tgid][task[p].op.addr]
    BY <1>w DEF EntryWord, Word
  <1>o. task[p].op = op
    OBVIOUS
  <1> HIDE DEF op, word
  <1>5. CASE Parks(sv, p, op, word)
    <2> DEFINE s == [e EXCEPT !.current = NoPid]
    <2>1. Inv(task, r, s, stack)
      BY <1>0, <1>2, <1>3, <1>5, EntryParkInv
    <2>2. s \in SupervisorType /\ Bookkeeping(s) /\ Commit(p, task, s, <<>>)
      BY <1>1, <1>2, <1>5, <2>1 DEF Inv
    <2>3. /\ s.threads = e.threads /\ s.scheduled = e.scheduled
          /\ s.pendingStart = e.pendingStart /\ s.stoppedPending = e.stoppedPending
          /\ s.sigPending = e.sigPending /\ s.err = e.err /\ s.resumed = e.resumed
          /\ s.pending = e.pending /\ s.groupExiting = e.groupExiting
      OBVIOUS
    <2>4. s.current = NoPid
      <3>1. "current" \in DOMAIN s
        BY <2>2 DEF SupervisorType
      <3> QED
        BY <3>1
    <2> HIDE DEF s, e, r
    <2>5. op.name \in {"wait", "timedwait"}
      BY <1>5 DEF Parks
    <2>6. /\ s.scheduled = sv.scheduled /\ s.threads = sv.threads /\ s.pendingStart = {} /\ s.err = "ok"
          /\ s.resumed = {} /\ ~s.groupExiting /\ s.stoppedPending = sv.stoppedPending
          /\ s.sigPending = sv.sigPending /\ sv.pending \subseteq s.pending /\ p \in s.pending
      BY <1>0, <1>2, <1>4, <1>5, <2>3, <2>5 DEF EntryFields
    <2>7. NoSignalHeld(task, s) /\ AllScheduled(task, r, s)
      BY <1>2, <2>6 DEF NoSignalHeld, AllScheduled
    <2>8. \A q \in s.scheduled : Held(task, r, s, q)
      BY <1>1, <1>2, <1>o, <2>5, <2>6 DEF Held, Injected, FutexOps, PassedOps
    <2> QED
      BY <1>0, <2>2, <2>4, <2>6, <2>7, <2>8, NextTurn DEF r
  <1>6. CASE ~Parks(sv, p, op, word)
    <2>1. Inv(task, r, e, stack)
      BY <1>0, <1>6, EntryInv
    <2> HIDE DEF e, r
    <2>2. /\ e.scheduled = sv.scheduled /\ e.threads = sv.threads /\ e.pendingStart = {} /\ e.err = "ok"
          /\ e.resumed = {} /\ e.stoppedPending = sv.stoppedPending /\ e.current = p
          /\ e.sigPending = sv.sigPending /\ sv.pending \subseteq e.pending
          /\ op.name = "clone" => e.clonePending[p].thread
          /\ op.name = "exit_group" => e.groupExiting
          /\ op.name # "exit_group" => ~e.groupExiting
      BY <1>0, <1>2, <1>4 DEF EntryFields
    <2>3. e.sigPending[p] = NoSig
      BY <1>2, <2>2 DEF NoSignalHeld
    <2>4. ResumeStopped(e, p) = ResumeThread(e, p)
      BY <1>2, <2>2 DEF ResumeStopped, IsScheduled, ResumeCurrent
    <2> DEFINE s == ResumeThread(e, p)
    <2>5. Commit(p, task, s, <<>>)
      BY <1>1, <1>2, <1>6, <2>4
    <2>6. e \in SupervisorType /\ Bookkeeping(e)
      BY <2>1 DEF Inv
    <2>7. ResumesThread(e, s, p, NoSig)
      BY <2>3, <2>6, ResumeFields
    <2> HIDE DEF s
    <2>8. /\ s \in SupervisorType /\ Bookkeeping(s)
          /\ s.scheduled = sv.scheduled /\ s.threads = sv.threads /\ s.pendingStart = {} /\ s.err = "ok"
          /\ s.resumed = {<<p, NoSig>>} /\ s.stoppedPending = sv.stoppedPending /\ s.current = p
          /\ s.sigPending = sv.sigPending /\ sv.pending \subseteq s.pending
          /\ s.clonePending = e.clonePending /\ s.groupExiting = e.groupExiting /\ s.pending = e.pending
      BY <2>2, <2>6, <2>7 DEF ResumesThread, SameRest
    <2>9. NoSignalHeld(task, s) /\ AllScheduled(task, r, s)
      BY <1>2, <2>8 DEF NoSignalHeld, AllScheduled
    <2>10. \A q \in s.scheduled \ {p} : Held(task, r, s, q)
      BY <1>2, <2>8 DEF Held
    <2>11. EntryKnown(task, s, mem, p)
      <3>1. op.name \in {"wait", "timedwait"} => s.scheduled = {p} \/ mem[task[p].tgid][task[p].op.addr] # op.val
        BY <1>2, <1>6, <1>v, <2>8 DEF Parks, Simulated, IsScheduled
      <3> QED
        BY <1>o, <2>2, <2>8, <3>1 DEF EntryKnown
    <2>12. s.groupExiting => task[p].at = "entry" /\ task[p].op.name = "exit_group"
      BY <1>1, <1>o, <2>2, <2>8
    <2>13. task[p].at \in ResumableAt /\ NoSig # "fatal" /\ p \in s.scheduled
      BY <1>1, <1>2, <2>8 DEF ResumableAt, NoSig
    <2> QED
      BY <1>0, <1>2, <2>5, <2>8, <2>9, <2>10, <2>11, <2>12, <2>13, SameTurnTaken DEF r
  <1> QED
    BY <1>5, <1>6

\* What on_syscall_exit leaves alone.
LEMMA ExitFrame ==
    ASSUME NEW s, NEW p, NEW op
    PROVE  /\ SameRest(s, OnSyscallExit(s, p, op)) /\ OnSyscallExit(s, p, op).current = s.current
           /\ OnSyscallExit(s, p, op).resumed = s.resumed
           /\ \A q \in s.pending \ {p} : q \in OnSyscallExit(s, p, op).pending
  <1> DEFINE e == OnSyscallExit(s, p, op)
             u == [s EXCEPT !.pending = @ \ {p}]
             Kept(x) == /\ SameRest(s, x) /\ x.current = s.current /\ x.resumed = s.resumed
                        /\ \A q \in s.pending \ {p} : q \in x.pending
  <1>1. e = s \/ e = TraceJson(u, op.name, Inject, 0)
    BY DEF OnSyscallExit, TraceSyscall
  <1>2. Kept(s)
    BY DEF SameRest
  <1>3. Kept(u)
    <2>1. SameRest(s, u) /\ u.current = s.current /\ u.resumed = s.resumed
      BY DEF SameRest
    <2>2. \A q \in s.pending \ {p} : q \in u.pending
      <3>1. CASE "pending" \in DOMAIN s
        BY <3>1
      <3>2. CASE "pending" \notin DOMAIN s
        BY <3>2
      <3> QED
        BY <3>1, <3>2
    <2> QED
      BY <2>1, <2>2
  <1> HIDE DEF u
  <1>4. Kept(TraceJson(u, op.name, Inject, 0))
    BY <1>3 DEF TraceJson, SameRest
  <1>5. Kept(e)
    <2> HIDE DEF Kept, e
    <2> QED
      BY <1>1, <1>2, <1>4
  <1> HIDE DEF e
  <1> QED
    BY <1>5 DEF e

\* A syscall exit: the thread goes to the back of the queue.
LEMMA ExitTurn ==
    ASSUME IInv, PairInv, ThreadInv, NEW p \in Pids, SyscallExit(p), OneGroup(task')
    PROVE  ThreadInv'
  <1> DEFINE op == task[p].op
             e == OnSyscallExit(sv, p, op)
             r == reports \ {p}
  <1>0. /\ op \in Op /\ Inv(task, r, sv, stack) /\ sv.resumed = {} /\ task \in [Pids -> Task]
        /\ sv \in SupervisorType
    BY IInvParts, TaskFields DEF IInv, TypeOK
  <1>1. /\ outcome = "running" /\ p \in reports /\ task[p].at = "exitcall"
        /\ Commit(p, task, IF IsScheduled(sv, p) THEN YieldCurrent(e, p) ELSE ResumeThread(e, p), stack)
    BY DEF SyscallExit, Reported
  <1>2. /\ sv.current = p /\ p \in sv.scheduled /\ p \notin r
        /\ stack = <<>> /\ sv.pendingStart = {} /\ ~sv.groupExiting /\ sv.err = "ok"
        /\ NoSignalHeld(task, sv) /\ AllScheduled(task, r, sv)
        /\ \A q \in sv.scheduled \ {p} : Held(task, r, sv, q)
    BY <1>1, ReporterTurn DEF ReportedAt
  <1>3. ~Busy(task, r, sv, p)
    BY <1>1, ReporterCurrent DEF ReportedAt
  <1>4. Inv(task, r, e, stack)
    BY <1>0, ExitInv
  <1>5. /\ SameRest(sv, e) /\ e.current = p /\ e.resumed = {}
        /\ \A q \in sv.pending \ {p} : q \in e.pending
    BY <1>0, <1>2, ExitFrame
  <1> HIDE DEF e
  <1>6. Commit(p, task, YieldCurrent(e, p), <<>>)
    BY <1>1, <1>2 DEF IsScheduled
  <1>7. ~Busy(task, r, e, p) /\ p \in e.scheduled
    BY <1>0, <1>2, <1>3, <1>5 DEF Busy, Resuming, SameRest
  <1>8. PICK u : /\ Inv(task, r, u, stack) /\ YieldCurrent(e, p) = ScheduleNext(u)
                 /\ u = Requeued(e, p)
    BY <1>4, <1>5, <1>7, YieldInv
  <1>9. u \in SupervisorType /\ Bookkeeping(u)
    BY <1>8 DEF Inv
  <1>10. SameRest(e, u) /\ u.resumed = e.resumed /\ u.pending = e.pending
    BY <1>8 DEF SameRest, Requeued
  <1>11. u.current = NoPid
    <2>1. e \in SupervisorType
      BY <1>4 DEF Inv
    <2> QED
      BY <1>8, <2>1 DEF SupervisorType, Requeued
  <1> HIDE DEF r
  <1>12. /\ SameRest(sv, u) /\ u.resumed = {} /\ u.err = "ok" /\ u.pendingStart = {} /\ ~u.groupExiting
         /\ u.scheduled = sv.scheduled
    BY <1>2, <1>5, <1>10 DEF SameRest
  <1>13. NoSignalHeld(task, u) /\ AllScheduled(task, r, u)
    BY <1>2, <1>12 DEF NoSignalHeld, AllScheduled, SameRest
  <1>14. \A q \in u.scheduled : Held(task, r, u, q)
    BY <1>1, <1>2, <1>5, <1>10, <1>12 DEF Held
  <1> QED
    BY <1>0, <1>6, <1>8, <1>9, <1>11, <1>12, <1>13, <1>14, NextTurn DEF r

\* Nothing but the turn and the requests differs between sv and s: the one whose turn
\* it is, in a stop that has been handled, goes on.
LEMMA Resumes ==
    ASSUME IInv, NEW p \in Pids, NEW c \in Pids, NEW u \in SupervisorType, Bookkeeping(u),
           NEW s, NEW sig \in Signal \cup {NoSig}, sig # "fatal", ResumesThread(u, s, c, sig),
           Commit(p, task, s, <<>>), u.resumed = {}, u.current = c, c \in u.scheduled, u.err = "ok",
           u.pendingStart = {}, ~u.groupExiting, c \notin reports \ {p},
           NoSignalHeld(task, u), AllScheduled(task, reports \ {p}, u),
           \A q \in u.scheduled \ {c} : Held(task, reports \ {p}, u, q),
           task[c].at \in ResumableAt \ {"entry"}, OneGroup(task')
    PROVE  ThreadInv'
  <1> DEFINE r == reports \ {p}
  <1> HIDE DEF r
  <1>1. /\ s \in SupervisorType /\ Bookkeeping(s) /\ s.current = c /\ s.err = "ok"
        /\ s.resumed = {<<c, sig>>} /\ s.pendingStart = {} /\ ~s.groupExiting
        /\ s.scheduled = u.scheduled /\ SameRest(u, s) /\ s.pending = u.pending
    BY DEF ResumesThread, SameRest
  <1>2. NoSignalHeld(task, s) /\ AllScheduled(task, r, s)
    BY <1>1 DEF NoSignalHeld, AllScheduled, SameRest, r
  <1>3. \A q \in s.scheduled \ {c} : Held(task, r, s, q)
    BY <1>1 DEF Held, r
  <1>4. task \in [Pids -> Task] /\ c \in s.scheduled
    BY <1>1, KernelTypes
  <1> QED
    BY <1>1, <1>2, <1>3, <1>4, SameTurnTaken DEF r

\* An exec event, or a signal: the thread goes on.
LEMMA EventTurn ==
    ASSUME IInv, ThreadInv, NEW p \in Pids, OneGroup(task'),
           OtherEvent(p) \/ SignalStop(p) \/ (OtherSigstop(p) /\ task[p].at = "signal")
    PROVE  ThreadInv'
  <1> DEFINE r == reports \ {p}
  <1>0. /\ sv.resumed = {} /\ task \in [Pids -> Task] /\ sv \in SupervisorType /\ Bookkeeping(sv)
        /\ task[p].sig \in Signal \cup {NoSig}
    BY TaskFields DEF IInv, TypeOK
  <1>1. outcome = "running" /\ p \in reports /\ task[p].at \in {"execstop", "signal"}
    BY DEF OtherEvent, SignalStop, OtherSigstop, ReportedSigstop, Reported
  <1>2. /\ sv.current = p /\ p \in sv.scheduled /\ p \notin r
        /\ stack = <<>> /\ sv.pendingStart = {} /\ ~sv.groupExiting /\ sv.err = "ok"
        /\ NoSignalHeld(task, sv) /\ AllScheduled(task, r, sv)
        /\ \A q \in sv.scheduled \ {p} : Held(task, r, sv, q)
    BY <1>1, ReporterTurn DEF ReportedAt
  <1>3. sv.sigPending[p] = NoSig /\ task[p].sig # "fatal" /\ NoSig # "fatal"
    BY <1>2 DEF NoSignalHeld, NoSig
  <1>4. /\ ResumeStopped(sv, p) = ResumeThread(sv, p)
        /\ OnSigstop(sv, p) = ResumeThread(sv, p)
        /\ OnSignal(sv, p, task[p].sig) = Deliver(sv, p, task[p].sig)
    BY <1>2 DEF ResumeStopped, IsScheduled, ResumeCurrent, OnSigstop, OnSignal
  <1>5. \/ Commit(p, task, ResumeThread(sv, p), <<>>)
        \/ Commit(p, task, Deliver(sv, p, task[p].sig), <<>>)
    <2>1. CASE OtherEvent(p)
      BY <1>2, <1>4, <2>1 DEF OtherEvent
    <2>2. CASE OtherSigstop(p)
      BY <1>2, <1>4, <2>2 DEF OtherSigstop
    <2>3. CASE SignalStop(p)
      BY <1>2, <1>4, <2>3 DEF SignalStop
    <2> QED
      BY <2>1, <2>2, <2>3
  <1>6. /\ ResumesThread(sv, ResumeThread(sv, p), p, NoSig)
        /\ ResumesThread(sv, Deliver(sv, p, task[p].sig), p, task[p].sig)
    BY <1>0, <1>3, ResumeFields, DeliverFields
  <1>7. PICK s : \E sig \in Signal \cup {NoSig} :
                    sig # "fatal" /\ ResumesThread(sv, s, p, sig) /\ Commit(p, task, s, <<>>)
    BY <1>0, <1>3, <1>5, <1>6, Zenon
  <1>8. PICK sig \in Signal \cup {NoSig} :
                    sig # "fatal" /\ ResumesThread(sv, s, p, sig) /\ Commit(p, task, s, <<>>)
    BY <1>7
  <1>9. task[p].at \in ResumableAt \ {"entry"}
    BY <1>1 DEF ResumableAt
  <1> QED
    BY <1>0, <1>2, <1>8, <1>9, Resumes

\* The only await_attach call in progress.
LEMMA OneCall ==
    ASSUME NEW x
    PROVE  Last(<<x>>) = x /\ Front(<<x>>) = <<>> /\ <<x>> # <<>>
  BY DEF Last, Front

\* What an update that does not touch the turn, the requests and the results leaves.
SameTurnRest(s, s2) ==
    /\ s2.sigPending = s.sigPending /\ s2.clonePending = s.clonePending
    /\ s2.groupExiting = s.groupExiting /\ s2.err = s.err
    /\ s2.current = s.current /\ s2.pending = s.pending /\ s2.resumed = s.resumed

\* The attach stop of a scheduled thread is seen: it is no longer awaited.
LEMMA StartedFields ==
    ASSUME NEW s \in SupervisorType, NEW p \in s.scheduled
    PROVE  /\ SameTurnRest(s, Started(s, p))
           /\ Started(s, p).threads = s.threads /\ Started(s, p).scheduled = s.scheduled
           /\ Started(s, p).pendingStart = s.pendingStart \ {p}
           /\ Started(s, p).stoppedPending = s.stoppedPending
  <1> DEFINE u == [s EXCEPT !.pendingStart = @ \ {p}]
  <1>1. /\ u.threads = s.threads /\ u.scheduled = s.scheduled
        /\ u.stoppedPending = s.stoppedPending /\ SameTurnRest(s, u)
    BY DEF SameTurnRest
  <1>2. u.pendingStart = s.pendingStart \ {p}
    BY DEF SupervisorType
  <1> HIDE DEF u
  <1>3. Started(s, p) = [u EXCEPT !.runnable = Append(@, p)]
    BY <1>1 DEF Started, Release, IsScheduled, u
  <1>4. /\ Started(s, p).threads = u.threads /\ Started(s, p).scheduled = u.scheduled
        /\ Started(s, p).pendingStart = u.pendingStart
        /\ Started(s, p).stoppedPending = u.stoppedPending /\ SameTurnRest(u, Started(s, p))
    BY <1>3 DEF SameTurnRest
  <1> QED
    BY <1>1, <1>2, <1>4 DEF SameTurnRest

\* await_attach returns: the new thread is queued, and its parent goes on.
LEMMA AwaitedTurn ==
    ASSUME IInv, AttachOnly, ThreadInv, NEW p \in Pids, AwaitedAttach(p), OneGroup(task')
    PROVE  ThreadInv'
  <1> DEFINE r == reports \ {p}
             c == sv.current
             u == Started(sv, p)
  <1>0. /\ sv.resumed = {} /\ task \in [Pids -> Task] /\ sv \in SupervisorType /\ Bookkeeping(sv)
        /\ Inv(task, r, sv, stack)
    BY IInvParts DEF IInv, TypeOK
  <1>1. /\ outcome = "running" /\ p \in reports /\ task[p].at = "attach" /\ stack # <<>>
        /\ Last(stack)[2] = p /\ Commit(p, task, ResumeStopped(u, Last(stack)[1]), Front(stack))
    BY DEF AwaitedAttach, ReportedSigstop, Reported, Awaited, AttachOnly
  <1>2. InTurn(task, reports, sv, stack, mem)
    BY <1>1 DEF ThreadInv
  <1>3. PICK ch \in sv.scheduled :
          /\ stack = <<<<c, ch>>>> /\ sv.pendingStart = {ch}
          /\ task[c].at = "clonestop" /\ c \notin reports
    BY <1>1, <1>2 DEF InTurn, Awaiting
  <1>4. Last(stack)[1] = c /\ ch = p /\ Front(stack) = <<>>
    <2>1. Last(stack) = <<c, ch>> /\ Front(stack) = <<>>
      BY <1>3, OneCall
    <2> QED
      BY <1>1, <2>1
  <1>5. c \in Pids /\ ~sv.groupExiting /\ c \in sv.scheduled /\ sv.err = "ok"
    BY <1>2, <1>3 DEF InTurn, SomebodysTurn, Ending
  <1>6. \A q \in sv.scheduled \ {p, c} : Held(task, r, sv, q)
    BY <1>2, <1>3, <1>4, <1>5 DEF InTurn, OthersHeld, ExecKills, Held
  <1>7. NoSignalHeld(task, sv) /\ AllScheduled(task, r, sv)
    BY <1>1, <1>2 DEF InTurn, AllScheduled, ToBeRegistered, CloneStopped
  <1>8. Inv(task, r, u, stack)
    <2>1. p \in sv.pendingStart /\ task[p].at # "born" /\ ~(p \in r /\ task[p].at = "attach")
      BY <1>1, <1>3, <1>4
    <2> HIDE DEF r
    <2> QED
      BY <1>0, <2>1, ReleaseInv
  <1>9. /\ SameTurnRest(sv, u) /\ u.threads = sv.threads /\ u.scheduled = sv.scheduled
        /\ u.pendingStart = sv.pendingStart \ {p} /\ u.stoppedPending = sv.stoppedPending
    BY <1>0, <1>3, <1>4, StartedFields
  <1> HIDE DEF u, r, c
  <1>10. /\ u \in SupervisorType /\ Bookkeeping(u) /\ u.current = c /\ u.resumed = {} /\ u.err = "ok"
         /\ u.pendingStart = {} /\ ~u.groupExiting /\ u.pending = sv.pending
    BY <1>0, <1>3, <1>4, <1>5, <1>8, <1>9 DEF Inv, SameTurnRest, c
  <1>11. NoSignalHeld(task, u) /\ AllScheduled(task, r, u)
    BY <1>7, <1>9 DEF NoSignalHeld, AllScheduled, SameTurnRest
  <1>12. \A q \in u.scheduled \ {c} : Held(task, r, u, q)
    BY <1>1, <1>6, <1>9, <1>10 DEF Held, r
  <1>13. u.sigPending[c] = NoSig
    BY <1>5, <1>11 DEF NoSignalHeld
  <1> DEFINE s == ResumeThread(u, c)
  <1>14. Commit(p, task, s, <<>>)
    BY <1>1, <1>4, <1>5, <1>9, <1>10 DEF ResumeStopped, IsScheduled, ResumeCurrent
  <1>15. ResumesThread(u, s, c, NoSig) /\ NoSig # "fatal"
    BY <1>5, <1>10, <1>13, ResumeFields DEF NoSig
  <1> HIDE DEF s
  <1>16. task[c].at \in ResumableAt \ {"entry"} /\ c \notin reports \ {p} /\ c \in u.scheduled
    BY <1>3, <1>5, <1>9 DEF ResumableAt
  <1> QED
    BY <1>5, <1>10, <1>11, <1>12, <1>14, <1>15, <1>16, Resumes DEF r

\* An attach stop nobody waits for is that of a thread still to be registered.
LEMMA OtherAttachTurn ==
    ASSUME IInv, ThreadInv, NEW p \in Pids, OtherSigstop(p), task[p].at = "attach", OneGroup(task')
    PROVE  ThreadInv'
  <1> DEFINE s == [sv EXCEPT !.stoppedPending = @ \cup {p}]
  <1>0. sv.resumed = {} /\ task \in [Pids -> Task] /\ sv \in SupervisorType /\ Bookkeeping(sv)
    BY DEF IInv, TypeOK
  <1>1. /\ outcome = "running" /\ p \in reports /\ task[p].at = "attach"
        /\ ~(stack # <<>> /\ Last(stack)[2] = p) /\ Commit(p, task, OnSigstop(sv, p), stack)
    BY DEF OtherSigstop, ReportedSigstop, Reported, Awaited
  <1>2. InTurn(task, reports, sv, stack, mem)
    BY <1>1 DEF ThreadInv
  <1>3. p \notin sv.pendingStart
    <2>1. ASSUME NEW ch, stack = <<<<sv.current, ch>>>> PROVE ch # p
      <3>1. Last(stack) = <<sv.current, ch>> /\ stack # <<>>
        BY <2>1, OneCall
      <3> QED
        BY <1>1, <3>1
    <2> QED
      BY <1>2, <2>1 DEF InTurn, Awaiting
  <1>4. p \notin sv.threads
    BY <1>1, <1>3 DEF IInv, Link, AttachAhead
  <1>5. sv.current \in Pids /\ sv.current # p
    <2>1. sv.threads = sv.scheduled
      BY <1>2 DEF InTurn, AllScheduled
    <2> QED
      BY <1>1, <1>2, <1>4, <2>1 DEF InTurn, SomebodysTurn, Ending
  <1>6. Commit(p, task, s, stack)
    BY <1>1, <1>3, <1>4, <1>5 DEF OnSigstop
  <1>7. /\ SameTurnRest(sv, s) /\ s.threads = sv.threads /\ s.scheduled = sv.scheduled
        /\ s.pendingStart = sv.pendingStart
    BY DEF SameTurnRest
  <1>8. s.stoppedPending = sv.stoppedPending \cup {p}
    BY <1>0 DEF SupervisorType
  <1> HIDE DEF s
  <1>9. LoopTail(s, stack) = s /\ s.resumed = {} /\ s.err = "ok"
    BY <1>0, <1>2, <1>5, <1>7, PidsAssumption DEF LoopTail, SameTurnRest, InTurn, SomebodysTurn
  <1>10. /\ task' = task /\ reports' = {q \in reports \ {p} : task[q].at # "dying"}
         /\ sv' = [s EXCEPT !.resumed = {}] /\ stack' = stack /\ mem' = mem /\ outcome' = "running"
    <2>1. ResumesNobody(p, task, s, stack)
      BY <1>0, <1>6, <1>9, CommitNone
    <2> QED
      BY <1>9, <2>1 DEF ResumesNobody
  <1>11. /\ sv'.threads = sv.threads /\ sv'.scheduled = sv.scheduled
         /\ sv'.pendingStart = sv.pendingStart /\ sv'.stoppedPending = sv.stoppedPending \cup {p}
         /\ sv'.sigPending = sv.sigPending /\ sv'.clonePending = sv.clonePending
         /\ sv'.groupExiting = sv.groupExiting /\ sv'.err = sv.err
         /\ sv'.current = sv.current /\ sv'.pending = sv.pending
    BY <1>7, <1>8, <1>10 DEF SameTurnRest
  <1>12. \A q : CloneStopped(task, reports', q) <=> CloneStopped(task, reports, q)
    BY <1>1, <1>10 DEF CloneStopped
  <1>13. NoSignalHeld(task, sv') /\ EntryNoted(task, reports', sv')
    BY <1>2, <1>11, <1>12 DEF InTurn, NoSignalHeld, EntryNoted
  <1>14. AllScheduled(task, reports', sv')
    <2>1. \A q \in sv.stoppedPending \cup {p} : task[q].at = "attach" /\ q \notin reports'
      BY <1>1, <1>2, <1>10 DEF InTurn, AllScheduled
    <2> QED
      BY <1>2, <1>11, <1>12, <2>1 DEF InTurn, AllScheduled, ToBeRegistered
  <1>15. Awaiting(task, reports', sv', stack)
    BY <1>2, <1>10, <1>11 DEF InTurn, Awaiting
  <1>16. OthersHeld(task, reports', sv')
    BY <1>2, <1>10, <1>11 DEF InTurn, OthersHeld, Held
  <1>17. SomebodysTurn(task, sv') /\ WaitsAlone(task, sv', mem)
    BY <1>2, <1>11 DEF InTurn, SomebodysTurn, WaitsAlone
  <1>18. InTurn(task, reports', sv', stack, mem)
    BY <1>13, <1>14, <1>15, <1>16, <1>17 DEF InTurn
  <1> QED
    BY <1>10, <1>18 DEF ThreadInv

\* A new thread is registered: it is scheduled, and awaited unless it has stopped.
Registers(s, s2, p) ==
    /\ SameTurnRest(s, s2)
    /\ s2.threads = s.threads \cup {p} /\ s2.scheduled = s.scheduled \cup {p}
    /\ s2.stoppedPending = s.stoppedPending \ {p}
    /\ p \in s.stoppedPending => s2.pendingStart = s.pendingStart
    /\ p \notin s.stoppedPending => s2.pendingStart = s.pendingStart \cup {p}

\* register_thread does no more, for a thread that is new.
LEMMA RegisterFields ==
    ASSUME NEW s \in SupervisorType, NEW p \in Pids, NEW info, p \notin s.threads, info.thread
    PROVE  Registers(s, RegisterThread(s, p, info), p)
  <1> DEFINE vt == [s.vtid EXCEPT ![p] = s.vtidNext]
             ct == [s.childTid EXCEPT ![p] = info.childTid]
             s1 == [s EXCEPT !.threads = @ \cup {p},
                             !.scheduled = IF info.thread THEN @ \cup {p} ELSE @,
                             !.vtid[p] = s.vtidNext,
                             !.childTid[p] = info.childTid,
                             !.vtidNext = @ + 1]
             s2 == IF p \in s1.stoppedPending
                   THEN Release([s1 EXCEPT !.stoppedPending = @ \ {p}], p)
                   ELSE [s1 EXCEPT !.pendingStart = @ \cup {p}]
             k == IF info.thread THEN 1 ELSE 0
  <1>1. RegisterThread(s, p, info) = TraceJson(s2, "thread_create", s.vtidNext, k)
    BY Zenon DEF RegisterThread
  <1>2. s1 = [s EXCEPT !.threads = s.threads \cup {p}, !.scheduled = s.scheduled \cup {p}, !.vtid = vt,
                       !.childTid = ct, !.vtidNext = s.vtidNext + 1]
    BY DEF SupervisorType
  <1> HIDE DEF vt, ct, s1
  <1>3. /\ s1.threads = s.threads \cup {p} /\ s1.scheduled = s.scheduled \cup {p}
        /\ s1.stoppedPending = s.stoppedPending /\ s1.pendingStart = s.pendingStart
        /\ SameTurnRest(s, s1) /\ DOMAIN s1 = DOMAIN s
    BY <1>2 DEF SupervisorType, SameTurnRest
  <1>4. "stoppedPending" \in DOMAIN s /\ "pendingStart" \in DOMAIN s
    BY DEF SupervisorType
  <1>5. Registers(s, s2, p)
    <2>1. CASE p \in s.stoppedPending
      <3> DEFINE u == [s1 EXCEPT !.stoppedPending = @ \ {p}]
      <3>1. /\ u.threads = s1.threads /\ u.scheduled = s1.scheduled /\ u.pendingStart = s1.pendingStart
            /\ u.stoppedPending = s1.stoppedPending \ {p} /\ SameTurnRest(s1, u)
        BY <1>3, <1>4 DEF SameTurnRest
      <3> HIDE DEF u
      <3>2. s2 = [u EXCEPT !.runnable = Append(@, p)]
        BY <1>3, <2>1, <3>1 DEF Release, IsScheduled, u
      <3> HIDE DEF s2
      <3>3. /\ s2.threads = u.threads /\ s2.scheduled = u.scheduled /\ s2.pendingStart = u.pendingStart
            /\ s2.stoppedPending = u.stoppedPending /\ SameTurnRest(u, s2)
        BY <3>2 DEF SameTurnRest
      <3> QED
        BY <1>3, <2>1, <3>1, <3>3 DEF Registers, SameTurnRest
    <2>2. CASE p \notin s.stoppedPending
      <3>1. s2 = [s1 EXCEPT !.pendingStart = @ \cup {p}]
        BY <1>3, <2>2
      <3> HIDE DEF s2
      <3>2. /\ s2.threads = s1.threads /\ s2.scheduled = s1.scheduled
            /\ s2.pendingStart = s1.pendingStart \cup {p}
            /\ s2.stoppedPending = s1.stoppedPending /\ SameTurnRest(s1, s2)
        BY <1>3, <1>4, <3>1 DEF SameTurnRest
      <3>3. s.stoppedPending = s.stoppedPending \ {p}
        BY <2>2
      <3> QED
        BY <1>3, <2>2, <3>2, <3>3 DEF Registers, SameTurnRest
    <2> QED
      BY <2>1, <2>2
  <1> HIDE DEF s2
  <1> QED
    BY <1>1, <1>5 DEF Registers, SameTurnRest, TraceJson

\* A clone event: the child becomes a scheduled thread, and its parent goes on once
\* the child has stopped.
LEMMA CloneTurn ==
    ASSUME IInv, ThreadInv, NEW p \in Pids, CloneEvent(p), OneGroup(task')
    PROVE  ThreadInv'
  <1> DEFINE c == task[p].child
             info == sv.clonePending[p]
             cp == [sv.clonePending EXCEPT ![p] = DefaultCloneInfo]
             s0 == [sv EXCEPT !.clonePending = cp]
             u == RegisterThread(s0, c, info)
             r == reports \ {p}
  <1>0. /\ Inv(task, r, sv, stack) /\ sv \in SupervisorType /\ task \in [Pids -> Task]
        /\ task[p] \in Task /\ sv.resumed = {}
    BY IInvParts DEF IInv, TypeOK
  <1>1. outcome = "running" /\ p \in reports /\ task[p].at = "clonestop" /\ CloneStopped(task, reports, p)
    BY DEF CloneEvent, Reported, CloneStopped
  <1>2. /\ c \in u.pendingStart => Commit(p, task, u, Append(stack, <<p, c>>))
        /\ c \notin u.pendingStart => Commit(p, task, ResumeStopped(u, p), stack)
    <2>1. [sv EXCEPT !.clonePending[p] = DefaultCloneInfo] = s0
      BY <1>0 DEF SupervisorType
    <2>2. IF c \in u.pendingStart THEN Commit(p, task, u, Append(stack, <<p, c>>))
                                  ELSE Commit(p, task, ResumeStopped(u, p), stack)
      BY <2>1 DEF CloneEvent
    <2> HIDE DEF u, c
    <2> QED
      BY <2>2
  <1>3. cp \in [Pids -> CloneInfo] /\ info \in CloneInfo /\ c \in Pids
    <2>1. DefaultCloneInfo \in CloneInfo
      BY DEF DefaultCloneInfo, CloneInfo
    <2>2. sv.clonePending \in [Pids -> CloneInfo]
      BY <1>0 DEF SupervisorType
    <2>3. c \in Pids
      BY <1>0, TaskFields
    <2> QED
      BY <2>1, <2>2, <2>3
  <1>t. /\ sv.current = p /\ p \in sv.scheduled /\ p \notin r
        /\ stack = <<>> /\ sv.pendingStart = {} /\ ~sv.groupExiting /\ sv.err = "ok"
        /\ NoSignalHeld(task, sv) /\ EntryNoted(task, reports, sv) /\ AllScheduled(task, reports, sv)
        /\ \A q \in sv.scheduled \ {p} : Held(task, r, sv, q)
    BY <1>1, ReporterTurn DEF ReportedAt
  <1>i. info.thread
    BY <1>1, <1>t DEF EntryNoted
  <1>c. task[c].at \in {"born", "attach"}
    BY <1>1, <1>t DEF EntryNoted
  <1> HIDE DEF cp
  <1>4. /\ s0 \in SupervisorType /\ SameQueues(sv, s0) /\ s0.pending = sv.pending
        /\ s0.sigPending = sv.sigPending /\ s0.groupExiting = sv.groupExiting /\ s0.err = sv.err
    BY <1>0, <1>3 DEF SupervisorType, SameQueues
  <1> HIDE DEF s0
  <1>5. Inv(task, r, s0, stack)
    BY <1>0, <1>4, SameInv
  <1>6. /\ c \notin sv.threads /\ c # sv.current /\ task[c].at # "unborn"
        /\ \A q \in Pids : CloneStopped(task, reports, q) /\ task[q].child = c => q = p
    BY <1>1 DEF IInv, Link, ChildNew, CloneStopped
  <1>7. /\ c \notin s0.threads /\ c # s0.current /\ c \notin Resuming(s0)
        /\ \A q \in Pids : CloneStopped(task, r, q) => task[q].child # c
    <2>1. Resuming(s0) = {}
      BY <1>4, IInvParts DEF SameQueues, Resuming
    <2> QED
      BY <1>4, <1>6, <2>1 DEF SameQueues, CloneStopped
  <1>o. c = task[p].child
    OBVIOUS
  <1> HIDE DEF c, info
  <1>8. u \in SupervisorType /\ Bookkeeping(u)
    <2> HIDE DEF r
    <2>1. Inv(task, r, u, stack)
      BY <1>3, <1>5, <1>6, <1>7, RegisterInv
    <2> QED
      BY <2>1 DEF Inv
  <1>9. Registers(s0, u, c)
    BY <1>3, <1>4, <1>7, <1>i, RegisterFields
  <1> HIDE DEF u
  <1>10. /\ u.sigPending = sv.sigPending /\ u.groupExiting = sv.groupExiting /\ u.err = "ok"
         /\ u.current = p /\ u.pending = sv.pending /\ u.resumed = {}
         /\ u.scheduled = sv.scheduled \cup {c} /\ u.threads = u.scheduled
         /\ u.stoppedPending = sv.stoppedPending \ {c}
         /\ c \in sv.stoppedPending => u.pendingStart = {}
         /\ c \notin sv.stoppedPending => u.pendingStart = {c}
    BY <1>0, <1>4, <1>9, <1>t DEF Registers, SameTurnRest, SameQueues, AllScheduled
  <1>11. \A q \in Pids : CloneStopped(task, reports, q) => q = p
    <2> SUFFICES ASSUME NEW q \in Pids, CloneStopped(task, reports, q), q # p PROVE FALSE
      OBVIOUS
    <2>1. q \notin sv.scheduled
      BY <1>t DEF Held, CloneStopped
    <2> QED
      BY <2>1, <1>t DEF AllScheduled, ToBeRegistered, CloneStopped
  <1>12. \A q \in Pids \ u.scheduled : task[q].at \in {"unborn", "reaped"}
    BY <1>10, <1>11, <1>t, <1>o DEF AllScheduled, ToBeRegistered
  <1>13. NoSignalHeld(task, u) /\ AllScheduled(task, r, u)
    BY <1>10, <1>12, <1>t DEF NoSignalHeld, AllScheduled
  <1>14. CASE c \in sv.stoppedPending
    <2>1. task[c].at = "attach" /\ c \notin r
      BY <1>14, <1>t DEF AllScheduled
    <2>2. \A q \in u.scheduled \ {p} : Held(task, r, u, q)
      BY <1>10, <1>t, <2>1 DEF Held
    <2>3. u.sigPending[p] = NoSig /\ p \in u.scheduled /\ u.pendingStart = {} /\ ~u.groupExiting
      BY <1>10, <1>14, <1>t DEF NoSignalHeld
    <2> DEFINE s == ResumeThread(u, p)
    <2>4. Commit(p, task, s, <<>>)
      BY <1>2, <1>10, <1>t, <2>3 DEF ResumeStopped, IsScheduled, ResumeCurrent
    <2>5. ResumesThread(u, s, p, NoSig) /\ NoSig # "fatal"
      BY <1>8, <2>3, ResumeFields DEF NoSig
    <2> HIDE DEF s
    <2>6. task[p].at \in ResumableAt \ {"entry"} /\ p \notin reports \ {p}
      BY <1>1 DEF ResumableAt
    <2> QED
      BY <1>8, <1>10, <1>13, <2>2, <2>3, <2>4, <2>5, <2>6, Resumes DEF r
  <1>15. CASE c \notin sv.stoppedPending
    <2> DEFINE stk == Append(stack, <<p, c>>)
    <2>1. stk = <<<<p, c>>>> /\ stk # <<>> /\ Commit(p, task, u, stk)
      BY <1>2, <1>10, <1>15, <1>t
    <2> HIDE DEF stk
    <2>2. LoopTail(u, stk) = u
      BY <2>1 DEF LoopTail
    <2>3. /\ task' = task /\ reports' = {q \in reports \ {p} : task[q].at # "dying"}
          /\ sv' = [u EXCEPT !.resumed = {}] /\ stack' = stk /\ mem' = mem /\ outcome' = "running"
      <3>1. ResumesNobody(p, task, u, stk)
        BY <1>0, <1>10, <2>1, <2>2, CommitNone
      <3> QED
        BY <1>10, <3>1 DEF ResumesNobody
    <2>4. /\ sv'.threads = u.threads /\ sv'.scheduled = u.scheduled
          /\ sv'.pendingStart = u.pendingStart /\ sv'.stoppedPending = u.stoppedPending
          /\ sv'.sigPending = u.sigPending /\ sv'.clonePending = u.clonePending
          /\ sv'.groupExiting = u.groupExiting /\ sv'.err = u.err
          /\ sv'.current = u.current /\ sv'.pending = u.pending
      BY <2>3
    <2>5. reports' \subseteq r
      BY <2>3
    <2>6. \A q \in Pids : ~CloneStopped(task, reports', q) /\ task[q].at \notin {"kernel", "asleep"}
      <3> SUFFICES ASSUME NEW q \in Pids
                   PROVE  ~CloneStopped(task, reports', q) /\ task[q].at \notin {"kernel", "asleep"}
        OBVIOUS
      <3>1. ~CloneStopped(task, reports', q)
        BY <1>11, <2>3 DEF CloneStopped
      <3>2. task[q].at \notin {"kernel", "asleep"}
        BY <1>1, <1>10, <1>12, <1>c, <1>t DEF Held
      <3> QED
        BY <3>1, <3>2
    <2> HIDE DEF r
    <2>7. NoSignalHeld(task, sv') /\ EntryNoted(task, reports', sv') /\ WaitsAlone(task, sv', mem)
      BY <1>13, <2>4, <2>6 DEF NoSignalHeld, EntryNoted, WaitsAlone
    <2>8. AllScheduled(task, reports', sv')
      BY <1>12, <1>13, <2>4, <2>5 DEF AllScheduled
    <2>9. Awaiting(task, reports', sv', stk)
      <3>1. p \notin reports'
        BY <2>3
      <3> QED
        BY <1>1, <1>10, <1>15, <1>c, <2>1, <2>4, <3>1 DEF Awaiting
    <2>10. OthersHeld(task, reports', sv')
      BY <1>10, <1>15, <1>t, <2>4, <2>5 DEF OthersHeld, Held
    <2>11. SomebodysTurn(task, sv')
      BY <1>10, <1>t, <2>4 DEF SomebodysTurn
    <2>12. InTurn(task, reports', sv', stk, mem)
      BY <2>7, <2>8, <2>9, <2>10, <2>11 DEF InTurn
    <2> QED
      BY <2>3, <2>12 DEF ThreadInv
  <1> QED
    BY <1>14, <1>15

\* What on_thread_exit leaves of a thread, and of the others.
Unregisters(s, s2, p) ==
    /\ s2.threads = s.threads \ {p} /\ s2.scheduled = s.scheduled \ {p}
    /\ s2.pendingStart = s.pendingStart \ {p} /\ s2.stoppedPending = s.stoppedPending \ {p}
    /\ s2.clonePending = s.clonePending /\ s2.groupExiting = s.groupExiting /\ s2.err = s.err
    /\ s2.current = s.current /\ s2.resumed = s.resumed /\ s2.pending = s.pending \ {p}
    /\ s2.sigPending = [s.sigPending EXCEPT ![p] = NoSig]

\* on_thread_exit does no more, for a thread that is known.
LEMMA UnregisterFields ==
    ASSUME NEW s \in SupervisorType, NEW p \in s.threads, NEW rec
    PROVE  Unregisters(s, OnThreadExit(s, p, rec), p)
  <1> DEFINE Same(u) == /\ u.pendingStart = s.pendingStart /\ u.stoppedPending = s.stoppedPending
                        /\ u.clonePending = s.clonePending /\ u.groupExiting = s.groupExiting
                        /\ u.err = s.err /\ u.current = s.current /\ u.resumed = s.resumed
                        /\ u.sigPending = s.sigPending /\ u.threads = s.threads \ {p}
                        /\ u.scheduled = s.scheduled \ {p} /\ DOMAIN u = DOMAIN s
             w0 == [s EXCEPT !.threads = @ \ {p}, !.scheduled = @ \ {p}]
             w1 == WakeJoiner(w0, p)
             w2 == IF rec THEN TraceJson(w1, "thread_exit", s.vtid[p], 0) ELSE w1
             w3 == [w2 EXCEPT !.pending = @ \ {p}]
  <1>0. {"pendingStart", "stoppedPending", "sigPending", "pending", "threads", "scheduled"} \subseteq DOMAIN s
    BY DEF SupervisorType
  <1>1. Same(w0) /\ w0.pending = s.pending
    BY DEF SupervisorType
  <1> HIDE DEF w0
  <1>2. Same(w1) /\ w1.pending = s.pending
    BY <1>1 DEF WakeJoiner, Wake
  <1> HIDE DEF w1
  <1>3. Same(w2) /\ w2.pending = s.pending
    BY <1>2 DEF TraceJson
  <1> HIDE DEF w2
  <1>4. Same(w3) /\ w3.pending = s.pending \ {p}
    BY <1>0, <1>3
  <1>5. Unregister(s, p, rec) = w3
    BY DEF Unregister, w0, w1, w2, w3
  <1> HIDE DEF w3
  <1>6. OnThreadExit(s, p, rec) =
           [w3 EXCEPT !.runnable = Retain(@, p),
                      !.blocked = @ \ {p},
                      !.waiting = [a \in Addr |-> Retain(w3.waiting[a], p)],
                      !.sigPending[p] = NoSig,
                      !.pendingStart = @ \ {p},
                      !.stoppedPending = @ \ {p}]
    BY <1>5 DEF OnThreadExit
  <1> DEFINE f == OnThreadExit(s, p, rec)
  <1> HIDE DEF f
  <1>7. /\ f.threads = w3.threads /\ f.scheduled = w3.scheduled /\ f.clonePending = w3.clonePending
        /\ f.groupExiting = w3.groupExiting /\ f.err = w3.err /\ f.current = w3.current
        /\ f.resumed = w3.resumed /\ f.pending = w3.pending
    BY <1>6 DEF f
  <1>8. /\ f.pendingStart = w3.pendingStart \ {p} /\ f.stoppedPending = w3.stoppedPending \ {p}
        /\ f.sigPending = [w3.sigPending EXCEPT ![p] = NoSig]
    BY <1>0, <1>4, <1>6 DEF f
  <1>9. Unregisters(s, f, p)
    BY <1>4, <1>7, <1>8 DEF Unregisters
  <1> QED
    BY <1>9 DEF f

\* What changes when a thread that is on its way out goes one step further: nothing
\* for the others, of whom none waits in the kernel.
OneStepOut(t, t2, r, r2, s, s2, p) ==
    /\ \A q \in Pids \ {p} : t2[q] = t[q]
    /\ t2[p].sig \in {t[p].sig, NoSig}
    /\ r2 \subseteq r \cup {p} /\ \A q \in r \ {p} : t[q].at # "dying" => q \in r2
    /\ s2.threads = s2.scheduled /\ s2.pendingStart = s.pendingStart
    /\ s2.stoppedPending = s.stoppedPending /\ \A q \in Pids : s2.sigPending[q] = NoSig
    /\ s2.clonePending = s.clonePending /\ s2.groupExiting = s.groupExiting
    /\ s2.err = s.err /\ s2.current = s.current /\ s.pending \ {p} \subseteq s2.pending
    /\ \/ t2[p].at \in Leaving /\ s2.scheduled = s.scheduled
       \/ /\ t2[p].at = "reaped" /\ s2.scheduled = s.scheduled \ {p} /\ p # InitPid
          /\ p # s.current \/ s.groupExiting

\* A thread on its way out takes a step, and those that are left go on taking turns.
LEMMA LeavingMove ==
    ASSUME NEW t, NEW r, NEW s, NEW stk, NEW m, NEW t2, NEW r2, NEW s2, NEW m2, NEW p \in Pids,
           InTurn(t, r, s, stk, m), t \in [Pids -> Task], t[p].at \in Leaving, OneStepOut(t, t2, r, r2, s, s2, p),
           s.scheduled \subseteq Pids, s.stoppedPending \subseteq Pids,
           \A q \in s.scheduled : t[q].at \in ExecutingAt => q = s.current
    PROVE  /\ InTurn(t2, r2, s2, stk, m2)
           /\ \A q \in Pids : t[q].at # "asleep"
  <1>0. t[p].at \in {"dying", "exitstop", "final", "gone"} /\ t2[p].at \in Ending
    BY DEF OneStepOut, Leaving, Ending
  <1>1. p \in s.scheduled /\ p \notin s.pendingStart
    <2>1. p \in s.scheduled
      BY <1>0 DEF InTurn, AllScheduled, ToBeRegistered
    <2>2. p \notin s.pendingStart
      BY <1>0 DEF InTurn, Awaiting
    <2> QED
      BY <2>1, <2>2
  <1>2. p = s.current \/ s.groupExiting \/ ExecKills(t, s.current)
    BY <1>0, <1>1 DEF InTurn, OthersHeld, Held
  <1>3. \A q \in Pids : t[q].at \in ExecutingAt =>
           q = s.current /\ q # p /\ t[q].at = "kernel" /\ t[q].op.name \in {"exec", "exit_group"}
    <2> SUFFICES ASSUME NEW q \in Pids, t[q].at \in ExecutingAt
                 PROVE  q = s.current /\ q # p /\ t[q].at = "kernel" /\ t[q].op.name \in {"exec", "exit_group"}
      OBVIOUS
    <2>1. q \in s.scheduled
      BY DEF InTurn, AllScheduled, ToBeRegistered, ExecutingAt
    <2>2. q = s.current /\ q # p
      BY <1>0, <2>1 DEF ExecutingAt
    <2> QED
      BY <1>2, <2>2 DEF InTurn, SomebodysTurn, ExecKills, ExecutingAt, Ending
  <1>4. \A q \in Pids \ {p} : t2[q] = t[q]
    BY DEF OneStepOut
  <1>5. \A q \in Pids : CloneStopped(t2, r2, q) <=> CloneStopped(t, r, q)
    <2> SUFFICES ASSUME NEW q \in Pids PROVE CloneStopped(t2, r2, q) <=> CloneStopped(t, r, q)
      OBVIOUS
    <2>1. CASE q = p
      BY <1>0, <2>1 DEF CloneStopped, Ending
    <2>2. CASE q # p
      BY <1>4, <2>2 DEF CloneStopped, OneStepOut
    <2> QED
      BY <2>1, <2>2
  <1>6. /\ s2.threads = s2.scheduled /\ s2.pendingStart = s.pendingStart
        /\ s2.stoppedPending = s.stoppedPending /\ \A q \in Pids : s2.sigPending[q] = NoSig
        /\ s2.clonePending = s.clonePending /\ s2.groupExiting = s.groupExiting
        /\ s2.err = s.err /\ s2.current = s.current /\ s.pending \ {p} \subseteq s2.pending
        /\ s2.scheduled \subseteq s.scheduled /\ s.scheduled \ {p} \subseteq s2.scheduled
        /\ p \in s2.scheduled => t2[p].at \in Leaving
        /\ p \notin s2.scheduled => /\ t2[p].at = "reaped" /\ p # InitPid
                                    /\ p # s.current \/ s.groupExiting
    BY <1>1 DEF OneStepOut
  <1>7. NoSignalHeld(t2, s2)
    BY <1>4, <1>6 DEF InTurn, NoSignalHeld, OneStepOut, NoSig
  <1>8. EntryNoted(t2, r2, s2)
    <2>1. ASSUME NEW q \in Pids, CloneStopped(t, r, q) PROVE q # p /\ t[q].child # p
      BY <1>0, <2>1 DEF InTurn, EntryNoted, CloneStopped
    <2>2. ASSUME NEW q \in Pids, CloneStopped(t2, r2, q)
          PROVE  s2.clonePending[q].thread /\ t2[t2[q].child].at \in {"born", "attach"}
      <3>1. CloneStopped(t, r, q) /\ q # p /\ t[q].child # p /\ t2[q] = t[q]
        BY <1>4, <1>5, <2>1, <2>2
      <3>m. t[q].child \in Pids
        BY TaskFields
      <3>2. s.clonePending[q].thread /\ t[t[q].child].at \in {"born", "attach"}
        BY <3>1 DEF InTurn, EntryNoted
      <3> QED
        BY <1>4, <1>6, <3>1, <3>2, <3>m
    <2> QED
      BY <1>0, <1>4, <1>6, <2>2 DEF InTurn, EntryNoted, Ending
  <1>9. AllScheduled(t2, r2, s2)
    <2>1. ASSUME NEW q \in Pids \ s2.scheduled
          PROVE  t2[q].at \in {"unborn", "reaped"} \/ ToBeRegistered(t2, r2, q)
      <3>1. CASE q = p
        BY <1>6, <3>1
      <3>2. CASE q # p
        <4>1. q \notin s.scheduled /\ t2[q] = t[q]
          BY <1>4, <1>6, <3>2
        <4>2. CASE ToBeRegistered(t, r, q)
          <5>1. PICK x \in Pids : CloneStopped(t, r, x) /\ t[x].child = q
            BY <4>2 DEF ToBeRegistered
          <5>2. CloneStopped(t2, r2, x) /\ x # p
            BY <1>0, <1>5, <5>1 DEF CloneStopped
          <5> QED
            BY <1>4, <4>1, <4>2, <5>1, <5>2 DEF ToBeRegistered
        <4> QED
          BY <4>1, <4>2 DEF InTurn, AllScheduled
      <3> QED
        BY <3>1, <3>2
    <2>2. ASSUME NEW q \in s.stoppedPending PROVE t2[q].at = "attach" /\ q \notin r2
      <3>1. t[q].at = "attach" /\ q \notin r /\ q # p
        BY <1>0 DEF InTurn, AllScheduled
      <3>2. q \in Pids
        OBVIOUS
      <3> QED
        BY <1>4, <3>1, <3>2 DEF OneStepOut
    <2>3. InitPid \in s2.scheduled
      BY <1>6 DEF InTurn, AllScheduled
    <2> QED
      BY <1>6, <2>1, <2>2, <2>3 DEF AllScheduled
  <1>10. Awaiting(t2, r2, s2, stk)
    <2>1. CASE stk = <<>> /\ s.pendingStart = {}
      BY <1>6, <2>1 DEF Awaiting
    <2>2. ASSUME NEW ch \in s.scheduled, stk = <<<<s.current, ch>>>>, s.pendingStart = {ch},
                 t[s.current].at = "clonestop", s.current \notin r, t[ch].at \in {"born", "attach"}
          PROVE  Awaiting(t2, r2, s2, stk)
      <3>1. s.current \in Pids /\ s.current # p /\ ch # p
        BY <1>0, <2>2 DEF InTurn, SomebodysTurn
      <3>2. ch \in s2.scheduled /\ t2[s.current] = t[s.current] /\ t2[ch] = t[ch]
        BY <1>4, <1>6, <3>1
      <3>3. s.current \notin r2
        BY <2>2, <3>1 DEF OneStepOut
      <3> QED
        BY <1>6, <2>2, <3>2, <3>3 DEF Awaiting
    <2> QED
      BY <2>1, <2>2 DEF InTurn, Awaiting
  <1>11. OthersHeld(t2, r2, s2)
    <2> SUFFICES ASSUME NEW q \in s2.scheduled \ (s2.pendingStart \cup {s2.current})
                 PROVE  \/ Held(t2, r2, s2, q)
                        \/ (s2.groupExiting \/ ExecKills(t2, s2.current)) /\ t2[q].at \in Leaving
      BY DEF OthersHeld
    <2>1. q \in s.scheduled \ (s.pendingStart \cup {s.current})
      BY <1>6
    <2>2. ExecKills(t, s.current) => ExecKills(t2, s2.current)
      <3>1. s.current \in Pids
        BY DEF InTurn, SomebodysTurn
      <3>2. ExecKills(t, s.current) => s.current # p
        BY <1>0 DEF ExecKills
      <3> QED
        BY <1>4, <1>6, <3>1, <3>2 DEF ExecKills
    <2>3. CASE q = p
      BY <1>2, <1>6, <2>1, <2>2, <2>3
    <2>4. CASE q # p
      <3>1. t2[q] = t[q] /\ (Held(t, r, s, q) => Held(t2, r2, s2, q))
        BY <1>4, <1>6, <2>1, <2>4 DEF Held, OneStepOut
      <3> QED
        BY <1>6, <2>1, <2>2, <3>1 DEF InTurn, OthersHeld
    <2> QED
      BY <2>3, <2>4
  <1>12. SomebodysTurn(t2, s2)
    <2>1. s.current \in Pids /\ s.err = "ok" /\ (s.current \in s.scheduled \/ s.groupExiting)
      BY DEF InTurn, SomebodysTurn
    <2>2. s2.current \in s2.scheduled \/ s2.groupExiting
      BY <1>6, <2>1
    <2>3. ASSUME s.groupExiting
          PROVE  \/ t2[s.current].at = "kernel" /\ t2[s.current].op.name = "exit_group"
                 \/ t2[s.current].at \in Ending /\ \A q \in s2.scheduled : t2[q].at \in Leaving
      <3>1. CASE t[s.current].at = "kernel" /\ t[s.current].op.name = "exit_group"
        BY <1>0, <1>4, <2>1, <3>1
      <3>2. CASE t[s.current].at \in Ending /\ \A q \in s.scheduled : t[q].at \in Leaving
        <4>1. t2[s.current].at \in Ending
          BY <1>0, <1>4, <2>1, <3>2
        <4>2. \A q \in s2.scheduled : t2[q].at \in Leaving
          BY <1>4, <1>6, <3>2
        <4> QED
          BY <4>1, <4>2
      <3> QED
        BY <2>3, <3>1, <3>2 DEF InTurn, SomebodysTurn
    <2> QED
      BY <1>6, <2>1, <2>2, <2>3 DEF SomebodysTurn
  <1>13. WaitsAlone(t2, s2, m2)
    BY <1>0, <1>3, <1>4 DEF WaitsAlone, ExecutingAt, Ending
  <1>14. \A q \in Pids : t[q].at # "asleep"
    BY <1>3 DEF ExecutingAt
  <1> QED
    BY <1>7, <1>8, <1>9, <1>10, <1>11, <1>12, <1>13, <1>14 DEF InTurn

\* An exit event: the thread is let go, whoever it is.
LEMMA ExitEventTurn ==
    ASSUME IInv, ThreadInv, NEW p \in Pids, ExitEvent(p), OneGroup(task')
    PROVE  ThreadInv'
  <1> DEFINE s == ResumeThread(sv, p)
  <1>0. /\ sv.resumed = {} /\ task \in [Pids -> Task] /\ sv \in SupervisorType
        /\ sv.scheduled \subseteq Pids /\ sv.stoppedPending \subseteq Pids
    BY DEF IInv, TypeOK, SupervisorType
  <1>1. outcome = "running" /\ p \in reports /\ task[p].at = "exitstop" /\ Commit(p, task, s, stack)
    BY DEF ExitEvent, Reported
  <1>2. InTurn(task, reports, sv, stack, mem)
    BY <1>1 DEF ThreadInv
  <1>3. sv.sigPending[p] = NoSig /\ sv.current \in Pids /\ sv.err = "ok" /\ sv.threads = sv.scheduled
        /\ \A q \in Pids : sv.sigPending[q] = NoSig
    BY <1>2 DEF InTurn, NoSignalHeld, SomebodysTurn, AllScheduled
  <1>4. ResumesThread(sv, s, p, NoSig)
    BY <1>0, <1>3, ResumeFields
  <1> HIDE DEF s
  <1>5. s.resumed = {<<p, NoSig>>} /\ s.current = sv.current /\ s.pending = sv.pending /\ SameRest(sv, s)
    BY <1>0, <1>4 DEF ResumesThread
  <1>6. LoopTail(s, stack) = s
    BY <1>3, <1>5, PidsAssumption DEF LoopTail
  <1>7. /\ ResumedTo(task, task', p) /\ reports' \subseteq reports \ {p}
        /\ \A q \in reports \ {p} : task'[q].at # "dying" => q \in reports'
        /\ sv' = [s EXCEPT !.resumed = {}] /\ stack' = stack /\ outcome' = "running"
    <2>1. task[p].at \in Stops /\ NoSig # "fatal"
      BY <1>1 DEF Stops, NoSig
    <2>2. ResumesOne(p, task, s, stack, p)
      BY <1>0, <1>1, <1>5, <1>6, <2>1, CommitOne
    <2>3. s.err = "ok"
      BY <1>3, <1>5 DEF SameRest
    <2> QED
      BY <2>2, <2>3 DEF ResumesOne
  <1>8. task'[p].at = "final" /\ task'[p].sig = NoSig /\ \A q \in Pids \ {p} : task'[q] = task[q]
    BY <1>1, <1>7 DEF ResumedTo, NextAt
  <1>9. SameRest(sv, sv') /\ sv'.current = sv.current /\ sv'.pending = sv.pending
    BY <1>5, <1>7 DEF SameRest
  <1>11. /\ task[p].at \in Leaving /\ \A q \in sv.scheduled : task[q].at \in ExecutingAt => q = sv.current
    BY <1>1 DEF Leaving, Ending, IInv, Link, OnlyCurrentBusy, Busy
  <1>12. OneStepOut(task, task', reports, reports', sv, sv', p)
    <2>1. \A q \in reports \ {p} : task[q].at # "dying" => q \in reports'
      BY <1>0, <1>7, <1>8, KernelTypes
    <2>2. task'[p].at \in Leaving
      BY <1>8 DEF Leaving, Ending
    <2> QED
      BY <1>3, <1>7, <1>8, <1>9, <2>1, <2>2 DEF OneStepOut, SameRest
  <1>13. InTurn(task', reports', sv', stack, mem')
    BY <1>0, <1>2, <1>11, <1>12, LeavingMove
  <1> QED
    BY <1>7, <1>13 DEF ThreadInv

\* A thread is gone: the next one has its turn, unless they are all being ended.
LEMMA ExitedTurn ==
    ASSUME IInv, ThreadInv, NEW p \in Pids, ThreadExited(p), OneGroup(task')
    PROVE  ThreadInv'
  <1> DEFINE t == [task EXCEPT ![p].at = "reaped"]
             rec == sv.current = p
             s1 == OnThreadExit(sv, p, rec)
             r == reports \ {p}
  <1>0. /\ sv.resumed = {} /\ task \in [Pids -> Task] /\ sv \in SupervisorType
        /\ sv.scheduled \subseteq Pids /\ sv.stoppedPending \subseteq Pids /\ Resuming(sv) = {}
        /\ sv.sigPending \in [Pids -> Signal \cup {NoSig}]
    BY IInvParts DEF IInv, TypeOK, SupervisorType
  <1>1. /\ outcome = "running" /\ task[p].at = "gone" /\ p # InitPid
        /\ Commit(p, t, OnExited(sv, p), stack)
    BY DEF ThreadExited, Reapable
  <1>2. InTurn(task, reports, sv, stack, mem)
    BY <1>1 DEF ThreadInv
  <1>3. /\ \A q \in Pids : sv.sigPending[q] = NoSig /\ task[q].sig # "fatal"
        /\ sv.current \in Pids /\ sv.err = "ok" /\ sv.threads = sv.scheduled
        /\ p \in sv.scheduled /\ p \notin sv.stoppedPending /\ p \notin sv.pendingStart
    BY <1>1, <1>2 DEF InTurn, NoSignalHeld, SomebodysTurn, AllScheduled, ToBeRegistered, Awaiting
  <1>4. /\ t \in [Pids -> Task] /\ Inv(t, r, sv, stack) /\ t[p].at = "reaped"
    BY <1>1, ReapedTask
  <1>5. t[p].sig = task[p].sig /\ \A q \in Pids \ {p} : t[q] = task[q]
    BY <1>0 DEF Task
  <1>6. Unregisters(sv, s1, p)
    BY <1>0, <1>3, UnregisterFields
  <1>7. Inv(t, r, s1, stack) /\ p \notin s1.scheduled
    <2>1. rec \in BOOLEAN
      OBVIOUS
    <2> HIDE DEF rec, t, r
    <2> QED
      BY <1>0, <1>4, <2>1, RemoveInv
  <1>8. OnExited(sv, p) = IF sv.current = p /\ ~sv.groupExiting THEN ScheduleNext([s1 EXCEPT !.current = NoPid])
                                                               ELSE s1
    BY DEF OnExited
  <1> HIDE DEF s1, rec, t
  <1>9. /\ s1.threads = s1.scheduled /\ s1.scheduled = sv.scheduled \ {p}
        /\ s1.pendingStart = sv.pendingStart /\ s1.stoppedPending = sv.stoppedPending
        /\ \A q \in Pids : s1.sigPending[q] = NoSig
        /\ s1.clonePending = sv.clonePending /\ s1.groupExiting = sv.groupExiting
        /\ s1.err = "ok" /\ s1.current = sv.current /\ s1.resumed = {}
        /\ s1.pending = sv.pending \ {p}
    <2>1. \A q \in Pids : [sv.sigPending EXCEPT ![p] = NoSig][q] = NoSig
      BY <1>0, <1>3
    <2> QED
      BY <1>0, <1>3, <1>6, <2>1 DEF Unregisters
  <1>10. CASE sv.current = p /\ ~sv.groupExiting
    <2> DEFINE s == [s1 EXCEPT !.current = NoPid]
    <2>1. Inv(t, r, s, stack)
      BY <1>7, <1>9, <1>10, ClearCurrentInv
    <2>2. s \in SupervisorType /\ Bookkeeping(s) /\ s1 \in SupervisorType
      BY <1>7, <2>1 DEF Inv
    <2>3. Commit(p, t, ScheduleNext(s), stack)
      BY <1>1, <1>8, <1>10
    <2>4. SameRest(s1, s) /\ s.current = NoPid /\ s.resumed = s1.resumed /\ s.pending = s1.pending
      BY <2>2 DEF SupervisorType, SameRest
    <2> HIDE DEF s
    <2>5. stack = <<>> /\ sv.pendingStart = {}
      BY <1>1, <1>2, <1>10 DEF InTurn, Awaiting
    <2>6. /\ s.scheduled = sv.scheduled \ {p} /\ s.threads = s.scheduled /\ s.err = "ok" /\ s.resumed = {}
          /\ s.pendingStart = {} /\ ~s.groupExiting /\ s.stoppedPending = sv.stoppedPending
          /\ \A q \in Pids : s.sigPending[q] = NoSig
          /\ s.pending = sv.pending \ {p}
      BY <1>9, <1>10, <2>4, <2>5 DEF SameRest
    <2>7. NoSignalHeld(t, s)
      BY <1>3, <1>5, <2>6 DEF NoSignalHeld
    <2>8. AllScheduled(t, r, s)
      <3>1. ASSUME NEW q \in Pids \ s.scheduled
            PROVE  t[q].at \in {"unborn", "reaped"} \/ ToBeRegistered(t, r, q)
        <4>1. CASE q = p
          BY <1>4, <4>1
        <4>2. CASE q # p
          BY <1>1, <1>2, <1>5, <2>6, <4>2 DEF InTurn, AllScheduled, ToBeRegistered, CloneStopped
        <4> QED
          BY <4>1, <4>2
      <3>2. \A q \in s.stoppedPending : t[q].at = "attach" /\ q \notin r
        BY <1>0, <1>2, <1>3, <1>5, <2>6 DEF InTurn, AllScheduled
      <3>3. InitPid \in s.scheduled
        BY <1>1, <1>2, <2>6 DEF InTurn, AllScheduled
      <3> QED
        BY <2>6, <3>1, <3>2, <3>3 DEF AllScheduled
    <2>9. \A q \in s.scheduled : Held(t, r, s, q)
      BY <1>0, <1>1, <1>2, <1>5, <1>10, <2>5, <2>6 DEF InTurn, OthersHeld, ExecKills, Held
    <2> DEFINE u == ScheduleNext(s)
    <2>10. Commit(p, t, u, <<>>) /\ (u = s \/ u = ScheduleNext(s))
      BY <2>3, <2>5
    <2> HIDE DEF u
    <2> QED
      BY <1>4, <2>2, <2>4, <2>6, <2>7, <2>8, <2>9, <2>10, NextTurn DEF r
  <1>11. CASE ~(sv.current = p /\ ~sv.groupExiting)
    <2>1. Commit(p, t, s1, stack)
      BY <1>1, <1>8, <1>11
    <2>2. LoopTail(s1, stack) = s1
      BY <1>3, <1>9, PidsAssumption DEF LoopTail
    <2>3. /\ task' = t /\ reports' = {q \in reports \ {p} : t[q].at # "dying"}
          /\ sv' = [s1 EXCEPT !.resumed = {}] /\ stack' = stack /\ mem' = mem /\ outcome' = "running"
      <3>1. ResumesNobody(p, t, s1, stack)
        BY <1>4, <1>9, <2>1, <2>2, CommitNone
      <3> QED
        BY <1>9, <3>1 DEF ResumesNobody
    <2>4. /\ SameRest(s1, sv') /\ sv'.current = s1.current /\ sv'.pending = s1.pending
      BY <2>3 DEF SameRest
    <2>5. /\ task[p].at \in Leaving /\ \A q \in sv.scheduled : task[q].at \in ExecutingAt => q = sv.current
      BY <1>1 DEF Leaving, Ending, IInv, Link, OnlyCurrentBusy, Busy
    <2>6. OneStepOut(task, task', reports, reports', sv, sv', p)
      <3>1. /\ reports' \subseteq reports \cup {p}
            /\ \A q \in reports \ {p} : task[q].at # "dying" => q \in reports'
        BY <1>5, <2>3, KernelTypes
      <3>2. task'[p].at = "reaped" /\ task'[p].sig = task[p].sig /\ \A q \in Pids \ {p} : task'[q] = task[q]
        BY <1>4, <1>5, <2>3
      <3>3. /\ sv'.threads = sv'.scheduled /\ sv'.scheduled = sv.scheduled \ {p}
            /\ sv'.pendingStart = sv.pendingStart /\ sv'.stoppedPending = sv.stoppedPending
            /\ \A q \in Pids : sv'.sigPending[q] = NoSig
            /\ sv'.clonePending = sv.clonePending /\ sv'.groupExiting = sv.groupExiting
            /\ sv'.err = sv.err /\ sv'.current = sv.current /\ sv.pending \ {p} \subseteq sv'.pending
        BY <1>3, <1>9, <2>4 DEF SameRest
      <3> QED
        BY <1>1, <1>11, <3>1, <3>2, <3>3 DEF OneStepOut
    <2>7. InTurn(task', reports', sv', stack, mem')
      BY <1>0, <1>2, <2>5, <2>6, LeavingMove
    <2> QED
      BY <2>3, <2>7 DEF ThreadInv
  <1> QED
    BY <1>10, <1>11

\* run() gives the init the first turn.
LEMMA RunTurn ==
    ASSUME IInv, ThreadInv, Run, OneGroup(task')
    PROVE  ThreadInv'
  <1>0. task \in [Pids -> Task] /\ sv \in SupervisorType /\ Bookkeeping(sv) /\ InitPid \in Pids
    BY PidsAssumption DEF IInv, TypeOK
  <1>1. outcome = "idle" /\ Commit(InitPid, task, sv, <<>>)
    BY DEF Run
  <1>2. task = InitialTasks /\ reports = {} /\ sv = NewSupervisor
    BY <1>1 DEF ThreadInv
  <1>3. /\ sv.current = NoPid /\ sv.resumed = {} /\ sv.err = "ok" /\ sv.pendingStart = {} /\ ~sv.groupExiting
        /\ sv.scheduled = {InitPid} /\ sv.threads = {InitPid} /\ sv.stoppedPending = {}
        /\ sv.sigPending = [q \in Pids |-> NoSig]
    BY <1>2 DEF NewSupervisor
  <1>4. /\ \A q \in Pids : task[q].sig = NoSig /\ (q # InitPid => task[q].at = "unborn")
        /\ task[InitPid].at = "attach"
    BY <1>0, <1>2 DEF InitialTasks
  <1> DEFINE r == reports \ {InitPid}
  <1>5. NoSignalHeld(task, sv) /\ AllScheduled(task, r, sv)
    BY <1>3, <1>4 DEF NoSignalHeld, AllScheduled, NoSig
  <1>6. \A q \in sv.scheduled : Held(task, r, sv, q)
    BY <1>3, <1>4 DEF Held
  <1> QED
    BY <1>0, <1>1, <1>3, <1>5, <1>6, NextTurn

\* supervise() returns when everybody is gone.
LEMMA InitExitedTurn ==
    ASSUME IInv, ThreadInv, InitExited, OneGroup(task')
    PROVE  ThreadInv'
  <1>1. /\ task' = [task EXCEPT ![InitPid].at = "reaped"] /\ outcome' \in {"signaled", "exited"}
        /\ \A q \in Pids \ {InitPid} : task[q].at \in {"unborn", "reaped"}
    BY DEF InitExited, Reapable
  <1>2. \A q \in Pids : task'[q].at \in {"unborn", "reaped"}
    <2>1. task \in [Pids -> Task] /\ InitPid \in Pids
      BY KernelTypes, PidsAssumption
    <2> QED
      BY <1>1, <2>1 DEF Task
  <1> QED
    BY <1>1, <1>2 DEF ThreadInv

\* The supervisor's steps.
LEMMA SupervisorTurn ==
    ASSUME IInv, AttachOnly, PairInv, ThreadInv, NEW p \in Pids, SupervisorStep(p)
    PROVE  ThreadInv'
  <1>1. OneGroup(task')
    BY SupervisorGroup DEF ThreadInv
  <1>2. OtherSigstop(p) => task[p].at \in {"attach", "signal"}
    BY DEF OtherSigstop, ReportedSigstop, Reported
  <1> QED
    BY <1>1, <1>2, EntryTurn, ExitTurn, CloneTurn, ExitEventTurn, EventTurn, AwaitedTurn, OtherAttachTurn,
       ExitedTurn DEF SupervisorStep

-----------------------------------------------------------------------------
(* ThreadInv: the kernel's steps *)

\* A task that moves does so in a run, and the one that executes has the turn: the
\* others wait, unless it ends them.
LEMMA MoverTurn ==
    ASSUME IInv, ThreadInv, NEW p \in Pids, task[p].at \in Running
    PROVE  outcome = "running" /\ InTurn(task, reports, sv, stack, mem)
  <1>1. outcome # "idle"
    BY DEF ThreadInv, InitialTasks, Running
  <1>2. outcome \notin {"deadlock", "exited", "signaled", "ptrace"}
    BY DEF ThreadInv, Running, Stops
  <1> QED
    BY <1>1, <1>2 DEF ThreadInv, IInv, TypeOK, Outcomes

\* The same for one that executes guest code or a syscall.
LEMMA ExecutorTurn ==
    ASSUME IInv, ThreadInv, NEW p \in Pids, task[p].at \in ExecutingAt
    PROVE  /\ outcome = "running" /\ InTurn(task, reports, sv, stack, mem)
           /\ sv.current = p /\ p \in sv.scheduled /\ stack = <<>> /\ sv.pendingStart = {}
           /\ \A q \in sv.scheduled \ {p} : Held(task, reports, sv, q) \/ task[q].at \in Leaving
           /\ ~(task[p].at = "kernel" /\ task[p].op.name \in {"exec", "exit_group"}) =>
                 ~sv.groupExiting /\ \A q \in sv.scheduled \ {p} : Held(task, reports, sv, q)
           /\ \A q \in Pids \ sv.scheduled : task[q].at \in {"unborn", "reaped"}
           /\ \A q \in Pids \ {p} : task[q].at \notin ExecutingAt
           /\ sv.stoppedPending = {}
  <1>1. outcome = "running" /\ InTurn(task, reports, sv, stack, mem)
    BY MoverTurn DEF ExecutingAt, Running
  <1>2. sv.threads = sv.scheduled /\ sv.scheduled \subseteq Pids /\ sv.stoppedPending \subseteq Pids
        /\ sv.stoppedPending \cap sv.scheduled = {}
    BY <1>1 DEF InTurn, AllScheduled, IInv, TypeOK, SupervisorType, Bookkeeping
  <1>3. p \in sv.scheduled /\ sv.current = p
    BY <1>2 DEF IInv, Link, Unregistered, OnlyCurrentBusy, Busy
  <1>4. stack = <<>> /\ sv.pendingStart = {}
    BY <1>1, <1>3 DEF InTurn, Awaiting, ExecutingAt
  <1>5. \A q \in sv.scheduled \ {p} :
           \/ Held(task, reports, sv, q)
           \/ (sv.groupExiting \/ ExecKills(task, p)) /\ task[q].at \in Leaving
    BY <1>1, <1>3, <1>4 DEF InTurn, OthersHeld
  <1>6. ~(task[p].at = "kernel" /\ task[p].op.name \in {"exec", "exit_group"}) =>
           ~sv.groupExiting /\ ~ExecKills(task, p)
    BY <1>1, <1>3 DEF InTurn, SomebodysTurn, ExecKills, ExecutingAt, Ending
  <1>7. \A q \in sv.scheduled : ~CloneStopped(task, reports, q)
    BY <1>3, <1>5 DEF Held, CloneStopped, Leaving, Ending, ExecutingAt
  <1>8. \A q \in Pids \ sv.scheduled : task[q].at \in {"unborn", "reaped"}
    BY <1>1, <1>7, AllKnown DEF InTurn
  <1>9. \A q \in Pids \ {p} : task[q].at \notin ExecutingAt
    BY <1>3, <1>5, <1>8 DEF Held, Leaving, Ending, ExecutingAt
  <1>10. sv.stoppedPending = {}
    BY <1>1, <1>2, <1>8 DEF InTurn, AllScheduled
  <1> QED
    BY <1>1, <1>3, <1>4, <1>5, <1>6, <1>8, <1>9, <1>10

\* The one whose turn it is goes on while the others wait.
LEMMA MoveCurrent ==
    ASSUME IInv, ThreadInv, NEW p \in Pids, task[p].at \in ExecutingAt,
           ~(task[p].at = "kernel" /\ task[p].op.name = "exit_group"),
           task[p].at = "kernel" /\ task[p].op.name = "exec" => sv.scheduled = {p},
           \A q \in Pids \ {p} : task'[q] = task[q],
           task'[p].at \in {"entry", "exitcall", "asleep", "return", "dying", "signal", "execstop"},
           task'[p].at = "asleep" /\ task'[p].op.name \in {"wait", "timedwait"} => sv.scheduled = {p},
           task'[p].sig # "fatal",
           reports' \subseteq reports \cup {p}, UNCHANGED svVars, OneGroup(task')
    PROVE  ThreadInv'
  <1>0. /\ outcome = "running" /\ InTurn(task, reports, sv, stack, mem)
        /\ sv.current = p /\ p \in sv.scheduled /\ stack = <<>> /\ sv.pendingStart = {}
        /\ \A q \in Pids \ sv.scheduled : task[q].at \in {"unborn", "reaped"}
        /\ \A q \in Pids \ {p} : task[q].at \notin ExecutingAt
        /\ sv.stoppedPending = {}
    BY ExecutorTurn
  <1>1. ~sv.groupExiting /\ \A q \in sv.scheduled \ {p} : Held(task, reports, sv, q)
    <2>1. CASE task[p].at = "kernel" /\ task[p].op.name = "exec"
      BY <1>0, <2>1 DEF InTurn, SomebodysTurn, Ending
    <2>2. CASE ~(task[p].at = "kernel" /\ task[p].op.name = "exec")
      BY <2>2, ExecutorTurn
    <2> QED
      BY <2>1, <2>2
  <1>2. sv' = sv /\ stack' = stack /\ outcome' = outcome /\ sv.scheduled \subseteq Pids
    BY DEF svVars, IInv, TypeOK, SupervisorType
  <1>3. \A q \in Pids : task'[q].at # "kernel" /\ (q # p => task'[q].at # "asleep" /\ task'[q] = task[q])
                        /\ ~CloneStopped(task', reports', q)
    <2> SUFFICES ASSUME NEW q \in Pids
                 PROVE  task'[q].at # "kernel" /\ (q # p => task'[q].at # "asleep" /\ task'[q] = task[q])
                        /\ ~CloneStopped(task', reports', q)
      OBVIOUS
    <2>1. CASE q = p
      BY <2>1 DEF CloneStopped
    <2>2. CASE q # p
      BY <1>0, <1>1, <2>2 DEF CloneStopped, Held, ExecutingAt
    <2> QED
      BY <2>1, <2>2
  <1>4. NoSignalHeld(task', sv)
    BY <1>0, <1>3 DEF InTurn, NoSignalHeld
  <1>5. EntryNoted(task', reports', sv)
    BY <1>3 DEF EntryNoted
  <1>6. AllScheduled(task', reports', sv)
    BY <1>0, <1>3 DEF InTurn, AllScheduled
  <1>7. Awaiting(task', reports', sv, <<>>)
    BY <1>0 DEF Awaiting
  <1>8. OthersHeld(task', reports', sv)
    BY <1>0, <1>1, <1>2, <1>3 DEF OthersHeld, Held
  <1>9. SomebodysTurn(task', sv)
    BY <1>0, <1>1 DEF InTurn, SomebodysTurn
  <1>10. WaitsAlone(task', sv, mem')
    BY <1>3 DEF WaitsAlone
  <1>11. InTurn(task', reports', sv', stack', mem')
    BY <1>0, <1>2, <1>4, <1>5, <1>6, <1>7, <1>8, <1>9, <1>10 DEF InTurn
  <1> QED
    BY <1>0, <1>2, <1>11 DEF ThreadInv

\* Steps that only move the one whose turn it is.
LEMMA SimpleTurn ==
    ASSUME IInv, PairInv, ThreadInv, NEW p \in Pids, OneGroup(task'),
           \/ ExecuteSimple(p) \/ ExecuteWait(p) \/ ExecuteLock(p) \/ ExecuteExit(p)
           \/ ExecutePipe(p) \/ WakeUp(p) \/ Return(p)
    PROVE  ThreadInv'
  <1>0. task \in [Pids -> Task] /\ task[p] \in Task /\ {"asleep", "return", "exitcall", "dying"} \subseteq Where
    BY KernelTypes DEF Where, Running, Stops
  <1>1. \E at \in {"asleep", "return", "exitcall", "dying"} : task' = [task EXCEPT ![p].at = at]
    BY DEF ExecuteSimple, ExecuteWait, ExecuteLock, ExecuteExit, ExecutePipe, WakeUp, Return, StopAt
  <1>2. PICK at \in {"asleep", "return", "exitcall", "dying"} : task' = [task EXCEPT ![p].at = at]
    BY <1>1
  <1>3. /\ \A q \in Pids \ {p} : task'[q] = task[q]
        /\ task'[p].at = at /\ task'[p].op = task[p].op /\ task'[p].sig = task[p].sig
    BY <1>0, <1>2 DEF Task
  <1>4. reports' \subseteq reports \cup {p} /\ UNCHANGED svVars /\ task[p].at \in ExecutingAt
    BY DEF ExecuteSimple, ExecuteWait, ExecuteLock, ExecuteExit, ExecutePipe, WakeUp, Return, StopAt, ExecutingAt
  <1>5. task'[p].sig # "fatal"
    BY <1>3, <1>4, ExecutorTurn DEF InTurn, NoSignalHeld
  <1>6. ~(task[p].at = "kernel" /\ task[p].op.name \in {"exec", "exit_group"})
    <2>1. CASE ExecuteSimple(p)
      <3>1. task[p].at = "kernel" /\ task[p].op.name \notin Injected => p \notin sv.pending
        BY NotReplaced
      <3> QED
        BY <2>1, <3>1 DEF ExecuteSimple, Injected, FutexOps, PassedOps
    <2>2. CASE ~ExecuteSimple(p)
      BY <2>2 DEF ExecuteWait, ExecuteLock, ExecuteExit, ExecutePipe, WakeUp, Return
    <2> QED
      BY <2>1, <2>2
  <1>7. task'[p].at = "asleep" /\ task'[p].op.name \in {"wait", "timedwait"} => sv.scheduled = {p}
    <2> SUFFICES ASSUME task'[p].at = "asleep", task[p].op.name \in {"wait", "timedwait"} PROVE sv.scheduled = {p}
      BY <1>3
    <2>1. ~ExecuteSimple(p) /\ ~ExecuteExit(p) /\ ~WakeUp(p) /\ ~Return(p)
      <3>1. ASSUME NEW a, a # "asleep", task' = [task EXCEPT ![p].at = a] PROVE FALSE
        BY <1>0, <3>1 DEF Task
      <3> QED
        BY <3>1 DEF ExecuteSimple, ExecuteExit, WakeUp, Return, StopAt
    <2>2. ~ExecutePipe(p) /\ ~ExecuteLock(p)
      BY DEF ExecutePipe, ExecuteLock
    <2>3. ExecuteWait(p)
      BY <2>1, <2>2
    <2>4. mem[task[p].tgid][task[p].op.addr] = task[p].op.val
      <3>1. ASSUME StopAt(p, "exitcall") PROVE FALSE
        BY <1>0, <3>1 DEF StopAt, Task
      <3> QED
        BY <2>3, <3>1 DEF ExecuteWait, Word
    <2>5. WaitsAlone(task, sv, mem)
      BY <1>4, ExecutorTurn DEF InTurn
    <2> QED
      BY <2>3, <2>4, <2>5 DEF ExecuteWait, WaitsAlone
  <1> QED
    BY <1>3, <1>4, <1>5, <1>6, <1>7, MoveCurrent

\* User code, and a signal to it.
LEMMA UserTurn ==
    ASSUME NoFatalSignals, IInv, ThreadInv, NEW p \in Pids, UserStep(p) \/ SignalArrives(p), OneGroup(task')
    PROVE  ThreadInv'
  <1>0. task \in [Pids -> Task] /\ task[p] \in Task
    BY KernelTypes
  <1>1. /\ task[p].at = "user" /\ reports' = reports \cup {p} /\ UNCHANGED svVars
        /\ \/ \E op, to : task' = [task EXCEPT ![p].at = "entry", ![p].op = op, ![p].label = to]
           \/ \E sig \in Signals \ {"kill"} : task' = [task EXCEPT ![p].at = "signal", ![p].sig = sig]
    <2>1. CASE UserStep(p)
      BY <2>1 DEF UserStep
    <2>2. CASE SignalArrives(p)
      BY <2>2 DEF SignalArrives, NoFatalSignals
    <2> QED
      BY <2>1, <2>2
  <1>2. task[p].at \in ExecutingAt /\ task[p].sig # "fatal"
    <2>1. task[p].at \in ExecutingAt
      BY <1>1 DEF ExecutingAt
    <2> QED
      BY <2>1, ExecutorTurn DEF InTurn, NoSignalHeld
  <1>3. /\ \A q \in Pids \ {p} : task'[q] = task[q]
        /\ task'[p].at \in {"entry", "signal"} /\ task'[p].sig # "fatal"
    <2>1. ASSUME NEW op, NEW to, task' = [task EXCEPT ![p].at = "entry", ![p].op = op, ![p].label = to]
          PROVE  /\ \A q \in Pids \ {p} : task'[q] = task[q]
                 /\ task'[p].at = "entry" /\ task'[p].sig = task[p].sig
      BY <1>0, <2>1 DEF Task
    <2>2. ASSUME NEW sig, task' = [task EXCEPT ![p].at = "signal", ![p].sig = sig]
          PROVE  /\ \A q \in Pids \ {p} : task'[q] = task[q]
                 /\ task'[p].at = "signal" /\ task'[p].sig = sig
      BY <1>0, <2>2 DEF Task
    <2> QED
      BY <1>1, <1>2, <2>1, <2>2 DEF NoFatalSignals
  <1> QED
    BY <1>1, <1>2, <1>3, MoveCurrent

\* A wake passed to the kernel: nobody sleeps there but the one whose turn it is.
LEMMA WakeTurn ==
    ASSUME IInv, ThreadInv, NEW p \in Pids, ExecuteWake(p), OneGroup(task')
    PROVE  ThreadInv'
  <1>0. task \in [Pids -> Task] /\ task[p] \in Task
    BY KernelTypes
  <1>1. /\ task[p].at = "kernel" /\ task[p].op.name \notin {"exec", "exit_group"}
        /\ reports' = reports \cup {p} /\ UNCHANGED svVars
    BY DEF ExecuteWake
  <1>2. PICK ops, W :
           /\ W \subseteq Sleepers(task[p].tgid, task[p].op.addr, ops)
           /\ task' = [q \in Pids |->
                         IF q = p THEN [task[q] EXCEPT !.at = "exitcall"]
                         ELSE IF q \in W THEN [task[q] EXCEPT !.at = "return"]
                         ELSE task[q]]
    BY DEF ExecuteWake
  <1>3. task[p].at \in ExecutingAt
    BY <1>1 DEF ExecutingAt
  <1>4. task[p].sig # "fatal" /\ \A q \in Pids \ {p} : task[q].at # "asleep"
    BY <1>3, ExecutorTurn DEF InTurn, NoSignalHeld, ExecutingAt
  <1>5. /\ \A q \in Pids \ {p} : task'[q] = task[q]
        /\ task'[p] = [task[p] EXCEPT !.at = "exitcall"]
    <2>1. \A q \in Pids \ {p} : q \notin W
      BY <1>2, <1>4 DEF Sleepers
    <2> QED
      BY <1>2, <2>1
  <1>6. task'[p].at = "exitcall" /\ task'[p].sig = task[p].sig
    BY <1>0, <1>5 DEF Task
  <1> QED
    BY <1>1, <1>3, <1>4, <1>5, <1>6, MoveCurrent

\* A thread is made: it is to be registered.
LEMMA ExecuteCloneTurn ==
    ASSUME NoForks, IInv, ThreadInv, NEW p \in Pids, ExecuteClone(p), OneGroup(task')
    PROVE  ThreadInv'
  <1>0. task \in [Pids -> Task] /\ task[p] \in Task
    BY KernelTypes
  <1>1. /\ task[p].at = "kernel" /\ task[p].op.name = "clone"
        /\ reports' = reports \cup {p} /\ UNCHANGED svVars
    BY GuestForks DEF ExecuteClone, ThreadInv, OneGroup
  <1>2. PICK c \in Pids :
          /\ task[c].at = "unborn"
          /\ task' = [task EXCEPT
                ![p].at = "clonestop", ![p].child = c,
                ![c].at = "born", ![c].label = task[p].op.entry,
                ![c].tgid = IF task[p].op.name = "clone" THEN task[p].tgid ELSE c,
                ![c].ctid = IF task[p].op.name = "rawfork" THEN NoAddr ELSE task[p].op.addr]
    BY DEF ExecuteClone
  <1>3. c # p /\ task[c] \in Task
    BY <1>0, <1>1, <1>2
  <1>4. /\ \A q \in Pids \ {p, c} : task'[q] = task[q]
        /\ task'[p].at = "clonestop" /\ task'[p].child = c /\ task'[p].sig = task[p].sig
        /\ task'[c].at = "born" /\ task'[c].sig = task[c].sig
    BY <1>0, <1>2, <1>3 DEF Task
  <1>5. task[p].at \in ExecutingAt
    BY <1>1 DEF ExecutingAt
  <1>6. /\ outcome = "running" /\ InTurn(task, reports, sv, stack, mem)
        /\ sv.current = p /\ p \in sv.scheduled /\ stack = <<>> /\ sv.pendingStart = {}
        /\ \A q \in Pids \ sv.scheduled : task[q].at \in {"unborn", "reaped"}
        /\ \A q \in Pids \ {p} : task[q].at \notin ExecutingAt
        /\ sv.stoppedPending = {}
        /\ ~sv.groupExiting /\ \A q \in sv.scheduled \ {p} : Held(task, reports, sv, q)
    BY <1>1, <1>5, ExecutorTurn
  <1>7. sv' = sv /\ stack' = stack /\ outcome' = outcome /\ sv.scheduled \subseteq Pids
    BY <1>1 DEF svVars, IInv, TypeOK, SupervisorType
  <1>8. c \notin sv.scheduled
    BY <1>2, <1>3, <1>6 DEF Held
  <1>9. \A q \in Pids : /\ task'[q].at \notin {"kernel", "asleep"}
                        /\ CloneStopped(task', reports', q) => q = p
    <2> SUFFICES ASSUME NEW q \in Pids
                 PROVE  task'[q].at \notin {"kernel", "asleep"} /\ (CloneStopped(task', reports', q) => q = p)
      OBVIOUS
    <2>1. CASE q \in {p, c}
      BY <1>4, <2>1 DEF CloneStopped
    <2>2. CASE q \notin {p, c}
      <3>1. task'[q] = task[q] /\ task[q].at \notin ExecutingAt
        BY <1>4, <1>6, <2>2
      <3>2. task[q].at # "clonestop" \/ q \notin reports
        BY <1>6, <2>2 DEF Held
      <3> QED
        BY <1>1, <2>2, <3>1, <3>2 DEF CloneStopped, ExecutingAt
    <2> QED
      BY <2>1, <2>2
  <1>10. NoSignalHeld(task', sv)
    BY <1>4, <1>6 DEF InTurn, NoSignalHeld
  <1>11. EntryNoted(task', reports', sv)
    <2>1. sv.clonePending[p].thread
      BY <1>1, <1>6 DEF InTurn, EntryNoted
    <2> QED
      BY <1>4, <1>9, <2>1 DEF EntryNoted
  <1>12. AllScheduled(task', reports', sv)
    <2>1. CloneStopped(task', reports', p)
      BY <1>1, <1>4 DEF CloneStopped
    <2>2. ToBeRegistered(task', reports', c)
      BY <1>4, <2>1 DEF ToBeRegistered
    <2> QED
      BY <1>4, <1>6, <2>2 DEF InTurn, AllScheduled
  <1>13. Awaiting(task', reports', sv, <<>>)
    BY <1>6 DEF Awaiting
  <1>14. OthersHeld(task', reports', sv)
    BY <1>1, <1>4, <1>6, <1>7, <1>8 DEF OthersHeld, Held
  <1>15. SomebodysTurn(task', sv)
    BY <1>6 DEF InTurn, SomebodysTurn
  <1>16. WaitsAlone(task', sv, mem')
    BY <1>9 DEF WaitsAlone
  <1>17. InTurn(task', reports', sv', stack', mem')
    BY <1>6, <1>7, <1>10, <1>11, <1>12, <1>13, <1>14, <1>15, <1>16 DEF InTurn
  <1> QED
    BY <1>6, <1>7, <1>17 DEF ThreadInv

\* The one whose turn it is ends the others, itself included or not.
LEMMA DoomTurn ==
    ASSUME IInv, ThreadInv, NEW p \in Pids, task[p].at = "kernel", OneGroup(task'),
           NEW S, task' = Doom(task, S, FALSE), reports' = reports \ Doomed(task, S), UNCHANGED svVars,
           \A q \in Pids \ {p} : task[q].at \notin {"unborn", "reaped"} => q \in S,
           \/ task[p].op.name = "exec" /\ p \notin S
           \/ task[p].op.name = "exit_group" /\ p \in S
    PROVE  ThreadInv'
  <1>0. task \in [Pids -> Task] /\ task[p] \in Task /\ task[p].at \in ExecutingAt
    BY KernelTypes DEF ExecutingAt
  <1>1. /\ outcome = "running" /\ InTurn(task, reports, sv, stack, mem)
        /\ sv.current = p /\ p \in sv.scheduled /\ stack = <<>> /\ sv.pendingStart = {}
        /\ \A q \in sv.scheduled \ {p} : Held(task, reports, sv, q) \/ task[q].at \in Leaving
        /\ \A q \in Pids \ sv.scheduled : task[q].at \in {"unborn", "reaped"}
        /\ \A q \in Pids \ {p} : task[q].at \notin ExecutingAt
        /\ sv.stoppedPending = {}
    BY <1>0, ExecutorTurn
  <1>2. sv' = sv /\ stack' = stack /\ outcome' = outcome /\ sv.scheduled \subseteq Pids
    BY DEF svVars, IInv, TypeOK, SupervisorType
  <1>3. \A q \in Pids :
           /\ task'[q].sig = task[q].sig /\ task'[q].op = task[q].op
           /\ q \in S /\ task[q].at \in Killable => task'[q].at = "dying"
           /\ ~(q \in S /\ task[q].at \in Killable) => task'[q].at = task[q].at
    BY <1>0 DEF Doom, Doomed, Task
  <1>4. \A q \in sv.scheduled \ {p} : task'[q].at \in Leaving
    <2> SUFFICES ASSUME NEW q \in sv.scheduled \ {p} PROVE task'[q].at \in Leaving
      OBVIOUS
    <2>1. CASE Held(task, reports, sv, q)
      <3>1. q \in S /\ task[q].at \in Killable
        BY <1>2, <2>1 DEF Held, Killable, Running, Stops
      <3> QED
        BY <1>2, <1>3, <3>1 DEF Leaving, Ending
    <2>2. CASE task[q].at \in Leaving
      <3>1. task'[q].at \in {task[q].at, "dying"}
        BY <1>2, <1>3
      <3> QED
        BY <2>2, <3>1 DEF Leaving, Ending
    <2> QED
      BY <1>1, <2>1, <2>2
  <1>5. \A q \in Pids \ sv.scheduled : task'[q].at \in {"unborn", "reaped"}
    BY <1>1, <1>3 DEF Killable, Running, Stops
  <1>6. /\ task[p].op.name = "exec" => task'[p].at = "kernel"
        /\ task[p].op.name = "exit_group" => task'[p].at = "dying" /\ sv.groupExiting
    BY <1>1, <1>3 DEF Killable, Running, InTurn, EntryNoted
  <1>7. NoSignalHeld(task', sv)
    <2>1. \A q \in Pids : sv.sigPending[q] = NoSig /\ task[q].sig # "fatal"
      BY <1>1 DEF InTurn, NoSignalHeld
    <2>2. \A q \in Pids : task'[q].sig = task[q].sig
      BY <1>3
    <2> QED
      BY <2>1, <2>2 DEF NoSignalHeld
  <1>8. \A q \in Pids : /\ ~CloneStopped(task', reports', q) /\ task'[q].at # "asleep"
                        /\ task'[q].at = "kernel" => task'[q].op.name = "exec"
    <2> SUFFICES ASSUME NEW q \in Pids
                 PROVE  /\ task'[q].at \notin {"clonestop", "asleep"}
                        /\ task'[q].at = "kernel" => task'[q].op.name = "exec"
      BY DEF CloneStopped
    <2>1. CASE q = p
      BY <1>3, <1>6, <2>1
    <2>2. CASE q # p
      BY <1>4, <1>5, <2>2 DEF Leaving, Ending
    <2> QED
      BY <2>1, <2>2
  <1>9. EntryNoted(task', reports', sv) /\ WaitsAlone(task', sv, mem')
    BY <1>8 DEF EntryNoted, WaitsAlone
  <1>10. AllScheduled(task', reports', sv)
    BY <1>1, <1>5 DEF InTurn, AllScheduled
  <1>11. Awaiting(task', reports', sv, <<>>)
    BY <1>1 DEF Awaiting
  <1>12. OthersHeld(task', reports', sv)
    BY <1>1, <1>3, <1>4, <1>6 DEF OthersHeld, ExecKills
  <1>13. SomebodysTurn(task', sv)
    <2>1. task[p].op.name = "exec" => ~sv.groupExiting
      BY <1>1 DEF InTurn, SomebodysTurn, Ending
    <2>2. task[p].op.name = "exit_group" => \A q \in sv.scheduled : task'[q].at \in Leaving
      BY <1>4, <1>6 DEF Leaving, Ending
    <2> QED
      BY <1>1, <1>6, <2>1, <2>2 DEF InTurn, SomebodysTurn, Ending
  <1>14. InTurn(task', reports', sv', stack', mem')
    BY <1>1, <1>2, <1>7, <1>9, <1>10, <1>11, <1>12, <1>13 DEF InTurn
  <1> QED
    BY <1>1, <1>2, <1>14 DEF ThreadInv

\* exec and exit_group.
LEMMA KillTurn ==
    ASSUME IInv, ThreadInv, NEW p \in Pids, ExecuteExec(p) \/ ExecuteExitGroup(p), OneGroup(task')
    PROVE  ThreadInv'
  <1>0. task \in [Pids -> Task] /\ task[p] \in Task /\ "execstop" \in Where
    BY KernelTypes DEF Where, Stops
  <1>1. task[p].at = "kernel" /\ task[p].at \in ExecutingAt /\ UNCHANGED svVars
    BY DEF ExecuteExec, ExecuteExitGroup, ExecutingAt
  <1>2. \A q \in Pids : task[q].at # "unborn" => q \in Group(task, p)
    BY <1>1 DEF Group, ThreadInv, OneGroup
  <1>3. CASE ExecuteExitGroup(p)
    <2>1. /\ task' = Doom(task, Group(task, p), FALSE) /\ task[p].op.name = "exit_group"
          /\ reports' = reports \ Doomed(task, Group(task, p)) /\ p \in Group(task, p)
      BY <1>1, <1>2, <1>3 DEF ExecuteExitGroup
    <2> QED
      BY <1>1, <1>2, <2>1, DoomTurn
  <1>4. CASE ExecuteExec(p)
    <2> DEFINE others == {q \in Group(task, p) : q # p /\ task[q].at # "reaped"}
    <2>1. /\ task[p].op.name = "exec"
          /\ others = {} => StopAt(p, "execstop")
          /\ others # {} => /\ task' = Doom(task, others, FALSE)
                            /\ reports' = reports \ Doomed(task, others)
      BY <1>4 DEF ExecuteExec
    <2>2. \A q \in Pids \ {p} : task[q].at \notin {"unborn", "reaped"} => q \in others
      BY <1>2
    <2>3. p \notin others
      OBVIOUS
    <2> HIDE DEF others
    <2>4. CASE others # {}
      BY <1>1, <2>1, <2>2, <2>3, <2>4, DoomTurn
    <2>5. CASE others = {}
      <3>1. task' = [task EXCEPT ![p].at = "execstop"] /\ reports' = reports \cup {p}
        BY <2>1, <2>5 DEF StopAt
      <3>2. /\ \A q \in Pids \ {p} : task'[q] = task[q]
            /\ task'[p].at = "execstop" /\ task'[p].sig = task[p].sig
        BY <1>0, <3>1 DEF Task
      <3>3. sv.scheduled = {p} /\ task[p].sig # "fatal"
        <4>1. /\ p \in sv.scheduled
              /\ \A q \in sv.scheduled \ {p} : Held(task, reports, sv, q) \/ task[q].at \in Leaving
          BY <1>1, ExecutorTurn
        <4>2. sv.scheduled \subseteq Pids
          BY DEF IInv, TypeOK, SupervisorType
        <4>3. \A q \in sv.scheduled \ {p} : task[q].at \notin {"unborn", "reaped"}
          BY <4>1 DEF Held, Leaving, Ending
        <4>4. task[p].sig # "fatal"
          BY <1>1, ExecutorTurn DEF InTurn, NoSignalHeld
        <4> QED
          BY <2>2, <2>5, <4>1, <4>2, <4>3, <4>4
      <3> QED
        BY <1>1, <2>1, <3>1, <3>2, <3>3, MoveCurrent
    <2> QED
      BY <2>4, <2>5
  <1> QED
    BY <1>3, <1>4

\* A new thread raises its attach stop.
LEMMA AttachTurn ==
    ASSUME IInv, ThreadInv, NEW p \in Pids, Attach(p), OneGroup(task')
    PROVE  ThreadInv'
  <1>0. task \in [Pids -> Task] /\ task[p] \in Task /\ sv.scheduled \subseteq Pids
        /\ sv.stoppedPending \subseteq Pids
    BY KernelTypes DEF IInv, TypeOK, SupervisorType
  <1>1. /\ task[p].at = "born" /\ task' = [task EXCEPT ![p].at = "attach"]
        /\ reports' = reports \cup {p} /\ UNCHANGED svVars /\ mem' = mem
    BY DEF Attach, StopAt
  <1>2. outcome = "running" /\ InTurn(task, reports, sv, stack, mem)
    BY <1>1, MoverTurn DEF Running
  <1>3. /\ \A q \in Pids \ {p} : task'[q] = task[q]
        /\ task'[p].at = "attach" /\ task'[p].sig = task[p].sig /\ task'[p].op = task[p].op
        /\ task'[p].child = task[p].child /\ task'[p].tgid = task[p].tgid
    BY <1>0, <1>1 DEF Task
  <1>4. sv' = sv /\ stack' = stack /\ outcome' = outcome
    BY <1>1 DEF svVars
  <1>5. p \notin sv.stoppedPending /\ (p \in sv.scheduled => p \in sv.pendingStart) /\ p # sv.current
    <2>1. p \notin sv.stoppedPending /\ (p \in sv.threads => p \in sv.pendingStart)
          /\ sv.threads = sv.scheduled
      BY <1>1, <1>2 DEF IInv, Link, AttachAhead, InTurn, AllScheduled
    <2>2. p # sv.current
      BY <1>1, <1>2, <2>1 DEF IInv, Bookkeeping, InTurn, SomebodysTurn, Ending
    <2> QED
      BY <2>1, <2>2
  <1>6. \A q \in Pids : CloneStopped(task', reports', q) <=> CloneStopped(task, reports, q)
    <2> SUFFICES ASSUME NEW q \in Pids PROVE CloneStopped(task', reports', q) <=> CloneStopped(task, reports, q)
      OBVIOUS
    <2>1. CASE q = p
      BY <1>1, <1>3, <2>1 DEF CloneStopped
    <2>2. CASE q # p
      BY <1>1, <1>3, <2>2 DEF CloneStopped
    <2> QED
      BY <2>1, <2>2
  <1>7. \A q \in Pids : task[q].at \in {"born", "attach"} <=> task'[q].at \in {"born", "attach"}
    BY <1>1, <1>3
  <1>8. NoSignalHeld(task', sv)
    BY <1>2, <1>3 DEF InTurn, NoSignalHeld
  <1>9. EntryNoted(task', reports', sv)
    <2>1. ASSUME NEW q \in Pids, CloneStopped(task', reports', q)
          PROVE  sv.clonePending[q].thread /\ task'[task'[q].child].at \in {"born", "attach"}
      <3>1. CloneStopped(task, reports, q) /\ task'[q].child = task[q].child /\ task[q].child \in Pids
        BY <1>0, <1>3, <1>6, <2>1, TaskFields
      <3>2. sv.clonePending[q].thread /\ task[task[q].child].at \in {"born", "attach"}
        BY <1>2, <3>1 DEF InTurn, EntryNoted
      <3> QED
        BY <1>7, <3>1, <3>2
    <2>2. ASSUME NEW q \in Pids, task'[q].at = "kernel" PROVE task'[q] = task[q]
      BY <1>3, <2>2
    <2> QED
      BY <1>2, <2>1, <2>2 DEF InTurn, EntryNoted
  <1>10. AllScheduled(task', reports', sv)
    <2>1. ASSUME NEW q \in Pids, ToBeRegistered(task, reports, q) PROVE ToBeRegistered(task', reports', q)
      <3>1. PICK x \in Pids : CloneStopped(task, reports, x) /\ task[x].child = q
        BY <2>1 DEF ToBeRegistered
      <3>2. CloneStopped(task', reports', x) /\ task'[x].child = q
        BY <1>3, <1>6, <3>1
      <3> QED
        BY <1>7, <2>1, <3>2 DEF ToBeRegistered
    <2>2. ASSUME NEW q \in Pids \ sv.scheduled
          PROVE  task'[q].at \in {"unborn", "reaped"} \/ ToBeRegistered(task', reports', q)
      <3>1. task[q].at \in {"unborn", "reaped"} \/ ToBeRegistered(task, reports, q)
        BY <1>2 DEF InTurn, AllScheduled
      <3> QED
        BY <1>1, <1>3, <2>1, <3>1
    <2>3. \A q \in sv.stoppedPending : task'[q].at = "attach" /\ q \notin reports'
      BY <1>0, <1>1, <1>2, <1>3, <1>5 DEF InTurn, AllScheduled
    <2> QED
      BY <1>2, <2>2, <2>3 DEF InTurn, AllScheduled
  <1>11. Awaiting(task', reports', sv, stack)
    <2>1. CASE stack = <<>> /\ sv.pendingStart = {}
      BY <2>1 DEF Awaiting
    <2>2. ASSUME NEW ch \in sv.scheduled, stack = <<<<sv.current, ch>>>>, sv.pendingStart = {ch},
                 task[sv.current].at = "clonestop", sv.current \notin reports,
                 task[ch].at \in {"born", "attach"}
          PROVE  Awaiting(task', reports', sv, stack)
      <3>1. task'[ch].at \in {"born", "attach"}
        BY <1>0, <1>7, <2>2
      <3>2. sv.current \in Pids
        BY <1>2 DEF InTurn, SomebodysTurn
      <3>3. task'[sv.current].at = "clonestop" /\ sv.current \notin reports'
        BY <1>1, <1>3, <1>5, <2>2, <3>2
      <3> QED
        BY <2>2, <3>1, <3>3 DEF Awaiting
    <2> QED
      BY <1>2, <2>1, <2>2 DEF InTurn, Awaiting
  <1>12. OthersHeld(task', reports', sv) /\ SomebodysTurn(task', sv)
    <2>1. sv.current \in Pids /\ task'[sv.current] = task[sv.current]
      BY <1>2, <1>3, <1>5 DEF InTurn, SomebodysTurn
    <2>2. OthersHeld(task', reports', sv)
      BY <1>0, <1>1, <1>2, <1>3, <1>5, <2>1 DEF InTurn, OthersHeld, Held, ExecKills
    <2>3. SomebodysTurn(task', sv)
      <3>1. \A q \in sv.scheduled : task[q].at \in Leaving => task'[q].at \in Leaving
        BY <1>0, <1>1, <1>3 DEF Leaving, Ending
      <3> QED
        BY <1>2, <2>1, <3>1 DEF InTurn, SomebodysTurn
    <2> QED
      BY <2>2, <2>3
  <1>13. WaitsAlone(task', sv, mem)
    <2>1. \A q \in Pids : task'[q].at \in {"kernel", "asleep"} => task'[q] = task[q]
      BY <1>3
    <2> QED
      BY <1>2, <2>1 DEF InTurn, WaitsAlone
  <1>14. InTurn(task', reports', sv', stack', mem')
    BY <1>1, <1>4, <1>8, <1>9, <1>10, <1>11, <1>12, <1>13 DEF InTurn
  <1> QED
    BY <1>2, <1>4, <1>14 DEF ThreadInv

\* The exit stop of a thread, and its end: nobody is woken by it, and nobody is left to
\* be killed by the last one's.
LEMMA EndTurn ==
    ASSUME IInv, ThreadInv, NEW p \in Pids, ExitStop(p) \/ Final(p), OneGroup(task')
    PROVE  ThreadInv'
  <1>0. /\ task \in [Pids -> Task] /\ task[p] \in Task /\ sv.scheduled \subseteq Pids
        /\ sv.stoppedPending \subseteq Pids /\ {"gone", "exitstop"} \subseteq Where
    BY KernelTypes DEF IInv, TypeOK, SupervisorType, Where, Stops, Dead
  <1>1. task[p].at \in {"dying", "final"} /\ UNCHANGED svVars
    BY DEF ExitStop, Final
  <1>2. outcome = "running" /\ InTurn(task, reports, sv, stack, mem)
    BY <1>1, MoverTurn DEF Running
  <1>3. sv' = sv /\ stack' = stack /\ outcome' = outcome
    BY <1>1 DEF svVars
  <1>4. /\ sv.threads = sv.scheduled /\ \A q \in Pids : sv.sigPending[q] = NoSig
        /\ task[p].at \in Leaving /\ \A q \in sv.scheduled : task[q].at \in ExecutingAt => q = sv.current
    BY <1>1, <1>2 DEF Leaving, Ending, IInv, Link, OnlyCurrentBusy, Busy, InTurn, AllScheduled, NoSignalHeld
  <1>5. \A q \in Pids : task[q].at # "asleep"
    <2>1. OneStepOut(task, task, reports, reports, sv, sv, p)
      BY <1>4 DEF OneStepOut
    <2> QED
      BY <1>0, <1>2, <1>4, <2>1, LeavingMove
  <1>6. \E at \in {"exitstop", "gone"} :
           task' = [task EXCEPT ![p].at = at] /\ reports' \in {reports, reports \cup {p}}
    <2>1. CASE ExitStop(p)
      BY <2>1 DEF ExitStop, StopAt
    <2>2. CASE Final(p)
      <3> DEFINE dead == [task EXCEPT ![p].at = "gone"]
                 last == task[p].tgid = InitPid /\ \A q \in Group(task, p) \ {p} : task[q].at \in Dead
                 victims == IF last THEN Doomed(dead, Pids) ELSE {}
      <3>1. PICK W : /\ \A q \in W : task[q].at = "asleep" /\ q \in Pids
                     /\ task' = Doom([q \in Pids |-> IF q \in W THEN [dead[q] EXCEPT !.at = "return"]
                                                     ELSE dead[q]], victims, TRUE)
                     /\ reports' = reports \ victims
        BY <2>2, Zenon DEF Final, Sleepers
      <3>2. victims = {}
        <4>1. ASSUME last, NEW q \in Pids PROVE dead[q].at \notin Killable
          <5>1. CASE q = p
            <6>1. dead[p].at = "gone"
              BY <1>0 DEF Task
            <6> QED
              BY <5>1, <6>1 DEF Killable, Running, Stops
          <5>2. CASE q # p
            <6>1. dead[q] = task[q]
              BY <1>0, <5>2
            <6>2. task[q].at \in Dead \cup {"unborn"}
              BY <1>1, <4>1, <5>2 DEF Group, ThreadInv, OneGroup
            <6> QED
              BY <6>1, <6>2 DEF Killable, Running, Stops, Dead
          <5> QED
            BY <5>1, <5>2
        <4> HIDE DEF last, dead
        <4> QED
          BY <4>1 DEF Doomed
      <3> HIDE DEF victims
      <3>3. W = {}
        BY <1>5, <3>1
      <3>4. [q \in Pids |-> IF q \in W THEN [dead[q] EXCEPT !.at = "return"] ELSE dead[q]] = dead
        BY <1>0, <3>3
      <3>5. Doom(dead, {}, TRUE) = dead
        BY <1>0 DEF Doom, Doomed
      <3>6. task' = dead /\ reports' = reports
        BY <3>1, <3>2, <3>4, <3>5
      <3> QED
        BY <3>6
    <2> QED
      BY <2>1, <2>2
  <1>7. PICK at \in {"exitstop", "gone"} :
           task' = [task EXCEPT ![p].at = at] /\ reports' \in {reports, reports \cup {p}}
    BY <1>6
  <1>8. /\ \A q \in Pids \ {p} : task'[q] = task[q]
        /\ task'[p].at = at /\ task'[p].sig = task[p].sig
    BY <1>0, <1>7 DEF Task
  <1>9. OneStepOut(task, task', reports, reports', sv, sv, p)
    BY <1>4, <1>7, <1>8 DEF OneStepOut, Leaving, Ending
  <1>10. InTurn(task', reports', sv, stack, mem')
    BY <1>0, <1>2, <1>4, <1>9, LeavingMove
  <1> QED
    BY <1>2, <1>3, <1>10 DEF ThreadInv

\* Every step of the kernel keeps the turns.
LEMMA KernelTurn ==
    ASSUME NoForks, NoFatalSignals, IInv, PairInv, ThreadInv, NEW p \in Pids, KernelStep(p) \/ SignalArrives(p)
    PROVE  ThreadInv'
  <1>1. OneGroup(task')
    BY KernelGroup DEF ThreadInv
  <1>2. CASE \/ ExecuteSimple(p) \/ ExecuteWait(p) \/ ExecuteLock(p) \/ ExecuteExit(p)
             \/ ExecutePipe(p) \/ WakeUp(p) \/ Return(p)
    BY <1>1, <1>2, SimpleTurn
  <1>3. CASE UserStep(p) \/ SignalArrives(p)
    BY <1>1, <1>3, UserTurn
  <1>4. CASE ExecuteWake(p)
    BY <1>1, <1>4, WakeTurn
  <1>5. CASE ExecuteClone(p)
    BY <1>1, <1>5, ExecuteCloneTurn
  <1>6. CASE ExecuteExec(p) \/ ExecuteExitGroup(p)
    BY <1>1, <1>6, KillTurn
  <1>7. CASE Attach(p)
    BY <1>1, <1>7, AttachTurn
  <1>8. CASE ExitStop(p) \/ Final(p)
    BY <1>1, <1>8, EndTurn
  <1> QED
    BY <1>2, <1>3, <1>4, <1>5, <1>6, <1>7, <1>8 DEF KernelStep

\* While the threads take turns, await_attach waits for the child of the one whose turn
\* it is, which has not run and cannot have been sent a signal.
LEMMA ThreadAttach ==
    ASSUME ThreadInv PROVE AttachOnly
  <1> SUFFICES ASSUME outcome = "running", NEW p \in Pids, task[p].at = "signal", Awaited(p) PROVE FALSE
    BY DEF AttachOnly
  <1>1. PICK ch : stack = <<<<sv.current, ch>>>> /\ task[ch].at \in {"born", "attach"}
    BY DEF ThreadInv, InTurn, Awaiting, Awaited
  <1>2. Last(stack) = <<sv.current, ch>>
    BY <1>1, OneCall
  <1> QED
    BY <1>1, <1>2 DEF Awaited

\* Every step keeps the turns.
LEMMA NextThread ==
    ASSUME NoForks, NoFatalSignals
    PROVE  IInv /\ PairInv /\ ThreadInv /\ [Next]_vars => ThreadInv'
  <1> SUFFICES ASSUME IInv, PairInv, ThreadInv, [Next]_vars PROVE ThreadInv'
    OBVIOUS
  <1>0. AttachOnly
    BY ThreadAttach
  <1>1. OneGroup(task')
    BY <1>0, NextGroup DEF ThreadInv
  <1>2. CASE Run
    BY <1>1, <1>2, RunTurn
  <1>3. CASE InitExited
    BY <1>1, <1>3, InitExitedTurn
  <1>4. ASSUME NEW p \in Pids, KernelStep(p) \/ SignalArrives(p) PROVE ThreadInv'
    BY <1>4, KernelTurn
  <1>5. ASSUME NEW p \in Pids, SupervisorStep(p) PROVE ThreadInv'
    BY <1>0, <1>5, SupervisorTurn
  <1>6. CASE UNCHANGED vars
    BY <1>6 DEF vars, ThreadInv
  <1>7. CASE Done
    BY <1>6, <1>7 DEF Done
  <1> QED
    BY <1>2, <1>3, <1>4, <1>5, <1>6, <1>7 DEF Next

\* At every moment at most one thread of the guest is not held in a stop, and it is
\* the one whose turn it is; a FUTEX_WAIT reaches the kernel only where no other thread
\* could be stalled by it, or where it returns at once.
THEOREM ThreadInvariant ==
    ASSUME NoForks, NoFatalSignals
    PROVE  Spec => [](IInv /\ PairInv /\ ThreadInv)
  <1>1. Init => ThreadInv
    BY PidsAssumption DEF Init, OneGroup, InitialTasks, GuestOps, ThreadInv
  <1>2. IInv /\ PairInv /\ ThreadInv /\ [Next]_vars => (IInv /\ PairInv /\ ThreadInv)'
    BY ThreadAttach, NextIInv, NextPair, NextThread
  <1> QED
    BY <1>1, <1>2, InitIInv, InitPair, PTL DEF Spec

\* NoPtraceError: no ptrace request of the supervisor goes to a task that is not in a
\* stop, so supervise() never fails with an error of ptrace.
THEOREM NoPtraceErrorHolds ==
    ASSUME NoForks, NoFatalSignals
    PROVE  Spec => []NoPtraceError
  <1>1. ThreadInv => NoPtraceError
    BY DEF ThreadInv, NoPtraceError
  <1> QED
    BY <1>1, ThreadInvariant, PTL

\* NoFutexStall: no thread sleeps in a FUTEX_WAIT of the kernel while another thread
\* of the guest could be run instead.
THEOREM NoFutexStallHolds ==
    ASSUME NoForks, NoFatalSignals
    PROVE  Spec => []NoFutexStall
  <1>1. IInv /\ ThreadInv => NoFutexStall
    <2> SUFFICES ASSUME IInv, ThreadInv, NEW p \in sv.scheduled,
                        task[p].at = "asleep", task[p].op.name \in {"wait", "timedwait"}
                 PROVE  sv.scheduled = {p}
      BY DEF NoFutexStall
    <2>1. p \in Pids
      BY DEF IInv, TypeOK, SupervisorType, Bookkeeping
    <2>2. outcome = "running" /\ InTurn(task, reports, sv, stack, mem)
      BY <2>1, MoverTurn DEF Running
    <2> QED
      BY <2>1, <2>2 DEF InTurn, WaitsAlone
  <1> QED
    BY <1>1, ThreadInvariant, PTL

\* DeadlockIsReal: when supervise() gives up with "deadlock", every thread of the guest
\* that is alive waits in the supervisor's futex queues, so that none can be woken.
THEOREM DeadlockIsRealHolds ==
    ASSUME NoForks, NoFatalSignals
    PROVE  Spec => []DeadlockIsReal
  <1>1. ThreadInv => DeadlockIsReal
    BY DEF ThreadInv, DeadlockIsReal, Alive, Dead
  <1> QED
    BY <1>1, ThreadInvariant, PTL

\* supervise() returns an exit status, or the init itself waits for a wake that nobody
\* is left to make: with threads only and no fatal signal there is no third way.
THEOREM CompletesUnlessParked ==
    ASSUME NoForks, NoFatalSignals
    PROVE  Spec => [](Returned => outcome \in {"exited", "signaled"} \/ InitPid \in sv.blocked)
  <1>1. IInv /\ ThreadInv => (Returned => outcome \in {"exited", "signaled"} \/ InitPid \in sv.blocked)
    BY DEF IInv, TypeOK, Outcomes, ThreadInv, Returned
  <1> QED
    BY <1>1, ThreadInvariant, PTL

-----------------------------------------------------------------------------
(* Guests that never wait in a futex *)

\* A guest that makes no futex wait, with or without a timeout.
NoFutexWaits == \A c \in Code : c.op.name \notin {"wait", "timedwait"}

\* The supervisor's futex queues are empty.
NobodyWaits(s) == \A a \in Addr : s.waiting[a] = <<>>

\* Nothing taken from an empty queue leaves an empty queue.
LEMMA EmptyQueue ==
    /\ \A n \in Nat : StillWaiting(<<>>, n) = <<>>
    /\ \A p : Retain(<<>>, p) = <<>>
  <1>1. Len(<<>>) = 0 /\ SubSeq(<<>>, 1, 0) = <<>> /\ Range(<<>>) = {}
    BY DEF Range
  <1>2. ASSUME NEW n \in Nat PROVE StillWaiting(<<>>, n) = <<>>
    <2>1. (IF n < Len(<<>>) THEN n ELSE Len(<<>>)) = 0
      BY <1>1
    <2> QED
      BY <1>1, <2>1 DEF StillWaiting
  <1> QED
    BY <1>1, <1>2 DEF Retain

\* A wake leaves the empty queues empty.
LEMMA WakeNobody ==
    ASSUME NEW s \in SupervisorType, NEW a \in Addr, NEW n \in Nat, NobodyWaits(s)
    PROVE  NobodyWaits(Wake(s, a, n)) /\ Wake(s, a, n) \in SupervisorType
  <1>1. WakeResult(s, a, n, Wake(s, a, n))
    BY WakeShape
  <1> QED
    BY <1>1, EmptyQueue DEF WakeResult, NobodyWaits

\* So does the handling of a futex wake or requeue.
LEMMA FutexWakeNobody ==
    ASSUME NEW s \in SupervisorType, NEW p, NEW op \in Op, op.name \in FutexOps, NobodyWaits(s)
    PROVE  NobodyWaits(FutexWake(s, p, op))
  <1> DEFINE s1 == Wake(s, op.addr, op.n)
             s2 == IF op.name = "wake" THEN s1 ELSE Wake(s1, op.addr, op.n2)
             s3 == TraceFutex(SkipSyscall(s2, p), p, op.name, Woke)
  <1>0. op.addr \in Addr /\ op.n \in Nat /\ op.n2 \in Nat
    BY OpFields
  <1>1. NobodyWaits(s1) /\ s1 \in SupervisorType
    BY <1>0, WakeNobody
  <1> HIDE DEF s1
  <1>2. NobodyWaits(s2)
    BY <1>0, <1>1, WakeNobody
  <1>3. FutexWake(s, p, op) = s3
    BY DEF FutexWake, s1
  <1> HIDE DEF s2
  <1>4. s3.waiting = s2.waiting
    BY DEF TraceFutex, TraceJson, SkipSyscall
  <1> QED
    BY <1>2, <1>3, <1>4 DEF NobodyWaits

\* schedule_next leaves the futex queues alone.
LEMMA ScheduleWaiting ==
    ASSUME NEW s
    PROVE  ScheduleNext(s).waiting = s.waiting
  BY DEF ScheduleNext, SwitchTo, ResumeThread, TraceJson

\* A handled status leaves the queues as its handler did.
LEMMA CommitWaiting ==
    ASSUME NEW p, NEW t, NEW s, NEW stk, Commit(p, t, s, stk)
    PROVE  sv'.waiting = s.waiting
  <1> DEFINE s1 == LoopTail(s, stk)
  <1>1. s1.waiting = s.waiting
    BY ScheduleWaiting DEF LoopTail
  <1>2. sv' = [s1 EXCEPT !.resumed = {}]
    BY DEF Commit
  <1> HIDE DEF s1
  <1> QED
    BY <1>1, <1>2

\* No handler parks a thread.
LEMMA SupervisorParksNobody ==
    ASSUME NoFutexWaits, IInv, AttachOnly, OneGroup(task), NEW p \in Pids, SupervisorStep(p), NobodyWaits(sv)
    PROVE  NobodyWaits(sv')
  <1>0. sv \in SupervisorType
    BY DEF IInv, TypeOK
  <1>1. CASE SyscallEntry(p)
    <2>1. PICK s : /\ Commit(p, task, s, stack)
                   /\ \/ task[p].op.name \in {"wait", "timedwait"}
                      \/ SameTurn(sv, s)
                      \/ \E op \in Op : op.name \in FutexOps /\ SameTurn(FutexWake(sv, p, op), s)
      BY <1>1, SyscallEntryResult
    <2>2. task[p].op.name \notin {"wait", "timedwait"}
      BY DEF OneGroup, GuestOps, NoFutexWaits, NoOp
    <2>3. NobodyWaits(s)
      BY <1>0, <2>1, <2>2, FutexWakeNobody DEF SameTurn, NobodyWaits
    <2> QED
      BY <2>1, <2>3, CommitWaiting DEF NobodyWaits
  <1>2. CASE SyscallExit(p)
    <2>1. PICK s : /\ Commit(p, task, s, stack)
                   /\ SameTurn(sv, s) \/ \E u : Yields(sv, u, p) /\ s = ScheduleNext(u)
      BY <1>2, SyscallExitResult
    <2>2. s.waiting = sv.waiting
      BY <2>1, ScheduleWaiting DEF SameTurn, Yields
    <2> QED
      BY <2>1, <2>2, CommitWaiting DEF NobodyWaits
  <1>3. CASE CloneEvent(p)
    <2>1. PICK s, stk : Commit(p, task, s, stk) /\ \E q \in Pids : Admits(sv, s, q)
      BY <1>3, CloneEventResult
    <2> QED
      BY <2>1, CommitWaiting DEF NobodyWaits, Admits
  <1>4. CASE ExitEvent(p) \/ OtherEvent(p)
    <2>1. PICK s : Commit(p, task, s, stack) /\ SameTurn(sv, s)
      BY <1>4, EventResult
    <2> QED
      BY <2>1, CommitWaiting DEF NobodyWaits, SameTurn
  <1>5. CASE AwaitedAttach(p)
    <2>1. PICK s, stk : Commit(p, task, s, stk) /\ Admits(sv, s, p)
      BY <1>5, AwaitedAttachResult
    <2> QED
      BY <2>1, CommitWaiting DEF NobodyWaits, Admits
  <1>6. CASE OtherSigstop(p) \/ SignalStop(p)
    <2>1. PICK s : Commit(p, task, s, stack) /\ (SameTurn(sv, s) \/ Admits(sv, s, p))
      BY <1>6, StoppedResult
    <2> QED
      BY <2>1, CommitWaiting DEF NobodyWaits, Admits, SameTurn
  <1>7. CASE ThreadExited(p)
    <2>1. PICK t, s, s1 :
             /\ Commit(p, t, s, stack)
             /\ \E w : /\ Leaves(sv, s1, p, w)
                       /\ w = sv \/ \E a \in Addr : WakeResult(sv, a, 1, w)
             /\ s = s1 \/ s = ScheduleNext([s1 EXCEPT !.current = NoPid])
      BY <1>7, ThreadExitedResult
    <2>2. PICK w : /\ Leaves(sv, s1, p, w)
                   /\ w = sv \/ \E a \in Addr : WakeResult(sv, a, 1, w)
      BY <2>1
    <2>3. NobodyWaits(w)
      <3>1. ASSUME NEW a \in Addr, WakeResult(sv, a, 1, w) PROVE NobodyWaits(w)
        BY <3>1, EmptyQueue DEF WakeResult, NobodyWaits
      <3> QED
        BY <2>2, <3>1
    <2>4. NobodyWaits(s1)
      BY <2>2, <2>3, EmptyQueue DEF Leaves, NobodyWaits
    <2>5. [s1 EXCEPT !.current = NoPid].waiting = s1.waiting
      OBVIOUS
    <2>6. s.waiting = s1.waiting
      BY <2>1, <2>5, ScheduleWaiting
    <2> QED
      BY <2>1, <2>4, <2>6, CommitWaiting DEF NobodyWaits
  <1> QED
    BY <1>1, <1>2, <1>3, <1>4, <1>5, <1>6, <1>7 DEF SupervisorStep

\* The kernel does not touch the supervisor's state.
LEMMA KernelSupervisor ==
    ASSUME NEW p \in Pids, KernelStep(p) \/ SignalArrives(p)
    PROVE  sv' = sv
  BY DEF KernelStep, UserStep, Attach, ExecuteSimple, ExecuteWait, ExecuteWake, ExecuteLock, ExecuteClone,
         ExecuteExec, ExecuteExit, ExecuteExitGroup, ExecutePipe, WakeUp, Return, ExitStop, Final,
         SignalArrives, svVars

\* No step parks a thread of a guest that makes no futex waits.
LEMMA NextParksNobody ==
    ASSUME NoFutexWaits
    PROVE  IInv /\ AttachOnly /\ OneGroup(task) /\ NobodyWaits(sv) /\ [Next]_vars => NobodyWaits(sv)'
  <1> SUFFICES ASSUME IInv, AttachOnly, OneGroup(task), NobodyWaits(sv), [Next]_vars PROVE NobodyWaits(sv')
    OBVIOUS
  <1>1. CASE Run
    BY <1>1, CommitWaiting DEF Run, NobodyWaits
  <1>2. CASE InitExited
    BY <1>2 DEF InitExited, TraceJson, NobodyWaits
  <1>3. ASSUME NEW p \in Pids, KernelStep(p) \/ SignalArrives(p) PROVE NobodyWaits(sv')
    BY <1>3, KernelSupervisor
  <1>4. ASSUME NEW p \in Pids, SupervisorStep(p) PROVE NobodyWaits(sv')
    BY <1>4, SupervisorParksNobody
  <1>5. CASE UNCHANGED vars
    BY <1>5 DEF vars
  <1>6. CASE Done
    BY <1>5, <1>6 DEF Done
  <1> QED
    BY <1>1, <1>2, <1>3, <1>4, <1>5, <1>6 DEF Next

\* CompletesNormally, for a guest of threads that makes no futex waits and gets no
\* fatal signal: supervise() ends with the init's exit status, never with an error.
THEOREM CompletesNormallyHolds ==
    ASSUME NoForks, NoFatalSignals, NoFutexWaits
    PROVE  Spec => []CompletesNormally
  <1>1. Init => NobodyWaits(sv)
    BY DEF Init, NewSupervisor, NobodyWaits
  <1>2. IInv /\ ThreadInv /\ NobodyWaits(sv) => CompletesNormally
    <2> SUFFICES ASSUME IInv, ThreadInv, NobodyWaits(sv), Returned
                 PROVE  outcome \in {"exited", "signaled"}
      BY DEF CompletesNormally
    <2>1. Range(<<>>) = {}
      BY DEF Range
    <2>2. sv.blocked = {}
      BY <2>1 DEF IInv, Bookkeeping, ParkedOK, NobodyWaits
    <2> QED
      BY <2>2 DEF IInv, TypeOK, Outcomes, ThreadInv, Returned
  <1>3. IInv /\ ThreadInv /\ NobodyWaits(sv) /\ [Next]_vars => NobodyWaits(sv)'
    BY NextParksNobody, ThreadAttach DEF ThreadInv
  <1> QED
    BY <1>1, <1>2, <1>3, ThreadInvariant, PTL DEF Spec

-----------------------------------------------------------------------------
(* Guests that fork *)

\* A process that the guest forks starts at one of L, and creates no threads.
ForkedAlone(L) ==
    \A c \in Code : /\ c.op.name \in {"fork", "rawfork"} => c.op.entry \in L
                    /\ c.from \in L => c.to \in L /\ c.op.name # "clone"

\* No fork that the supervisor does not note can follow a clone that failed.
ForksNoted == CloneMayFail => \A c \in Code : c.op.name # "rawfork"

\* Every task is a thread of the init, or runs the code of forked processes.
Families(t, L) ==
    \A q \in Pids :
        /\ t[q].op \in GuestOps
        /\ t[q].at = "unborn" => t[q].op = NoOp
        /\ t[q].at # "unborn" => t[q].tgid = InitPid \/ (t[q].label \in L /\ t[q].op.name # "clone")

\* q has been let into its syscall, or past it.
Entered(t, r, q) == t[q].at = "kernel" \/ (t[q].at = "entry" /\ q \notin r)

\* A note that the child of q is a thread is about the clone that q makes, and is
\* gone when its clone event has been handled.
ThreadNote(t, r, q) ==
    /\ CloneStopped(t, r, q) => t[t[q].child].tgid = InitPid
    /\ t[q].at = "clonestop" => q \in r
    /\ Entered(t, r, q) => t[q].op.name \notin {"fork", "rawfork"}
    /\ CloneMayFail \/ t[q].at \in Ending
          \/ (t[q].op.name = "clone" /\ t[q].at \in {"entry", "kernel", "clonestop"})

\* The notes in clone_pending are true.
CloneNoted(t, r, s) == \A q \in Pids : s.clonePending[q].thread => ThreadNote(t, r, q)

\* No task leaves a syscall entry or a clone event that has not been seen.
StopSeen(t, r, s) == \A q \in Resuming(s) : t[q].at \in {"entry", "clonestop"} => q \notin r

\* What makes ScheduledSharesInit inductive.
FamilyInv(t, r, s, L) ==
    /\ Families(t, L) /\ CloneNoted(t, r, s) /\ StopSeen(t, r, s)
    /\ \A q \in s.scheduled : t[q].tgid = InitPid

\* A task moves on, and has no part in a clone event unless it is killed.
Drifts(t, r, t2, r2, q) ==
    /\ t2[q].tgid = t[q].tgid /\ t2[q].label = t[q].label /\ t2[q].op = t[q].op /\ t2[q].child = t[q].child
    /\ t2[q].at = "unborn" <=> t[q].at = "unborn"
    /\ \/ t2[q].at = t[q].at
       \/ t2[q].at \in Ending
       \/ /\ t2[q].at \notin {"entry", "kernel", "clonestop"} /\ t[q].at \notin {"entry", "clonestop"} \cup Ending
          /\ t[q].at = "kernel" => CloneMayFail \/ t[q].op.name # "clone"
    /\ CloneStopped(t2, r2, q) => q \in r
    /\ t2[q].at \in {"entry", "clonestop"} /\ q \notin r2 => q \notin r

\* Tasks that move on keep FamilyInv.
LEMMA FamilyDrift ==
    ASSUME NEW L, NEW t \in [Pids -> Task], NEW r, NEW s, NEW t2, NEW r2, FamilyInv(t, r, s, L),
           s.resumed = {}, s.scheduled \subseteq Pids, \A q \in Pids : Drifts(t, r, t2, r2, q)
    PROVE  FamilyInv(t2, r2, s, L)
  <1>0. Resuming(s) = {}
    BY DEF Resuming
  <1>1. Families(t2, L)
    BY DEF FamilyInv, Families, Drifts
  <1>2. ASSUME NEW q \in Pids, s.clonePending[q].thread PROVE ThreadNote(t2, r2, q)
    <2>1. ThreadNote(t, r, q)
      BY <1>2 DEF FamilyInv, CloneNoted
    <2>2. Drifts(t, r, t2, r2, q) /\ t[q].child \in Pids
      BY DEF Task
    <2>3. t2[t[q].child].tgid = t[t[q].child].tgid /\ t2[q].child = t[q].child
      BY <2>2 DEF Drifts
    <2>4. CloneStopped(t2, r2, q) => CloneStopped(t, r, q)
      BY <2>2 DEF Drifts, CloneStopped, Ending
    <2>5. Entered(t2, r2, q) => Entered(t, r, q) /\ t2[q].op = t[q].op
      BY <2>2 DEF Drifts, Entered, Ending
    <2>6. CloneMayFail \/ t2[q].at \in Ending
             \/ (t2[q].op.name = "clone" /\ t2[q].at \in {"entry", "kernel", "clonestop"})
      BY <2>1, <2>2 DEF Drifts, Ending, ThreadNote
    <2>7. t2[q].at = "clonestop" => q \in r2
      BY <2>1, <2>2 DEF Drifts, Ending, ThreadNote
    <2> QED
      BY <2>1, <2>3, <2>4, <2>5, <2>6, <2>7 DEF ThreadNote
  <1>3. CloneNoted(t2, r2, s)
    BY <1>2 DEF CloneNoted
  <1>4. \A q \in s.scheduled : t2[q].tgid = InitPid
    BY DEF FamilyInv, Drifts
  <1> QED
    BY <1>0, <1>1, <1>3, <1>4 DEF FamilyInv, StopSeen

\* A task that the kernel moves on drifts.
LEMMA DriftOne ==
    ASSUME IInv, PairInv, NEW L, FamilyInv(task, reports, sv, L), NEW p \in Pids, NEW at,
           task' = [task EXCEPT ![p].at = at], reports' \in {reports, reports \cup {p}}, sv' = sv,
           at \notin {"unborn", "entry", "kernel", "clonestop"}, task[p].at \notin {"unborn", "entry", "clonestop"},
           task[p].at \in Ending => at \in Ending,
           task[p].at = "kernel" => at \in Ending \/ CloneMayFail \/ task[p].op.name # "clone"
    PROVE  FamilyInv(task', reports', sv', L)
  <1>0. task \in [Pids -> Task] /\ task[p] \in Task /\ sv.resumed = {} /\ sv.scheduled \subseteq Pids
    BY KernelTypes DEF IInv, TypeOK, SupervisorType
  <1>1. /\ \A q \in Pids \ {p} : task'[q] = task[q] /\ (q \in reports' <=> q \in reports)
        /\ task'[p] = [task[p] EXCEPT !.at = at]
    BY <1>0
  <1>2. /\ task'[p].at = at /\ task'[p].tgid = task[p].tgid /\ task'[p].label = task[p].label
        /\ task'[p].op = task[p].op /\ task'[p].child = task[p].child
    BY <1>0, <1>1 DEF Task
  <1>3. \A q \in Pids \ {p} : Drifts(task, reports, task', reports', q)
    BY <1>1 DEF Drifts, CloneStopped
  <1>4. Drifts(task, reports, task', reports', p)
    BY <1>2 DEF Drifts, CloneStopped
  <1> QED
    BY <1>0, <1>3, <1>4, FamilyDrift

\* So does one that goes on in, or returns from, a syscall.
LEMMA DriftKernel ==
    ASSUME IInv, PairInv, NEW L, FamilyInv(task, reports, sv, L), NEW p \in Pids,
           NEW at \in {"asleep", "exitcall", "execstop"}, task' = [task EXCEPT ![p].at = at],
           reports' \in {reports, reports \cup {p}}, UNCHANGED svVars,
           task[p].at = "kernel", CloneMayFail \/ task[p].op.name # "clone"
    PROVE  FamilyInv(task', reports', sv', L)
  <1>1. sv' = sv /\ task[p].at \notin {"unborn", "entry", "clonestop"} \cup Ending
    BY DEF svVars, Ending
  <1>2. at \notin {"unborn", "entry", "kernel", "clonestop"}
    OBVIOUS
  <1> QED
    BY <1>1, <1>2, DriftOne

\* The kernel steps that move one task keep FamilyInv.
LEMMA FamilySimple ==
    ASSUME IInv, PairInv, NEW L, FamilyInv(task, reports, sv, L), NEW p \in Pids,
           \/ Attach(p) \/ ExecuteSimple(p) \/ ExecuteWait(p) \/ ExecuteLock(p) \/ ExecuteExit(p)
           \/ ExecutePipe(p) \/ WakeUp(p) \/ Return(p) \/ ExitStop(p)
    PROVE  FamilyInv(task', reports', sv', L)
  <1>1. CASE Attach(p) \/ ExitStop(p) \/ Return(p) \/ WakeUp(p)
    BY <1>1, DriftOne DEF Attach, ExitStop, Return, WakeUp, StopAt, Ending, svVars
  <1>2. CASE ExecuteSimple(p)
    <2>1. p \in sv.pending => task[p].op.name \in Injected
      BY <1>2, NotReplaced DEF ExecuteSimple
    <2>2. CloneMayFail \/ task[p].op.name # "clone"
      BY <1>2, <2>1 DEF ExecuteSimple, Injected, FutexOps, PassedOps
    <2>3. /\ task' = [task EXCEPT ![p].at = "exitcall"] /\ reports' = reports \cup {p}
          /\ task[p].at = "kernel" /\ UNCHANGED svVars
      BY <1>2 DEF ExecuteSimple, StopAt
    <2> QED
      BY <2>2, <2>3, DriftKernel
  <1>3. CASE ExecuteWait(p) \/ ExecuteLock(p) \/ ExecutePipe(p)
    <2>1. PICK at \in {"asleep", "exitcall"} :
            task' = [task EXCEPT ![p].at = at] /\ reports' \in {reports, reports \cup {p}}
      BY <1>3 DEF ExecuteWait, ExecuteLock, ExecutePipe, StopAt
    <2>2. task[p].at = "kernel" /\ task[p].op.name # "clone" /\ UNCHANGED svVars
      BY <1>3 DEF ExecuteWait, ExecuteLock, ExecutePipe
    <2> QED
      BY <2>1, <2>2, DriftKernel
  <1>4. CASE ExecuteExit(p)
    <2>1. /\ task' = [task EXCEPT ![p].at = "dying"] /\ reports' = reports /\ sv' = sv
          /\ task[p].at = "kernel" /\ task[p].op.name # "clone" /\ "kernel" \notin Ending
      BY <1>4 DEF ExecuteExit, svVars, Ending
    <2>2. /\ reports' \in {reports, reports \cup {p}}
          /\ "dying" \notin {"unborn", "entry", "kernel", "clonestop"}
          /\ task[p].at \notin {"unborn", "entry", "clonestop"}
          /\ task[p].at \in Ending => "dying" \in Ending
          /\ task[p].at = "kernel" => "dying" \in Ending \/ CloneMayFail \/ task[p].op.name # "clone"
      BY <2>1
    <2> QED
      BY <2>1, <2>2, DriftOne, Zenon
  <1> QED
    BY <1>1, <1>2, <1>3, <1>4

\* Killing tasks keeps FamilyInv.
LEMMA DoomDrifts ==
    ASSUME NEW t \in [Pids -> Task], NEW r, NEW S, NEW b, NEW r2, r2 \subseteq r,
           \A q \in r \ r2 : Doom(t, S, b)[q].at = "dying"
    PROVE  \A q \in Pids : Drifts(t, r, Doom(t, S, b), r2, q)
  <1> SUFFICES ASSUME NEW q \in Pids PROVE Drifts(t, r, Doom(t, S, b), r2, q)
    OBVIOUS
  <1> DEFINE d == Doom(t, S, b)[q]
  <1>1. t[q] \in Task /\ (d = t[q] \/ (d = [t[q] EXCEPT !.at = "dying", !.fatal = b] /\ t[q].at \in Killable))
    BY DEF Doom, Doomed
  <1>2. q \in r \ r2 => d.at = "dying"
    OBVIOUS
  <1> HIDE DEF d
  <1>3. /\ d.tgid = t[q].tgid /\ d.op = t[q].op /\ d.label = t[q].label /\ d.child = t[q].child
        /\ d.at = "unborn" <=> t[q].at = "unborn"
        /\ d.at \in {t[q].at, "dying"}
    BY <1>1 DEF Task, Killable, Running, Stops
  <1> QED
    BY <1>2, <1>3 DEF Drifts, CloneStopped, Ending, d

\* exec, exit_group and the arrival of a signal keep FamilyInv.
LEMMA FamilyKill ==
    ASSUME IInv, PairInv, NEW L, FamilyInv(task, reports, sv, L), NEW p \in Pids,
           ExecuteExec(p) \/ ExecuteExitGroup(p) \/ SignalArrives(p)
    PROVE  FamilyInv(task', reports', sv', L)
  <1>0. task \in [Pids -> Task] /\ task[p] \in Task /\ sv.resumed = {} /\ sv.scheduled \subseteq Pids
    BY KernelTypes DEF IInv, TypeOK, SupervisorType
  <1>s. sv' = sv
    BY DEF ExecuteExec, ExecuteExitGroup, SignalArrives, svVars
  <1>1. ASSUME NEW S \in SUBSET Pids, NEW b, task' = Doom(task, S, b), reports' = reports \ Doomed(task, S)
        PROVE  FamilyInv(task', reports', sv', L)
    <2>1. \A q \in reports \ reports' : Doom(task, S, b)[q].at = "dying"
      BY <1>0, <1>1 DEF Doom, Doomed, Task
    <2>2. \A q \in Pids : Drifts(task, reports, task', reports', q)
      BY <1>0, <1>1, <2>1, DoomDrifts
    <2> QED
      BY <1>0, <1>s, <2>2, FamilyDrift
  <1>2. CASE ExecuteExec(p)
    <2> DEFINE others == {q \in Group(task, p) : q # p /\ task[q].at # "reaped"}
    <2>1. /\ task[p].at = "kernel" /\ task[p].op.name = "exec"
          /\ \/ StopAt(p, "execstop")
             \/ task' = Doom(task, others, FALSE) /\ reports' = reports \ Doomed(task, others)
      BY <1>2 DEF ExecuteExec
    <2>2. others \in SUBSET Pids
      BY DEF Group
    <2> HIDE DEF others
    <2> QED
      <3>1. UNCHANGED svVars
        BY <1>2 DEF ExecuteExec
      <3>2. CASE StopAt(p, "execstop")
        BY <2>1, <3>1, <3>2, DriftKernel DEF StopAt
      <3> QED
        BY <1>1, <2>1, <2>2, <3>2
  <1>3. CASE ExecuteExitGroup(p)
    BY <1>1, <1>3 DEF ExecuteExitGroup, Group
  <1>4. CASE SignalArrives(p)
    <2>1. ASSUME NEW sig, task[p].at = "user", task' = [task EXCEPT ![p].at = "signal", ![p].sig = sig],
                 reports' = reports \cup {p}
          PROVE  FamilyInv(task', reports', sv', L)
      <3>1. /\ \A q \in Pids \ {p} : task'[q] = task[q] /\ (q \in reports' <=> q \in reports)
            /\ task'[p] = [task[p] EXCEPT !.at = "signal", !.sig = sig]
        BY <1>0, <2>1
      <3>2. /\ task'[p].at = "signal" /\ task'[p].tgid = task[p].tgid /\ task'[p].label = task[p].label
            /\ task'[p].op = task[p].op /\ task'[p].child = task[p].child
        BY <1>0, <3>1 DEF Task
      <3>3. \A q \in Pids : Drifts(task, reports, task', reports', q)
        BY <2>1, <3>1, <3>2 DEF Drifts, CloneStopped, Ending
      <3> QED
        BY <1>0, <1>s, <3>3, FamilyDrift
    <2>2. Group(task, p) \in SUBSET Pids
      BY DEF Group
    <2> QED
      BY <1>1, <1>4, <2>1, <2>2 DEF SignalArrives
  <1> QED
    BY <1>2, <1>3, <1>4

\* A wake in the kernel keeps FamilyInv.
LEMMA FamilyWake ==
    ASSUME IInv, NEW L, FamilyInv(task, reports, sv, L), NEW p \in Pids, ExecuteWake(p)
    PROVE  FamilyInv(task', reports', sv', L)
  <1>0. task \in [Pids -> Task] /\ sv.resumed = {} /\ sv.scheduled \subseteq Pids
    BY KernelTypes DEF IInv, TypeOK, SupervisorType
  <1>1. /\ task[p].at = "kernel" /\ task[p].op.name # "clone" /\ reports' = reports \cup {p} /\ sv' = sv
    BY DEF ExecuteWake, svVars
  <1>2. PICK ops, W :
           /\ W \subseteq Sleepers(task[p].tgid, task[p].op.addr, ops)
           /\ task' = [q \in Pids |->
                         IF q = p THEN [task[q] EXCEPT !.at = "exitcall"]
                         ELSE IF q \in W THEN [task[q] EXCEPT !.at = "return"]
                         ELSE task[q]]
    BY DEF ExecuteWake
  <1>3. \A q \in W : task[q].at = "asleep"
    BY <1>2 DEF Sleepers
  <1>4. ASSUME NEW q \in Pids PROVE Drifts(task, reports, task', reports', q)
    <2>1. task[q] \in Task
      BY <1>0
    <2>2. \/ task'[q] = task[q] /\ q # p
          \/ q = p /\ task'[q] = [task[q] EXCEPT !.at = "exitcall"]
          \/ q # p /\ q \in W /\ task'[q] = [task[q] EXCEPT !.at = "return"]
      BY <1>2
    <2>3. /\ task'[q].tgid = task[q].tgid /\ task'[q].label = task[q].label
          /\ task'[q].op = task[q].op /\ task'[q].child = task[q].child
          /\ \/ task'[q].at = task[q].at /\ q # p
             \/ q = p /\ task'[q].at = "exitcall"
             \/ q # p /\ task'[q].at = "return" /\ task[q].at = "asleep"
      BY <1>3, <2>1, <2>2 DEF Task
    <2> QED
      BY <1>1, <2>3 DEF Drifts, CloneStopped, Ending
  <1> QED
    BY <1>0, <1>1, <1>4, FamilyDrift

\* The end of a task keeps FamilyInv.
LEMMA FamilyFinal ==
    ASSUME IInv, NEW L, FamilyInv(task, reports, sv, L), NEW p \in Pids, Final(p)
    PROVE  FamilyInv(task', reports', sv', L)
  <1> DEFINE dead == [task EXCEPT ![p].at = "gone"]
             T(W) == [q \in Pids |-> IF q \in W THEN [dead[q] EXCEPT !.at = "return"] ELSE dead[q]]
             last == task[p].tgid = InitPid /\ \A q \in Group(task, p) \ {p} : task[q].at \in Dead
             V == IF last THEN Doomed(dead, Pids) ELSE {}
  <1>0. /\ task \in [Pids -> Task] /\ task[p] \in Task /\ task[p].at = "final"
        /\ sv.resumed = {} /\ sv.scheduled \subseteq Pids /\ sv' = sv
    BY KernelTypes DEF IInv, TypeOK, SupervisorType, Final, svVars
  <1>1. PICK W : task' = Doom(T(W), V, TRUE) /\ \A q \in W : task[q].at = "asleep"
    BY Zenon DEF Final, Sleepers
  <1>2. reports' = reports \ V
    BY Zenon DEF Final
  <1> DEFINE t == T(W)
  <1>3. ASSUME NEW q \in Pids PROVE t[q] \in Task /\ Drifts(task, reports, t, reports, q)
                                    /\ (q \in V => t[q].at \in Killable)
    <2>0. task[q] \in Task /\ {"gone", "return"} \subseteq Where
      BY <1>0 DEF Where, Running, Dead
    <2>v. q \in V => dead[q].at \in Killable
      BY DEF Doomed
    <2>1. CASE q \in W
      <3>1. t[q] = [task[q] EXCEPT !.at = "return"] /\ task[q].at = "asleep" /\ q # p
        BY <1>0, <1>1, <2>1
      <3> HIDE DEF t
      <3>2. /\ t[q] \in Task /\ t[q].tgid = task[q].tgid /\ t[q].label = task[q].label
            /\ t[q].op = task[q].op /\ t[q].child = task[q].child /\ t[q].at = "return"
        BY <2>0, <3>1 DEF Task
      <3> QED
        BY <3>1, <3>2 DEF Drifts, CloneStopped, Ending, Killable, Running
    <2>2. CASE q \notin W /\ q = p
      <3>1. t[q] = [task[q] EXCEPT !.at = "gone"] /\ dead[q] = t[q]
        BY <1>0, <2>2
      <3> HIDE DEF t, V, dead
      <3>2. /\ t[q] \in Task /\ t[q].tgid = task[q].tgid /\ t[q].label = task[q].label
            /\ t[q].op = task[q].op /\ t[q].child = task[q].child /\ t[q].at = "gone"
        BY <2>0, <3>1 DEF Task
      <3> QED
        BY <1>0, <2>2, <2>v, <3>1, <3>2 DEF Drifts, CloneStopped, Ending
    <2>3. CASE q \notin W /\ q # p
      <3>1. t[q] = task[q] /\ dead[q] = t[q]
        BY <1>0, <2>3
      <3> HIDE DEF V, dead, t
      <3> QED
        BY <2>0, <2>v, <3>1 DEF Drifts, CloneStopped
    <2> QED
      BY <2>1, <2>2, <2>3
  <1>4. t \in [Pids -> Task]
    BY <1>3
  <1>v. V \subseteq Pids
    BY DEF Doomed
  <1>5. task' = Doom(t, V, TRUE)
    BY <1>1
  <1> HIDE DEF t, V
  <1>6. FamilyInv(t, reports, sv, L)
    BY <1>0, <1>3, FamilyDrift
  <1>7. \A q \in reports \ (reports \ V) : Doom(t, V, TRUE)[q].at = "dying"
    <2> SUFFICES ASSUME NEW q \in V PROVE Doom(t, V, TRUE)[q].at = "dying"
      OBVIOUS
    <2>1. q \in Doomed(t, V) /\ q \in Pids /\ t[q] \in Task
      BY <1>3, <1>v DEF Doomed
    <2>2. Doom(t, V, TRUE)[q] = [t[q] EXCEPT !.at = "dying", !.fatal = TRUE]
      BY <2>1 DEF Doom
    <2> QED
      BY <2>1, <2>2 DEF Task
  <1>8. \A q \in Pids : Drifts(t, reports, task', reports', q)
    BY <1>2, <1>4, <1>5, <1>7, DoomDrifts
  <1> QED
    BY <1>0, <1>4, <1>6, <1>8, FamilyDrift

\* User code that makes a syscall keeps FamilyInv: a process that was forked stays in
\* its part of the code.
LEMMA FamilyUser ==
    ASSUME NEW L, ForkedAlone(L), IInv, FamilyInv(task, reports, sv, L), NEW p \in Pids, UserStep(p)
    PROVE  FamilyInv(task', reports', sv', L)
  <1>0. /\ task \in [Pids -> Task] /\ task[p] \in Task /\ task[p].at = "user"
        /\ sv.resumed = {} /\ sv.scheduled \subseteq Pids /\ sv' = sv /\ reports' = reports \cup {p}
    BY KernelTypes DEF IInv, TypeOK, SupervisorType, UserStep, svVars
  <1>1. PICK c \in Code : /\ c.from = task[p].label
                          /\ task' = [task EXCEPT ![p].at = "entry", ![p].op = c.op, ![p].label = c.to]
    BY DEF UserStep
  <1>2. /\ \A q \in Pids \ {p} : task'[q] = task[q] /\ (q \in reports' <=> q \in reports)
        /\ task'[p] = [task[p] EXCEPT !.at = "entry", !.op = c.op, !.label = c.to]
    BY <1>0, <1>1
  <1>3. /\ task'[p].at = "entry" /\ task'[p].op = c.op /\ task'[p].label = c.to
        /\ task'[p].tgid = task[p].tgid /\ task'[p].child = task[p].child
    BY <1>0, <1>2 DEF Task
  <1>4. Families(task', L)
    <2>1. \A q \in Pids : /\ task[q].op \in GuestOps /\ (task[q].at = "unborn" => task[q].op = NoOp)
                          /\ task[q].at # "unborn" => task[q].tgid = InitPid \/ (task[q].label \in L /\ task[q].op.name # "clone")
      BY DEF FamilyInv, Families
    <2>2. /\ c.op \in GuestOps
          /\ task[p].tgid = InitPid \/ (c.to \in L /\ c.op.name # "clone")
      BY <1>0, <1>1, <2>1 DEF GuestOps, ForkedAlone
    <2>3. ASSUME NEW q \in Pids
          PROVE  /\ task'[q].op \in GuestOps /\ (task'[q].at = "unborn" => task'[q].op = NoOp)
                 /\ task'[q].at # "unborn" => task'[q].tgid = InitPid \/ (task'[q].label \in L /\ task'[q].op.name # "clone")
      <3>1. CASE q = p
        BY <1>3, <2>2, <3>1
      <3>2. CASE q # p
        BY <1>2, <2>1, <3>2
      <3> QED
        BY <3>1, <3>2
    <2> QED
      BY <2>3 DEF Families
  <1>5. CloneNoted(task', reports', sv)
    <2> SUFFICES ASSUME NEW q \in Pids, sv.clonePending[q].thread PROVE ThreadNote(task', reports', q)
      BY DEF CloneNoted
    <2>1. ThreadNote(task, reports, q)
      BY DEF FamilyInv, CloneNoted
    <2>2. CASE q = p
      BY <1>0, <1>3, <2>1, <2>2 DEF CloneStopped, Entered, Ending, ThreadNote
    <2>3. CASE q # p
      <3>1. task'[q] = task[q] /\ (q \in reports' <=> q \in reports) /\ task[q].child \in Pids
        BY <1>0, <1>2, <2>3 DEF Task
      <3>2. task'[task[q].child].tgid = task[task[q].child].tgid
        BY <1>2, <1>3, <3>1
      <3> QED
        BY <2>1, <3>1, <3>2 DEF CloneStopped, Entered, ThreadNote
    <2> QED
      BY <2>2, <2>3
  <1>6. \A q \in sv.scheduled : task'[q].tgid = InitPid
    <2>1. \A q \in sv.scheduled : task[q].tgid = InitPid /\ q \in Pids
      BY <1>0 DEF FamilyInv
    <2>2. \A q \in Pids : task'[q].tgid = task[q].tgid
      BY <1>2, <1>3
    <2> QED
      BY <2>1, <2>2
  <1>7. StopSeen(task', reports', sv)
    BY <1>0 DEF StopSeen, Resuming
  <1> QED
    BY <1>0, <1>4, <1>5, <1>6, <1>7 DEF FamilyInv

\* clone and fork keep FamilyInv: a child noted as a thread is a thread of the init.
LEMMA FamilyClone ==
    ASSUME NEW L, ForkedAlone(L), IInv, FamilyInv(task, reports, sv, L), NEW p \in Pids, ExecuteClone(p)
    PROVE  FamilyInv(task', reports', sv', L)
  <1> DEFINE op == task[p].op
  <1>0. /\ task \in [Pids -> Task] /\ task[p] \in Task /\ task[p].at = "kernel"
        /\ op.name \in {"clone", "fork", "rawfork"}
        /\ sv.resumed = {} /\ sv.scheduled \subseteq Pids /\ sv' = sv /\ reports' = reports \cup {p}
    BY KernelTypes DEF IInv, TypeOK, SupervisorType, ExecuteClone, svVars
  <1>1. PICK c \in Pids :
          /\ task[c].at = "unborn"
          /\ task' = [task EXCEPT
                ![p].at = "clonestop", ![p].child = c,
                ![c].at = "born", ![c].label = op.entry,
                ![c].tgid = IF op.name = "clone" THEN task[p].tgid ELSE c,
                ![c].ctid = IF op.name = "rawfork" THEN NoAddr ELSE op.addr]
    BY DEF ExecuteClone
  <1>2. c # p /\ task[c] \in Task
    BY <1>0, <1>1
  <1>3. /\ \A q \in Pids \ {p, c} : task'[q] = task[q]
        /\ task'[p].at = "clonestop" /\ task'[p].child = c /\ task'[p].tgid = task[p].tgid
        /\ task'[p].op = task[p].op /\ task'[p].label = task[p].label
        /\ task'[c].at = "born" /\ task'[c].label = op.entry /\ task'[c].op = task[c].op
        /\ task'[c].child = task[c].child
        /\ op.name = "clone" => task'[c].tgid = task[p].tgid
    BY <1>0, <1>1, <1>2 DEF Task
  <1>4. /\ \A q \in Pids : /\ task[q].op \in GuestOps /\ (task[q].at = "unborn" => task[q].op = NoOp)
                           /\ task[q].at # "unborn" => task[q].tgid = InitPid \/ (task[q].label \in L /\ task[q].op.name # "clone")
        /\ op.name = "clone" => task[p].tgid = InitPid
    BY <1>0 DEF FamilyInv, Families
  <1> HIDE DEF op
  <1>5. Families(task', L)
    <2>1. op.name # "clone" => op.entry \in L
      <3>1. op \in GuestOps /\ op # NoOp
        BY <1>0, <1>4 DEF op, NoOp
      <3> QED
        BY <1>0, <3>1 DEF GuestOps, ForkedAlone
    <2>2. task'[c].op = NoOp /\ NoOp.name # "clone" /\ NoOp \in GuestOps
      BY <1>1, <1>3, <1>4 DEF NoOp, GuestOps
    <2>3. ASSUME NEW q \in Pids
          PROVE  /\ task'[q].op \in GuestOps /\ (task'[q].at = "unborn" => task'[q].op = NoOp)
                 /\ task'[q].at # "unborn" => task'[q].tgid = InitPid \/ (task'[q].label \in L /\ task'[q].op.name # "clone")
      <3>1. CASE q = c
        BY <1>3, <1>4, <2>1, <2>2, <3>1
      <3>2. CASE q = p
        BY <1>0, <1>2, <1>3, <1>4, <3>2
      <3>3. CASE q \in Pids \ {p, c}
        BY <1>3, <1>4, <3>3
      <3> QED
        BY <3>1, <3>2, <3>3
    <2> QED
      BY <2>3 DEF Families
  <1>6. CloneNoted(task', reports', sv)
    <2> SUFFICES ASSUME NEW q \in Pids, sv.clonePending[q].thread PROVE ThreadNote(task', reports', q)
      BY DEF CloneNoted
    <2>1. ThreadNote(task, reports, q)
      BY DEF FamilyInv, CloneNoted
    <2>2. CASE q = p
      <3>1. op.name = "clone"
        BY <1>0, <2>1, <2>2 DEF Entered, op, ThreadNote
      <3> QED
        BY <1>0, <1>3, <1>4, <2>2, <3>1 DEF Entered, op, ThreadNote
    <2>3. CASE q = c
      BY <1>1, <1>3, <2>1, <2>3 DEF CloneStopped, Entered, Ending, ThreadNote
    <2>4. CASE q \in Pids \ {p, c}
      <3>1. task'[q] = task[q] /\ (q \in reports' <=> q \in reports) /\ task[q].child \in Pids
        BY <1>0, <1>3, <2>4 DEF Task
      <3>2. CloneStopped(task, reports, q) => task[task[q].child].at # "unborn"
        BY DEF IInv, Link, ChildNew
      <3>3. CloneStopped(task, reports, q) => task'[task[q].child].tgid = task[task[q].child].tgid
        BY <1>1, <1>3, <3>1, <3>2
      <3> QED
        BY <2>1, <3>1, <3>3 DEF CloneStopped, Entered, ThreadNote
    <2> QED
      BY <2>2, <2>3, <2>4
  <1>7. \A q \in sv.scheduled : task'[q].tgid = InitPid
    <2>1. c \notin sv.scheduled
      BY <1>1 DEF IInv, Link, Unborn, Bookkeeping
    <2> QED
      BY <1>0, <1>3, <2>1 DEF FamilyInv
  <1>8. StopSeen(task', reports', sv)
    BY <1>0 DEF StopSeen, Resuming
  <1> QED
    BY <1>0, <1>5, <1>6, <1>7, <1>8 DEF FamilyInv

\* Every step of the kernel keeps FamilyInv.
LEMMA FamilyKernel ==
    ASSUME NEW L, ForkedAlone(L), IInv, PairInv, FamilyInv(task, reports, sv, L), NEW p \in Pids,
           KernelStep(p) \/ SignalArrives(p)
    PROVE  FamilyInv(task', reports', sv', L)
  <1>1. CASE UserStep(p)
    BY <1>1, FamilyUser
  <1>2. CASE ExecuteClone(p)
    BY <1>2, FamilyClone
  <1>3. CASE ExecuteWake(p)
    BY <1>3, FamilyWake
  <1>4. CASE Final(p)
    BY <1>4, FamilyFinal
  <1>5. CASE ExecuteExec(p) \/ ExecuteExitGroup(p) \/ SignalArrives(p)
    BY <1>5, FamilyKill
  <1>6. CASE \/ Attach(p) \/ ExecuteSimple(p) \/ ExecuteWait(p) \/ ExecuteLock(p) \/ ExecuteExit(p)
             \/ ExecutePipe(p) \/ WakeUp(p) \/ Return(p) \/ ExitStop(p)
    BY <1>6, FamilySimple
  <1> QED
    BY <1>1, <1>2, <1>3, <1>4, <1>5, <1>6 DEF KernelStep

\* schedule_next leaves the notes about clones alone.
LEMMA ScheduleNotes ==
    ASSUME NEW s
    PROVE  ScheduleNext(s).clonePending = s.clonePending
  BY DEF ScheduleNext, SwitchTo, ResumeThread, TraceJson

\* The thread schedule_next resumes is in no stop that has not been seen.
LEMMA FamilySchedule ==
    ASSUME NEW L, NEW t, NEW r, NEW s, NEW stk, Inv(t, r, s, stk), FamilyInv(t, r, s, L), s.current = NoPid
    PROVE  FamilyInv(t, r, ScheduleNext(s), L)
  <1> DEFINE n == ScheduleNext(s)
  <1>0. s \in SupervisorType /\ Bookkeeping(s) /\ s.scheduled \subseteq Pids
    BY DEF Inv, SupervisorType
  <1>1. /\ n.scheduled = s.scheduled
        /\ Asks(s, n, {}, {}) \/ \E q \in s.scheduled : Asks(s, n, {q}, {})
    BY <1>0, ScheduleAsks
  <1>2. \A q \in s.scheduled : ~Busy(t, r, s, q)
    BY <1>0, NobodyBusy, PidsAssumption
  <1>3. n.clonePending = s.clonePending
    BY ScheduleNotes
  <1> HIDE DEF n
  <1>4. StopSeen(t, r, n)
    BY <1>1, <1>2 DEF FamilyInv, StopSeen, Asks, Busy, ReportedAt
  <1>5. FamilyInv(t, r, n, L)
    BY <1>1, <1>3, <1>4 DEF FamilyInv, CloneNoted
  <1> QED
    BY <1>5 DEF n

\* The requests of a handler take effect: no note about a clone outlives it.
LEMMA FamilyCommit ==
    ASSUME NEW L, NEW p \in Pids, NEW t, NEW s, NEW stk, Inv(t, reports \ {p}, s, stk),
           FamilyInv(t, reports \ {p}, s, L), Commit(p, t, s, stk)
    PROVE  FamilyInv(task', reports', sv', L)
  <1> DEFINE s1 == LoopTail(s, stk)
             r == reports \ {p}
  <1>1. Inv(t, r, s1, stk) /\ FamilyInv(t, r, s1, L)
    BY ScheduleInv, FamilySchedule DEF LoopTail
  <1>2. /\ task' = IF PtraceFails(t, s1) THEN t ELSE Resumed(t, s1)
        /\ reports' = {q \in r : (\A x \in s1.resumed : x[1] # q) /\ task'[q].at # "dying"}
        /\ sv' = [s1 EXCEPT !.resumed = {}]
    BY DEF Commit
  <1> HIDE DEF s1
  <1>3. reports' = {q \in r : q \notin Resuming(s1) /\ task'[q].at # "dying"}
    BY <1>2 DEF Resuming
  <1>4. s1 \in SupervisorType /\ t \in [Pids -> Task] /\ s1.scheduled \subseteq Pids
    BY <1>1 DEF Inv, SupervisorType
  <1>5. /\ Resuming(sv') = {} /\ sv'.scheduled = s1.scheduled /\ sv'.clonePending = s1.clonePending
    <2>1. sv'.resumed = {} /\ sv'.scheduled = s1.scheduled /\ sv'.clonePending = s1.clonePending
      BY <1>2, <1>4 DEF SupervisorType
    <2> QED
      BY <2>1 DEF Resuming
  <1>6. CASE PtraceFails(t, s1)
    <2>1. task' = t
      BY <1>2, <1>6
    <2>2. \A q \in Resuming(s1) : t[q].at \in {"entry", "clonestop"} => q \notin r
      BY <1>1 DEF FamilyInv, StopSeen
    <2> HIDE DEF r
    <2>3. ASSUME NEW q \in Pids, s1.clonePending[q].thread PROVE ThreadNote(t, reports', q)
      <3>1. ThreadNote(t, r, q)
        BY <1>1, <2>3 DEF FamilyInv, CloneNoted
      <3>2. t[q].at \in {"entry", "clonestop"} => (q \in reports' <=> q \in r)
        BY <1>3, <2>1, <2>2
      <3> QED
        BY <3>1, <3>2 DEF ThreadNote, CloneStopped, Entered
    <2> QED
      BY <1>1, <1>5, <2>1, <2>3 DEF FamilyInv, CloneNoted, StopSeen
  <1>7. CASE ~PtraceFails(t, s1)
    <2>1. \A q \in Pids : RequestedTask(t, s1, task', q) /\ SameGroup(t, task', q)
      BY <1>2, <1>4, <1>7, RequestedShape, ResumedGroup
    <2>2. \A q \in Resuming(s1) : t[q].at \in {"entry", "clonestop"} => q \notin r
      BY <1>1 DEF FamilyInv, StopSeen
    <2> HIDE DEF r
    <2>3. Families(task', L)
      <3>1. NoOp \in GuestOps /\ NoOp.name # "clone"
        BY DEF GuestOps, NoOp
      <3>2. Families(t, L)
        BY <1>1 DEF FamilyInv
      <3> QED
        BY <2>1, <3>1, <3>2 DEF Families, SameGroup
    <2>4. ASSUME NEW q \in Pids, s1.clonePending[q].thread PROVE ThreadNote(task', reports', q)
      <3>1. ThreadNote(t, r, q)
        BY <1>1, <2>4 DEF FamilyInv, CloneNoted
      <3>2. RequestedTask(t, s1, task', q) /\ SameGroup(t, task', q) /\ t[q].child \in Pids
        BY <1>4, <2>1 DEF Task
      <3>3. task'[t[q].child].tgid = t[t[q].child].tgid /\ task'[q].child = t[q].child
        BY <2>1, <3>2 DEF SameGroup
      <3>4. /\ \A x \in Stops : NextAt(x) \notin {"entry", "clonestop"} /\ (NextAt(x) = "kernel" => x = "entry")
            /\ \A x \in Stops \cap Ending : NextAt(x) \in Ending
        BY DEF NextAt, Stops, Ending
      <3>5. task'[q].at \in {"entry", "clonestop"} => task'[q].at = t[q].at /\ (q \in r <=> q \in reports')
        BY <1>3, <3>2, <3>4 DEF RequestedTask
      <3>6. task'[q].at = "kernel" => Entered(t, r, q)
        BY <2>2, <3>2, <3>4 DEF RequestedTask, Entered
      <3>7. Entered(task', reports', q) => Entered(t, r, q)
        BY <3>5, <3>6 DEF Entered
      <3>8. Entered(task', reports', q) => task'[q].op.name \notin {"fork", "rawfork"}
        BY <3>1, <3>2, <3>7 DEF ThreadNote, SameGroup, NoOp
      <3>9. /\ CloneStopped(task', reports', q) => task'[task'[q].child].tgid = InitPid
            /\ task'[q].at = "clonestop" => q \in reports'
        BY <3>1, <3>3, <3>5 DEF ThreadNote, CloneStopped
      <3>10. \/ CloneMayFail \/ task'[q].at \in Ending
             \/ task'[q].op.name = "clone" /\ task'[q].at \in {"entry", "kernel", "clonestop"}
        <4>1. CASE t[q].at \in Ending
          BY <3>2, <3>4, <4>1 DEF RequestedTask, Ending
        <4>2. CASE ~CloneMayFail /\ t[q].op.name = "clone" /\ t[q].at \in {"entry", "kernel", "clonestop"}
          <5>1. task'[q].op = t[q].op
            BY <3>2, <4>2 DEF RequestedTask
          <5>2. t[q].at = "clonestop" => q \notin Resuming(s1)
            BY <2>2, <3>1 DEF ThreadNote
          <5>3. NextAt("entry") = "kernel" /\ "kernel" \notin Stops
            BY DEF NextAt, Stops
          <5> QED
            BY <3>2, <4>2, <5>1, <5>2, <5>3 DEF RequestedTask, Ending
        <4> QED
          BY <3>1, <4>1, <4>2 DEF ThreadNote
      <3> QED
        BY <3>8, <3>9, <3>10 DEF ThreadNote
    <2>5. \A q \in s1.scheduled : task'[q].tgid = InitPid
      BY <1>1, <1>4, <2>1 DEF FamilyInv, SameGroup
    <2> QED
      BY <1>5, <2>3, <2>4, <2>5 DEF FamilyInv, CloneNoted, StopSeen
  <1> QED
    BY <1>6, <1>7

\* What a handler notes about clones, and whom it schedules, is there when its
\* requests have taken effect.
LEMMA CommitNotes ==
    ASSUME NEW p, NEW t, NEW s, NEW stk, Commit(p, t, s, stk)
    PROVE  sv'.clonePending = s.clonePending /\ sv'.scheduled = s.scheduled
  <1> DEFINE s1 == LoopTail(s, stk)
  <1>1. ScheduleNext(s).scheduled = s.scheduled
    BY DEF ScheduleNext, SwitchTo, ResumeThread, TraceJson
  <1>2. s1.clonePending = s.clonePending /\ s1.scheduled = s.scheduled
    BY <1>1, ScheduleNotes DEF LoopTail
  <1>3. sv' = [s1 EXCEPT !.resumed = {}]
    BY DEF Commit
  <1> HIDE DEF s1
  <1> QED
    BY <1>2, <1>3

\* A handler keeps FamilyInv if its result, its requests still to be applied, does.
LEMMA FamilyHandled ==
    ASSUME NEW L, NEW p \in Pids, NEW t, NEW s, NEW stk, Inv(t, reports \ {p}, s, stk),
           Commit(p, t, s, stk), Families(t, L), CloneNoted(t, reports \ {p}, sv'),
           StopSeen(t, reports \ {p}, s), \A q \in sv'.scheduled : t[q].tgid = InitPid
    PROVE  FamilyInv(task', reports', sv', L)
  <1>1. FamilyInv(t, reports \ {p}, s, L)
    BY CommitNotes DEF FamilyInv, CloneNoted
  <1> QED
    BY <1>1, FamilyCommit

\* The handlers that leave the notes about clones alone.
LEMMA NotesKept ==
    ASSUME NEW p \in Pids,
           \/ SyscallExit(p) \/ ExitEvent(p) \/ OtherEvent(p) \/ AwaitedAttach(p)
           \/ OtherSigstop(p) \/ SignalStop(p) \/ ThreadExited(p)
    PROVE  sv'.clonePending = sv.clonePending
  <1>1. ASSUME NEW s, NEW q
        PROVE  /\ ResumeThread(s, q).clonePending = s.clonePending
               /\ ResumeStopped(s, q).clonePending = s.clonePending
               /\ Started(s, q).clonePending = s.clonePending
               /\ ScheduleNext(s).clonePending = s.clonePending
    BY ScheduleNotes DEF ResumeStopped, ResumeCurrent, ResumeThread, Started, Release
  <1>2. CASE SyscallExit(p)
    <2>1. OnSyscallExit(sv, p, task[p].op).clonePending = sv.clonePending
      BY DEF OnSyscallExit, TraceSyscall, TraceJson
    <2>2. ASSUME NEW s PROVE YieldCurrent(s, p).clonePending = s.clonePending
      <3>1. [s EXCEPT !.current = NoPid, !.runnable = Append(@, p)].clonePending = s.clonePending
        OBVIOUS
      <3> QED
        BY <3>1, ScheduleNotes DEF YieldCurrent
    <2> QED
      BY <1>1, <1>2, <2>1, <2>2, CommitNotes DEF SyscallExit
  <1>3. CASE ExitEvent(p) \/ OtherEvent(p)
    BY <1>1, <1>3, CommitNotes DEF ExitEvent, OtherEvent
  <1>4. CASE AwaitedAttach(p)
    BY <1>1, <1>4, CommitNotes DEF AwaitedAttach
  <1>5. OnSigstop(sv, p).clonePending = sv.clonePending
    BY <1>1 DEF OnSigstop
  <1>6. CASE OtherSigstop(p)
    BY <1>5, <1>6, CommitNotes DEF OtherSigstop
  <1>7. CASE SignalStop(p)
    <2>1. OnSignal(sv, p, task[p].sig).clonePending = sv.clonePending
      BY DEF OnSignal, Deliver
    <2> QED
      BY <1>5, <1>7, <2>1, CommitNotes DEF SignalStop
  <1>8. CASE ThreadExited(p)
    <2>1. ASSUME NEW s, NEW a PROVE Wake(s, a, 1).clonePending = s.clonePending
      BY DEF Wake
    <2> DEFINE u == [sv EXCEPT !.threads = @ \ {p}, !.scheduled = @ \ {p}]
    <2>2. WakeJoiner(u, p).clonePending = sv.clonePending
      <3>1. u.clonePending = sv.clonePending
        OBVIOUS
      <3> QED
        BY <2>1, <3>1, Zenon DEF WakeJoiner
    <2>3. Unregister(sv, p, sv.current = p).clonePending = sv.clonePending
      BY <2>2 DEF Unregister, TraceJson
    <2>4. OnThreadExit(sv, p, sv.current = p).clonePending = sv.clonePending
      BY <2>3 DEF OnThreadExit
    <2>5. OnExited(sv, p).clonePending = sv.clonePending
      <3>1. ASSUME NEW s PROVE [s EXCEPT !.current = NoPid].clonePending = s.clonePending
        OBVIOUS
      <3> QED
        BY <2>4, <3>1, ScheduleNotes DEF OnExited
    <2> QED
      BY <1>8, <2>5, CommitNotes DEF ThreadExited
  <1> QED
    BY <1>2, <1>3, <1>4, <1>6, <1>7, <1>8

\* A note about p stays true when a stop of p that is no syscall entry and no clone
\* event is taken off the reports.
LEMMA NotesSeen ==
    ASSUME NEW t, NEW r, NEW s, NEW p, CloneNoted(t, r, s), t[p].at \notin {"entry", "clonestop"}
    PROVE  CloneNoted(t, r \ {p}, s)
  <1> SUFFICES ASSUME NEW q \in Pids, s.clonePending[q].thread PROVE ThreadNote(t, r \ {p}, q)
    BY DEF CloneNoted
  <1>1. ThreadNote(t, r, q)
    BY DEF CloneNoted
  <1>2. CASE q = p
    BY <1>1, <1>2 DEF ThreadNote, CloneStopped, Entered
  <1>3. CASE q # p
    BY <1>1, <1>3 DEF ThreadNote, CloneStopped, Entered
  <1> QED
    BY <1>2, <1>3

\* The handlers of all other stops keep FamilyInv.
LEMMA FamilyOthers ==
    ASSUME NEW L, IInv, AttachOnly, PairInv, FamilyInv(task, reports, sv, L), NEW p \in Pids,
           \/ SyscallExit(p) \/ ExitEvent(p) \/ OtherEvent(p) \/ AwaitedAttach(p)
           \/ OtherSigstop(p) \/ SignalStop(p)
    PROVE  FamilyInv(task', reports', sv', L)
  <1>0. Resuming(sv) = {} /\ sv'.clonePending = sv.clonePending
    BY NotesKept DEF IInv, Resuming
  <1>1. task[p].at \in {"exitcall", "exitstop", "execstop", "attach", "signal"}
    BY DEF SyscallExit, ExitEvent, OtherEvent, AwaitedAttach, OtherSigstop, ReportedSigstop, SignalStop,
       Reported
  <1>2. CloneNoted(task, reports \ {p}, sv')
    <2>1. CloneNoted(task, reports \ {p}, sv)
      BY <1>1, NotesSeen DEF FamilyInv
    <2> QED
      BY <1>0, <2>1 DEF CloneNoted
  <1>3. ASSUME NEW s, NEW stk, NEW h \in Pids, Commit(p, task, s, stk), Inv(task, reports \ {p}, s, stk),
               s.scheduled \subseteq sv.scheduled, Resuming(s) \subseteq {p, h},
               h = p \/ task[h].at \in Ending \/ h \notin reports
        PROVE  FamilyInv(task', reports', sv', L)
    <2>1. StopSeen(task, reports \ {p}, s)
      BY <1>3 DEF StopSeen, Ending
    <2>2. \A q \in sv'.scheduled : task[q].tgid = InitPid
      BY <1>3, CommitNotes DEF FamilyInv
    <2> QED
      BY <1>2, <1>3, <2>1, <2>2, FamilyHandled DEF FamilyInv
  <1>4. CASE SyscallExit(p)
    <2>1. PICK s :
             /\ Commit(p, task, s, stack) /\ Inv(task, reports \ {p}, s, stack)
             /\ \/ SameTurn(sv, s) /\ Asks(sv, s, {p}, {})
                \/ \E u : /\ Inv(task, reports \ {p}, u, stack) /\ Yields(sv, u, p)
                          /\ s = ScheduleNext(u) /\ Asks(sv, u, {}, {})
      BY <1>4, SyscallExitResult
    <2>2. CASE SameTurn(sv, s) /\ Asks(sv, s, {p}, {})
      BY <1>0, <1>3, <2>1, <2>2 DEF SameTurn, Asks
    <2>3. CASE \E u : /\ Inv(task, reports \ {p}, u, stack) /\ Yields(sv, u, p)
                      /\ s = ScheduleNext(u) /\ Asks(sv, u, {}, {})
      <3>1. PICK u : /\ Inv(task, reports \ {p}, u, stack) /\ Yields(sv, u, p)
                     /\ s = ScheduleNext(u) /\ Asks(sv, u, {}, {})
        BY <2>3
      <3>2. u.current = NoPid /\ u.scheduled = sv.scheduled
        BY <3>1 DEF Yields
      <3>3. u.clonePending = sv.clonePending
        BY <1>0, <2>1, <3>1, CommitNotes, ScheduleNotes
      <3>4. FamilyInv(task, reports \ {p}, u, L)
        BY <1>0, <1>2, <3>1, <3>2, <3>3 DEF FamilyInv, CloneNoted, StopSeen, Asks
      <3>5. FamilyInv(task, reports \ {p}, s, L)
        BY <3>1, <3>2, <3>4, FamilySchedule
      <3> QED
        BY <2>1, <3>5, FamilyCommit
    <2> QED
      BY <2>1, <2>2, <2>3
  <1>5. CASE ExitEvent(p) \/ OtherEvent(p)
    <2>1. PICK s : /\ Commit(p, task, s, stack) /\ Inv(task, reports \ {p}, s, stack)
                   /\ SameTurn(sv, s) /\ Asks(sv, s, {p}, {})
      BY <1>5, EventResult
    <2> QED
      BY <1>0, <1>3, <2>1 DEF SameTurn, Asks
  <1>6. CASE AwaitedAttach(p)
    <2>1. PICK s, stk :
             /\ Commit(p, task, s, stk) /\ Inv(task, reports \ {p}, s, stk)
             /\ s.scheduled = sv.scheduled /\ stack # <<>> /\ Asks(sv, s, {p, Last(stack)[1]}, {})
      BY <1>6, AwaitedAttachResult
    <2>2. Len(stack) \in DOMAIN stack /\ Last(stack) = stack[Len(stack)] /\ Last(stack)[1] \in Pids
      BY <2>1 DEF Last, IInv, TypeOK
    <2>3. task[Last(stack)[1]].at \in Ending \/ Last(stack)[1] \notin reports
      BY <2>2 DEF PairInv, Pairing, ParentsHeld
    <2> QED
      BY <1>0, <1>3, <2>1, <2>2, <2>3 DEF Asks
  <1>7. CASE OtherSigstop(p) \/ SignalStop(p)
    <2>1. PICK s : /\ Commit(p, task, s, stack) /\ Inv(task, reports \ {p}, s, stack)
                   /\ SameTurn(sv, s) \/ s.scheduled = sv.scheduled
                   /\ Asks(sv, s, {p}, {})
      BY <1>7, StoppedResult
    <2> QED
      BY <1>0, <1>3, <2>1 DEF SameTurn, Asks
  <1> QED
    BY <1>4, <1>5, <1>6, <1>7

\* The exit of a task keeps FamilyInv.
LEMMA FamilyExited ==
    ASSUME NEW L, IInv, FamilyInv(task, reports, sv, L), NEW p \in Pids, ThreadExited(p)
    PROVE  FamilyInv(task', reports', sv', L)
  <1>0. Resuming(sv) = {} /\ sv'.clonePending = sv.clonePending /\ task \in [Pids -> Task] /\ sv.scheduled \subseteq Pids
    BY NotesKept DEF IInv, Resuming, TypeOK, SupervisorType
  <1>1. PICK t, s, s1 :
           /\ Commit(p, t, s, stack) /\ Inv(t, reports \ {p}, s, stack)
           /\ task[p].at = "gone" /\ t = [task EXCEPT ![p].at = "reaped"] /\ Asks(sv, s1, {}, {})
           /\ \E w : Leaves(sv, s1, p, w)
           /\ \/ s = s1
              \/ /\ Inv(t, reports \ {p}, [s1 EXCEPT !.current = NoPid], stack)
                 /\ s = ScheduleNext([s1 EXCEPT !.current = NoPid])
    BY <1>0, ThreadExitedResult
  <1>2. /\ \A q \in Pids \ {p} : t[q] = task[q]
        /\ t[p] = [task[p] EXCEPT !.at = "reaped"] /\ task[p] \in Task
    BY <1>0, <1>1
  <1>3. \A q \in Pids : Drifts(task, reports, t, reports \ {p}, q)
    <2>1. \A q \in Pids \ {p} : Drifts(task, reports, t, reports \ {p}, q)
      BY <1>2 DEF Drifts, CloneStopped
    <2>2. Drifts(task, reports, t, reports \ {p}, p)
      BY <1>1, <1>2 DEF Drifts, CloneStopped, Task, Ending
    <2> QED
      BY <2>1, <2>2
  <1>4. FamilyInv(t, reports \ {p}, sv, L)
    BY <1>0, <1>3, FamilyDrift DEF IInv
  <1>5. s1.scheduled \subseteq sv.scheduled
    BY <1>1 DEF Leaves
  <1> DEFINE u == [s1 EXCEPT !.current = NoPid]
  <1>6. u.scheduled = s1.scheduled /\ Resuming(u) = Resuming(s1) /\ u.clonePending = s1.clonePending
    BY DEF Resuming
  <1>7. CASE s = s1
    <2>1. s1.clonePending = sv.clonePending
      BY <1>0, <1>1, <1>7, CommitNotes
    <2>2. FamilyInv(t, reports \ {p}, s1, L)
      BY <1>0, <1>1, <1>4, <1>5, <2>1 DEF FamilyInv, CloneNoted, StopSeen, Asks
    <2> QED
      BY <1>1, <1>7, <2>2, FamilyCommit
  <1>8. CASE Inv(t, reports \ {p}, u, stack) /\ s = ScheduleNext(u)
    <2>1. u.clonePending = sv.clonePending
      BY <1>0, <1>1, <1>8, CommitNotes, ScheduleNotes
    <2>2. FamilyInv(t, reports \ {p}, u, L)
      BY <1>0, <1>1, <1>4, <1>5, <1>6, <2>1 DEF FamilyInv, CloneNoted, StopSeen, Asks
    <2>3. u.current = NoPid
      BY <1>8 DEF Inv, SupervisorType
    <2>4. FamilyInv(t, reports \ {p}, s, L)
      BY <1>8, <2>2, <2>3, FamilySchedule
    <2> QED
      BY <1>1, <2>4, FamilyCommit
  <1> QED
    BY <1>1, <1>7, <1>8

\* What a syscall entry notes: the clone or fork it is about.
LEMMA EntryNotes ==
    ASSUME NEW p \in Pids, SyscallEntry(p), sv \in SupervisorType, task[p].op \in Op
    PROVE  /\ \A q \in Pids \ {p} : sv'.clonePending[q] = sv.clonePending[q]
           /\ IF task[p].op.name \in {"clone", "fork"}
              THEN sv'.clonePending[p].thread = (task[p].op.name = "clone")
              ELSE sv'.clonePending[p] = sv.clonePending[p]
  <1> DEFINE op == task[p].op
             w == EntryWord(p)
             s == OnSyscallEntry(sv, p, op, w)
  <1>1. ASSUME NEW u
        PROVE  /\ ResumeStopped(u, p).clonePending = u.clonePending
               /\ [u EXCEPT !.current = NoPid].clonePending = u.clonePending
    BY DEF ResumeStopped, ResumeCurrent, ResumeThread
  <1>2. sv'.clonePending = s.clonePending
    <2> HIDE DEF s
    <2> QED
      BY <1>1, CommitNotes DEF SyscallEntry, s
  <1>4. CASE op.name \in {"clone", "fork"}
    <2>1. s = TraceSyscall(StashClone(sv, p, op), op.name, Pass)
      BY <1>4 DEF OnSyscallEntry, FutexOps, PassedOps
    <2>2. s.clonePending = [sv.clonePending EXCEPT ![p] = [thread |-> op.name = "clone", childTid |-> op.addr]]
      BY <2>1 DEF TraceSyscall, TraceJson, StashClone
    <2>3. sv.clonePending \in [Pids -> CloneInfo]
      BY DEF SupervisorType
    <2> HIDE DEF s
    <2> QED
      BY <1>2, <1>4, <2>2, <2>3
  <1>5. CASE op.name \notin {"clone", "fork"}
    <2>1. s.clonePending = sv.clonePending
      BY <1>5, EntryFrame DEF EntryFields
    <2> QED
      BY <1>2, <1>5, <2>1
  <1> QED
    BY <1>4, <1>5

\* The entry of a syscall keeps FamilyInv: a thread of a forked process notes no
\* clone, and a note left over from a clone that failed is replaced.
LEMMA FamilyEntry ==
    ASSUME NEW L, ForksNoted, IInv, FamilyInv(task, reports, sv, L), NEW p \in Pids, SyscallEntry(p)
    PROVE  FamilyInv(task', reports', sv', L)
  <1> DEFINE r == reports \ {p}
  <1>0. /\ Resuming(sv) = {} /\ sv \in SupervisorType /\ task[p].op \in Op
        /\ p \in reports /\ task[p].at = "entry"
    BY DEF IInv, Resuming, TypeOK, Task, SyscallEntry, Reported
  <1>1. /\ \A q \in Pids \ {p} : sv'.clonePending[q] = sv.clonePending[q]
        /\ IF task[p].op.name \in {"clone", "fork"}
           THEN sv'.clonePending[p].thread = (task[p].op.name = "clone")
           ELSE sv'.clonePending[p] = sv.clonePending[p]
    BY <1>0, EntryNotes
  <1>2. PICK s : /\ Commit(p, task, s, stack) /\ Inv(task, r, s, stack)
                 /\ Asks(sv, s, {p}, Replaced(task[p].op, p)) /\ s.scheduled = sv.scheduled
    BY SyscallEntryResult
  <1>3. ASSUME NEW q \in Pids, sv'.clonePending[q].thread PROVE ThreadNote(task, r, q)
    <2>1. CASE q # p
      <3>1. ThreadNote(task, reports, q)
        BY <1>1, <1>3, <2>1 DEF FamilyInv, CloneNoted
      <3> QED
        BY <2>1, <3>1 DEF ThreadNote, CloneStopped, Entered
    <2>2. CASE q = p /\ task[p].op.name \in {"clone", "fork"}
      <3>1. task[p].op.name = "clone"
        BY <1>1, <1>3, <2>2
      <3> QED
        BY <1>0, <2>2, <3>1 DEF ThreadNote, CloneStopped, Entered
    <2>3. CASE q = p /\ task[p].op.name \notin {"clone", "fork"}
      <3>1. ThreadNote(task, reports, p)
        BY <1>1, <1>3, <2>3 DEF FamilyInv, CloneNoted
      <3>2. CloneMayFail
        BY <1>0, <2>3, <3>1 DEF ThreadNote, Ending
      <3>3. task[p].op.name # "rawfork"
        BY <3>2 DEF ForksNoted, FamilyInv, Families, GuestOps, NoOp
      <3> QED
        BY <1>0, <2>3, <3>2, <3>3 DEF ThreadNote, CloneStopped, Entered
    <2> QED
      BY <2>1, <2>2, <2>3
  <1>4. StopSeen(task, r, s)
    BY <1>0, <1>2 DEF StopSeen, Asks
  <1>5. \A q \in sv'.scheduled : task[q].tgid = InitPid
    BY <1>2, CommitNotes DEF FamilyInv
  <1> QED
    BY <1>2, <1>3, <1>4, <1>5, FamilyHandled DEF FamilyInv, CloneNoted

\* What the handler of a clone event registers: the child as a thread only if the
\* parent's clone was noted as one, and the note is used up.
LEMMA CloneEventNotes ==
    ASSUME NEW p \in Pids, CloneEvent(p), sv \in SupervisorType
    PROVE  /\ \A q \in Pids \ {p} : sv'.clonePending[q] = sv.clonePending[q]
           /\ ~sv'.clonePending[p].thread
           /\ sv'.scheduled \subseteq sv.scheduled
                 \cup (IF sv.clonePending[p].thread THEN {task[p].child} ELSE {})
  <1> DEFINE u == [sv EXCEPT !.clonePending[p] = DefaultCloneInfo]
             c == task[p].child
             info == sv.clonePending[p]
             s == RegisterThread(u, c, info)
  <1>1. /\ u.clonePending = [sv.clonePending EXCEPT ![p] = DefaultCloneInfo]
        /\ u.scheduled = sv.scheduled
    OBVIOUS
  <1>2. ASSUME NEW v, NEW q
        PROVE  /\ ResumeStopped(v, q).clonePending = v.clonePending
               /\ ResumeStopped(v, q).scheduled = v.scheduled
               /\ Release(v, q).clonePending = v.clonePending
               /\ Release(v, q).scheduled = v.scheduled
    BY DEF ResumeStopped, ResumeCurrent, ResumeThread, Release
  <1>3. s.clonePending = u.clonePending /\ s.scheduled \subseteq u.scheduled \cup (IF info.thread THEN {c} ELSE {})
    <2> HIDE DEF u, c, info
    <2> DEFINE s1 == [u EXCEPT !.threads = @ \cup {c}, !.scheduled = IF info.thread THEN @ \cup {c} ELSE @,
                               !.vtid[c] = u.vtidNext, !.childTid[c] = info.childTid, !.vtidNext = @ + 1]
               s2 == IF c \in s1.stoppedPending
                     THEN Release([s1 EXCEPT !.stoppedPending = @ \ {c}], c)
                     ELSE [s1 EXCEPT !.pendingStart = @ \cup {c}]
               s3 == TraceJson(s2, "thread_create", u.vtidNext, IF info.thread THEN 1 ELSE 0)
    <2>1. s1.clonePending = u.clonePending /\ s1.scheduled \subseteq u.scheduled \cup (IF info.thread THEN {c} ELSE {})
      OBVIOUS
    <2>2. s = IF c \in u.threads THEN u ELSE s3
      BY DEF RegisterThread
    <2> HIDE DEF s1
    <2>3. /\ [s1 EXCEPT !.stoppedPending = @ \ {c}].clonePending = s1.clonePending
          /\ [s1 EXCEPT !.stoppedPending = @ \ {c}].scheduled = s1.scheduled
          /\ [s1 EXCEPT !.pendingStart = @ \cup {c}].clonePending = s1.clonePending
          /\ [s1 EXCEPT !.pendingStart = @ \cup {c}].scheduled = s1.scheduled
      OBVIOUS
    <2>4. s2.clonePending = s1.clonePending /\ s2.scheduled = s1.scheduled
      BY <1>2, <2>3
    <2> HIDE DEF s2
    <2>5. s3.clonePending = s2.clonePending /\ s3.scheduled = s2.scheduled
      BY DEF TraceJson
    <2> HIDE DEF s3, s
    <2> QED
      BY <2>1, <2>2, <2>4, <2>5
  <1>4. sv'.clonePending = s.clonePending /\ sv'.scheduled = s.scheduled
    <2> HIDE DEF s
    <2> QED
      BY <1>2, CommitNotes DEF CloneEvent, s
  <1>5. sv.clonePending \in [Pids -> CloneInfo] /\ DefaultCloneInfo.thread = FALSE
    BY DEF SupervisorType, DefaultCloneInfo
  <1> HIDE DEF s, u
  <1> QED
    BY <1>1, <1>3, <1>4, <1>5

\* A clone event keeps FamilyInv: only a thread of the init is taken for one.
LEMMA FamilyCloneEvent ==
    ASSUME NEW L, IInv, FamilyInv(task, reports, sv, L), NEW p \in Pids, CloneEvent(p)
    PROVE  FamilyInv(task', reports', sv', L)
  <1> DEFINE r == reports \ {p}
  <1>0. Resuming(sv) = {} /\ sv \in SupervisorType /\ CloneStopped(task, reports, p)
    BY DEF IInv, Resuming, TypeOK, CloneEvent, Reported, CloneStopped
  <1>1. /\ \A q \in Pids \ {p} : sv'.clonePending[q] = sv.clonePending[q]
        /\ ~sv'.clonePending[p].thread
        /\ sv'.scheduled \subseteq sv.scheduled
              \cup (IF sv.clonePending[p].thread THEN {task[p].child} ELSE {})
    BY <1>0, CloneEventNotes
  <1>2. PICK s, stk : /\ Commit(p, task, s, stk) /\ Inv(task, r, s, stk)
                      /\ \E q \in Pids \ sv.threads : Asks(sv, s, {q}, {}) \/ Asks(sv, s, {p, q}, {})
    BY CloneEventResult
  <1>3. ASSUME NEW q \in Pids, sv'.clonePending[q].thread PROVE ThreadNote(task, r, q)
    <2>1. q # p
      BY <1>1, <1>3
    <2>2. ThreadNote(task, reports, q)
      BY <1>1, <1>3, <2>1 DEF FamilyInv, CloneNoted
    <2> QED
      BY <2>1, <2>2 DEF ThreadNote, CloneStopped, Entered
  <1>4. StopSeen(task, r, s)
    <2>1. \A q \in Pids \ sv.threads : task[q].at \notin {"entry", "clonestop"}
      BY DEF IInv, Link, Unregistered, ReportedAt
    <2> QED
      BY <1>0, <1>2, <2>1 DEF StopSeen, Asks
  <1>5. \A q \in sv'.scheduled : task[q].tgid = InitPid
    BY <1>0, <1>1 DEF FamilyInv, CloneNoted, ThreadNote
  <1> QED
    BY <1>2, <1>3, <1>4, <1>5, FamilyHandled DEF FamilyInv, CloneNoted

\* Before run() is called no task moves.
Idle == outcome = "idle" => \A q \in Pids : task[q].at \in {"attach", "unborn"}

\* Run and the end of supervise() keep FamilyInv.
LEMMA FamilyEnds ==
    ASSUME NEW L, IInv, Idle, FamilyInv(task, reports, sv, L), Run \/ InitExited
    PROVE  FamilyInv(task', reports', sv', L)
  <1>0. /\ Resuming(sv) = {} /\ InitPid \in Pids /\ task \in [Pids -> Task] /\ sv.scheduled \subseteq Pids
        /\ sv.resumed = {}
    BY PidsAssumption DEF IInv, Resuming, TypeOK, SupervisorType
  <1>1. CASE Run
    <2>1. Inv(task, reports \ {InitPid}, sv, <<>>) /\ Commit(InitPid, task, sv, <<>>)
      BY <1>0, <1>1, IInvParts, PopInv DEF Run
    <2>2. CloneNoted(task, reports \ {InitPid}, sv)
      BY <1>0, <1>1, NotesSeen DEF FamilyInv, Run, Idle
    <2>3. FamilyInv(task, reports \ {InitPid}, sv, L)
      BY <1>0, <2>2 DEF FamilyInv, StopSeen
    <2> QED
      BY <1>0, <2>1, <2>3, FamilyCommit
  <1>2. CASE InitExited
    <2> DEFINE e == IF task[InitPid].fatal THEN "signal" ELSE "exit"
    <2>1. /\ task[InitPid].at = "gone" /\ task' = [task EXCEPT ![InitPid].at = "reaped"]
          /\ sv' = TraceJson(sv, e, 0, 0) /\ reports' = reports
      BY <1>2 DEF InitExited, Reapable
    <2> HIDE DEF e
    <2>2. sv'.clonePending = sv.clonePending /\ sv'.scheduled = sv.scheduled /\ sv'.resumed = sv.resumed
      BY <2>1 DEF TraceJson
    <2>3. /\ \A q \in Pids \ {InitPid} : task'[q] = task[q]
          /\ task'[InitPid] = [task[InitPid] EXCEPT !.at = "reaped"] /\ task[InitPid] \in Task
      BY <1>0, <2>1
    <2>4. \A q \in Pids : Drifts(task, reports, task', reports', q)
      <3>1. \A q \in Pids \ {InitPid} : Drifts(task, reports, task', reports', q)
        BY <2>1, <2>3 DEF Drifts, CloneStopped
      <3>2. Drifts(task, reports, task', reports', InitPid)
        BY <2>1, <2>3 DEF Drifts, CloneStopped, Task, Ending
      <3> QED
        BY <3>1, <3>2
    <2>5. FamilyInv(task', reports', sv, L)
      BY <1>0, <2>4, FamilyDrift
    <2> QED
      BY <2>2, <2>5 DEF FamilyInv, CloneNoted, StopSeen, Resuming
  <1> QED
    BY <1>1, <1>2

\* The initial states satisfy FamilyInv.
LEMMA InitFamily ==
    ASSUME NEW L, Init
    PROVE  FamilyInv(task, reports, sv, L) /\ Idle
  <1>1. /\ \A q \in Pids : task[q].op = NoOp /\ task[q].tgid = q
        /\ \A q \in Pids \ {InitPid} : task[q].at = "unborn"
        /\ task[InitPid].at = "attach"
    BY PidsAssumption DEF Init, InitialTasks
  <1>2. /\ \A q \in Pids : ~sv.clonePending[q].thread
        /\ Resuming(sv) = {} /\ sv.scheduled = {InitPid}
    BY DEF Init, NewSupervisor, DefaultCloneInfo, Resuming
  <1>3. Families(task, L)
    BY <1>1, PidsAssumption DEF Families, GuestOps
  <1> QED
    BY <1>1, <1>2, <1>3, PidsAssumption DEF FamilyInv, CloneNoted, StopSeen, Idle

\* Every step keeps FamilyInv.
LEMMA NextFamily ==
    ASSUME NoStops, NEW L, ForkedAlone(L), ForksNoted
    PROVE  IInv /\ PairInv /\ Idle /\ FamilyInv(task, reports, sv, L) /\ [Next]_vars
              => FamilyInv(task, reports, sv, L)'
  <1> SUFFICES ASSUME IInv, PairInv, Idle, FamilyInv(task, reports, sv, L), [Next]_vars
               PROVE  FamilyInv(task', reports', sv', L)
    OBVIOUS
  <1>1. CASE Run \/ InitExited
    BY <1>1, FamilyEnds
  <1>2. ASSUME NEW p \in Pids, KernelStep(p) \/ SignalArrives(p)
        PROVE  FamilyInv(task', reports', sv', L)
    BY <1>2, FamilyKernel
  <1>3. ASSUME NEW p \in Pids, SupervisorStep(p) PROVE FamilyInv(task', reports', sv', L)
    BY <1>3, NoStopsAttach, FamilyEntry, FamilyCloneEvent, FamilyOthers, FamilyExited DEF SupervisorStep
  <1>4. CASE UNCHANGED vars
    BY <1>4 DEF vars
  <1>5. CASE Done
    BY <1>4, <1>5 DEF Done
  <1> QED
    BY <1>1, <1>2, <1>3, <1>4, <1>5 DEF Next

\* No step but Run leaves the idle state, and none moves a task in it.
LEMMA NextIdle == IInv /\ Idle /\ [Next]_vars => Idle'
  <1> SUFFICES ASSUME IInv, Idle, [Next]_vars, outcome' = "idle"
               PROVE  \A q \in Pids : task'[q].at \in {"attach", "unborn"}
    BY DEF Idle
  <1>1. ASSUME NEW p \in Pids, KernelStep(p) \/ SignalArrives(p) PROVE outcome' = outcome /\ outcome # "idle"
    <2>1. outcome' = outcome
      BY <1>1 DEF KernelStep, UserStep, Attach, ExecuteSimple, ExecuteWait, ExecuteWake, ExecuteLock, ExecuteClone,
            ExecuteExec, ExecuteExit, ExecuteExitGroup, ExecutePipe, WakeUp, Return, ExitStop, Final,
            SignalArrives, svVars
    <2>2. KernelStep(p) => task[p].at \notin {"attach", "unborn"}
      BY DEF KernelStep, UserStep, Attach, ExecuteSimple, ExecuteWait, ExecuteWake, ExecuteLock, ExecuteClone,
            ExecuteExec, ExecuteExit, ExecuteExitGroup, ExecutePipe, WakeUp, Return, ExitStop, Final
    <2>3. SignalArrives(p) => outcome # "idle"
      BY DEF SignalArrives
    <2> QED
      BY <1>1, <2>1, <2>2, <2>3 DEF Idle
  <1>2. ASSUME NEW p, NEW t, NEW s, NEW stk, Commit(p, t, s, stk) PROVE outcome' # "idle"
    BY <1>2 DEF Commit
  <1>3. ~Run /\ ~InitExited
    BY <1>2 DEF Run, InitExited
  <1>4. ASSUME NEW p \in Pids, SupervisorStep(p) PROVE FALSE
    BY <1>2, <1>4 DEF SupervisorStep, SyscallEntry, SyscallExit, CloneEvent, ExitEvent, OtherEvent,
          AwaitedAttach, OtherSigstop, SignalStop, ThreadExited
  <1>5. UNCHANGED vars
    BY <1>1, <1>3, <1>4 DEF Next, Done
  <1> QED
    BY <1>5 DEF Idle, vars

\* ScheduledSharesInit, for a guest whose forked processes create no threads: the
\* thread a clone event admits to the run queue is one of the init's, whatever
\* notes clones that failed or died have left in clone_pending, if nobody sends SIGSTOP.
THEOREM ScheduledSharesInitHolds ==
    ASSUME NoStops, NEW L, ForkedAlone(L), ForksNoted
    PROVE  Spec => []ScheduledSharesInit
  <1>1. Init => FamilyInv(task, reports, sv, L) /\ Idle
    BY InitFamily
  <1>2. FamilyInv(task, reports, sv, L) => ScheduledSharesInit
    BY DEF FamilyInv, ScheduledSharesInit
  <1> QED
    BY <1>1, <1>2, NextFamily, NextIdle, Invariant, PairInvariant, PTL DEF Spec
==============================================================================

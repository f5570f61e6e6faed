-------------------------- MODULE SchedulingProofs --------------------------
(***************************************************************************)
(* Proof that the supervisor implements the round-robin scheduler          *)
(* (TakesTurns), that queued threads never overtake one another (Fifo) and *)
(* that the current thread changes only where the scheduler may take its   *)
(* turn away (SwitchOnlyAtSyscall), for every guest program to which       *)
(* nobody sends SIGSTOP.                                                   *)
(*                                                                         *)
(* A step of the supervisor is split in two: what the handler does to the  *)
(* queues, and the turn that schedule_next may give afterwards, in the     *)
(* handler or in the tail of the run loop (TurnGiven).                     *)
(***************************************************************************)
EXTENDS Scheduling, SupervisorProofs, SequenceFacts

-----------------------------------------------------------------------------
(* Giving the next turn *)

\* s1 is s, or s after the head of its run queue got its turn.
TurnGiven(s, s1) ==
    /\ s1.scheduled = s.scheduled /\ s1.waiting = s.waiting /\ s1.blocked = s.blocked
    /\ \/ s1.current = s.current /\ s1.runnable = s.runnable
       \/ /\ s.current = NoPid /\ s.runnable # <<>>
          /\ s1.current = Head(s.runnable) /\ s1.runnable = Tail(s.runnable)
          /\ s1.current \in s1.scheduled

\* schedule_next gives the turn to the head of the run queue, if there is one.
LEMMA ScheduleTurn ==
    ASSUME NEW s \in SupervisorType, Bookkeeping(s), s.current = NoPid
    PROVE  /\ TurnGiven(s, ScheduleNext(s))
           /\ ScheduleNext(s).current = NoPid => ScheduleNext(s).runnable = <<>> /\ s.runnable = <<>>
  <1>0. s.runnable \in Seq(Pids)
    BY DEF SupervisorType
  <1>1. CASE s.runnable = <<>>
    <2> DEFINE e == IF StopExpected(s) THEN s.err ELSE "deadlock"
    <2>1. ScheduleNext(s) = [s EXCEPT !.runnable = <<>>, !.err = e]
      <3>1. ReadyAt(s) = {}
        BY <1>0, <1>1, AllReady
      <3> QED
        BY <3>1 DEF ScheduleNext, SupervisorType
    <2> HIDE DEF e
    <2> QED
      BY <1>1, <2>1 DEF SupervisorType, TurnGiven
  <1>2. CASE s.runnable # <<>>
    <2> DEFINE tid == s.runnable[1]
               rest == SubSeq(s.runnable, 2, Len(s.runnable))
               to == s.vtid[tid]
               s1 == IF s.lastVtid # to THEN TraceJson(s, "schedule", s.lastVtid, to) ELSE s
               s2 == [s1 EXCEPT !.runnable = rest, !.lastVtid = to, !.current = tid]
    <2>1. /\ Len(s.runnable) >= 1 /\ Len(s.runnable) \in Nat
          /\ DOMAIN s.runnable = 1 .. Len(s.runnable)
      BY <1>0, <1>2, AllReady
    <2>2. tid \in Pids /\ tid \in s.scheduled /\ tid = Head(s.runnable) /\ rest = Tail(s.runnable)
      <3>1. 1 \in DOMAIN s.runnable
        BY <2>1
      <3>2. tid \in Range(s.runnable)
        BY <3>1 DEF Range
      <3>3. tid \in Pids
        BY <1>0, <3>1
      <3>4. tid = Head(s.runnable) /\ rest = Tail(s.runnable)
        BY <1>0, <2>1
      <3> QED
        BY <3>2, <3>3, <3>4 DEF Bookkeeping, RunQueueOK
    <2>3. s1 \in SupervisorType /\ SameQueues(s, s1)
      <3>1. to \in Int /\ s.lastVtid \in Int
        BY <2>2 DEF SupervisorType
      <3> HIDE DEF to
      <3>2. CASE s.lastVtid # to
        <4>1. "schedule" \in EventNames
          BY DEF EventNames
        <4>2. s1 \in SupervisorType /\ s1 = [s EXCEPT !.trace = s1.trace]
          BY <3>1, <3>2, <4>1, TraceFrame
        <4> HIDE DEF s1
        <4> QED
          BY <4>2 DEF SupervisorType, SameQueues
      <3>3. CASE s.lastVtid = to
        BY <3>3 DEF SameQueues
      <3> QED
        BY <3>2, <3>3
    <2>4. ScheduleNext(s) = ResumeThread(s2, tid)
      <3>1. Min(ReadyAt(s)) = 1 /\ ReadyAt(s) # {}
        BY <1>2, <2>1, AllReady
      <3>2. ScheduleNext(s) = SwitchTo(s, 1)
        BY <3>1 DEF ScheduleNext
      <3>3. s1.runnable = s.runnable /\ 1 + 1 = 2
        BY <2>3 DEF SameQueues
      <3> QED
        BY <3>2, <3>3 DEF SwitchTo
    <2> HIDE DEF tid, rest, to, s1
    <2>5. ResumeThread(s2, tid) =
            [s2 EXCEPT !.resumed = s2.resumed \cup {<<tid, s2.sigPending[tid]>>},
                       !.sigPending = [s2.sigPending EXCEPT ![tid] = NoSig]]
      BY DEF ResumeThread
    <2>6. /\ ScheduleNext(s).scheduled = s1.scheduled /\ ScheduleNext(s).waiting = s1.waiting
          /\ ScheduleNext(s).blocked = s1.blocked
          /\ ScheduleNext(s).current = tid /\ ScheduleNext(s).runnable = rest
      <3>1. /\ s2.scheduled = s1.scheduled /\ s2.waiting = s1.waiting /\ s2.blocked = s1.blocked
            /\ s2.current = tid /\ s2.runnable = rest
        BY <2>3 DEF SupervisorType
      <3> HIDE DEF s2
      <3> DEFINE y == [s2.sigPending EXCEPT ![tid] = NoSig]
                 z == s2.resumed \cup {<<tid, s2.sigPending[tid]>>}
      <3>2. ScheduleNext(s) = [s2 EXCEPT !.resumed = z, !.sigPending = y]
        BY <2>4, <2>5
      <3> HIDE DEF y, z
      <3> QED
        BY <3>1, <3>2
    <2>7. tid # NoPid
      BY <2>2, PidsAssumption
    <2> QED
      BY <1>2, <2>2, <2>3, <2>6, <2>7 DEF SameQueues, TurnGiven
  <1> QED
    BY <1>1, <1>2

\* The tail of the loop and the requests: at most one turn is given after a
\* handler, whether it called schedule_next itself (from u) or not.
LEMMA CommitTurn ==
    ASSUME NEW p, NEW t, NEW s \in SupervisorType, NEW stk, Bookkeeping(s), Commit(p, t, s, stk)
    PROVE  /\ TurnGiven(s, sv')
           /\ \A u \in SupervisorType :
                 Bookkeeping(u) /\ u.current = NoPid /\ s = ScheduleNext(u) => TurnGiven(u, sv')
  <1> DEFINE s1 == LoopTail(s, stk)
  <1>1. sv' = [s1 EXCEPT !.resumed = {}]
    BY DEF Commit
  <1>2. s1 = s \/ (s.current = NoPid /\ s1 = ScheduleNext(s))
    BY DEF LoopTail
  <1> HIDE DEF s1
  <1>3. TurnGiven(s, s1)
    <2>1. TurnGiven(s, s)
      BY DEF TurnGiven
    <2> QED
      BY <1>2, <2>1, ScheduleTurn
  <1>4. \A u : TurnGiven(u, s1) => TurnGiven(u, sv')
    <2>1. /\ sv'.scheduled = s1.scheduled /\ sv'.waiting = s1.waiting /\ sv'.blocked = s1.blocked
          /\ sv'.current = s1.current /\ sv'.runnable = s1.runnable
      BY <1>1
    <2> QED
      BY <2>1 DEF TurnGiven
  <1>5. ASSUME NEW u \in SupervisorType, Bookkeeping(u), u.current = NoPid, s = ScheduleNext(u)
        PROVE  TurnGiven(u, s1)
    <2>1. TurnGiven(u, s) /\ (s.current = NoPid => s.runnable = <<>> /\ u.runnable = <<>>)
      BY <1>5, ScheduleTurn
    <2> QED
      BY <2>1, <1>2, <1>3, <1>5 DEF TurnGiven
  <1> QED
    BY <1>3, <1>4, <1>5

-----------------------------------------------------------------------------
(* Wakes *)

\* s2 is s after the k longest parked threads of a have been queued.
Wakes(s, s2, a, k) ==
    /\ s2.current = s.current /\ s2.scheduled = s.scheduled
    /\ s2.runnable = s.runnable \o SubSeq(s.waiting[a], 1, k)
    /\ s2.waiting = [s.waiting EXCEPT ![a] = SubSeq(s.waiting[a], k + 1, Len(s.waiting[a]))]

\* The two pieces of a queue split after k entries.
LEMMA Pieces ==
    ASSUME NEW q \in Seq(Pids), NEW k \in 0 .. Len(q)
    PROVE  /\ SubSeq(q, 1, k) \in Seq(Pids) /\ Len(SubSeq(q, 1, k)) = k
           /\ \A i \in 1 .. k : SubSeq(q, 1, k)[i] = q[i]
           /\ SubSeq(q, k + 1, Len(q)) \in Seq(Pids) /\ Len(SubSeq(q, k + 1, Len(q))) = Len(q) - k
           /\ \A i \in 1 .. (Len(q) - k) : SubSeq(q, k + 1, Len(q))[i] = q[i + k]
  OBVIOUS

\* The entries of one queue after those of another.
LEMMA Joined ==
    ASSUME NEW q \in Seq(Pids), NEW r \in Seq(Pids)
    PROVE  /\ q \o r \in Seq(Pids) /\ Len(q \o r) = Len(q) + Len(r)
           /\ \A i \in 1 .. Len(q) : (q \o r)[i] = q[i]
           /\ \A i \in 1 .. Len(r) : (q \o r)[Len(q) + i] = r[i]
           /\ \A i \in 1 .. (Len(q) + Len(r)) : i > Len(q) => (q \o r)[i] = r[i - Len(q)]
  OBVIOUS

\* Joining no thread.
LEMMA JoinedNone ==
    ASSUME NEW q \in Seq(Pids) PROVE q \o <<>> = q
  <1>1. <<>> \in Seq(Pids) /\ Len(<<>>) = 0 /\ Len(q) \in Nat
    OBVIOUS
  <1>2. /\ q \o <<>> \in Seq(Pids) /\ Len(q \o <<>>) = Len(q) + Len(<<>>)
        /\ \A i \in 1 .. Len(q) : (q \o <<>>)[i] = q[i]
    BY <1>1, Joined
  <1> QED
    BY <1>1, <1>2, SameElements

\* Updating a function with the value it has.
LEMMA NoUpdate ==
    ASSUME NEW S, NEW T, NEW f \in [S -> T], NEW a \in S
    PROVE  [f EXCEPT ![a] = f[a]] = f
  OBVIOUS

\* Joining queues is associative.
LEMMA JoinedThree ==
    ASSUME NEW q \in Seq(Pids), NEW r \in Seq(Pids), NEW u \in Seq(Pids)
    PROVE  (q \o r) \o u = q \o (r \o u)
  <1> DEFINE a == q \o r
             b == r \o u
             c == a \o u
             d == q \o b
  <1>1. /\ a \in Seq(Pids) /\ Len(a) = Len(q) + Len(r) /\ b \in Seq(Pids) /\ Len(b) = Len(r) + Len(u)
        /\ Len(q) \in Nat /\ Len(r) \in Nat /\ Len(u) \in Nat
        /\ \A i \in 1 .. Len(q) : a[i] = q[i]
        /\ \A i \in 1 .. Len(r) : b[i] = r[i]
        /\ \A i \in 1 .. (Len(q) + Len(r)) : i > Len(q) => a[i] = r[i - Len(q)]
        /\ \A i \in 1 .. (Len(r) + Len(u)) : i > Len(r) => b[i] = u[i - Len(r)]
    BY Joined
  <1> HIDE DEF a, b
  <1>2. /\ c \in Seq(Pids) /\ Len(c) = Len(a) + Len(u)
        /\ \A i \in 1 .. Len(a) : c[i] = a[i]
        /\ \A i \in 1 .. (Len(a) + Len(u)) : i > Len(a) => c[i] = u[i - Len(a)]
    BY <1>1, Joined
  <1>3. /\ d \in Seq(Pids) /\ Len(d) = Len(q) + Len(b)
        /\ \A i \in 1 .. Len(q) : d[i] = q[i]
        /\ \A i \in 1 .. (Len(q) + Len(b)) : i > Len(q) => d[i] = b[i - Len(q)]
    BY <1>1, Joined
  <1> HIDE DEF c, d
  <1>4. ASSUME NEW i \in 1 .. Len(c) PROVE c[i] = d[i]
    <2>1. CASE i <= Len(q)
      BY <2>1, <1>1, <1>2, <1>3
    <2>2. CASE i > Len(q) /\ i <= Len(a)
      <3>1. i - Len(q) \in 1 .. Len(r) /\ i \in 1 .. (Len(q) + Len(b)) /\ i \in 1 .. Len(a)
        BY <2>2, <1>1, <1>2
      <3> QED
        BY <3>1, <2>2, <1>1, <1>2, <1>3
    <2>3. CASE i > Len(a)
      <3>1. /\ i \in 1 .. (Len(a) + Len(u)) /\ i \in 1 .. (Len(q) + Len(b)) /\ i > Len(q)
            /\ i - Len(q) \in 1 .. (Len(r) + Len(u)) /\ i - Len(q) > Len(r)
            /\ (i - Len(q)) - Len(r) = i - Len(a)
        BY <2>3, <1>1, <1>2
      <3>2. c[i] = u[i - Len(a)] /\ d[i] = b[i - Len(q)] /\ b[i - Len(q)] = u[(i - Len(q)) - Len(r)]
        BY <3>1, <2>3, <1>1, <1>2, <1>3, Zenon
      <3> QED
        BY <3>1, <3>2
    <2> QED
      BY <2>1, <2>2, <2>3, <1>1, <1>2
  <1>5. Len(c) = Len(d)
    BY <1>1, <1>2, <1>3
  <1> QED
    BY <1>2, <1>3, <1>4, <1>5, SameElements DEF a, b, c, d

\* Taking i entries of r to the end of q and then j of the rest.
TakenTwice(q, r, i, j, rest) ==
    /\ i + j \in 0 .. Len(r)
    /\ (q \o SubSeq(r, 1, i)) \o SubSeq(rest, 1, j) = q \o SubSeq(r, 1, i + j)
    /\ SubSeq(rest, j + 1, Len(rest)) = SubSeq(r, (i + j) + 1, Len(r))

\* Two wakes one after the other are one wake of as many threads.
LEMMA WakeTwice ==
    ASSUME NEW q \in Seq(Pids), NEW r \in Seq(Pids), NEW i \in 0 .. Len(r), NEW j \in 0 .. (Len(r) - i)
    PROVE  TakenTwice(q, r, i, j, SubSeq(r, i + 1, Len(r)))
  <1> DEFINE rest == SubSeq(r, i + 1, Len(r))
             a == SubSeq(r, 1, i)
             b == SubSeq(rest, 1, j)
             c == SubSeq(r, 1, i + j)
             d == SubSeq(rest, j + 1, Len(rest))
             e == SubSeq(r, (i + j) + 1, Len(r))
             f == a \o b
  <1>0. /\ Len(r) \in Nat /\ i \in Nat /\ j \in Nat
        /\ i <= Len(r) /\ i + j <= Len(r) /\ i + j \in 0 .. Len(r)
    OBVIOUS
  <1>1. /\ rest \in Seq(Pids) /\ Len(rest) = Len(r) - i
        /\ \A k \in 1 .. (Len(r) - i) : rest[k] = r[k + i]
        /\ a \in Seq(Pids) /\ Len(a) = i /\ \A k \in 1 .. i : a[k] = r[k]
    BY Pieces
  <1>2. /\ c \in Seq(Pids) /\ Len(c) = i + j /\ \A k \in 1 .. (i + j) : c[k] = r[k]
        /\ e \in Seq(Pids) /\ Len(e) = Len(r) - (i + j)
        /\ \A k \in 1 .. (Len(r) - (i + j)) : e[k] = r[k + (i + j)]
    BY <1>0, Pieces
  <1> HIDE DEF rest
  <1>3. j \in 0 .. Len(rest)
    BY <1>1
  <1>4. /\ b \in Seq(Pids) /\ Len(b) = j /\ \A k \in 1 .. j : b[k] = rest[k]
        /\ d \in Seq(Pids) /\ Len(d) = Len(rest) - j
        /\ \A k \in 1 .. (Len(rest) - j) : d[k] = rest[k + j]
    BY <1>1, <1>3, Pieces
  <1> HIDE DEF a, b, c, d, e
  <1>5. d = e
    <2>1. Len(d) = Len(e)
      BY <1>0, <1>1, <1>2, <1>4
    <2>2. ASSUME NEW k \in 1 .. Len(d) PROVE d[k] = e[k]
      <3>1. /\ k \in 1 .. (Len(rest) - j) /\ k \in 1 .. (Len(r) - (i + j))
            /\ k + j \in 1 .. (Len(r) - i) /\ (k + j) + i = k + (i + j)
        BY <1>0, <1>1, <1>4
      <3>2. d[k] = rest[k + j] /\ e[k] = r[k + (i + j)] /\ rest[k + j] = r[(k + j) + i]
        BY <3>1, <1>1, <1>2, <1>4, Zenon
      <3> QED
        BY <3>1, <3>2
    <2> QED
      BY <2>1, <2>2, <1>2, <1>4, SameElements
  <1>6. f = c
    <2>1. /\ f \in Seq(Pids) /\ Len(f) = i + j
          /\ \A k \in 1 .. i : f[k] = a[k]
          /\ \A k \in 1 .. (i + j) : k > i => f[k] = b[k - i]
      <3>1. /\ f \in Seq(Pids) /\ Len(f) = Len(a) + Len(b)
            /\ \A k \in 1 .. Len(a) : f[k] = a[k]
            /\ \A k \in 1 .. (Len(a) + Len(b)) : k > Len(a) => f[k] = b[k - Len(a)]
        BY <1>1, <1>4, Joined, Zenon
      <3> QED
        BY <3>1, <1>1, <1>4
    <2> HIDE DEF f
    <2>2. ASSUME NEW k \in 1 .. Len(f) PROVE f[k] = c[k]
      <3>0. k \in 1 .. (i + j)
        BY <2>1
      <3>1. CASE k <= i
        <4>1. k \in 1 .. i
          BY <3>0, <3>1, <1>0
        <4> QED
          BY <4>1, <3>0, <2>1, <1>1, <1>2
      <3>2. CASE ~(k <= i)
        <4>1. k > i /\ k - i \in 1 .. j /\ k - i \in 1 .. (Len(r) - i) /\ (k - i) + i = k
          BY <3>0, <3>2, <1>0
        <4>2. f[k] = b[k - i] /\ b[k - i] = rest[k - i] /\ rest[k - i] = r[(k - i) + i] /\ c[k] = r[k]
          BY <4>1, <3>0, <2>1, <1>1, <1>2, <1>4, Zenon
        <4> QED
          BY <4>1, <4>2
      <3> QED
        BY <3>1, <3>2
    <2> QED
      BY <2>1, <2>2, <1>2, SameElements
  <1>7. (q \o a) \o b = q \o f
    <2>1. a \in Seq(Pids) /\ b \in Seq(Pids)
      BY <1>1, <1>4
    <2> QED
      BY <2>1, JoinedThree
  <1> QED
    BY <1>0, <1>5, <1>6, <1>7 DEF TakenTwice, rest, a, b, c, d, e

\* The lesser of two numbers.
LEMMA LesserOf ==
    ASSUME NEW n \in Nat, NEW m \in Nat
    PROVE  /\ (IF n < m THEN n ELSE m) \in 0 .. m
           /\ n = 1 => (IF n < m THEN n ELSE m) \in {0, 1}
  OBVIOUS

\* The shape of one wake.
LEMMA WakeTurn ==
    ASSUME NEW s \in SupervisorType, NEW a \in Addr, NEW n \in Nat, NEW f, WakeResult(s, a, n, f)
    PROVE  \E k \in 0 .. Len(s.waiting[a]) : (n = 1 => k \in {0, 1}) /\ Wakes(s, f, a, k)
  <1> DEFINE q == s.waiting[a]
             k == IF n < Len(q) THEN n ELSE Len(q)
  <1>1. q \in Seq(Pids) /\ s.waiting \in [Addr -> Seq(Pids)] /\ f.waiting \in [Addr -> Seq(Pids)]
    BY DEF SupervisorType, WakeResult
  <1>2. k \in 0 .. Len(q) /\ (n = 1 => k \in {0, 1})
    <2>1. Len(q) \in Nat
      BY <1>1
    <2> QED
      BY <2>1, LesserOf
  <1>3. /\ f.current = s.current /\ f.scheduled = s.scheduled
        /\ f.runnable = s.runnable \o SubSeq(q, 1, k)
        /\ \A b \in Addr : f.waiting[b] = IF b = a THEN SubSeq(q, k + 1, Len(q)) ELSE s.waiting[b]
    BY DEF WakeResult, Woken, StillWaiting
  <1> HIDE DEF k
  <1>4. f.waiting = [s.waiting EXCEPT ![a] = SubSeq(q, k + 1, Len(q))]
    BY <1>1, <1>3
  <1> QED
    BY <1>2, <1>3, <1>4 DEF Wakes

\* A simulated wake or requeue.
LEMMA FutexWakeTurn ==
    ASSUME NEW t, NEW r, NEW s, NEW stk, NEW p \in Pids, NEW op \in Op, Inv(t, r, s, stk),
           op.name \in FutexOps
    PROVE  \E k \in 0 .. Len(s.waiting[op.addr]) : Wakes(s, FutexWake(s, p, op), op.addr, k)
  <1> DEFINE a == op.addr
             s1 == Wake(s, a, op.n)
             s2 == IF op.name = "wake" THEN s1 ELSE Wake(s1, a, op.n2)
             s3 == TraceFutex(SkipSyscall(s2, p), p, op.name, Woke)
  <1>0. /\ a \in Addr /\ op.n \in Nat /\ op.n2 \in Nat /\ op.name \in SyscallNames
        /\ s \in SupervisorType
    BY OpFields DEF Inv
  <1>1. WakeResult(s, a, op.n, s1) /\ Inv(t, r, s1, stk)
    BY <1>0, WakeShape, WakeInv
  <1>2. s1 \in SupervisorType
    BY <1>1 DEF Inv
  <1>3. WakeResult(s1, a, op.n2, Wake(s1, a, op.n2)) /\ Inv(t, r, Wake(s1, a, op.n2), stk)
    <2> HIDE DEF s1, a
    <2> QED
      BY <1>0, <1>1, <1>2, WakeShape, WakeInv
  <1>4. SameTurn(s2, s3)
    <2>1. Inv(t, r, s2, stk)
      BY <1>1, <1>3
    <2> HIDE DEF s2
    <2>2. Inv(t, r, SkipSyscall(s2, p), stk) /\ SameQueues(s2, SkipSyscall(s2, p))
      BY <2>1, SkipInv
    <2>3. SameQueues(SkipSyscall(s2, p), s3)
      BY <1>0, <2>2, TraceFutexInv
    <2> QED
      BY <2>2, <2>3 DEF SameQueues, SameTurn
  <1>5. FutexWake(s, p, op) = s3
    BY DEF FutexWake
  <1>6. PICK i \in 0 .. Len(s.waiting[a]) : Wakes(s, s1, a, i)
    <2> HIDE DEF s1, a
    <2> QED
      BY <1>0, <1>1, WakeTurn
  <1>7. CASE op.name = "wake"
    <2>1. s2 = s1
      BY <1>7
    <2> HIDE DEF s1, s2, s3, a
    <2>2. Wakes(s, s3, a, i)
      BY <1>4, <1>6, <2>1 DEF Wakes, SameTurn
    <2> QED
      BY <1>5, <1>6, <2>2 DEF a
  <1>8. CASE op.name # "wake"
    <2> DEFINE s4 == Wake(s1, a, op.n2)
    <2>1. s2 = s4
      BY <1>8
    <2> HIDE DEF s1, s2, s3, s4, a
    <2>2. PICK j \in 0 .. Len(s1.waiting[a]) : Wakes(s1, s4, a, j)
      BY <1>0, <1>2, <1>3, WakeTurn DEF s4
    <2>3. /\ s.runnable \in Seq(Pids) /\ s.waiting[a] \in Seq(Pids) /\ s.waiting \in [Addr -> Seq(Pids)]
      BY <1>0 DEF SupervisorType
    <2>4. /\ s1.waiting[a] = SubSeq(s.waiting[a], i + 1, Len(s.waiting[a]))
          /\ Len(s1.waiting[a]) = Len(s.waiting[a]) - i
      <3>1. s1.waiting[a] = SubSeq(s.waiting[a], i + 1, Len(s.waiting[a]))
        BY <1>0, <1>6, <2>3 DEF Wakes
      <3> QED
        BY <3>1, <1>6, <2>3
    <2>5. /\ i + j \in 0 .. Len(s.waiting[a])
          /\ s4.runnable = s.runnable \o SubSeq(s.waiting[a], 1, i + j)
          /\ SubSeq(s1.waiting[a], j + 1, Len(s1.waiting[a])) =
                SubSeq(s.waiting[a], (i + j) + 1, Len(s.waiting[a]))
      <3> DEFINE x == s.waiting[a]
                 y == s1.waiting[a]
      <3>1. s4.runnable = (s.runnable \o SubSeq(x, 1, i)) \o SubSeq(y, 1, j)
        BY <1>6, <2>2 DEF Wakes
      <3>2. x \in Seq(Pids) /\ y = SubSeq(x, i + 1, Len(x)) /\ j \in 0 .. (Len(x) - i) /\ i \in 0 .. Len(x)
        BY <1>6, <2>2, <2>3, <2>4
      <3> HIDE DEF x, y
      <3>3. /\ i + j \in 0 .. Len(x)
            /\ (s.runnable \o SubSeq(x, 1, i)) \o SubSeq(y, 1, j) = s.runnable \o SubSeq(x, 1, i + j)
            /\ SubSeq(y, j + 1, Len(y)) = SubSeq(x, (i + j) + 1, Len(x))
        <4>1. TakenTwice(s.runnable, x, i, j, SubSeq(x, i + 1, Len(x)))
          BY <3>2, <2>3, WakeTwice
        <4>2. TakenTwice(s.runnable, x, i, j, y)
          BY <4>1, <3>2
        <4> QED
          BY <4>2 DEF TakenTwice
      <3> QED
        BY <3>1, <3>3 DEF x, y
    <2>6. s4.waiting = [s.waiting EXCEPT ![a] = SubSeq(s.waiting[a], (i + j) + 1, Len(s.waiting[a]))]
      <3>1. s4.waiting = [s1.waiting EXCEPT ![a] = SubSeq(s.waiting[a], (i + j) + 1, Len(s.waiting[a]))]
        BY <2>2, <2>5 DEF Wakes
      <3>2. s1.waiting = [s.waiting EXCEPT ![a] = s1.waiting[a]]
        BY <1>6, <2>4 DEF Wakes
      <3> DEFINE z == SubSeq(s.waiting[a], (i + j) + 1, Len(s.waiting[a]))
      <3> HIDE DEF z
      <3> QED
        BY <3>1, <3>2, <2>3, <1>0 DEF z
    <2>7. Wakes(s, s4, a, i + j)
      BY <1>6, <2>2, <2>5, <2>6 DEF Wakes
    <2>8. Wakes(s, s3, a, i + j)
      BY <1>4, <2>1, <2>7 DEF Wakes, SameTurn
    <2> QED
      BY <1>5, <2>5, <2>8 DEF a
  <1> QED
    BY <1>7, <1>8

-----------------------------------------------------------------------------
(* The steps *)

\* What a step of the supervisor is shown to be: a step of the round-robin
\* scheduler that switches where it may, and to a thread that is there.
TurnStep ==
    /\ Turns!Next
    /\ SwitchStep
    /\ sv'.current \in {sv.current, NoPid} \cup sv'.scheduled

\* A turn given after a handler is how the round-robin scheduler settles.
LEMMA SettleTurn ==
    ASSUME NEW s \in SupervisorType, TurnGiven(s, sv')
    PROVE  Turns!Settle(OnTurn(s), s.runnable) /\ sv'.waiting = s.waiting
  <1>1. NoPid \notin s.scheduled
    BY PidsAssumption DEF SupervisorType
  <1>2. CASE sv'.current = s.current /\ sv'.runnable = s.runnable
    BY <1>2 DEF TurnGiven, OnTurn, Turns!Settle
  <1>3. CASE ~(sv'.current = s.current /\ sv'.runnable = s.runnable)
    <2>1. /\ s.current = NoPid /\ s.runnable # <<>>
          /\ sv'.current = Head(s.runnable) /\ sv'.runnable = Tail(s.runnable)
          /\ sv'.current \in sv'.scheduled
      BY <1>3 DEF TurnGiven
    <2>2. OnTurn(s) = NoPid /\ OnTurn(sv)' = sv'.current
      BY <1>1, <2>1 DEF OnTurn
    <2> QED
      BY <2>1, <2>2 DEF TurnGiven, Turns!Settle
  <1> QED
    BY <1>2, <1>3 DEF TurnGiven

\* A handler that keeps the current thread switches only away from none.
LEMMA KeepsCurrent ==
    ASSUME NEW s, TurnGiven(s, sv'), s.current = sv.current
    PROVE  SwitchStep /\ sv'.current \in {sv.current, NoPid} \cup sv'.scheduled
  BY PidsAssumption DEF TurnGiven, SwitchStep

\* A handler that leaves the queues alone: nothing or a turn.
LEMMA SameTurnStep ==
    ASSUME NEW s \in SupervisorType, TurnGiven(s, sv'), SameTurn(sv, s)
    PROVE  TurnStep
  <1>1. Turns!Settle(OnTurn(sv), sv.runnable) /\ sv'.waiting = sv.waiting
    <2>1. Turns!Settle(OnTurn(s), s.runnable) /\ sv'.waiting = s.waiting
      BY SettleTurn
    <2>2. OnTurn(s) = OnTurn(sv)
      BY DEF SameTurn, OnTurn
    <2> QED
      BY <2>1, <2>2 DEF SameTurn
  <1>2. Turns!Dispatch
    BY <1>1 DEF Turns!Dispatch
  <1> QED
    BY <1>2, KeepsCurrent DEF TurnStep, Turns!Next, SameTurn

\* A handler that queues a task from outside the queues.
LEMMA AdmitStep ==
    ASSUME NEW s \in SupervisorType, NEW p \in Pids, TurnGiven(s, sv'), Admits(sv, s, p),
           Bookkeeping(sv), sv \in SupervisorType,
           p # sv.current, p \notin Range(sv.runnable), p \notin sv.blocked
    PROVE  TurnStep
  <1>1. Turns!Settle(OnTurn(s), s.runnable) /\ sv'.waiting = s.waiting
    BY SettleTurn
  <1>2. OnTurn(s) = OnTurn(sv)
    BY DEF Admits, OnTurn
  <1>3. SwitchStep /\ sv'.current \in {sv.current, NoPid} \cup sv'.scheduled
    BY KeepsCurrent DEF Admits
  <1>4. CASE s.runnable = sv.runnable
    <2>1. Turns!Dispatch
      BY <1>1, <1>2, <1>4 DEF Turns!Dispatch, Admits
    <2> QED
      BY <1>3, <2>1 DEF TurnStep, Turns!Next
  <1>5. CASE s.runnable = Append(sv.runnable, p)
    <2>1. p # OnTurn(sv)
      BY PidsAssumption DEF OnTurn
    <2>2. \A w \in Addr : p \notin Range(sv.waiting[w])
      BY DEF Bookkeeping, ParkedOK
    <2>3. Turns!Admit(p)
      BY <1>1, <1>2, <1>5, <2>1, <2>2 DEF Turns!Admit, Admits, Turns!Range, Range
    <2> QED
      BY <1>3, <2>3 DEF TurnStep, Turns!Next
  <1> QED
    BY <1>4, <1>5 DEF Admits

\* A handler that wakes parked threads.
LEMMA WakeStep ==
    ASSUME NEW s \in SupervisorType, NEW a \in Addr, NEW k \in 0 .. Len(sv.waiting[a]),
           TurnGiven(s, sv'), Wakes(sv, s, a, k)
    PROVE  TurnStep
  <1>1. Turns!Settle(OnTurn(s), s.runnable) /\ sv'.waiting = s.waiting
    BY SettleTurn
  <1>2. OnTurn(s) = OnTurn(sv)
    BY DEF Wakes, OnTurn
  <1>3. SwitchStep /\ sv'.current \in {sv.current, NoPid} \cup sv'.scheduled
    BY KeepsCurrent DEF Wakes
  <1>4. Turns!Wake(a, k)
    BY <1>1, <1>2 DEF Wakes, Turns!Wake, Turns!Woken, Turns!StillParked
  <1> QED
    BY <1>3, <1>4 DEF TurnStep, Turns!Next

\* The running thread parks.
LEMMA ParkStep ==
    ASSUME NEW s \in SupervisorType, NEW a \in Addr, NEW p \in Pids, TurnGiven(s, sv'),
           ParksOn(sv, s, p, a), sv.current = p, p \in sv.scheduled,
           p \in reports, task[p].at = "entry"
    PROVE  TurnStep
  <1>1. Turns!Settle(OnTurn(s), s.runnable) /\ sv'.waiting = s.waiting
    BY SettleTurn
  <1>2. OnTurn(s) = NoPid /\ OnTurn(sv) = p /\ p # NoPid
    BY PidsAssumption DEF ParksOn, OnTurn
  <1>3. Turns!Park(a)
    BY <1>1, <1>2 DEF ParksOn, Turns!Park
  <1>4. SwitchStep /\ sv'.current \in {sv.current, NoPid} \cup sv'.scheduled
    BY DEF TurnGiven, ParksOn, SwitchStep
  <1> QED
    BY <1>3, <1>4 DEF TurnStep, Turns!Next

\* The turn of the running thread ends.
LEMMA YieldStep ==
    ASSUME NEW s \in SupervisorType, NEW p \in Pids, TurnGiven(s, sv'),
           Yields(sv, s, p), sv.current = p, p \in sv.scheduled,
           p \in reports, task[p].at = "exitcall"
    PROVE  TurnStep
  <1>1. Turns!Settle(OnTurn(s), s.runnable) /\ sv'.waiting = s.waiting
    BY SettleTurn
  <1>2. OnTurn(s) = NoPid /\ OnTurn(sv) = p /\ p # NoPid
    BY PidsAssumption DEF Yields, OnTurn
  <1>3. Turns!Yield
    BY <1>1, <1>2 DEF Yields, Turns!Yield
  <1>4. SwitchStep /\ sv'.current \in {sv.current, NoPid} \cup sv'.scheduled
    BY DEF TurnGiven, Yields, SwitchStep
  <1> QED
    BY <1>3, <1>4 DEF TurnStep, Turns!Next

\* The instance's Without is retain.
LEMMA WithoutIsRetain ==
    ASSUME NEW q, NEW p PROVE Turns!Without(q, p) = Retain(q, p)
  BY DEF Turns!Without, Retain, Turns!Range, Range, Turns!RemoveAt, RemoveAt

\* A task leaves, from wherever it is.
LEMMA LeaveStep ==
    ASSUME NEW s \in SupervisorType, NEW s1, NEW p \in Pids, NEW w \in SupervisorType,
           sv \in SupervisorType, Bookkeeping(sv),
           TurnGiven(s, sv'), task[p].at = "gone", Leaves(sv, s1, p, w),
           w = sv \/ \E a \in Addr : WakeResult(sv, a, 1, w),
           s = s1 \/ (sv.current = p /\ s = [s1 EXCEPT !.current = NoPid])
    PROVE  TurnStep
  <1>1. Turns!Settle(OnTurn(s), s.runnable) /\ sv'.waiting = s.waiting
    BY SettleTurn
  <1>2. s.runnable = s1.runnable /\ s.waiting = s1.waiting /\ s.scheduled = s1.scheduled
        /\ (s.current = sv.current \/ (sv.current = p /\ s.current = NoPid))
    <2>1. CASE s = s1
      BY <2>1 DEF Leaves
    <2>2. CASE sv.current = p /\ s = [s1 EXCEPT !.current = NoPid]
      <3>1. s.current = NoPid
        BY <2>2 DEF SupervisorType
      <3> QED
        BY <2>2, <3>1
    <2> QED
      BY <2>1, <2>2
  <1>3. OnTurn(s) = IF OnTurn(sv) = p THEN NoPid ELSE OnTurn(sv)
    <2>1. NoPid # p /\ NoPid \notin sv.scheduled
      BY PidsAssumption DEF SupervisorType
    <2> QED
      BY <1>2, <2>1 DEF OnTurn, Leaves
  <1>4. SwitchStep /\ sv'.current \in {sv.current, NoPid} \cup sv'.scheduled
    <2>1. CASE s.current = sv.current
      BY <2>1, KeepsCurrent
    <2>2. CASE sv.current = p /\ s.current = NoPid
      BY <2>2 DEF SwitchStep, TurnGiven
    <2> QED
      BY <1>2, <2>1, <2>2
  <1>5. /\ sv'.waiting = [v \in Addr |-> Turns!Without(w.waiting[v], p)]
        /\ Turns!Settle(IF OnTurn(sv) = p THEN NoPid ELSE OnTurn(sv), Turns!Without(w.runnable, p))
    <2>1. \A v \in Addr : Turns!Without(w.waiting[v], p) = Retain(w.waiting[v], p)
      BY WithoutIsRetain
    <2>2. Turns!Without(w.runnable, p) = s.runnable
      BY <1>2, WithoutIsRetain DEF Leaves
    <2>3. sv'.waiting = [v \in Addr |-> Retain(w.waiting[v], p)]
      BY <1>1, <1>2 DEF Leaves
    <2> QED
      BY <1>1, <1>3, <2>1, <2>2, <2>3
  <1>6. CASE w = sv
    <2>1. Turns!Leave(p)
      BY <1>5, <1>6 DEF Turns!Leave, Turns!Depart
    <2> QED
      BY <1>4, <2>1 DEF TurnStep, Turns!Next
  <1>7. CASE \E a \in Addr : WakeResult(sv, a, 1, w)
    <2>1. PICK a \in Addr : WakeResult(sv, a, 1, w)
      BY <1>7
    <2>2. PICK k \in 0 .. Len(sv.waiting[a]) : k \in {0, 1} /\ Wakes(sv, w, a, k)
      BY <2>1, WakeTurn
    <2>3. sv.waiting[a] \in Seq(Pids) /\ sv.runnable \in Seq(Pids) /\ sv.waiting \in [Addr -> Seq(Pids)]
      BY DEF SupervisorType
    <2>4. CASE k = 1
      <3>1. sv.waiting[a] # <<>>
        BY <2>2, <2>3, <2>4
      <3>2. w.runnable = sv.runnable \o Turns!Woken(a, 1) /\ w.waiting = Turns!StillParked(a, 1)
        BY <2>2, <2>4 DEF Wakes, Turns!Woken, Turns!StillParked
      <3>3. Turns!LeaveJoined(p, a)
        BY <1>5, <3>1, <3>2 DEF Turns!LeaveJoined, Turns!Depart
      <3> QED
        BY <1>4, <3>3 DEF TurnStep, Turns!Next
    <2>5. CASE k = 0
      <3>1. w.runnable = sv.runnable /\ w.waiting = sv.waiting
        <4>1. SubSeq(sv.waiting[a], 1, 0) = <<>> /\ SubSeq(sv.waiting[a], 0 + 1, Len(sv.waiting[a])) = sv.waiting[a]
          BY <2>3
        <4>2. sv.runnable \o <<>> = sv.runnable
          BY <2>3, JoinedNone
        <4>3. [sv.waiting EXCEPT ![a] = sv.waiting[a]] = sv.waiting
          BY <2>3, NoUpdate, Zenon
        <4> QED
          BY <2>2, <2>5, <4>1, <4>2, <4>3 DEF Wakes
      <3>2. Turns!Leave(p)
        BY <1>5, <3>1 DEF Turns!Leave, Turns!Depart
      <3> QED
        BY <1>4, <3>2 DEF TurnStep, Turns!Next
    <2> QED
      BY <2>2, <2>4, <2>5
  <1> QED
    BY <1>6, <1>7

\* Of the supervisor's steps, each is a turn step.
LEMMA SupervisorTurns ==
    ASSUME IInv, AttachOnly, NEW p \in Pids, SupervisorStep(p)
    PROVE  TurnStep
  <1>0. sv \in SupervisorType /\ Bookkeeping(sv)
    BY DEF IInv, TypeOK
  <1>i. ASSUME NEW t, NEW s, NEW stk, Commit(p, t, s, stk), Inv(t, reports \ {p}, s, stk)
        PROVE  /\ s \in SupervisorType /\ TurnGiven(s, sv')
               /\ \A u : Inv(t, reports \ {p}, u, stk) /\ u.current = NoPid /\ s = ScheduleNext(u)
                         => u \in SupervisorType /\ TurnGiven(u, sv')
    <2>1. s \in SupervisorType /\ Bookkeeping(s)
      BY <1>i DEF Inv
    <2>2. \A u : Inv(t, reports \ {p}, u, stk) => u \in SupervisorType /\ Bookkeeping(u)
      BY DEF Inv
    <2> QED
      BY <1>i, <2>1, <2>2, CommitTurn
  <1>p. ASSUME p \in sv.pendingStart
        PROVE  p # sv.current /\ p \notin Range(sv.runnable) /\ p \notin sv.blocked
    BY <1>0, <1>p DEF Bookkeeping, RunQueueOK, ParkedOK
  <1>1. CASE SyscallEntry(p)
    <2>1. PICK s :
              /\ Commit(p, task, s, stack) /\ Inv(task, reports \ {p}, s, stack)
              /\ \/ /\ sv.current = p /\ p \in sv.scheduled
                    /\ p \in reports /\ task[p].at = "entry"
                    /\ \E a \in Addr : ParksOn(sv, s, p, a)
                 \/ SameTurn(sv, s)
                 \/ \E op \in Op : op.name \in FutexOps /\ SameTurn(FutexWake(sv, p, op), s)
      BY <1>1, SyscallEntryResult
    <2>2. s \in SupervisorType /\ TurnGiven(s, sv')
      BY <1>i, <2>1
    <2>3. CASE /\ sv.current = p /\ p \in sv.scheduled
               /\ p \in reports /\ task[p].at = "entry"
               /\ \E a \in Addr : ParksOn(sv, s, p, a)
      BY <2>2, <2>3, ParkStep
    <2>4. CASE SameTurn(sv, s)
      BY <2>2, <2>4, SameTurnStep
    <2>5. CASE \E op \in Op : op.name \in FutexOps /\ SameTurn(FutexWake(sv, p, op), s)
      <3>1. PICK op \in Op : op.name \in FutexOps /\ SameTurn(FutexWake(sv, p, op), s)
        BY <2>5
      <3>2. PICK k \in 0 .. Len(sv.waiting[op.addr]) : Wakes(sv, FutexWake(sv, p, op), op.addr, k)
        BY <3>1, IInvParts, FutexWakeTurn
      <3>3. Wakes(sv, s, op.addr, k) /\ op.addr \in Addr
        BY <3>1, <3>2, OpFields DEF Wakes, SameTurn
      <3> QED
        BY <2>2, <3>3, WakeStep
    <2> QED
      BY <2>1, <2>3, <2>4, <2>5
  <1>2. CASE SyscallExit(p)
    <2>1. PICK s :
              /\ Commit(p, task, s, stack) /\ Inv(task, reports \ {p}, s, stack)
              /\ \/ SameTurn(sv, s)
                 \/ /\ sv.current = p /\ p \in sv.scheduled
                    /\ p \in reports /\ task[p].at = "exitcall"
                    /\ \E u : /\ Inv(task, reports \ {p}, u, stack)
                              /\ Yields(sv, u, p) /\ s = ScheduleNext(u)
      BY <1>2, SyscallExitResult
    <2>2. CASE SameTurn(sv, s)
      BY <2>1, <2>2, <1>i, SameTurnStep
    <2>3. CASE /\ sv.current = p /\ p \in sv.scheduled
               /\ p \in reports /\ task[p].at = "exitcall"
               /\ \E u : /\ Inv(task, reports \ {p}, u, stack)
                         /\ Yields(sv, u, p) /\ s = ScheduleNext(u)
      <3>1. PICK u : Inv(task, reports \ {p}, u, stack) /\ Yields(sv, u, p) /\ s = ScheduleNext(u)
        BY <2>3
      <3>2. u.current = NoPid
        BY <3>1 DEF Yields
      <3>3. u \in SupervisorType /\ TurnGiven(u, sv')
        BY <2>1, <3>1, <3>2, <1>i
      <3> QED
        BY <2>3, <3>1, <3>3, YieldStep
    <2> QED
      BY <2>1, <2>2, <2>3
  <1>3. CASE CloneEvent(p)
    <2>1. PICK s, stk :
              /\ Commit(p, task, s, stk) /\ Inv(task, reports \ {p}, s, stk)
              /\ \E q \in Pids : q # sv.current /\ q \notin sv.scheduled /\ Admits(sv, s, q)
      BY <1>3, CloneEventResult
    <2>2. PICK q \in Pids : q # sv.current /\ q \notin sv.scheduled /\ Admits(sv, s, q)
      BY <2>1
    <2>3. q \notin Range(sv.runnable) /\ q \notin sv.blocked
      BY <1>0, <2>2 DEF Bookkeeping, RunQueueOK, ParkedOK
    <2>4. s \in SupervisorType /\ TurnGiven(s, sv')
      BY <1>i, <2>1
    <2> QED
      BY <1>0, <2>2, <2>3, <2>4, AdmitStep
  <1>4. CASE ExitEvent(p) \/ OtherEvent(p)
    <2>1. PICK s : /\ Commit(p, task, s, stack) /\ Inv(task, reports \ {p}, s, stack)
                   /\ SameTurn(sv, s)
      BY <1>4, EventResult
    <2> QED
      BY <2>1, <1>i, SameTurnStep
  <1>5. CASE AwaitedAttach(p)
    <2>1. PICK s, stk :
              /\ Commit(p, task, s, stk) /\ Inv(task, reports \ {p}, s, stk)
              /\ p \in sv.pendingStart /\ Admits(sv, s, p)
      BY <1>5, AwaitedAttachResult
    <2>2. s \in SupervisorType /\ TurnGiven(s, sv')
      BY <1>i, <2>1
    <2> QED
      BY <1>0, <1>p, <2>1, <2>2, AdmitStep
  <1>6. CASE OtherSigstop(p) \/ SignalStop(p)
    <2>1. PICK s :
              /\ Commit(p, task, s, stack) /\ Inv(task, reports \ {p}, s, stack)
              /\ \/ SameTurn(sv, s)
                 \/ p \in sv.pendingStart /\ Admits(sv, s, p)
      BY <1>6, StoppedResult
    <2>2. s \in SupervisorType /\ TurnGiven(s, sv')
      BY <1>i, <2>1
    <2> QED
      BY <1>0, <1>p, <2>1, <2>2, AdmitStep, SameTurnStep
  <1>7. CASE ThreadExited(p)
    <2>1. PICK t, s, s1 :
              /\ Commit(p, t, s, stack) /\ Inv(t, reports \ {p}, s, stack)
              /\ Inv(t, reports \ {p}, s1, stack)
              /\ task[p].at = "gone"
              /\ \E w \in SupervisorType :
                    /\ Leaves(sv, s1, p, w)
                    /\ w = sv \/ \E a \in Addr : WakeResult(sv, a, 1, w)
              /\ \/ s = s1
                 \/ /\ sv.current = p
                    /\ Inv(t, reports \ {p}, [s1 EXCEPT !.current = NoPid], stack)
                    /\ s = ScheduleNext([s1 EXCEPT !.current = NoPid])
      BY <1>7, ThreadExitedResult
    <2>2. PICK w \in SupervisorType :
                    /\ Leaves(sv, s1, p, w)
                    /\ w = sv \/ \E a \in Addr : WakeResult(sv, a, 1, w)
      BY <2>1
    <2>3. CASE s = s1
      <3>1. s \in SupervisorType /\ TurnGiven(s, sv')
        BY <1>i, <2>1
      <3> QED
        BY <1>0, <2>1, <2>2, <2>3, <3>1, LeaveStep
    <2>4. CASE /\ sv.current = p
               /\ Inv(t, reports \ {p}, [s1 EXCEPT !.current = NoPid], stack)
               /\ s = ScheduleNext([s1 EXCEPT !.current = NoPid])
      <3> DEFINE u == [s1 EXCEPT !.current = NoPid]
      <3>1. u.current = NoPid
        BY <2>1 DEF Inv, SupervisorType
      <3>2. Inv(t, reports \ {p}, u, stack) /\ s = ScheduleNext(u)
        BY <2>4
      <3>3. u = [s1 EXCEPT !.current = NoPid]
        OBVIOUS
      <3> HIDE DEF u
      <3>4. u \in SupervisorType /\ TurnGiven(u, sv')
        BY <1>i, <2>1, <3>1, <3>2
      <3> QED
        BY <1>0, <2>1, <2>2, <2>4, <3>3, <3>4, LeaveStep
    <2> QED
      BY <2>1, <2>3, <2>4
  <1> QED
    BY <1>1, <1>2, <1>3, <1>4, <1>5, <1>6, <1>7 DEF SupervisorStep

\* Every other step leaves the queues alone, or is the first turn.
LEMMA NextTurns ==
    ASSUME NoStops PROVE IInv /\ [Next]_vars => TurnStep
  <1> SUFFICES ASSUME IInv, [Next]_vars PROVE TurnStep
    OBVIOUS
  <1>0. sv \in SupervisorType /\ Bookkeeping(sv) /\ SameTurn(sv, sv)
    BY DEF IInv, TypeOK, SameTurn
  <1>1. CASE Run
    <2>1. Commit(InitPid, task, sv, <<>>)
      BY <1>1 DEF Run
    <2>2. TurnGiven(sv, sv')
      BY <1>0, <2>1, CommitTurn
    <2> QED
      BY <1>0, <2>2, SameTurnStep
  <1>2. CASE InitExited
    <2> DEFINE e == IF task[InitPid].fatal THEN "signal" ELSE "exit"
    <2>1. sv' = TraceJson(sv, e, 0, 0)
      BY <1>2 DEF InitExited
    <2>2. e \in EventNames /\ 0 \in Int
      BY DEF EventNames
    <2> HIDE DEF e
    <2>3. SameQueues(sv, sv')
      BY <2>1, <2>2, IInvParts, TraceInv
    <2>4. TurnGiven(sv, sv')
      BY <2>3 DEF SameQueues, TurnGiven
    <2> QED
      BY <1>0, <2>4, SameTurnStep
  <1>3. CASE UNCHANGED sv
    <2>1. TurnGiven(sv, sv')
      BY <1>3 DEF TurnGiven
    <2> QED
      BY <1>0, <2>1, SameTurnStep
  <1>4. ASSUME NEW p \in Pids, SignalArrives(p) \/ KernelStep(p) PROVE UNCHANGED sv
    BY <1>4 DEF SignalArrives, KernelStep, svVars, UserStep, Attach, ExecuteSimple, ExecuteWait,
       ExecuteWake, ExecuteLock, ExecuteClone, ExecuteExec, ExecuteExit, ExecuteExitGroup, ExecutePipe, WakeUp,
       Return, ExitStop, Final
  <1>5. CASE Done \/ UNCHANGED vars
    BY <1>3, <1>5 DEF Done, vars
  <1> QED
    BY <1>1, <1>2, <1>3, <1>4, <1>5, SupervisorTurns, NoStopsAttach DEF Next

\* The supervisor starts with the init alone in the queue.
LEMMA InitTurns == Init => Turns!Init
  BY PidsAssumption DEF Init, Turns!Init, NewSupervisor, OnTurn

\* The supervisor is a round-robin scheduler, whatever the guest does and in
\* whatever order its stops are reported, if nobody sends SIGSTOP: every handler,
\* nested attach wait and thread death is a step of RoundRobin.tla on run queue,
\* futex queues and turn.
THEOREM TakesTurnsHolds ==
    ASSUME NoStops PROVE Spec => TakesTurns
  <1>1. IInv /\ [Next]_vars => [Turns!Next]_(Turns!vars)
    BY NextTurns DEF TurnStep
  <1> QED
    BY <1>1, InitTurns, Invariant, PTL DEF Spec, TakesTurns, Turns!Spec

\* "Switched only at syscall boundaries": the current thread is replaced only at
\* the entry of a wait that parks it, at a syscall exit, or after it is gone, if
\* nobody sends SIGSTOP.
THEOREM SwitchHolds ==
    ASSUME NoStops PROVE Spec => SwitchOnlyAtSyscall
  <1>1. IInv /\ [Next]_vars => [SwitchStep]_vars
    BY NextTurns DEF TurnStep
  <1> QED
    BY <1>1, Invariant, PTL DEF Spec, SwitchOnlyAtSyscall

-----------------------------------------------------------------------------
(* The order of turns *)

\* The threads of q that are in r are there in the same order.
InOrder(q, r) ==
    \A i, j \in DOMAIN q : i < j =>
        \A k, m \in DOMAIN r : r[k] = q[i] /\ r[m] = q[j] => k < m

\* Queueing other threads behind q keeps its order.
LEMMA OrderJoined ==
    ASSUME NEW q \in Seq(Pids), NEW e \in Seq(Pids), IsInjective(q), Range(q) \cap Range(e) = {}
    PROVE  InOrder(q, q \o e)
  <1>1. /\ q \o e \in Seq(Pids) /\ Len(q \o e) = Len(q) + Len(e)
        /\ \A i \in 1 .. Len(q) : (q \o e)[i] = q[i]
        /\ \A i \in 1 .. (Len(q) + Len(e)) : i > Len(q) => (q \o e)[i] = e[i - Len(q)]
        /\ Len(q) \in Nat /\ Len(e) \in Nat
        /\ DOMAIN q = 1 .. Len(q) /\ DOMAIN e = 1 .. Len(e) /\ DOMAIN (q \o e) = 1 .. (Len(q) + Len(e))
    BY Joined
  <1> DEFINE r == q \o e
  <1> HIDE DEF r
  <1>2. ASSUME NEW i \in DOMAIN q, NEW k \in DOMAIN r, r[k] = q[i] PROVE k = i
    <2>1. CASE k \in 1 .. Len(q)
      <3>1. k \in DOMAIN q /\ q[k] = q[i]
        BY <1>1, <1>2, <2>1 DEF r
      <3> QED
        BY <3>1 DEF IsInjective
    <2>2. CASE k \notin 1 .. Len(q)
      <3>1. k \in 1 .. (Len(q) + Len(e)) /\ k > Len(q) /\ k - Len(q) \in DOMAIN e
        BY <1>1, <2>2 DEF r
      <3>2. q[i] = e[k - Len(q)]
        BY <1>1, <1>2, <3>1 DEF r
      <3>3. q[i] \in Range(q) /\ e[k - Len(q)] \in Range(e)
        BY <3>1, Zenon DEF Range
      <3> QED
        BY <3>2, <3>3
    <2> QED
      BY <2>1, <2>2
  <1>3. InOrder(q, r)
    BY <1>2 DEF InOrder
  <1> QED
    BY <1>3 DEF r

\* Where the entries of a queue that p has left come from.
LEMMA RetainIndices ==
    ASSUME NEW q \in Seq(Pids), NEW p \in Pids
    PROVE  \E n \in Nat : \A k \in DOMAIN Retain(q, p) :
              /\ k \in Nat
              /\ k < n => k \in DOMAIN q /\ Retain(q, p)[k] = q[k]
              /\ k >= n => k + 1 \in DOMAIN q /\ Retain(q, p)[k] = q[k + 1]
  <1>1. CASE p \notin Range(q)
    <2>1. Len(q) + 1 \in Nat /\ Retain(q, p) = q
          /\ \A k \in DOMAIN q : k \in Nat /\ k < Len(q) + 1
      BY <1>1 DEF Retain
    <2> QED
      BY <2>1
  <1>2. CASE p \in Range(q)
    <2> DEFINE i == CHOOSE j \in DOMAIN q : q[j] = p
               a == SubSeq(q, 1, i - 1)
               b == SubSeq(q, i + 1, Len(q))
               c == a \o b
    <2>1. Retain(q, p) = c
      BY <1>2 DEF Retain, RemoveAt
    <2>2. i \in DOMAIN q /\ q[i] = p
      BY <1>2 DEF Range
    <2> HIDE DEF i
    <2>3. Len(q) \in Nat /\ DOMAIN q = 1 .. Len(q) /\ i \in 1 .. Len(q) /\ i \in Nat
      BY <2>2
    <2>4. /\ a \in Seq(Pids) /\ b \in Seq(Pids) /\ Len(a) = i - 1 /\ Len(b) = Len(q) - i
          /\ \A j \in 1 .. (i - 1) : a[j] = q[j]
          /\ \A j \in 1 .. (Len(q) - i) : b[j] = q[j + i]
      BY <2>3
    <2> HIDE DEF a, b
    <2>5. /\ c \in Seq(Pids) /\ Len(c) = Len(a) + Len(b)
          /\ \A k \in 1 .. Len(a) : c[k] = a[k]
          /\ \A k \in 1 .. (Len(a) + Len(b)) : k > Len(a) => c[k] = b[k - Len(a)]
      BY <2>4, Joined
    <2> HIDE DEF c
    <2>6. ASSUME NEW k \in DOMAIN c
          PROVE  /\ k \in Nat
                 /\ k < i => k \in DOMAIN q /\ c[k] = q[k]
                 /\ k >= i => k + 1 \in DOMAIN q /\ c[k] = q[k + 1]
      <3>1. k \in 1 .. (Len(q) - 1) /\ k \in 1 .. (Len(a) + Len(b))
        BY <2>3, <2>4, <2>5
      <3>2. ASSUME k < i PROVE k \in DOMAIN q /\ c[k] = q[k]
        <4>1. k \in 1 .. Len(a) /\ k \in 1 .. (i - 1)
          BY <3>1, <3>2, <2>3, <2>4
        <4> QED
          BY <3>1, <4>1, <2>3, <2>4, <2>5
      <3>3. ASSUME k >= i PROVE k + 1 \in DOMAIN q /\ c[k] = q[k + 1]
        <4>1. k > Len(a) /\ k - Len(a) \in 1 .. (Len(q) - i) /\ (k - Len(a)) + i = k + 1
          <5>1. Len(a) \in Nat /\ Len(b) \in Nat /\ Len(q) \in Nat /\ i \in Nat /\ k \in Nat
            BY <3>1, <2>3, <2>4
          <5>2. Len(a) = i - 1 /\ Len(b) = Len(q) - i
            BY <2>3, <2>4
          <5> QED
            BY <3>1, <3>3, <5>1, <5>2
        <4>2. c[k] = b[k - Len(a)] /\ b[k - Len(a)] = q[(k - Len(a)) + i]
          BY <4>1, <3>1, <2>4, <2>5, Zenon
        <4>3. k + 1 \in DOMAIN q
          BY <3>1, <2>3
        <4> QED
          BY <4>1, <4>2, <4>3
      <3> QED
        BY <3>1, <3>2, <3>3
    <2> QED
      BY <2>1, <2>3, <2>6
  <1> QED
    BY <1>1, <1>2

\* A thread that leaves the queue does not change the order of the others.
LEMMA OrderRetain ==
    ASSUME NEW q \in Seq(Pids), NEW r \in Seq(Pids), NEW p \in Pids, InOrder(q, r)
    PROVE  InOrder(q, Retain(r, p))
  <1> DEFINE c == Retain(r, p)
  <1>1. PICK n \in Nat : \A k \in DOMAIN c :
              /\ k \in Nat
              /\ k < n => k \in DOMAIN r /\ c[k] = r[k]
              /\ k >= n => k + 1 \in DOMAIN r /\ c[k] = r[k + 1]
    BY RetainIndices
  <1> HIDE DEF c
  <1>2. SUFFICES ASSUME NEW i \in DOMAIN q, NEW j \in DOMAIN q, i < j,
                        NEW k \in DOMAIN c, NEW m \in DOMAIN c, c[k] = q[i], c[m] = q[j]
                 PROVE  k < m
    BY DEF InOrder, c
  <1>3. PICK k1 \in DOMAIN r : c[k] = r[k1] /\ k1 = IF k < n THEN k ELSE k + 1
    BY <1>1
  <1>4. PICK m1 \in DOMAIN r : c[m] = r[m1] /\ m1 = IF m < n THEN m ELSE m + 1
    BY <1>1
  <1>5. k1 < m1
    BY <1>2, <1>3, <1>4 DEF InOrder
  <1>6. k \in Nat /\ m \in Nat
    BY <1>1
  <1> QED
    BY <1>3, <1>4, <1>5, <1>6

\* With r ready in the order of the run queue and the running thread or none, a
\* turn goes to the first of r: none of the threads queued before it is left.
LEMMA FifoSettle ==
    ASSUME IInv, NEW x \in {OnTurn(sv), NoPid}, NEW r \in Seq(Pids),
           InOrder(sv.runnable, r), Turns!Settle(x, r),
           sv'.current \in {sv.current, NoPid} \cup sv'.scheduled
    PROVE  FifoStep
  <1>0. sv.runnable \in Seq(Pids)
    BY DEF IInv, TypeOK, SupervisorType
  <1>1. ASSUME NEW j \in DOMAIN sv.runnable, sv'.current = sv.runnable[j], sv.current # sv.runnable[j]
        PROVE  r # <<>> /\ sv.runnable[j] = Head(r) /\ sv'.runnable = Tail(r)
    <2>1. sv.runnable[j] # NoPid
      BY <1>0, PidsAssumption
    <2>2. OnTurn(sv') = sv.runnable[j] /\ x # sv.runnable[j]
      BY <1>1, <2>1 DEF OnTurn
    <2> QED
      BY <2>2 DEF Turns!Settle
  <1>2. sv'.runnable = r \/ (r # <<>> /\ sv'.runnable = Tail(r))
    BY DEF Turns!Settle
  <1>3. ASSUME r # <<>>
        PROVE  /\ 1 \in DOMAIN r /\ Head(r) = r[1]
               /\ \A k \in DOMAIN Tail(r) : k \in Nat /\ k >= 1 /\ k + 1 \in DOMAIN r /\ Tail(r)[k] = r[k + 1]
    BY <1>3
  <1>4. ASSUME NEW i \in DOMAIN sv.runnable, NEW j \in DOMAIN sv.runnable, i < j,
               sv'.current = sv.runnable[j], sv.current # sv.runnable[j]
        PROVE  sv.runnable[i] \notin Range(sv'.runnable)
    <2>1. r # <<>> /\ sv.runnable[j] = Head(r) /\ sv'.runnable = Tail(r)
      BY <1>1, <1>4
    <2> SUFFICES ASSUME NEW k \in DOMAIN Tail(r), Tail(r)[k] = sv.runnable[i] PROVE FALSE
      BY <2>1 DEF Range
    <2>2. k \in Nat /\ k >= 1 /\ k + 1 \in DOMAIN r /\ r[k + 1] = sv.runnable[i]
          /\ 1 \in DOMAIN r /\ r[1] = sv.runnable[j]
      BY <1>3, <2>1
    <2>3. k + 1 < 1
      BY <1>4, <2>2 DEF InOrder
    <2> QED
      BY <2>2, <2>3
  <1>5. InOrder(sv.runnable, sv'.runnable)
    <2>1. CASE sv'.runnable = r
      BY <2>1
    <2>2. CASE r # <<>> /\ sv'.runnable = Tail(r)
      <3> SUFFICES ASSUME NEW i \in DOMAIN sv.runnable, NEW j \in DOMAIN sv.runnable, i < j,
                          NEW k \in DOMAIN Tail(r), NEW m \in DOMAIN Tail(r),
                          Tail(r)[k] = sv.runnable[i], Tail(r)[m] = sv.runnable[j]
                   PROVE  k < m
        BY <2>2 DEF InOrder
      <3>1. k \in Nat /\ m \in Nat /\ k + 1 \in DOMAIN r /\ m + 1 \in DOMAIN r
            /\ r[k + 1] = sv.runnable[i] /\ r[m + 1] = sv.runnable[j]
        BY <1>3, <2>2
      <3>2. k + 1 < m + 1
        BY <3>1 DEF InOrder
      <3> QED
        BY <3>1, <3>2
    <2> QED
      BY <1>2, <2>1, <2>2
  <1> QED
    BY <1>4, <1>5 DEF FifoStep, InOrder

\* Every step of the round-robin scheduler keeps the order of the ready threads.
LEMMA TurnsFifo ==
    ASSUME IInv, TurnStep PROVE FifoStep
  <1> DEFINE q == sv.runnable
  <1>0. /\ q \in Seq(Pids) /\ sv.waiting \in [Addr -> Seq(Pids)] /\ IsInjective(q)
        /\ sv'.current \in {sv.current, NoPid} \cup sv'.scheduled
        /\ OnTurn(sv) \in Pids \cup {NoPid} /\ OnTurn(sv) \in {sv.current, NoPid}
    BY DEF IInv, TypeOK, SupervisorType, Bookkeeping, RunQueueOK, TurnStep, OnTurn
  <1>1. sv.current \notin Range(q) /\ \A a \in Addr : Range(sv.waiting[a]) \cap Range(q) = {}
    BY DEF IInv, Bookkeeping, RunQueueOK, ParkedOK
  <1> HIDE DEF q
  <1>2. \A x \in {OnTurn(sv), NoPid}, r \in Seq(Pids) :
            InOrder(q, r) /\ Turns!Settle(x, r) => FifoStep
    BY <1>0, FifoSettle DEF q
  <1>3. InOrder(q, q)
    <2>1. <<>> \in Seq(Pids) /\ Range(<<>>) = {}
      BY DEF Range
    <2> QED
      BY <1>0, <2>1, OrderJoined, JoinedNone
  <1>4. ASSUME NEW t \in Pids, t \notin Range(q)
        PROVE  Append(q, t) \in Seq(Pids) /\ InOrder(q, Append(q, t))
    <2>1. <<t>> \in Seq(Pids) /\ Append(q, t) = q \o <<t>>
      BY <1>0
    <2>2. Range(<<t>>) = {t}
      BY DEF Range
    <2>3. Range(q) \cap Range(<<t>>) = {}
      BY <1>4, <2>2
    <2>4. InOrder(q, q \o <<t>>) /\ q \o <<t>> \in Seq(Pids)
      BY <1>0, <2>1, <2>3, OrderJoined, Joined
    <2> QED
      BY <2>1, <2>4, Zenon
  <1>5. ASSUME NEW w \in Addr, NEW n \in 0 .. Len(sv.waiting[w])
        PROVE  q \o Turns!Woken(w, n) \in Seq(Pids) /\ InOrder(q, q \o Turns!Woken(w, n))
    <2>0. sv.waiting[w] \in Seq(Pids)
      BY <1>0
    <2>1. /\ SubSeq(sv.waiting[w], 1, n) \in Seq(Pids)
          /\ Len(SubSeq(sv.waiting[w], 1, n)) = n
          /\ \A i \in 1 .. n : SubSeq(sv.waiting[w], 1, n)[i] = sv.waiting[w][i]
      BY <2>0, Pieces
    <2>2. Range(SubSeq(sv.waiting[w], 1, n)) \subseteq Range(sv.waiting[w])
      <3>1. \A i \in DOMAIN SubSeq(sv.waiting[w], 1, n) :
                i \in DOMAIN sv.waiting[w] /\ SubSeq(sv.waiting[w], 1, n)[i] = sv.waiting[w][i]
        BY <2>0, <2>1
      <3> QED
        BY <3>1 DEF Range
    <2> QED
      BY <1>0, <1>1, <2>1, <2>2, OrderJoined, Joined DEF Turns!Woken
  <1>6. ASSUME NEW t \in Pids, NEW r \in Seq(Pids), InOrder(q, r)
        PROVE  Turns!Without(r, t) \in Seq(Pids) /\ InOrder(q, Turns!Without(r, t))
    BY <1>0, <1>6, WithoutIsRetain, RetainQueue, OrderRetain
  <1>7. CASE Turns!Dispatch
    BY <1>0, <1>2, <1>3, <1>7 DEF Turns!Dispatch, q
  <1>8. CASE Turns!Yield
    <2>1. OnTurn(sv) \in Pids /\ OnTurn(sv) \notin Range(q)
      BY <1>0, <1>1, <1>8 DEF Turns!Yield
    <2>2. Turns!Settle(NoPid, Append(q, OnTurn(sv)))
      BY <1>8 DEF Turns!Yield, q
    <2> QED
      BY <1>2, <1>4, <2>1, <2>2
  <1>9. ASSUME NEW w \in Addr, Turns!Park(w) PROVE FifoStep
    BY <1>0, <1>2, <1>3, <1>9 DEF Turns!Park, q
  <1>10. ASSUME NEW w \in Addr, NEW n \in 0 .. Len(sv.waiting[w]), Turns!Wake(w, n) PROVE FifoStep
    <2>1. Turns!Settle(OnTurn(sv), q \o Turns!Woken(w, n))
      BY <1>10 DEF Turns!Wake, q
    <2> QED
      BY <1>2, <1>5, <2>1
  <1>11. ASSUME NEW t \in Pids, Turns!Admit(t) PROVE FifoStep
    <2>1. t \notin Range(q) /\ Turns!Settle(OnTurn(sv), Append(q, t))
      BY <1>11 DEF Turns!Admit, Turns!Range, Range, q
    <2> QED
      BY <1>2, <1>4, <2>1
  <1>12. ASSUME NEW t \in Pids, NEW r \in Seq(Pids), InOrder(q, r), NEW f, Turns!Depart(t, r, f)
         PROVE  FifoStep
    <2>1. PICK x \in {OnTurn(sv), NoPid} : Turns!Settle(x, Turns!Without(r, t))
      BY <1>12 DEF Turns!Depart
    <2> QED
      BY <1>2, <1>6, <1>12, <2>1
  <1>13. ASSUME NEW t \in Pids, Turns!Leave(t) PROVE FifoStep
    BY <1>0, <1>3, <1>12, <1>13 DEF Turns!Leave, q
  <1>14. ASSUME NEW t \in Pids, NEW w \in Addr, Turns!LeaveJoined(t, w) PROVE FifoStep
    <2>1. 1 \in 0 .. Len(sv.waiting[w])
      <3>1. sv.waiting[w] \in Seq(Pids) /\ sv.waiting[w] # <<>>
        BY <1>0, <1>14 DEF Turns!LeaveJoined
      <3> QED
        BY <3>1
    <2>2. Turns!Depart(t, q \o Turns!Woken(w, 1), Turns!StillParked(w, 1))
      BY <1>14 DEF Turns!LeaveJoined, q
    <2> QED
      BY <1>5, <1>12, <2>1, <2>2
  <1> QED
    BY <1>7, <1>8, <1>9, <1>10, <1>11, <1>13, <1>14 DEF TurnStep, Turns!Next

\* First in, first out: no interleaving of yields, wakes, clones and thread
\* deaths lets a queued thread overtake one queued before it, if nobody sends SIGSTOP.
THEOREM FifoHolds ==
    ASSUME NoStops PROVE Spec => Fifo
  <1>1. IInv /\ [Next]_vars => [FifoStep]_vars
    BY NextTurns, TurnsFifo
  <1> QED
    BY <1>1, Invariant, PTL DEF Spec, Fifo
=============================================================================

-------------------------- MODULE SupervisorProofs --------------------------
(***************************************************************************)
(* Proof that IInv is an inductive invariant of Supervisor, for every set  *)
(* of pids and futex words, every guest program and every number of        *)
(* signals, and what follows from it: type correctness, SingleRunner,      *)
(* RunQueueInv, ParkedInv, NoThreadLost and VtidsUnique.  The one          *)
(* hypothesis is that nobody sends SIGSTOP (NoStops): await_attach cannot  *)
(* tell that signal from the attach stop it waits for.                     *)
(*                                                                         *)
(* A handler is followed through the state record: every method keeps Inv, *)
(* which also covers ptrace requests not yet applied; ScheduleInv is the   *)
(* tail of the run loop and CommitInv the effect of the requests.          *)
(***************************************************************************)
EXTENDS Supervisor, TLAPS

(***************************************************************************)
(* Queues                                                                  *)
(***************************************************************************)

\* Pushing a new entry keeps a queue free of duplicates.
LEMMA AppendQueue ==
    ASSUME NEW q \in Seq(Pids), NEW p \in Pids
    PROVE  /\ Append(q, p) \in Seq(Pids)
           /\ Range(Append(q, p)) = Range(q) \cup {p}
           /\ IsInjective(q) /\ p \notin Range(q) => IsInjective(Append(q, p))
  <1>1. Append(q, p) \in Seq(Pids) /\ Len(Append(q, p)) = Len(q) + 1
    OBVIOUS
  <1>2. \A i \in 1 .. Len(q) : Append(q, p)[i] = q[i]
    OBVIOUS
  <1>3. Append(q, p)[Len(q) + 1] = p
    OBVIOUS
  <1>4. DOMAIN q = 1 .. Len(q) /\ DOMAIN Append(q, p) = 1 .. (Len(q) + 1) /\ Len(q) \in Nat
    BY <1>1
  <1>5. Range(Append(q, p)) = Range(q) \cup {p}
    BY <1>2, <1>3, <1>4 DEF Range
  <1>6. IsInjective(q) /\ p \notin Range(q) => IsInjective(Append(q, p))
    BY <1>2, <1>3, <1>4 DEF Range, IsInjective
  <1> QED
    BY <1>1, <1>5, <1>6

\* Splitting a queue after its first k entries.
LEMMA SplitQueue ==
    ASSUME NEW q \in Seq(Pids), NEW k \in 0 .. Len(q)
    PROVE  /\ SubSeq(q, 1, k) \in Seq(Pids) /\ SubSeq(q, k + 1, Len(q)) \in Seq(Pids)
           /\ Range(q) = Range(SubSeq(q, 1, k)) \cup Range(SubSeq(q, k + 1, Len(q)))
           /\ IsInjective(q) =>
                /\ IsInjective(SubSeq(q, 1, k)) /\ IsInjective(SubSeq(q, k + 1, Len(q)))
                /\ Range(SubSeq(q, 1, k)) \cap Range(SubSeq(q, k + 1, Len(q))) = {}
  <1> DEFINE a == SubSeq(q, 1, k)
             b == SubSeq(q, k + 1, Len(q))
  <1>1. /\ a \in Seq(Pids) /\ b \in Seq(Pids) /\ Len(q) \in Nat /\ k \in Nat
        /\ DOMAIN q = 1 .. Len(q) /\ DOMAIN a = 1 .. k /\ DOMAIN b = 1 .. (Len(q) - k)
    OBVIOUS
  <1>2. /\ \A i \in 1 .. k : a[i] = q[i]
        /\ \A i \in 1 .. (Len(q) - k) : b[i] = q[i + k]
    OBVIOUS
  <1> HIDE DEF a, b
  <1>b. \A i \in DOMAIN b : i + k \in DOMAIN q /\ b[i] = q[i + k]
    BY <1>1, <1>2
  <1>3. Range(a) \subseteq Range(q) /\ Range(b) \subseteq Range(q)
    <2>1. Range(a) \subseteq Range(q)
      BY <1>1, <1>2 DEF Range
    <2>2. Range(b) \subseteq Range(q)
      BY <1>b DEF Range
    <2> QED
      BY <2>1, <2>2
  <1>4. Range(q) \subseteq Range(a) \cup Range(b)
    <2> SUFFICES ASSUME NEW i \in 1 .. Len(q) PROVE q[i] \in Range(a) \cup Range(b)
      BY <1>1 DEF Range
    <2>1. CASE i <= k
      BY <2>1, <1>1, <1>2 DEF Range
    <2>2. CASE ~(i <= k)
      <3>1. i - k \in 1 .. (Len(q) - k) /\ b[i - k] = q[i]
        BY <2>2, <1>1, <1>2
      <3> QED
        BY <3>1, <1>1 DEF Range
    <2> QED
      BY <2>1, <2>2
  <1>5. ASSUME IsInjective(q)
        PROVE  IsInjective(a) /\ IsInjective(b) /\ Range(a) \cap Range(b) = {}
    <2>1. IsInjective(a)
      BY <1>1, <1>2, <1>5 DEF IsInjective
    <2>2. IsInjective(b)
      <3> SUFFICES ASSUME NEW i \in DOMAIN b, NEW j \in DOMAIN b, b[i] = b[j] PROVE i = j
        BY DEF IsInjective
      <3>1. i + k = j + k
        BY <1>b, <1>5 DEF IsInjective
      <3> QED
        BY <3>1, <1>1
    <2>3. ASSUME NEW i \in DOMAIN a, NEW j \in DOMAIN b PROVE a[i] # b[j]
      <3>1. i \in DOMAIN q /\ a[i] = q[i] /\ i # j + k
        BY <1>1, <1>2
      <3> QED
        BY <3>1, <1>b, <1>5 DEF IsInjective
    <2> QED
      BY <2>1, <2>2, <2>3 DEF Range
  <1> QED
    BY <1>1, <1>3, <1>4, <1>5 DEF a, b

\* Pushing all entries of one queue onto another.
LEMMA ConcatQueue ==
    ASSUME NEW q \in Seq(Pids), NEW r \in Seq(Pids)
    PROVE  /\ q \o r \in Seq(Pids)
           /\ Range(q \o r) = Range(q) \cup Range(r)
           /\ IsInjective(q) /\ IsInjective(r) /\ Range(q) \cap Range(r) = {} =>
                IsInjective(q \o r)
  <1> DEFINE c == q \o r
  <1>1. /\ c \in Seq(Pids) /\ Len(q) \in Nat /\ Len(r) \in Nat
        /\ DOMAIN q = 1 .. Len(q) /\ DOMAIN r = 1 .. Len(r)
        /\ DOMAIN c = 1 .. (Len(q) + Len(r))
    OBVIOUS
  <1>2. /\ \A i \in 1 .. Len(q) : c[i] = q[i]
        /\ \A i \in 1 .. Len(r) : c[Len(q) + i] = r[i]
        /\ \A i \in 1 .. (Len(q) + Len(r)) : i > Len(q) => c[i] = r[i - Len(q)]
    OBVIOUS
  <1> HIDE DEF c
  <1>3. Range(q) \subseteq Range(c)
    BY <1>1, <1>2 DEF Range
  <1>4. Range(r) \subseteq Range(c)
    <2> SUFFICES ASSUME NEW i \in 1 .. Len(r) PROVE r[i] \in Range(c)
      BY <1>1 DEF Range
    <2>1. Len(q) + i \in DOMAIN c /\ c[Len(q) + i] = r[i]
      BY <1>1, <1>2
    <2> QED
      BY <2>1 DEF Range
  <1>5. Range(c) \subseteq Range(q) \cup Range(r)
    <2> SUFFICES ASSUME NEW i \in 1 .. (Len(q) + Len(r)) PROVE c[i] \in Range(q) \cup Range(r)
      BY <1>1 DEF Range
    <2>1. CASE i <= Len(q)
      BY <2>1, <1>1, <1>2 DEF Range
    <2>2. CASE ~(i <= Len(q))
      <3>1. i - Len(q) \in DOMAIN r /\ c[i] = r[i - Len(q)]
        BY <2>2, <1>1, <1>2
      <3> QED
        BY <3>1 DEF Range
    <2> QED
      BY <2>1, <2>2
  <1>6. ASSUME IsInjective(q), IsInjective(r), Range(q) \cap Range(r) = {}
        PROVE  IsInjective(c)
    <2> SUFFICES ASSUME NEW i \in DOMAIN c, NEW j \in DOMAIN c, c[i] = c[j]
                 PROVE  i = j
      BY DEF IsInjective
    <2>1. CASE i <= Len(q) /\ j <= Len(q)
      BY <2>1, <1>1, <1>2, <1>6 DEF IsInjective
    <2>2. CASE i > Len(q) /\ j > Len(q)
      <3>1. i - Len(q) \in DOMAIN r /\ j - Len(q) \in DOMAIN r
        BY <2>2, <1>1
      <3>2. r[i - Len(q)] = r[j - Len(q)]
        BY <2>2, <1>1, <1>2
      <3>3. i - Len(q) = j - Len(q)
        BY <3>1, <3>2, <1>6 DEF IsInjective
      <3> QED
        BY <3>3, <1>1
    <2>3. CASE i <= Len(q) /\ j > Len(q)
      <3>1. c[i] \in Range(q) /\ c[j] \in Range(r)
        <4>1. j - Len(q) \in DOMAIN r /\ c[j] = r[j - Len(q)]
          BY <2>3, <1>1, <1>2
        <4>2. i \in DOMAIN q /\ c[i] = q[i]
          BY <2>3, <1>1, <1>2
        <4> QED
          BY <4>1, <4>2 DEF Range
      <3> QED
        BY <3>1, <1>6
    <2>4. CASE i > Len(q) /\ j <= Len(q)
      <3>1. c[j] \in Range(q) /\ c[i] \in Range(r)
        <4>1. i - Len(q) \in DOMAIN r /\ c[i] = r[i - Len(q)]
          BY <2>4, <1>1, <1>2
        <4>2. j \in DOMAIN q /\ c[j] = q[j]
          BY <2>4, <1>1, <1>2
        <4> QED
          BY <4>1, <4>2 DEF Range
      <3> QED
        BY <3>1, <1>6
    <2> QED
      BY <2>1, <2>2, <2>3, <2>4, <1>1
  <1> QED
    BY <1>1, <1>3, <1>4, <1>5, <1>6 DEF c

\* retain(|q| q != p) on a queue without duplicates drops p and nothing else.
LEMMA RetainQueue ==
    ASSUME NEW q \in Seq(Pids), NEW p \in Pids
    PROVE  /\ Retain(q, p) \in Seq(Pids)
           /\ IsInjective(q) =>
                /\ Range(Retain(q, p)) = Range(q) \ {p}
                /\ IsInjective(Retain(q, p))
  <1>1. CASE p \notin Range(q)
    BY <1>1 DEF Retain
  <1>2. CASE p \in Range(q)
    <2> DEFINE i == CHOOSE j \in DOMAIN q : q[j] = p
               a == SubSeq(q, 1, i - 1)
               b == SubSeq(q, i + 1, Len(q))
    <2>1. Retain(q, p) = a \o b
      BY <1>2 DEF Retain, RemoveAt
    <2>2. i \in DOMAIN q /\ q[i] = p
      BY <1>2 DEF Range
    <2> HIDE DEF i
    <2>3. /\ Len(q) \in Nat /\ DOMAIN q = 1 .. Len(q) /\ i \in 1 .. Len(q)
          /\ i - 1 \in 0 .. Len(q) /\ i \in 0 .. Len(q)
      BY <2>2
    <2>4. /\ a \in Seq(Pids) /\ b \in Seq(Pids)
          /\ DOMAIN a = 1 .. (i - 1) /\ DOMAIN b = 1 .. (Len(q) - i)
          /\ \A j \in 1 .. (i - 1) : a[j] = q[j]
          /\ \A j \in 1 .. (Len(q) - i) : b[j] = q[j + i]
      BY <2>3
    <2> HIDE DEF a, b
    <2>5. a \o b \in Seq(Pids) /\ Range(a \o b) = Range(a) \cup Range(b)
      BY <2>4, ConcatQueue
    <2>6. ASSUME IsInjective(q)
          PROVE  Range(a) \cup Range(b) = Range(q) \ {p} /\ IsInjective(a \o b)
      <3>1. /\ Range(a) \subseteq Range(q) /\ Range(b) \subseteq Range(q)
            /\ IsInjective(a) /\ IsInjective(b) /\ Range(a) \cap Range(b) = {}
        <4>1. IsInjective(b) /\ Range(b) \subseteq Range(q)
              /\ Range(SubSeq(q, 1, i)) \cap Range(b) = {}
          BY <2>3, <2>6, SplitQueue DEF b
        <4>2. IsInjective(a) /\ Range(a) \subseteq Range(q)
          <5>1. /\ IsInjective(SubSeq(q, 1, i - 1))
                /\ Range(q) = Range(SubSeq(q, 1, i - 1)) \cup Range(SubSeq(q, (i - 1) + 1, Len(q)))
            BY <2>3, <2>6, SplitQueue
          <5> QED
            BY <5>1 DEF a
        <4>3. Range(a) \subseteq Range(SubSeq(q, 1, i))
          <5>1. DOMAIN SubSeq(q, 1, i) = 1 .. i /\ \A j \in 1 .. i : SubSeq(q, 1, i)[j] = q[j]
            BY <2>3
          <5>2. \A j \in DOMAIN a : j \in DOMAIN SubSeq(q, 1, i) /\ a[j] = SubSeq(q, 1, i)[j]
            BY <5>1, <2>3, <2>4
          <5> QED
            BY <5>2 DEF Range
        <4> QED
          BY <4>1, <4>2, <4>3
      <3>2. p \notin Range(a)
        <4> SUFFICES ASSUME NEW j \in DOMAIN a, a[j] = p PROVE FALSE
          BY DEF Range
        <4>1. j \in DOMAIN q /\ q[j] = p /\ j # i
          BY <2>3, <2>4
        <4> QED
          BY <4>1, <2>2, <2>6 DEF IsInjective
      <3>3. p \notin Range(b)
        <4> SUFFICES ASSUME NEW j \in DOMAIN b, b[j] = p PROVE FALSE
          BY DEF Range
        <4>1. j + i \in DOMAIN q /\ q[j + i] = p /\ j + i # i
          BY <2>3, <2>4
        <4> QED
          BY <4>1, <2>2, <2>6 DEF IsInjective
      <3>4. ASSUME NEW j \in DOMAIN q, q[j] # p PROVE q[j] \in Range(a) \cup Range(b)
        <4>1. CASE j < i
          <5>1. j \in DOMAIN a /\ a[j] = q[j]
            BY <4>1, <2>3, <2>4
          <5> QED
            BY <5>1 DEF Range
        <4>2. CASE j > i
          <5>1. j - i \in DOMAIN b /\ b[j - i] = q[j]
            BY <4>2, <2>3, <2>4
          <5> QED
            BY <5>1 DEF Range
        <4> QED
          BY <4>1, <4>2, <2>2, <2>3, <3>4
      <3>5. IsInjective(a \o b)
        BY <3>1, <2>4, ConcatQueue
      <3> QED
        BY <3>1, <3>2, <3>3, <3>4, <3>5 DEF Range
    <2> QED
      BY <2>1, <2>5, <2>6
  <1> QED
    BY <1>1, <1>2

(***************************************************************************)
(* The run queue                                                           *)
(***************************************************************************)

\* A trace line changes nothing but the trace.
LEMMA TraceFrame ==
    ASSUME NEW s \in SupervisorType, NEW e \in EventNames, NEW a \in Int, NEW b \in Int
    PROVE  /\ TraceJson(s, e, a, b) \in SupervisorType
           /\ TraceJson(s, e, a, b) = [s EXCEPT !.trace = TraceJson(s, e, a, b).trace]
  <1>1. CASE Tracing
    <2> DEFINE ev == [event |-> e, a |-> a, b |-> b]
    <2>1. ev \in Event
      BY DEF Event
    <2> HIDE DEF ev
    <2>2. Append(s.trace, ev) \in Seq(Event)
      BY <2>1 DEF SupervisorType
    <2>3. TraceJson(s, e, a, b) = [s EXCEPT !.trace = Append(s.trace, ev)]
      BY <1>1 DEF TraceJson, ev
    <2> QED
      BY <2>2, <2>3 DEF SupervisorType
  <1>2. CASE ~Tracing
    BY <1>2 DEF TraceJson, SupervisorType
  <1> QED
    BY <1>1, <1>2

\* The two parts of a futex queue a wake makes.
Woken(q, n) == SubSeq(q, 1, IF n < Len(q) THEN n ELSE Len(q))
StillWaiting(q, n) == SubSeq(q, (IF n < Len(q) THEN n ELSE Len(q)) + 1, Len(q))

\* The threads a wake takes and the ones it leaves make up the queue.
LEMMA WokenParts ==
    ASSUME NEW q \in Seq(Pids), NEW n \in Nat
    PROVE  /\ Woken(q, n) \in Seq(Pids) /\ StillWaiting(q, n) \in Seq(Pids)
           /\ Range(q) = Range(Woken(q, n)) \cup Range(StillWaiting(q, n))
           /\ IsInjective(q) =>
                /\ IsInjective(Woken(q, n)) /\ IsInjective(StillWaiting(q, n))
                /\ Range(Woken(q, n)) \cap Range(StillWaiting(q, n)) = {}
  <1> DEFINE k == IF n < Len(q) THEN n ELSE Len(q)
  <1>1. k \in 0 .. Len(q) /\ Woken(q, n) = SubSeq(q, 1, k) /\ StillWaiting(q, n) = SubSeq(q, k + 1, Len(q))
    BY DEF Woken, StillWaiting
  <1> HIDE DEF k
  <1> QED
    BY <1>1, SplitQueue

\* f is s after a wake of n on a: the first threads of the futex queue have moved
\* to the end of the run queue.
WakeResult(s, a, n, f) ==
    /\ f \in SupervisorType
    /\ \A b \in Addr : f.waiting[b] = IF b = a THEN StillWaiting(s.waiting[a], n)
                                             ELSE s.waiting[b]
    /\ f.blocked = s.blocked \ Range(Woken(s.waiting[a], n))
    /\ f.runnable = s.runnable \o Woken(s.waiting[a], n)
    /\ f.threads = s.threads /\ f.scheduled = s.scheduled
    /\ f.vtid = s.vtid /\ f.vtidNext = s.vtidNext
    /\ f.pendingStart = s.pendingStart /\ f.stoppedPending = s.stoppedPending
    /\ f.current = s.current /\ f.resumed = s.resumed

\* wake changes one futex queue, `blocked` and the run queue, and nothing else.
LEMMA WakeShape ==
    ASSUME NEW s \in SupervisorType, NEW a \in Addr, NEW n \in Nat
    PROVE  WakeResult(s, a, n, Wake(s, a, n))
  <1> DEFINE q == s.waiting[a]
             f == Wake(s, a, n)
             w2 == [s.waiting EXCEPT ![a] = StillWaiting(q, n)]
             b2 == s.blocked \ Range(Woken(q, n))
             r2 == s.runnable \o Woken(q, n)
  <1>1. q \in Seq(Pids) /\ s.runnable \in Seq(Pids) /\ s.waiting \in [Addr -> Seq(Pids)]
    BY DEF SupervisorType
  <1>2. Woken(q, n) \in Seq(Pids) /\ StillWaiting(q, n) \in Seq(Pids)
    <2> HIDE DEF q
    <2> QED
      BY <1>1, WokenParts
  <1>3. f = [s EXCEPT !.waiting = w2, !.blocked = b2, !.runnable = r2]
    BY DEF Wake, WokenCount, Woken, StillWaiting
  <1>4. /\ w2 \in [Addr -> Seq(Pids)] /\ b2 \in SUBSET Pids /\ r2 \in Seq(Pids)
        /\ \A b \in Addr : w2[b] = IF b = a THEN StillWaiting(q, n) ELSE s.waiting[b]
    BY <1>1, <1>2 DEF SupervisorType
  <1> HIDE DEF w2, b2, r2, q, f
  <1>5. /\ f \in SupervisorType /\ f.waiting = w2 /\ f.blocked = b2 /\ f.runnable = r2
        /\ f.threads = s.threads /\ f.scheduled = s.scheduled
        /\ f.vtid = s.vtid /\ f.vtidNext = s.vtidNext
        /\ f.pendingStart = s.pendingStart /\ f.stoppedPending = s.stoppedPending
        /\ f.current = s.current /\ f.resumed = s.resumed
    BY <1>3, <1>4 DEF SupervisorType
  <1> QED
    BY <1>4, <1>5 DEF WakeResult, b2, r2, q, f

(***************************************************************************)
(* The inductive invariant, and what the methods do to it                  *)
(***************************************************************************)

\* IInv of a handler's result, whose ptrace requests are still to be applied.
Inv(t, r, s, stk) ==
    /\ t \in [Pids -> Task] /\ r \in SUBSET Pids /\ stk \in Seq(Pids \X Pids)
    /\ s \in SupervisorType
    /\ Bookkeeping(s)
    /\ Link(t, r, s, stk)

\* s2 differs from s in no field Inv speaks of, except that it may be ill-typed.
SameQueues(s, s2) ==
    /\ s2.threads = s.threads /\ s2.scheduled = s.scheduled
    /\ s2.vtid = s.vtid /\ s2.vtidNext = s.vtidNext
    /\ s2.runnable = s.runnable /\ s2.blocked = s.blocked /\ s2.waiting = s.waiting
    /\ s2.pendingStart = s.pendingStart /\ s2.stoppedPending = s.stoppedPending
    /\ s2.current = s.current /\ s2.resumed = s.resumed

\* The same threads run, are ready and are parked in s2 as in s.
SameTurn(s, s2) ==
    /\ s2.current = s.current /\ s2.scheduled = s.scheduled /\ s2.runnable = s.runnable
    /\ s2.blocked = s.blocked /\ s2.waiting = s.waiting

\* ... except that p may have been scheduled and queued.
Admits(s, s2, p) ==
    /\ s2.current = s.current /\ s2.blocked = s.blocked /\ s2.waiting = s.waiting
    /\ s.scheduled \subseteq s2.scheduled /\ s2.scheduled \subseteq s.scheduled \cup {p}
    /\ s2.runnable \in {s.runnable, Append(s.runnable, p)}

\* p, which was running, is parked on a.
ParksOn(s, s2, p, a) ==
    /\ s2.current = NoPid /\ s2.scheduled = s.scheduled /\ s2.runnable = s.runnable
    /\ s2.blocked = s.blocked \cup {p}
    /\ s2.waiting = [s.waiting EXCEPT ![a] = Append(s.waiting[a], p)]

\* p has left, after the wakes that led from s to w.
Leaves(s, s2, p, w) ==
    /\ s2.current = s.current /\ s2.scheduled = s.scheduled \ {p}
    /\ s2.runnable = Retain(w.runnable, p)
    /\ s2.waiting = [a \in Addr |-> Retain(w.waiting[a], p)]

\* s2 requests to resume at most X more, and holds results for at most Y more.
Asks(s, s2, X, Y) ==
    /\ Resuming(s2) \subseteq Resuming(s) \cup X
    /\ s2.pending \subseteq s.pending \cup Y

\* Inv does not depend on the other fields.
LEMMA SameInv ==
    ASSUME NEW t, NEW r, NEW s, NEW s2 \in SupervisorType, NEW stk,
           Inv(t, r, s, stk), SameQueues(s, s2)
    PROVE  Inv(t, r, s2, stk)
  <1>1. Bookkeeping(s2)
    <2>1. Bookkeeping(s)
      BY DEF Inv
    <2> QED
      BY <2>1 DEF SameQueues, Bookkeeping, RunQueueOK, ParkedOK, NotLost, VtidsOK
  <1>2. Resuming(s2) = Resuming(s)
    BY DEF Resuming, SameQueues
  <1>3. Link(t, r, s2, stk)
    BY <1>2 DEF Inv, SameQueues, Link, OnlyCurrentBusy, Busy, Unregistered, Unborn, AttachAhead,
       CurrentKnown, StackKnown, KnownOrReaped, ChildNew
  <1> QED
    BY <1>1, <1>3 DEF Inv

\* Trace lines.
LEMMA TraceInv ==
    ASSUME NEW t, NEW r, NEW s, NEW stk, Inv(t, r, s, stk),
           NEW e \in EventNames, NEW a \in Int, NEW b \in Int
    PROVE  /\ Inv(t, r, TraceJson(s, e, a, b), stk)
           /\ SameQueues(s, TraceJson(s, e, a, b))
  <1> DEFINE s2 == TraceJson(s, e, a, b)
  <1>0. s \in SupervisorType
    BY DEF Inv
  <1>1. s2 \in SupervisorType /\ s2 = [s EXCEPT !.trace = s2.trace]
    BY <1>0, TraceFrame
  <1> HIDE DEF s2
  <1>2. SameQueues(s, s2)
    BY <1>0, <1>1 DEF SupervisorType, SameQueues
  <1> QED
    BY <1>1, <1>2, SameInv DEF s2

\* PTRACE_SYSCALL requests: allowed for the current thread, for tasks outside the
\* scheduler, and at an exit event.
MayResume(t, s, p) ==
    /\ p \in s.scheduled /\ t[p].at # "exitstop" => p = s.current
    /\ p \notin s.threads => t[p].at # "attach"

\* A ptrace request to a task that may be resumed keeps Inv.
LEMMA RequestInv ==
    ASSUME NEW t, NEW r, NEW s, NEW stk, NEW s2 \in SupervisorType, NEW p \in Pids,
           NEW sig \in Signal \cup {NoSig},
           Inv(t, r, s, stk), MayResume(t, s, p),
           SameQueues(s, [s2 EXCEPT !.resumed = s.resumed]),
           s2.resumed = s.resumed \cup {<<p, sig>>}
    PROVE  Inv(t, r, s2, stk)
  <1>1. /\ s2.threads = s.threads /\ s2.scheduled = s.scheduled
        /\ s2.vtid = s.vtid /\ s2.vtidNext = s.vtidNext
        /\ s2.runnable = s.runnable /\ s2.blocked = s.blocked /\ s2.waiting = s.waiting
        /\ s2.pendingStart = s.pendingStart /\ s2.stoppedPending = s.stoppedPending
        /\ s2.current = s.current
    BY DEF SameQueues, SupervisorType
  <1>2. Resuming(s2) = Resuming(s) \cup {p}
    <2>1. <<p, sig>>[1] = p
      OBVIOUS
    <2>2. \A x : x \in s2.resumed <=> x \in s.resumed \/ x = <<p, sig>>
      OBVIOUS
    <2> QED
      BY <2>1, <2>2, Zenon DEF Resuming
  <1>3. Bookkeeping(s2)
    BY <1>1, ZenonT(30) DEF Inv, Bookkeeping, RunQueueOK, ParkedOK, NotLost, VtidsOK
  <1>4. OnlyCurrentBusy(t, r, s2)
    BY <1>1, <1>2 DEF Inv, Link, OnlyCurrentBusy, Busy, MayResume
  <1>5. Unregistered(t, s2)
    BY <1>1, <1>2 DEF Inv, Link, Unregistered, MayResume
  <1>6. Link(t, r, s2, stk)
    BY <1>1, <1>4, <1>5 DEF Inv, Link, Unborn, AttachAhead,
       CurrentKnown, StackKnown, KnownOrReaped, ChildNew
  <1> QED
    BY <1>3, <1>6 DEF Inv

\* resume_thread keeps Inv for a task that may be resumed.
LEMMA ResumeInv ==
    ASSUME NEW t, NEW r, NEW s, NEW stk, NEW p \in Pids,
           Inv(t, r, s, stk), MayResume(t, s, p)
    PROVE  Inv(t, r, ResumeThread(s, p), stk)
  <1> DEFINE s2 == ResumeThread(s, p)
  <1>0. s \in SupervisorType
    BY DEF Inv
  <1>1. s.sigPending[p] \in Signal \cup {NoSig}
    BY <1>0 DEF SupervisorType
  <1>2. s2 \in SupervisorType
    <2> DEFINE x == s.resumed \cup {<<p, s.sigPending[p]>>}
               y == [s.sigPending EXCEPT ![p] = NoSig]
    <2>1. x \in SUBSET (Pids \X (Signal \cup {NoSig})) /\ y \in [Pids -> Signal \cup {NoSig}]
      <3>1. s.resumed \in SUBSET (Pids \X (Signal \cup {NoSig}))
            /\ s.sigPending \in [Pids -> Signal \cup {NoSig}]
        BY <1>0 DEF SupervisorType
      <3>2. <<p, s.sigPending[p]>> \in Pids \X (Signal \cup {NoSig})
        BY <1>1
      <3> QED
        BY <3>1, <3>2
    <2>2. s2 = [s EXCEPT !.resumed = x, !.sigPending = y]
      BY <1>0 DEF SupervisorType, ResumeThread
    <2> HIDE DEF x, y, s2
    <2> QED
      BY <1>0, <2>1, <2>2 DEF SupervisorType
  <1>3. /\ s2.resumed = s.resumed \cup {<<p, s.sigPending[p]>>}
        /\ SameQueues(s, [s2 EXCEPT !.resumed = s.resumed])
    BY <1>0 DEF SupervisorType, ResumeThread, SameQueues
  <1> QED
    BY <1>1, <1>2, <1>3, RequestInv

\* Delivering a signal keeps Inv for a task that may be resumed.
LEMMA DeliverInv ==
    ASSUME NEW t, NEW r, NEW s, NEW stk, NEW p \in Pids, NEW sig \in Signal \cup {NoSig},
           Inv(t, r, s, stk), MayResume(t, s, p)
    PROVE  Inv(t, r, Deliver(s, p, sig), stk)
  <1> DEFINE s2 == Deliver(s, p, sig)
  <1>0. s \in SupervisorType
    BY DEF Inv
  <1>2. s2 \in SupervisorType
    <2> DEFINE x == s.resumed \cup {<<p, sig>>}
    <2>1. x \in SUBSET (Pids \X (Signal \cup {NoSig}))
      <3>1. s.resumed \in SUBSET (Pids \X (Signal \cup {NoSig}))
        BY <1>0 DEF SupervisorType
      <3> QED
        BY <3>1
    <2>2. s2 = [s EXCEPT !.resumed = x]
      BY DEF Deliver
    <2> HIDE DEF x, s2
    <2> QED
      BY <1>0, <2>1, <2>2 DEF SupervisorType
  <1>3. /\ s2.resumed = s.resumed \cup {<<p, sig>>}
        /\ SameQueues(s, [s2 EXCEPT !.resumed = s.resumed])
    BY <1>0 DEF SupervisorType, Deliver, SameQueues
  <1> QED
    BY <1>2, <1>3, RequestInv

\* Requests are not turns.
LEMMA ResumeTurn ==
    ASSUME NEW s, NEW p, NEW sig
    PROVE  /\ SameTurn(s, ResumeThread(s, p)) /\ SameTurn(s, Deliver(s, p, sig))
           /\ SameTurn(s, ResumeStopped(s, p))
           /\ Asks(s, ResumeThread(s, p), {p}, {}) /\ Asks(s, Deliver(s, p, sig), {p}, {})
           /\ Asks(s, ResumeStopped(s, p), {p}, {})
  <1>1. SameTurn(s, ResumeThread(s, p)) /\ SameTurn(s, Deliver(s, p, sig)) /\ SameTurn(s, s)
    BY DEF SameTurn, ResumeThread, Deliver
  <1>2. /\ ResumeThread(s, p).resumed = s.resumed \cup {<<p, s.sigPending[p]>>}
        /\ ResumeThread(s, p).pending = s.pending
        /\ Deliver(s, p, sig).resumed = s.resumed \cup {<<p, sig>>}
        /\ Deliver(s, p, sig).pending = s.pending
    BY DEF ResumeThread, Deliver
  <1>3. /\ Asks(s, ResumeThread(s, p), {p}, {}) /\ Asks(s, Deliver(s, p, sig), {p}, {})
        /\ Asks(s, s, {p}, {})
    BY <1>2 DEF Asks, Resuming
  <1> QED
    BY <1>1, <1>3 DEF ResumeStopped, ResumeCurrent

\* What the updates of one task ask for.
LEMMA UpdateAsks ==
    ASSUME NEW s \in SupervisorType, NEW p \in Pids
    PROVE  /\ Asks(s, Started(s, p), {p}, {})
           /\ \A info \in CloneInfo : Asks(s, RegisterThread(s, p, info), {p}, {})
           /\ \A rec \in BOOLEAN : Asks(s, OnThreadExit(s, p, rec), {}, {})
           /\ Asks(s, [s EXCEPT !.stoppedPending = @ \cup {p}], {}, {})
  <1>0. ASSUME NEW u, NEW e, NEW a, NEW b
        PROVE  Asks(u, TraceJson(u, e, a, b), {}, {})
    BY DEF Asks, Resuming, TraceJson
  <1>1. ASSUME NEW u, u.resumed = s.resumed, u.pending = s.pending
        PROVE  Asks(s, Release(u, p), {p}, {})
    <2>1. Asks(u, ResumeThread(u, p), {p}, {})
      BY ResumeTurn
    <2>2. Asks(u, [u EXCEPT !.runnable = Append(@, p)], {p}, {})
      BY DEF Asks, Resuming
    <2> QED
      BY <1>1, <2>1, <2>2 DEF Release, Asks, Resuming
  <1>2. Asks(s, Started(s, p), {p}, {})
    <2> DEFINE u == [s EXCEPT !.pendingStart = @ \ {p}]
    <2>1. u.resumed = s.resumed /\ u.pending = s.pending /\ Started(s, p) = Release(u, p)
      BY DEF Started
    <2> HIDE DEF u
    <2> QED
      BY <1>1, <2>1
  <1>3. ASSUME NEW info \in CloneInfo PROVE Asks(s, RegisterThread(s, p, info), {p}, {})
    <2> DEFINE s1 == [s EXCEPT !.threads = @ \cup {p},
                        !.scheduled = IF info.thread THEN @ \cup {p} ELSE @,
                        !.vtid[p] = s.vtidNext,
                        !.childTid[p] = info.childTid,
                        !.vtidNext = @ + 1]
               s2 == IF p \in s1.stoppedPending
                     THEN Release([s1 EXCEPT !.stoppedPending = @ \ {p}], p)
                     ELSE [s1 EXCEPT !.pendingStart = @ \cup {p}]
               s3 == TraceJson(s2, "thread_create", s.vtidNext, IF info.thread THEN 1 ELSE 0)
    <2>1. RegisterThread(s, p, info) = IF p \in s.threads THEN s ELSE s3
      BY DEF RegisterThread
    <2>2. s1.resumed = s.resumed /\ s1.pending = s.pending
      OBVIOUS
    <2> HIDE DEF s1
    <2>3. Asks(s, Release([s1 EXCEPT !.stoppedPending = @ \ {p}], p), {p}, {})
      <3> DEFINE u == [s1 EXCEPT !.stoppedPending = @ \ {p}]
      <3>1. u.resumed = s.resumed /\ u.pending = s.pending
        BY <2>2
      <3> HIDE DEF u
      <3>2. Asks(s, Release(u, p), {p}, {})
        BY <1>1, <3>1
      <3> QED
        BY <3>2 DEF u
    <2>4. Asks(s, [s1 EXCEPT !.pendingStart = @ \cup {p}], {p}, {})
      BY <2>2 DEF Asks, Resuming
    <2>5. Asks(s, s2, {p}, {})
      BY <2>3, <2>4
    <2> HIDE DEF s2
    <2>6. Asks(s2, s3, {}, {})
      BY <1>0
    <2> HIDE DEF s3
    <2> QED
      BY <2>1, <2>5, <2>6 DEF Asks
  <1>4. ASSUME NEW rec \in BOOLEAN PROVE Asks(s, OnThreadExit(s, p, rec), {}, {})
    <2> DEFINE s1 == WakeJoiner([s EXCEPT !.threads = @ \ {p}, !.scheduled = @ \ {p}], p)
               s2 == IF rec THEN TraceJson(s1, "thread_exit", s.vtid[p], 0) ELSE s1
               s3 == [s2 EXCEPT !.pending = @ \ {p}]
    <2>1. Unregister(s, p, rec) = s3
      BY DEF Unregister
    <2>2. s1.resumed = s.resumed /\ s1.pending = s.pending
      BY DEF WakeJoiner, Wake
    <2> HIDE DEF s1
    <2>3. s2.resumed = s.resumed /\ s2.pending = s.pending
      BY <2>2 DEF TraceJson
    <2> HIDE DEF s2
    <2>4. Unregister(s, p, rec).resumed = s.resumed /\ Unregister(s, p, rec).pending \subseteq s.pending
      BY <2>1, <2>3
    <2>5. /\ OnThreadExit(s, p, rec).resumed = s.resumed
          /\ OnThreadExit(s, p, rec).pending \subseteq s.pending
      BY <2>4 DEF OnThreadExit
    <2> QED
      BY <2>5 DEF Asks, Resuming
  <1>5. Asks(s, [s EXCEPT !.stoppedPending = @ \cup {p}], {}, {})
    BY DEF Asks, Resuming
  <1> QED
    BY <1>2, <1>3, <1>4, <1>5

\* What ResumeStopped does is allowed of any registered task.
LEMMA ResumeStoppedInv ==
    ASSUME NEW t, NEW r, NEW s, NEW stk, NEW p \in Pids,
           Inv(t, r, s, stk), p \notin s.threads => t[p].at # "attach"
    PROVE  Inv(t, r, ResumeStopped(s, p), stk)
  <1>1. CASE p \in s.scheduled /\ s.current # p
    BY <1>1 DEF ResumeStopped, ResumeCurrent, IsScheduled
  <1>2. CASE ~(p \in s.scheduled /\ s.current # p)
    <2>1. MayResume(t, s, p)
      BY <1>2 DEF MayResume
    <2>2. ResumeStopped(s, p) = ResumeThread(s, p)
      BY <1>2 DEF ResumeStopped, ResumeCurrent, IsScheduled
    <2> QED
      BY <2>1, <2>2, ResumeInv
  <1> QED
    BY <1>1, <1>2

\* Waking parked threads moves them, in order, to the end of the run queue.
LEMMA WakeInv ==
    ASSUME NEW t, NEW r, NEW s, NEW stk, NEW a \in Addr, NEW n \in Nat, Inv(t, r, s, stk)
    PROVE  /\ Inv(t, r, Wake(s, a, n), stk)
           /\ Wake(s, a, n).threads = s.threads /\ Wake(s, a, n).scheduled = s.scheduled
           /\ Wake(s, a, n).vtid = s.vtid /\ Wake(s, a, n).vtidNext = s.vtidNext
           /\ Wake(s, a, n).pendingStart = s.pendingStart
           /\ Wake(s, a, n).stoppedPending = s.stoppedPending
           /\ Wake(s, a, n).current = s.current /\ Wake(s, a, n).resumed = s.resumed
  <1> DEFINE q == s.waiting[a]
             woken == Woken(q, n)
             rest == StillWaiting(q, n)
             s2 == Wake(s, a, n)
  <1>0. s \in SupervisorType /\ Bookkeeping(s) /\ RunQueueOK(s) /\ ParkedOK(s)
    BY DEF Inv, Bookkeeping
  <1>1. q \in Seq(Pids) /\ IsInjective(q)
    BY <1>0 DEF SupervisorType, ParkedOK
  <1>2. /\ woken \in Seq(Pids) /\ rest \in Seq(Pids)
        /\ Range(q) = Range(woken) \cup Range(rest)
        /\ IsInjective(woken) /\ IsInjective(rest) /\ Range(woken) \cap Range(rest) = {}
    BY <1>1, WokenParts
  <1> HIDE DEF woken, rest
  <1>4. Range(woken) \subseteq s.blocked /\ Range(woken) \cap Range(s.runnable) = {}
    BY <1>0, <1>2 DEF ParkedOK, RunQueueOK
  <1>5. /\ s.runnable \o woken \in Seq(Pids)
        /\ Range(s.runnable \o woken) = Range(s.runnable) \cup Range(woken)
        /\ IsInjective(s.runnable \o woken)
    <2>1. s.runnable \in Seq(Pids) /\ IsInjective(s.runnable)
      BY <1>0 DEF SupervisorType, RunQueueOK
    <2> QED
      BY <2>1, <1>2, <1>4, ConcatQueue
  <1>6. /\ s2 \in SupervisorType
        /\ s2.threads = s.threads /\ s2.scheduled = s.scheduled
        /\ s2.vtid = s.vtid /\ s2.vtidNext = s.vtidNext
        /\ s2.pendingStart = s.pendingStart /\ s2.stoppedPending = s.stoppedPending
        /\ s2.current = s.current /\ s2.resumed = s.resumed
        /\ s2.runnable = s.runnable \o woken
        /\ s2.blocked = s.blocked \ Range(woken)
        /\ \A b \in Addr : s2.waiting[b] = IF b = a THEN rest ELSE s.waiting[b]
    <2>1. WakeResult(s, a, n, s2)
      BY <1>0, WakeShape
    <2> HIDE DEF s2
    <2> QED
      BY <2>1 DEF WakeResult, woken, rest
  <1> HIDE DEF s2
  <1>7. RunQueueOK(s2)
    BY <1>0, <1>4, <1>5, <1>6 DEF RunQueueOK, ParkedOK
  <1>8. ParkedOK(s2)
    <2>1. \A b \in Addr : s2.waiting[b] = IF b = a THEN rest ELSE s.waiting[b]
      BY <1>6
    <2>2. \A b \in Addr : Range(s2.waiting[b]) = IF b = a THEN Range(q) \ Range(woken)
                                                          ELSE Range(s.waiting[b])
      BY <2>1, <1>2
    <2>3. \A b \in Addr : b # a => Range(s.waiting[b]) \cap Range(woken) = {}
      BY <1>0, <1>2 DEF ParkedOK
    <2>4. \A b \in Addr : Range(s2.waiting[b]) \subseteq s2.blocked /\ IsInjective(s2.waiting[b])
      BY <2>1, <2>2, <2>3, <1>0, <1>2, <1>6 DEF ParkedOK
    <2>5. \A p \in s2.blocked : \E b \in Addr : p \in Range(s2.waiting[b])
      BY <2>2, <1>0, <1>6 DEF ParkedOK
    <2>6. \A b, c \in Addr : b # c => Range(s2.waiting[b]) \cap Range(s2.waiting[c]) = {}
      BY <2>2, <1>0 DEF ParkedOK
    <2> QED
      BY <2>4, <2>5, <2>6, <1>0, <1>6 DEF ParkedOK
  <1>9. Bookkeeping(s2)
    BY <1>0, <1>4, <1>5, <1>6, <1>7, <1>8 DEF Bookkeeping, NotLost, VtidsOK
  <1>10. Link(t, r, s2, stk)
    BY <1>6 DEF Inv, Link, OnlyCurrentBusy, Busy, Unregistered, Unborn, AttachAhead,
       CurrentKnown, StackKnown, KnownOrReaped, ChildNew, Resuming
  <1> QED
    BY <1>6, <1>9, <1>10 DEF Inv, s2


-----------------------------------------------------------------------------
(* The scheduler *)

\* Without a current thread no scheduled thread is busy.
LEMMA NobodyBusy ==
    ASSUME NEW t, NEW r, NEW s, NEW stk, Inv(t, r, s, stk), s.current \notin s.scheduled
    PROVE  \A q \in s.scheduled : ~Busy(t, r, s, q)
  BY DEF Inv, Link, OnlyCurrentBusy

\* Every queued thread is ready, so schedule_next takes the first.
LEMMA AllReady ==
    ASSUME NEW s \in SupervisorType, Bookkeeping(s)
    PROVE  /\ ReadyAt(s) = DOMAIN s.runnable
           /\ s.runnable # <<>> => Min(ReadyAt(s)) = 1 /\ Len(s.runnable) >= 1
  <1>1. ReadyAt(s) = DOMAIN s.runnable
    BY DEF ReadyAt, Bookkeeping, RunQueueOK, Range
  <1>2. s.runnable \in Seq(Pids)
    BY DEF SupervisorType
  <1>3. ASSUME s.runnable # <<>> PROVE Min(DOMAIN s.runnable) = 1 /\ Len(s.runnable) >= 1
    <2>1. Len(s.runnable) \in Nat /\ Len(s.runnable) >= 1 /\ DOMAIN s.runnable = 1 .. Len(s.runnable)
      BY <1>2, <1>3
    <2>2. 1 \in DOMAIN s.runnable /\ \A y \in DOMAIN s.runnable : y \in Int /\ 1 =< y
      BY <2>1
    <2>3. \A x \in DOMAIN s.runnable : (\A y \in DOMAIN s.runnable : x =< y) => x = 1
      BY <2>2
    <2> QED
      BY <2>1, <2>2, <2>3 DEF Min
  <1> QED
    BY <1>1, <1>3

\* schedule_next keeps Inv when no thread is current.
LEMMA ScheduleInv ==
    ASSUME NEW t, NEW r, NEW s, NEW stk, Inv(t, r, s, stk), s.current = NoPid
    PROVE  Inv(t, r, ScheduleNext(s), stk)
  <1>0. s \in SupervisorType /\ Bookkeeping(s) /\ RunQueueOK(s) /\ s.runnable \in Seq(Pids)
    BY DEF Inv, Bookkeeping, SupervisorType
  <1>1. CASE s.runnable = <<>>
    <2> DEFINE e == IF StopExpected(s) THEN s.err ELSE "deadlock"
               s2 == [s EXCEPT !.runnable = <<>>, !.err = e]
    <2>1. ScheduleNext(s) = s2
      <3>1. ReadyAt(s) = {}
        BY <1>0, <1>1, AllReady
      <3> QED
        BY <3>1, <1>0 DEF ScheduleNext, SupervisorType
    <2>2. e \in {"ok", "deadlock"} /\ <<>> \in Seq(Pids)
      BY <1>0 DEF SupervisorType
    <2> HIDE DEF e
    <2>3. s2 \in SupervisorType /\ SameQueues(s, s2)
      BY <1>0, <1>1, <2>2 DEF SupervisorType, SameQueues
    <2> QED
      BY <2>1, <2>3, SameInv
  <1>2. CASE s.runnable # <<>>
    <2> DEFINE tid == s.runnable[1]
               rest == SubSeq(s.runnable, 2, Len(s.runnable))
               to == s.vtid[tid]
               s1 == IF s.lastVtid # to THEN TraceJson(s, "schedule", s.lastVtid, to) ELSE s
               s2 == [s1 EXCEPT !.runnable = rest, !.lastVtid = to, !.current = tid]
    <2>1. /\ tid \in Pids /\ tid \in Range(s.runnable) /\ 1 \in 0 .. Len(s.runnable)
          /\ to \in Nat
      <3>1. Len(s.runnable) >= 1 /\ Len(s.runnable) \in Nat /\ DOMAIN s.runnable = 1 .. Len(s.runnable)
        BY <1>0, <1>2, AllReady
      <3>2. 1 \in DOMAIN s.runnable /\ 1 \in 0 .. Len(s.runnable)
        BY <3>1
      <3>3. tid \in Range(s.runnable)
        BY <3>2 DEF Range
      <3>4. tid \in Pids
        BY <1>0, <3>2
      <3>5. s.vtid \in [Pids -> Nat]
        BY <1>0 DEF SupervisorType
      <3> QED
        BY <3>2, <3>3, <3>4, <3>5
    <2>2. Inv(t, r, s1, stk) /\ SameQueues(s, s1)
      <3>1. s.lastVtid \in Int /\ to \in Int
        BY <1>0, <2>1 DEF SupervisorType
      <3>2. SameQueues(s, s)
        BY DEF SameQueues
      <3> HIDE DEF to
      <3>3. CASE s.lastVtid # to
        <4>1. s1 = TraceJson(s, "schedule", s.lastVtid, to)
          BY <3>3
        <4> HIDE DEF s1
        <4>2. "schedule" \in EventNames
          BY DEF EventNames
        <4> QED
          BY <3>1, <4>1, <4>2, TraceInv
      <3>4. CASE s.lastVtid = to
        <4>1. s1 = s
          BY <3>4
        <4> QED
          BY <4>1, <3>2
      <3> QED
        BY <3>3, <3>4
    <2>3. ScheduleNext(s) = ResumeThread(s2, tid)
      <3>1. ReadyAt(s) # {} /\ Min(ReadyAt(s)) = 1
        <4>1. DOMAIN s.runnable # {}
          BY <2>1 DEF Range
        <4> QED
          BY <4>1, <1>0, <1>2, AllReady
      <3>2. ScheduleNext(s) = SwitchTo(s, 1)
        BY <3>1 DEF ScheduleNext
      <3>3. s1.runnable = s.runnable /\ 1 + 1 = 2
        BY <2>2 DEF SameQueues
      <3> HIDE DEF s1
      <3>4. SwitchTo(s, 1) = ResumeThread([s1 EXCEPT !.runnable = SubSeq(s1.runnable, 1 + 1, Len(s1.runnable)),
                                                     !.lastVtid = to, !.current = tid], tid)
        BY DEF SwitchTo, s1
      <3> QED
        BY <3>2, <3>3, <3>4
    <2>4. /\ rest \in Seq(Pids) /\ IsInjective(rest)
          /\ Range(rest) \subseteq Range(s.runnable) /\ tid \notin Range(rest)
          /\ Range(s.runnable) \subseteq Range(rest) \cup {tid}
      <3> DEFINE one == SubSeq(s.runnable, 1, 1)
      <3>1. /\ Range(s.runnable) = Range(one) \cup Range(rest)
            /\ Range(one) \cap Range(rest) = {}
            /\ rest \in Seq(Pids) /\ IsInjective(rest)
        <4>1. IsInjective(s.runnable) /\ 1 + 1 = 2
          BY <1>0 DEF RunQueueOK
        <4> QED
          BY <4>1, <1>0, <2>1, SplitQueue
      <3>2. DOMAIN one = 1 .. 1 /\ one[1] = tid
        BY <1>0, <2>1
      <3>3. Range(one) = {tid}
        <4> HIDE DEF one, tid
        <4> QED
          BY <3>2 DEF Range
      <3> QED
        BY <3>1, <3>3
    <2> HIDE DEF rest, to, s1
    <2>5. /\ s2 \in SupervisorType
          /\ s2.threads = s.threads /\ s2.scheduled = s.scheduled
          /\ s2.vtid = s.vtid /\ s2.vtidNext = s.vtidNext
          /\ s2.blocked = s.blocked /\ s2.waiting = s.waiting
          /\ s2.pendingStart = s.pendingStart /\ s2.stoppedPending = s.stoppedPending
          /\ s2.resumed = s.resumed
          /\ s2.runnable = rest /\ s2.current = tid
      <3>1. s1 \in SupervisorType /\ to \in Int
        BY <2>1, <2>2 DEF Inv
      <3> HIDE DEF tid
      <3> QED
        BY <3>1, <2>1, <2>2, <2>4 DEF SupervisorType, SameQueues
    <2> HIDE DEF s2, tid
    <2>6. tid \in s.scheduled /\ tid \in s.threads /\ tid \notin s.blocked /\ tid \notin s.pendingStart
      BY <1>0, <2>1 DEF RunQueueOK, Bookkeeping
    <2>7. Bookkeeping(s2)
      <3>1. RunQueueOK(s2)
        BY <1>0, <2>4, <2>5 DEF RunQueueOK
      <3>2. ParkedOK(s2)
        BY <1>0, <2>5, <2>6 DEF Bookkeeping, ParkedOK
      <3>3. NotLost(s2)
        BY <1>0, <2>4, <2>5, PidsAssumption DEF Bookkeeping, NotLost, SupervisorType
      <3> QED
        BY <1>0, <2>5, <2>6, <3>1, <3>2, <3>3 DEF Bookkeeping, VtidsOK
    <2>8. OnlyCurrentBusy(t, r, s2)
      <3>1. \A q \in s.scheduled : ~Busy(t, r, s, q)
        BY <1>0, NobodyBusy, PidsAssumption DEF SupervisorType
      <3> QED
        BY <3>1, <2>5 DEF OnlyCurrentBusy, Busy, Resuming
    <2>9. Link(t, r, s2, stk)
      BY <2>5, <2>6, <2>8 DEF Inv, Link, Unregistered, Unborn, AttachAhead, Resuming,
         CurrentKnown, StackKnown, KnownOrReaped, ChildNew
    <2>10. Inv(t, r, s2, stk) /\ MayResume(t, s2, tid)
      BY <2>5, <2>6, <2>7, <2>9 DEF Inv, MayResume
    <2> QED
      BY <2>1, <2>3, <2>10, ResumeInv
  <1> QED
    BY <1>1, <1>2

\* p, which was running, is queued.
Yields(s, s2, p) ==
    /\ s2.current = NoPid /\ s2.runnable = Append(s.runnable, p)
    /\ s2.scheduled = s.scheduled /\ s2.blocked = s.blocked /\ s2.waiting = s.waiting

\* yield_current's update.
Requeued(s, p) == [s EXCEPT !.current = NoPid, !.runnable = Append(s.runnable, p)]

\* The current thread, stopped, goes to the back of the run queue.
LEMMA YieldInv ==
    ASSUME NEW t, NEW r, NEW s, NEW stk, NEW p \in Pids, Inv(t, r, s, stk),
           s.current = p, p \in s.scheduled, ~Busy(t, r, s, p)
    PROVE  /\ Inv(t, r, YieldCurrent(s, p), stk)
           /\ \E u : /\ Inv(t, r, u, stk) /\ Yields(s, u, p) /\ YieldCurrent(s, p) = ScheduleNext(u)
                    /\ Asks(s, u, {}, {})
                    /\ u = Requeued(s, p)
  <1> DEFINE q2 == Append(s.runnable, p)
             s2 == [s EXCEPT !.current = NoPid, !.runnable = q2]
  <1>0. s \in SupervisorType /\ Bookkeeping(s) /\ RunQueueOK(s) /\ s.runnable \in Seq(Pids)
    BY DEF Inv, Bookkeeping, SupervisorType
  <1>1. YieldCurrent(s, p) = ScheduleNext(s2)
    BY <1>0 DEF YieldCurrent, SupervisorType
  <1>2. q2 \in Seq(Pids) /\ Range(q2) = Range(s.runnable) \cup {p} /\ IsInjective(q2)
    BY <1>0, AppendQueue DEF RunQueueOK
  <1> HIDE DEF q2
  <1>3. /\ s2 \in SupervisorType
        /\ s2.threads = s.threads /\ s2.scheduled = s.scheduled
        /\ s2.vtid = s.vtid /\ s2.vtidNext = s.vtidNext
        /\ s2.blocked = s.blocked /\ s2.waiting = s.waiting
        /\ s2.pendingStart = s.pendingStart /\ s2.stoppedPending = s.stoppedPending
        /\ s2.resumed = s.resumed /\ s2.pending = s.pending
        /\ s2.runnable = q2 /\ s2.current = NoPid
    BY <1>0, <1>2 DEF SupervisorType
  <1> HIDE DEF s2
  <1>4. Bookkeeping(s2)
    <2>1. p \notin s.blocked /\ p \notin s.pendingStart /\ s.scheduled \subseteq Pids
      BY <1>0 DEF Bookkeeping, ParkedOK, SupervisorType
    <2>2. RunQueueOK(s2)
      BY <1>0, <1>2, <1>3, <2>1, PidsAssumption DEF RunQueueOK
    <2>3. ParkedOK(s2)
      <3>1. ParkedOK(s)
        BY <1>0 DEF Bookkeeping
      <3>2. s2.blocked \subseteq s2.scheduled \ (s2.pendingStart \cup {s2.current})
        BY <3>1, <1>3, <2>1, PidsAssumption DEF ParkedOK
      <3> QED
        BY <3>1, <3>2, <1>3 DEF ParkedOK
    <2>4. NotLost(s2)
      BY <1>0, <1>2, <1>3 DEF Bookkeeping, NotLost
    <2> QED
      BY <1>0, <1>3, <2>1, <2>2, <2>3, <2>4, PidsAssumption DEF Bookkeeping, VtidsOK, SupervisorType
  <1>5. Link(t, r, s2, stk)
    <2>1. \A q \in s.scheduled : ~Busy(t, r, s, q)
      BY DEF Inv, Link, OnlyCurrentBusy
    <2>2. OnlyCurrentBusy(t, r, s2)
      BY <2>1, <1>3 DEF OnlyCurrentBusy, Busy, Resuming
    <2>3. ChildNew(t, r, s2) /\ CurrentKnown(t, s2)
      <3>1. \A q \in Pids : t[q].child # NoPid
        BY PidsAssumption DEF Inv, Task
      <3> QED
        BY <3>1, <1>3, PidsAssumption DEF Inv, Link, ChildNew, CurrentKnown
    <2> QED
      BY <1>3, <2>2, <2>3 DEF Inv, Link, Unregistered, Unborn, AttachAhead, Resuming,
         StackKnown, KnownOrReaped
  <1>6. Inv(t, r, s2, stk) /\ Yields(s, s2, p)
    BY <1>3, <1>4, <1>5 DEF Inv, Yields, q2
  <1>7. Asks(s, s2, {}, {})
    BY <1>3 DEF Asks, Resuming
  <1>8. s2 = Requeued(s, p)
    BY DEF s2, q2, Requeued
  <1> QED
    BY <1>1, <1>3, <1>6, <1>7, <1>8, ScheduleInv

\* A status has been taken by waitpid.
LEMMA ShrinkReports ==
    ASSUME NEW t, NEW r, NEW s, NEW stk, Inv(t, r, s, stk), NEW r2 \in SUBSET r
    PROVE  Inv(t, r2, s, stk)
  <1>1. Link(t, r2, s, stk)
    BY DEF Inv, Link, OnlyCurrentBusy, Busy, AttachAhead, ChildNew, CloneStopped
  <1> QED
    BY <1>1 DEF Inv

\* A thread that is no longer scheduled stops being current.
LEMMA ClearCurrentInv ==
    ASSUME NEW t, NEW r, NEW s, NEW stk, Inv(t, r, s, stk), s.current \notin s.scheduled
    PROVE  Inv(t, r, [s EXCEPT !.current = NoPid], stk)
  <1> DEFINE s2 == [s EXCEPT !.current = NoPid]
  <1>0. s \in SupervisorType /\ Bookkeeping(s)
    BY DEF Inv
  <1>1. /\ s2 \in SupervisorType
        /\ s2.threads = s.threads /\ s2.scheduled = s.scheduled
        /\ s2.vtid = s.vtid /\ s2.vtidNext = s.vtidNext
        /\ s2.blocked = s.blocked /\ s2.waiting = s.waiting /\ s2.runnable = s.runnable
        /\ s2.pendingStart = s.pendingStart /\ s2.stoppedPending = s.stoppedPending
        /\ s2.resumed = s.resumed /\ s2.current = NoPid
    BY <1>0 DEF SupervisorType
  <1> HIDE DEF s2
  <1>2. Bookkeeping(s2)
    <2>1. /\ RunQueueOK(s) /\ ParkedOK(s) /\ NotLost(s) /\ VtidsOK(s)
          /\ s.scheduled \subseteq Pids /\ s.threads \subseteq Pids
      BY <1>0 DEF Bookkeeping, SupervisorType
    <2>2. RunQueueOK(s2)
      BY <2>1, <1>1, PidsAssumption DEF RunQueueOK
    <2>3. ParkedOK(s2)
      <3>1. s2.blocked \subseteq s2.scheduled \ (s2.pendingStart \cup {s2.current})
        BY <2>1, <1>1, PidsAssumption DEF ParkedOK
      <3> QED
        BY <2>1, <3>1, <1>1 DEF ParkedOK
    <2>4. NotLost(s2) /\ VtidsOK(s2)
      BY <2>1, <1>1 DEF NotLost, VtidsOK
    <2> QED
      BY <1>0, <1>1, <2>1, <2>2, <2>3, <2>4, PidsAssumption DEF Bookkeeping
  <1>3. Link(t, r, s2, stk)
    <2>1. OnlyCurrentBusy(t, r, s2)
      BY <1>1, NobodyBusy DEF OnlyCurrentBusy, Busy, Resuming
    <2>2. ChildNew(t, r, s2) /\ CurrentKnown(t, s2)
      <3>1. \A q \in Pids : t[q].child # NoPid
        BY PidsAssumption DEF Inv, Task
      <3> QED
        BY <3>1, <1>1, PidsAssumption DEF Inv, Link, ChildNew, CurrentKnown
    <2> QED
      BY <1>1, <2>1, <2>2 DEF Inv, Link, Unregistered, Unborn, AttachAhead, Resuming,
         StackKnown, KnownOrReaped
  <1> QED
    BY <1>1, <1>2, <1>3 DEF Inv, s2

\* The current thread, stopped, parks on futex word a.
LEMMA ParkInv ==
    ASSUME NEW t, NEW r, NEW s, NEW stk, NEW p \in Pids, NEW a \in Addr, Inv(t, r, s, stk),
           s.current = p, p \in s.scheduled, ~Busy(t, r, s, p)
    PROVE  Inv(t, r, [Block(s, p, a) EXCEPT !.current = NoPid], stk)
  <1> DEFINE q2 == Append(s.waiting[a], p)
             w2 == [s.waiting EXCEPT ![a] = q2]
             s2 == [s EXCEPT !.blocked = s.blocked \cup {p}, !.waiting = w2, !.current = NoPid]
  <1>0. s \in SupervisorType /\ Bookkeeping(s) /\ s.waiting \in [Addr -> Seq(Pids)]
    BY DEF Inv, SupervisorType
  <1>1. [Block(s, p, a) EXCEPT !.current = NoPid] = s2
    BY <1>0 DEF Block, SupervisorType
  <1>p. /\ RunQueueOK(s) /\ ParkedOK(s) /\ NotLost(s) /\ VtidsOK(s)
        /\ s.scheduled \subseteq Pids /\ s.threads \subseteq Pids
        /\ p \notin s.blocked /\ p \notin s.pendingStart /\ p \notin Range(s.runnable)
        /\ s.blocked \subseteq Pids
    BY <1>0 DEF Bookkeeping, SupervisorType, ParkedOK, RunQueueOK
  <1>2. q2 \in Seq(Pids) /\ Range(q2) = Range(s.waiting[a]) \cup {p} /\ IsInjective(q2)
    <2>1. s.waiting[a] \in Seq(Pids) /\ IsInjective(s.waiting[a]) /\ p \notin Range(s.waiting[a])
      BY <1>0, <1>p DEF ParkedOK
    <2> QED
      BY <2>1, AppendQueue
  <1> HIDE DEF q2
  <1>w. w2 \in [Addr -> Seq(Pids)] /\ \A b \in Addr : w2[b] = IF b = a THEN q2 ELSE s.waiting[b]
    BY <1>0, <1>2
  <1> HIDE DEF w2
  <1>3. /\ s2 \in SupervisorType
        /\ s2.threads = s.threads /\ s2.scheduled = s.scheduled
        /\ s2.vtid = s.vtid /\ s2.vtidNext = s.vtidNext
        /\ s2.blocked = s.blocked \cup {p} /\ s2.waiting = w2 /\ s2.runnable = s.runnable
        /\ s2.pendingStart = s.pendingStart /\ s2.stoppedPending = s.stoppedPending
        /\ s2.resumed = s.resumed /\ s2.current = NoPid
    BY <1>0, <1>w DEF SupervisorType
  <1> HIDE DEF s2
  <1>4. Bookkeeping(s2)
    <2>2. RunQueueOK(s2)
      BY <1>p, <1>3, PidsAssumption DEF RunQueueOK
    <2>3. ParkedOK(s2)
      <3>1. \A b \in Addr : Range(w2[b]) = IF b = a THEN Range(s.waiting[a]) \cup {p}
                                                    ELSE Range(s.waiting[b])
        BY <1>w, <1>2
      <3>2. \A b \in Addr : Range(w2[b]) \subseteq s2.blocked /\ IsInjective(w2[b])
        BY <3>1, <1>2, <1>w, <1>3, <1>p DEF ParkedOK
      <3>3. \A q \in s2.blocked : \E b \in Addr : q \in Range(w2[b])
        BY <3>1, <1>3, <1>p DEF ParkedOK
      <3>4. \A b, c \in Addr : b # c => Range(w2[b]) \cap Range(w2[c]) = {}
        BY <3>1, <1>p DEF ParkedOK
      <3>5. s2.blocked \subseteq s2.scheduled \ (s2.pendingStart \cup {s2.current})
        BY <1>p, <1>3, PidsAssumption DEF ParkedOK
      <3> QED
        BY <3>2, <3>3, <3>4, <3>5, <1>3 DEF ParkedOK
    <2>4. NotLost(s2) /\ VtidsOK(s2)
      BY <1>p, <1>3 DEF NotLost, VtidsOK
    <2> QED
      BY <1>0, <1>3, <1>p, <2>2, <2>3, <2>4, PidsAssumption DEF Bookkeeping
  <1>5. Link(t, r, s2, stk)
    <2>1. \A q \in s.scheduled : ~Busy(t, r, s, q)
      BY DEF Inv, Link, OnlyCurrentBusy
    <2>2. OnlyCurrentBusy(t, r, s2)
      BY <2>1, <1>3 DEF OnlyCurrentBusy, Busy, Resuming
    <2>3. ChildNew(t, r, s2) /\ CurrentKnown(t, s2)
      <3>1. \A q \in Pids : t[q].child # NoPid
        BY PidsAssumption DEF Inv, Task
      <3> QED
        BY <3>1, <1>3, PidsAssumption DEF Inv, Link, ChildNew, CurrentKnown
    <2> QED
      BY <1>3, <2>2, <2>3 DEF Inv, Link, Unregistered, Unborn, AttachAhead, Resuming,
         StackKnown, KnownOrReaped
  <1> QED
    BY <1>1, <1>3, <1>4, <1>5 DEF Inv

-----------------------------------------------------------------------------
(* Registration and exit of tasks *)

\* A task whose attach stop has been seen is queued, or resumed if it is not
\* scheduled.
LEMMA ReleaseInv ==
    ASSUME NEW t, NEW r, NEW s, NEW stk, NEW p \in Pids, Inv(t, r, s, stk),
           p \in s.pendingStart, t[p].at # "born", ~(p \in r /\ t[p].at = "attach")
    PROVE  /\ Inv(t, r, Started(s, p), stk) /\ Started(s, p).threads = s.threads
           /\ Admits(s, Started(s, p), p) /\ Started(s, p).scheduled = s.scheduled
  <1> DEFINE q2 == IF p \in s.scheduled THEN Append(s.runnable, p) ELSE s.runnable
             s1 == [s EXCEPT !.pendingStart = s.pendingStart \ {p}]
             s2 == [s EXCEPT !.pendingStart = s.pendingStart \ {p}, !.runnable = q2]
  <1>0. s \in SupervisorType /\ Bookkeeping(s) /\ s.runnable \in Seq(Pids)
    BY DEF Inv, SupervisorType
  <1>p. /\ RunQueueOK(s) /\ ParkedOK(s) /\ NotLost(s) /\ VtidsOK(s)
        /\ p \notin s.blocked /\ p # s.current /\ p \notin Range(s.runnable) /\ p \in s.threads
    BY <1>0 DEF Bookkeeping, ParkedOK, RunQueueOK
  <1>1. /\ q2 \in Seq(Pids) /\ IsInjective(q2)
        /\ Range(q2) = IF p \in s.scheduled THEN Range(s.runnable) \cup {p} ELSE Range(s.runnable)
    BY <1>0, <1>p, AppendQueue DEF RunQueueOK
  <1>2. Release(s1, p) = IF p \in s.scheduled THEN s2 ELSE ResumeThread(s2, p)
    <2>1. s1.scheduled = s.scheduled /\ s1.runnable = s.runnable
      BY <1>0 DEF SupervisorType
    <2>2. CASE p \in s.scheduled
      BY <2>1, <2>2, <1>0 DEF Release, IsScheduled, SupervisorType
    <2>3. CASE p \notin s.scheduled
      <3>1. s2 = s1
        BY <2>3, <1>0 DEF SupervisorType
      <3> QED
        BY <2>1, <2>3, <3>1 DEF Release, IsScheduled
    <2> QED
      BY <2>2, <2>3
  <1> HIDE DEF q2
  <1>3. /\ s2 \in SupervisorType
        /\ s2.threads = s.threads /\ s2.scheduled = s.scheduled
        /\ s2.vtid = s.vtid /\ s2.vtidNext = s.vtidNext
        /\ s2.blocked = s.blocked /\ s2.waiting = s.waiting
        /\ s2.pendingStart = s.pendingStart \ {p} /\ s2.stoppedPending = s.stoppedPending
        /\ s2.resumed = s.resumed
        /\ s2.runnable = q2 /\ s2.current = s.current
    BY <1>0, <1>1 DEF SupervisorType
  <1>4. s1.threads = s.threads /\ Started(s, p) = Release(s1, p)
    BY <1>0 DEF SupervisorType, Started
  <1> HIDE DEF s2, s1
  <1>5. Bookkeeping(s2)
    <2>2. RunQueueOK(s2)
      BY <1>p, <1>1, <1>3 DEF RunQueueOK
    <2>3. ParkedOK(s2)
      BY <1>p, <1>3 DEF ParkedOK
    <2>4. NotLost(s2)
      BY <1>p, <1>1, <1>3 DEF NotLost
    <2> QED
      BY <1>0, <1>3, <2>2, <2>3, <2>4 DEF Bookkeeping, VtidsOK
  <1>6. Link(t, r, s2, stk)
    <2>1. AttachAhead(t, r, s2)
      BY <1>3 DEF Inv, Link, AttachAhead
    <2> QED
      BY <1>3, <2>1 DEF Inv, Link, OnlyCurrentBusy, Busy, Unregistered, Unborn, Resuming,
         CurrentKnown, StackKnown, KnownOrReaped, ChildNew
  <1>7. Inv(t, r, s2, stk)
    BY <1>3, <1>5, <1>6 DEF Inv
  <1>a. Admits(s, s2, p)
    BY <1>3 DEF Admits, q2
  <1>8. CASE p \in s.scheduled
    BY <1>2, <1>3, <1>4, <1>7, <1>8, <1>a
  <1>9. CASE p \notin s.scheduled
    <2>1. MayResume(t, s2, p)
      BY <1>3, <1>9, <1>p DEF MayResume
    <2>2. ResumeThread(s2, p).threads = s2.threads
      BY <1>3 DEF ResumeThread, SupervisorType
    <2>3. Admits(s, ResumeThread(s2, p), p) /\ ResumeThread(s2, p).scheduled = s.scheduled
      <3>1. SameTurn(s2, ResumeThread(s2, p))
        BY ResumeTurn
      <3> QED
        BY <3>1, <1>3, <1>a DEF Admits, SameTurn
    <2> QED
      BY <1>2, <1>3, <1>4, <1>7, <1>9, <2>1, <2>2, <2>3, ResumeInv
  <1> QED
    BY <1>8, <1>9

\* The child of a clone event becomes a thread.
LEMMA RegisterInv ==
    ASSUME NEW t, NEW r, NEW s, NEW stk, NEW p \in Pids, NEW info \in CloneInfo,
           Inv(t, r, s, stk),
           p \notin s.threads, p # s.current, t[p].at # "unborn", p \notin Resuming(s),
           \A q \in Pids : CloneStopped(t, r, q) => t[q].child # p
    PROVE  /\ Inv(t, r, RegisterThread(s, p, info), stk)
           /\ RegisterThread(s, p, info).threads = s.threads \cup {p}
           /\ Admits(s, RegisterThread(s, p, info), p)
  <1> DEFINE sch == IF info.thread THEN s.scheduled \cup {p} ELSE s.scheduled
             vt == [s.vtid EXCEPT ![p] = s.vtidNext]
             ct == [s.childTid EXCEPT ![p] = info.childTid]
             th == s.threads \cup {p}
             nx == s.vtidNext + 1
             ps == s.pendingStart \cup {p}
             sp == s.stoppedPending \ {p}
             s1 == [s EXCEPT !.threads = th, !.scheduled = sch, !.vtid = vt,
                             !.childTid = ct, !.vtidNext = nx]
             s0 == [s EXCEPT !.threads = th, !.scheduled = sch, !.vtid = vt,
                             !.childTid = ct, !.vtidNext = nx,
                             !.pendingStart = ps, !.stoppedPending = sp]
             s2 == IF p \in s.stoppedPending
                   THEN Started(s0, p)
                   ELSE s0
  <1>0. s \in SupervisorType /\ Bookkeeping(s) /\ s.vtidNext \in Nat /\ s.vtid \in [Pids -> Nat]
    BY DEF Inv, SupervisorType
  <1>i. info.thread \in BOOLEAN /\ info.childTid \in Addr \cup {NoAddr}
    BY DEF CloneInfo
  <1>p. /\ RunQueueOK(s) /\ ParkedOK(s) /\ NotLost(s) /\ VtidsOK(s)
        /\ p \notin s.scheduled /\ p \notin s.pendingStart /\ p \notin s.blocked
        /\ p \notin Range(s.runnable)
    BY <1>0 DEF Bookkeeping, ParkedOK, RunQueueOK
  <1>1. RegisterThread(s, p, info) = TraceJson(s2, "thread_create", s.vtidNext, IF info.thread THEN 1 ELSE 0)
    <2>1. [s EXCEPT !.threads = @ \cup {p},
                    !.scheduled = IF info.thread THEN @ \cup {p} ELSE @,
                    !.vtid[p] = s.vtidNext,
                    !.childTid[p] = info.childTid,
                    !.vtidNext = @ + 1] = s1
      BY <1>0 DEF SupervisorType
    <2>2. s1.stoppedPending = s.stoppedPending /\ s1.pendingStart = s.pendingStart
      BY <1>0 DEF SupervisorType
    <2>3. CASE p \in s.stoppedPending
      <3>1. [s1 EXCEPT !.stoppedPending = @ \ {p}] = [s0 EXCEPT !.pendingStart = @ \ {p}]
        <4>1. s.stoppedPending \ {p} = sp /\ ps \ {p} = s.pendingStart
          BY <1>p
        <4> HIDE DEF sch, vt, ct, th, nx, ps, sp
        <4> QED
          BY <4>1, <1>0 DEF SupervisorType
      <3> HIDE DEF s1, s0
      <3> QED
        BY <2>1, <2>2, <2>3, <3>1 DEF RegisterThread, Started
    <2>4. CASE p \notin s.stoppedPending
      <3>1. [s1 EXCEPT !.pendingStart = @ \cup {p}] = s0
        <4>1. s.stoppedPending = sp /\ s.pendingStart \cup {p} = ps
          BY <2>4
        <4> HIDE DEF sch, vt, ct, th, nx, ps, sp
        <4> QED
          BY <4>1, <1>0 DEF SupervisorType
      <3> HIDE DEF s1, s0
      <3> QED
        BY <2>1, <2>2, <2>4, <3>1 DEF RegisterThread
    <2> QED
      BY <2>3, <2>4
  <1>2. sch \in SUBSET Pids /\ vt \in [Pids -> Nat] /\ ct \in [Pids -> Addr \cup {NoAddr}]
    BY <1>0, <1>i DEF SupervisorType
  <1>v. \A q \in Pids : vt[q] = IF q = p THEN s.vtidNext ELSE s.vtid[q]
    BY <1>0
  <1>s. \A q \in sch : q \in s.scheduled \/ q = p
    OBVIOUS
  <1>t. s.scheduled \subseteq sch
    OBVIOUS
  <1> HIDE DEF sch, vt, ct, s2
  <1>3. /\ s0 \in SupervisorType
        /\ s0.threads = s.threads \cup {p} /\ s0.scheduled = sch
        /\ s0.vtid = vt /\ s0.vtidNext = s.vtidNext + 1
        /\ s0.blocked = s.blocked /\ s0.waiting = s.waiting
        /\ s0.pendingStart = s.pendingStart \cup {p}
        /\ s0.stoppedPending = s.stoppedPending \ {p}
        /\ s0.resumed = s.resumed
        /\ s0.runnable = s.runnable /\ s0.current = s.current
    <2>1. th \in SUBSET Pids /\ nx \in Nat /\ ps \in SUBSET Pids /\ sp \in SUBSET Pids
      BY <1>0 DEF SupervisorType
    <2> HIDE DEF th, nx, ps, sp
    <2>2. /\ s0 \in SupervisorType
          /\ s0.threads = th /\ s0.scheduled = sch
          /\ s0.vtid = vt /\ s0.vtidNext = nx
          /\ s0.blocked = s.blocked /\ s0.waiting = s.waiting
          /\ s0.pendingStart = ps /\ s0.stoppedPending = sp
          /\ s0.resumed = s.resumed
          /\ s0.runnable = s.runnable /\ s0.current = s.current
      BY <1>0, <1>2, <2>1 DEF SupervisorType
    <2> QED
      BY <2>2 DEF th, nx, ps, sp
  <1> HIDE DEF s0
  <1>5. Bookkeeping(s0)
    <2>2. RunQueueOK(s0)
      BY <1>p, <1>t, <1>3 DEF RunQueueOK
    <2>3. ParkedOK(s0)
      BY <1>p, <1>t, <1>3 DEF ParkedOK
    <2>4. NotLost(s0)
      BY <1>p, <1>s, <1>3 DEF NotLost
    <2>5. VtidsOK(s0)
      <3>1. s.threads \subseteq Pids
        BY <1>0 DEF SupervisorType
      <3>2. \A q \in s.threads : vt[q] = s.vtid[q] /\ vt[q] \in Nat /\ vt[q] < s.vtidNext
        BY <3>1, <1>0, <1>p, <1>v DEF VtidsOK
      <3>3. vt[p] = s.vtidNext
        BY <1>v
      <3>4. \A q \in s.threads, u \in s.threads : q # u => vt[q] # vt[u]
        BY <3>2, <1>p DEF VtidsOK
      <3>5. \A q \in s0.threads : vt[q] < s.vtidNext + 1
        BY <3>2, <3>3, <1>0, <1>3
      <3>6. \A q, u \in s0.threads : q # u => vt[q] # vt[u]
        BY <3>2, <3>3, <3>4, <1>0, <1>3
      <3> QED
        BY <3>5, <3>6, <1>3 DEF VtidsOK
    <2>6. s0.scheduled \subseteq s0.threads
      BY <1>0, <1>3, <1>s DEF Bookkeeping
    <2> QED
      BY <1>0, <1>3, <2>2, <2>3, <2>4, <2>5, <2>6 DEF Bookkeeping
  <1>6. Link(t, r, s0, stk)
    <2>1. OnlyCurrentBusy(t, r, s0)
      <3>1. ~Busy(t, r, s0, p)
        BY <1>3 DEF Inv, Link, Unregistered, Busy, Resuming
      <3> QED
        BY <3>1, <1>3, <1>s DEF Inv, Link, OnlyCurrentBusy, Busy, Resuming
    <2>2. Unregistered(t, s0) /\ Unborn(t, s0)
      BY <1>3 DEF Inv, Link, Unregistered, Unborn, Resuming
    <2>3. AttachAhead(t, r, s0)
      BY <1>3 DEF Inv, Link, AttachAhead
    <2>4. CurrentKnown(t, s0) /\ StackKnown(t, s0, stk)
      BY <1>3 DEF Inv, Link, CurrentKnown, StackKnown, KnownOrReaped
    <2>5. ChildNew(t, r, s0)
      BY <1>3 DEF Inv, Link, ChildNew
    <2> QED
      BY <2>1, <2>2, <2>3, <2>4, <2>5 DEF Link
  <1>7. Inv(t, r, s0, stk)
    BY <1>3, <1>5, <1>6 DEF Inv
  <1>a. Admits(s, s0, p)
    <2>1. sch \subseteq s.scheduled \cup {p}
      BY <1>s
    <2> QED
      BY <2>1, <1>t, <1>3 DEF Admits
  <1>8. Inv(t, r, s2, stk) /\ s2.threads = s.threads \cup {p} /\ Admits(s, s2, p)
    <2>1. CASE p \in s.stoppedPending
      <3>1. t[p].at # "born" /\ ~(p \in r /\ t[p].at = "attach")
        BY <2>1 DEF Inv, Link, AttachAhead
      <3>2. p \in s0.pendingStart
        BY <1>3
      <3> QED
        <4>1. s2 = Started(s0, p) /\ s0.threads = s.threads \cup {p}
          BY <2>1, <1>3 DEF s2
        <4>2. /\ Inv(t, r, Started(s0, p), stk) /\ Started(s0, p).threads = s0.threads
              /\ Admits(s0, Started(s0, p), p)
          BY <3>1, <3>2, <1>7, ReleaseInv
        <4>3. Admits(s, Started(s0, p), p)
          BY <4>2, <1>3, <1>a DEF Admits
        <4> QED
          BY <4>1, <4>2, <4>3
    <2>2. CASE p \notin s.stoppedPending
      BY <2>2, <1>3, <1>7, <1>a DEF s2
    <2> QED
      BY <2>1, <2>2
  <1>9. "thread_create" \in EventNames /\ s.vtidNext \in Int /\ (IF info.thread THEN 1 ELSE 0) \in Int
    BY <1>0 DEF EventNames
  <1>10. /\ Inv(t, r, TraceJson(s2, "thread_create", s.vtidNext, IF info.thread THEN 1 ELSE 0), stk)
         /\ SameQueues(s2, TraceJson(s2, "thread_create", s.vtidNext, IF info.thread THEN 1 ELSE 0))
    BY <1>8, <1>9, TraceInv
  <1> QED
    BY <1>1, <1>8, <1>10 DEF SameQueues, Admits

\* A task that has been reaped disappears from every queue; the thread joining it
\* is woken.
LEMMA RemoveInv ==
    ASSUME NEW t, NEW r, NEW s, NEW stk, NEW p \in Pids, NEW rec \in BOOLEAN,
           Inv(t, r, s, stk), t[p].at = "reaped", p \notin Resuming(s)
    PROVE  /\ Inv(t, r, OnThreadExit(s, p, rec), stk)
           /\ p \notin OnThreadExit(s, p, rec).scheduled
           /\ OnThreadExit(s, p, rec).current = s.current
           /\ \E w \in SupervisorType :
                 /\ Leaves(s, OnThreadExit(s, p, rec), p, w)
                 /\ w = s \/ \E a \in Addr : WakeResult(s, a, 1, w)
  <1> DEFINE w == IF p \in s.threads THEN WakeJoiner(s, p) ELSE s
             u == IF p \in s.threads THEN Unregister(s, p, rec) ELSE s
             f == OnThreadExit(s, p, rec)
             T == s.threads \ {p}
             S == s.scheduled \ {p}
  <1>0. s \in SupervisorType /\ Bookkeeping(s) /\ S \in SUBSET Pids /\ T \in SUBSET Pids
    BY DEF Inv, SupervisorType
  <1>j. /\ Inv(t, r, WakeJoiner(s, p), stk)
        /\ WakeJoiner(s, p).threads = s.threads /\ WakeJoiner(s, p).scheduled = s.scheduled
        /\ WakeJoiner(s, p).vtid = s.vtid /\ WakeJoiner(s, p).vtidNext = s.vtidNext
        /\ WakeJoiner(s, p).pendingStart = s.pendingStart
        /\ WakeJoiner(s, p).stoppedPending = s.stoppedPending
        /\ WakeJoiner(s, p).current = s.current /\ WakeJoiner(s, p).resumed = s.resumed
        /\ WakeJoiner(s, p) = s \/ \E a \in Addr : WakeResult(s, a, 1, WakeJoiner(s, p))
    <2>1. s.childTid[p] \in Addr \cup {NoAddr} /\ 1 \in Nat
      BY <1>0 DEF SupervisorType
    <2>2. CASE s.childTid[p] # NoAddr
      <3>1. s.childTid[p] \in Addr /\ WakeJoiner(s, p) = Wake(s, s.childTid[p], 1)
        BY <2>1, <2>2 DEF WakeJoiner
      <3>2. WakeResult(s, s.childTid[p], 1, Wake(s, s.childTid[p], 1))
        BY <1>0, <2>1, <3>1, WakeShape
      <3> QED
        BY <2>1, <3>1, <3>2, WakeInv
    <2>3. CASE s.childTid[p] = NoAddr
      BY <2>3 DEF WakeJoiner
    <2> QED
      BY <2>2, <2>3
  <1>1. /\ Inv(t, r, w, stk) /\ w \in SupervisorType /\ Bookkeeping(w)
        /\ w.threads = s.threads /\ w.scheduled = s.scheduled
        /\ w.vtid = s.vtid /\ w.vtidNext = s.vtidNext
        /\ w.pendingStart = s.pendingStart /\ w.stoppedPending = s.stoppedPending
        /\ w.current = s.current /\ w.resumed = s.resumed
        /\ w = s \/ \E a \in Addr : WakeResult(s, a, 1, w)
    BY <1>j DEF Inv
  <1>2. /\ u \in SupervisorType
        /\ u.threads = T /\ u.scheduled = S
        /\ u.vtid = s.vtid /\ u.vtidNext = s.vtidNext
        /\ u.pendingStart = s.pendingStart /\ u.stoppedPending = s.stoppedPending
        /\ u.current = s.current /\ u.resumed = s.resumed
        /\ u.runnable = w.runnable /\ u.blocked = w.blocked /\ u.waiting = w.waiting
    <2>1. CASE p \notin s.threads
      BY <2>1, <1>0 DEF Bookkeeping
    <2>2. CASE p \in s.threads
      <3> DEFINE u1 == WakeJoiner([s EXCEPT !.threads = T, !.scheduled = S], p)
                 u2 == IF rec THEN TraceJson(u1, "thread_exit", s.vtid[p], 0) ELSE u1
                 pd == u2.pending \ {p}
      <3>1. u = [u2 EXCEPT !.pending = pd]
        <4>1. u = Unregister(s, p, rec)
          BY <2>2
        <4>2. [s EXCEPT !.threads = @ \ {p}, !.scheduled = @ \ {p}] = [s EXCEPT !.threads = T, !.scheduled = S]
          BY <1>0 DEF SupervisorType
        <4> HIDE DEF u, T, S
        <4> QED
          BY <4>1, <4>2 DEF Unregister
      <3> DEFINE s0 == [s EXCEPT !.threads = T, !.scheduled = S]
      <3> HIDE DEF T, S, u
      <3>2. /\ s0 \in SupervisorType
            /\ s0.threads = T /\ s0.scheduled = S
            /\ s0.vtid = s.vtid /\ s0.vtidNext = s.vtidNext /\ s0.childTid = s.childTid
            /\ s0.pendingStart = s.pendingStart /\ s0.stoppedPending = s.stoppedPending
            /\ s0.current = s.current /\ s0.resumed = s.resumed
            /\ s0.runnable = s.runnable /\ s0.blocked = s.blocked /\ s0.waiting = s.waiting
        BY <1>0 DEF SupervisorType
      <3> HIDE DEF s0
      <3>3. /\ u1 \in SupervisorType
            /\ u1.threads = T /\ u1.scheduled = S
            /\ u1.vtid = s.vtid /\ u1.vtidNext = s.vtidNext
            /\ u1.pendingStart = s.pendingStart /\ u1.stoppedPending = s.stoppedPending
            /\ u1.current = s.current /\ u1.resumed = s.resumed
            /\ u1.runnable = w.runnable /\ u1.blocked = w.blocked /\ u1.waiting = w.waiting
        <4>1. s.childTid[p] \in Addr \cup {NoAddr} /\ 1 \in Nat /\ u1 = WakeJoiner(s0, p)
          BY <1>0 DEF SupervisorType, s0
        <4>2. CASE s.childTid[p] # NoAddr
          <5>1. s.childTid[p] \in Addr /\ w = Wake(s, s.childTid[p], 1)
            BY <4>1, <4>2, <2>2 DEF WakeJoiner
          <5>2. u1 = Wake(s0, s.childTid[p], 1)
            BY <4>1, <4>2, <3>2 DEF WakeJoiner
          <5> HIDE DEF w, u1
          <5> QED
            <6> DEFINE a == s.childTid[p]
            <6>1. a \in Addr /\ w = Wake(s, a, 1) /\ u1 = Wake(s0, a, 1)
              BY <5>1, <5>2
            <6> HIDE DEF a
            <6>2. /\ u1 \in SupervisorType
                  /\ u1.threads = T /\ u1.scheduled = S
                  /\ u1.vtid = s.vtid /\ u1.vtidNext = s.vtidNext
                  /\ u1.pendingStart = s.pendingStart /\ u1.stoppedPending = s.stoppedPending
                  /\ u1.current = s.current /\ u1.resumed = s.resumed
                  /\ u1.runnable = s.runnable \o Woken(s.waiting[a], 1)
                  /\ u1.blocked = s.blocked \ Range(Woken(s.waiting[a], 1))
                  /\ \A b \in Addr : u1.waiting[b] =
                        IF b = a THEN StillWaiting(s.waiting[a], 1) ELSE s.waiting[b]
              <7>1. WakeResult(s0, a, 1, u1)
                BY <3>2, <4>1, <6>1, WakeShape
              <7> QED
                BY <3>2, <7>1 DEF WakeResult
            <6>3. /\ w.runnable = s.runnable \o Woken(s.waiting[a], 1)
                  /\ w.blocked = s.blocked \ Range(Woken(s.waiting[a], 1))
                  /\ \A b \in Addr : w.waiting[b] =
                        IF b = a THEN StillWaiting(s.waiting[a], 1) ELSE s.waiting[b]
              <7>1. WakeResult(s, a, 1, w)
                BY <1>0, <4>1, <6>1, WakeShape
              <7> QED
                BY <7>1 DEF WakeResult
            <6>4. u1.waiting = w.waiting
              <7>1. u1.waiting \in [Addr -> Seq(Pids)] /\ w.waiting \in [Addr -> Seq(Pids)]
                BY <6>2, <1>1 DEF SupervisorType
              <7> QED
                BY <6>2, <6>3, <7>1
            <6> QED
              BY <6>2, <6>3, <6>4
        <4>3. CASE s.childTid[p] = NoAddr
          <5>1. w = s
            BY <4>3, <2>2 DEF WakeJoiner
          <5>2. u1 = s0
            BY <4>1, <4>3, <3>2 DEF WakeJoiner
          <5> QED
            BY <5>1, <5>2, <3>2
        <4> QED
          BY <4>2, <4>3
      <3> HIDE DEF w, u1
      <3>4. u2 \in SupervisorType /\ u2 = [u1 EXCEPT !.trace = u2.trace]
        <4>1. "thread_exit" \in EventNames /\ s.vtid[p] \in Int /\ 0 \in Int
          BY <1>0 DEF EventNames, SupervisorType
        <4>2. u1 = [u1 EXCEPT !.trace = u1.trace]
          BY <3>3 DEF SupervisorType
        <4> QED
          BY <3>3, <4>1, <4>2, TraceFrame
      <3> HIDE DEF u2
      <3>5. pd \in SUBSET Pids
        BY <3>4 DEF SupervisorType
      <3> HIDE DEF pd
      <3> QED
        BY <3>1, <3>3, <3>4, <3>5, ZenonT(30) DEF SupervisorType
    <2> QED
      BY <2>1, <2>2
  <1> DEFINE r2 == Retain(u.runnable, p)
             w2 == [a \in Addr |-> Retain(u.waiting[a], p)]
             b2 == u.blocked \ {p}
             g2 == [u.sigPending EXCEPT ![p] = NoSig]
             ps == u.pendingStart \ {p}
             sp == u.stoppedPending \ {p}
  <1>3. f = [u EXCEPT !.runnable = r2, !.blocked = b2, !.waiting = w2, !.sigPending = g2,
                      !.pendingStart = ps, !.stoppedPending = sp]
    <2> HIDE DEF u, w
    <2> QED
      BY DEF OnThreadExit, u
  <1> HIDE DEF u, w, f
  <1>p. /\ RunQueueOK(w) /\ ParkedOK(w) /\ NotLost(w) /\ VtidsOK(w)
        /\ w.runnable \in Seq(Pids) /\ \A a \in Addr : w.waiting[a] \in Seq(Pids)
    BY <1>1 DEF Bookkeeping, SupervisorType
  <1>r. r2 \in Seq(Pids) /\ Range(r2) = Range(w.runnable) \ {p} /\ IsInjective(r2)
    BY <1>2, <1>p, RetainQueue DEF RunQueueOK
  <1>w. /\ w2 \in [Addr -> Seq(Pids)]
        /\ \A a \in Addr : Range(w2[a]) = Range(w.waiting[a]) \ {p} /\ IsInjective(w2[a])
    <2>1. ASSUME NEW a \in Addr
          PROVE  /\ Retain(w.waiting[a], p) \in Seq(Pids)
                 /\ Range(Retain(w.waiting[a], p)) = Range(w.waiting[a]) \ {p}
                 /\ IsInjective(Retain(w.waiting[a], p))
      BY <1>p, RetainQueue DEF ParkedOK
    <2>2. \A a \in Addr : w2[a] = Retain(w.waiting[a], p)
      BY <1>2
    <2> QED
      BY <2>1, <2>2, <1>2
  <1>t. g2 \in [Pids -> Signal \cup {NoSig}] /\ b2 \in SUBSET Pids /\ ps \in SUBSET Pids /\ sp \in SUBSET Pids
    BY <1>2 DEF SupervisorType
  <1>e. b2 = w.blocked \ {p} /\ ps = s.pendingStart \ {p} /\ sp = s.stoppedPending \ {p}
    BY <1>2
  <1>l. r2 = Retain(w.runnable, p) /\ w2 = [a \in Addr |-> Retain(w.waiting[a], p)]
    BY <1>2
  <1> HIDE DEF r2, w2, b2, g2, ps, sp
  <1>4. /\ f \in SupervisorType
        /\ f.threads = T /\ f.scheduled = S
        /\ f.vtid = s.vtid /\ f.vtidNext = s.vtidNext
        /\ f.pendingStart = ps /\ f.stoppedPending = sp
        /\ f.current = s.current /\ f.resumed = s.resumed
        /\ f.runnable = r2 /\ f.blocked = b2 /\ f.waiting = w2
    BY <1>2, <1>3, <1>r, <1>w, <1>t DEF SupervisorType
  <1>5. Bookkeeping(f)
    <2>1. RunQueueOK(f)
      BY <1>p, <1>1, <1>r, <1>e, <1>4 DEF RunQueueOK
    <2>2. ParkedOK(f)
      <3>1. \A a \in Addr : Range(f.waiting[a]) \subseteq f.blocked /\ IsInjective(f.waiting[a])
        BY <1>p, <1>w, <1>e, <1>4 DEF ParkedOK
      <3>2. \A q \in f.blocked : \E a \in Addr : q \in Range(f.waiting[a])
        BY <1>p, <1>w, <1>e, <1>4 DEF ParkedOK
      <3>3. ASSUME NEW a \in Addr, NEW b \in Addr, a # b
            PROVE  Range(f.waiting[a]) \cap Range(f.waiting[b]) = {}
        <4>1. Range(w.waiting[a]) \cap Range(w.waiting[b]) = {}
          BY <1>p, <3>3 DEF ParkedOK
        <4> QED
          BY <4>1, <1>w, <1>4
      <3>4. f.blocked \subseteq f.scheduled \ (f.pendingStart \cup {f.current})
        BY <1>p, <1>1, <1>e, <1>4 DEF ParkedOK
      <3> QED
        BY <3>1, <3>2, <3>3, <3>4 DEF ParkedOK
    <2>3. NotLost(f)
      BY <1>p, <1>1, <1>r, <1>e, <1>4 DEF NotLost
    <2>4. VtidsOK(f)
      BY <1>p, <1>1, <1>4 DEF VtidsOK
    <2> QED
      BY <1>0, <1>e, <1>4, <2>1, <2>2, <2>3, <2>4 DEF Bookkeeping
  <1>6. Link(t, r, f, stk)
    <2>1. OnlyCurrentBusy(t, r, f)
      BY <1>4 DEF Inv, Link, OnlyCurrentBusy, Busy, Resuming
    <2>2. Unregistered(t, f) /\ Unborn(t, f)
      BY <1>4, <1>e DEF Inv, Link, Unregistered, Unborn, Resuming, ExecutingAt, ReportedAt
    <2>3. AttachAhead(t, r, f)
      BY <1>4, <1>e DEF Inv, Link, AttachAhead
    <2>4. CurrentKnown(t, f) /\ StackKnown(t, f, stk)
      BY <1>4 DEF Inv, Link, CurrentKnown, StackKnown, KnownOrReaped
    <2>5. ChildNew(t, r, f)
      BY <1>4 DEF Inv, Link, ChildNew
    <2> QED
      BY <2>1, <2>2, <2>3, <2>4, <2>5 DEF Link
  <1>7. Leaves(s, f, p, w)
    BY <1>4, <1>l DEF Leaves
  <1> QED
    BY <1>1, <1>4, <1>5, <1>6, <1>7 DEF Inv, f

-----------------------------------------------------------------------------
(* Syscall stops *)

\* skip_syscall, stash_clone, the PRNG and clock reads and exit_group touch none
\* of the queues; nor does the injection at a syscall exit.
LEMMA SkipInv ==
    ASSUME NEW t, NEW r, NEW s, NEW stk, NEW p \in Pids, Inv(t, r, s, stk)
    PROVE  Inv(t, r, SkipSyscall(s, p), stk) /\ SameQueues(s, SkipSyscall(s, p))
  <1> DEFINE x == s.pending \cup {p}
             s2 == [s EXCEPT !.pending = x]
  <1>0. s \in SupervisorType
    BY DEF Inv
  <1>1. SkipSyscall(s, p) = s2 /\ x \in SUBSET Pids
    BY <1>0 DEF SkipSyscall, SupervisorType
  <1> HIDE DEF x
  <1>2. s2 \in SupervisorType /\ SameQueues(s, s2)
    BY <1>0, <1>1 DEF SupervisorType, SameQueues
  <1> HIDE DEF s2
  <1> QED
    BY <1>1, <1>2, SameInv

\* The trace of a replaced syscall.
LEMMA ReplacedInv ==
    ASSUME NEW t, NEW r, NEW s, NEW stk, NEW p \in Pids, Inv(t, r, s, stk),
           NEW e \in EventNames, NEW a \in Int, NEW b \in Int
    PROVE  /\ Inv(t, r, TraceJson(SkipSyscall(s, p), e, a, b), stk)
           /\ SameQueues(s, TraceJson(SkipSyscall(s, p), e, a, b))
  <1>1. Inv(t, r, SkipSyscall(s, p), stk) /\ SameQueues(s, SkipSyscall(s, p))
    BY SkipInv
  <1>2. /\ Inv(t, r, TraceJson(SkipSyscall(s, p), e, a, b), stk)
        /\ SameQueues(SkipSyscall(s, p), TraceJson(SkipSyscall(s, p), e, a, b))
    BY <1>1, TraceInv
  <1> QED
    BY <1>1, <1>2 DEF SameQueues

\* The numbers the PRNG and the virtual clock give out.
LEMMA CounterInv ==
    ASSUME NEW t, NEW r, NEW s, NEW stk, Inv(t, r, s, stk), NEW n \in Nat
    PROVE  /\ Inv(t, r, [s EXCEPT !.rng = n], stk) /\ SameQueues(s, [s EXCEPT !.rng = n])
           /\ Inv(t, r, [s EXCEPT !.tick = n], stk) /\ SameQueues(s, [s EXCEPT !.tick = n])
  <1> DEFINE s2 == [s EXCEPT !.rng = n]
             s3 == [s EXCEPT !.tick = n]
  <1>0. s \in SupervisorType
    BY DEF Inv
  <1>1. s2 \in SupervisorType /\ SameQueues(s, s2)
    BY <1>0 DEF SupervisorType, SameQueues
  <1>2. s3 \in SupervisorType /\ SameQueues(s, s3)
    BY <1>0 DEF SupervisorType, SameQueues
  <1> HIDE DEF s2, s3
  <1>3. Inv(t, r, s2, stk) /\ Inv(t, r, s3, stk)
    BY <1>1, <1>2, SameInv
  <1> QED
    BY <1>1, <1>2, <1>3 DEF s2, s3

\* The interceptions of getrandom, clock_gettime and gettimeofday keep Inv.
LEMMA ClockInv ==
    ASSUME NEW t, NEW r, NEW s, NEW stk, NEW p \in Pids, Inv(t, r, s, stk), NEW m \in BOOLEAN
    PROVE  /\ Inv(t, r, InterceptGetrandom(s, p), stk)
           /\ SameQueues(s, InterceptGetrandom(s, p))
           /\ Inv(t, r, InterceptClockGettime(s, p, m), stk)
           /\ SameQueues(s, InterceptClockGettime(s, p, m))
           /\ Inv(t, r, InterceptGettimeofday(s, p), stk)
           /\ SameQueues(s, InterceptGettimeofday(s, p))
  <1>0. /\ s.rng \in Nat /\ s.tick \in Nat /\ s.rng + 1 \in Nat /\ s.tick + 1 \in Nat
        /\ s.rng \in Int /\ s.tick \in Int /\ 0 \in Int /\ 1 \in Int
        /\ {"getrandom", "clock_gettime", "gettimeofday"} \subseteq EventNames
    BY DEF Inv, SupervisorType, EventNames, SyscallNames
  <1>1. Inv(t, r, InterceptGetrandom(s, p), stk) /\ SameQueues(s, InterceptGetrandom(s, p))
    <2> DEFINE s1 == [s EXCEPT !.rng = s.rng + 1]
    <2>1. Inv(t, r, s1, stk) /\ SameQueues(s, s1)
      BY <1>0, CounterInv
    <2>2. InterceptGetrandom(s, p) = TraceJson(SkipSyscall(s1, p), "getrandom", s.rng, 0)
      BY DEF InterceptGetrandom
    <2> HIDE DEF s1
    <2>3. /\ Inv(t, r, TraceJson(SkipSyscall(s1, p), "getrandom", s.rng, 0), stk)
          /\ SameQueues(s1, TraceJson(SkipSyscall(s1, p), "getrandom", s.rng, 0))
      BY <1>0, <2>1, ReplacedInv
    <2> QED
      BY <2>1, <2>2, <2>3 DEF SameQueues
  <1>2. Inv(t, r, InterceptClockGettime(s, p, m), stk) /\ SameQueues(s, InterceptClockGettime(s, p, m))
    <2> DEFINE tk == IF m THEN s.tick + 1 ELSE s.tick
               s1 == [s EXCEPT !.tick = tk]
               x == IF m THEN s.tick ELSE 0
               y == IF m THEN 1 ELSE 0
    <2>0. tk \in Nat /\ x \in Int /\ y \in Int
      BY <1>0
    <2>1. InterceptClockGettime(s, p, m) = TraceJson(SkipSyscall(s1, p), "clock_gettime", x, y)
      BY DEF InterceptClockGettime
    <2> HIDE DEF tk, x, y
    <2>2. Inv(t, r, s1, stk) /\ SameQueues(s, s1)
      BY <2>0, CounterInv
    <2> HIDE DEF s1
    <2>3. /\ Inv(t, r, TraceJson(SkipSyscall(s1, p), "clock_gettime", x, y), stk)
          /\ SameQueues(s1, TraceJson(SkipSyscall(s1, p), "clock_gettime", x, y))
      BY <1>0, <2>0, <2>2, ReplacedInv
    <2> QED
      BY <2>1, <2>2, <2>3 DEF SameQueues
  <1>3. Inv(t, r, InterceptGettimeofday(s, p), stk) /\ SameQueues(s, InterceptGettimeofday(s, p))
    BY <1>0, ReplacedInv DEF InterceptGettimeofday
  <1> QED
    BY <1>1, <1>2, <1>3

\* The trace line of a futex call.
LEMMA TraceFutexInv ==
    ASSUME NEW t, NEW r, NEW s, NEW stk, NEW p \in Pids, Inv(t, r, s, stk),
           NEW e \in SyscallNames, NEW k \in {Pass, Inject, Wait, Woke}
    PROVE  /\ Inv(t, r, TraceFutex(s, p, e, k), stk) /\ SameQueues(s, TraceFutex(s, p, e, k))
           /\ Inv(t, r, TraceSyscall(s, e, k), stk) /\ SameQueues(s, TraceSyscall(s, e, k))
  <1>1. e \in EventNames /\ k \in Int /\ s.vtid[p] \in Int /\ 0 \in Int
    BY DEF EventNames, Pass, Inject, Wait, Woke, Inv, SupervisorType
  <1>2. Inv(t, r, TraceFutex(s, p, e, k), stk) /\ SameQueues(s, TraceFutex(s, p, e, k))
    BY <1>1, TraceInv DEF TraceFutex
  <1>3. Inv(t, r, TraceSyscall(s, e, k), stk) /\ SameQueues(s, TraceSyscall(s, e, k))
    BY <1>1, TraceInv DEF TraceSyscall
  <1> QED
    BY <1>2, <1>3

\* The types of the arguments of a syscall.
LEMMA OpFields ==
    ASSUME NEW op \in Op
    PROVE  /\ op.name \in SyscallNames /\ op.addr \in Addr \cup {NoAddr}
           /\ op.n \in Nat /\ op.n2 \in Nat /\ op.entry \in Labels
           /\ op.name \in FutexOps => op.addr \in Addr
  BY DEF Op

\* A simulated wake or requeue keeps Inv.
LEMMA FutexWakeInv ==
    ASSUME NEW t, NEW r, NEW s, NEW stk, NEW p \in Pids, NEW op \in Op, Inv(t, r, s, stk),
           op.name \in FutexOps
    PROVE  Inv(t, r, FutexWake(s, p, op), stk)
  <1> DEFINE s1 == Wake(s, op.addr, op.n)
             s2 == IF op.name = "wake" THEN s1 ELSE Wake(s1, op.addr, op.n2)
  <1>0. op.addr \in Addr /\ op.n \in Nat /\ op.n2 \in Nat /\ op.name \in SyscallNames
    BY OpFields
  <1>1. Inv(t, r, s1, stk)
    BY <1>0, WakeInv
  <1> HIDE DEF s1
  <1>2. Inv(t, r, s2, stk)
    BY <1>0, <1>1, WakeInv
  <1> HIDE DEF s2
  <1>3. Inv(t, r, SkipSyscall(s2, p), stk)
    BY <1>2, SkipInv
  <1>4. Inv(t, r, TraceFutex(SkipSyscall(s2, p), p, op.name, Woke), stk)
    BY <1>0, <1>3, TraceFutexInv
  <1> QED
    BY <1>4 DEF FutexWake, s1, s2

\* stash_clone keeps Inv.
LEMMA StashInv ==
    ASSUME NEW t, NEW r, NEW s, NEW stk, NEW p \in Pids, NEW op \in Op, Inv(t, r, s, stk)
    PROVE  Inv(t, r, StashClone(s, p, op), stk) /\ SameQueues(s, StashClone(s, p, op))
  <1> DEFINE ci == [thread |-> op.name = "clone", childTid |-> op.addr]
             c2 == [s.clonePending EXCEPT ![p] = ci]
             s2 == [s EXCEPT !.clonePending = c2]
  <1>0. s \in SupervisorType
    BY DEF Inv
  <1>1. ci \in CloneInfo
    BY OpFields DEF CloneInfo
  <1>2. StashClone(s, p, op) = s2
    BY <1>0 DEF StashClone, SupervisorType
  <1> HIDE DEF ci
  <1>3. c2 \in [Pids -> CloneInfo]
    BY <1>0, <1>1 DEF SupervisorType
  <1> HIDE DEF c2
  <1>4. s2 \in SupervisorType /\ SameQueues(s, s2)
    BY <1>0, <1>3 DEF SupervisorType, SameQueues
  <1> HIDE DEF s2
  <1> QED
    BY <1>2, <1>4, SameInv

\* on_syscall_entry, when it does not park the thread.
LEMMA EntryInv ==
    ASSUME NEW t, NEW r, NEW s, NEW stk, NEW p \in Pids, NEW op \in Op, NEW word,
           Inv(t, r, s, stk), ~Parks(s, p, op, word)
    PROVE  /\ Inv(t, r, OnSyscallEntry(s, p, op, word), stk)
           /\ \/ SameQueues(s, OnSyscallEntry(s, p, op, word))
              \/ op.name \in FutexOps /\ OnSyscallEntry(s, p, op, word) = FutexWake(s, p, op)
  <1>0. op.name \in SyscallNames
    BY OpFields
  <1>1. CASE op.name = "getrandom"
    <2>1. OnSyscallEntry(s, p, op, word) = InterceptGetrandom(s, p)
      BY <1>1 DEF OnSyscallEntry, FutexOps, PassedOps
    <2> QED
      BY <2>1, ClockInv
  <1>2. CASE op.name \in {"clock_mono", "clock_real"}
    <2>1. \/ OnSyscallEntry(s, p, op, word) = InterceptClockGettime(s, p, TRUE)
          \/ OnSyscallEntry(s, p, op, word) = InterceptClockGettime(s, p, FALSE)
      BY <1>2 DEF OnSyscallEntry, FutexOps, PassedOps
    <2>2. /\ Inv(t, r, InterceptClockGettime(s, p, TRUE), stk)
          /\ Inv(t, r, InterceptClockGettime(s, p, FALSE), stk)
          /\ SameQueues(s, InterceptClockGettime(s, p, TRUE))
          /\ SameQueues(s, InterceptClockGettime(s, p, FALSE))
      BY ClockInv
    <2> QED
      BY <2>1, <2>2
  <1>3. CASE op.name = "gettimeofday"
    <2>1. OnSyscallEntry(s, p, op, word) = InterceptGettimeofday(s, p)
      BY <1>3 DEF OnSyscallEntry, FutexOps, PassedOps
    <2> QED
      BY <2>1, ClockInv
  <1>4. CASE op.name \in FutexOps
    <2>1. OnSyscallEntry(s, p, op, word) = InterceptFutex(s, p, op, word)
      BY <1>4 DEF OnSyscallEntry, FutexOps, PassedOps
    <2>2. \/ InterceptFutex(s, p, op, word) = FutexWake(s, p, op)
          \/ InterceptFutex(s, p, op, word) = TraceFutex(s, p, op.name, Pass)
      BY DEF InterceptFutex
    <2> QED
      BY <2>1, <2>2, <1>0, <1>4, FutexWakeInv, TraceFutexInv
  <1>5. CASE op.name = "exit_group"
    <2> DEFINE s2 == [s EXCEPT !.groupExiting = TRUE]
    <2>1. OnSyscallEntry(s, p, op, word) = TraceSyscall(s2, op.name, Pass)
      BY <1>5 DEF OnSyscallEntry, FutexOps, PassedOps
    <2>2. s2 \in SupervisorType /\ SameQueues(s, s2)
      BY DEF Inv, SupervisorType, SameQueues
    <2> HIDE DEF s2
    <2>3. Inv(t, r, s2, stk)
      BY <2>2, SameInv
    <2>4. /\ Inv(t, r, TraceSyscall(s2, op.name, Pass), stk)
          /\ SameQueues(s2, TraceSyscall(s2, op.name, Pass))
      BY <2>3, <1>0, TraceFutexInv
    <2>5. SameQueues(s, TraceSyscall(s2, op.name, Pass))
      BY <2>2, <2>4 DEF SameQueues
    <2> QED
      BY <2>1, <2>4, <2>5
  <1>6. CASE op.name \in {"clone", "fork"}
    <2>1. OnSyscallEntry(s, p, op, word) = TraceSyscall(StashClone(s, p, op), op.name, Pass)
      BY <1>6 DEF OnSyscallEntry, FutexOps, PassedOps
    <2> DEFINE s2 == StashClone(s, p, op)
    <2>2. Inv(t, r, s2, stk) /\ SameQueues(s, s2)
      BY StashInv
    <2> HIDE DEF s2
    <2>3. /\ Inv(t, r, TraceSyscall(s2, op.name, Pass), stk)
          /\ SameQueues(s2, TraceSyscall(s2, op.name, Pass))
      BY <2>2, <1>0, TraceFutexInv
    <2> QED
      BY <2>1, <2>2, <2>3 DEF SameQueues, s2
  <1>7. CASE op.name \notin FutexOps \cup {"getrandom", "clock_mono", "clock_real", "gettimeofday",
                                          "exit_group", "clone", "fork"}
    <2>1. OnSyscallEntry(s, p, op, word) = TraceSyscall(s, op.name, Pass)
      BY <1>7 DEF OnSyscallEntry
    <2> QED
      BY <2>1, <1>0, TraceFutexInv
  <1> QED
    BY <1>1, <1>2, <1>3, <1>4, <1>5, <1>6, <1>7

\* on_syscall_entry, when it parks the current thread.
LEMMA EntryParkInv ==
    ASSUME NEW t, NEW r, NEW s, NEW stk, NEW p \in Pids, NEW op \in Op, NEW word,
           Inv(t, r, s, stk), Parks(s, p, op, word), s.current = p, ~Busy(t, r, s, p)
    PROVE  /\ Inv(t, r, [OnSyscallEntry(s, p, op, word) EXCEPT !.current = NoPid], stk)
           /\ ParksOn(s, [OnSyscallEntry(s, p, op, word) EXCEPT !.current = NoPid], p, op.addr)
  <1> DEFINE k == SkipSyscall(s, p)
             b == Block(k, p, op.addr)
             e == OnSyscallEntry(s, p, op, word)
             f == [b EXCEPT !.current = NoPid]
             g == [e EXCEPT !.current = NoPid]
  <1>0. op.name \in SyscallNames /\ op.name \in FutexOps /\ op.addr \in Addr /\ p \in s.scheduled
    BY OpFields DEF Parks, FutexOps, PassedOps, Simulated, IsScheduled
  <1>1. e = TraceFutex(b, p, op.name, Wait)
    <2>1. e = InterceptFutex(s, p, op, word)
      BY <1>0 DEF OnSyscallEntry, FutexOps, PassedOps
    <2> QED
      BY <2>1 DEF InterceptFutex
  <1>2. Inv(t, r, k, stk) /\ SameQueues(s, k)
    BY SkipInv
  <1>3. k.current = p /\ p \in k.scheduled /\ ~Busy(t, r, k, p)
    BY <1>0, <1>2 DEF SameQueues, Busy, Resuming
  <1> HIDE DEF k
  <1>4. Inv(t, r, f, stk)
    BY <1>0, <1>2, <1>3, ParkInv
  <1>5. /\ b \in SupervisorType
        /\ b.scheduled = k.scheduled /\ b.runnable = k.runnable /\ b.blocked = k.blocked \cup {p}
        /\ b.waiting = [k.waiting EXCEPT ![op.addr] = Append(k.waiting[op.addr], p)]
    <2>1. k \in SupervisorType
      BY <1>2 DEF Inv
    <2> DEFINE w2 == [k.waiting EXCEPT ![op.addr] = Append(k.waiting[op.addr], p)]
               b2 == k.blocked \cup {p}
    <2>2. b = [k EXCEPT !.waiting = w2, !.blocked = b2]
      BY <2>1 DEF Block, SupervisorType
    <2>3. w2 \in [Addr -> Seq(Pids)] /\ b2 \in SUBSET Pids
      BY <2>1, <1>0 DEF SupervisorType
    <2> HIDE DEF w2, b2, b
    <2>4. /\ b \in SupervisorType
          /\ b.scheduled = k.scheduled /\ b.runnable = k.runnable /\ b.blocked = b2
          /\ b.waiting = w2
      BY <2>1, <2>2, <2>3 DEF SupervisorType
    <2> QED
      BY <2>4 DEF w2, b2
  <1> HIDE DEF b
  <1>6. e \in SupervisorType /\ e = [b EXCEPT !.trace = e.trace]
    <2>1. op.name \in EventNames /\ Wait \in Int /\ b.vtid[p] \in Int
      BY <1>0, <1>5 DEF EventNames, Wait, SupervisorType
    <2>2. e = TraceJson(b, op.name, Wait, b.vtid[p])
      BY <1>1 DEF TraceFutex
    <2> HIDE DEF e
    <2> QED
      BY <1>5, <2>1, <2>2, TraceFrame
  <1> HIDE DEF e
  <1>7. g \in SupervisorType /\ SameQueues(f, g)
    BY <1>5, <1>6 DEF SupervisorType, SameQueues
  <1>9. ParksOn(s, g, p, op.addr)
    <2>1. /\ g.current = NoPid /\ g.scheduled = b.scheduled /\ g.runnable = b.runnable
          /\ g.blocked = b.blocked /\ g.waiting = b.waiting
      BY <1>5, <1>6 DEF SupervisorType
    <2> QED
      BY <2>1, <1>2, <1>5 DEF ParksOn, SameQueues
  <1> HIDE DEF f, g
  <1>8. Inv(t, r, g, stk)
    BY <1>4, <1>7, SameInv
  <1> QED
    BY <1>8, <1>9 DEF g, e

\* Who may have a result held for syscall op of p.
Replaced(op, p) == IF op.name \in Injected THEN {p} ELSE {}

\* on_syscall_entry resumes nobody, and holds a result only for a syscall it replaces.
LEMMA EntryAsks ==
    ASSUME NEW s, NEW p, NEW op, NEW word
    PROVE  /\ Asks(s, OnSyscallEntry(s, p, op, word), {}, Replaced(op, p))
           /\ OnSyscallEntry(s, p, op, word).scheduled = s.scheduled
           /\ OnSyscallEntry(s, p, op, word).current = s.current
  <1> DEFINE Y == Replaced(op, p)
             Served(u) == /\ u.resumed = s.resumed /\ u.pending \subseteq s.pending \cup Y
                          /\ u.scheduled = s.scheduled /\ u.current = s.current
             e == OnSyscallEntry(s, p, op, word)
  <1>0. SUFFICES Served(e)
    BY DEF Asks, Resuming
  <1>1. ASSUME NEW u, NEW x, NEW a, NEW b, Served(u) PROVE Served(TraceJson(u, x, a, b))
    BY <1>1 DEF TraceJson
  <1>2. ASSUME NEW u, NEW a, NEW n, Served(u) PROVE Served(Wake(u, a, n))
    BY <1>2 DEF Wake
  <1>3. ASSUME NEW u, Served(u), op.name \in Injected PROVE Served(SkipSyscall(u, p))
    BY <1>3 DEF SkipSyscall, Replaced
  <1>4. Served(s)
    OBVIOUS
  <1>5. /\ Served([s EXCEPT !.rng = @ + 1])
        /\ \A m : Served([s EXCEPT !.tick = IF m THEN @ + 1 ELSE @])
        /\ Served([s EXCEPT !.groupExiting = TRUE]) /\ Served(StashClone(s, p, op))
    BY DEF StashClone
  <1>6. ASSUME NEW u, NEW a, Served(u) PROVE Served(Block(u, p, a))
    BY <1>6 DEF Block
  <1> HIDE DEF Served
  <1>7. CASE op.name \in {"getrandom", "clock_mono", "clock_real", "gettimeofday"}
    <2>1. op.name \in Injected
      BY <1>7 DEF Injected
    <2>2. \/ e = InterceptGetrandom(s, p) \/ e = InterceptGettimeofday(s, p)
          \/ e = InterceptClockGettime(s, p, TRUE) \/ e = InterceptClockGettime(s, p, FALSE)
      BY <1>7 DEF OnSyscallEntry, FutexOps, PassedOps
    <2>3. Served(InterceptGetrandom(s, p)) /\ Served(InterceptGettimeofday(s, p))
      BY <2>1, <1>1, <1>3, <1>4, <1>5 DEF InterceptGetrandom, InterceptGettimeofday
    <2>4. Served(InterceptClockGettime(s, p, TRUE)) /\ Served(InterceptClockGettime(s, p, FALSE))
      BY <2>1, <1>1, <1>3, <1>5 DEF InterceptClockGettime
    <2> HIDE DEF e
    <2> QED
      BY <2>2, <2>3, <2>4, Zenon
  <1>a. CASE op.name \in PassedOps
    <2>1. e = InterceptFutex(s, p, op, word)
      BY <1>a DEF OnSyscallEntry, FutexOps, PassedOps
    <2>2. InterceptFutex(s, p, op, word) = TraceFutex(s, p, op.name, Pass)
      BY <1>a DEF InterceptFutex, Parks, PassedOps
    <2> QED
      BY <2>1, <2>2, <1>1, <1>4 DEF TraceFutex
  <1>8. CASE op.name \in FutexOps \ PassedOps
    <2>1. op.name \in Injected /\ e = InterceptFutex(s, p, op, word)
      BY <1>8 DEF Injected, OnSyscallEntry, FutexOps, PassedOps
    <2>2. Served(FutexWake(s, p, op))
      <3> DEFINE s1 == Wake(s, op.addr, op.n)
                 s2 == IF op.name = "wake" THEN s1 ELSE Wake(s1, op.addr, op.n2)
      <3>1. Served(s2)
        BY <1>2, <1>4
      <3> HIDE DEF s2
      <3>2. Served(TraceFutex(SkipSyscall(s2, p), p, op.name, Woke))
        BY <2>1, <3>1, <1>1, <1>3 DEF TraceFutex
      <3> QED
        BY <3>2 DEF FutexWake, s2
    <2>3. Served(TraceFutex(Block(SkipSyscall(s, p), p, op.addr), p, op.name, Wait))
      <3>1. Served(SkipSyscall(s, p))
        BY <2>1, <1>3, <1>4
      <3>2. Served(Block(SkipSyscall(s, p), p, op.addr))
        BY <3>1, <1>6
      <3> QED
        BY <3>2, <1>1 DEF TraceFutex
    <2>4. Served(TraceFutex(s, p, op.name, Pass))
      BY <1>1, <1>4 DEF TraceFutex
    <2> QED
      BY <2>1, <2>2, <2>3, <2>4 DEF InterceptFutex
  <1>9. CASE op.name \notin FutexOps \cup {"getrandom", "clock_mono", "clock_real", "gettimeofday"}
    <2>1. \/ e = TraceSyscall([s EXCEPT !.groupExiting = TRUE], op.name, Pass)
          \/ e = TraceSyscall(StashClone(s, p, op), op.name, Pass)
          \/ e = TraceSyscall(s, op.name, Pass)
      BY <1>9 DEF OnSyscallEntry
    <2> QED
      BY <2>1, <1>1, <1>4, <1>5 DEF TraceSyscall
  <1> QED
    BY <1>7, <1>8, <1>9, <1>a

\* on_syscall_exit resumes nobody, and p's result has been used.
LEMMA ExitAsks ==
    ASSUME NEW s, NEW p, NEW op
    PROVE  /\ Asks(s, OnSyscallExit(s, p, op), {}, {})
           /\ p \notin OnSyscallExit(s, p, op).pending
  <1>1. /\ OnSyscallExit(s, p, op).resumed = s.resumed
        /\ OnSyscallExit(s, p, op).pending = s.pending \ {p}
    BY DEF OnSyscallExit, TraceSyscall, TraceJson
  <1> QED
    BY <1>1 DEF Asks, Resuming

\* on_syscall_exit.
LEMMA ExitInv ==
    ASSUME NEW t, NEW r, NEW s, NEW stk, NEW p \in Pids, NEW op \in Op, Inv(t, r, s, stk)
    PROVE  /\ Inv(t, r, OnSyscallExit(s, p, op), stk)
           /\ SameQueues(s, OnSyscallExit(s, p, op))
  <1> DEFINE x == s.pending \ {p}
             s2 == [s EXCEPT !.pending = x]
  <1>0. s \in SupervisorType /\ op.name \in SyscallNames
    BY OpFields DEF Inv
  <1>1. \/ OnSyscallExit(s, p, op) = s
        \/ OnSyscallExit(s, p, op) = TraceSyscall(s2, op.name, Inject)
    BY DEF OnSyscallExit
  <1>2. x \in SUBSET Pids
    BY <1>0 DEF SupervisorType
  <1> HIDE DEF x
  <1>3. s2 \in SupervisorType /\ SameQueues(s, s2)
    BY <1>0, <1>2 DEF SupervisorType, SameQueues
  <1> HIDE DEF s2
  <1>4. Inv(t, r, s2, stk)
    BY <1>3, SameInv
  <1>5. Inv(t, r, TraceSyscall(s2, op.name, Inject), stk) /\ SameQueues(s2, TraceSyscall(s2, op.name, Inject))
    BY <1>0, <1>4, TraceFutexInv
  <1> QED
    BY <1>1, <1>3, <1>5 DEF SameQueues

-----------------------------------------------------------------------------
(* Steps of the tasks *)

\* What a step of the kernel other than a clone does to each task: it stays where
\* it is, goes on executing or stops, raises its attach stop, or is on its way out.
QuietTask(t, r, t2, r2, q) ==
    /\ t2[q].child = t[q].child
    /\ t2[q].at = "unborn" <=> t[q].at = "unborn"
    /\ t[q].at = "reaped" => t2[q].at = "reaped"
    /\ \/ t2[q].at = t[q].at /\ (q \in r2 => q \in r)
       \/ t[q].at \in ExecutingAt /\ t2[q].at \in ExecutingAt \cup (ReportedAt \ {"clonestop"})
       \/ t[q].at = "born" /\ t2[q].at = "attach"
       \/ t2[q].at \in {"dying", "exitstop", "final", "gone", "reaped"}

\* A kernel step that moves tasks in ways the bookkeeping does not notice keeps Inv.
LEMMA QuietInv ==
    ASSUME NEW t, NEW r, NEW s, NEW stk, Inv(t, r, s, stk), s.resumed = {},
           NEW t2 \in [Pids -> Task], NEW r2 \in SUBSET Pids,
           \A q \in Pids : QuietTask(t, r, t2, r2, q)
    PROVE  Inv(t2, r2, s, stk)
  <1>0. /\ s.scheduled \subseteq Pids /\ s.threads \subseteq Pids /\ Resuming(s) = {}
        /\ s \in SupervisorType
    BY DEF Inv, SupervisorType, Resuming
  <1>l. /\ OnlyCurrentBusy(t, r, s) /\ Unregistered(t, s) /\ Unborn(t, s) /\ AttachAhead(t, r, s)
        /\ CurrentKnown(t, s) /\ StackKnown(t, s, stk) /\ ChildNew(t, r, s)
    BY DEF Inv, Link
  <1>1. OnlyCurrentBusy(t2, r2, s)
    <2> SUFFICES ASSUME NEW q \in s.scheduled, Busy(t2, r2, s, q) PROVE Busy(t, r, s, q)
      BY <1>l DEF OnlyCurrentBusy
    <2> QED
      BY <1>0 DEF QuietTask, Busy, ExecutingAt, ReportedAt
  <1>2. Unregistered(t2, s)
    <2> SUFFICES ASSUME NEW q \in Pids \ s.threads PROVE t2[q].at \notin ExecutingAt \cup ReportedAt
      BY <1>0 DEF Unregistered
    <2>1. t[q].at \notin ExecutingAt \cup ReportedAt /\ QuietTask(t, r, t2, r2, q)
      BY <1>l DEF Unregistered
    <2> QED
      BY <2>1 DEF QuietTask, ExecutingAt, ReportedAt
  <1>3. Unborn(t2, s)
    BY <1>l DEF QuietTask, Unborn
  <1>4. AttachAhead(t2, r2, s)
    <2> SUFFICES ASSUME NEW q \in Pids, t2[q].at = "born" \/ (q \in r2 /\ t2[q].at = "attach")
                 PROVE  t[q].at = "born" \/ (q \in r /\ t[q].at = "attach")
      BY <1>l DEF AttachAhead
    <2> QED
      BY DEF QuietTask, ExecutingAt, ReportedAt
  <1>5. CurrentKnown(t2, s)
    BY <1>0, <1>l DEF CurrentKnown, KnownOrReaped, QuietTask
  <1>6. StackKnown(t2, s, stk)
    <2> SUFFICES ASSUME NEW i \in DOMAIN stk
                 PROVE  KnownOrReaped(t2, s, stk[i][1]) /\ KnownOrReaped(t2, s, stk[i][2])
      BY DEF StackKnown
    <2>1. stk[i][1] \in Pids /\ stk[i][2] \in Pids
      <3>1. stk[i] \in Pids \X Pids
        BY DEF Inv
      <3> QED
        BY <3>1
    <2> QED
      BY <1>l, <2>1 DEF StackKnown, KnownOrReaped, QuietTask
  <1>7. ChildNew(t2, r2, s)
    <2>1. \A q \in Pids : CloneStopped(t2, r2, q) => CloneStopped(t, r, q) /\ t2[q].child = t[q].child
      BY DEF CloneStopped, QuietTask, ExecutingAt, ReportedAt
    <2>2. \A q \in Pids : t[q].child \in Pids
      BY DEF Inv, Task
    <2> SUFFICES ASSUME NEW q \in Pids, CloneStopped(t2, r2, q)
                 PROVE  /\ t2[q].child \notin s.threads
                        /\ t2[q].child # s.current
                        /\ t2[t2[q].child].at # "unborn"
                        /\ \A u \in Pids : CloneStopped(t2, r2, u) /\ t2[u].child = t2[q].child => u = q
      BY DEF ChildNew
    <2>3. /\ t[q].child \notin s.threads /\ t[q].child # s.current
          /\ t[t[q].child].at # "unborn"
          /\ \A u \in Pids : CloneStopped(t, r, u) /\ t[u].child = t[q].child => u = q
      BY <1>l, <2>1 DEF ChildNew
    <2> QED
      BY <2>1, <2>2, <2>3 DEF QuietTask
  <1> QED
    BY <1>0, <1>1, <1>2, <1>3, <1>4, <1>5, <1>6, <1>7 DEF Inv, Link

\* What the ptrace requests do to each task.
RequestedTask(t, s, t2, q) ==
    /\ t2[q].child = t[q].child
    /\ t2[q].at = "unborn" <=> t[q].at = "unborn"
    /\ t[q].at = "reaped" => t2[q].at = "reaped"
    /\ t[q].at = "gone" => t2[q].at = "gone"
    /\ t2[q].op = t[q].op \/ (q \in Resuming(s) /\ t[q].at = "exitcall")
    /\ \/ t2[q].at = "dying"
       \/ q \in Resuming(s) /\ t[q].at \in Stops /\ t2[q].at = NextAt(t[q].at)
       \/ q \notin Resuming(s) /\ t2[q].at = t[q].at

\* The types of the fields of a task.
LEMMA TaskFields ==
    ASSUME NEW x \in Task
    PROVE  /\ x.at \in Where /\ x.child \in Pids /\ x.tgid \in Pids /\ x.op \in Op
           /\ x.label \in Labels /\ x.sig \in (Signals \ {"kill"}) \cup {NoSig} /\ x.fatal \in BOOLEAN
           /\ x.ctid \in Addr \cup {NoAddr}
           /\ x.sig \in Signal \cup {NoSig}
  BY SignalsAssumption DEF Task

\* The placeholder for "no syscall" is a syscall.
LEMMA NoOpType == NoOp \in Op
  <1>1. Start \in Labels /\ NoAddr \in Addr \cup {NoAddr} /\ "sys" \in SyscallNames /\ 0 \in Nat
    BY CodeAssumption DEF SyscallNames
  <1>2. "sys" \notin FutexOps
    BY DEF FutexOps, PassedOps
  <1> QED
    BY <1>1, <1>2 DEF NoOp, Op

\* t2 is t with the killable tasks of S killed.
DoomResult(t, S, t2) ==
    /\ t2 \in [Pids -> Task]
    /\ \A q \in Pids :
          /\ t2[q].child = t[q].child /\ t2[q].op = t[q].op
          /\ \/ t2[q].at = t[q].at /\ q \notin Doomed(t, S)
             \/ /\ t2[q].at = "dying" /\ q \in Doomed(t, S)
                /\ t[q].at \notin {"unborn", "gone", "reaped", "dying", "exitstop", "final"}

\* Killing tasks keeps the type of the tasks.
LEMMA DoomType ==
    ASSUME NEW t \in [Pids -> Task], NEW S, NEW b \in BOOLEAN
    PROVE  DoomResult(t, S, Doom(t, S, b))
  <1> DEFINE D == Doom(t, S, b)
  <1>1. \A q \in Pids : D[q] = IF q \in Doomed(t, S) THEN [t[q] EXCEPT !.at = "dying", !.fatal = b] ELSE t[q]
    BY DEF Doom
  <1>2. ASSUME NEW x \in Task
        PROVE  /\ [x EXCEPT !.at = "dying", !.fatal = b] \in Task
               /\ [x EXCEPT !.at = "dying", !.fatal = b].child = x.child
               /\ [x EXCEPT !.at = "dying", !.fatal = b].op = x.op
               /\ [x EXCEPT !.at = "dying", !.fatal = b].at = "dying"
    <2>1. "dying" \in Where
      BY DEF Where, Running
    <2> QED
      BY <1>2, <2>1 DEF Task
  <1>3. D \in [Pids -> Task]
    <2>1. \A q \in Pids : [t[q] EXCEPT !.at = "dying", !.fatal = b] \in Task
      BY <1>2
    <2>2. \A q \in Pids : D[q] \in Task
      BY <1>1, <2>1
    <2>3. D = [q \in Pids |-> D[q]]
      BY DEF Doom
    <2> HIDE DEF D
    <2> QED
      BY <2>2, <2>3
  <1>4. \A q \in Doomed(t, S) : t[q].at \notin {"unborn", "gone", "reaped", "dying", "exitstop", "final"}
    BY DEF Doomed, Killable, Running, Stops
  <1>5. ASSUME NEW q \in Pids
        PROVE  /\ D[q].child = t[q].child /\ D[q].op = t[q].op
               /\ \/ D[q].at = t[q].at /\ q \notin Doomed(t, S)
                  \/ /\ D[q].at = "dying" /\ q \in Doomed(t, S)
                     /\ t[q].at \notin {"unborn", "gone", "reaped", "dying", "exitstop", "final"}
    <2> HIDE DEF D
    <2>1. CASE q \in Doomed(t, S)
      <3>1. D[q] = [t[q] EXCEPT !.at = "dying", !.fatal = b] /\ t[q] \in Task
        BY <1>1, <2>1
      <3>2. D[q].child = t[q].child /\ D[q].op = t[q].op /\ D[q].at = "dying"
        BY <3>1 DEF Task
      <3> QED
        BY <3>2, <1>4, <2>1
    <2>2. CASE q \notin Doomed(t, S)
      BY <1>1, <2>2
    <2> QED
      BY <2>1, <2>2
  <1> QED
    BY <1>3, <1>5 DEF DoomResult

\* Where a request leaves a task: NextAt of its stop, or dying.
LEMMA RequestedShape ==
    ASSUME NEW t \in [Pids -> Task], NEW s \in SupervisorType, ~PtraceFails(t, s)
    PROVE  /\ Resumed(t, s) \in [Pids -> Task]
           /\ \A q \in Pids : RequestedTask(t, s, Resumed(t, s), q)
  <1> DEFINE moved == [q \in Pids |->
                         IF \E x \in s.resumed : x[1] = q
                         THEN [t[q] EXCEPT !.at = NextAt(@), !.sig = NoSig,
                                           !.op = IF t[q].at = "exitcall" THEN NoOp ELSE @]
                         ELSE t[q]]
             killed == {q \in Pids : \E x \in s.resumed : x[2] = "fatal" /\ t[q].tgid = t[x[1]].tgid
                                                          /\ t[q].at # "unborn"}
  <1>1. Resumed(t, s) = Doom(moved, killed, TRUE)
    BY DEF Resumed
  <1>2. ASSUME NEW q \in Pids
        PROVE  /\ moved[q] \in Task /\ moved[q].child = t[q].child
               /\ moved[q].op = t[q].op \/ (q \in Resuming(s) /\ t[q].at = "exitcall")
               /\ \/ q \in Resuming(s) /\ t[q].at \in Stops /\ moved[q].at = NextAt(t[q].at)
                  \/ q \notin Resuming(s) /\ moved[q].at = t[q].at
    <2>0. q \in Resuming(s) <=> \E x \in s.resumed : x[1] = q
      BY DEF Resuming
    <2>1. CASE q \in Resuming(s)
      <3> DEFINE op2 == IF t[q].at = "exitcall" THEN NoOp ELSE t[q].op
      <3>1. moved[q] = [t[q] EXCEPT !.at = NextAt(t[q].at), !.sig = NoSig, !.op = op2]
        BY <2>0, <2>1
      <3>2. t[q].at \in Stops
        BY <2>0, <2>1 DEF PtraceFails
      <3>3. t[q] \in Task /\ NextAt(t[q].at) \in Where
        BY <3>2 DEF NextAt, Where, Stops, Running
      <3>4. op2 \in Op
        BY <3>3, TaskFields, NoOpType
      <3>6. op2 = t[q].op \/ t[q].at = "exitcall"
        OBVIOUS
      <3> HIDE DEF moved, op2
      <3>5. /\ moved[q] \in Task /\ moved[q].child = t[q].child
            /\ moved[q].at = NextAt(t[q].at) /\ moved[q].op = op2
        BY <3>1, <3>3, <3>4 DEF Task
      <3> QED
        BY <2>1, <3>2, <3>5, <3>6
    <2>2. CASE q \notin Resuming(s)
      <3>1. moved[q] = t[q]
        BY <2>0, <2>2
      <3> QED
        BY <3>1, <2>2
    <2> QED
      BY <2>1, <2>2
  <1>3. moved \in [Pids -> Task]
    <2>1. \A q \in Pids : moved[q] \in Task
      BY <1>2
    <2>2. moved = [q \in Pids |-> moved[q]]
      OBVIOUS
    <2> HIDE DEF moved
    <2> QED
      BY <2>1, <2>2
  <1> DEFINE t2 == Doom(moved, killed, TRUE)
  <1> HIDE DEF moved, killed
  <1>4. /\ t2 \in [Pids -> Task]
        /\ \A q \in Pids : /\ t2[q].child = moved[q].child /\ t2[q].op = moved[q].op
                           /\ \/ t2[q].at = moved[q].at
                              \/ /\ t2[q].at = "dying"
                                 /\ moved[q].at \notin {"unborn", "gone", "reaped", "dying", "exitstop", "final"}
    <2>1. DoomResult(moved, killed, t2)
      BY <1>3, DoomType
    <2> HIDE DEF t2
    <2> QED
      BY <2>1 DEF DoomResult
  <1> HIDE DEF t2
  <1>5. ASSUME NEW q \in Pids PROVE RequestedTask(t, s, t2, q)
    <2>1. t[q].at \in Stops => /\ NextAt(t[q].at) \notin {"unborn", "gone", "reaped"}
                               /\ t[q].at \notin {"unborn", "gone", "reaped"}
      BY DEF NextAt, Stops
    <2> QED
      BY <1>2, <1>4, <2>1 DEF RequestedTask
  <1> QED
    BY <1>1, <1>4, <1>5 DEF t2

\* The requests of a handler take effect.
LEMMA ApplyInv ==
    ASSUME NEW t, NEW r, NEW s, NEW stk, Inv(t, r, s, stk),
           NEW t2 \in [Pids -> Task], NEW r2 \in SUBSET r,
           \A q \in Pids : RequestedTask(t, s, t2, q),
           \A q \in r2 : q \notin Resuming(s)
    PROVE  Inv(t2, r2, [s EXCEPT !.resumed = {}], stk)
  <1> DEFINE s2 == [s EXCEPT !.resumed = {}]
  <1>0. s \in SupervisorType /\ Bookkeeping(s) /\ r \subseteq Pids
    BY DEF Inv
  <1>1. /\ s2 \in SupervisorType
        /\ s2.threads = s.threads /\ s2.scheduled = s.scheduled
        /\ s2.vtid = s.vtid /\ s2.vtidNext = s.vtidNext
        /\ s2.blocked = s.blocked /\ s2.waiting = s.waiting
        /\ s2.pendingStart = s.pendingStart /\ s2.stoppedPending = s.stoppedPending
        /\ s2.runnable = s.runnable /\ s2.current = s.current
        /\ s2.resumed = {}
    BY <1>0 DEF SupervisorType
  <1> HIDE DEF s2
  <1>2. Bookkeeping(s2)
    BY <1>0, <1>1 DEF Bookkeeping, RunQueueOK, ParkedOK, NotLost, VtidsOK
  <1>l. /\ OnlyCurrentBusy(t, r, s) /\ Unregistered(t, s) /\ Unborn(t, s) /\ AttachAhead(t, r, s)
        /\ CurrentKnown(t, s) /\ StackKnown(t, s, stk) /\ ChildNew(t, r, s)
        /\ s.scheduled \subseteq Pids /\ s.threads \subseteq Pids /\ Resuming(s2) = {}
    BY <1>0, <1>1 DEF Inv, Link, SupervisorType, Resuming
  <1>3. OnlyCurrentBusy(t2, r2, s2)
    <2> SUFFICES ASSUME NEW q \in s.scheduled, Busy(t2, r2, s2, q) PROVE Busy(t, r, s, q)
      BY <1>l, <1>1 DEF OnlyCurrentBusy
    <2>1. t2[q].at \in ExecutingAt \/ (q \in r2 /\ t2[q].at \in ReportedAt)
      BY <1>l DEF Busy
    <2>2. RequestedTask(t, s, t2, q)
      BY <1>l
    <2>3. t[q].at = "exitstop" => NextAt(t[q].at) \notin ExecutingAt
      BY DEF NextAt, ExecutingAt
    <2> QED
      BY <2>1, <2>2, <2>3 DEF Busy, RequestedTask, ExecutingAt, ReportedAt
  <1>4. Unregistered(t2, s2)
    <2> SUFFICES ASSUME NEW q \in Pids \ s.threads PROVE t2[q].at \notin ExecutingAt \cup ReportedAt
      BY <1>l, <1>1 DEF Unregistered
    <2>1. /\ t[q].at \notin ExecutingAt \cup ReportedAt /\ RequestedTask(t, s, t2, q)
          /\ q \in Resuming(s) => t[q].at # "attach"
      BY <1>l DEF Unregistered
    <2>2. t[q].at \in Stops /\ t[q].at # "attach" => t[q].at = "exitstop" /\ NextAt(t[q].at) = "final"
      BY <2>1 DEF Stops, ReportedAt, NextAt
    <2> QED
      BY <2>1, <2>2 DEF RequestedTask, ExecutingAt, ReportedAt
  <1>5. Unborn(t2, s2)
    BY <1>l, <1>1 DEF RequestedTask, Unborn
  <1>6. AttachAhead(t2, r2, s2)
    <2> SUFFICES ASSUME NEW q \in Pids, t2[q].at = "born" \/ (q \in r2 /\ t2[q].at = "attach")
                 PROVE  t[q].at = "born" \/ (q \in r /\ t[q].at = "attach")
      BY <1>l, <1>1 DEF AttachAhead
    <2>1. t[q].at \in Stops => NextAt(t[q].at) \notin {"born", "attach"}
      BY DEF NextAt, Stops
    <2> QED
      BY <2>1 DEF RequestedTask
  <1>7. CurrentKnown(t2, s2)
    BY <1>1, <1>l DEF CurrentKnown, KnownOrReaped, RequestedTask
  <1>8. StackKnown(t2, s2, stk)
    <2> SUFFICES ASSUME NEW i \in DOMAIN stk
                 PROVE  KnownOrReaped(t2, s2, stk[i][1]) /\ KnownOrReaped(t2, s2, stk[i][2])
      BY DEF StackKnown
    <2>1. stk[i][1] \in Pids /\ stk[i][2] \in Pids
      <3>1. stk[i] \in Pids \X Pids
        BY DEF Inv
      <3> QED
        BY <3>1
    <2> QED
      BY <1>1, <1>l, <2>1 DEF StackKnown, KnownOrReaped, RequestedTask
  <1>9. ChildNew(t2, r2, s2)
    <2>1. \A q \in Pids : CloneStopped(t2, r2, q) => CloneStopped(t, r, q) /\ t2[q].child = t[q].child
      BY DEF CloneStopped, RequestedTask
    <2>2. \A q \in Pids : t[q].child \in Pids
      BY DEF Inv, Task
    <2> SUFFICES ASSUME NEW q \in Pids, CloneStopped(t2, r2, q)
                 PROVE  /\ t2[q].child \notin s.threads
                        /\ t2[q].child # s.current
                        /\ t2[t2[q].child].at # "unborn"
                        /\ \A u \in Pids : CloneStopped(t2, r2, u) /\ t2[u].child = t2[q].child => u = q
      BY <1>1 DEF ChildNew
    <2>3. /\ t[q].child \notin s.threads /\ t[q].child # s.current
          /\ t[t[q].child].at # "unborn"
          /\ \A u \in Pids : CloneStopped(t, r, u) /\ t[u].child = t[q].child => u = q
      BY <1>l, <2>1 DEF ChildNew
    <2> QED
      BY <2>1, <2>2, <2>3 DEF RequestedTask
  <1> QED
    BY <1>0, <1>1, <1>2, <1>3, <1>4, <1>5, <1>6, <1>7, <1>8, <1>9 DEF Inv, Link, s2

\* An await_attach returns, or none was in progress.
LEMMA PopInv ==
    ASSUME NEW t, NEW r, NEW s, NEW stk, Inv(t, r, s, stk)
    PROVE  /\ Inv(t, r, s, <<>>)
           /\ stk # <<>> => Inv(t, r, s, Front(stk))
  <1>0. stk \in Seq(Pids \X Pids) /\ StackKnown(t, s, stk)
    BY DEF Inv, Link
  <1>1. <<>> \in Seq(Pids \X Pids) /\ StackKnown(t, s, <<>>)
    BY DEF StackKnown
  <1>2. ASSUME stk # <<>> PROVE Front(stk) \in Seq(Pids \X Pids) /\ StackKnown(t, s, Front(stk))
    <2>1. Len(stk) \in Nat /\ Len(stk) >= 1 /\ Front(stk) = SubSeq(stk, 1, Len(stk) - 1)
      BY <1>0, <1>2 DEF Front
    <2>2. /\ Front(stk) \in Seq(Pids \X Pids)
          /\ \A i \in DOMAIN Front(stk) : i \in DOMAIN stk /\ Front(stk)[i] = stk[i]
      BY <1>0, <2>1
    <2> QED
      BY <1>0, <2>2 DEF StackKnown
  <1>3. Inv(t, r, s, <<>>)
    BY <1>1 DEF Inv, Link
  <1>4. stk # <<>> => Inv(t, r, s, Front(stk))
    BY <1>2 DEF Inv, Link
  <1> QED
    BY <1>3, <1>4

\* A clone event's handler starts waiting for the attach stop of the child c of p.
LEMMA PushInv ==
    ASSUME NEW t, NEW r, NEW s, NEW stk, NEW p \in s.threads, NEW c \in s.threads, Inv(t, r, s, stk)
    PROVE  Inv(t, r, s, Append(stk, <<p, c>>))
  <1>0. stk \in Seq(Pids \X Pids) /\ StackKnown(t, s, stk) /\ s.threads \subseteq Pids
    BY DEF Inv, Link, SupervisorType
  <1> DEFINE e == <<p, c>>
  <1>1. e \in Pids \X Pids /\ e[1] = p /\ e[2] = c
    BY <1>0
  <1> HIDE DEF e
  <1>2. /\ Append(stk, e) \in Seq(Pids \X Pids)
        /\ \A i \in DOMAIN Append(stk, e) :
              Append(stk, e)[i] = e \/ (i \in DOMAIN stk /\ Append(stk, e)[i] = stk[i])
    BY <1>0, <1>1
  <1>3. StackKnown(t, s, Append(stk, e))
    BY <1>0, <1>1, <1>2 DEF StackKnown, KnownOrReaped
  <1> QED
    BY <1>2, <1>3 DEF Inv, Link, e

\* A failed request leaves the tasks alone.
LEMMA DropInv ==
    ASSUME NEW t, NEW r, NEW s, NEW stk, Inv(t, r, s, stk)
    PROVE  Inv(t, r, [s EXCEPT !.resumed = {}], stk)
  <1> DEFINE s2 == [s EXCEPT !.resumed = {}]
  <1>0. s \in SupervisorType /\ Bookkeeping(s)
    BY DEF Inv
  <1>1. /\ s2 \in SupervisorType
        /\ s2.threads = s.threads /\ s2.scheduled = s.scheduled
        /\ s2.vtid = s.vtid /\ s2.vtidNext = s.vtidNext
        /\ s2.blocked = s.blocked /\ s2.waiting = s.waiting
        /\ s2.pendingStart = s.pendingStart /\ s2.stoppedPending = s.stoppedPending
        /\ s2.runnable = s.runnable /\ s2.current = s.current
        /\ s2.resumed = {}
    BY <1>0 DEF SupervisorType
  <1> HIDE DEF s2
  <1>2. Bookkeeping(s2)
    BY <1>0, <1>1 DEF Bookkeeping, RunQueueOK, ParkedOK, NotLost, VtidsOK
  <1>3. Resuming(s2) = {}
    BY <1>1 DEF Resuming
  <1>4. Link(t, r, s2, stk)
    BY <1>1, <1>3 DEF Inv, Link, OnlyCurrentBusy, Busy, Unregistered, Unborn, AttachAhead,
       CurrentKnown, StackKnown, KnownOrReaped, ChildNew
  <1> QED
    BY <1>1, <1>2, <1>4 DEF Inv, s2

\* The attach stop of a task that is not registered yet is remembered.
LEMMA StoppedPendingInv ==
    ASSUME NEW t, NEW r, NEW s, NEW stk, NEW p \in Pids, Inv(t, r, s, stk),
           p \notin s.threads, t[p].at \notin {"unborn", "born"}, p \notin r
    PROVE  Inv(t, r, [s EXCEPT !.stoppedPending = @ \cup {p}], stk)
  <1> DEFINE sp == s.stoppedPending \cup {p}
             s2 == [s EXCEPT !.stoppedPending = sp]
  <1>0. s \in SupervisorType /\ Bookkeeping(s) /\ sp \in SUBSET Pids
    BY DEF Inv, SupervisorType
  <1>e. [s EXCEPT !.stoppedPending = @ \cup {p}] = s2
    OBVIOUS
  <1> HIDE DEF sp
  <1>1. /\ s2 \in SupervisorType
        /\ s2.threads = s.threads /\ s2.scheduled = s.scheduled
        /\ s2.vtid = s.vtid /\ s2.vtidNext = s.vtidNext
        /\ s2.blocked = s.blocked /\ s2.waiting = s.waiting
        /\ s2.pendingStart = s.pendingStart /\ s2.stoppedPending = sp
        /\ s2.runnable = s.runnable /\ s2.current = s.current
        /\ s2.resumed = s.resumed
    BY <1>0 DEF SupervisorType
  <1> HIDE DEF s2
  <1>2. Bookkeeping(s2)
    BY <1>0, <1>1 DEF Bookkeeping, RunQueueOK, ParkedOK, NotLost, VtidsOK, sp
  <1>3. Resuming(s2) = Resuming(s)
    BY <1>1 DEF Resuming
  <1>4. AttachAhead(t, r, s2) /\ Unborn(t, s2)
    BY <1>1 DEF Inv, Link, AttachAhead, Unborn, sp
  <1>5. Link(t, r, s2, stk)
    BY <1>1, <1>3, <1>4 DEF Inv, Link, OnlyCurrentBusy, Busy, Unregistered,
       CurrentKnown, StackKnown, KnownOrReaped, ChildNew
  <1> QED
    BY <1>e, <1>1, <1>2, <1>5 DEF Inv

-----------------------------------------------------------------------------
(* Steps of the supervisor *)

\* IInv is Inv of the variables with no request left to apply.
LEMMA IInvParts ==
    ASSUME IInv
    PROVE  /\ Inv(task, reports, sv, stack)
           /\ sv.resumed = {} /\ Resuming(sv) = {}
           /\ \A p \in Pids : Inv(task, reports \ {p}, sv, stack)
  <1>1. Inv(task, reports, sv, stack) /\ sv.resumed = {} /\ Resuming(sv) = {}
    BY DEF IInv, TypeOK, Inv, Resuming
  <1>2. ASSUME NEW p \in Pids PROVE Inv(task, reports \ {p}, sv, stack)
    BY <1>1, ShrinkReports
  <1> QED
    BY <1>1, <1>2

\* The tail of the loop, and the requests.
LEMMA CommitIInv ==
    ASSUME TypeOK, NEW p \in Pids, NEW t, NEW s, NEW stk,
           Inv(t, reports \ {p}, s, stk), Commit(p, t, s, stk)
    PROVE  IInv'
  <1> DEFINE s1 == LoopTail(s, stk)
             r == reports \ {p}
  <1>1. Inv(t, r, s1, stk)
    BY ScheduleInv DEF LoopTail
  <1>2. /\ task' = IF PtraceFails(t, s1) THEN t ELSE Resumed(t, s1)
        /\ reports' = {q \in r : (\A x \in s1.resumed : x[1] # q) /\ task'[q].at # "dying"}
        /\ sv' = [s1 EXCEPT !.resumed = {}]
        /\ stack' = stk
        /\ outcome' \in {"ptrace", "deadlock", "running"}
        /\ UNCHANGED <<mem, pipe, signalsLeft>>
    BY DEF Commit
  <1> HIDE DEF s1
  <1>3. reports' \in SUBSET r /\ \A q \in reports' : q \notin Resuming(s1)
    BY <1>2 DEF Resuming
  <1>4. s1 \in SupervisorType /\ t \in [Pids -> Task] /\ stk \in Seq(Pids \X Pids) /\ r \in SUBSET Pids
    BY <1>1 DEF Inv
  <1> HIDE DEF r
  <1>5. Inv(task', reports', sv', stack')
    <2>1. CASE PtraceFails(t, s1)
      <3>1. Inv(t, reports', s1, stk)
        BY <1>1, <1>3, ShrinkReports
      <3> QED
        BY <2>1, <3>1, <1>2, DropInv
    <2>2. CASE ~PtraceFails(t, s1)
      <3>1. task' = Resumed(t, s1)
        BY <1>2, <2>2
      <3>2. task' \in [Pids -> Task] /\ \A q \in Pids : RequestedTask(t, s1, task', q)
        BY <1>4, <2>2, <3>1, RequestedShape
      <3>3. Inv(task', reports', [s1 EXCEPT !.resumed = {}], stk)
        BY <1>1, <1>3, <3>2, ApplyInv
      <3> QED
        BY <1>2, <3>3
    <2> QED
      BY <2>1, <2>2
  <1>6. sv'.resumed = {}
    BY <1>2, <1>4 DEF SupervisorType
  <1>7. TypeOK'
    BY <1>2, <1>5 DEF TypeOK, Inv, Outcomes
  <1> QED
    BY <1>5, <1>6, <1>7 DEF IInv, Inv

\* Run, the first schedule_next of run(), keeps IInv.
LEMMA RunIInv ==
    ASSUME IInv, Run PROVE IInv'
  <1>1. Inv(task, reports \ {InitPid}, sv, <<>>) /\ TypeOK /\ InitPid \in Pids
    BY IInvParts, PopInv, PidsAssumption DEF IInv
  <1> QED
    BY <1>1, CommitIInv DEF Run

\* A scheduled thread that reports a stop is the current one, and is not busy any
\* more once the report has been taken.
LEMMA ReporterCurrent ==
    ASSUME IInv, NEW p \in Pids, p \in reports, task[p].at \in ReportedAt
    PROVE  /\ p \in sv.scheduled => sv.current = p
           /\ p \in sv.threads
           /\ ~Busy(task, reports \ {p}, sv, p)
  <1>1. p \in sv.threads /\ (p \in sv.scheduled => sv.current = p)
    BY DEF IInv, Link, Unregistered, OnlyCurrentBusy, Busy
  <1>2. ~Busy(task, reports \ {p}, sv, p)
    BY IInvParts DEF Busy, ReportedAt, ExecutingAt
  <1> QED
    BY <1>1, <1>2

\* The syscall-entry stop handler parks the running thread, lets it wake others,
\* or leaves the queues alone.
LEMMA SyscallEntryResult ==
    ASSUME IInv, NEW p \in Pids, SyscallEntry(p)
    PROVE  \E s :
              /\ Commit(p, task, s, stack) /\ Inv(task, reports \ {p}, s, stack)
              /\ \/ /\ sv.current = p /\ p \in sv.scheduled
                    /\ p \in reports /\ task[p].at = "entry"
                    /\ task[p].op.name \in {"wait", "timedwait"}
                    /\ \E a \in Addr : ParksOn(sv, s, p, a)
                 \/ SameTurn(sv, s)
                 \/ \E op \in Op : op.name \in FutexOps /\ SameTurn(FutexWake(sv, p, op), s)
              /\ Asks(sv, s, {p}, Replaced(task[p].op, p))
              /\ s.scheduled = sv.scheduled /\ (s.current = sv.current \/ sv.current = p)
  <1> DEFINE op == task[p].op
             word == EntryWord(p)
             e == OnSyscallEntry(sv, p, op, word)
             s == IF Parks(sv, p, op, word) THEN [e EXCEPT !.current = NoPid] ELSE ResumeStopped(e, p)
             r == reports \ {p}
  <1>0. TypeOK /\ op \in Op /\ Inv(task, r, sv, stack)
    BY IInvParts, TaskFields DEF IInv, TypeOK
  <1>1. p \in reports /\ task[p].at = "entry" /\ Commit(p, task, s, stack)
    BY DEF SyscallEntry, Reported
  <1>2. (p \in sv.scheduled => sv.current = p) /\ ~Busy(task, r, sv, p)
    BY <1>1, ReporterCurrent DEF ReportedAt
  <1>a. /\ Asks(sv, s, {p}, Replaced(op, p))
        /\ s.scheduled = sv.scheduled
        /\ ~Parks(sv, p, op, word) => s.current = sv.current
    <2> HIDE DEF op, word
    <2> DEFINE Y == Replaced(op, p)
    <2>1. Asks(sv, e, {}, Y) /\ e.scheduled = sv.scheduled /\ e.current = sv.current
      BY EntryAsks
    <2> HIDE DEF e, Y
    <2>a. Asks(e, ResumeStopped(e, p), {p}, {}) /\ SameTurn(e, ResumeStopped(e, p))
      BY ResumeTurn
    <2>b. /\ Asks(e, [e EXCEPT !.current = NoPid], {}, {})
          /\ [e EXCEPT !.current = NoPid].scheduled = e.scheduled
      BY DEF Asks, Resuming
    <2>2. /\ Asks(e, ResumeStopped(e, p), {p}, {}) /\ SameTurn(e, ResumeStopped(e, p))
          /\ Asks(e, [e EXCEPT !.current = NoPid], {}, {})
          /\ [e EXCEPT !.current = NoPid].scheduled = e.scheduled
      BY <2>a, <2>b
    <2>3. s = [e EXCEPT !.current = NoPid] \/ (s = ResumeStopped(e, p) /\ ~Parks(sv, p, op, word))
      OBVIOUS
    <2>4. ~Parks(sv, p, op, word) => s = ResumeStopped(e, p)
      OBVIOUS
    <2> HIDE DEF s
    <2>5. Asks(sv, s, {p}, Y) /\ s.scheduled = sv.scheduled
      BY <2>1, <2>2, <2>3 DEF Asks, SameTurn
    <2> QED
      BY <2>1, <2>2, <2>4, <2>5 DEF SameTurn, Y
  <1>b. op = task[p].op
    OBVIOUS
  <1> HIDE DEF op, word
  <1>3. CASE Parks(sv, p, op, word)
    <2>1. sv.current = p
      BY <1>2, <1>3 DEF Parks, Simulated, IsScheduled
    <2>2. /\ Inv(task, r, [e EXCEPT !.current = NoPid], stack)
          /\ ParksOn(sv, [e EXCEPT !.current = NoPid], p, op.addr)
      BY <1>0, <1>2, <1>3, <2>1, EntryParkInv
    <2>3. op.addr \in Addr /\ p \in sv.scheduled /\ op.name \in {"wait", "timedwait"}
      BY <1>0, <1>3, OpFields DEF Parks, FutexOps, PassedOps, Simulated, IsScheduled
    <2>4. s = [e EXCEPT !.current = NoPid]
      BY <1>3
    <2> HIDE DEF s, e, r
    <2>5. Inv(task, reports \ {p}, s, stack) /\ \E a \in Addr : ParksOn(sv, s, p, a)
      BY <2>2, <2>3, <2>4 DEF r
    <2> QED
      BY <1>1, <1>a, <1>b, <2>1, <2>3, <2>5
  <1>4. CASE ~Parks(sv, p, op, word)
    <2>1. /\ Inv(task, r, e, stack)
          /\ SameQueues(sv, e) \/ (op.name \in FutexOps /\ e = FutexWake(sv, p, op))
      BY <1>0, <1>4, EntryInv
    <2> HIDE DEF e
    <2>2. Inv(task, r, ResumeStopped(e, p), stack) /\ SameTurn(e, ResumeStopped(e, p))
      BY <1>1, <2>1, ResumeStoppedInv, ResumeTurn
    <2>3. s = ResumeStopped(e, p)
      BY <1>4
    <2> HIDE DEF s
    <2>4. SameQueues(sv, e) => SameTurn(sv, s)
      BY <2>2, <2>3 DEF SameTurn, SameQueues
    <2> QED
      BY <1>0, <1>1, <1>4, <1>a, <1>b, <2>1, <2>2, <2>3, <2>4
  <1> QED
    BY <1>3, <1>4

\* The syscall-entry stop handler keeps IInv.
LEMMA SyscallEntryIInv ==
    ASSUME IInv, NEW p \in Pids, SyscallEntry(p) PROVE IInv'
  <1>1. PICK s : Commit(p, task, s, stack) /\ Inv(task, reports \ {p}, s, stack)
    BY SyscallEntryResult
  <1> QED
    BY <1>1, CommitIInv DEF IInv

\* The syscall-exit stop handler ends the turn of a scheduled thread.
LEMMA SyscallExitResult ==
    ASSUME IInv, NEW p \in Pids, SyscallExit(p)
    PROVE  \E s :
              /\ Commit(p, task, s, stack) /\ Inv(task, reports \ {p}, s, stack)
              /\ \/ SameTurn(sv, s) /\ Asks(sv, s, {p}, {}) /\ p \notin s.pending
                 \/ /\ sv.current = p /\ p \in sv.scheduled
                    /\ p \in reports /\ task[p].at = "exitcall"
                    /\ \E u : /\ Inv(task, reports \ {p}, u, stack)
                              /\ Yields(sv, u, p) /\ s = ScheduleNext(u)
                              /\ Asks(sv, u, {}, {}) /\ p \notin u.pending
  <1> DEFINE s == OnSyscallExit(sv, p, task[p].op)
             f == IF IsScheduled(sv, p) THEN YieldCurrent(s, p) ELSE ResumeThread(s, p)
             r == reports \ {p}
  <1>0. TypeOK /\ task[p].op \in Op /\ Inv(task, r, sv, stack)
    BY IInvParts, TaskFields DEF IInv, TypeOK
  <1>1. p \in reports /\ task[p].at = "exitcall" /\ Commit(p, task, f, stack)
    BY DEF SyscallExit, Reported
  <1>2. (p \in sv.scheduled => sv.current = p) /\ ~Busy(task, r, sv, p)
    BY <1>1, ReporterCurrent DEF ReportedAt
  <1>3. Inv(task, r, s, stack) /\ SameQueues(sv, s) /\ Asks(sv, s, {}, {}) /\ p \notin s.pending
    BY <1>0, ExitInv, ExitAsks
  <1> HIDE DEF s
  <1>4. CASE p \in sv.scheduled
    <2>1. s.current = p /\ p \in s.scheduled /\ ~Busy(task, r, s, p)
      BY <1>2, <1>3, <1>4 DEF SameQueues, Busy, Resuming
    <2>2. Inv(task, r, YieldCurrent(s, p), stack)
      BY <1>3, <2>1, YieldInv
    <2>3. PICK u : /\ Inv(task, r, u, stack) /\ Yields(s, u, p) /\ YieldCurrent(s, p) = ScheduleNext(u)
                   /\ Asks(s, u, {}, {})
      BY <1>3, <2>1, YieldInv
    <2>4. Yields(sv, u, p) /\ Asks(sv, u, {}, {}) /\ p \notin u.pending
      BY <1>3, <2>3 DEF Yields, SameQueues, Asks
    <2>5. f = ScheduleNext(u) /\ Inv(task, r, f, stack)
      BY <1>4, <2>2, <2>3 DEF IsScheduled
    <2> HIDE DEF f
    <2> QED
      BY <1>1, <1>2, <1>4, <2>3, <2>4, <2>5
  <1>5. CASE p \notin sv.scheduled
    <2>1. MayResume(task, s, p)
      BY <1>1, <1>3, <1>5 DEF MayResume, SameQueues
    <2>2. Inv(task, r, ResumeThread(s, p), stack) /\ SameTurn(s, ResumeThread(s, p))
      BY <1>3, <2>1, ResumeInv, ResumeTurn
    <2>a. Asks(s, ResumeThread(s, p), {p}, {})
      BY ResumeTurn
    <2>3. /\ SameTurn(sv, ResumeThread(s, p))
          /\ Asks(sv, ResumeThread(s, p), {p}, {}) /\ p \notin ResumeThread(s, p).pending
      BY <1>3, <2>2, <2>a DEF SameTurn, SameQueues, Asks
    <2>4. f = ResumeThread(s, p)
      BY <1>5 DEF IsScheduled
    <2> HIDE DEF f
    <2> QED
      BY <1>1, <2>2, <2>3, <2>4
  <1> QED
    BY <1>4, <1>5

\* The syscall-exit stop handler keeps IInv.
LEMMA SyscallExitIInv ==
    ASSUME IInv, NEW p \in Pids, SyscallExit(p) PROVE IInv'
  <1>1. PICK s : Commit(p, task, s, stack) /\ Inv(task, reports \ {p}, s, stack)
    BY SyscallExitResult
  <1> QED
    BY <1>1, CommitIInv DEF IInv

\* The clone event handler admits the child.
LEMMA CloneEventResult ==
    ASSUME IInv, NEW p \in Pids, CloneEvent(p)
    PROVE  \E s, stk :
              /\ Commit(p, task, s, stk) /\ Inv(task, reports \ {p}, s, stk)
              /\ \E q \in Pids :
                    /\ q # sv.current /\ q \notin sv.scheduled /\ Admits(sv, s, q)
                    /\ q \notin sv.threads /\ p \in sv.threads
                    /\ \/ stk = Append(stack, <<p, q>>) /\ Asks(sv, s, {q}, {})
                       \/ stk = stack /\ Asks(sv, s, {p, q}, {})
  <1> DEFINE c == task[p].child
             info == sv.clonePending[p]
             cp == [sv.clonePending EXCEPT ![p] = DefaultCloneInfo]
             s0 == [sv EXCEPT !.clonePending = cp]
             s == RegisterThread(s0, c, info)
             r == reports \ {p}
  <1>0. TypeOK /\ Inv(task, r, sv, stack) /\ sv \in SupervisorType /\ task[p] \in Task
    BY IInvParts DEF IInv, TypeOK
  <1>1. p \in reports /\ task[p].at = "clonestop"
    BY DEF CloneEvent, Reported
  <1>2. IF c \in s.pendingStart THEN Commit(p, task, s, Append(stack, <<p, c>>))
                                ELSE Commit(p, task, ResumeStopped(s, p), stack)
    <2>1. [sv EXCEPT !.clonePending[p] = DefaultCloneInfo] = s0
      BY <1>0 DEF SupervisorType
    <2> QED
      BY <2>1 DEF CloneEvent
  <1>3. cp \in [Pids -> CloneInfo] /\ info \in CloneInfo /\ c \in Pids
    <2>1. DefaultCloneInfo \in CloneInfo
      BY DEF DefaultCloneInfo, CloneInfo
    <2>2. sv.clonePending \in [Pids -> CloneInfo]
      BY <1>0 DEF SupervisorType
    <2>3. c \in Pids
      BY <1>0, TaskFields
    <2> QED
      BY <2>1, <2>2, <2>3
  <1> HIDE DEF cp
  <1>4. s0 \in SupervisorType /\ SameQueues(sv, s0) /\ s0.pending = sv.pending
    BY <1>0, <1>3 DEF SupervisorType, SameQueues
  <1> HIDE DEF s0
  <1>5. Inv(task, r, s0, stack)
    BY <1>0, <1>4, SameInv
  <1>6. /\ c \notin sv.threads /\ c # sv.current /\ task[c].at # "unborn"
        /\ \A q \in Pids : CloneStopped(task, reports, q) /\ task[q].child = c => q = p
    BY <1>1 DEF IInv, Link, ChildNew, CloneStopped
  <1>7. /\ c \notin s0.threads /\ c # s0.current /\ c \notin Resuming(s0)
        /\ \A q \in Pids : CloneStopped(task, r, q) => task[q].child # c
    <2>1. Resuming(s0) = {}
      BY <1>4, IInvParts DEF SameQueues, Resuming
    <2> QED
      BY <1>4, <1>6, <2>1 DEF SameQueues, CloneStopped
  <1> HIDE DEF c, info
  <1>8. Inv(task, r, s, stack) /\ s.threads = sv.threads \cup {c} /\ Admits(sv, s, c)
    <2>1. task[c].at # "unborn" /\ s0.threads = sv.threads
      BY <1>4, <1>6 DEF SameQueues
    <2> HIDE DEF r
    <2>2. /\ Inv(task, r, RegisterThread(s0, c, info), stack)
          /\ RegisterThread(s0, c, info).threads = s0.threads \cup {c}
          /\ Admits(s0, RegisterThread(s0, c, info), c)
      BY <1>3, <1>5, <1>7, <2>1, RegisterInv
    <2>3. Admits(sv, RegisterThread(s0, c, info), c)
      BY <1>4, <2>2 DEF SameQueues, Admits
    <2> QED
      BY <2>1, <2>2, <2>3
  <1>a. Asks(sv, s, {c}, {})
    <2>1. Asks(s0, s, {c}, {})
      BY <1>3, <1>4, UpdateAsks
    <2> HIDE DEF s
    <2> QED
      BY <1>4, <2>1 DEF Asks, SameQueues, Resuming
  <1> HIDE DEF s
  <1>n. /\ c \in Pids /\ c # sv.current /\ c \notin sv.scheduled
        /\ c \notin sv.threads /\ p \in sv.threads
    BY <1>1, <1>3, <1>6, ReporterCurrent DEF IInv, Bookkeeping, ReportedAt
  <1>9. CASE c \in s.pendingStart
    <2>1. p \in s.threads /\ c \in s.threads
      BY <1>1, <1>8, ReporterCurrent DEF ReportedAt
    <2>2. Inv(task, r, s, Append(stack, <<p, c>>))
      BY <1>8, <2>1, PushInv
    <2> QED
      BY <1>2, <1>8, <1>9, <1>a, <1>n, <2>2
  <1>10. CASE c \notin s.pendingStart
    <2>1. Inv(task, r, ResumeStopped(s, p), stack) /\ SameTurn(s, ResumeStopped(s, p))
      BY <1>1, <1>8, ResumeStoppedInv, ResumeTurn
    <2>a. Asks(s, ResumeStopped(s, p), {p}, {})
      BY ResumeTurn
    <2>2. Admits(sv, ResumeStopped(s, p), c) /\ Asks(sv, ResumeStopped(s, p), {p, c}, {})
      BY <1>8, <1>a, <2>1, <2>a DEF Admits, SameTurn, Asks
    <2> QED
      BY <1>2, <1>10, <1>n, <2>1, <2>2
  <1> QED
    BY <1>9, <1>10

\* The clone event handler keeps IInv.
LEMMA CloneEventIInv ==
    ASSUME IInv, NEW p \in Pids, CloneEvent(p) PROVE IInv'
  <1>1. PICK s, stk : Commit(p, task, s, stk) /\ Inv(task, reports \ {p}, s, stk)
    BY CloneEventResult
  <1> QED
    BY <1>1, CommitIInv DEF IInv

\* The handlers of the other ptrace events leave the queues alone.
LEMMA EventResult ==
    ASSUME IInv, NEW p \in Pids, ExitEvent(p) \/ OtherEvent(p)
    PROVE  \E s : /\ Commit(p, task, s, stack) /\ Inv(task, reports \ {p}, s, stack)
                  /\ SameTurn(sv, s) /\ Asks(sv, s, {p}, {})
                  /\ task[p].at \in {"exitstop", "execstop"}
  <1>0. TypeOK /\ Inv(task, reports \ {p}, sv, stack)
    BY IInvParts DEF IInv
  <1>1. CASE ExitEvent(p)
    <2>1. /\ MayResume(task, sv, p) /\ Commit(p, task, ResumeThread(sv, p), stack)
          /\ task[p].at = "exitstop"
      BY <1>1 DEF ExitEvent, Reported, MayResume
    <2>2. Inv(task, reports \ {p}, ResumeThread(sv, p), stack)
      BY <1>0, <2>1, ResumeInv
    <2> QED
      BY <2>1, <2>2, ResumeTurn
  <1>2. CASE OtherEvent(p)
    <2>1. task[p].at = "execstop" /\ Commit(p, task, ResumeStopped(sv, p), stack)
      BY <1>2 DEF OtherEvent, Reported
    <2>2. Inv(task, reports \ {p}, ResumeStopped(sv, p), stack)
      BY <1>0, <2>1, ResumeStoppedInv
    <2> QED
      BY <2>1, <2>2, ResumeTurn
  <1> QED
    BY <1>1, <1>2

\* The handlers of the other ptrace events keep IInv.
LEMMA EventIInv ==
    ASSUME IInv, NEW p \in Pids, ExitEvent(p) \/ OtherEvent(p) PROVE IInv'
  <1>1. PICK s : Commit(p, task, s, stack) /\ Inv(task, reports \ {p}, s, stack)
    BY EventResult
  <1> QED
    BY <1>1, CommitIInv DEF IInv

\* Nobody sends SIGSTOP to the guest.
NoStops == "stop" \notin Signals

\* No SIGSTOP that await_attach would take for an attach stop is another one.
AttachOnly ==
    outcome = "running" =>
        \A p \in Pids : task[p].at = "signal" /\ task[p].sig = "stop" => ~Awaited(p)

\* The return of await_attach admits the task whose attach stop it awaited.
LEMMA AwaitedAttachResult ==
    ASSUME IInv, AttachOnly, NEW p \in Pids, AwaitedAttach(p)
    PROVE  \E s, stk :
              /\ Commit(p, task, s, stk) /\ Inv(task, reports \ {p}, s, stk)
              /\ p \in sv.pendingStart /\ Admits(sv, s, p) /\ s.scheduled = sv.scheduled
              /\ stack # <<>> /\ stk = Front(stack) /\ task[p].at = "attach"
              /\ Asks(sv, s, {p, Last(stack)[1]}, {})
  <1> DEFINE s == Started(sv, p)
             u == Last(stack)[1]
             r == reports \ {p}
  <1>0. TypeOK /\ Inv(task, reports, sv, stack) /\ Inv(task, r, sv, stack)
    BY IInvParts DEF IInv
  <1>1. /\ p \in reports /\ task[p].at = "attach" /\ stack # <<>> /\ Last(stack)[2] = p
        /\ Commit(p, task, ResumeStopped(s, u), Front(stack))
    BY DEF AwaitedAttach, ReportedSigstop, Reported, Awaited, AttachOnly
  <1>2. Last(stack) = stack[Len(stack)] /\ Len(stack) \in DOMAIN stack
    BY <1>0, <1>1 DEF TypeOK, Last
  <1>3. KnownOrReaped(task, sv, u) /\ KnownOrReaped(task, sv, p) /\ u \in Pids
    <2>1. stack[Len(stack)] \in Pids \X Pids
      BY <1>0, <1>2 DEF TypeOK
    <2>2. u \in Pids
      BY <1>2, <2>1
    <2> QED
      BY <1>1, <1>2, <2>2 DEF IInv, Link, StackKnown
  <1>4. p \in sv.pendingStart
    BY <1>1, <1>3 DEF IInv, Link, AttachAhead, KnownOrReaped
  <1>5. /\ Inv(task, r, s, stack) /\ s.threads = sv.threads
        /\ Admits(sv, s, p) /\ s.scheduled = sv.scheduled
    <2>1. task[p].at # "born" /\ ~(p \in r /\ task[p].at = "attach")
      BY <1>1
    <2> HIDE DEF r
    <2> QED
      BY <1>0, <1>4, <2>1, ReleaseInv
  <1>a. Asks(sv, s, {p}, {})
    BY <1>0, UpdateAsks DEF TypeOK
  <1>b. u = Last(stack)[1]
    OBVIOUS
  <1> HIDE DEF s, u
  <1>6. Inv(task, r, s, Front(stack))
    BY <1>1, <1>5, PopInv
  <1>7. u \notin s.threads => task[u].at # "attach"
    BY <1>3, <1>5 DEF KnownOrReaped
  <1>8. Inv(task, r, ResumeStopped(s, u), Front(stack)) /\ SameTurn(s, ResumeStopped(s, u))
    BY <1>3, <1>6, <1>7, ResumeStoppedInv, ResumeTurn
  <1>9. Admits(sv, ResumeStopped(s, u), p) /\ ResumeStopped(s, u).scheduled = sv.scheduled
    BY <1>5, <1>8 DEF Admits, SameTurn
  <1>c. Asks(s, ResumeStopped(s, u), {u}, {})
    BY ResumeTurn
  <1>10. Asks(sv, ResumeStopped(s, u), {p, u}, {})
    BY <1>a, <1>c DEF Asks
  <1> QED
    BY <1>1, <1>4, <1>8, <1>9, <1>10, <1>b

\* The return of await_attach keeps IInv.
LEMMA AwaitedAttachIInv ==
    ASSUME IInv, AttachOnly, NEW p \in Pids, AwaitedAttach(p) PROVE IInv'
  <1>1. PICK s, stk : Commit(p, task, s, stk) /\ Inv(task, reports \ {p}, s, stk)
    BY AwaitedAttachResult
  <1> QED
    BY <1>1, CommitIInv DEF IInv

\* A Stopped(SIGSTOP) status.
LEMMA SigstopInv ==
    ASSUME IInv, NEW p \in Pids, p \in reports, task[p].at \in {"attach", "signal"}
    PROVE  /\ Inv(task, reports \ {p}, OnSigstop(sv, p), stack)
           /\ \/ SameTurn(sv, OnSigstop(sv, p))
              \/ /\ p \in sv.pendingStart /\ Admits(sv, OnSigstop(sv, p), p)
                 /\ OnSigstop(sv, p).scheduled = sv.scheduled
           /\ Asks(sv, OnSigstop(sv, p), {p}, {})
  <1> DEFINE r == reports \ {p}
  <1>0. Inv(task, r, sv, stack) /\ p \notin r
    BY IInvParts
  <1>1. CASE sv.current = p
    <2>1. p \in sv.threads
      BY <1>1 DEF IInv, Link, CurrentKnown, KnownOrReaped
    <2>2. MayResume(task, sv, p) /\ OnSigstop(sv, p) = ResumeThread(sv, p)
      BY <1>1, <2>1 DEF MayResume, OnSigstop
    <2> QED
      BY <1>0, <2>2, ResumeInv, ResumeTurn
  <1>2. CASE sv.current # p /\ p \in sv.pendingStart
    <2>1. OnSigstop(sv, p) = Started(sv, p)
      BY <1>2 DEF OnSigstop
    <2>2. task[p].at # "born" /\ ~(p \in r /\ task[p].at = "attach")
      BY <1>0
    <2> HIDE DEF r
    <2>3. /\ Inv(task, r, Started(sv, p), stack)
          /\ Admits(sv, Started(sv, p), p) /\ Started(sv, p).scheduled = sv.scheduled
      BY <1>0, <1>2, <2>2, ReleaseInv
    <2>4. Asks(sv, Started(sv, p), {p}, {})
      BY UpdateAsks DEF IInv, TypeOK
    <2> QED
      BY <1>2, <2>1, <2>3, <2>4 DEF r
  <1>3. CASE sv.current # p /\ p \notin sv.pendingStart /\ p \notin sv.threads
    <2>1. OnSigstop(sv, p) = [sv EXCEPT !.stoppedPending = @ \cup {p}]
      BY <1>3 DEF OnSigstop
    <2>2. Inv(task, r, [sv EXCEPT !.stoppedPending = @ \cup {p}], stack)
      BY <1>0, <1>3, StoppedPendingInv
    <2>3. SameTurn(sv, [sv EXCEPT !.stoppedPending = @ \cup {p}])
      BY DEF SameTurn
    <2>4. Asks(sv, [sv EXCEPT !.stoppedPending = @ \cup {p}], {p}, {})
      BY DEF Asks, Resuming
    <2> QED
      BY <2>1, <2>2, <2>3, <2>4
  <1>4. CASE sv.current # p /\ p \notin sv.pendingStart /\ p \in sv.threads
    BY <1>0, <1>4 DEF OnSigstop, SameTurn, Asks
  <1> QED
    BY <1>1, <1>2, <1>3, <1>4

\* The handler of a signal stop keeps Inv.
LEMMA SignalInv ==
    ASSUME IInv, NEW p \in Pids, NEW sig \in Signal \cup {NoSig}, p \in reports, task[p].at = "signal"
    PROVE  /\ Inv(task, reports \ {p}, OnSignal(sv, p, sig), stack)
           /\ SameTurn(sv, OnSignal(sv, p, sig)) /\ Asks(sv, OnSignal(sv, p, sig), {p}, {})
  <1> DEFINE r == reports \ {p}
  <1>0. Inv(task, r, sv, stack) /\ sv \in SupervisorType
    BY IInvParts DEF IInv, TypeOK
  <1>1. CASE sv.current = p \/ (p \notin sv.scheduled /\ p \in sv.threads)
    <2>1. MayResume(task, sv, p) /\ OnSignal(sv, p, sig) = Deliver(sv, p, sig)
      BY <1>1 DEF MayResume, OnSignal, IsScheduled
    <2> QED
      BY <1>0, <2>1, DeliverInv, ResumeTurn
  <1>2. CASE sv.current # p /\ p \in sv.scheduled
    <2> DEFINE sp == [sv.sigPending EXCEPT ![p] = sig]
               s2 == [sv EXCEPT !.sigPending = sp]
    <2>1. sp \in [Pids -> Signal \cup {NoSig}] /\ OnSignal(sv, p, sig) = s2
      BY <1>0, <1>2 DEF SupervisorType, OnSignal, IsScheduled
    <2> HIDE DEF sp
    <2>2. s2 \in SupervisorType /\ SameQueues(sv, s2) /\ s2.pending = sv.pending
      BY <1>0, <2>1 DEF SupervisorType, SameQueues
    <2> HIDE DEF s2
    <2>3. Asks(sv, s2, {p}, {})
      BY <2>2 DEF Asks, Resuming, SameQueues
    <2> QED
      BY <1>0, <2>1, <2>2, <2>3, SameInv DEF SameQueues, SameTurn
  <1>3. CASE sv.current # p /\ p \notin sv.scheduled /\ p \notin sv.threads
    BY <1>0, <1>3 DEF OnSignal, IsScheduled, SameTurn, Asks
  <1> QED
    BY <1>1, <1>2, <1>3

\* A Stopped status leaves the queues alone or admits a task whose attach stop it is.
LEMMA StoppedResult ==
    ASSUME IInv, NEW p \in Pids, OtherSigstop(p) \/ SignalStop(p)
    PROVE  \E s :
              /\ Commit(p, task, s, stack) /\ Inv(task, reports \ {p}, s, stack)
              /\ \/ SameTurn(sv, s)
                 \/ p \in sv.pendingStart /\ Admits(sv, s, p) /\ s.scheduled = sv.scheduled
              /\ Asks(sv, s, {p}, {}) /\ task[p].at \in {"attach", "signal"}
  <1>0. TypeOK /\ task[p].sig \in Signal \cup {NoSig}
    BY TaskFields DEF IInv, TypeOK
  <1>1. CASE OtherSigstop(p)
    <2>1. /\ p \in reports /\ task[p].at \in {"attach", "signal"}
          /\ Commit(p, task, OnSigstop(sv, p), stack)
      BY <1>1 DEF OtherSigstop, ReportedSigstop, Reported
    <2> QED
      BY <2>1, SigstopInv
  <1>2. CASE SignalStop(p)
    <2>1. /\ p \in reports /\ task[p].at = "signal"
          /\ Commit(p, task, OnSignal(sv, p, task[p].sig), stack)
      BY <1>2 DEF SignalStop, Reported
    <2> QED
      BY <1>0, <2>1, SignalInv
  <1> QED
    BY <1>1, <1>2

\* The steps for Stopped statuses keep IInv.
LEMMA StoppedIInv ==
    ASSUME IInv, NEW p \in Pids, OtherSigstop(p) \/ SignalStop(p) PROVE IInv'
  <1>1. PICK s : Commit(p, task, s, stack) /\ Inv(task, reports \ {p}, s, stack)
    BY StoppedResult
  <1> QED
    BY <1>1, CommitIInv DEF IInv

\* A task is reaped.
LEMMA ReapedTask ==
    ASSUME IInv, NEW p \in Pids, NEW r \in SUBSET reports, task[p].at = "gone"
    PROVE  /\ Inv([task EXCEPT ![p].at = "reaped"], r, sv, stack)
           /\ [task EXCEPT ![p].at = "reaped"][p].at = "reaped"
           /\ [task EXCEPT ![p].at = "reaped"] \in [Pids -> Task]
  <1> DEFINE x == [task[p] EXCEPT !.at = "reaped"]
             t == [task EXCEPT ![p] = x]
  <1>0. /\ task \in [Pids -> Task] /\ task[p] \in Task /\ r \in SUBSET Pids
        /\ [task EXCEPT ![p].at = "reaped"] = t
    BY DEF IInv, TypeOK
  <1>1. "reaped" \in Where
    BY DEF Where, Dead
  <1>2. x \in Task /\ x.at = "reaped" /\ x.child = task[p].child
    BY <1>0, <1>1 DEF Task
  <1> HIDE DEF x
  <1>3. t \in [Pids -> Task] /\ \A q \in Pids : t[q] = IF q = p THEN x ELSE task[q]
    BY <1>0, <1>2
  <1> HIDE DEF t
  <1>4. \A q \in Pids : QuietTask(task, reports, t, r, q)
    BY <1>2, <1>3 DEF QuietTask
  <1>5. Inv(t, r, sv, stack)
    BY <1>0, <1>3, <1>4, IInvParts, QuietInv
  <1> QED
    BY <1>0, <1>2, <1>3, <1>5

\* A task other than the init leaves: s1 is the state without it; if it was the
\* current one, the next turn is given unless the group is exiting.
LEMMA ThreadExitedResult ==
    ASSUME IInv, NEW p \in Pids, ThreadExited(p)
    PROVE  \E t, s, s1 :
              /\ Commit(p, t, s, stack) /\ Inv(t, reports \ {p}, s, stack)
              /\ Inv(t, reports \ {p}, s1, stack)
              /\ task[p].at = "gone" /\ t = [task EXCEPT ![p].at = "reaped"]
              /\ Asks(sv, s1, {}, {})
              /\ \E w \in SupervisorType :
                    /\ Leaves(sv, s1, p, w)
                    /\ w = sv \/ \E a \in Addr : WakeResult(sv, a, 1, w)
              /\ \/ s = s1
                 \/ /\ sv.current = p
                    /\ Inv(t, reports \ {p}, [s1 EXCEPT !.current = NoPid], stack)
                    /\ s = ScheduleNext([s1 EXCEPT !.current = NoPid])
  <1> DEFINE t == [task EXCEPT ![p].at = "reaped"]
             r == reports \ {p}
  <1>0. TypeOK /\ p \notin Resuming(sv)
    BY IInvParts DEF IInv
  <1>1. task[p].at = "gone" /\ Commit(p, t, OnExited(sv, p), stack)
    BY DEF ThreadExited, Reapable
  <1>2. Inv(t, r, sv, stack) /\ t[p].at = "reaped"
    BY <1>1, ReapedTask
  <1>a. t = [task EXCEPT ![p].at = "reaped"]
    OBVIOUS
  <1> HIDE DEF t
  <1> DEFINE rec == sv.current = p
             s1 == OnThreadExit(sv, p, rec)
             s2 == [s1 EXCEPT !.current = NoPid]
  <1>3. \/ OnExited(sv, p) = s1
        \/ sv.current = p /\ OnExited(sv, p) = ScheduleNext(s2)
    BY DEF OnExited
  <1>4. rec \in BOOLEAN
    OBVIOUS
  <1> HIDE DEF rec, r
  <1>5. /\ Inv(t, r, s1, stack) /\ p \notin s1.scheduled /\ s1.current = sv.current
        /\ \E w \in SupervisorType :
              /\ Leaves(sv, s1, p, w)
              /\ w = sv \/ \E a \in Addr : WakeResult(sv, a, 1, w)
    BY <1>0, <1>2, <1>4, RemoveInv
  <1>b. Asks(sv, s1, {}, {})
    BY <1>0, <1>4, UpdateAsks DEF TypeOK
  <1> HIDE DEF s1
  <1>6. CASE OnExited(sv, p) = s1
    BY <1>1, <1>5, <1>6, <1>a, <1>b DEF r
  <1>7. CASE sv.current = p /\ OnExited(sv, p) = ScheduleNext(s2)
    <2>1. Inv(t, r, s2, stack)
      BY <1>5, <1>7, ClearCurrentInv
    <2>2. s2.current = NoPid
      BY <1>5 DEF Inv, SupervisorType
    <2>3. Inv(t, r, OnExited(sv, p), stack)
      BY <1>7, <2>1, <2>2, ScheduleInv
    <2> QED
      BY <1>1, <1>5, <1>7, <1>a, <1>b, <2>1, <2>3 DEF r
  <1> QED
    BY <1>3, <1>6, <1>7

\* The step for the exit of a task other than the init keeps IInv.
LEMMA ThreadExitedIInv ==
    ASSUME IInv, NEW p \in Pids, ThreadExited(p) PROVE IInv'
  <1>1. PICK t, s : Commit(p, t, s, stack) /\ Inv(t, reports \ {p}, s, stack)
    BY ThreadExitedResult
  <1> QED
    BY <1>1, CommitIInv DEF IInv

\* The end of supervise() keeps IInv.
LEMMA InitExitedIInv ==
    ASSUME IInv, InitExited PROVE IInv'
  <1> DEFINE t == [task EXCEPT ![InitPid].at = "reaped"]
             e == IF task[InitPid].fatal THEN "signal" ELSE "exit"
  <1>0. TypeOK /\ InitPid \in Pids
    BY PidsAssumption DEF IInv
  <1>1. /\ task[InitPid].at = "gone" /\ task' = t
        /\ outcome' \in {"signaled", "exited"}
        /\ sv' = TraceJson(sv, e, 0, 0)
        /\ UNCHANGED <<reports, mem, pipe, signalsLeft, stack>>
    BY DEF InitExited, Reapable
  <1>2. Inv(t, reports, sv, stack)
    BY <1>0, <1>1, ReapedTask
  <1>3. e \in EventNames /\ 0 \in Int
    BY DEF EventNames
  <1> HIDE DEF t, e
  <1>4. Inv(t, reports, sv', stack) /\ SameQueues(sv, sv')
    BY <1>1, <1>2, <1>3, TraceInv
  <1>5. TypeOK'
    BY <1>0, <1>1, <1>4 DEF TypeOK, Inv, Outcomes
  <1>6. sv'.resumed = {}
    BY <1>4, IInvParts DEF SameQueues
  <1>7. Inv(task', reports', sv', stack')
    BY <1>1, <1>4
  <1> QED
    BY <1>5, <1>6, <1>7 DEF IInv, Inv

-----------------------------------------------------------------------------
(* Steps of the kernel *)

\* A step that moves the tasks quietly and leaves the supervisor alone.
LEMMA QuietIInv ==
    ASSUME IInv, task' \in [Pids -> Task], reports' \in SUBSET Pids,
           \A q \in Pids : QuietTask(task, reports, task', reports', q),
           mem' \in [Pids -> [Addr -> Nat]], pipe' \in Nat, signalsLeft' \in Nat,
           UNCHANGED svVars
    PROVE  IInv'
  <1>1. Inv(task', reports', sv, stack)
    BY IInvParts, QuietInv
  <1>2. sv' = sv /\ stack' = stack /\ outcome' = outcome
    BY DEF svVars
  <1>3. TypeOK'
    BY <1>2 DEF IInv, TypeOK
  <1> QED
    BY <1>1, <1>2, <1>3, IInvParts DEF IInv, Inv

\* One task moves from `from` to `to`, whatever else of it changes.
LEMMA MoveIInv ==
    ASSUME IInv, NEW p \in Pids, NEW x \in Task, task' = [task EXCEPT ![p] = x],
           reports' \in {reports, reports \cup {p}},
           x.child = task[p].child,
           \/ task[p].at \in ExecutingAt /\ x.at \in ExecutingAt \cup (ReportedAt \ {"clonestop"})
           \/ task[p].at = "born" /\ x.at = "attach"
           \/ task[p].at \notin {"unborn", "reaped"} /\ x.at \in {"dying", "exitstop", "final", "gone"},
           mem' \in [Pids -> [Addr -> Nat]], pipe' \in Nat, signalsLeft' \in Nat,
           UNCHANGED svVars
    PROVE  IInv'
  <1>0. task \in [Pids -> Task] /\ reports \in SUBSET Pids
    BY DEF IInv, TypeOK
  <1>1. task' \in [Pids -> Task] /\ \A q \in Pids : task'[q] = IF q = p THEN x ELSE task[q]
    BY <1>0
  <1>2. \A q \in Pids : QuietTask(task, reports, task', reports', q)
    <2>1. QuietTask(task, reports, task', reports', p)
      BY <1>1 DEF QuietTask, ExecutingAt, ReportedAt
    <2>2. ASSUME NEW q \in Pids, q # p PROVE QuietTask(task, reports, task', reports', q)
      BY <1>1, <2>2 DEF QuietTask
    <2> QED
      BY <2>1, <2>2
  <1>3. reports' \in SUBSET Pids
    BY <1>0
  <1> QED
    BY <1>1, <1>2, <1>3, QuietIInv

\* The same for a move that only changes where the task is.
LEMMA AtIInv ==
    ASSUME IInv, NEW p \in Pids, NEW at \in Where, task' = [task EXCEPT ![p].at = at],
           reports' \in {reports, reports \cup {p}},
           \/ task[p].at \in ExecutingAt /\ at \in ExecutingAt \cup (ReportedAt \ {"clonestop"})
           \/ task[p].at = "born" /\ at = "attach"
           \/ task[p].at \notin {"unborn", "reaped"} /\ at \in {"dying", "exitstop", "final", "gone"},
           mem' \in [Pids -> [Addr -> Nat]], pipe' \in Nat, signalsLeft' \in Nat,
           UNCHANGED svVars
    PROVE  IInv'
  <1> DEFINE x == [task[p] EXCEPT !.at = at]
  <1>0. task \in [Pids -> Task] /\ task[p] \in Task
    BY DEF IInv, TypeOK
  <1>1. task' = [task EXCEPT ![p] = x]
    BY <1>0
  <1>2. x \in Task /\ x.child = task[p].child /\ x.at = at
    BY <1>0 DEF Task
  <1> HIDE DEF x
  <1> QED
    BY <1>1, <1>2, MoveIInv

\* The types of the kernel variables under IInv.
LEMMA KernelTypes ==
    ASSUME IInv
    PROVE  /\ task \in [Pids -> Task] /\ reports \in SUBSET Pids
           /\ mem \in [Pids -> [Addr -> Nat]] /\ pipe \in Nat /\ signalsLeft \in Nat
  BY DEF IInv, TypeOK

\* How the sets of places a task can be at relate.
LEMMA PlacesType ==
    /\ ExecutingAt \cup ReportedAt \cup {"attach", "born", "dying", "exitstop", "final", "gone"} \subseteq Where
    /\ {"entry", "exitcall", "execstop", "signal"} \subseteq ReportedAt \ {"clonestop"}
    /\ {"user", "kernel", "asleep", "return"} \subseteq ExecutingAt
  BY DEF Where, Running, Stops, Dead, ExecutingAt, ReportedAt

\* The kernel stores n at a futex word.
LEMMA StoreType ==
    ASSUME NEW g, NEW a, NEW n \in Nat, mem \in [Pids -> [Addr -> Nat]]
    PROVE  [mem EXCEPT ![g][a] = n] \in [Pids -> [Addr -> Nat]]
  OBVIOUS

\* The steps that only move one task.
LEMMA SimpleStepsIInv ==
    ASSUME IInv, NEW p \in Pids,
           \/ Attach(p) \/ ExecuteSimple(p) \/ ExecuteWait(p) \/ ExecuteLock(p) \/ ExecuteExit(p)
           \/ ExecutePipe(p) \/ WakeUp(p) \/ Return(p) \/ ExitStop(p)
    PROVE  IInv'
  <1>0. /\ mem \in [Pids -> [Addr -> Nat]] /\ pipe \in Nat /\ signalsLeft \in Nat
    BY KernelTypes
  <1>1. CASE Attach(p)
    BY <1>0, <1>1, AtIInv, PlacesType DEF Attach, StopAt, svVars
  <1>2. CASE ExecuteSimple(p)
    BY <1>0, <1>2, AtIInv, PlacesType DEF ExecuteSimple, StopAt, svVars
  <1>3. CASE ExecuteWait(p)
    BY <1>0, <1>3, AtIInv, PlacesType DEF ExecuteWait, StopAt, svVars
  <1>4. CASE ExecuteExit(p)
    BY <1>0, <1>4, AtIInv, PlacesType DEF ExecuteExit, svVars
  <1>5. CASE ExecutePipe(p)
    <2>1. PipeReady(p) /\ PipeTransfer(p) => pipe' \in Nat
      BY <1>0 DEF PipeReady, PipeTransfer
    <2> QED
      BY <1>0, <1>5, <2>1, AtIInv, PlacesType DEF ExecutePipe, StopAt, svVars
  <1>6. CASE WakeUp(p)
    <2>1. PipeReady(p) /\ PipeTransfer(p) => pipe' \in Nat
      BY <1>0 DEF PipeReady, PipeTransfer
    <2> QED
      BY <1>0, <1>6, <2>1, AtIInv, PlacesType DEF WakeUp, svVars
  <1>7. CASE Return(p)
    BY <1>0, <1>7, AtIInv, PlacesType DEF Return, StopAt, svVars
  <1>8. CASE ExitStop(p)
    BY <1>0, <1>8, AtIInv, PlacesType DEF ExitStop, StopAt, svVars
  <1>9. CASE ExecuteLock(p)
    <2>1. mem' \in [Pids -> [Addr -> Nat]]
      <3>1. mem' \in {mem, [mem EXCEPT ![task[p].tgid][task[p].op.addr] = 1]}
        BY <1>9 DEF ExecuteLock
      <3>2. [mem EXCEPT ![task[p].tgid][task[p].op.addr] = 1] \in [Pids -> [Addr -> Nat]]
        BY <1>0, StoreType
      <3> QED
        BY <1>0, <3>1, <3>2
    <2> QED
      BY <1>0, <1>9, <2>1, AtIInv, PlacesType DEF ExecuteLock, StopAt, svVars
  <1> QED
    BY <1>1, <1>2, <1>3, <1>4, <1>5, <1>6, <1>7, <1>8, <1>9

\* A step of user code keeps IInv.
LEMMA UserStepIInv ==
    ASSUME IInv, NEW p \in Pids, UserStep(p) PROVE IInv'
  <1>0. /\ task \in [Pids -> Task] /\ mem \in [Pids -> [Addr -> Nat]] /\ pipe \in Nat
        /\ signalsLeft \in Nat /\ task[p] \in Task
    BY KernelTypes
  <1> DEFINE g == task[p].tgid
  <1>g. g \in Pids /\ mem[g] \in [Addr -> Nat]
    BY <1>0, TaskFields
  <1>1. PICK c \in Code :
          /\ mem' = [mem EXCEPT ![g] = [a \in Addr |-> IF a \in DOMAIN c.set THEN c.set[a] ELSE mem[g][a]]]
          /\ task' = [task EXCEPT ![p].at = "entry", ![p].op = c.op, ![p].label = c.to]
    BY <1>0, <1>g DEF UserStep
  <1>2. c.op \in Op /\ c.to \in Labels /\ \A a \in DOMAIN c.set : c.set[a] \in Nat
    BY CodeAssumption
  <1> DEFINE x == [task[p] EXCEPT !.at = "entry", !.op = c.op, !.label = c.to]
             w == [a \in Addr |-> IF a \in DOMAIN c.set THEN c.set[a] ELSE mem[g][a]]
  <1>3. task' = [task EXCEPT ![p] = x]
    BY <1>0, <1>1
  <1>4. x \in Task /\ x.child = task[p].child /\ x.at = "entry"
    <2>1. "entry" \in Where
      BY DEF Where, Stops
    <2> QED
      BY <1>0, <1>2, <2>1 DEF Task
  <1>5. w \in [Addr -> Nat]
    BY <1>2, <1>g
  <1>6. mem' = [mem EXCEPT ![g] = w]
    BY <1>1
  <1> HIDE DEF x, w, g
  <1>7. mem' \in [Pids -> [Addr -> Nat]]
    BY <1>0, <1>5, <1>6
  <1>8. /\ task[p].at = "user" /\ reports' = reports \cup {p}
        /\ pipe' \in Nat /\ signalsLeft' \in Nat /\ UNCHANGED svVars
    BY <1>0 DEF UserStep, svVars
  <1> QED
    BY <1>3, <1>4, <1>7, <1>8, MoveIInv, PlacesType

\* A group of tasks is killed.
LEMMA DoomIInv ==
    ASSUME IInv, NEW S, NEW b \in BOOLEAN, task' = Doom(task, S, b),
           reports' = reports \ Doomed(task, S),
           UNCHANGED <<mem, pipe, svVars>>, signalsLeft' \in Nat
    PROVE  IInv'
  <1>0. /\ task \in [Pids -> Task] /\ reports \in SUBSET Pids
        /\ mem' \in [Pids -> [Addr -> Nat]] /\ pipe' \in Nat
    BY KernelTypes
  <1>1. DoomResult(task, S, task')
    BY <1>0, DoomType
  <1>2. \A q \in Pids : QuietTask(task, reports, task', reports', q)
    BY <1>1 DEF DoomResult, QuietTask
  <1>3. task' \in [Pids -> Task] /\ reports' \in SUBSET Pids
    BY <1>0, <1>1 DEF DoomResult
  <1> QED
    BY <1>0, <1>2, <1>3, QuietIInv DEF svVars

\* exit_group, execve and SIGKILL, which kill groups of tasks, keep IInv.
LEMMA KillStepsIInv ==
    ASSUME IInv, NEW p \in Pids, ExecuteExec(p) \/ ExecuteExitGroup(p) \/ SignalArrives(p)
    PROVE  IInv'
  <1>0. /\ task \in [Pids -> Task] /\ mem \in [Pids -> [Addr -> Nat]] /\ pipe \in Nat
        /\ signalsLeft \in Nat /\ task[p] \in Task
    BY KernelTypes
  <1>1. CASE ExecuteExec(p)
    <2> DEFINE S == {q \in Group(task, p) : q # p /\ task[q].at # "reaped"}
    <2>1. \/ StopAt(p, "execstop") /\ task[p].at = "kernel"
          \/ task' = Doom(task, S, FALSE) /\ reports' = reports \ Doomed(task, S)
      BY <1>1 DEF ExecuteExec
    <2>2. UNCHANGED <<mem, pipe, signalsLeft, svVars>>
      BY <1>1 DEF ExecuteExec
    <2> HIDE DEF S
    <2>3. CASE StopAt(p, "execstop") /\ task[p].at = "kernel"
      BY <1>0, <2>2, <2>3, AtIInv, PlacesType DEF StopAt, svVars
    <2>4. CASE task' = Doom(task, S, FALSE) /\ reports' = reports \ Doomed(task, S)
      BY <1>0, <2>2, <2>4, DoomIInv
    <2> QED
      BY <2>1, <2>3, <2>4
  <1>2. CASE ExecuteExitGroup(p)
    <2> DEFINE S == Group(task, p)
    <2>1. /\ task' = Doom(task, S, FALSE) /\ reports' = reports \ Doomed(task, S)
          /\ UNCHANGED <<mem, pipe, signalsLeft, svVars>>
      BY <1>2 DEF ExecuteExitGroup
    <2> HIDE DEF S
    <2> QED
      BY <1>0, <2>1, DoomIInv
  <1>3. CASE SignalArrives(p)
    <2>0. signalsLeft' \in Nat /\ UNCHANGED <<mem, pipe, svVars>>
      BY <1>0, <1>3 DEF SignalArrives
    <2>1. CASE task' = Doom(task, Group(task, p), TRUE) /\ reports' = reports \ Doomed(task, Group(task, p))
      BY <2>0, <2>1, DoomIInv
    <2>2. CASE \E sig \in Signals \ {"kill"} :
                  /\ task[p].at = "user"
                  /\ task' = [task EXCEPT ![p].at = "signal", ![p].sig = sig]
                  /\ reports' = reports \cup {p}
      <3>1. PICK sig \in Signals \ {"kill"} :
                  /\ task[p].at = "user"
                  /\ task' = [task EXCEPT ![p].at = "signal", ![p].sig = sig]
                  /\ reports' = reports \cup {p}
        BY <2>2
      <3> DEFINE x == [task[p] EXCEPT !.at = "signal", !.sig = sig]
      <3>2. task' = [task EXCEPT ![p] = x]
        BY <1>0, <3>1
      <3>3. sig \in Signals \ {"kill"} /\ "signal" \in Where
        BY DEF Where, Stops
      <3>4. x \in Task /\ x.child = task[p].child /\ x.at = "signal"
        BY <1>0, <3>3 DEF Task
      <3> HIDE DEF x
      <3>5. /\ task[p].at \in ExecutingAt /\ x.at \in ExecutingAt \cup (ReportedAt \ {"clonestop"})
            /\ reports' \in {reports, reports \cup {p}}
        BY <3>1, <3>4, PlacesType
      <3>6. /\ mem' \in [Pids -> [Addr -> Nat]] /\ pipe' \in Nat /\ signalsLeft' \in Nat
            /\ UNCHANGED svVars
        BY <1>0, <2>0
      <3> QED
        BY <3>2, <3>4, <3>5, <3>6, MoveIInv
    <2> QED
      BY <1>3, <2>1, <2>2 DEF SignalArrives
  <1> QED
    BY <1>1, <1>2, <1>3

\* Kernel sleepers are woken.
LEMMA ExecuteWakeIInv ==
    ASSUME IInv, NEW p \in Pids, ExecuteWake(p) PROVE IInv'
  <1>0. /\ task \in [Pids -> Task] /\ reports \in SUBSET Pids
        /\ mem \in [Pids -> [Addr -> Nat]] /\ pipe \in Nat
        /\ signalsLeft \in Nat
    BY KernelTypes
  <1>1. PICK ops, W :
          /\ W \subseteq Sleepers(task[p].tgid, task[p].op.addr, ops)
          /\ task' = [q \in Pids |-> IF q = p THEN [task[q] EXCEPT !.at = "exitcall"]
                                     ELSE IF q \in W THEN [task[q] EXCEPT !.at = "return"]
                                     ELSE task[q]]
    BY DEF ExecuteWake
  <1>2. task[p].at = "kernel" /\ reports' = reports \cup {p} /\ UNCHANGED <<pipe, signalsLeft, svVars>>
    BY DEF ExecuteWake
  <1>5. mem' \in [Pids -> [Addr -> Nat]]
    BY <1>0, StoreType DEF ExecuteWake
  <1>3. ASSUME NEW q \in Pids
        PROVE  task'[q] \in Task /\ QuietTask(task, reports, task', reports', q)
    <2>0. task[q] \in Task /\ {"exitcall", "return"} \subseteq Where
      BY <1>0 DEF Where, Running, Stops
    <2>1. CASE q = p
      <3>1. task'[q] = [task[q] EXCEPT !.at = "exitcall"]
        BY <1>1, <2>1
      <3>2. task'[q] \in Task /\ task'[q].at = "exitcall" /\ task'[q].child = task[q].child
        BY <2>0, <3>1 DEF Task
      <3> QED
        BY <1>2, <2>1, <3>2 DEF QuietTask, ExecutingAt, ReportedAt
    <2>2. CASE q # p /\ q \in W
      <3>1. task'[q] = [task[q] EXCEPT !.at = "return"] /\ task[q].at = "asleep"
        BY <1>1, <2>2 DEF Sleepers
      <3>2. task'[q] \in Task /\ task'[q].at = "return" /\ task'[q].child = task[q].child
        BY <2>0, <3>1 DEF Task
      <3> QED
        BY <3>1, <3>2 DEF QuietTask, ExecutingAt, ReportedAt
    <2>3. CASE q # p /\ q \notin W
      <3>1. task'[q] = task[q]
        BY <1>1, <2>3
      <3> QED
        BY <1>2, <2>0, <2>3, <3>1 DEF QuietTask
    <2> QED
      BY <2>1, <2>2, <2>3
  <1>4. task' \in [Pids -> Task]
    BY <1>1, <1>3
  <1> QED
    BY <1>0, <1>2, <1>3, <1>4, <1>5, QuietIInv DEF svVars

\* The end of a task, and of the pid namespace with the init, keeps IInv.
LEMMA FinalIInv ==
    ASSUME IInv, NEW p \in Pids, Final(p) PROVE IInv'
  <1>0. /\ task \in [Pids -> Task] /\ reports \in SUBSET Pids
        /\ mem \in [Pids -> [Addr -> Nat]] /\ pipe \in Nat
        /\ signalsLeft \in Nat /\ task[p] \in Task
    BY KernelTypes
  <1> DEFINE g == task[p].tgid
             a == task[p].ctid
             sleepers == IF a = NoAddr THEN {} ELSE Sleepers(g, a, {"wait", "timedwait"})
             last == g = InitPid /\ \A q \in Group(task, p) \ {p} : task[q].at \in Dead
             dead == [task EXCEPT ![p].at = "gone"]
             victims == IF last THEN Doomed(dead, Pids) ELSE {}
             woken(W) == [q \in Pids |-> IF q \in W THEN [dead[q] EXCEPT !.at = "return"] ELSE dead[q]]
  <1>1. PICK W \in SUBSET sleepers : task' = Doom(woken(W), victims, TRUE)
    BY DEF Final
  <1>2. /\ task[p].at = "final" /\ reports' = reports \ victims
        /\ mem' = [mem EXCEPT ![g] = [b \in Addr |-> IF b = a THEN 0 ELSE mem[g][b]]]
        /\ UNCHANGED <<pipe, signalsLeft, svVars>>
    BY <1>0, TaskFields DEF Final
  <1>3. mem' \in [Pids -> [Addr -> Nat]]
    <2>1. g \in Pids /\ mem[g] \in [Addr -> Nat]
      BY <1>0, TaskFields
    <2> DEFINE w == [b \in Addr |-> IF b = a THEN 0 ELSE mem[g][b]]
    <2>2. w \in [Addr -> Nat] /\ mem' = [mem EXCEPT ![g] = w]
      BY <1>2, <2>1
    <2> HIDE DEF w, g, a
    <2> QED
      BY <1>0, <2>1, <2>2
  <1> DEFINE t == woken(W)
  <1>4. ASSUME NEW q \in Pids
        PROVE  /\ t[q] \in Task /\ t[q].child = task[q].child
               /\ \/ q = p /\ t[q].at = "gone"
                  \/ task[q].at = "asleep" /\ t[q].at = "return"
                  \/ q # p /\ t[q].at = task[q].at
    <2>0. task[q] \in Task /\ {"gone", "return"} \subseteq Where
      BY <1>0 DEF Where, Running, Dead
    <2>1. q \in W => task[q].at = "asleep" /\ q # p
      BY <1>1, <1>2 DEF Sleepers
    <2>2. CASE q = p
      <3>1. t[q] = [task[q] EXCEPT !.at = "gone"]
        BY <1>0, <2>1, <2>2
      <3> HIDE DEF t
      <3>2. t[q] \in Task /\ t[q].child = task[q].child /\ t[q].at = "gone"
        BY <2>0, <3>1 DEF Task
      <3> QED
        BY <2>2, <3>2
    <2>3. CASE q \in W
      <3>1. t[q] = [task[q] EXCEPT !.at = "return"]
        BY <1>0, <2>1, <2>3
      <3> HIDE DEF t
      <3>2. t[q] \in Task /\ t[q].child = task[q].child /\ t[q].at = "return"
        BY <2>0, <3>1 DEF Task
      <3> QED
        BY <2>1, <2>3, <3>2
    <2>4. CASE q # p /\ q \notin W
      <3>1. t[q] = task[q]
        BY <1>0, <2>4
      <3> QED
        BY <2>0, <2>4, <3>1
    <2> QED
      BY <2>2, <2>3, <2>4
  <1>5. t \in [Pids -> Task]
    BY <1>4
  <1>6. DoomResult(t, victims, task')
    BY <1>1, <1>5, DoomType
  <1>7. reports' \in SUBSET reports
    BY <1>2
  <1> HIDE DEF t, victims
  <1>8. ASSUME NEW q \in Pids PROVE QuietTask(task, reports, task', reports', q)
    BY <1>2, <1>4, <1>6, <1>7 DEF DoomResult, QuietTask, ExecutingAt, ReportedAt
  <1>9. task' \in [Pids -> Task]
    BY <1>6 DEF DoomResult
  <1> QED
    BY <1>0, <1>2, <1>3, <1>7, <1>8, <1>9, QuietIInv DEF svVars

\* A new task: it is unknown to the supervisor, and only p's clone event names it.
LEMMA ExecuteCloneIInv ==
    ASSUME IInv, NEW p \in Pids, ExecuteClone(p) PROVE IInv'
  <1>0. /\ task \in [Pids -> Task] /\ reports \in SUBSET Pids
        /\ mem \in [Pids -> [Addr -> Nat]] /\ pipe \in Nat
        /\ signalsLeft \in Nat /\ task[p] \in Task
        /\ Inv(task, reports, sv, stack) /\ sv.resumed = {} /\ Resuming(sv) = {}
    BY KernelTypes, IInvParts
  <1> DEFINE op == task[p].op
             thread == op.name = "clone"
             g == task[p].tgid
  <1>f. g \in Pids /\ op \in Op /\ op.entry \in Labels /\ op.addr \in Addr \cup {NoAddr}
    BY <1>0, TaskFields, OpFields
  <1>1. PICK c \in Pids :
          /\ task[c].at = "unborn"
          /\ task' = [task EXCEPT
                ![p].at = "clonestop", ![p].child = c,
                ![c].at = "born", ![c].label = op.entry,
                ![c].tgid = IF thread THEN g ELSE c,
                ![c].ctid = IF op.name = "rawfork" THEN NoAddr ELSE op.addr]
          /\ mem' = IF thread
                    THEN [mem EXCEPT ![g] = [a \in Addr |-> IF a = op.addr THEN 1 ELSE mem[g][a]]]
                    ELSE [mem EXCEPT ![c] = mem[g]]
    BY <1>0, <1>f DEF ExecuteClone
  <1>2. /\ task[p].at = "kernel" /\ reports' = reports \cup {p}
        /\ UNCHANGED <<pipe, signalsLeft, svVars>>
    BY DEF ExecuteClone
  <1> DEFINE tg == IF thread THEN g ELSE c
             ct == IF op.name = "rawfork" THEN NoAddr ELSE op.addr
             x == [task[p] EXCEPT !.at = "clonestop", !.child = c]
             y == [task[c] EXCEPT !.at = "born", !.label = op.entry, !.tgid = tg, !.ctid = ct]
  <1>3. c # p /\ tg \in Pids /\ ct \in Addr \cup {NoAddr} /\ task[c] \in Task
    BY <1>0, <1>1, <1>2, <1>f
  <1>4. task' = [task EXCEPT ![p] = x, ![c] = y]
    BY <1>0, <1>1, <1>3
  <1>5. mem' \in [Pids -> [Addr -> Nat]]
    <2>1. mem[g] \in [Addr -> Nat]
      BY <1>0, <1>f
    <2> DEFINE w == [a \in Addr |-> IF a = op.addr THEN 1 ELSE mem[g][a]]
    <2>2. w \in [Addr -> Nat]
      BY <2>1
    <2>3. mem' = [mem EXCEPT ![g] = w] \/ mem' = [mem EXCEPT ![c] = mem[g]]
      BY <1>1
    <2> HIDE DEF w, g
    <2> QED
      BY <1>0, <1>f, <2>1, <2>2, <2>3
  <1> HIDE DEF tg, ct, g, op
  <1>6. /\ x \in Task /\ x.at = "clonestop" /\ x.child = c
        /\ y \in Task /\ y.at = "born" /\ y.child = task[c].child
    <2>1. {"clonestop", "born"} \subseteq Where
      BY DEF Where, Running, Stops
    <2>2. x \in Task /\ x.at = "clonestop" /\ x.child = c
      BY <1>0, <2>1 DEF Task
    <2>3. y \in Task /\ y.at = "born" /\ y.child = task[c].child
      BY <1>3, <1>f, <2>1 DEF Task
    <2> QED
      BY <2>2, <2>3
  <1> HIDE DEF x, y
  <1> DEFINE t == task'
             r == reports'
  <1>7. /\ t \in [Pids -> Task]
        /\ \A q \in Pids : t[q] = IF q = c THEN y ELSE IF q = p THEN x ELSE task[q]
        /\ r \in SUBSET Pids /\ \A q \in Pids : q \in r => q = p \/ q \in reports
    BY <1>0, <1>2, <1>3, <1>4, <1>6
  <1> HIDE DEF t, r
  <1>l. /\ OnlyCurrentBusy(task, reports, sv) /\ Unregistered(task, sv) /\ Unborn(task, sv)
        /\ AttachAhead(task, reports, sv) /\ CurrentKnown(task, sv) /\ StackKnown(task, sv, stack)
        /\ ChildNew(task, reports, sv)
        /\ sv.scheduled \subseteq Pids /\ sv.threads \subseteq Pids
    BY <1>0 DEF Inv, Link, SupervisorType
  <1>8. c \notin sv.threads /\ c \notin sv.stoppedPending /\ c # sv.current
    BY <1>1, <1>l DEF Unborn, CurrentKnown, KnownOrReaped
  <1>9. p \in sv.threads /\ (p \in sv.scheduled => p = sv.current)
    BY <1>2, <1>l DEF Unregistered, OnlyCurrentBusy, Busy, ExecutingAt
  <1>10. OnlyCurrentBusy(t, r, sv) /\ Unregistered(t, sv)
    <2>1. OnlyCurrentBusy(t, r, sv)
      <3> SUFFICES ASSUME NEW q \in sv.scheduled, Busy(t, r, sv, q), q # p PROVE Busy(task, reports, sv, q)
        BY <1>9, <1>l DEF OnlyCurrentBusy
      <3>1. q # c /\ q \in Pids
        BY <1>8, <1>l DEF Inv, Bookkeeping, IInv
      <3> QED
        BY <1>0, <1>7, <3>1 DEF Busy
    <2>2. Unregistered(t, sv)
      <3> SUFFICES ASSUME NEW q \in Pids \ sv.threads PROVE t[q].at \notin ExecutingAt \cup ReportedAt
        BY <1>0 DEF Unregistered
      <3>1. CASE q = c
        BY <1>6, <1>7, <3>1 DEF ExecutingAt, ReportedAt
      <3>2. CASE q # c
        BY <1>7, <1>9, <1>l, <3>2 DEF Unregistered
      <3> QED
        BY <3>1, <3>2
    <2> QED
      BY <2>1, <2>2
  <1>11. Unborn(t, sv)
    BY <1>6, <1>7, <1>l DEF Unborn
  <1>12. AttachAhead(t, r, sv)
    <2> SUFFICES ASSUME NEW q \in Pids, t[q].at = "born" \/ (q \in r /\ t[q].at = "attach")
                 PROVE  q \notin sv.stoppedPending /\ (q \in sv.threads => q \in sv.pendingStart)
      BY DEF AttachAhead
    <2>1. CASE q = c
      BY <1>8, <2>1
    <2>2. CASE q = p
      BY <1>3, <1>6, <1>7, <2>2
    <2>3. CASE q # c /\ q # p
      BY <1>7, <1>l, <2>3 DEF AttachAhead
    <2> QED
      BY <2>1, <2>2, <2>3
  <1>13. \A q \in Pids : task[q].at = "reaped" => t[q].at = "reaped"
    BY <1>1, <1>2, <1>7
  <1>14. CurrentKnown(t, sv)
    BY <1>13, <1>l DEF CurrentKnown, KnownOrReaped
  <1>15. StackKnown(t, sv, stack)
    <2> SUFFICES ASSUME NEW i \in DOMAIN stack
                 PROVE  KnownOrReaped(t, sv, stack[i][1]) /\ KnownOrReaped(t, sv, stack[i][2])
      BY DEF StackKnown
    <2>1. stack[i][1] \in Pids /\ stack[i][2] \in Pids
      <3>1. stack[i] \in Pids \X Pids
        BY <1>0 DEF Inv
      <3> QED
        BY <3>1
    <2> QED
      BY <1>13, <1>l, <2>1 DEF StackKnown, KnownOrReaped
  <1>16. ChildNew(t, r, sv)
    <2>1. \A q \in Pids : task[q].child \in Pids /\ (q # p => t[q].child = task[q].child)
      BY <1>0, <1>6, <1>7, TaskFields
    <2>2. t[p].child = c /\ t[p].at = "clonestop" /\ t[c].at = "born" /\ ~CloneStopped(t, r, c)
      BY <1>3, <1>6, <1>7 DEF CloneStopped
    <2>3. \A q \in Pids : q # p /\ CloneStopped(t, r, q) => CloneStopped(task, reports, q)
      BY <1>7, <2>2 DEF CloneStopped
    <2>4. \A q \in Pids : CloneStopped(task, reports, q) => task[q].child # c
      BY <1>1, <1>l DEF ChildNew
    <2>5. \A q \in Pids : task[q].at # "unborn" => t[q].at # "unborn"
      BY <1>6, <1>7
    <2> SUFFICES ASSUME NEW q \in Pids, CloneStopped(t, r, q)
                 PROVE  /\ t[q].child \notin sv.threads
                        /\ t[q].child # sv.current
                        /\ t[t[q].child].at # "unborn"
                        /\ \A u \in Pids : CloneStopped(t, r, u) /\ t[u].child = t[q].child => u = q
      BY DEF ChildNew
    <2>6. CASE q = p
      <3>1. \A u \in Pids : CloneStopped(t, r, u) /\ t[u].child = c => u = p
        BY <2>1, <2>3, <2>4
      <3> QED
        BY <1>8, <2>2, <2>6, <3>1
    <2>7. CASE q # p
      <3>1. /\ CloneStopped(task, reports, q) /\ t[q].child = task[q].child /\ task[q].child # c
            /\ task[q].child \in Pids
        BY <2>1, <2>3, <2>4, <2>7
      <3>2. /\ task[q].child \notin sv.threads /\ task[q].child # sv.current
            /\ task[task[q].child].at # "unborn"
            /\ \A u \in Pids : CloneStopped(task, reports, u) /\ task[u].child = task[q].child => u = q
        BY <1>l, <3>1 DEF ChildNew
      <3>3. \A u \in Pids : CloneStopped(t, r, u) /\ t[u].child = t[q].child => u = q
        BY <2>1, <2>2, <2>3, <3>1, <3>2
      <3> QED
        BY <2>5, <3>1, <3>2, <3>3
    <2> QED
      BY <2>6, <2>7
  <1>17. Inv(t, r, sv, stack)
    BY <1>0, <1>7, <1>10, <1>11, <1>12, <1>14, <1>15, <1>16 DEF Inv, Link
  <1>18. sv' = sv /\ stack' = stack /\ outcome' = outcome
    BY <1>2 DEF svVars
  <1>19. TypeOK'
    BY <1>0, <1>2, <1>5, <1>7, <1>18 DEF t, r, IInv, TypeOK
  <1> QED
    BY <1>0, <1>17, <1>18, <1>19 DEF IInv, Inv, t, r

-----------------------------------------------------------------------------
(* The invariant *)

\* The initial states satisfy IInv.
LEMMA InitIInv == Init => IInv
  <1> SUFFICES ASSUME Init PROVE IInv
    OBVIOUS
  <1>1. task \in [Pids -> Task]
    <2>1. ASSUME NEW p \in Pids
          PROVE  InitialTasks[p] \in Task
      <3>1. {"attach", "unborn"} \subseteq Where /\ Start \in Labels
        BY CodeAssumption DEF Where, Stops
      <3> QED
        BY <2>1, <3>1, NoOpType DEF InitialTasks, Task
    <2> QED
      BY <2>1 DEF Init, InitialTasks
  <1>2. sv \in SupervisorType
    <2>1. InitPid \in Pids /\ <<InitPid>> \in Seq(Pids)
      BY PidsAssumption
    <2>2. DefaultCloneInfo \in CloneInfo
      BY DEF DefaultCloneInfo, CloneInfo
    <2>3. <<>> \in Seq(Event) /\ <<>> \in Seq(Pids) /\ NoVtid \in Int
      BY DEF NoVtid
    <2> QED
      BY <2>1, <2>2, <2>3 DEF Init, NewSupervisor, SupervisorType
  <1>3. TypeOK
    BY <1>1, <1>2, SignalsAssumption DEF Init, TypeOK, Outcomes
  <1>4. Range(sv.runnable) = {InitPid} /\ IsInjective(sv.runnable)
    <2>1. sv.runnable = <<InitPid>>
      BY DEF Init, NewSupervisor
    <2> QED
      BY <2>1 DEF Range, IsInjective
  <1>5. Bookkeeping(sv)
    <2>1. \A a \in Addr : sv.waiting[a] = <<>> /\ Range(<<>>) = {} /\ IsInjective(<<>>)
      BY DEF Init, NewSupervisor, Range, IsInjective
    <2>2. ParkedOK(sv)
      BY <2>1 DEF Init, NewSupervisor, ParkedOK
    <2>3. RunQueueOK(sv) /\ NotLost(sv)
      BY <1>4, PidsAssumption DEF Init, NewSupervisor, RunQueueOK, NotLost
    <2>4. VtidsOK(sv)
      BY PidsAssumption DEF Init, NewSupervisor, VtidsOK
    <2> QED
      BY <2>2, <2>3, <2>4 DEF Init, NewSupervisor, Bookkeeping
  <1>6. Link(task, reports, sv, stack) /\ sv.resumed = {}
    <2>1. \A p \in Pids : task[p].at = IF p = InitPid THEN "attach" ELSE "unborn"
      BY DEF Init, InitialTasks
    <2>2. sv.resumed = {} /\ sv.threads = {InitPid} /\ sv.scheduled = {InitPid}
          /\ sv.stoppedPending = {} /\ sv.current = NoPid
      BY DEF Init, NewSupervisor
    <2>3. reports = {} /\ stack = <<>>
      BY DEF Init
    <2> QED
      BY <2>1, <2>2, <2>3, PidsAssumption DEF Link, OnlyCurrentBusy, Busy, Resuming, Unregistered,
         Unborn, AttachAhead, CurrentKnown, StackKnown, ChildNew, CloneStopped, ExecutingAt, ReportedAt
  <1> QED
    BY <1>3, <1>5, <1>6 DEF IInv

\* Where nobody sends SIGSTOP, a SIGSTOP is an attach stop.
LEMMA NoStopsAttach ==
    ASSUME NoStops, IInv PROVE AttachOnly
  BY TaskFields DEF NoStops, AttachOnly, IInv, TypeOK, NoSig

\* Every step keeps IInv, if await_attach takes no signal for an attach stop.
LEMMA NextIInv == IInv /\ AttachOnly /\ [Next]_vars => IInv'
  <1> SUFFICES ASSUME IInv, AttachOnly, [Next]_vars PROVE IInv'
    OBVIOUS
  <1>1. CASE Run
    BY <1>1, RunIInv
  <1>2. CASE InitExited
    BY <1>2, InitExitedIInv
  <1>3. ASSUME NEW p \in Pids, SignalArrives(p) PROVE IInv'
    BY <1>3, KillStepsIInv
  <1>4. ASSUME NEW p \in Pids, KernelStep(p) PROVE IInv'
    BY <1>4, UserStepIInv, SimpleStepsIInv, ExecuteWakeIInv, ExecuteCloneIInv, KillStepsIInv, FinalIInv
       DEF KernelStep
  <1>5. ASSUME NEW p \in Pids, SupervisorStep(p) PROVE IInv'
    BY <1>5, SyscallEntryIInv, SyscallExitIInv, CloneEventIInv, EventIInv, AwaitedAttachIInv,
       StoppedIInv, ThreadExitedIInv DEF SupervisorStep
  <1>6. CASE UNCHANGED vars
    <2>1. UNCHANGED <<task, reports, mem, pipe, signalsLeft>> /\ UNCHANGED svVars
      BY <1>6 DEF vars, svVars
    <2>2. \A q \in Pids : QuietTask(task, reports, task', reports', q)
      BY <2>1 DEF QuietTask
    <2> QED
      BY <2>1, <2>2, KernelTypes, QuietIInv
  <1>7. CASE Done
    BY <1>6, <1>7 DEF Done
  <1> QED
    BY <1>1, <1>2, <1>3, <1>4, <1>5, <1>6, <1>7 DEF Next

\* The inductive invariant holds in every run of the supervisor, whatever the
\* guest does and in whatever order stops are reported, if nobody sends SIGSTOP.
THEOREM Invariant ==
    ASSUME NoStops PROVE Spec => []IInv
  <1>1. IInv /\ [Next]_vars => IInv'
    BY NextIInv, NoStopsAttach
  <1> QED
    BY <1>1, InitIInv, PTL DEF Spec

\* Every variable keeps its type: in particular the queues stay queues of pids and
\* a futex call names a word, if nobody sends SIGSTOP.
THEOREM TypeCorrect ==
    ASSUME NoStops PROVE Spec => []TypeOK
  <1>1. IInv => TypeOK
    BY DEF IInv
  <1> QED
    BY <1>1, Invariant, PTL

\* "Threads are run one at a time": only the current thread of the scheduler
\* executes, in every reachable state, if nobody sends SIGSTOP.
THEOREM SingleRunnerHolds ==
    ASSUME NoStops PROVE Spec => []SingleRunner
  <1>1. IInv => SingleRunner
    BY DEF IInv, Link, OnlyCurrentBusy, Busy, SingleRunner, Executing, ExecutingAt
  <1> QED
    BY <1>1, Invariant, PTL

\* The run queue has no duplicates and holds only threads that are ready, so
\* schedule_next takes its first entry, if nobody sends SIGSTOP (await_attach would
\* take one for an attach stop, and queue a thread twice).
THEOREM RunQueueHolds ==
    ASSUME NoStops PROVE Spec => []RunQueueInv
  <1>1. IInv => RunQueueInv
    BY DEF IInv, Bookkeeping, RunQueueInv
  <1> QED
    BY <1>1, Invariant, PTL

\* Parked threads and futex queues agree: a wake always reaches a parked thread,
\* and only a parked one, if nobody sends SIGSTOP.
THEOREM ParkedHolds ==
    ASSUME NoStops PROVE Spec => []ParkedInv
  <1>1. IInv => ParkedInv
    BY DEF IInv, Bookkeeping, ParkedInv
  <1> QED
    BY <1>1, Invariant, PTL

\* No interleaving of clones, exits, signals other than SIGSTOP and wakes drops a thread from the
\* supervisor's queues.
THEOREM NoThreadLostHolds ==
    ASSUME NoStops PROVE Spec => []NoThreadLost
  <1>1. IInv => NoThreadLost
    BY DEF IInv, Bookkeeping, NoThreadLost
  <1> QED
    BY <1>1, Invariant, PTL

\* Two live tasks never have the same virtual thread id, if nobody sends SIGSTOP.
THEOREM VtidsUniqueHolds ==
    ASSUME NoStops PROVE Spec => []VtidsUnique
  <1>1. IInv => VtidsUnique
    BY DEF IInv, Bookkeeping, VtidsOK, VtidsUnique
  <1> QED
    BY <1>1, Invariant, PTL
=============================================================================

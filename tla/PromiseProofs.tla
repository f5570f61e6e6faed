---------------------------- MODULE PromiseProofs ----------------------------
(***************************************************************************)
(* Lifecycle.tla implements Container.tla for an id that is given to one   *)
(* container: every step of a command, a supervisor or a process is a step *)
(* of the container's life, a new record, an erased one, the question for  *)
(* a start, or none of these.                                              *)
(***************************************************************************)
EXTENDS LifecycleProofs

-----------------------------------------------------------------------------
(* Lives *)

\* What a life is read from.
LEMMA LifeIs ==
    ASSUME NEW c \in Cli, sup[c].pid \in Pid, proc[sup[c].pid] \in ProcType
    PROVE  LET q == proc[sup[c].pid]
           IN /\ q.owner # c => Life(c) = "dead"
              /\ q.owner = c /\ q.pc \in {"cloned", "wait_maps", "setup", "stopping"} => Life(c) = "creating"
              /\ q.owner = c /\ q.pc = "paused" /\ StartTaken(c) => Life(c) = "started"
              /\ q.owner = c /\ q.pc = "paused" /\ ~StartTaken(c) => Life(c) = "created"
              /\ q.owner = c /\ q.pc = "running" => Life(c) = "running"
              /\ q.owner = c /\ q.pc = "zombie" => Life(c) = "dead"
  <1>1. sup[c].pid # NoPid
    BY PidAssumption
  <1> QED
    BY <1>1 DEF Life

\* A supervisor that has cloned nothing has no container.
LEMMA NoLife == ASSUME NEW c \in Cli, sup[c].pid = NoPid PROVE Life(c) = "none"
  BY DEF Life

\* ... after a step, too.
LEMMA LifeIsNext ==
    ASSUME NEW c \in Cli, sup'[c].pid \in Pid, proc'[sup'[c].pid] \in ProcType
    PROVE  LET q == proc'[sup'[c].pid]
           IN /\ q.owner # c => Life(c)' = "dead"
              /\ q.owner = c /\ q.pc \in {"cloned", "wait_maps", "setup", "stopping"} => Life(c)' = "creating"
              /\ q.owner = c /\ q.pc = "paused" /\ StartTaken(c)' => Life(c)' = "started"
              /\ q.owner = c /\ q.pc = "paused" /\ ~StartTaken(c)' => Life(c)' = "created"
              /\ q.owner = c /\ q.pc = "running" => Life(c)' = "running"
              /\ q.owner = c /\ q.pc = "zombie" => Life(c)' = "dead"
  <1>1. sup'[c].pid # NoPid
    BY PidAssumption
  <1> QED
    BY <1>1 DEF Life

\* The same, after a step.
LEMMA NoLifeNext == ASSUME NEW c \in Cli, sup'[c].pid = NoPid PROVE Life(c)' = "none"
  BY DEF Life

\* The stages of an init that a life does not tell apart.
InSetup(d, q) == q.owner = d /\ q.pc \in {"cloned", "wait_maps", "setup", "stopping"}
IsDead(d, q) == q.owner # d \/ q.pc = "zombie"
SameStage(d, q, qq) ==
    \/ qq = q
    \/ InSetup(d, q) /\ InSetup(d, qq)
    \/ IsDead(d, q) /\ IsDead(d, qq)

\* A life stays as it is while its supervisor and its init stay where they are.
LEMMA SameLife ==
    ASSUME IInv, IInv', NEW d \in Cli, sup'[d].pid = sup[d].pid,
           sup[d].pid \in Pid => SameStage(d, proc[sup[d].pid], proc'[sup[d].pid]),
           \/ StartTaken(d)' <=> StartTaken(d)
           \/ sup[d].pid \in Pid => IsDead(d, proc[sup[d].pid])
    PROVE  Life(d)' = Life(d)
  <1>1. /\ sup[d].pid \in Pid \cup {NoPid}
        /\ \A p \in Pid : proc[p] \in ProcType /\ proc'[p] \in ProcType
    BY Types DEF IInv, TypeOK, SupType
  <1>2. CASE sup[d].pid = NoPid
    BY <1>2, NoLife, NoLifeNext
  <1>3. CASE sup[d].pid \in Pid
    <2> DEFINE q == proc[sup[d].pid]
               qq == proc'[sup[d].pid]
    <2>1. CASE IsDead(d, q) /\ IsDead(d, qq)
      BY <1>1, <1>3, <2>1, LifeIs, LifeIsNext DEF IsDead
    <2>2. CASE InSetup(d, q) /\ InSetup(d, qq)
      BY <1>1, <1>3, <2>2, LifeIs, LifeIsNext DEF InSetup
    <2>3. CASE qq = q /\ ~IsDead(d, q)
      <3>1. q.owner = d /\ q.pc \in {"cloned", "wait_maps", "setup", "stopping", "paused", "running"}
        <4>1. q.owner = d /\ q.pc # "zombie" /\ q \in ProcType
          BY <1>1, <1>3, <2>3 DEF IsDead
        <4>2. q.pc \notin {"free", "foreign"}
          BY <1>3, <4>1, Types DEF IInv, Ownership
        <4> QED
          BY <4>1, <4>2 DEF ProcType
      <3>2. StartTaken(d)' <=> StartTaken(d)
        BY <1>3, <2>3
      <3> QED
        BY <1>1, <1>3, <2>3, <3>1, <3>2, LifeIs, LifeIsNext
    <2> QED
      BY <1>3, <2>1, <2>2, <2>3 DEF SameStage
  <1> QED
    BY <1>1, <1>2, <1>3

\* A supervisor that is left alone takes up no start, and its command stays
\* what it was.
LEMMA SameStartTaken ==
    ASSUME IInv, CliForward, NEW d \in Cli, sup'[d] = sup[d]
    PROVE  /\ StartTaken(d)' <=> StartTaken(d)
           /\ d \in Attached' <=> d \in Attached
  <1>1. sup[d].pc = "limits" => (Detached(d)' <=> Detached(d))
    BY DetachedStays
  <1>2. sup[d].pid # NoPid => sup[d].pc # "none"
    BY DEF IInv, Handshake
  <1>3. sup[d].pid # NoPid => cli'[d].cmd = cli[d].cmd
    BY <1>2, Types DEF CliForward
  <1> QED
    BY <1>1, <1>3 DEF StartTaken, Attached

\* Lives as one function.
LEMMA LivesStay == ASSUME \A d \in Cli : Life(d)' = Life(d) PROVE Lives' = Lives
  BY DEF Lives

\* A step that concerns one container changes one life.
LEMMA OneLives ==
    ASSUME NEW c \in Cli, \A d \in Cli \ {c} : Life(d)' = Life(d)
    PROVE  Lives[c] = Life(c) /\ Lives' = [Lives EXCEPT ![c] = Life(c)']
  BY DEF Lives

\* A start that was asked for stays asked for.
LEMMA AskedStays == ASSUME IInv, CliForward, Asked PROVE Asked'
  BY DEF CliForward, Asked

-----------------------------------------------------------------------------
(* Commands *)

\* A command that touches neither a supervisor nor a process at most asks for
\* a start, or erases the record.
LEMMA CommandPromise ==
    ASSUME IInv, IInv', CliForward, sup' = sup, proc' = proc,
           \/ Recorded' = Recorded
           \/ Recorded' = NoCli /\ (Asked' => Asked)
    PROVE  [Promised!Next]_Promised!vars
  <1>1. Lives' = Lives
    BY SameStartTaken, SameLife, LivesStay DEF SameStage
  <1>2. Attached' = Attached
    <2>1. \A d \in Cli : d \in Attached' <=> d \in Attached
      BY SameStartTaken
    <2> QED
      BY <2>1 DEF Attached
  <1>3. CASE Asked' <=> Asked
    <2>1. Asked' = Asked
      BY <1>3 DEF Asked
    <2> QED
      BY <1>1, <1>2, <2>1 DEF Promised!Next, Promised!vars, Promised!Erase
  <1>4. CASE ~(Asked' <=> Asked)
    <2>1. Asked' = TRUE /\ Recorded' = Recorded
      BY <1>4, AskedStays DEF Asked
    <2> QED
      BY <1>1, <1>2, <2>1 DEF Promised!Next, Promised!AskStart
  <1> QED
    BY <1>3, <1>4

\* One command moves and keeps its name, and none takes back a start.
LEMMA OneForward ==
    ASSUME IInv, NEW c \in Cli, NEW r, cli' = [cli EXCEPT ![c] = r],
           cli[c].pc # "idle" => r.cmd = cli[c].cmd,
           \/ cli[c].pc \notin {"close", "done"}
           \/ cli[c].cmd # "start"
           \/ r.pc \in {"close", "done"} /\ r.ino = cli[c].ino
    PROVE  CliForward
  <1>1. \A d \in Cli : cli'[d] = IF d = c THEN r ELSE cli[d]
    BY DEF IInv, TypeOK
  <1> QED
    BY <1>1 DEF CliForward

\* So do Goto and Finish.
LEMMA FinishForward ==
    ASSUME IInv, NEW c \in Cli, NEW result, Finish(c, result), cli[c].pc # "idle"
    PROVE  CliForward
  <1> DEFINE r == [cli[c] EXCEPT !.pc = "done", !.result = result]
  <1>1. cli' = [cli EXCEPT ![c] = r]
    BY DEF Finish
  <1>2. r.cmd = cli[c].cmd /\ r.pc = "done" /\ r.ino = cli[c].ino
    BY Types DEF CliType
  <1> HIDE DEF r
  <1> QED
    BY <1>1, <1>2, OneForward

\* A command that goes to its next step goes forward.
LEMMA GotoForward ==
    ASSUME IInv, NEW c \in Cli, NEW pc, Goto(c, pc), cli[c].pc \notin {"idle", "close", "done"}
    PROVE  CliForward
  <1> DEFINE r == [cli[c] EXCEPT !.pc = pc]
  <1>1. cli' = [cli EXCEPT ![c] = r]
    BY DEF Goto
  <1>2. r.cmd = cli[c].cmd
    BY Types DEF CliType
  <1> HIDE DEF r
  <1> QED
    BY <1>1, <1>2, OneForward

\* Every command does.
LEMMA CommandForward ==
    ASSUME IInv, NEW c \in Cli, Invoke(c) \/ CommandStep(c)
    PROVE  CliForward
  <1>0. cli[c] \in CliType
    BY Types
  <1>1. CASE \E result : Finish(c, result) /\ cli[c].pc # "idle"
    BY <1>1, FinishForward
  <1>2. CASE \E pc : Goto(c, pc) /\ cli[c].pc \notin {"idle", "close", "done"}
    BY <1>2, GotoForward
  <1>3. CASE Invoke(c)
    <2>1. PICK cmd : cli' = [cli EXCEPT ![c] = [cli[c] EXCEPT !.cmd = cmd, !.pc = "begin"]]
      BY <1>3 DEF Invoke
    <2>2. cli[c].pc = "idle"
      BY <1>3 DEF Invoke
    <2> QED
      BY <2>1, <2>2, OneForward
  <1>4. CASE StartRead(c) \/ KillRead(c) \/ DeleteRead(c) \/ ForceRead(c) \/ ExecRead(c)
    <2>1. PICK allowed, pc : Reads(c, allowed, pc)
      BY <1>4 DEF StartRead, KillRead, DeleteRead, ForceRead, ExecRead
    <2>2. cli[c].pc = "begin"
      BY <2>1 DEF Reads
    <2>3. PICK r : cli' = [cli EXCEPT ![c] = r] /\ r.cmd = cli[c].cmd
      BY <1>0, <2>1 DEF Reads, CliType
    <2> QED
      BY <2>2, <2>3, OneForward
  <1>5. CASE PrintState(c) \/ ListContainers(c)
    <2>1. cli[c].pc = "begin"
      BY <1>5 DEF PrintState, ListContainers, Prints
    <2>2. PICK r : cli' = [cli EXCEPT ![c] = r] /\ r.cmd = cli[c].cmd
      BY <1>0, <1>5 DEF PrintState, ListContainers, Prints, CliType
    <2> QED
      BY <2>1, <2>2, OneForward
  <1>6. CASE StartOpen(c) \/ StartWrite(c) \/ KillSend(c) \/ ForceKill(c) \/ RemoveScan(c) \/ EnterNs(c)
             \/ \E e \in Entries : RemoveEntry(c, e)
    <2>1. cli[c].pc \in {"open", "write", "send", "scan", "enter", "unlink"}
      BY <1>6 DEF StartOpen, StartWrite, KillSend, ForceKill, RemoveScan, EnterNs, RemoveEntry
    <2>2. PICK r : cli' = [cli EXCEPT ![c] = r] /\ r.cmd = cli[c].cmd
      BY <1>0, <1>6 DEF StartOpen, StartWrite, KillSend, ForceKill, RemoveScan, EnterNs, RemoveEntry, Finish,
         Goto, CliType
    <2> QED
      BY <2>1, <2>2, OneForward
  <1>7. CASE RejectBundle(c) \/ ReadAnswer(c) \/ ReadFails(c) \/ ExecEnds(c) \/ StartClose(c) \/ RemoveDir(c)
    BY <1>1, <1>7 DEF RejectBundle, ReadAnswer, ReadFails, ExecEnds, StartClose, RemoveDir
  <1>8. CASE InitContainerDir(c) \/ ResetTrace(c) \/ Mkfifo(c) \/ ForkDaemon(c)
    BY <1>1, <1>2, <1>8 DEF InitContainerDir, ResetTrace, Mkfifo, ForkDaemon
  <1> QED
    BY <1>3, <1>4, <1>5, <1>6, <1>7, <1>8 DEF CommandStep

-----------------------------------------------------------------------------
(* Processes *)

\* An init that is there is in one of these parts of its life.
LEMMA LiveLife ==
    ASSUME IInv, NEW d \in Cli, sup[d].pid \in Pid, ~IsDead(d, proc[sup[d].pid])
    PROVE  Life(d) \in {"creating", "created", "started", "running"}
  <1> DEFINE q == proc[sup[d].pid]
  <1>1. q.owner = d /\ q.pc # "zombie" /\ q \in ProcType
    BY Types DEF IsDead
  <1>2. q.pc \notin {"free", "foreign"}
    BY <1>1, Types DEF IInv, Ownership
  <1>3. q.pc \in {"cloned", "wait_maps", "setup", "stopping", "paused", "running"}
    BY <1>1, <1>2 DEF ProcType
  <1> QED
    BY <1>1, <1>3, LifeIs

\* One container's init dies, or nothing of its life is seen to change.
LEMMA DiesOrNot ==
    ASSUME IInv, IInv', NEW c \in Cli, sup'[c].pid = sup[c].pid,
           \A d \in Cli \ {c} : Life(d)' = Life(d),
           Attached' = Attached, Asked' = Asked, Recorded' = Recorded,
           sup[c].pid \in Pid =>
               \/ IsDead(c, proc'[sup[c].pid])
               \/ /\ SameStage(c, proc[sup[c].pid], proc'[sup[c].pid])
                  /\ StartTaken(c)' <=> StartTaken(c)
    PROVE  [Promised!Next]_Promised!vars
  <1>1. CASE Life(c)' = Life(c)
    <2>1. Lives' = Lives
      BY <1>1, LivesStay
    <2> QED
      BY <2>1 DEF Promised!vars
  <1>2. CASE Life(c)' # Life(c)
    <2>1. sup[c].pid \in Pid
      BY <1>2, Types, NoLife, NoLifeNext DEF SupType
    <2>2. IsDead(c, proc'[sup[c].pid]) /\ ~IsDead(c, proc[sup[c].pid])
      BY <1>2, <2>1, SameLife DEF SameStage
    <2>3. Life(c)' = "dead"
      BY <2>1, <2>2, LifeIsNext DEF IsDead, IInv, TypeOK
    <2>4. Lives[c] \in {"creating", "created", "started", "running"} /\ Lives' = [Lives EXCEPT ![c] = "dead"]
      BY <2>1, <2>2, <2>3, LiveLife, OneLives
    <2>5. Promised!Die(c)
      BY <2>4 DEF Promised!Die, Promised!Becomes
    <2> QED
      BY <2>5 DEF Promised!Next
  <1> QED
    BY <1>1, <1>2

\* A process moves, and no supervisor.
LEMMA ProcessPromise ==
    ASSUME IInv, IInv', CliForward, sup' = sup, Recorded' = Recorded, Asked' <=> Asked,
           NEW p \in Pid, NEW q, proc' = [proc EXCEPT ![p] = q],
           \/ q.owner = proc[p].owner /\ q.pc = "zombie"
           \/ /\ q.owner = proc[p].owner
              /\ {proc[p].pc, q.pc} \subseteq {"cloned", "wait_maps", "setup", "stopping"}
           \/ q.owner = NoCli /\ proc[p].pc \in {"zombie", "free", "foreign"}
    PROVE  [Promised!Next]_Promised!vars
  <1>1. \A x \in Pid : proc'[x] = IF x = p THEN q ELSE proc[x]
    BY DEF IInv, TypeOK
  <1>2. Attached' = Attached
    <2>1. \A d \in Cli : d \in Attached' <=> d \in Attached
      BY SameStartTaken
    <2> QED
      BY <2>1 DEF Attached
  <1>3. Asked' = Asked
    BY DEF Asked
  <1>4. ASSUME NEW d \in Cli, proc[p].owner # d PROVE Life(d)' = Life(d)
    <2>1. q.owner # d
      BY <1>4, CliAssumption
    <2>2. sup[d].pid \in Pid => SameStage(d, proc[sup[d].pid], proc'[sup[d].pid])
      BY <1>1, <1>4, <2>1 DEF SameStage, IsDead
    <2> QED
      BY <2>2, SameLife, SameStartTaken
  <1>5. CASE proc[p].owner \in Cli
    <2>1. PICK c \in Cli : proc[p].owner = c
      BY <1>5
    <2>2. sup[c].pid = p
      BY <2>1, CliAssumption DEF IInv, Ownership
    <2>3. IsDead(c, proc'[p]) \/ SameStage(c, proc[p], proc'[p])
      BY <1>1, <2>1, CliAssumption DEF IsDead, SameStage, InSetup
    <2>4. StartTaken(c)' <=> StartTaken(c)
      BY SameStartTaken
    <2>5. \A d \in Cli \ {c} : Life(d)' = Life(d)
      BY <1>4, <2>1
    <2> QED
      BY <1>2, <1>3, <2>2, <2>3, <2>4, <2>5, DiesOrNot
  <1>6. CASE proc[p].owner \notin Cli
    <2>1. Lives' = Lives
      BY <1>4, <1>6, LivesStay
    <2> QED
      BY <1>2, <1>3, <2>1 DEF Promised!vars
  <1> QED
    BY <1>5, <1>6

\* Every process does so,
LEMMA ProcessStepPromise ==
    ASSUME IInv, IInv', NEW p \in Pid, ProcessStep(p) \/ HostReuses(p)
    PROVE  [Promised!Next]_Promised!vars
  <1>0. proc[p] \in ProcType /\ FreeProc.owner = NoCli
    BY Types DEF FreeProc
  <1>1. UNCHANGED <<cli, sup, fs>>
    BY DEF ProcessStep, ChildReady, ChildStops, ChildFails, GuestExit, HostReaps, HostReuses
  <1>2. CliForward /\ Recorded' = Recorded /\ (Asked' <=> Asked)
    BY <1>1 DEF CliForward, Recorded, Asked
  <1>3. PICK q : /\ proc' = [proc EXCEPT ![p] = q]
                 /\ \/ q.owner = proc[p].owner /\ q.pc = "zombie"
                    \/ /\ q.owner = proc[p].owner
                       /\ {proc[p].pc, q.pc} \subseteq {"cloned", "wait_maps", "setup", "stopping"}
                    \/ q.owner = NoCli /\ proc[p].pc \in {"zombie", "free", "foreign"}
    <2>1. CASE ChildReady(p)
      <3> DEFINE q == [proc[p] EXCEPT !.pc = "wait_maps"]
      <3>1. proc' = [proc EXCEPT ![p] = q] /\ proc[p].pc = "cloned"
        BY <2>1 DEF ChildReady
      <3>2. q.owner = proc[p].owner /\ q.pc = "wait_maps"
        BY <1>0 DEF ProcType
      <3> QED
        BY <3>1, <3>2
    <2>2. CASE ChildStops(p)
      <3> DEFINE q == [proc[p] EXCEPT !.pc = "stopping"]
      <3>1. proc' = [proc EXCEPT ![p] = q] /\ proc[p].pc = "setup"
        BY <2>2 DEF ChildStops
      <3>2. q.owner = proc[p].owner /\ q.pc = "stopping"
        BY <1>0 DEF ProcType
      <3> QED
        BY <3>1, <3>2
    <2>3. CASE ChildFails(p) \/ \E code \in Codes : GuestExit(p, code)
      <3>1. PICK code : proc' = [proc EXCEPT ![p] = [proc[p] EXCEPT !.pc = "zombie", !.code = code]]
        BY <2>3 DEF ChildFails, GuestExit
      <3> DEFINE q == [proc[p] EXCEPT !.pc = "zombie", !.code = code]
      <3>2. q.owner = proc[p].owner /\ q.pc = "zombie"
        BY <1>0 DEF ProcType
      <3> QED
        BY <3>1, <3>2
    <2>4. CASE HostReaps(p)
      BY <1>0, <2>4 DEF HostReaps
    <2>5. CASE HostReuses(p)
      <3> DEFINE q == [proc[p] EXCEPT !.pc = "foreign"]
      <3>1. proc' = [proc EXCEPT ![p] = q] /\ proc[p].pc = "free"
        BY <2>5 DEF HostReuses
      <3>2. q.owner = NoCli
        BY <1>0, <3>1 DEF ProcType, IInv, Ownership
      <3> QED
        BY <3>1, <3>2
    <2> QED
      BY <2>1, <2>2, <2>3, <2>4, <2>5 DEF ProcessStep
  <1> QED
    BY <1>1, <1>2, <1>3, ProcessPromise

\* and so does what SIGKILL is sent to.
LEMMA SlayPromise ==
    ASSUME IInv, IInv', CliForward, sup' = sup, Recorded' = Recorded, Asked' <=> Asked,
           NEW p \in Pid, Slay(p)
    PROVE  [Promised!Next]_Promised!vars
  <1>1. CASE proc[p].pc = "foreign"
    <2>1. proc' = [proc EXCEPT ![p] = FreeProc] /\ FreeProc.owner = NoCli
      BY <1>1 DEF Slay, FreeProc
    <2> QED
      BY <1>1, <2>1, ProcessPromise
  <1>2. CASE proc[p].pc \in {"free", "zombie"}
    <2>1. proc' = proc
      BY <1>2 DEF Slay
    <2> QED
      BY <2>1, CommandPromise
  <1>3. CASE proc[p].pc \notin {"foreign", "free", "zombie"}
    <2> DEFINE q == [proc[p] EXCEPT !.pc = "zombie", !.code = Killed]
    <2>1. proc' = [proc EXCEPT ![p] = q]
      BY <1>3 DEF Slay
    <2>2. q.owner = proc[p].owner /\ q.pc = "zombie"
      BY Types DEF ProcType
    <2> HIDE DEF q
    <2> QED
      BY <2>1, <2>2, ProcessPromise
  <1> QED
    BY <1>1, <1>2, <1>3

\* A command other than `start` asks for nothing.
LEMMA OthersAsk ==
    ASSUME IInv, NEW c \in Cli, cli[c].cmd # "start", cli[c].pc # "idle", CliForward,
           \A d \in Cli \ {c} : cli'[d] = cli[d]
    PROVE  Asked' = Asked
  <1>1. cli'[c].cmd # "start"
    BY DEF CliForward
  <1> QED
    BY <1>1 DEF Asked

\* Commands keep the promises.
LEMMA CommandStepPromise ==
    ASSUME IInv, IInv', NEW c \in Cli, Invoke(c) \/ CommandStep(c)
    PROVE  [Promised!Next]_Promised!vars
  <1>0. CliForward
    BY CommandForward
  <1>1. CASE KillSend(c) \/ ForceKill(c)
    <2>1. /\ cli[c].pc = "send" /\ cli[c].cmd \in {"kill", "sigkill", "force"}
          /\ UNCHANGED <<sup, fs>>
          /\ Slay(cli[c].st.pid) \/ proc' = proc
          /\ \A d \in Cli \ {c} : cli'[d] = cli[d]
      BY <1>1 DEF KillSend, ForceKill, Finish, IInv, TypeOK
    <2>2. cli[c].st.pid \in Pid
      BY <2>1, Types DEF InStep, StateRecord
    <2>3. Asked' = Asked /\ Recorded' = Recorded
      BY <1>0, <2>1, OthersAsk DEF Recorded
    <2> QED
      BY <1>0, <2>1, <2>2, <2>3, SlayPromise, CommandPromise
  <1>2. CASE \E e \in Entries : RemoveEntry(c, e)
    <2>1. PICK e \in Entries : RemoveEntry(c, e)
      BY <1>2
    <2>2. UNCHANGED <<sup, proc>> /\ fs' = Unlinked(e)
      BY <2>1 DEF RemoveEntry
    <2>3. Asked' => Asked
      <3>1. cli[c].pc = "unlink" /\ cli' = [cli EXCEPT ![c] = [cli[c] EXCEPT !.todo = @ \ {e}]]
        BY <2>1 DEF RemoveEntry
      <3>2. cli'[c].pc = "unlink" /\ \A d \in Cli \ {c} : cli'[d] = cli[d]
        BY <3>1, Types DEF IInv, TypeOK, CliType
      <3> QED
        BY <3>2 DEF Asked
    <2>4. fs'.file = fs.file \/ fs'.file = Absent
      BY <2>2, Types DEF Unlinked, Entries, FsType
    <2>5. Recorded' = Recorded \/ Recorded' = NoCli
      BY <2>4 DEF Recorded, Parses, Absent
    <2> QED
      BY <1>0, <2>2, <2>3, <2>5, CommandPromise
  <1>3. CASE ForkDaemon(c) \/ ResetTrace(c)
    <2>1. /\ sup[c].pc = "none" /\ sup'[c].pid = sup[c].pid /\ proc' = proc /\ fs'.file = fs.file
          /\ \A d \in Cli \ {c} : sup'[d] = sup[d]
      <3>1. cli[c].pc \in {"fork", "reset"}
        BY <1>3 DEF ForkDaemon, ResetTrace
      <3>2. sup' = sup \/ sup' = [sup EXCEPT ![c] = [sup[c] EXCEPT !.pc = "spawn"]]
        BY <1>3 DEF ForkDaemon, ResetTrace
      <3>3. sup'[c].pid = sup[c].pid /\ \A d \in Cli \ {c} : sup'[d] = sup[d]
        BY <3>2, Types DEF IInv, TypeOK, SupType
      <3>4. proc' = proc /\ fs'.file = fs.file
        BY <1>3, Types DEF ForkDaemon, ResetTrace, FsType
      <3> QED
        BY <3>1, <3>3, <3>4, Types
    <2>2. sup[c].pid = NoPid
      BY <2>1 DEF IInv, Handshake
    <2>3. Lives' = Lives
      <3>1. \A d \in Cli \ {c} : Life(d)' = Life(d)
        BY <1>0, <2>1, SameStartTaken, SameLife DEF SameStage
      <3>2. Life(c)' = Life(c)
        BY <2>1, <2>2, NoLife, NoLifeNext
      <3> QED
        BY <3>1, <3>2, LivesStay
    <2>4. Attached' = Attached
      <3>1. \A d \in Cli \ {c} : d \in Attached' <=> d \in Attached
        BY <1>0, <2>1, SameStartTaken
      <3>2. c \notin Attached /\ c \notin Attached'
        BY <2>1, <2>2 DEF Attached
      <3> QED
        BY <3>1, <3>2 DEF Attached
    <2>5. Recorded' = Recorded
      BY <2>1 DEF Recorded
    <2>6. Asked' = Asked \/ Asked' = TRUE
      BY <1>0, AskedStays DEF Asked
    <2> QED
      BY <2>3, <2>4, <2>5, <2>6 DEF Promised!Next, Promised!vars, Promised!AskStart
  <1>4. CASE UNCHANGED <<sup, proc>> /\ fs'.file = fs.file
    <2>1. Recorded' = Recorded
      BY <1>4 DEF Recorded
    <2> QED
      BY <1>0, <1>4, <2>1, CommandPromise
  <1>5. ASSUME Invoke(c) \/ RejectBundle(c) \/ ReadAnswer(c) \/ ReadFails(c) \/ ExecEnds(c)
               \/ StartOpen(c) \/ StartWrite(c) \/ StartClose(c) \/ RemoveScan(c) \/ EnterNs(c)
               \/ PrintState(c) \/ ListContainers(c)
               \/ StartRead(c) \/ KillRead(c) \/ DeleteRead(c) \/ ForceRead(c) \/ ExecRead(c)
        PROVE  UNCHANGED <<sup, proc, fs>>
    BY <1>5 DEF Invoke, RejectBundle, ReadAnswer, ReadFails, ExecEnds, StartOpen, StartWrite, StartClose,
       RemoveScan, EnterNs, PrintState, ListContainers, Prints, StartRead, KillRead, DeleteRead, ForceRead,
       ExecRead, Reads
  <1>6. ASSUME InitContainerDir(c) \/ Mkfifo(c) \/ RemoveDir(c)
        PROVE  UNCHANGED <<sup, proc>> /\ fs'.file = fs.file
    BY <1>6, Types DEF InitContainerDir, Mkfifo, RemoveDir, FsType
  <1> QED
    BY <1>1, <1>2, <1>3, <1>4, <1>5, <1>6 DEF CommandStep

-----------------------------------------------------------------------------
(* Supervisors *)

\* What the supervisor of c does shows in the life of c alone.
LEMMA SupervisorAlone ==
    ASSUME IInv, IInv', NEW c \in Cli, NEW s, sup' = [sup EXCEPT ![c] = s], sup[c].pc # "none",
           cli' = cli \/ (\E result : Finish(c, result)),
           \A x \in Pid : proc'[x] = proc[x] \/ {proc[x].owner, proc'[x].owner} \subseteq {c, NoCli}
    PROVE  /\ Asked' = Asked /\ (Detached(c)' <=> Detached(c)) /\ sup'[c] = s
           /\ \A d \in Cli \ {c} : Life(d)' = Life(d)
           /\ Attached' \ {c} = Attached \ {c} /\ (cli'[c].cmd = cli[c].cmd)
           /\ s.pid = sup[c].pid => Attached' = Attached
  <1>1. cli[c].pc \in {"wait", "done"} /\ c \in Creators
    BY Types
  <1>2. CliForward /\ \A d \in Cli \ {c} : cli'[d] = cli[d]
    <2>1. CASE cli' = cli
      BY <2>1 DEF CliForward
    <2>2. CASE \E result : Finish(c, result)
      <3>1. CliForward
        BY <1>1, <2>2, FinishForward
      <3>2. \A d \in Cli \ {c} : cli'[d] = cli[d]
        BY <2>2 DEF Finish, IInv, TypeOK
      <3> QED
        BY <3>1, <3>2
    <2> QED
      BY <2>1, <2>2
  <1>3. cli'[c].cmd = cli[c].cmd /\ cli[c].cmd \in {"create", "run"}
    BY <1>1, <1>2 DEF CliForward, Creators
  <1>4. Asked' = Asked /\ (Detached(c)' <=> Detached(c))
    BY <1>1, <1>2, <1>3, OthersAsk DEF Detached
  <1>5. sup'[c] = s /\ \A d \in Cli \ {c} : sup'[d] = sup[d]
    BY DEF IInv, TypeOK
  <1>6. ASSUME NEW d \in Cli \ {c} PROVE Life(d)' = Life(d)
    <2>1. sup[d].pid \in Pid => SameStage(d, proc[sup[d].pid], proc'[sup[d].pid])
      BY CliAssumption DEF SameStage, IsDead
    <2> QED
      BY <1>2, <1>5, <2>1, SameLife, SameStartTaken
  <1>7. \A d \in Cli \ {c} : d \in Attached' <=> d \in Attached
    BY <1>2, <1>5, SameStartTaken
  <1>8. s.pid = sup[c].pid => (c \in Attached' <=> c \in Attached)
    BY <1>3, <1>5 DEF Attached
  <1> QED
    BY <1>3, <1>4, <1>5, <1>6, <1>7, <1>8 DEF Attached

\* Clone begins a life.
LEMMA ClonePromise ==
    ASSUME IInv, IInv', NEW c \in Cli, NEW p \in Pid, Clone(c, p)
    PROVE  [Promised!Next]_Promised!vars
  <1> DEFINE s == [sup[c] EXCEPT !.pc = "map", !.pid = p]
             q == [pc |-> "cloned", owner |-> c, code |-> 0]
  <1>1. /\ sup[c].pc = "spawn" /\ proc[p].pc = "free" /\ proc' = [proc EXCEPT ![p] = q]
        /\ sup' = [sup EXCEPT ![c] = s] /\ UNCHANGED <<cli, fs>>
    BY DEF Clone
  <1>2. s.pid = p
    BY Types DEF SupType
  <1>3. proc[p].owner = NoCli /\ sup[c].pid = NoPid /\ q.owner = c /\ q.pc = "cloned"
    BY <1>1 DEF IInv, Ownership, Handshake
  <1>4. \A x \in Pid : proc'[x] = IF x = p THEN q ELSE proc[x]
    BY <1>1 DEF IInv, TypeOK
  <1>5. \A x \in Pid : proc'[x] = proc[x] \/ {proc[x].owner, proc'[x].owner} \subseteq {c, NoCli}
    BY <1>3, <1>4
  <1> HIDE DEF s, q
  <1>6. /\ Asked' = Asked /\ sup'[c] = s /\ Attached' \ {c} = Attached \ {c}
        /\ \A d \in Cli \ {c} : Life(d)' = Life(d)
    BY <1>1, <1>5, SupervisorAlone
  <1>7. Life(c) = "none" /\ Life(c)' = "creating"
    <2>1. sup'[c].pid \in Pid /\ proc'[sup'[c].pid] \in ProcType /\ proc'[sup'[c].pid] = q
      BY <1>2, <1>4, <1>6 DEF IInv, TypeOK
    <2> QED
      BY <1>3, <2>1, NoLife, LifeIsNext
  <1>8. Attached' = Attached \/ Attached' = Attached \cup {c}
    <2>1. c \notin Attached
      BY <1>3 DEF Attached
    <2> QED
      BY <1>6, <2>1
  <1>9. Recorded' = Recorded
    BY <1>1 DEF Recorded
  <1>10. Lives[c] = "none" /\ Lives' = [Lives EXCEPT ![c] = "creating"]
    BY <1>6, <1>7, OneLives
  <1>11. Promised!Create(c)
    BY <1>6, <1>8, <1>9, <1>10 DEF Promised!Create, Promised!Becomes
  <1> QED
    BY <1>11 DEF Promised!Next

\* The init of c is let go on by its supervisor.
LEMMA ResumesPromise ==
    ASSUME IInv, IInv', NEW c \in Cli, MapRootUser(c) \/ ChildPaused(c) \/ Supervise(c)
    PROVE  [Promised!Next]_Promised!vars
  <1> DEFINE p == sup[c].pid
  <1>1. /\ sup[c].pc \in {"map", "wait_stop", "supervise"} /\ UNCHANGED <<cli, fs>>
        /\ sup[c].pc = "map" => proc[p].pc = "wait_maps"
        /\ sup[c].pc = "wait_stop" => proc[p].pc = "stopping"
        /\ sup[c].pc = "supervise" => proc[p].pc = "paused"
    BY DEF MapRootUser, ChildPaused, Supervise
  <1>2. p \in Pid /\ proc[p] \in ProcType /\ proc[p].owner = c
    BY <1>1, HoldsInit DEF Prepared
  <1>3. PICK q : /\ proc' = [proc EXCEPT ![p] = q] /\ q.owner = c
                 /\ q.pc = CASE sup[c].pc = "map" -> "setup"
                             [] sup[c].pc = "wait_stop" -> "paused"
                             [] sup[c].pc = "supervise" -> "running"
    <2>1. \A pc \in {"setup", "paused", "running"} :
              LET q == [proc[p] EXCEPT !.pc = pc] IN q.owner = c /\ q.pc = pc
      BY <1>2 DEF ProcType
    <2>2. PICK pc : /\ proc' = [proc EXCEPT ![p] = [proc[p] EXCEPT !.pc = pc]]
                    /\ pc \in {"setup", "paused", "running"}
                    /\ pc = CASE sup[c].pc = "map" -> "setup"
                              [] sup[c].pc = "wait_stop" -> "paused"
                              [] sup[c].pc = "supervise" -> "running"
      BY DEF MapRootUser, ChildPaused, Supervise
    <2> QED
      BY <2>1, <2>2
  <1>4. \A x \in Pid : proc'[x] = IF x = p THEN q ELSE proc[x]
    BY <1>3 DEF IInv, TypeOK
  <1>5. PICK s : /\ sup' = [sup EXCEPT ![c] = s] /\ s.pid = p
                 /\ sup[c].pc = "map" => s.pc = "wait_stop"
                 /\ sup[c].pc = "wait_stop" =>
                        \/ Detached(c) /\ s.pc = "open_state" /\ s.st.status = "created"
                        \/ ~Detached(c) /\ s.pc = "limits"
                 /\ sup[c].pc = "supervise" => s.pc = "supervising"
    <2>1. \A pc, st : /\ [sup[c] EXCEPT !.pc = pc].pc = pc /\ [sup[c] EXCEPT !.pc = pc].pid = p
                      /\ LET s == [sup[c] EXCEPT !.pc = pc, !.st = st] IN s.pc = pc /\ s.pid = p /\ s.st = st
      BY Types DEF SupType
    <2>2. \/ sup[c].pc = "map" /\ sup' = [sup EXCEPT ![c] = [sup[c] EXCEPT !.pc = "wait_stop"]]
          \/ sup[c].pc = "wait_stop" /\ Detached(c)
             /\ sup' = [sup EXCEPT ![c] = [sup[c] EXCEPT !.pc = "open_state", !.st = MkState(c, "created")]]
          \/ sup[c].pc = "wait_stop" /\ ~Detached(c) /\ sup' = [sup EXCEPT ![c] = [sup[c] EXCEPT !.pc = "limits"]]
          \/ sup[c].pc = "supervise" /\ sup' = [sup EXCEPT ![c] = [sup[c] EXCEPT !.pc = "supervising"]]
      BY DEF MapRootUser, ChildPaused, Supervise
    <2>3. MkState(c, "created").status = "created"
      BY DEF MkState
    <2>4. CASE sup[c].pc = "wait_stop" /\ Detached(c)
      <3>1. PICK s : s = [sup[c] EXCEPT !.pc = "open_state", !.st = MkState(c, "created")]
        OBVIOUS
      <3>2. s.pc = "open_state" /\ s.pid = p /\ s.st = MkState(c, "created")
        BY <2>1, <3>1
      <3>3. sup' = [sup EXCEPT ![c] = s]
        BY <2>2, <2>4, <3>1
      <3> QED
        BY <2>3, <2>4, <3>2, <3>3
    <2>5. CASE ~(sup[c].pc = "wait_stop" /\ Detached(c))
      <3>1. PICK pc, s : /\ s = [sup[c] EXCEPT !.pc = pc] /\ sup' = [sup EXCEPT ![c] = s]
                         /\ \/ sup[c].pc = "map" /\ pc = "wait_stop"
                            \/ sup[c].pc = "wait_stop" /\ ~Detached(c) /\ pc = "limits"
                            \/ sup[c].pc = "supervise" /\ pc = "supervising"
        BY <2>2, <2>5
      <3>2. s.pc = pc /\ s.pid = p
        BY <2>1, <3>1
      <3> QED
        BY <3>1, <3>2
    <2> QED
      BY <2>4, <2>5
  <1>6. /\ Asked' = Asked /\ sup'[c] = s /\ Attached' = Attached /\ (Detached(c)' <=> Detached(c))
        /\ \A d \in Cli \ {c} : Life(d)' = Life(d)
    <2>1. \A x \in Pid : proc'[x] = proc[x] \/ {proc[x].owner, proc'[x].owner} \subseteq {c, NoCli}
      BY <1>2, <1>3, <1>4
    <2> QED
      BY <1>1, <1>5, <2>1, SupervisorAlone
  <1>7. Recorded' = Recorded
    BY <1>1 DEF Recorded
  <1>8. sup'[c].pid \in Pid /\ proc'[sup'[c].pid] \in ProcType /\ proc'[sup'[c].pid] = q /\ sup'[c].pid = p
    BY <1>2, <1>4, <1>5, <1>6 DEF IInv, TypeOK
  <1>9. Lives[c] = Life(c) /\ Lives' = [Lives EXCEPT ![c] = Life(c)']
    BY <1>6, OneLives
  <1>10. CASE sup[c].pc = "map"
    <2>1. SameStage(c, proc[p], proc'[p])
      BY <1>1, <1>2, <1>3, <1>8, <1>10 DEF SameStage, InSetup
    <2>2. ~StartTaken(c) /\ ~StartTaken(c)'
      BY <1>5, <1>6, <1>10 DEF StartTaken
    <2> QED
      BY <1>5, <1>6, <1>7, <2>1, <2>2, DiesOrNot
  <1>11. CASE sup[c].pc = "wait_stop"
    <2>1. ~StartTaken(c)'
      BY <1>5, <1>6, <1>11 DEF StartTaken
    <2>2. Life(c) = "creating" /\ Life(c)' = "created"
      BY <1>1, <1>2, <1>3, <1>8, <1>11, <2>1, LifeIs, LifeIsNext
    <2>3. Promised!Created(c)
      BY <1>6, <1>7, <1>9, <2>2 DEF Promised!Created, Promised!Becomes
    <2> QED
      BY <2>3 DEF Promised!Next
  <1>12. CASE sup[c].pc = "supervise"
    <2>1. Life(c) = "started" /\ Life(c)' = "running"
      BY <1>1, <1>2, <1>3, <1>8, <1>12, LifeIs, LifeIsNext DEF StartTaken
    <2>2. Promised!Run(c)
      BY <1>6, <1>7, <1>9, <2>1 DEF Promised!Run, Promised!Becomes
    <2> QED
      BY <2>2 DEF Promised!Next
  <1> QED
    BY <1>1, <1>10, <1>11, <1>12

\* The supervisor of c ends, or has reaped: its init is dead, or where it was.
LEMMA ExitPromise ==
    ASSUME IInv, IInv', NEW c \in Cli, NEW answer, ExitSupervisor(c, answer, "error"),
           sup[c].pc \notin {"none", "exited"}
    PROVE  [Promised!Next]_Promised!vars
  <1> DEFINE s == [sup[c] EXCEPT !.pc = "exited", !.answer = answer]
             p == sup[c].pid
  <1>1. /\ sup' = [sup EXCEPT ![c] = s] /\ proc' = ExitKill(c) /\ fs' = [fs EXCEPT !.opened = @ \ {c}]
        /\ cli' = cli \/ Finish(c, "error")
    BY DEF ExitSupervisor
  <1>2. s.pc = "exited" /\ s.pid = p
    BY Types DEF SupType
  <1>3. \A x \in Pid :
            IF proc[x].owner = c /\ proc[x].pc \in {"paused", "running"}
            THEN proc'[x].owner = c /\ proc'[x].pc = "zombie"
            ELSE proc'[x] = proc[x]
    BY <1>1, Types DEF ExitKill, ProcType
  <1>4. \A x \in Pid : proc'[x] = proc[x] \/ {proc[x].owner, proc'[x].owner} \subseteq {c, NoCli}
    BY <1>3
  <1> HIDE DEF s
  <1>5. /\ Asked' = Asked /\ sup'[c] = s /\ Attached' = Attached
        /\ \A d \in Cli \ {c} : Life(d)' = Life(d)
    BY <1>1, <1>2, <1>4, SupervisorAlone
  <1>6. Recorded' = Recorded
    <2>1. fs'.file = fs.file
      BY <1>1, Types DEF FsType
    <2> QED
      BY <2>1 DEF Recorded
  <1>7. ~StartTaken(c)'
    BY <1>2, <1>5 DEF StartTaken
  <1>8. ASSUME p \in Pid
        PROVE  \/ IsDead(c, proc'[p])
               \/ SameStage(c, proc[p], proc'[p]) /\ ~StartTaken(c)
    <2>1. CASE proc[p].owner = c /\ proc[p].pc \in {"paused", "running"}
      BY <1>3, <1>8, <2>1 DEF IsDead
    <2>2. CASE StartTaken(c)
      <3>1. Prepared(sup[c])
        BY <2>2 DEF StartTaken, Prepared, Saving
      <3>2. proc[p].owner = c /\ proc[p].pc \in {"paused", "zombie"}
        BY <3>1 DEF IInv, Handshake, HasInit
      <3> QED
        BY <1>3, <1>8, <3>2 DEF IsDead
    <2> QED
      BY <1>3, <1>8, <2>1, <2>2 DEF SameStage
  <1>9. sup'[c].pid = sup[c].pid
    BY <1>2, <1>5
  <1> QED
    BY <1>5, <1>6, <1>7, <1>8, <1>9, DiesOrNot

\* The loop is entered on an init that is dead already.
LEMMA SuperviseKilledPromise ==
    ASSUME IInv, IInv', NEW c \in Cli, SuperviseKilled(c)
    PROVE  [Promised!Next]_Promised!vars
  <1>1. /\ sup[c].pc = "supervise" /\ proc[sup[c].pid].pc = "zombie"
        /\ UNCHANGED <<cli, proc, fs>>
    BY DEF SuperviseKilled
  <1>2. PICK s : sup' = [sup EXCEPT ![c] = s] /\ s.pid = sup[c].pid
    <2>1. [sup[c] EXCEPT !.pc = "supervising"].pid = sup[c].pid
      BY Types DEF SupType
    <2> QED
      BY <2>1 DEF SuperviseKilled
  <1>3. /\ Asked' = Asked /\ sup'[c] = s /\ Attached' = Attached
        /\ \A d \in Cli \ {c} : Life(d)' = Life(d)
    BY <1>1, <1>2, SupervisorAlone
  <1>4. Recorded' = Recorded
    BY <1>1 DEF Recorded
  <1>5. IsDead(c, proc'[sup[c].pid])
    BY <1>1 DEF IsDead
  <1> QED
    BY <1>2, <1>3, <1>4, <1>5, DiesOrNot

\* The supervisor reaps the init, whose life ends or had ended, and takes the
\* state to be written with it.
LEMMA SuperviseReturnsPromise ==
    ASSUME IInv, IInv', NEW c \in Cli, SuperviseReturns(c)
    PROVE  [Promised!Next]_Promised!vars
  <1> DEFINE p == sup[c].pid
             st == [sup[c].st EXCEPT !.status = "stopped", !.code = proc[p].code]
             s == [sup[c] EXCEPT !.pc = "open_state", !.st = st]
  <1>1. /\ sup[c].pc = "supervising" /\ proc' = [proc EXCEPT ![p] = FreeProc]
        /\ fs' = Traced(c, "event") /\ cli' = cli
    BY DEF SuperviseReturns
  <1>2. sup' = [sup EXCEPT ![c] = s]
    BY DEF SuperviseReturns
  <1>3. p \in Pid /\ proc[p].owner = c
    BY <1>1, HoldsInit
  <1> HIDE DEF st
  <1>4. s.pid = p
    BY Types DEF SupType
  <1>5. FreeProc.owner = NoCli /\ \A x \in Pid : proc'[x] = IF x = p THEN FreeProc ELSE proc[x]
    BY <1>1 DEF IInv, TypeOK, FreeProc
  <1>6. \A x \in Pid : proc'[x] = proc[x] \/ {proc[x].owner, proc'[x].owner} \subseteq {c, NoCli}
    BY <1>3, <1>5
  <1> HIDE DEF s
  <1>7. /\ Asked' = Asked /\ sup'[c] = s /\ Attached' = Attached
        /\ \A d \in Cli \ {c} : Life(d)' = Life(d)
    BY <1>1, <1>2, <1>4, <1>6, SupervisorAlone
  <1>8. Recorded' = Recorded
    BY <1>1, TracedType DEF Recorded
  <1>9. IsDead(c, proc'[p])
    BY <1>3, <1>5, CliAssumption DEF IsDead
  <1>10. sup'[c].pid = sup[c].pid
    BY <1>4, <1>7
  <1> QED
    BY <1>7, <1>8, <1>9, <1>10, DiesOrNot

\* The supervisor of c goes on, its init left alone: it takes up the start that
\* was asked for, if it does not hold a dead one,
LEMMA TakesStart ==
    ASSUME IInv, IInv', NEW c \in Cli, NEW s, sup' = [sup EXCEPT ![c] = s], s.pid = sup[c].pid,
           sup[c].pc = "limits" \/ sup[c].pc = "read_fifo", cli' = cli, proc' = proc,
           ~StartTaken(c), StartTaken(c)', Asked \/ c \in Attached, Recorded' = Recorded
    PROVE  [Promised!Next]_Promised!vars
  <1>1. /\ Asked' = Asked /\ sup'[c] = s /\ Attached' = Attached
        /\ \A d \in Cli \ {c} : Life(d)' = Life(d)
    BY SupervisorAlone
  <1>2. /\ sup[c].pid \in Pid /\ proc[sup[c].pid].owner = c /\ proc[sup[c].pid].pc \in {"paused", "zombie"}
        /\ proc[sup[c].pid] \in ProcType /\ sup'[c].pid = sup[c].pid
    BY <1>1, Types DEF IInv, Handshake, HasInit, Prepared
  <1>3. CASE proc[sup[c].pid].pc = "paused"
    <2>1. Life(c) = "created" /\ Life(c)' = "started"
      BY <1>2, <1>3, LifeIs, LifeIsNext
    <2>2. Lives[c] = "created" /\ Lives' = [Lives EXCEPT ![c] = "started"]
      BY <1>1, <2>1, OneLives
    <2>3. Promised!Start(c)
      BY <1>1, <2>2 DEF Promised!Start, Promised!Becomes
    <2> QED
      BY <2>3 DEF Promised!Next
  <1>4. CASE proc[sup[c].pid].pc = "zombie"
    <2>1. IsDead(c, proc'[sup[c].pid])
      BY <1>4 DEF IsDead
    <2> QED
      BY <1>1, <1>2, <2>1, DiesOrNot
  <1> QED
    BY <1>2, <1>3, <1>4

\* or it records the state that goes with the life, erases the record, or does
\* nothing that shows.
LEMMA KeepsRecord ==
    ASSUME IInv, IInv', NEW c \in Cli, NEW s, sup' = [sup EXCEPT ![c] = s], s.pid = sup[c].pid,
           sup[c].pc # "none", cli' = cli \/ (\E result : Finish(c, result)), proc' = proc,
           StartTaken(c)' <=> StartTaken(c),
           \/ Recorded' = Recorded
           \/ Recorded' = NoCli
           \/ \E status \in Promised!Recordable(Life(c)) : Recorded' = <<c, status>>
    PROVE  [Promised!Next]_Promised!vars
  <1>1. /\ Asked' = Asked /\ sup'[c] = s /\ Attached' = Attached
        /\ \A d \in Cli \ {c} : Life(d)' = Life(d)
    BY SupervisorAlone
  <1>2. Life(c)' = Life(c)
    BY <1>1, SameLife DEF SameStage
  <1>3. Lives' = Lives /\ Lives[c] = Life(c)
    BY <1>1, <1>2, LivesStay, OneLives
  <1> QED
    BY <1>1, <1>3 DEF Promised!Next, Promised!Record, Promised!Erase, Promised!vars

\* The steps that do nothing that shows.
LEMMA QuietPromise ==
    ASSUME IInv, IInv', NEW c \in Cli,
           Report(c) \/ ReadState(c) \/ Relay(c) \/ (OpenFifo(c) /\ "fifo" \in fs.entries)
    PROVE  [Promised!Next]_Promised!vars
  <1>1. PICK s : /\ sup' = [sup EXCEPT ![c] = s] /\ s.pid = sup[c].pid
                 /\ \/ sup[c].pc = "report" /\ s.pc = "open_fifo"
                    \/ sup[c].pc = "open_fifo" /\ s.pc = "read_fifo"
                    \/ sup[c].pc = "relay" /\ s.pc = "exited"
                    \/ sup[c].pc = "read_state" /\ s.pc = "open_state" /\ s.st.status = "running"
    <2>1. CASE Report(c)
      <3> DEFINE s == [sup[c] EXCEPT !.pc = "open_fifo", !.answer = "pid"]
      <3>1. s.pc = "open_fifo" /\ s.pid = sup[c].pid
        BY Types DEF SupType
      <3> QED
        BY <2>1, <3>1 DEF Report
    <2>2. CASE ReadState(c)
      <3> DEFINE st == IF Parses(fs.file)
                       THEN [fs.file EXCEPT !.status = "running", !.pid = sup[c].pid]
                       ELSE MkState(c, "running")
                 s == [sup[c] EXCEPT !.pc = "open_state", !.st = st]
      <3>1. st.status = "running"
        <4>1. CASE Parses(fs.file)
          BY <4>1, Types, NamesOne DEF FsType, StateRecord
        <4>2. CASE ~Parses(fs.file)
          BY <4>2 DEF MkState
        <4> QED
          BY <4>1, <4>2
      <3>2. sup[c].pc = "read_state" /\ sup' = [sup EXCEPT ![c] = s]
        BY <2>2 DEF ReadState
      <3> HIDE DEF st
      <3>3. s.pc = "open_state" /\ s.pid = sup[c].pid /\ s.st = st
        BY Types DEF SupType
      <3> QED
        BY <3>1, <3>2, <3>3
    <2>3. CASE Relay(c)
      <3> DEFINE s == [sup[c] EXCEPT !.pc = "exited"]
      <3>1. s.pc = "exited" /\ s.pid = sup[c].pid
        BY Types DEF SupType
      <3> QED
        BY <2>3, <3>1 DEF Relay
    <2>4. CASE OpenFifo(c) /\ "fifo" \in fs.entries
      <3> DEFINE s == [sup[c] EXCEPT !.pc = "read_fifo", !.ino = fs.fifo]
      <3>1. s.pc = "read_fifo" /\ s.pid = sup[c].pid
        BY Types DEF SupType
      <3> QED
        BY <2>4, <3>1 DEF OpenFifo
    <2> QED
      BY <2>1, <2>2, <2>3, <2>4
  <1>2. proc' = proc /\ (cli' = cli \/ \E result : Finish(c, result)) /\ fs'.file = fs.file
    <2>1. CASE Relay(c)
      BY <2>1, TracedType DEF Relay
    <2> QED
      BY <2>1 DEF Report, ReadState, OpenFifo
  <1>3. Recorded' = Recorded
    BY <1>2 DEF Recorded
  <1>4. sup'[c] = s
    BY <1>1 DEF IInv, TypeOK
  <1>5. StartTaken(c)' <=> StartTaken(c)
    BY <1>1, <1>4 DEF StartTaken
  <1> QED
    BY <1>1, <1>2, <1>3, <1>5, KeepsRecord

\* Truncating the file erases the record.
LEMMA OpenStatePromise ==
    ASSUME IInv, IInv', NEW c \in Cli, OpenState(c), fs.dir \/ sup[c].st.status = "stopped"
    PROVE  [Promised!Next]_Promised!vars
  <1>1. PICK pc : /\ sup[c].pc = "open_state" /\ sup' = [sup EXCEPT ![c] = [sup[c] EXCEPT !.pc = pc]]
                  /\ pc = "write_state" \/ (pc = "relay" /\ sup[c].st.status = "stopped")
                  /\ UNCHANGED <<cli, proc>>
    BY DEF OpenState
  <1> DEFINE s == [sup[c] EXCEPT !.pc = pc]
  <1>2. s.pc = pc /\ s.pid = sup[c].pid /\ s.st = sup[c].st
    BY Types DEF SupType
  <1>3. sup'[c] = s
    BY <1>1 DEF IInv, TypeOK
  <1> HIDE DEF s
  <1>4. StartTaken(c)' <=> StartTaken(c)
    BY <1>1, <1>2, <1>3 DEF StartTaken
  <1>5. fs'.file = fs.file \/ fs'.file = Empty
    BY Types DEF OpenState, FsType
  <1>6. Recorded' = Recorded \/ Recorded' = NoCli
    BY <1>5 DEF Recorded, Parses, Empty
  <1> QED
    BY <1>1, <1>2, <1>4, <1>6, KeepsRecord DEF s

\* What is written goes with the life of the one container there is.
LEMMA WriteStatePromise ==
    ASSUME IInv, IInv', OneContainerOnly, NEW c \in Cli, WriteState(c)
    PROVE  [Promised!Next]_Promised!vars
  <1>1. /\ sup[c].pc = "write_state" /\ UNCHANGED <<cli, proc>>
        /\ sup[c].st \in StateRecord /\ SetUp(sup[c].st.by) /\ sup[c].st.by \in Cli
    BY DEF WriteState, IInv, Records, StateRecord
  <1>2. sup[c].st.by = c /\ sup[c].st.status \in {"created", "running", "stopped"}
    BY <1>1, OnlyOne DEF SetUp, StateRecord
  <1>3. PICK pc : /\ sup' = [sup EXCEPT ![c] = [sup[c] EXCEPT !.pc = pc]]
                  /\ \/ pc = "report" /\ sup[c].st.status = "created"
                     \/ pc = "supervise" /\ sup[c].st.status = "running"
                     \/ pc = "relay" /\ sup[c].st.status = "stopped"
    BY <1>2 DEF WriteState
  <1> DEFINE s == [sup[c] EXCEPT !.pc = pc]
  <1>4. s.pc = pc /\ s.pid = sup[c].pid /\ s.st = sup[c].st
    BY Types DEF SupType
  <1>5. sup'[c] = s
    BY <1>3 DEF IInv, TypeOK
  <1> HIDE DEF s
  <1>6. StartTaken(c)' <=> StartTaken(c)
    BY <1>1, <1>3, <1>4, <1>5 DEF StartTaken
  <1>7. sup[c].st.status \in Promised!Recordable(Life(c))
    <2>1. sup[c].pid \in Pid /\ proc[sup[c].pid] \in ProcType
      BY <1>1, <1>2, Types DEF IInv, Handshake, HasInit, Prepared, Reaped, Saving
    <2>2. CASE sup[c].st.status = "created"
      <3>1. Prepared(sup[c]) /\ ~StartTaken(c)
        BY <1>1, <2>2 DEF Prepared, Saving, StartTaken
      <3>2. proc[sup[c].pid].owner = c /\ proc[sup[c].pid].pc \in {"paused", "zombie"}
        BY <3>1 DEF IInv, Handshake, HasInit
      <3>3. Life(c) = "created" \/ Life(c) = "dead"
        BY <2>1, <3>1, <3>2, LifeIs
      <3> QED
        BY <2>2, <3>3 DEF Promised!Recordable
    <2>3. CASE sup[c].st.status = "running"
      <3>1. Prepared(sup[c]) /\ StartTaken(c)
        BY <1>1, <2>3 DEF Prepared, Saving, StartTaken
      <3>2. proc[sup[c].pid].owner = c /\ proc[sup[c].pid].pc \in {"paused", "zombie"}
        BY <3>1 DEF IInv, Handshake, HasInit
      <3>3. Life(c) = "started" \/ Life(c) = "dead"
        BY <2>1, <3>1, <3>2, LifeIs
      <3> QED
        BY <2>3, <3>3 DEF Promised!Recordable
    <2>4. CASE sup[c].st.status = "stopped"
      <3>1. Reaped(sup[c])
        BY <1>1, <2>4 DEF Reaped, Saving
      <3>2. proc[sup[c].pid].owner # c
        BY <2>1, <3>1, CliAssumption DEF IInv, Ownership
      <3>3. Life(c) = "dead"
        BY <2>1, <3>2, LifeIs
      <3> QED
        BY <2>4, <3>3 DEF Promised!Recordable
    <2> QED
      BY <1>2, <2>2, <2>3, <2>4
  <1>8. PICK f \in Written(c) : fs' = [fs EXCEPT !.file = f, !.opened = @ \ {c}]
    BY DEF WriteState
  <1>9. fs'.file = f /\ f \in {fs.file, sup[c].st, Garbled}
    BY <1>8, Types DEF Written, FsType
  <1>10. Recorded' = Recorded \/ Recorded' = NoCli \/ Recorded' = <<c, sup[c].st.status>>
    BY <1>2, <1>9 DEF Recorded, Parses, Garbled
  <1> QED
    BY <1>1, <1>3, <1>4, <1>6, <1>7, <1>10, KeepsRecord DEF s

\* A start is taken up after it was asked for, or by `run`.
LEMMA StartPromise ==
    ASSUME IInv, IInv', NEW c \in Cli, ReadFifo(c) \/ ApplyLimits(c)
    PROVE  [Promised!Next]_Promised!vars
  <1>1. PICK s : /\ sup' = [sup EXCEPT ![c] = s] /\ s.pid = sup[c].pid
                 /\ \/ sup[c].pc = "read_fifo" /\ s.pc = "limits" /\ bytes[sup[c].ino] > 0
                    \/ sup[c].pc = "limits" /\ Detached(c) /\ s.pc = "read_state"
                    \/ /\ sup[c].pc = "limits" /\ ~Detached(c)
                       /\ s.pc = "open_state" /\ s.st.status = "running"
    <2>1. CASE ReadFifo(c)
      <3> DEFINE s == [sup[c] EXCEPT !.pc = "limits"]
      <3>1. s.pc = "limits" /\ s.pid = sup[c].pid
        BY Types DEF SupType
      <3> QED
        BY <2>1, <3>1 DEF ReadFifo
    <2>2. CASE ApplyLimits(c) /\ Detached(c)
      <3> DEFINE s == [sup[c] EXCEPT !.pc = "read_state"]
      <3>1. s.pc = "read_state" /\ s.pid = sup[c].pid
        BY Types DEF SupType
      <3> QED
        BY <2>2, <3>1 DEF ApplyLimits
    <2>3. CASE ApplyLimits(c) /\ ~Detached(c)
      <3> DEFINE st == MkState(c, "running")
                 s == [sup[c] EXCEPT !.pc = "open_state", !.st = st]
      <3>1. st.status = "running"
        BY DEF MkState
      <3>2. sup' = [sup EXCEPT ![c] = s] /\ sup[c].pc = "limits"
        BY <2>3 DEF ApplyLimits
      <3> HIDE DEF st
      <3>3. s.pc = "open_state" /\ s.pid = sup[c].pid /\ s.st = st
        BY Types DEF SupType
      <3> QED
        BY <2>3, <3>1, <3>2, <3>3
    <2> QED
      BY <2>1, <2>2, <2>3
  <1>2. UNCHANGED <<cli, proc, fs>>
    BY DEF ReadFifo, ApplyLimits
  <1>3. Recorded' = Recorded /\ sup'[c] = s /\ (Detached(c)' <=> Detached(c))
    BY <1>1, <1>2 DEF Recorded, IInv, TypeOK, Detached
  <1>4. CASE StartTaken(c)' <=> StartTaken(c)
    BY <1>1, <1>2, <1>3, <1>4, KeepsRecord
  <1>5. CASE ~(StartTaken(c)' <=> StartTaken(c))
    <2>1. ~StartTaken(c) /\ StartTaken(c)'
      BY <1>1, <1>3, <1>5 DEF StartTaken
    <2>2. Asked \/ c \in Attached
      <3>1. CASE sup[c].pc = "read_fifo"
        <4>1. sup[c].ino \in Cli /\ bytes[sup[c].ino] > 0
          BY <1>1, <3>1 DEF IInv, Fifos
        <4>2. Started(sup[c].ino)
          BY <4>1 DEF IInv, Fifos
        <4> QED
          BY <4>1, <4>2, CliAssumption DEF Started, Asked
      <3>2. CASE sup[c].pc = "limits"
        <4>1. ~Detached(c)
          BY <2>1, <3>2 DEF StartTaken
        <4>2. cli[c].cmd = "run" /\ sup[c].pid # NoPid
          BY <3>2, <4>1, Types DEF Detached, Creators, IInv, Handshake, HasInit, Prepared
        <4> QED
          BY <4>2 DEF Attached
      <3> QED
        BY <1>1, <3>1, <3>2
    <2> QED
      BY <1>1, <1>2, <1>3, <2>1, <2>2, TakesStart
  <1> QED
    BY <1>4, <1>5

\* Errors on the way, and the death of a supervisor.
LEMMA ErrorsPromise ==
    ASSUME IInv, IInv', NEW c \in Cli,
           \/ MapFails(c) \/ ChildDied(c) \/ SuperviseGone(c) \/ SuperviseFails(c) \/ SupervisorKilled(c)
           \/ OpenState(c) /\ ~fs.dir /\ sup[c].st.status # "stopped"
           \/ OpenFifo(c) /\ "fifo" \notin fs.entries
    PROVE  [Promised!Next]_Promised!vars
  <1>1. /\ \E answer : ExitSupervisor(c, answer, "error")
        /\ sup[c].pc \notin {"none", "exited"}
    BY DEF MapFails, ChildDied, SuperviseGone, SuperviseFails, SupervisorKilled, OpenState, OpenFifo,
       SupervisorError
  <1> QED
    BY <1>1, ExitPromise

-----------------------------------------------------------------------------
(* The theorem *)

\* With no command entered there is no container, no record and no start.
LEMMA InitPromise == ASSUME Init PROVE Promised!Init
  <1>1. \A c \in Cli : Life(c) = "none"
    BY NoLife DEF Init
  <1>2. Lives = [c \in Cli |-> "none"]
    BY <1>1 DEF Lives
  <1>3. Attached = {} /\ Asked = FALSE /\ Recorded = NoCli
    BY DEF Init, Attached, Asked, Recorded, Parses, Absent
  <1> QED
    BY <1>2, <1>3 DEF Promised!Init

\* Every step is a step of the container's life or leaves it as it is.
LEMMA StepPromise ==
    ASSUME OneContainerOnly, IInv, IInv', [Next]_vars
    PROVE  [Promised!Next]_Promised!vars
  <1>1. CASE UNCHANGED vars
    <2>1. CliForward /\ Recorded' = Recorded /\ sup' = sup /\ proc' = proc
      BY <1>1 DEF vars, CliForward, Recorded
    <2> QED
      BY <2>1, CommandPromise
  <1>2. ASSUME NEW c \in Cli, Invoke(c) \/ CommandStep(c) PROVE [Promised!Next]_Promised!vars
    BY <1>2, CommandStepPromise
  <1>3. ASSUME NEW c \in Cli, SupervisorStep(c) PROVE [Promised!Next]_Promised!vars
    <2>1. CASE \E p \in Pid : Clone(c, p)
      BY <2>1, ClonePromise
    <2>2. CASE MapRootUser(c) \/ ChildPaused(c) \/ Supervise(c)
      BY <2>2, ResumesPromise
    <2>3. CASE MapFails(c) \/ ChildDied(c) \/ SuperviseGone(c) \/ SuperviseFails(c)
      BY <2>3, ErrorsPromise
    <2>4. CASE OpenState(c)
      BY <2>4, OpenStatePromise, ErrorsPromise
    <2>5. CASE OpenFifo(c)
      BY <2>5, QuietPromise, ErrorsPromise
    <2>6. CASE WriteState(c)
      BY <2>6, WriteStatePromise
    <2>7. CASE Report(c) \/ ReadState(c) \/ Relay(c)
      BY <2>7, QuietPromise
    <2>8. CASE ReadFifo(c) \/ ApplyLimits(c)
      BY <2>8, StartPromise
    <2>9. CASE SuperviseKilled(c) \/ SuperviseReturns(c)
      BY <2>9, SuperviseKilledPromise, SuperviseReturnsPromise
    <2> QED
      BY <1>3, <2>1, <2>2, <2>3, <2>4, <2>5, <2>6, <2>7, <2>8, <2>9 DEF SupervisorStep
  <1>4. ASSUME NEW c \in Cli, TraceEvent(c) PROVE [Promised!Next]_Promised!vars
    <2>1. UNCHANGED <<cli, sup, proc>> /\ fs'.file = fs.file
      BY <1>4, TracedType DEF TraceEvent
    <2>2. CliForward /\ Recorded' = Recorded
      BY <2>1 DEF CliForward, Recorded
    <2> QED
      BY <2>1, <2>2, CommandPromise
  <1>5. ASSUME NEW c \in Cli, SupervisorKilled(c) PROVE [Promised!Next]_Promised!vars
    BY <1>5, ErrorsPromise
  <1>6. ASSUME NEW p \in Pid, ProcessStep(p) \/ HostReuses(p) PROVE [Promised!Next]_Promised!vars
    BY <1>6, ProcessStepPromise
  <1> QED
    BY <1>1, <1>2, <1>3, <1>4, <1>5, <1>6 DEF Next

\* dtrun keeps what Container.tla promises of a container, for an id that is
\* given to one: any number of commands on it, failures and killed supervisors.
THEOREM KeepsPromisesHolds == ASSUME OneContainerOnly PROVE Spec => KeepsPromises
  BY InitPromise, StepPromise, Invariant, PTL DEF Spec, KeepsPromises, Promised!Spec
=============================================================================

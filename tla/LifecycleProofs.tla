--------------------------- MODULE LifecycleProofs ---------------------------
(***************************************************************************)
(* Proofs about Lifecycle.tla, for any number of commands, pids and        *)
(* failures: the inductive invariant IInv, and from it the properties that *)
(* do not depend on how many containers share the id, and those that hold  *)
(* for an id that is given to one.                                         *)
(***************************************************************************)
EXTENDS Lifecycle, TLAPS

-----------------------------------------------------------------------------
(* Frames *)

\* What IInv says of the types.
LEMMA Types ==
    ASSUME IInv
    PROVE  /\ \A c \in Cli : /\ cli[c] \in CliType /\ sup[c] \in SupType /\ bytes[c] \in Nat
                             /\ InStep(cli[c]) /\ cli[c].cmd \in Commands[c] \cup {"none"}
                             /\ sup[c].pc # "none" =>
                                    c \in Creators /\ cli[c].pc \in {"wait", "done"}
           /\ \A p \in Pid : proc[p] \in ProcType
           /\ fs \in FsType /\ cgroup \subseteq Pid /\ crashes \in 0..MaxCrashes
           /\ NoCli \notin Cli /\ NoPid \notin Pid
  BY CliAssumption, PidAssumption DEF IInv, TypeOK, CommandsInStep

\* A command keeps its name, and a `start` that wrote into a FIFO stays one.
CliForward ==
    \A c \in Cli :
        /\ cli[c].pc # "idle" => cli'[c].cmd = cli[c].cmd
        /\ cli[c].cmd = "start" /\ cli[c].pc \in {"close", "done"} =>
               cli'[c].pc \in {"close", "done"} /\ cli'[c].ino = cli[c].ino

\* ... so who was started stays started,
LEMMA StartedStays ==
    ASSUME IInv, CliForward, NEW f, Started(f)
    PROVE  Started(f)'
  BY DEF CliForward, Started

\* and a supervisor's command stays the command it was.
LEMMA DetachedStays ==
    ASSUME IInv, CliForward, NEW c \in Cli, sup[c].pc # "none"
    PROVE  /\ c \in Creators /\ c \in Creators' /\ cli[c].pc \in {"wait", "done"}
           /\ Detached(c)' <=> Detached(c)
  BY Types DEF CliForward, Creators, Detached

\* A state that parses names a container.
LEMMA NamesOne ==
    ASSUME NEW f \in FileContent, Parses(f)
    PROVE  f \in StateRecord /\ f.by \in Cli /\ f.pid \in Pid
  BY DEF FileContent, Parses, Absent, Empty, Garbled, StateRecord

\* No init goes back to its setup or comes to life again.
LifeForward == \A c \in Cli : (SetUp(c) => SetUp(c)') /\ (Gone(c) => Gone(c)')

\* One command moves, and with it the container directory, bytes in a FIFO or a
\* process; the supervisors are left alone.
LEMMA CommandProcIInv ==
    ASSUME IInv, NEW c \in Cli, NEW r \in CliType, cli' = [cli EXCEPT ![c] = r],
           InStep(r), r.cmd \in Commands[c] \cup {"none"},
           cli[c].pc # "idle" => r.cmd = cli[c].cmd,
           sup[c].pc # "none" => r.pc \in {"wait", "done"},
           cli[c].cmd = "start" /\ cli[c].pc \in {"close", "done"} =>
               r.pc \in {"close", "done"} /\ r.ino = cli[c].ino,
           OneContainerOnly /\ r.cmd = "delete" /\ r.pc \in {"scan", "unlink"} => Gone(r.st.by),
           sup' = sup, crashes' = crashes,
           proc' \in [Pid -> ProcType], cgroup' \subseteq Pid,
           Handshake', Ownership', Limits', LifeForward,
           fs' \in FsType, fs'.file = fs.file \/ fs'.file = Absent,
           "fifo" \in fs'.entries => fs'.fifo \in Cli,
           bytes' \in [Cli -> Nat],
           \A f \in Cli : bytes'[f] > 0 => bytes[f] > 0 \/ Started(f)'
    PROVE  IInv'
  <1>1. cli' \in [Cli -> CliType] /\ \A d \in Cli : cli'[d] = IF d = c THEN r ELSE cli[d]
    BY DEF IInv, TypeOK
  <1>2. TypeOK'
    BY <1>1 DEF IInv, TypeOK
  <1>3. CliForward
    BY <1>1 DEF CliForward
  <1>4. CommandsInStep'
    BY <1>1, <1>3, DetachedStays DEF IInv, CommandsInStep
  <1>5. Fifos'
    <2>1. ASSUME NEW d \in Cli, Detached(d)', Released(sup[d])' PROVE Started(sup[d].ino)'
      <3>1. sup[d].pc # "none" /\ Released(sup[d])
        BY <2>1 DEF Released, Limited, Saving
      <3>2. Started(sup[d].ino)
        BY <1>3, <2>1, <3>1, DetachedStays DEF IInv, Fifos
      <3>3. PICK f : f = sup[d].ino /\ f = sup'[d].ino
        OBVIOUS
      <3>4. Started(f)'
        BY <1>3, <3>2, <3>3, StartedStays
      <3> QED
        BY <3>3, <3>4 DEF Started
    <2>2. \A f \in Cli : bytes'[f] > 0 => Started(f)'
      BY <1>3, StartedStays DEF IInv, Fifos
    <2> QED
      BY <2>1, <2>2 DEF IInv, Fifos
  <1>6. /\ fs \in FsType
        /\ Parses(fs'.file) => fs'.file = fs.file /\ fs.file.by \in Cli
        /\ fs'.file.status = "stopped" => fs'.file = fs.file /\ fs.file.by \in Cli
    BY Types, NamesOne DEF FsType, Parses, Absent
  <1>7. Records'
    <2>1. ASSUME NEW d \in Cli, sup[d].st \in StateRecord PROVE sup[d].st.by \in Cli
      BY <2>1 DEF StateRecord
    <2>2. Parses(fs'.file) => SetUp(fs.file.by)'
      BY <1>6 DEF IInv, Records, LifeForward
    <2>3. ASSUME NEW d \in Cli,
                 sup[d].pc \in {"open_state", "write_state", "supervise", "supervising"}
          PROVE  sup[d].st \in StateRecord /\ SetUp(sup[d].st.by)'
      BY <2>1, <2>3 DEF IInv, Records, LifeForward
    <2> QED
      BY <1>6, <2>2, <2>3 DEF IInv, Records, LifeForward
  <1>8. OneContainerOnly => Endings'
    <2> SUFFICES ASSUME OneContainerOnly PROVE Endings'
      OBVIOUS
    <2>1. fs'.file.status = "stopped" => Gone(fs.file.by)'
      BY <1>6 DEF IInv, Endings, LifeForward
    <2>2. ASSUME NEW d \in Cli, cli'[d].cmd = "delete", cli'[d].pc \in {"scan", "unlink"}
          PROVE  Gone(cli[d].st.by)'
      <3>1. Gone(cli'[d].st.by) /\ cli'[d].st \in StateRecord
        BY <1>1, <2>2, Types DEF IInv, Endings, InStep
      <3>2. cli'[d].st.by \in Cli
        BY <3>1 DEF StateRecord
      <3> QED
        BY <3>1, <3>2 DEF LifeForward
    <2> QED
      BY <1>6, <2>1, <2>2 DEF Endings
  <1> QED
    BY <1>2, <1>4, <1>5, <1>7, <1>8 DEF IInv, OneContainerOnly

\* ... in particular when the processes are left alone too.
LEMMA CommandIInv ==
    ASSUME IInv, NEW c \in Cli, NEW r \in CliType, cli' = [cli EXCEPT ![c] = r],
           InStep(r), r.cmd \in Commands[c] \cup {"none"},
           cli[c].pc # "idle" => r.cmd = cli[c].cmd,
           sup[c].pc # "none" => r.pc \in {"wait", "done"},
           cli[c].cmd = "start" /\ cli[c].pc \in {"close", "done"} =>
               r.pc \in {"close", "done"} /\ r.ino = cli[c].ino,
           OneContainerOnly /\ r.cmd = "delete" /\ r.pc \in {"scan", "unlink"} => Gone(r.st.by),
           sup' = sup, proc' = proc, cgroup' = cgroup, crashes' = crashes,
           fs' \in FsType, fs'.file = fs.file \/ fs'.file = Absent,
           "fifo" \in fs'.entries => fs'.fifo \in Cli,
           bytes' \in [Cli -> Nat],
           \A f \in Cli : bytes'[f] > 0 => bytes[f] > 0 \/ Started(f)'
    PROVE  IInv'
  <1>1. Handshake' /\ Ownership' /\ Limits'
    BY DEF IInv, Handshake, Ownership, Limits, HasInit
  <1>2. LifeForward
    BY DEF LifeForward, SetUp, Gone, Alive
  <1>3. proc' \in [Pid -> ProcType] /\ cgroup' \subseteq Pid
    BY DEF IInv, TypeOK
  <1> QED
    BY <1>1, <1>2, <1>3, CommandProcIInv

\* The directory and the FIFOs as they were meet what CommandIInv asks of them.
LEMMA SameFiles ==
    ASSUME IInv, fs' = fs, bytes' = bytes
    PROVE  /\ fs' \in FsType /\ fs'.file = fs.file /\ ("fifo" \in fs'.entries => fs'.fifo \in Cli)
           /\ bytes' \in [Cli -> Nat] /\ \A f \in Cli : bytes'[f] > 0 => bytes[f] > 0
  BY DEF IInv, TypeOK, Fifos

\* A command ends.
LEMMA FinishIInv ==
    ASSUME IInv, NEW c \in Cli, NEW result \in {"ok", "error"}, Finish(c, result),
           cli[c].pc # "idle",
           UNCHANGED <<sup, proc, bytes, cgroup, crashes>>,
           fs' \in FsType, fs'.file = fs.file, "fifo" \in fs'.entries => fs'.fifo \in Cli
    PROVE  IInv'
  <1> DEFINE r == [cli[c] EXCEPT !.pc = "done", !.result = result]
  <1>1. cli' = [cli EXCEPT ![c] = r]
    BY DEF Finish
  <1>a. cli[c] \in CliType
    BY Types
  <1>2. r \in CliType /\ r.pc = "done" /\ r.cmd = cli[c].cmd /\ r.ino = cli[c].ino
    BY <1>a DEF CliType
  <1>3. InStep(r) /\ r.cmd \in Commands[c] \cup {"none"}
    BY <1>2, Types DEF InStep
  <1>4. bytes' \in [Cli -> Nat]
    BY DEF IInv, TypeOK
  <1> HIDE DEF r
  <1> QED
    BY <1>1, <1>2, <1>3, <1>4, CommandIInv

\* A command is entered.
LEMMA InvokeIInv == ASSUME IInv, NEW c \in Cli, Invoke(c) PROVE IInv'
  <1>1. PICK cmd \in Commands[c] : cli' = [cli EXCEPT ![c].cmd = cmd, ![c].pc = "begin"]
    BY DEF Invoke
  <1> DEFINE r == [cli[c] EXCEPT !.cmd = cmd, !.pc = "begin"]
  <1>2. cli' = [cli EXCEPT ![c] = r] /\ cli[c].pc = "idle" /\ UNCHANGED <<sup, proc, fs, bytes, cgroup, crashes>>
    BY <1>1 DEF Invoke
  <1>3. cmd \in CommandNames /\ cmd # "none"
    BY CommandsAssumption DEF CommandNames
  <1>4. r \in CliType /\ r.pc = "begin" /\ r.cmd = cmd /\ r.joined = cli[c].joined
    BY <1>3, Types DEF CliType
  <1>5. InStep(r)
    BY <1>2, <1>3, <1>4, Types DEF InStep
  <1>6. sup[c].pc = "none" /\ cli[c].cmd = "none"
    BY <1>2, Types DEF InStep
  <1> HIDE DEF r
  <1> QED
    BY <1>2, <1>4, <1>5, <1>6, SameFiles, CommandIInv

\* The commands that come to an end and touch nothing else.
LEMMA EndingsIInv ==
    ASSUME IInv, NEW c \in Cli, RejectBundle(c) \/ ReadAnswer(c) \/ ReadFails(c) \/ ExecEnds(c)
    PROVE  IInv'
  <1>1. cli[c].pc # "idle" /\ UNCHANGED <<sup, proc, fs, bytes, cgroup, crashes>>
        /\ (Finish(c, "ok") \/ Finish(c, "error"))
    BY DEF RejectBundle, ReadAnswer, ReadFails, ExecEnds
  <1> QED
    BY <1>1, SameFiles, FinishIInv

\* read_state keeps what it read: a state that names a container set up before.
LEMMA ReadsIInv ==
    ASSUME IInv, NEW c \in Cli, NEW allowed, NEW pc \in {"open", "send", "scan", "enter"},
           Reads(c, allowed, pc),
           pc = "open" => cli[c].cmd = "start",
           cli[c].cmd = "delete" => allowed = {"stopped"}
    PROVE  IInv'
  <1> DEFINE r1 == [cli[c] EXCEPT !.pc = pc, !.st = fs.file]
             r2 == [cli[c] EXCEPT !.pc = "done", !.st = fs.file, !.result = "refused"]
  <1>1. /\ cli[c].pc = "begin" /\ UNCHANGED <<sup, proc, fs, bytes, cgroup, crashes>>
        /\ Parses(fs.file)
        /\ (fs.file.status \in allowed /\ cli' = [cli EXCEPT ![c] = r1]) \/ cli' = [cli EXCEPT ![c] = r2]
    BY DEF Reads
  <1>2. fs.file \in StateRecord
    BY <1>1, Types DEF FsType, FileContent, Parses, Absent, Empty, Garbled
  <1>3. sup[c].pc = "none" /\ cli[c].cmd # "none" /\ cli[c].joined < 6
    BY <1>1, Types DEF InStep
  <1>6. cli[c] \in CliType /\ fs.file \in FileContent
    BY <1>2, Types DEF FileContent
  <1>4. CASE fs.file.status \in allowed /\ cli' = [cli EXCEPT ![c] = r1]
    <2>1. /\ r1 \in CliType /\ r1.pc = pc /\ r1.cmd = cli[c].cmd /\ r1.st = fs.file
          /\ r1.joined = cli[c].joined
      BY <1>6 DEF CliType
    <2>2. InStep(r1)
      BY <1>2, <1>3, <2>1 DEF InStep
    <2>3. OneContainerOnly /\ r1.cmd = "delete" => Gone(r1.st.by)
      BY <1>4, <2>1 DEF IInv, Endings
    <2> HIDE DEF r1
    <2> QED
      BY <1>1, <1>3, <1>4, <2>1, <2>2, <2>3, Types, SameFiles, CommandIInv
  <1>5. CASE cli' = [cli EXCEPT ![c] = r2]
    <2>1. r2 \in CliType /\ r2.pc = "done" /\ r2.cmd = cli[c].cmd
      BY <1>6 DEF CliType
    <2>2. InStep(r2)
      BY <1>3, <2>1 DEF InStep
    <2> HIDE DEF r2
    <2> QED
      BY <1>1, <1>3, <1>5, <2>1, <2>2, Types, SameFiles, CommandIInv
  <1> QED
    BY <1>1, <1>4, <1>5

\* The commands that read the state of the container.
LEMMA ReadersIInv ==
    ASSUME IInv, NEW c \in Cli,
           StartRead(c) \/ KillRead(c) \/ DeleteRead(c) \/ ForceRead(c) \/ ExecRead(c)
    PROVE  IInv'
  BY ReadsIInv DEF StartRead, KillRead, DeleteRead, ForceRead, ExecRead

\* state and list.
LEMMA PrintsIInv ==
    ASSUME IInv, NEW c \in Cli, PrintState(c) \/ ListContainers(c)
    PROVE  IInv'
  <1> DEFINE r == [cli[c] EXCEPT !.pc = "done", !.result = "ok",
                                 !.st = IF Parses(fs.file) THEN fs.file ELSE Absent]
  <1>1. /\ cli[c].pc = "begin" /\ UNCHANGED <<sup, proc, fs, bytes, cgroup, crashes>>
        /\ cli' = [cli EXCEPT ![c] = r]
    BY DEF PrintState, ListContainers, Prints
  <1>2. fs.file \in FileContent /\ Absent \in FileContent
    BY Types DEF FsType, FileContent
  <1>3. sup[c].pc = "none" /\ cli[c].cmd # "none"
    BY <1>1, Types DEF InStep
  <1>4. r \in CliType /\ r.pc = "done" /\ r.cmd = cli[c].cmd
    BY <1>2, Types DEF CliType
  <1>5. InStep(r)
    BY <1>3, <1>4 DEF InStep
  <1> HIDE DEF r
  <1> QED
    BY <1>1, <1>3, <1>4, <1>5, Types, SameFiles, CommandIInv

\* A command goes on to its next step and keeps everything else.
LEMMA GotoIInv ==
    ASSUME IInv, NEW c \in Cli, cli[c].pc \notin {"idle", "wait", "close", "done"},
           NEW pc, Goto(c, pc), [cli[c] EXCEPT !.pc = pc] \in CliType,
           InStep([cli[c] EXCEPT !.pc = pc]),
           pc \in {"scan", "unlink"} => pc = "unlink" /\ cli[c].pc = "scan",
           UNCHANGED <<sup, proc, cgroup, crashes>>,
           fs' \in FsType, fs'.file = fs.file, "fifo" \in fs'.entries => fs'.fifo \in Cli,
           bytes' \in [Cli -> Nat], \A f \in Cli : bytes'[f] > 0 => bytes[f] > 0 \/ Started(f)'
    PROVE  IInv'
  <1> DEFINE r == [cli[c] EXCEPT !.pc = pc]
  <1>1. cli' = [cli EXCEPT ![c] = r]
    BY DEF Goto
  <1>2. r.cmd = cli[c].cmd /\ r.pc = pc /\ r.st = cli[c].st /\ r \in CliType /\ InStep(r)
    BY Types DEF CliType
  <1>3. sup[c].pc = "none"
    BY Types
  <1>4. OneContainerOnly /\ r.cmd = "delete" /\ r.pc \in {"scan", "unlink"} => Gone(r.st.by)
    BY <1>2 DEF IInv, Endings
  <1> HIDE DEF r
  <1> QED
    BY <1>1, <1>2, <1>3, <1>4, Types, CommandIInv

\* create and run make the directory.
LEMMA InitContainerDirIInv == ASSUME IInv, NEW c \in Cli, InitContainerDir(c) PROVE IInv'
  <1>1. /\ cli[c].pc = "begin" /\ Goto(c, "reset") /\ cli[c].cmd \in {"create", "run"}
        /\ fs' = [fs EXCEPT !.dir = TRUE] /\ UNCHANGED <<sup, proc, bytes, cgroup, crashes>>
    BY DEF InitContainerDir, Creators
  <1>2. /\ fs' \in FsType /\ fs'.file = fs.file /\ fs'.entries = fs.entries /\ fs'.fifo = fs.fifo
    BY <1>1, Types DEF FsType
  <1>3. [cli[c] EXCEPT !.pc = "reset"] \in CliType
    BY Types DEF CliType
  <1>4. InStep([cli[c] EXCEPT !.pc = "reset"])
    BY <1>1, Types DEF InStep, CliType
  <1> QED
    BY <1>1, <1>2, <1>3, <1>4, GotoIInv DEF IInv, TypeOK, Fifos

\* mkfifo
LEMMA MkfifoIInv == ASSUME IInv, NEW c \in Cli, Mkfifo(c) PROVE IInv'
  <1>1. cli[c].pc = "mkfifo" /\ UNCHANGED <<sup, proc, bytes, cgroup, crashes>> /\ cli[c].cmd = "create"
    BY Types DEF Mkfifo, InStep
  <1>2. CASE fs.dir
    <2>1. /\ Goto(c, "fork")
          /\ fs' = [fs EXCEPT !.entries = @ \cup {"fifo"},
                              !.fifo = IF "fifo" \in fs.entries THEN @ ELSE c]
      BY <1>2 DEF Mkfifo
    <2>2. fs' \in FsType /\ fs'.file = fs.file /\ fs'.fifo \in Cli
      BY <2>1, Types DEF FsType, IInv, Fifos, Entries
    <2>3. [cli[c] EXCEPT !.pc = "fork"] \in CliType
      BY Types DEF CliType
    <2>4. InStep([cli[c] EXCEPT !.pc = "fork"])
      BY <1>1, Types DEF InStep, CliType
    <2> QED
      BY <1>1, <2>1, <2>2, <2>3, <2>4, GotoIInv DEF IInv, TypeOK
  <1>3. CASE ~fs.dir
    BY <1>1, <1>3, SameFiles, FinishIInv DEF Mkfifo
  <1> QED
    BY <1>2, <1>3

\* start opens the FIFO that the directory names,
LEMMA StartOpenIInv == ASSUME IInv, NEW c \in Cli, StartOpen(c) PROVE IInv'
  <1>1. cli[c].pc = "open" /\ UNCHANGED <<sup, proc, fs, bytes, cgroup, crashes>>
    BY DEF StartOpen
  <1>2. CASE "fifo" \in fs.entries
    <2> DEFINE r == [cli[c] EXCEPT !.pc = "write", !.ino = fs.fifo]
    <2>1. cli' = [cli EXCEPT ![c] = r] /\ fs.fifo \in Cli
      BY <1>2 DEF StartOpen, IInv, Fifos
    <2>2. /\ r \in CliType /\ r.pc = "write" /\ r.cmd = cli[c].cmd /\ r.ino \in Cli
          /\ r.st = cli[c].st
      BY <2>1, Types DEF CliType
    <2>3. InStep(r) /\ sup[c].pc = "none"
      BY <1>1, <2>2, Types DEF InStep
    <2> HIDE DEF r
    <2> QED
      BY <1>1, <2>1, <2>2, <2>3, Types, SameFiles, CommandIInv
  <1>3. CASE "fifo" \notin fs.entries
    BY <1>1, <1>3, SameFiles, FinishIInv DEF StartOpen
  <1> QED
    BY <1>2, <1>3

\* writes a byte into it,
LEMMA StartWriteIInv == ASSUME IInv, NEW c \in Cli, StartWrite(c) PROVE IInv'
  <1>1. /\ cli[c].pc = "write" /\ Goto(c, "close") /\ UNCHANGED <<sup, proc, fs, cgroup, crashes>>
        /\ bytes' = [bytes EXCEPT ![cli[c].ino] = @ + 1]
    BY DEF StartWrite
  <1>2. cli[c].cmd = "start" /\ cli[c].ino \in Cli
    BY <1>1, Types DEF InStep
  <1>3. bytes' \in [Cli -> Nat] /\ \A f \in Cli : f # cli[c].ino => bytes'[f] = bytes[f]
    BY <1>1, <1>2 DEF IInv, TypeOK
  <1>4. cli'[c].pc = "close" /\ cli'[c].cmd = "start" /\ cli'[c].ino = cli[c].ino
    BY <1>1, <1>2, Types DEF Goto, IInv, TypeOK, CliType
  <1>5. \A f \in Cli : bytes'[f] > 0 => bytes[f] > 0 \/ Started(f)'
    BY <1>3, <1>4 DEF Started
  <1>6. [cli[c] EXCEPT !.pc = "close"] \in CliType
    BY Types DEF CliType
  <1>7. InStep([cli[c] EXCEPT !.pc = "close"])
    BY <1>1, Types DEF InStep, CliType
  <1> QED
    BY <1>1, <1>3, <1>5, <1>6, <1>7, GotoIInv DEF IInv, TypeOK, Fifos

\* and closes it.
LEMMA StartCloseIInv == ASSUME IInv, NEW c \in Cli, StartClose(c) PROVE IInv'
  <1> DEFINE r == [cli[c] EXCEPT !.pc = "done", !.result = "ok"]
  <1>1. /\ cli[c].pc = "close" /\ cli' = [cli EXCEPT ![c] = r]
        /\ CloseFifo(c, cli[c].ino) /\ UNCHANGED <<sup, proc, fs, cgroup, crashes>>
    BY DEF StartClose, Finish
  <1>2. bytes' \in [Cli -> Nat] /\ \A f \in Cli : bytes'[f] > 0 => bytes[f] > 0
    <2>1. cli[c].ino \in Cli /\ bytes \in [Cli -> Nat]
      BY <1>1, Types DEF InStep, IInv, TypeOK
    <2>2. bytes' = [bytes EXCEPT ![cli[c].ino] = 0] \/ bytes' = bytes
      BY <1>1 DEF CloseFifo
    <2> QED
      BY <2>1, <2>2
  <1>3. /\ r \in CliType /\ r.pc = "done" /\ r.cmd = cli[c].cmd /\ r.ino = cli[c].ino
    BY Types DEF CliType
  <1>4. InStep(r) /\ sup[c].pc = "none"
    BY <1>1, <1>3, Types DEF InStep
  <1> HIDE DEF r
  <1> QED
    BY <1>1, <1>2, <1>3, <1>4, Types, CommandIInv DEF IInv, TypeOK, Fifos

\* remove_dir_all lists the directory,
LEMMA RemoveScanIInv == ASSUME IInv, NEW c \in Cli, RemoveScan(c) PROVE IInv'
  <1>1. cli[c].pc = "scan" /\ UNCHANGED <<sup, proc, fs, bytes, cgroup, crashes>>
    BY DEF RemoveScan
  <1>2. CASE fs.dir
    <2> DEFINE r == [cli[c] EXCEPT !.pc = "unlink", !.todo = fs.entries]
    <2>1. cli' = [cli EXCEPT ![c] = r] /\ fs.entries \subseteq Entries
      BY <1>2, Types DEF RemoveScan, FsType
    <2>2. /\ r \in CliType /\ r.pc = "unlink" /\ r.cmd = cli[c].cmd /\ r.st = cli[c].st
      BY <2>1, Types DEF CliType
    <2>3. InStep(r) /\ sup[c].pc = "none"
      BY <1>1, <2>2, Types DEF InStep
    <2>4. OneContainerOnly /\ r.cmd = "delete" => Gone(r.st.by)
      BY <1>1, <2>2 DEF IInv, Endings
    <2> HIDE DEF r
    <2> QED
      BY <1>1, <2>1, <2>2, <2>3, <2>4, Types, SameFiles, CommandIInv
  <1>3. CASE ~fs.dir
    BY <1>1, <1>3, SameFiles, FinishIInv DEF RemoveScan
  <1> QED
    BY <1>2, <1>3

\* unlinks what it found, one entry after the other,
LEMMA RemoveEntryIInv ==
    ASSUME IInv, NEW c \in Cli, NEW e \in Entries, RemoveEntry(c, e)
    PROVE  IInv'
  <1> DEFINE r == [cli[c] EXCEPT !.todo = @ \ {e}]
  <1>1. /\ cli[c].pc = "unlink" /\ cli' = [cli EXCEPT ![c] = r] /\ fs' = Unlinked(e)
        /\ UNCHANGED <<sup, proc, bytes, cgroup, crashes>>
    BY DEF RemoveEntry
  <1>2. /\ r \in CliType /\ r.pc = "unlink" /\ r.cmd = cli[c].cmd /\ r.st = cli[c].st
    BY <1>1, Types DEF CliType
  <1>3. InStep(r) /\ sup[c].pc = "none"
    BY <1>1, <1>2, Types DEF InStep
  <1>4. OneContainerOnly /\ r.cmd = "delete" => Gone(r.st.by)
    BY <1>1, <1>2 DEF IInv, Endings
  <1>5. /\ fs' \in FsType /\ (fs'.file = fs.file \/ fs'.file = Absent)
        /\ ("fifo" \in fs'.entries => fs'.fifo \in Cli)
    BY <1>1, Types DEF FsType, FileContent, Unlinked, Entries, IInv, Fifos
  <1> HIDE DEF r
  <1> QED
    BY <1>1, <1>2, <1>3, <1>4, <1>5, Types, CommandIInv DEF IInv, TypeOK

\* and removes the directory.
LEMMA RemoveDirIInv == ASSUME IInv, NEW c \in Cli, RemoveDir(c) PROVE IInv'
  <1>1. /\ cli[c].pc = "unlink" /\ UNCHANGED <<sup, proc, bytes, cgroup, crashes>>
        /\ \/ fs' = [fs EXCEPT !.dir = FALSE] /\ Finish(c, "ok")
           \/ fs' = fs /\ Finish(c, "error")
    BY DEF RemoveDir
  <1>2. /\ fs' \in FsType /\ fs'.file = fs.file /\ fs'.entries = fs.entries /\ fs'.fifo = fs.fifo
    BY <1>1, Types DEF FsType
  <1> QED
    BY <1>1, <1>2, FinishIInv DEF IInv, Fifos

\* exec enters the namespaces.
LEMMA EnterNsIInv == ASSUME IInv, NEW c \in Cli, EnterNs(c) PROVE IInv'
  <1> DEFINE p == cli[c].st.pid
             pc == IF cli[c].joined = 5 THEN "inside" ELSE "enter"
             r == [cli[c] EXCEPT !.joined = @ + 1, !.hit = proc[p].owner, !.pc = pc]
  <1>1. /\ cli[c].pc = "enter" /\ UNCHANGED <<sup, proc, fs, bytes, cgroup, crashes>>
        /\ cli' = [cli EXCEPT ![c] = r] \/ Finish(c, "error")
    BY DEF EnterNs
  <1>2. CASE Finish(c, "error")
    BY <1>1, <1>2, SameFiles, FinishIInv
  <1>3. CASE cli' = [cli EXCEPT ![c] = r]
    <2>1. p \in Pid /\ cli[c].joined \in 0..5 /\ cli[c].st \in StateRecord
      BY <1>1, Types DEF InStep, StateRecord, CliType
    <2>2. proc[p].owner \in Cli \cup {NoCli}
      BY <2>1, Types DEF ProcType
    <2>3. /\ r \in CliType /\ r.pc = pc /\ r.cmd = cli[c].cmd /\ r.st = cli[c].st
          /\ r.joined = cli[c].joined + 1
      <3>1. cli[c].joined + 1 \in 0..6 /\ pc \in {"inside", "enter"} /\ cli[c] \in CliType
        BY <2>1, Types
      <3> HIDE DEF pc
      <3> QED
        BY <2>2, <3>1 DEF CliType
    <2>4. InStep(r) /\ sup[c].pc = "none" /\ pc \in {"inside", "enter"}
      BY <1>1, <2>1, <2>3, Types DEF InStep
    <2> HIDE DEF r, pc, p
    <2> QED
      BY <1>1, <1>3, <2>3, <2>4, Types, SameFiles, CommandIInv
  <1> QED
    BY <1>1, <1>2, <1>3

-----------------------------------------------------------------------------
(* Processes *)

\* The process of a container is at the stage its supervisor waits for, or dead.
LEMMA StageOf ==
    ASSUME IInv, NEW p \in Pid, NEW c \in Cli, proc[p].owner = c
    PROVE  /\ sup[c].pid = p
           /\ \/ sup[c].pc = "map" /\ proc[p].pc \in {"cloned", "wait_maps", "zombie"}
              \/ sup[c].pc = "wait_stop" /\ proc[p].pc \in {"setup", "stopping", "zombie"}
              \/ Prepared(sup[c]) /\ proc[p].pc \in {"paused", "zombie"}
              \/ sup[c].pc = "supervising" /\ proc[p].pc \in {"running", "zombie"}
              \/ sup[c].pc = "exited" /\ proc[p].pc \notin {"paused", "running"}
  <1>1. /\ sup[c].pid = p /\ ~Reaped(sup[c]) /\ sup[c].pc \notin {"none", "spawn"}
        /\ sup[c].pc = "exited" => proc[p].pc \notin {"paused", "running"}
    BY Types DEF IInv, Ownership, Handshake
  <1>2. sup[c].pc \in {"open_state", "write_state"} =>
            \/ Saving(sup[c], "created") \/ Saving(sup[c], "running") \/ Saving(sup[c], "stopped")
    BY DEF IInv, Records, StateRecord, Saving
  <1>3. \/ sup[c].pc \in {"map", "wait_stop", "supervising", "exited"} \/ Prepared(sup[c])
    BY <1>1, <1>2, Types DEF SupType, Prepared, Reaped
  <1> QED
    BY <1>1, <1>3 DEF IInv, Handshake, HasInit

\* One process moves: it goes on in its setup, dies, or is reaped after its
\* supervisor has gone.
LEMMA ProcessForward ==
    ASSUME IInv, sup' = sup, crashes' = crashes, NEW p \in Pid, NEW q \in ProcType,
           proc' = [proc EXCEPT ![p] = q],
           \/ /\ q.owner = NoCli /\ q.pc \in {"free", "foreign"}
              /\ proc[p].owner = NoCli \/ sup[proc[p].owner].pc = "exited"
           \/ /\ q.owner = proc[p].owner /\ q.owner # NoCli /\ q.code = 0
              /\ \/ proc[p].pc = "cloned" /\ q.pc = "wait_maps"
                 \/ proc[p].pc = "setup" /\ q.pc = "stopping"
           \/ /\ q.owner = proc[p].owner /\ q.owner # NoCli /\ q.pc = "zombie"
              /\ \/ q.code \in Codes \cup {0, Killed}
                 \/ sup[q.owner].pc \in {"map", "wait_stop", "exited"},
           cgroup' = cgroup \/ (cgroup' = cgroup \ {p} /\ q.owner = NoCli)
    PROVE  /\ proc' \in [Pid -> ProcType] /\ cgroup' \subseteq Pid
           /\ Handshake' /\ Ownership' /\ Limits' /\ LifeForward
  <1>1. /\ proc' \in [Pid -> ProcType]
        /\ \A x \in Pid : proc'[x] = IF x = p THEN q ELSE proc[x]
    BY DEF IInv, TypeOK
  <1>2. cgroup' \subseteq Pid
    BY Types
  <1>3. ASSUME NEW c \in Cli, NEW stages, HasInit(c, stages), sup[c].pc # "exited",
               sup[c].pid = p => q.pc = "zombie" \/ q.pc \in stages,
               "zombie" \in stages
        PROVE  HasInit(c, stages)'
    BY <1>1, <1>3, Types DEF HasInit
  <1>4. Handshake'
    <2>1. ASSUME NEW c \in Cli, sup[c].pid = p, proc[p].owner = c, sup[c].pc # "exited"
          PROVE  /\ sup[c].pc = "map" => q.pc \in {"wait_maps", "zombie"}
                 /\ sup[c].pc = "wait_stop" => q.pc \in {"stopping", "zombie"}
                 /\ Prepared(sup[c]) \/ sup[c].pc = "supervising" => q.pc = "zombie"
      BY <2>1, Types, StageOf DEF Prepared, Saving
    <2>2. ASSUME NEW c \in Cli, sup[c].pc = "map"
          PROVE  HasInit(c, {"cloned", "wait_maps", "zombie"})'
      BY <1>3, <2>1, <2>2 DEF IInv, Handshake, HasInit
    <2>3. ASSUME NEW c \in Cli, sup[c].pc = "wait_stop"
          PROVE  HasInit(c, {"setup", "stopping", "zombie"})'
      BY <1>3, <2>1, <2>3 DEF IInv, Handshake, HasInit
    <2>4. ASSUME NEW c \in Cli, Prepared(sup[c])
          PROVE  HasInit(c, {"paused", "zombie"})'
      BY <1>3, <2>1, <2>4 DEF IInv, Handshake, HasInit, Prepared, Saving
    <2>5. ASSUME NEW c \in Cli, sup[c].pc = "supervising"
          PROVE  HasInit(c, {"running", "zombie"})'
      BY <1>3, <2>1, <2>5 DEF IInv, Handshake, HasInit
    <2> QED
      BY <2>2, <2>3, <2>4, <2>5 DEF IInv, Handshake, Prepared, Saving
  <1>5. Ownership'
    <2>1. ASSUME NEW x \in Pid
          PROVE  LET s == sup[proc'[x].owner]
                 IN /\ proc'[x].owner = NoCli <=> proc'[x].pc \in {"free", "foreign"}
                    /\ proc'[x].owner # NoCli =>
                          /\ s.pid = x /\ ~Reaped(s)
                          /\ s.pc = "exited" => /\ proc'[x].pc \notin {"paused", "running"}
                                                /\ crashes > 0 \/ proc'[x].pc \in {"wait_maps", "zombie"}
                          /\ proc'[x].pc = "zombie" \/ proc'[x].code = 0
                          /\ s.pc \in {"map", "wait_stop", "exited"}
                             \/ proc'[x].code \in Codes \cup {0, Killed}
      <3>1. CASE x = p
        BY <1>1, <3>1 DEF IInv, Ownership
      <3>2. CASE x # p
        BY <1>1, <3>2 DEF IInv, Ownership
      <3> QED
        BY <3>1, <3>2
    <2> QED
      BY <2>1 DEF Ownership
  <1>6. Limits'
    <2>1. ASSUME NEW c \in Cli, Limited(sup[c])
          PROVE  sup[c].pid # p \/ q.owner # NoCli
      <3>1. /\ sup[c].pc # "exited" /\ sup[c].pid \in Pid /\ proc[sup[c].pid].owner = c
        BY <2>1 DEF IInv, Handshake, HasInit, Limited, Prepared, Saving
      <3> QED
        BY <3>1, Types
    <2> QED
      BY <2>1 DEF IInv, Limits, Limited, Saving
  <1>7. LifeForward
    <2>1. ASSUME NEW c \in Cli, SetUp(c) PROVE SetUp(c)'
      BY <1>1, <2>1, Types DEF SetUp
    <2>2. ASSUME NEW c \in Cli, SetUp(c), ~Alive(c) PROVE ~Alive(c)'
      BY <1>1, <2>2, Types DEF SetUp, Alive
    <2> QED
      BY <2>1, <2>2 DEF LifeForward, Gone
  <1> QED
    BY <1>1, <1>2, <1>4, <1>5, <1>6, <1>7

\* Nothing else is touched by a step of a process.
LEMMA ProcessIInv ==
    ASSUME IInv, UNCHANGED <<cli, sup, fs, bytes, crashes>>,
           proc' \in [Pid -> ProcType], cgroup' \subseteq Pid,
           Handshake', Ownership', Limits', LifeForward
    PROVE  IInv'
  <1>1. TypeOK' /\ CommandsInStep'
    BY DEF IInv, TypeOK, CommandsInStep, Creators
  <1>2. Fifos'
    BY DEF IInv, Fifos, Started, Detached
  <1>3. /\ Parses(fs.file) => fs.file.by \in Cli
        /\ fs.file.status = "stopped" => fs.file.by \in Cli
    BY Types, NamesOne DEF FsType, Parses
  <1>4. Records'
    <2>1. Parses(fs.file) => SetUp(fs.file.by)'
      BY <1>3 DEF IInv, Records, LifeForward
    <2>2. ASSUME NEW d \in Cli,
                 sup[d].pc \in {"open_state", "write_state", "supervise", "supervising"}
          PROVE  sup[d].st \in StateRecord /\ SetUp(sup[d].st.by)'
      <3>1. sup[d].st \in StateRecord /\ SetUp(sup[d].st.by)
        BY <2>2 DEF IInv, Records
      <3>2. sup[d].st.by \in Cli
        BY <3>1 DEF StateRecord
      <3> QED
        BY <3>1, <3>2 DEF LifeForward
    <2> QED
      BY <2>1, <2>2 DEF IInv, Records, LifeForward
  <1>5. OneContainerOnly => Endings'
    <2> SUFFICES ASSUME OneContainerOnly PROVE Endings'
      OBVIOUS
    <2>1. fs.file.status = "stopped" => Gone(fs.file.by)'
      BY <1>3 DEF IInv, Endings, LifeForward
    <2>2. ASSUME NEW d \in Cli, cli[d].cmd = "delete", cli[d].pc \in {"scan", "unlink"}
          PROVE  Gone(cli[d].st.by)'
      <3>1. Gone(cli[d].st.by) /\ cli[d].st \in StateRecord
        BY <2>2, Types DEF IInv, Endings, InStep
      <3>2. cli[d].st.by \in Cli
        BY <3>1 DEF StateRecord
      <3> QED
        BY <3>1, <3>2 DEF LifeForward
    <2> QED
      BY <2>1, <2>2 DEF Endings
  <1> QED
    BY <1>1, <1>2, <1>4, <1>5 DEF IInv, OneContainerOnly

\* A process that is somebody's has an owner.
LEMMA OwnerOf ==
    ASSUME IInv, NEW p \in Pid, proc[p].pc \notin {"free", "foreign"}
    PROVE  proc[p].owner \in Cli /\ proc[p].owner # NoCli
  BY Types DEF IInv, Ownership, ProcType

\* The steps of the child, the end of the entrypoint, and the host's.
LEMMA ProcessStepIInv ==
    ASSUME IInv, NEW p \in Pid, ProcessStep(p) \/ HostReuses(p)
    PROVE  IInv'
  <1>0. proc[p] \in ProcType /\ FreeProc \in ProcType /\ FreeProc.owner = NoCli /\ FreeProc.pc = "free"
    BY Types DEF ProcType, FreeProc
  <1>1. CASE ChildReady(p)
    <2> DEFINE q == [proc[p] EXCEPT !.pc = "wait_maps"]
    <2>1. /\ proc[p].pc = "cloned" /\ proc' = [proc EXCEPT ![p] = q]
          /\ UNCHANGED <<cli, sup, fs, bytes, cgroup, crashes>>
      BY <1>1 DEF ChildReady
    <2>2. q \in ProcType /\ q.owner = proc[p].owner /\ q.code = proc[p].code /\ q.pc = "wait_maps"
      BY <1>0 DEF ProcType
    <2>3. q.owner # NoCli /\ q.code = 0
      BY <2>1, <2>2, OwnerOf DEF IInv, Ownership
    <2> HIDE DEF q
    <2> QED
      BY <2>1, <2>2, <2>3, ProcessForward, ProcessIInv
  <1>2. CASE ChildStops(p)
    <2> DEFINE q == [proc[p] EXCEPT !.pc = "stopping"]
    <2>1. /\ proc[p].pc = "setup" /\ proc' = [proc EXCEPT ![p] = q]
          /\ UNCHANGED <<cli, sup, fs, bytes, cgroup, crashes>>
      BY <1>2 DEF ChildStops
    <2>2. q \in ProcType /\ q.owner = proc[p].owner /\ q.code = proc[p].code /\ q.pc = "stopping"
      BY <1>0 DEF ProcType
    <2>3. q.owner # NoCli /\ q.code = 0
      BY <2>1, <2>2, OwnerOf DEF IInv, Ownership
    <2> HIDE DEF q
    <2> QED
      BY <2>1, <2>2, <2>3, ProcessForward, ProcessIInv
  <1>3. CASE ChildFails(p)
    <2> DEFINE q == [proc[p] EXCEPT !.pc = "zombie", !.code = 1]
    <2>1. /\ proc[p].pc = "setup" /\ proc' = [proc EXCEPT ![p] = q]
          /\ UNCHANGED <<cli, sup, fs, bytes, cgroup, crashes>>
      BY <1>3 DEF ChildFails
    <2>2. q \in ProcType /\ q.owner = proc[p].owner /\ q.pc = "zombie"
      BY <1>0 DEF ProcType
    <2>3. q.owner # NoCli /\ sup[q.owner].pc \in {"map", "wait_stop", "exited"}
      BY <2>1, <2>2, OwnerOf, StageOf
    <2> HIDE DEF q
    <2> QED
      BY <2>1, <2>2, <2>3, ProcessForward, ProcessIInv
  <1>4. ASSUME NEW code \in Codes, GuestExit(p, code) PROVE IInv'
    <2> DEFINE q == [proc[p] EXCEPT !.pc = "zombie", !.code = code]
    <2>1. /\ proc[p].pc = "running" /\ proc' = [proc EXCEPT ![p] = q]
          /\ UNCHANGED <<cli, sup, fs, bytes, cgroup, crashes>>
      BY <1>4 DEF GuestExit
    <2>2. q \in ProcType /\ q.owner = proc[p].owner /\ q.pc = "zombie" /\ q.code \in Codes
      BY <1>0 DEF ProcType
    <2>3. q.owner # NoCli
      BY <2>1, <2>2, OwnerOf
    <2> HIDE DEF q
    <2> QED
      BY <2>1, <2>2, <2>3, ProcessForward, ProcessIInv
  <1>5. CASE HostReaps(p)
    <2>1. /\ proc[p].pc = "zombie" /\ sup[proc[p].owner].pc = "exited"
          /\ proc' = [proc EXCEPT ![p] = FreeProc] /\ cgroup' = cgroup \ {p}
          /\ UNCHANGED <<cli, sup, fs, bytes, crashes>>
      BY <1>5 DEF HostReaps
    <2> QED
      BY <1>0, <2>1, ProcessForward, ProcessIInv
  <1>6. CASE HostReuses(p)
    <2> DEFINE q == [proc[p] EXCEPT !.pc = "foreign"]
    <2>1. /\ proc[p].pc = "free" /\ proc' = [proc EXCEPT ![p] = q]
          /\ UNCHANGED <<cli, sup, fs, bytes, cgroup, crashes>>
      BY <1>6 DEF HostReuses
    <2>2. q \in ProcType /\ q.owner = proc[p].owner /\ q.pc = "foreign"
      BY <1>0 DEF ProcType
    <2>3. q.owner = NoCli
      BY <2>1, <2>2 DEF IInv, Ownership
    <2> HIDE DEF q
    <2> QED
      BY <2>1, <2>2, <2>3, ProcessForward, ProcessIInv
  <1> QED
    BY <1>1, <1>2, <1>3, <1>4, <1>5, <1>6 DEF ProcessStep

\* SIGKILL to whatever is at a pid by now.
LEMMA SlayForward ==
    ASSUME IInv, sup' = sup, crashes' = crashes, cgroup' = cgroup, NEW p \in Pid, Slay(p)
    PROVE  /\ proc' \in [Pid -> ProcType] /\ cgroup' \subseteq Pid
           /\ Handshake' /\ Ownership' /\ Limits' /\ LifeForward
  <1>0. proc[p] \in ProcType /\ FreeProc \in ProcType /\ FreeProc.owner = NoCli /\ FreeProc.pc = "free"
    BY Types DEF ProcType, FreeProc
  <1>1. CASE proc[p].pc = "foreign"
    <2>1. proc' = [proc EXCEPT ![p] = FreeProc] /\ proc[p].owner = NoCli
      BY <1>1 DEF Slay, IInv, Ownership
    <2> QED
      BY <1>0, <2>1, ProcessForward
  <1>2. CASE proc[p].pc \in {"free", "zombie"}
    <2>1. proc' = proc
      BY <1>2 DEF Slay
    <2> QED
      BY <2>1 DEF IInv, TypeOK, Handshake, HasInit, Ownership, Limits, LifeForward, SetUp, Gone, Alive
  <1>3. CASE proc[p].pc \notin {"foreign", "free", "zombie"}
    <2> DEFINE q == [proc[p] EXCEPT !.pc = "zombie", !.code = Killed]
    <2>1. proc' = [proc EXCEPT ![p] = q]
      BY <1>3 DEF Slay
    <2>2. q \in ProcType /\ q.owner = proc[p].owner /\ q.pc = "zombie" /\ q.code = Killed
      BY <1>0 DEF ProcType
    <2>3. q.owner # NoCli
      BY <1>3, <2>2, OwnerOf
    <2> HIDE DEF q
    <2> QED
      BY <2>1, <2>2, <2>3, ProcessForward
  <1> QED
    BY <1>1, <1>2, <1>3

\* kill sends a signal to the pid it read.
LEMMA KillSendIInv == ASSUME IInv, NEW c \in Cli, KillSend(c) PROVE IInv'
  <1> DEFINE p == cli[c].st.pid
             r == [cli[c] EXCEPT !.pc = "done", !.result = "ok", !.hit = proc[p].owner]
  <1>1. /\ cli[c].pc = "send" /\ cli[c].cmd \in {"kill", "sigkill"}
        /\ UNCHANGED <<sup, fs, bytes, cgroup, crashes>>
        /\ \/ Finish(c, "error") /\ proc' = proc
           \/ cli' = [cli EXCEPT ![c] = r] /\ (Slay(p) \/ proc' = proc)
    BY DEF KillSend
  <1>2. p \in Pid /\ sup[c].pc = "none"
    BY <1>1, Types DEF InStep, StateRecord
  <1>3. CASE Finish(c, "error") /\ proc' = proc
    BY <1>1, <1>3, SameFiles, FinishIInv
  <1>4. CASE cli' = [cli EXCEPT ![c] = r] /\ (Slay(p) \/ proc' = proc)
    <2>1. proc[p].owner \in Cli \cup {NoCli}
      BY <1>2, Types DEF ProcType
    <2>2. r \in CliType /\ r.pc = "done" /\ r.cmd = cli[c].cmd
      BY <2>1, Types DEF CliType
    <2>3. InStep(r)
      BY <1>1, <2>2 DEF InStep
    <2> HIDE DEF r, p
    <2>4. CASE proc' = proc
      BY <1>1, <1>2, <1>4, <2>2, <2>3, <2>4, Types, SameFiles, CommandIInv
    <2>5. CASE Slay(p)
      BY <1>1, <1>2, <1>4, <2>2, <2>3, <2>5, Types, SameFiles, SlayForward, CommandProcIInv
    <2> QED
      BY <1>4, <2>4, <2>5
  <1> QED
    BY <1>1, <1>3, <1>4

\* delete --force does so too, and goes on.
LEMMA ForceKillIInv == ASSUME IInv, NEW c \in Cli, ForceKill(c) PROVE IInv'
  <1> DEFINE p == cli[c].st.pid
             r == [cli[c] EXCEPT !.pc = "scan",
                                 !.hit = IF proc[p].pc = "free" THEN cli[c].st.by ELSE proc[p].owner]
  <1>1. /\ cli[c].pc = "send" /\ cli[c].cmd = "force" /\ UNCHANGED <<sup, fs, bytes, cgroup, crashes>>
        /\ cli' = [cli EXCEPT ![c] = r] /\ Slay(p)
    BY DEF ForceKill
  <1>2. p \in Pid /\ sup[c].pc = "none" /\ cli[c].st.by \in Cli
    BY <1>1, Types DEF InStep, StateRecord
  <1>3. proc[p].owner \in Cli \cup {NoCli}
    BY <1>2, Types DEF ProcType
  <1>4. r \in CliType /\ r.pc = "scan" /\ r.cmd = cli[c].cmd /\ r.st = cli[c].st
    <2>1. PICK h \in Cli \cup {NoCli} :
              h = IF proc[p].pc = "free" THEN cli[c].st.by ELSE proc[p].owner
      BY <1>2, <1>3
    <2>2. r = [cli[c] EXCEPT !.pc = "scan", !.hit = h] /\ cli[c] \in CliType
      BY <2>1, Types
    <2> QED
      BY <2>2 DEF CliType
  <1>5. InStep(r)
    BY <1>1, <1>4, Types DEF InStep
  <1> HIDE DEF r, p
  <1> QED
    BY <1>1, <1>2, <1>4, <1>5, Types, SameFiles, SlayForward, CommandProcIInv

-----------------------------------------------------------------------------
(* Supervisors *)

\* One supervisor moves, with its command: what is left to show of it is what
\* the state it is in, or writes, says of its container.
LEMMA SupervisorIInv ==
    ASSUME IInv, NEW c \in Cli, NEW s \in SupType, sup' = [sup EXCEPT ![c] = s],
           NEW r \in CliType, cli' = [cli EXCEPT ![c] = r],
           InStep(r), r.cmd = cli[c].cmd, c \in Creators, s.pc # "none", r.pc \in {"wait", "done"},
           proc' \in [Pid -> ProcType], cgroup' \subseteq Pid, crashes' \in 0..MaxCrashes,
           Handshake', Ownership', Limits', LifeForward,
           NEW f \in FileContent, fs' \in FsType, fs'.file = f,
           f = fs.file \/ (Parses(f) => SetUp(f.by)'),
           f = fs.file \/ (OneContainerOnly /\ f.status = "stopped" => Gone(f.by)'),
           "fifo" \in fs'.entries => fs'.fifo \in Cli,
           bytes' \in [Cli -> Nat], \A i \in Cli : bytes'[i] > 0 => bytes[i] > 0,
           s.pc = "read_fifo" => s.ino \in Cli,
           Detached(c) /\ Released(s) => Started(s.ino),
           s.answer = "pid" => SetUp(c)',
           s.pc \in {"open_state", "write_state", "supervise", "supervising"} =>
               s.st \in StateRecord /\ SetUp(s.st.by)',
           s.pc \in {"supervise", "supervising"} => s.st.status = "running"
    PROVE  IInv'
  <1>1. /\ cli' \in [Cli -> CliType] /\ \A d \in Cli : cli'[d] = IF d = c THEN r ELSE cli[d]
        /\ sup' \in [Cli -> SupType] /\ \A d \in Cli : sup'[d] = IF d = c THEN s ELSE sup[d]
    BY DEF IInv, TypeOK
  <1>2. TypeOK'
    BY <1>1 DEF IInv, TypeOK
  <1>0. r.cmd \in {"create", "run"}
    BY DEF Creators
  <1>3. CliForward
    BY <1>0, <1>1 DEF CliForward
  <1>4. CommandsInStep'
    <2>1. ASSUME NEW d \in Cli, d # c, sup[d].pc # "none" PROVE d \in Creators'
      BY <1>3, <2>1, DetachedStays
    <2>2. c \in Creators'
      BY <1>0, <1>1 DEF Creators
    <2> QED
      BY <1>0, <1>1, <2>1, <2>2 DEF IInv, CommandsInStep
  <1>5. Fifos'
    <2>1. ASSUME NEW d \in Cli, Detached(d)', Released(sup[d])' PROVE Started(sup[d].ino)'
      <3>1. PICK i : i = sup'[d].ino
        OBVIOUS
      <3>2. Started(i)
        <4>1. CASE d = c
          BY <1>0, <1>1, <2>1, <3>1, <4>1 DEF Detached
        <4>2. CASE d # c
          BY <1>1, <2>1, <3>1, <4>2 DEF IInv, Fifos, Detached
        <4> QED
          BY <4>1, <4>2
      <3>3. Started(i)'
        BY <1>3, <3>2, StartedStays
      <3> QED
        BY <3>1, <3>3 DEF Started
    <2>2. \A i \in Cli : bytes'[i] > 0 => Started(i)'
      BY <1>3, StartedStays DEF IInv, Fifos
    <2> QED
      BY <1>1, <2>1, <2>2 DEF IInv, Fifos
  <1>6. /\ fs.file \in FileContent
        /\ Parses(fs.file) => fs.file.by \in Cli
        /\ fs.file.status = "stopped" => fs.file.by \in Cli
    BY Types, NamesOne DEF FsType, Parses
  <1>7. Records'
    <2>1. Parses(f) => SetUp(f.by)'
      BY <1>6 DEF IInv, Records, LifeForward
    <2>2. ASSUME NEW d \in Cli,
                 sup'[d].pc \in {"open_state", "write_state", "supervise", "supervising"}
          PROVE  sup'[d].st \in StateRecord /\ SetUp(sup[d].st.by)'
      <3>1. CASE d = c
        BY <1>1, <2>2, <3>1
      <3>2. CASE d # c
        <4>1. sup'[d] = sup[d] /\ sup[d].st \in StateRecord /\ SetUp(sup[d].st.by)
          BY <1>1, <2>2, <3>2 DEF IInv, Records
        <4>2. sup[d].st.by \in Cli
          BY <4>1 DEF StateRecord
        <4> QED
          BY <4>1, <4>2 DEF LifeForward
      <3> QED
        BY <3>1, <3>2
    <2>3. ASSUME NEW d \in Cli PROVE sup'[d].answer = "pid" => SetUp(d)'
      BY <1>1 DEF IInv, Records, LifeForward
    <2> QED
      BY <1>1, <2>1, <2>2, <2>3 DEF IInv, Records
  <1>8. OneContainerOnly => Endings'
    <2> SUFFICES ASSUME OneContainerOnly PROVE Endings'
      OBVIOUS
    <2>1. f.status = "stopped" => Gone(f.by)'
      BY <1>6 DEF IInv, Endings, LifeForward
    <2>2. ASSUME NEW d \in Cli, cli'[d].cmd = "delete", cli'[d].pc \in {"scan", "unlink"}
          PROVE  Gone(cli[d].st.by)'
      <3>1. Gone(cli[d].st.by) /\ cli[d].st \in StateRecord /\ cli'[d] = cli[d]
        BY <1>0, <1>1, <2>2, Types DEF IInv, Endings, InStep
      <3>2. cli[d].st.by \in Cli
        BY <3>1 DEF StateRecord
      <3> QED
        BY <3>1, <3>2 DEF LifeForward
    <2> QED
      BY <2>1, <2>2 DEF Endings
  <1> QED
    BY <1>2, <1>4, <1>5, <1>7, <1>8 DEF IInv, OneContainerOnly

\* What supervisor and init are at after it: the supervisor of c comes to s,
\* and no process but its own, or a free one, is touched.
Consistent(c, s) ==
    /\ crashes' \in Nat /\ crashes' >= crashes
    /\ proc' \in [Pid -> ProcType]
    /\ \A x \in Pid : \/ proc'[x] = proc[x]
                      \/ proc[x].owner \in {c, NoCli} /\ (proc'[x].owner = c \/ proc'[x] = FreeProc)
    /\ s.pc \in {"none", "spawn"} => s.pid = NoPid
    /\ s.pc = "map" \/ s.pc = "wait_stop" \/ Prepared(s) \/ s.pc = "supervising" =>
           s.pid \in Pid /\ proc'[s.pid].owner = c
    /\ s.pc = "map" => proc'[s.pid].pc \in {"cloned", "wait_maps", "zombie"}
    /\ s.pc = "wait_stop" => proc'[s.pid].pc \in {"setup", "stopping", "zombie"}
    /\ Prepared(s) => proc'[s.pid].pc \in {"paused", "zombie"}
    /\ s.pc = "supervising" => proc'[s.pid].pc \in {"running", "zombie"}
    /\ Reaped(s) => s.pid \in Pid
    /\ \A x \in Pid : proc'[x].owner = c =>
           /\ x = s.pid /\ ~Reaped(s) /\ proc'[x].pc \notin {"free", "foreign"}
           /\ s.pc = "exited" => /\ proc'[x].pc \notin {"paused", "running"}
                                 /\ crashes' > 0 \/ proc'[x].pc \in {"wait_maps", "zombie"}
           /\ proc'[x].pc = "zombie" \/ proc'[x].code = 0
           /\ s.pc \in {"map", "wait_stop", "exited"} \/ proc'[x].code \in Codes \cup {0, Killed}
    /\ \A x \in cgroup : x \in cgroup' \/ proc[x].owner = c
    /\ MustLimit(c) /\ Limited(s) => s.pid \in cgroup'
    /\ SetUp(c) => /\ s.pc \notin {"none", "spawn", "map", "wait_stop"}
                   /\ \A x \in Pid : proc'[x].owner = c =>
                          /\ proc[x].owner = c
                          /\ \/ proc'[x].pc = proc[x].pc \/ proc'[x].pc = "zombie"
                             \/ proc[x].pc = "paused" /\ proc'[x].pc = "running"

\* Then supervisors and processes are in step afterwards.
LEMMA SupervisorForward ==
    ASSUME IInv, NEW c \in Cli, NEW s \in SupType, sup' = [sup EXCEPT ![c] = s], Consistent(c, s)
    PROVE  Handshake' /\ Ownership' /\ Limits' /\ LifeForward
  <1>1. \A d \in Cli : sup'[d] = IF d = c THEN s ELSE sup[d]
    BY DEF IInv, TypeOK
  <1>2. \A x \in Pid : proc[x].owner \notin {c, NoCli} => proc'[x] = proc[x]
    BY DEF Consistent
  <1>3. \A x \in Pid : proc'[x].owner \notin {c, NoCli} => proc'[x] = proc[x]
    BY DEF FreeProc, Consistent
  <1>4. Handshake'
    <2>1. ASSUME NEW d \in Cli, d # c, NEW stages, HasInit(d, stages) PROVE HasInit(d, stages)'
      BY <1>1, <1>2, <2>1, Types DEF HasInit
    <2>2. ASSUME NEW d \in Cli, d # c
          PROVE  /\ sup'[d].pc \in {"none", "spawn"} => sup'[d].pid = NoPid
                 /\ sup'[d].pc = "map" => HasInit(d, {"cloned", "wait_maps", "zombie"})'
                 /\ sup'[d].pc = "wait_stop" => HasInit(d, {"setup", "stopping", "zombie"})'
                 /\ Prepared(sup'[d]) => HasInit(d, {"paused", "zombie"})'
                 /\ sup'[d].pc = "supervising" => HasInit(d, {"running", "zombie"})'
                 /\ Reaped(sup'[d]) => sup'[d].pid \in Pid
      BY <1>1, <2>1, <2>2 DEF IInv, Handshake
    <2>3. /\ sup'[c].pc \in {"none", "spawn"} => sup'[c].pid = NoPid
          /\ sup'[c].pc = "map" => HasInit(c, {"cloned", "wait_maps", "zombie"})'
          /\ sup'[c].pc = "wait_stop" => HasInit(c, {"setup", "stopping", "zombie"})'
          /\ Prepared(sup'[c]) => HasInit(c, {"paused", "zombie"})'
          /\ sup'[c].pc = "supervising" => HasInit(c, {"running", "zombie"})'
          /\ Reaped(sup'[c]) => sup'[c].pid \in Pid
      BY <1>1 DEF HasInit, Consistent
    <2> QED
      BY <2>2, <2>3 DEF Handshake
  <1>5. Ownership'
    <2>1. ASSUME NEW x \in Pid, proc'[x].owner = NoCli PROVE proc'[x].pc \in {"free", "foreign"}
      BY <2>1, Types DEF IInv, Ownership, FreeProc, Consistent
    <2>2. ASSUME NEW x \in Pid, proc'[x].owner \notin {c, NoCli}
          PROVE  LET t == sup'[proc'[x].owner]
                 IN /\ proc'[x].pc \notin {"free", "foreign"}
                    /\ t.pid = x /\ ~Reaped(t)
                    /\ t.pc = "exited" => /\ proc'[x].pc \notin {"paused", "running"}
                                          /\ crashes' > 0 \/ proc'[x].pc \in {"wait_maps", "zombie"}
                    /\ proc'[x].pc = "zombie" \/ proc'[x].code = 0
                    /\ t.pc \in {"map", "wait_stop", "exited"} \/ proc'[x].code \in Codes \cup {0, Killed}
      <3>1. proc'[x] = proc[x] /\ proc[x].owner \in Cli
        BY <1>3, <2>2, Types DEF ProcType
      <3>2. sup'[proc'[x].owner] = sup[proc[x].owner]
        BY <1>1, <2>2, <3>1
      <3>3. crashes > 0 => crashes' > 0
        BY Types, BoundAssumption DEF Consistent
      <3> QED
        BY <2>2, <3>1, <3>2, <3>3 DEF IInv, Ownership
    <2>3. sup'[c] = s /\ c # NoCli
      BY <1>1, Types
    <2> QED
      BY <2>1, <2>2, <2>3 DEF Ownership, Consistent
  <1>6. Limits'
    <2>1. ASSUME NEW d \in Cli, d # c, Limited(sup[d]), MustLimit(d)
          PROVE  sup[d].pid \in cgroup'
      <3>1. proc[sup[d].pid].owner = d /\ sup[d].pid \in cgroup
        BY <2>1 DEF IInv, Handshake, HasInit, Limits, Limited, Prepared, Saving
      <3> QED
        BY <2>1, <3>1 DEF Consistent
    <2> QED
      BY <1>1, <2>1 DEF Limits, Consistent
  <1>7. LifeForward
    <2>1. ASSUME NEW d \in Cli, d # c PROVE (SetUp(d) => SetUp(d)') /\ (Gone(d) => Gone(d)')
      BY <1>1, <1>3, <2>1, Types DEF SetUp, Gone, Alive
    <2>2. SetUp(c) => SetUp(c)'
      BY <1>1 DEF SetUp, Consistent
    <2>3. Gone(c) => Gone(c)'
      BY <2>2 DEF Gone, SetUp, Alive, Consistent
    <2> QED
      BY <2>1, <2>2, <2>3 DEF LifeForward
  <1> QED
    BY <1>4, <1>5, <1>6, <1>7

\* A supervisor goes on without a change of its init.
LEMMA SameInitForward ==
    ASSUME IInv, NEW c \in Cli, NEW s \in SupType, sup' = [sup EXCEPT ![c] = s],
           s.pid = sup[c].pid, proc' = proc, crashes' = crashes,
           \/ sup[c].pc = "none" /\ s.pc = "spawn"
           \/ Prepared(sup[c]) /\ Prepared(s)
           \/ Prepared(sup[c]) /\ proc[sup[c].pid].pc = "zombie" /\ s.pc = "supervising"
           \/ sup[c].pc = "supervising" /\ s.pc = "supervising"
           \/ Reaped(sup[c]) /\ (Reaped(s) \/ s.pc = "exited"),
           cgroup \subseteq cgroup', MustLimit(c) /\ Limited(s) => s.pid \in cgroup'
    PROVE  Handshake' /\ Ownership' /\ Limits' /\ LifeForward
  <1>1. crashes' \in Nat /\ crashes' >= crashes
    BY Types, BoundAssumption
  <1>2. proc' \in [Pid -> ProcType]
    BY DEF IInv, TypeOK
  <1>3. ~(Prepared(s) /\ s.pc \in {"none", "spawn", "map", "wait_stop", "supervising", "relay", "exited"})
        /\ ~(Reaped(s) /\ s.pc \in {"none", "spawn", "map", "wait_stop", "supervising", "exited"})
        /\ ~(Prepared(s) /\ Reaped(s)) /\ ~(Prepared(sup[c]) /\ Reaped(sup[c]))
        /\ ~(Prepared(sup[c]) /\ sup[c].pc \in {"none", "spawn", "map", "wait_stop", "supervising", "exited"})
        /\ ~(Reaped(sup[c]) /\ sup[c].pc \in {"none", "spawn", "map", "wait_stop", "supervising", "exited"})
    BY DEF Prepared, Reaped, Saving
  <1>4. s.pc \in {"none", "spawn"} => s.pid = NoPid
    BY <1>3 DEF IInv, Handshake
  <1>5. /\ s.pc = "map" \/ s.pc = "wait_stop" \/ Prepared(s) \/ s.pc = "supervising" =>
               s.pid \in Pid /\ proc[s.pid].owner = c
        /\ s.pc # "map" /\ s.pc # "wait_stop"
        /\ Prepared(s) => proc[s.pid].pc \in {"paused", "zombie"}
        /\ s.pc = "supervising" => proc[s.pid].pc \in {"running", "zombie"}
    BY <1>3 DEF IInv, Handshake, HasInit
  <1>6. ASSUME NEW x \in Pid, proc[x].owner = c
        PROVE  /\ x = s.pid /\ ~Reaped(s) /\ proc[x].pc \notin {"free", "foreign"} /\ s.pc # "exited"
               /\ proc[x].pc = "zombie" \/ proc[x].code = 0
               /\ s.pc \in {"map", "wait_stop", "exited"} \/ proc[x].code \in Codes \cup {0, Killed}
    BY <1>3, <1>6, Types DEF IInv, Ownership, Handshake
  <1>7. SetUp(c) => s.pc \notin {"none", "spawn", "map", "wait_stop"}
    BY <1>3 DEF SetUp
  <1>8. \A x \in Pid : proc'[x].owner = c =>
            /\ x = s.pid /\ ~Reaped(s) /\ proc'[x].pc \notin {"free", "foreign"}
            /\ s.pc = "exited" => /\ proc'[x].pc \notin {"paused", "running"}
                                  /\ crashes' > 0 \/ proc'[x].pc \in {"wait_maps", "zombie"}
            /\ proc'[x].pc = "zombie" \/ proc'[x].code = 0
            /\ s.pc \in {"map", "wait_stop", "exited"} \/ proc'[x].code \in Codes \cup {0, Killed}
    BY <1>6
  <1>9. \A x \in cgroup : x \in cgroup' \/ proc[x].owner = c
    OBVIOUS
  <1>10. /\ \A x \in Pid : proc'[x] = proc[x]
         /\ s.pc = "map" \/ s.pc = "wait_stop" \/ Prepared(s) \/ s.pc = "supervising" =>
                s.pid \in Pid /\ proc'[s.pid].owner = c
         /\ s.pc # "map" /\ s.pc # "wait_stop"
         /\ Prepared(s) => proc'[s.pid].pc \in {"paused", "zombie"}
         /\ s.pc = "supervising" => proc'[s.pid].pc \in {"running", "zombie"}
         /\ Reaped(s) => s.pid \in Pid
    BY <1>3, <1>5 DEF IInv, Handshake
  <1> QED
    <2>1. Consistent(c, s)
      BY <1>1, <1>2, <1>4, <1>7, <1>8, <1>9, <1>10 DEF Consistent
    <2> QED
      BY <2>1, SupervisorForward

\* Its command is left alone.
LEMMA SameCommand ==
    ASSUME IInv, NEW c \in Cli, cli' = cli, sup[c].pc # "none"
    PROVE  /\ cli[c] \in CliType /\ cli' = [cli EXCEPT ![c] = cli[c]] /\ InStep(cli[c])
           /\ c \in Creators /\ cli[c].pc \in {"wait", "done"}
  BY Types DEF IInv, TypeOK

\* Records that name a container keep naming one that is set up.
LEMMA SameFile ==
    ASSUME IInv, fs' = fs
    PROVE  /\ fs' \in FsType /\ fs'.file = fs.file /\ fs.file \in FileContent
           /\ ("fifo" \in fs'.entries => fs'.fifo \in Cli)
  BY DEF IInv, TypeOK, Fifos, FsType

\* create forks the daemon.
LEMMA ForkDaemonIInv == ASSUME IInv, NEW c \in Cli, ForkDaemon(c) PROVE IInv'
  <1> DEFINE s == [sup[c] EXCEPT !.pc = "spawn"]
             r == [cli[c] EXCEPT !.pc = "wait"]
  <1>1. /\ cli[c].pc = "fork" /\ sup' = [sup EXCEPT ![c] = s] /\ cli' = [cli EXCEPT ![c] = r]
        /\ UNCHANGED <<proc, fs, bytes, cgroup, crashes>>
    BY DEF ForkDaemon, Goto
  <1>2. sup[c].pc = "none" /\ cli[c].cmd = "create"
    BY <1>1, Types DEF InStep
  <1>3. s \in SupType /\ s.pc = "spawn" /\ s.pid = sup[c].pid /\ s.answer = sup[c].answer
    BY Types DEF SupType
  <1>4. r \in CliType /\ r.pc = "wait" /\ r.cmd = cli[c].cmd
    BY Types DEF CliType
  <1>5. InStep(r) /\ c \in Creators
    BY <1>2, <1>4 DEF InStep, Creators
  <1>6. sup[c].answer # "pid"
    BY <1>2 DEF IInv, Records, SetUp
  <1>7. ~Limited(s) /\ ~Released(s)
    BY <1>3 DEF Limited, Released, Saving
  <1> HIDE DEF s, r
  <1>8. Handshake' /\ Ownership' /\ Limits' /\ LifeForward
    BY <1>1, <1>2, <1>3, <1>7, SameInitForward
  <1> QED
    BY <1>1, <1>3, <1>4, <1>5, <1>6, <1>7, <1>8, SameFile, SupervisorIInv DEF IInv, TypeOK

\* reset_trace, after which `run` is the supervisor.
LEMMA ResetTraceIInv == ASSUME IInv, NEW c \in Cli, ResetTrace(c) PROVE IInv'
  <1>1. /\ cli[c].pc = "reset" /\ UNCHANGED <<proc, bytes, cgroup, crashes>>
        /\ cli[c].cmd \in {"create", "run"} /\ sup[c].pc = "none"
    BY Types DEF ResetTrace, InStep
  <1>2. /\ fs' \in FsType /\ fs'.file = fs.file /\ fs'.fifo = fs.fifo
        /\ ("fifo" \in fs'.entries => fs'.fifo \in Cli)
    <2>1. CASE fs' = fs
      BY <2>1, SameFile
    <2>2. CASE fs' = [fs EXCEPT !.entries = @ \cup {"trace"}, !.lines = {}]
      <3>1. /\ fs' \in FsType /\ fs'.file = fs.file /\ fs'.fifo = fs.fifo
            /\ fs'.entries = fs.entries \cup {"trace"}
        BY <2>2, Types DEF FsType, Entries
      <3> QED
        BY <3>1 DEF IInv, Fifos
    <2> QED
      BY <2>1, <2>2 DEF ResetTrace
  <1>3. CASE Detached(c)
    <2>1. Goto(c, "mkfifo") /\ sup' = sup /\ cli[c].cmd = "create"
      BY <1>3 DEF ResetTrace, Detached
    <2>2. [cli[c] EXCEPT !.pc = "mkfifo"] \in CliType
      BY Types DEF CliType
    <2>3. InStep([cli[c] EXCEPT !.pc = "mkfifo"])
      BY <2>1, Types DEF InStep, CliType
    <2> QED
      BY <1>1, <1>2, <2>1, <2>2, <2>3, GotoIInv DEF IInv, TypeOK
  <1>4. CASE ~Detached(c)
    <2> DEFINE s == [sup[c] EXCEPT !.pc = "spawn"]
               r == [cli[c] EXCEPT !.pc = "wait"]
    <2>1. sup' = [sup EXCEPT ![c] = s] /\ cli' = [cli EXCEPT ![c] = r]
      BY <1>4 DEF ResetTrace, Goto
    <2>2. s \in SupType /\ s.pc = "spawn" /\ s.pid = sup[c].pid /\ s.answer = sup[c].answer
      BY Types DEF SupType
    <2>3. r \in CliType /\ r.pc = "wait" /\ r.cmd = cli[c].cmd
      BY Types DEF CliType
    <2>4. InStep(r) /\ c \in Creators
      BY <1>1, <2>3 DEF InStep, Creators
    <2>5. sup[c].answer # "pid"
      BY <1>1 DEF IInv, Records, SetUp
    <2>6. ~Limited(s) /\ ~Released(s)
      BY <2>2 DEF Limited, Released, Saving
    <2> HIDE DEF s, r
    <2>7. Handshake' /\ Ownership' /\ Limits' /\ LifeForward
      BY <1>1, <2>1, <2>2, <2>6, SameInitForward
    <2>8. fs.file \in FileContent
      BY Types DEF FsType
    <2> QED
      BY <1>1, <1>2, <2>1, <2>2, <2>3, <2>4, <2>5, <2>6, <2>7, <2>8, SupervisorIInv DEF IInv, TypeOK
  <1> QED
    BY <1>3, <1>4

\* A supervisor whose init is prepared goes on, its command and the directory
\* left alone.
LEMMA PreparedIInv ==
    ASSUME IInv, NEW c \in Cli, NEW s \in SupType, sup' = [sup EXCEPT ![c] = s],
           s.pid = sup[c].pid, s.answer = sup[c].answer \/ SetUp(c),
           Prepared(sup[c]), Prepared(s),
           s.pc = "read_fifo" => s.ino \in Cli,
           Detached(c) /\ Released(s) => Started(s.ino),
           s.pc \in {"open_state", "write_state", "supervise"} =>
               s.st \in StateRecord /\ SetUp(s.st.by),
           s.pc = "supervise" => s.st.status = "running",
           bytes' \in [Cli -> Nat], \A i \in Cli : bytes'[i] > 0 => bytes[i] > 0,
           cgroup \subseteq cgroup', cgroup' \subseteq Pid,
           MustLimit(c) /\ Limited(s) => s.pid \in cgroup',
           UNCHANGED <<cli, proc, fs, crashes>>
    PROVE  IInv'
  <1>1. Handshake' /\ Ownership' /\ Limits' /\ LifeForward
    BY SameInitForward
  <1>2. sup[c].pc # "none" /\ s.pc \notin {"none", "supervising"}
    BY DEF Prepared, Saving
  <1>3. s.answer = "pid" => SetUp(c)'
    BY <1>1 DEF IInv, Records, LifeForward
  <1>4. s.pc \in {"open_state", "write_state", "supervise", "supervising"} =>
            s.st \in StateRecord /\ SetUp(s.st.by)'
    BY <1>1, <1>2 DEF LifeForward, StateRecord
  <1>5. proc' \in [Pid -> ProcType] /\ crashes' \in 0..MaxCrashes
    BY DEF IInv, TypeOK
  <1> QED
    BY <1>1, <1>2, <1>3, <1>4, <1>5, SameCommand, SameFile, SupervisorIInv

\* An init that is held after its setup has been through it.
LEMMA PreparedSetUp ==
    ASSUME IInv, NEW c \in Cli, Prepared(sup[c]) \/ sup[c].pc = "supervising" \/ Reaped(sup[c])
    PROVE  SetUp(c)
  <1>1. sup[c].pc \notin {"none", "spawn", "map", "wait_stop"}
    BY DEF Prepared, Reaped, Saving
  <1>2. ASSUME NEW p \in Pid, proc[p].owner = c PROVE proc[p].pc \in {"paused", "running", "zombie"}
    BY <1>2, Types DEF IInv, Ownership, Handshake, HasInit
  <1> QED
    BY <1>1, <1>2 DEF SetUp

\* The daemon answers.
LEMMA ReportIInv == ASSUME IInv, NEW c \in Cli, Report(c) PROVE IInv'
  <1> DEFINE s == [sup[c] EXCEPT !.pc = "open_fifo", !.answer = "pid"]
  <1>1. /\ sup[c].pc = "report" /\ sup' = [sup EXCEPT ![c] = s]
        /\ UNCHANGED <<cli, proc, fs, bytes, cgroup, crashes>>
    BY DEF Report
  <1>2. s \in SupType /\ s.pc = "open_fifo" /\ s.pid = sup[c].pid
    BY Types DEF SupType, Answers
  <1>3. Prepared(sup[c]) /\ Prepared(s) /\ ~Released(s) /\ ~Limited(s)
    BY <1>1, <1>2 DEF Prepared, Released, Limited, Saving
  <1> HIDE DEF s
  <1> QED
    BY <1>1, <1>2, <1>3, PreparedSetUp, PreparedIInv DEF IInv, TypeOK

\* It reads a byte, which a `start` wrote.
LEMMA ReadFifoIInv == ASSUME IInv, NEW c \in Cli, ReadFifo(c) PROVE IInv'
  <1> DEFINE s == [sup[c] EXCEPT !.pc = "limits"]
  <1>1. /\ sup[c].pc = "read_fifo" /\ sup' = [sup EXCEPT ![c] = s] /\ bytes[sup[c].ino] > 0
        /\ bytes' = [bytes EXCEPT ![sup[c].ino] = 0]
        /\ UNCHANGED <<cli, proc, fs, cgroup, crashes>>
    BY DEF ReadFifo
  <1>2. s \in SupType /\ s.pc = "limits" /\ s.pid = sup[c].pid /\ s.ino = sup[c].ino
        /\ s.answer = sup[c].answer
    BY Types DEF SupType
  <1>3. Prepared(sup[c]) /\ Prepared(s) /\ ~Limited(s)
    BY <1>1, <1>2 DEF Prepared, Limited, Saving
  <1>4. Started(s.ino)
    BY <1>1, <1>2 DEF IInv, Fifos
  <1>5. bytes' \in [Cli -> Nat] /\ \A i \in Cli : bytes'[i] > 0 => bytes[i] > 0
    BY <1>1 DEF IInv, TypeOK
  <1> HIDE DEF s
  <1> QED
    BY <1>1, <1>2, <1>3, <1>4, <1>5, PreparedIInv DEF IInv, TypeOK

\* mk_state
LEMMA MkStateType ==
    ASSUME NEW c \in Cli, sup[c].pid \in Pid, NEW status \in {"created", "running"}
    PROVE  /\ MkState(c, status) \in StateRecord /\ MkState(c, status) \in FileContent
           /\ MkState(c, status).by = c /\ MkState(c, status).status = status
  BY DEF MkState, StateRecord, FileContent

\* apply_limits.
LEMMA ApplyLimitsIInv == ASSUME IInv, NEW c \in Cli, ApplyLimits(c) PROVE IInv'
  <1>1. /\ sup[c].pc = "limits" /\ UNCHANGED <<cli, proc, fs, bytes, crashes>>
        /\ \/ cgroup' = cgroup \cup {sup[c].pid}
           \/ ~MustLimit(c) /\ cgroup' = cgroup
    BY DEF ApplyLimits
  <1>2. sup[c].pid \in Pid /\ Prepared(sup[c]) /\ Released(sup[c])
    BY <1>1 DEF IInv, Handshake, HasInit, Prepared, Released
  <1>3. /\ cgroup \subseteq cgroup' /\ cgroup' \subseteq Pid
        /\ MustLimit(c) => sup[c].pid \in cgroup'
        /\ bytes' \in [Cli -> Nat] /\ \A i \in Cli : bytes'[i] > 0 => bytes[i] > 0
        /\ Detached(c) => Started(sup[c].ino)
    BY <1>1, <1>2, Types DEF IInv, TypeOK, Fifos
  <1>4. CASE Detached(c)
    <2> DEFINE s == [sup[c] EXCEPT !.pc = "read_state"]
    <2>1. sup' = [sup EXCEPT ![c] = s]
      BY <1>4 DEF ApplyLimits
    <2>2. s \in SupType /\ s.pc = "read_state" /\ s.pid = sup[c].pid /\ s.ino = sup[c].ino
          /\ s.answer = sup[c].answer
      BY Types DEF SupType
    <2>3. Prepared(s)
      BY <2>2 DEF Prepared
    <2> HIDE DEF s
    <2> QED
      BY <1>1, <1>2, <1>3, <2>1, <2>2, <2>3, PreparedIInv
  <1>5. CASE ~Detached(c)
    <2> DEFINE s == [sup[c] EXCEPT !.pc = "open_state", !.st = MkState(c, "running")]
    <2>1. sup' = [sup EXCEPT ![c] = s]
      BY <1>5 DEF ApplyLimits
    <2>2. s \in SupType /\ s.pc = "open_state" /\ s.pid = sup[c].pid
          /\ s.answer = sup[c].answer /\ s.st = MkState(c, "running")
      <3>1. MkState(c, "running") \in FileContent
        BY <1>2, MkStateType
      <3> QED
        BY <3>1, Types DEF SupType
    <2>3. s.st \in StateRecord /\ s.st.by = c /\ s.st.status = "running"
      BY <1>2, <2>2, MkStateType
    <2>4. Prepared(s) /\ SetUp(s.st.by)
      BY <1>2, <2>2, <2>3, PreparedSetUp DEF Prepared, Saving
    <2> HIDE DEF s
    <2> QED
      BY <1>1, <1>2, <1>3, <1>5, <2>1, <2>2, <2>3, <2>4, PreparedIInv
  <1> QED
    BY <1>4, <1>5

\* The daemon takes over the state `create` left.
LEMMA ReadStateIInv == ASSUME IInv, NEW c \in Cli, ReadState(c) PROVE IInv'
  <1> DEFINE st == IF Parses(fs.file)
                   THEN [fs.file EXCEPT !.status = "running", !.pid = sup[c].pid]
                   ELSE MkState(c, "running")
             s == [sup[c] EXCEPT !.pc = "open_state", !.st = st]
  <1>1. /\ sup[c].pc = "read_state" /\ sup' = [sup EXCEPT ![c] = s]
        /\ UNCHANGED <<cli, proc, fs, bytes, cgroup, crashes>>
    BY DEF ReadState
  <1>2. sup[c].pid \in Pid /\ Prepared(sup[c]) /\ Released(sup[c]) /\ Limited(sup[c])
    BY <1>1 DEF IInv, Handshake, HasInit, Prepared, Released, Limited
  <1>3. st \in StateRecord /\ SetUp(st.by) /\ st.status = "running"
    <2>1. CASE Parses(fs.file)
      <3>1. fs.file \in StateRecord /\ SetUp(fs.file.by)
        BY <2>1, Types, NamesOne DEF FsType, IInv, Records
      <3> QED
        BY <1>2, <2>1, <3>1 DEF StateRecord
    <2>2. CASE ~Parses(fs.file)
      BY <1>2, <2>2, MkStateType, PreparedSetUp
    <2> QED
      BY <2>1, <2>2
  <1> HIDE DEF st
  <1>4. s \in SupType /\ s.pc = "open_state" /\ s.pid = sup[c].pid /\ s.ino = sup[c].ino
        /\ s.answer = sup[c].answer /\ s.st = st
    BY <1>3, Types DEF SupType, FileContent
  <1>5. Prepared(s)
    BY <1>3, <1>4 DEF Prepared, Saving
  <1>6. /\ Detached(c) => Started(sup[c].ino)
        /\ MustLimit(c) => sup[c].pid \in cgroup
    BY <1>2 DEF IInv, Fifos, Limits
  <1> HIDE DEF s
  <1> QED
    BY <1>1, <1>2, <1>3, <1>4, <1>5, <1>6, PreparedIInv DEF IInv, TypeOK

\* The supervisor of c ends, by an error, or killed, and takes with it an init
\* that it holds past the setup.
LEMMA ExitIInv ==
    ASSUME IInv, NEW c \in Cli, sup[c].pc \notin {"none", "exited"},
           NEW answer \in {sup[c].answer, "error"},
           ExitSupervisor(c, answer, "error"), cgroup' = cgroup,
           crashes' \in 0..MaxCrashes, crashes' >= crashes,
           \/ crashes' > 0
           \/ sup[c].pc = "map" /\ proc[sup[c].pid].pc \in {"wait_maps", "zombie"}
           \/ sup[c].pc = "wait_stop" /\ proc[sup[c].pid].pc = "zombie"
           \/ Prepared(sup[c]) \/ sup[c].pc = "supervising"
    PROVE  IInv'
  <1> DEFINE s == [sup[c] EXCEPT !.pc = "exited", !.answer = answer]
  <1>1. /\ sup' = [sup EXCEPT ![c] = s] /\ proc' = ExitKill(c)
        /\ fs' = [fs EXCEPT !.opened = @ \ {c}] /\ CloseFifo(c, sup[c].ino)
        /\ \/ cli' = cli
           \/ Finish(c, "error")
    BY DEF ExitSupervisor
  <1>2. s \in SupType /\ s.pc = "exited" /\ s.pid = sup[c].pid /\ s.answer = answer
    BY Types DEF SupType, Answers
  <1>3. /\ proc' \in [Pid -> ProcType]
        /\ \A x \in Pid : /\ proc'[x].owner = proc[x].owner
                          /\ \/ proc'[x] = proc[x] /\ ~(proc[x].owner = c /\ proc[x].pc \in {"paused", "running"})
                             \/ proc[x].owner = c /\ proc'[x].pc = "zombie"
    <2>1. ASSUME NEW x \in Pid PROVE [proc[x] EXCEPT !.pc = "zombie", !.code = Killed] \in ProcType
      BY Types DEF ProcType
    <2>2. ASSUME NEW x \in Pid
          PROVE  /\ proc'[x] \in ProcType /\ proc'[x].owner = proc[x].owner
                 /\ \/ proc'[x] = proc[x] /\ ~(proc[x].owner = c /\ proc[x].pc \in {"paused", "running"})
                    \/ proc[x].owner = c /\ proc'[x].pc = "zombie"
      BY <1>1, <2>1, Types DEF ExitKill, ProcType
    <2> QED
      BY <1>1, <2>2 DEF ExitKill
  <1>4. /\ fs' \in FsType /\ fs'.file = fs.file /\ fs.file \in FileContent
        /\ ("fifo" \in fs'.entries => fs'.fifo \in Cli)
    <2>1. /\ fs' \in FsType /\ fs'.file = fs.file /\ fs.file \in FileContent
          /\ fs'.entries = fs.entries /\ fs'.fifo = fs.fifo
      BY <1>1, Types DEF FsType
    <2> QED
      BY <2>1 DEF IInv, Fifos
  <1>5. bytes' \in [Cli -> Nat] /\ \A i \in Cli : bytes'[i] > 0 => bytes[i] > 0
    <2>1. bytes' = bytes \/ bytes' = [bytes EXCEPT ![sup[c].ino] = 0]
      BY <1>1 DEF CloseFifo
    <2> QED
      BY <2>1 DEF IInv, TypeOK
  <1>6. PICK r \in CliType : /\ cli' = [cli EXCEPT ![c] = r]
                             /\ r.cmd = cli[c].cmd /\ r.pc \in {"wait", "done"} /\ InStep(r)
    <2>1. CASE cli' = cli
      BY <2>1, SameCommand
    <2>2. CASE Finish(c, "error")
      <3> DEFINE r == [cli[c] EXCEPT !.pc = "done", !.result = "error"]
      <3>1. cli' = [cli EXCEPT ![c] = r]
        BY <2>2 DEF Finish
      <3>0. cli[c] \in CliType
        BY Types
      <3>2. r \in CliType /\ r.cmd = cli[c].cmd /\ r.pc = "done"
        BY <3>0 DEF CliType
      <3>3. InStep(r)
        BY <3>2, Types DEF InStep, Creators
      <3> HIDE DEF r
      <3> QED
        BY <3>1, <3>2, <3>3
    <2> QED
      BY <1>1, <2>1, <2>2
  <1>7. ~Limited(s) /\ ~Released(s) /\ ~Prepared(s) /\ ~Reaped(s)
    BY <1>2 DEF Limited, Released, Prepared, Reaped, Saving
  <1>8. c \in Creators /\ crashes' \in Nat /\ crashes \in Nat
    BY Types, BoundAssumption
  <1>9. ASSUME NEW x \in Pid, proc[x].owner = c
        PROVE  /\ x = sup[c].pid /\ proc[x].pc \notin {"free", "foreign"}
               /\ proc[x].pc = "zombie" \/ proc[x].code = 0
               /\ crashes' > 0 \/ proc[x].pc \in {"wait_maps", "zombie", "paused", "running"}
    BY <1>9, Types DEF IInv, Ownership, Handshake, HasInit
  <1>10. Consistent(c, s)
    <2>1. \A x \in Pid : proc'[x].owner = c =>
               /\ x = s.pid /\ proc'[x].pc \notin {"free", "foreign"}
               /\ proc'[x].pc \notin {"paused", "running"}
               /\ crashes' > 0 \/ proc'[x].pc \in {"wait_maps", "zombie"}
               /\ proc'[x].pc = "zombie" \/ proc'[x].code = 0
      BY <1>2, <1>3, <1>9
    <2>2. SetUp(c) => \A x \in Pid : proc'[x].owner = c =>
                          proc[x].owner = c /\ (proc'[x].pc = proc[x].pc \/ proc'[x].pc = "zombie")
      BY <1>3
    <2>3. \A x \in Pid : proc'[x] = proc[x] \/ (proc[x].owner \in {c, NoCli} /\ proc'[x].owner = c)
      BY <1>3
    <2> HIDE DEF s
    <2> QED
      BY <1>2, <1>3, <1>7, <1>8, <2>1, <2>2, <2>3 DEF Consistent
  <1> HIDE DEF s
  <1>11. Handshake' /\ Ownership' /\ Limits' /\ LifeForward
    BY <1>1, <1>2, <1>10, SupervisorForward
  <1>12. s.answer = "pid" => SetUp(c)'
    BY <1>2, <1>11 DEF IInv, Records, LifeForward
  <1>13. cgroup' \subseteq Pid
    BY Types
  <1> QED
    BY <1>1, <1>2, <1>3, <1>4, <1>5, <1>6, <1>7, <1>8, <1>11, <1>12, <1>13, SupervisorIInv

\* The errors on the way, and a supervisor that is killed.
LEMMA ErrorsIInv ==
    ASSUME IInv, NEW c \in Cli,
           \/ MapFails(c) \/ ChildDied(c) \/ SuperviseGone(c) \/ SuperviseFails(c) \/ SupervisorKilled(c)
           \/ OpenState(c) /\ ~fs.dir /\ sup[c].st.status # "stopped"
           \/ OpenFifo(c) /\ "fifo" \notin fs.entries
    PROVE  IInv'
  <1>1. crashes \in 0..MaxCrashes /\ crashes + 1 > 0 /\ crashes + 1 >= crashes
    BY Types, BoundAssumption
  <1>2. CASE SupervisorKilled(c)
    <2>1. crashes' \in 0..MaxCrashes /\ crashes' > 0 /\ crashes' >= crashes
      BY <1>1, <1>2, BoundAssumption DEF SupervisorKilled
    <2> QED
      BY <1>2, <2>1, ExitIInv DEF SupervisorKilled
  <1>3. CASE ~SupervisorKilled(c)
    <2>1. SupervisorError(c) /\ cgroup' = cgroup /\ crashes' = crashes
      BY <1>3 DEF MapFails, ChildDied, SuperviseGone, SuperviseFails, OpenState, OpenFifo
    <2>2. \/ sup[c].pc = "map" /\ proc[sup[c].pid].pc \in {"wait_maps", "zombie"}
          \/ sup[c].pc = "wait_stop" /\ proc[sup[c].pid].pc = "zombie"
          \/ Prepared(sup[c]) \/ sup[c].pc = "supervising"
      <3>1. CASE OpenState(c) /\ sup[c].st.status # "stopped"
        <4>1. sup[c].pc = "open_state" /\ sup[c].st \in StateRecord
          BY <3>1 DEF OpenState, IInv, Records
        <4> QED
          BY <3>1, <4>1 DEF StateRecord, Prepared, Saving
      <3> QED
        BY <1>3, <3>1 DEF MapFails, ChildDied, SuperviseGone, SuperviseFails, OpenFifo, Prepared
    <2>3. sup[c].pc \notin {"none", "exited"}
      BY <2>2 DEF Prepared, Saving
    <2>4. PICK answer \in {sup[c].answer, "error"} : ExitSupervisor(c, answer, "error")
      BY <2>1 DEF SupervisorError
    <2> QED
      BY <1>1, <2>1, <2>2, <2>3, <2>4, ExitIInv
  <1> QED
    BY <1>2, <1>3

\* The supervisor of c and its init p go on together, both left alone
\* otherwise.
LEMMA InitIInvStep ==
    ASSUME IInv, NEW c \in Cli, NEW s \in SupType, sup' = [sup EXCEPT ![c] = s],
           NEW p \in Pid, NEW q \in ProcType, proc' = [proc EXCEPT ![p] = q],
           sup[c].pc # "none", s.pid = p, q.owner = c, q.code = 0, q.pc \notin {"free", "foreign", "zombie"},
           \/ /\ sup[c].pc = "spawn" /\ proc[p].pc = "free" /\ s.pc = "map" /\ q.pc = "cloned"
           \/ /\ sup[c].pc = "map" /\ sup[c].pid = p /\ s.pc = "wait_stop" /\ q.pc = "setup"
           \/ /\ sup[c].pc = "wait_stop" /\ sup[c].pid = p /\ Prepared(s) /\ q.pc = "paused"
              /\ ~Limited(s) /\ s.pc # "read_fifo" /\ (Detached(c) => ~Released(s))
              /\ s.pc \in {"open_state", "write_state", "supervise"} => s.st \in StateRecord /\ s.st.by = c
              /\ s.pc # "supervise"
           \/ /\ sup[c].pc = "supervise" /\ sup[c].pid = p /\ s.pc = "supervising" /\ s.st = sup[c].st
              /\ proc[p].pc = "paused" /\ q.pc = "running" /\ s.ino = sup[c].ino,
           s.answer = sup[c].answer, UNCHANGED <<cli, fs, bytes, cgroup, crashes>>
    PROVE  IInv'
  <1>1. crashes' \in Nat /\ crashes' >= crashes /\ crashes' \in 0..MaxCrashes
    BY Types, BoundAssumption
  <1>2. /\ proc' \in [Pid -> ProcType] /\ cgroup' \subseteq Pid /\ bytes' \in [Cli -> Nat]
        /\ \A x \in Pid : proc'[x] = IF x = p THEN q ELSE proc[x]
    BY DEF IInv, TypeOK
  <1>3. /\ ~(Prepared(s) /\ s.pc \in {"none", "spawn", "map", "wait_stop", "supervising", "relay", "exited"})
        /\ ~(Reaped(s) /\ (Prepared(s) \/ s.pc \in {"none", "spawn", "map", "wait_stop", "supervising", "exited"}))
        /\ s.pc \in {"map", "wait_stop"} => ~Limited(s) /\ ~Released(s)
        /\ s.pc = "supervising" => Limited(sup[c]) /\ Released(sup[c])
    BY DEF Prepared, Reaped, Saving, Limited, Released
  <1>4. proc[p].owner \in {c, NoCli}
    BY DEF IInv, Ownership, Handshake, HasInit, Prepared
  <1>5. ASSUME NEW x \in Pid, proc[x].owner = c PROVE x = p /\ sup[c].pc # "spawn"
    BY <1>5, Types DEF IInv, Ownership, Handshake
  <1>6. SetUp(c) => sup[c].pc = "supervise"
    BY DEF SetUp
  <1>7. Consistent(c, s)
    <2>1. \A x \in Pid : proc'[x].owner = c => x = p
      BY <1>2, <1>5
    <2>2. MustLimit(c) /\ Limited(s) => s.pid \in cgroup'
      BY <1>3 DEF IInv, Limits
    <2>3. \A x \in Pid : proc'[x] = proc[x] \/ (proc[x].owner \in {c, NoCli} /\ proc'[x].owner = c)
      BY <1>2, <1>4
    <2>4. ASSUME SetUp(c)
          PROVE  /\ s.pc \notin {"none", "spawn", "map", "wait_stop"}
                 /\ \A x \in Pid : proc'[x].owner = c =>
                        proc[x].owner = c /\ proc[x].pc = "paused" /\ proc'[x].pc = "running"
      <3>1. sup[c].pc = "supervise" /\ proc[p].owner = c
        BY <1>6, <2>4 DEF IInv, Handshake, HasInit, Prepared
      <3> QED
        BY <1>2, <2>1, <3>1
    <2>5. proc'[p] = q /\ q.pc # "zombie" /\ q.code \in Codes \cup {0, Killed} /\ s.pc # "exited" /\ ~Reaped(s)
      BY <1>2, <1>3
    <2>6. s.pc \notin {"none", "spawn"}
      BY <1>3
    <2>7. /\ s.pc = "map" => q.pc = "cloned"
          /\ s.pc = "wait_stop" => q.pc = "setup"
          /\ Prepared(s) => q.pc = "paused"
          /\ s.pc = "supervising" => q.pc = "running"
      BY <1>3
    <2> QED
      BY <1>1, <1>2, <2>1, <2>2, <2>3, <2>4, <2>5, <2>6, <2>7 DEF Consistent
  <1>8. Handshake' /\ Ownership' /\ Limits' /\ LifeForward
    BY <1>7, SupervisorForward
  <1>9. s.answer = "pid" => SetUp(c)'
    BY <1>8 DEF IInv, Records, LifeForward
  <1>10. s.pc \in {"open_state", "write_state", "supervise", "supervising"} =>
            s.st \in StateRecord /\ SetUp(s.st.by)'
    <2>1. CASE s.pc = "supervising"
      <3>1. s.st \in StateRecord /\ SetUp(s.st.by)
        BY <1>3, <2>1 DEF IInv, Records
      <3> QED
        BY <1>8, <3>1 DEF LifeForward, StateRecord
    <2>2. CASE s.pc \in {"open_state", "write_state", "supervise"}
      <3>1. Prepared(s) /\ s.st \in StateRecord /\ s.st.by = c /\ q.pc = "paused"
        BY <2>2
      <3>2. SetUp(c)'
        <4>1. \A x \in Pid : proc'[x].owner = c => proc'[x].pc = "paused"
          BY <1>2, <1>5, <3>1
        <4>2. sup'[c].pc \notin {"none", "spawn", "map", "wait_stop"}
          BY <1>3, <3>1 DEF IInv, TypeOK
        <4> QED
          BY <4>1, <4>2 DEF SetUp
      <3> QED
        BY <3>1, <3>2
    <2> QED
      BY <2>1, <2>2
  <1>11. /\ s.pc # "none" /\ s.pc # "read_fifo"
         /\ s.pc \in {"supervise", "supervising"} => s.st.status = "running"
         /\ Detached(c) /\ Released(s) => Started(s.ino)
    BY <1>3 DEF IInv, Records, Fifos
  <1> QED
    BY <1>1, <1>2, <1>8, <1>9, <1>10, <1>11, SameCommand, SameFile, SupervisorIInv, ZenonT(30)

\* clone
LEMMA CloneIInv == ASSUME IInv, NEW c \in Cli, NEW p \in Pid, Clone(c, p) PROVE IInv'
  <1> DEFINE s == [sup[c] EXCEPT !.pc = "map", !.pid = p]
             q == [pc |-> "cloned", owner |-> c, code |-> 0]
  <1>1. /\ sup[c].pc = "spawn" /\ proc[p].pc = "free" /\ proc' = [proc EXCEPT ![p] = q]
        /\ sup' = [sup EXCEPT ![c] = s] /\ UNCHANGED <<cli, fs, bytes, cgroup, crashes>>
    BY DEF Clone
  <1>2. s \in SupType /\ s.pc = "map" /\ s.pid = p /\ s.answer = sup[c].answer
    BY Types DEF SupType
  <1>3. q \in ProcType /\ q.pc = "cloned" /\ q.owner = c /\ q.code = 0
    BY DEF ProcType
  <1> HIDE DEF s, q
  <1> QED
    BY <1>1, <1>2, <1>3, InitIInvStep

\* What a supervisor that resumes its init sees of it.
LEMMA HoldsInit ==
    ASSUME IInv, NEW c \in Cli,
           sup[c].pc = "map" \/ sup[c].pc = "wait_stop" \/ Prepared(sup[c]) \/ sup[c].pc = "supervising"
    PROVE  LET p == sup[c].pid
           IN /\ p \in Pid /\ proc[p] \in ProcType /\ proc[p].owner = c
              /\ proc[p].pc = "zombie" \/ proc[p].code = 0
  <1>1. sup[c].pid \in Pid /\ proc[sup[c].pid].owner = c
    BY DEF IInv, Handshake, HasInit
  <1> QED
    BY <1>1, Types DEF IInv, Ownership

\* map_root_user and the acknowledgement.
LEMMA MapRootUserIInv == ASSUME IInv, NEW c \in Cli, MapRootUser(c) PROVE IInv'
  <1> DEFINE p == sup[c].pid
             s == [sup[c] EXCEPT !.pc = "wait_stop"]
             q == [proc[p] EXCEPT !.pc = "setup"]
  <1>1. /\ sup[c].pc = "map" /\ proc[p].pc = "wait_maps" /\ proc' = [proc EXCEPT ![p] = q]
        /\ sup' = [sup EXCEPT ![c] = s] /\ UNCHANGED <<cli, fs, bytes, cgroup, crashes>>
    BY DEF MapRootUser
  <1>2. p \in Pid /\ proc[p] \in ProcType /\ proc[p].owner = c /\ proc[p].code = 0
    BY <1>1, HoldsInit
  <1>3. s \in SupType /\ s.pc = "wait_stop" /\ s.pid = p /\ s.answer = sup[c].answer
    BY Types DEF SupType
  <1>4. q \in ProcType /\ q.pc = "setup" /\ q.owner = c /\ q.code = 0
    BY <1>2 DEF ProcType
  <1> HIDE DEF s, q
  <1> QED
    BY <1>1, <1>2, <1>3, <1>4, InitIInvStep

\* The stop is seen.
LEMMA ChildPausedIInv == ASSUME IInv, NEW c \in Cli, ChildPaused(c) PROVE IInv'
  <1> DEFINE p == sup[c].pid
             q == [proc[p] EXCEPT !.pc = "paused"]
  <1>1. /\ sup[c].pc = "wait_stop" /\ proc[p].pc = "stopping" /\ proc' = [proc EXCEPT ![p] = q]
        /\ UNCHANGED <<cli, fs, bytes, cgroup, crashes>>
    BY DEF ChildPaused
  <1>2. p \in Pid /\ proc[p] \in ProcType /\ proc[p].owner = c /\ proc[p].code = 0
    BY <1>1, HoldsInit
  <1>3. q \in ProcType /\ q.pc = "paused" /\ q.owner = c /\ q.code = 0
    BY <1>2 DEF ProcType
  <1>4. CASE Detached(c)
    <2> DEFINE s == [sup[c] EXCEPT !.pc = "open_state", !.st = MkState(c, "created")]
    <2>1. sup' = [sup EXCEPT ![c] = s]
      BY <1>4 DEF ChildPaused
    <2>2. /\ MkState(c, "created") \in FileContent /\ MkState(c, "created") \in StateRecord
          /\ MkState(c, "created").by = c /\ MkState(c, "created").status = "created"
      BY <1>2, MkStateType
    <2>3. /\ s \in SupType /\ s.pc = "open_state" /\ s.pid = p /\ s.answer = sup[c].answer
          /\ s.st = MkState(c, "created")
      BY <2>2, Types DEF SupType
    <2>4. Prepared(s) /\ ~Limited(s) /\ ~Released(s)
      BY <2>2, <2>3 DEF Prepared, Limited, Released, Saving
    <2> HIDE DEF s, q
    <2>5. /\ sup[c].pc = "wait_stop" /\ sup[c].pid = p /\ Prepared(s) /\ q.pc = "paused"
          /\ ~Limited(s) /\ s.pc # "read_fifo" /\ (Detached(c) => ~Released(s))
          /\ s.pc \in {"open_state", "write_state", "supervise"} => s.st \in StateRecord /\ s.st.by = c
          /\ s.pc # "supervise"
      BY <1>1, <1>3, <2>2, <2>3, <2>4
    <2> QED
      BY <1>1, <1>2, <1>3, <2>1, <2>3, <2>5, InitIInvStep
  <1>5. CASE ~Detached(c)
    <2> DEFINE s == [sup[c] EXCEPT !.pc = "limits"]
    <2>1. sup' = [sup EXCEPT ![c] = s]
      BY <1>5 DEF ChildPaused
    <2>2. s \in SupType /\ s.pc = "limits" /\ s.pid = p /\ s.answer = sup[c].answer
      BY Types DEF SupType
    <2>3. Prepared(s) /\ ~Limited(s)
      BY <2>2 DEF Prepared, Limited, Saving
    <2> HIDE DEF s, q
    <2> QED
      BY <1>1, <1>2, <1>3, <1>5, <2>1, <2>2, <2>3, InitIInvStep
  <1> QED
    BY <1>4, <1>5

\* The entrypoint is let go.
LEMMA SuperviseIInv == ASSUME IInv, NEW c \in Cli, Supervise(c) PROVE IInv'
  <1> DEFINE p == sup[c].pid
             s == [sup[c] EXCEPT !.pc = "supervising"]
             q == [proc[p] EXCEPT !.pc = "running"]
  <1>1. /\ sup[c].pc = "supervise" /\ proc[p].pc = "paused" /\ proc' = [proc EXCEPT ![p] = q]
        /\ sup' = [sup EXCEPT ![c] = s] /\ UNCHANGED <<cli, fs, bytes, cgroup, crashes>>
    BY DEF Supervise
  <1>2. p \in Pid /\ proc[p] \in ProcType /\ proc[p].owner = c /\ proc[p].code = 0
    BY <1>1, HoldsInit DEF Prepared
  <1>3. s \in SupType /\ s.pc = "supervising" /\ s.pid = p /\ s.answer = sup[c].answer
        /\ s.st = sup[c].st /\ s.ino = sup[c].ino
    BY Types DEF SupType
  <1>4. q \in ProcType /\ q.pc = "running" /\ q.owner = c /\ q.code = 0
    BY <1>2 DEF ProcType
  <1> HIDE DEF s, q
  <1> QED
    BY <1>1, <1>2, <1>3, <1>4, InitIInvStep

\* The loop is entered on an init that was killed before.
LEMMA SuperviseKilledIInv == ASSUME IInv, NEW c \in Cli, SuperviseKilled(c) PROVE IInv'
  <1>0. PICK s : s = [sup[c] EXCEPT !.pc = "supervising"]
    OBVIOUS
  <1>1. /\ sup[c].pc = "supervise" /\ proc[sup[c].pid].pc = "zombie"
        /\ sup' = [sup EXCEPT ![c] = s] /\ UNCHANGED <<cli, proc, fs, bytes, cgroup, crashes>>
    BY <1>0 DEF SuperviseKilled
  <1>2. s \in SupType /\ s.pc = "supervising" /\ s.pid = sup[c].pid /\ s.answer = sup[c].answer
        /\ s.st = sup[c].st /\ s.ino = sup[c].ino
    BY <1>0, Types DEF SupType
  <1>3. Prepared(sup[c]) /\ Limited(sup[c]) /\ Released(sup[c])
    BY <1>1 DEF Prepared, Limited, Released
  <1>4. MustLimit(c) => s.pid \in cgroup
    BY <1>2, <1>3 DEF IInv, Limits
  <1>5. Handshake' /\ Ownership' /\ Limits' /\ LifeForward
    BY <1>1, <1>2, <1>3, <1>4, SameInitForward
  <1>6. /\ s.answer = "pid" => SetUp(c)'
        /\ s.st \in StateRecord /\ s.st.status = "running" /\ SetUp(s.st.by)'
    <2>1. /\ s.st \in StateRecord /\ s.st.status = "running" /\ SetUp(s.st.by) /\ s.st.by \in Cli
          /\ s.answer = "pid" => SetUp(c)
      BY <1>1, <1>2 DEF IInv, Records, StateRecord
    <2> QED
      BY <1>5, <2>1 DEF LifeForward
  <1>7. Detached(c) => Started(s.ino)
    BY <1>2, <1>3 DEF IInv, Fifos
  <1>8. /\ proc' \in [Pid -> ProcType] /\ crashes' \in 0..MaxCrashes /\ cgroup' \subseteq Pid
        /\ bytes' \in [Cli -> Nat] /\ \A i \in Cli : bytes'[i] > 0 => bytes[i] > 0
    BY <1>1 DEF IInv, TypeOK
  <1>9. sup[c].pc # "none" /\ s.pc \notin {"none", "read_fifo"}
    BY <1>1, <1>2
  <1> QED
    BY <1>1, <1>2, <1>5, <1>6, <1>7, <1>8, <1>9, SameCommand, SameFile, SupervisorIInv

\* trace_event leaves all but the trace as it is.
LEMMA TracedType ==
    ASSUME IInv, NEW c \in Cli, NEW kind \in {"event", "output"}, fs' = Traced(c, kind)
    PROVE  /\ fs' \in FsType /\ fs'.file = fs.file /\ fs.file \in FileContent
           /\ fs'.fifo = fs.fifo
           /\ ("fifo" \in fs'.entries => fs'.fifo \in Cli)
  <1>1. CASE fs' = fs
    BY <1>1, SameFile
  <1>2. CASE fs' = [fs EXCEPT !.entries = @ \cup {"trace"}, !.lines = @ \cup {<<c, kind>>}]
    <2>1. fs.lines \cup {<<c, kind>>} \in SUBSET Line /\ fs.entries \cup {"trace"} \in SUBSET Entries
      BY Types DEF FsType, Entries, Line
    <2>2. /\ fs' \in FsType /\ fs'.file = fs.file /\ fs.file \in FileContent /\ fs'.fifo = fs.fifo
          /\ fs'.entries = fs.entries \cup {"trace"}
      BY <1>2, <2>1, Types DEF FsType
    <2> QED
      BY <2>2 DEF IInv, Fifos
  <1> QED
    BY <1>1, <1>2 DEF Traced

\* supervise reaps the init and returns.
LEMMA SuperviseReturnsIInv == ASSUME IInv, NEW c \in Cli, SuperviseReturns(c) PROVE IInv'
  <1> DEFINE p == sup[c].pid
             st == [sup[c].st EXCEPT !.status = "stopped", !.code = proc[p].code]
             new == [sup[c] EXCEPT !.pc = "open_state", !.st = st]
  <1>1. /\ sup[c].pc = "supervising" /\ proc[p].pc = "zombie" /\ proc' = [proc EXCEPT ![p] = FreeProc]
        /\ cgroup' = cgroup \ {p} /\ fs' = Traced(c, "event")
        /\ UNCHANGED <<cli, bytes, crashes>>
    BY DEF SuperviseReturns
  <1>2. sup' = [sup EXCEPT ![c] = new]
    BY DEF SuperviseReturns
  <1>3. p \in Pid /\ proc[p].owner = c /\ proc[p].code \in Codes \cup {0, Killed}
    BY <1>1, HoldsInit, Types DEF IInv, Ownership
  <1>4. sup[c].st \in StateRecord /\ SetUp(sup[c].st.by)
    BY <1>1 DEF IInv, Records
  <1>5. st \in StateRecord /\ st.by = sup[c].st.by /\ st.status = "stopped"
    BY <1>3, <1>4 DEF StateRecord
  <1> HIDE DEF st
  <1>6. PICK s \in SupType : /\ sup' = [sup EXCEPT ![c] = s] /\ s.pc = "open_state" /\ s.pid = p
                             /\ s.answer = sup[c].answer /\ s.st = st
    <2>1. new \in SupType /\ new.pc = "open_state" /\ new.pid = p /\ new.answer = sup[c].answer /\ new.st = st
      BY <1>5, Types DEF SupType, FileContent
    <2> HIDE DEF new
    <2> QED
      BY <1>2, <2>1
  <1>7. Reaped(s) /\ ~Prepared(s) /\ ~Limited(s) /\ ~Released(s)
    BY <1>5, <1>6 DEF Reaped, Prepared, Limited, Released, Saving
  <1>8. /\ crashes' \in Nat /\ crashes' >= crashes /\ crashes' \in 0..MaxCrashes
        /\ cgroup' \subseteq Pid /\ bytes' \in [Cli -> Nat]
    BY <1>1, Types, BoundAssumption DEF IInv, TypeOK
  <1>9. /\ proc' \in [Pid -> ProcType]
        /\ \A x \in Pid : proc'[x] = IF x = p THEN FreeProc ELSE proc[x]
    BY <1>1 DEF IInv, TypeOK, FreeProc, ProcType
  <1>10. FreeProc.owner # c
    BY Types DEF FreeProc
  <1>11. \A x \in Pid : proc'[x].owner # c
    BY <1>9, <1>10, Types DEF IInv, Ownership
  <1>12. Consistent(c, s)
    BY <1>1, <1>3, <1>6, <1>7, <1>8, <1>9, <1>11 DEF Consistent
  <1>13. Handshake' /\ Ownership' /\ Limits' /\ LifeForward
    BY <1>6, <1>12, SupervisorForward
  <1>14. s.answer = "pid" => SetUp(c)'
    BY <1>6, <1>13 DEF IInv, Records, LifeForward
  <1>15. s.st \in StateRecord /\ SetUp(s.st.by)'
    <2>1. s.st.by \in Cli /\ SetUp(s.st.by)
      BY <1>4, <1>5, <1>6 DEF StateRecord
    <2> QED
      BY <1>5, <1>6, <1>13, <2>1 DEF LifeForward
  <1> QED
    BY <1>1, <1>6, <1>7, <1>8, <1>9, <1>13, <1>14, <1>15, SameCommand, TracedType, SupervisorIInv

\* The FIFO is opened, whoever made it.
LEMMA OpenFifoIInv == ASSUME IInv, NEW c \in Cli, OpenFifo(c), "fifo" \in fs.entries PROVE IInv'
  <1> DEFINE s == [sup[c] EXCEPT !.pc = "read_fifo", !.ino = fs.fifo]
  <1>1. /\ sup[c].pc = "open_fifo" /\ sup' = [sup EXCEPT ![c] = s]
        /\ UNCHANGED <<cli, proc, fs, bytes, cgroup, crashes>>
    BY DEF OpenFifo
  <1>2. fs.fifo \in Cli
    BY DEF IInv, Fifos
  <1>3. s \in SupType /\ s.pc = "read_fifo" /\ s.pid = sup[c].pid /\ s.answer = sup[c].answer
        /\ s.ino \in Cli
    BY <1>2, Types DEF SupType
  <1>4. Prepared(sup[c]) /\ Prepared(s) /\ ~Released(s) /\ ~Limited(s)
    BY <1>1, <1>3 DEF Prepared, Released, Limited, Saving
  <1> HIDE DEF s
  <1> QED
    BY <1>1, <1>3, <1>4, PreparedIInv DEF IInv, TypeOK

\* A supervisor that reads its trace's events touches nothing else.
LEMMA TraceEventIInv == ASSUME IInv, NEW c \in Cli, TraceEvent(c) PROVE IInv'
  <1>1. sup[c].pc = "supervising" /\ fs' = Traced(c, "event")
        /\ UNCHANGED <<cli, sup, proc, bytes, cgroup, crashes>>
    BY DEF TraceEvent
  <1>2. /\ fs' \in FsType /\ fs'.file = fs.file /\ ("fifo" \in fs'.entries => fs'.fifo \in Cli)
    BY <1>1, TracedType
  <1> QED
    BY <1>1, <1>2, Types, SameCommand, CommandIInv DEF IInv, TypeOK

\* write_state, the file truncated: the caller goes on to write it.
LEMMA OpenStateIInv ==
    ASSUME IInv, NEW c \in Cli, OpenState(c), fs.dir \/ sup[c].st.status = "stopped"
    PROVE  IInv'
  <1>1. /\ sup[c].pc = "open_state" /\ UNCHANGED <<cli, proc, bytes, cgroup, crashes>>
        /\ sup[c].st \in StateRecord /\ SetUp(sup[c].st.by)
        /\ sup[c].st.by \in Cli
    BY DEF OpenState, IInv, Records, StateRecord
  <1>2. PICK s \in SupType :
            /\ sup' = [sup EXCEPT ![c] = s] /\ s.st = sup[c].st /\ s.pid = sup[c].pid
            /\ s.ino = sup[c].ino /\ s.answer = sup[c].answer
            /\ s.pc = "write_state" \/ (s.pc = "relay" /\ s.st.status = "stopped")
    <2>1. \A pc \in {"write_state", "relay"} :
              LET s == [sup[c] EXCEPT !.pc = pc]
              IN /\ s \in SupType /\ s.st = sup[c].st /\ s.pid = sup[c].pid
                 /\ s.ino = sup[c].ino /\ s.answer = sup[c].answer /\ s.pc = pc
      BY Types DEF SupType
    <2>2. \/ sup' = [sup EXCEPT ![c] = [sup[c] EXCEPT !.pc = "write_state"]]
          \/ /\ sup' = [sup EXCEPT ![c] = [sup[c] EXCEPT !.pc = "relay"]]
             /\ sup[c].st.status = "stopped"
      BY DEF OpenState
    <2> QED
      BY <2>1, <2>2
  <1>3. /\ fs' \in FsType /\ fs'.file \in {fs.file, Empty} /\ fs'.file \in FileContent
        /\ ("fifo" \in fs'.entries => fs'.fifo \in Cli)
    <2>1. CASE fs' = fs
      BY <2>1, SameFile
    <2>2. CASE fs' = [fs EXCEPT !.entries = @ \cup {"state"}, !.file = Empty, !.opened = @ \cup {c}]
      <3>1. /\ fs' \in FsType /\ fs'.file = Empty /\ Empty \in FileContent /\ fs'.fifo = fs.fifo
            /\ fs'.entries = fs.entries \cup {"state"}
        BY <2>2, Types DEF FsType, Entries, FileContent
      <3> QED
        BY <3>1 DEF IInv, Fifos
    <2> QED
      BY <2>1, <2>2 DEF OpenState
  <1>4. \/ Prepared(sup[c]) /\ Prepared(s)
        \/ Reaped(sup[c]) /\ Reaped(s)
    BY <1>1, <1>2 DEF Prepared, Reaped, Saving, StateRecord
  <1>5. (Limited(s) => Limited(sup[c])) /\ (Released(s) => Released(sup[c])) /\ sup[c].pc # "none"
    BY <1>1, <1>2 DEF Limited, Released, Saving
  <1>6. Handshake' /\ Ownership' /\ Limits' /\ LifeForward
    BY <1>1, <1>2, <1>4, <1>5, SameInitForward DEF IInv, Limits
  <1>7. s.answer = "pid" => SetUp(c)'
    BY <1>2, <1>6 DEF IInv, Records, LifeForward
  <1>8. s.st \in StateRecord /\ SetUp(s.st.by)'
    BY <1>1, <1>2, <1>6 DEF LifeForward
  <1>9. Detached(c) /\ Released(s) => Started(s.ino)
    BY <1>2, <1>5 DEF IInv, Fifos
  <1>10. ~Parses(Empty) /\ Empty.status # "stopped"
    BY DEF Parses, Empty
  <1>11. /\ proc' \in [Pid -> ProcType] /\ cgroup' \subseteq Pid /\ crashes' \in 0..MaxCrashes
         /\ bytes' \in [Cli -> Nat] /\ \A i \in Cli : bytes'[i] > 0 => bytes[i] > 0
    BY <1>1 DEF IInv, TypeOK
  <1>12. PICK f \in FileContent :
             /\ fs'.file = f
             /\ f = fs.file \/ (~Parses(f) /\ f.status # "stopped")
    BY <1>3, <1>10
  <1> QED
    BY <1>1, <1>2, <1>3, <1>5, <1>6, <1>7, <1>8, <1>9, <1>11, <1>12, SameCommand, SupervisorIInv

\* An id that is given to one container has one supervisor.
LEMMA OnlyOne ==
    ASSUME IInv, OneContainerOnly, NEW c \in Cli, NEW d \in Cli, sup[c].pc # "none", sup[d].pc # "none"
    PROVE  c = d
  <1>1. /\ cli[c].cmd \in {"create", "run"} /\ cli[c].cmd \in Commands[c]
        /\ cli[d].cmd \in {"create", "run"} /\ cli[d].cmd \in Commands[d]
    BY Types DEF Creators
  <1>2. Commands[c] \cap {"create", "run"} # {} /\ Commands[d] \cap {"create", "run"} # {}
    BY <1>1
  <1> QED
    BY <1>2 DEF OneContainerOnly

\* write_state, the bytes written: what the file says now is what it said, what
\* this supervisor says, or nothing that can be read.
LEMMA WriteStateIInv == ASSUME IInv, NEW c \in Cli, WriteState(c) PROVE IInv'
  <1>1. /\ sup[c].pc = "write_state" /\ UNCHANGED <<cli, proc, bytes, cgroup, crashes>>
        /\ sup[c].st \in StateRecord /\ SetUp(sup[c].st.by) /\ sup[c].st.by \in Cli
    BY DEF WriteState, IInv, Records, StateRecord
  <1>2. PICK s \in SupType :
            /\ sup' = [sup EXCEPT ![c] = s] /\ s.st = sup[c].st /\ s.pid = sup[c].pid
            /\ s.ino = sup[c].ino /\ s.answer = sup[c].answer
            /\ \/ s.pc = "report" /\ s.st.status = "created"
               \/ s.pc = "supervise" /\ s.st.status = "running"
               \/ s.pc = "relay" /\ s.st.status = "stopped"
    <2>1. \A pc \in {"report", "supervise", "relay"} :
              LET s == [sup[c] EXCEPT !.pc = pc]
              IN /\ s \in SupType /\ s.st = sup[c].st /\ s.pid = sup[c].pid
                 /\ s.ino = sup[c].ino /\ s.answer = sup[c].answer /\ s.pc = pc
      BY Types DEF SupType
    <2>2. sup[c].st.status \in {"created", "running", "stopped"}
      BY <1>1 DEF StateRecord
    <2>3. \/ sup' = [sup EXCEPT ![c] = [sup[c] EXCEPT !.pc = "report"]] /\ sup[c].st.status = "created"
          \/ sup' = [sup EXCEPT ![c] = [sup[c] EXCEPT !.pc = "supervise"]] /\ sup[c].st.status = "running"
          \/ sup' = [sup EXCEPT ![c] = [sup[c] EXCEPT !.pc = "relay"]] /\ sup[c].st.status = "stopped"
      BY <2>2 DEF WriteState
    <2> QED
      BY <2>1, <2>3
  <1>3. PICK f \in Written(c) : fs' = [fs EXCEPT !.file = f, !.opened = @ \ {c}]
    BY DEF WriteState
  <1>4. f \in {fs.file, sup[c].st, Garbled} /\ f \in FileContent
    <2>1. f \in {fs.file, sup[c].st, Garbled}
      BY <1>3 DEF Written
    <2> QED
      BY <1>1, <2>1, Types DEF FsType, FileContent
  <1>5. /\ fs' \in FsType /\ fs'.file = f
        /\ ("fifo" \in fs'.entries => fs'.fifo \in Cli)
    <2>1. fs' \in FsType /\ fs'.file = f /\ fs'.entries = fs.entries /\ fs'.fifo = fs.fifo
      BY <1>3, <1>4, Types DEF FsType
    <2> QED
      BY <2>1 DEF IInv, Fifos
  <1>6. \/ Prepared(sup[c]) /\ Prepared(s)
        \/ Reaped(sup[c]) /\ Reaped(s)
    BY <1>1, <1>2 DEF Prepared, Reaped, Saving
  <1>7. /\ Limited(s) => Limited(sup[c])
        /\ Released(s) => Released(sup[c])
        /\ sup[c].pc # "none"
    BY <1>1, <1>2 DEF Limited, Released, Saving
  <1>8. Handshake' /\ Ownership' /\ Limits' /\ LifeForward
    BY <1>1, <1>2, <1>6, <1>7, SameInitForward DEF IInv, Limits
  <1>9. s.answer = "pid" => SetUp(c)'
    BY <1>2, <1>8 DEF IInv, Records, LifeForward
  <1>10. s.st \in StateRecord /\ SetUp(s.st.by)'
    BY <1>1, <1>2, <1>8 DEF LifeForward
  <1>11. Detached(c) /\ Released(s) => Started(s.ino)
    BY <1>2, <1>7 DEF IInv, Fifos
  <1>12. ~Parses(Garbled) /\ Garbled.status # "stopped"
    BY DEF Parses, Garbled
  <1>13. ASSUME OneContainerOnly, s.st.status = "stopped" PROVE Gone(s.st.by)'
    <2>1. s.st.by = c
      BY <1>1, <1>2, <1>7, <1>13, OnlyOne DEF SetUp
    <2>2. Reaped(sup[c])
      BY <1>1, <1>2, <1>13 DEF Reaped, Saving
    <2>3. \A p \in Pid : proc[p].owner # c
      BY <2>2, Types DEF IInv, Ownership
    <2>4. Gone(c)
      BY <1>1, <1>2, <2>1, <2>3 DEF Gone, Alive
    <2> QED
      BY <1>8, <2>1, <2>4 DEF LifeForward
  <1>14. /\ f = fs.file \/ (Parses(f) => SetUp(f.by)')
         /\ f = fs.file \/ (OneContainerOnly /\ f.status = "stopped" => Gone(f.by)')
    <2>1. CASE f = s.st
      BY <1>10, <1>13, <2>1
    <2>2. CASE f = Garbled
      BY <1>12, <2>2
    <2> QED
      BY <1>2, <1>4, <2>1, <2>2
  <1>15. /\ proc' \in [Pid -> ProcType] /\ cgroup' \subseteq Pid /\ crashes' \in 0..MaxCrashes
         /\ bytes' \in [Cli -> Nat] /\ \A i \in Cli : bytes'[i] > 0 => bytes[i] > 0
    BY <1>1 DEF IInv, TypeOK
  <1> QED
    BY <1>1, <1>2, <1>4, <1>5, <1>7, <1>8, <1>9, <1>10, <1>11, <1>14, <1>15, SameCommand, SupervisorIInv

\* The relays are joined; then the supervisor ends.
LEMMA RelayIInv == ASSUME IInv, NEW c \in Cli, Relay(c) PROVE IInv'
  <1> DEFINE s == [sup[c] EXCEPT !.pc = "exited"]
  <1>1. /\ sup[c].pc = "relay" /\ sup' = [sup EXCEPT ![c] = s] /\ fs' = Traced(c, "output")
        /\ cli' = cli \/ Finish(c, "ok")
        /\ UNCHANGED <<proc, bytes, cgroup, crashes>>
    BY DEF Relay
  <1>2. s \in SupType /\ s.pc = "exited" /\ s.pid = sup[c].pid /\ s.answer = sup[c].answer
    BY Types DEF SupType
  <1>3. Reaped(sup[c]) /\ ~Limited(s) /\ ~Released(s)
    BY <1>1, <1>2 DEF Reaped, Limited, Released, Saving
  <1> HIDE DEF s
  <1>4. Handshake' /\ Ownership' /\ Limits' /\ LifeForward
    BY <1>1, <1>2, <1>3, SameInitForward
  <1>5. s.answer = "pid" => SetUp(c)'
    BY <1>2, <1>4 DEF IInv, Records, LifeForward
  <1>6. PICK r \in CliType : /\ cli' = [cli EXCEPT ![c] = r]
                             /\ r.cmd = cli[c].cmd /\ r.pc \in {"wait", "done"} /\ InStep(r)
    <2>1. CASE cli' = cli
      BY <1>1, <2>1, SameCommand
    <2>2. CASE Finish(c, "ok")
      <3> DEFINE r == [cli[c] EXCEPT !.pc = "done", !.result = "ok"]
      <3>1. cli' = [cli EXCEPT ![c] = r]
        BY <2>2 DEF Finish
      <3>2. r \in CliType /\ r.cmd = cli[c].cmd /\ r.pc = "done"
        BY Types DEF CliType
      <3>3. InStep(r)
        BY <1>1, <3>2, Types DEF InStep, Creators
      <3> HIDE DEF r
      <3> QED
        BY <3>1, <3>2, <3>3
    <2> QED
      BY <1>1, <2>1, <2>2
  <1>7. /\ proc' \in [Pid -> ProcType] /\ cgroup' \subseteq Pid /\ crashes' \in 0..MaxCrashes
        /\ bytes' \in [Cli -> Nat] /\ \A i \in Cli : bytes'[i] > 0 => bytes[i] > 0
    BY <1>1 DEF IInv, TypeOK
  <1> QED
    BY <1>1, <1>2, <1>3, <1>4, <1>5, <1>6, <1>7, Types, TracedType, SupervisorIInv

-----------------------------------------------------------------------------
(* The theorems *)

\* The initial state meets the invariant,
LEMMA InitIInv == ASSUME Init PROVE IInv
  <1>1. TypeOK
    BY BoundAssumption
    DEF Init, TypeOK, CliType, SupType, ProcType, FsType, FreeProc, FileContent, Absent, Answers, Entries
  <1>2. CommandsInStep /\ Handshake /\ Fifos /\ Limits
    BY DEF Init, CommandsInStep, InStep, Handshake, Prepared, Reaped, Saving, Fifos, Limits, Limited, Released
  <1>3. Ownership
    BY DEF Init, Ownership, FreeProc
  <1>4. Records /\ Endings
    BY DEF Init, Records, Endings, Parses, Absent
  <1> QED
    BY <1>1, <1>2, <1>3, <1>4 DEF IInv

\* and every step of the specification keeps it.
LEMMA StepIInv == ASSUME IInv, [Next]_vars PROVE IInv'
  <1>1. CASE UNCHANGED vars
    BY <1>1 DEF vars, IInv, TypeOK, CommandsInStep, Handshake, Ownership, Fifos, Limits, Records, Endings,
       OneContainerOnly, HasInit, Creators, Detached, Started, SetUp, Gone, Alive
  <1>2. ASSUME NEW c \in Cli, Invoke(c) PROVE IInv'
    BY <1>2, InvokeIInv
  <1>3. ASSUME NEW c \in Cli, CommandStep(c) PROVE IInv'
    <2>1. CASE RejectBundle(c) \/ ReadAnswer(c) \/ ReadFails(c) \/ ExecEnds(c)
      BY <2>1, EndingsIInv
    <2>2. CASE StartRead(c) \/ KillRead(c) \/ DeleteRead(c) \/ ForceRead(c) \/ ExecRead(c)
      BY <2>2, ReadersIInv
    <2>3. CASE InitContainerDir(c) \/ ResetTrace(c) \/ Mkfifo(c) \/ ForkDaemon(c)
      BY <2>3, InitContainerDirIInv, ResetTraceIInv, MkfifoIInv, ForkDaemonIInv
    <2>4. CASE StartOpen(c) \/ StartWrite(c) \/ StartClose(c)
      BY <2>4, StartOpenIInv, StartWriteIInv, StartCloseIInv
    <2>5. CASE KillSend(c) \/ ForceKill(c)
      BY <2>5, KillSendIInv, ForceKillIInv
    <2>6. CASE RemoveScan(c) \/ (\E e \in Entries : RemoveEntry(c, e)) \/ RemoveDir(c)
      BY <2>6, RemoveScanIInv, RemoveEntryIInv, RemoveDirIInv
    <2>7. CASE EnterNs(c) \/ PrintState(c) \/ ListContainers(c)
      BY <2>7, EnterNsIInv, PrintsIInv
    <2> QED
      BY <1>3, <2>1, <2>2, <2>3, <2>4, <2>5, <2>6, <2>7 DEF CommandStep
  <1>4. ASSUME NEW c \in Cli, SupervisorStep(c) PROVE IInv'
    <2>1. CASE \E p \in Pid : Clone(c, p)
      BY <2>1, CloneIInv
    <2>2. CASE MapRootUser(c) \/ ChildPaused(c) \/ Supervise(c) \/ SuperviseKilled(c) \/ SuperviseReturns(c)
      BY <2>2, MapRootUserIInv, ChildPausedIInv, SuperviseIInv, SuperviseKilledIInv, SuperviseReturnsIInv
    <2>3. CASE MapFails(c) \/ ChildDied(c) \/ SuperviseGone(c) \/ SuperviseFails(c)
      BY <2>3, ErrorsIInv
    <2>4. CASE OpenState(c)
      BY <2>4, OpenStateIInv, ErrorsIInv
    <2>5. CASE OpenFifo(c)
      BY <2>5, OpenFifoIInv, ErrorsIInv
    <2>6. CASE WriteState(c) \/ Report(c) \/ ReadFifo(c)
      BY <2>6, WriteStateIInv, ReportIInv, ReadFifoIInv
    <2>7. CASE ApplyLimits(c) \/ ReadState(c) \/ Relay(c)
      BY <2>7, ApplyLimitsIInv, ReadStateIInv, RelayIInv
    <2> QED
      BY <1>4, <2>1, <2>2, <2>3, <2>4, <2>5, <2>6, <2>7 DEF SupervisorStep
  <1>5. ASSUME NEW c \in Cli, TraceEvent(c) \/ SupervisorKilled(c) PROVE IInv'
    BY <1>5, TraceEventIInv, ErrorsIInv
  <1>6. ASSUME NEW p \in Pid, ProcessStep(p) \/ HostReuses(p) PROVE IInv'
    BY <1>6, ProcessStepIInv
  <1> QED
    BY <1>1, <1>2, <1>3, <1>4, <1>5, <1>6 DEF Next

\* The inductive invariant of commands, supervisors, processes and state file,
\* however many there are of each.
THEOREM Invariant == Spec => []IInv
  BY InitIInv, StepIInv, PTL DEF Spec

\* Every variable has its type.
THEOREM TypeCorrect == Spec => []TypeOK
  <1>1. IInv => TypeOK
    BY DEF IInv
  <1> QED
    BY <1>1, Invariant, PTL

\* PTRACE_O_EXITKILL: no init that is past its setup is without the supervisor
\* that cloned it, with any number of ids, crashes and failures.
THEOREM NoUnsupervisedInitHolds == Spec => []NoUnsupervisedInit
  <1>1. IInv => NoUnsupervisedInit
    <2> SUFFICES ASSUME IInv, NEW p \in Pid, proc[p].pc \in {"paused", "running"}
                 PROVE  /\ sup[proc[p].owner].pc \notin {"none", "exited"}
                        /\ sup[proc[p].owner].pid = p
      BY DEF NoUnsupervisedInit
    <2>1. proc[p].owner # NoCli /\ proc[p].owner \in Cli
      BY Types DEF IInv, Ownership, ProcType
    <2>2. sup[proc[p].owner].pid = p /\ sup[proc[p].owner].pc # "exited"
      BY <2>1 DEF IInv, Ownership
    <2>3. sup[proc[p].owner].pc # "none"
      BY <2>1, <2>2, Types DEF IInv, Handshake
    <2> QED
      BY <2>2, <2>3
  <1> QED
    BY <1>1, Invariant, PTL

\* An entrypoint runs only under a supervisor that is in its loop.
LEMMA RunningIsSupervised ==
    ASSUME IInv, NEW p \in Pid, proc[p].pc = "running"
    PROVE  \E c \in Cli : proc[p].owner = c /\ sup[c].pid = p /\ sup[c].pc = "supervising"
  <1>1. PICK c \in Cli : proc[p].owner = c /\ c # NoCli
    BY Types DEF IInv, Ownership, ProcType
  <1>2. sup[c].pid = p /\ ~Reaped(sup[c]) /\ sup[c].pc # "exited"
    BY <1>1 DEF IInv, Ownership
  <1>3. sup[c].pc \notin {"none", "spawn", "map", "wait_stop"} /\ ~Prepared(sup[c])
    BY <1>1, <1>2, Types DEF IInv, Handshake, HasInit
  <1>4. sup[c].pc \in {"open_state", "write_state"} => sup[c].st \in StateRecord
    BY DEF IInv, Records
  <1>5. sup[c].pc \in {"open_state", "write_state"} => sup[c].st.status \in {"created", "running", "stopped"}
    BY <1>4 DEF StateRecord
  <1> QED
    BY <1>1, <1>2, <1>3, <1>5, Types DEF SupType, Prepared, Reaped, Saving

\* On a host with a delegated cgroup tree the entrypoint of a config with
\* linux.resources runs inside the cgroup that apply_limits put the init into.
THEOREM LimitsHolds == Spec => []LimitsBeforeEntrypoint
  <1>1. IInv => LimitsBeforeEntrypoint
    <2> SUFFICES ASSUME IInv, NEW p \in Pid, proc[p].pc = "running",
                        MustLimit(proc[p].owner)
                 PROVE  p \in cgroup
      BY DEF LimitsBeforeEntrypoint
    <2>1. PICK c \in Cli : proc[p].owner = c /\ sup[c].pid = p /\ sup[c].pc = "supervising"
      BY RunningIsSupervised
    <2> QED
      BY <2>1 DEF IInv, Limits, Limited
  <1> QED
    BY <1>1, Invariant, PTL

\* A created container runs its entrypoint only after a `start` wrote into the
\* FIFO its supervisor read.
THEOREM PausedUntilStartedHolds == Spec => []PausedUntilStarted
  <1>1. IInv => PausedUntilStarted
    <2> SUFFICES ASSUME IInv, NEW p \in Pid, proc[p].pc = "running", Detached(proc[p].owner)
                 PROVE  Started(sup[proc[p].owner].ino)
      BY DEF PausedUntilStarted, Started
    <2>1. PICK c \in Cli : proc[p].owner = c /\ sup[c].pid = p /\ sup[c].pc = "supervising"
      BY RunningIsSupervised
    <2> QED
      BY <2>1 DEF IInv, Fifos, Released, Limited
  <1> QED
    BY <1>1, Invariant, PTL

\* Neither the answer nor the state file speaks of a container whose init is
\* still in its setup.
THEOREM SetupBeforeAnswerHolds == Spec => []SetupBeforeAnswer
  <1>1. IInv => SetupBeforeAnswer
    BY DEF IInv, SetupBeforeAnswer, Records, SetUp
  <1> QED
    BY <1>1, Invariant, PTL

\* Where no supervisor is killed, one that ends leaves no child behind but one
\* that still waits for its id map.
THEOREM LeavesNoChildHolds == ASSUME MaxCrashes = 0 PROVE Spec => []LeavesNoChild
  <1>1. IInv => LeavesNoChild
    <2> SUFFICES ASSUME IInv, NEW p \in Pid, proc[p].pc \in {"cloned", "setup", "stopping"},
                        sup[proc[p].owner].pc = "exited"
                 PROVE  FALSE
      BY DEF LeavesNoChild
    <2>1. proc[p].owner # NoCli
      BY DEF IInv, Ownership
    <2>2. crashes = 0
      BY Types
    <2> QED
      BY <2>1, <2>2 DEF IInv, Ownership
  <1> QED
    BY <1>1, Invariant, PTL

\* For an id that is given to one container, `stopped` is never said of a live
\* one,
THEOREM StoppedIsDeadHolds == ASSUME OneContainerOnly PROVE Spec => []StoppedIsDead
  <1>1. IInv => StoppedIsDead
    BY DEF IInv, Endings, StoppedIsDead, Gone
  <1> QED
    BY <1>1, Invariant, PTL

\* and a delete without --force never unlinks under a live one.
THEOREM RemovesOnlyDeadHolds == ASSUME OneContainerOnly PROVE Spec => []RemovesOnlyDead
  <1>1. IInv => RemovesOnlyDead
    <2> SUFFICES ASSUME IInv, NEW c \in Cli, cli[c].cmd = "delete", cli[c].pc = "unlink",
                        NEW d \in Creators, Alive(d)
                 PROVE  FALSE
      BY DEF RemovesOnlyDead
    <2> DEFINE b == cli[c].st.by
    <2>1. b \in Cli /\ Gone(b) /\ d \in Cli
      BY Types DEF IInv, Endings, InStep, StateRecord, Creators
    <2>2. PICK p \in Pid : proc[p].owner = d /\ proc[p].pc \in {"paused", "running"}
      BY DEF Alive
    <2>3. sup[d].pc # "none"
      BY <2>1, <2>2, Types DEF IInv, Ownership, Handshake
    <2>4. sup[b].pc # "none"
      BY <2>1 DEF Gone, SetUp
    <2>5. b = d
      BY <2>1, <2>3, <2>4, OnlyOne
    <2> QED
      BY <2>1, <2>5 DEF Gone
  <1> QED
    BY <1>1, Invariant, PTL
=============================================================================

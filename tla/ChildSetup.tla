----------------------------- MODULE ChildSetup -----------------------------
(***************************************************************************)
(* From a bundle to the running entrypoint: what config.json must satisfy  *)
(* (oci/config.rs, Host::validate), and what the cloned child then makes   *)
(* of its mounts, credentials and working directory, in the order of       *)
(* setup_and_exec_child (runtime/child.rs, mounts.rs, credentials.rs).     *)
(*                                                                         *)
(* The child works alone here: Lifecycle.tla has its handshake with the    *)
(* supervisor.  The kernel is modelled by what the calls made depend on:   *)
(* which mount shows a path, what exists there and may be written, and     *)
(* the capability sets.                                                    *)
(*                                                                         *)
(* A path is the sequence of its components below the container's root; a  *)
(* file is named by the file system it is in, <<type, serial number>>, and *)
(* its path there.                                                         *)
(***************************************************************************)
EXTENDS Integers, Sequences, SequencesExt, FiniteSets

CONSTANTS
    Configs,        \* the bundles considered
    NoValue,        \* Option::None
    Caps,           \* CAP_NAMES, in the order of the bits
    HostDevices,    \* paths of the host's device nodes, and of its other files
    HostDirs,       \* paths of its directories, in which the child may make nothing
    Refusals        \* steps the kernel may refuse for reasons of its own

ASSUME CapsAssumption == Caps \in Seq(STRING) /\ "SYS_ADMIN" \in Range(Caps) /\ IsInjective(Caps)
ASSUME RefusalsAssumption ==
    Refusals \subseteq {"isolate", "chroot", "mount", "devices", "sysctl", "mask",
                        "readonly", "oom", "root", "stdio", "exec"}

AllCaps == Range(Caps)

Paths == Seq(STRING)
Optional(v, S) == v = NoValue \/ v \in S
FileKinds == {"dir", "file", "link"}

IsMount(m) ==
    /\ Optional(m.type, STRING) /\ Optional(m.from, Paths)
    /\ m.at \in Paths /\ m.options \subseteq STRING
    /\ m.absolute \in BOOLEAN /\ m.slash \in BOOLEAN

\* OciConfig, and what it is run on; the options it leaves out are empty.
IsConfig(c) ==
    /\ c.version \in Seq(Nat)
    /\ c.root \in {"", "missing", "file", "directory"}
    /\ c.tree \subseteq [path : Paths, kind : FileKinds]
    /\ {c.readonly, c.rootIsMount, c.mapsRoot, c.oom} \subseteq BOOLEAN
    /\ Optional(c.args, Seq(STRING)) /\ c.env \subseteq {"pair", "word"}
    /\ Optional(c.cwd, [absolute : BOOLEAN, path : Paths])
    /\ Optional(c.hostname, STRING) /\ c.net \in STRING
    /\ Len(c.mounts) \in Nat /\ DOMAIN c.mounts = 1..Len(c.mounts)
    /\ \A j \in DOMAIN c.mounts : IsMount(c.mounts[j])
    /\ {c.devices, c.masked, c.readonlyPaths} \subseteq Seq(Paths) /\ c.sysctl \subseteq STRING
    /\ c.caps # NoValue =>
           /\ DOMAIN c.caps = {"bounding", "effective", "permitted", "inheritable", "ambient"}
           /\ \A set \in DOMAIN c.caps : Optional(c.caps[set], SUBSET STRING)

ASSUME ConfigsAssumption == \A c \in Configs : IsConfig(c)

\* What any file system satisfies: what is in it is in a directory, and its root is
\* one; on the host a device node or a file is not one.
ASSUME TreesAssumption == \A c \in Configs :
    /\ [path |-> <<>>, kind |-> "dir"] \in c.tree
    /\ \A f \in c.tree : \A p \in Prefixes(f.path) \ {f.path} : [path |-> p, kind |-> "dir"] \in c.tree
ASSUME HostDevicesAssumption ==
    /\ HostDevices \cup HostDirs \subseteq Paths /\ HostDevices \cap HostDirs = {}
    /\ \A p \in HostDevices, q \in HostDevices \cup HostDirs : ~IsStrictPrefix(p, q)

VARIABLES
    conf,       \* the bundle: config.json, and the root file system it names
    pc,         \* the next step of the child, or how it ended
    i,          \* the next element of the list the step walks
    devices,    \* host_devices: the paths opened before chroot
    k,          \* kernel: the mounts, each at the time it was made, and the files
    cwd,        \* kernel: the directory the child is in
    cred,       \* kernel: the capability sets
    why,        \* the step that failed
    refused,    \* history: the steps the kernel refused
    masked,     \* history: the paths masked, with the file that covers each
    sealed      \* history: the paths remounted read-only

vars == <<conf, pc, i, devices, k, cwd, cred, why, refused, masked, sealed>>

Dev(name) == <<"dev", name>>
DevNull == Dev("null")
Proc == <<"proc">>
OomScoreAdj == <<"proc", "self", "oom_score_adj">>
SelfFd == <<"proc", "self", "fd">>
SysDir == <<"proc", "sys">>
Sysctl(key) == SysDir \o <<key>>

-----------------------------------------------------------------------------
(* OciConfig::validate, NetMode::parse and Host::validate *)

\* A version is the sequence of the numbers between its dots.
ParseSemver(v) == Len(v) = 3
CompatibleVersion(v) == v[1] = 1 \/ (v[1] = 0 /\ v[2] = 5)
ValidVersion(c) == ParseSemver(c.version) /\ CompatibleVersion(c.version)

ValidProcess(c) ==
    /\ c.args # NoValue => c.args # <<>> /\ "" \notin Range(c.args)
    /\ c.cwd # NoValue => c.cwd.absolute
    /\ "word" \notin c.env

ValidHostname(c) == c.hostname \notin {"", "long", "odd"}

\* Destinations are compared as they are written: /dev and /dev/ differ.
ValidMounts(c) ==
    /\ \A j \in DOMAIN c.mounts : c.mounts[j].absolute
    /\ \A j, n \in DOMAIN c.mounts :
           j # n => <<c.mounts[j].at, c.mounts[j].slash>> # <<c.mounts[n].at, c.mounts[n].slash>>

Validate(c) ==
    ValidVersion(c) /\ c.root # "" /\ ValidProcess(c) /\ ValidHostname(c) /\ ValidMounts(c)

ParsesNet(c) == c.net \in {"none", "host"}

HasEntrypoint(c) == c.args # NoValue /\ c.args # <<>>

HostValidate(c) == HasEntrypoint(c) /\ c.root = "directory"

Accepted(c) == Validate(c) /\ ParsesNet(c) /\ HostValidate(c)

-----------------------------------------------------------------------------
(* The kernel's mounts and files *)

\* The mount that shows p: the last one made at p or above it.  What is mounted
\* over the root itself is not seen, the process keeps the root it has.
Showing(s, p) ==
    Max({j \in DOMAIN s.mounts : IsPrefix(s.mounts[j].at, p) /\ (s.mounts[j].at = <<>> => j = 1)})
MountOf(s, p) == s.mounts[Showing(s, p)]

\* The file p leads to.
File(s, p) ==
    LET m == MountOf(s, p) IN <<m.fs, m.root \o SubSeq(p, Len(m.at) + 1, Len(p))>>

Kinds(s, p) == {f.kind : f \in {g \in s.files : g.file = File(s, p)}}
Exists(s, p) == Kinds(s, p) # {}
IsDir(s, p) == "dir" \in Kinds(s, p)
Writable(s, p) == Exists(s, p) /\ ~MountOf(s, p).ro
WritableFile(s, p) == Writable(s, p) /\ ~IsDir(s, p)

\* Where nothing can be made.
Barren == {"proc", "sysfs", "devpts", "host"}

\* mkdir(2), creat(2) and symlink(2), of one path or of several side by side.
Creatable(s, p) ==
    /\ p # <<>> /\ ~Exists(s, p)
    /\ IsDir(s, Front(p)) /\ Writable(s, Front(p))
    /\ MountOf(s, Front(p)).fs[1] \notin Barren
Made(s, p, kind) ==
    IF Creatable(s, p)
    THEN [s EXCEPT !.files = @ \cup {[file |-> File(s, p), kind |-> kind]}]
    ELSE s
MadeEach(s, P, kind) ==
    [s EXCEPT !.files = @ \cup {[file |-> File(s, p), kind |-> kind] : p \in {q \in P : Creatable(s, q)}}]

\* create_dir_all: the directories of p that are missing, if the first of them
\* can be made.
Ancestor(p, n) == SubSeq(p, 1, n)
Missing(s, p) == {n \in 1..Len(p) : ~Exists(s, Ancestor(p, n))}
CanMakeDirs(s, p) == \E n \in Missing(s, p) :
    Creatable(s, Ancestor(p, n)) /\ \A j \in Missing(s, p) : n <= j
MadeDirs(s, p) ==
    IF CanMakeDirs(s, p)
    THEN [s EXCEPT !.files = @ \cup {[file |-> File(s, Ancestor(p, n)), kind |-> "dir"] :
                                        n \in Missing(s, p)}]
    ELSE s

\* What a new file system holds; of procfs, what is opened here.
Contents(type) ==
    IF type = "proc"
    THEN {[path |-> p, kind |-> "dir"] : p \in {<<>>, <<"self">>, <<"self", "fd">>, <<"sys">>}}
         \cup {[path |-> p, kind |-> "file"] :
                   p \in {<<"kcore">>, <<"self", "oom_score_adj">>, <<"sys", "hostname">>}}
    ELSE {[path |-> <<>>, kind |-> "dir"]}

\* A new mount m.
Latest(s) == Max(DOMAIN s.mounts)
WithMount(s, m) ==
    [s EXCEPT !.mounts = [j \in DOMAIN s.mounts \cup {Latest(s) + 1} |->
                             IF j \in DOMAIN s.mounts THEN s.mounts[j] ELSE m]]

NewFiles(fs, type) == {[file |-> <<fs, f.path>>, kind |-> f.kind] : f \in Contents(type)}
Mounted(s, type, p, ro) ==
    LET fs == <<type, Latest(s) + 1>>
    IN [WithMount(s, [at |-> p, fs |-> fs, root |-> <<>>, ro |-> ro, top |-> TRUE])
           EXCEPT !.files = @ \cup NewFiles(fs, type)]

\* A bind mount: what `from` shows is shown at p, read-only if it was.
CanBind(s, from, p) == Exists(s, from) /\ Exists(s, p) /\ (IsDir(s, from) <=> IsDir(s, p))
Bound(s, from, p) ==
    WithMount(s, [at |-> p, fs |-> File(s, from)[1], root |-> File(s, from)[2],
                  ro |-> MountOf(s, from).ro, top |-> TRUE])

\* The mounts below p that show, and what one of them is below q.
Submounts(s, p) ==
    {j \in DOMAIN s.mounts : /\ IsStrictPrefix(p, s.mounts[j].at)
                             /\ Showing(s, s.mounts[j].at) = j}
Moved(m, p, q) == [m EXCEPT !.at = q \o SubSeq(m.at, Len(p) + 1, Len(m.at))]

\* Faulty variant: MS_REC is left out.
BoundRecFlat(s, from, p) == Bound(s, from, p)

\* MS_BIND | MS_REC: the mounts below `from` are copied in their order; below a
\* mount over the root they are not seen either.
Copied(s, from, p) == {n \in Submounts(s, from) : p # <<>>}
BoundRec(s, from, p) ==
    LET t == Bound(s, from, p)
        last == Latest(s) + 1
    IN [t EXCEPT !.mounts =
           [j \in DOMAIN t.mounts \cup {last + n : n \in Copied(s, from, p)} |->
               IF j \in DOMAIN t.mounts THEN t.mounts[j] ELSE Moved(s.mounts[j - last], from, p)]]

\* MS_REMOUNT | MS_BIND | MS_RDONLY on the mount at p.
RemountedRo(s, p) == [s EXCEPT !.mounts[Showing(s, p)].ro = TRUE]

-----------------------------------------------------------------------------
(* mounts.rs *)

Propagations == {"private", "rprivate", "shared", "rshared", "slave", "rslave",
                 "unbindable", "runbindable"}

IsBind(m) == m.options \cap {"bind", "rbind"} # {}
ChangesPropagation(m) == ~IsBind(m) /\ m.options \cap Propagations # {}

\* Left out: remount, and changes of propagation that have effects.  The tree is
\* private from make_root_private on, so that private and slave change nothing.
ASSUME OptionsAssumption == \A c \in Configs : \A m \in Range(c.mounts) :
    /\ "remount" \notin m.options
    /\ ~IsBind(m) => m.options \cap {"shared", "rshared", "unbindable", "runbindable"} = {}

FileSystems == {"proc", "sysfs", "tmpfs", "devpts", "mqueue"}

\* Faulty variant: procfs is mounted as the options say.
ReadOnlyIfAsked(m) == "ro" \in m.options

\* parse_mount_flags; procfs is read-only when the config does not ask for rw.
ReadOnly(m) == "ro" \in m.options \/ (m.type = "proc" /\ "rw" \notin m.options)

\* parse_mount_data: what is not a flag is left to the file system, and not all
\* of them have a mode.
TakesData(m) == "mode" \in m.options => m.type \in {"tmpfs", "devpts"}

\* do_change_type: one type and no other flag, and what shows at the destination
\* is a mount there.
CanChange(s, m) ==
    /\ ~ReadOnly(m) /\ m.options \cap {"nosuid", "noexec", "nodev"} = {}
    /\ \E type \in {{"private", "rprivate"}, {"slave", "rslave"}} : m.options \cap Propagations \subseteq type
    /\ MountOf(s, m.at).at = m.at /\ MountOf(s, m.at).top

\* mount(2) with these flags, in the kernel's order: a bind ignores type, data,
\* MS_RDONLY and propagation.
CanMount(s, m) ==
    \/ IsBind(m) /\ m.from # NoValue /\ CanBind(s, m.from, m.at)
    \/ ChangesPropagation(m) /\ CanChange(s, m)
    \/ /\ ~IsBind(m) /\ ~ChangesPropagation(m)
       /\ m.type \in FileSystems /\ TakesData(m) /\ IsDir(s, m.at)

DoMount(s, m) ==
    CASE "rbind" \in m.options -> BoundRec(s, m.from, m.at)
      [] "bind" \in m.options /\ "rbind" \notin m.options -> Bound(s, m.from, m.at)
      [] ChangesPropagation(m) -> s
      [] OTHER -> Mounted(s, m.type, m.at, ReadOnly(m))

\* apply_mount: the mount point is made if it is not there.
ApplyMountPossible(s, m) == CanMount(MadeDirs(s, m.at), m)
ApplyMount(s, m) == DoMount(MadeDirs(s, m.at), m)

\* What the host has at p and below it.
HostNode(p) == [at |-> p, fs |-> <<"host", 0>>, root |-> p, ro |-> FALSE, top |-> TRUE]
HostFiles(p) ==
    {[file |-> <<<<"host", 0>>, q>>, kind |-> IF q \in HostDirs THEN "dir" ELSE "file"] :
        q \in {r \in HostDevices \cup HostDirs : IsPrefix(p, r)}}

\* bind_devices: a placeholder for the mount point, then a bind of what was
\* opened, which is reached through /proc/self/fd; a failure is passed over, that
\* of a directory over a placeholder too.
BindDevice(s, p, allowed) ==
    LET t == Made(s, p, "file")
    IN IF /\ allowed /\ File(t, SelfFd)[1][1] = "proc"
          /\ Exists(t, p) /\ (IsDir(t, p) <=> p \in HostDirs)
       THEN [WithMount(t, HostNode(p)) EXCEPT !.files = @ \cup HostFiles(p)]
       ELSE t

Links == {"fd", "stdin", "stdout", "stderr", "ptmx"}

\* symlink(2) for every link that is not there yet.
Linked(s) == MadeEach(s, {Dev(name) : name \in Links}, "link")

\* apply_masked_paths: a placeholder if nothing is there; an empty tmpfs over a
\* directory, /dev/null, which has no mounts below it, over anything else.
Placeholder(s, p) == IF Exists(s, p) THEN s ELSE Made(MadeDirs(s, Front(p)), p, "file")

\* Faulty variant: a directory is bound over like a file.
CanMaskFiles(s, p) == CanBind(s, DevNull, p)

CanMask(s, p) == IsDir(s, p) \/ CanBind(s, DevNull, p)
Mask(s, p) == IF IsDir(s, p) THEN Mounted(s, "mask", p, FALSE) ELSE Bound(s, DevNull, p)

\* apply_readonly_paths: a directory if nothing is there; a bind of the path
\* onto itself, remounted: for / that is the root itself, if it is a mount.
ReadonlyPlace(s, p) == IF Exists(s, p) THEN s ELSE MadeDirs(s, p)

MakeReadonly(s, p, remounts) ==
    LET t == BoundRec(s, p, p) IN IF remounts /\ MountOf(t, p).top THEN RemountedRo(t, p) ELSE t

-----------------------------------------------------------------------------
(* credentials.rs *)

\* cap_mask: a name that is not known is EINVAL; a set left out is empty.
CapMask(names) == IF names = NoValue THEN {} ELSE names
KnownCaps(c) == \A set \in DOMAIN c : CapMask(c[set]) \subseteq AllCaps

\* Faulty variant: the loop stops before MAX_CAP.
DropBoundingExclusive(cr, c) ==
    [cr EXCEPT !.bounding = @ \ {Caps[n] : n \in {j \in 1..(Len(Caps) - 1) :
                                                     Caps[j] \notin CapMask(c.bounding)}}]

\* PR_CAPBSET_DROP for every capability that bounding does not name.
DropBounding(cr, c) ==
    [cr EXCEPT !.bounding = @ \ {Caps[n] : n \in {j \in 1..Len(Caps) :
                                                     Caps[j] \notin CapMask(c.bounding)}}]

\* capset(2): no set may grow beyond what the kernel allows.
CanSet(cr, c) ==
    /\ CapMask(c.effective) \subseteq CapMask(c.permitted)
    /\ CapMask(c.permitted) \subseteq cr.permitted
    /\ CapMask(c.inheritable) \subseteq (cr.inheritable \cup cr.bounding)

ApplyCapabilitiesPossible(cr, c) == KnownCaps(c) /\ CanSet(DropBounding(cr, c), c)

\* The ambient set is cleared, and raised where the other two sets allow it.
ApplyCapabilities(cr, c) ==
    [DropBounding(cr, c) EXCEPT
        !.effective = CapMask(c.effective),
        !.permitted = CapMask(c.permitted),
        !.inheritable = CapMask(c.inheritable),
        !.ambient = CapMask(c.ambient) \cap CapMask(c.permitted) \cap CapMask(c.inheritable)]

\* A user namespace starts with every capability but nothing inheritable.
FirstCred ==
    [bounding |-> AllCaps, effective |-> AllCaps, permitted |-> AllCaps,
     inheritable |-> {}, ambient |-> {}]

\* execve(2) of a program without file capabilities: root gets what the
\* inheritable and the bounding set hold, anyone else the ambient set.
ExecCaps(cr, root) == IF root THEN cr.inheritable \cup cr.bounding ELSE cr.ambient
Exec(cr, root) ==
    [cr EXCEPT !.effective = ExecCaps(cr, root), !.permitted = ExecCaps(cr, root)]

-----------------------------------------------------------------------------
(* setup_and_exec_child, from the id mappings to the entrypoint *)

RootOf(c) ==
    [mounts |-> <<[at |-> <<>>, fs |-> <<"rootfs", 1>>, root |-> <<>>, ro |-> FALSE,
                   top |-> c.rootIsMount]>>,
     files |-> {[file |-> <<<<"rootfs", 1>>, f.path>>, kind |-> f.kind] : f \in c.tree}]

Init ==
    /\ conf \in Configs
    /\ pc = "load" /\ i = 1
    /\ devices = <<>>
    /\ k = RootOf(conf)
    /\ cwd = <<>>
    /\ cred = FirstCred
    /\ why = "" /\ refused = {} /\ masked = {} /\ sealed = {}

Kernel == <<k, cwd, cred>>
History == <<masked, sealed>>

At(step) == pc = step

\* Faulty variant: the next list is walked from where the last one ended.
GotoKeepsIndex(step) == pc' = step /\ i' = i

Goto(step) == pc' = step /\ i' = 1

\* load_host: nothing is created for a config that is not accepted.
Load ==
    /\ At("load")
    /\ Goto(IF Accepted(conf) THEN "isolate" ELSE "rejected")
    /\ UNCHANGED <<conf, devices, Kernel, why, refused, History>>

\* A step that does not succeed: the child writes an error and returns 1.
Fail(step) ==
    /\ pc' = "failed" /\ why' = step
    /\ UNCHANGED <<conf, i, devices, Kernel, History>>
Refuse(step) == step \in Refusals /\ refused' = refused \cup {step}
Stops(step, possible) ==
    \/ ~possible /\ Fail(step) /\ UNCHANGED refused
    \/ possible /\ Refuse(step) /\ Fail(step)

\* A private mount tree, the hostname and the loopback device.
Isolate ==
    /\ At("isolate")
    /\ \/ Stops("isolate", TRUE)
       \/ Goto("open") /\ UNCHANGED <<conf, devices, Kernel, why, refused, History>>

DefaultDevices ==
    <<Dev("null"), Dev("zero"), Dev("full"), Dev("random"), Dev("urandom"), Dev("tty")>>
Requested(c) == DefaultDevices \o c.devices

\* O_PATH opens whatever is there, a directory too.
OpenDevices ==
    /\ At("open")
    /\ \/ /\ i > Len(Requested(conf))
          /\ Goto("chroot")
          /\ UNCHANGED <<conf, devices, Kernel, why, refused, History>>
       \/ /\ i <= Len(Requested(conf))
          /\ LET p == Requested(conf)[i]
             IN devices' = IF p \in HostDevices \cup HostDirs THEN Append(devices, p) ELSE devices
          /\ i' = i + 1
          /\ UNCHANGED <<conf, pc, Kernel, why, refused, History>>

Chroot ==
    /\ At("chroot")
    /\ \/ Stops("chroot", TRUE)
       \/ Goto("chdir") /\ UNCHANGED <<conf, devices, Kernel, why, refused, History>>

CwdPath(c) == IF c.cwd = NoValue THEN <<>> ELSE c.cwd.path

Chdir ==
    /\ At("chdir")
    /\ \/ Stops("chdir", IsDir(k, CwdPath(conf)))
       \/ /\ IsDir(k, CwdPath(conf))
          /\ cwd' = File(k, CwdPath(conf))
          /\ Goto("mount")
          /\ UNCHANGED <<conf, devices, k, cred, why, refused, History>>

ApplyMounts ==
    /\ At("mount")
    /\ \/ /\ i > Len(conf.mounts)
          /\ Goto("devices")
          /\ UNCHANGED <<conf, devices, Kernel, why, refused, History>>
       \/ /\ i <= Len(conf.mounts)
          /\ \/ Stops("mount", ApplyMountPossible(k, conf.mounts[i]))
             \/ /\ ApplyMountPossible(k, conf.mounts[i])
                /\ k' = ApplyMount(k, conf.mounts[i])
                /\ i' = i + 1
                /\ UNCHANGED <<conf, pc, devices, cwd, cred, why, refused, History>>

\* A step the child passes over when the kernel refuses it.
Tries(step, allowed) == IF allowed THEN UNCHANGED refused ELSE Refuse(step)

\* setup_default_devices: the nodes one by one, then the links.
SetupDevices ==
    /\ At("devices")
    /\ \/ /\ i > Len(devices)
          /\ k' = Linked(k)
          /\ Goto("sysctl")
          /\ UNCHANGED <<conf, devices, cwd, cred, why, refused, History>>
       \/ /\ i <= Len(devices)
          /\ \E allowed \in BOOLEAN :
                 /\ Tries("devices", allowed)
                 /\ k' = BindDevice(k, devices[i], allowed)
          /\ i' = i + 1
          /\ UNCHANGED <<conf, pc, devices, cwd, cred, why, History>>

\* In the host's network namespace sysctls are left alone.  std::fs::write makes
\* a file that is not there, where one can be made.
SysctlFiles == {Sysctl(key) : key \in IF conf.net = "host" THEN {} ELSE conf.sysctl}
SysctlsPossible == \A p \in SysctlFiles : WritableFile(k, p) \/ Creatable(k, p)

WriteSysctls ==
    /\ At("sysctl")
    /\ \/ Stops("sysctl", SysctlsPossible)
       \/ /\ SysctlsPossible
          /\ k' = MadeEach(k, SysctlFiles, "file")
          /\ Goto("mask")
          /\ UNCHANGED <<conf, devices, cwd, cred, why, refused, History>>

MaskPaths ==
    /\ At("mask")
    /\ \/ /\ i > Len(conf.masked)
          /\ Goto("readonly")
          /\ UNCHANGED <<conf, devices, Kernel, why, refused, History>>
       \/ /\ i <= Len(conf.masked)
          /\ \E allowed \in BOOLEAN :
                 LET p == conf.masked[i]
                     s == Placeholder(k, p)
                     covers == allowed /\ CanMask(s, p)
                 IN /\ Tries("mask", allowed)
                    /\ k' = IF covers THEN Mask(s, p) ELSE s
                    /\ masked' = IF covers /\ p # <<>>
                                  THEN masked \cup {[path |-> p, by |-> File(k', p)]} ELSE masked
          /\ i' = i + 1
          /\ UNCHANGED <<conf, pc, devices, cwd, cred, why, sealed>>

ReadonlyPaths ==
    /\ At("readonly")
    /\ \/ /\ i > Len(conf.readonlyPaths)
          /\ Goto("oom")
          /\ UNCHANGED <<conf, devices, Kernel, why, refused, History>>
       \/ /\ i <= Len(conf.readonlyPaths)
          /\ \E binds, remounts \in BOOLEAN :
                 LET p == conf.readonlyPaths[i]
                     s == ReadonlyPlace(k, p)
                     bound == binds /\ Exists(s, p)
                 IN /\ Tries("readonly", binds /\ remounts)
                    /\ k' = IF bound THEN MakeReadonly(s, p, remounts) ELSE s
                    /\ sealed' = IF bound /\ remounts /\ MountOf(k', p).top
                                  THEN sealed \cup {p} ELSE sealed
          /\ i' = i + 1
          /\ UNCHANGED <<conf, pc, devices, cwd, cred, why, masked>>

OomPossible == conf.oom => WritableFile(k, OomScoreAdj)

ApplyOomScoreAdj ==
    /\ At("oom")
    /\ \/ Stops("oom", OomPossible)
       \/ /\ OomPossible
          /\ Goto("caps")
          /\ UNCHANGED <<conf, devices, Kernel, why, refused, History>>

CapsPossible == conf.caps # NoValue => ApplyCapabilitiesPossible(cred, conf.caps)

DropCapabilities ==
    /\ At("caps")
    /\ \/ Stops("caps", CapsPossible)
       \/ /\ CapsPossible
          /\ cred' = IF conf.caps = NoValue THEN cred ELSE ApplyCapabilities(cred, conf.caps)
          /\ Goto("root")
          /\ UNCHANGED <<conf, devices, k, cwd, why, refused, History>>

\* make_root_readonly: a remount of /, by whoever the child is by now.
RootPossible == conf.readonly => "SYS_ADMIN" \in cred.effective /\ MountOf(k, <<>>).top

MakeRootReadonly ==
    /\ At("root")
    /\ \/ Stops("root", RootPossible)
       \/ /\ RootPossible
          /\ k' = IF conf.readonly THEN RemountedRo(k, <<>>) ELSE k
          /\ Goto("stdio")
          /\ UNCHANGED <<conf, devices, cwd, cred, why, refused, History>>

\* dup2 of the output pipes, PTRACE_TRACEME and the stop for the supervisor.
Stdio ==
    /\ At("stdio")
    /\ \/ Stops("stdio", TRUE)
       \/ Goto("exec") /\ UNCHANGED <<conf, devices, Kernel, why, refused, History>>

ExecEntrypoint ==
    /\ At("exec")
    /\ \/ Stops("exec", HasEntrypoint(conf))
       \/ /\ HasEntrypoint(conf)
          /\ cred' = Exec(cred, conf.mapsRoot)
          /\ Goto("running")
          /\ UNCHANGED <<conf, devices, k, cwd, why, refused, History>>

Ended == pc \in {"rejected", "failed", "running"}
Rest == Ended /\ UNCHANGED vars

Next ==
    \/ Load \/ Isolate \/ OpenDevices \/ Chroot \/ Chdir \/ ApplyMounts \/ SetupDevices
    \/ WriteSysctls \/ MaskPaths \/ ReadonlyPaths \/ ApplyOomScoreAdj \/ DropCapabilities
    \/ MakeRootReadonly \/ Stdio \/ ExecEntrypoint \/ Rest

Spec == Init /\ [][Next]_vars

-----------------------------------------------------------------------------
(* Properties *)

\* The names spelled out above.  The proofs have to be told that they are strings,
\* which is for TLC to confirm.
Names ==
    Links \cup FileSystems \cup {"null", "zero", "full", "random", "urandom", "tty"}
    \cup {"dev", "self", "sys", "kcore", "hostname", "oom_score_adj", "rootfs", "host", "mask"}
ASSUME NamesAssumption == Names \subseteq STRING

\* The list that a step walks.
Walked ==
    CASE pc = "open" -> Requested(conf) [] pc = "mount" -> conf.mounts
      [] pc = "devices" -> devices [] pc = "mask" -> conf.masked
      [] pc = "readonly" -> conf.readonlyPaths [] OTHER -> <<>>

\* Type correctness of setup_and_exec_child's state: every list is walked from
\* its first element to its last, a failure names its step, and the kernel's
\* rules between the capability sets hold.
TypeOK ==
    /\ IsConfig(conf)
    /\ pc # "failed" => i \in 1..(Len(Walked) + 1) /\ why = ""
    /\ Range(devices) \subseteq HostDevices \cup HostDirs
    /\ k.files \subseteq [file : (STRING \X Nat) \X Paths, kind : FileKinds]
    /\ Range(k.mounts) \subseteq [at : Paths, fs : STRING \X Nat, root : Paths, ro : BOOLEAN, top : BOOLEAN]
    /\ 1 \in DOMAIN k.mounts /\ DOMAIN k.mounts \subseteq 1..Latest(k) /\ k.mounts[1].at = <<>>
    /\ \A set \in DOMAIN cred : cred[set] \subseteq AllCaps
    /\ cred.effective \subseteq cred.permitted
    /\ cred.ambient \subseteq (cred.permitted \cap cred.inheritable)
    /\ refused \subseteq Refusals
    /\ {m.path : m \in masked} \subseteq Range(conf.masked)
    /\ sealed \subseteq Range(conf.readonlyPaths)

\* procfs is mounted at /proc, may be written, and nothing was mounted over p.
ProcWritable(c, p) ==
    \E j \in DOMAIN c.mounts :
        LET m == c.mounts[j]
        IN /\ m.at = Proc /\ m.type = "proc" /\ ~IsBind(m) /\ ~ChangesPropagation(m)
           /\ "rw" \in m.options /\ "ro" \notin m.options
           /\ \A n \in DOMAIN c.mounts : n > j => ~IsPrefix(c.mounts[n].at, p)

\* A tmpfs at /proc/sys shows there, and may be written.
SysCovered(c) ==
    \E j \in DOMAIN c.mounts :
        LET m == c.mounts[j]
        IN /\ m.at = SysDir /\ m.type = "tmpfs" /\ ~IsBind(m) /\ ~ChangesPropagation(m)
           /\ "ro" \notin m.options
           /\ \A n \in DOMAIN c.mounts : n > j => ~IsPrefix(c.mounts[n].at, SysDir)

\* Of /proc there is nothing but procfs and a tmpfs at /proc/sys, as far as the
\* config writes there at all.
WritesNoProc(c) == (c.net = "host" \/ c.sysctl = {}) /\ ~c.oom
Apart(p, q) == ~IsPrefix(p, q) /\ ~IsPrefix(q, p)
PlainProc(c) ==
    /\ \A f \in c.tree : ~IsStrictPrefix(Proc, f.path)
    /\ \A p \in Range(c.devices) : Apart(p, Proc)
    /\ \A p \in Range(c.masked) : ~IsPrefix(OomScoreAdj, p)
    /\ \A m \in Range(c.mounts) :
           \/ Apart(m.at, Proc) /\ (m.from = NoValue \/ Apart(m.from, Proc))
           \/ /\ <<m.at, m.type>> \in {<<Proc, "proc">>, <<SysDir, "tmpfs">>}
              /\ ~IsBind(m) /\ ~ChangesPropagation(m)

CwdMissing(c) == [path |-> CwdPath(c), kind |-> "dir"] \notin c.tree

SysctlBlocked(c) ==
    /\ c.net # "host"
    /\ \E key \in c.sysctl : ~SysCovered(c) /\ (key # "hostname" \/ ~ProcWritable(c, Sysctl(key)))

OomBlocked(c) ==
    /\ c.oom
    /\ \/ ~ProcWritable(c, OomScoreAdj)
       \/ \E p \in Range(c.masked \o c.readonlyPaths) \ {<<>>} : IsPrefix(p, OomScoreAdj)

CapsInvalid(c) ==
    /\ c.caps # NoValue
    /\ \/ ~KnownCaps(c.caps)
       \/ ~(CapMask(c.caps.effective) \subseteq CapMask(c.caps.permitted))
       \/ ~(CapMask(c.caps.inheritable) \subseteq CapMask(c.caps.bounding))

RootBlocked(c) ==
    /\ c.readonly
    /\ \/ ~c.rootIsMount
       \/ c.caps # NoValue /\ "SYS_ADMIN" \notin CapMask(c.caps.effective)

\* Which accepted configs start, told from config.json and the root file system
\* alone: with a kernel that refuses nothing, a child that gets past its mounts
\* (apply_mount) reaches the entrypoint exactly when the working directory was
\* there before the mounts, /proc may be written where a sysctl or the OOM score
\* is (a sysctl that is not there is made where a tmpfs covers /proc/sys), the
\* capability sets agree, and a read-only root can still be remounted once the
\* capabilities are gone.
StartsUnless ==
    (refused = {} /\ why # "mount" /\ (WritesNoProc(conf) \/ PlainProc(conf))) =>
        LET blocked == \/ CwdMissing(conf) \/ SysctlBlocked(conf) \/ OomBlocked(conf)
                       \/ CapsInvalid(conf) \/ RootBlocked(conf)
        IN (pc = "failed" => blocked) /\ (pc = "running" => ~blocked)

\* apply_capabilities and the execve that follows it: the entrypoint holds what
\* the config's bounding set names when it runs as root, and otherwise exactly
\* the ambient capabilities that are permitted and inheritable as well; the
\* bounding set itself keeps nothing the config leaves out.
EntrypointCaps ==
    (pc = "running" /\ conf.caps # NoValue) =>
        /\ cred.bounding = CapMask(conf.caps.bounding)
        /\ cred.effective = IF conf.mapsRoot THEN CapMask(conf.caps.bounding)
                            ELSE CapMask(conf.caps.ambient) \cap CapMask(conf.caps.permitted)
                                     \cap CapMask(conf.caps.inheritable)

\* A path that apply_masked_paths covered stays covered, by that placeholder or
\* by one over a directory above it: no later mask and no read-only bind of a
\* directory onto itself (apply_readonly_paths) shows the file again.
MaskHolds ==
    \A m \in masked : \E n \in masked :
        /\ IsPrefix(n.path, m.path)
        /\ File(k, m.path) = <<n.by[1], n.by[2] \o SubSeq(m.path, Len(n.path) + 1, Len(m.path))>>

\* A path that apply_readonly_paths remounted read-only stays so, whatever other
\* paths, above or below it, are bound afterwards.
ReadonlyHolds == \A p \in sealed : MountOf(k, p).ro

\* With a kernel that refuses nothing, every path below / of apply_readonly_paths
\* that is there when the entrypoint starts is read-only, and with the host's
\* /dev/null in place every such path of apply_masked_paths is masked, or a directory
\* above it is ("a non-existent path" is "already masked"): also one that was passed
\* over because it was missing, and came to exist by what was done for another.
NonePassedOver ==
    (pc = "running" /\ refused = {}) =>
        /\ \A p \in Range(conf.readonlyPaths) \ {<<>>} : Exists(k, p) => MountOf(k, p).ro
        /\ (Exists(k, DevNull) /\ File(k, DevNull)[1][1] = "host") =>
               \A p \in Range(conf.masked) \ {<<>>} :
                   Exists(k, p) => \E m \in masked : IsPrefix(m.path, p)

\* README.md: "read-only root filesystem options": a config that asks for a
\* read-only root is not refused for asking.
ReadonlyRootHonoured == why # "root" \/ "root" \in refused

\* process.cwd: the entrypoint starts in the directory its path leads to.
CwdIsShown == pc = "running" => cwd = File(k, CwdPath(conf))

\* DOCS.md: "dtrun also creates the OCI default devices": what the entrypoint
\* finds at the path of an opened device is the host's node.
DevicesAppear ==
    (pc = "running" /\ refused = {}) =>
        \A p \in Range(devices) : File(k, p) = <<<<"host", 0>>, p>>
=============================================================================

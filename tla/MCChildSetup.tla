---------------------------- MODULE MCChildSetup ----------------------------
(***************************************************************************)
(* Bundles for ChildSetup: a base bundle that starts, and what is varied   *)
(* of it, each group of settings that meet in some step in every           *)
(* combination.                                                            *)
(***************************************************************************)
EXTENDS ChildSetup

Dir(p) == [path |-> p, kind |-> "dir"]
Tree == {Dir(<<>>), Dir(<<"data">>), Dir(<<"data", "work">>),
         [path |-> <<"data", "key">>, kind |-> "file"]}

Mount(type, from, at, options) ==
    [type |-> type, from |-> from, at |-> at, options |-> options, absolute |-> TRUE, slash |-> FALSE]
ProcMount == Mount("proc", NoValue, Proc, {})
ProcRw == Mount("proc", NoValue, Proc, {"rw"})
DevMount == Mount("tmpfs", NoValue, <<"dev">>, {"nosuid", "mode"})
DataMount == Mount("tmpfs", NoValue, <<"data">>, {})
BindData(options) == Mount(NoValue, <<"data">>, <<"mnt">>, options)

Base ==
    [version |-> <<1, 0, 2>>, root |-> "directory", args |-> <<"sh">>, cwd |-> NoValue,
     env |-> {"pair"}, hostname |-> "name", net |-> "none",
     rootIsMount |-> FALSE, readonly |-> FALSE, tree |-> Tree,
     mounts |-> <<ProcMount, DevMount>>, devices |-> <<<<"dev", "fuse">>, <<"dev", "gone">>>>,
     sysctl |-> {}, masked |-> <<>>, readonlyPaths |-> <<>>, oom |-> FALSE,
     caps |-> NoValue, mapsRoot |-> TRUE]

\* One setting that validate or Host::validate looks at.
Checked ==
    {[Base EXCEPT !.version = v] : v \in {<<>>, <<1, 1>>, <<0, 5, 0>>, <<0, 4, 9>>, <<2, 0, 0>>}}
    \cup {[Base EXCEPT !.root = r] : r \in {"", "missing", "file"}}
    \cup {[Base EXCEPT !.args = a] : a \in {NoValue, <<>>, <<"">>, <<"sh", "">>}}
    \cup {[Base EXCEPT !.cwd = [absolute |-> FALSE, path |-> <<"data">>]],
          [Base EXCEPT !.env = {"word"}], [Base EXCEPT !.net = "bridge"],
          [Base EXCEPT !.mounts = <<[DevMount EXCEPT !.absolute = FALSE]>>],
          [Base EXCEPT !.mounts = <<DevMount, DevMount>>],
          [Base EXCEPT !.mounts = <<DevMount, [DevMount EXCEPT !.slash = TRUE]>>]}
    \cup {[Base EXCEPT !.hostname = h] : h \in {NoValue, "", "long", "odd"}}

\* Where the entrypoint starts, and the mounts made after that.
Placed ==
    {[Base EXCEPT !.cwd = d, !.mounts = m] :
        d \in {NoValue} \cup {[absolute |-> TRUE, path |-> p] :
                                 p \in {<<"data">>, <<"data", "work">>, <<"data", "key">>, <<"mnt">>}},
        m \in {<<>>, <<DataMount>>, <<DevMount>>, <<BindData({"bind"})>>, <<BindData({"rbind", "rprivate"})>>,
               <<DataMount, BindData({"bind", "ro"})>>,
               <<Mount("sysfs", NoValue, <<"sys">>, {"ro", "mode"})>>,
               <<Mount("ext4", NoValue, <<"mnt">>, {})>>,
               <<Mount(NoValue, <<"none">>, <<"mnt">>, {"bind"})>>,
               <<Mount("tmpfs", NoValue, <<"data", "work">>, {}), Mount(NoValue, <<"data">>, <<>>, {"rbind"})>>,
               <<Mount(NoValue, NoValue, <<"mnt">>, {"rprivate"})>>,
               <<DataMount, [Mount(NoValue, NoValue, <<"data">>, {"rslave"}) EXCEPT !.slash = TRUE]>>,
               <<Mount("tmpfs", NoValue, <<"data", "work">>, {}), DataMount,
                 [Mount(NoValue, NoValue, <<"data", "work">>, {"private"}) EXCEPT !.slash = TRUE]>>,
               <<ProcMount, Mount("tmpfs", NoValue, <<"proc", "new">>, {})>>}}

\* What is made of /proc and of the files of the root.
Kcore == <<"proc", "kcore">>
Key == <<"data", "key">>
Hardened ==
    {[Base EXCEPT !.mounts = m, !.masked = mask, !.readonlyPaths = r, !.oom = o] :
        m \in {<<>>, <<ProcMount, DevMount>>, <<DevMount, ProcRw>>, <<DevMount, ProcRw, BindData({"rbind"})>>},
        mask \in {<<>>, <<Kcore, Key>>, <<<<"data">>, Key>>, <<Key, <<"data">>, Proc>>, <<<<"new", "file">>>>},
        r \in {<<>>, <<<<"proc", "sys">>, <<"data">>>>, <<<<"data", "work">>, <<"data">>>>,
               <<Proc, <<"mnt">>>>, <<<<"new", "dir">>>>},
        o \in BOOLEAN}

\* Paths that come to exist after they were passed over: under the mask of a
\* directory, or through another mount of the same directory.
Late ==
    {[Base EXCEPT !.mounts = <<DevMount, ProcRw, BindData(b)>>, !.masked = mask, !.readonlyPaths = r] :
        b \in {{"bind"}, {"rbind"}},
        mask \in {<<>>, <<Key \o <<"x">>, <<"data">>, Key \o <<"x", "y">>>>},
        r \in {<<>>, <<<<"mnt">>, <<"mnt", "new">>, <<"data", "new">>>>}}

\* / among the paths: a mount over it is not seen.
Rooted ==
    {[Base EXCEPT !.masked = mask, !.readonlyPaths = r, !.rootIsMount = t] :
        mask \in {<<>>, <<<<>>, Key>>}, r \in {<<<<>>>>, <<<<"data">>, <<>>>>}, t \in BOOLEAN}

\* Directories of the host among the devices, bound over one and over a placeholder.
Shm == <<"dev", "shm">>
Shared ==
    {[Base EXCEPT !.mounts = Base.mounts \o m, !.devices = <<Shm, Shm \o <<"sem">>>>, !.masked = mask,
                  !.readonlyPaths = r] :
        m \in {<<>>, <<Mount("tmpfs", NoValue, Shm, {})>>},
        mask \in {<<>>, <<Shm \o <<"sem">>, Shm \o <<"new">>>>}, r \in {<<>>, <<Shm>>}}

SysMount(options) == Mount("tmpfs", NoValue, SysDir, options)
Tuned ==
    {[Base EXCEPT !.mounts = m, !.sysctl = s, !.net = n, !.oom = o] :
        m \in {<<>>, <<ProcMount>>, <<ProcRw>>, <<ProcRw, SysMount({})>>, <<ProcRw, SysMount({"ro"})>>,
               <<SysMount({}), ProcRw>>},
        s \in {{"hostname"}, {"hostname", "unknown"}}, n \in {"none", "host"}, o \in BOOLEAN}

\* Who the entrypoint is.
CapSets(b, e, p, h, a) ==
    [bounding |-> b, effective |-> e, permitted |-> p, inheritable |-> h, ambient |-> a]
Privileged ==
    {[Base EXCEPT !.caps = c, !.mapsRoot = u, !.readonly = r[1], !.rootIsMount = r[2]] :
        c \in {NoValue,
               CapSets({"KILL", "BPF"}, {"KILL"}, {"KILL", "BPF"}, {"KILL", "BPF"}, {"KILL"}),
               CapSets({"KILL"}, {"KILL"}, {"KILL", "BPF"}, {"KILL"}, {"KILL", "BPF"}),
               CapSets(NoValue, {"SYS_ADMIN"}, {"SYS_ADMIN", "BPF"}, {}, {"BPF"}),
               CapSets({"KILL"}, {"SYS_ADMIN"}, {}, {}, {}),
               CapSets({}, {}, {}, {"KILL"}, NoValue),
               CapSets({"FLY"}, {}, {}, {}, {})},
        u \in BOOLEAN, r \in {<<FALSE, FALSE>>, <<TRUE, FALSE>>, <<TRUE, TRUE>>}}

AllConfigs == Checked \cup Placed \cup Hardened \cup Late \cup Rooted \cup Shared \cup Tuned \cup Privileged

CapNames == <<"KILL", "SETPCAP", "SYS_ADMIN", "BPF">>
NodesOfHost == {<<"dev", "null">>, <<"dev", "tty">>, <<"dev", "fuse">>, Shm \o <<"sem">>}
DirsOfHost == {Shm}
=============================================================================

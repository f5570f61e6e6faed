------------------------------ MODULE Flatten -------------------------------
(***************************************************************************)
(* dtrun flatten (oci/image.rs): the entries of an image's archive are     *)
(* unpacked over a destination one after the other, whiteouts included,    *)
(* and the metadata of the result is normalised directory by directory.    *)
(*                                                                         *)
(* A name is [n, wh]: wh marks the prefix .wh., and .wh..wh..opq is the    *)
(* marked name "opq".  A tree is a function from the paths that exist to   *)
(* nodes; the path <<>> is the destination itself.  A link leads out of    *)
(* the tree.  Of a node's metadata only its being executable and where the *)
(* rest came from is kept.                                                 *)
(***************************************************************************)
EXTENDS Integers, Sequences, SequencesExt, Functions

CONSTANTS
    Images,     \* the archives considered: [readable, entries]
    Dests       \* the trees the destination may start with; none if it does not exist

Names == [n : STRING, wh : BOOLEAN]
EntryType ==
    [kind : {"dir", "file", "link", "bad"}, x : BOOLEAN, absolute : BOOLEAN, parts : Seq(Names)]
NodeType ==
    [kind : {"dir", "file", "link"}, by : Nat, x : BOOLEAN, meta : {"raw", "canonical"}]

\* What is above an existing path exists and is a directory.
IsTree(t) ==
    /\ DOMAIN t \subseteq Seq(Names)
    /\ \A p \in DOMAIN t : \A q \in Prefixes(p) : q \in DOMAIN t /\ (q # p => t[q].kind = "dir")

ASSUME ImagesAssumption ==
    \A m \in Images : m.readable \in BOOLEAN /\ m.entries \in Seq(EntryType)
ASSUME DestsAssumption ==
    \A t \in Dests : /\ IsTree(t) /\ t \in [DOMAIN t -> NodeType]
                     /\ \A p \in DOMAIN t : t[p].meta = "raw" /\ (p = <<>> => t[p].kind = "dir")

VARIABLES
    image,      \* the archive
    before,     \* what the destination held
    n,          \* the entry that is read next
    tree,       \* the destination
    todo,       \* stack of normalize_tree
    phase

vars == <<image, before, n, tree, todo, phase>>

Entries == image.entries

-----------------------------------------------------------------------------
(* Paths *)

Dot == [n |-> ".", wh |-> FALSE]
DotDot == [n |-> "..", wh |-> FALSE]

\* sanitize_path pushes the components one by one, "." excepted; <<>> where it
\* returns None.
Sanitize(e) ==
    LET out[j \in 0..Len(e.parts)] ==
            IF j = 0 THEN <<>>
            ELSE IF e.parts[j] = Dot THEN out[j - 1]
            ELSE Append(out[j - 1], e.parts[j])
    IN IF e.absolute \/ \E j \in DOMAIN e.parts : e.parts[j] = DotDot THEN <<>>
       ELSE out[Len(e.parts)]

IsWhiteout(p) == Last(p).wh
IsOpaque(p) == IsWhiteout(p) /\ Last(p).n = "opq"

\* What a whiteout names.
Victim(p) == Append(Front(p), [n |-> Last(p).n, wh |-> FALSE])

\* What can follow the prefix and is not the name of an entry.
NoName == {"", ".", ".."}

-----------------------------------------------------------------------------
(* Trees *)

Directory == [kind |-> "dir", by |-> 0, x |-> TRUE, meta |-> "raw"]
Node(e, j) ==
    IF e.kind = "dir" THEN Directory ELSE [kind |-> e.kind, by |-> j, x |-> e.x, meta |-> "raw"]

\* Faulty variant: only the path itself goes.
RemovedFlat(t, p) == Restrict(t, DOMAIN t \ {p})

\* remove_file and remove_dir_all; their errors are passed over.
Removed(t, p) == Restrict(t, {q \in DOMAIN t : ~IsPrefix(p, q)})

\* remove_dir_all of a path to d that ends in . or .., which cannot be removed itself.
Emptied(t, d) == Restrict(t, {q \in DOMAIN t : ~IsStrictPrefix(d, q)})

Is(t, p, kind) == p \in DOMAIN t /\ t[p].kind = kind

\* The tree after the whiteout p in directory d.  remove_dir_all alone fails on a
\* file, and any removal of "d/" on what is not a directory; ".wh..." is about the
\* directory above d, in which the destination itself is when d is the destination.
WhitedOut(t, p) ==
    LET d == Front(p) IN
    CASE IsOpaque(p)      -> IF Is(t, d, "file") THEN t ELSE Removed(t, d)
      [] Last(p).n = ""   -> IF Is(t, d, "dir") THEN Removed(t, d) ELSE t
      [] Last(p).n = "."  -> Emptied(t, d)
      [] Last(p).n = ".." -> IF ~Is(t, d, "dir") THEN t
                             ELSE IF d = <<>> THEN Removed(t, d) ELSE Emptied(t, Front(d))
      [] OTHER            -> Removed(t, Victim(p))

\* Entry::unpack_in of the tar crate: missing parents are made, a file is
\* replaced, and a file where a directory is meant (or the reverse) is an error.
CanUnpack(t, e, p) ==
    /\ <<>> \in DOMAIN t
    /\ \A q \in DOMAIN t : IsStrictPrefix(q, p) => t[q].kind = "dir"
    /\ p \in DOMAIN t => (t[p].kind = "dir" <=> e.kind = "dir")

Unpacked(t, e, p, j) ==
    [q \in DOMAIN t \cup Prefixes(p) |->
        IF q = p THEN Node(e, j) ELSE IF q \in DOMAIN t THEN t[q] ELSE Directory]

\* normalize_meta follows a symbolic link: the link itself keeps its times.
Canonical(node) == IF node.kind = "link" THEN node ELSE [node EXCEPT !.meta = "canonical"]

Children(t, d) == {q \in DOMAIN t : q # <<>> /\ Front(q) = d}

-----------------------------------------------------------------------------
(* flatten *)

Init ==
    /\ image \in Images /\ before \in Dests
    /\ tree = before
    /\ n = 1 /\ todo = {} /\ phase = "open"

\* The destination is made before the image is opened and its magic is read.
Open ==
    /\ phase = "open"
    /\ tree' = [q \in DOMAIN tree \cup {<<>>} |-> IF q \in DOMAIN tree THEN tree[q] ELSE Directory]
    /\ phase' = IF image.readable THEN "unpack" ELSE "failed"
    /\ UNCHANGED <<image, before, n, todo>>

Reading == phase = "unpack" /\ n <= Len(Entries)
Entry == Entries[n]
Path == Sanitize(Entry)

\* A path that is not safe.
SkipEntry ==
    /\ Reading /\ Entry.kind # "bad"
    /\ Path = <<>>
    /\ n' = n + 1
    /\ UNCHANGED <<image, before, tree, todo, phase>>

Whiteout ==
    /\ Reading /\ Entry.kind # "bad"
    /\ Path # <<>> /\ IsWhiteout(Path)
    /\ tree' = WhitedOut(tree, Path)
    /\ n' = n + 1
    /\ UNCHANGED <<image, before, todo, phase>>

UnpackEntry ==
    /\ Reading /\ Entry.kind # "bad"
    /\ Path # <<>> /\ ~IsWhiteout(Path)
    /\ IF CanUnpack(tree, Entry, Path)
       THEN tree' = Unpacked(tree, Entry, Path, n) /\ n' = n + 1 /\ UNCHANGED phase
       ELSE phase' = "failed" /\ UNCHANGED <<tree, n>>
    /\ UNCHANGED <<image, before, todo>>

\* A header that cannot be read is skipped, and is the last item of the
\* iterator; normalize_tree begins with the destination.
EndOfArchive ==
    /\ phase = "unpack"
    /\ n <= Len(Entries) => Entry.kind = "bad"
    /\ phase' = "normalize" /\ todo' = {<<>>}
    /\ UNCHANGED <<image, before, n, tree>>

\* Faulty variant: directories are not descended into.
PushedNone(t, d) == {}

Pushed(t, d) == {q \in Children(t, d) : t[q].kind = "dir"}

\* One directory of the stack; read_dir lists its entries in any order.
NormalizeDir ==
    /\ phase = "normalize"
    /\ \E d \in todo :
           IF d \in DOMAIN tree
           THEN /\ tree' = [q \in DOMAIN tree |->
                               IF q \in Children(tree, d) THEN Canonical(tree[q]) ELSE tree[q]]
                /\ todo' = (todo \ {d}) \cup Pushed(tree, d)
                /\ UNCHANGED phase
           ELSE phase' = "failed" /\ UNCHANGED <<tree, todo>>
    /\ UNCHANGED <<image, before, n>>

Finish ==
    /\ phase = "normalize" /\ todo = {}
    /\ phase' = "done"
    /\ UNCHANGED <<image, before, n, tree, todo>>

Rest == phase \in {"done", "failed"} /\ UNCHANGED vars

Next ==
    \/ Open \/ SkipEntry \/ Whiteout \/ UnpackEntry \/ EndOfArchive
    \/ NormalizeDir \/ Finish \/ Rest

Spec == Init /\ [][Next]_vars

-----------------------------------------------------------------------------
(* Properties *)

\* The entries up to the first that cannot be read, and what each says of p.
Read == {j \in DOMAIN Entries : \A h \in 1..j : Entries[h].kind # "bad"}
Writes(j, p) == LET s == Sanitize(Entries[j]) IN s # <<>> /\ ~IsWhiteout(s) /\ IsPrefix(p, s)
Fills(j, p) == Writes(j, p) /\ Sanitize(Entries[j]) = p
Clears(j, p) ==
    LET s == Sanitize(Entries[j]) IN s # <<>> /\ IsWhiteout(s) /\ IsOpaque(s) /\ p = Front(s)
Strikes(j, p) ==
    LET s == Sanitize(Entries[j])
    IN  /\ s # <<>> /\ IsWhiteout(s)
        /\ IF IsOpaque(s) THEN IsStrictPrefix(Front(s), p) ELSE IsPrefix(Victim(s), p)

\* The entries before j have left a file at p.
FileBefore(j, p) ==
    \/ \E i \in 1..(j - 1) : /\ Fills(i, p) /\ Entries[i].kind = "file"
                             /\ \A h \in (i + 1)..(j - 1) : ~Fills(h, p) /\ ~Strikes(h, p)
    \/ /\ p \in DOMAIN before /\ before[p].kind = "file"
       /\ \A h \in 1..(j - 1) : ~Fills(h, p) /\ ~Strikes(h, p)

\* An opaque marker takes the directory it is in, unless that is a file.
Deletes(j, p) == Strikes(j, p) \/ (Clears(j, p) /\ ~FileBefore(j, p))

\* Every whiteout is opaque or names something.
Named ==
    \A j \in Read :
        LET s == Sanitize(Entries[j]) IN s # <<>> /\ IsWhiteout(s) => Last(s).n \notin NoName

LastWord(p) == Max({0} \cup {j \in Read : Writes(j, p) \/ Deletes(j, p)})
Remains(p) == IF LastWord(p) = 0 THEN p \in DOMAIN before \cup {<<>>} ELSE Writes(LastWord(p), p)

\* The entry that filled p, the last that names p itself and follows every
\* deletion of it.
Source(p) ==
    Max({0} \cup {j \in Read : /\ Sanitize(Entries[j]) = p /\ Writes(j, p)
                               /\ \A h \in Read : Deletes(h, p) => h < j})

\* "Entries are streamed in archive order so that Docker whiteouts keep their
\* semantics", "Existing contents of `dest` are preserved" (flatten): where it
\* succeeds, and no whiteout is for "", "." or "..", every path is as the last
\* entry that concerns it says, whatever came before, and what no entry concerns
\* is as it was.
LastEntryDecides ==
    phase = "done" /\ Named =>
        LET paths == DOMAIN before \cup UNION {Prefixes(Sanitize(Entries[j])) : j \in DOMAIN Entries}
        IN /\ DOMAIN tree = {p \in paths \cup {<<>>} : Remains(p)}
           /\ \A p \in DOMAIN tree :
                  [tree[p] EXCEPT !.meta = "raw"] =
                      IF Source(p) # 0 THEN Node(Entries[Source(p)], Source(p))
                      ELSE IF p \in DOMAIN before /\ (\A j \in Read : ~Deletes(j, p)) THEN before[p]
                      ELSE Directory

\* "normalize_tree then canonicalizes all metadata so the result is
\* byte-reproducible regardless of the archive's own timestamps": no file or
\* directory below the destination keeps metadata of the archive, or what the
\* destination had.
Reproducible ==
    phase = "done" =>
        \A p \in DOMAIN tree \ {<<>>} : tree[p].kind # "link" => tree[p].meta = "canonical"

-----------------------------------------------------------------------------
(* The inductive invariant behind them *)

\* Whether p is there after the first m entries, and which of them filled it.
Present(m, p) ==
    \/ \E j \in 1..m : Writes(j, p) /\ \A h \in (j + 1)..m : ~Deletes(h, p)
    \/ p \in DOMAIN before \cup {<<>>} /\ \A h \in 1..m : ~Deletes(h, p)
FilledBy(m, p, j) == Fills(j, p) /\ \A h \in (j + 1)..m : ~Fills(h, p) /\ ~Deletes(h, p)

Holds(m, p, node) ==
    \/ \E j \in 1..m : FilledBy(m, p, j) /\ node = Node(Entries[j], j)
    \/ /\ \A j \in 1..m : ~FilledBy(m, p, j)
       /\ node = IF p \in DOMAIN before /\ (\A h \in 1..m : ~Deletes(h, p)) THEN before[p]
                 ELSE Directory

Raw(node) == [node EXCEPT !.meta = "raw"]

Concerned == DOMAIN before \cup {<<>>} \cup UNION {Prefixes(Sanitize(Entries[j])) : j \in DOMAIN Entries}

\* The tree is what the first m entries make of the destination.
Result(m) ==
    /\ DOMAIN tree = {p \in Concerned : Present(m, p)}
    /\ \A p \in DOMAIN tree : Holds(m, p, Raw(tree[p]))

\* What is yet to be normalised is in or below a directory on the stack.
Reachable ==
    \A p \in DOMAIN tree \ {<<>>} :
        tree[p].kind = "link" \/ tree[p].meta = "canonical" \/ \E d \in todo : IsStrictPrefix(d, p)

\* Type correctness, and the progress each phase of flatten has made.
IInv ==
    /\ image \in Images /\ before \in Dests
    /\ n \in 1..(Len(Entries) + 1)
    /\ IsTree(tree) /\ tree \in [DOMAIN tree -> NodeType]
    /\ todo \subseteq Seq(Names)
    /\ phase \in {"open", "unpack", "normalize", "done", "failed"}
    /\ phase = "open" => tree = before /\ n = 1
    /\ phase \in {"unpack", "normalize", "done"} =>
          (Named => Result(n - 1)) /\ 1..(n - 1) \subseteq Read
    /\ phase \in {"normalize", "done"} => Reachable /\ Read = 1..(n - 1)
    /\ phase = "done" => todo = {}

-----------------------------------------------------------------------------
(* What documentation says of it *)

\* DOCS.md: "Every file gets mtime `0`."
EveryFileNormalized ==
    phase = "done" => \A p \in DOMAIN tree \ {<<>>} : tree[p].meta = "canonical"

\* image.rs: "`.wh..wh..opq` clears a directory": the directory itself stays.
OpaqueKeepsDirectory ==
    [][\A p \in DOMAIN tree :
          (Whiteout /\ IsOpaque(Path) /\ p = Front(Path)) => p \in DOMAIN tree']_vars

\* A flatten that reports success has read the whole archive.
SuccessIsComplete == phase = "done" => n > Len(Entries)
=============================================================================

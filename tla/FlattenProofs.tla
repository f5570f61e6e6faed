--------------------------- MODULE FlattenProofs ---------------------------
(***************************************************************************)
(* Proofs about Flatten.tla, for every archive and every destination: the  *)
(* inductive invariant IInv, and from it that the last entry that concerns *)
(* a path decides what is there and that all metadata is normalised.       *)
(***************************************************************************)
EXTENDS Flatten, SequenceFacts

-----------------------------------------------------------------------------
(* Paths and trees *)

\* The loop of sanitize_path yields a path.
LEMMA SanitizeType ==
    ASSUME NEW e \in EntryType
    PROVE  Sanitize(e) \in Seq(Names)
  <1> DEFINE s == e.parts
             Step(f, j) == IF j = 0 THEN <<>>
                           ELSE IF s[j] = Dot THEN f[j - 1] ELSE Append(f[j - 1], s[j])
             Solves(f, m) == f = [j \in 0..m |-> Step(f, j)]
             M == {m \in Nat : \E f : Solves(f, m)}
             out == CHOOSE f : Solves(f, Len(s))
  <1>0. s \in Seq(Names) /\ Len(s) \in Nat
    BY DEF EntryType
  <1>1. 0 \in M
    <2> DEFINE f == [j \in 0..0 |-> <<>>]
    <2>1. Solves(f, 0)
      OBVIOUS
    <2> QED
      BY <2>1
  <1>2. ASSUME NEW m \in Nat, m \in M PROVE m + 1 \in M
    <2>1. PICK f : Solves(f, m)
      BY <1>2
    <2> DEFINE g == [j \in 0..(m + 1) |-> IF j <= m THEN f[j] ELSE Step(f, j)]
    <2>2. ASSUME NEW j \in 0..(m + 1) PROVE g[j] = Step(g, j)
      <3>1. CASE j = 0
        <4>1. g[j] = f[0] /\ f[0] = <<>>
          BY <2>1, <3>1
        <4> QED
          BY <3>1, <4>1
      <3>2. CASE j # 0
        <4>1. j - 1 \in 0..m /\ j - 1 \in 0..(m + 1) /\ j - 1 <= m
          BY <3>2
        <4>2. g[j - 1] = f[j - 1]
          BY <4>1
        <4>3. Step(g, j) = Step(f, j)
          BY <3>2, <4>2
        <4>4. g[j] = Step(f, j)
          <5>1. CASE j <= m
            <6>1. g[j] = f[j] /\ j \in 0..m
              BY <5>1
            <6>2. f[j] = Step(f, j)
              BY <2>1, <6>1
            <6> QED
              BY <6>1, <6>2
          <5>2. CASE ~(j <= m)
            BY <5>2
          <5> QED
            BY <5>1, <5>2
        <4> QED
          BY <4>3, <4>4
      <3> QED
        BY <3>1, <3>2
    <2>3. Solves(g, m + 1)
      <3>1. g = [j \in 0..(m + 1) |-> g[j]]
        OBVIOUS
      <3> HIDE DEF g, Step
      <3> QED
        BY <2>2, <3>1
    <2>4. m + 1 \in Nat
      OBVIOUS
    <2> HIDE DEF g, Solves
    <2> QED
      BY <2>3, <2>4
  <1>3. \E f : Solves(f, Len(s))
    <2> HIDE DEF M
    <2>1. \A j \in 0..Len(s) : j \in M
      BY <1>0, <1>1, <1>2, InductionUpTo
    <2>2. Len(s) \in M
      BY <1>0, <2>1
    <2> QED
      BY <2>2 DEF M
  <1>4. Solves(out, Len(s))
    BY <1>3, Zenon
  <1>5. \A j \in 0..Len(s) : out[j] = Step(out, j)
    <2> HIDE DEF out
    <2> QED
      BY <1>4
  <1> HIDE DEF out
  <1>6. \A j \in 0..Len(s) : out[j] \in Seq(Names)
    <2> DEFINE O == {j \in 0..Len(s) : out[j] \in Seq(Names)}
    <2>1. 0 \in O
      <3>1. 0 \in 0..Len(s) /\ <<>> \in Seq(Names)
        BY <1>0
      <3>2. out[0] = Step(out, 0)
        BY <1>5, <3>1
      <3> QED
        BY <3>1, <3>2
    <2>2. ASSUME NEW j \in Nat, j < Len(s), j \in O PROVE j + 1 \in O
      <3>1. j + 1 \in 0..Len(s) /\ j + 1 # 0 /\ (j + 1) - 1 = j /\ out[j] \in Seq(Names)
        BY <1>0, <2>2
      <3>2. out[j + 1] = IF s[j + 1] = Dot THEN out[j] ELSE Append(out[j], s[j + 1])
        BY <1>5, <3>1
      <3>3. s[j + 1] \in Names
        BY <1>0, <2>2
      <3>4. Append(out[j], s[j + 1]) \in Seq(Names)
        BY <3>1, <3>3
      <3>5. out[j + 1] \in Seq(Names)
        BY <3>1, <3>2, <3>4
      <3> QED
        BY <3>1, <3>5
    <2> HIDE DEF O
    <2>3. \A j \in 0..Len(s) : j \in O
      BY <1>0, <2>1, <2>2, InductionUpTo
    <2> QED
      BY <2>3 DEF O
  <1>7. out[Len(s)] \in Seq(Names) /\ <<>> \in Seq(Names)
    BY <1>0, <1>6
  <1> QED
    BY <1>7, Zenon DEF Sanitize, out

\* What a whiteout removes is a path.
LEMMA VictimType ==
    ASSUME NEW p \in Seq(Names), p # <<>>
    PROVE  Victim(p) \in Seq(Names)
  <1>1. Front(p) \in Seq(Names)
    BY FrontPrefix
  <1>2. Last(p) \in Names
    BY DEF Last
  <1>3. [n |-> Last(p).n, wh |-> FALSE] \in Names
    BY <1>2 DEF Names
  <1> QED
    BY <1>1, <1>3 DEF Victim

\* In a tree, what is above an existing path exists and is a directory.
LEMMA TreeAbove ==
    ASSUME NEW t, IsTree(t), NEW p \in DOMAIN t, NEW q \in Seq(Names), IsPrefix(q, p)
    PROVE  q \in DOMAIN t /\ (q # p => t[q].kind = "dir")
  <1>1. p \in Seq(Names)
    BY DEF IsTree
  <1>2. q \in Prefixes(p)
    BY <1>1, PrefixesDef
  <1> QED
    BY <1>2 DEF IsTree

\* ... and a function on paths for which that holds is a tree.
LEMMA TreeIntro ==
    ASSUME NEW t, DOMAIN t \subseteq Seq(Names),
           \A p \in DOMAIN t : \A q \in Seq(Names) :
               IsPrefix(q, p) => q \in DOMAIN t /\ (q # p => t[q].kind = "dir")
    PROVE  IsTree(t)
  <1>1. ASSUME NEW p \in DOMAIN t, NEW q \in Prefixes(p)
        PROVE  q \in DOMAIN t /\ (q # p => t[q].kind = "dir")
    <2>1. p \in Seq(Names)
      OBVIOUS
    <2>2. q \in Seq(Names) /\ IsPrefix(q, p)
      BY <2>1, PrefixesDef
    <2> QED
      BY <2>2
  <1> QED
    BY <1>1 DEF IsTree

\* r is what is left of the tree t.
IsLeft(r, t) ==
    /\ IsTree(r) /\ r \in [DOMAIN r -> NodeType]
    /\ DOMAIN r \subseteq DOMAIN t
    /\ \A p \in DOMAIN r : r[p] = t[p]

\* remove_dir_all leaves a tree.
LEMMA RemovedTree ==
    ASSUME NEW t, IsTree(t), t \in [DOMAIN t -> NodeType], NEW v \in Seq(Names)
    PROVE  LET r == Removed(t, v)
           IN IsLeft(r, t) /\ DOMAIN r = {p \in DOMAIN t : ~IsPrefix(v, p)}
  <1> DEFINE r == Removed(t, v)
             D == {p \in DOMAIN t : ~IsPrefix(v, p)}
  <1>1. r = [p \in D |-> t[p]]
    BY DEF Removed, Restrict
  <1>2. DOMAIN r = D /\ \A p \in D : r[p] = t[p]
    BY <1>1
  <1>3. r \in [DOMAIN r -> NodeType]
    BY <1>1
  <1> HIDE DEF r
  <1>4. ASSUME NEW p \in DOMAIN r, NEW q \in Seq(Names), IsPrefix(q, p)
        PROVE  q \in DOMAIN r /\ (q # p => r[q].kind = "dir")
    <2>1. p \in DOMAIN t /\ p \in Seq(Names) /\ ~IsPrefix(v, p)
      BY <1>2 DEF IsTree
    <2>2. q \in DOMAIN t /\ (q # p => t[q].kind = "dir")
      BY <1>4, <2>1, TreeAbove
    <2>3. ~IsPrefix(v, q)
      BY <1>4, <2>1, PrefixOrder
    <2> QED
      BY <1>2, <2>2, <2>3
  <1>5. DOMAIN r \subseteq Seq(Names)
    BY <1>2 DEF IsTree
  <1>6. IsTree(r)
    BY <1>4, <1>5, TreeIntro
  <1> QED
    BY <1>2, <1>3, <1>6 DEF r, IsLeft

\* ... and so does what it does to a directory it cannot remove.
LEMMA EmptiedTree ==
    ASSUME NEW t, IsTree(t), t \in [DOMAIN t -> NodeType], NEW v \in Seq(Names)
    PROVE  IsLeft(Emptied(t, v), t)
  <1> DEFINE r == Emptied(t, v)
             D == {p \in DOMAIN t : ~IsStrictPrefix(v, p)}
  <1>1. r = [p \in D |-> t[p]]
    BY DEF Emptied, Restrict
  <1>2. DOMAIN r = D /\ (\A p \in D : r[p] = t[p]) /\ r \in [DOMAIN r -> NodeType]
    BY <1>1
  <1> HIDE DEF r
  <1>3. ASSUME NEW p \in DOMAIN r, NEW q \in Seq(Names), IsPrefix(q, p)
        PROVE  q \in DOMAIN r /\ (q # p => r[q].kind = "dir")
    <2>1. p \in DOMAIN t /\ p \in Seq(Names) /\ ~IsStrictPrefix(v, p)
      BY <1>2 DEF IsTree
    <2>2. q \in DOMAIN t /\ (q # p => t[q].kind = "dir")
      BY <1>3, <2>1, TreeAbove
    <2>3. ASSUME IsPrefix(v, q), v # q PROVE FALSE
      <3>1. IsPrefix(v, p)
        BY <1>3, <2>1, <2>3, PrefixOrder
      <3>2. v = p
        BY <2>1, <3>1 DEF IsStrictPrefix
      <3>3. v = q
        BY <1>3, <2>1, <2>3, <3>2, PrefixOrder
      <3> QED
        BY <2>3, <3>3
    <2> QED
      BY <1>2, <2>2, <2>3 DEF IsStrictPrefix
  <1>4. DOMAIN r \subseteq Seq(Names)
    BY <1>2 DEF IsTree
  <1>5. IsTree(r)
    BY <1>3, <1>4, TreeIntro
  <1> QED
    BY <1>2, <1>5 DEF r, IsLeft

\* Whatever a whiteout is for, it leaves a tree.
LEMMA WhitedOutTree ==
    ASSUME NEW t, IsTree(t), t \in [DOMAIN t -> NodeType], NEW p \in Seq(Names), p # <<>>
    PROVE  IsLeft(WhitedOut(t, p), t)
  <1>1. Front(p) \in Seq(Names) /\ Victim(p) \in Seq(Names)
    BY FrontPrefix, VictimType
  <1>2. Front(p) # <<>> => Front(Front(p)) \in Seq(Names)
    BY <1>1, FrontPrefix
  <1>3. IsLeft(t, t)
    BY DEF IsLeft
  <1>4. \A v \in Seq(Names) : IsLeft(Removed(t, v), t) /\ IsLeft(Emptied(t, v), t)
    BY RemovedTree, EmptiedTree
  <1> QED
    BY <1>1, <1>2, <1>3, <1>4, Zenon DEF WhitedOut

\* What unpacking e at p as the j-th entry makes of the tree t.
IsUnpacked(u, t, e, p, j) ==
    /\ IsTree(u) /\ u \in [DOMAIN u -> NodeType]
    /\ DOMAIN u = DOMAIN t \cup {q \in Seq(Names) : IsPrefix(q, p)}
    /\ u[p] = Node(e, j)
    /\ \A q \in DOMAIN u \ {p} : u[q] = IF q \in DOMAIN t THEN t[q] ELSE Directory

\* An entry that can be unpacked leaves a tree: what was there, p and what is
\* missing above it.
LEMMA UnpackedTree ==
    ASSUME NEW t, NEW p \in Seq(Names), NEW e \in EntryType, NEW j \in Nat, NEW u,
           IsTree(t), t \in [DOMAIN t -> NodeType], e.kind # "bad", CanUnpack(t, e, p),
           u = Unpacked(t, e, p, j)
    PROVE  IsUnpacked(u, t, e, p, j)
  <1> DEFINE D == DOMAIN t \cup {q \in Seq(Names) : IsPrefix(q, p)}
             Val(q) == IF q = p THEN Node(e, j) ELSE IF q \in DOMAIN t THEN t[q] ELSE Directory
  <1>0. DOMAIN t \subseteq Seq(Names) /\ IsPrefix(p, p)
    BY PrefixOrder DEF IsTree
  <1>1. D = DOMAIN t \cup Prefixes(p)
    BY PrefixesDef
  <1>2. u = [q \in D |-> Val(q)]
    BY <1>1 DEF Unpacked
  <1>3. /\ Directory \in NodeType /\ Directory.kind = "dir"
        /\ Node(e, j) \in NodeType /\ (Node(e, j).kind = "dir" <=> e.kind = "dir")
    BY DEF Directory, NodeType, Node, EntryType
  <1>4. \A q \in D : Val(q) \in NodeType
    BY <1>3
  <1>5. DOMAIN u = D /\ (\A q \in D : u[q] = Val(q)) /\ u \in [DOMAIN u -> NodeType]
    <2> HIDE DEF Val, D
    <2> QED
      BY <1>2, <1>4
  <1>6. ASSUME NEW q \in DOMAIN u, NEW r \in Seq(Names), IsPrefix(r, q)
        PROVE  r \in DOMAIN u /\ (r # q => u[r].kind = "dir")
    <2>0. q \in Seq(Names)
      BY <1>0, <1>5
    <2>1. r \in DOMAIN u
      <3>1. CASE q \in DOMAIN t
        BY <1>5, <1>6, <3>1, TreeAbove
      <3>2. CASE IsPrefix(q, p)
        <4>1. IsPrefix(r, p)
          BY <1>6, <2>0, <3>2, PrefixOrder
        <4> QED
          BY <1>5, <4>1
      <3> QED
        BY <1>5, <3>1, <3>2
    <2>2. ASSUME r # q PROVE u[r].kind = "dir"
      <3>1. CASE r = p
        <4>1. ~IsPrefix(q, p)
          BY <1>6, <2>0, <2>2, <3>1, PrefixOrder
        <4>2. q \in DOMAIN t
          BY <1>5, <4>1
        <4>3. r \in DOMAIN t /\ t[r].kind = "dir"
          BY <1>6, <2>2, <4>2, TreeAbove
        <4>4. e.kind = "dir"
          BY <3>1, <4>3 DEF CanUnpack
        <4>5. u[r] = Node(e, j)
          BY <1>5, <2>1, <3>1
        <4> QED
          BY <1>3, <4>4, <4>5
      <3>2. CASE r # p /\ r \in DOMAIN t
        <4>1. t[r].kind = "dir"
          <5>1. CASE q \in DOMAIN t
            BY <1>6, <2>2, <5>1, TreeAbove
          <5>2. CASE IsPrefix(q, p)
            <6>1. IsPrefix(r, p)
              BY <1>6, <2>0, <5>2, PrefixOrder
            <6>2. IsStrictPrefix(r, p)
              BY <3>2, <6>1 DEF IsStrictPrefix
            <6> QED
              BY <3>2, <6>2 DEF CanUnpack
          <5> QED
            BY <1>5, <5>1, <5>2
        <4>2. u[r] = t[r]
          BY <1>5, <2>1, <3>2
        <4> QED
          BY <4>1, <4>2
      <3>3. CASE r # p /\ r \notin DOMAIN t
        <4>1. u[r] = Directory
          BY <1>5, <2>1, <3>3
        <4> QED
          BY <1>3, <4>1
      <3> QED
        BY <3>1, <3>2, <3>3
    <2> QED
      BY <2>1, <2>2
  <1>7. DOMAIN u \subseteq Seq(Names)
    BY <1>0, <1>5
  <1>8. IsTree(u)
    BY <1>6, <1>7, TreeIntro
  <1>9. p \in D /\ u[p] = Node(e, j)
    BY <1>0, <1>5
  <1>10. \A q \in DOMAIN u \ {p} : u[q] = IF q \in DOMAIN t THEN t[q] ELSE Directory
    BY <1>5
  <1> QED
    BY <1>5, <1>8, <1>9, <1>10 DEF IsUnpacked

-----------------------------------------------------------------------------
(* What the entries read so far make of a path *)

\* An entry does not both write and delete.
LEMMA WritesOrDeletes ==
    ASSUME NEW j, NEW p
    PROVE  ~(Writes(j, p) /\ Deletes(j, p)) /\ (Fills(j, p) => Writes(j, p))
  BY DEF Writes, Deletes, Fills, Strikes, Clears

\* If an entry fills p, one of them is the last that does.
LEMMA LastFill ==
    ASSUME NEW m \in Nat, NEW p, NEW h \in 1..m, Fills(h, p)
    PROVE  \E j \in 1..m : Fills(j, p) /\ \A g \in (j + 1)..m : ~Fills(g, p)
  <1> DEFINE S == {j \in 1..m : Fills(j, p)}
  <1>1. S \in SUBSET Int /\ m \in Int /\ S # {} /\ \A x \in S : 0 <= x /\ x <= m
    OBVIOUS
  <1>2. PICK j : j = Max(S)
    OBVIOUS
  <1>3. j \in S /\ \A y \in S : y <= j
    <2> HIDE DEF S
    <2> QED
      BY <1>1, <1>2, MaxOf, Zenon
  <1>4. ASSUME NEW g \in (j + 1)..m, Fills(g, p) PROVE FALSE
    <2>1. j \in 1..m
      BY <1>3
    <2>2. g \in S
      BY <1>4, <2>1
    <2>3. g <= j
      BY <1>3, <2>2
    <2> QED
      BY <2>1, <2>3
  <1> QED
    BY <1>3, <1>4

\* Where the first m entries leave a node, it is a file exactly if FileBefore
\* says so.
LEMMA FileIsFileBefore ==
    ASSUME NEW m \in Nat, NEW p, NEW node, Holds(m, p, node)
    PROVE  node.kind = "file" <=> FileBefore(m + 1, p)
  <1>0. (m + 1) - 1 = m
    OBVIOUS
  <1>k. \A j : Node(Entries[j], j).kind = Entries[j].kind
    BY DEF Node, Directory
  <1>d. Directory.kind = "dir"
    BY DEF Directory
  <1>1. ASSUME NEW j \in 1..m, FilledBy(m, p, j), node = Node(Entries[j], j), node.kind = "file"
        PROVE  FileBefore(m + 1, p)
    <2>1. Fills(j, p) /\ Entries[j].kind = "file"
      BY <1>1, <1>k DEF FilledBy
    <2>2. \A h \in (j + 1)..m : ~Fills(h, p) /\ ~Strikes(h, p)
      BY <1>1 DEF FilledBy, Deletes
    <2> QED
      BY <1>0, <2>1, <2>2 DEF FileBefore
  <1>2. ASSUME \A j \in 1..m : ~FilledBy(m, p, j), p \in DOMAIN before,
               \A h \in 1..m : ~Deletes(h, p), before[p].kind = "file"
        PROVE  FileBefore(m + 1, p)
    <2>1. ASSUME NEW h \in 1..m, Fills(h, p) PROVE FALSE
      <3>1. PICK j \in 1..m : Fills(j, p) /\ \A g \in (j + 1)..m : ~Fills(g, p)
        BY <2>1, LastFill
      <3>2. (j + 1)..m \subseteq 1..m
        OBVIOUS
      <3>3. FilledBy(m, p, j)
        BY <1>2, <3>1, <3>2 DEF FilledBy
      <3> QED
        BY <1>2, <3>3
    <2> QED
      BY <1>0, <1>2, <2>1 DEF FileBefore, Deletes
  <1>3. ASSUME NEW i \in 1..m, Fills(i, p), Entries[i].kind = "file",
               \A h \in (i + 1)..m : ~Fills(h, p) /\ ~Strikes(h, p)
        PROVE  node.kind = "file"
    <2>1. ASSUME NEW h \in (i + 1)..m PROVE ~Deletes(h, p)
      <3>1. i \in 1..(h - 1) /\ (i + 1)..(h - 1) \subseteq (i + 1)..m
        OBVIOUS
      <3>2. FileBefore(h, p)
        BY <1>3, <3>1 DEF FileBefore
      <3> QED
        BY <1>3, <3>2 DEF Deletes
    <2>2. FilledBy(m, p, i)
      BY <1>3, <2>1 DEF FilledBy
    <2>3. PICK j \in 1..m : FilledBy(m, p, j) /\ node = Node(Entries[j], j)
      BY <2>2 DEF Holds
    <2>4. j = i
      <3>1. ~(j \in (i + 1)..m) /\ ~(i \in (j + 1)..m)
        BY <2>2, <2>3 DEF FilledBy
      <3> QED
        BY <3>1
    <2> QED
      BY <1>3, <1>k, <2>3, <2>4
  <1>4. ASSUME p \in DOMAIN before, before[p].kind = "file",
               \A h \in 1..m : ~Fills(h, p) /\ ~Strikes(h, p)
        PROVE  node.kind = "file"
    <2>1. ASSUME NEW h \in 1..m PROVE ~Deletes(h, p)
      <3>1. 1..(h - 1) \subseteq 1..m
        OBVIOUS
      <3>2. FileBefore(h, p)
        BY <1>4, <3>1 DEF FileBefore
      <3> QED
        BY <1>4, <3>2 DEF Deletes
    <2>2. \A j \in 1..m : ~FilledBy(m, p, j)
      BY <1>4 DEF FilledBy
    <2> QED
      BY <1>4, <2>1, <2>2 DEF Holds
  <1>5. ASSUME FileBefore(m + 1, p) PROVE node.kind = "file"
    BY <1>0, <1>3, <1>4, <1>5 DEF FileBefore
  <1>6. ASSUME node.kind = "file" PROVE FileBefore(m + 1, p)
    BY <1>1, <1>2, <1>6, <1>d DEF Holds
  <1> QED
    BY <1>5, <1>6

\* One more entry: a path is there if the entry writes it, or if it was there
\* and the entry does not delete it.
LEMMA PresentStep ==
    ASSUME NEW m \in Nat, NEW p
    PROVE  Present(m + 1, p) <=> Writes(m + 1, p) \/ (Present(m, p) /\ ~Deletes(m + 1, p))
  <1>0. 1..(m + 1) = 1..m \cup {m + 1}
    OBVIOUS
  <1>1. \A j \in 1..m : (j + 1)..(m + 1) = (j + 1)..m \cup {m + 1}
    OBVIOUS
  <1>2. (m + 1 + 1)..(m + 1) = {}
    OBVIOUS
  <1>3. ASSUME Writes(m + 1, p) PROVE Present(m + 1, p)
    BY <1>0, <1>2, <1>3 DEF Present
  <1>4. ASSUME Present(m, p), ~Deletes(m + 1, p) PROVE Present(m + 1, p)
    BY <1>0, <1>1, <1>4 DEF Present
  <1>5. ASSUME Present(m + 1, p) PROVE Writes(m + 1, p) \/ (Present(m, p) /\ ~Deletes(m + 1, p))
    BY <1>0, <1>1, <1>5 DEF Present
  <1> QED
    BY <1>3, <1>4, <1>5

\* What fills a path stays what it holds until it is filled again or deleted.
LEMMA HoldsStep ==
    ASSUME NEW m \in Nat, NEW p, NEW node, Holds(m, p, node),
           ~Fills(m + 1, p), ~Deletes(m + 1, p)
    PROVE  Holds(m + 1, p, node)
  <1>0. 1..(m + 1) = 1..m \cup {m + 1}
    OBVIOUS
  <1>1. \A j \in 1..m : (j + 1)..(m + 1) = (j + 1)..m \cup {m + 1}
    OBVIOUS
  <1>2. \A j \in 1..m : FilledBy(m + 1, p, j) <=> FilledBy(m, p, j)
    BY <1>1 DEF FilledBy
  <1>3. ~FilledBy(m + 1, p, m + 1)
    BY DEF FilledBy
  <1>4. (\A h \in 1..(m + 1) : ~Deletes(h, p)) <=> (\A h \in 1..m : ~Deletes(h, p))
    BY <1>0
  <1> QED
    BY <1>0, <1>2, <1>3, <1>4 DEF Holds

\* An entry that fills a path decides what it holds.
LEMMA HoldsFilled ==
    ASSUME NEW m \in Nat, NEW p, Fills(m + 1, p)
    PROVE  Holds(m + 1, p, Node(Entries[m + 1], m + 1))
  <1>1. m + 1 \in 1..(m + 1) /\ (m + 1 + 1)..(m + 1) = {}
    OBVIOUS
  <1>2. FilledBy(m + 1, p, m + 1)
    BY <1>1 DEF FilledBy
  <1> QED
    BY <1>1, <1>2 DEF Holds

\* A path that was not there and that the entry lies below is a directory.
LEMMA HoldsMade ==
    ASSUME NEW m \in Nat, NEW p, ~Present(m, p), ~Fills(m + 1, p), ~Deletes(m + 1, p)
    PROVE  Holds(m + 1, p, Directory)
  <1>1. \A j \in 1..m : ~FilledBy(m, p, j)
    BY WritesOrDeletes DEF Present, FilledBy
  <1>2. ~(p \in DOMAIN before /\ \A h \in 1..m : ~Deletes(h, p))
    BY DEF Present
  <1>3. Holds(m, p, Directory)
    BY <1>1, <1>2 DEF Holds
  <1> QED
    BY <1>3, HoldsStep

\* The archive and the old tree stay, and with them what was read so far means.
LEMMA SameArchive ==
    ASSUME image' = image, before' = before
    PROVE  /\ Entries' = Entries /\ Concerned' = Concerned /\ Read' = Read /\ Named' = Named
           /\ \A m, p : Present(m, p)' <=> Present(m, p)
           /\ \A m, p, node : Holds(m, p, node)' <=> Holds(m, p, node)
  <1>1. Entries' = Entries
    BY DEF Entries
  <1>2. Concerned' = Concerned /\ Read' = Read
    BY <1>1 DEF Concerned, Read
  <1>n. Named' = Named
    BY <1>1, <1>2 DEF Named
  <1>s. \A j, p : /\ (Writes(j, p)' <=> Writes(j, p)) /\ (Fills(j, p)' <=> Fills(j, p))
                  /\ (Strikes(j, p)' <=> Strikes(j, p)) /\ (Clears(j, p)' <=> Clears(j, p))
    BY <1>1 DEF Writes, Fills, Strikes, Clears
  <1>f. \A j, p : FileBefore(j, p)' <=> FileBefore(j, p)
    BY <1>1, <1>s DEF FileBefore
  <1>3. \A j, p : (Writes(j, p)' <=> Writes(j, p)) /\ (Deletes(j, p)' <=> Deletes(j, p))
                  /\ (Fills(j, p)' <=> Fills(j, p))
    BY <1>s, <1>f DEF Deletes
  <1>4. \A m, p : Present(m, p)' <=> Present(m, p)
    BY <1>3 DEF Present
  <1>5. \A m, p, j : FilledBy(m, p, j)' <=> FilledBy(m, p, j)
    BY <1>3 DEF FilledBy
  <1>6. \A m, p, node : Holds(m, p, node)' <=> Holds(m, p, node)
    BY <1>1, <1>3, <1>5 DEF Holds
  <1> QED
    BY <1>1, <1>2, <1>n, <1>4, <1>6

\* ... so the result of the entries can be told from the new tree alone.
LEMMA ResultIntro ==
    ASSUME image' = image, before' = before, NEW m \in Nat, n' - 1 = m,
           DOMAIN tree' = {p \in Concerned : Present(m, p)},
           \A p \in DOMAIN tree' : Holds(m, p, Raw(tree'[p]))
    PROVE  Result(n - 1)'
  BY SameArchive DEF Result, Raw

-----------------------------------------------------------------------------
(* The invariant, action by action *)

\* The destination as it was found.
LEMMA InitIInv == Init => IInv
  <1> SUFFICES ASSUME Init PROVE IInv
    OBVIOUS
  <1>1. image \in Images /\ before \in Dests /\ tree = before
    BY DEF Init
  <1>2. Entries \in Seq(EntryType)
    BY <1>1, ImagesAssumption DEF Entries
  <1>3. n \in 1..(Len(Entries) + 1)
    BY <1>2 DEF Init
  <1>4. IsTree(tree) /\ tree \in [DOMAIN tree -> NodeType]
    BY <1>1, DestsAssumption
  <1> QED
    BY <1>1, <1>3, <1>4 DEF Init, IInv

\* What IInv says of the archive.
LEMMA ArchiveFacts ==
    ASSUME IInv
    PROVE  /\ Entries \in Seq(EntryType) /\ Len(Entries) \in Nat /\ DOMAIN Entries = 1..Len(Entries)
           /\ \A j \in DOMAIN Entries : Entries[j] \in EntryType /\ Sanitize(Entries[j]) \in Seq(Names)
           /\ n \in Nat /\ n - 1 \in Nat /\ (n - 1) + 1 = n
  <1>1. Entries \in Seq(EntryType)
    BY ImagesAssumption DEF IInv, Entries
  <1>2. \A j \in DOMAIN Entries : Entries[j] \in EntryType
    BY <1>1
  <1> QED
    BY <1>1, <1>2, SanitizeType DEF IInv

\* Making the destination adds at most the destination itself.
LEMMA OpenIInv == IInv /\ Open => IInv'
  <1> SUFFICES ASSUME IInv, Open PROVE IInv'
    OBVIOUS
  <1> DEFINE D == DOMAIN tree \cup {<<>>}
             Val(q) == IF q \in DOMAIN tree THEN tree[q] ELSE Directory
  <1>0. /\ tree = before /\ n = 1 /\ IsTree(tree) /\ tree \in [DOMAIN tree -> NodeType]
        /\ image' = image /\ before' = before /\ n' = n /\ todo' = todo
        /\ phase' \in {"unpack", "failed"}
        /\ tree' = [q \in D |-> Val(q)]
    BY DEF IInv, Open
  <1>1. Directory \in NodeType /\ Directory.meta = "raw"
    BY DEF Directory, NodeType
  <1>2. DOMAIN tree' = D /\ (\A q \in D : tree'[q] = Val(q)) /\ tree' \in [DOMAIN tree' -> NodeType]
    <2>1. \A q \in D : Val(q) \in NodeType
      BY <1>0, <1>1
    <2> HIDE DEF Val, D
    <2> QED
      BY <1>0, <2>1
  <1>3. IsTree(tree')
    <2>0. <<>> \in Seq(Names)
      OBVIOUS
    <2>1. D \subseteq Seq(Names)
      BY <1>0, <2>0 DEF IsTree
    <2>2. ASSUME NEW p \in DOMAIN tree', NEW q \in Seq(Names), IsPrefix(q, p)
          PROVE  q \in DOMAIN tree' /\ (q # p => tree'[q].kind = "dir")
      <3>1. CASE p \in DOMAIN tree
        <4>1. q \in DOMAIN tree /\ (q # p => tree[q].kind = "dir")
          BY <1>0, <2>2, <3>1, TreeAbove
        <4> QED
          BY <1>2, <4>1
      <3>2. CASE p = <<>>
        <4>1. IsPrefix(p, q) /\ p \in Seq(Names)
          BY <2>0, <3>2, PrefixOrder
        <4>2. q = p
          BY <2>2, <4>1, PrefixOrder
        <4> QED
          BY <2>2, <4>2
      <3> QED
        BY <1>2, <3>1, <3>2
    <2> HIDE DEF D, Val
    <2> QED
      BY <1>2, <2>1, <2>2, TreeIntro
  <1>4. Result(n - 1)'
    <2>1. 1..0 = {}
      OBVIOUS
    <2>2. \A p : Present(0, p) <=> p \in D
      BY <1>0, <2>1 DEF Present
    <2>3. D \subseteq Concerned
      BY <1>0 DEF Concerned
    <2>4. ASSUME NEW p \in D PROVE Holds(0, p, Raw(tree'[p]))
      <3>1. Raw(tree'[p]) = Val(p)
        <4>1. Val(p) \in NodeType /\ Val(p).meta = "raw"
          BY <1>0, <1>1, DestsAssumption DEF IInv
        <4> QED
          BY <1>2, <4>1 DEF Raw, NodeType
      <3> QED
        BY <1>0, <2>1, <3>1 DEF Holds
    <2>5. DOMAIN tree' = {p \in Concerned : Present(0, p)}
      <3> HIDE DEF D
      <3> QED
        BY <1>2, <2>2, <2>3
    <2>6. n' - 1 = 0 /\ 0 \in Nat
      BY <1>0
    <2> QED
      BY <1>0, <1>2, <2>4, <2>5, <2>6, ResultIntro
  <1>5. 1..(n' - 1) = {}
    BY <1>0
  <1>6. Entries' = Entries
    BY <1>0 DEF Entries
  <1> QED
    BY <1>0, <1>2, <1>3, <1>4, <1>5, <1>6 DEF IInv

\* The next entry was read without an error.
LEMMA ReadNext ==
    ASSUME IInv, Reading, Entry.kind # "bad", phase = "unpack"
    PROVE  /\ n \in DOMAIN Entries /\ Path \in Seq(Names) /\ Entry \in EntryType
           /\ (Named => Result(n - 1)) /\ 1..n \subseteq Read /\ n + 1 \in 1..(Len(Entries) + 1)
  <1>1. n \in DOMAIN Entries /\ n \in 1..Len(Entries)
    BY ArchiveFacts DEF Reading, IInv
  <1>2. Path \in Seq(Names) /\ Entry \in EntryType
    BY <1>1, ArchiveFacts DEF Path, Entry
  <1>3. 1..(n - 1) \subseteq Read /\ (Named => Result(n - 1))
    BY DEF IInv
  <1>4. \A h \in 1..n : Entries[h].kind # "bad"
    <2>1. ASSUME NEW h \in 1..n PROVE Entries[h].kind # "bad"
      <3>1. CASE h = n
        BY <3>1 DEF Entry
      <3>2. CASE h # n
        <4>1. h \in 1..(n - 1) /\ h \in 1..h
          BY <1>1, <3>2
        <4> QED
          BY <1>3, <4>1 DEF Read
      <3> QED
        BY <3>1, <3>2
    <2> QED
      BY <2>1
  <1>5. 1..n \subseteq Read
    <2>1. ASSUME NEW j \in 1..n PROVE j \in Read
      <3>1. j \in DOMAIN Entries /\ 1..j \subseteq 1..n
        BY <1>1, ArchiveFacts
      <3> QED
        BY <1>4, <3>1 DEF Read
    <2> QED
      BY <2>1
  <1> QED
    BY <1>1, <1>2, <1>3, <1>5, ArchiveFacts

\* A path that is not safe concerns nothing.
LEMMA SkipIInv == IInv /\ SkipEntry => IInv'
  <1> SUFFICES ASSUME IInv, SkipEntry PROVE IInv'
    OBVIOUS
  <1>0. /\ image' = image /\ before' = before /\ n' = n + 1 /\ tree' = tree /\ todo' = todo
        /\ phase' = phase /\ phase = "unpack" /\ Reading /\ Entry.kind # "bad" /\ Path = <<>>
    BY DEF SkipEntry, Reading
  <1>1. /\ n \in DOMAIN Entries /\ (Named => Result(n - 1)) /\ 1..n \subseteq Read
        /\ n + 1 \in 1..(Len(Entries) + 1) /\ n - 1 \in Nat /\ (n - 1) + 1 = n /\ n \in Nat
    BY <1>0, ReadNext, ArchiveFacts
  <1>2. \A p : ~Writes(n, p) /\ ~Deletes(n, p) /\ ~Fills(n, p)
    BY <1>0 DEF Writes, Deletes, Fills, Strikes, Clears, Path, Entry
  <1>3. \A p : Present(n, p) <=> Present(n - 1, p)
    BY <1>1, <1>2, PresentStep
  <1>4. \A p, node : Holds(n - 1, p, node) => Holds(n, p, node)
    BY <1>1, <1>2, HoldsStep
  <1>5. n' - 1 = n
    BY <1>0, <1>1
  <1>6. Named => Result(n - 1)'
    BY <1>0, <1>1, <1>3, <1>4, <1>5, ResultIntro DEF Result
  <1>7. Entries' = Entries /\ Read' = Read /\ Named' = Named
    BY <1>0, SameArchive
  <1> QED
    BY <1>0, <1>1, <1>5, <1>6, <1>7 DEF IInv

\* Of what is there, the whiteout that is read next takes what it deletes.
LEMMA WhitedOutDeletes ==
    ASSUME IInv, Whiteout, Named
    PROVE  DOMAIN tree' = {p \in DOMAIN tree : ~Deletes(n, p)}
  <1> DEFINE d == Front(Path)
             v == Victim(Path)
  <1>0. /\ phase = "unpack" /\ Reading /\ Entry.kind # "bad" /\ Path # <<>> /\ IsWhiteout(Path)
        /\ tree' = WhitedOut(tree, Path)
    BY DEF Whiteout, Reading
  <1>1. /\ n \in DOMAIN Entries /\ Result(n - 1) /\ n \in Read /\ Path \in Seq(Names)
        /\ n - 1 \in Nat /\ (n - 1) + 1 = n
    BY <1>0, ReadNext, ArchiveFacts
  <1>2. IsTree(tree) /\ tree \in [DOMAIN tree -> NodeType] /\ DOMAIN tree \subseteq Seq(Names)
    BY DEF IInv, IsTree
  <1>3. d \in Seq(Names) /\ v \in Seq(Names)
    BY <1>0, <1>1, FrontPrefix, VictimType
  <1>4. \A p : /\ Strikes(n, p) <=> IF IsOpaque(Path) THEN IsStrictPrefix(d, p) ELSE IsPrefix(v, p)
               /\ Clears(n, p) <=> IsOpaque(Path) /\ p = d
    BY <1>0 DEF Strikes, Clears, Path, Entry
  <1>5. Last(Path).n \notin NoName
    BY <1>0, <1>1 DEF Named, Path, Entry
  <1>6. \A p \in DOMAIN tree : tree[p].kind = "file" <=> FileBefore(n, p)
    <2>1. ASSUME NEW p \in DOMAIN tree PROVE tree[p].kind = "file" <=> FileBefore(n, p)
      <3>1. Holds(n - 1, p, Raw(tree[p]))
        BY <1>1 DEF Result
      <3>2. Raw(tree[p]).kind = tree[p].kind
        BY <1>2 DEF Raw, NodeType
      <3> QED
        BY <1>1, <3>1, <3>2, FileIsFileBefore
    <2> QED
      BY <2>1
  <1>7. \A p \in DOMAIN tree : IsPrefix(d, p) <=> IsStrictPrefix(d, p) \/ p = d
    BY <1>2, <1>3, PrefixOrder DEF IsStrictPrefix
  <1>8. \A w \in Seq(Names) : DOMAIN Removed(tree, w) = {p \in DOMAIN tree : ~IsPrefix(w, p)}
    BY <1>2, RemovedTree
  <1> HIDE DEF d, v
  <1>9. CASE IsOpaque(Path) /\ ~Is(tree, d, "file")
    <2>1. tree' = Removed(tree, d)
      BY <1>0, <1>5, <1>9, Zenon DEF WhitedOut, NoName, d
    <2>2. \A p \in DOMAIN tree : IsPrefix(d, p) <=> Deletes(n, p)
      BY <1>4, <1>6, <1>7, <1>9 DEF Deletes, Is
    <2> QED
      BY <1>3, <1>8, <2>1, <2>2
  <1>10. CASE IsOpaque(Path) /\ Is(tree, d, "file")
    <2>1. tree' = tree
      BY <1>0, <1>5, <1>10, Zenon DEF WhitedOut, NoName, d
    <2>2. \A p \in DOMAIN tree : ~IsStrictPrefix(d, p)
      BY <1>2, <1>3, <1>10, TreeAbove DEF IsStrictPrefix, Is
    <2>3. \A p \in DOMAIN tree : ~Deletes(n, p)
      BY <1>4, <1>6, <1>10, <2>2 DEF Deletes, Is
    <2> QED
      BY <2>1, <2>3
  <1>11. CASE ~IsOpaque(Path)
    <2>1. tree' = Removed(tree, v)
      BY <1>0, <1>5, <1>11, Zenon DEF WhitedOut, NoName, v
    <2>2. \A p \in DOMAIN tree : IsPrefix(v, p) <=> Deletes(n, p)
      BY <1>4, <1>11 DEF Deletes
    <2> QED
      BY <1>3, <1>8, <2>1, <2>2
  <1> QED
    BY <1>9, <1>10, <1>11

\* A whiteout takes away what it deletes, and only that.
LEMMA WhiteoutIInv == IInv /\ Whiteout => IInv'
  <1> SUFFICES ASSUME IInv, Whiteout PROVE IInv'
    OBVIOUS
  <1>0. /\ image' = image /\ before' = before /\ n' = n + 1 /\ tree' = WhitedOut(tree, Path)
        /\ todo' = todo /\ phase' = phase /\ phase = "unpack" /\ Reading /\ Entry.kind # "bad"
        /\ Path # <<>> /\ IsWhiteout(Path)
    BY DEF Whiteout, Reading
  <1>1. /\ n \in DOMAIN Entries /\ (Named => Result(n - 1)) /\ 1..n \subseteq Read
        /\ Path \in Seq(Names)
        /\ n + 1 \in 1..(Len(Entries) + 1) /\ n - 1 \in Nat /\ (n - 1) + 1 = n /\ n \in Nat
    BY <1>0, ReadNext, ArchiveFacts
  <1>2. IsTree(tree) /\ tree \in [DOMAIN tree -> NodeType]
    BY DEF IInv
  <1>3. \A p : ~Writes(n, p) /\ ~Fills(n, p)
    BY <1>0 DEF Writes, Fills, Path, Entry
  <1>4. /\ IsTree(tree') /\ tree' \in [DOMAIN tree' -> NodeType]
        /\ \A p \in DOMAIN tree' : p \in DOMAIN tree /\ tree'[p] = tree[p]
    BY <1>0, <1>1, <1>2, WhitedOutTree DEF IsLeft
  <1>5. \A p : Present(n, p) <=> Present(n - 1, p) /\ ~Deletes(n, p)
    BY <1>1, <1>3, PresentStep
  <1>6. \A p, node : Holds(n - 1, p, node) /\ ~Deletes(n, p) => Holds(n, p, node)
    BY <1>1, <1>3, HoldsStep
  <1>7. n' - 1 = n
    BY <1>0, <1>1
  <1>8. ASSUME Named PROVE Result(n - 1)'
    <2>0. DOMAIN tree' = {p \in DOMAIN tree : ~Deletes(n, p)}
      BY <1>8, WhitedOutDeletes
    <2>1. DOMAIN tree' = {p \in Concerned : Present(n, p)}
      BY <1>1, <1>5, <1>8, <2>0 DEF Result
    <2>2. \A p \in DOMAIN tree' : Holds(n, p, Raw(tree'[p]))
      BY <1>1, <1>4, <1>6, <1>8, <2>0 DEF Result
    <2> QED
      BY <1>0, <1>1, <1>7, <2>1, <2>2, ResultIntro
  <1>9. Entries' = Entries /\ Read' = Read /\ Named' = Named
    BY <1>0, SameArchive
  <1> QED
    BY <1>0, <1>1, <1>4, <1>7, <1>8, <1>9 DEF IInv

\* Every path an entry or the old destination concerns is a path.
LEMMA ConcernedType ==
    ASSUME IInv
    PROVE  /\ Concerned \subseteq Seq(Names)
           /\ \A j \in DOMAIN Entries, q \in Seq(Names) :
                  IsPrefix(q, Sanitize(Entries[j])) => q \in Concerned
  <1>1. DOMAIN before \subseteq Seq(Names)
    BY DestsAssumption DEF IInv, IsTree
  <1>2. <<>> \in Seq(Names)
    OBVIOUS
  <1>3. \A j \in DOMAIN Entries : \A q :
            q \in Prefixes(Sanitize(Entries[j])) <=>
                q \in Seq(Names) /\ IsPrefix(q, Sanitize(Entries[j]))
    BY ArchiveFacts, PrefixesDef
  <1> QED
    BY <1>1, <1>2, <1>3 DEF Concerned

\* An entry that is unpacked fills its path and makes what is missing above it;
\* one that cannot be stops flatten.
LEMMA UnpackIInv == IInv /\ UnpackEntry => IInv'
  <1> SUFFICES ASSUME IInv, UnpackEntry PROVE IInv'
    OBVIOUS
  <1>0. /\ image' = image /\ before' = before /\ todo' = todo
        /\ phase = "unpack" /\ Reading /\ Entry.kind # "bad"
        /\ Path # <<>> /\ ~IsWhiteout(Path)
    BY DEF UnpackEntry, Reading
  <1>1. /\ n \in DOMAIN Entries /\ (Named => Result(n - 1)) /\ 1..n \subseteq Read
        /\ Path \in Seq(Names)
        /\ n + 1 \in 1..(Len(Entries) + 1) /\ n - 1 \in Nat /\ (n - 1) + 1 = n /\ n \in Nat
        /\ Entry \in EntryType
    BY <1>0, ReadNext, ArchiveFacts
  <1>2. IsTree(tree) /\ tree \in [DOMAIN tree -> NodeType] /\ todo \subseteq Seq(Names)
    BY DEF IInv
  <1>3. Entries' = Entries /\ Read' = Read /\ Named' = Named
    BY <1>0, SameArchive
  <1>4. CASE CanUnpack(tree, Entry, Path)
    <2>0. tree' = Unpacked(tree, Entry, Path, n) /\ n' = n + 1 /\ phase' = phase
      BY <1>4 DEF UnpackEntry
    <2>1. /\ IsTree(tree') /\ tree' \in [DOMAIN tree' -> NodeType]
          /\ DOMAIN tree' = DOMAIN tree \cup {q \in Seq(Names) : IsPrefix(q, Path)}
          /\ tree'[Path] = Node(Entry, n)
          /\ \A q \in DOMAIN tree' \ {Path} :
                 tree'[q] = IF q \in DOMAIN tree THEN tree[q] ELSE Directory
      <3>1. IsUnpacked(tree', tree, Entry, Path, n)
        BY <1>0, <1>1, <1>2, <1>4, <2>0, UnpackedTree
      <3> QED
        BY <3>1 DEF IsUnpacked
    <2>2. IsPrefix(Path, Path)
      BY <1>1, PrefixOrder
    <2>3. \A q : /\ Writes(n, q) <=> IsPrefix(q, Path)
                 /\ ~Deletes(n, q)
                 /\ Fills(n, q) <=> q = Path
      BY <1>0, <2>2 DEF Writes, Deletes, Fills, Strikes, Clears, Path, Entry
    <2>4. \A q : Present(n, q) <=> IsPrefix(q, Path) \/ Present(n - 1, q)
      BY <1>1, <2>3, PresentStep
    <2>5. \A q \in Seq(Names) : IsPrefix(q, Path) => q \in Concerned
      BY <1>1, ConcernedType DEF Path, Entry
    <2>6. ASSUME Named PROVE DOMAIN tree' = {q \in Concerned : Present(n, q)}
      <3>1. DOMAIN tree = {q \in Concerned : Present(n - 1, q)}
        BY <1>1, <2>6 DEF Result
      <3>2. Concerned \subseteq Seq(Names)
        BY ConcernedType
      <3> QED
        BY <2>1, <2>4, <2>5, <3>1, <3>2
    <2>7. ASSUME Named, NEW q \in DOMAIN tree' PROVE Holds(n, q, Raw(tree'[q]))
      <3>1. CASE q = Path
        <4>1. Holds(n, q, Node(Entry, n))
          BY <1>1, <2>3, <3>1, HoldsFilled DEF Entry
        <4>2. Raw(Node(Entry, n)) = Node(Entry, n)
          BY <1>0, <1>1 DEF Raw, Node, Directory
        <4> QED
          BY <2>1, <3>1, <4>1, <4>2
      <3>2. CASE q # Path /\ q \in DOMAIN tree
        <4>1. Holds(n - 1, q, Raw(tree[q]))
          BY <1>1, <2>7, <3>2 DEF Result
        <4>2. Holds(n, q, Raw(tree[q]))
          BY <1>1, <2>3, <3>2, <4>1, HoldsStep
        <4> QED
          BY <2>1, <3>2, <4>2
      <3>3. CASE q # Path /\ q \notin DOMAIN tree
        <4>1. ~Present(n - 1, q)
          BY <1>1, <2>4, <2>6, <2>7, <3>3 DEF Result
        <4>2. Holds(n, q, Directory)
          BY <1>1, <2>3, <3>3, <4>1, HoldsMade
        <4>3. Raw(Directory) = Directory
          BY DEF Raw, Directory
        <4> QED
          BY <2>1, <3>3, <4>2, <4>3
      <3> QED
        BY <3>1, <3>2, <3>3
    <2>8. n' - 1 = n
      BY <1>1, <2>0
    <2>9. Named => Result(n - 1)'
      BY <1>0, <1>1, <2>6, <2>7, <2>8, ResultIntro
    <2> QED
      BY <1>0, <1>1, <1>2, <1>3, <2>0, <2>1, <2>8, <2>9 DEF IInv
  <1>5. CASE ~CanUnpack(tree, Entry, Path)
    <2>1. tree' = tree /\ n' = n /\ phase' = "failed"
      BY <1>5 DEF UnpackEntry
    <2> QED
      BY <1>0, <1>2, <1>3, <2>1 DEF IInv
  <1> QED
    BY <1>4, <1>5

\* The archive ends at the first entry that cannot be read, and all of the tree
\* is below the directory the walk starts from.
LEMMA EndIInv == IInv /\ EndOfArchive => IInv'
  <1> SUFFICES ASSUME IInv, EndOfArchive PROVE IInv'
    OBVIOUS
  <1>0. /\ image' = image /\ before' = before /\ n' = n /\ tree' = tree /\ todo' = {<<>>}
        /\ phase = "unpack" /\ phase' = "normalize" /\ (n <= Len(Entries) => Entry.kind = "bad")
    BY DEF EndOfArchive
  <1>1. /\ IsTree(tree) /\ tree \in [DOMAIN tree -> NodeType] /\ (Named => Result(n - 1))
        /\ 1..(n - 1) \subseteq Read /\ n \in 1..(Len(Entries) + 1) /\ <<>> \in Seq(Names)
    BY <1>0 DEF IInv
  <1>2. Entries' = Entries /\ Read' = Read /\ Named' = Named
    BY <1>0, SameArchive
  <1>3. Read = 1..(n - 1)
    <2>1. ASSUME NEW j \in Read PROVE j \in 1..(n - 1)
      <3>1. j \in 1..Len(Entries) /\ \A h \in 1..j : Entries[h].kind # "bad"
        BY ArchiveFacts DEF Read
      <3>2. CASE n <= j
        <4>1. n \in 1..j /\ n <= Len(Entries)
          BY <1>1, <3>1, <3>2, ArchiveFacts
        <4> QED
          BY <1>0, <3>1, <4>1 DEF Entry
      <3>3. CASE ~(n <= j)
        BY <3>1, <3>3, ArchiveFacts
      <3> QED
        BY <3>2, <3>3
    <2> QED
      BY <1>1, <2>1
  <1>4. Named => Result(n - 1)'
    BY <1>0, <1>1, ArchiveFacts, ResultIntro DEF Result
  <1>5. Reachable'
    <2>1. \A p \in DOMAIN tree \ {<<>>} : IsStrictPrefix(<<>>, p)
      BY <1>1, PrefixOrder DEF IsTree, IsStrictPrefix
    <2> QED
      BY <1>0, <2>1 DEF Reachable
  <1> QED
    BY <1>0, <1>1, <1>2, <1>3, <1>4, <1>5 DEF IInv

\* Normalising a directory marks what is in it and puts the directories among
\* that on the stack, so whatever was below it is marked or still to be reached.
LEMMA NormalizeIInv == IInv /\ NormalizeDir => IInv'
  <1> SUFFICES ASSUME IInv, NormalizeDir PROVE IInv'
    OBVIOUS
  <1>0. /\ image' = image /\ before' = before /\ n' = n /\ phase = "normalize"
    BY DEF NormalizeDir
  <1>1. /\ IsTree(tree) /\ tree \in [DOMAIN tree -> NodeType] /\ (Named => Result(n - 1))
        /\ todo \subseteq Seq(Names) /\ Reachable /\ Read = 1..(n - 1)
        /\ DOMAIN tree \subseteq Seq(Names)
    BY <1>0 DEF IInv, IsTree
  <1>2. Entries' = Entries /\ Read' = Read /\ Named' = Named
    BY <1>0, SameArchive
  <1>3. PICK d \in todo :
           IF d \in DOMAIN tree
           THEN /\ tree' = [q \in DOMAIN tree |->
                               IF q \in Children(tree, d) THEN Canonical(tree[q]) ELSE tree[q]]
                /\ todo' = (todo \ {d}) \cup Pushed(tree, d)
                /\ phase' = phase
           ELSE phase' = "failed" /\ tree' = tree /\ todo' = todo
    BY DEF NormalizeDir
  <1>4. CASE d \notin DOMAIN tree
    BY <1>0, <1>1, <1>2, <1>3, <1>4 DEF IInv
  <1>5. CASE d \in DOMAIN tree
    <2> DEFINE Val(q) == IF q \in Children(tree, d) THEN Canonical(tree[q]) ELSE tree[q]
    <2>0. /\ tree' = [q \in DOMAIN tree |-> Val(q)]
          /\ todo' = (todo \ {d}) \cup Pushed(tree, d) /\ phase' = phase
      BY <1>3, <1>5
    <2>1. \A x \in NodeType : /\ Canonical(x) \in NodeType /\ Canonical(x).kind = x.kind
                              /\ Raw(Canonical(x)) = Raw(x)
                              /\ x.kind = "link" \/ Canonical(x).meta = "canonical"
                              /\ x.meta = "canonical" => Canonical(x).meta = "canonical"
      BY DEF NodeType, Canonical, Raw
    <2>2. \A q \in DOMAIN tree : /\ Val(q) \in NodeType /\ Val(q).kind = tree[q].kind
                                 /\ Raw(Val(q)) = Raw(tree[q])
                                 /\ tree[q].meta = "canonical" => Val(q).meta = "canonical"
                                 /\ (q \in Children(tree, d) /\ tree[q].kind # "link")
                                        => Val(q).meta = "canonical"
      BY <1>1, <2>1
    <2>3. DOMAIN tree' = DOMAIN tree /\ (\A q \in DOMAIN tree : tree'[q] = Val(q))
          /\ tree' \in [DOMAIN tree' -> NodeType]
      <3> HIDE DEF Val
      <3> QED
        BY <2>0, <2>2
    <2> HIDE DEF Val
    <2>4. IsTree(tree')
      <3>1. ASSUME NEW p \in DOMAIN tree', NEW q \in Seq(Names), IsPrefix(q, p)
            PROVE  q \in DOMAIN tree' /\ (q # p => tree'[q].kind = "dir")
        <4>1. q \in DOMAIN tree /\ (q # p => tree[q].kind = "dir")
          BY <1>1, <2>3, <3>1, TreeAbove
        <4> QED
          BY <2>2, <2>3, <4>1
      <3>2. DOMAIN tree' \subseteq Seq(Names)
        BY <1>1, <2>3
      <3> QED
        BY <3>1, <3>2, TreeIntro
    <2>5. ASSUME Named PROVE Result(n - 1)'
      <3>1. DOMAIN tree' = {p \in Concerned : Present(n - 1, p)}
        BY <1>1, <2>3, <2>5 DEF Result
      <3>2. \A p \in DOMAIN tree' : Holds(n - 1, p, Raw(tree'[p]))
        BY <1>1, <2>2, <2>3, <2>5 DEF Result
      <3> QED
        BY <1>0, <3>1, <3>2, ArchiveFacts, ResultIntro
    <2>6. todo' \subseteq Seq(Names)
      BY <1>1, <2>0 DEF Pushed, Children
    <2>7. Reachable'
      <3>1. ASSUME NEW p \in DOMAIN tree, p # <<>>, tree[p].kind # "link",
                   Val(p).meta # "canonical"
            PROVE  \E c \in todo' : IsStrictPrefix(c, p)
        <4>1. p \in Seq(Names) /\ d \in Seq(Names)
          BY <1>1
        <4>2. PICK c \in todo : IsStrictPrefix(c, p)
          BY <1>1, <2>2, <3>1 DEF Reachable
        <4>3. CASE c # d
          BY <2>0, <4>2, <4>3
        <4>4. CASE c = d
          <5>1. PICK b \in Seq(Names) : b # <<>> /\ Front(b) = d /\ IsPrefix(b, p)
            BY <4>1, <4>2, <4>4, ChildOnTheWay
          <5>2. b \in DOMAIN tree /\ (b # p => tree[b].kind = "dir")
            BY <1>1, <5>1, TreeAbove
          <5>3. b \in Children(tree, d)
            BY <5>1, <5>2 DEF Children
          <5>4. b # p
            BY <2>2, <3>1, <5>3
          <5>5. b \in Pushed(tree, d)
            BY <5>2, <5>3, <5>4 DEF Pushed
          <5>6. IsStrictPrefix(b, p)
            BY <5>1, <5>4 DEF IsStrictPrefix
          <5> QED
            BY <2>0, <5>5, <5>6
        <4> QED
          BY <4>3, <4>4
      <3>2. ASSUME NEW p \in DOMAIN tree', p # <<>>
            PROVE  tree'[p].kind = "link" \/ tree'[p].meta = "canonical"
                   \/ \E c \in todo' : IsStrictPrefix(c, p)
        BY <2>2, <2>3, <3>1, <3>2
      <3> QED
        BY <3>2 DEF Reachable
    <2> QED
      BY <1>0, <1>1, <1>2, <2>0, <2>3, <2>4, <2>5, <2>6, <2>7 DEF IInv
  <1> QED
    BY <1>4, <1>5

\* The end of the walk, a finished run and a step of nothing.
LEMMA FinishIInv == IInv /\ (Finish \/ Rest \/ UNCHANGED vars) => IInv'
  <1> SUFFICES ASSUME IInv, Finish \/ Rest \/ UNCHANGED vars PROVE IInv'
    OBVIOUS
  <1>1. /\ image' = image /\ before' = before /\ n' = n /\ tree' = tree /\ todo' = todo
        /\ phase' = phase \/ (phase = "normalize" /\ todo = {} /\ phase' = "done")
    BY DEF Finish, Rest, vars
  <1>2. Entries' = Entries /\ Read' = Read /\ Named' = Named
    BY <1>1, SameArchive
  <1>3. Result(n - 1) => Result(n - 1)'
    BY <1>1, ArchiveFacts, ResultIntro DEF Result
  <1>4. Reachable => Reachable'
    BY <1>1 DEF Reachable
  <1> QED
    BY <1>1, <1>2, <1>3, <1>4 DEF IInv

\* Every step of flatten preserves the invariant.
LEMMA StepIInv == IInv /\ [Next]_vars => IInv'
  BY OpenIInv, SkipIInv, WhiteoutIInv, UnpackIInv, EndIInv, NormalizeIInv, FinishIInv DEF Next

-----------------------------------------------------------------------------
(* What the result of all the entries means for one path *)

\* A path that the entries leave is one whose last entry writes it.
LEMMA PresentIsRemains ==
    ASSUME NEW m \in Nat, Read = 1..m, NEW p
    PROVE  Present(m, p) <=> Remains(p)
  <1> DEFINE S == {0} \cup {j \in Read : Writes(j, p) \/ Deletes(j, p)}
             L == Max(S)
  <1>1. S \in SUBSET Int /\ m \in Int /\ S # {} /\ \A x \in S : 0 <= x /\ x <= m
    OBVIOUS
  <1>2. L \in S /\ \A y \in S : y <= L
    <2> HIDE DEF S
    <2> QED
      BY <1>1, MaxOf, Zenon
  <1>3. Remains(p) <=> IF L = 0 THEN p \in DOMAIN before \cup {<<>>} ELSE Writes(L, p)
    BY DEF Remains, LastWord
  <1> HIDE DEF L
  <1>4. L \in 0..m /\ \A j \in 1..m : L < j => ~Writes(j, p) /\ ~Deletes(j, p)
    <2>1. L \in 0..m
      BY <1>2
    <2>2. ASSUME NEW j \in 1..m, L < j, Writes(j, p) \/ Deletes(j, p) PROVE FALSE
      <3>1. j \in S
        BY <2>2
      <3>2. j <= L
        BY <1>2, <3>1
      <3> QED
        BY <2>1, <2>2, <3>2
    <2> QED
      BY <2>1, <2>2
  <1>5. CASE L = 0
    <2>1. \A j \in 1..m : ~Writes(j, p) /\ ~Deletes(j, p)
      BY <1>4, <1>5
    <2> QED
      BY <1>3, <1>5, <2>1 DEF Present
  <1>6. CASE L # 0
    <2>1. L \in 1..m /\ (Writes(L, p) \/ Deletes(L, p))
      BY <1>2, <1>4, <1>6
    <2>2. ASSUME Writes(L, p) PROVE Present(m, p)
      <3>1. \A h \in (L + 1)..m : h \in 1..m /\ L < h
        BY <2>1
      <3>2. \A h \in (L + 1)..m : ~Deletes(h, p)
        BY <1>4, <3>1
      <3> QED
        BY <2>1, <2>2, <3>2 DEF Present
    <2>3. ASSUME Present(m, p), Deletes(L, p) PROVE FALSE
      <3>1. PICK j \in 1..m : Writes(j, p) /\ \A h \in (j + 1)..m : ~Deletes(h, p)
        BY <2>1, <2>3 DEF Present
      <3>2. ~(L < j) /\ L # j
        BY <1>4, <2>3, <3>1, WritesOrDeletes
      <3>3. L \in (j + 1)..m
        BY <2>1, <3>1, <3>2
      <3> QED
        BY <2>3, <3>1, <3>3
    <2> QED
      BY <1>3, <1>6, <2>1, <2>2, <2>3, WritesOrDeletes
  <1> QED
    BY <1>5, <1>6

\* ... and what it holds is of the last entry that filled it, if no deletion
\* followed.
LEMMA HoldsIsSource ==
    ASSUME NEW m \in Nat, Read = 1..m, NEW p, NEW node, Holds(m, p, node)
    PROVE  node = IF Source(p) # 0 THEN Node(Entries[Source(p)], Source(p))
                  ELSE IF p \in DOMAIN before /\ (\A j \in Read : ~Deletes(j, p)) THEN before[p]
                  ELSE Directory
  <1> DEFINE S == {0} \cup {j \in Read : /\ Sanitize(Entries[j]) = p /\ Writes(j, p)
                                         /\ \A h \in Read : Deletes(h, p) => h < j}
  <1>0. Source(p) = Max(S)
    BY DEF Source
  <1>1. S \in SUBSET Int /\ m \in Int /\ S # {} /\ \A x \in S : 0 <= x /\ x <= m
    OBVIOUS
  <1>2. \A j \in 1..m : j \in S <=> Fills(j, p) /\ \A h \in 1..m : Deletes(h, p) => h < j
    BY DEF Fills
  <1>3. 0 \in S /\ S \subseteq 0..m
    OBVIOUS
  <1> HIDE DEF S
  <1>4. ASSUME NEW j \in 1..m, FilledBy(m, p, j) PROVE Source(p) = j
    <2>1. Fills(j, p) /\ (\A h \in (j + 1)..m : ~Fills(h, p) /\ ~Deletes(h, p)) /\ ~Deletes(j, p)
      BY <1>4, WritesOrDeletes DEF FilledBy
    <2>2. ASSUME NEW h \in 1..m, Deletes(h, p) PROVE h < j
      <3>1. h # j /\ h \notin (j + 1)..m
        BY <2>1, <2>2
      <3> QED
        BY <3>1
    <2>3. j \in S
      BY <1>2, <2>1, <2>2
    <2>4. ASSUME NEW y \in S PROVE y <= j
      <3>1. CASE y = 0
        BY <3>1
      <3>2. CASE y # 0
        <4>1. y \in 1..m
          BY <1>3, <3>2
        <4>2. Fills(y, p)
          BY <1>2, <4>1
        <4>3. y \notin (j + 1)..m
          BY <2>1, <4>2
        <4> QED
          BY <4>1, <4>3
      <3> QED
        BY <3>1, <3>2
    <2> QED
      BY <1>0, <1>1, <2>3, <2>4, MaxIs
  <1>5. ASSUME \A j \in 1..m : ~FilledBy(m, p, j) PROVE Source(p) = 0
    <2>1. Source(p) \in S /\ \A y \in S : y <= Source(p)
      BY <1>0, <1>1, MaxOf, Zenon
    <2>2. PICK k : k = Source(p)
      OBVIOUS
    <2>3. ASSUME k # 0 PROVE FALSE
      <3>1. k \in 1..m
        <4>1. k \in 0..m
          BY <1>3, <2>1, <2>2
        <4> QED
          BY <2>3, <4>1
      <3>2. Fills(k, p) /\ \A h \in 1..m : Deletes(h, p) => h < k
        BY <1>2, <2>1, <2>2, <3>1
      <3>3. ASSUME NEW h \in (k + 1)..m PROVE ~Fills(h, p) /\ ~Deletes(h, p)
        <4>1. h \in 1..m /\ k < h /\ ~(h < k) /\ ~(h <= k)
          BY <3>1
        <4>2. ~Deletes(h, p)
          BY <3>2, <4>1
        <4>3. ASSUME Fills(h, p) PROVE FALSE
          <5>1. \A g \in 1..m : Deletes(g, p) => g < h
            <6>1. ASSUME NEW g \in 1..m, Deletes(g, p) PROVE g < h
              <7>1. g < k
                BY <3>2, <6>1
              <7> QED
                BY <3>1, <4>1, <7>1
            <6> QED
              BY <6>1
          <5>2. h \in S
            BY <1>2, <4>1, <4>3, <5>1
          <5> QED
            BY <2>1, <2>2, <4>1, <5>2
        <4> QED
          BY <4>2, <4>3
      <3>4. FilledBy(m, p, k)
        BY <3>2, <3>3 DEF FilledBy
      <3> QED
        BY <1>5, <3>1, <3>4
    <2> QED
      BY <2>2, <2>3
  <1>6. CASE \E j \in 1..m : FilledBy(m, p, j)
    <2>1. PICK j \in 1..m : FilledBy(m, p, j) /\ node = Node(Entries[j], j)
      BY <1>6 DEF Holds
    <2>2. Source(p) = j /\ j # 0
      BY <1>4, <2>1
    <2> QED
      BY <2>1, <2>2
  <1>7. CASE \A j \in 1..m : ~FilledBy(m, p, j)
    <2>1. Source(p) = 0
      BY <1>5, <1>7
    <2>2. node = IF p \in DOMAIN before /\ (\A h \in 1..m : ~Deletes(h, p)) THEN before[p]
                 ELSE Directory
      BY <1>7 DEF Holds
    <2> QED
      BY <2>1, <2>2
  <1> QED
    BY <1>6, <1>7

-----------------------------------------------------------------------------
(* Theorems *)

\* In every state of flatten the destination is a tree, it is what the entries
\* read so far make of it (if every whiteout names something), and what is not
\* normalised yet is still to be reached.
THEOREM Invariant == Spec => []IInv
  <1> QED
    BY InitIInv, StepIInv, PTL DEF Spec

\* A finished flatten of any archive over any destination leaves no file and no
\* directory with metadata of the archive (normalize_tree).
THEOREM ReproducibleHolds == Spec => []Reproducible
  <1>1. IInv => Reproducible
    BY DEF IInv, Reproducible, Reachable
  <1> QED
    BY <1>1, Invariant, PTL

\* ... and, if no whiteout of the archive is for "", "." or "..", every path of it
\* is as the last entry that concerns the path says (unpack_reader, with opaque
\* markers that meet a file and are passed over).
THEOREM LastEntryDecidesHolds == Spec => []LastEntryDecides
  <1>1. ASSUME IInv PROVE LastEntryDecides
    <2> DEFINE paths ==
            DOMAIN before \cup UNION {Prefixes(Sanitize(Entries[j])) : j \in DOMAIN Entries}
    <2> SUFFICES ASSUME phase = "done", Named
                 PROVE  /\ DOMAIN tree = {p \in paths \cup {<<>>} : Remains(p)}
                        /\ \A p \in DOMAIN tree :
                               [tree[p] EXCEPT !.meta = "raw"] =
                                   IF Source(p) # 0 THEN Node(Entries[Source(p)], Source(p))
                                   ELSE IF p \in DOMAIN before /\ (\A j \in Read : ~Deletes(j, p))
                                        THEN before[p]
                                   ELSE Directory
      BY Zenon DEF LastEntryDecides
    <2>1. Result(n - 1) /\ Read = 1..(n - 1) /\ n - 1 \in Nat
      BY <1>1, ArchiveFacts DEF IInv
    <2>2. Concerned = paths \cup {<<>>}
      BY DEF Concerned
    <2> HIDE DEF paths
    <2>3. DOMAIN tree = {p \in paths \cup {<<>>} : Remains(p)}
      BY <2>1, <2>2, PresentIsRemains DEF Result
    <2>4. ASSUME NEW p \in DOMAIN tree
          PROVE  [tree[p] EXCEPT !.meta = "raw"] =
                     IF Source(p) # 0 THEN Node(Entries[Source(p)], Source(p))
                     ELSE IF p \in DOMAIN before /\ (\A j \in Read : ~Deletes(j, p))
                          THEN before[p]
                     ELSE Directory
      <3>1. Holds(n - 1, p, Raw(tree[p]))
        BY <2>1 DEF Result
      <3>2. PICK node : node = Raw(tree[p])
        OBVIOUS
      <3>3. node = [tree[p] EXCEPT !.meta = "raw"]
        BY <3>2 DEF Raw
      <3> QED
        BY <2>1, <3>1, <3>2, <3>3, HoldsIsSource
    <2> QED
      BY <2>3, <2>4
  <1> QED
    BY <1>1, Invariant, PTL
=============================================================================

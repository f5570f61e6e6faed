-------------------------- MODULE ChildSetupProofs --------------------------
(***************************************************************************)
(* What the container's child does to its mounts and capabilities, for     *)
(* every bundle and whatever the kernel refuses.                           *)
(*                                                                         *)
(* The heart of it is the bind of a path onto itself: with MS_REC it shows *)
(* every path as it was shown before (BoundOntoItself).  So covering a     *)
(* path, the other thing done after the first mask, changes what is below  *)
(* that path and nothing else (MountShows).                                *)
(*                                                                         *)
(* A path that is passed over because it is not there stays away: what     *)
(* exists is in directories (Sound), so something above the path is        *)
(* missing, in a file system in which nothing can be made (Stuck), and no  *)
(* later mount, mask or bind makes a way to it (PassedInv).                *)
(***************************************************************************)
EXTENDS ChildSetup, SequenceFacts, TLAPS

FileNames == (STRING \X Nat) \X Paths
MountRecs == [at : Paths, fs : STRING \X Nat, root : Paths, ro : BOOLEAN, top : BOOLEAN]

\* The mounts of s: the root, made first, and those made since.
MountsOK(s) ==
    /\ s.mounts = [j \in DOMAIN s.mounts |-> s.mounts[j]]
    /\ \A j \in DOMAIN s.mounts : s.mounts[j] \in MountRecs
    /\ 1 \in DOMAIN s.mounts /\ s.mounts[1].at = <<>>
    /\ Latest(s) \in Nat /\ DOMAIN s.mounts \subseteq 1..Latest(s)

IsKernel(s) ==
    /\ s = [mounts |-> s.mounts, files |-> s.files]
    /\ s.files \subseteq [file : FileNames, kind : FileKinds]
    /\ MountsOK(s)

\* Mount j is at p or above it, and not over the root.
Over(s, j, p) == IsPrefix(s.mounts[j].at, p) /\ (s.mounts[j].at = <<>> => j = 1)

-----------------------------------------------------------------------------
(* Paths *)

\* What is left of x after its first n components.
LEMMA Rest1 ==
    ASSUME NEW x \in Paths, NEW n \in Nat, n <= Len(x)
    PROVE  /\ SubSeq(x, n + 1, Len(x)) \in Paths
           /\ Len(SubSeq(x, n + 1, Len(x))) = Len(x) - n
           /\ \A j \in 1..(Len(x) - n) : SubSeq(x, n + 1, Len(x))[j] = x[n + j]
  <1>1. Len(x) \in Nat
    BY DEF Paths
  <1>2. PICK a \in Int, b \in Int : a = n + 1 /\ b = Len(x)
    BY <1>1
  <1>3. SubSeq(x, a, b) \in Paths /\ Len(SubSeq(x, a, b)) = b - a + 1
        /\ \A j \in 1..(b - a + 1) : SubSeq(x, a, b)[j] = x[a + j - 1]
    BY <1>1, <1>2 DEF Paths
  <1>4. b - a + 1 = Len(x) - n /\ \A j \in Int : a + j - 1 = n + j
    BY <1>1, <1>2
  <1> QED
    BY <1>2, <1>3, <1>4

\* b has the elements of u and then those of v.
IsJoin(b, u, v) ==
    /\ b \in Paths /\ Len(u) \in Nat /\ Len(v) \in Nat /\ Len(b) = Len(u) + Len(v)
    /\ \A j \in 1..Len(u) : b[j] = u[j]
    /\ \A j \in 1..Len(v) : b[Len(u) + j] = v[j]

\* The elements of a concatenation.
LEMMA Joined ==
    ASSUME NEW u \in Paths, NEW v \in Paths
    PROVE  IsJoin(u \o v, u, v)
  BY DEF Paths, IsJoin

\* Two paths that agree on the first n places and on those after it are equal.
LEMMA SameParts ==
    ASSUME NEW p \in Paths, NEW q \in Paths, NEW n \in Nat, NEW m \in Nat,
           Len(p) = n + m, Len(q) = n + m,
           \A j \in 1..n : p[j] = q[j],
           \A j \in 1..m : p[n + j] = q[n + j]
    PROVE  p = q
  <1>1. ASSUME NEW j \in 1..Len(p) PROVE p[j] = q[j]
    <2>1. CASE j <= n
      BY <2>1
    <2>2. CASE j > n
      <3>1. j - n \in 1..m /\ n + (j - n) = j
        BY <2>2
      <3> QED
        BY <3>1
    <2> QED
      BY <2>1, <2>2
  <1> QED
    BY <1>1, SameElements DEF Paths

\* There is one concatenation of u and v.
LEMMA JoinUnique ==
    ASSUME NEW p, NEW q, NEW u, NEW v, IsJoin(p, u, v), IsJoin(q, u, v)
    PROVE  p = q
  <1>1. /\ p \in Paths /\ q \in Paths /\ Len(u) \in Nat /\ Len(v) \in Nat
        /\ Len(p) = Len(u) + Len(v) /\ Len(q) = Len(u) + Len(v)
        /\ \A j \in 1..Len(u) : p[j] = q[j]
        /\ \A j \in 1..Len(v) : p[Len(u) + j] = q[Len(u) + j]
    BY DEF IsJoin
  <1> QED
    BY <1>1, SameParts, Zenon

\* Concatenation is associative.
LEMMA JoinAssoc ==
    ASSUME NEW r, NEW u, NEW v, NEW a, NEW b, NEW p,
           IsJoin(a, r, u), IsJoin(b, u, v), IsJoin(p, a, v)
    PROVE  IsJoin(p, r, b)
  <1>1. /\ p \in Paths /\ Len(r) \in Nat /\ Len(u) \in Nat /\ Len(v) \in Nat
        /\ Len(a) = Len(r) + Len(u) /\ Len(b) = Len(u) + Len(v) /\ Len(p) = Len(a) + Len(v)
    BY DEF IsJoin
  <1>2. ASSUME NEW j \in 1..Len(r) PROVE p[j] = r[j]
    <2>1. j \in 1..Len(a)
      BY <1>1
    <2> QED
      BY <2>1 DEF IsJoin
  <1>3. ASSUME NEW j \in 1..Len(b) PROVE p[Len(r) + j] = b[j]
    <2>1. CASE j <= Len(u)
      <3>1. j \in 1..Len(u) /\ Len(r) + j \in 1..Len(a)
        BY <1>1, <2>1
      <3> QED
        BY <3>1 DEF IsJoin
    <2>2. CASE j > Len(u)
      <3>1. /\ j - Len(u) \in 1..Len(v) /\ Len(u) + (j - Len(u)) = j
            /\ Len(a) + (j - Len(u)) = Len(r) + j
        BY <1>1, <2>2
      <3>2. p[Len(a) + (j - Len(u))] = v[j - Len(u)] /\ b[Len(u) + (j - Len(u))] = v[j - Len(u)]
        BY <3>1 DEF IsJoin
      <3> QED
        BY <3>1, <3>2
    <2> QED
      BY <1>1, <2>1, <2>2
  <1>4. Len(b) \in Nat /\ Len(p) = Len(r) + Len(b)
    BY <1>1
  <1> QED
    BY <1>1, <1>2, <1>3, <1>4 DEF IsJoin

\* A prefix and what is left after it make the path.
LEMMA Rejoined ==
    ASSUME NEW p \in Paths, NEW x \in Paths, IsPrefix(p, x)
    PROVE  /\ SubSeq(x, Len(p) + 1, Len(x)) \in Paths
           /\ IsJoin(x, p, SubSeq(x, Len(p) + 1, Len(x)))
           /\ p \o SubSeq(x, Len(p) + 1, Len(x)) = x
  <1>1. Len(p) \in Nat /\ Len(x) \in Nat /\ Len(p) <= Len(x) /\ \A j \in 1..Len(p) : p[j] = x[j]
    BY PrefixDef DEF Paths
  <1>2. PICK r \in Paths : /\ r = SubSeq(x, Len(p) + 1, Len(x)) /\ Len(r) = Len(x) - Len(p)
                           /\ \A j \in 1..(Len(x) - Len(p)) : r[j] = x[Len(p) + j]
    BY <1>1, Rest1
  <1>3. IsJoin(x, p, r)
    BY <1>1, <1>2 DEF IsJoin
  <1>4. IsJoin(p \o r, p, r)
    BY Joined, Zenon
  <1>5. p \o r = x
    BY <1>3, <1>4, JoinUnique, Zenon
  <1> QED
    BY <1>2, <1>3, <1>5

\* What is left of x after p, put after r and what is left of p after a.
Through(r, a, p, x) ==
    (r \o SubSeq(p, Len(a) + 1, Len(p))) \o SubSeq(x, Len(p) + 1, Len(x))

\* That is r and what is left of x after a.
LEMMA RestThrough ==
    ASSUME NEW a \in Paths, NEW p \in Paths, NEW x \in Paths, NEW r \in Paths,
           IsPrefix(a, p), IsPrefix(p, x)
    PROVE  Through(r, a, p, x) = r \o SubSeq(x, Len(a) + 1, Len(x))
  <1>1. IsPrefix(a, x)
    BY PrefixOrder DEF Paths
  <1>2. PICK u : u \in Paths /\ IsJoin(p, a, u) /\ u = SubSeq(p, Len(a) + 1, Len(p))
    BY Rejoined, Zenon
  <1>3. PICK v : v \in Paths /\ IsJoin(x, p, v) /\ v = SubSeq(x, Len(p) + 1, Len(x))
    BY Rejoined, Zenon
  <1>4. PICK w : w \in Paths /\ IsJoin(x, a, w) /\ w = SubSeq(x, Len(a) + 1, Len(x))
    BY <1>1, Rejoined, Zenon
  <1>a. u \in Paths /\ v \in Paths /\ IsJoin(p, a, u) /\ IsJoin(x, p, v) /\ IsJoin(x, a, w)
    BY <1>2, <1>3, <1>4, Zenon
  <1>5. IsJoin(u \o v, u, v)
    BY <1>a, Joined, Zenon
  <1>6. PICK b : b = u \o v
    OBVIOUS
  <1>7. IsJoin(b, u, v)
    BY <1>5, <1>6, Zenon
  <1>8. IsJoin(x, a, b)
    BY <1>a, <1>7, JoinAssoc, Zenon
  <1>9. b = w
    <2>1. \A j \in 1..Len(b) : b[j] = w[j] /\ Len(b) = Len(w)
      BY <1>8, <1>a DEF IsJoin
    <2>2. Len(b) = Len(w) /\ b \in Paths /\ w \in Paths
      BY <1>4, <1>7, <1>8, <1>a DEF IsJoin
    <2> QED
      BY <2>1, <2>2, SameElements DEF Paths
  <1>10. PICK c : c = r \o u /\ IsJoin(c, r, u)
    BY <1>a, Joined, Zenon
  <1>11. c \in Paths /\ b \in Paths
    BY <1>7, <1>10 DEF IsJoin
  <1>12. IsJoin(c \o v, c, v) /\ IsJoin(r \o b, r, b)
    BY <1>a, <1>11, Joined, Zenon
  <1>13. IsJoin(c \o v, r, b)
    BY <1>7, <1>10, <1>12, JoinAssoc, Zenon
  <1>14. c \o v = r \o b
    BY <1>12, <1>13, JoinUnique, Zenon
  <1> QED
    BY <1>2, <1>3, <1>4, <1>9, <1>10, <1>14, Zenon DEF Through

-----------------------------------------------------------------------------
(* What shows *)

\* The mount that shows p is over it, and the last of those that are.
LEMMA ShowingOver ==
    ASSUME NEW s, MountsOK(s), NEW p \in Paths
    PROVE  /\ Showing(s, p) \in DOMAIN s.mounts /\ Showing(s, p) \in Nat
           /\ Over(s, Showing(s, p), p)
           /\ \A j \in DOMAIN s.mounts : Over(s, j, p) => j <= Showing(s, p)
  <1> DEFINE S == {j \in DOMAIN s.mounts : Over(s, j, p)}
  <1>1. /\ 1 \in DOMAIN s.mounts /\ s.mounts[1].at = <<>>
        /\ Latest(s) \in Nat /\ DOMAIN s.mounts \subseteq 1..Latest(s)
    BY DEF MountsOK
  <1>2. IsPrefix(<<>>, p)
    BY PrefixOrder DEF Paths
  <1>3. 1 \in S
    BY <1>1, <1>2 DEF Over
  <1>4. S \in SUBSET Int /\ \A x \in S : 0 <= x /\ x <= Latest(s)
    BY <1>1
  <1>5. Showing(s, p) = Max(S)
    BY DEF Showing, Over
  <1> HIDE DEF S
  <1>6. Max(S) \in S /\ \A y \in S : y <= Max(S)
    <2>1. Latest(s) \in Int /\ S # {}
      BY <1>1, <1>3
    <2> QED
      BY <2>1, <1>4, MaxOf, Zenon
  <1> QED
    BY <1>1, <1>5, <1>6 DEF S

\* ... and the only one.
LEMMA ShowingIs ==
    ASSUME NEW s, DOMAIN s.mounts \subseteq Int, NEW p, NEW j \in DOMAIN s.mounts, Over(s, j, p),
           \A n \in DOMAIN s.mounts : Over(s, n, p) => n <= j
    PROVE  Showing(s, p) = j
  <1> DEFINE S == {n \in DOMAIN s.mounts : Over(s, n, p)}
  <1>1. Showing(s, p) = Max(S)
    BY DEF Showing, Over
  <1>2. S \in SUBSET Int /\ j \in S /\ \A y \in S : y <= j
    OBVIOUS
  <1> HIDE DEF S
  <1>3. Max(S) = j
    BY <1>2, MaxIs
  <1> QED
    BY <1>1, <1>3

\* The mount that shows a path and the file it leads to.
LEMMA FileIs ==
    ASSUME NEW s, MountsOK(s), NEW p \in Paths
    PROVE  /\ MountOf(s, p) = s.mounts[Showing(s, p)] /\ MountOf(s, p) \in MountRecs
           /\ IsPrefix(MountOf(s, p).at, p)
           /\ File(s, p) = <<MountOf(s, p).fs, MountOf(s, p).root
                                 \o SubSeq(p, Len(MountOf(s, p).at) + 1, Len(p))>>
           /\ File(s, p) \in FileNames
           /\ File(s, p)[1] \in STRING \X Nat /\ File(s, p)[2] \in Paths
  <1>1. Showing(s, p) \in DOMAIN s.mounts /\ Over(s, Showing(s, p), p)
    BY ShowingOver
  <1>2. MountOf(s, p) = s.mounts[Showing(s, p)]
    BY DEF MountOf
  <1>3. MountOf(s, p) \in MountRecs /\ IsPrefix(MountOf(s, p).at, p)
    BY <1>1, <1>2 DEF MountsOK, Over
  <1>4. PICK m \in MountRecs : m = MountOf(s, p)
    BY <1>3
  <1>5. m.fs \in STRING \X Nat /\ m.root \in Paths /\ m.at \in Paths /\ IsPrefix(m.at, p)
    BY <1>3, <1>4 DEF MountRecs
  <1>6. PICK r \in Paths : r = SubSeq(p, Len(m.at) + 1, Len(p))
    BY <1>5, Rejoined, Zenon
  <1>7. m.root \o r \in Paths
    BY <1>5, <1>6 DEF Paths
  <1>8. File(s, p) = <<m.fs, m.root \o SubSeq(p, Len(m.at) + 1, Len(p))>>
    BY <1>4 DEF File
  <1>9. <<m.fs, m.root \o r>> \in FileNames
    BY <1>5, <1>7 DEF FileNames
  <1>10. File(s, p) = <<m.fs, m.root \o r>>
    BY <1>6, <1>8
  <1>11. File(s, p)[1] \in STRING \X Nat /\ File(s, p)[2] \in Paths
    BY <1>5, <1>7, <1>10
  <1>12. File(s, p) \in FileNames
    BY <1>9, <1>10, Zenon
  <1>13. File(s, p) = <<MountOf(s, p).fs, MountOf(s, p).root
                                 \o SubSeq(p, Len(MountOf(s, p).at) + 1, Len(p))>>
    BY <1>4, <1>8, Zenon
  <1> QED
    BY <1>2, <1>3, <1>11, <1>12, <1>13, Zenon

-----------------------------------------------------------------------------
(* A new mount *)

\* What WithMount leaves and adds.
LEMMA WithMountIs ==
    ASSUME NEW s, MountsOK(s), s = [mounts |-> s.mounts, files |-> s.files], NEW m \in MountRecs
    PROVE  LET t == WithMount(s, m)
           IN /\ t = [mounts |-> t.mounts, files |-> s.files] /\ t.files = s.files
              /\ MountsOK(t) /\ Latest(t) = Latest(s) + 1
              /\ DOMAIN t.mounts = DOMAIN s.mounts \cup {Latest(s) + 1}
              /\ \A j \in DOMAIN s.mounts : t.mounts[j] = s.mounts[j]
              /\ t.mounts[Latest(s) + 1] = m
  <1> DEFINE n == Latest(s) + 1
             t == WithMount(s, m)
  <1>1. /\ Latest(s) \in Nat /\ DOMAIN s.mounts \subseteq 1..Latest(s)
        /\ 1 \in DOMAIN s.mounts /\ s.mounts[1].at = <<>>
        /\ \A j \in DOMAIN s.mounts : s.mounts[j] \in MountRecs
    BY DEF MountsOK
  <1>2. t.mounts = [j \in DOMAIN s.mounts \cup {n} |-> IF j \in DOMAIN s.mounts THEN s.mounts[j] ELSE m]
    BY DEF WithMount
  <1>3. t = [mounts |-> t.mounts, files |-> s.files] /\ t.files = s.files
    BY DEF WithMount
  <1>4. n \in Nat /\ n \notin DOMAIN s.mounts /\ \A j \in DOMAIN s.mounts : j \in Nat /\ j <= n
    BY <1>1
  <1> HIDE DEF n, t
  <1>5. /\ DOMAIN t.mounts = DOMAIN s.mounts \cup {n} /\ t.mounts[n] = m
        /\ \A j \in DOMAIN s.mounts : t.mounts[j] = s.mounts[j]
        /\ t.mounts = [j \in DOMAIN t.mounts |-> t.mounts[j]]
    BY <1>2, <1>4
  <1>6. Latest(t) = n
    <2>1. DOMAIN t.mounts \in SUBSET Int /\ n \in DOMAIN t.mounts /\ \A j \in DOMAIN t.mounts : j <= n
      BY <1>4, <1>5
    <2>2. Max(DOMAIN t.mounts) = n
      BY <2>1, MaxIs
    <2> QED
      BY <2>2 DEF Latest
  <1>7. MountsOK(t)
    <2>1. DOMAIN t.mounts \subseteq 1..n
      BY <1>1, <1>4, <1>5 DEF n
    <2> QED
      BY <2>1, <1>1, <1>4, <1>5, <1>6 DEF MountsOK
  <1> QED
    BY <1>3, <1>5, <1>6, <1>7 DEF n, t

\* A new mount shows at its path and below it, unless it is over the root.
LEMMA MountShows ==
    ASSUME NEW s, MountsOK(s), s = [mounts |-> s.mounts, files |-> s.files], NEW m \in MountRecs,
           NEW x \in Paths
    PROVE  /\ IsPrefix(m.at, x) /\ m.at # <<>> => MountOf(WithMount(s, m), x) = m
           /\ ~(IsPrefix(m.at, x) /\ m.at # <<>>) =>
                  MountOf(WithMount(s, m), x) = MountOf(s, x)
  <1> DEFINE n == Latest(s) + 1
  <1>1. PICK t : /\ t = WithMount(s, m) /\ MountsOK(t) /\ DOMAIN t.mounts = DOMAIN s.mounts \cup {n}
                 /\ \A j \in DOMAIN s.mounts : t.mounts[j] = s.mounts[j]
                 /\ t.mounts[n] = m
    BY WithMountIs
  <1>2. /\ n \in Nat /\ DOMAIN s.mounts \subseteq Int /\ DOMAIN t.mounts \subseteq Int
        /\ \A j \in DOMAIN s.mounts : j < n
    BY <1>1 DEF MountsOK
  <1>a. n # 1
    BY DEF MountsOK
  <1> HIDE DEF n
  <1>3. \A j \in DOMAIN s.mounts : Over(t, j, x) <=> Over(s, j, x)
    BY <1>1 DEF Over
  <1>4. CASE IsPrefix(m.at, x) /\ m.at # <<>>
    <2>1. n \in DOMAIN t.mounts /\ Over(t, n, x)
      BY <1>1, <1>4 DEF Over
    <2>2. \A j \in DOMAIN t.mounts : Over(t, j, x) => j <= n
      BY <1>1, <1>2
    <2>3. Showing(t, x) = n
      BY <1>2, <2>1, <2>2, ShowingIs
    <2> QED
      BY <1>1, <1>4, <2>3 DEF MountOf
  <1>5. CASE ~(IsPrefix(m.at, x) /\ m.at # <<>>)
    <2>1. ~Over(t, n, x)
      BY <1>a, <1>1, <1>5 DEF Over
    <2>2. PICK j \in DOMAIN s.mounts : /\ j = Showing(s, x) /\ Over(s, j, x)
                                       /\ \A l \in DOMAIN s.mounts : Over(s, l, x) => l <= j
      BY ShowingOver
    <2>3. j \in DOMAIN t.mounts /\ Over(t, j, x)
      BY <1>1, <1>3, <2>2
    <2>4. \A l \in DOMAIN t.mounts : Over(t, l, x) => l <= j
      BY <1>1, <1>3, <2>1, <2>2
    <2>5. Showing(t, x) = j
      BY <1>2, <2>3, <2>4, ShowingIs
    <2> QED
      BY <1>1, <1>5, <2>2, <2>5 DEF MountOf
  <1> QED
    BY <1>4, <1>5

-----------------------------------------------------------------------------
(* Bind mounts *)

\* The mount that a bind of `from` to p adds.
BindOf(s, from, p) ==
    [at |-> p, fs |-> File(s, from)[1], root |-> File(s, from)[2], ro |-> MountOf(s, from).ro,
     top |-> TRUE]

\* It is a mount, and Bound adds it.
LEMMA BindOfType ==
    ASSUME NEW s, MountsOK(s), NEW from \in Paths, NEW p \in Paths
    PROVE  BindOf(s, from, p) \in MountRecs /\ Bound(s, from, p) = WithMount(s, BindOf(s, from, p))
  <1>1. File(s, from)[1] \in STRING \X Nat /\ File(s, from)[2] \in Paths /\ MountOf(s, from) \in MountRecs
    BY FileIs
  <1>2. MountOf(s, from).ro \in BOOLEAN
    BY <1>1 DEF MountRecs
  <1>3. BindOf(s, from, p) \in MountRecs
    BY <1>1, <1>2 DEF BindOf, MountRecs
  <1> QED
    BY <1>3 DEF Bound, BindOf

\* A mount below p, moved below q.
LEMMA MovedType ==
    ASSUME NEW m \in MountRecs, NEW p \in Paths, NEW q \in Paths, IsPrefix(p, m.at)
    PROVE  /\ Moved(m, p, q) \in MountRecs
           /\ Moved(m, p, p) = m
  <1>1. m.at \in Paths
    BY DEF MountRecs
  <1>2. PICK r \in Paths : r = SubSeq(m.at, Len(p) + 1, Len(m.at)) /\ p \o r = m.at
    BY <1>1, Rejoined
  <1>3. q \o r \in Paths
    BY <1>2 DEF Paths
  <1>4. Moved(m, p, q) = [m EXCEPT !.at = q \o r] /\ Moved(m, p, p) = [m EXCEPT !.at = m.at]
    BY <1>2 DEF Moved
  <1>5. PICK z \in Paths : z = q \o r
    BY <1>3
  <1>6. [m EXCEPT !.at = z] \in MountRecs
    BY DEF MountRecs
  <1>7. [m EXCEPT !.at = m.at] = m
    BY DEF MountRecs
  <1> QED
    BY <1>4, <1>5, <1>6, <1>7

\* The number of a copy that a recursive bind makes.
CopyNo(s, from, p, j) == \E n \in Copied(s, from, p) : j = Latest(s) + 1 + n

\* What a recursive bind leaves and adds: the bind, and after it the copies.
LEMMA BoundRecIs ==
    ASSUME NEW s, MountsOK(s), s = [mounts |-> s.mounts, files |-> s.files],
           NEW from \in Paths, NEW p \in Paths
    PROVE  LET u == BoundRec(s, from, p)
               last == Latest(s) + 1
           IN /\ u = [mounts |-> u.mounts, files |-> s.files] /\ u.files = s.files
              /\ MountsOK(u)
              /\ DOMAIN u.mounts = DOMAIN s.mounts \cup {last} \cup {last + n : n \in Copied(s, from, p)}
              /\ last \in DOMAIN u.mounts /\ DOMAIN s.mounts \subseteq DOMAIN u.mounts
              /\ \A j \in DOMAIN u.mounts : j \in DOMAIN s.mounts \/ j = last \/ CopyNo(s, from, p, j)
              /\ \A j \in DOMAIN s.mounts : u.mounts[j] = s.mounts[j]
              /\ u.mounts[last] = BindOf(s, from, p)
              /\ \A n \in Copied(s, from, p) : u.mounts[last + n] = Moved(s.mounts[n], from, p)
  <1> DEFINE last == Latest(s) + 1
             u == BoundRec(s, from, p)
             D == DOMAIN s.mounts \cup {last} \cup {last + n : n \in Copied(s, from, p)}
  <1>1. /\ Latest(s) \in Nat /\ DOMAIN s.mounts \subseteq 1..Latest(s)
        /\ 1 \in DOMAIN s.mounts /\ s.mounts[1].at = <<>>
        /\ \A j \in DOMAIN s.mounts : s.mounts[j] \in MountRecs
    BY DEF MountsOK
  <1>2. PICK t : /\ t = Bound(s, from, p)
                 /\ t = [mounts |-> t.mounts, files |-> s.files] /\ t.files = s.files
                 /\ DOMAIN t.mounts = DOMAIN s.mounts \cup {last}
                 /\ \A j \in DOMAIN s.mounts : t.mounts[j] = s.mounts[j]
                 /\ t.mounts[last] = BindOf(s, from, p)
    <2>1. PICK m \in MountRecs : m = BindOf(s, from, p) /\ Bound(s, from, p) = WithMount(s, m)
      BY BindOfType
    <2> QED
      BY <2>1, WithMountIs
  <1>3. u = [t EXCEPT !.mounts = [j \in DOMAIN t.mounts \cup {last + n : n \in Copied(s, from, p)} |->
               IF j \in DOMAIN t.mounts THEN t.mounts[j] ELSE Moved(s.mounts[j - last], from, p)]]
    BY <1>2 DEF BoundRec
  <1>4. last \in Nat /\ last > 0 /\ \A j \in DOMAIN s.mounts : j \in Nat /\ 1 <= j /\ j < last
    BY <1>1
  <1>5. Copied(s, from, p) \subseteq DOMAIN s.mounts
        /\ \A n \in Copied(s, from, p) : IsPrefix(from, s.mounts[n].at)
    BY DEF Copied, Submounts, IsStrictPrefix
  <1> HIDE DEF last, u
  <1>6. u = [mounts |-> u.mounts, files |-> s.files] /\ u.files = s.files
    BY <1>2, <1>3
  <1>7. u.mounts = [j \in D |->
               IF j \in DOMAIN s.mounts \cup {last} THEN t.mounts[j] ELSE Moved(s.mounts[j - last], from, p)]
    <2>1. u.mounts = [j \in DOMAIN t.mounts \cup {last + n : n \in Copied(s, from, p)} |->
               IF j \in DOMAIN t.mounts THEN t.mounts[j] ELSE Moved(s.mounts[j - last], from, p)]
      BY <1>2, <1>3
    <2> QED
      BY <1>2, <2>1
  <1>8. ASSUME NEW n \in Copied(s, from, p)
        PROVE  /\ n \in Nat /\ last + n \in Nat /\ (last + n) - last = n /\ last + n <= last + last
               /\ 1 <= last + n /\ last + n \notin DOMAIN s.mounts \cup {last}
    BY <1>4, <1>5
  <1>9. DOMAIN u.mounts = D /\ u.mounts = [j \in DOMAIN u.mounts |-> u.mounts[j]]
    BY <1>7
  <1>10. \A j \in DOMAIN s.mounts : u.mounts[j] = s.mounts[j]
    BY <1>2, <1>7
  <1>11. u.mounts[last] = BindOf(s, from, p)
    BY <1>2, <1>7
  <1>12. ASSUME NEW n \in Copied(s, from, p) PROVE u.mounts[last + n] = Moved(s.mounts[n], from, p)
    BY <1>7, <1>8
  <1>13. \A j \in DOMAIN u.mounts : u.mounts[j] \in MountRecs
    <2>1. \A j \in DOMAIN s.mounts : u.mounts[j] \in MountRecs
      BY <1>1, <1>10
    <2>2. u.mounts[last] \in MountRecs
      BY <1>11, BindOfType
    <2>3. ASSUME NEW n \in Copied(s, from, p) PROVE u.mounts[last + n] \in MountRecs
      <3>1. s.mounts[n] \in MountRecs /\ IsPrefix(from, s.mounts[n].at)
        BY <1>1, <1>5
      <3> QED
        BY <1>12, <3>1, MovedType
    <2> QED
      BY <1>9, <2>1, <2>2, <2>3
  <1>14. Latest(u) \in Nat /\ DOMAIN u.mounts \subseteq 1..Latest(u)
    <2>1. \A j \in D : j \in Nat /\ 1 <= j /\ j <= last + last
      BY <1>4, <1>8
    <2>2. D \in SUBSET Int /\ D # {} /\ last + last \in Int /\ \A j \in D : 0 <= j /\ j <= last + last
      BY <1>4, <2>1
    <2> HIDE DEF D
    <2>3. Max(D) \in D /\ \A j \in D : j <= Max(D)
      BY <2>2, MaxOf, Zenon
    <2> QED
      BY <1>9, <2>1, <2>3 DEF Latest
  <1>15. MountsOK(u)
    BY <1>1, <1>9, <1>10, <1>13, <1>14 DEF MountsOK
  <1>16. /\ last \in DOMAIN u.mounts /\ DOMAIN s.mounts \subseteq DOMAIN u.mounts
         /\ \A j \in DOMAIN u.mounts : j \in DOMAIN s.mounts \/ j = last \/ CopyNo(s, from, p, j)
    BY <1>9 DEF CopyNo, last
  <1> QED
    BY <1>6, <1>9, <1>10, <1>11, <1>12, <1>15, <1>16 DEF last, u

\* A directory above one above a path is above it.
LEMMA PrefixChain ==
    ASSUME NEW p \in Paths, NEW q \in Paths, NEW x \in Paths, IsPrefix(p, q), IsPrefix(q, x)
    PROVE  IsPrefix(p, x)
  BY PrefixOrder DEF Paths

\* Of two paths above the same one, one is above the other.
LEMMA PrefixTotal ==
    ASSUME NEW p \in Paths, NEW q \in Paths, NEW x \in Paths, IsPrefix(p, x), IsPrefix(q, x)
    PROVE  IsPrefix(p, q) \/ IsPrefix(q, p)
  BY PrefixOrder DEF Paths

\* Paths with a common first part.
LEMMA JoinPrefix ==
    ASSUME NEW a \in Paths, NEW b \in Paths, NEW c \in Paths
    PROVE  /\ a \o b \in Paths /\ IsPrefix(a, a \o b)
           /\ IsPrefix(a \o b, a \o c) <=> IsPrefix(b, c)
           /\ a # <<>> => a \o b # <<>>
           /\ b # <<>> => a \o b # a
  <1>0. IsJoin(a \o b, a, b) /\ IsJoin(a \o c, a, c)
    BY Joined
  <1>1. PICK x, y : /\ x = a \o b /\ y = a \o c /\ IsJoin(x, a, b) /\ IsJoin(y, a, c)
                    /\ x \in Seq(STRING) /\ y \in Seq(STRING)
    BY <1>0, Zenon DEF IsJoin, Paths
  <1>2. /\ Len(a) \in Nat /\ Len(b) \in Nat /\ Len(c) \in Nat
        /\ Len(x) = Len(a) + Len(b) /\ Len(y) = Len(a) + Len(c)
        /\ \A j \in 1..Len(a) : x[j] = a[j] /\ y[j] = a[j]
        /\ \A j \in 1..Len(b) : x[Len(a) + j] = b[j]
        /\ \A j \in 1..Len(c) : y[Len(a) + j] = c[j]
    BY <1>1 DEF IsJoin
  <1>3. IsPrefix(a, x)
    <2>1. a \in Seq(STRING) /\ Len(a) <= Len(x) /\ \A j \in 1..Len(a) : a[j] = x[j]
      BY <1>2 DEF Paths
    <2> QED
      BY <1>1, <2>1, PrefixDef
  <1>4. ASSUME IsPrefix(x, y) PROVE IsPrefix(b, c)
    <2>1. Len(x) <= Len(y) /\ \A j \in 1..Len(x) : x[j] = y[j]
      <3>1. x \in Seq(STRING) /\ y \in Seq(STRING)
        BY <1>1
      <3>2. IsPrefix(x, y) <=> Len(x) <= Len(y) /\ \A j \in 1..Len(x) : x[j] = y[j]
        BY <3>1, PrefixDef
      <3> QED
        BY <1>4, <3>2, Zenon
    <2>2. Len(b) <= Len(c)
      BY <1>2, <2>1
    <2>3. ASSUME NEW j \in 1..Len(b) PROVE b[j] = c[j]
      <3>1. Len(a) + j \in 1..Len(x) /\ j \in 1..Len(c)
        BY <1>2, <2>2
      <3> QED
        BY <1>2, <2>1, <3>1
    <2> QED
      BY <2>2, <2>3, PrefixDef DEF Paths
  <1>5. ASSUME IsPrefix(b, c) PROVE IsPrefix(x, y)
    <2>1. Len(b) <= Len(c) /\ \A j \in 1..Len(b) : b[j] = c[j]
      BY <1>5, PrefixDef DEF Paths
    <2>2. Len(x) <= Len(y)
      BY <1>2, <2>1
    <2>3. ASSUME NEW j \in 1..Len(x) PROVE x[j] = y[j]
      <3>1. CASE j <= Len(a)
        BY <1>2, <3>1
      <3>2. CASE j > Len(a)
        <4>1. j - Len(a) \in 1..Len(b) /\ j - Len(a) \in 1..Len(c) /\ Len(a) + (j - Len(a)) = j
          BY <1>2, <2>1, <3>2
        <4> QED
          BY <1>2, <2>1, <4>1, ZenonT(60)
      <3> QED
        BY <1>2, <3>1, <3>2
    <2> QED
      BY <1>1, <2>2, <2>3, PrefixDef
  <1>6. a # <<>> => x # <<>>
    BY <1>2 DEF Paths
  <1>7. b # <<>> => x # a
    BY <1>2 DEF Paths
  <1> QED
    BY <1>1, <1>3, <1>4, <1>5, <1>6, <1>7, Zenon DEF Paths

\* What is left after a common first part.
LEMMA RestJoin ==
    ASSUME NEW a \in Paths, NEW r \in Paths, NEW v \in Paths, IsPrefix(r, v)
    PROVE  SubSeq(a \o v, Len(a \o r) + 1, Len(a \o v)) = SubSeq(v, Len(r) + 1, Len(v))
  <1>1. PICK x, y : /\ x = a \o r /\ y = a \o v /\ IsJoin(x, a, r) /\ IsJoin(y, a, v)
                    /\ x \in Paths /\ y \in Paths /\ IsPrefix(x, y)
    BY Joined, JoinPrefix DEF IsJoin
  <1>2. PICK w : w \in Paths /\ w = SubSeq(y, Len(x) + 1, Len(y)) /\ IsJoin(y, x, w)
    BY <1>1, Rejoined, Zenon
  <1>3. PICK z : z \in Paths /\ z = SubSeq(v, Len(r) + 1, Len(v)) /\ IsJoin(v, r, z)
    BY Rejoined, Zenon
  <1>4. /\ Len(a) \in Nat /\ Len(r) \in Nat /\ Len(v) \in Nat /\ Len(w) \in Nat /\ Len(z) \in Nat
        /\ Len(x) = Len(a) + Len(r) /\ Len(y) = Len(a) + Len(v)
        /\ Len(y) = Len(x) + Len(w) /\ Len(v) = Len(r) + Len(z)
    BY <1>1, <1>2, <1>3 DEF IsJoin
  <1>5. Len(w) = Len(z)
    BY <1>4
  <1>6. ASSUME NEW j \in 1..Len(w) PROVE w[j] = z[j]
    <2>0. y[Len(x) + j] = w[j]
      BY <1>2 DEF IsJoin
    <2>a. /\ Len(r) + j \in 1..Len(v) /\ j \in 1..Len(z)
          /\ Len(x) + j = Len(a) + (Len(r) + j)
      BY <1>4
    <2>1. /\ y[Len(x) + j] = w[j] /\ Len(r) + j \in 1..Len(v) /\ j \in 1..Len(z)
          /\ Len(x) + j = Len(a) + (Len(r) + j)
      BY <2>0, <2>a
    <2>2. y[Len(a) + (Len(r) + j)] = v[Len(r) + j] /\ v[Len(r) + j] = z[j]
      BY <1>1, <1>3, <2>1 DEF IsJoin
    <2> QED
      BY <2>1, <2>2
  <1>7. w = z
    BY <1>2, <1>3, <1>5, <1>6, SameElements DEF Paths
  <1> QED
    BY <1>1, <1>2, <1>3, <1>7

\* A copy of mount m, below q as m is below p.
LEMMA MovedIs ==
    ASSUME NEW m \in MountRecs, NEW p \in Paths, NEW q \in Paths, IsPrefix(p, m.at)
    PROVE  \E r \in Paths : /\ m.at = p \o r /\ Moved(m, p, q).at = q \o r
                            /\ Moved(m, p, q).fs = m.fs /\ Moved(m, p, q).root = m.root
                            /\ Moved(m, p, q).ro = m.ro
  <1>1. m.at \in Paths
    BY DEF MountRecs
  <1>2. PICK r \in Paths : r = SubSeq(m.at, Len(p) + 1, Len(m.at)) /\ p \o r = m.at
    BY <1>1, Rejoined
  <1>3. PICK z : z = q \o r
    OBVIOUS
  <1>4. Moved(m, p, q) = [m EXCEPT !.at = z]
    BY <1>2, <1>3 DEF Moved
  <1>5. /\ [m EXCEPT !.at = z].at = z /\ [m EXCEPT !.at = z].fs = m.fs
        /\ [m EXCEPT !.at = z].root = m.root /\ [m EXCEPT !.at = z].ro = m.ro
    BY DEF MountRecs
  <1> QED
    BY <1>2, <1>3, <1>4, <1>5

\* A recursive bind shows below p what is shown below `from`, and changes nothing
\* elsewhere: of what is over a path below `from` either the mount that shows it is
\* copied, or the new mount at p stands in for it.
LEMMA BoundRecShows ==
    ASSUME NEW s, MountsOK(s), s = [mounts |-> s.mounts, files |-> s.files],
           NEW from \in Paths, NEW p \in Paths, p # <<>>
    PROVE  LET u == BoundRec(s, from, p)
           IN /\ \A x \in Paths : ~IsPrefix(p, x) => MountOf(u, x) = MountOf(s, x)
              /\ \A v \in Paths : /\ File(u, p \o v) = File(s, from \o v)
                                  /\ MountOf(u, p \o v).ro = MountOf(s, from \o v).ro
              /\ MountOf(u, p) = BindOf(s, from, p)
  <1> DEFINE last == Latest(s) + 1
             b == BindOf(s, from, p)
             C == Submounts(s, from)
  <1>1. PICK u : /\ u = BoundRec(s, from, p) /\ MountsOK(u)
                 /\ DOMAIN u.mounts = DOMAIN s.mounts \cup {last} \cup {last + n : n \in C}
                 /\ \A j \in DOMAIN s.mounts : u.mounts[j] = s.mounts[j]
                 /\ u.mounts[last] = b
                 /\ \A n \in C : u.mounts[last + n] = Moved(s.mounts[n], from, p)
    <2>1. Copied(s, from, p) = C
      BY DEF Copied
    <2> QED
      BY <2>1, BoundRecIs
  <1>2. /\ Latest(s) \in Nat /\ DOMAIN s.mounts \subseteq 1..Latest(s) /\ 1 \in DOMAIN s.mounts
        /\ \A j \in DOMAIN s.mounts : s.mounts[j] \in MountRecs /\ s.mounts[j].at \in Paths
    BY DEF MountsOK, MountRecs
  <1>3. last \in Nat /\ last > 1 /\ \A j \in DOMAIN s.mounts : j \in Nat /\ 1 <= j /\ j < last
    BY <1>2
  <1>4. ASSUME NEW n \in C
        PROVE  /\ n \in DOMAIN s.mounts /\ Showing(s, s.mounts[n].at) = n
               /\ IsPrefix(from, s.mounts[n].at) /\ s.mounts[n].at # from
               /\ \E r \in Paths :
                    /\ s.mounts[n].at = from \o r /\ u.mounts[last + n].at = p \o r
                    /\ u.mounts[last + n].fs = s.mounts[n].fs /\ u.mounts[last + n].root = s.mounts[n].root
                    /\ u.mounts[last + n].ro = s.mounts[n].ro
    <2>1. /\ n \in DOMAIN s.mounts /\ Showing(s, s.mounts[n].at) = n
          /\ IsPrefix(from, s.mounts[n].at) /\ s.mounts[n].at # from
      BY DEF Submounts, IsStrictPrefix
    <2>2. PICK m \in MountRecs : m = s.mounts[n] /\ IsPrefix(from, m.at)
      BY <1>2, <2>1
    <2>3. u.mounts[last + n] = Moved(m, from, p)
      BY <1>1, <2>2
    <2>4. PICK r \in Paths : /\ m.at = from \o r /\ Moved(m, from, p).at = p \o r
                             /\ Moved(m, from, p).fs = m.fs /\ Moved(m, from, p).root = m.root
                             /\ Moved(m, from, p).ro = m.ro
      BY <2>2, MovedIs, ZenonT(30)
    <2> QED
      BY <2>1, <2>2, <2>3, <2>4
  <1>5. DOMAIN u.mounts \subseteq Int
    BY <1>1 DEF MountsOK
  <1>6. b.at = p
    BY DEF BindOf
  <1> HIDE DEF last, b, C
  <1>7. ASSUME NEW x \in Paths, ~IsPrefix(p, x) PROVE MountOf(u, x) = MountOf(s, x)
    <2>1. PICK j \in DOMAIN s.mounts : /\ j = Showing(s, x) /\ Over(s, j, x)
                                       /\ \A l \in DOMAIN s.mounts : Over(s, l, x) => l <= j
      BY ShowingOver
    <2>2. \A l \in DOMAIN s.mounts : Over(u, l, x) <=> Over(s, l, x)
      BY <1>1 DEF Over
    <2>3. ~Over(u, last, x)
      BY <1>1, <1>6, <1>7 DEF Over
    <2>4. ASSUME NEW n \in C PROVE ~Over(u, last + n, x)
      <3>1. PICK r \in Paths : u.mounts[last + n].at = p \o r
        BY <1>4
      <3>2. IsPrefix(p, p \o r) /\ p \o r \in Paths
        BY JoinPrefix
      <3>3. ~IsPrefix(p \o r, x)
        BY <1>7, <3>2, PrefixOrder DEF Paths
      <3> QED
        BY <3>1, <3>3 DEF Over
    <2>5. \A l \in DOMAIN u.mounts : Over(u, l, x) => l \in DOMAIN s.mounts /\ Over(s, l, x)
      BY <1>1, <2>2, <2>3, <2>4
    <2>6. Showing(u, x) = j
      BY <1>1, <1>5, <2>1, <2>2, <2>5, ShowingIs
    <2> QED
      BY <1>1, <2>1, <2>6 DEF MountOf
  <1>8. ASSUME NEW v \in Paths
        PROVE  /\ File(u, p \o v) = File(s, from \o v)
               /\ MountOf(u, p \o v).ro = MountOf(s, from \o v).ro
               /\ v = <<>> => MountOf(u, p \o v) = b
    <2>1. PICK x \in Paths, y \in Paths : x = from \o v /\ y = p \o v /\ IsPrefix(from, x) /\ IsPrefix(p, y)
      BY JoinPrefix
    <2>2. PICK j \in DOMAIN s.mounts : /\ j = Showing(s, x) /\ Over(s, j, x)
                                       /\ \A l \in DOMAIN s.mounts : Over(s, l, x) => l <= j
      BY ShowingOver
    <2>3. PICK a \in Paths : a = s.mounts[j].at /\ IsPrefix(a, x) /\ (a = <<>> => j = 1)
      BY <1>2, <2>2 DEF Over
    \* Mount j shows every path between its own and x.
    <2>4. ASSUME NEW z \in Paths, IsPrefix(a, z), IsPrefix(z, x) PROVE Showing(s, z) = j
      <3>1. Over(s, j, z)
        BY <2>3, <2>4 DEF Over
      <3>2. ASSUME NEW l \in DOMAIN s.mounts, Over(s, l, z) PROVE l <= j
        <4>1. IsPrefix(s.mounts[l].at, z) /\ s.mounts[l].at \in Paths
          BY <1>2, <3>2 DEF Over
        <4>2. IsPrefix(s.mounts[l].at, x)
          BY <2>4, <4>1, PrefixOrder DEF Paths
        <4> QED
          BY <2>2, <3>2, <4>2 DEF Over
      <3>3. DOMAIN s.mounts \subseteq Int
        BY <1>3
      <3> QED
        BY <3>1, <3>2, <3>3, ShowingIs
    <2>5. Showing(s, a) = j
      <3>1. IsPrefix(a, a)
        BY PrefixOrder DEF Paths
      <3> QED
        BY <2>3, <2>4, <3>1
    \* A copy is over y if the mount it copies is over x.
    <2>6. ASSUME NEW n \in C PROVE Over(u, last + n, y) <=> Over(s, n, x)
      <3>1. PICK r \in Paths : s.mounts[n].at = from \o r /\ u.mounts[last + n].at = p \o r
        BY <1>4
      <3>2. IsPrefix(p \o r, y) <=> IsPrefix(from \o r, x)
        <4>1. IsPrefix(p \o r, p \o v) <=> IsPrefix(r, v)
          BY JoinPrefix
        <4>2. IsPrefix(from \o r, from \o v) <=> IsPrefix(r, v)
          BY JoinPrefix
        <4> QED
          BY <2>1, <4>1, <4>2
      <3>3. p \o r # <<>>
        BY JoinPrefix
      <3>4. from \o r # <<>>
        <4>1. from \o r # from /\ IsPrefix(from, from \o r) /\ from \o r \in Paths
          BY <1>4, <3>1, JoinPrefix
        <4>2. IsPrefix(<<>>, from) /\ <<>> \in Paths
          BY PrefixOrder DEF Paths
        <4> QED
          BY <4>1, <4>2, PrefixOrder DEF Paths
      <3> QED
        BY <3>1, <3>2, <3>3, <3>4 DEF Over
    <2>7. Over(u, last, y) /\ last \in DOMAIN u.mounts
      BY <1>1, <1>6, <2>1 DEF Over
    <2>8. CASE j \in C
      <3>1. PICK r \in Paths :
                    /\ a = from \o r /\ u.mounts[last + j].at = p \o r
                    /\ u.mounts[last + j].fs = s.mounts[j].fs /\ u.mounts[last + j].root = s.mounts[j].root
                    /\ u.mounts[last + j].ro = s.mounts[j].ro
        BY <1>4, <2>3, <2>8
      <3>2. last + j \in DOMAIN u.mounts /\ Over(u, last + j, y)
        BY <1>1, <2>2, <2>6, <2>8
      <3>3. \A l \in DOMAIN u.mounts : Over(u, l, y) => l <= last + j
        <4>1. \A l \in DOMAIN s.mounts \cup {last} : l <= last + j
          BY <1>3
        <4>2. ASSUME NEW n \in C, Over(u, last + n, y) PROVE last + n <= last + j
          <5>1. n <= j /\ n \in Nat /\ j \in Nat
            BY <1>3, <1>4, <2>2, <2>6, <4>2
          <5> QED
            BY <1>3, <5>1
        <4> QED
          BY <1>1, <4>1, <4>2
      <3>4. Showing(u, y) = last + j
        BY <1>5, <3>2, <3>3, ShowingIs
      <3>5. MountOf(u, y) = u.mounts[last + j] /\ MountOf(s, x) = s.mounts[j]
        BY <2>2, <3>4 DEF MountOf
      <3>6. IsPrefix(r, v)
        <4>1. IsPrefix(from \o r, from \o v)
          BY <2>1, <2>3, <3>1
        <4> QED
          BY <4>1, JoinPrefix
      <3>7. SubSeq(y, Len(p \o r) + 1, Len(y)) = SubSeq(v, Len(r) + 1, Len(v))
            /\ SubSeq(x, Len(a) + 1, Len(x)) = SubSeq(v, Len(r) + 1, Len(v))
        <4>1. SubSeq(p \o v, Len(p \o r) + 1, Len(p \o v)) = SubSeq(v, Len(r) + 1, Len(v))
          BY <3>6, RestJoin
        <4>2. SubSeq(from \o v, Len(from \o r) + 1, Len(from \o v)) = SubSeq(v, Len(r) + 1, Len(v))
          BY <3>6, RestJoin
        <4> QED
          BY <2>1, <3>1, <4>1, <4>2, Zenon
      <3>8. v # <<>>
        <4>1. SUFFICES ASSUME v = <<>> PROVE FALSE
          OBVIOUS
        <4>2. x = from
          BY <2>1, <4>1 DEF Paths
        <4>3. IsPrefix(from, a) /\ IsPrefix(a, from) /\ a # from
          BY <1>4, <2>3, <2>8, <4>2
        <4> QED
          BY <4>3, PrefixOrder DEF Paths
      <3>9. File(u, y) = File(s, x)
        BY <2>3, <3>1, <3>5, <3>7 DEF File
      <3> QED
        BY <2>1, <3>1, <3>5, <3>8, <3>9
    <2>9. CASE j \notin C
      \* No copy is over y.
      <3>1. ASSUME NEW n \in C PROVE ~Over(u, last + n, y)
        <4>1. SUFFICES ASSUME Over(u, last + n, y) PROVE FALSE
          OBVIOUS
        <4>2. Over(s, n, x) /\ n \in DOMAIN s.mounts
          BY <1>4, <2>6, <4>1
        <4>3. /\ n <= j /\ IsPrefix(s.mounts[n].at, x) /\ s.mounts[n].at \in Paths
              /\ IsPrefix(from, s.mounts[n].at) /\ s.mounts[n].at # from /\ Showing(s, s.mounts[n].at) = n
          BY <1>2, <1>4, <2>2, <4>2 DEF Over
        <4>4. IsPrefix(a, s.mounts[n].at) => j <= n
          <5>1. \A l \in DOMAIN s.mounts : Over(s, l, s.mounts[n].at) => l <= n
            BY <4>3, ShowingOver
          <5> QED
            BY <2>3, <5>1 DEF Over
        <4>5. n \in Nat /\ j \in Nat /\ n # j
          BY <1>3, <2>9, <4>2
        <4>6. ~IsPrefix(a, s.mounts[n].at)
          BY <4>3, <4>4, <4>5
        <4>7. IsPrefix(s.mounts[n].at, a)
          BY <2>3, <4>3, <4>6, PrefixOrder DEF Paths
        \* So j is strictly below `from`, and shows there.
        <4>8. IsPrefix(from, a) /\ from # a
          <5>1. PICK z \in Paths : z = s.mounts[n].at /\ IsPrefix(from, z) /\ IsPrefix(z, a)
            BY <4>3, <4>7, Zenon
          <5>2. IsPrefix(from, a)
            BY <2>3, <5>1, PrefixChain, Zenon
          <5>3. from # a
            BY <4>6, <5>1
          <5> QED
            BY <5>2, <5>3
        <4>9. j \in C
          BY <2>3, <2>5, <4>8 DEF C, Submounts, IsStrictPrefix
        <4> QED
          BY <2>9, <4>9
      \* j shows `from` itself.
      <3>2. IsPrefix(a, from)
        <4>1. SUFFICES ASSUME ~IsPrefix(a, from) PROVE FALSE
          OBVIOUS
        <4>2. IsPrefix(from, a) /\ from # a
          <5>1. IsPrefix(from, a)
            BY <2>1, <2>3, <4>1, PrefixTotal, Zenon
          <5>2. IsPrefix(from, from)
            BY PrefixOrder DEF Paths
          <5> QED
            BY <4>1, <5>1, <5>2
        <4>3. j \in C
          BY <2>3, <2>5, <4>2 DEF C, Submounts, IsStrictPrefix
        <4> QED
          BY <2>9, <4>3
      <3>3. Showing(s, from) = j
        BY <2>1, <2>4, <3>2
      <3>4. \A l \in DOMAIN u.mounts : Over(u, l, y) => l <= last
        BY <1>1, <1>3, <3>1
      <3>5. Showing(u, y) = last
        BY <1>5, <2>7, <3>4, ShowingIs
      <3>6. MountOf(u, y) = b /\ MountOf(s, x) = s.mounts[j] /\ MountOf(s, from) = s.mounts[j]
        BY <1>1, <2>2, <3>3, <3>5 DEF MountOf
      <3>7. PICK m \in MountRecs : m = s.mounts[j] /\ m.at = a /\ m.root \in Paths
        BY <1>2, <2>3 DEF MountRecs
      <3>8. PICK r, f, q, z : /\ r \in Paths /\ r = m.root /\ f = m.fs
                              /\ q = r \o SubSeq(from, Len(a) + 1, Len(from))
                              /\ z = r \o SubSeq(x, Len(a) + 1, Len(x))
        BY <3>7, Zenon
      <3>9. File(s, from) = <<f, q>> /\ File(s, x) = <<f, z>>
        BY <3>6, <3>7, <3>8 DEF File
      <3>10. b.fs = f /\ b.root = q /\ b.ro = m.ro
        <4>1. b.fs = File(s, from)[1] /\ b.root = File(s, from)[2] /\ b.ro = MountOf(s, from).ro
          BY DEF b, BindOf
        <4>2. <<f, q>>[1] = f /\ <<f, q>>[2] = q
          OBVIOUS
        <4> QED
          BY <3>6, <3>7, <3>9, <4>1, <4>2, Zenon
      <3>11. File(u, y) = <<b.fs, b.root \o SubSeq(y, Len(p) + 1, Len(y))>>
        BY <1>6, <3>6 DEF File
      <3>12. SubSeq(y, Len(p) + 1, Len(y)) = SubSeq(x, Len(from) + 1, Len(x))
        <4>1. <<>> \in Paths /\ IsPrefix(<<>>, v) /\ p \o <<>> = p /\ from \o <<>> = from
          BY PrefixOrder DEF Paths
        <4>2. PICK e \in Paths : IsPrefix(e, v) /\ p \o e = p /\ from \o e = from
          BY <4>1, Zenon
        <4>3. /\ SubSeq(p \o v, Len(p \o e) + 1, Len(p \o v)) = SubSeq(v, Len(e) + 1, Len(v))
              /\ SubSeq(from \o v, Len(from \o e) + 1, Len(from \o v)) = SubSeq(v, Len(e) + 1, Len(v))
          <5>1. SubSeq(p \o v, Len(p \o e) + 1, Len(p \o v)) = SubSeq(v, Len(e) + 1, Len(v))
            BY <4>2, RestJoin, ZenonT(60)
          <5>2. SubSeq(from \o v, Len(from \o e) + 1, Len(from \o v)) = SubSeq(v, Len(e) + 1, Len(v))
            BY <4>2, RestJoin, ZenonT(60)
          <5> QED
            BY <5>1, <5>2
        <4> QED
          BY <2>1, <4>2, <4>3, Zenon
      <3>13. q \o SubSeq(y, Len(p) + 1, Len(y)) = z
        <4>1. IsPrefix(a, from) /\ IsPrefix(from, x) /\ r \in Paths
          BY <2>1, <3>2, <3>8, Zenon
        <4>2. Through(r, a, from, x) = r \o SubSeq(x, Len(a) + 1, Len(x))
          BY <4>1, RestThrough, ZenonT(90)
        <4> QED
          BY <3>8, <3>12, <4>2, Zenon DEF Through
      <3>14. File(u, y) = File(s, x)
        BY <3>9, <3>10, <3>11, <3>13, Zenon
      <3> QED
        BY <2>1, <3>6, <3>7, <3>10, <3>14, Zenon
    <2> QED
      BY <2>8, <2>9
  <1>9. MountOf(u, p) = b
    <2>1. <<>> \in Paths /\ p \o <<>> = p
      BY DEF Paths
    <2>2. MountOf(u, p \o <<>>) = b
      BY <1>8, <2>1, Zenon
    <2> QED
      BY <2>1, <2>2, Zenon
  <1> QED
    BY <1>1, <1>7, <1>8, <1>9 DEF b

\* Over the root a bind is not seen.
LEMMA BoundOverRoot ==
    ASSUME NEW s, MountsOK(s), s = [mounts |-> s.mounts, files |-> s.files],
           NEW from \in Paths, NEW x \in Paths
    PROVE  /\ MountOf(BoundRec(s, from, <<>>), x) = MountOf(s, x)
           /\ BoundRec(s, from, <<>>).mounts = WithMount(s, BindOf(s, from, <<>>)).mounts
  <1>0. <<>> \in Paths
    BY DEF Paths
  <1>1. PICK p \in Paths : p = <<>>
    BY <1>0, Zenon
  <1>a. BindOf(s, from, p) \in MountRecs /\ BindOf(s, from, p).at = p
    BY BindOfType DEF BindOf
  <1>2. PICK m \in MountRecs : m = BindOf(s, from, p) /\ m.at = p
    BY <1>a
  <1>3. PICK w : /\ w = WithMount(s, m) /\ MountsOK(w) /\ DOMAIN w.mounts = DOMAIN s.mounts \cup {Latest(s) + 1}
                 /\ \A j \in DOMAIN s.mounts : w.mounts[j] = s.mounts[j]
                 /\ w.mounts[Latest(s) + 1] = m
    BY WithMountIs
  <1>4. Copied(s, from, p) = {}
    BY <1>1 DEF Copied
  <1>5. PICK u : /\ u = BoundRec(s, from, p) /\ MountsOK(u)
                 /\ DOMAIN u.mounts = DOMAIN s.mounts \cup {Latest(s) + 1}
                 /\ \A j \in DOMAIN s.mounts : u.mounts[j] = s.mounts[j]
                 /\ u.mounts[Latest(s) + 1] = m
    <2>1. MountsOK(BoundRec(s, from, p))
      BY BoundRecIs
    <2>2. DOMAIN BoundRec(s, from, p).mounts = DOMAIN s.mounts \cup {Latest(s) + 1}
      <3>1. /\ Latest(s) + 1 \in DOMAIN BoundRec(s, from, p).mounts
            /\ DOMAIN s.mounts \subseteq DOMAIN BoundRec(s, from, p).mounts
        BY BoundRecIs
      <3>2. ASSUME NEW j \in DOMAIN BoundRec(s, from, p).mounts
            PROVE  j \in DOMAIN s.mounts \/ j = Latest(s) + 1
        <4>1. j \in DOMAIN s.mounts \/ j = Latest(s) + 1 \/ CopyNo(s, from, p, j)
          BY <3>2, BoundRecIs
        <4> QED
          BY <1>4, <4>1 DEF CopyNo
      <3> QED
        BY <3>1, <3>2
    <2>3. \A j \in DOMAIN s.mounts : BoundRec(s, from, p).mounts[j] = s.mounts[j]
      BY BoundRecIs
    <2>4. BoundRec(s, from, p).mounts[Latest(s) + 1] = BindOf(s, from, p)
      BY BoundRecIs
    <2> QED
      BY <1>2, <2>1, <2>2, <2>3, <2>4
  <1>6. u.mounts = w.mounts
    <2>1. u.mounts = [j \in DOMAIN u.mounts |-> u.mounts[j]] /\ w.mounts = [j \in DOMAIN w.mounts |-> w.mounts[j]]
      BY <1>3, <1>5 DEF MountsOK
    <2>2. DOMAIN u.mounts = DOMAIN w.mounts /\ \A j \in DOMAIN u.mounts : u.mounts[j] = w.mounts[j]
      BY <1>3, <1>5
    <2> QED
      BY <2>1, <2>2
  <1>7. MountOf(w, x) = MountOf(s, x)
    BY <1>1, <1>2, <1>3, MountShows
  <1>8. MountOf(u, x) = MountOf(w, x)
    BY <1>6 DEF MountOf, Showing
  <1> QED
    BY <1>1, <1>2, <1>3, <1>5, <1>6, <1>7, <1>8

\* A recursive bind of p onto itself shows every path as it was shown before.
LEMMA BoundOntoItself ==
    ASSUME NEW s, MountsOK(s), s = [mounts |-> s.mounts, files |-> s.files],
           NEW p \in Paths, NEW x \in Paths
    PROVE  /\ File(BoundRec(s, p, p), x) = File(s, x)
           /\ MountOf(BoundRec(s, p, p), x).ro = MountOf(s, x).ro
  <1>1. CASE p = <<>>
    <2>1. MountOf(BoundRec(s, p, p), x) = MountOf(s, x)
      BY <1>1, BoundOverRoot
    <2> QED
      BY <2>1 DEF File
  <1>2. CASE p # <<>> /\ ~IsPrefix(p, x)
    <2>1. MountOf(BoundRec(s, p, p), x) = MountOf(s, x)
      BY <1>2, BoundRecShows
    <2> QED
      BY <2>1 DEF File
  <1>3. CASE p # <<>> /\ IsPrefix(p, x)
    <2>1. PICK v \in Paths : x = p \o v
      BY <1>3, Rejoined
    <2> QED
      BY <1>3, <2>1, BoundRecShows
  <1> QED
    BY <1>1, <1>2, <1>3

-----------------------------------------------------------------------------
(* A remount *)

\* The mounts of u are those of s, some of them made read-only.
SameButRo(s, u) ==
    /\ u.files = s.files /\ DOMAIN u.mounts = DOMAIN s.mounts /\ Latest(u) = Latest(s)
    /\ \A j \in DOMAIN s.mounts :
           /\ u.mounts[j].at = s.mounts[j].at /\ u.mounts[j].fs = s.mounts[j].fs
           /\ u.mounts[j].root = s.mounts[j].root /\ (s.mounts[j].ro => u.mounts[j].ro)
    /\ \A x \in Paths : Showing(u, x) = Showing(s, x)

\* A read-only remount makes the mount that shows p read-only, and leaves what
\* every path shows and what is read-only already.
LEMMA RemountShows ==
    ASSUME NEW s, IsKernel(s), NEW p \in Paths
    PROVE  LET u == RemountedRo(s, p)
           IN /\ IsKernel(u) /\ MountOf(u, p).ro /\ SameButRo(s, u)
              /\ \A x \in Paths : /\ File(u, x) = File(s, x)
                                  /\ MountOf(s, x).ro => MountOf(u, x).ro
                                  /\ MountOf(u, x).top = MountOf(s, x).top
  <1> DEFINE n == Showing(s, p)
             u == RemountedRo(s, p)
  <1>0. MountsOK(s) /\ s = [mounts |-> s.mounts, files |-> s.files]
    BY DEF IsKernel
  <1>1. n \in DOMAIN s.mounts
    BY <1>0, ShowingOver
  <1>2. u = [s EXCEPT !.mounts[n].ro = TRUE]
    BY DEF RemountedRo
  <1>3. u = [mounts |-> u.mounts, files |-> s.files] /\ u.files = s.files
        /\ u.mounts = [s.mounts EXCEPT ![n].ro = TRUE]
    BY <1>0, <1>2
  <1> HIDE DEF n, u
  <1>4. /\ \A j \in DOMAIN s.mounts : s.mounts[j] \in MountRecs
        /\ s.mounts = [j \in DOMAIN s.mounts |-> s.mounts[j]]
    BY <1>0 DEF MountsOK
  <1>5. /\ DOMAIN u.mounts = DOMAIN s.mounts /\ u.mounts = [j \in DOMAIN u.mounts |-> u.mounts[j]]
        /\ \A j \in DOMAIN s.mounts : j # n => u.mounts[j] = s.mounts[j]
        /\ u.mounts[n] = [s.mounts[n] EXCEPT !.ro = TRUE]
    BY <1>1, <1>3, <1>4
  <1>6. PICK m \in MountRecs : m = s.mounts[n]
    BY <1>1, <1>4
  <1>7. /\ u.mounts[n] \in MountRecs /\ u.mounts[n].at = m.at /\ u.mounts[n].fs = m.fs
        /\ u.mounts[n].root = m.root /\ u.mounts[n].ro = TRUE /\ u.mounts[n].top = m.top
    BY <1>5, <1>6 DEF MountRecs
  <1>8. \A j \in DOMAIN s.mounts :
           /\ u.mounts[j] \in MountRecs /\ u.mounts[j].at = s.mounts[j].at
           /\ u.mounts[j].fs = s.mounts[j].fs /\ u.mounts[j].root = s.mounts[j].root
           /\ s.mounts[j].ro => u.mounts[j].ro
           /\ u.mounts[j].top = s.mounts[j].top
    BY <1>4, <1>5, <1>6, <1>7
  <1>9. Latest(u) = Latest(s)
    BY <1>5 DEF Latest
  <1>10. MountsOK(u)
    BY <1>0, <1>5, <1>8, <1>9 DEF MountsOK
  <1>11. IsKernel(u)
    BY <1>3, <1>10 DEF IsKernel
  <1>12. ASSUME NEW x \in Paths PROVE Showing(u, x) = Showing(s, x)
    <2>1. PICK j \in DOMAIN s.mounts : /\ j = Showing(s, x) /\ Over(s, j, x)
                                       /\ \A l \in DOMAIN s.mounts : Over(s, l, x) => l <= j
      BY <1>0, ShowingOver
    <2>2. \A l \in DOMAIN s.mounts : Over(u, l, x) <=> Over(s, l, x)
      BY <1>8 DEF Over
    <2>3. /\ DOMAIN u.mounts \subseteq Int /\ j \in DOMAIN u.mounts /\ Over(u, j, x)
          /\ \A l \in DOMAIN u.mounts : Over(u, l, x) => l <= j
      BY <1>5, <1>10, <2>1, <2>2 DEF MountsOK
    <2> QED
      BY <2>1, <2>3, ShowingIs
  <1>13. ASSUME NEW x \in Paths
         PROVE  /\ File(u, x) = File(s, x) /\ (MountOf(s, x).ro => MountOf(u, x).ro)
                /\ MountOf(u, x).top = MountOf(s, x).top
    <2>1. Showing(s, x) \in DOMAIN s.mounts
      BY <1>0, ShowingOver
    <2> QED
      BY <1>8, <1>12, <2>1 DEF File, MountOf
  <1>14. MountOf(u, p).ro
    BY <1>7, <1>12 DEF MountOf, n
  <1>15. SameButRo(s, u)
    BY <1>3, <1>5, <1>8, <1>9, <1>12 DEF SameButRo
  <1> QED
    BY <1>11, <1>13, <1>14, <1>15 DEF u

-----------------------------------------------------------------------------
(* What the steps of the child make of the mounts *)

\* The mounts alone decide what is shown.
LEMMA SameMounts ==
    ASSUME NEW s, NEW t, t.mounts = s.mounts
    PROVE  \A x : File(t, x) = File(s, x) /\ MountOf(t, x) = MountOf(s, x)
  BY DEF File, MountOf, Showing

\* Only files are added.
AddsFiles(s, t) == IsKernel(t) /\ t.mounts = s.mounts

\* A kernel with more files.
LEMMA MoreFiles ==
    ASSUME NEW s, IsKernel(s), NEW F, F \subseteq [file : FileNames, kind : FileKinds]
    PROVE  AddsFiles(s, [s EXCEPT !.files = @ \cup F])
  <1>1. s = [mounts |-> s.mounts, files |-> s.files] /\ MountsOK(s)
        /\ s.files \subseteq [file : FileNames, kind : FileKinds]
    BY DEF IsKernel
  <1>2. PICK t : t = [s EXCEPT !.files = @ \cup F]
    OBVIOUS
  <1>3. t.mounts = s.mounts /\ t.files = s.files \cup F /\ t = [mounts |-> t.mounts, files |-> t.files]
    BY <1>1, <1>2
  <1>4. MountsOK(t)
    BY <1>1, <1>3 DEF MountsOK, Latest
  <1> QED
    BY <1>1, <1>2, <1>3, <1>4 DEF AddsFiles, IsKernel

\* The name of the file that a path leads to.
LEMMA FileEntry ==
    ASSUME NEW s, IsKernel(s), NEW p \in Paths, NEW kind \in FileKinds
    PROVE  [file |-> File(s, p), kind |-> kind] \in [file : FileNames, kind : FileKinds]
  BY FileIs DEF IsKernel

\* mkdir, creat and symlink.
LEMMA MadeType ==
    ASSUME NEW s, IsKernel(s), NEW p \in Paths, NEW kind \in FileKinds
    PROVE  AddsFiles(s, Made(s, p, kind))
  <1>1. CASE Creatable(s, p)
    <2>1. PICK F : F = {[file |-> File(s, p), kind |-> kind]}
                   /\ F \subseteq [file : FileNames, kind : FileKinds]
      BY FileEntry
    <2>2. AddsFiles(s, [s EXCEPT !.files = @ \cup F])
      BY <2>1, MoreFiles
    <2> QED
      BY <1>1, <2>1, <2>2 DEF Made
  <1>2. CASE ~Creatable(s, p)
    BY <1>2 DEF Made, AddsFiles
  <1> QED
    BY <1>1, <1>2

\* create_dir_all.
LEMMA MadeDirsType ==
    ASSUME NEW s, IsKernel(s), NEW p \in Paths
    PROVE  AddsFiles(s, MadeDirs(s, p))
  <1>1. CASE CanMakeDirs(s, p)
    <2>1. ASSUME NEW n \in Missing(s, p) PROVE Ancestor(p, n) \in Paths
      <3>1. n \in 1..Len(p)
        BY DEF Missing
      <3> QED
        BY <3>1 DEF Ancestor, Paths
    <2>2. PICK F : F = {[file |-> File(s, Ancestor(p, n)), kind |-> "dir"] : n \in Missing(s, p)}
      OBVIOUS
    <2>3. "dir" \in FileKinds
      BY DEF FileKinds
    <2>4. \A n \in Missing(s, p) :
             [file |-> File(s, Ancestor(p, n)), kind |-> "dir"] \in [file : FileNames, kind : FileKinds]
      BY <2>1, <2>3, FileEntry
    <2>5. F \subseteq [file : FileNames, kind : FileKinds]
      BY <2>2, <2>4
    <2>6. AddsFiles(s, [s EXCEPT !.files = @ \cup F])
      BY <2>5, MoreFiles
    <2> QED
      BY <1>1, <2>2, <2>6 DEF MadeDirs
  <1>2. CASE ~CanMakeDirs(s, p)
    BY <1>2 DEF MadeDirs, AddsFiles
  <1> QED
    BY <1>1, <1>2

\* Paths of the names that the module spells out.
LEMMA NamedPaths ==
    /\ <<>> \in Paths
    /\ \A a, b \in Names : <<a>> \in Paths /\ <<a, b>> \in Paths
    /\ \A a \in Names, n \in Nat : <<a, n>> \in STRING \X Nat
  <1>1. ASSUME NEW S, NEW a \in S, NEW b \in S PROVE <<a>> \in Seq(S) /\ <<a, b>> \in Seq(S)
    OBVIOUS
  <1>2. <<>> \in Paths
    BY DEF Paths
  <1>3. \A a, b \in STRING : <<a>> \in Paths /\ <<a, b>> \in Paths
    BY <1>1, Zenon DEF Paths
  <1>4. \A a \in STRING, n \in Nat : <<a, n>> \in STRING \X Nat
    OBVIOUS
  <1> QED
    BY <1>2, <1>3, <1>4, NamesAssumption

\* The paths of devices and links.
LEMMA DevPaths == \A name \in Names : Dev(name) \in Paths
  <1>1. "dev" \in Names
    BY DEF Names
  <1> QED
    BY <1>1, NamedPaths DEF Dev

\* Files made side by side.
LEMMA MadeEachType ==
    ASSUME NEW s, IsKernel(s), NEW P, P \subseteq Paths, NEW kind \in FileKinds
    PROVE  AddsFiles(s, MadeEach(s, P, kind))
  <1>1. PICK F : F = {[file |-> File(s, p), kind |-> kind] : p \in {q \in P : Creatable(s, q)}}
    OBVIOUS
  <1>2. \A p \in P : [file |-> File(s, p), kind |-> kind] \in [file : FileNames, kind : FileKinds]
    BY FileEntry
  <1>3. F \subseteq [file : FileNames, kind : FileKinds]
    BY <1>1, <1>2
  <1>4. AddsFiles(s, [s EXCEPT !.files = @ \cup F])
    BY <1>3, MoreFiles
  <1> QED
    BY <1>1, <1>4 DEF MadeEach

\* The links of setup_default_devices.
LEMMA LinkedType ==
    ASSUME NEW s, IsKernel(s)
    PROVE  AddsFiles(s, Linked(s))
  <1>1. PICK P : P = {Dev(name) : name \in Links}
    OBVIOUS
  <1>2. P \subseteq Paths /\ "link" \in FileKinds
    BY <1>1, DevPaths DEF Names, FileKinds
  <1>3. Linked(s) = MadeEach(s, P, "link")
    BY <1>1 DEF Linked
  <1> QED
    BY <1>2, <1>3, MadeEachType

\* A new mount, and files with it.
LEMMA MountedType ==
    ASSUME NEW s, IsKernel(s), NEW m \in MountRecs,
           NEW F, F \subseteq [file : FileNames, kind : FileKinds]
    PROVE  /\ IsKernel(WithMount(s, m))
           /\ AddsFiles(WithMount(s, m), [WithMount(s, m) EXCEPT !.files = @ \cup F])
  <1>1. s = [mounts |-> s.mounts, files |-> s.files] /\ MountsOK(s)
        /\ s.files \subseteq [file : FileNames, kind : FileKinds]
    BY DEF IsKernel
  <1>2. PICK t : /\ t = WithMount(s, m) /\ t = [mounts |-> t.mounts, files |-> s.files]
                 /\ t.files = s.files /\ MountsOK(t)
    BY <1>1, WithMountIs
  <1>3. IsKernel(t)
    BY <1>1, <1>2 DEF IsKernel
  <1>4. AddsFiles(t, [t EXCEPT !.files = @ \cup F])
    BY <1>3, MoreFiles
  <1> QED
    BY <1>2, <1>3, <1>4

\* The mount of a new file system.
FsMount(s, type, p, ro) ==
    [at |-> p, fs |-> <<type, Latest(s) + 1>>, root |-> <<>>, ro |-> ro, top |-> TRUE]

\* It is a mount; its file system brings files.
LEMMA FsMountType ==
    ASSUME NEW s, IsKernel(s), NEW type \in STRING, NEW p \in Paths, NEW ro \in BOOLEAN
    PROVE  /\ FsMount(s, type, p, ro) \in MountRecs
           /\ NewFiles(<<type, Latest(s) + 1>>, type) \subseteq [file : FileNames, kind : FileKinds]
           /\ Mounted(s, type, p, ro) =
                  [WithMount(s, FsMount(s, type, p, ro)) EXCEPT
                      !.files = @ \cup NewFiles(<<type, Latest(s) + 1>>, type)]
  <1>1. Latest(s) + 1 \in Nat
    BY DEF IsKernel, MountsOK
  <1>2. PICK n \in Nat : n = Latest(s) + 1
    BY <1>1
  <1>3. <<type, n>> \in STRING \X Nat /\ <<>> \in Paths
    <2>1. <<type, n>> \in STRING \X Nat
      OBVIOUS
    <2>2. <<>> \in Paths
      BY NamedPaths
    <2> QED
      BY <2>1, <2>2
  <1>4. FsMount(s, type, p, ro) \in MountRecs
    BY <1>2, <1>3 DEF FsMount, MountRecs
  <1>5. ASSUME NEW f \in Contents(type) PROVE f.path \in Paths /\ f.kind \in FileKinds
    <2>1. {"self", "fd", "sys", "kcore", "oom_score_adj", "hostname"} \subseteq Names
      BY DEF Names, Links
    <2>2. "dir" \in FileKinds /\ "file" \in FileKinds
      BY DEF FileKinds
    <2>3. {<<>>, <<"self">>, <<"self", "fd">>, <<"sys">>} \subseteq Paths
      BY <2>1, NamedPaths
    <2>4. {<<"kcore">>, <<"self", "oom_score_adj">>, <<"sys", "hostname">>} \subseteq Paths
      BY <2>1, NamedPaths
    <2>5. PICK D, R : /\ D = {<<>>, <<"self">>, <<"self", "fd">>, <<"sys">>}
                      /\ R = {<<"kcore">>, <<"self", "oom_score_adj">>, <<"sys", "hostname">>}
                      /\ D \subseteq Paths /\ R \subseteq Paths /\ <<>> \in Paths
      BY <2>3, <2>4
    <2>6. \/ \E q \in D : f = [path |-> q, kind |-> "dir"]
          \/ \E q \in R : f = [path |-> q, kind |-> "file"]
          \/ f = [path |-> <<>>, kind |-> "dir"]
      BY <2>5, Zenon DEF Contents
    <2> QED
      BY <2>2, <2>5, <2>6
  <1>6. PICK fs \in STRING \X Nat : fs = <<type, n>>
    BY <1>3
  <1>7. NewFiles(fs, type) \subseteq [file : FileNames, kind : FileKinds]
    <2>1. ASSUME NEW f \in Contents(type)
          PROVE  [file |-> <<fs, f.path>>, kind |-> f.kind] \in [file : FileNames, kind : FileKinds]
      <3>1. PICK q \in Paths, kd \in FileKinds : q = f.path /\ kd = f.kind
        BY <1>5
      <3>2. <<fs, q>> \in FileNames
        BY DEF FileNames
      <3>3. [file |-> <<fs, q>>, kind |-> kd] \in [file : FileNames, kind : FileKinds]
        BY <3>2
      <3> QED
        BY <3>1, <3>3
    <2> QED
      BY <2>1 DEF NewFiles
  <1>8. Mounted(s, type, p, ro) =
            [WithMount(s, FsMount(s, type, p, ro)) EXCEPT
                !.files = @ \cup NewFiles(<<type, Latest(s) + 1>>, type)]
    BY DEF Mounted, FsMount
  <1> QED
    BY <1>2, <1>4, <1>6, <1>7, <1>8

\* So is what comes of it.
LEMMA MountedKernel ==
    ASSUME NEW s, IsKernel(s), NEW type \in STRING, NEW p \in Paths, NEW ro \in BOOLEAN
    PROVE  /\ IsKernel(Mounted(s, type, p, ro))
           /\ Mounted(s, type, p, ro).mounts = WithMount(s, FsMount(s, type, p, ro)).mounts
  <1>1. PICK m, F : m = FsMount(s, type, p, ro) /\ F = NewFiles(<<type, Latest(s) + 1>>, type)
    OBVIOUS
  <1>2. m \in MountRecs /\ F \subseteq [file : FileNames, kind : FileKinds]
    BY <1>1, FsMountType
  <1>3. Mounted(s, type, p, ro) = [WithMount(s, m) EXCEPT !.files = @ \cup F]
    BY <1>1, FsMountType
  <1>4. AddsFiles(WithMount(s, m), [WithMount(s, m) EXCEPT !.files = @ \cup F])
    BY <1>2, MountedType
  <1> QED
    BY <1>1, <1>3, <1>4 DEF AddsFiles

\* Both kinds of bind.
LEMMA BoundType ==
    ASSUME NEW s, IsKernel(s), NEW from \in Paths, NEW p \in Paths
    PROVE  IsKernel(Bound(s, from, p)) /\ IsKernel(BoundRec(s, from, p))
  <1>1. s = [mounts |-> s.mounts, files |-> s.files] /\ MountsOK(s)
        /\ s.files \subseteq [file : FileNames, kind : FileKinds]
    BY DEF IsKernel
  <1>2. IsKernel(Bound(s, from, p))
    <2>1. PICK m \in MountRecs : Bound(s, from, p) = WithMount(s, m)
      BY <1>1, BindOfType
    <2>2. {} \subseteq [file : FileNames, kind : FileKinds]
      OBVIOUS
    <2> QED
      BY <2>1, <2>2, MountedType
  <1>3. PICK u : /\ u = BoundRec(s, from, p) /\ u = [mounts |-> u.mounts, files |-> s.files]
                 /\ u.files = s.files /\ MountsOK(u)
    BY <1>1, BoundRecIs
  <1>4. IsKernel(u)
    BY <1>1, <1>3 DEF IsKernel
  <1> QED
    BY <1>2, <1>3, <1>4

\* apply_mount.
LEMMA ApplyMountType ==
    ASSUME NEW s, IsKernel(s), NEW m, IsMount(m), ApplyMountPossible(s, m)
    PROVE  IsKernel(ApplyMount(s, m))
  <1>1. m.at \in Paths /\ Optional(m.from, Paths)
    BY DEF IsMount
  <1>2. PICK t : t = MadeDirs(s, m.at) /\ IsKernel(t)
    BY <1>1, MadeDirsType DEF AddsFiles
  <1>3. CanMount(t, m) /\ ApplyMount(s, m) = DoMount(t, m)
    BY <1>2 DEF ApplyMountPossible, ApplyMount
  <1>4. CASE IsBind(m)
    <2>1. m.from \in Paths
      BY <1>1, <1>3, <1>4 DEF CanMount, ChangesPropagation, Optional
    <2>2. DoMount(t, m) = BoundRec(t, m.from, m.at) \/ DoMount(t, m) = Bound(t, m.from, m.at)
      <3>1. "bind" \in m.options \/ "rbind" \in m.options
        BY <1>4 DEF IsBind
      <3> QED
        BY <3>1 DEF DoMount, ChangesPropagation, IsBind
    <2> QED
      BY <1>1, <1>2, <1>3, <2>1, <2>2, BoundType
  <1>5. CASE ~IsBind(m) /\ ChangesPropagation(m)
    BY <1>2, <1>3, <1>5 DEF DoMount, IsBind
  <1>6. CASE ~IsBind(m) /\ ~ChangesPropagation(m)
    <2>0. "bind" \notin m.options /\ "rbind" \notin m.options
      BY <1>6 DEF IsBind
    <2>a. m.type \in STRING
      BY <1>3, <1>6, NamesAssumption DEF CanMount, Names
    <2>1. DoMount(t, m) = Mounted(t, m.type, m.at, ReadOnly(m))
      BY <2>0, <1>6 DEF DoMount
    <2>2. ReadOnly(m) \in BOOLEAN
      BY DEF ReadOnly
    <2>3. PICK ro \in BOOLEAN : ro = ReadOnly(m)
      BY <2>2
    <2>4. IsKernel(Mounted(t, m.type, m.at, ro))
      BY <1>1, <1>2, <2>a, MountedKernel
    <2> QED
      BY <1>3, <2>1, <2>3, <2>4
  <1> QED
    BY <1>4, <1>5, <1>6

\* bind_devices.
LEMMA BindDeviceType ==
    ASSUME NEW s, IsKernel(s), NEW p \in Paths, NEW allowed \in BOOLEAN
    PROVE  IsKernel(BindDevice(s, p, allowed))
  <1>1. PICK t : t = Made(s, p, "file") /\ IsKernel(t)
    BY MadeType DEF AddsFiles, FileKinds
  <1>a. PICK fs \in STRING \X Nat : fs = <<"host", 0>>
    BY NamedPaths DEF Names
  <1>2. HostNode(p) \in MountRecs
    <2>1. HostNode(p) = [at |-> p, fs |-> fs, root |-> p, ro |-> FALSE, top |-> TRUE]
      BY <1>a DEF HostNode
    <2> QED
      BY <2>1 DEF MountRecs
  <1>3. PICK F : F = HostFiles(p) /\ F \subseteq [file : FileNames, kind : FileKinds]
    <2>1. ASSUME NEW q \in HostDevices \cup HostDirs, NEW kd \in FileKinds
          PROVE  [file |-> <<fs, q>>, kind |-> kd] \in [file : FileNames, kind : FileKinds]
      BY HostDevicesAssumption DEF FileNames
    <2>2. \A q : (IF q \in HostDirs THEN "dir" ELSE "file") \in FileKinds
      BY DEF FileKinds
    <2>3. ASSUME NEW f \in HostFiles(p)
          PROVE  f \in [file : FileNames, kind : FileKinds]
      <3>1. PICK q \in HostDevices \cup HostDirs :
               f = [file |-> <<fs, q>>, kind |-> IF q \in HostDirs THEN "dir" ELSE "file"]
        BY <1>a, <2>3 DEF HostFiles
      <3> QED
        BY <2>1, <2>2, <3>1
    <2> QED
      BY <2>3
  <1>4. IsKernel([WithMount(t, HostNode(p)) EXCEPT !.files = @ \cup F])
    BY <1>1, <1>2, <1>3, MountedType DEF AddsFiles
  <1> QED
    BY <1>1, <1>3, <1>4 DEF BindDevice

-----------------------------------------------------------------------------
(* Masks and read-only paths *)

\* What is left of a path after itself is nothing.
LEMMA NothingLeft ==
    ASSUME NEW r \in Paths, NEW p \in Paths
    PROVE  IsPrefix(p, p) /\ r \o SubSeq(p, Len(p) + 1, Len(p)) = r
  <1>1. IsPrefix(p, p)
    BY PrefixOrder DEF Paths
  <1>2. PICK e \in Paths : e = SubSeq(p, Len(p) + 1, Len(p)) /\ Len(e) = Len(p) - Len(p)
    <2>1. Len(p) \in Nat /\ Len(p) <= Len(p)
      BY DEF Paths
    <2> QED
      BY <2>1, Rest1
  <1>3. Len(e) = 0
    BY <1>2 DEF Paths
  <1>4. e = <<>>
    BY <1>3 DEF Paths
  <1>5. r \o <<>> = r
    BY DEF Paths
  <1> QED
    BY <1>1, <1>2, <1>4, <1>5, Zenon

\* x is below n.path, and shows what is covered by n.by there.
ShownBy(s, n, x) ==
    /\ IsPrefix(n.path, x)
    /\ File(s, x) = <<n.by[1], n.by[2] \o SubSeq(x, Len(n.path) + 1, Len(x))>>

\* A mount at p covers p and what is below it, and nothing else; what is mounted
\* over the root does not show.
LEMMA MountCovers ==
    ASSUME NEW s, IsKernel(s), NEW m \in MountRecs, NEW u, IsKernel(u),
           u.mounts = WithMount(s, m).mounts
    PROVE  /\ ShownBy(u, [path |-> m.at, by |-> File(u, m.at)], m.at)
           /\ \A x \in Paths : \/ File(u, x) = File(s, x)
                               \/ ShownBy(u, [path |-> m.at, by |-> File(u, m.at)], x)
  <1>0. MountsOK(s) /\ s = [mounts |-> s.mounts, files |-> s.files] /\ MountsOK(u)
    BY DEF IsKernel
  <1>1. m.at \in Paths /\ m.root \in Paths
    BY DEF MountRecs
  <1>2. PICK p \in Paths : p = m.at
    BY <1>1
  <1>3. PICK by : by = File(u, p)
    OBVIOUS
  <1>4. by[2] \in Paths /\ by = <<by[1], by[2]>>
    <2>1. by \in FileNames
      BY <1>0, <1>2, <1>3, FileIs
    <2> QED
      BY <2>1 DEF FileNames
  <1>5. ShownBy(u, [path |-> p, by |-> by], p)
    <2>1. by[2] \o SubSeq(p, Len(p) + 1, Len(p)) = by[2] /\ IsPrefix(p, p)
      BY <1>4, NothingLeft
    <2> QED
      BY <1>3, <1>4, <2>1 DEF ShownBy
  <1>6. \A x : MountOf(u, x) = MountOf(WithMount(s, m), x)
    BY DEF MountOf, Showing
  <1>7. ASSUME NEW x \in Paths
        PROVE  File(u, x) = File(s, x) \/ ShownBy(u, [path |-> p, by |-> by], x)
    <2>1. CASE IsPrefix(p, x) /\ p # <<>>
      <3>1. MountOf(u, x) = m
        BY <1>0, <1>2, <1>6, <2>1, MountShows
      <3>2. MountOf(u, p) = m
        <4>1. IsPrefix(p, p)
          BY NothingLeft
        <4> QED
          BY <1>0, <1>2, <1>6, <2>1, <4>1, MountShows
      <3>3. by = <<m.fs, m.root \o SubSeq(p, Len(p) + 1, Len(p))>>
        BY <1>2, <1>3, <3>2 DEF File
      <3>4. m.root \o SubSeq(p, Len(p) + 1, Len(p)) = m.root
        BY <1>1, NothingLeft
      <3>5. by = <<m.fs, m.root>>
        BY <3>3, <3>4, Zenon
      <3>6. by[1] = m.fs /\ by[2] = m.root
        BY <3>5
      <3>7. File(u, x) = <<m.fs, m.root \o SubSeq(x, Len(p) + 1, Len(x))>>
        BY <1>2, <3>1 DEF File
      <3> QED
        BY <2>1, <3>6, <3>7 DEF ShownBy
    <2>2. CASE ~(IsPrefix(p, x) /\ p # <<>>)
      <3>1. MountOf(u, x) = MountOf(s, x)
        BY <1>0, <1>2, <1>6, <2>2, MountShows
      <3> QED
        BY <3>1 DEF File
    <2> QED
      BY <2>1, <2>2
  <1> QED
    BY <1>2, <1>3, <1>5, <1>7

\* What has been masked is covered.
Covered(s, M) == \A m \in M : \E n \in M : ShownBy(s, n, m.path)

\* apply_masked_paths: one more path is covered, and none is uncovered.
LEMMA MaskCovers ==
    ASSUME NEW s, IsKernel(s), NEW p \in Paths, NEW M, \A m \in M : m.path \in Paths, Covered(s, M)
    PROVE  /\ IsKernel(Mask(s, p))
           /\ File(Mask(s, p), p) \in FileNames
           /\ Covered(Mask(s, p), M \cup {[path |-> p, by |-> File(Mask(s, p), p)]})
           /\ p = <<>> => Covered(Mask(s, p), M)
  <1>0. PICK m \in MountRecs : /\ IsKernel(Mask(s, p)) /\ m.at = p
                               /\ Mask(s, p).mounts = WithMount(s, m).mounts
    <2>1. CASE IsDir(s, p)
      <3>1. "mask" \in STRING /\ FALSE \in BOOLEAN
        BY NamesAssumption DEF Names
      <3>2. PICK m : m = FsMount(s, "mask", p, FALSE)
        OBVIOUS
      <3>3. m \in MountRecs /\ m.at = p
        BY <3>1, <3>2, FsMountType DEF FsMount
      <3>4. IsKernel(Mounted(s, "mask", p, FALSE))
            /\ Mounted(s, "mask", p, FALSE).mounts = WithMount(s, m).mounts
        BY <3>1, <3>2, MountedKernel
      <3> QED
        BY <2>1, <3>3, <3>4 DEF Mask
    <2>2. CASE ~IsDir(s, p)
      <3>1. DevNull \in Paths
        BY DevPaths DEF DevNull, Names
      <3>2. PICK m : m = BindOf(s, DevNull, p)
        OBVIOUS
      <3>3. m \in MountRecs /\ m.at = p /\ Bound(s, DevNull, p) = WithMount(s, m)
        BY <3>1, <3>2, BindOfType DEF BindOf, IsKernel
      <3>4. IsKernel(Bound(s, DevNull, p))
        BY <3>1, BoundType
      <3> QED
        BY <2>2, <3>3, <3>4 DEF Mask
    <2> QED
      BY <2>1, <2>2
  <1>1. PICK u : u = Mask(s, p) /\ IsKernel(u) /\ u.mounts = WithMount(s, m).mounts
    BY <1>0
  <1>2. PICK new : new = [path |-> p, by |-> File(u, p)]
    OBVIOUS
  <1>3. /\ ShownBy(u, new, p)
        /\ \A x \in Paths : File(u, x) = File(s, x) \/ ShownBy(u, new, x)
    BY <1>0, <1>1, <1>2, MountCovers
  <1>4. ASSUME NEW a \in M \cup {new} PROVE \E n \in M \cup {new} : ShownBy(u, n, a.path)
    <2>1. CASE a = new
      BY <1>2, <1>3, <2>1
    <2>2. CASE a \in M
      <3>1. PICK n \in M : ShownBy(s, n, a.path)
        BY <2>2 DEF Covered
      <3>2. ShownBy(u, new, a.path) \/ File(u, a.path) = File(s, a.path)
        BY <1>3, <2>2
      <3>3. File(u, a.path) = File(s, a.path) => ShownBy(u, n, a.path)
        BY <3>1 DEF ShownBy
      <3> QED
        BY <3>2, <3>3
    <2> QED
      BY <2>1, <2>2
  <1>5. File(u, p) \in FileNames
    BY <1>1, FileIs DEF IsKernel
  <1>6. ASSUME p = <<>> PROVE Covered(u, M)
    <2>1. \A x \in Paths : MountOf(WithMount(s, m), x) = MountOf(s, x)
      BY <1>0, <1>6, MountShows DEF IsKernel
    <2>2. ASSUME NEW x \in Paths PROVE File(u, x) = File(s, x)
      <3>1. MountOf(u, x) = MountOf(WithMount(s, m), x)
        BY <1>1, SameMounts, Zenon
      <3> QED
        BY <2>1, <3>1 DEF File
    <2> QED
      BY <2>2 DEF Covered, ShownBy
  <1> QED
    BY <1>1, <1>2, <1>4, <1>5, <1>6 DEF Covered

\* What has been covered stays so while every path shows what it did.
LEMMA StaysCovered ==
    ASSUME NEW s, NEW u, NEW M, \A m \in M : m.path \in Paths, Covered(s, M),
           \A x \in Paths : File(u, x) = File(s, x)
    PROVE  Covered(u, M)
  BY DEF Covered, ShownBy

\* apply_readonly_paths: a bind of p onto itself and the remount leave what every
\* path shows, and what is read-only.
LEMMA ReadonlyKeeps ==
    ASSUME NEW s, IsKernel(s), NEW p \in Paths, NEW remounts \in BOOLEAN
    PROVE  LET u == MakeReadonly(s, p, remounts)
           IN /\ IsKernel(u) /\ (remounts /\ MountOf(u, p).top => MountOf(u, p).ro)
              /\ p # <<>> => MountOf(u, p).top
              /\ \A x \in Paths : /\ File(u, x) = File(s, x)
                                  /\ MountOf(s, x).ro => MountOf(u, x).ro
  <1>1. PICK t : t = BoundRec(s, p, p) /\ IsKernel(t)
    BY BoundType
  <1>2. \A x \in Paths : File(t, x) = File(s, x) /\ MountOf(t, x).ro = MountOf(s, x).ro
    BY <1>1, BoundOntoItself DEF IsKernel
  <1>3. p # <<>> => MountOf(t, p).top
    <2>1. p # <<>> => MountOf(t, p) = BindOf(s, p, p)
      BY <1>1, BoundRecShows DEF IsKernel
    <2> QED
      BY <2>1 DEF BindOf
  <1>4. CASE remounts /\ MountOf(t, p).top
    <2>1. PICK u : /\ u = RemountedRo(t, p) /\ IsKernel(u) /\ MountOf(u, p).ro
                   /\ \A x \in Paths : /\ File(u, x) = File(t, x) /\ (MountOf(t, x).ro => MountOf(u, x).ro)
                                       /\ MountOf(u, x).top = MountOf(t, x).top
      BY <1>1, RemountShows
    <2>2. MakeReadonly(s, p, remounts) = u
      BY <1>1, <1>4, <2>1 DEF MakeReadonly
    <2> QED
      BY <1>2, <1>3, <2>1, <2>2
  <1>5. CASE ~(remounts /\ MountOf(t, p).top)
    <2>1. MakeReadonly(s, p, remounts) = t
      BY <1>1, <1>5 DEF MakeReadonly
    <2> QED
      BY <1>1, <1>2, <1>3, <1>5, <2>1
  <1> QED
    BY <1>4, <1>5

-----------------------------------------------------------------------------
(* The inductive invariant *)

BeforeMask == {"load", "isolate", "open", "chroot", "chdir", "mount", "devices", "sysctl"}
BeforeReadonly == BeforeMask \cup {"mask"}
BeforeCaps == BeforeReadonly \cup {"readonly", "oom", "caps"}
AfterCaps == {"root", "stdio", "exec"}
Steps == BeforeCaps \cup AfterCaps \cup {"rejected", "failed", "running"}

Creds ==
    [bounding : SUBSET AllCaps, effective : SUBSET AllCaps, permitted : SUBSET AllCaps,
     inheritable : SUBSET AllCaps, ambient : SUBSET AllCaps]

\* Where the child is: the part of TypeOK that its control decides.
PlaceOK ==
    /\ conf \in Configs /\ pc \in Steps
    /\ pc # "failed" => i \in 1..(Len(Walked) + 1) /\ why = ""
    /\ refused \subseteq Refusals

DevicesOK ==
    /\ devices \in Seq(Paths)
    /\ Range(devices) \subseteq (HostDevices \cup HostDirs) \cap Range(Requested(conf))

\* The kernel's mounts and files, and the history kept of them.
MountInv ==
    /\ IsKernel(k)
    /\ masked \subseteq [path : Range(conf.masked), by : FileNames]
    /\ sealed \subseteq Range(conf.readonlyPaths)
    /\ pc \in BeforeMask => masked = {}
    /\ pc \in BeforeReadonly => sealed = {}
    /\ MaskHolds /\ ReadonlyHolds

\* The capabilities are the first ones until apply_capabilities, and what it
\* makes of them until the entrypoint is executed.
CredInv ==
    /\ cred \in Creds
    /\ cred.effective \subseteq cred.permitted
    /\ cred.ambient \subseteq (cred.permitted \cap cred.inheritable)
    /\ pc \in BeforeCaps => cred = FirstCred
    /\ (pc \in AfterCaps /\ conf.caps # NoValue) =>
           /\ ApplyCapabilitiesPossible(FirstCred, conf.caps)
           /\ cred = ApplyCapabilities(FirstCred, conf.caps)
    /\ EntrypointCaps

IInv == PlaceOK /\ DevicesOK /\ MountInv /\ CredInv

-----------------------------------------------------------------------------
(* Capabilities *)

\* The five sets make a credential.
LEMMA CredOf ==
    ASSUME NEW B, B \subseteq AllCaps, NEW E, E \subseteq AllCaps, NEW P, P \subseteq AllCaps,
           NEW H, H \subseteq AllCaps, NEW N, N \subseteq AllCaps
    PROVE  LET cr == [bounding |-> B, effective |-> E, permitted |-> P, inheritable |-> H, ambient |-> N]
           IN cr \in Creds /\ cr.bounding = B /\ cr.effective = E /\ cr.permitted = P
              /\ cr.inheritable = H /\ cr.ambient = N
  BY DEF Creds

\* The credential a user namespace starts with.
LEMMA FirstCredIs ==
    /\ FirstCred \in Creds /\ FirstCred.bounding = AllCaps /\ FirstCred.inheritable = {}
    /\ FirstCred.permitted = AllCaps /\ FirstCred.effective = AllCaps /\ FirstCred.ambient = {}
  <1>a. PICK A : A = AllCaps
    OBVIOUS
  <1>b. PICK N : N = {}
    OBVIOUS
  <1>1. A = AllCaps /\ N = {} /\ A \subseteq AllCaps /\ N \subseteq AllCaps
    BY <1>a, <1>b
  <1>2. FirstCred = [bounding |-> A, effective |-> A, permitted |-> A, inheritable |-> N, ambient |-> N]
    BY <1>1 DEF FirstCred
  <1>3. FirstCred \in Creds /\ FirstCred.bounding = A /\ FirstCred.effective = A
        /\ FirstCred.permitted = A /\ FirstCred.inheritable = N /\ FirstCred.ambient = N
    BY <1>1, <1>2, CredOf
  <1> QED
    BY <1>1, <1>3

\* PR_CAPBSET_DROP leaves exactly the capabilities that bounding names.
LEMMA BoundingLeft ==
    ASSUME NEW c, CapMask(c.bounding) \subseteq AllCaps
    PROVE  /\ DropBounding(FirstCred, c) \in Creds
           /\ DropBounding(FirstCred, c).bounding = CapMask(c.bounding)
           /\ DropBounding(FirstCred, c).inheritable = {}
           /\ DropBounding(FirstCred, c).permitted = AllCaps
           /\ DropBounding(FirstCred, c).ambient = {}
  <1>1. AllCaps = {Caps[n] : n \in 1..Len(Caps)}
    BY CapsAssumption DEF AllCaps, Range
  <1>2. PICK B : B = CapMask(c.bounding)
    OBVIOUS
  <1>3. PICK L : L = AllCaps \ {Caps[n] : n \in {j \in 1..Len(Caps) : Caps[j] \notin B}}
    OBVIOUS
  <1>4. L = B
    BY <1>1, <1>2, <1>3
  <1>5. PICK f \in Creds : f = FirstCred /\ f.bounding = AllCaps /\ f.inheritable = {}
                           /\ f.permitted = AllCaps /\ f.ambient = {}
    BY FirstCredIs
  <1>6. DropBounding(FirstCred, c) = [f EXCEPT !.bounding = L]
    BY <1>2, <1>3, <1>5 DEF DropBounding
  <1>7. L \subseteq AllCaps
    BY <1>3
  <1> QED
    BY <1>2, <1>4, <1>5, <1>6, <1>7 DEF Creds

\* apply_capabilities gives each set what the config says, and the ambient set
\* what the other two allow.
LEMMA CapsApplied ==
    ASSUME NEW c, ApplyCapabilitiesPossible(FirstCred, c),
           DOMAIN c = {"bounding", "effective", "permitted", "inheritable", "ambient"}
    PROVE  LET cr == ApplyCapabilities(FirstCred, c)
           IN /\ cr \in Creds /\ cr.effective \subseteq cr.permitted
              /\ cr.bounding = CapMask(c.bounding) /\ cr.inheritable = CapMask(c.inheritable)
              /\ cr.inheritable \subseteq cr.bounding
              /\ cr.ambient = CapMask(c.ambient) \cap CapMask(c.permitted) \cap CapMask(c.inheritable)
              /\ cr.ambient \subseteq (cr.permitted \cap cr.inheritable)
  <1>1. KnownCaps(c) /\ CanSet(DropBounding(FirstCred, c), c)
    BY DEF ApplyCapabilitiesPossible
  <1>2. PICK B, E, P, H, A : /\ B = CapMask(c.bounding) /\ E = CapMask(c.effective)
                             /\ P = CapMask(c.permitted) /\ H = CapMask(c.inheritable)
                             /\ A = CapMask(c.ambient)
    OBVIOUS
  <1>3. /\ B \subseteq AllCaps /\ E \subseteq AllCaps /\ P \subseteq AllCaps
        /\ H \subseteq AllCaps /\ A \subseteq AllCaps
    <2>1. /\ CapMask(c["bounding"]) \subseteq AllCaps /\ CapMask(c["effective"]) \subseteq AllCaps
          /\ CapMask(c["permitted"]) \subseteq AllCaps /\ CapMask(c["inheritable"]) \subseteq AllCaps
          /\ CapMask(c["ambient"]) \subseteq AllCaps
      BY <1>1 DEF KnownCaps
    <2> QED
      BY <1>2, <2>1
  <1>4. PICK d \in Creds : /\ d = DropBounding(FirstCred, c) /\ d.bounding = B /\ d.inheritable = {}
    BY <1>2, <1>3, BoundingLeft
  <1>5. E \subseteq P /\ H \subseteq B
    BY <1>1, <1>2, <1>4 DEF CanSet
  <1>6. PICK N : N = A \cap P \cap H
    OBVIOUS
  <1>7. ApplyCapabilities(FirstCred, c) =
            [d EXCEPT !.effective = E, !.permitted = P, !.inheritable = H, !.ambient = N]
    BY <1>2, <1>4, <1>6 DEF ApplyCapabilities
  <1>8. PICK cr : cr = ApplyCapabilities(FirstCred, c)
    OBVIOUS
  <1>9. cr \in Creds /\ cr.bounding = B /\ cr.effective = E /\ cr.permitted = P /\ cr.inheritable = H
        /\ cr.ambient = N
    <2>1. d = [bounding |-> d.bounding, effective |-> d.effective, permitted |-> d.permitted,
               inheritable |-> d.inheritable, ambient |-> d.ambient]
      BY DEF Creds
    <2>2. cr = [bounding |-> B, effective |-> E, permitted |-> P, inheritable |-> H, ambient |-> N]
      BY <1>4, <1>7, <1>8, <2>1
    <2>3. N \subseteq AllCaps
      BY <1>3, <1>6
    <2> QED
      BY <1>3, <2>2, <2>3, CredOf
  <1>10. N \subseteq (P \cap H)
    BY <1>6
  <1> QED
    BY <1>2, <1>5, <1>6, <1>8, <1>9, <1>10

\* execve keeps the rules between the sets.
LEMMA ExecRules ==
    ASSUME NEW cr \in Creds, NEW root \in BOOLEAN,
           cr.ambient \subseteq (cr.permitted \cap cr.inheritable)
    PROVE  LET e == Exec(cr, root)
           IN /\ e \in Creds /\ e.effective \subseteq e.permitted
              /\ e.ambient \subseteq (e.permitted \cap e.inheritable)
              /\ e.bounding = cr.bounding
              /\ e.effective = IF root THEN cr.inheritable \cup cr.bounding ELSE cr.ambient
  <1>1. PICK X : X = ExecCaps(cr, root)
    OBVIOUS
  <1>2. /\ cr.bounding \subseteq AllCaps /\ cr.inheritable \subseteq AllCaps /\ cr.ambient \subseteq AllCaps
    BY DEF Creds
  <1>3. X \subseteq AllCaps /\ cr.ambient \subseteq X
        /\ X = IF root THEN cr.inheritable \cup cr.bounding ELSE cr.ambient
    BY <1>1, <1>2 DEF ExecCaps
  <1>4. Exec(cr, root) = [cr EXCEPT !.effective = X, !.permitted = X]
    BY <1>1 DEF Exec
  <1>5. PICK e : e = Exec(cr, root)
    OBVIOUS
  <1>6. /\ e \in Creds /\ e.effective = X /\ e.permitted = X /\ e.ambient = cr.ambient
        /\ e.inheritable = cr.inheritable /\ e.bounding = cr.bounding
    BY <1>3, <1>4, <1>5 DEF Creds
  <1> QED
    BY <1>3, <1>5, <1>6

-----------------------------------------------------------------------------
(* Steps that leave the mounts and the capabilities *)

\* The list that step p walks.
WalkedOf(p, c, d) ==
    CASE p = "open" -> Requested(c) [] p = "mount" -> c.mounts
      [] p = "devices" -> d [] p = "mask" -> c.masked
      [] p = "readonly" -> c.readonlyPaths [] OTHER -> <<>>

\* What of a config is used, and that it is well-formed.
LEMMA ConfigFacts ==
    ASSUME NEW c \in Configs
    PROVE  /\ Requested(c) \in Seq(Paths)
           /\ c.masked \in Seq(Paths) /\ c.readonlyPaths \in Seq(Paths)
           /\ Len(c.mounts) \in Nat /\ \A j \in 1..Len(c.mounts) : IsMount(c.mounts[j])
           /\ c.mapsRoot \in BOOLEAN
           /\ c.tree \subseteq [path : Paths, kind : FileKinds]
           /\ c.caps # NoValue =>
                  DOMAIN c.caps = {"bounding", "effective", "permitted", "inheritable", "ambient"}
  <1>1. IsConfig(c)
    BY ConfigsAssumption
  <1>2. /\ c.devices \in Seq(Paths) /\ c.masked \in Seq(Paths) /\ c.readonlyPaths \in Seq(Paths)
        /\ c.mapsRoot \in BOOLEAN /\ c.tree \subseteq [path : Paths, kind : FileKinds]
    BY <1>1 DEF IsConfig
  <1>3. Len(c.mounts) \in Nat /\ \A j \in 1..Len(c.mounts) : IsMount(c.mounts[j])
    BY <1>1 DEF IsConfig
  <1>4. c.caps # NoValue =>
            DOMAIN c.caps = {"bounding", "effective", "permitted", "inheritable", "ambient"}
    BY <1>1 DEF IsConfig
  <1>5. DefaultDevices \in Seq(Paths)
    <2>1. \A n \in {"null", "zero", "full", "random", "urandom", "tty"} : Dev(n) \in Paths
      BY DevPaths DEF Names
    <2>2. ASSUME NEW S, NEW a \in S, NEW b \in S, NEW d \in S, NEW e \in S, NEW f \in S, NEW g \in S
          PROVE  <<a, b, d, e, f, g>> \in Seq(S)
      OBVIOUS
    <2> QED
      BY <2>1, <2>2 DEF DefaultDevices
  <1>6. Requested(c) \in Seq(Paths)
    BY <1>2, <1>5 DEF Requested
  <1> QED
    BY <1>2, <1>3, <1>4, <1>6

\* Every list has a length.
LEMMA WalkedLen ==
    ASSUME NEW p, NEW c \in Configs, NEW d \in Seq(Paths)
    PROVE  Len(WalkedOf(p, c, d)) \in Nat
  <1>1. /\ Len(Requested(c)) \in Nat /\ Len(c.mounts) \in Nat /\ Len(d) \in Nat
        /\ Len(c.masked) \in Nat /\ Len(c.readonlyPaths) \in Nat /\ Len(<<>>) \in Nat
    BY ConfigFacts
  <1> QED
    BY <1>1 DEF WalkedOf

\* A new step starts at its list's first element.
LEMMA PlaceGoto ==
    ASSUME PlaceOK, conf' = conf, devices' \in Seq(Paths), NEW step \in Steps, Goto(step),
           pc # "failed", why' = why, refused' \subseteq Refusals
    PROVE  PlaceOK'
  <1>1. conf' \in Configs /\ pc' \in Steps /\ why' = "" /\ i' = 1
    BY DEF PlaceOK, Goto
  <1>2. Walked' = WalkedOf(pc', conf', devices')
    BY DEF Walked, WalkedOf, Requested
  <1>3. Len(Walked') \in Nat
    BY <1>1, <1>2, WalkedLen
  <1>4. \A n \in Nat : 1 \in 1..(n + 1)
    OBVIOUS
  <1>5. i' \in 1..(Len(Walked') + 1)
    BY <1>1, <1>3, <1>4, Zenon
  <1> QED
    BY <1>1, <1>5, Zenon DEF PlaceOK

\* The next element of a list.
LEMMA PlaceNext ==
    ASSUME PlaceOK, DevicesOK, conf' = conf, pc' = pc, Walked' = Walked, i <= Len(Walked), i' = i + 1,
           pc # "failed", why' = why, refused' \subseteq Refusals
    PROVE  PlaceOK'
  <1>1. Walked = WalkedOf(pc, conf, devices)
    BY DEF Walked, WalkedOf, Requested
  <1>2. Len(Walked) \in Nat
    BY <1>1, WalkedLen DEF PlaceOK, DevicesOK
  <1>3. i \in 1..(Len(Walked) + 1) /\ why = ""
    BY DEF PlaceOK
  <1>4. PICK n \in Nat : n = Len(Walked) /\ n = Len(Walked')
    BY <1>2, Zenon
  <1>5. i \in 1..(n + 1) /\ i <= n
    BY <1>3, <1>4, Zenon
  <1>6. i' \in 1..(n + 1)
    BY <1>5
  <1>7. i' \in 1..(Len(Walked') + 1)
    BY <1>4, <1>6, Zenon
  <1>8. conf' \in Configs /\ pc' \in Steps /\ why' = ""
    BY <1>3 DEF PlaceOK
  <1> QED
    BY <1>7, <1>8, Zenon DEF PlaceOK

\* The mounts are as they were.
LEMMA MountFrame ==
    ASSUME MountInv, UNCHANGED <<conf, k, masked, sealed>>,
           pc' \in BeforeMask => pc \in BeforeMask, pc' \in BeforeReadonly => pc \in BeforeReadonly
    PROVE  MountInv'
  <1>1. MaskHolds' <=> MaskHolds
    BY DEF MaskHolds
  <1>2. ReadonlyHolds' <=> ReadonlyHolds
    BY DEF ReadonlyHolds
  <1> QED
    BY <1>1, <1>2 DEF MountInv

\* The capabilities are as they were.
LEMMA CredFrame ==
    ASSUME CredInv, UNCHANGED <<conf, cred>>, pc' \in BeforeCaps => pc \in BeforeCaps,
           pc' \in AfterCaps => pc \in AfterCaps, pc' = "running" => pc = "running"
    PROVE  CredInv'
  <1>1. EntrypointCaps'
    BY DEF EntrypointCaps, CredInv
  <1> QED
    BY <1>1 DEF CredInv

\* What follows what, among the steps that only go on.
Follows(p, q) ==
    /\ p \in Steps /\ q \in Steps /\ p # "failed" /\ q # "running"
    /\ q \in BeforeMask => p \in BeforeMask
    /\ q \in BeforeReadonly => p \in BeforeReadonly
    /\ q \in BeforeCaps => p \in BeforeCaps
    /\ q \in AfterCaps => p \in AfterCaps

\* A step that succeeds and changes nothing the invariant is about.
LEMMA QuietInv ==
    ASSUME IInv, NEW step, Follows(pc, step), Goto(step), refused' = refused,
           UNCHANGED <<conf, devices, k, cred, why, masked, sealed>>
    PROVE  IInv'
  <1>1. PlaceOK /\ DevicesOK /\ MountInv /\ CredInv /\ pc' = step
    BY DEF IInv, Goto
  <1>2. devices' \in Seq(Paths) /\ DevicesOK'
    BY <1>1 DEF DevicesOK
  <1>3. refused' \subseteq Refusals
    BY <1>1 DEF PlaceOK
  <1>4. PlaceOK'
    BY <1>1, <1>2, <1>3, PlaceGoto DEF Follows
  <1>5. MountInv'
    BY <1>1, MountFrame DEF Follows
  <1>6. CredInv'
    BY <1>1, CredFrame DEF Follows
  <1> QED
    BY <1>2, <1>4, <1>5, <1>6 DEF IInv

\* A step that fails.
LEMMA StopsInv ==
    ASSUME IInv, NEW step, NEW possible, Stops(step, possible)
    PROVE  IInv'
  <1>1. PlaceOK /\ DevicesOK /\ MountInv /\ CredInv
    BY DEF IInv
  <1>2. Fail(step) /\ refused' \subseteq Refusals
    BY <1>1 DEF Stops, Refuse, PlaceOK
  <1>3. pc' = "failed" /\ UNCHANGED <<conf, devices, k, cred, masked, sealed>>
    BY <1>2 DEF Fail, Kernel, History
  <1>4. PlaceOK'
    BY <1>1, <1>2, <1>3 DEF PlaceOK, Steps
  <1>5. DevicesOK'
    BY <1>1, <1>3 DEF DevicesOK
  <1>6. pc' \notin BeforeMask /\ pc' \notin BeforeReadonly /\ pc' \notin BeforeCaps
        /\ pc' \notin AfterCaps /\ pc' # "running"
    BY <1>3 DEF BeforeMask, BeforeReadonly, BeforeCaps, AfterCaps
  <1>7. MountInv'
    BY <1>1, <1>3, <1>6, MountFrame
  <1>8. CredInv'
    BY <1>1, <1>3, <1>6, CredFrame
  <1> QED
    BY <1>4, <1>5, <1>7, <1>8 DEF IInv

\* Failing or going on.
LEMMA StopOrGo ==
    ASSUME IInv, NEW step, NEW possible, NEW q, Follows(pc, q),
           \/ Stops(step, possible)
           \/ Goto(q) /\ UNCHANGED <<conf, devices, k, cred, why, refused, masked, sealed>>
    PROVE  IInv'
  <1>1. CASE Stops(step, possible)
    BY <1>1, StopsInv
  <1>2. CASE Goto(q) /\ UNCHANGED <<conf, devices, k, cred, why, refused, masked, sealed>>
    BY <1>2, QuietInv
  <1> QED
    BY <1>1, <1>2

\* The steps that only succeed or fail.
LEMMA QuietSteps ==
    ASSUME IInv, Load \/ Isolate \/ Chroot \/ Chdir \/ ApplyOomScoreAdj \/ Stdio
    PROVE  IInv'
  <1> USE DEF At, Kernel, History
  <1>1. /\ Follows("load", "isolate") /\ Follows("load", "rejected") /\ Follows("isolate", "open")
        /\ Follows("chroot", "chdir") /\ Follows("chdir", "mount") /\ Follows("oom", "caps")
        /\ Follows("stdio", "exec")
    BY DEF Follows, Steps, BeforeMask, BeforeReadonly, BeforeCaps, AfterCaps
  <1>2. CASE Load
    <2>1. PICK q : q = IF Accepted(conf) THEN "isolate" ELSE "rejected"
      OBVIOUS
    <2>2. Follows(pc, q) /\ Goto(q)
      BY <1>1, <1>2, <2>1 DEF Load
    <2> QED
      BY <1>2, <2>2, QuietInv DEF Load
  <1>3. CASE Isolate
    BY <1>1, <1>3, StopOrGo DEF Isolate
  <1>4. CASE Chroot
    BY <1>1, <1>4, StopOrGo DEF Chroot
  <1>5. CASE Chdir
    BY <1>1, <1>5, StopOrGo DEF Chdir
  <1>6. CASE ApplyOomScoreAdj
    BY <1>1, <1>6, StopOrGo DEF ApplyOomScoreAdj
  <1>7. CASE Stdio
    BY <1>1, <1>7, StopOrGo DEF Stdio
  <1> QED
    BY <1>2, <1>3, <1>4, <1>5, <1>6, <1>7

-----------------------------------------------------------------------------
(* Steps that change the mounts before anything is masked *)

\* Nothing is masked yet, so that nothing can be uncovered.
LEMMA EarlyMounts ==
    ASSUME MountInv, pc \in BeforeMask, IsKernel(k'), UNCHANGED <<conf, masked, sealed>>
    PROVE  MountInv'
  <1>1. masked' = {} /\ sealed' = {}
    BY DEF MountInv, BeforeReadonly
  <1>2. MaskHolds' /\ ReadonlyHolds'
    BY <1>1 DEF MaskHolds, ReadonlyHolds
  <1> QED
    BY <1>1, <1>2 DEF MountInv

\* A device is opened.
LEMMA OpenInv ==
    ASSUME IInv, OpenDevices
    PROVE  IInv'
  <1> USE DEF At, Kernel, History
  <1>0. PlaceOK /\ DevicesOK /\ MountInv /\ CredInv /\ pc = "open"
    BY DEF IInv, OpenDevices
  <1>1. CASE i > Len(Requested(conf)) /\ Goto("chroot")
             /\ UNCHANGED <<conf, devices, Kernel, why, refused, History>>
    <2>1. Follows("open", "chroot")
      BY DEF Follows, Steps, BeforeMask, BeforeReadonly, BeforeCaps, AfterCaps
    <2> QED
      BY <1>0, <1>1, <2>1, QuietInv
  <1>2. CASE /\ i <= Len(Requested(conf)) /\ i' = i + 1
             /\ devices' = IF Requested(conf)[i] \in HostDevices \cup HostDirs
                           THEN Append(devices, Requested(conf)[i]) ELSE devices
             /\ UNCHANGED <<conf, pc, Kernel, why, refused, History>>
    <2>1. Walked = Requested(conf) /\ Walked' = Requested(conf)
      BY <1>0, <1>2 DEF Walked, Requested
    <2>2. PlaceOK'
      <3>1. refused' \subseteq Refusals /\ i <= Len(Walked) /\ Walked' = Walked
        BY <1>0, <1>2, <2>1 DEF PlaceOK
      <3> QED
        BY <1>0, <1>2, <3>1, PlaceNext
    <2>3. DevicesOK'
      <3>1. Requested(conf) \in Seq(Paths) /\ i \in 1..(Len(Walked) + 1)
        BY <1>0, ConfigFacts DEF PlaceOK
      <3>2. PICK p \in Paths : p = Requested(conf)[i]
        BY <1>2, <2>1, <3>1
      <3>3. PICK S : /\ S = (HostDevices \cup HostDirs) \cap Range(Requested(conf))
                     /\ devices \in Seq(Paths) /\ Range(devices) \subseteq S
        BY <1>0 DEF DevicesOK
      <3>4. p \in S => Append(devices, p) \in Seq(Paths) /\ Range(Append(devices, p)) \subseteq S
        BY <3>3 DEF Range
      <3>5. p \in Range(Requested(conf))
        BY <1>2, <2>1, <3>1, <3>2 DEF Range
      <3>6. Range(devices') \subseteq S /\ devices' \in Seq(Paths)
        BY <1>2, <3>2, <3>3, <3>4, <3>5
      <3>7. Requested(conf)' = Requested(conf)
        BY <1>2 DEF Requested
      <3> QED
        BY <3>3, <3>6, <3>7 DEF DevicesOK
    <2>4. MountInv'
      BY <1>0, <1>2, MountFrame
    <2>5. CredInv'
      BY <1>0, <1>2, CredFrame
    <2> QED
      BY <2>2, <2>3, <2>4, <2>5 DEF IInv
  <1> QED
    BY <1>1, <1>2 DEF OpenDevices

\* apply_mount, for one mount after the other.
LEMMA ApplyMountsInv ==
    ASSUME IInv, ApplyMounts
    PROVE  IInv'
  <1> USE DEF At, Kernel, History
  <1>0. PlaceOK /\ DevicesOK /\ MountInv /\ CredInv /\ pc = "mount"
    BY DEF IInv, ApplyMounts
  <1>1. CASE i > Len(conf.mounts) /\ Goto("devices")
             /\ UNCHANGED <<conf, devices, Kernel, why, refused, History>>
    <2>1. Follows("mount", "devices")
      BY DEF Follows, Steps, BeforeMask, BeforeReadonly, BeforeCaps, AfterCaps
    <2> QED
      BY <1>0, <1>1, <2>1, QuietInv
  <1>2. CASE Stops("mount", ApplyMountPossible(k, conf.mounts[i]))
    BY <1>2, StopsInv
  <1>3. CASE /\ i <= Len(conf.mounts) /\ i' = i + 1
             /\ ApplyMountPossible(k, conf.mounts[i]) /\ k' = ApplyMount(k, conf.mounts[i])
             /\ UNCHANGED <<conf, pc, devices, cwd, cred, why, refused, History>>
    <2>1. Walked = conf.mounts /\ Walked' = conf.mounts
      BY <1>0, <1>3 DEF Walked, Requested
    <2>2. PlaceOK'
      <3>1. refused' \subseteq Refusals /\ i <= Len(Walked) /\ Walked' = Walked
        BY <1>0, <1>3, <2>1 DEF PlaceOK
      <3> QED
        BY <1>0, <1>3, <3>1, PlaceNext
    <2>3. DevicesOK'
      BY <1>0, <1>3 DEF DevicesOK
    <2>4. IsKernel(k')
      <3>1. Len(conf.mounts) \in Nat /\ i \in 1..(Len(conf.mounts) + 1)
            /\ \A j \in 1..Len(conf.mounts) : IsMount(conf.mounts[j])
        BY <1>0, <2>1, ConfigFacts DEF PlaceOK
      <3>2. IsMount(conf.mounts[i])
        BY <1>3, <3>1
      <3> QED
        BY <1>0, <1>3, <3>2, ApplyMountType DEF MountInv
    <2>5. MountInv'
      BY <1>0, <1>3, <2>4, EarlyMounts DEF BeforeMask
    <2>6. CredInv'
      BY <1>0, <1>3, CredFrame
    <2> QED
      BY <2>2, <2>3, <2>5, <2>6 DEF IInv
  <1> QED
    BY <1>1, <1>2, <1>3 DEF ApplyMounts

\* setup_default_devices.
LEMMA SetupDevicesInv ==
    ASSUME IInv, SetupDevices
    PROVE  IInv'
  <1> USE DEF At, Kernel, History
  <1>0. PlaceOK /\ DevicesOK /\ MountInv /\ CredInv /\ pc = "devices" /\ IsKernel(k)
    BY DEF IInv, MountInv, SetupDevices
  <1>1. CASE i > Len(devices) /\ k' = Linked(k) /\ Goto("sysctl")
             /\ UNCHANGED <<conf, devices, cwd, cred, why, refused, History>>
    <2>1. "sysctl" \in Steps /\ pc' = "sysctl" /\ pc \in BeforeMask
          /\ "sysctl" \in BeforeCaps /\ pc \in BeforeCaps /\ "sysctl" \notin AfterCaps
      BY <1>0, <1>1 DEF Steps, BeforeMask, BeforeReadonly, BeforeCaps, AfterCaps, Goto
    <2>2. DevicesOK' /\ devices' \in Seq(Paths) /\ refused' \subseteq Refusals
      BY <1>0, <1>1 DEF DevicesOK, PlaceOK
    <2>3. PlaceOK'
      BY <1>0, <1>1, <2>1, <2>2, PlaceGoto
    <2>4. IsKernel(k')
      BY <1>0, <1>1, LinkedType DEF AddsFiles
    <2>5. MountInv'
      BY <1>0, <1>1, <2>1, <2>4, EarlyMounts
    <2>6. CredInv'
      BY <1>0, <1>1, <2>1, CredFrame
    <2> QED
      BY <2>2, <2>3, <2>5, <2>6 DEF IInv
  <1>2. CASE /\ i <= Len(devices) /\ i' = i + 1
             /\ \E allowed \in BOOLEAN : Tries("devices", allowed) /\ k' = BindDevice(k, devices[i], allowed)
             /\ UNCHANGED <<conf, pc, devices, cwd, cred, why, History>>
    <2>0. PICK allowed \in BOOLEAN : Tries("devices", allowed) /\ k' = BindDevice(k, devices[i], allowed)
      BY <1>2
    <2>1. Walked = devices /\ Walked' = devices
      BY <1>0, <1>2 DEF Walked, Requested
    <2>2. PlaceOK'
      <3>1. refused' \subseteq Refusals
        BY <1>0, <2>0 DEF PlaceOK, Tries, Refuse
      <3>2. i <= Len(Walked) /\ Walked' = Walked
        BY <1>2, <2>1
      <3> QED
        BY <1>0, <1>2, <3>1, <3>2, PlaceNext
    <2>3. DevicesOK'
      BY <1>0, <1>2 DEF DevicesOK
    <2>4. IsKernel(k')
      <3>1. devices \in Seq(Paths) /\ i \in 1..(Len(devices) + 1)
        BY <1>0, <2>1 DEF PlaceOK, DevicesOK
      <3>2. devices[i] \in Paths
        BY <1>2, <3>1
      <3> QED
        BY <1>0, <2>0, <3>2, BindDeviceType
    <2>5. MountInv'
      BY <1>0, <1>2, <2>4, EarlyMounts DEF BeforeMask
    <2>6. CredInv'
      BY <1>0, <1>2, CredFrame
    <2> QED
      BY <2>2, <2>3, <2>5, <2>6 DEF IInv
  <1> QED
    BY <1>1, <1>2 DEF SetupDevices

\* The files of the sysctls, which std::fs::write may make.
LEMMA SysctlPaths ==
    ASSUME conf \in Configs
    PROVE  SysctlFiles \subseteq Paths
  <1>1. conf.sysctl \subseteq STRING
    BY ConfigsAssumption DEF IsConfig
  <1>2. SysDir \in Paths
    BY NamedPaths DEF SysDir, Names, FileSystems
  <1>3. ASSUME NEW S, NEW p \in Seq(S), NEW key \in S PROVE p \o <<key>> \in Seq(S)
    OBVIOUS
  <1>4. \A key \in STRING : Sysctl(key) \in Paths
    BY <1>2, <1>3, Zenon DEF Sysctl, Paths
  <1> QED
    BY <1>1, <1>4 DEF SysctlFiles

\* The sysctls.
LEMMA WriteSysctlsInv ==
    ASSUME IInv, WriteSysctls
    PROVE  IInv'
  <1> USE DEF At, Kernel, History
  <1>0. PlaceOK /\ DevicesOK /\ MountInv /\ CredInv /\ pc = "sysctl" /\ IsKernel(k)
    BY DEF IInv, MountInv, WriteSysctls
  <1>1. CASE Stops("sysctl", SysctlsPossible)
    BY <1>1, StopsInv
  <1>2. CASE k' = MadeEach(k, SysctlFiles, "file") /\ Goto("mask")
             /\ UNCHANGED <<conf, devices, cwd, cred, why, refused, History>>
    <2>1. "mask" \in Steps /\ pc' = "mask" /\ pc \in BeforeMask
          /\ "mask" \in BeforeCaps /\ pc \in BeforeCaps /\ "mask" \notin AfterCaps
      BY <1>0, <1>2 DEF Steps, BeforeMask, BeforeReadonly, BeforeCaps, AfterCaps, Goto
    <2>2. DevicesOK' /\ devices' \in Seq(Paths) /\ refused' \subseteq Refusals
      BY <1>0, <1>2 DEF DevicesOK, PlaceOK
    <2>3. PlaceOK'
      BY <1>0, <1>2, <2>1, <2>2, PlaceGoto
    <2>4. IsKernel(k')
      BY <1>0, <1>2, SysctlPaths, MadeEachType DEF AddsFiles, PlaceOK, FileKinds
    <2>5. MountInv'
      BY <1>0, <1>2, <2>1, <2>4, EarlyMounts
    <2>6. CredInv'
      BY <1>0, <1>2, <2>1, CredFrame
    <2> QED
      BY <2>2, <2>3, <2>5, <2>6 DEF IInv
  <1> QED
    BY <1>1, <1>2 DEF WriteSysctls

-----------------------------------------------------------------------------
(* Steps that change the mounts afterwards *)

\* What was masked, was masked at a path.
LEMMA MaskedPaths ==
    ASSUME MountInv, conf \in Configs
    PROVE  /\ \A m \in masked : m.path \in Paths
           /\ Range(conf.masked) \subseteq Paths /\ Range(conf.readonlyPaths) \subseteq Paths
           /\ Covered(k, masked) /\ \A p \in sealed : MountOf(k, p).ro /\ p \in Paths
  <1>1. conf.masked \in Seq(Paths) /\ conf.readonlyPaths \in Seq(Paths)
    BY ConfigFacts
  <1>2. Range(conf.masked) \subseteq Paths /\ Range(conf.readonlyPaths) \subseteq Paths
    BY <1>1 DEF Range
  <1>3. masked \subseteq [path : Range(conf.masked), by : FileNames] /\ sealed \subseteq Range(conf.readonlyPaths)
    BY DEF MountInv
  <1>4. Covered(k, masked)
    BY DEF MountInv, MaskHolds, Covered, ShownBy
  <1>5. \A p \in sealed : MountOf(k, p).ro
    BY DEF MountInv, ReadonlyHolds
  <1> QED
    BY <1>2, <1>3, <1>4, <1>5

\* The placeholders are files and directories only.
LEMMA PlacesType ==
    ASSUME NEW s, IsKernel(s), NEW p \in Paths
    PROVE  AddsFiles(s, Placeholder(s, p)) /\ AddsFiles(s, ReadonlyPlace(s, p))
  <1>1. AddsFiles(s, s)
    BY DEF AddsFiles
  <1>2. AddsFiles(s, ReadonlyPlace(s, p))
    BY <1>1, MadeDirsType DEF ReadonlyPlace
  <1>3. CASE Exists(s, p)
    BY <1>1, <1>2, <1>3 DEF Placeholder
  <1>4. CASE ~Exists(s, p)
    <2>1. Front(p) \in Paths
      <3>1. CASE p # <<>>
        BY <3>1, FrontPrefix DEF Paths
      <3>2. CASE p = <<>>
        <4>1. SubSeq(p, 1, 0 - 1) = <<>> /\ Len(p) - 1 = 0 - 1
          BY <3>2
        <4> QED
          BY <4>1 DEF Front, Paths
      <3> QED
        BY <3>1, <3>2
    <2>2. PICK t : t = MadeDirs(s, Front(p)) /\ IsKernel(t) /\ t.mounts = s.mounts
      BY <2>1, MadeDirsType DEF AddsFiles
    <2>3. AddsFiles(t, Made(t, p, "file"))
      BY <2>2, MadeType DEF FileKinds
    <2> QED
      BY <1>2, <1>4, <2>2, <2>3 DEF Placeholder, AddsFiles
  <1> QED
    BY <1>3, <1>4

\* apply_masked_paths, for one path after the other.
LEMMA MaskPathsInv ==
    ASSUME IInv, MaskPaths
    PROVE  IInv'
  <1> USE DEF At, Kernel, History
  <1>0. PlaceOK /\ DevicesOK /\ MountInv /\ CredInv /\ pc = "mask" /\ IsKernel(k) /\ conf \in Configs
    BY DEF IInv, MountInv, PlaceOK, MaskPaths
  <1>1. CASE i > Len(conf.masked) /\ Goto("readonly")
             /\ UNCHANGED <<conf, devices, Kernel, why, refused, History>>
    <2>1. Follows("mask", "readonly")
      BY DEF Follows, Steps, BeforeMask, BeforeReadonly, BeforeCaps, AfterCaps
    <2> QED
      BY <1>0, <1>1, <2>1, QuietInv
  <1>2. ASSUME i <= Len(conf.masked), i' = i + 1, NEW allowed \in BOOLEAN, NEW p, p = conf.masked[i],
               NEW s, s = Placeholder(k, p), NEW covers, covers = (allowed /\ CanMask(s, p)),
               Tries("mask", allowed), k' = IF covers THEN Mask(s, p) ELSE s,
               masked' = IF covers /\ p # <<>>
                         THEN masked \cup {[path |-> p, by |-> File(k', p)]} ELSE masked,
               UNCHANGED <<conf, pc, devices, cwd, cred, why, sealed>>
        PROVE  IInv'
    <2>1. Walked = conf.masked /\ Walked' = conf.masked
      BY <1>0, <1>2 DEF Walked, Requested
    <2>2. PlaceOK'
      <3>1. refused' \subseteq Refusals
        BY <1>0, <1>2 DEF PlaceOK, Tries, Refuse
      <3>2. i <= Len(Walked) /\ Walked' = Walked
        BY <1>2, <2>1
      <3> QED
        BY <1>0, <1>2, <3>1, <3>2, PlaceNext
    <2>3. DevicesOK'
      BY <1>0, <1>2 DEF DevicesOK
    <2>4. p \in Paths /\ p \in Range(conf.masked)
      <3>1. conf.masked \in Seq(Paths) /\ i \in 1..(Len(conf.masked) + 1)
        BY <1>0, <2>1, ConfigFacts DEF PlaceOK
      <3>2. i \in 1..Len(conf.masked)
        BY <1>2, <3>1
      <3> QED
        BY <1>2, <3>1, <3>2 DEF Range
    <2>5. IsKernel(s) /\ s.mounts = k.mounts
      BY <1>0, <1>2, <2>4, PlacesType DEF AddsFiles
    <2>6. \A m \in masked : m.path \in Paths
      BY <1>0, MaskedPaths
    <2>7. Covered(s, masked)
      BY <1>0, <2>5, <2>6, MaskedPaths, SameMounts, StaysCovered
    <2>8. IsKernel(k') /\ Covered(k', masked')
          /\ masked' \subseteq [path : Range(conf.masked), by : FileNames]
      <3>1. masked \subseteq [path : Range(conf.masked), by : FileNames]
        BY <1>0 DEF MountInv
      <3>2. CASE covers
        <4>1. k' = Mask(s, p)
          BY <1>2, <3>2
        <4>2. /\ IsKernel(Mask(s, p)) /\ File(Mask(s, p), p) \in FileNames
              /\ Covered(Mask(s, p), masked \cup {[path |-> p, by |-> File(Mask(s, p), p)]})
              /\ p = <<>> => Covered(Mask(s, p), masked)
          BY <2>4, <2>5, <2>6, <2>7, MaskCovers
        <4>3. CASE p # <<>>
          BY <1>2, <2>4, <3>1, <3>2, <4>1, <4>2, <4>3
        <4>4. CASE p = <<>>
          BY <1>2, <3>1, <4>1, <4>2, <4>4
        <4> QED
          BY <4>3, <4>4
      <3>3. CASE ~covers
        BY <1>2, <2>5, <2>7, <3>1, <3>3
      <3> QED
        BY <3>2, <3>3
    <2>9. MaskHolds'
      BY <2>8 DEF MaskHolds, Covered, ShownBy
    <2>10. sealed' = {} /\ sealed = {}
      BY <1>0, <1>2 DEF MountInv, BeforeReadonly
    <2>11. MountInv'
      <3>1. pc' \notin BeforeMask
        BY <1>0, <1>2 DEF BeforeMask
      <3>2. ReadonlyHolds'
        BY <2>10 DEF ReadonlyHolds
      <3>3. masked' \subseteq [path : Range(conf'.masked), by : FileNames]
        BY <1>2, <2>8
      <3> QED
        BY <2>8, <2>9, <2>10, <3>1, <3>2, <3>3 DEF MountInv
    <2>12. CredInv'
      BY <1>0, <1>2, CredFrame
    <2> QED
      BY <2>2, <2>3, <2>11, <2>12 DEF IInv
  <1> QED
    BY <1>1, <1>2, Zenon DEF MaskPaths

\* apply_readonly_paths, for one path after the other.
LEMMA ReadonlyPathsInv ==
    ASSUME IInv, ReadonlyPaths
    PROVE  IInv'
  <1> USE DEF At, Kernel, History
  <1>0. PlaceOK /\ DevicesOK /\ MountInv /\ CredInv /\ pc = "readonly" /\ IsKernel(k) /\ conf \in Configs
    BY DEF IInv, MountInv, PlaceOK, ReadonlyPaths
  <1>1. CASE i > Len(conf.readonlyPaths) /\ Goto("oom")
             /\ UNCHANGED <<conf, devices, Kernel, why, refused, History>>
    <2>1. Follows("readonly", "oom")
      BY DEF Follows, Steps, BeforeMask, BeforeReadonly, BeforeCaps, AfterCaps
    <2> QED
      BY <1>0, <1>1, <2>1, QuietInv
  <1>2. ASSUME i <= Len(conf.readonlyPaths), i' = i + 1, NEW binds \in BOOLEAN, NEW remounts \in BOOLEAN,
               NEW p, p = conf.readonlyPaths[i], NEW s, s = ReadonlyPlace(k, p),
               NEW bound, bound = (binds /\ Exists(s, p)),
               Tries("readonly", binds /\ remounts), k' = IF bound THEN MakeReadonly(s, p, remounts) ELSE s,
               sealed' = IF bound /\ remounts /\ MountOf(k', p).top THEN sealed \cup {p} ELSE sealed,
               UNCHANGED <<conf, pc, devices, cwd, cred, why, masked>>
        PROVE  IInv'
    <2>1. Walked = conf.readonlyPaths /\ Walked' = conf.readonlyPaths
      BY <1>0, <1>2 DEF Walked, Requested
    <2>2. PlaceOK'
      <3>1. refused' \subseteq Refusals
        BY <1>0, <1>2 DEF PlaceOK, Tries, Refuse
      <3>2. i <= Len(Walked) /\ Walked' = Walked
        BY <1>2, <2>1
      <3> QED
        BY <1>0, <1>2, <3>1, <3>2, PlaceNext
    <2>3. DevicesOK'
      BY <1>0, <1>2 DEF DevicesOK
    <2>4. p \in Paths /\ p \in Range(conf.readonlyPaths)
      <3>1. conf.readonlyPaths \in Seq(Paths) /\ i \in 1..(Len(conf.readonlyPaths) + 1)
        BY <1>0, <2>1, ConfigFacts DEF PlaceOK
      <3>2. i \in 1..Len(conf.readonlyPaths)
        BY <1>2, <3>1
      <3> QED
        BY <1>2, <3>1, <3>2 DEF Range
    <2>5. IsKernel(s) /\ s.mounts = k.mounts
      BY <1>0, <1>2, <2>4, PlacesType DEF AddsFiles
    <2>6. \A x : File(s, x) = File(k, x) /\ MountOf(s, x) = MountOf(k, x)
      BY <2>5, SameMounts
    <2>7. IsKernel(k') /\ (bound /\ remounts /\ MountOf(k', p).top => MountOf(k', p).ro)
          /\ \A x \in Paths : File(k', x) = File(k, x) /\ (MountOf(k, x).ro => MountOf(k', x).ro)
      <3>1. CASE bound
        <4>1. PICK u : /\ u = MakeReadonly(s, p, remounts) /\ IsKernel(u)
                       /\ (remounts /\ MountOf(u, p).top => MountOf(u, p).ro)
                       /\ \A x \in Paths : File(u, x) = File(s, x) /\ (MountOf(s, x).ro => MountOf(u, x).ro)
          BY <2>4, <2>5, ReadonlyKeeps
        <4>2. k' = u
          BY <1>2, <3>1, <4>1
        <4> QED
          BY <2>6, <4>1, <4>2
      <3>2. CASE ~bound
        <4>1. k' = s
          BY <1>2, <3>2
        <4> QED
          BY <2>5, <2>6, <3>2, <4>1
      <3> QED
        BY <3>1, <3>2
    <2>8. Covered(k', masked)
      <3>1. (\A m \in masked : m.path \in Paths) /\ Covered(k, masked)
        BY <1>0, MaskedPaths
      <3> QED
        BY <2>7, <3>1, StaysCovered
    <2>9. MaskHolds'
      BY <1>2, <2>8 DEF MaskHolds, Covered, ShownBy
    <2>10. ReadonlyHolds' /\ sealed' \subseteq Range(conf.readonlyPaths)
      <3>1. \A q \in sealed : MountOf(k, q).ro /\ q \in Paths
        BY <1>0, MaskedPaths
      <3>2. sealed \subseteq Range(conf.readonlyPaths)
        BY <1>0 DEF MountInv
      <3>3. \A q \in sealed : MountOf(k', q).ro
        BY <2>7, <3>1
      <3>4. \A q \in sealed' : MountOf(k', q).ro
        BY <1>2, <2>7, <3>3
      <3> QED
        BY <1>2, <2>4, <3>2, <3>4 DEF ReadonlyHolds
    <2>11. MountInv'
      <3>1. pc' \notin BeforeMask /\ pc' \notin BeforeReadonly
        BY <1>0, <1>2 DEF BeforeMask, BeforeReadonly
      <3>2. masked' \subseteq [path : Range(conf'.masked), by : FileNames]
            /\ sealed' \subseteq Range(conf'.readonlyPaths)
        BY <1>0, <1>2, <2>10 DEF MountInv
      <3> QED
        BY <2>7, <2>9, <2>10, <3>1, <3>2 DEF MountInv
    <2>12. CredInv'
      BY <1>0, <1>2, CredFrame
    <2> QED
      BY <2>2, <2>3, <2>11, <2>12 DEF IInv
  <1> QED
    BY <1>1, <1>2, Zenon DEF ReadonlyPaths

\* make_root_readonly.
LEMMA RootInv ==
    ASSUME IInv, MakeRootReadonly
    PROVE  IInv'
  <1> USE DEF At, Kernel, History
  <1>0. PlaceOK /\ DevicesOK /\ MountInv /\ CredInv /\ pc = "root" /\ IsKernel(k) /\ conf \in Configs
    BY DEF IInv, MountInv, PlaceOK, MakeRootReadonly
  <1>1. CASE Stops("root", RootPossible)
    BY <1>1, StopsInv
  <1>2. CASE /\ k' = IF conf.readonly THEN RemountedRo(k, <<>>) ELSE k
             /\ Goto("stdio")
             /\ UNCHANGED <<conf, devices, cwd, cred, why, refused, History>>
    <2>1. /\ "stdio" \in Steps /\ pc' = "stdio" /\ "stdio" \in AfterCaps /\ pc \in AfterCaps
          /\ "stdio" \notin BeforeMask /\ "stdio" \notin BeforeReadonly /\ "stdio" \notin BeforeCaps
      BY <1>0, <1>2 DEF Steps, BeforeMask, BeforeReadonly, BeforeCaps, AfterCaps, Goto
    <2>2. DevicesOK' /\ devices' \in Seq(Paths) /\ refused' \subseteq Refusals
      BY <1>0, <1>2 DEF DevicesOK, PlaceOK
    <2>3. PlaceOK'
      BY <1>0, <1>2, <2>1, <2>2, PlaceGoto
    <2>4. IsKernel(k')
          /\ \A x \in Paths : File(k', x) = File(k, x) /\ (MountOf(k, x).ro => MountOf(k', x).ro)
      <3>1. <<>> \in Paths
        BY NamedPaths
      <3>2. PICK u : /\ u = RemountedRo(k, <<>>) /\ IsKernel(u)
                     /\ \A x \in Paths : File(u, x) = File(k, x) /\ (MountOf(k, x).ro => MountOf(u, x).ro)
        BY <1>0, <3>1, RemountShows
      <3>3. CASE conf.readonly
        BY <1>2, <3>2, <3>3
      <3>4. CASE ~conf.readonly
        BY <1>0, <1>2, <3>4
      <3> QED
        BY <3>3, <3>4
    <2>5. MaskHolds'
      <3>1. (\A m \in masked : m.path \in Paths) /\ Covered(k, masked)
        BY <1>0, MaskedPaths
      <3>2. Covered(k', masked)
        BY <2>4, <3>1, StaysCovered
      <3> QED
        BY <1>2, <3>2 DEF MaskHolds, Covered, ShownBy
    <2>6. ReadonlyHolds'
      <3>1. \A q \in sealed : MountOf(k, q).ro /\ q \in Paths
        BY <1>0, MaskedPaths
      <3> QED
        BY <1>2, <2>4, <3>1 DEF ReadonlyHolds
    <2>7. MountInv'
      <3>1. masked' \subseteq [path : Range(conf'.masked), by : FileNames]
            /\ sealed' \subseteq Range(conf'.readonlyPaths)
        BY <1>0, <1>2 DEF MountInv
      <3> QED
        BY <2>1, <2>4, <2>5, <2>6, <3>1 DEF MountInv
    <2>8. CredInv'
      BY <1>0, <1>2, <2>1, CredFrame
    <2> QED
      BY <2>2, <2>3, <2>7, <2>8 DEF IInv
  <1> QED
    BY <1>1, <1>2 DEF MakeRootReadonly

-----------------------------------------------------------------------------
(* Steps that change the capabilities *)

\* apply_capabilities.
LEMMA DropInv ==
    ASSUME IInv, DropCapabilities
    PROVE  IInv'
  <1> USE DEF At, Kernel, History
  <1>0. PlaceOK /\ DevicesOK /\ MountInv /\ CredInv /\ pc = "caps" /\ conf \in Configs
    BY DEF IInv, PlaceOK, DropCapabilities
  <1>1. CASE Stops("caps", CapsPossible)
    BY <1>1, StopsInv
  <1>2. CASE /\ CapsPossible
             /\ cred' = IF conf.caps = NoValue THEN cred ELSE ApplyCapabilities(cred, conf.caps)
             /\ Goto("root")
             /\ UNCHANGED <<conf, devices, k, cwd, why, refused, History>>
    <2>1. /\ "root" \in Steps /\ pc' = "root" /\ "root" \in AfterCaps /\ pc \in BeforeCaps
          /\ "root" \notin BeforeMask /\ "root" \notin BeforeReadonly /\ "root" \notin BeforeCaps
      BY <1>0, <1>2 DEF Steps, BeforeMask, BeforeReadonly, BeforeCaps, AfterCaps, Goto
    <2>2. DevicesOK' /\ devices' \in Seq(Paths) /\ refused' \subseteq Refusals
      BY <1>0, <1>2 DEF DevicesOK, PlaceOK
    <2>3. PlaceOK'
      BY <1>0, <1>2, <2>1, <2>2, PlaceGoto
    <2>4. MountInv'
      BY <1>0, <1>2, <2>1, MountFrame
    <2>5. cred = FirstCred
      BY <1>0, <2>1 DEF CredInv
    <2>6. EntrypointCaps'
      BY <2>1 DEF EntrypointCaps
    <2>7. CASE conf.caps = NoValue
      <3>1. cred' = cred /\ conf' = conf
        BY <1>2, <2>7
      <3>2. CredInv'
        BY <1>0, <2>1, <2>5, <2>6, <2>7, <3>1 DEF CredInv
      <3> QED
        BY <2>2, <2>3, <2>4, <3>2 DEF IInv
    <2>8. CASE conf.caps # NoValue
      <3>1. ApplyCapabilitiesPossible(FirstCred, conf.caps) /\ cred' = ApplyCapabilities(FirstCred, conf.caps)
        BY <1>2, <2>5, <2>8 DEF CapsPossible
      <3>2. DOMAIN conf.caps = {"bounding", "effective", "permitted", "inheritable", "ambient"}
        BY <1>0, <2>8, ConfigFacts
      <3>3. cred' \in Creds /\ cred'.effective \subseteq cred'.permitted
            /\ cred'.ambient \subseteq (cred'.permitted \cap cred'.inheritable)
        BY <3>1, <3>2, CapsApplied
      <3>4. CredInv'
        BY <1>2, <2>1, <2>6, <3>1, <3>3 DEF CredInv
      <3> QED
        BY <2>2, <2>3, <2>4, <3>4 DEF IInv
    <2> QED
      BY <2>7, <2>8
  <1> QED
    BY <1>1, <1>2 DEF DropCapabilities

\* execve of the entrypoint.
LEMMA ExecInv ==
    ASSUME IInv, ExecEntrypoint
    PROVE  IInv'
  <1> USE DEF At, Kernel, History
  <1>0. PlaceOK /\ DevicesOK /\ MountInv /\ CredInv /\ pc = "exec" /\ conf \in Configs
    BY DEF IInv, PlaceOK, ExecEntrypoint
  <1>1. CASE Stops("exec", HasEntrypoint(conf))
    BY <1>1, StopsInv
  <1>2. CASE /\ cred' = Exec(cred, conf.mapsRoot)
             /\ Goto("running")
             /\ UNCHANGED <<conf, devices, k, cwd, why, refused, History>>
    <2>1. /\ "running" \in Steps /\ pc' = "running" /\ pc \in AfterCaps /\ "running" \notin AfterCaps
          /\ "running" \notin BeforeMask /\ "running" \notin BeforeReadonly /\ "running" \notin BeforeCaps
      BY <1>0, <1>2 DEF Steps, BeforeMask, BeforeReadonly, BeforeCaps, AfterCaps, Goto
    <2>2. DevicesOK' /\ devices' \in Seq(Paths) /\ refused' \subseteq Refusals
      BY <1>0, <1>2 DEF DevicesOK, PlaceOK
    <2>3. PlaceOK'
      BY <1>0, <1>2, <2>1, <2>2, PlaceGoto
    <2>4. MountInv'
      BY <1>0, <1>2, <2>1, MountFrame
    <2>5. conf.mapsRoot \in BOOLEAN
      BY <1>0, ConfigFacts
    <2>6. cred \in Creds /\ cred.ambient \subseteq (cred.permitted \cap cred.inheritable)
      BY <1>0 DEF CredInv
    <2>7. /\ cred' \in Creds /\ cred'.effective \subseteq cred'.permitted
          /\ cred'.ambient \subseteq (cred'.permitted \cap cred'.inheritable)
          /\ cred'.bounding = cred.bounding
          /\ cred'.effective = IF conf.mapsRoot THEN cred.inheritable \cup cred.bounding ELSE cred.ambient
      BY <1>2, <2>5, <2>6, ExecRules
    <2>8. EntrypointCaps'
      <3>1. SUFFICES ASSUME conf.caps # NoValue
                     PROVE  /\ cred'.bounding = CapMask(conf.caps.bounding)
                            /\ cred'.effective = IF conf.mapsRoot THEN CapMask(conf.caps.bounding)
                                  ELSE CapMask(conf.caps.ambient) \cap CapMask(conf.caps.permitted)
                                           \cap CapMask(conf.caps.inheritable)
        BY <1>2 DEF EntrypointCaps
      <3>2. /\ ApplyCapabilitiesPossible(FirstCred, conf.caps)
            /\ cred = ApplyCapabilities(FirstCred, conf.caps)
        BY <1>0, <2>1, <3>1 DEF CredInv
      <3>3. DOMAIN conf.caps = {"bounding", "effective", "permitted", "inheritable", "ambient"}
        BY <1>0, <3>1, ConfigFacts
      <3>4. /\ cred.bounding = CapMask(conf.caps.bounding) /\ cred.inheritable \subseteq cred.bounding
            /\ cred.ambient = CapMask(conf.caps.ambient) \cap CapMask(conf.caps.permitted)
                                  \cap CapMask(conf.caps.inheritable)
        BY <3>2, <3>3, CapsApplied
      <3>5. cred.inheritable \cup cred.bounding = cred.bounding
        BY <3>4
      <3> QED
        BY <2>7, <3>4, <3>5
    <2>9. CredInv'
      BY <2>1, <2>7, <2>8 DEF CredInv
    <2> QED
      BY <2>2, <2>3, <2>4, <2>9 DEF IInv
  <1> QED
    BY <1>1, <1>2 DEF ExecEntrypoint

-----------------------------------------------------------------------------
(* The theorems *)

\* The root as it is when the child starts.
LEMMA RootKernel ==
    ASSUME NEW c \in Configs, c.rootIsMount \in BOOLEAN
    PROVE  IsKernel(RootOf(c))
  <1>1. PICK fs \in STRING \X Nat : fs = <<"rootfs", 1>>
    BY NamedPaths DEF Names
  <1>2. <<>> \in Paths /\ c.tree \subseteq [path : Paths, kind : FileKinds]
    BY NamedPaths, ConfigFacts
  <1>3. PICK m : m = [at |-> <<>>, fs |-> fs, root |-> <<>>, ro |-> FALSE, top |-> c.rootIsMount]
    OBVIOUS
  <1>4. m \in MountRecs /\ m.at = <<>>
    BY <1>2, <1>3 DEF MountRecs
  <1>5. PICK F : F = {[file |-> <<fs, f.path>>, kind |-> f.kind] : f \in c.tree}
    OBVIOUS
  <1>6. F \subseteq [file : FileNames, kind : FileKinds]
    <2>1. ASSUME NEW f \in c.tree
          PROVE  [file |-> <<fs, f.path>>, kind |-> f.kind] \in [file : FileNames, kind : FileKinds]
      <3>1. PICK q \in Paths, kd \in FileKinds : q = f.path /\ kd = f.kind
        BY <1>2
      <3>2. <<fs, q>> \in FileNames
        BY DEF FileNames
      <3>3. [file |-> <<fs, q>>, kind |-> kd] \in [file : FileNames, kind : FileKinds]
        BY <3>2
      <3> QED
        BY <3>1, <3>3
    <2> QED
      BY <1>5, <2>1
  <1>7. PICK s : s = RootOf(c)
    OBVIOUS
  <1>8. s = [mounts |-> <<m>>, files |-> F]
    BY <1>1, <1>3, <1>5, <1>7 DEF RootOf
  <1>9. s.mounts = <<m>> /\ s.files = F /\ s = [mounts |-> s.mounts, files |-> s.files]
    BY <1>8
  <1>10. DOMAIN s.mounts = {1} /\ s.mounts[1] = m /\ s.mounts = [j \in DOMAIN s.mounts |-> s.mounts[j]]
    BY <1>9
  <1>11. Latest(s) = 1
    <2>1. {1} \in SUBSET Int /\ 1 \in {1} /\ \A y \in {1} : y <= 1
      OBVIOUS
    <2>2. Max({1}) = 1
      BY <2>1, MaxIs
    <2> QED
      BY <1>10, <2>2 DEF Latest
  <1>12. MountsOK(s)
    <2>1. DOMAIN s.mounts \subseteq 1..Latest(s) /\ Latest(s) \in Nat
      BY <1>10, <1>11
    <2> QED
      BY <1>4, <1>10, <2>1 DEF MountsOK
  <1> QED
    BY <1>6, <1>7, <1>9, <1>12 DEF IsKernel

\* The invariant holds when the child starts.
LEMMA InitInv == Init => IInv
  <1>1. SUFFICES ASSUME Init PROVE IInv
    OBVIOUS
  <1>2. /\ conf \in Configs /\ pc = "load" /\ i = 1 /\ devices = <<>> /\ k = RootOf(conf)
        /\ cred = FirstCred /\ why = "" /\ refused = {} /\ masked = {} /\ sealed = {}
    BY <1>1 DEF Init
  <1>3. PlaceOK
    <2>1. Walked = <<>>
      BY <1>2 DEF Walked
    <2>3. 1 \in 1..(Len(<<>>) + 1)
      OBVIOUS
    <2>2. pc \in Steps
      BY <1>2 DEF Steps, BeforeCaps, BeforeReadonly, BeforeMask
    <2> QED
      BY <1>2, <2>1, <2>2, <2>3 DEF PlaceOK
  <1>4. DevicesOK
    <2>1. <<>> \in Seq(Paths) /\ DOMAIN <<>> = {}
      OBVIOUS
    <2>2. Range(<<>>) = {}
      BY <2>1 DEF Range
    <2>3. devices = <<>>
      BY <1>2
    <2> QED
      BY <2>1, <2>2, <2>3 DEF DevicesOK
  <1>5. MountInv
    <2>1. conf.rootIsMount \in BOOLEAN
      BY <1>2, ConfigsAssumption DEF IsConfig
    <2>2. IsKernel(k)
      BY <1>2, <2>1, RootKernel
    <2>3. MaskHolds /\ ReadonlyHolds
      BY <1>2 DEF MaskHolds, ReadonlyHolds
    <2> QED
      BY <1>2, <2>2, <2>3 DEF MountInv
  <1>6. CredInv
    <2>1. /\ FirstCred \in Creds /\ FirstCred.effective = AllCaps /\ FirstCred.permitted = AllCaps
          /\ FirstCred.ambient = {}
      BY FirstCredIs
    <2>2. pc \notin AfterCaps /\ EntrypointCaps
      BY <1>2 DEF AfterCaps, EntrypointCaps
    <2> QED
      BY <1>2, <2>1, <2>2 DEF CredInv
  <1> QED
    BY <1>3, <1>4, <1>5, <1>6 DEF IInv

\* Every step keeps it.
LEMMA NextInv == IInv /\ [Next]_vars => IInv'
  <1> SUFFICES ASSUME IInv, [Next]_vars PROVE IInv'
    OBVIOUS
  <1>1. CASE UNCHANGED vars
    <2>1. UNCHANGED <<conf, pc, i, devices, k, cwd, cred, why, refused, masked, sealed>>
      BY <1>1 DEF vars
    <2>2. PlaceOK'
      <3>1. Walked' = Walked
        BY <2>1 DEF Walked, Requested
      <3> QED
        BY <2>1, <3>1 DEF IInv, PlaceOK
    <2>3. DevicesOK' /\ MountInv' /\ CredInv'
      BY <2>1, MountFrame, CredFrame DEF IInv, DevicesOK
    <2> QED
      BY <2>2, <2>3 DEF IInv
  <1>2. CASE Next
    <2>1. CASE Load \/ Isolate \/ Chroot \/ Chdir \/ ApplyOomScoreAdj \/ Stdio
      BY <2>1, QuietSteps
    <2>2. CASE OpenDevices
      BY <2>2, OpenInv
    <2>3. CASE ApplyMounts
      BY <2>3, ApplyMountsInv
    <2>4. CASE SetupDevices
      BY <2>4, SetupDevicesInv
    <2>5. CASE MaskPaths
      BY <2>5, MaskPathsInv
    <2>6. CASE ReadonlyPaths
      BY <2>6, ReadonlyPathsInv
    <2>7. CASE MakeRootReadonly
      BY <2>7, RootInv
    <2>8. CASE DropCapabilities
      BY <2>8, DropInv
    <2>9. CASE ExecEntrypoint
      BY <2>9, ExecInv
    <2>10. CASE Rest
      BY <1>1, <2>10 DEF Rest
    <2>11. CASE WriteSysctls
      BY <2>11, WriteSysctlsInv
    <2> QED
      BY <1>2, <2>1, <2>2, <2>3, <2>4, <2>5, <2>6, <2>7, <2>8, <2>9, <2>10, <2>11 DEF Next
  <1> QED
    BY <1>1, <1>2

\* The inductive invariant holds of every behaviour of setup_and_exec_child, for the
\* bundles of OptionsAssumption: no remount, no shared or unbindable propagation.
THEOREM Invariant == Spec => []IInv
  <1>1. Init => IInv
    BY InitInv
  <1>2. IInv /\ [Next]_vars => IInv'
    BY NextInv
  <1> QED
    BY <1>1, <1>2, PTL DEF Spec

\* Type correctness: setup_and_exec_child walks each of its lists within its
\* bounds, opens only what the host has, and leaves the kernel's mounts,
\* files and capability sets well formed, whatever the config and whatever the
\* kernel refuses.
THEOREM TypeCorrect == Spec => []TypeOK
  <1>1. IInv => TypeOK
    <2>1. SUFFICES ASSUME IInv PROVE TypeOK
      OBVIOUS
    <2>2. PlaceOK /\ DevicesOK /\ MountInv /\ CredInv
      BY <2>1 DEF IInv
    <2>3. /\ IsConfig(conf) /\ refused \subseteq Refusals
          /\ pc # "failed" => i \in 1..(Len(Walked) + 1) /\ why = ""
      BY <2>2, ConfigsAssumption DEF PlaceOK
    <2>4. Range(devices) \subseteq HostDevices \cup HostDirs
      BY <2>2 DEF DevicesOK
    <2>5. IsKernel(k)
      BY <2>2 DEF MountInv
    <2>6. k.files \subseteq [file : (STRING \X Nat) \X Paths, kind : FileKinds]
      BY <2>5 DEF IsKernel, FileNames
    <2>7. MountsOK(k)
      BY <2>5 DEF IsKernel
    <2>8. /\ \A j \in DOMAIN k.mounts : k.mounts[j] \in MountRecs
          /\ 1 \in DOMAIN k.mounts /\ DOMAIN k.mounts \subseteq 1..Latest(k) /\ k.mounts[1].at = <<>>
      BY <2>7 DEF MountsOK
    <2>9. Range(k.mounts) \subseteq
              [at : Paths, fs : STRING \X Nat, root : Paths, ro : BOOLEAN, top : BOOLEAN]
      BY <2>8 DEF Range, MountRecs
    <2>10. /\ cred \in Creds /\ cred.effective \subseteq cred.permitted
           /\ cred.ambient \subseteq (cred.permitted \cap cred.inheritable)
      BY <2>2 DEF CredInv
    <2>11. \A set \in DOMAIN cred : cred[set] \subseteq AllCaps
      BY <2>10 DEF Creds
    <2>12. sealed \subseteq Range(conf.readonlyPaths)
      BY <2>2 DEF MountInv
    <2>13. {m.path : m \in masked} \subseteq Range(conf.masked)
      <3>1. masked \subseteq [path : Range(conf.masked), by : FileNames]
        BY <2>2 DEF MountInv
      <3>2. \A m \in masked : m.path \in Range(conf.masked)
        BY <3>1
      <3> QED
        BY <3>2
    <2> QED
      BY <2>3, <2>4, <2>6, <2>8, <2>9, <2>10, <2>11, <2>12, <2>13 DEF TypeOK
  <1> QED
    BY <1>1, Invariant, PTL

\* What apply_masked_paths covered stays covered until the entrypoint runs: for
\* every config without remount and without shared or unbindable propagation
\* (OptionsAssumption), every kernel refusal and every order and nesting of the
\* masked and the read-only paths.
THEOREM MaskHoldsHolds == Spec => []MaskHolds
  <1>1. IInv => MaskHolds
    BY DEF IInv, MountInv
  <1> QED
    BY <1>1, Invariant, PTL

\* What apply_readonly_paths remounted stays read-only until the entrypoint runs,
\* whatever is bound above or below it later, for the bundles of OptionsAssumption.
THEOREM ReadonlyHoldsHolds == Spec => []ReadonlyHolds
  <1>1. IInv => ReadonlyHolds
    BY DEF IInv, MountInv
  <1> QED
    BY <1>1, Invariant, PTL

\* The capabilities the entrypoint holds are the ones apply_capabilities was
\* asked for, for every config and every list of capabilities.
THEOREM EntrypointCapsHolds == Spec => []EntrypointCaps
  <1>1. IInv => EntrypointCaps
    BY DEF IInv, CredInv
  <1> QED
    BY <1>1, Invariant, PTL

-----------------------------------------------------------------------------
(* Which bundles start *)

\* The root is a mount point in t if it is one in s.
KeepsRoot(s, t) == t.mounts[1].top = s.mounts[1].top

\* Nothing that is mounted, bound or remounted makes a mount point of the root.
LEMMA RootKept ==
    ASSUME NEW s, IsKernel(s)
    PROVE  /\ \A m \in MountRecs : KeepsRoot(s, WithMount(s, m))
           /\ \A from, p \in Paths : KeepsRoot(s, Bound(s, from, p)) /\ KeepsRoot(s, BoundRec(s, from, p))
           /\ \A p \in Paths : KeepsRoot(s, RemountedRo(s, p))
           /\ \A type \in STRING, p \in Paths, ro \in BOOLEAN : KeepsRoot(s, Mounted(s, type, p, ro))
  <1>1. /\ MountsOK(s) /\ s = [mounts |-> s.mounts, files |-> s.files]
        /\ 1 \in DOMAIN s.mounts /\ \A j \in DOMAIN s.mounts : s.mounts[j] \in MountRecs
    BY DEF IsKernel, MountsOK
  <1>2. ASSUME NEW m \in MountRecs PROVE KeepsRoot(s, WithMount(s, m))
    <2>1. WithMount(s, m).mounts[1] = s.mounts[1]
      BY <1>1, WithMountIs
    <2> QED
      BY <2>1 DEF KeepsRoot
  <1>3. ASSUME NEW from \in Paths, NEW p \in Paths
        PROVE  KeepsRoot(s, Bound(s, from, p)) /\ KeepsRoot(s, BoundRec(s, from, p))
    <2>1. KeepsRoot(s, Bound(s, from, p))
      BY <1>1, <1>2, BindOfType
    <2>2. BoundRec(s, from, p).mounts[1] = s.mounts[1]
      BY <1>1, BoundRecIs
    <2> QED
      BY <2>1, <2>2 DEF KeepsRoot
  <1>4. ASSUME NEW p \in Paths PROVE KeepsRoot(s, RemountedRo(s, p))
    <2>1. PICK j, M : j = Showing(s, p) /\ M = [s.mounts EXCEPT ![j].ro = TRUE]
      OBVIOUS
    <2>2. RemountedRo(s, p).mounts = M
      BY <1>1, <2>1 DEF RemountedRo
    <2>3. M[1].top = s.mounts[1].top
      <3>1. s.mounts[1] \in MountRecs
        BY <1>1
      <3>2. [s.mounts[1] EXCEPT !.ro = TRUE].top = s.mounts[1].top
        BY <3>1 DEF MountRecs
      <3>3. M[1] = s.mounts[1] \/ M[1] = [s.mounts[1] EXCEPT !.ro = TRUE]
        BY <1>1, <2>1
      <3> QED
        BY <3>2, <3>3
    <2> QED
      BY <2>2, <2>3 DEF KeepsRoot
  <1>5. ASSUME NEW type \in STRING, NEW p \in Paths, NEW ro \in BOOLEAN
        PROVE  KeepsRoot(s, Mounted(s, type, p, ro))
    <2>1. PICK m \in MountRecs : m = FsMount(s, type, p, ro)
      BY FsMountType
    <2>2. Mounted(s, type, p, ro).mounts = WithMount(s, m).mounts
      BY <2>1, MountedKernel
    <2>3. KeepsRoot(s, WithMount(s, m))
      BY <1>2
    <2> QED
      BY <2>2, <2>3 DEF KeepsRoot
  <1> QED
    BY <1>2, <1>3, <1>4, <1>5

\* What is mounted where the config says.
LEMMA ApplyMountKeepsRoot ==
    ASSUME NEW s, IsKernel(s), NEW m, IsMount(m), ApplyMountPossible(s, m)
    PROVE  KeepsRoot(s, ApplyMount(s, m))
  <1>1. m.at \in Paths /\ Optional(m.from, Paths)
    BY DEF IsMount
  <1>2. PICK t : t = MadeDirs(s, m.at) /\ IsKernel(t) /\ t.mounts = s.mounts
    BY <1>1, MadeDirsType DEF AddsFiles
  <1>3. CanMount(t, m) /\ ApplyMount(s, m) = DoMount(t, m)
    BY <1>2 DEF ApplyMountPossible, ApplyMount
  <1>4. KeepsRoot(t, DoMount(t, m))
    <2>1. CASE IsBind(m)
      <3>1. m.from \in Paths
        BY <1>1, <1>3, <2>1 DEF CanMount, ChangesPropagation, Optional
      <3>2. DoMount(t, m) = BoundRec(t, m.from, m.at) \/ DoMount(t, m) = Bound(t, m.from, m.at)
        <4>1. "bind" \in m.options \/ "rbind" \in m.options
          BY <2>1 DEF IsBind
        <4> QED
          BY <4>1 DEF DoMount, ChangesPropagation, IsBind
      <3> QED
        BY <1>1, <1>2, <3>1, <3>2, RootKept
    <2>2. CASE ~IsBind(m) /\ ChangesPropagation(m)
      BY <2>2 DEF DoMount, IsBind, KeepsRoot
    <2>3. CASE ~IsBind(m) /\ ~ChangesPropagation(m)
      <3>1. m.type \in STRING
        BY <1>3, <2>3, NamesAssumption DEF CanMount, Names
      <3>2. DoMount(t, m) = Mounted(t, m.type, m.at, ReadOnly(m))
        BY <2>3 DEF DoMount, IsBind
      <3>3. PICK ro \in BOOLEAN : ro = ReadOnly(m)
        BY DEF ReadOnly
      <3>4. KeepsRoot(t, Mounted(t, m.type, m.at, ro))
        BY <1>1, <1>2, <3>1, RootKept
      <3> QED
        BY <3>2, <3>3, <3>4
    <2> QED
      BY <2>1, <2>2, <2>3
  <1> QED
    BY <1>2, <1>3, <1>4 DEF KeepsRoot

\* A device node that is bound.
LEMMA BindDeviceKeepsRoot ==
    ASSUME NEW s, IsKernel(s), NEW p \in Paths, NEW allowed \in BOOLEAN
    PROVE  KeepsRoot(s, BindDevice(s, p, allowed))
  <1>1. PICK t : t = Made(s, p, "file") /\ IsKernel(t) /\ t.mounts = s.mounts
    BY MadeType DEF AddsFiles, FileKinds
  <1>2. HostNode(p) \in MountRecs
    <2>1. <<"host", 0>> \in STRING \X Nat
      BY NamedPaths DEF Names
    <2> QED
      BY <2>1 DEF HostNode, MountRecs
  <1>3. PICK w : w = WithMount(t, HostNode(p)) /\ KeepsRoot(t, w) /\ w = [mounts |-> w.mounts, files |-> w.files]
    <2>1. IsKernel(WithMount(t, HostNode(p)))
      BY <1>1, <1>2, MountedType, MoreFiles
    <2> QED
      BY <1>1, <1>2, <2>1, RootKept DEF IsKernel
  <1>4. \A F : [w EXCEPT !.files = F].mounts = w.mounts
    BY <1>3
  <1>5. BindDevice(s, p, allowed) = t \/ \E F : BindDevice(s, p, allowed) = [w EXCEPT !.files = F]
    BY <1>1, <1>3 DEF BindDevice
  <1> QED
    BY <1>1, <1>3, <1>4, <1>5 DEF KeepsRoot

\* No step makes a mount point of the root, or takes that from it.
LEMMA RootStep ==
    ASSUME IInv, Next
    PROVE  KeepsRoot(k, k')
  <1> USE DEF At, Kernel, History
  <1>0. PlaceOK /\ DevicesOK /\ MountInv /\ IsKernel(k) /\ conf \in Configs
    BY DEF IInv, MountInv, PlaceOK
  <1>1. CASE k' = k
    BY <1>1 DEF KeepsRoot
  <1>2. CASE ApplyMounts
    <2>1. CASE i <= Len(conf.mounts) /\ ApplyMountPossible(k, conf.mounts[i])
               /\ k' = ApplyMount(k, conf.mounts[i])
      <3>1. pc = "mount"
        BY <1>2 DEF ApplyMounts
      <3>2. Walked = conf.mounts
        BY <3>1 DEF Walked
      <3>3. Len(conf.mounts) \in Nat /\ i \in 1..(Len(conf.mounts) + 1)
            /\ \A j \in 1..Len(conf.mounts) : IsMount(conf.mounts[j])
        BY <1>0, <3>1, <3>2, ConfigFacts DEF PlaceOK
      <3>4. IsMount(conf.mounts[i])
        BY <2>1, <3>3
      <3> QED
        BY <1>0, <2>1, <3>4, ApplyMountKeepsRoot
    <2> QED
      BY <1>1, <1>2, <2>1 DEF ApplyMounts, Stops, Fail
  <1>3. CASE SetupDevices
    <2>1. CASE k' = Linked(k)
      BY <1>0, <2>1, LinkedType DEF AddsFiles, KeepsRoot
    <2>2. CASE i <= Len(devices) /\ \E allowed \in BOOLEAN : k' = BindDevice(k, devices[i], allowed)
      <3>1. pc = "devices"
        BY <1>3 DEF SetupDevices
      <3>2. Walked = devices
        BY <3>1 DEF Walked
      <3>3. devices \in Seq(Paths) /\ i \in 1..(Len(devices) + 1)
        BY <1>0, <3>1, <3>2 DEF PlaceOK, DevicesOK
      <3>4. devices[i] \in Paths
        BY <2>2, <3>3
      <3> QED
        BY <1>0, <2>2, <3>4, BindDeviceKeepsRoot
    <2> QED
      BY <1>3, <2>1, <2>2 DEF SetupDevices
  <1>4. CASE MaskPaths
    <2>1. CASE i <= Len(conf.masked) /\ \E allowed \in BOOLEAN :
                   k' = IF allowed /\ CanMask(Placeholder(k, conf.masked[i]), conf.masked[i])
                        THEN Mask(Placeholder(k, conf.masked[i]), conf.masked[i])
                        ELSE Placeholder(k, conf.masked[i])
      <3>1. pc = "mask"
        BY <1>4 DEF MaskPaths
      <3>2. Walked = conf.masked
        BY <3>1 DEF Walked
      <3>3. conf.masked \in Seq(Paths) /\ i \in 1..(Len(conf.masked) + 1)
        BY <1>0, <3>1, <3>2, ConfigFacts DEF PlaceOK
      <3>4. PICK p \in Paths : p = conf.masked[i]
        BY <2>1, <3>3
      <3>5. PICK s : s = Placeholder(k, p) /\ IsKernel(s) /\ s.mounts = k.mounts
        BY <1>0, PlacesType DEF AddsFiles
      <3>6. KeepsRoot(s, Mask(s, p))
        <4>1. DevNull \in Paths /\ "mask" \in STRING
          BY NamedPaths, DevPaths DEF DevNull, Names
        <4> QED
          BY <3>5, <4>1, RootKept DEF Mask
      <3>7. k' = s \/ k' = Mask(s, p)
        BY <2>1, <3>4, <3>5
      <3> QED
        BY <3>5, <3>6, <3>7 DEF KeepsRoot
    <2> QED
      BY <1>1, <1>4, <2>1, Zenon DEF MaskPaths
  <1>5. CASE ReadonlyPaths
    <2>1. CASE i <= Len(conf.readonlyPaths) /\ \E binds, remounts \in BOOLEAN :
                   k' = IF binds /\ Exists(ReadonlyPlace(k, conf.readonlyPaths[i]), conf.readonlyPaths[i])
                        THEN MakeReadonly(ReadonlyPlace(k, conf.readonlyPaths[i]), conf.readonlyPaths[i], remounts)
                        ELSE ReadonlyPlace(k, conf.readonlyPaths[i])
      <3>1. pc = "readonly"
        BY <1>5 DEF ReadonlyPaths
      <3>2. Walked = conf.readonlyPaths
        BY <3>1 DEF Walked
      <3>3. conf.readonlyPaths \in Seq(Paths) /\ i \in 1..(Len(conf.readonlyPaths) + 1)
        BY <1>0, <3>1, <3>2, ConfigFacts DEF PlaceOK
      <3>4. PICK p \in Paths : p = conf.readonlyPaths[i]
        BY <2>1, <3>3
      <3>5. PICK s : s = ReadonlyPlace(k, p) /\ IsKernel(s) /\ s.mounts = k.mounts
        BY <1>0, PlacesType DEF AddsFiles
      <3>6. PICK b : b = BoundRec(s, p, p) /\ IsKernel(b) /\ KeepsRoot(s, b)
        BY <3>5, BoundType, RootKept
      <3>7. KeepsRoot(b, RemountedRo(b, p))
        BY <3>6, RootKept
      <3>8. k' = s \/ k' = b \/ k' = RemountedRo(b, p)
        BY <2>1, <3>4, <3>5, <3>6 DEF MakeReadonly
      <3> QED
        BY <3>5, <3>6, <3>7, <3>8 DEF KeepsRoot
    <2> QED
      BY <1>1, <1>5, <2>1, Zenon DEF ReadonlyPaths
  <1>6. CASE MakeRootReadonly
    <2>1. KeepsRoot(k, RemountedRo(k, <<>>))
      BY <1>0, NamedPaths, RootKept
    <2> QED
      BY <1>1, <1>6, <2>1 DEF MakeRootReadonly, Stops, Fail
  <1>7. CASE Load \/ Isolate \/ OpenDevices \/ Chroot \/ Chdir \/ ApplyOomScoreAdj
             \/ DropCapabilities \/ Stdio \/ ExecEntrypoint \/ Rest
    BY <1>1, <1>7 DEF Load, Isolate, OpenDevices, Chroot, Chdir, ApplyOomScoreAdj,
                      DropCapabilities, Stdio, ExecEntrypoint, Rest, vars, Stops, Fail
  <1>8. CASE WriteSysctls
    <2>1. CASE k' = MadeEach(k, SysctlFiles, "file")
      BY <1>0, <2>1, SysctlPaths, MadeEachType DEF AddsFiles, FileKinds, KeepsRoot
    <2> QED
      BY <1>1, <1>8, <2>1 DEF WriteSysctls, Stops, Fail
  <1> QED
    BY <1>2, <1>3, <1>4, <1>5, <1>6, <1>7, <1>8 DEF Next

\* The steps before anything is mounted, and the ways to end without starting.
Early == {"load", "isolate", "open", "chroot", "chdir"}
NotStarted == {"rejected", "failed"}

\* What a failure that the kernel did not ask for is due to.
Reason(c, step) ==
    \/ step = "mount"
    \/ step = "sysctl" /\ c.net # "host" /\ c.sysctl # {}
    \/ step = "oom" /\ c.oom
    \/ CwdMissing(c) \/ CapsInvalid(c) \/ RootBlocked(c)

\* What the steps behind the child have shown of its bundle.
StartInv ==
    /\ pc \in Early => k = RootOf(conf)
    /\ k.mounts[1].top = conf.rootIsMount
    /\ pc \notin {"load", "rejected", "failed"} => Accepted(conf)
    /\ pc \notin Early \cup NotStarted => ~CwdMissing(conf)
    /\ pc \in AfterCaps \cup {"running"} => ~CapsInvalid(conf)
    /\ (pc = "root" /\ conf.caps = NoValue) => cred = FirstCred
    /\ pc \in {"stdio", "exec", "running"} => ~RootBlocked(conf)
    /\ (pc = "failed" /\ refused = {}) => Reason(conf, why)

\* A directory is there before the mounts if the root file system has it.
LEMMA RootHolds ==
    ASSUME NEW c \in Configs
    PROVE  IsDir(RootOf(c), CwdPath(c)) <=> ~CwdMissing(c)
  <1>1. PICK s : s = RootOf(c) /\ IsKernel(s)
    BY RootKernel, ConfigsAssumption DEF IsConfig
  <1>2. PICK p \in Paths : p = CwdPath(c)
    <2>1. <<>> \in Paths /\ Optional(c.cwd, [absolute : BOOLEAN, path : Paths])
      BY NamedPaths, ConfigsAssumption DEF IsConfig
    <2>2. CASE c.cwd = NoValue
      BY <2>1, <2>2 DEF CwdPath
    <2>3. CASE c.cwd # NoValue
      BY <2>1, <2>3 DEF CwdPath, Optional
    <2> QED
      BY <2>2, <2>3
  <1>3. PICK m : s.mounts = <<m>> /\ m.at = <<>> /\ m.fs = <<"rootfs", 1>> /\ m.root = <<>>
    BY <1>1 DEF RootOf
  <1>4. DOMAIN s.mounts = {1} /\ s.mounts[1] = m
    BY <1>3
  <1>5. MountOf(s, p) = m
    <2>1. Showing(s, p) \in DOMAIN s.mounts
      BY <1>1, ShowingOver DEF IsKernel
    <2> QED
      BY <1>4, <2>1 DEF MountOf
  <1>6. File(s, p) = <<<<"rootfs", 1>>, p>>
    <2>1. <<>> \in Paths /\ Len(<<>>) = 0 /\ IsPrefix(<<>>, p)
      BY <1>1, <1>3, <1>5, NamedPaths, FileIs DEF IsKernel
    <2>2. <<>> \o SubSeq(p, Len(<<>>) + 1, Len(p)) = p
      BY <2>1, Rejoined
    <2> QED
      BY <1>3, <1>5, <2>2 DEF File
  <1>7. s.files = {[file |-> <<<<"rootfs", 1>>, f.path>>, kind |-> f.kind] : f \in c.tree}
    BY <1>1 DEF RootOf
  <1>8. c.tree \subseteq [path : Paths, kind : FileKinds]
    BY ConfigFacts
  <1>9. ASSUME [path |-> p, kind |-> "dir"] \in c.tree PROVE IsDir(s, p)
    <2>1. PICK f \in c.tree : f.path = p /\ f.kind = "dir"
      BY <1>9
    <2>2. PICK g \in s.files : g.file = <<<<"rootfs", 1>>, p>> /\ g.kind = "dir"
      <3>1. [file |-> <<<<"rootfs", 1>>, f.path>>, kind |-> f.kind] \in s.files
        BY <1>7, Zenon
      <3>2. PICK g : g = [file |-> <<<<"rootfs", 1>>, f.path>>, kind |-> f.kind]
        OBVIOUS
      <3>3. g.file = <<<<"rootfs", 1>>, f.path>> /\ g.kind = f.kind
        BY <3>2
      <3> QED
        BY <2>1, <3>1, <3>2, <3>3
    <2> QED
      BY <1>6, <2>2 DEF IsDir, Kinds
  <1>10. ASSUME IsDir(s, p) PROVE [path |-> p, kind |-> "dir"] \in c.tree
    <2>1. PICK g \in s.files : g.file = File(s, p) /\ g.kind = "dir"
      BY <1>10 DEF IsDir, Kinds
    <2>2. PICK f \in c.tree : g.file = <<<<"rootfs", 1>>, f.path>> /\ g.kind = f.kind
      BY <1>7
    <2>3. f.path = p /\ f.kind = "dir"
      BY <1>6, <2>1, <2>2
    <2>4. f = [path |-> f.path, kind |-> f.kind]
      BY <1>8
    <2> QED
      BY <2>3, <2>4
  <1> QED
    BY <1>1, <1>2, <1>9, <1>10 DEF CwdMissing

\* apply_capabilities succeeds with the first credentials if the sets agree.
LEMMA CapsAgree ==
    ASSUME NEW c \in Configs, c.caps # NoValue
    PROVE  ApplyCapabilitiesPossible(FirstCred, c.caps) <=> ~CapsInvalid(c)
  <1>1. DOMAIN c.caps = {"bounding", "effective", "permitted", "inheritable", "ambient"}
    BY ConfigFacts
  <1>2. CASE ~KnownCaps(c.caps)
    BY <1>2 DEF ApplyCapabilitiesPossible, CapsInvalid
  <1>3. CASE KnownCaps(c.caps)
    <2>1. CapMask(c.caps.bounding) \subseteq AllCaps /\ CapMask(c.caps.permitted) \subseteq AllCaps
      BY <1>1, <1>3 DEF KnownCaps
    <2>2. PICK d : /\ d = DropBounding(FirstCred, c.caps)
                   /\ d.bounding = CapMask(c.caps.bounding) /\ d.inheritable = {} /\ d.permitted = AllCaps
      BY <2>1, BoundingLeft
    <2>3. CanSet(d, c.caps) <=> /\ CapMask(c.caps.effective) \subseteq CapMask(c.caps.permitted)
                                /\ CapMask(c.caps.inheritable) \subseteq CapMask(c.caps.bounding)
      BY <2>1, <2>2 DEF CanSet
    <2> QED
      BY <1>3, <2>2, <2>3 DEF ApplyCapabilitiesPossible, CapsInvalid
  <1> QED
    BY <1>2, <1>3

\* SYS_ADMIN is held after apply_capabilities if the config keeps it.
LEMMA AdminKept ==
    ASSUME IInv, StartInv, pc = "root", conf.readonly
    PROVE  RootPossible <=> ~RootBlocked(conf)
  <1>1. /\ conf \in Configs /\ IsKernel(k) /\ k.mounts[1].top = conf.rootIsMount
        /\ conf.rootIsMount \in BOOLEAN
    BY ConfigsAssumption DEF IInv, PlaceOK, MountInv, StartInv, IsConfig
  <1>2. MountOf(k, <<>>) = k.mounts[1]
    <2>1. <<>> \in Paths /\ MountsOK(k)
      BY <1>1, NamedPaths DEF IsKernel
    <2>2. /\ Showing(k, <<>>) \in DOMAIN k.mounts /\ Over(k, Showing(k, <<>>), <<>>)
          /\ k.mounts[Showing(k, <<>>)].at \in Paths
      BY <2>1, ShowingOver DEF MountsOK, MountRecs
    <2>3. k.mounts[Showing(k, <<>>)].at = <<>>
      <3>1. PICK a \in Paths : a = k.mounts[Showing(k, <<>>)].at
        BY <2>2
      <3>2. IsPrefix(a, <<>>)
        BY <2>2, <3>1 DEF Over
      <3>3. PICK e : e = <<>> /\ e \in Seq(STRING) /\ a \in Seq(STRING) /\ IsPrefix(a, e)
        BY <2>1, <3>1, <3>2, Zenon DEF Paths
      <3>4. IsPrefix(e, a)
        BY <3>3, PrefixOrder
      <3>5. a = e
        BY <3>3, <3>4, PrefixOrder
      <3> QED
        BY <3>1, <3>3, <3>5
    <2>4. Showing(k, <<>>) = 1
      BY <2>2, <2>3 DEF Over
    <2> QED
      BY <2>4 DEF MountOf
  <1>4. CASE conf.caps = NoValue
    <2>1. "SYS_ADMIN" \in cred.effective
      BY <1>4, CapsAssumption, FirstCredIs DEF StartInv, AllCaps
    <2> QED
      BY <1>1, <1>2, <1>4, <2>1 DEF RootPossible, RootBlocked
  <1>5. CASE conf.caps # NoValue
    <2>1. cred = ApplyCapabilities(FirstCred, conf.caps)
      BY <1>5 DEF IInv, CredInv, AfterCaps
    <2>2. cred.effective = CapMask(conf.caps.effective)
      BY <2>1 DEF ApplyCapabilities
    <2> QED
      BY <1>1, <1>2, <1>5, <2>2 DEF RootPossible, RootBlocked
  <1> QED
    BY <1>4, <1>5

\* The facts about the bundle hold when the child starts.
LEMMA StartInit == Init => StartInv
  <1>1. SUFFICES ASSUME Init PROVE StartInv
    OBVIOUS
  <1>2. pc = "load" /\ k = RootOf(conf)
    BY <1>1 DEF Init
  <1>3. k.mounts[1].top = conf.rootIsMount
    BY <1>2 DEF RootOf
  <1> QED
    BY <1>2, <1>3 DEF StartInv, Early, NotStarted, AfterCaps

\* A step that fails has a reason.
LEMMA StartStops ==
    ASSUME StartInv, NEW step, NEW possible, Stops(step, possible), ~possible => Reason(conf, step)
    PROVE  StartInv'
  <1>1. /\ pc' = "failed" /\ why' = step /\ conf' = conf /\ k' = k
        /\ (~possible \/ refused' # {})
    BY DEF Stops, Fail, Refuse, Kernel
  <1>2. (pc' = "failed" /\ refused' = {}) => Reason(conf', why')
    BY <1>1
  <1>3. k'.mounts[1].top = conf'.rootIsMount
    BY <1>1 DEF StartInv
  <1> QED
    BY <1>1, <1>2, <1>3 DEF StartInv, Early, NotStarted, AfterCaps

\* A step that goes on: what it shows of the bundle joins what was known.
LEMMA StartGoes ==
    ASSUME StartInv, NEW q, q \in Steps \ {"load", "failed"}, pc' = q, conf' = conf, KeepsRoot(k, k'),
           pc \notin {"failed", "rejected"},
           q \in Early => pc \in Early /\ k' = k,
           q # "rejected" => Accepted(conf),
           q \notin Early \cup NotStarted => pc \notin Early \/ ~CwdMissing(conf),
           q \in AfterCaps \cup {"running"} => pc \in AfterCaps \/ ~CapsInvalid(conf),
           (q = "root" /\ conf.caps = NoValue) => cred' = FirstCred,
           q \in {"stdio", "exec", "running"} => pc \in {"stdio", "exec"} \/ ~RootBlocked(conf)
    PROVE  StartInv'
  <1>1. pc' \in Early => k' = RootOf(conf')
    BY DEF StartInv
  <1>2. k'.mounts[1].top = conf'.rootIsMount
    BY DEF StartInv, KeepsRoot
  <1>3. pc' \notin {"load", "rejected", "failed"} => Accepted(conf')
    OBVIOUS
  <1>4. pc' \notin Early \cup NotStarted => ~CwdMissing(conf')
    BY DEF StartInv, NotStarted
  <1>5. /\ pc' \in AfterCaps \cup {"running"} => ~CapsInvalid(conf')
        /\ (pc' = "root" /\ conf'.caps = NoValue) => cred' = FirstCred
    BY DEF StartInv
  <1>6. pc' \in {"stdio", "exec", "running"} => ~RootBlocked(conf')
    BY DEF StartInv
  <1>7. pc' # "failed"
    OBVIOUS
  <1> QED
    BY <1>1, <1>2, <1>3, <1>4, <1>5, <1>6, <1>7 DEF StartInv

\* Every step keeps them.
LEMMA StartNext == IInv /\ StartInv /\ [Next]_vars => StartInv'
  <1> SUFFICES ASSUME IInv, StartInv, [Next]_vars PROVE StartInv'
    OBVIOUS
  <1> USE DEF At, Kernel, History
  <1>0. conf \in Configs /\ pc \in Steps
    BY DEF IInv, PlaceOK
  <1>1. CASE UNCHANGED vars
    BY <1>1 DEF vars, StartInv
  <1>2. CASE Next
    <2>0. KeepsRoot(k, k')
      BY <1>2, RootStep
    <2>1. CASE Load
      <3>1. pc = "load" /\ conf' = conf /\ k' = k /\ pc' = (IF Accepted(conf) THEN "isolate" ELSE "rejected")
        BY <2>1 DEF Load, Goto
      <3> QED
        BY <2>0, <3>1, StartGoes DEF Steps, BeforeCaps, BeforeReadonly, BeforeMask, Early, NotStarted, AfterCaps
    <2>2. CASE Isolate
      <3>1. CASE Stops("isolate", TRUE)
        BY <3>1, StartStops
      <3>2. CASE Goto("open") /\ UNCHANGED <<conf, devices, Kernel, why, refused, History>>
        <4>1. pc = "isolate" /\ conf' = conf /\ k' = k /\ pc' = "open" /\ Accepted(conf)
          BY <2>2, <3>2 DEF Isolate, Goto, StartInv
        <4> QED
          BY <2>0, <4>1, StartGoes DEF Steps, BeforeCaps, BeforeReadonly, BeforeMask, Early, NotStarted, AfterCaps
      <3> QED
        BY <2>2, <3>1, <3>2 DEF Isolate
    <2>3. CASE OpenDevices
      <3>1. pc = "open" /\ conf' = conf /\ k' = k /\ pc' \in {"open", "chroot"} /\ Accepted(conf)
        BY <2>3 DEF OpenDevices, Goto, StartInv
      <3> QED
        BY <2>0, <3>1, StartGoes DEF Steps, BeforeCaps, BeforeReadonly, BeforeMask, Early, NotStarted, AfterCaps
    <2>4. CASE Chroot
      <3>1. CASE Stops("chroot", TRUE)
        BY <3>1, StartStops
      <3>2. CASE Goto("chdir") /\ UNCHANGED <<conf, devices, Kernel, why, refused, History>>
        <4>1. pc = "chroot" /\ conf' = conf /\ k' = k /\ pc' = "chdir" /\ Accepted(conf)
          BY <2>4, <3>2 DEF Chroot, Goto, StartInv
        <4> QED
          BY <2>0, <4>1, StartGoes DEF Steps, BeforeCaps, BeforeReadonly, BeforeMask, Early, NotStarted, AfterCaps
      <3> QED
        BY <2>4, <3>1, <3>2 DEF Chroot
    <2>5. CASE Chdir
      <3>0. pc = "chdir" /\ k = RootOf(conf)
        BY <2>5 DEF Chdir, StartInv, Early
      <3>1. CASE Stops("chdir", IsDir(k, CwdPath(conf)))
        BY <1>0, <3>0, <3>1, RootHolds, StartStops DEF Reason
      <3>2. CASE IsDir(k, CwdPath(conf)) /\ Goto("mount") /\ UNCHANGED <<conf, k>>
        <4>1. ~CwdMissing(conf) /\ Accepted(conf)
          BY <1>0, <3>0, <3>2, RootHolds DEF StartInv
        <4>2. conf' = conf /\ pc' = "mount"
          BY <3>2 DEF Goto
        <4> QED
          BY <2>0, <3>0, <4>1, <4>2, StartGoes
             DEF Steps, BeforeCaps, BeforeReadonly, BeforeMask, Early, NotStarted, AfterCaps
      <3> QED
        BY <2>5, <3>1, <3>2 DEF Chdir
    <2>6. CASE ApplyMounts
      <3>1. CASE Stops("mount", ApplyMountPossible(k, conf.mounts[i]))
        BY <3>1, StartStops DEF Reason
      <3>2. CASE conf' = conf /\ pc' \in {"mount", "devices"}
        <4>1. pc = "mount" /\ Accepted(conf)
          BY <2>6 DEF ApplyMounts, StartInv
        <4> QED
          BY <2>0, <3>2, <4>1, StartGoes
             DEF Steps, BeforeCaps, BeforeReadonly, BeforeMask, Early, NotStarted, AfterCaps
      <3> QED
        BY <2>6, <3>1, <3>2 DEF ApplyMounts, Goto
    <2>7. CASE SetupDevices
      <3>1. pc = "devices" /\ conf' = conf /\ pc' \in {"devices", "sysctl"} /\ Accepted(conf)
        BY <2>7 DEF SetupDevices, Goto, StartInv
      <3> QED
        BY <2>0, <3>1, StartGoes DEF Steps, BeforeCaps, BeforeReadonly, BeforeMask, Early, NotStarted, AfterCaps
    <2>8. CASE WriteSysctls
      <3>1. CASE Stops("sysctl", SysctlsPossible)
        <4>1. ~SysctlsPossible => Reason(conf, "sysctl")
          BY DEF SysctlsPossible, SysctlFiles, Reason
        <4> QED
          BY <3>1, <4>1, StartStops
      <3>2. CASE Goto("mask") /\ conf' = conf
        <4>1. pc = "sysctl" /\ Accepted(conf) /\ pc' = "mask"
          BY <2>8, <3>2 DEF WriteSysctls, StartInv, Goto
        <4> QED
          BY <2>0, <3>2, <4>1, StartGoes
             DEF Steps, BeforeCaps, BeforeReadonly, BeforeMask, Early, NotStarted, AfterCaps
      <3> QED
        BY <2>8, <3>1, <3>2 DEF WriteSysctls
    <2>9. CASE MaskPaths
      <3>1. pc = "mask" /\ conf' = conf /\ pc' \in {"mask", "readonly"} /\ Accepted(conf)
        BY <2>9 DEF MaskPaths, Goto, StartInv
      <3> QED
        BY <2>0, <3>1, StartGoes DEF Steps, BeforeCaps, BeforeReadonly, BeforeMask, Early, NotStarted, AfterCaps
    <2>10. CASE ReadonlyPaths
      <3>1. pc = "readonly" /\ conf' = conf /\ pc' \in {"readonly", "oom"} /\ Accepted(conf)
        BY <2>10 DEF ReadonlyPaths, Goto, StartInv
      <3> QED
        BY <2>0, <3>1, StartGoes DEF Steps, BeforeCaps, BeforeReadonly, BeforeMask, Early, NotStarted, AfterCaps
    <2>11. CASE ApplyOomScoreAdj
      <3>1. CASE Stops("oom", OomPossible)
        <4>1. ~OomPossible => Reason(conf, "oom")
          BY DEF OomPossible, Reason
        <4> QED
          BY <3>1, <4>1, StartStops
      <3>2. CASE Goto("caps") /\ conf' = conf
        <4>1. pc = "oom" /\ Accepted(conf) /\ pc' = "caps"
          BY <2>11, <3>2 DEF ApplyOomScoreAdj, StartInv, Goto
        <4> QED
          BY <2>0, <3>2, <4>1, StartGoes
             DEF Steps, BeforeCaps, BeforeReadonly, BeforeMask, Early, NotStarted, AfterCaps
      <3> QED
        BY <2>11, <3>1, <3>2 DEF ApplyOomScoreAdj
    <2>12. CASE DropCapabilities
      <3>0. pc = "caps" /\ cred = FirstCred /\ Accepted(conf)
        BY <2>12 DEF DropCapabilities, IInv, CredInv, BeforeCaps, StartInv
      <3>a. CapsPossible <=> ~CapsInvalid(conf)
        BY <1>0, <3>0, CapsAgree DEF CapsPossible, CapsInvalid
      <3>1. CASE Stops("caps", CapsPossible)
        BY <3>a, <3>1, StartStops DEF Reason
      <3>2. CASE /\ CapsPossible /\ Goto("root") /\ conf' = conf
                 /\ cred' = IF conf.caps = NoValue THEN cred ELSE ApplyCapabilities(cred, conf.caps)
        <4>1. pc' = "root" /\ (conf.caps = NoValue => cred' = FirstCred) /\ ~CapsInvalid(conf)
          BY <3>0, <3>a, <3>2 DEF Goto
        <4> QED
          BY <2>0, <3>0, <3>2, <4>1, StartGoes
             DEF Steps, BeforeCaps, BeforeReadonly, BeforeMask, Early, NotStarted, AfterCaps
      <3> QED
        BY <2>12, <3>1, <3>2 DEF DropCapabilities
    <2>13. CASE MakeRootReadonly
      <3>0. pc = "root" /\ Accepted(conf)
        BY <2>13 DEF MakeRootReadonly, StartInv
      <3>a. RootPossible <=> ~RootBlocked(conf)
        <4>1. CASE conf.readonly
          BY <3>0, <4>1, AdminKept
        <4>2. CASE ~conf.readonly
          BY <4>2 DEF RootPossible, RootBlocked
        <4> QED
          BY <4>1, <4>2
      <3>1. CASE Stops("root", RootPossible)
        BY <3>a, <3>1, StartStops DEF Reason
      <3>2. CASE RootPossible /\ Goto("stdio") /\ conf' = conf
        <4>1. pc' = "stdio" /\ ~RootBlocked(conf)
          BY <3>a, <3>2 DEF Goto
        <4> QED
          BY <2>0, <3>0, <3>2, <4>1, StartGoes
             DEF Steps, BeforeCaps, BeforeReadonly, BeforeMask, Early, NotStarted, AfterCaps
      <3> QED
        BY <2>13, <3>1, <3>2 DEF MakeRootReadonly
    <2>14. CASE Stdio
      <3>1. CASE Stops("stdio", TRUE)
        BY <3>1, StartStops
      <3>2. CASE Goto("exec") /\ conf' = conf
        <4>1. pc = "stdio" /\ pc' = "exec" /\ Accepted(conf)
          BY <2>14, <3>2 DEF Stdio, Goto, StartInv
        <4> QED
          BY <2>0, <3>2, <4>1, StartGoes
             DEF Steps, BeforeCaps, BeforeReadonly, BeforeMask, Early, NotStarted, AfterCaps
      <3> QED
        BY <2>14, <3>1, <3>2 DEF Stdio
    <2>15. CASE ExecEntrypoint
      <3>0. pc = "exec" /\ Accepted(conf)
        BY <2>15 DEF ExecEntrypoint, StartInv
      <3>1. CASE Stops("exec", HasEntrypoint(conf))
        BY <3>0, <3>1, StartStops DEF Accepted, HostValidate
      <3>2. CASE Goto("running") /\ conf' = conf
        <4>1. pc' = "running"
          BY <3>2 DEF Goto
        <4> QED
          BY <2>0, <3>0, <3>2, <4>1, StartGoes
             DEF Steps, BeforeCaps, BeforeReadonly, BeforeMask, Early, NotStarted, AfterCaps
      <3> QED
        BY <2>15, <3>1, <3>2 DEF ExecEntrypoint
    <2>16. CASE Rest
      BY <1>1, <2>16 DEF Rest
    <2> QED
      BY <1>2, <2>1, <2>2, <2>3, <2>4, <2>5, <2>6, <2>7, <2>8, <2>9, <2>10, <2>11, <2>12, <2>13,
         <2>14, <2>15, <2>16 DEF Next
  <1> QED
    BY <1>1, <1>2

\* For every bundle and whatever the kernel refuses: an entrypoint that runs had
\* an accepted config, its working directory before the mounts, capability sets
\* that agree and a root that could be remounted, and a child that fails without
\* the kernel refusing anything lacks one of these, or failed to mount, to write a
\* sysctl it was asked to write, or to write the OOM score.
THEOREM StartInvariant == Spec => []StartInv
  <1>1. Init => StartInv
    BY StartInit
  <1>2. IInv /\ StartInv /\ [Next]_vars => StartInv'
    BY StartNext
  <1> QED
    BY <1>1, <1>2, Invariant, PTL DEF Spec

\* Which bundles start: StartsUnless, for every bundle that has nothing written
\* under /proc.  What is found there when a sysctl or the OOM score is written
\* depends on every mount, mask and device of the bundle: what StartsUnless says of
\* bundles with a plain /proc is left to the runs.
THEOREM StartsUnlessHolds == Spec => [](WritesNoProc(conf) => StartsUnless)
  <1>1. StartInv => (WritesNoProc(conf) => StartsUnless)
    <2>1. SUFFICES ASSUME StartInv, WritesNoProc(conf), refused = {}, why # "mount"
                   PROVE  LET blocked == \/ CwdMissing(conf) \/ SysctlBlocked(conf) \/ OomBlocked(conf)
                                         \/ CapsInvalid(conf) \/ RootBlocked(conf)
                          IN (pc = "failed" => blocked) /\ (pc = "running" => ~blocked)
      BY DEF StartsUnless
    <2>2. ~SysctlBlocked(conf) /\ ~OomBlocked(conf)
      BY <2>1 DEF WritesNoProc, SysctlBlocked, OomBlocked
    <2>3. CASE pc = "failed"
      <3>1. Reason(conf, why)
        BY <2>1, <2>3 DEF StartInv
      <3>2. CwdMissing(conf) \/ CapsInvalid(conf) \/ RootBlocked(conf)
        BY <2>1, <3>1 DEF Reason, WritesNoProc
      <3> QED
        BY <2>3, <3>2
    <2>4. CASE pc = "running"
      <3>1. ~CwdMissing(conf) /\ ~CapsInvalid(conf) /\ ~RootBlocked(conf)
        BY <2>1, <2>4 DEF StartInv, Early, NotStarted
      <3> QED
        BY <2>2, <2>4, <3>1
    <2> QED
      BY <2>3, <2>4
  <1> QED
    BY <1>1, StartInvariant, PTL

-----------------------------------------------------------------------------
(* Directories: what exists is in directories, also across mount points *)

\* There is a file, or a directory, f.
Here(s, f) == \E g \in s.files : g.file = f
DirHere(s, f) == [file |-> f, kind |-> "dir"] \in s.files

FsNames == STRING \X Nat

\* A file system's files are in its directories; of the host there are only the
\* device nodes.
FilesOK(s) ==
    \A fs \in FsNames, x \in Paths : Here(s, <<fs, x>>) =>
        /\ fs[1] = "host" => x \in HostDevices /\ ~DirHere(s, <<fs, x>>)
        /\ fs[1] # "host" => \A q \in Paths : IsStrictPrefix(q, x) => DirHere(s, <<fs, q>>)

\* What is mounted was there, and is at a place in directories.
RootsOK(s) == \A j \in DOMAIN s.mounts : Here(s, <<s.mounts[j].fs, s.mounts[j].root>>)
PointsOK(s) ==
    \A j \in DOMAIN s.mounts : (s.mounts[j].at # <<>> /\ Showing(s, s.mounts[j].at) = j) =>
        \A y \in Paths : IsStrictPrefix(y, s.mounts[j].at) => IsDir(s, y)

\* The file systems mounted are numbered up to the last mount.
SerialsOK(s) == \A j \in DOMAIN s.mounts : s.mounts[j].fs[2] <= Latest(s)

Sound(s) == FilesOK(s) /\ RootsOK(s) /\ PointsOK(s) /\ SerialsOK(s)

\* What exists, and what is a directory, told from the file a path leads to.
LEMMA ExistsIs ==
    ASSUME NEW s, IsKernel(s), NEW p
    PROVE  /\ Exists(s, p) <=> Here(s, File(s, p))
           /\ IsDir(s, p) <=> DirHere(s, File(s, p))
           /\ IsDir(s, p) => Exists(s, p)
  <1>1. \A g \in s.files : g = [file |-> g.file, kind |-> g.kind]
    BY DEF IsKernel
  <1>2. Exists(s, p) <=> Here(s, File(s, p))
    BY DEF Exists, Kinds, Here
  <1>3. IsDir(s, p) <=> DirHere(s, File(s, p))
    <2>1. IsDir(s, p) <=> \E g \in s.files : g.file = File(s, p) /\ g.kind = "dir"
      BY DEF IsDir, Kinds
    <2>2. (\E g \in s.files : g.file = File(s, p) /\ g.kind = "dir") <=> DirHere(s, File(s, p))
      BY <1>1 DEF DirHere
    <2> QED
      BY <2>1, <2>2
  <1>4. IsDir(s, p) => Exists(s, p)
    BY DEF IsDir, Exists
  <1> QED
    BY <1>2, <1>3, <1>4

\* Mounts and files of a kernel, as they are used below.
LEMMA KernelFacts ==
    ASSUME NEW s, IsKernel(s)
    PROVE  /\ MountsOK(s) /\ s = [mounts |-> s.mounts, files |-> s.files]
           /\ s.files \subseteq [file : FileNames, kind : FileKinds]
           /\ DOMAIN s.mounts \subseteq Int /\ DOMAIN s.mounts \subseteq 1..Latest(s) /\ Latest(s) \in Nat
           /\ 1 \in DOMAIN s.mounts /\ s.mounts[1].at = <<>>
           /\ \A j \in DOMAIN s.mounts : /\ s.mounts[j] \in MountRecs /\ s.mounts[j].at \in Paths
                                         /\ s.mounts[j].root \in Paths /\ s.mounts[j].fs \in FsNames
                                         /\ s.mounts[j].ro \in BOOLEAN
  BY DEF IsKernel, MountsOK, MountRecs, FsNames

\* A path is above what is put after it.
LEMMA JoinAbove == \A a \in Paths, b \in Paths : a \o b \in Paths /\ IsPrefix(a, a \o b)
  BY JoinPrefix

\* Strictly, if that is anything.
LEMMA JoinBelow == \A a \in Paths, b \in Paths : b # <<>> => IsStrictPrefix(a, a \o b)
  BY JoinPrefix DEF IsStrictPrefix

\* What is put after the same path differs if the results do.
LEMMA JoinCancel ==
    ASSUME NEW b \in Paths, NEW u \in Paths, NEW w \in Paths, b \o u = b \o w
    PROVE  u = w
  <1>1. IsPrefix(b \o u, b \o w) /\ IsPrefix(b \o w, b \o u)
    <2>1. b \o u \in Paths
      BY JoinAbove, Zenon
    <2>2. PICK z \in Paths : z = b \o u
      BY <2>1
    <2>3. IsPrefix(z, z)
      BY PrefixOrder DEF Paths
    <2> QED
      BY <2>2, <2>3
  <1>2. IsPrefix(u, w) /\ IsPrefix(w, u)
    BY <1>1, JoinPrefix
  <1> QED
    BY <1>2, PrefixOrder DEF Paths

\* Strictly above means a first part of the path, with something left.
LEMMA StrictJoin ==
    ASSUME NEW p \in Paths, NEW x \in Paths, IsPrefix(p, x)
    PROVE  \E v \in Paths : x = p \o v /\ v = SubSeq(x, Len(p) + 1, Len(x)) /\ (p # x => v # <<>>)
  <1>1. PICK v \in Paths : p \o v = x /\ v = SubSeq(x, Len(p) + 1, Len(x))
    BY Rejoined
  <1>2. v = <<>> => p \o v = p
    BY DEF Paths
  <1> QED
    BY <1>1, <1>2

\* A mount shows every path between its own and one that it shows.
LEMMA ShowsBetween ==
    ASSUME NEW s, IsKernel(s), NEW x \in Paths, NEW z \in Paths,
           IsPrefix(MountOf(s, x).at, z), IsPrefix(z, x)
    PROVE  Showing(s, z) = Showing(s, x) /\ MountOf(s, z) = MountOf(s, x)
  <1>1. MountsOK(s) /\ DOMAIN s.mounts \subseteq Int
    BY KernelFacts
  <1>2. PICK j \in DOMAIN s.mounts : /\ j = Showing(s, x) /\ Over(s, j, x)
                                     /\ \A l \in DOMAIN s.mounts : Over(s, l, x) => l <= j
    BY <1>1, ShowingOver
  <1>3. IsPrefix(s.mounts[j].at, z)
    BY <1>2 DEF MountOf
  <1>4. Over(s, j, z)
    BY <1>2, <1>3 DEF Over
  <1>5. ASSUME NEW l \in DOMAIN s.mounts, Over(s, l, z) PROVE l <= j
    <2>1. PICK a \in Paths : a = s.mounts[l].at /\ IsPrefix(a, z)
      BY <1>5, KernelFacts DEF Over
    <2>2. IsPrefix(a, x)
      BY <2>1, PrefixChain, Zenon
    <2> QED
      BY <1>2, <1>5, <2>1, <2>2 DEF Over
  <1>6. Showing(s, z) = j
    BY <1>1, <1>4, <1>5, ShowingIs
  <1> QED
    BY <1>2, <1>6 DEF MountOf

\* Three paths, each above the next.
Between(a, p, x) == a \in Paths /\ p \in Paths /\ x \in Paths /\ IsPrefix(a, p) /\ IsPrefix(p, x)

\* What is left of x after a, by way of p.
LEMMA ThroughRest ==
    \A a, p, x, r : Between(a, p, x) /\ r \in Paths =>
        Through(r, a, p, x) = r \o SubSeq(x, Len(a) + 1, Len(x))
  BY RestThrough DEF Between

\* What a path leads to, told from a directory above it that the same mount shows.
LEMMA FileRest ==
    ASSUME NEW s, IsKernel(s), NEW z \in Paths, NEW x \in Paths, IsPrefix(z, x),
           IsPrefix(MountOf(s, x).at, z)
    PROVE  /\ MountOf(s, z) = MountOf(s, x)
           /\ File(s, x) = <<File(s, z)[1], File(s, z)[2] \o SubSeq(x, Len(z) + 1, Len(x))>>
  <1>2. PICK m \in MountRecs : m = MountOf(s, x) /\ m = MountOf(s, z) /\ m.at \in Paths /\ m.root \in Paths
    <2>1. MountOf(s, z) = MountOf(s, x)
      BY ShowsBetween
    <2>2. MountOf(s, x) \in MountRecs
      BY KernelFacts, FileIs
    <2> QED
      BY <2>1, <2>2 DEF MountRecs
  <1>3. PICK a \in Paths, r \in Paths : a = m.at /\ r = m.root /\ IsPrefix(a, z)
    BY <1>2
  <1>4. PICK f, e : f = m.fs /\ e = r \o SubSeq(z, Len(a) + 1, Len(z))
    BY Zenon
  <1>5. File(s, z) = <<f, e>> /\ File(s, x) = <<f, r \o SubSeq(x, Len(a) + 1, Len(x))>>
    BY <1>2, <1>3, <1>4 DEF File
  <1>6. Through(r, a, z, x) = r \o SubSeq(x, Len(a) + 1, Len(x))
    <2>1. Between(a, z, x)
      BY <1>3 DEF Between
    <2> QED
      BY <2>1, ThroughRest, Zenon
  <1>7. Through(r, a, z, x) = e \o SubSeq(x, Len(z) + 1, Len(x))
    BY <1>4, Zenon DEF Through
  <1>8. <<f, e>>[1] = f /\ <<f, e>>[2] = e
    OBVIOUS
  <1> QED
    BY <1>2, <1>5, <1>6, <1>7, <1>8, Zenon

\* What is left after the first of two parts is the second.
LEMMA JoinRest ==
    ASSUME NEW z \in Paths, NEW v \in Paths
    PROVE  SubSeq(z \o v, Len(z) + 1, Len(z \o v)) = v
  <1>1. <<>> \in Paths /\ IsPrefix(<<>>, v) /\ z \o <<>> = z
    BY PrefixOrder DEF Paths
  <1>2. PICK n \in Paths : n = <<>> /\ IsPrefix(n, v) /\ z \o n = z
    BY <1>1, Zenon
  <1>3. SubSeq(z \o v, Len(z \o n) + 1, Len(z \o v)) = SubSeq(v, Len(n) + 1, Len(v))
    BY <1>2, RestJoin, Zenon
  <1>4. SubSeq(v, Len(n) + 1, Len(v)) = v
    BY <1>2 DEF Paths
  <1> QED
    BY <1>2, <1>3, <1>4, Zenon

\* What exists is in directories.
LEMMA Above ==
    ASSUME NEW s, IsKernel(s), Sound(s), NEW x \in Paths, Exists(s, x),
           NEW y \in Paths, IsStrictPrefix(y, x)
    PROVE  IsDir(s, y)
  <1>1. PICK j \in DOMAIN s.mounts : j = Showing(s, x)
    BY KernelFacts, ShowingOver
  <1>2. PICK m \in MountRecs : /\ m = s.mounts[j] /\ m = MountOf(s, x) /\ m.at \in Paths /\ m.root \in Paths
                               /\ m.fs \in FsNames /\ IsPrefix(m.at, x)
    BY <1>1, KernelFacts, FileIs
  <1>3. IsPrefix(y, x) /\ y # x
    BY DEF IsStrictPrefix
  <1>4. CASE IsPrefix(m.at, y)
    <2>1. PICK v \in Paths : v = SubSeq(x, Len(y) + 1, Len(x)) /\ v # <<>>
      BY <1>3, StrictJoin
    <2>2. PICK f \in FsNames, r \in Paths : File(s, y) = <<f, r>>
      <3>1. File(s, y) \in FileNames
        BY FileIs, KernelFacts
      <3> QED
        BY <3>1 DEF FileNames, FsNames
    <2>3. MountOf(s, y) = m /\ File(s, x) = <<f, r \o v>>
      <3>1. IsPrefix(MountOf(s, x).at, y)
        BY <1>2, <1>4
      <3>2. /\ MountOf(s, y) = MountOf(s, x)
            /\ File(s, x) = <<File(s, y)[1], File(s, y)[2] \o SubSeq(x, Len(y) + 1, Len(x))>>
        BY <1>3, <3>1, FileRest, Zenon
      <3>3. <<f, r>>[1] = f /\ <<f, r>>[2] = r
        OBVIOUS
      <3> QED
        BY <1>2, <2>1, <2>2, <3>2, <3>3, Zenon
    <2>4. r \o v \in Paths /\ IsStrictPrefix(r, r \o v)
      BY <2>1, JoinAbove, JoinBelow, Zenon
    <2>5. Here(s, <<f, r \o v>>)
      BY <2>3, ExistsIs
    <2>6. CASE f[1] # "host"
      <3>1. DirHere(s, <<f, r>>)
        BY <2>4, <2>5, <2>6 DEF Sound, FilesOK
      <3> QED
        BY <2>2, <3>1, ExistsIs
    \* No node of the host is below another.
    <2>7. CASE f[1] = "host"
      <3>1. PICK w : w = SubSeq(y, Len(m.at) + 1, Len(y)) /\ w \in Paths
        BY <1>2, <1>4, Rejoined
      <3>2. m.fs = f /\ m.root \o w = r
        <4>1. File(s, y) = <<m.fs, m.root \o w>>
          BY <2>3, <3>1 DEF File
        <4> QED
          BY <2>2, <4>1
      <3>3. IsPrefix(m.root, r)
        <4>1. PICK q \in Paths : q = m.root
          BY <1>2
        <4>2. IsPrefix(q, q \o w)
          BY <3>1, JoinAbove, Zenon
        <4> QED
          BY <3>2, <4>1, <4>2
      <3>4. IsStrictPrefix(m.root, r \o v)
        <4>1. PICK q \in Paths, z \in Paths : q = m.root /\ z = r \o v
          BY <1>2, <2>4
        <4>2. IsPrefix(q, r) /\ IsPrefix(r, z) /\ r # z
          BY <2>4, <3>3, <4>1 DEF IsStrictPrefix
        <4>3. IsPrefix(q, z) /\ q # z
          BY <4>2, PrefixOrder DEF Paths
        <4> QED
          BY <4>1, <4>3 DEF IsStrictPrefix
      <3>5. Here(s, <<m.fs, m.root>>)
        BY <1>2 DEF Sound, RootsOK
      <3>6. m.root \in HostDevices /\ r \o v \in HostDevices
        BY <1>2, <2>4, <2>5, <2>7, <3>2, <3>5 DEF Sound, FilesOK
      <3> QED
        BY <3>4, <3>6, HostDevicesAssumption
    <2> QED
      BY <2>6, <2>7
  <1>5. CASE ~IsPrefix(m.at, y)
    <2>1. IsPrefix(y, m.at)
      BY <1>2, <1>3, <1>5, PrefixTotal, Zenon
    <2>2. IsPrefix(m.at, m.at) /\ IsPrefix(y, y) /\ IsPrefix(<<>>, y)
      BY <1>2, PrefixOrder DEF Paths
    <2>3. IsStrictPrefix(y, m.at) /\ m.at # <<>>
      BY <1>5, <2>1, <2>2 DEF IsStrictPrefix
    <2>4. Showing(s, m.at) = j
      BY <1>1, <1>2, <2>2, ShowsBetween
    <2> QED
      BY <1>2, <2>3, <2>4 DEF Sound, PointsOK
  <1> QED
    BY <1>4, <1>5

\* The directory above a path.
LEMMA FrontIs ==
    ASSUME NEW a \in Paths, a # <<>>
    PROVE  /\ Front(a) \in Paths /\ IsPrefix(Front(a), a) /\ Front(a) # a
           /\ \A p \in Paths : IsStrictPrefix(p, a) <=> IsPrefix(p, Front(a))
  BY FrontPrefix DEF Paths, IsStrictPrefix

\* Below what is missing there is nothing, and no mount: it is all shown by the
\* mount that shows the directory above.
LEMMA MissingBelow ==
    ASSUME NEW s, IsKernel(s), Sound(s), NEW a \in Paths, a # <<>>, ~Exists(s, a),
           NEW x \in Paths, IsPrefix(a, x)
    PROVE  /\ ~Exists(s, x)
           /\ IsPrefix(MountOf(s, x).at, Front(a))
           /\ MountOf(s, x) = MountOf(s, Front(a))
  <1>1. ASSUME NEW z \in Paths, IsPrefix(a, z) PROVE ~Exists(s, z)
    <2>1. SUFFICES ASSUME Exists(s, z) PROVE FALSE
      OBVIOUS
    <2>2. a # z
      BY <2>1
    <2>3. IsDir(s, a)
      BY <1>1, <2>1, <2>2, Above DEF IsStrictPrefix
    <2> QED
      BY <2>3, ExistsIs
  <1>2. PICK j \in DOMAIN s.mounts : j = Showing(s, x)
    BY KernelFacts, ShowingOver
  <1>3. PICK m \in MountRecs : /\ m = s.mounts[j] /\ m = MountOf(s, x) /\ m.at \in Paths /\ m.root \in Paths
                               /\ IsPrefix(m.at, x)
    BY <1>2, KernelFacts, FileIs
  <1>4. ~IsPrefix(a, m.at)
    <2>1. SUFFICES ASSUME IsPrefix(a, m.at) PROVE FALSE
      OBVIOUS
    <2>2. IsPrefix(m.at, m.at)
      BY <1>3, PrefixOrder DEF Paths
    <2>3. MountOf(s, m.at) = m
      BY <1>3, <2>2, ShowsBetween
    <2>4. File(s, m.at) = <<m.fs, m.root>>
      <3>1. m.root \o SubSeq(m.at, Len(m.at) + 1, Len(m.at)) = m.root
        BY <1>3, NothingLeft
      <3> QED
        BY <2>3, <3>1 DEF File
    <2>5. Here(s, <<m.fs, m.root>>)
      BY <1>3 DEF Sound, RootsOK
    <2>6. Exists(s, m.at)
      BY <2>4, <2>5, ExistsIs
    <2> QED
      BY <1>1, <1>3, <2>1, <2>6
  <1>5. IsPrefix(m.at, a)
    BY <1>3, <1>4, PrefixTotal, Zenon
  <1>6. m.at # a
    <2>1. IsPrefix(a, a)
      BY PrefixOrder DEF Paths
    <2> QED
      BY <1>4, <2>1
  <1>7. IsPrefix(m.at, Front(a))
    BY <1>3, <1>5, <1>6, FrontIs DEF IsStrictPrefix
  <1>8. Front(a) \in Paths /\ IsPrefix(Front(a), x)
    <2>1. Front(a) \in Paths /\ IsPrefix(Front(a), a)
      BY FrontIs
    <2> QED
      BY <2>1, PrefixChain, Zenon
  <1>9. MountOf(s, Front(a)) = MountOf(s, x)
    BY <1>3, <1>7, <1>8, ShowsBetween
  <1>10. ~Exists(s, x)
    BY <1>1
  <1> QED
    BY <1>3, <1>7, <1>9, <1>10

-----------------------------------------------------------------------------
(* What is created: mkdir, creat and symlink *)

\* The files of t are those of s and what was created below a path that could be,
\* with the directories on the way.
NewAt(s, t, f) == \E x \in Paths, a \in Paths :
    /\ a # <<>> /\ Creatable(s, a) /\ IsPrefix(a, x) /\ f = File(s, x)
    /\ \A y \in Paths : IsPrefix(a, y) /\ IsStrictPrefix(y, x) => DirHere(t, File(s, y))
Grown(s, t) ==
    /\ IsKernel(t) /\ t.mounts = s.mounts /\ s.files \subseteq t.files
    /\ \A g \in t.files : g \in s.files \/ NewAt(s, t, g.file)

\* A file system in which something may be made, and one in which nothing can be.
Fertile(s, fs) ==
    /\ fs[1] \notin Barren
    /\ \E j \in DOMAIN s.mounts : s.mounts[j].fs = fs /\ ~s.mounts[j].ro
Sterile(s, fs) ==
    fs[1] \in Barren \/ \A j \in DOMAIN s.mounts : s.mounts[j].fs = fs => s.mounts[j].ro

\* Two ways to the same place: a path q above r \o w is above r, or has a path
\* above b \o w that corresponds to it.
WayTo(b, w, r, q) ==
    \/ q = r \/ IsStrictPrefix(q, r)
    \/ \E u \in Paths : q = r \o u /\ IsStrictPrefix(b \o u, b \o w) /\ IsStrictPrefix(b, b \o u)

\* These are all the ways.
LEMMA PathWay ==
    ASSUME NEW b \in Paths, NEW w \in Paths, NEW r \in Paths, NEW q \in Paths,
           IsStrictPrefix(q, r \o w)
    PROVE  WayTo(b, w, r, q)
  <1>1. SUFFICES ASSUME q # r, ~IsStrictPrefix(q, r)
                 PROVE  \E u \in Paths : q = r \o u /\ IsStrictPrefix(b \o u, b \o w) /\ IsStrictPrefix(b, b \o u)
    BY DEF WayTo
  <1>2. r \o w \in Paths /\ IsPrefix(r, r \o w) /\ IsPrefix(q, r \o w) /\ q # r \o w
    <2>1. r \o w \in Paths /\ IsPrefix(r, r \o w)
      BY JoinAbove, Zenon
    <2> QED
      BY <2>1 DEF IsStrictPrefix
  <1>3. IsPrefix(r, q)
    BY <1>1, <1>2, PrefixTotal DEF IsStrictPrefix
  <1>4. PICK u \in Paths : q = r \o u /\ u # <<>>
    BY <1>1, <1>3, StrictJoin
  <1>5. IsPrefix(u, w) /\ u # w
    BY <1>2, <1>4, JoinPrefix
  <1>6. IsPrefix(b \o u, b \o w)
    BY <1>5, JoinPrefix
  <1>7. b \o u # b \o w
    BY <1>5, JoinCancel
  <1>8. IsStrictPrefix(b, b \o u)
    BY <1>4, JoinBelow, Zenon
  <1> QED
    BY <1>4, <1>6, <1>7, <1>8 DEF IsStrictPrefix

\* Where something can be created, and what is below it.
LEMMA CreatableIs ==
    ASSUME NEW s, IsKernel(s), Sound(s), NEW a \in Paths, a # <<>>, Creatable(s, a),
           NEW x \in Paths, IsPrefix(a, x)
    PROVE  /\ ~Exists(s, x) /\ Fertile(s, File(s, x)[1])
           /\ IsPrefix(MountOf(s, x).at, Front(a))
           /\ IsDir(s, Front(a)) /\ File(s, Front(a))[1] = File(s, x)[1]
  <1>1. ~Exists(s, a) /\ IsDir(s, Front(a)) /\ ~MountOf(s, Front(a)).ro
        /\ MountOf(s, Front(a)).fs[1] \notin Barren
    BY DEF Creatable, Writable
  <1>2. /\ ~Exists(s, x) /\ IsPrefix(MountOf(s, x).at, Front(a))
        /\ MountOf(s, x) = MountOf(s, Front(a)) /\ Front(a) \in Paths
    BY <1>1, MissingBelow, FrontIs
  <1>3. PICK j \in DOMAIN s.mounts : j = Showing(s, Front(a)) /\ s.mounts[j] = MountOf(s, Front(a))
    BY <1>2, KernelFacts, ShowingOver DEF MountOf
  <1>4. PICK f \in FsNames, r \in Paths : /\ File(s, Front(a)) = <<f, r>> /\ f = s.mounts[j].fs
    <2>1. File(s, Front(a)) \in FileNames
      BY <1>2, FileIs, KernelFacts
    <2>2. File(s, Front(a))[1] = s.mounts[j].fs
      BY <1>3 DEF File
    <2> QED
      BY <2>1, <2>2 DEF FileNames, FsNames
  <1>5. File(s, x)[1] = f
    BY <1>2, <1>3, <1>4 DEF File
  <1>6. Fertile(s, f)
    BY <1>1, <1>3, <1>4 DEF Fertile
  <1>7. File(s, Front(a))[1] = f
    BY <1>4
  <1> QED
    BY <1>1, <1>2, <1>5, <1>6, <1>7

\* What is created was not there, and is in a file system that takes it.
LEMMA NewIsNew ==
    ASSUME NEW s, IsKernel(s), Sound(s), NEW t, NEW f, NewAt(s, t, f)
    PROVE  ~Here(s, f) /\ Fertile(s, f[1])
  <1>1. PICK x \in Paths, a \in Paths :
            a # <<>> /\ Creatable(s, a) /\ IsPrefix(a, x) /\ f = File(s, x)
    BY DEF NewAt
  <1>2. ~Exists(s, x) /\ Fertile(s, File(s, x)[1])
    BY <1>1, CreatableIs
  <1> QED
    BY <1>1, <1>2, ExistsIs

\* What is created below a directory is in directories.
LEMMA NewInDirs ==
    ASSUME NEW s, IsKernel(s), Sound(s), NEW t, Grown(s, t),
           NEW fs \in FsNames, NEW x \in Paths, NewAt(s, t, <<fs, x>>),
           NEW q \in Paths, IsStrictPrefix(q, x)
    PROVE  DirHere(t, <<fs, q>>)
  <1>1. PICK z \in Paths, a \in Paths :
            /\ a # <<>> /\ Creatable(s, a) /\ IsPrefix(a, z) /\ <<fs, x>> = File(s, z)
            /\ \A y \in Paths : IsPrefix(a, y) /\ IsStrictPrefix(y, z) => DirHere(t, File(s, y))
    BY DEF NewAt
  <1>2. PICK b \in Paths : /\ b = Front(a) /\ IsDir(s, b) /\ File(s, b)[1] = File(s, z)[1]
                           /\ IsPrefix(MountOf(s, z).at, b) /\ IsPrefix(b, a) /\ ~Exists(s, a)
                           /\ \A p \in Paths : IsStrictPrefix(p, a) <=> IsPrefix(p, b)
    BY <1>1, CreatableIs, FrontIs DEF Creatable
  <1>3. IsPrefix(b, z)
    BY <1>1, <1>2, PrefixChain, Zenon
  <1>4. PICK w \in Paths : z = b \o w /\ w = SubSeq(z, Len(b) + 1, Len(z))
    BY <1>3, StrictJoin
  <1>5. PICK r \in Paths : File(s, b) = <<fs, r>> /\ DirHere(s, <<fs, r>>)
    <2>1. File(s, b) \in FileNames
      BY FileIs, KernelFacts
    <2>2. PICK f \in FsNames, r \in Paths : File(s, b) = <<f, r>>
      BY <2>1 DEF FileNames, FsNames
    <2>3. f = fs
      BY <1>1, <1>2, <2>2
    <2>4. DirHere(s, File(s, b))
      BY <1>2, ExistsIs
    <2> QED
      BY <2>2, <2>3, <2>4
  <1>6. x = r \o w
    <2>1. File(s, z) = <<File(s, b)[1], File(s, b)[2] \o SubSeq(z, Len(b) + 1, Len(z))>>
      BY <1>2, <1>3, FileRest, Zenon
    <2>2. <<fs, r>>[1] = fs /\ <<fs, r>>[2] = r
      OBVIOUS
    <2>3. File(s, z) = <<fs, r \o w>>
      BY <1>4, <1>5, <2>1, <2>2, Zenon
    <2> QED
      BY <1>1, <2>3
  <1>7. \/ q = r \/ IsStrictPrefix(q, r)
        \/ \E u \in Paths : q = r \o u /\ IsStrictPrefix(b \o u, b \o w) /\ IsStrictPrefix(b, b \o u)
    <2>1. IsStrictPrefix(q, r \o w)
      BY <1>6
    <2>2. WayTo(b, w, r, q)
      BY <2>1, PathWay, Zenon
    <2> QED
      BY <2>2 DEF WayTo
  <1>8. \A f : DirHere(s, f) => DirHere(t, f)
    BY DEF Grown, DirHere
  <1>9. CASE q = r
    BY <1>5, <1>8, <1>9
  <1>10. CASE IsStrictPrefix(q, r)
    <2>1. Here(s, <<fs, r>>) /\ fs[1] # "host"
      <3>1. Here(s, <<fs, r>>)
        BY <1>5 DEF Here, DirHere
      <3>2. Fertile(s, <<fs, x>>[1]) /\ <<fs, x>>[1] = fs
        BY NewIsNew
      <3> QED
        BY <3>1, <3>2 DEF Fertile, Barren
    <2>2. DirHere(s, <<fs, q>>)
      BY <1>10, <2>1 DEF Sound, FilesOK
    <2> QED
      BY <1>8, <2>2
  <1>11. ASSUME NEW u \in Paths, q = r \o u, IsStrictPrefix(b \o u, b \o w), IsStrictPrefix(b, b \o u)
         PROVE  DirHere(t, <<fs, q>>)
    <2>1. PICK y \in Paths : y = b \o u /\ IsStrictPrefix(y, z) /\ IsPrefix(b, y) /\ b # y /\ IsPrefix(y, z)
      BY <1>4, <1>11, JoinAbove DEF IsStrictPrefix
    <2>2. IsPrefix(a, y)
      <3>1. SUFFICES ASSUME ~IsPrefix(a, y) PROVE FALSE
        OBVIOUS
      <3>2. IsPrefix(y, a)
        BY <1>1, <2>1, <3>1, PrefixTotal, Zenon
      <3>3. IsPrefix(a, a)
        BY PrefixOrder DEF Paths
      <3>4. IsPrefix(y, b)
        BY <1>2, <2>1, <3>1, <3>2, <3>3 DEF IsStrictPrefix
      <3> QED
        BY <2>1, <3>4, PrefixOrder DEF Paths
    <2>3. IsPrefix(MountOf(s, y).at, b)
      BY <1>1, <1>2, <2>2, MissingBelow
    <2>4. File(s, y) = <<File(s, b)[1], File(s, b)[2] \o u>>
      <3>1. File(s, y) = <<File(s, b)[1], File(s, b)[2] \o SubSeq(y, Len(b) + 1, Len(y))>>
        BY <2>1, <2>3, FileRest, ZenonT(60)
      <3>2. SubSeq(y, Len(b) + 1, Len(y)) = u
        BY <2>1, JoinRest, Zenon
      <3> QED
        BY <3>1, <3>2, Zenon
    <2>5. <<fs, r>>[1] = fs /\ <<fs, r>>[2] = r
      OBVIOUS
    <2>6. File(s, y) = <<fs, q>>
      BY <1>5, <1>11, <2>4, <2>5, Zenon
    <2>7. DirHere(t, File(s, y))
      BY <1>1, <2>1, <2>2
    <2> QED
      BY <2>6, <2>7
  <1> QED
    BY <1>7, <1>9, <1>10, <1>11

\* Creating what can be created keeps the file systems sound.
LEMMA GrownSound ==
    ASSUME NEW s, IsKernel(s), Sound(s), NEW t, Grown(s, t)
    PROVE  Sound(t)
  <1>1. IsKernel(t) /\ t.mounts = s.mounts /\ s.files \subseteq t.files
    BY DEF Grown
  <1>2. \A x : File(t, x) = File(s, x) /\ MountOf(t, x) = MountOf(s, x)
    BY <1>1, SameMounts
  <1>3. \A x : IsDir(s, x) => IsDir(t, x)
    BY <1>1, <1>2, ExistsIs DEF DirHere
  <1>4. ASSUME NEW fs \in FsNames, NEW x \in Paths, Here(t, <<fs, x>>)
        PROVE  /\ fs[1] = "host" => x \in HostDevices /\ ~DirHere(t, <<fs, x>>)
               /\ fs[1] # "host" => \A q \in Paths : IsStrictPrefix(q, x) => DirHere(t, <<fs, q>>)
    <2>1. PICK g \in t.files : g.file = <<fs, x>>
      BY <1>4 DEF Here
    <2>2. CASE NewAt(s, t, <<fs, x>>)
      <3>1. fs[1] # "host"
        <4>1. Fertile(s, <<fs, x>>[1]) /\ <<fs, x>>[1] = fs
          BY <2>2, NewIsNew
        <4> QED
          BY <4>1 DEF Fertile, Barren
      <3> QED
        BY <2>2, <3>1, NewInDirs
    <2>3. CASE ~NewAt(s, t, <<fs, x>>)
      <3>1. Here(s, <<fs, x>>)
        BY <2>1, <2>3 DEF Grown, Here
      <3>2. DirHere(t, <<fs, x>>) => DirHere(s, <<fs, x>>)
        <4>0. [file |-> <<fs, x>>, kind |-> "dir"].file = <<fs, x>>
          OBVIOUS
        <4>1. PICK d : d = [file |-> <<fs, x>>, kind |-> "dir"] /\ d.file = <<fs, x>>
          BY <4>0, Zenon
        <4>2. d \in t.files => d \in s.files
          BY <2>3, <4>1 DEF Grown
        <4> QED
          BY <4>1, <4>2 DEF DirHere
      <3>3. fs[1] = "host" => x \in HostDevices /\ ~DirHere(s, <<fs, x>>)
        BY <3>1 DEF Sound, FilesOK
      <3>4. fs[1] # "host" => \A q \in Paths : IsStrictPrefix(q, x) => DirHere(s, <<fs, q>>)
        BY <3>1 DEF Sound, FilesOK
      <3>5. \A q \in Paths : DirHere(s, <<fs, q>>) => DirHere(t, <<fs, q>>)
        BY <1>1 DEF DirHere
      <3> QED
        BY <3>2, <3>3, <3>4, <3>5
    <2> QED
      BY <2>2, <2>3
  <1>5. FilesOK(t)
    BY <1>4 DEF FilesOK
  <1>6. RootsOK(t)
    BY <1>1 DEF Sound, RootsOK, Here
  <1>7. PointsOK(t)
    <2>1. \A x : Showing(t, x) = Showing(s, x)
      BY <1>1 DEF Showing
    <2> QED
      BY <1>1, <1>3, <2>1 DEF Sound, PointsOK
  <1>8. SerialsOK(t)
    BY <1>1 DEF Sound, SerialsOK, Latest
  <1> QED
    BY <1>5, <1>6, <1>7, <1>8 DEF Sound

\* A path that can not come to exist: a directory above it is missing where nothing
\* can be made.
StuckAt(s, a) ==
    /\ a # <<>> /\ ~Exists(s, a) /\ Exists(s, Front(a))
    /\ ~IsDir(s, Front(a)) \/ Sterile(s, File(s, Front(a))[1])
Stuck(s, p) == \E a \in Paths : IsPrefix(a, p) /\ StuckAt(s, a)

\* It does not exist.
LEMMA StuckGone ==
    ASSUME NEW s, IsKernel(s), Sound(s), NEW p \in Paths, Stuck(s, p)
    PROVE  ~Exists(s, p)
  BY MissingBelow DEF Stuck, StuckAt

\* What is below the directory that is missing is in the same file system.
LEMMA StuckFs ==
    ASSUME NEW s, IsKernel(s), Sound(s), NEW a \in Paths, a # <<>>, ~Exists(s, a)
    PROVE  /\ Front(a) \in Paths
           /\ \E f \in FsNames, r \in Paths, z \in Paths :
                 File(s, Front(a)) = <<f, r>> /\ File(s, a) = <<f, z>> /\ IsStrictPrefix(r, z)
  <1>1. PICK b \in Paths : b = Front(a) /\ IsPrefix(b, a) /\ b # a
    BY FrontIs
  <1>2. IsPrefix(MountOf(s, a).at, b)
    <2>1. IsPrefix(a, a)
      BY PrefixOrder DEF Paths
    <2> QED
      BY <1>1, <2>1, MissingBelow
  <1>3. PICK w \in Paths : w = SubSeq(a, Len(b) + 1, Len(a)) /\ w # <<>>
    BY <1>1, StrictJoin
  <1>4. PICK f \in FsNames, r \in Paths : File(s, b) = <<f, r>>
    <2>1. File(s, b) \in FileNames
      BY FileIs, KernelFacts
    <2> QED
      BY <2>1 DEF FileNames, FsNames
  <1>5. File(s, a) = <<File(s, b)[1], File(s, b)[2] \o SubSeq(a, Len(b) + 1, Len(a))>>
    BY <1>1, <1>2, FileRest, Zenon
  <1>6. PICK z \in Paths : z = r \o w /\ IsStrictPrefix(r, z)
    <2>1. r \o w \in Paths /\ IsStrictPrefix(r, r \o w)
      BY <1>3, JoinAbove, JoinBelow, Zenon
    <2> QED
      BY <2>1
  <1>7. <<f, r>>[1] = f /\ <<f, r>>[2] = r /\ <<f, z>>[1] = f /\ <<f, z>>[2] = z
    OBVIOUS
  <1>8. File(s, a) = <<f, z>>
    BY <1>3, <1>4, <1>5, <1>6, <1>7, Zenon
  <1> QED
    BY <1>1, <1>4, <1>6, <1>8, Zenon

\* Nothing that is created makes a stuck path possible.
LEMMA GrownStuck ==
    ASSUME NEW s, IsKernel(s), Sound(s), NEW t, Grown(s, t), NEW p \in Paths, Stuck(s, p)
    PROVE  Stuck(t, p)
  <1>1. PICK a \in Paths : IsPrefix(a, p) /\ StuckAt(s, a)
    BY DEF Stuck
  <1>2. a # <<>> /\ ~Exists(s, a) /\ Exists(s, Front(a))
    BY <1>1 DEF StuckAt
  <1>3. IsKernel(t) /\ t.mounts = s.mounts /\ s.files \subseteq t.files /\ Sound(t)
    BY GrownSound DEF Grown
  <1>4. \A x : File(t, x) = File(s, x)
    BY <1>3, SameMounts
  <1>5. PICK f \in FsNames, r \in Paths, z \in Paths :
            File(s, Front(a)) = <<f, r>> /\ File(s, a) = <<f, z>> /\ IsStrictPrefix(r, z)
    BY <1>2, StuckFs
  <1>6. Here(s, <<f, r>>) /\ Here(t, <<f, r>>)
    BY <1>2, <1>3, <1>5, ExistsIs DEF Here
  <1>7. Exists(t, Front(a))
    BY <1>3, <1>4, <1>5, <1>6, ExistsIs
  <1>8. ~IsDir(s, Front(a)) => ~DirHere(t, <<f, r>>)
    <2>1. SUFFICES ASSUME ~IsDir(s, Front(a)), DirHere(t, <<f, r>>) PROVE FALSE
      OBVIOUS
    <2>2. ~DirHere(s, <<f, r>>)
      BY <1>5, <2>1, ExistsIs
    <2>a. [file |-> <<f, r>>, kind |-> "dir"].file = <<f, r>>
      OBVIOUS
    <2>3. PICK d : d = [file |-> <<f, r>>, kind |-> "dir"] /\ d.file = <<f, r>>
      BY <2>a, Zenon
    <2>4. NewAt(s, t, <<f, r>>)
      BY <2>1, <2>2, <2>3 DEF Grown, DirHere
    <2> QED
      BY <1>6, <2>4, NewIsNew
  <1>9. ~Here(t, <<f, z>>)
    <2>1. SUFFICES ASSUME Here(t, <<f, z>>) PROVE FALSE
      OBVIOUS
    <2>2. PICK g \in t.files : g.file = <<f, z>>
      BY <2>1 DEF Here
    <2>3. ~Here(s, <<f, z>>)
      BY <1>2, <1>5, ExistsIs
    <2>4. NewAt(s, t, <<f, z>>)
      BY <2>2, <2>3 DEF Grown, Here
    <2>5. Fertile(s, f)
      <3>1. Fertile(s, <<f, z>>[1]) /\ <<f, z>>[1] = f
        BY <2>4, NewIsNew
      <3> QED
        BY <3>1
    <2>6. ~Sterile(s, f)
      BY <2>5 DEF Fertile, Sterile
    <2>7. ~IsDir(s, Front(a))
      BY <1>1, <1>5, <2>6 DEF StuckAt
    <2>8. DirHere(t, <<f, r>>)
      BY <1>3, <1>5, <2>1, <2>5 DEF Fertile, Barren, Sound, FilesOK
    <2> QED
      BY <1>8, <2>7, <2>8
  <1>10. ~Exists(t, a)
    BY <1>3, <1>4, <1>5, <1>9, ExistsIs
  <1>11. ~IsDir(t, Front(a)) \/ Sterile(t, File(t, Front(a))[1])
    <2>1. CASE ~IsDir(s, Front(a))
      BY <1>3, <1>4, <1>5, <1>8, <2>1, ExistsIs
    <2>2. CASE Sterile(s, File(s, Front(a))[1])
      BY <1>3, <1>4, <2>2 DEF Sterile
    <2> QED
      BY <1>1, <2>1, <2>2 DEF StuckAt
  <1> QED
    BY <1>1, <1>2, <1>7, <1>10, <1>11 DEF Stuck, StuckAt

\* What creating files keeps, in one step or several.
Keeps(s, t) ==
    /\ IsKernel(t) /\ Sound(t) /\ t.mounts = s.mounts
    /\ \A q \in Paths : Stuck(s, q) => Stuck(t, q)
    /\ \A f : Here(t, f) /\ f[1][1] = "host" => Here(s, f)

\* Nothing is created on the host.
LEMMA GrownKeeps ==
    ASSUME NEW s, IsKernel(s), Sound(s), NEW t, Grown(s, t)
    PROVE  Keeps(s, t)
  <1>1. IsKernel(t) /\ t.mounts = s.mounts /\ Sound(t)
    BY GrownSound DEF Grown
  <1>2. \A q \in Paths : Stuck(s, q) => Stuck(t, q)
    BY GrownStuck
  <1>3. ASSUME NEW f, Here(t, f), f[1][1] = "host" PROVE Here(s, f)
    <2>1. PICK g \in t.files : g.file = f
      BY <1>3 DEF Here
    <2>2. ~NewAt(s, t, f)
      BY <1>3, NewIsNew DEF Fertile, Barren
    <2> QED
      BY <2>1, <2>2 DEF Grown, Here
  <1> QED
    BY <1>1, <1>2, <1>3 DEF Keeps

\* Step after step.
LEMMA KeepsTwice ==
    ASSUME NEW s, NEW t, NEW u, Keeps(s, t), Keeps(t, u)
    PROVE  Keeps(s, u)
  BY DEF Keeps

\* Doing nothing creates nothing.
LEMMA GrownSame ==
    ASSUME NEW s, IsKernel(s)
    PROVE  Grown(s, s)
  BY DEF Grown

\* mkdir(2) or creat(2) of one path.
LEMMA MadeGrown ==
    ASSUME NEW s, IsKernel(s), NEW p \in Paths, NEW kind \in FileKinds
    PROVE  /\ Grown(s, Made(s, p, kind))
           /\ Creatable(s, p) => Exists(Made(s, p, kind), p)
           /\ ~Creatable(s, p) => Made(s, p, kind) = s
  <1>1. CASE ~Creatable(s, p)
    BY <1>1, GrownSame DEF Made
  <1>2. CASE Creatable(s, p)
    <2>1. PICK t : t = Made(s, p, kind) /\ IsKernel(t) /\ t.mounts = s.mounts
      BY MadeType DEF AddsFiles
    <2>2. t.files = s.files \cup {[file |-> File(s, p), kind |-> kind]}
      BY <1>2, <2>1 DEF Made, IsKernel
    <2>3. p # <<>> /\ IsPrefix(p, p)
      BY <1>2, PrefixOrder DEF Creatable, Paths
    <2>4. ASSUME NEW y \in Paths, IsPrefix(p, y), IsStrictPrefix(y, p) PROVE FALSE
      BY <2>4, PrefixOrder DEF Paths, IsStrictPrefix
    <2>5. NewAt(s, t, File(s, p))
      BY <1>2, <2>3, <2>4 DEF NewAt
    <2>6. [file |-> File(s, p), kind |-> kind].file = File(s, p)
      OBVIOUS
    <2>7. \A g \in t.files : g \in s.files \/ NewAt(s, t, g.file)
      BY <2>2, <2>5, <2>6
    <2>8. Grown(s, t)
      BY <2>1, <2>2, <2>7 DEF Grown
    <2>9. Here(t, File(s, p)) /\ File(t, p) = File(s, p)
      BY <2>1, <2>2, <2>6, SameMounts DEF Here
    <2>10. Exists(t, p)
      BY <2>1, <2>9, ExistsIs
    <2> QED
      BY <1>2, <2>1, <2>8, <2>10
  <1> QED
    BY <1>1, <1>2

\* The first n components of a path.
LEMMA AncestorIs ==
    ASSUME NEW p \in Paths
    PROVE  /\ \A n \in 0..Len(p) : /\ Ancestor(p, n) \in Paths /\ Len(Ancestor(p, n)) = n
                                   /\ IsPrefix(Ancestor(p, n), p)
           /\ \A y \in Paths : IsPrefix(y, p) => y = Ancestor(p, Len(y)) /\ Len(y) \in 0..Len(p)
           /\ Len(p) \in Nat
  <1>0. Len(p) \in Nat
    BY DEF Paths
  <1>1. ASSUME NEW n \in 0..Len(p)
        PROVE  /\ Ancestor(p, n) \in Paths /\ Len(Ancestor(p, n)) = n
               /\ \A j \in 1..n : Ancestor(p, n)[j] = p[j]
    <2>1. n \in Int /\ 1 \in Int /\ 0 <= n /\ n <= Len(p)
      BY <1>0
    <2> QED
      BY <1>0, <2>1 DEF Ancestor, Paths
  <1>2. ASSUME NEW n \in 0..Len(p) PROVE IsPrefix(Ancestor(p, n), p)
    BY <1>0, <1>1, PrefixDef DEF Paths
  <1>3. ASSUME NEW y \in Paths, IsPrefix(y, p) PROVE y = Ancestor(p, Len(y)) /\ Len(y) \in 0..Len(p)
    <2>1. Len(y) \in Nat /\ Len(y) <= Len(p) /\ \A j \in 1..Len(y) : y[j] = p[j]
      BY <1>3, PrefixDef DEF Paths
    <2>2. PICK a \in Paths : a = Ancestor(p, Len(y)) /\ Len(a) = Len(y) /\ \A j \in 1..Len(y) : a[j] = p[j]
      BY <1>0, <1>1, <2>1
    <2>3. y = a
      BY <2>1, <2>2, SameElements DEF Paths
    <2> QED
      BY <1>0, <2>1, <2>2, <2>3
  <1> QED
    BY <1>0, <1>1, <1>2, <1>3

\* The root exists.
LEMMA RootExists ==
    ASSUME NEW s, IsKernel(s), Sound(s)
    PROVE  Exists(s, <<>>)
  <1>0. <<>> \in Paths
    BY DEF Paths
  <1>1. PICK e \in Paths : e = <<>>
    BY <1>0, Zenon
  <1>2. PICK j \in DOMAIN s.mounts : s.mounts[j] = MountOf(s, e) /\ IsPrefix(s.mounts[j].at, e)
    <2>1. Showing(s, e) \in DOMAIN s.mounts
      BY KernelFacts, ShowingOver
    <2>2. IsPrefix(MountOf(s, e).at, e)
      BY KernelFacts, FileIs
    <2> QED
      BY <2>1, <2>2 DEF MountOf
  <1>3. PICK r \in Paths, a \in Paths : r = s.mounts[j].root /\ a = s.mounts[j].at /\ a = e
    <2>1. s.mounts[j].root \in Paths /\ s.mounts[j].at \in Paths
      BY KernelFacts
    <2>2. s.mounts[j].at = e
      <3>1. PICK a \in Paths : a = s.mounts[j].at /\ IsPrefix(a, e)
        BY <1>2, <2>1
      <3>2. IsPrefix(e, a)
        BY <1>1, PrefixOrder DEF Paths
      <3>3. a = e
        BY <3>1, <3>2, PrefixOrder DEF Paths
      <3> QED
        BY <3>1, <3>3
    <2> QED
      BY <2>1, <2>2
  <1>4. r \o SubSeq(e, Len(e) + 1, Len(e)) = r
    BY NothingLeft
  <1>5. File(s, e) = <<s.mounts[j].fs, r>>
    BY <1>2, <1>3, <1>4 DEF File
  <1>6. Here(s, <<s.mounts[j].fs, r>>)
    BY <1>3 DEF Sound, RootsOK
  <1> QED
    BY <1>1, <1>5, <1>6, ExistsIs

\* Of a path that is missing, a first directory is.
LEMMA FirstMissing ==
    ASSUME NEW s, IsKernel(s), Sound(s), NEW p \in Paths, ~Exists(s, p)
    PROVE  \E n \in Missing(s, p) :
               /\ \A j \in Missing(s, p) : n <= j
               /\ Ancestor(p, n) \in Paths /\ Ancestor(p, n) # <<>> /\ IsPrefix(Ancestor(p, n), p)
               /\ ~Exists(s, Ancestor(p, n)) /\ Exists(s, Front(Ancestor(p, n)))
  <1>1. /\ Len(p) \in Nat
        /\ \A y \in Paths : IsPrefix(y, p) => y = Ancestor(p, Len(y)) /\ Len(y) \in 0..Len(p)
    BY AncestorIs
  <1>2. IsPrefix(p, p)
    BY PrefixOrder DEF Paths
  <1>3. Len(p) \in Missing(s, p)
    <2>1. p # <<>>
      BY RootExists
    <2>2. Len(p) # 0
      BY <2>1 DEF Paths
    <2>3. p = Ancestor(p, Len(p))
      BY <1>1, <1>2
    <2> QED
      BY <1>1, <2>2, <2>3 DEF Missing
  <1>4. Missing(s, p) \in SUBSET Nat
    BY <1>1 DEF Missing
  <1>5. PICK n \in Missing(s, p) : \A j \in Missing(s, p) : n <= j
    BY <1>3, <1>4, LeastNat
  <1>6. n \in 1..Len(p) /\ n \in 0..Len(p) /\ ~Exists(s, Ancestor(p, n))
    BY <1>1, <1>5 DEF Missing
  <1>7. PICK a \in Paths : a = Ancestor(p, n) /\ Len(a) = n /\ IsPrefix(a, p)
    BY <1>6, AncestorIs
  <1>8. a # <<>>
    BY <1>6, <1>7
  <1>9. PICK b \in Paths : b = Front(a) /\ Len(b) = n - 1 /\ IsPrefix(b, a)
    BY <1>7, <1>8, FrontPrefix DEF Paths, IsStrictPrefix
  <1>10. IsPrefix(b, p)
    BY <1>7, <1>9, PrefixChain, Zenon
  <1>11. b = Ancestor(p, n - 1)
    BY <1>1, <1>9, <1>10
  <1>12. Exists(s, b)
    <2>1. CASE n = 1
      <3>1. b = <<>>
        BY <1>9, <2>1 DEF Paths
      <3> QED
        BY <3>1, RootExists
    <2>2. CASE n # 1
      <3>1. n - 1 \in 1..Len(p) /\ ~(n <= n - 1)
        BY <1>1, <1>6, <2>2
      <3> QED
        BY <1>5, <1>11, <3>1 DEF Missing
    <2> QED
      BY <2>1, <2>2
  <1> QED
    BY <1>5, <1>6, <1>7, <1>8, <1>9, <1>12

\* create_dir_all.
LEMMA MadeDirsGrown ==
    ASSUME NEW s, IsKernel(s), Sound(s), NEW p \in Paths
    PROVE  /\ Grown(s, MadeDirs(s, p))
           /\ CanMakeDirs(s, p) /\ ~Exists(s, p) => Exists(MadeDirs(s, p), p)
           /\ ~CanMakeDirs(s, p) => MadeDirs(s, p) = s
  <1>1. CASE ~CanMakeDirs(s, p)
    BY <1>1, GrownSame DEF MadeDirs
  <1>2. CASE CanMakeDirs(s, p)
    <2>1. PICK t : t = MadeDirs(s, p) /\ IsKernel(t) /\ t.mounts = s.mounts
      BY MadeDirsType DEF AddsFiles
    <2>2. t.files = s.files \cup {[file |-> File(s, Ancestor(p, n)), kind |-> "dir"] : n \in Missing(s, p)}
      BY <1>2, <2>1 DEF MadeDirs, IsKernel
    <2>3. PICK n \in Missing(s, p) :
              Creatable(s, Ancestor(p, n)) /\ \A j \in Missing(s, p) : n <= j
      BY <1>2 DEF CanMakeDirs
    <2>4. /\ Len(p) \in Nat
          /\ \A y \in Paths : IsPrefix(y, p) => y = Ancestor(p, Len(y)) /\ Len(y) \in 0..Len(p)
      BY AncestorIs
    <2>5. /\ Missing(s, p) \subseteq 1..Len(p) /\ Missing(s, p) \subseteq 0..Len(p)
          /\ \A l \in 1..Len(p) : ~Exists(s, Ancestor(p, l)) => l \in Missing(s, p)
      BY <2>4 DEF Missing
    <2>6. PICK a \in Paths : a = Ancestor(p, n) /\ Len(a) = n /\ IsPrefix(a, p) /\ a # <<>> /\ Creatable(s, a)
      <3>1. Ancestor(p, n) \in Paths /\ Len(Ancestor(p, n)) = n /\ IsPrefix(Ancestor(p, n), p)
        BY <2>3, <2>5, AncestorIs
      <3> QED
        BY <2>3, <3>1 DEF Creatable
    <2>7. ~Exists(s, a) /\ n \in 1..Len(p)
      BY <2>3, <2>5, <2>6 DEF Creatable
    \* The directories on the way are missing, and so are made.
    <2>8. ASSUME NEW y \in Paths, IsPrefix(a, y), IsPrefix(y, p) PROVE DirHere(t, File(s, y))
      <3>1. ~Exists(s, y)
        BY <2>6, <2>7, <2>8, MissingBelow
      <3>2. y = Ancestor(p, Len(y)) /\ Len(y) \in 0..Len(p)
        BY <2>4, <2>8
      <3>3. Len(a) <= Len(y)
        BY <2>8, PrefixDef DEF Paths
      <3>4. Len(y) \in 1..Len(p)
        BY <2>4, <2>6, <2>7, <3>2, <3>3
      <3>5. Len(y) \in Missing(s, p)
        BY <2>5, <3>1, <3>2, <3>4
      <3>6. [file |-> File(s, Ancestor(p, Len(y))), kind |-> "dir"] \in t.files
        BY <2>2, <3>5
      <3> QED
        BY <3>2, <3>6 DEF DirHere
    <2>9. ASSUME NEW l \in Missing(s, p) PROVE NewAt(s, t, File(s, Ancestor(p, l)))
      <3>1. PICK x \in Paths : x = Ancestor(p, l) /\ Len(x) = l /\ IsPrefix(x, p)
        BY <2>5, <2>9, AncestorIs
      <3>2. IsPrefix(a, x)
        <4>1. Len(a) <= Len(x)
          BY <2>3, <2>6, <2>9, <3>1
        <4> QED
          BY <2>6, <3>1, <4>1, PrefixOrder DEF Paths
      <3>3. ASSUME NEW y \in Paths, IsPrefix(a, y), IsStrictPrefix(y, x) PROVE DirHere(t, File(s, y))
        <4>1. IsPrefix(y, x)
          BY <3>3 DEF IsStrictPrefix
        <4>2. IsPrefix(y, p)
          BY <3>1, <4>1, PrefixChain, Zenon
        <4> QED
          BY <2>8, <3>3, <4>2
      <3> QED
        BY <2>6, <3>1, <3>2, <3>3 DEF NewAt
    <2>10. ASSUME NEW g \in t.files PROVE g \in s.files \/ NewAt(s, t, g.file)
      <3>1. CASE g \in s.files
        BY <3>1
      <3>2. CASE g \notin s.files
        <4>1. PICK l \in Missing(s, p) : g = [file |-> File(s, Ancestor(p, l)), kind |-> "dir"]
          BY <2>2, <2>10, <3>2
        <4>2. g.file = File(s, Ancestor(p, l))
          BY <4>1
        <4> QED
          BY <2>9, <4>2
      <3> QED
        BY <3>1, <3>2
    <2>11. Grown(s, t)
      <3>1. s.files \subseteq t.files
        BY <2>2
      <3> QED
        BY <2>1, <2>10, <3>1 DEF Grown
    <2>12. ~Exists(s, p) => Exists(t, p)
      <3>1. IsPrefix(p, p)
        BY PrefixOrder DEF Paths
      <3>2. DirHere(t, File(s, p))
        BY <2>6, <2>8, <3>1
      <3>3. File(t, p) = File(s, p)
        BY <2>1, SameMounts
      <3> QED
        BY <2>1, <3>2, <3>3, ExistsIs
    <2> QED
      BY <1>2, <2>1, <2>11, <2>12
  <1> QED
    BY <1>1, <1>2

\* Files made side by side, as those of the sysctls, and the links of /dev.
LEMMA MadeEachGrown ==
    ASSUME NEW s, IsKernel(s), NEW P, P \subseteq Paths, NEW kind \in FileKinds
    PROVE  Grown(s, MadeEach(s, P, kind))
  <1> DEFINE L == {q \in P : Creatable(s, q)}
  <1>1. PICK t : t = MadeEach(s, P, kind) /\ IsKernel(t) /\ t.mounts = s.mounts
    BY MadeEachType DEF AddsFiles
  <1>2. t.files = s.files \cup {[file |-> File(s, p), kind |-> kind] : p \in L}
    BY <1>1 DEF MadeEach, IsKernel
  <1>3. ASSUME NEW p \in L PROVE NewAt(s, t, File(s, p))
    <2>1. p \in Paths /\ p # <<>> /\ Creatable(s, p)
      BY DEF Creatable
    <2>2. IsPrefix(p, p)
      BY <2>1, PrefixOrder DEF Paths
    <2>3. ASSUME NEW y \in Paths, IsPrefix(p, y), IsStrictPrefix(y, p) PROVE FALSE
      BY <2>1, <2>3, PrefixOrder DEF Paths, IsStrictPrefix
    <2> QED
      BY <2>1, <2>2, <2>3 DEF NewAt
  <1> HIDE DEF L
  <1>4. ASSUME NEW g \in t.files PROVE g \in s.files \/ NewAt(s, t, g.file)
    <2>1. CASE g \in s.files
      BY <2>1
    <2>2. CASE g \notin s.files
      <3>1. PICK p \in L : g = [file |-> File(s, p), kind |-> kind]
        BY <1>2, <1>4, <2>2
      <3>2. g.file = File(s, p)
        BY <3>1
      <3> QED
        BY <1>3, <3>2
    <2> QED
      BY <2>1, <2>2
  <1>5. s.files \subseteq t.files
    BY <1>2
  <1> QED
    BY <1>1, <1>4, <1>5 DEF Grown

LEMMA LinkedGrown ==
    ASSUME NEW s, IsKernel(s)
    PROVE  Grown(s, Linked(s))
  <1>1. PICK P : P = {Dev(name) : name \in Links}
    OBVIOUS
  <1>2. P \subseteq Paths /\ "link" \in FileKinds
    BY <1>1, DevPaths DEF Names, FileKinds
  <1>3. Linked(s) = MadeEach(s, P, "link")
    BY <1>1 DEF Linked
  <1> QED
    BY <1>2, <1>3, MadeEachGrown

\* The mounts of a file system are all read-only or all not, as long as none is
\* remounted.
Uniform(s) ==
    \A j, n \in DOMAIN s.mounts :
        s.mounts[j].fs = s.mounts[n].fs /\ s.mounts[j].fs[1] # "host" => s.mounts[j].ro = s.mounts[n].ro

\* What can not be made in a directory that is there: it is no directory, or is in
\* a file system that takes nothing, or is shown by a read-only mount.
LEMMA NotCreatable ==
    ASSUME NEW s, IsKernel(s), Sound(s), NEW a \in Paths, a # <<>>,
           ~Exists(s, a), Exists(s, Front(a)), ~Creatable(s, a)
    PROVE  /\ StuckAt(s, a) \/ MountOf(s, Front(a)).ro
           /\ Uniform(s) => StuckAt(s, a)
  <1>1. Front(a) \in Paths
    BY FrontIs
  <1>2. PICK j \in DOMAIN s.mounts : s.mounts[j] = MountOf(s, Front(a)) /\ s.mounts[j].ro \in BOOLEAN
    BY <1>1, KernelFacts, ShowingOver DEF MountOf
  <1>3. PICK f \in FsNames, r \in Paths : File(s, Front(a)) = <<f, r>> /\ f = s.mounts[j].fs
    <2>1. File(s, Front(a)) \in FileNames
      BY <1>1, FileIs, KernelFacts
    <2>2. File(s, Front(a))[1] = s.mounts[j].fs
      BY <1>2 DEF File
    <2> QED
      BY <2>1, <2>2 DEF FileNames, FsNames
  <1>4. \/ ~IsDir(s, Front(a)) \/ s.mounts[j].ro \/ f[1] \in Barren
    BY <1>2, <1>3 DEF Creatable, Writable
  <1>5. <<f, r>>[1] = f
    OBVIOUS
  <1>6. ~IsDir(s, Front(a)) \/ f[1] \in Barren => StuckAt(s, a)
    BY <1>3, <1>5 DEF StuckAt, Sterile
  <1>7. ASSUME s.mounts[j].ro, Uniform(s), IsDir(s, Front(a)) PROVE StuckAt(s, a)
    <2>1. DirHere(s, <<f, r>>) /\ Here(s, <<f, r>>)
      BY <1>3, <1>7, ExistsIs
    <2>2. f[1] # "host"
      BY <2>1 DEF Sound, FilesOK
    <2>3. Sterile(s, f)
      BY <1>3, <1>7, <2>2 DEF Uniform, Sterile
    <2> QED
      BY <1>3, <1>5, <2>3 DEF StuckAt
  <1> QED
    BY <1>2, <1>4, <1>6, <1>7

\* What create_dir_all can not make, there or later.
LEMMA Barred ==
    ASSUME NEW s, IsKernel(s), Sound(s), NEW p \in Paths, ~Exists(MadeDirs(s, p), p)
    PROVE  /\ MadeDirs(s, p) = s
           /\ Stuck(s, p) \/ MountOf(s, p).ro
           /\ Uniform(s) => Stuck(s, p)
  <1>1. ~Exists(s, p)
    <2>1. PICK t : t = MadeDirs(s, p) /\ IsKernel(t) /\ t.mounts = s.mounts /\ s.files \subseteq t.files
      BY MadeDirsGrown DEF Grown
    <2>2. File(t, p) = File(s, p)
      BY <2>1, SameMounts
    <2> QED
      BY <2>1, <2>2, ExistsIs DEF Here
  <1>2. ~CanMakeDirs(s, p) /\ MadeDirs(s, p) = s
    BY <1>1, MadeDirsGrown
  <1>3. PICK n \in Missing(s, p) :
               /\ \A j \in Missing(s, p) : n <= j
               /\ Ancestor(p, n) \in Paths /\ Ancestor(p, n) # <<>> /\ IsPrefix(Ancestor(p, n), p)
               /\ ~Exists(s, Ancestor(p, n)) /\ Exists(s, Front(Ancestor(p, n)))
    BY <1>1, FirstMissing
  <1>4. PICK a \in Paths : /\ a = Ancestor(p, n) /\ a # <<>> /\ IsPrefix(a, p)
                           /\ ~Exists(s, a) /\ Exists(s, Front(a)) /\ ~Creatable(s, a)
    BY <1>2, <1>3 DEF CanMakeDirs
  <1>5. /\ StuckAt(s, a) \/ MountOf(s, Front(a)).ro
        /\ Uniform(s) => StuckAt(s, a)
    BY <1>4, NotCreatable
  <1>6. MountOf(s, p) = MountOf(s, Front(a))
    BY <1>4, MissingBelow
  <1> QED
    BY <1>2, <1>4, <1>5, <1>6 DEF Stuck

\* The placeholder of a path to mask, if it can be made.
LEMMA PlaceholderKeeps ==
    ASSUME NEW s, IsKernel(s), Sound(s), NEW p \in Paths
    PROVE  /\ Keeps(s, Placeholder(s, p))
           /\ Uniform(s) /\ ~Exists(Placeholder(s, p), p) => Stuck(Placeholder(s, p), p)
  <1>1. CASE Exists(s, p)
    <2>1. Placeholder(s, p) = s
      BY <1>1 DEF Placeholder
    <2>2. Keeps(s, s)
      BY GrownSame, GrownKeeps
    <2> QED
      BY <1>1, <2>1, <2>2
  <1>2. CASE ~Exists(s, p)
    <2>1. p # <<>>
      BY <1>2, RootExists
    <2>2. PICK b \in Paths : b = Front(p) /\ IsPrefix(b, p)
      BY <2>1, FrontIs
    <2>3. PICK t : t = MadeDirs(s, b) /\ Keeps(s, t)
      BY MadeDirsGrown, GrownKeeps
    <2>4. IsKernel(t) /\ Sound(t)
      BY <2>3 DEF Keeps
    <2>5. "file" \in FileKinds
      BY DEF FileKinds
    <2>6. PICK u : /\ u = Made(t, p, "file") /\ Keeps(t, u)
                   /\ Creatable(t, p) => Exists(u, p)
                   /\ ~Creatable(t, p) => u = t
      BY <2>4, <2>5, MadeGrown, GrownKeeps
    <2>7. Placeholder(s, p) = u /\ Keeps(s, u)
      BY <1>2, <2>2, <2>3, <2>6, KeepsTwice DEF Placeholder
    <2>8. ASSUME Uniform(s), ~Exists(u, p) PROVE Stuck(u, p)
      <3>1. ~Creatable(t, p) /\ u = t /\ Uniform(t)
        BY <2>3, <2>6, <2>8 DEF Keeps, Uniform
      <3>2. CASE ~Exists(t, b)
        <4>1. Stuck(s, b) /\ t = s
          BY <2>3, <2>8, <3>2, Barred
        <4>2. Stuck(s, p)
          <5>1. PICK a \in Paths : IsPrefix(a, b) /\ StuckAt(s, a)
            BY <4>1 DEF Stuck
          <5>2. IsPrefix(a, p)
            BY <2>2, <5>1, PrefixChain, Zenon
          <5> QED
            BY <5>1, <5>2 DEF Stuck
        <4> QED
          BY <3>1, <4>1, <4>2
      <3>3. CASE Exists(t, b)
        <4>1. StuckAt(t, p)
          BY <2>1, <2>2, <2>4, <2>8, <3>1, <3>3, NotCreatable
        <4>2. IsPrefix(p, p)
          BY PrefixOrder DEF Paths
        <4> QED
          BY <3>1, <4>1, <4>2 DEF Stuck
      <3> QED
        BY <3>2, <3>3
    <2> QED
      BY <2>7, <2>8
  <1> QED
    BY <1>1, <1>2

-----------------------------------------------------------------------------
(* What is mounted *)

\* A new mount of t, at p or below it; one over the root is of no account.
NewMount(t, p, j) ==
    /\ Here(t, <<t.mounts[j].fs, t.mounts[j].root>>) /\ t.mounts[j].fs[2] <= Latest(t)
    /\ t.mounts[j].at # <<>> =>
           /\ p # <<>> /\ IsPrefix(p, t.mounts[j].at)
           /\ \A y \in Paths : IsPrefix(p, y) /\ IsStrictPrefix(y, t.mounts[j].at) => IsDir(t, y)

\* Mounts were added at p and below, and show what is there.
Adds(s, t, p) ==
    /\ IsKernel(t) /\ s.files \subseteq t.files /\ Latest(s) <= Latest(t)
    /\ DOMAIN s.mounts \subseteq DOMAIN t.mounts
    /\ \A j \in DOMAIN s.mounts : t.mounts[j] = s.mounts[j]
    /\ \A x \in Paths : ~(IsPrefix(p, x) /\ p # <<>>) => MountOf(t, x) = MountOf(s, x)
    /\ \A x \in Paths : IsPrefix(p, x) /\ p # <<>> => Showing(t, x) \notin DOMAIN s.mounts
    /\ \A j \in DOMAIN t.mounts : j \in DOMAIN s.mounts \/ NewMount(t, p, j)

\* Mounting on what exists keeps every mount point in directories.
LEMMA AddsSound ==
    ASSUME NEW s, IsKernel(s), Sound(s), NEW p \in Paths, Exists(s, p), NEW t, Adds(s, t, p), FilesOK(t)
    PROVE  Sound(t)
  <1>1. /\ IsKernel(t) /\ s.files \subseteq t.files /\ Latest(s) <= Latest(t)
        /\ DOMAIN s.mounts \subseteq DOMAIN t.mounts
        /\ \A j \in DOMAIN s.mounts : t.mounts[j] = s.mounts[j]
    BY DEF Adds
  <1>2. ASSUME NEW x \in Paths, ~(IsPrefix(p, x) /\ p # <<>>), IsDir(s, x) PROVE IsDir(t, x)
    <2>1. MountOf(t, x) = MountOf(s, x)
      BY <1>2 DEF Adds
    <2>2. File(t, x) = File(s, x)
      BY <2>1 DEF File
    <2> QED
      BY <1>1, <1>2, <2>2, ExistsIs DEF DirHere
  <1>3. RootsOK(t)
    <2>1. ASSUME NEW j \in DOMAIN t.mounts PROVE Here(t, <<t.mounts[j].fs, t.mounts[j].root>>)
      <3>1. CASE j \in DOMAIN s.mounts
        BY <1>1, <3>1 DEF Sound, RootsOK, Here
      <3>2. CASE NewMount(t, p, j)
        BY <3>2 DEF NewMount
      <3> QED
        BY <3>1, <3>2 DEF Adds
    <2> QED
      BY <2>1 DEF RootsOK
  <1>4. SerialsOK(t)
    <2>1. ASSUME NEW j \in DOMAIN t.mounts PROVE t.mounts[j].fs[2] <= Latest(t)
      <3>1. CASE j \in DOMAIN s.mounts
        <4>1. t.mounts[j].fs[2] <= Latest(s)
          BY <1>1, <3>1 DEF Sound, SerialsOK
        <4>2. Latest(s) \in Int /\ Latest(t) \in Int /\ t.mounts[j].fs[2] \in Int
          BY <1>1, <2>1, KernelFacts DEF FsNames
        <4> QED
          BY <1>1, <4>1, <4>2
      <3>2. CASE NewMount(t, p, j)
        BY <3>2 DEF NewMount
      <3> QED
        BY <3>1, <3>2 DEF Adds
    <2> QED
      BY <2>1 DEF SerialsOK
  <1>5. ASSUME NEW j \in DOMAIN t.mounts, t.mounts[j].at # <<>>, Showing(t, t.mounts[j].at) = j,
               NEW y \in Paths, IsStrictPrefix(y, t.mounts[j].at)
        PROVE  IsDir(t, y)
    <2>1. PICK a \in Paths : a = t.mounts[j].at /\ IsPrefix(y, a) /\ y # a
      BY <1>1, <1>5, KernelFacts DEF IsStrictPrefix
    <2>2. CASE j \in DOMAIN s.mounts
      <3>1. ~(IsPrefix(p, a) /\ p # <<>>)
        BY <1>5, <2>1, <2>2 DEF Adds
      <3>2. ~(IsPrefix(p, y) /\ p # <<>>)
        <4>1. IsPrefix(p, y) => IsPrefix(p, a)
          BY <2>1, PrefixChain, Zenon
        <4> QED
          BY <3>1, <4>1
      <3>3. s.mounts[j].at = a
        BY <1>1, <2>1, <2>2
      \* j showed its place before.
      <3>4. Showing(s, a) = j
        <4>1. Over(t, j, a) /\ \A l \in DOMAIN t.mounts : Over(t, l, a) => l <= j
          BY <1>1, <1>5, <2>1, KernelFacts, ShowingOver
        <4>2. \A l \in DOMAIN s.mounts : Over(t, l, a) <=> Over(s, l, a)
          BY <1>1 DEF Over
        <4>3. Over(s, j, a) /\ \A l \in DOMAIN s.mounts : Over(s, l, a) => l <= j
          BY <1>1, <2>2, <4>1, <4>2
        <4>4. DOMAIN s.mounts \subseteq Int
          BY KernelFacts
        <4> QED
          BY <2>2, <4>3, <4>4, ShowingIs
      <3>5. IsDir(s, y)
        BY <1>5, <2>1, <2>2, <3>3, <3>4 DEF Sound, PointsOK
      <3> QED
        BY <1>2, <3>2, <3>5
    <2>3. CASE NewMount(t, p, j)
      <3>1. /\ p # <<>> /\ IsPrefix(p, a)
            /\ \A z \in Paths : IsPrefix(p, z) /\ IsStrictPrefix(z, a) => IsDir(t, z)
        BY <1>5, <2>1, <2>3 DEF NewMount
      <3>2. CASE IsPrefix(p, y)
        BY <1>5, <2>1, <3>1, <3>2
      <3>3. CASE ~IsPrefix(p, y)
        <4>1. IsPrefix(y, p)
          BY <2>1, <3>1, <3>3, PrefixTotal, Zenon
        <4>2. IsPrefix(y, y)
          BY PrefixOrder DEF Paths
        <4>3. IsStrictPrefix(y, p)
          BY <3>3, <4>1, <4>2 DEF IsStrictPrefix
        <4>4. IsDir(s, y)
          BY <4>3, Above
        <4> QED
          BY <1>2, <3>3, <4>4
      <3> QED
        BY <3>2, <3>3
    <2> QED
      BY <2>2, <2>3 DEF Adds
  <1>6. PointsOK(t)
    BY <1>5 DEF PointsOK
  <1> QED
    BY <1>3, <1>4, <1>6 DEF Sound

\* One mount more.
LEMMA WithMountAdds ==
    ASSUME NEW s, IsKernel(s), NEW m \in MountRecs, NEW t, IsKernel(t),
           t.mounts = WithMount(s, m).mounts, s.files \subseteq t.files,
           Here(t, <<m.fs, m.root>>), m.fs[2] <= Latest(s) + 1
    PROVE  /\ Adds(s, t, m.at) /\ Latest(t) = Latest(s) + 1
           /\ DOMAIN t.mounts = DOMAIN s.mounts \cup {Latest(s) + 1}
           /\ t.mounts[Latest(s) + 1] = m
           /\ \A x \in Paths : IsPrefix(m.at, x) /\ m.at # <<>> => MountOf(t, x) = m
  <1>0. MountsOK(s) /\ s = [mounts |-> s.mounts, files |-> s.files] /\ m.at \in Paths /\ Latest(s) \in Nat
        /\ DOMAIN s.mounts \subseteq 1..Latest(s)
    BY KernelFacts DEF MountRecs
  <1>1. PICK w : w = WithMount(s, m) /\ t.mounts = w.mounts
    BY Zenon
  <1>2. /\ MountsOK(w) /\ Latest(w) = Latest(s) + 1
        /\ DOMAIN w.mounts = DOMAIN s.mounts \cup {Latest(s) + 1}
        /\ \A j \in DOMAIN s.mounts : w.mounts[j] = s.mounts[j]
        /\ w.mounts[Latest(s) + 1] = m
    BY <1>0, <1>1, WithMountIs
  <1>3. PICK last \in Nat : /\ last = Latest(s) + 1 /\ last \notin DOMAIN s.mounts
                            /\ \A j \in DOMAIN s.mounts : ~(last <= j)
    BY <1>0
  <1>4. /\ Latest(t) = last /\ DOMAIN t.mounts = DOMAIN s.mounts \cup {last}
        /\ \A j \in DOMAIN s.mounts : t.mounts[j] = s.mounts[j]
        /\ t.mounts[last] = m
    BY <1>1, <1>2, <1>3 DEF Latest
  <1>5. \A x \in Paths : /\ IsPrefix(m.at, x) /\ m.at # <<>> => MountOf(t, x) = m
                         /\ ~(IsPrefix(m.at, x) /\ m.at # <<>>) => MountOf(t, x) = MountOf(s, x)
    <2>1. ASSUME NEW x \in Paths
          PROVE  /\ IsPrefix(m.at, x) /\ m.at # <<>> => MountOf(w, x) = m
                 /\ ~(IsPrefix(m.at, x) /\ m.at # <<>>) => MountOf(w, x) = MountOf(s, x)
      BY <1>0, <1>1, MountShows
    <2>2. \A x : MountOf(t, x) = MountOf(w, x)
      BY <1>1, SameMounts
    <2> QED
      BY <2>1, <2>2
  <1>6. ASSUME NEW x \in Paths, IsPrefix(m.at, x), m.at # <<>> PROVE Showing(t, x) \notin DOMAIN s.mounts
    <2>1. Over(t, last, x) /\ last \in DOMAIN t.mounts
      BY <1>4, <1>6 DEF Over
    <2>2. last <= Showing(t, x)
      BY <2>1, KernelFacts, ShowingOver
    <2> QED
      BY <1>3, <2>2
  <1>7. NewMount(t, m.at, last)
    <2>1. IsPrefix(m.at, m.at)
      BY <1>0, PrefixOrder DEF Paths
    <2>2. ASSUME NEW y \in Paths, IsPrefix(m.at, y), IsStrictPrefix(y, m.at) PROVE FALSE
      BY <1>0, <2>2, PrefixOrder DEF Paths, IsStrictPrefix
    <2> QED
      BY <1>3, <1>4, <2>1, <2>2 DEF NewMount
  <1>8. Latest(s) <= Latest(t)
    BY <1>0, <1>3, <1>4
  <1>9. Adds(s, t, m.at)
    BY <1>4, <1>5, <1>6, <1>7, <1>8 DEF Adds
  <1> QED
    BY <1>3, <1>4, <1>5, <1>9

\* Every new mount is of a file system that is mounted, and read-only as that is.
Derived(s, t) ==
    \A j \in DOMAIN t.mounts : \/ j \in DOMAIN s.mounts
                               \/ \E n \in DOMAIN s.mounts : /\ t.mounts[j].fs = s.mounts[n].fs
                                                             /\ t.mounts[j].ro = s.mounts[n].ro

\* The mount a bind makes.
LEMMA BindIs ==
    ASSUME NEW s, IsKernel(s), Sound(s), NEW from \in Paths, NEW p \in Paths, Exists(s, from)
    PROVE  LET m == BindOf(s, from, p)
           IN /\ m \in MountRecs /\ m.at = p
              /\ Here(s, <<m.fs, m.root>>) /\ m.fs[2] <= Latest(s)
              /\ \E n \in DOMAIN s.mounts : m.fs = s.mounts[n].fs /\ m.ro = s.mounts[n].ro
  <1>1. PICK m \in MountRecs : m = BindOf(s, from, p)
    BY KernelFacts, BindOfType
  <1>2. /\ m.at = p /\ m.fs = File(s, from)[1] /\ m.root = File(s, from)[2]
        /\ m.ro = MountOf(s, from).ro
    BY <1>1 DEF BindOf
  <1>3. PICK n \in DOMAIN s.mounts : s.mounts[n] = MountOf(s, from)
    BY KernelFacts, ShowingOver DEF MountOf
  <1>4. PICK f \in FsNames, r \in Paths : File(s, from) = <<f, r>> /\ f = s.mounts[n].fs
    <2>1. File(s, from) \in FileNames
      BY FileIs, KernelFacts
    <2>2. File(s, from)[1] = s.mounts[n].fs
      BY <1>3 DEF File
    <2> QED
      BY <2>1, <2>2 DEF FileNames, FsNames
  <1>5. m.fs = f /\ m.root = r
    BY <1>2, <1>4
  <1>6. Here(s, <<f, r>>)
    BY <1>4, ExistsIs
  <1>7. f[2] <= Latest(s)
    BY <1>4 DEF Sound, SerialsOK
  <1> QED
    BY <1>1, <1>2, <1>3, <1>4, <1>5, <1>6, <1>7

\* mount(2) with MS_BIND.
LEMMA BoundAdds ==
    ASSUME NEW s, IsKernel(s), Sound(s), NEW from \in Paths, NEW p \in Paths, Exists(s, from),
           NEW t, IsKernel(t), t.files = s.files, t.mounts = WithMount(s, BindOf(s, from, p)).mounts
    PROVE  Adds(s, t, p) /\ Derived(s, t)
  <1>1. PICK m \in MountRecs : /\ m = BindOf(s, from, p) /\ m.at = p
                               /\ Here(s, <<m.fs, m.root>>) /\ m.fs[2] <= Latest(s)
                               /\ \E n \in DOMAIN s.mounts : m.fs = s.mounts[n].fs /\ m.ro = s.mounts[n].ro
    BY BindIs
  <1>2. Here(t, <<m.fs, m.root>>)
    BY <1>1 DEF Here
  <1>3. m.fs[2] <= Latest(s) + 1
    <2>1. Latest(s) \in Nat /\ m.fs[2] \in Nat
      BY KernelFacts DEF MountRecs
    <2> QED
      BY <1>1, <2>1
  <1>4. /\ Adds(s, t, m.at) /\ DOMAIN t.mounts = DOMAIN s.mounts \cup {Latest(s) + 1}
        /\ t.mounts[Latest(s) + 1] = m
    BY <1>1, <1>2, <1>3, WithMountAdds
  <1> QED
    BY <1>1, <1>4 DEF Derived

\* And with MS_REC.
LEMMA BoundRecAdds ==
    ASSUME NEW s, IsKernel(s), Sound(s), NEW from \in Paths, NEW p \in Paths, Exists(s, from)
    PROVE  LET u == BoundRec(s, from, p)
           IN IsKernel(u) /\ u.files = s.files /\ Adds(s, u, p) /\ Derived(s, u)
  <1>0. MountsOK(s) /\ s = [mounts |-> s.mounts, files |-> s.files] /\ Latest(s) \in Nat
        /\ DOMAIN s.mounts \subseteq 1..Latest(s)
    BY KernelFacts
  <1>1. PICK u : /\ u = BoundRec(s, from, p) /\ IsKernel(u) /\ u.files = s.files
    BY <1>0, BoundType, BoundRecIs
  <1>2. CASE p = <<>>
    <2>1. u.mounts = WithMount(s, BindOf(s, from, p)).mounts
      BY <1>0, <1>1, <1>2, BoundOverRoot
    <2> QED
      BY <1>1, <2>1, BoundAdds
  <1>3. CASE p # <<>>
    <2>1. PICK last \in Nat : /\ last = Latest(s) + 1 /\ last \notin DOMAIN s.mounts
                              /\ \A j \in DOMAIN s.mounts : ~(last <= j)
      BY <1>0
    <2>2. /\ last \in DOMAIN u.mounts /\ DOMAIN s.mounts \subseteq DOMAIN u.mounts
          /\ \A j \in DOMAIN s.mounts : u.mounts[j] = s.mounts[j]
      BY <1>0, <1>1, <2>1, BoundRecIs
    <2>3. \A j \in DOMAIN u.mounts : \/ j \in DOMAIN s.mounts \/ j = last
                                     \/ \E n \in Copied(s, from, p) : j = last + n
      <3>1. \A j \in DOMAIN u.mounts : j \in DOMAIN s.mounts \/ j = last \/ CopyNo(s, from, p, j)
        BY <1>0, <1>1, <2>1, BoundRecIs
      <3> QED
        BY <2>1, <3>1 DEF CopyNo
    <2>4. PICK m \in MountRecs : /\ m = u.mounts[last] /\ m.at = p
                                 /\ Here(s, <<m.fs, m.root>>) /\ m.fs[2] <= Latest(s)
                                 /\ \E n \in DOMAIN s.mounts : m.fs = s.mounts[n].fs /\ m.ro = s.mounts[n].ro
      <3>1. u.mounts[last] = BindOf(s, from, p)
        BY <1>0, <1>1, <2>1, BoundRecIs
      <3> QED
        BY <3>1, BindIs
    <2>5. \A f : Here(u, f) <=> Here(s, f)
      BY <1>1 DEF Here
    <2>6. /\ \A x \in Paths : ~IsPrefix(p, x) => MountOf(u, x) = MountOf(s, x)
          /\ \A v \in Paths : File(u, p \o v) = File(s, from \o v)
      BY <1>0, <1>1, <1>3, BoundRecShows
    <2>7. Latest(s) <= Latest(u) /\ Latest(u) \in Nat
      <3>1. Latest(u) \in Nat /\ last <= Latest(u)
        BY <1>1, <2>2, KernelFacts
      <3> QED
        BY <1>0, <2>1, <3>1
    <2>8. ASSUME NEW x \in Paths, IsPrefix(p, x) PROVE Showing(u, x) \notin DOMAIN s.mounts
      <3>1. Over(u, last, x)
        BY <1>3, <2>4, <2>8 DEF Over
      <3>2. last <= Showing(u, x)
        BY <1>1, <2>2, <3>1, KernelFacts, ShowingOver
      <3> QED
        BY <2>1, <3>2
    <2>9. NewMount(u, p, last)
      <3>1. IsPrefix(p, p)
        BY PrefixOrder DEF Paths
      <3>2. ASSUME NEW y \in Paths, IsPrefix(p, y), IsStrictPrefix(y, p) PROVE FALSE
        BY <3>2, PrefixOrder DEF Paths, IsStrictPrefix
      <3>3. m.fs[2] <= Latest(u)
        <4>1. m.fs[2] \in Nat
          BY DEF MountRecs
        <4> QED
          BY <1>0, <2>4, <2>7, <4>1
      <3> QED
        BY <1>3, <2>4, <2>5, <3>1, <3>2, <3>3 DEF NewMount
    <2>10. ASSUME NEW n \in Copied(s, from, p)
           PROVE  /\ NewMount(u, p, last + n) /\ n \in DOMAIN s.mounts
                  /\ u.mounts[last + n].fs = s.mounts[n].fs /\ u.mounts[last + n].ro = s.mounts[n].ro
      <3>1. /\ n \in DOMAIN s.mounts /\ IsPrefix(from, s.mounts[n].at) /\ from # s.mounts[n].at
            /\ Showing(s, s.mounts[n].at) = n /\ s.mounts[n] \in MountRecs /\ s.mounts[n].at \in Paths
        BY KernelFacts DEF Copied, Submounts, IsStrictPrefix
      <3>2. u.mounts[last + n] = Moved(s.mounts[n], from, p)
        BY <1>0, <1>1, <2>1, BoundRecIs, SMTT(30)
      <3>3. PICK r \in Paths : /\ s.mounts[n].at = from \o r /\ u.mounts[last + n].at = p \o r
                               /\ u.mounts[last + n].fs = s.mounts[n].fs
                               /\ u.mounts[last + n].root = s.mounts[n].root
                               /\ u.mounts[last + n].ro = s.mounts[n].ro
        <4>1. PICK d \in MountRecs : d = s.mounts[n] /\ IsPrefix(from, d.at)
          BY <3>1
        <4>2. \E r \in Paths : /\ d.at = from \o r /\ Moved(d, from, p).at = p \o r
                               /\ Moved(d, from, p).fs = d.fs /\ Moved(d, from, p).root = d.root
                               /\ Moved(d, from, p).ro = d.ro
          BY <4>1, MovedIs, ZenonT(30)
        <4> QED
          BY <3>2, <4>1, <4>2
      <3>4. Here(u, <<s.mounts[n].fs, s.mounts[n].root>>)
        BY <2>5, <3>1 DEF Sound, RootsOK
      <3>5. s.mounts[n].fs[2] <= Latest(u)
        <4>1. s.mounts[n].fs[2] <= Latest(s) /\ s.mounts[n].fs[2] \in Nat
          BY <3>1 DEF Sound, SerialsOK, MountRecs
        <4> QED
          BY <1>0, <2>7, <4>1
      <3>6. IsPrefix(p, p \o r)
        BY JoinAbove, Zenon
      <3>7. s.mounts[n].at # <<>>
        BY <3>1, PrefixOrder DEF Paths
      <3>8. ASSUME NEW y \in Paths, IsPrefix(p, y), IsStrictPrefix(y, p \o r) PROVE IsDir(u, y)
        <4>1. PICK v \in Paths : y = p \o v
          BY <3>8, StrictJoin
        <4>2. IsPrefix(v, r) /\ v # r
          <5>1. IsPrefix(p \o v, p \o r) /\ p \o v # p \o r
            BY <3>8, <4>1 DEF IsStrictPrefix
          <5> QED
            BY <5>1, JoinPrefix
        <4>3. PICK z \in Paths : z = from \o v
          BY JoinAbove
        <4>4. IsStrictPrefix(z, s.mounts[n].at)
          <5>1. IsPrefix(from \o v, from \o r)
            BY <4>2, JoinPrefix
          <5>2. from \o v # from \o r
            BY <4>2, JoinCancel
          <5> QED
            BY <3>3, <4>3, <5>1, <5>2 DEF IsStrictPrefix
        <4>5. IsDir(s, z)
          BY <3>1, <3>7, <4>4 DEF Sound, PointsOK
        <4>6. File(u, y) = File(s, z)
          BY <2>6, <4>1, <4>3
        <4> QED
          BY <1>1, <4>5, <4>6, ExistsIs DEF DirHere
      <3>9. NewMount(u, p, last + n)
        BY <1>3, <3>3, <3>4, <3>5, <3>6, <3>8 DEF NewMount
      <3> QED
        BY <3>1, <3>3, <3>9
    <2>11. Derived(s, u)
      BY <2>3, <2>4, <2>10 DEF Derived
    <2>12. \A j \in DOMAIN u.mounts : j \in DOMAIN s.mounts \/ NewMount(u, p, j)
      BY <2>3, <2>9, <2>10
    <2>13. Adds(s, u, p)
      BY <1>1, <1>3, <2>2, <2>6, <2>7, <2>8, <2>12 DEF Adds
    <2> QED
      BY <1>1, <2>11, <2>13
  <1> QED
    BY <1>2, <1>3

\* What a path leads to is in a file system that is mounted.
LEMMA ShownFs ==
    ASSUME NEW s, IsKernel(s), NEW x \in Paths
    PROVE  \E j \in DOMAIN s.mounts, f \in FsNames, r \in Paths :
               File(s, x) = <<f, r>> /\ f = s.mounts[j].fs /\ s.mounts[j] = MountOf(s, x)
  <1>1. PICK j \in DOMAIN s.mounts : s.mounts[j] = MountOf(s, x)
    BY KernelFacts, ShowingOver DEF MountOf
  <1>2. File(s, x) \in FileNames
    BY FileIs, KernelFacts
  <1>3. File(s, x)[1] = s.mounts[j].fs
    BY <1>1 DEF File
  <1>4. PICK f \in FsNames, r \in Paths : File(s, x) = <<f, r>>
    BY <1>2 DEF FileNames, FsNames
  <1> QED
    BY <1>1, <1>3, <1>4

\* The file systems mounted in s are the same in t, and none that takes nothing
\* has come to take something.
SameFs(s, t, fs) ==
    /\ \A q \in Paths : /\ Here(t, <<fs, q>>) <=> Here(s, <<fs, q>>)
                        /\ DirHere(t, <<fs, q>>) <=> DirHere(s, <<fs, q>>)
    /\ Sterile(s, fs) => Sterile(t, fs)
SameFor(s, t) == \A j \in DOMAIN s.mounts : SameFs(s, t, s.mounts[j].fs)

\* A path stays stuck if it and what is above it lead where they led.
LEMMA StuckStays ==
    ASSUME NEW s, IsKernel(s), NEW t, IsKernel(t), SameFor(s, t), NEW p \in Paths,
           \A a \in Paths : IsPrefix(a, p) => File(t, a) = File(s, a), Stuck(s, p)
    PROVE  Stuck(t, p)
  <1>1. PICK a \in Paths : IsPrefix(a, p) /\ StuckAt(s, a)
    BY DEF Stuck
  <1>2. /\ a # <<>> /\ ~Exists(s, a) /\ Exists(s, Front(a))
        /\ ~IsDir(s, Front(a)) \/ Sterile(s, File(s, Front(a))[1])
    BY <1>1 DEF StuckAt
  <1>3. PICK b \in Paths : b = Front(a) /\ IsPrefix(b, a)
    BY <1>2, FrontIs
  <1>4. IsPrefix(b, p)
    BY <1>1, <1>3, PrefixChain, Zenon
  <1>5. ASSUME NEW x \in Paths, IsPrefix(x, p)
        PROVE  /\ Exists(t, x) <=> Exists(s, x)
               /\ IsDir(t, x) <=> IsDir(s, x)
               /\ Sterile(s, File(s, x)[1]) => Sterile(t, File(t, x)[1])
    <2>1. PICK j \in DOMAIN s.mounts, f \in FsNames, r \in Paths : File(s, x) = <<f, r>> /\ f = s.mounts[j].fs
      BY ShownFs
    <2>2. File(t, x) = <<f, r>>
      BY <1>5, <2>1
    <2>3. /\ Here(t, <<f, r>>) <=> Here(s, <<f, r>>)
          /\ DirHere(t, <<f, r>>) <=> DirHere(s, <<f, r>>)
          /\ Sterile(s, f) => Sterile(t, f)
      BY <2>1 DEF SameFor, SameFs
    <2>4. <<f, r>>[1] = f
      OBVIOUS
    <2>5. (Exists(t, x) <=> Exists(s, x)) /\ (IsDir(t, x) <=> IsDir(s, x))
      BY <2>1, <2>2, <2>3, ExistsIs
    <2> QED
      BY <2>1, <2>2, <2>3, <2>4, <2>5
  <1> QED
    BY <1>1, <1>2, <1>3, <1>4, <1>5 DEF Stuck, StuckAt

\* The files decide.
LEMMA SameFilesHere ==
    ASSUME NEW s, NEW t, t.files = s.files
    PROVE  /\ \A f : (Here(t, f) <=> Here(s, f)) /\ (DirHere(t, f) <=> DirHere(s, f))
           /\ FilesOK(s) => FilesOK(t)
  <1>1. \A f : (Here(t, f) <=> Here(s, f)) /\ (DirHere(t, f) <=> DirHere(s, f))
    BY DEF Here, DirHere
  <1> QED
    BY <1>1 DEF FilesOK

\* A bind changes neither what is in a file system nor whether it takes anything.
LEMMA DerivedSame ==
    ASSUME NEW s, NEW t, t.files = s.files, Derived(s, t),
           DOMAIN s.mounts \subseteq DOMAIN t.mounts,
           \A j \in DOMAIN s.mounts : t.mounts[j] = s.mounts[j]
    PROVE  SameFor(s, t) /\ (Uniform(s) => Uniform(t))
  <1>1. \A f : (Here(t, f) <=> Here(s, f)) /\ (DirHere(t, f) <=> DirHere(s, f))
    BY SameFilesHere
  <1>2. \A j \in DOMAIN t.mounts : \E n \in DOMAIN s.mounts :
            t.mounts[j].fs = s.mounts[n].fs /\ t.mounts[j].ro = s.mounts[n].ro
    BY DEF Derived
  <1>3. \A fs : Sterile(s, fs) => Sterile(t, fs)
    BY <1>2 DEF Sterile
  <1>4. Uniform(s) => Uniform(t)
    <2>1. SUFFICES ASSUME Uniform(s), NEW j \in DOMAIN t.mounts, NEW n \in DOMAIN t.mounts,
                          t.mounts[j].fs = t.mounts[n].fs, t.mounts[j].fs[1] # "host"
                   PROVE  t.mounts[j].ro = t.mounts[n].ro
      BY DEF Uniform
    <2>2. PICK u \in DOMAIN s.mounts : t.mounts[j].fs = s.mounts[u].fs /\ t.mounts[j].ro = s.mounts[u].ro
      BY <1>2
    <2>3. PICK v \in DOMAIN s.mounts : t.mounts[n].fs = s.mounts[v].fs /\ t.mounts[n].ro = s.mounts[v].ro
      BY <1>2
    <2> QED
      BY <2>1, <2>2, <2>3 DEF Uniform
  <1> QED
    BY <1>1, <1>3, <1>4 DEF SameFor, SameFs

\* A bind of what exists on what exists, recursive or not.
LEMMA BoundSound ==
    ASSUME NEW s, IsKernel(s), Sound(s), NEW from \in Paths, NEW p \in Paths,
           Exists(s, from), Exists(s, p), NEW t,
           t = Bound(s, from, p) \/ t = BoundRec(s, from, p)
    PROVE  /\ IsKernel(t) /\ Sound(t) /\ t.files = s.files /\ Adds(s, t, p)
           /\ SameFor(s, t) /\ (Uniform(s) => Uniform(t))
  <1>1. IsKernel(t) /\ t.files = s.files /\ Adds(s, t, p) /\ Derived(s, t)
    <2>1. CASE t = BoundRec(s, from, p)
      BY <2>1, BoundRecAdds
    <2>2. CASE t = Bound(s, from, p)
      <3>1. t = WithMount(s, BindOf(s, from, p)) /\ BindOf(s, from, p) \in MountRecs
        BY <2>2, BindOfType, KernelFacts
      <3>2. t.files = s.files
        BY <3>1, WithMountIs, KernelFacts
      <3>3. IsKernel(t)
        BY <2>2, BoundType
      <3> QED
        BY <3>1, <3>2, <3>3, BoundAdds
    <2> QED
      BY <2>1, <2>2
  <1>2. FilesOK(t)
    BY <1>1, SameFilesHere DEF Sound
  <1>3. Sound(t)
    BY <1>1, <1>2, AddsSound
  <1>4. /\ DOMAIN s.mounts \subseteq DOMAIN t.mounts
        /\ \A j \in DOMAIN s.mounts : t.mounts[j] = s.mounts[j]
    BY <1>1 DEF Adds
  <1>5. SameFor(s, t) /\ (Uniform(s) => Uniform(t))
    BY <1>1, <1>4, DerivedSame
  <1> QED
    BY <1>1, <1>3, <1>5

\* A remount changes no file and no mount point.
LEMMA RemountSound ==
    ASSUME NEW s, IsKernel(s), Sound(s), NEW u, IsKernel(u), SameButRo(s, u)
    PROVE  Sound(u) /\ SameFor(s, u)
  <1>1. \A f : (Here(u, f) <=> Here(s, f)) /\ (DirHere(u, f) <=> DirHere(s, f))
    BY SameFilesHere DEF SameButRo
  <1>2. FilesOK(u)
    BY SameFilesHere DEF SameButRo, Sound
  <1>3. RootsOK(u)
    BY <1>1 DEF Sound, RootsOK, SameButRo
  <1>4. SerialsOK(u)
    BY DEF Sound, SerialsOK, SameButRo
  <1>5. \A x \in Paths : IsDir(s, x) => IsDir(u, x)
    <2>1. ASSUME NEW x \in Paths PROVE File(u, x) = File(s, x)
      <3>1. Showing(s, x) \in DOMAIN s.mounts /\ Showing(u, x) = Showing(s, x)
        BY KernelFacts, ShowingOver DEF SameButRo
      <3> QED
        BY <3>1 DEF File, MountOf, SameButRo
    <2> QED
      BY <1>1, <2>1, ExistsIs
  <1>6. PointsOK(u)
    <2>1. SUFFICES ASSUME NEW j \in DOMAIN u.mounts, u.mounts[j].at # <<>>, Showing(u, u.mounts[j].at) = j,
                          NEW y \in Paths, IsStrictPrefix(y, u.mounts[j].at)
                   PROVE  IsDir(u, y)
      BY DEF PointsOK
    <2>2. j \in DOMAIN s.mounts /\ s.mounts[j].at = u.mounts[j].at /\ s.mounts[j].at \in Paths
      BY KernelFacts DEF SameButRo
    <2>3. Showing(s, s.mounts[j].at) = j
      BY <2>1, <2>2 DEF SameButRo
    <2>4. IsDir(s, y)
      BY <2>1, <2>2, <2>3 DEF Sound, PointsOK
    <2> QED
      BY <1>5, <2>4
  <1>7. \A fs : Sterile(s, fs) => Sterile(u, fs)
    BY DEF Sterile, SameButRo
  <1> QED
    BY <1>1, <1>2, <1>3, <1>4, <1>6, <1>7 DEF Sound, SameFor, SameFs

\* What is above a path of one or two components.
LEMMA ShortPaths ==
    ASSUME NEW a \in Names, NEW b \in Names, NEW q \in Paths
    PROVE  /\ ~IsStrictPrefix(q, <<>>)
           /\ IsStrictPrefix(q, <<a>>) => q = <<>>
           /\ IsStrictPrefix(q, <<a, b>>) => q = <<>> \/ q = <<a>>
  <1>1. <<>> \in Paths /\ <<a>> \in Paths /\ <<a, b>> \in Paths
    BY NamedPaths
  <1>2. ~IsStrictPrefix(q, <<>>)
    BY <1>1, PrefixOrder DEF Paths, IsStrictPrefix
  <1>3. <<a>> # <<>> /\ <<a, b>> # <<>>
    OBVIOUS
  <1>4. Front(<<a>>) = <<>> /\ Front(<<a, b>>) = <<a>>
    <2>0. PICK u \in Paths, v \in Paths : /\ u = <<a>> /\ Len(u) = 1 /\ u # <<>>
                                         /\ v = <<a, b>> /\ Len(v) = 2 /\ v[1] = a /\ v # <<>>
      BY <1>1
    <2>1. /\ Front(<<a>>) \in Paths /\ Len(Front(<<a>>)) = 0
          /\ Front(<<a, b>>) \in Paths /\ Len(Front(<<a, b>>)) = 1
      <3>1. /\ Front(u) \in Paths /\ Len(Front(u)) = Len(u) - 1
            /\ Front(v) \in Paths /\ Len(Front(v)) = Len(v) - 1
        BY <1>1, <2>0, FrontPrefix DEF Paths
      <3>2. Len(u) - 1 = 0 /\ Len(v) - 1 = 1
        BY <2>0
      <3>3. Len(Front(u)) = 0 /\ Len(Front(v)) = 1
        BY <3>1, <3>2
      <3> QED
        BY <2>0, <3>1, <3>3, Zenon
    <2>2. IsPrefix(Front(<<a, b>>), <<a, b>>)
      BY <1>1, <1>3, FrontIs
    <2>3. Front(<<a, b>>)[1] = a
      <3>1. PICK w \in Paths : w = Front(<<a, b>>) /\ Len(w) = 1 /\ IsPrefix(w, v)
        BY <2>0, <2>1, <2>2
      <3>2. \A j \in 1..Len(w) : w[j] = v[j]
        BY <3>1, PrefixDef DEF Paths
      <3> QED
        BY <2>0, <3>1, <3>2
    <2>4. Front(<<a, b>>) = <<a>>
      BY <1>1, <2>1, <2>3, SameElements DEF Paths
    <2>5. Front(<<a>>) = <<>>
      BY <2>1 DEF Paths
    <2> QED
      BY <2>4, <2>5
  <1>5. ASSUME NEW x \in Paths, IsPrefix(x, <<>>) PROVE x = <<>>
    BY <1>1, <1>5, PrefixOrder DEF Paths
  <1>6. IsStrictPrefix(q, <<a>>) => q = <<>>
    BY <1>1, <1>3, <1>4, <1>5, FrontIs
  <1>7. ASSUME IsStrictPrefix(q, <<a, b>>) PROVE q = <<>> \/ q = <<a>>
    <2>1. IsPrefix(q, <<a>>)
      BY <1>1, <1>3, <1>4, <1>7, FrontIs
    <2>2. q = <<a>> \/ IsStrictPrefix(q, <<a>>)
      BY <2>1 DEF IsStrictPrefix
    <2> QED
      BY <1>6, <2>2
  <1> QED
    BY <1>2, <1>6, <1>7

\* What a new file system holds is in its directories.
LEMMA ContentsClosed ==
    ASSUME NEW type
    PROVE  /\ [path |-> <<>>, kind |-> "dir"] \in Contents(type)
           /\ \A x \in Paths, kind \in FileKinds, q \in Paths :
                  [path |-> x, kind |-> kind] \in Contents(type) /\ IsStrictPrefix(q, x) =>
                      [path |-> q, kind |-> "dir"] \in Contents(type)
  <1> DEFINE Top == {"self", "sys", "kcore"}
             Below == {"fd", "oom_score_adj", "hostname"}
  <1>1. Top \subseteq Names /\ Below \subseteq Names
    BY DEF Names, Links
  <1>2. [path |-> <<>>, kind |-> "dir"] \in Contents(type)
    BY DEF Contents
  <1>3. ASSUME NEW x \in Paths, NEW kind \in FileKinds, NEW q \in Paths,
               [path |-> x, kind |-> kind] \in Contents(type), IsStrictPrefix(q, x)
        PROVE  [path |-> q, kind |-> "dir"] \in Contents(type)
    <2>1. CASE type # "proc"
      <3>1. x = <<>>
        BY <1>3, <2>1 DEF Contents
      <3> QED
        BY <1>1, <1>3, <3>1, ShortPaths
    <2>2. CASE type = "proc"
      <3>1. \/ x = <<>>
            \/ \E a \in Top : x = <<a>>
            \/ \E a \in {"self", "sys"}, b \in Below : x = <<a, b>>
        BY <1>3, <2>2 DEF Contents
      <3>2. q = <<>> \/ q = <<"self">> \/ q = <<"sys">>
        <4>1. CASE x = <<>>
          BY <1>1, <1>3, <4>1, ShortPaths
        <4>2. CASE \E a \in Top : x = <<a>>
          BY <1>1, <1>3, <4>2, ShortPaths
        <4>3. CASE \E a \in {"self", "sys"}, b \in Below : x = <<a, b>>
          <5>1. PICK a \in {"self", "sys"}, b \in Below : x = <<a, b>>
            BY <4>3
          <5>2. a \in Names /\ b \in Names
            BY <1>1
          <5>3. q = <<>> \/ q = <<a>>
            BY <1>3, <5>1, <5>2, ShortPaths
          <5> QED
            BY <5>3
        <4> QED
          BY <3>1, <4>1, <4>2, <4>3
      <3> QED
        BY <2>2, <3>2 DEF Contents
    <2> QED
      BY <2>1, <2>2
  <1> QED
    BY <1>2, <1>3

\* The files it brings.
LEMMA NewFilesAre ==
    ASSUME NEW type, NEW fs, NEW g, NEW x, NEW kind
    PROVE  [file |-> <<g, x>>, kind |-> kind] \in NewFiles(fs, type) <=>
               g = fs /\ [path |-> x, kind |-> kind] \in Contents(type)
  <1>1. \A f \in Contents(type) : f = [path |-> f.path, kind |-> f.kind]
    BY DEF Contents
  <1>2. ASSUME [file |-> <<g, x>>, kind |-> kind] \in NewFiles(fs, type)
        PROVE  g = fs /\ [path |-> x, kind |-> kind] \in Contents(type)
    <2>1. PICK f \in Contents(type) : [file |-> <<g, x>>, kind |-> kind] = [file |-> <<fs, f.path>>, kind |-> f.kind]
      BY <1>2 DEF NewFiles
    <2>2. <<g, x>> = <<fs, f.path>> /\ kind = f.kind
      BY <2>1
    <2>3. g = fs /\ x = f.path
      BY <2>2
    <2> QED
      BY <1>1, <2>2, <2>3
  <1>3. ASSUME g = fs, [path |-> x, kind |-> kind] \in Contents(type)
        PROVE  [file |-> <<g, x>>, kind |-> kind] \in NewFiles(fs, type)
    <2>1. PICK f \in Contents(type) : f = [path |-> x, kind |-> kind]
      BY <1>3
    <2>2. f.path = x /\ f.kind = kind
      BY <2>1
    <2>3. [file |-> <<fs, f.path>>, kind |-> f.kind] \in NewFiles(fs, type)
      BY DEF NewFiles
    <2> QED
      BY <1>3, <2>2, <2>3, Zenon
  <1> QED
    BY <1>2, <1>3

\* The root of a new file system: it shows at p and below, and what was there is
\* as it was.
LEMMA FreshSound ==
    ASSUME NEW s, IsKernel(s), Sound(s), NEW type \in STRING, type # "host", NEW p \in Paths,
           NEW ro \in BOOLEAN, Exists(s, p)
    PROVE  LET t == Mounted(s, type, p, ro)
           IN /\ IsKernel(t) /\ Sound(t) /\ Adds(s, t, p) /\ SameFor(s, t)
              /\ (Uniform(s) => Uniform(t))
              /\ \A x \in Paths : IsPrefix(p, x) /\ p # <<>> => File(t, x)[1][1] = type
  <1> DEFINE fs == <<type, Latest(s) + 1>>
  <1>1. PICK m \in MountRecs : m = FsMount(s, type, p, ro)
    BY FsMountType
  <1>2. m.at = p /\ m.fs = fs /\ m.root = <<>> /\ fs \in FsNames /\ fs[1] = type /\ fs[2] = Latest(s) + 1
    <2>1. Latest(s) + 1 \in Nat
      BY KernelFacts
    <2> QED
      BY <1>1, <2>1 DEF FsMount, FsNames
  <1>3. PICK t : t = Mounted(s, type, p, ro)
    OBVIOUS
  <1>4. IsKernel(t) /\ t.mounts = WithMount(s, m).mounts
    BY <1>1, <1>3, MountedKernel
  <1>5. t.files = s.files \cup NewFiles(fs, type)
    <2>1. PICK w : w = WithMount(s, m)
      OBVIOUS
    <2>2. w = [mounts |-> w.mounts, files |-> s.files]
      BY <2>1, WithMountIs, KernelFacts
    <2>3. t = [w EXCEPT !.files = @ \cup NewFiles(fs, type)]
      BY <1>1, <1>3, <2>1, FsMountType
    <2> QED
      BY <2>2, <2>3
  <1> HIDE DEF fs
  <1>6. s.files \subseteq t.files
    BY <1>5
  <1>7. PICK o \in Paths : o = <<>>
    BY NamedPaths
  <1>8. DirHere(t, <<fs, o>>) /\ Here(t, <<fs, o>>)
    <2>1. [file |-> <<fs, o>>, kind |-> "dir"] \in NewFiles(fs, type)
      BY <1>7, ContentsClosed, NewFilesAre
    <2>2. [file |-> <<fs, o>>, kind |-> "dir"].file = <<fs, o>>
      OBVIOUS
    <2> QED
      BY <1>5, <2>1, <2>2 DEF DirHere, Here
  <1>9. /\ Adds(s, t, p)
        /\ DOMAIN t.mounts = DOMAIN s.mounts \cup {Latest(s) + 1}
        /\ t.mounts[Latest(s) + 1] = m
        /\ \A x \in Paths : IsPrefix(p, x) /\ p # <<>> => MountOf(t, x) = m
    <2>1. Here(t, <<m.fs, m.root>>)
      BY <1>2, <1>7, <1>8
    <2>2. m.fs[2] <= Latest(s) + 1
      BY <1>2, KernelFacts
    <2> QED
      BY <1>2, <1>4, <1>6, <2>1, <2>2, WithMountAdds
  \* What is here, and where from.
  <1>10. ASSUME NEW g \in FsNames, NEW x \in Paths
         PROVE  /\ DirHere(t, <<g, x>>) <=>
                       \/ DirHere(s, <<g, x>>)
                       \/ g = fs /\ [path |-> x, kind |-> "dir"] \in Contents(type)
                /\ Here(t, <<g, x>>) <=>
                       \/ Here(s, <<g, x>>)
                       \/ g = fs /\ \E kind \in FileKinds : [path |-> x, kind |-> kind] \in Contents(type)
    <2>1. DirHere(t, <<g, x>>) <=>
              \/ DirHere(s, <<g, x>>) \/ [file |-> <<g, x>>, kind |-> "dir"] \in NewFiles(fs, type)
      BY <1>5 DEF DirHere
    <2>2. ASSUME Here(t, <<g, x>>), ~Here(s, <<g, x>>)
          PROVE  \E kind \in FileKinds : [file |-> <<g, x>>, kind |-> kind] \in NewFiles(fs, type)
      <3>1. PICK f \in t.files : f.file = <<g, x>>
        BY <2>2 DEF Here
      <3>2. f \in NewFiles(fs, type)
        BY <1>5, <2>2, <3>1 DEF Here
      <3>3. f = [file |-> f.file, kind |-> f.kind] /\ f.kind \in FileKinds
        BY <1>4, KernelFacts
      <3> QED
        BY <3>1, <3>2, <3>3
    <2>3. ASSUME NEW kind, [file |-> <<g, x>>, kind |-> kind] \in NewFiles(fs, type)
          PROVE  Here(t, <<g, x>>)
      <3>1. [file |-> <<g, x>>, kind |-> kind].file = <<g, x>>
        OBVIOUS
      <3> QED
        BY <1>5, <2>3, <3>1 DEF Here
    <2>4. Here(s, <<g, x>>) => Here(t, <<g, x>>)
      BY <1>6 DEF Here
    <2> QED
      BY <2>1, <2>2, <2>3, <2>4, NewFilesAre
  <1>11. FilesOK(t)
    <2>1. SUFFICES ASSUME NEW g \in FsNames, NEW x \in Paths, Here(t, <<g, x>>)
                   PROVE  /\ g[1] = "host" => x \in HostDevices /\ ~DirHere(t, <<g, x>>)
                          /\ g[1] # "host" => \A q \in Paths : IsStrictPrefix(q, x) => DirHere(t, <<g, q>>)
      BY DEF FilesOK
    <2>2. CASE Here(s, <<g, x>>)
      <3>1. /\ g[1] = "host" => x \in HostDevices /\ ~DirHere(s, <<g, x>>)
            /\ g[1] # "host" => \A q \in Paths : IsStrictPrefix(q, x) => DirHere(s, <<g, q>>)
        BY <2>2 DEF Sound, FilesOK
      <3>2. g[1] = "host" => g # fs
        BY <1>2
      <3> QED
        BY <1>10, <3>1, <3>2
    <2>3. CASE g = fs /\ \E kind \in FileKinds : [path |-> x, kind |-> kind] \in Contents(type)
      <3>1. g[1] # "host"
        BY <1>2, <2>3
      <3>2. \A q \in Paths : IsStrictPrefix(q, x) => [path |-> q, kind |-> "dir"] \in Contents(type)
        BY <2>3, ContentsClosed
      <3> QED
        BY <1>10, <2>3, <3>1, <3>2
    <2> QED
      BY <1>10, <2>1, <2>2, <2>3
  <1>12. Sound(t)
    BY <1>9, <1>11, AddsSound
  \* The file system is new.
  <1>13. \A j \in DOMAIN s.mounts : s.mounts[j].fs # fs /\ s.mounts[j].fs \in FsNames
    <2>1. ASSUME NEW j \in DOMAIN s.mounts PROVE s.mounts[j].fs # fs
      <3>1. s.mounts[j].fs[2] <= Latest(s) /\ Latest(s) \in Nat /\ fs[2] = Latest(s) + 1
        BY <1>2, KernelFacts DEF Sound, SerialsOK
      <3>2. fs[2] > Latest(s)
        BY <3>1
      <3> QED
        BY <3>1, <3>2
    <2> QED
      BY <2>1, KernelFacts
  <1>14. \A j \in DOMAIN t.mounts : \/ j \in DOMAIN s.mounts /\ t.mounts[j] = s.mounts[j]
                                    \/ t.mounts[j].fs = fs /\ j = Latest(s) + 1
    BY <1>2, <1>9 DEF Adds
  <1>15. SameFor(s, t)
    BY <1>10, <1>13, <1>14 DEF SameFor, SameFs, Sterile
  <1>16. Uniform(s) => Uniform(t)
    <2>1. SUFFICES ASSUME Uniform(s), NEW j \in DOMAIN t.mounts, NEW n \in DOMAIN t.mounts,
                          t.mounts[j].fs = t.mounts[n].fs, t.mounts[j].fs[1] # "host"
                   PROVE  t.mounts[j].ro = t.mounts[n].ro
      BY DEF Uniform
    <2>2. CASE j \in DOMAIN s.mounts /\ n \in DOMAIN s.mounts
      BY <1>9, <2>1, <2>2 DEF Uniform, Adds
    <2>3. CASE j = n
      BY <2>3
    <2> QED
      BY <1>13, <1>14, <2>1, <2>2, <2>3
  <1>17. ASSUME NEW x \in Paths, IsPrefix(p, x), p # <<>> PROVE File(t, x)[1][1] = type
    <2>1. MountOf(t, x) = m
      BY <1>9, <1>17
    <2>2. File(t, x)[1] = m.fs
      BY <2>1 DEF File
    <2> QED
      BY <1>2, <2>2
  <1> QED
    BY <1>3, <1>4, <1>9, <1>12, <1>15, <1>16, <1>17

\* What a step that mounts or creates keeps.
Steady(s, t) == IsKernel(t) /\ Sound(t) /\ (Uniform(s) => Uniform(t))

\* The device node of the host, over a file.
LEMMA HostNodeSteady ==
    ASSUME NEW s, IsKernel(s), Sound(s), NEW p \in HostDevices, p \in Paths, Exists(s, p),
           NEW t, IsKernel(t), t.mounts = WithMount(s, HostNode(p)).mounts,
           t.files = s.files \cup {[file |-> <<<<"host", 0>>, p>>, kind |-> "file"]}
    PROVE  Steady(s, t)
  <1>1. PICK fs \in FsNames : fs = <<"host", 0>> /\ fs[1] = "host" /\ fs[2] = 0
    <2>1. PICK fs \in STRING \X Nat : fs = <<"host", 0>>
      BY NamedPaths DEF Names
    <2>2. fs[1] = "host" /\ fs[2] = 0
      BY <2>1
    <2> QED
      BY <2>1, <2>2, Zenon DEF FsNames
  <1>2. PICK m \in MountRecs : m = HostNode(p) /\ m.at = p /\ m.fs = fs /\ m.root = p
    <2>1. PICK m : m = [at |-> p, fs |-> fs, root |-> p, ro |-> FALSE, top |-> TRUE]
      OBVIOUS
    <2>2. m \in MountRecs /\ m.at = p /\ m.fs = fs /\ m.root = p
      BY <2>1 DEF MountRecs, FsNames
    <2>3. m = HostNode(p)
      BY <1>1, <2>1, Zenon DEF HostNode
    <2> QED
      BY <2>2, <2>3, Zenon
  <1>3. s.files \subseteq t.files
    OBVIOUS
  <1>4. PICK new : new = [file |-> <<fs, p>>, kind |-> "file"] /\ t.files = s.files \cup {new}
    BY <1>1
  <1>5. new.file = <<fs, p>> /\ new.kind = "file"
    BY <1>4
  <1>6. Here(t, <<m.fs, m.root>>)
    BY <1>2, <1>4, <1>5 DEF Here
  <1>7. m.fs[2] <= Latest(s) + 1
    BY <1>1, <1>2, KernelFacts
  <1>8. /\ Adds(s, t, p) /\ DOMAIN t.mounts = DOMAIN s.mounts \cup {Latest(s) + 1}
        /\ t.mounts[Latest(s) + 1] = m
    BY <1>2, <1>3, <1>6, <1>7, WithMountAdds
  <1>9. \A f : DirHere(t, f) <=> DirHere(s, f)
    <2>1. \A f : [file |-> f, kind |-> "dir"].kind = "dir"
      OBVIOUS
    <2>2. \A f : [file |-> f, kind |-> "dir"] # new
      BY <1>5, <2>1
    <2> QED
      BY <1>4, <2>2 DEF DirHere
  <1>10. FilesOK(t)
    <2>1. SUFFICES ASSUME NEW g \in FsNames, NEW x \in Paths, Here(t, <<g, x>>)
                   PROVE  /\ g[1] = "host" => x \in HostDevices /\ ~DirHere(t, <<g, x>>)
                          /\ g[1] # "host" => \A q \in Paths : IsStrictPrefix(q, x) => DirHere(t, <<g, q>>)
      BY DEF FilesOK
    <2>2. CASE Here(s, <<g, x>>)
      BY <1>9, <2>2 DEF Sound, FilesOK
    <2>3. CASE ~Here(s, <<g, x>>)
      <3>1. new.file = <<g, x>>
        BY <1>4, <2>1, <2>3 DEF Here
      <3>2. g = fs /\ x = p
        BY <1>5, <3>1
      <3>3. DirHere(s, <<g, x>>) => Here(s, <<g, x>>)
        <4>1. [file |-> <<g, x>>, kind |-> "dir"].file = <<g, x>>
          OBVIOUS
        <4> QED
          BY <4>1 DEF DirHere, Here
      <3> QED
        BY <1>1, <1>9, <2>3, <3>2, <3>3
    <2> QED
      BY <2>2, <2>3
  <1>11. Sound(t)
    BY <1>8, <1>10, AddsSound
  <1>12. Uniform(s) => Uniform(t)
    BY <1>1, <1>2, <1>8 DEF Uniform, Adds
  <1> QED
    BY <1>11, <1>12 DEF Steady

\* What is created keeps every mount as it is.
LEMMA GrownSteady ==
    ASSUME NEW s, IsKernel(s), Sound(s), NEW t, Grown(s, t)
    PROVE  Steady(s, t)
  BY GrownSound DEF Grown, Steady, Uniform

\* One after the other.
LEMMA SteadyTwice ==
    ASSUME NEW s, NEW t, NEW u, Steady(s, t), Steady(t, u)
    PROVE  Steady(s, u)
  BY DEF Steady

\* Nothing is below a device node.
LEMMA NodeAlone ==
    ASSUME NEW p \in HostDevices
    PROVE  HostFiles(p) = {[file |-> <<<<"host", 0>>, p>>, kind |-> "file"]} /\ p \notin HostDirs
  <1>1. p \in Paths /\ p \notin HostDirs
    BY HostDevicesAssumption
  <1>2. IsPrefix(p, p)
    BY <1>1, PrefixOrder DEF Paths
  <1>3. \A q \in HostDevices \cup HostDirs : IsPrefix(p, q) => q = p
    BY HostDevicesAssumption DEF IsStrictPrefix
  <1>4. {r \in HostDevices \cup HostDirs : IsPrefix(p, r)} = {p}
    BY <1>2, <1>3
  <1> QED
    BY <1>1, <1>4 DEF HostFiles

\* bind_devices.
LEMMA BindDeviceSteady ==
    ASSUME NEW s, IsKernel(s), Sound(s), NEW p \in HostDevices, p \in Paths, NEW allowed \in BOOLEAN
    PROVE  Steady(s, BindDevice(s, p, allowed))
  <1>1. PICK t : t = Made(s, p, "file")
    OBVIOUS
  <1>2. "file" \in FileKinds
    BY DEF FileKinds
  <1>3. Steady(s, t)
    BY <1>1, <1>2, MadeGrown, GrownSteady
  <1>4. CASE allowed /\ File(t, SelfFd)[1][1] = "proc" /\ Exists(t, p) /\ ~IsDir(t, p)
    <2> DEFINE new == [file |-> <<<<"host", 0>>, p>>, kind |-> "file"]
    <2>1. PICK u : u = [WithMount(t, HostNode(p)) EXCEPT !.files = @ \cup {new}]
      OBVIOUS
    <2>2. u = BindDevice(s, p, allowed)
      BY <1>1, <1>4, <2>1, NodeAlone DEF BindDevice
    <2>3. IsKernel(u)
      BY <2>2, BindDeviceType
    <2>4. HostNode(p) \in MountRecs
      BY NamedPaths DEF HostNode, MountRecs, Names
    <2>5. PICK w : w = WithMount(t, HostNode(p)) /\ w = [mounts |-> w.mounts, files |-> t.files]
      BY <1>3, <2>4, WithMountIs, KernelFacts DEF Steady
    <2>6. u = [w EXCEPT !.files = @ \cup {new}]
      BY <2>1, <2>5
    <2> HIDE DEF new
    <2>7. u.mounts = w.mounts /\ u.files = t.files \cup {new}
      BY <2>5, <2>6
    <2>8. u.mounts = WithMount(t, HostNode(p)).mounts
      BY <2>5, <2>7
    <2>9. u.files = t.files \cup {[file |-> <<<<"host", 0>>, p>>, kind |-> "file"]}
      BY <2>7 DEF new
    <2>10. Steady(t, u)
      BY <1>3, <1>4, <2>3, <2>8, <2>9, HostNodeSteady DEF Steady
    <2> QED
      BY <1>3, <2>2, <2>10, SteadyTwice
  <1>5. CASE ~(allowed /\ File(t, SelfFd)[1][1] = "proc" /\ Exists(t, p) /\ ~IsDir(t, p))
    <2>1. BindDevice(s, p, allowed) = t
      BY <1>1, <1>5, NodeAlone DEF BindDevice
    <2> QED
      BY <1>3, <2>1
  <1> QED
    BY <1>4, <1>5

\* apply_mount.
LEMMA ApplyMountSteady ==
    ASSUME NEW s, IsKernel(s), Sound(s), NEW m, IsMount(m), ApplyMountPossible(s, m)
    PROVE  Steady(s, ApplyMount(s, m))
  <1>1. m.at \in Paths /\ Optional(m.from, Paths)
    BY DEF IsMount
  <1>2. PICK t : t = MadeDirs(s, m.at) /\ Steady(s, t)
    BY <1>1, MadeDirsGrown, GrownSteady
  <1>3. CanMount(t, m) /\ ApplyMount(s, m) = DoMount(t, m) /\ IsKernel(t) /\ Sound(t)
    BY <1>2 DEF ApplyMountPossible, ApplyMount, Steady
  <1>4. Steady(t, DoMount(t, m))
    <2>1. CASE IsBind(m)
      <3>1. m.from \in Paths /\ Exists(t, m.from) /\ Exists(t, m.at)
        BY <1>1, <1>3, <2>1 DEF CanMount, CanBind, ChangesPropagation, Optional
      <3>2. DoMount(t, m) = BoundRec(t, m.from, m.at) \/ DoMount(t, m) = Bound(t, m.from, m.at)
        <4>1. "bind" \in m.options \/ "rbind" \in m.options
          BY <2>1 DEF IsBind
        <4> QED
          BY <4>1 DEF DoMount, ChangesPropagation, IsBind
      <3> QED
        BY <1>1, <1>3, <3>1, <3>2, BoundSound DEF Steady
    <2>2. CASE ~IsBind(m) /\ ChangesPropagation(m)
      <3>1. DoMount(t, m) = t
        BY <2>2 DEF DoMount, IsBind
      <3> QED
        BY <1>3, <3>1 DEF Steady
    <2>3. CASE ~IsBind(m) /\ ~ChangesPropagation(m)
      <3>1. "bind" \notin m.options /\ "rbind" \notin m.options
        BY <2>3 DEF IsBind
      <3>2. m.type \in FileSystems /\ IsDir(t, m.at)
        BY <1>3, <2>3 DEF CanMount
      <3>3. m.type \in STRING /\ m.type # "host"
        BY <3>2, NamesAssumption DEF Names, FileSystems
      <3>4. Exists(t, m.at)
        BY <1>1, <1>3, <3>2, ExistsIs
      <3>5. DoMount(t, m) = Mounted(t, m.type, m.at, ReadOnly(m))
        BY <2>3, <3>1 DEF DoMount
      <3>6. PICK ro \in BOOLEAN : ro = ReadOnly(m)
        BY DEF ReadOnly
      <3>7. Steady(t, Mounted(t, m.type, m.at, ro))
        BY <1>1, <1>3, <3>3, <3>4, FreshSound DEF Steady
      <3> QED
        BY <3>5, <3>6, <3>7
    <2> QED
      BY <2>1, <2>2, <2>3
  <1> QED
    BY <1>2, <1>3, <1>4, SteadyTwice

-----------------------------------------------------------------------------
(* Masks and read-only paths, one by one *)

\* The host's /dev/null is there.
NullOK(s) == Exists(s, DevNull) /\ File(s, DevNull)[1][1] = "host"

\* What a mask at p leaves: p and what is below it are covered, what can not come to
\* exist elsewhere still can not, and no /dev/null appears.
LEMMA MaskLeaves ==
    ASSUME NEW s, IsKernel(s), Sound(s), NEW p \in Paths, CanMask(s, p), NEW t, t = Mask(s, p)
    PROVE  /\ Steady(s, t)
           /\ \A x \in Paths : ~(IsPrefix(p, x) /\ p # <<>>) /\ Stuck(s, x) => Stuck(t, x)
           /\ NullOK(t) => NullOK(s)
  <1>1. DevNull \in Paths
    BY DevPaths DEF DevNull, Names
  <1>2. Exists(s, p)
    BY ExistsIs DEF CanMask, CanBind
  <1>3. PICK type \in STRING, ro \in BOOLEAN : type = "mask" /\ type # "host" /\ ro = FALSE
    BY NamesAssumption DEF Names
  <1>4. IsKernel(t) /\ Sound(t) /\ Adds(s, t, p) /\ SameFor(s, t) /\ (Uniform(s) => Uniform(t))
    <2>1. CASE IsDir(s, p)
      <3>1. t = Mounted(s, type, p, ro)
        BY <1>3, <2>1 DEF Mask
      <3> QED
        BY <1>2, <1>3, <3>1, FreshSound
    <2>2. CASE ~IsDir(s, p)
      <3>1. t = Bound(s, DevNull, p) /\ Exists(s, DevNull)
        BY <2>2 DEF Mask, CanMask, CanBind
      <3> QED
        BY <1>1, <1>2, <3>1, BoundSound
    <2> QED
      BY <2>1, <2>2
  <1>5. \A x \in Paths : ~(IsPrefix(p, x) /\ p # <<>>) => File(t, x) = File(s, x)
    BY <1>4 DEF Adds, File
  <1>6. ASSUME NEW x \in Paths, ~(IsPrefix(p, x) /\ p # <<>>), Stuck(s, x) PROVE Stuck(t, x)
    <2>1. ASSUME NEW a \in Paths, IsPrefix(a, x) PROVE File(t, a) = File(s, a)
      <3>1. IsPrefix(p, a) => IsPrefix(p, x)
        BY <2>1, PrefixChain, Zenon
      <3> QED
        BY <1>5, <1>6, <3>1
    <2> QED
      BY <1>4, <1>6, <2>1, StuckStays
  <1>7. ASSUME NullOK(t) PROVE NullOK(s)
    <2>1. CASE ~(IsPrefix(p, DevNull) /\ p # <<>>)
      <3>1. File(t, DevNull) = File(s, DevNull)
        BY <1>1, <1>5, <2>1
      <3>2. PICK j \in DOMAIN s.mounts, f \in FsNames, r \in Paths :
                File(s, DevNull) = <<f, r>> /\ f = s.mounts[j].fs
        BY <1>1, ShownFs
      <3>3. Here(t, <<f, r>>) <=> Here(s, <<f, r>>)
        BY <1>4, <3>2 DEF SameFor, SameFs
      <3>4. Exists(s, DevNull)
        BY <1>4, <1>7, <3>1, <3>2, <3>3, ExistsIs DEF NullOK
      <3> QED
        BY <1>7, <3>1, <3>4 DEF NullOK
    <2>2. CASE IsPrefix(p, DevNull) /\ p # <<>> /\ IsDir(s, p)
      <3>1. t = Mounted(s, type, p, ro)
        BY <1>3, <2>2 DEF Mask
      <3>2. File(t, DevNull)[1][1] = type
        BY <1>1, <1>2, <1>3, <2>2, <3>1, FreshSound
      <3> QED
        BY <1>3, <1>7, <3>2 DEF NullOK
    <2>3. CASE IsPrefix(p, DevNull) /\ p # <<>> /\ ~IsDir(s, p)
      <3>1. t = Bound(s, DevNull, p) /\ Exists(s, DevNull)
        BY <2>3 DEF Mask, CanMask, CanBind
      <3>2. p = DevNull
        BY <1>1, <2>3, <3>1, Above DEF IsStrictPrefix
      <3>3. BindOf(s, DevNull, p) \in MountRecs /\ t = WithMount(s, BindOf(s, DevNull, p))
        BY <1>1, <3>1, BindOfType, KernelFacts
      <3>4. BindOf(s, DevNull, p).at = p /\ BindOf(s, DevNull, p).fs = File(s, DevNull)[1]
        BY DEF BindOf
      <3>5. MountOf(t, DevNull) = BindOf(s, DevNull, p)
        BY <1>1, <2>3, <3>3, <3>4, MountShows, KernelFacts
      <3>6. File(t, DevNull)[1] = File(s, DevNull)[1]
        BY <3>4, <3>5 DEF File
      <3> QED
        BY <1>7, <3>1, <3>6 DEF NullOK
    <2> QED
      BY <2>1, <2>2, <2>3
  <1> QED
    BY <1>4, <1>6, <1>7 DEF Steady

\* With the host's /dev/null everything that is there can be masked.
LEMMA NullMasks ==
    ASSUME NEW s, IsKernel(s), Sound(s), NEW p \in Paths, Exists(s, p), NullOK(s)
    PROVE  CanMask(s, p)
  <1>1. DevNull \in Paths
    BY DevPaths DEF DevNull, Names
  <1>2. PICK f \in FsNames, r \in Paths : File(s, DevNull) = <<f, r>>
    BY <1>1, ShownFs
  <1>3. <<f, r>>[1] = f
    OBVIOUS
  <1>4. f[1] = "host" /\ Here(s, <<f, r>>)
    BY <1>1, <1>2, <1>3, ExistsIs DEF NullOK
  <1>5. ~DirHere(s, <<f, r>>)
    BY <1>4 DEF Sound, FilesOK
  <1>6. ~IsDir(s, DevNull)
    BY <1>1, <1>2, <1>5, ExistsIs
  <1> QED
    BY <1>6 DEF CanMask, CanBind, NullOK

\* What is created brings no /dev/null of the host.
LEMMA KeepsNull ==
    ASSUME NEW s, IsKernel(s), NEW t, Keeps(s, t)
    PROVE  /\ \A x \in Paths : File(t, x) = File(s, x) /\ MountOf(t, x) = MountOf(s, x)
           /\ Steady(s, t) /\ (NullOK(t) => NullOK(s))
  <1>1. IsKernel(t) /\ t.mounts = s.mounts /\ Sound(t)
    BY DEF Keeps
  <1>2. \A x : File(t, x) = File(s, x) /\ MountOf(t, x) = MountOf(s, x)
    BY <1>1, SameMounts
  <1>3. NullOK(t) => NullOK(s)
    BY <1>1, <1>2, ExistsIs DEF NullOK, Keeps
  <1> QED
    BY <1>1, <1>2, <1>3 DEF Steady, Uniform

\* apply_masked_paths at p: what it leaves stuck and what it covers.
Masks(s, t, p, allowed, covers) ==
    /\ IsKernel(t) /\ Sound(t) /\ Uniform(t) /\ (NullOK(t) => NullOK(s))
    /\ \A x \in Paths : Stuck(s, x) /\ ~(covers /\ IsPrefix(p, x) /\ p # <<>>) => Stuck(t, x)
    /\ allowed /\ NullOK(t) /\ ~covers => Stuck(t, p)

\* One path is masked, or passed over: then it can not come to exist.
LEMMA MaskOne ==
    ASSUME NEW s, IsKernel(s), Sound(s), Uniform(s), NEW p \in Paths, NEW allowed \in BOOLEAN,
           NEW u, u = Placeholder(s, p), NEW t,
           t = IF allowed /\ CanMask(u, p) THEN Mask(u, p) ELSE u
    PROVE  Masks(s, t, p, allowed, allowed /\ CanMask(u, p))
  <1>1. Keeps(s, u) /\ (~Exists(u, p) => Stuck(u, p))
    BY PlaceholderKeeps
  <1>2. /\ IsKernel(u) /\ Sound(u) /\ Uniform(u) /\ (NullOK(u) => NullOK(s))
        /\ \A x \in Paths : Stuck(s, x) => Stuck(u, x)
    BY <1>1, KeepsNull DEF Steady, Keeps
  <1>3. CASE allowed /\ CanMask(u, p)
    <2>1. t = Mask(u, p)
      BY <1>3
    <2>2. /\ Steady(u, t) /\ (NullOK(t) => NullOK(u))
          /\ \A x \in Paths : ~(IsPrefix(p, x) /\ p # <<>>) /\ Stuck(u, x) => Stuck(t, x)
      BY <1>2, <1>3, <2>1, MaskLeaves
    <2> QED
      BY <1>2, <1>3, <2>2 DEF Masks, Steady
  <1>4. CASE ~(allowed /\ CanMask(u, p))
    <2>1. t = u
      BY <1>4
    <2>2. allowed /\ NullOK(u) => Stuck(u, p)
      BY <1>1, <1>2, <1>4, NullMasks
    <2> QED
      BY <1>2, <1>4, <2>1, <2>2 DEF Masks
  <1> QED
    BY <1>3, <1>4

\* The same files in the same places.
LEMMA SamePlaces ==
    ASSUME NEW s, IsKernel(s), NEW t, IsKernel(t), t.files = s.files, SameFor(s, t),
           \A x \in Paths : File(t, x) = File(s, x)
    PROVE  /\ \A x \in Paths : Stuck(s, x) => Stuck(t, x)
           /\ NullOK(t) => NullOK(s)
  <1>1. ASSUME NEW x \in Paths, Stuck(s, x) PROVE Stuck(t, x)
    BY <1>1, StuckStays
  <1>2. DevNull \in Paths
    BY DevPaths DEF DevNull, Names
  <1>3. Exists(t, DevNull) <=> Exists(s, DevNull)
    BY <1>2, ExistsIs, SameFilesHere
  <1> QED
    BY <1>1, <1>2, <1>3 DEF NullOK

\* apply_readonly_paths at p, and the remount of the root.
Seals(s, t) ==
    /\ IsKernel(t) /\ Sound(t) /\ (NullOK(t) => NullOK(s))
    /\ \A x \in Paths : (Stuck(s, x) => Stuck(t, x)) /\ (MountOf(s, x).ro => MountOf(t, x).ro)

\* One after the other.
LEMMA SealsTwice ==
    ASSUME NEW s, NEW t, NEW u, Seals(s, t), Seals(t, u)
    PROVE  Seals(s, u)
  BY DEF Seals

\* A remount.
LEMMA RemountSeals ==
    ASSUME NEW s, IsKernel(s), Sound(s), NEW p \in Paths
    PROVE  Seals(s, RemountedRo(s, p))
  <1>1. PICK u : u = RemountedRo(s, p)
    OBVIOUS
  <1>2. /\ IsKernel(u) /\ SameButRo(s, u)
        /\ \A x \in Paths : File(u, x) = File(s, x) /\ (MountOf(s, x).ro => MountOf(u, x).ro)
    BY <1>1, RemountShows
  <1>3. Sound(u) /\ SameFor(s, u)
    BY <1>2, RemountSound
  <1>4. u.files = s.files
    BY <1>2 DEF SameButRo
  <1>5. /\ \A x \in Paths : Stuck(s, x) => Stuck(u, x)
        /\ NullOK(u) => NullOK(s)
    BY <1>2, <1>3, <1>4, SamePlaces
  <1> QED
    BY <1>1, <1>2, <1>3, <1>5 DEF Seals

\* A bind of what exists onto itself, with the remount or without.
LEMMA ReadonlySeals ==
    ASSUME NEW s, IsKernel(s), Sound(s), NEW p \in Paths, Exists(s, p), NEW remounts \in BOOLEAN
    PROVE  Seals(s, MakeReadonly(s, p, remounts))
  <1>1. PICK t : t = BoundRec(s, p, p)
    OBVIOUS
  <1>2. IsKernel(t) /\ Sound(t) /\ t.files = s.files /\ SameFor(s, t)
    BY <1>1, BoundSound
  <1>3. \A x \in Paths : File(t, x) = File(s, x) /\ MountOf(t, x).ro = MountOf(s, x).ro
    BY <1>1, BoundOntoItself, KernelFacts
  <1>4. Seals(s, t)
    BY <1>2, <1>3, SamePlaces DEF Seals
  <1>5. Seals(t, RemountedRo(t, p))
    BY <1>2, RemountSeals
  <1>6. MakeReadonly(s, p, remounts) = t \/ MakeReadonly(s, p, remounts) = RemountedRo(t, p)
    BY <1>1 DEF MakeReadonly
  <1> QED
    BY <1>4, <1>5, <1>6, SealsTwice

\* A path that could not be made and is not read-only can not come to exist.
LEMMA ReadonlyOne ==
    ASSUME NEW s, IsKernel(s), Sound(s), NEW p \in Paths, NEW binds \in BOOLEAN, NEW remounts \in BOOLEAN,
           NEW u, u = ReadonlyPlace(s, p), NEW t,
           t = IF binds /\ Exists(u, p) THEN MakeReadonly(u, p, remounts) ELSE u
    PROVE  /\ Seals(s, t)
           /\ binds /\ remounts /\ p # <<>> => MountOf(t, p).ro \/ Stuck(t, p)
  <1>1. Keeps(s, u)
    <2>1. Grown(s, u)
      BY GrownSame, MadeDirsGrown DEF ReadonlyPlace
    <2> QED
      BY <2>1, GrownKeeps
  <1>2. IsKernel(u) /\ Sound(u) /\ Seals(s, u)
    BY <1>1, KeepsNull DEF Keeps, Seals
  <1>3. CASE binds /\ Exists(u, p)
    <2>1. t = MakeReadonly(u, p, remounts)
      BY <1>3
    <2>2. Seals(s, t)
      BY <1>2, <1>3, <2>1, ReadonlySeals, SealsTwice
    <2>3. remounts /\ p # <<>> => MountOf(t, p).ro
      BY <1>2, <2>1, ReadonlyKeeps
    <2> QED
      BY <2>2, <2>3
  <1>4. CASE ~(binds /\ Exists(u, p))
    <2>1. t = u
      BY <1>4
    <2>2. ASSUME ~Exists(u, p) PROVE MountOf(u, p).ro \/ Stuck(u, p)
      <3>1. u = MadeDirs(s, p)
        BY <2>2 DEF ReadonlyPlace
      <3>2. MadeDirs(s, p) = s /\ (Stuck(s, p) \/ MountOf(s, p).ro)
        BY <2>2, <3>1, Barred
      <3> QED
        BY <3>1, <3>2
    <2> QED
      BY <1>2, <1>4, <2>1, <2>2
  <1> QED
    BY <1>3, <1>4

-----------------------------------------------------------------------------
(* No path is passed over *)

AfterReadonly == {"oom", "caps", "root", "stdio", "exec", "running"}

\* The part of a list that was walked.
Done(list, n) == {list[j] : j \in 1..(n - 1)}

MasksOK(s, M, D) ==
    NullOK(s) => \A p \in D \ {<<>>} : (\E m \in M : IsPrefix(m.path, p)) \/ Stuck(s, p)
SealsOK(s, D) == \A p \in D \ {<<>>} : MountOf(s, p).ro \/ Stuck(s, p)

\* What a kernel that refuses nothing has made of the paths walked so far: each is
\* masked (read-only), or can not come to exist.
PassedInv ==
    /\ Sound(k)
    /\ pc \in BeforeReadonly => Uniform(k)
    /\ refused = {} =>
           /\ pc = "mask" => MasksOK(k, masked, Done(conf.masked, i))
           /\ pc \in AfterReadonly \cup {"readonly"} => MasksOK(k, masked, Range(conf.masked))
           /\ pc = "readonly" => SealsOK(k, Done(conf.readonlyPaths, i))
           /\ pc \in AfterReadonly => SealsOK(k, Range(conf.readonlyPaths))

\* A list is walked from the first element to the last.
LEMMA DoneIs ==
    ASSUME NEW list \in Seq(Paths)
    PROVE  /\ Done(list, 1) = {} /\ Done(list, Len(list) + 1) = Range(list)
           /\ \A n \in 1..Len(list) : /\ Done(list, n + 1) = Done(list, n) \cup {list[n]}
                                      /\ Done(list, n) \subseteq Paths /\ list[n] \in Paths
           /\ Range(list) \subseteq Paths
  <1>1. Done(list, 1) = {}
    BY DEF Done
  <1>2. DOMAIN list = 1..Len(list) /\ Len(list) \in Nat
    OBVIOUS
  <1>3. Done(list, Len(list) + 1) = Range(list)
    <2>1. (Len(list) + 1) - 1 = Len(list)
      BY <1>2
    <2> QED
      BY <1>2, <2>1 DEF Done, Range
  <1>4. \A n \in 1..Len(list) : list[n] \in Paths
    OBVIOUS
  <1>5. ASSUME NEW n \in 1..Len(list)
        PROVE  Done(list, n + 1) = Done(list, n) \cup {list[n]} /\ Done(list, n) \subseteq Paths
    <2>1. /\ (n + 1) - 1 = n /\ 1..n = (1..(n - 1)) \cup {n}
          /\ \A j \in 1..(n - 1) : j \in 1..Len(list)
      OBVIOUS
    <2> QED
      BY <1>4, <2>1 DEF Done
  <1> QED
    BY <1>1, <1>2, <1>3, <1>4, <1>5 DEF Range

\* One path more is masked.
LEMMA MasksMore ==
    ASSUME NEW s, NEW t, NEW p \in Paths, NEW allowed, allowed, NEW covers, Masks(s, t, p, allowed, covers),
           NEW M, NEW N, M \subseteq N, covers /\ p # <<>> => \E m \in N : m.path = p,
           NEW D, D \subseteq Paths, MasksOK(s, M, D)
    PROVE  MasksOK(t, N, D \cup {p})
  <1>1. SUFFICES ASSUME NullOK(t), NEW q \in D \cup {p}, q # <<>>, ~\E m \in N : IsPrefix(m.path, q)
                 PROVE  Stuck(t, q)
    BY DEF MasksOK
  <1>2. NullOK(s) /\ q \in Paths
    BY <1>1 DEF Masks
  <1>3. ~(covers /\ IsPrefix(p, q) /\ p # <<>>)
    BY <1>1, <1>2
  <1>4. CASE q \in D
    <2>1. Stuck(s, q)
      BY <1>1, <1>2, <1>4 DEF MasksOK
    <2> QED
      BY <1>2, <1>3, <2>1 DEF Masks
  <1>5. CASE q = p
    <2>1. IsPrefix(p, p)
      BY PrefixOrder DEF Paths
    <2>2. ~covers
      BY <1>1, <1>3, <1>5, <2>1
    <2> QED
      BY <1>1, <1>5, <2>2 DEF Masks
  <1> QED
    BY <1>1, <1>4, <1>5

\* A read-only bind undoes nothing.
LEMMA SealsMore ==
    ASSUME NEW s, NEW t, Seals(s, t), NEW M, NEW D, D \subseteq Paths, NEW E, E \subseteq Paths
    PROVE  /\ MasksOK(s, M, D) => MasksOK(t, M, D)
           /\ SealsOK(s, E) => SealsOK(t, E)
  BY DEF Seals, MasksOK, SealsOK

\* The root file system as it is found.
LEMMA RootSound ==
    ASSUME NEW c \in Configs, c.rootIsMount \in BOOLEAN
    PROVE  Sound(RootOf(c)) /\ Uniform(RootOf(c))
  <1>1. PICK s : s = RootOf(c)
    OBVIOUS
  <1>2. IsKernel(s)
    BY <1>1, RootKernel
  <1>3. PICK fs \in FsNames : fs = <<"rootfs", 1>> /\ fs[1] = "rootfs" /\ fs[2] = 1
    <2>1. PICK fs \in STRING \X Nat : fs = <<"rootfs", 1>>
      BY NamedPaths DEF Names
    <2>2. fs[1] = "rootfs" /\ fs[2] = 1
      BY <2>1
    <2> QED
      BY <2>1, <2>2, Zenon DEF FsNames
  <1>4. /\ s.files = {[file |-> <<fs, f.path>>, kind |-> f.kind] : f \in c.tree}
        /\ DOMAIN s.mounts = {1} /\ s.mounts[1].at = <<>> /\ s.mounts[1].fs = fs
        /\ s.mounts[1].root = <<>>
    BY <1>1, <1>3 DEF RootOf
  <1>5. PICK o \in Paths : o = <<>>
    BY NamedPaths
  <1>6. ASSUME NEW q \in Paths, [path |-> q, kind |-> "dir"] \in c.tree
        PROVE  DirHere(s, <<fs, q>>) /\ Here(s, <<fs, q>>)
    <2>1. PICK f \in c.tree : f = [path |-> q, kind |-> "dir"]
      BY <1>6
    <2>2. f.path = q /\ f.kind = "dir"
      BY <2>1
    <2>3. [file |-> <<fs, f.path>>, kind |-> f.kind] \in s.files
      BY <1>4
    <2>4. [file |-> <<fs, q>>, kind |-> "dir"] \in s.files
      BY <2>2, <2>3, Zenon
    <2>5. [file |-> <<fs, q>>, kind |-> "dir"].file = <<fs, q>>
      OBVIOUS
    <2> QED
      BY <2>4, <2>5 DEF DirHere, Here
  <1>7. RootsOK(s)
    <2>1. [path |-> o, kind |-> "dir"] \in c.tree
      BY <1>5, TreesAssumption
    <2> QED
      BY <1>4, <1>5, <1>6, <2>1 DEF RootsOK
  <1>8. ASSUME NEW g \in FsNames, NEW x \in Paths, Here(s, <<g, x>>)
        PROVE  g = fs /\ \A q \in Paths : IsStrictPrefix(q, x) => DirHere(s, <<g, q>>)
    <2>1. PICK f \in c.tree : [file |-> <<fs, f.path>>, kind |-> f.kind].file = <<g, x>>
      BY <1>4, <1>8 DEF Here
    <2>2. <<fs, f.path>> = <<g, x>>
      BY <2>1
    <2>3. g = fs /\ x = f.path
      BY <2>2
    <2>4. ASSUME NEW q \in Paths, IsStrictPrefix(q, x) PROVE DirHere(s, <<g, q>>)
      <3>1. IsPrefix(q, x) /\ q # x
        BY <2>4 DEF IsStrictPrefix
      <3>2. q \in Prefixes(x) \ {x}
        BY <3>1, PrefixesDef DEF Paths
      <3>3. [path |-> q, kind |-> "dir"] \in c.tree
        BY <2>3, <3>2, TreesAssumption
      <3> QED
        BY <1>6, <2>3, <3>3
    <2> QED
      BY <2>3, <2>4
  <1>9. FilesOK(s)
    BY <1>3, <1>8 DEF FilesOK
  <1>10. PointsOK(s)
    BY <1>4 DEF PointsOK
  <1>11. SerialsOK(s)
    <2>1. 1 \in 1..Latest(s) /\ Latest(s) \in Nat
      BY <1>2, KernelFacts
    <2> QED
      BY <1>3, <1>4, <2>1 DEF SerialsOK
  <1>12. Uniform(s)
    BY <1>4 DEF Uniform
  <1> QED
    BY <1>1, <1>7, <1>9, <1>10, <1>11, <1>12 DEF Sound

\* It holds at first.
LEMMA PassedInit == Init => PassedInv
  <1>1. SUFFICES ASSUME Init PROVE PassedInv
    OBVIOUS
  <1>2. conf \in Configs /\ pc = "load" /\ k = RootOf(conf)
    BY <1>1 DEF Init
  <1>3. conf.rootIsMount \in BOOLEAN
    BY <1>2, ConfigsAssumption DEF IsConfig
  <1>4. Sound(k) /\ Uniform(k)
    BY <1>2, <1>3, RootSound
  <1> QED
    BY <1>2, <1>4 DEF PassedInv, AfterReadonly

\* A step that leaves the mounts and the files alone, and starts no list.
LEMMA PassedQuiet ==
    ASSUME PassedInv, UNCHANGED <<conf, k, masked>>, conf \in Configs, refused' = {} => refused = {},
           pc' # "readonly", pc' # "mask",
           pc' \in BeforeReadonly => pc \in BeforeReadonly,
           pc' \in AfterReadonly => pc \in AfterReadonly
    PROVE  PassedInv'
  <1>1. pc' \in AfterReadonly => pc' # "mask" /\ pc' # "readonly"
    BY DEF AfterReadonly
  <1> QED
    BY <1>1 DEF PassedInv

\* A step that does not succeed.
LEMMA PassedStops ==
    ASSUME PassedInv, conf \in Configs, NEW step, NEW possible, Stops(step, possible)
    PROVE  PassedInv'
  <1>1. UNCHANGED <<conf, k, masked>> /\ pc' = "failed" /\ (refused' = {} => refused = {})
    BY DEF Stops, Fail, Refuse, Kernel, History
  <1>2. pc' \notin BeforeReadonly /\ pc' \notin AfterReadonly /\ pc' # "mask" /\ pc' # "readonly"
    BY <1>1 DEF BeforeReadonly, BeforeMask, AfterReadonly
  <1> QED
    BY <1>1, <1>2, PassedQuiet

\* The steps around the lists.
LEMMA PassedSteps ==
    ASSUME IInv, PassedInv,
           \/ Load \/ Isolate \/ OpenDevices \/ Chroot \/ Chdir
           \/ ApplyOomScoreAdj \/ DropCapabilities \/ Stdio \/ ExecEntrypoint
    PROVE  PassedInv'
  <1> USE DEF At, Kernel, History
  <1>0. conf \in Configs
    BY DEF IInv, PlaceOK
  <1>1. \/ \E step, possible : Stops(step, possible)
        \/ /\ UNCHANGED <<conf, k, masked, refused>>
           /\ \/ pc \in BeforeReadonly /\ pc' \in (BeforeMask \cup {"rejected"})
              \/ pc \in AfterReadonly /\ pc' \in AfterReadonly
    <2> USE DEF Goto, BeforeReadonly, BeforeMask, AfterReadonly
    <2>1. CASE Load
      BY <2>1 DEF Load
    <2>2. CASE Isolate
      BY <2>2 DEF Isolate
    <2>3. CASE OpenDevices
      BY <2>3 DEF OpenDevices
    <2>4. CASE Chroot
      BY <2>4 DEF Chroot
    <2>5. CASE Chdir
      BY <2>5 DEF Chdir
    <2>6. CASE ApplyOomScoreAdj
      BY <2>6 DEF ApplyOomScoreAdj
    <2>7. CASE DropCapabilities
      BY <2>7 DEF DropCapabilities
    <2>8. CASE Stdio
      BY <2>8 DEF Stdio
    <2>9. CASE ExecEntrypoint
      BY <2>9 DEF ExecEntrypoint
    <2> QED
      BY <2>1, <2>2, <2>3, <2>4, <2>5, <2>6, <2>7, <2>8, <2>9
  <1>2. CASE \E step, possible : Stops(step, possible)
    BY <1>0, <1>2, PassedStops
  <1>3. CASE /\ UNCHANGED <<conf, k, masked, refused>>
             /\ \/ pc \in BeforeReadonly /\ pc' \in (BeforeMask \cup {"rejected"})
                \/ pc \in AfterReadonly /\ pc' \in AfterReadonly
    <2>1. /\ pc' # "readonly" /\ pc' # "mask"
          /\ pc' \in BeforeReadonly => pc \in BeforeReadonly
          /\ pc' \in AfterReadonly => pc \in AfterReadonly
      BY <1>3 DEF BeforeReadonly, BeforeMask, AfterReadonly
    <2>2. UNCHANGED <<conf, k, masked>> /\ (refused' = {} => refused = {})
      BY <1>3
    <2> QED
      BY <1>0, <2>1, <2>2, PassedQuiet
  <1> QED
    BY <1>1, <1>2, <1>3

\* No device that a bundle asks for is a directory of the host.
DevicesAreNodes == \A c \in Configs : Range(Requested(c)) \cap HostDirs = {}

\* The mounts, the devices and the sysctls.
LEMMA PassedMounts ==
    ASSUME DevicesAreNodes, IInv, PassedInv, ApplyMounts \/ SetupDevices \/ WriteSysctls
    PROVE  PassedInv'
  <1> USE DEF At, Kernel, History
  <1>0. conf \in Configs /\ IsKernel(k) /\ Sound(k) /\ PlaceOK /\ DevicesOK
    BY DEF IInv, PlaceOK, MountInv, PassedInv
  <1>1. ASSUME Steady(k, k'), pc \in {"mount", "devices", "sysctl"},
               pc' \in BeforeMask \/ (pc' = "mask" /\ i' = 1 /\ conf' = conf)
        PROVE  PassedInv'
    <2>1. Uniform(k) /\ Sound(k') /\ Uniform(k')
      BY <1>1 DEF PassedInv, Steady, BeforeReadonly, BeforeMask
    <2>2. pc' # "readonly" /\ pc' \notin AfterReadonly
      BY <1>1 DEF BeforeMask, AfterReadonly
    <2>3. Done(conf.masked, 1) = {}
      BY <1>0, ConfigFacts, DoneIs
    <2>4. pc' = "mask" => MasksOK(k', masked', Done(conf'.masked, i'))
      BY <1>1, <2>3 DEF MasksOK, BeforeMask
    <2> QED
      BY <2>1, <2>2, <2>4 DEF PassedInv
  <1>2. CASE ApplyMounts
    <2>0. pc = "mount" /\ Walked = conf.mounts
      BY <1>2 DEF ApplyMounts, Walked
    <2>1. CASE i > Len(conf.mounts) /\ Goto("devices") /\ k' = k
      <3>1. Steady(k, k') /\ pc' \in BeforeMask
        BY <1>0, <2>1 DEF Steady, Goto, BeforeMask
      <3> QED
        BY <1>1, <2>0, <3>1
    <2>2. CASE Stops("mount", ApplyMountPossible(k, conf.mounts[i]))
      BY <1>0, <2>2, PassedStops
    <2>3. CASE /\ i <= Len(conf.mounts) /\ ApplyMountPossible(k, conf.mounts[i])
               /\ k' = ApplyMount(k, conf.mounts[i]) /\ pc' = pc
      <3>0. i \in 1..(Len(conf.mounts) + 1) /\ Len(conf.mounts) \in Nat
        BY <1>0, <2>0, ConfigFacts DEF PlaceOK
      <3>1. i \in 1..Len(conf.mounts)
        BY <2>3, <3>0
      <3>2. IsMount(conf.mounts[i])
        BY <1>0, <3>1, ConfigFacts
      <3>3. Steady(k, k')
        BY <1>0, <2>3, <3>2, ApplyMountSteady
      <3> QED
        BY <1>1, <2>0, <2>3, <3>3 DEF BeforeMask
    <2> QED
      BY <1>2, <2>1, <2>2, <2>3 DEF ApplyMounts
  <1>3. CASE SetupDevices
    <2>0. pc = "devices" /\ Walked = devices
      BY <1>3 DEF SetupDevices, Walked
    <2>1. CASE i > Len(devices) /\ k' = Linked(k) /\ Goto("sysctl")
      <3>1. Steady(k, k') /\ pc' \in BeforeMask
        BY <1>0, <2>1, LinkedGrown, GrownSteady DEF Goto, BeforeMask
      <3> QED
        BY <1>1, <2>0, <3>1
    <2>2. ASSUME i <= Len(devices), NEW allowed \in BOOLEAN, k' = BindDevice(k, devices[i], allowed),
                 pc' = pc
          PROVE  PassedInv'
      <3>0. devices \in Seq(Paths) /\ i \in 1..(Len(devices) + 1)
        BY <1>0, <2>0 DEF PlaceOK, DevicesOK
      <3>1. devices \in Seq(Paths) /\ i \in 1..Len(devices)
        BY <2>2, <3>0
      <3>2. devices[i] \in Paths /\ devices[i] \in HostDevices
        BY <1>0, <3>1 DEF DevicesOK, DevicesAreNodes, Range
      <3>3. Steady(k, k')
        BY <1>0, <2>2, <3>2, BindDeviceSteady
      <3> QED
        BY <1>1, <2>0, <2>2, <3>3 DEF BeforeMask
    <2> QED
      BY <1>3, <2>1, <2>2 DEF SetupDevices
  <1>4. CASE WriteSysctls
    <2>1. CASE k' = MadeEach(k, SysctlFiles, "file") /\ Goto("mask") /\ conf' = conf
      <3>1. Steady(k, k')
        BY <1>0, <2>1, SysctlPaths, MadeEachGrown, GrownSteady DEF FileKinds
      <3> QED
        BY <1>1, <1>4, <2>1, <3>1 DEF WriteSysctls, Goto
    <2> QED
      BY <1>0, <1>4, <2>1, PassedStops DEF WriteSysctls
  <1> QED
    BY <1>2, <1>3, <1>4

\* apply_masked_paths.
LEMMA PassedMasks ==
    ASSUME IInv, PassedInv, MaskPaths
    PROVE  PassedInv'
  <1> USE DEF At, Kernel, History
  <1>0. /\ conf \in Configs /\ IsKernel(k) /\ Sound(k) /\ Uniform(k) /\ PlaceOK /\ pc = "mask"
        /\ refused = {} => MasksOK(k, masked, Done(conf.masked, i))
    BY DEF IInv, PlaceOK, MountInv, PassedInv, MaskPaths, BeforeReadonly
  <1>1. Walked = conf.masked /\ conf.masked \in Seq(Paths) /\ i \in 1..(Len(conf.masked) + 1)
    BY <1>0, ConfigFacts DEF Walked, PlaceOK
  <1>2. CASE i > Len(conf.masked) /\ Goto("readonly") /\ UNCHANGED <<conf, k, refused, masked>>
    <2>1. i = Len(conf.masked) + 1 /\ pc' = "readonly" /\ i' = 1
      BY <1>1, <1>2 DEF Goto
    <2>2. Done(conf.masked, i) = Range(conf.masked) /\ Done(conf.readonlyPaths, 1) = {}
      BY <1>0, <1>1, <2>1, ConfigFacts, DoneIs
    <2>3. SealsOK(k, {})
      BY DEF SealsOK
    <2> QED
      BY <1>0, <1>2, <2>1, <2>2, <2>3 DEF PassedInv, BeforeReadonly, BeforeMask, AfterReadonly
  <1>3. ASSUME i <= Len(conf.masked), i' = i + 1, NEW allowed \in BOOLEAN, NEW p, p = conf.masked[i],
               NEW s, s = Placeholder(k, p), NEW covers, covers = (allowed /\ CanMask(s, p)),
               Tries("mask", allowed), k' = IF covers THEN Mask(s, p) ELSE s,
               masked' = IF covers /\ p # <<>>
                         THEN masked \cup {[path |-> p, by |-> File(k', p)]} ELSE masked,
               UNCHANGED <<conf, pc, devices, cwd, cred, why, sealed>>
        PROVE  PassedInv'
    <2>1. i \in 1..Len(conf.masked)
      BY <1>1, <1>3
    <2>2. /\ p \in Paths /\ Done(conf.masked, i) \subseteq Paths
          /\ Done(conf.masked, i + 1) = Done(conf.masked, i) \cup {p}
      BY <1>1, <1>3, <2>1, DoneIs
    <2>3. k' = IF allowed /\ CanMask(s, p) THEN Mask(s, p) ELSE s
      BY <1>3
    <2>4. Masks(k, k', p, allowed, covers)
      BY <1>0, <1>3, <2>2, <2>3, MaskOne
    <2>5. Sound(k') /\ Uniform(k')
      BY <2>4 DEF Masks
    <2>6. ASSUME refused' = {} PROVE MasksOK(k', masked', Done(conf.masked, i + 1))
      <3>1. allowed /\ refused = {}
        BY <1>3, <2>6 DEF Tries, Refuse
      <3>2. masked \subseteq masked'
        BY <1>3
      <3>3. covers /\ p # <<>> => \E m \in masked' : m.path = p
        <4>1. [path |-> p, by |-> File(k', p)].path = p
          OBVIOUS
        <4> QED
          BY <1>3, <4>1
      <3>4. PICK D : D = Done(conf.masked, i) /\ D \subseteq Paths /\ MasksOK(k, masked, D)
        BY <1>0, <2>2, <3>1
      <3>5. MasksOK(k', masked', D \cup {p})
        BY <2>2, <2>4, <3>1, <3>2, <3>3, <3>4, MasksMore, Zenon
      <3> QED
        BY <2>2, <3>4, <3>5
    <2>7. pc' = "mask" /\ conf' = conf
      BY <1>0, <1>3
    <2> QED
      BY <1>3, <2>5, <2>6, <2>7 DEF PassedInv, AfterReadonly
  <1> QED
    BY <1>2, <1>3, Zenon DEF MaskPaths

\* apply_readonly_paths.
LEMMA PassedReadonly ==
    ASSUME IInv, PassedInv, ReadonlyPaths
    PROVE  PassedInv'
  <1> USE DEF At, Kernel, History
  <1>0. /\ conf \in Configs /\ IsKernel(k) /\ Sound(k) /\ PlaceOK /\ pc = "readonly"
        /\ refused = {} => /\ MasksOK(k, masked, Range(conf.masked))
                           /\ SealsOK(k, Done(conf.readonlyPaths, i))
    BY DEF IInv, PlaceOK, MountInv, PassedInv, ReadonlyPaths
  <1>1. /\ Walked = conf.readonlyPaths /\ conf.readonlyPaths \in Seq(Paths)
        /\ i \in 1..(Len(conf.readonlyPaths) + 1) /\ Range(conf.masked) \subseteq Paths
    BY <1>0, ConfigFacts, DoneIs DEF Walked, PlaceOK
  <1>2. CASE i > Len(conf.readonlyPaths) /\ Goto("oom") /\ UNCHANGED <<conf, k, refused, masked>>
    <2>1. i = Len(conf.readonlyPaths) + 1 /\ pc' = "oom"
      BY <1>1, <1>2 DEF Goto
    <2>2. Done(conf.readonlyPaths, i) = Range(conf.readonlyPaths)
      BY <1>1, <2>1, DoneIs
    <2> QED
      BY <1>0, <1>2, <2>1, <2>2 DEF PassedInv, BeforeReadonly, BeforeMask, AfterReadonly
  <1>3. ASSUME i <= Len(conf.readonlyPaths), i' = i + 1, NEW binds \in BOOLEAN, NEW remounts \in BOOLEAN,
               NEW p, p = conf.readonlyPaths[i], NEW s, s = ReadonlyPlace(k, p),
               NEW bound, bound = (binds /\ Exists(s, p)),
               Tries("readonly", binds /\ remounts), k' = IF bound THEN MakeReadonly(s, p, remounts) ELSE s,
               sealed' = IF bound /\ remounts /\ MountOf(k', p).top THEN sealed \cup {p} ELSE sealed,
               UNCHANGED <<conf, pc, devices, cwd, cred, why, masked>>
        PROVE  PassedInv'
    <2>1. i \in 1..Len(conf.readonlyPaths)
      BY <1>1, <1>3
    <2>2. /\ p \in Paths /\ Done(conf.readonlyPaths, i) \subseteq Paths
          /\ Done(conf.readonlyPaths, i + 1) = Done(conf.readonlyPaths, i) \cup {p}
      BY <1>1, <1>3, <2>1, DoneIs
    <2>3. k' = IF binds /\ Exists(s, p) THEN MakeReadonly(s, p, remounts) ELSE s
      BY <1>3
    <2>4. Seals(k, k') /\ (binds /\ remounts /\ p # <<>> => MountOf(k', p).ro \/ Stuck(k', p))
      BY <1>0, <1>3, <2>2, <2>3, ReadonlyOne
    <2>5. ASSUME refused' = {}
          PROVE  /\ MasksOK(k', masked, Range(conf.masked))
                 /\ SealsOK(k', Done(conf.readonlyPaths, i + 1))
      <3>1. binds /\ remounts /\ refused = {}
        BY <1>3, <2>5 DEF Tries, Refuse
      <3>2. MasksOK(k', masked, Range(conf.masked)) /\ SealsOK(k', Done(conf.readonlyPaths, i))
        BY <1>0, <1>1, <2>2, <2>4, <3>1, SealsMore
      <3> QED
        BY <2>2, <2>4, <3>1, <3>2 DEF SealsOK
    <2>6. pc' = "readonly" /\ conf' = conf /\ masked' = masked /\ Sound(k')
      BY <1>0, <1>3, <2>4 DEF Seals
    <2> QED
      BY <1>3, <2>5, <2>6 DEF PassedInv, BeforeReadonly, BeforeMask, AfterReadonly
  <1> QED
    BY <1>2, <1>3, Zenon DEF ReadonlyPaths

\* make_root_readonly.
LEMMA PassedRoot ==
    ASSUME IInv, PassedInv, MakeRootReadonly
    PROVE  PassedInv'
  <1> USE DEF At, Kernel, History
  <1>0. /\ conf \in Configs /\ IsKernel(k) /\ Sound(k) /\ pc = "root"
        /\ refused = {} => /\ MasksOK(k, masked, Range(conf.masked))
                           /\ SealsOK(k, Range(conf.readonlyPaths))
    BY DEF IInv, PlaceOK, MountInv, PassedInv, MakeRootReadonly, AfterReadonly
  <1>1. Range(conf.masked) \subseteq Paths /\ Range(conf.readonlyPaths) \subseteq Paths /\ <<>> \in Paths
    BY <1>0, ConfigFacts, DoneIs, NamedPaths
  <1>2. CASE Stops("root", RootPossible)
    BY <1>0, <1>2, PassedStops
  <1>3. CASE /\ k' = IF conf.readonly THEN RemountedRo(k, <<>>) ELSE k
             /\ Goto("stdio") /\ UNCHANGED <<conf, refused, masked>>
    <2>1. k' = k \/ Seals(k, k')
      <3>1. Seals(k, RemountedRo(k, <<>>))
        BY <1>0, <1>1, RemountSeals
      <3> QED
        BY <1>3, <3>1
    <2>2. Sound(k') /\ (refused = {} => /\ MasksOK(k', masked, Range(conf.masked))
                                        /\ SealsOK(k', Range(conf.readonlyPaths)))
      BY <1>0, <1>1, <2>1, SealsMore DEF Seals
    <2>3. pc' = "stdio"
      BY <1>3 DEF Goto
    <2> QED
      BY <1>3, <2>2, <2>3 DEF PassedInv, BeforeReadonly, BeforeMask, AfterReadonly
  <1> QED
    BY <1>2, <1>3 DEF MakeRootReadonly

\* It is kept by every step.
LEMMA PassedNext ==
    ASSUME DevicesAreNodes
    PROVE  IInv /\ PassedInv /\ [Next]_vars => PassedInv'
  <1> SUFFICES ASSUME IInv, PassedInv, [Next]_vars PROVE PassedInv'
    OBVIOUS
  <1>1. CASE UNCHANGED vars
    BY <1>1 DEF vars, PassedInv
  <1>2. CASE Rest
    BY <1>1, <1>2 DEF Rest
  <1> QED
    BY <1>1, <1>2, PassedSteps, PassedMounts, PassedMasks, PassedReadonly, PassedRoot DEF Next

\* For every bundle whose mounts are private (OptionsAssumption) and none of whose
\* devices is a directory: with a kernel that refuses nothing, each masked or
\* read-only path walked so far is masked or read-only, or a directory above it is
\* missing where nothing can be made any more; what exists is in directories, also
\* across mount points.
THEOREM PassedInvariant ==
    ASSUME DevicesAreNodes
    PROVE  Spec => []PassedInv
  <1>1. Init => PassedInv
    BY PassedInit
  <1>2. IInv /\ PassedInv /\ [Next]_vars => PassedInv'
    BY PassedNext
  <1> QED
    BY <1>1, <1>2, Invariant, PTL DEF Spec

\* No path of apply_masked_paths or apply_readonly_paths is passed over and then
\* comes to exist: for every bundle whose mounts are private (OptionsAssumption) and
\* none of whose devices is a directory, what the entrypoint finds there is masked
\* or read-only.
THEOREM NonePassedOverHolds ==
    ASSUME DevicesAreNodes
    PROVE  Spec => []NonePassedOver
  <1>1. IInv /\ PassedInv => NonePassedOver
    <2>1. SUFFICES ASSUME IInv, PassedInv, pc = "running", refused = {}
                   PROVE  /\ \A p \in Range(conf.readonlyPaths) \ {<<>>} : Exists(k, p) => MountOf(k, p).ro
                          /\ NullOK(k) =>
                                 \A p \in Range(conf.masked) \ {<<>>} :
                                     Exists(k, p) => \E m \in masked : IsPrefix(m.path, p)
      BY DEF NonePassedOver, NullOK
    <2>2. conf \in Configs /\ IsKernel(k) /\ Sound(k)
      BY <2>1 DEF IInv, PlaceOK, MountInv, PassedInv
    <2>3. Range(conf.masked) \subseteq Paths /\ Range(conf.readonlyPaths) \subseteq Paths
      BY <2>2, ConfigFacts, DoneIs
    <2>4. MasksOK(k, masked, Range(conf.masked)) /\ SealsOK(k, Range(conf.readonlyPaths))
      BY <2>1 DEF PassedInv, AfterReadonly
    <2>5. \A p \in Paths : Exists(k, p) => ~Stuck(k, p)
      BY <2>2, StuckGone
    <2> QED
      BY <2>3, <2>4, <2>5 DEF MasksOK, SealsOK
  <1> QED
    BY <1>1, Invariant, PassedInvariant, PTL
=============================================================================

--------------------------- MODULE SequenceFacts ---------------------------
(***************************************************************************)
(* What the proofs need to know of numbers and of paths as sequences: the  *)
(* least element of a set of naturals, from which induction over a set     *)
(* follows, the greatest element of a bounded set, and prefixes.           *)
(***************************************************************************)
EXTENDS Integers, Sequences, SequencesExt, WellFoundedInduction, TLAPS

-----------------------------------------------------------------------------
(* Naturals *)

\* A set of naturals that is not empty has a least element.
LEMMA LeastNat ==
    ASSUME NEW T \in SUBSET Nat, T # {}
    PROVE  \E x \in T : \A y \in T : x <= y
  <1>1. IsWellFoundedOn(OpToRel(<, Nat), Nat)
    BY NatLessThanWellFounded
  <1>2. \E x \in T : \A y \in T : ~(<<y, x>> \in OpToRel(<, Nat))
    BY <1>1, WFMin
  <1>3. \A x, y \in Nat : x < y => <<x, y>> \in OpToRel(<, Nat)
    BY DEF OpToRel
  <1>4. PICK R : /\ \E x \in T : \A y \in T : ~(<<y, x>> \in R)
                 /\ \A x, y \in Nat : x < y => <<x, y>> \in R
    BY <1>2, <1>3, Zenon
  <1>5. PICK x \in T : \A y \in T : ~(<<y, x>> \in R)
    BY <1>4
  <1>6. ASSUME NEW y \in T PROVE x <= y
    <2>1. x \in Nat /\ y \in Nat /\ ~(<<y, x>> \in R)
      BY <1>5
    <2>2. ~(y < x)
      BY <1>4, <2>1, Zenon
    <2> QED
      BY <2>1, <2>2, SMT
  <1> QED
    BY <1>6

\* Induction: a set with 0 and with the successor of each of its elements up to
\* m has every natural up to m.
LEMMA InductionUpTo ==
    ASSUME NEW S, NEW m \in Nat, 0 \in S,
           \A j \in Nat : j < m /\ j \in S => j + 1 \in S
    PROVE  \A j \in 0..m : j \in S
  <1> DEFINE T == {j \in 0..m : j \notin S}
  <1> SUFFICES ASSUME T # {} PROVE FALSE
    OBVIOUS
  <1>1. PICK x \in T : \A y \in T : x <= y
    BY LeastNat, T \in SUBSET Nat
  <1>2. x \in 0..m /\ x \notin S /\ x # 0
    BY <1>1
  <1>3. x - 1 \in Nat /\ x - 1 \in 0..m /\ x - 1 < m /\ ~(x <= x - 1) /\ (x - 1) + 1 = x
    BY <1>2
  <1>4. x - 1 \in S
    BY <1>1, <1>3
  <1> QED
    BY <1>2, <1>3, <1>4

\* Max picks the greatest element of a set that is not empty and has a bound.
LEMMA MaxOf ==
    ASSUME NEW S \in SUBSET Int, NEW b \in Int, S # {}, \A x \in S : 0 <= x /\ x <= b
    PROVE  Max(S) \in S /\ \A y \in S : y <= Max(S)
  <1> DEFINE T == {b - x : x \in S}
  <1>1. T \in SUBSET Nat /\ T # {}
    <2>1. \A x \in S : b - x \in Nat
      OBVIOUS
    <2> QED
      BY <2>1
  <1>2. PICK t \in T : \A u \in T : t <= u
    BY <1>1, LeastNat
  <1>3. PICK x \in S : t = b - x
    BY <1>2
  <1>4. ASSUME NEW y \in S PROVE x >= y
    <2>1. b - y \in T /\ x \in Int /\ y \in Int
      OBVIOUS
    <2>2. b - x <= b - y
      BY <1>2, <1>3, <2>1
    <2> QED
      BY <2>1, <2>2, SMT
  <1>5. Max(S) \in S /\ \A y \in S : Max(S) >= y
    BY <1>4 DEF Max
  <1> QED
    BY <1>5

\* ... which is the only one.
LEMMA MaxIs ==
    ASSUME NEW S \in SUBSET Int, NEW m \in S, \A y \in S : y <= m
    PROVE  Max(S) = m
  <1>1. Max(S) \in S /\ \A y \in S : Max(S) >= y
    BY DEF Max
  <1>2. Max(S) \in Int /\ m \in Int /\ Max(S) >= m /\ Max(S) <= m
    BY <1>1
  <1> QED
    BY <1>2

-----------------------------------------------------------------------------
(* Paths *)

\* Two sequences are equal if their elements are.
LEMMA SameElements ==
    ASSUME NEW S, NEW p \in Seq(S), NEW q \in Seq(S), Len(p) = Len(q),
           \A j \in 1..Len(p) : p[j] = q[j]
    PROVE  p = q
  OBVIOUS

\* A prefix is as long or shorter and has the same elements.
LEMMA PrefixDef ==
    ASSUME NEW S, NEW p \in Seq(S), NEW q \in Seq(S)
    PROVE  IsPrefix(p, q) <=> Len(p) <= Len(q) /\ \A j \in 1..Len(p) : p[j] = q[j]
  <1>1. ASSUME Len(p) <= Len(q), \A j \in 1..Len(p) : p[j] = q[j] PROVE IsPrefix(p, q)
    <2>1. SubSeq(p, 1, Len(p)) = SubSeq(q, 1, Len(p))
      BY <1>1
    <2> QED
      BY <1>1, <2>1 DEF IsPrefix
  <1>2. ASSUME IsPrefix(p, q) PROVE Len(p) <= Len(q) /\ \A j \in 1..Len(p) : p[j] = q[j]
    <2>1. Len(p) <= Len(q) /\ SubSeq(p, 1, Len(p)) = SubSeq(q, 1, Len(p))
      BY <1>2 DEF IsPrefix
    <2>2. ASSUME NEW j \in 1..Len(p) PROVE p[j] = q[j]
      <3>1. SubSeq(p, 1, Len(p))[j] = p[j] /\ SubSeq(q, 1, Len(p))[j] = q[j]
        BY <2>1
      <3> QED
        BY <2>1, <3>1
    <2> QED
      BY <2>1, <2>2
  <1> QED
    BY <1>1, <1>2

\* Prefixes(p) are the sequences that are a prefix of p.
LEMMA PrefixesDef ==
    ASSUME NEW S, NEW p \in Seq(S), NEW q
    PROVE  q \in Prefixes(p) <=> q \in Seq(S) /\ IsPrefix(q, p)
  <1>1. ASSUME q \in Prefixes(p) PROVE q \in Seq(S) /\ IsPrefix(q, p)
    <2>1. PICK l \in 0..Len(p) : q = SubSeq(p, 1, l)
      BY <1>1 DEF Prefixes
    <2>2. q \in Seq(S) /\ Len(q) = l /\ \A j \in 1..l : q[j] = p[j]
      BY <2>1
    <2> QED
      BY <2>2, PrefixDef
  <1>2. ASSUME q \in Seq(S), IsPrefix(q, p) PROVE q \in Prefixes(p)
    <2>1. Len(q) \in 0..Len(p) /\ \A j \in 1..Len(q) : q[j] = p[j]
      BY <1>2, PrefixDef
    <2>2. q = SubSeq(p, 1, Len(q))
      BY <1>2, <2>1
    <2> QED
      BY <2>1, <2>2 DEF Prefixes
  <1> QED
    BY <1>1, <1>2

\* Being a prefix is a partial order, and the prefixes of one path are a chain.
LEMMA PrefixOrder ==
    ASSUME NEW S, NEW p \in Seq(S), NEW q \in Seq(S), NEW r \in Seq(S)
    PROVE  /\ IsPrefix(p, p) /\ IsPrefix(<<>>, p)
           /\ IsPrefix(p, q) /\ IsPrefix(q, r) => IsPrefix(p, r)
           /\ IsPrefix(p, q) /\ IsPrefix(q, p) => p = q
           /\ IsPrefix(p, r) /\ IsPrefix(q, r) => IsPrefix(p, q) \/ IsPrefix(q, p)
           /\ IsPrefix(p, r) /\ IsPrefix(q, r) /\ Len(p) <= Len(q) => IsPrefix(p, q)
  <1>0. <<>> \in Seq(S) /\ Len(<<>>) = 0
    OBVIOUS
  <1>1. \A x, y \in Seq(S) :
            IsPrefix(x, y) <=> Len(x) <= Len(y) /\ \A j \in 1..Len(x) : x[j] = y[j]
    BY PrefixDef
  <1>2. IsPrefix(p, p) /\ IsPrefix(<<>>, p)
    <2>1. IsPrefix(p, p)
      BY <1>1
    <2>2. Len(<<>>) <= Len(p) /\ \A j \in 1..Len(<<>>) : <<>>[j] = p[j]
      BY <1>0
    <2> QED
      BY <1>0, <1>1, <2>1, <2>2
  <1>3. ASSUME IsPrefix(p, q), IsPrefix(q, r) PROVE IsPrefix(p, r)
    BY <1>1, <1>3
  <1>4. ASSUME IsPrefix(p, q), IsPrefix(q, p) PROVE p = q
    <2>1. Len(p) = Len(q) /\ \A j \in 1..Len(p) : p[j] = q[j]
      BY <1>1, <1>4
    <2> QED
      BY <2>1, SameElements
  <1>5. ASSUME IsPrefix(p, r), IsPrefix(q, r), Len(p) <= Len(q) PROVE IsPrefix(p, q)
    BY <1>1, <1>5
  <1>6. ASSUME IsPrefix(p, r), IsPrefix(q, r) PROVE IsPrefix(p, q) \/ IsPrefix(q, p)
    BY <1>1, <1>6
  <1> QED
    BY <1>2, <1>3, <1>4, <1>5, <1>6

\* Front(q) is the greatest strict prefix of q.
LEMMA FrontPrefix ==
    ASSUME NEW S, NEW p \in Seq(S), NEW q \in Seq(S), q # <<>>
    PROVE  /\ Front(q) \in Seq(S) /\ Len(Front(q)) = Len(q) - 1
           /\ IsStrictPrefix(Front(q), q)
           /\ IsStrictPrefix(p, q) <=> IsPrefix(p, Front(q))
  <1>1. \A x, y \in Seq(S) :
            IsPrefix(x, y) <=> Len(x) <= Len(y) /\ \A j \in 1..Len(x) : x[j] = y[j]
    BY PrefixDef
  <1>2. Front(q) \in Seq(S) /\ Len(Front(q)) = Len(q) - 1
        /\ \A j \in 1..(Len(q) - 1) : Front(q)[j] = q[j]
    <2>1. Len(q) \in Nat /\ Len(q) >= 1
      OBVIOUS
    <2>a. Len(q) - 1 \in 0..Len(q)
      BY <2>1
    <2>2. PICK l \in 0..Len(q) : l = Len(q) - 1
      BY <2>a, Zenon
    <2>3. Front(q) = SubSeq(q, 1, l)
      BY <2>2 DEF Front
    <2>4. SubSeq(q, 1, l) \in Seq(S) /\ Len(SubSeq(q, 1, l)) = l
          /\ \A j \in 1..l : SubSeq(q, 1, l)[j] = q[j]
      OBVIOUS
    <2> QED
      BY <2>2, <2>3, <2>4
  <1> HIDE DEF Front
  <1>a. PICK f \in Seq(S) : f = Front(q)
    BY <1>2
  <1>b. Len(q) \in Nat /\ Len(f) = Len(q) - 1 /\ \A j \in 1..Len(f) : f[j] = q[j]
    BY <1>2, <1>a
  <1>c. IsPrefix(f, q) /\ Len(f) # Len(q)
    <2>1. Len(f) <= Len(q) /\ Len(f) # Len(q)
      BY <1>b
    <2>2. IsPrefix(f, q)
      BY <1>1, <1>b, <2>1
    <2> QED
      BY <2>1, <2>2
  <1>3. IsPrefix(Front(q), q) /\ Front(q) # q
    BY <1>a, <1>c
  <1>4. ASSUME IsPrefix(p, q), p # q PROVE IsPrefix(p, Front(q))
    <2>1. Len(p) # Len(q)
      BY <1>1, <1>4, SameElements
    <2>2. Len(p) <= Len(Front(q)) /\ \A j \in 1..Len(p) : p[j] = q[j]
      BY <1>1, <1>2, <1>4, <2>1
    <2> QED
      BY <1>1, <1>2, <2>2
  <1>5. ASSUME IsPrefix(p, Front(q)) PROVE IsPrefix(p, q) /\ p # q
    <2>1. Len(p) \in Nat /\ Len(p) <= Len(f) /\ \A j \in 1..Len(p) : p[j] = f[j]
      BY <1>1, <1>5, <1>a
    <2>2. Len(p) < Len(q) /\ \A j \in 1..Len(p) : p[j] = q[j]
      BY <1>b, <2>1
    <2>3. IsPrefix(p, q)
      BY <1>1, <2>2
    <2> QED
      BY <2>2, <2>3
  <1> QED
    BY <1>2, <1>3, <1>4, <1>5 DEF IsStrictPrefix

\* The strict prefixes of a path are shorter, and between one of them and the
\* path there is its child on the way.
LEMMA ChildOnTheWay ==
    ASSUME NEW S, NEW d \in Seq(S), NEW q \in Seq(S), IsStrictPrefix(d, q)
    PROVE  \E c \in Seq(S) : c # <<>> /\ Front(c) = d /\ IsPrefix(c, q)
  <1>1. \A x, y \in Seq(S) :
            IsPrefix(x, y) <=> Len(x) <= Len(y) /\ \A j \in 1..Len(x) : x[j] = y[j]
    BY PrefixDef
  <1>2. Len(d) < Len(q) /\ \A j \in 1..Len(d) : d[j] = q[j]
    <2>1. IsPrefix(d, q) /\ d # q
      BY DEF IsStrictPrefix
    <2>2. Len(d) # Len(q)
      BY <1>1, <2>1, SameElements
    <2> QED
      BY <1>1, <2>1, <2>2
  <1> DEFINE c == SubSeq(q, 1, Len(d) + 1)
  <1>3. c \in Seq(S) /\ Len(c) = Len(d) + 1 /\ \A j \in 1..(Len(d) + 1) : c[j] = q[j]
    BY <1>2
  <1> HIDE DEF c
  <1>4. IsPrefix(c, q) /\ c # <<>>
    BY <1>1, <1>2, <1>3
  <1>5. Front(c) = d
    <2>1. Front(c) \in Seq(S) /\ Len(Front(c)) = Len(d) /\ \A j \in 1..Len(d) : Front(c)[j] = d[j]
      BY <1>2, <1>3 DEF Front
    <2> QED
      BY <2>1, SameElements
  <1> QED
    BY <1>3, <1>4, <1>5
=============================================================================

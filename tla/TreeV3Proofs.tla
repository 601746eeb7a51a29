------------------------------- MODULE TreeV3Proofs -------------------------------
(***************************************************************************)
(* Theorems about TreeV3, for any groups, entries and files, and their     *)
(* proofs.  The tree is found again by loops and recursions over lists:    *)
(* most lemmas say what these compute for a tree whose lists and fields    *)
(* agree.                                                                  *)
(***************************************************************************)
EXTENDS TreeV3, FiniteSetTheorems, TLAPS

(* The walks go down from a group to its subgroups, b being the walks from these. *)
GroupsStep(d, b, g) ==
    FlattenSeq([i \in DOMAIN d.group[g].subGroups |->
                   <<d.group[g].subGroups[i]>> \o b[d.group[g].subGroups[i]]])

EntriesStep(d, b, g) ==
    FlattenSeq([i \in DOMAIN d.group[g].subGroups |-> b[d.group[g].subGroups[i]]])
        \o d.group[g].entries

(* One level of a walk: of its groups, or of its entries.                         *)
Walking == INSTANCE FoldLemmas
           WITH op <- LAMBDA walk, b, n :
                         [g \in Groups |-> IF walk.entries THEN EntriesStep(walk.d, b, g)
                                                           ELSE GroupsStep(walk.d, b, g)]

----------------------------------------------------------------------------------
(* Sequences                                                                      *)

(* The members of a sequence of members of S.                                     *)
LEMMA MembersOfSeq ==
    ASSUME NEW S, NEW s \in Seq(S)
    PROVE  /\ Len(s) \in Nat /\ DOMAIN s = 1..Len(s)
           /\ \A i \in DOMAIN s : s[i] \in S
           /\ ToSet(s) \subseteq S
           /\ \A x : x \in ToSet(s) <=> \E i \in 1..Len(s) : s[i] = x
BY DEF ToSet

(* x comes before y.                                                              *)
Before(s, x, y) == \E i, j \in DOMAIN s : i < j /\ s[i] = x /\ s[j] = y

(* A position holds a member.                                                   *)
LEMMA MemberAt ==
    ASSUME NEW s, NEW i \in DOMAIN s
    PROVE  s[i] \in ToSet(s)
BY DEF ToSet

(* Of two positions the first comes before the second.                          *)
LEMMA BeforeAt ==
    ASSUME NEW s, NEW i \in DOMAIN s, NEW j \in DOMAIN s, i < j
    PROVE  Before(s, s[i], s[j])
BY DEF Before

(* The members, and their order, of a sequence and another one after it.        *)
LEMMA ConcatOrder ==
    ASSUME NEW S, NEW s \in Seq(S), NEW t \in Seq(S)
    PROVE  /\ s \o t \in Seq(S)
           /\ Len(s \o t) = Len(s) + Len(t)
           /\ \A x : x \in ToSet(s \o t) <=> x \in ToSet(s) \/ x \in ToSet(t)
           /\ \A x, y : Before(s \o t, x, y) <=> \/ Before(s, x, y)
                                                 \/ Before(t, x, y)
                                                 \/ x \in ToSet(s) /\ y \in ToSet(t)
           /\ IsInjective(s) /\ IsInjective(t) /\ (\A x \in ToSet(s) : x \notin ToSet(t))
                 => IsInjective(s \o t)
<1> DEFINE u == s \o t
           m == Len(s)
           n == Len(t)
<1>1. /\ u \in Seq(S) /\ Len(u) = m + n /\ m \in Nat /\ n \in Nat
      /\ DOMAIN u = 1..(m + n) /\ DOMAIN s = 1..m /\ DOMAIN t = 1..n
      /\ \A i \in 1..m : u[i] = s[i]
      /\ \A i \in 1..n : u[m + i] = t[i]
  OBVIOUS
<1> HIDE DEF u, m, n
<1>2. \A i \in 1..(m + n) : \/ i \in 1..m /\ u[i] = s[i]
                            \/ i > m /\ i - m \in 1..n /\ u[i] = t[i - m]
  <2> TAKE i \in 1..(m + n)
  <2>1. CASE i <= m
    <3>1. i \in 1..m
      BY <1>1, <2>1
    <3>2. QED
      BY ONLY <1>1, <3>1
  <2>2. CASE i > m
    <3>1. i - m \in 1..n /\ m + (i - m) = i
      BY <1>1, <2>2
    <3>2. u[m + (i - m)] = t[i - m]
      BY ONLY <1>1, <3>1
    <3>3. QED
      BY <2>2, <3>1, <3>2
  <2>3. QED
    BY <1>1, <2>1, <2>2
<1>3. \A i \in 1..m : i \in DOMAIN u
  BY <1>1
<1>4. \A i \in 1..n : m + i \in DOMAIN u /\ m + i > m
  BY <1>1
<1>5. ASSUME NEW x
      PROVE  x \in ToSet(u) <=> x \in ToSet(s) \/ x \in ToSet(t)
  <2>1. x \in ToSet(u) => x \in ToSet(s) \/ x \in ToSet(t)
    <3> SUFFICES ASSUME NEW i \in 1..(m + n), u[i] = x
                 PROVE  x \in ToSet(s) \/ x \in ToSet(t)
      BY <1>1 DEF ToSet
    <3>1. (\E j \in 1..m : s[j] = x) \/ (\E j \in 1..n : t[j] = x)
      BY <1>2
    <3>2. QED
      BY <1>1, <3>1 DEF ToSet
  <2>2. x \in ToSet(s) => x \in ToSet(u)
    BY <1>1, <1>3 DEF ToSet
  <2>3. x \in ToSet(t) => x \in ToSet(u)
    <3> SUFFICES ASSUME NEW i \in 1..n, t[i] = x PROVE x \in ToSet(u)
      BY <1>1 DEF ToSet
    <3>1. m + i \in DOMAIN u /\ u[m + i] = x
      BY <1>1, <1>4
    <3>2. QED
      BY <3>1 DEF ToSet
  <2>4. QED
    BY <2>1, <2>2, <2>3
<1>6. ASSUME NEW x, NEW y
      PROVE  Before(u, x, y) <=> \/ Before(s, x, y)
                                 \/ Before(t, x, y)
                                 \/ x \in ToSet(s) /\ y \in ToSet(t)
  <2>1. ASSUME NEW i \in 1..(m + n), NEW j \in 1..(m + n), i < j, u[i] = x, u[j] = y
        PROVE  Before(s, x, y) \/ Before(t, x, y) \/ (x \in ToSet(s) /\ y \in ToSet(t))
    <3>1. CASE j <= m
      BY <1>1, <1>2, <2>1, <3>1 DEF Before
    <3>2. CASE i > m
      <4>1. i - m \in 1..n /\ j - m \in 1..n /\ i - m < j - m
        BY <1>1, <1>2, <2>1, <3>2
      <4>2. t[i - m] = x /\ t[j - m] = y
        <5>1. ~(i \in 1..m) /\ ~(j \in 1..m)
          BY <1>1, <2>1, <3>2
        <5>2. QED
          BY <1>2, <2>1, <5>1
      <4>3. Before(t, t[i - m], t[j - m])
        BY <1>1, <4>1, BeforeAt
      <4>4. QED
        BY ONLY <4>2, <4>3
    <3>3. CASE i <= m /\ j > m
      <4>1. i \in 1..m /\ s[i] = x /\ j - m \in 1..n /\ t[j - m] = y
        BY <1>1, <1>2, <2>1, <3>3
      <4>2. s[i] \in ToSet(s) /\ t[j - m] \in ToSet(t)
        BY <1>1, <4>1, MemberAt
      <4>3. QED
        BY ONLY <4>1, <4>2
    <3>4. QED
      BY <1>1, <3>1, <3>2, <3>3
  <2>2. Before(s, x, y) => Before(u, x, y)
    BY <1>1, <1>3 DEF Before
  <2>3. ASSUME NEW i \in 1..n, NEW j \in 1..n, i < j, t[i] = x, t[j] = y
        PROVE  Before(u, x, y)
    <3>1. m + i < m + j /\ u[m + i] = x /\ u[m + j] = y
      BY <1>1, <2>3
    <3>2. QED
      BY <1>4, <3>1 DEF Before
  <2>4. ASSUME NEW i \in 1..m, NEW j \in 1..n, s[i] = x, t[j] = y
        PROVE  Before(u, x, y)
    <3>1. i < m + j /\ u[i] = x /\ u[m + j] = y
      BY <1>1, <2>4
    <3>2. QED
      BY <1>3, <1>4, <3>1 DEF Before
  <2>5. QED
    BY <1>1, <2>1, <2>2, <2>3, <2>4 DEF Before, ToSet
<1>7. ASSUME IsInjective(s), IsInjective(t), \A x \in ToSet(s) : x \notin ToSet(t)
      PROVE  IsInjective(u)
  <2> SUFFICES ASSUME NEW i \in 1..(m + n), NEW j \in 1..(m + n), u[i] = u[j] PROVE i = j
    BY <1>1 DEF IsInjective
  <2>1. CASE i \in 1..m /\ j \in 1..m
    BY <1>1, <1>7, <2>1 DEF IsInjective
  <2>2. CASE i > m /\ j > m
    <3>1. i - m \in 1..n /\ j - m \in 1..n /\ t[i - m] = t[j - m]
      <4>1. ~(i \in 1..m) /\ ~(j \in 1..m)
        BY <1>1, <2>2
      <4>2. QED
        BY <1>2, <4>1
    <3>2. i - m = j - m
      BY <1>1, <1>7, <3>1 DEF IsInjective
    <3>3. QED
      BY <1>1, <2>2, <3>2
  <2>3. ASSUME NEW h \in 1..m, NEW k \in 1..(m + n), k > m PROVE u[h] # u[k]
    <3>1. u[h] = s[h] /\ k - m \in 1..n /\ u[k] = t[k - m]
      BY <1>1, <1>2, <2>3
    <3>2. s[h] \in ToSet(s) /\ t[k - m] \in ToSet(t)
      BY <1>1, <3>1, MemberAt
    <3>3. QED
      BY <1>7, <3>1, <3>2
  <2>4. (i \in 1..m \/ i > m) /\ (j \in 1..m \/ j > m)
    BY <1>1
  <2>5. QED
    BY ONLY <2>1, <2>2, <2>3, <2>4, i \in 1..(m + n), j \in 1..(m + n), u[i] = u[j]
<1>8. QED
  BY <1>1, <1>5, <1>6, <1>7 DEF u, m, n

(* Flattening joins one sequence after the other.                                 *)
LEMMA FlattenSteps ==
    ASSUME NEW S, NEW seqs \in Seq(Seq(S)), NEW n, n = Len(seqs)
    PROVE  \E r : /\ r[0] = <<>>
                  /\ \A k \in 1..n : r[k] = r[k - 1] \o seqs[k]
                  /\ r[n] = FlattenSeq(seqs)
<1>1. n \in Nat /\ DOMAIN seqs = 1..n /\ \A i \in 1..n : seqs[i] \in Seq(S)
  OBVIOUS
<1>2. CASE n = 0
  <2>1. FlattenSeq(seqs) = <<>>
    <3>1. Len(seqs) = 0 /\ seqs = <<>>
      BY ONLY <1>2, n = Len(seqs), seqs \in Seq(Seq(S))
    <3>2. QED
      BY ONLY <3>1 DEF FlattenSeq
  <2>2. 1..n = {}
    BY <1>2
  <2> DEFINE r == [k \in {0} |-> <<>>]
  <2>3. r[0] = <<>>
    OBVIOUS
  <2> HIDE DEF r
  <2>4. QED
    BY ONLY <1>2, <2>1, <2>2, <2>3
<1>3. CASE n # 0
  <2> DEFINE f == CHOOSE h : Walking!IsFlatten(h, seqs, n)
             r == [k \in 0..n |-> IF k = 0 THEN <<>> ELSE f[k]]
  <2>1. FlattenSeq(seqs) = f[n]
    BY <1>3 DEF FlattenSeq, Walking!IsFlatten
  <2>2. Walking!IsFlatten(f, seqs, n)
    BY <1>1, Walking!FlattenExists
  <2> HIDE DEF f
  <2>3. \A k \in 1..n : f[k] = IF k = 1 THEN seqs[k] ELSE f[k - 1] \o seqs[k]
    BY <2>2 DEF Walking!IsFlatten
  <2>4. ASSUME NEW k \in 1..n PROVE r[k] = r[k - 1] \o seqs[k]
    <3>1. CASE k = 1
      <4>1. k \in 0..n /\ k # 0 /\ k - 1 = 0 /\ 0 \in 0..n /\ seqs[k] \in Seq(S)
        BY <1>1, <3>1
      <4>2. r[k] = seqs[k] /\ r[k - 1] = <<>>
        BY <2>3, <3>1, <4>1
      <4>3. QED
        BY ONLY <4>1, <4>2
    <3>2. CASE k # 1
      <4>1. k - 1 \in 0..n /\ k - 1 # 0 /\ k \in 0..n /\ k # 0
        BY <1>1, <3>2
      <4>2. QED
        BY <2>3, <3>2, <4>1
    <3>3. QED
      BY <3>1, <3>2
  <2>5. r[0] = <<>> /\ r[n] = FlattenSeq(seqs)
    BY <1>1, <1>3, <2>1
  <2> HIDE DEF r
  <2>6. QED
    BY ONLY <2>4, <2>5
<1>4. QED
  BY <1>2, <1>3

(* What comes before what in a flattened sequence.                                *)
LEMMA FlattenOrder ==
    ASSUME NEW S, NEW seqs \in Seq(Seq(S)), NEW n, n = Len(seqs)
    PROVE  LET f == FlattenSeq(seqs)
           IN  /\ f \in Seq(S)
               /\ \A x : x \in ToSet(f) <=> \E i \in 1..n : x \in ToSet(seqs[i])
               /\ \A x, y : Before(f, x, y) <=>
                     \/ \E i \in 1..n : Before(seqs[i], x, y)
                     \/ \E i, j \in 1..n : i < j /\ x \in ToSet(seqs[i]) /\ y \in ToSet(seqs[j])
               /\ /\ \A i \in 1..n : IsInjective(seqs[i])
                  /\ \A i, j \in 1..n : i < j => \A x \in ToSet(seqs[i]) : x \notin ToSet(seqs[j])
                  => IsInjective(f)
<1>1. n \in Nat /\ \A i \in 1..n : seqs[i] \in Seq(S)
  OBVIOUS
<1>2. PICK r : /\ r[0] = <<>>
               /\ \A k \in 1..n : r[k] = r[k - 1] \o seqs[k]
               /\ r[n] = FlattenSeq(seqs)
  BY FlattenSteps
<1> DEFINE Sound(k) == r[k] \in Seq(S)
           Same(k) == \A x : x \in ToSet(r[k]) <=> \E i \in 1..k : x \in ToSet(seqs[i])
           Order(k) == \A x, y : Before(r[k], x, y) <=>
                     \/ \E i \in 1..k : Before(seqs[i], x, y)
                     \/ \E i, j \in 1..k : i < j /\ x \in ToSet(seqs[i]) /\ y \in ToSet(seqs[j])
           Once(k) ==
                  /\ \A i \in 1..k : IsInjective(seqs[i])
                  /\ \A i, j \in 1..k : i < j => \A x \in ToSet(seqs[i]) : x \notin ToSet(seqs[j])
                  => IsInjective(r[k])
           Done(k) == Sound(k) /\ Same(k) /\ Order(k) /\ Once(k)
           T == {k \in Nat : k > n \/ Done(k)}
<1>3. 0 \in T
  <2>1. r[0] = <<>> /\ 1..0 = {}
    BY <1>2
  <2>2. ToSet(<<>>) = {} /\ IsInjective(<<>>) /\ \A x, y : ~Before(<<>>, x, y)
    BY DEF ToSet, IsInjective, Before
  <2>3. Sound(0) /\ Same(0) /\ Order(0) /\ Once(0)
    BY <2>1, <2>2
  <2>4. QED
    BY <2>3
<1>4. ASSUME NEW k \in Nat, k \in T PROVE k + 1 \in T
  <2> SUFFICES ASSUME k + 1 <= n PROVE Done(k + 1)
    <3> HIDE DEF Done
    <3>1. QED
      BY <1>1
  <2> DEFINE h == k + 1
             s == seqs[h]
  <2>1. Done(k)
    BY <1>1, <1>4
  <2>2. h \in 1..n /\ h - 1 = k /\ h \in 1..h
    BY <1>1
  <2>3. \A i \in 1..h : i \in 1..k \/ i = h
    OBVIOUS
  <2>4. \A i \in 1..k : i \in 1..h /\ i < h
    OBVIOUS
  <2> HIDE DEF h
  <2>5. r[h] = r[k] \o s /\ s \in Seq(S)
    BY ONLY <1>1, <1>2, <2>2
  <2> HIDE DEF s, T
  <2>6. /\ r[k] \o s \in Seq(S)
        /\ \A x : x \in ToSet(r[k] \o s) <=> x \in ToSet(r[k]) \/ x \in ToSet(s)
        /\ \A x, y : Before(r[k] \o s, x, y) <=> \/ Before(r[k], x, y)
                                                 \/ Before(s, x, y)
                                                 \/ x \in ToSet(r[k]) /\ y \in ToSet(s)
        /\ IsInjective(r[k]) /\ IsInjective(s) /\ (\A x \in ToSet(r[k]) : x \notin ToSet(s))
              => IsInjective(r[k] \o s)
    <3>1. r[k] \in Seq(S)
      BY <2>1
    <3> HIDE DEF Done
    <3>2. QED
      BY ONLY <2>5, <3>1, ConcatOrder
  <2>7. Sound(h)
    BY <2>5, <2>6
  <2>8. Same(h)
    BY <2>1, <2>2, <2>3, <2>4, <2>5, <2>6, Zenon DEF s
  <2>9. Order(h)
    <3> SUFFICES ASSUME NEW x, NEW y
                 PROVE  Before(r[h], x, y) <=>
                           \/ \E i \in 1..h : Before(seqs[i], x, y)
                           \/ \E i, j \in 1..h : i < j /\ x \in ToSet(seqs[i])
                                                       /\ y \in ToSet(seqs[j])
      OBVIOUS
    <3>1. ASSUME Before(r[h], x, y)
          PROVE  \/ \E i \in 1..h : Before(seqs[i], x, y)
                 \/ \E i, j \in 1..h : i < j /\ x \in ToSet(seqs[i]) /\ y \in ToSet(seqs[j])
      <4>1. CASE Before(r[k], x, y)
        BY <2>1, <2>4, <4>1
      <4>2. CASE Before(s, x, y)
        BY <2>2, <4>2 DEF s
      <4>3. CASE x \in ToSet(r[k]) /\ y \in ToSet(s)
        <5>1. PICK i \in 1..k : x \in ToSet(seqs[i])
          BY <2>1, <4>3
        <5>2. QED
          BY <2>2, <2>4, <4>3, <5>1 DEF s
      <4>4. QED
        BY <2>5, <2>6, <3>1, <4>1, <4>2, <4>3
    <3>2. ASSUME NEW i \in 1..h, Before(seqs[i], x, y)
          PROVE  Before(r[h], x, y)
      BY <2>1, <2>3, <2>5, <2>6, <3>2 DEF s
    <3>3. ASSUME NEW i \in 1..h, NEW j \in 1..h, i < j,
                 x \in ToSet(seqs[i]), y \in ToSet(seqs[j])
          PROVE  Before(r[h], x, y)
      <4>1. i \in 1..k
        BY <2>2, <3>3 DEF h
      <4>2. CASE j \in 1..k
        BY <2>1, <2>5, <2>6, <3>3, <4>1, <4>2
      <4>3. CASE j = h
        <5>1. x \in ToSet(r[k]) /\ y \in ToSet(s)
          BY <2>1, <3>3, <4>1, <4>3 DEF s
        <5>2. QED
          BY <2>5, <2>6, <5>1
      <4>4. QED
        BY <2>3, <4>2, <4>3
    <3>4. QED
      BY <3>1, <3>2, <3>3
  <2>10. Once(h)
    <3> SUFFICES ASSUME \A i \in 1..h : IsInjective(seqs[i]),
                        \A i, j \in 1..h : i < j =>
                            \A x \in ToSet(seqs[i]) : x \notin ToSet(seqs[j])
                 PROVE  IsInjective(r[h])
      OBVIOUS
    <3>1. IsInjective(r[k]) /\ IsInjective(s)
      BY <2>1, <2>2, <2>4 DEF s
    <3>2. \A x \in ToSet(r[k]) : x \notin ToSet(s)
      BY <2>1, <2>2, <2>4 DEF s
    <3>3. QED
      BY <2>5, <2>6, <3>1, <3>2
  <2>11. QED
    BY <2>7, <2>8, <2>9, <2>10 DEF h
<1>5. n \in T
  <2> HIDE DEF T
  <2>1. QED
    BY <1>1, <1>3, <1>4, Walking!NatSetInduction
<1>6. Done(n)
  BY <1>1, <1>5
<1>7. Sound(n) /\ Same(n) /\ Order(n) /\ Once(n) /\ r[n] = FlattenSeq(seqs)
  BY <1>2, <1>6
<1> DEFINE f == FlattenSeq(seqs)
<1>8. f \in Seq(S)
  BY <1>7
<1>9. \A x : x \in ToSet(f) <=> \E i \in 1..n : x \in ToSet(seqs[i])
  BY <1>7
<1>10. \A x, y : Before(f, x, y) <=>
                     \/ \E i \in 1..n : Before(seqs[i], x, y)
                     \/ \E i, j \in 1..n : i < j /\ x \in ToSet(seqs[i]) /\ y \in ToSet(seqs[j])
  BY <1>7
<1>11. (/\ \A i \in 1..n : IsInjective(seqs[i])
        /\ \A i, j \in 1..n : i < j => \A x \in ToSet(seqs[i]) : x \notin ToSet(seqs[j]))
          => IsInjective(f)
  BY <1>7
<1>12. QED
  BY <1>8, <1>9, <1>10, <1>11

----------------------------------------------------------------------------------
(* Walks                                                                          *)

N == Cardinality(Groups)

(* There is a root, so that there is a walk with a level at least.              *)
LEMMA Bound == N \in Nat /\ N > 0 /\ Root \in Groups /\ None \notin Groups
<1>1. IsFiniteSet(Groups) /\ Root \in Groups
  BY GroupsAssumption
<1>2. N \in Nat
  BY <1>1, FS_CardinalityType DEF N
<1>3. N # 0
  BY <1>1, FS_EmptySet DEF N
<1>4. QED
  BY <1>2, <1>3, GroupsAssumption

NoWalk == [g \in Groups |-> <<>>]

IsGroupsWalk(d, f) ==
    f = [n \in Depth |->
            [g \in Groups |->
                IF n = 0 THEN <<>>
                ELSE Concat(d.group[g].subGroups, LAMBDA s : <<s>> \o f[n - 1][s])]]

IsEntriesWalk(d, f) ==
    f = [n \in Depth |->
            [g \in Groups |->
                IF n = 0 THEN <<>>
                ELSE Concat(d.group[g].subGroups, LAMBDA s : f[n - 1][s])
                         \o d.group[g].entries]]

(* The groups, or the entries, that are found below g on at most n levels.        *)
GroupsBelow(d)  == CHOOSE f : IsGroupsWalk(d, f)
EntriesBelow(d) == CHOOSE f : IsEntriesWalk(d, f)

(* getAllChildren() is a walk of as many levels as there are groups.            *)
LEMMA GroupsWalk ==
    ASSUME NEW d
    PROVE  /\ AllGroups(d) = GroupsBelow(d)[N][Root]
           /\ \A g \in Groups : GroupsBelow(d)[0][g] = <<>>
           /\ \A n \in 1..N, g \in Groups :
                 GroupsBelow(d)[n][g] = GroupsStep(d, GroupsBelow(d)[n - 1], g)
<1> DEFINE seq == [n \in 1..N |-> n]
           walk == [d |-> d, entries |-> FALSE]
           r == Walking!Steps(walk, NoWalk, seq, N)
           f == [n \in 0..N |-> r[n]]
<1>1. DOMAIN seq = 1..N /\ N \in Nat
  BY Bound
<1> HIDE DEF seq
<1>2. /\ r[0] = NoWalk
      /\ \A n \in 1..N : r[n] = [g \in Groups |-> GroupsStep(d, r[n - 1], g)]
  <2>1. walk.d = d /\ walk.entries = FALSE
    OBVIOUS
  <2> HIDE DEF walk
  <2>2. /\ r[0] = NoWalk
        /\ \A n \in 1..N :
              r[n] = [g \in Groups |-> IF walk.entries THEN EntriesStep(walk.d, r[n - 1], g)
                                                       ELSE GroupsStep(walk.d, r[n - 1], g)]
    BY <1>1, Walking!FoldLeftSteps
  <2> HIDE DEF r
  <2>3. QED
    BY <2>1, <2>2
<1> HIDE DEF r
<1>3. ASSUME NEW n \in 0..N
      PROVE  f[n] = [g \in Groups |->
                        IF n = 0 THEN <<>>
                        ELSE Concat(d.group[g].subGroups, LAMBDA s : <<s>> \o f[n - 1][s])]
  <2>1. CASE n = 0
    BY <1>2, <2>1 DEF NoWalk
  <2>2. CASE n # 0
    <3>1. n \in 1..N /\ n - 1 \in 0..N
      BY <1>1, <2>2
    <3>2. f[n] = [g \in Groups |-> GroupsStep(d, f[n - 1], g)]
      BY <1>2, <3>1
    <3>3. QED
      BY <2>2, <3>2 DEF GroupsStep, Concat
  <2>3. QED
    BY <2>1, <2>2
<1>4. IsGroupsWalk(d, f)
  <2>1. f = [n \in 0..N |-> f[n]]
    OBVIOUS
  <2> HIDE DEF f
  <2>2. QED
    BY <1>3, <2>1 DEF IsGroupsWalk, Depth, N
<1>5. IsGroupsWalk(d, GroupsBelow(d))
  BY <1>4 DEF GroupsBelow
<1>6. AllGroups(d) = GroupsBelow(d)[N][Root]
  BY DEF AllGroups, GroupsBelow, IsGroupsWalk, N
<1>7. ASSUME NEW g \in Groups PROVE GroupsBelow(d)[0][g] = <<>>
  <2>1. 0 \in Depth
    BY Bound DEF Depth, N
  <2>2. QED
    BY <1>5, <2>1 DEF IsGroupsWalk
<1>8. ASSUME NEW n \in 1..N, NEW g \in Groups
      PROVE  GroupsBelow(d)[n][g] = GroupsStep(d, GroupsBelow(d)[n - 1], g)
  <2>1. n \in Depth /\ n # 0
    BY Bound DEF Depth, N
  <2> DEFINE b == GroupsBelow(d)
  <2>2. IsGroupsWalk(d, b)
    BY <1>5
  <2> HIDE DEF b
  <2>3. \A k \in Depth : b[k] = [h \in Groups |->
                IF k = 0 THEN <<>> ELSE GroupsStep(d, b[k - 1], h)]
    BY <2>2 DEF IsGroupsWalk, GroupsStep, Concat
  <2>4. b[n][g] = GroupsStep(d, b[n - 1], g)
    BY <2>1, <2>3
  <2>5. QED
    BY <2>4 DEF b
<1>9. QED
  BY <1>6, <1>7, <1>8

(* ... and so is the one that gathers the entries.                              *)
LEMMA EntriesWalk ==
    ASSUME NEW d, NEW h \in Groups
    PROVE  /\ AllEntriesBelow(d, h) = EntriesBelow(d)[N][h]
           /\ \A g \in Groups : EntriesBelow(d)[0][g] = <<>>
           /\ \A n \in 1..N, g \in Groups :
                 EntriesBelow(d)[n][g] = EntriesStep(d, EntriesBelow(d)[n - 1], g)
<1> DEFINE seq == [n \in 1..N |-> n]
           walk == [d |-> d, entries |-> TRUE]
           r == Walking!Steps(walk, NoWalk, seq, N)
           f == [n \in 0..N |-> r[n]]
<1>1. DOMAIN seq = 1..N /\ N \in Nat
  BY Bound
<1> HIDE DEF seq
<1>2. /\ r[0] = NoWalk
      /\ \A n \in 1..N : r[n] = [g \in Groups |-> EntriesStep(d, r[n - 1], g)]
  <2>1. walk.d = d /\ walk.entries = TRUE
    OBVIOUS
  <2> HIDE DEF walk
  <2>2. /\ r[0] = NoWalk
        /\ \A n \in 1..N :
              r[n] = [g \in Groups |-> IF walk.entries THEN EntriesStep(walk.d, r[n - 1], g)
                                                       ELSE GroupsStep(walk.d, r[n - 1], g)]
    BY <1>1, Walking!FoldLeftSteps
  <2> HIDE DEF r
  <2>3. QED
    BY <2>1, <2>2
<1> HIDE DEF r
<1>3. ASSUME NEW n \in 0..N
      PROVE  f[n] = [g \in Groups |->
                        IF n = 0 THEN <<>>
                        ELSE Concat(d.group[g].subGroups, LAMBDA s : f[n - 1][s])
                                 \o d.group[g].entries]
  <2>1. CASE n = 0
    BY <1>2, <2>1 DEF NoWalk
  <2>2. CASE n # 0
    <3>1. n \in 1..N /\ n - 1 \in 0..N
      BY <1>1, <2>2
    <3>2. f[n] = [g \in Groups |-> EntriesStep(d, f[n - 1], g)]
      BY <1>2, <3>1
    <3>3. QED
      BY <2>2, <3>2 DEF EntriesStep, Concat
  <2>3. QED
    BY <2>1, <2>2
<1>4. IsEntriesWalk(d, f)
  <2>1. f = [n \in 0..N |-> f[n]]
    OBVIOUS
  <2> HIDE DEF f
  <2>2. QED
    BY <1>3, <2>1 DEF IsEntriesWalk, Depth, N
<1>5. IsEntriesWalk(d, EntriesBelow(d))
  BY <1>4 DEF EntriesBelow
<1>6. AllEntriesBelow(d, h) = EntriesBelow(d)[N][h]
  BY DEF AllEntriesBelow, EntriesBelow, IsEntriesWalk, N
<1>7. ASSUME NEW g \in Groups PROVE EntriesBelow(d)[0][g] = <<>>
  <2>1. 0 \in Depth
    BY Bound DEF Depth, N
  <2>2. QED
    BY <1>5, <2>1 DEF IsEntriesWalk
<1>8. ASSUME NEW n \in 1..N, NEW g \in Groups
      PROVE  EntriesBelow(d)[n][g] = EntriesStep(d, EntriesBelow(d)[n - 1], g)
  <2>1. n \in Depth /\ n # 0
    BY Bound DEF Depth, N
  <2> DEFINE b == EntriesBelow(d)
  <2>2. IsEntriesWalk(d, b)
    BY <1>5
  <2> HIDE DEF b
  <2>3. \A k \in Depth : b[k] = [x \in Groups |->
                IF k = 0 THEN <<>> ELSE EntriesStep(d, b[k - 1], x)]
    BY <2>2 DEF IsEntriesWalk, EntriesStep, Concat
  <2>4. b[n][g] = EntriesStep(d, b[n - 1], g)
    BY <2>1, <2>3
  <2>5. QED
    BY <2>4 DEF b
<1>9. QED
  BY <1>6, <1>7, <1>8

(* A group and what a walk finds below it.                                        *)
Under(b, g) == {g} \cup ToSet(b[g])

(* A sequence of one member.                                                    *)
LEMMA OneInSeq ==
    ASSUME NEW x
    PROVE  /\ ToSet(<<x>>) = {x} /\ IsInjective(<<x>>)
           /\ \A y, z : ~Before(<<x>>, y, z)
<1>1. <<x>> = [i \in 1..1 |-> x]
  OBVIOUS
<1>2. DOMAIN <<x>> = {1} /\ <<x>>[1] = x
  OBVIOUS
<1>3. QED
  BY ONLY <1>2 DEF ToSet, IsInjective, Before

(* One step of the walk over the groups.                                          *)
LEMMA GroupsStepOrder ==
    ASSUME NEW d, NEW g \in Groups, NEW sub \in Seq(Groups), sub = d.group[g].subGroups,
           NEW b, \A s \in Groups : b[s] \in Seq(Groups)
    PROVE  LET f == GroupsStep(d, b, g)
           IN  /\ f \in Seq(Groups)
               /\ \A x : x \in ToSet(f) <=> \E s \in ToSet(sub) : x \in Under(b, s)
               /\ \A x, y : Before(f, x, y) <=>
                     \/ \E s \in ToSet(sub) : (x = s /\ y \in ToSet(b[s])) \/ Before(b[s], x, y)
                     \/ \E s, t \in ToSet(sub) : /\ Before(sub, s, t)
                                                 /\ x \in Under(b, s) /\ y \in Under(b, t)
               /\ /\ \A s \in ToSet(sub) : IsInjective(b[s]) /\ s \notin ToSet(b[s])
                  /\ \A s, t \in ToSet(sub) :
                        Before(sub, s, t) => \A x \in Under(b, s) : x \notin Under(b, t)
                  => IsInjective(f)
<1> DEFINE seqs == [i \in DOMAIN sub |-> <<sub[i]>> \o b[sub[i]]]
           n == Len(sub)
<1>1. n \in Nat /\ DOMAIN sub = 1..n /\ \A i \in 1..n : sub[i] \in Groups
  OBVIOUS
<1>2. GroupsStep(d, b, g) = FlattenSeq(seqs)
  BY DEF GroupsStep
<1>3. ASSUME NEW i \in 1..n
      PROVE  /\ seqs[i] \in Seq(Groups)
             /\ \A x : x \in ToSet(seqs[i]) <=> x \in Under(b, sub[i])
             /\ \A x, y : Before(seqs[i], x, y) <=>
                             (x = sub[i] /\ y \in ToSet(b[sub[i]])) \/ Before(b[sub[i]], x, y)
             /\ IsInjective(b[sub[i]]) /\ sub[i] \notin ToSet(b[sub[i]]) => IsInjective(seqs[i])
  <2> DEFINE s == sub[i]
             one == <<s>>
             two == b[s]
  <2>1. s \in Groups /\ one \in Seq(Groups) /\ two \in Seq(Groups) /\ seqs[i] = one \o two
    <3>1. i \in DOMAIN sub /\ s \in Groups
      BY <1>1
    <3>2. seqs[i] = one \o two
      BY ONLY <3>1
    <3>3. one \in Seq(Groups)
      BY ONLY <3>1
    <3>4. two \in Seq(Groups)
      BY <3>1
    <3>5. QED
      BY ONLY <3>1, <3>2, <3>3, <3>4
  <2>2. ToSet(one) = {s} /\ IsInjective(one) /\ \A x, y : ~Before(one, x, y)
    BY OneInSeq
  <2> HIDE DEF one, two, s
  <2>3. /\ one \o two \in Seq(Groups)
        /\ \A x : x \in ToSet(one \o two) <=> x \in ToSet(one) \/ x \in ToSet(two)
        /\ \A x, y : Before(one \o two, x, y) <=> \/ Before(one, x, y)
                                                  \/ Before(two, x, y)
                                                  \/ x \in ToSet(one) /\ y \in ToSet(two)
        /\ IsInjective(one) /\ IsInjective(two) /\ (\A x \in ToSet(one) : x \notin ToSet(two))
              => IsInjective(one \o two)
    BY ONLY <2>1, ConcatOrder
  <2> HIDE DEF seqs
  <2>4. /\ one \o two \in Seq(Groups)
        /\ \A x : x \in ToSet(one \o two) <=> x \in {s} \cup ToSet(two)
        /\ \A x, y : Before(one \o two, x, y) <=>
                        (x = s /\ y \in ToSet(two)) \/ Before(two, x, y)
        /\ IsInjective(two) /\ s \notin ToSet(two) => IsInjective(one \o two)
    BY ONLY <2>2, <2>3
  <2>5. QED
    BY ONLY <2>1, <2>4 DEF s, two, Under
<1>4. seqs \in Seq(Seq(Groups)) /\ Len(seqs) = n
  <2>1. seqs \in [1..n -> Seq(Groups)]
    BY <1>1, <1>3
  <2> HIDE DEF seqs
  <2>2. QED
    BY <1>1, <2>1
<1> HIDE DEF seqs, n
<1> DEFINE f == FlattenSeq(seqs)
<1>5. /\ f \in Seq(Groups)
      /\ \A x : x \in ToSet(f) <=> \E i \in 1..n : x \in ToSet(seqs[i])
      /\ \A x, y : Before(f, x, y) <=>
            \/ \E i \in 1..n : Before(seqs[i], x, y)
            \/ \E i, j \in 1..n : i < j /\ x \in ToSet(seqs[i]) /\ y \in ToSet(seqs[j])
      /\ /\ \A i \in 1..n : IsInjective(seqs[i])
         /\ \A i, j \in 1..n : i < j => \A x \in ToSet(seqs[i]) : x \notin ToSet(seqs[j])
         => IsInjective(f)
  BY ONLY <1>4, FlattenOrder
<1> HIDE DEF f
<1>6. \A s : s \in ToSet(sub) <=> \E i \in 1..n : s = sub[i]
  BY <1>1 DEF ToSet
<1>7. \A s, t : Before(sub, s, t) <=> \E i, j \in 1..n : i < j /\ s = sub[i] /\ t = sub[j]
  BY <1>1 DEF Before
<1>8. \A x : x \in ToSet(f) <=> \E s \in ToSet(sub) : x \in Under(b, s)
  BY ONLY <1>3, <1>5, <1>6, Zenon
<1>9. ASSUME NEW x, NEW y
      PROVE  Before(f, x, y) <=>
                \/ \E s \in ToSet(sub) : (x = s /\ y \in ToSet(b[s])) \/ Before(b[s], x, y)
                \/ \E s, t \in ToSet(sub) : /\ Before(sub, s, t)
                                            /\ x \in Under(b, s) /\ y \in Under(b, t)
  <2>1. (\E i \in 1..n : Before(seqs[i], x, y)) <=>
            \E s \in ToSet(sub) : (x = s /\ y \in ToSet(b[s])) \/ Before(b[s], x, y)
    <3>1. \A i \in 1..n : Before(seqs[i], x, y) <=>
             (x = sub[i] /\ y \in ToSet(b[sub[i]])) \/ Before(b[sub[i]], x, y)
      BY ONLY <1>3
    <3>2. QED
      BY ONLY <1>6, <3>1
  <2>2. ASSUME NEW i \in 1..n, NEW j \in 1..n, i < j,
               x \in ToSet(seqs[i]), y \in ToSet(seqs[j])
        PROVE  \E s, t \in ToSet(sub) : /\ Before(sub, s, t)
                                        /\ x \in Under(b, s) /\ y \in Under(b, t)
    <3>1. sub[i] \in ToSet(sub) /\ sub[j] \in ToSet(sub) /\ Before(sub, sub[i], sub[j])
      BY ONLY <1>6, <1>7, <2>2
    <3>2. x \in Under(b, sub[i]) /\ y \in Under(b, sub[j])
      BY ONLY <1>3, <2>2
    <3>3. QED
      BY ONLY <3>1, <3>2
  <2>3. ASSUME NEW s \in ToSet(sub), NEW t \in ToSet(sub), Before(sub, s, t),
               x \in Under(b, s), y \in Under(b, t)
        PROVE  \E i, j \in 1..n : i < j /\ x \in ToSet(seqs[i]) /\ y \in ToSet(seqs[j])
    <3>1. PICK i \in 1..n, j \in 1..n : i < j /\ s = sub[i] /\ t = sub[j]
      BY ONLY <1>7, <2>3
    <3>2. QED
      BY ONLY <1>3, <2>3, <3>1
  <2>4. (\E i, j \in 1..n : i < j /\ x \in ToSet(seqs[i]) /\ y \in ToSet(seqs[j])) <=>
            \E s, t \in ToSet(sub) : /\ Before(sub, s, t)
                                      /\ x \in Under(b, s) /\ y \in Under(b, t)
    BY ONLY <2>2, <2>3
  <2>5. QED
    BY ONLY <1>5, <2>1, <2>4
<1>10. ASSUME \A s \in ToSet(sub) : IsInjective(b[s]) /\ s \notin ToSet(b[s]),
              \A s, t \in ToSet(sub) :
                 Before(sub, s, t) => \A x \in Under(b, s) : x \notin Under(b, t)
       PROVE  IsInjective(f)
  <2>1. \A i \in 1..n : IsInjective(seqs[i])
    BY ONLY <1>3, <1>6, <1>10
  <2>2. \A i, j \in 1..n : i < j => \A x \in ToSet(seqs[i]) : x \notin ToSet(seqs[j])
    BY ONLY <1>3, <1>6, <1>7, <1>10
  <2>3. QED
    BY ONLY <1>5, <2>1, <2>2
<1>11. QED
  BY ONLY <1>2, <1>5, <1>8, <1>9, <1>10 DEF f

(* One step of the walk over the entries.                                         *)
Gathers(f, sub, ents, b) ==
    /\ f \in Seq(Entries)
    /\ \A x : x \in ToSet(f) <=> (\E s \in ToSet(sub) : x \in ToSet(b[s])) \/ x \in ToSet(ents)
    /\ \A x, y : Before(ents, x, y) => Before(f, x, y)
    /\ \A x, y, s : s \in ToSet(sub) /\ Before(b[s], x, y) => Before(f, x, y)
    /\ /\ IsInjective(ents) /\ \A s \in ToSet(sub) : IsInjective(b[s])
       /\ \A s \in ToSet(sub) : \A x \in ToSet(b[s]) : x \notin ToSet(ents)
       /\ \A s, t \in ToSet(sub) :
             Before(sub, s, t) => \A x \in ToSet(b[s]) : x \notin ToSet(b[t])
       => IsInjective(f)

(* A level of the walk gathers the entries below, and those of the group, in    *)
(* order.                                                                       *)
LEMMA EntriesStepOrder ==
    ASSUME NEW d, NEW g \in Groups, NEW sub \in Seq(Groups), sub = d.group[g].subGroups,
           NEW ents \in Seq(Entries), ents = d.group[g].entries,
           NEW b, \A s \in Groups : b[s] \in Seq(Entries)
    PROVE  Gathers(EntriesStep(d, b, g), sub, ents, b)
<1> DEFINE seqs == [i \in DOMAIN sub |-> b[sub[i]]]
           n == Len(sub)
<1>1. n \in Nat /\ DOMAIN sub = 1..n /\ \A i \in 1..n : sub[i] \in Groups
  OBVIOUS
<1>2. EntriesStep(d, b, g) = FlattenSeq(seqs) \o ents
  BY DEF EntriesStep
<1>3. \A i \in 1..n : seqs[i] = b[sub[i]] /\ seqs[i] \in Seq(Entries)
  BY <1>1
<1>4. seqs \in Seq(Seq(Entries)) /\ Len(seqs) = n
  <2>1. seqs \in [1..n -> Seq(Entries)]
    BY <1>1, <1>3
  <2> HIDE DEF seqs
  <2>2. QED
    BY <1>1, <2>1
<1> HIDE DEF seqs, n
<1> DEFINE f == FlattenSeq(seqs)
<1>5. /\ f \in Seq(Entries)
      /\ \A x : x \in ToSet(f) <=> \E i \in 1..n : x \in ToSet(seqs[i])
      /\ \A x, y : Before(f, x, y) <=>
            \/ \E i \in 1..n : Before(seqs[i], x, y)
            \/ \E i, j \in 1..n : i < j /\ x \in ToSet(seqs[i]) /\ y \in ToSet(seqs[j])
      /\ /\ \A i \in 1..n : IsInjective(seqs[i])
         /\ \A i, j \in 1..n : i < j => \A x \in ToSet(seqs[i]) : x \notin ToSet(seqs[j])
         => IsInjective(f)
  BY ONLY <1>4, FlattenOrder
<1> HIDE DEF f
<1>6. \A s : s \in ToSet(sub) <=> \E i \in 1..n : s = sub[i]
  BY <1>1 DEF ToSet
<1>7. \A s, t : Before(sub, s, t) <=> \E i, j \in 1..n : i < j /\ s = sub[i] /\ t = sub[j]
  BY <1>1 DEF Before
<1>8. \A x : x \in ToSet(f) <=> \E s \in ToSet(sub) : x \in ToSet(b[s])
  <2>1. \A i \in 1..n : \A x : x \in ToSet(seqs[i]) <=> x \in ToSet(b[sub[i]])
    BY ONLY <1>3
  <2>2. \A x : x \in ToSet(f) <=> \E i \in 1..n : x \in ToSet(seqs[i])
    BY ONLY <1>5
  <2>3. ASSUME NEW x, NEW i \in 1..n, x \in ToSet(seqs[i])
        PROVE  \E s \in ToSet(sub) : x \in ToSet(b[s])
    BY ONLY <1>6, <2>1, <2>3
  <2>4. ASSUME NEW x, NEW s \in ToSet(sub), x \in ToSet(b[s])
        PROVE  \E i \in 1..n : x \in ToSet(seqs[i])
    BY ONLY <1>6, <2>1, <2>4
  <2>5. QED
    BY ONLY <2>2, <2>3, <2>4
<1>9. \A x, y, s : s \in ToSet(sub) /\ Before(b[s], x, y) => Before(f, x, y)
  BY ONLY <1>3, <1>5, <1>6
<1>10. ASSUME \A s \in ToSet(sub) : IsInjective(b[s]),
              \A s, t \in ToSet(sub) :
                 Before(sub, s, t) => \A x \in ToSet(b[s]) : x \notin ToSet(b[t])
       PROVE  IsInjective(f)
  <2>1. \A i \in 1..n : IsInjective(seqs[i])
    BY ONLY <1>3, <1>6, <1>10
  <2>2. ASSUME NEW i \in 1..n, NEW j \in 1..n, i < j
        PROVE  \A x \in ToSet(seqs[i]) : x \notin ToSet(seqs[j])
    <3>1. Before(sub, sub[i], sub[j]) /\ sub[i] \in ToSet(sub) /\ sub[j] \in ToSet(sub)
      BY ONLY <1>6, <1>7, <2>2
    <3>2. seqs[i] = b[sub[i]] /\ seqs[j] = b[sub[j]]
      BY ONLY <1>3, <2>2
    <3>3. QED
      BY ONLY <1>10, <3>1, <3>2
  <2>3. QED
    BY ONLY <1>5, <2>1, <2>2
<1>11. /\ f \o ents \in Seq(Entries)
       /\ \A x : x \in ToSet(f \o ents) <=> x \in ToSet(f) \/ x \in ToSet(ents)
       /\ \A x, y : Before(f \o ents, x, y) <=> \/ Before(f, x, y)
                                                \/ Before(ents, x, y)
                                                \/ x \in ToSet(f) /\ y \in ToSet(ents)
       /\ IsInjective(f) /\ IsInjective(ents) /\ (\A x \in ToSet(f) : x \notin ToSet(ents))
             => IsInjective(f \o ents)
  BY ONLY <1>5, ents \in Seq(Entries), ConcatOrder
<1>12. EntriesStep(d, b, g) = f \o ents
  BY <1>2 DEF f
<1>13. QED
  BY ONLY <1>8, <1>9, <1>10, <1>11, <1>12 DEF Gathers

----------------------------------------------------------------------------------
(* What the walks find                                                            *)

Kids(d, p) == ToSet(d.group[p].subGroups)

(* The lists of subgroups make trees with these levels.                           *)
Forest(d, level) ==
    /\ level \in [Groups -> Int]
    /\ \A p \in Groups : /\ d.group[p].subGroups \in Seq(Groups)
                         /\ IsInjective(d.group[p].subGroups)
                         /\ \A g \in Kids(d, p) : level[g] = level[p] + 1
    /\ \A p, q \in Groups : p # q => Kids(d, p) \cap Kids(d, q) = {}

(* Subgroups are groups.                                                        *)
LEMMA KidsAreGroups ==
    ASSUME NEW d, NEW level, Forest(d, level), NEW p \in Groups
    PROVE  Kids(d, p) \subseteq Groups
BY DEF Forest, Kids, ToSet

(* The next walk from all of the groups.                                          *)
LEMMA WalkOn ==
    ASSUME NEW d, NEW level, Forest(d, level), NEW n \in 0..N, NEW g \in Groups
    PROVE  /\ GroupsBelow(d)[n][g] \in Seq(Groups)
           /\ n > 0 => \A x : x \in ToSet(GroupsBelow(d)[n][g]) <=>
                              \E s \in Kids(d, g) : x \in Under(GroupsBelow(d)[n - 1], s)
<1> DEFINE B == GroupsBelow(d)
           Done(m) == \A h \in Groups : B[m][h] \in Seq(Groups)
           T == {m \in Nat : m > N \/ Done(m)}
<1>1. \A h \in Groups : B[0][h] = <<>>
  BY GroupsWalk
<1>2. \A m \in 1..N, h \in Groups : B[m][h] = GroupsStep(d, B[m - 1], h)
  BY GroupsWalk
<1> HIDE DEF B
<1>3. ASSUME NEW m \in 1..N, Done(m - 1), NEW h \in Groups
      PROVE  /\ B[m][h] \in Seq(Groups)
             /\ \A x : x \in ToSet(B[m][h]) <=> \E s \in Kids(d, h) : x \in Under(B[m - 1], s)
  <2> DEFINE sub == d.group[h].subGroups
             b == B[m - 1]
  <2>1. sub \in Seq(Groups)
    BY DEF Forest
  <2>2. B[m][h] = GroupsStep(d, b, h) /\ \A s \in Groups : b[s] \in Seq(Groups)
    BY <1>2, <1>3
  <2> HIDE DEF b
  <2>3. /\ GroupsStep(d, b, h) \in Seq(Groups)
        /\ \A x : x \in ToSet(GroupsStep(d, b, h)) <=> \E s \in ToSet(sub) : x \in Under(b, s)
    BY <2>1, <2>2, GroupsStepOrder
  <2>4. QED
    BY <2>2, <2>3 DEF Kids, b
<1>4. 0 \in T
  <2>1. <<>> \in Seq(Groups)
    OBVIOUS
  <2>2. Done(0)
    BY <1>1, <2>1
  <2> HIDE DEF Done
  <2>3. QED
    BY <2>2
<1>5. ASSUME NEW m \in Nat, m \in T PROVE m + 1 \in T
  <2> SUFFICES ASSUME m + 1 <= N PROVE Done(m + 1)
    <3> HIDE DEF Done
    <3>1. QED
      BY Bound
  <2> DEFINE k == m + 1
  <2>1. k \in 1..N /\ k - 1 = m
    BY Bound
  <2>2. Done(m)
    <3> HIDE DEF Done
    <3>1. QED
      BY <1>5, Bound
  <2> HIDE DEF T, k
  <2>3. Done(k - 1)
    BY <2>1, <2>2
  <2>4. Done(k)
    BY <1>3, <2>1, <2>3
  <2>5. QED
    BY <2>4 DEF k
<1>6. Nat \subseteq T
  <2> HIDE DEF T
  <2>1. QED
    BY <1>4, <1>5, Walking!NatSetInduction
<1>7. \A m \in 0..N : Done(m)
  BY <1>6, Bound
<1>8. n > 0 => n \in 1..N /\ n - 1 \in 0..N
  BY Bound
<1> HIDE DEF Done, T
<1>9. \A h \in Groups : B[n][h] \in Seq(Groups)
  BY <1>7 DEF Done
<1>10. QED
  BY <1>3, <1>7, <1>8, <1>9 DEF B

(* The levels of what is found, and that it is closed.                            *)
LEMMA WalkLevels ==
    ASSUME NEW d, NEW level, Forest(d, level), NEW n \in 0..N, NEW g \in Groups
    PROVE  /\ \A x \in ToSet(GroupsBelow(d)[n][g]) :
                 /\ x \in Groups /\ level[g] < level[x] /\ level[x] <= level[g] + n
                 /\ \E p \in Under(GroupsBelow(d)[n], g) : x \in Kids(d, p)
           /\ \A y \in Under(GroupsBelow(d)[n], g) : \A x \in Kids(d, y) :
                 level[x] <= level[g] + n => x \in ToSet(GroupsBelow(d)[n][g])
<1> DEFINE B == GroupsBelow(d)
           Up(m) == \A h \in Groups : \A x \in ToSet(B[m][h]) :
                       /\ x \in Groups /\ level[h] < level[x] /\ level[x] <= level[h] + m
                       /\ \E p \in Under(B[m], h) : x \in Kids(d, p)
           Down(m) == \A h \in Groups : \A y \in Under(B[m], h) : \A x \in Kids(d, y) :
                         level[x] <= level[h] + m => x \in ToSet(B[m][h])
           T == {m \in Nat : m > N \/ (Up(m) /\ Down(m))}
<1>1. \A h \in Groups : B[0][h] = <<>>
  BY GroupsWalk
<1>2. \A m \in 1..N, h \in Groups : \A x : x \in ToSet(B[m][h]) <=>
                                       \E s \in Kids(d, h) : x \in Under(B[m - 1], s)
  <2> SUFFICES ASSUME NEW m \in 1..N, NEW h \in Groups
               PROVE  \A x : x \in ToSet(B[m][h]) <=>
                                 \E s \in Kids(d, h) : x \in Under(B[m - 1], s)
    OBVIOUS
  <2>1. m \in 0..N /\ m > 0
    BY Bound
  <2>2. QED
    BY <2>1, WalkOn
<1>3. \A h \in Groups : /\ level[h] \in Int /\ Kids(d, h) \subseteq Groups
                        /\ \A s \in Kids(d, h) : level[s] = level[h] + 1
  BY KidsAreGroups DEF Forest
<1> HIDE DEF B
<1>4. 0 \in T
  <2>1. ToSet(<<>>) = {}
    BY DEF ToSet
  <2>2. Up(0)
    BY <1>1, <2>1
  <2>3. Down(0)
    <3> SUFFICES ASSUME NEW h \in Groups, NEW y \in Under(B[0], h), NEW x \in Kids(d, y),
                        level[x] <= level[h] + 0
                 PROVE  FALSE
      OBVIOUS
    <3>1. y = h
      BY <1>1, <2>1 DEF Under
    <3>2. QED
      BY <1>3, <3>1
  <2> HIDE DEF Up, Down
  <2>4. QED
    BY <2>2, <2>3
<1>5. ASSUME NEW m \in 1..N, Up(m - 1), Down(m - 1) PROVE Up(m) /\ Down(m)
  <2> DEFINE b == B[m - 1]
             c == B[m]
  <2>1. \A h \in Groups : \A x : x \in ToSet(c[h]) <=> \E s \in Kids(d, h) : x \in Under(b, s)
    BY <1>2
  <2>2. \A h \in Groups : \A x \in ToSet(b[h]) :
           /\ x \in Groups /\ level[h] < level[x] /\ level[x] <= level[h] + (m - 1)
           /\ \E p \in Under(b, h) : x \in Kids(d, p)
    BY <1>5
  <2>3. \A h \in Groups : \A y \in Under(b, h) : \A x \in Kids(d, y) :
           level[x] <= level[h] + (m - 1) => x \in ToSet(b[h])
    BY <1>5
  <2> HIDE DEF b, c
  <2>4. ASSUME NEW h \in Groups, NEW x \in ToSet(c[h])
        PROVE  /\ x \in Groups /\ level[h] < level[x] /\ level[x] <= level[h] + m
               /\ \E p \in Under(c, h) : x \in Kids(d, p)
    <3>1. PICK s \in Kids(d, h) : x \in Under(b, s)
      BY <2>1, <2>4
    <3>2. s \in Groups /\ level[s] = level[h] + 1 /\ level[h] \in Int /\ m \in Int
      BY <1>3
    <3>3. CASE x = s
      BY <3>2, <3>3 DEF Under
    <3>4. CASE x \in ToSet(b[s])
      <4>1. x \in Groups /\ level[s] < level[x] /\ level[x] <= level[s] + (m - 1)
        BY <2>2, <3>2, <3>4
      <4>2. PICK p \in Under(b, s) : x \in Kids(d, p)
        BY <2>2, <3>2, <3>4
      <4>3. p \in ToSet(c[h])
        BY <2>1, <4>2
      <4>4. level[x] \in Int
        BY <1>3, <4>1
      <4>5. QED
        BY <3>2, <4>1, <4>2, <4>3, <4>4 DEF Under
    <3>5. QED
      BY <3>1, <3>3, <3>4 DEF Under
  <2>5. ASSUME NEW h \in Groups, NEW y \in Under(c, h), NEW x \in Kids(d, y),
               level[x] <= level[h] + m
        PROVE  x \in ToSet(c[h])
    <3>1. CASE y = h
      BY <2>1, <3>1 DEF Under
    <3>2. CASE y \in ToSet(c[h])
      <4>1. PICK s \in Kids(d, h) : y \in Under(b, s)
        BY <2>1, <3>2
      <4>2. s \in Groups /\ level[s] = level[h] + 1 /\ level[h] \in Int /\ m \in Int
        BY <1>3
      <4>3. level[x] <= level[s] + (m - 1)
        BY <2>5, <4>2
      <4>4. x \in ToSet(b[s])
        BY <2>3, <4>1, <4>2, <4>3
      <4>5. QED
        BY <2>1, <4>4 DEF Under
    <3>3. QED
      BY <2>5, <3>1, <3>2 DEF Under
  <2>6. QED
    BY <2>4, <2>5 DEF c
<1>6. ASSUME NEW m \in Nat, m \in T PROVE m + 1 \in T
  <2> SUFFICES ASSUME m + 1 <= N PROVE Up(m + 1) /\ Down(m + 1)
    <3> HIDE DEF Up, Down
    <3>1. QED
      BY Bound
  <2> DEFINE k == m + 1
  <2>1. k \in 1..N /\ k - 1 = m
    BY Bound
  <2>2. Up(m) /\ Down(m)
    <3> HIDE DEF Up, Down
    <3>1. QED
      BY <1>6, Bound
  <2> HIDE DEF T, k
  <2>3. Up(k - 1) /\ Down(k - 1)
    BY <2>1, <2>2
  <2> HIDE DEF Up, Down
  <2>4. Up(k) /\ Down(k)
    BY <1>5, <2>1, <2>3
  <2>5. QED
    BY <2>4 DEF k
<1>7. Nat \subseteq T
  <2> HIDE DEF T
  <2>1. QED
    BY <1>4, <1>6, Walking!NatSetInduction
<1>8. Up(n) /\ Down(n)
  <2> HIDE DEF Up, Down
  <2>1. QED
    BY <1>7, Bound
<1>9. QED
  BY <1>8 DEF B

(* Levels that are all taken are at most as many as there are groups.             *)
LEMMA FilledLevels ==
    ASSUME NEW level \in [Groups -> Int], NEW a \in Int, NEW b \in Int,
           \A j \in a..b : \E h \in Groups : level[h] = j
    PROVE  b - a < N
<1> DEFINE f == [j \in a..b |-> CHOOSE h \in Groups : level[h] = j]
<1>1. \A j \in a..b : f[j] \in Groups /\ level[f[j]] = j
  OBVIOUS
<1>2. f \in Injection(a..b, Groups)
  <2>1. f \in [a..b -> Groups]
    BY <1>1
  <2> HIDE DEF f
  <2>2. \A i, j \in a..b : f[i] = f[j] => i = j
    BY <1>1
  <2>3. QED
    BY <2>1, <2>2 DEF Injection, IsInjective
<1>3. Cardinality(a..b) <= N
  BY <1>2, FS_Injection, GroupsAssumption DEF N
<1>4. Cardinality(a..b) = IF a > b THEN 0 ELSE b - a + 1
  BY FS_Interval
<1> HIDE DEF f
<1>5. QED
  BY <1>3, <1>4, Bound

(* From a group down to what is found below it, no level is left out.             *)
LEMMA WalkFillsLevels ==
    ASSUME NEW d, NEW level, Forest(d, level), NEW n \in 0..N, NEW g \in Groups,
           NEW y \in Under(GroupsBelow(d)[n], g)
    PROVE  /\ y \in Groups /\ level[y] \in Int /\ level[g] \in Int /\ level[g] <= level[y]
           /\ \A j \in level[g]..level[y] : \E h \in Groups : level[h] = j
<1> DEFINE U == Under(GroupsBelow(d)[n], g)
           Filled(z) == \A j \in level[g]..level[z] : \E h \in Groups : level[h] = j
           T == {k \in Nat : \A z \in U : level[z] = level[g] + k => Filled(z)}
<1>1. \A h \in Groups : /\ level[h] \in Int /\ Kids(d, h) \subseteq Groups
                        /\ \A s \in Kids(d, h) : level[s] = level[h] + 1
  BY KidsAreGroups DEF Forest
<1>2. \A z \in U : z \in Groups /\ (z = g \/ level[g] < level[z])
  BY WalkLevels DEF Under
<1>3. \A z \in U : z # g => \E p \in U : z \in Kids(d, p)
  BY WalkLevels DEF Under
<1> HIDE DEF U
<1>4. 0 \in T
  <2>1. \A z \in U : level[z] = level[g] + 0 => Filled(z)
    BY <1>1, <1>2
  <2>2. QED
    BY <2>1
<1>5. ASSUME NEW k \in Nat, k \in T PROVE k + 1 \in T
  <2> SUFFICES ASSUME NEW z \in U, level[z] = level[g] + (k + 1) PROVE Filled(z)
    OBVIOUS
  <2>1. z # g
    BY <1>1
  <2>2. PICK p \in U : z \in Kids(d, p)
    BY <1>3, <2>1
  <2>3. level[p] = level[g] + k /\ level[z] = level[p] + 1 /\ level[p] \in Int /\ z \in Groups
    BY <1>1, <1>2, <2>2
  <2>4. Filled(p)
    BY <1>5, <2>3
  <2>5. \A j \in level[g]..level[z] : j \in level[g]..level[p] \/ j = level[z]
    BY <1>1, <2>3
  <2>6. QED
    BY <2>3, <2>4, <2>5
<1>6. Nat \subseteq T
  <2> HIDE DEF T
  <2>1. QED
    BY <1>4, <1>5, Walking!NatSetInduction
<1>7. y \in U
  BY DEF U
<1>8. level[g] <= level[y] /\ level[y] - level[g] \in Nat /\ level[y] \in Int /\ level[g] \in Int
  BY <1>1, <1>2, <1>7
<1>9. level[y] = level[g] + (level[y] - level[g])
  BY <1>8
<1>10. Filled(y)
  BY <1>6, <1>7, <1>8, <1>9
<1>11. QED
  BY <1>2, <1>7, <1>8, <1>10

(* What is found on as many levels as there are groups is all there is.           *)
LEMMA WalkClosed ==
    ASSUME NEW d, NEW level, Forest(d, level), NEW n \in {N - 1, N}, NEW g \in Groups,
           NEW y \in Under(GroupsBelow(d)[n], g), NEW x \in Kids(d, y)
    PROVE  x \in ToSet(GroupsBelow(d)[n][g])
<1>1. n \in 0..N
  BY Bound
<1>2. \A h \in Groups : /\ level[h] \in Int /\ Kids(d, h) \subseteq Groups
                        /\ \A s \in Kids(d, h) : level[s] = level[h] + 1
  BY KidsAreGroups DEF Forest
<1>3. /\ y \in Groups /\ level[y] \in Int /\ level[g] \in Int
      /\ \A j \in level[g]..level[y] : \E h \in Groups : level[h] = j
  BY <1>1, WalkFillsLevels
<1>4. level[x] = level[y] + 1 /\ x \in Groups /\ level \in [Groups -> Int]
  BY <1>2, <1>3 DEF Forest
<1>5. \A j \in level[g]..level[x] : \E h \in Groups : level[h] = j
  <2>1. \A j \in level[g]..level[x] : j \in level[g]..level[y] \/ j = level[x]
    BY <1>3, <1>4
  <2>2. QED
    BY <1>3, <1>4, <2>1
<1>6. level[x] \in Int
  BY <1>3, <1>4
<1>7. level[x] - level[g] < N
  BY <1>3, <1>4, <1>5, <1>6, FilledLevels
<1>8. level[x] <= level[g] + n
  BY <1>3, <1>6, <1>7, Bound
<1>9. QED
  BY <1>1, <1>8, WalkLevels

(* A set of groups with all their subgroups has what is found below one of them.  *)
LEMMA WalkLeast ==
    ASSUME NEW d, NEW level, Forest(d, level), NEW n \in 0..N, NEW g \in Groups,
           NEW X, g \in X, \A p \in X : Kids(d, p) \subseteq X
    PROVE  Under(GroupsBelow(d)[n], g) \subseteq X
<1> DEFINE U == Under(GroupsBelow(d)[n], g)
           T == {k \in Nat : \A z \in U : level[z] = level[g] + k => z \in X}
<1>1. \A h \in Groups : /\ level[h] \in Int /\ Kids(d, h) \subseteq Groups
                        /\ \A s \in Kids(d, h) : level[s] = level[h] + 1
  BY KidsAreGroups DEF Forest
<1>2. \A z \in U : z \in Groups /\ (z = g \/ level[g] < level[z])
  BY WalkLevels DEF Under
<1>3. \A z \in U : z # g => \E p \in U : z \in Kids(d, p)
  BY WalkLevels DEF Under
<1> HIDE DEF U
<1>4. 0 \in T
  <2>1. \A z \in U : level[z] = level[g] + 0 => z \in X
    BY <1>1, <1>2
  <2>2. QED
    BY <2>1
<1>5. ASSUME NEW k \in Nat, k \in T PROVE k + 1 \in T
  <2> SUFFICES ASSUME NEW z \in U, level[z] = level[g] + (k + 1) PROVE z \in X
    OBVIOUS
  <2>1. z # g
    BY <1>1
  <2>2. PICK p \in U : z \in Kids(d, p)
    BY <1>3, <2>1
  <2>3. level[p] = level[g] + k
    BY <1>1, <1>2, <2>2
  <2>4. p \in X
    BY <1>5, <2>3
  <2>5. QED
    BY <2>2, <2>4
<1>6. Nat \subseteq T
  <2> HIDE DEF T
  <2>1. QED
    BY <1>4, <1>5, Walking!NatSetInduction
<1>7. ASSUME NEW z \in U PROVE z \in X
  <2>1. level[z] - level[g] \in Nat /\ level[z] = level[g] + (level[z] - level[g])
    BY <1>1, <1>2
  <2>2. QED
    BY <1>6, <2>1
<1>8. QED
  BY <1>7 DEF U

(* The group g with all there is below it.                                        *)
Below(d, g) == Under(GroupsBelow(d)[N], g)

(* What is below a group is the least set with the group and all subgroups.     *)
LEMMA BelowClosed ==
    ASSUME NEW d, NEW level, Forest(d, level), NEW g \in Groups
    PROVE  /\ g \in Below(d, g) /\ Below(d, g) \subseteq Groups
           /\ \A p \in Below(d, g) : Kids(d, p) \subseteq Below(d, g)
           /\ \A x \in Below(d, g) : x = g \/ \E p \in Below(d, g) : x \in Kids(d, p)
           /\ \A X : g \in X /\ (\A p \in X : Kids(d, p) \subseteq X) => Below(d, g) \subseteq X
           /\ Under(GroupsBelow(d)[N - 1], g) = Below(d, g)
<1>1. N \in 0..N /\ N - 1 \in 0..N
  BY Bound
<1>2. \A n \in {N - 1, N} : LET U == Under(GroupsBelow(d)[n], g)
                            IN  g \in U /\ \A p \in U : Kids(d, p) \subseteq U
  BY WalkClosed DEF Under
<1>3. \A n \in {N - 1, N} : \A X : g \in X /\ (\A p \in X : Kids(d, p) \subseteq X) =>
                                   Under(GroupsBelow(d)[n], g) \subseteq X
  BY <1>1, WalkLeast
<1>4. Under(GroupsBelow(d)[N - 1], g) = Below(d, g)
  BY <1>2, <1>3 DEF Below
<1>5. \A x \in Below(d, g) : x \in Groups /\ (x = g \/ \E p \in Below(d, g) : x \in Kids(d, p))
  BY <1>1, WalkLevels DEF Below, Under
<1>6. QED
  BY <1>2, <1>3, <1>4, <1>5 DEF Below

(* Nothing is below two groups of one level.                                      *)
LEMMA WalksApart ==
    ASSUME NEW d, NEW level, Forest(d, level), NEW n \in 0..N,
           NEW s \in Groups, NEW t \in Groups, s # t, level[s] = level[t],
           NEW y \in Under(GroupsBelow(d)[n], s)
    PROVE  y \notin Under(GroupsBelow(d)[n], t)
<1> DEFINE U(g) == Under(GroupsBelow(d)[n], g)
           T == {k \in Nat : \A z \in U(s) : level[z] = level[s] + k => z \notin U(t)}
<1>1. \A h \in Groups : /\ level[h] \in Int /\ Kids(d, h) \subseteq Groups
                        /\ \A x \in Kids(d, h) : level[x] = level[h] + 1
  BY KidsAreGroups DEF Forest
<1>2. \A g \in Groups : \A z \in U(g) : z \in Groups /\ (z = g \/ level[g] < level[z])
  BY WalkLevels DEF Under
<1>3. \A g \in Groups : \A z \in U(g) : z # g => \E p \in U(g) : z \in Kids(d, p)
  BY WalkLevels DEF Under
<1>4. \A p, q \in Groups : p # q => Kids(d, p) \cap Kids(d, q) = {}
  BY DEF Forest
<1> HIDE DEF U
<1>5. 0 \in T
  <2>1. \A z \in U(s) : level[z] = level[s] + 0 => z \notin U(t)
    BY <1>1, <1>2
  <2>2. QED
    BY <2>1
<1>6. ASSUME NEW k \in Nat, k \in T PROVE k + 1 \in T
  <2> SUFFICES ASSUME NEW z \in U(s), level[z] = level[s] + (k + 1), z \in U(t) PROVE FALSE
    OBVIOUS
  <2>1. z # s /\ z # t
    BY <1>1
  <2>2. PICK p \in U(s) : z \in Kids(d, p)
    BY <1>3, <2>1
  <2>3. PICK q \in U(t) : z \in Kids(d, q)
    BY <1>3, <2>1
  <2>4. p = q
    BY <1>2, <1>4, <2>2, <2>3
  <2>5. level[p] = level[s] + k
    BY <1>1, <1>2, <2>2
  <2>6. QED
    BY <1>6, <2>3, <2>4, <2>5
<1>7. Nat \subseteq T
  <2> HIDE DEF T
  <2>1. QED
    BY <1>5, <1>6, Walking!NatSetInduction
<1>8. level[y] - level[s] \in Nat /\ level[y] = level[s] + (level[y] - level[s]) /\ y \in U(s)
  BY <1>1, <1>2 DEF U
<1>9. y \notin U(t)
  BY <1>7, <1>8
<1>10. QED
  BY <1>9 DEF U

(* A walk comes to a group once.                                                  *)
LEMMA WalkOnce ==
    ASSUME NEW d, NEW level, Forest(d, level), NEW n \in 0..N, NEW g \in Groups
    PROVE  IsInjective(GroupsBelow(d)[n][g])
<1> DEFINE B == GroupsBelow(d)
           Done(m) == \A h \in Groups : IsInjective(B[m][h])
           T == {m \in Nat : m > N \/ Done(m)}
<1>1. 0 \in T
  <2>1. IsInjective(<<>>)
    BY DEF IsInjective
  <2>2. Done(0)
    BY <2>1, GroupsWalk
  <2> HIDE DEF Done
  <2>3. QED
    BY <2>2
<1>2. ASSUME NEW k \in 1..N, Done(k - 1) PROVE Done(k)
  <2> SUFFICES ASSUME NEW h \in Groups PROVE IsInjective(B[k][h])
    OBVIOUS
  <2> DEFINE b == B[k - 1]
             sub == d.group[h].subGroups
  <2>1. k - 1 \in 0..N
    BY Bound
  <2>2. sub \in Seq(Groups) /\ IsInjective(sub) /\ Kids(d, h) = ToSet(sub)
    BY DEF Forest, Kids
  <2>3. B[k][h] = GroupsStep(d, b, h)
    BY GroupsWalk
  <2>4. \A s \in Groups : b[s] \in Seq(Groups) /\ IsInjective(b[s])
    BY <1>2, <2>1, WalkOn
  <2>5. \A s \in Kids(d, h) : s \in Groups /\ level[s] = level[h] + 1 /\ level[s] \in Int
    BY KidsAreGroups DEF Forest
  <2>6. \A s \in Kids(d, h) : s \notin ToSet(b[s])
    BY <2>1, <2>5, WalkLevels
  <2>7. ASSUME NEW s \in Kids(d, h), NEW t \in Kids(d, h), Before(sub, s, t), NEW x \in Under(b, s)
        PROVE  x \notin Under(b, t)
    <3>1. s # t
      BY <2>2, <2>7 DEF Before, IsInjective
    <3>2. QED
      BY <2>1, <2>5, <2>7, <3>1, WalksApart
  <2> HIDE DEF b, B, sub
  <2>8. IsInjective(GroupsStep(d, b, h))
    <3>1. \A s \in ToSet(sub) : IsInjective(b[s]) /\ s \notin ToSet(b[s])
      BY <2>2, <2>4, <2>5, <2>6
    <3>2. \A s, t \in ToSet(sub) : Before(sub, s, t) => \A x \in Under(b, s) : x \notin Under(b, t)
      BY <2>2, <2>7
    <3>3. sub = d.group[h].subGroups
      BY DEF sub
    <3>4. QED
      BY ONLY <2>2, <2>4, <3>1, <3>2, <3>3, h \in Groups, GroupsStepOrder
  <2>9. QED
    BY <2>3, <2>8
<1>3. ASSUME NEW m \in Nat, m \in T PROVE m + 1 \in T
  <2> SUFFICES ASSUME m + 1 <= N PROVE Done(m + 1)
    <3> HIDE DEF Done
    <3>1. QED
      BY Bound
  <2> DEFINE k == m + 1
  <2>1. k \in 1..N /\ k - 1 = m
    BY Bound
  <2>2. Done(m)
    <3> HIDE DEF Done
    <3>1. QED
      BY <1>3, Bound
  <2> HIDE DEF T, k
  <2>3. Done(k - 1)
    BY <2>1, <2>2
  <2> HIDE DEF Done
  <2>4. Done(k)
    BY <1>2, <2>1, <2>3
  <2>5. QED
    BY <2>4 DEF k
<1>4. Nat \subseteq T
  <2> HIDE DEF T
  <2>1. QED
    BY <1>1, <1>3, Walking!NatSetInduction
<1>5. Done(n)
  <2> HIDE DEF Done
  <2>1. QED
    BY <1>4, Bound
<1>6. QED
  BY <1>5

----------------------------------------------------------------------------------
(* The order of the groups that a walk finds                                    *)

(* What comes before or after something is in the sequence.                     *)
LEMMA BeforeMembers ==
    ASSUME NEW s, NEW x, NEW y, Before(s, x, y)
    PROVE  x \in ToSet(s) /\ y \in ToSet(s)
BY DEF Before, ToSet

(* In a sequence without repetition the order is strict.                        *)
LEMMA BeforeOnce ==
    ASSUME NEW S, NEW s \in Seq(S), IsInjective(s), NEW x, NEW y, Before(s, x, y)
    PROVE  x # y /\ ~Before(s, y, x)
<1>1. PICK i \in DOMAIN s, j \in DOMAIN s : i < j /\ s[i] = x /\ s[j] = y
  BY DEF Before
<1>2. \A k, m \in DOMAIN s : s[k] = s[m] => k = m
  BY DEF IsInjective
<1>3. DOMAIN s \subseteq Nat
  OBVIOUS
<1>4. x # y
  BY <1>1, <1>2, <1>3
<1>5. ASSUME NEW k \in DOMAIN s, NEW m \in DOMAIN s, k < m, s[k] = y, s[m] = x
      PROVE  FALSE
  BY <1>1, <1>2, <1>3, <1>5
<1>6. QED
  BY <1>4, <1>5 DEF Before

(* A walk from a group is made of the walks from its subgroups, and a group is    *)
(* found in the same one of these as its parent.                                  *)
LEMMA WalkStep ==
    ASSUME NEW d, NEW level, Forest(d, level), NEW n \in 1..N, NEW g \in Groups
    PROVE  LET b == GroupsBelow(d)[n - 1]
               f == GroupsBelow(d)[n][g]
               K == Kids(d, g)
               sub == d.group[g].subGroups
           IN  /\ K \subseteq Groups
               /\ \A s \in K : level[s] \in Int
               /\ \A s, t \in K : level[s] = level[t]
               /\ \A s, t \in K : Before(sub, s, t) => s # t /\ ~Before(sub, t, s)
               /\ \A s \in K : \A x \in ToSet(b[s]) : level[x] \in Int /\ level[s] < level[x]
               /\ \A x : x \in ToSet(f) <=> \E s \in K : x \in Under(b, s)
               /\ \A x, y : Before(f, x, y) <=>
                     \/ \E s \in K : (x = s /\ y \in ToSet(b[s])) \/ Before(b[s], x, y)
                     \/ \E s, t \in K : /\ Before(sub, s, t)
                                        /\ x \in Under(b, s) /\ y \in Under(b, t)
               /\ \A s, t \in K : \A x \in Under(b, s) : x \in Under(b, t) => s = t
               /\ \A s, t \in K : \A p \in Under(b, s) : \A x \in Kids(d, p) :
                     x \in Under(b, t) => s = t /\ x \in ToSet(b[s])
<1> DEFINE b == GroupsBelow(d)[n - 1]
           f == GroupsBelow(d)[n][g]
           K == Kids(d, g)
           sub == d.group[g].subGroups
<1>1. n - 1 \in 0..N
  BY Bound
<1>2. K \subseteq Groups /\ \A s \in K : level[s] = level[g] + 1 /\ level[s] \in Int
  BY KidsAreGroups DEF Forest
<1>3. sub \in Seq(Groups) /\ IsInjective(sub) /\ K = ToSet(sub)
  BY DEF Forest, Kids
<1>4. \A s, t \in K : Before(sub, s, t) => s # t /\ ~Before(sub, t, s)
  BY <1>3, BeforeOnce
<1>5. f = GroupsStep(d, b, g)
  BY GroupsWalk
<1>6. \A s \in Groups : b[s] \in Seq(Groups)
  BY <1>1, WalkOn
<1>7. \A s \in Groups : \A x \in ToSet(b[s]) : /\ x \in Groups /\ level[s] < level[x]
                                               /\ \E p \in Under(b, s) : x \in Kids(d, p)
  BY <1>1, WalkLevels
<1>8. \A s, t \in K : \A x \in Under(b, s) : x \in Under(b, t) => s = t
  BY <1>1, <1>2, WalksApart
<1>9. \A h \in Groups : level[h] \in Int
  BY DEF Forest
<1>10. \A h \in Groups : \A s \in Kids(d, h) : level[s] = level[h] + 1
  BY DEF Forest
<1>11. \A p, q \in Groups : p # q => Kids(d, p) \cap Kids(d, q) = {}
  BY DEF Forest
<1> HIDE DEF b, f, K, sub
<1>12. /\ \A x : x \in ToSet(f) <=> \E s \in K : x \in Under(b, s)
       /\ \A x, y : Before(f, x, y) <=>
             \/ \E s \in K : (x = s /\ y \in ToSet(b[s])) \/ Before(b[s], x, y)
             \/ \E s, t \in K : /\ Before(sub, s, t)
                                /\ x \in Under(b, s) /\ y \in Under(b, t)
  <2>1. sub = d.group[g].subGroups
    BY DEF sub
  <2>2. LET F == GroupsStep(d, b, g)
        IN  /\ \A x : x \in ToSet(F) <=> \E s \in ToSet(sub) : x \in Under(b, s)
            /\ \A x, y : Before(F, x, y) <=>
                  \/ \E s \in ToSet(sub) : (x = s /\ y \in ToSet(b[s])) \/ Before(b[s], x, y)
                  \/ \E s, t \in ToSet(sub) : /\ Before(sub, s, t)
                                              /\ x \in Under(b, s) /\ y \in Under(b, t)
    BY ONLY <1>3, <1>6, <2>1, g \in Groups, GroupsStepOrder
  <2>3. QED
    BY ONLY <1>3, <1>5, <2>2
<1>13. ASSUME NEW s \in K, NEW t \in K, NEW p \in Under(b, s), NEW x \in Kids(d, p),
              x \in Under(b, t)
       PROVE  s = t /\ x \in ToSet(b[s])
  <2>1. s \in Groups /\ t \in Groups /\ level[s] = level[t] /\ level[s] \in Int
    BY <1>2
  <2>2. p \in Groups /\ level[p] \in Int /\ level[s] <= level[p]
    BY <1>7, <1>9, <2>1 DEF Under
  <2>3. level[x] = level[p] + 1
    BY <1>10, <2>2
  <2>4. x # t
    BY <2>1, <2>2, <2>3
  <2>5. x \in ToSet(b[t])
    BY <1>13, <2>4 DEF Under
  <2>6. PICK q \in Under(b, t) : x \in Kids(d, q)
    BY <1>7, <2>1, <2>5
  <2>7. q \in Groups
    BY <1>7, <2>1 DEF Under
  <2>8. p = q
    BY <1>11, <2>2, <2>6, <2>7
  <2>9. s = t
    BY <1>8, <2>6, <2>8
  <2>10. QED
    BY <2>5, <2>9
<1>14. \A s \in K : \A x \in ToSet(b[s]) : level[x] \in Int /\ level[s] < level[x]
  BY <1>2, <1>7, <1>9
<1>15. /\ K \subseteq Groups
       /\ \A s \in K : level[s] \in Int
       /\ \A s, t \in K : level[s] = level[t]
       /\ \A s, t \in K : Before(sub, s, t) => s # t /\ ~Before(sub, t, s)
       /\ \A s \in K : \A x \in ToSet(b[s]) : level[x] \in Int /\ level[s] < level[x]
       /\ \A x : x \in ToSet(f) <=> \E s \in K : x \in Under(b, s)
       /\ \A x, y : Before(f, x, y) <=>
             \/ \E s \in K : (x = s /\ y \in ToSet(b[s])) \/ Before(b[s], x, y)
             \/ \E s, t \in K : /\ Before(sub, s, t)
                                /\ x \in Under(b, s) /\ y \in Under(b, t)
       /\ \A s, t \in K : \A x \in Under(b, s) : x \in Under(b, t) => s = t
       /\ \A s, t \in K : \A p \in Under(b, s) : \A x \in Kids(d, p) :
             x \in Under(b, t) => s = t /\ x \in ToSet(b[s])
  BY ONLY <1>2, <1>4, <1>8, <1>12, <1>13, <1>14
<1>16. QED
  BY ONLY <1>15 DEF b, f, K, sub

(* The order in which a walk finds the groups: a parent before its subgroups, the *)
(* subgroups as they are listed, and no other group of the parent's level between *)
(* the two.                                                                       *)
ParentFirst(d, w) ==
    \A p, x \in ToSet(w) : x \in Kids(d, p) => Before(w, p, x)

AsListed(d, w, g) ==
    \A p \in {g} \cup ToSet(w) : \A x, y \in ToSet(w) :
        Before(d.group[p].subGroups, x, y) => Before(w, x, y)

NoneBetween(d, level, w) ==
    \A p, z \in ToSet(w) : p # z /\ level[p] = level[z] /\ Before(w, p, z) =>
        \A x \in Kids(d, p) : ~Before(w, z, x)

(* If parents come first in the walks below, they do in the walk from here.     *)
LEMMA ParentFirstStep ==
    ASSUME NEW d, NEW level, Forest(d, level), NEW n \in 1..N, NEW g \in Groups,
           \A s \in Groups : ParentFirst(d, GroupsBelow(d)[n - 1][s])
    PROVE  ParentFirst(d, GroupsBelow(d)[n][g])
<1> DEFINE b == GroupsBelow(d)[n - 1]
           f == GroupsBelow(d)[n][g]
           K == Kids(d, g)
<1>1. /\ K \subseteq Groups
      /\ \A x : x \in ToSet(f) <=> \E s \in K : x \in Under(b, s)
      /\ \A x, y : (\E s \in K : (x = s /\ y \in ToSet(b[s])) \/ Before(b[s], x, y))
                       => Before(f, x, y)
      /\ \A s, t \in K : \A p \in Under(b, s) : \A x \in Kids(d, p) :
            x \in Under(b, t) => s = t /\ x \in ToSet(b[s])
  BY WalkStep
<1>2. \A s \in Groups : ParentFirst(d, b[s])
  OBVIOUS
<1> HIDE DEF b, f, K
<1>3. ASSUME NEW p \in ToSet(f), NEW x \in ToSet(f), x \in Kids(d, p)
      PROVE  Before(f, p, x)
  <2>1. PICK s \in K : p \in Under(b, s)
    BY <1>1
  <2>2. PICK t \in K : x \in Under(b, t)
    BY <1>1
  <2>3. x \in ToSet(b[s])
    BY <1>1, <1>3, <2>1, <2>2
  <2>4. CASE p = s
    BY <1>1, <2>3, <2>4
  <2>5. CASE p \in ToSet(b[s])
    <3>1. Before(b[s], p, x)
      BY <1>1, <1>2, <1>3, <2>3, <2>5 DEF ParentFirst
    <3>2. QED
      BY <1>1, <3>1
  <2>6. QED
    BY <2>1, <2>4, <2>5 DEF Under
<1>4. QED
  BY <1>3 DEF ParentFirst, f

(* If subgroups come in the order of their list below, they do from here.       *)
LEMMA AsListedStep ==
    ASSUME NEW d, NEW level, Forest(d, level), NEW n \in 1..N, NEW g \in Groups,
           \A s \in Groups : AsListed(d, GroupsBelow(d)[n - 1][s], s)
    PROVE  AsListed(d, GroupsBelow(d)[n][g], g)
<1> DEFINE b == GroupsBelow(d)[n - 1]
           f == GroupsBelow(d)[n][g]
           K == Kids(d, g)
           list(p) == d.group[p].subGroups
<1>1. /\ K \subseteq Groups
      /\ \A x : x \in ToSet(f) <=> \E s \in K : x \in Under(b, s)
      /\ \A x, y : Before(f, x, y) <=>
            \/ \E s \in K : (x = s /\ y \in ToSet(b[s])) \/ Before(b[s], x, y)
            \/ \E s, t \in K : Before(list(g), s, t) /\ x \in Under(b, s) /\ y \in Under(b, t)
      /\ \A s, t \in K : \A p \in Under(b, s) : \A x \in Kids(d, p) :
            x \in Under(b, t) => s = t /\ x \in ToSet(b[s])
  BY WalkStep
<1>2. \A s \in Groups : AsListed(d, b[s], s)
  OBVIOUS
<1>3. \A p, x, y : Before(list(p), x, y) => x \in Kids(d, p) /\ y \in Kids(d, p)
  BY BeforeMembers DEF Kids
<1> HIDE DEF b, f
<1>4. ASSUME NEW p \in {g} \cup ToSet(f), NEW x \in ToSet(f), NEW y \in ToSet(f),
             Before(list(p), x, y)
      PROVE  Before(f, x, y)
  <2>1. CASE p = g
    <3>1. x \in K /\ y \in K
      BY <1>3, <1>4, <2>1
    <3>2. x \in Under(b, x) /\ y \in Under(b, y)
      BY DEF Under
    <3>3. QED
      BY <1>1, <1>4, <2>1, <3>1, <3>2
  <2>2. CASE p \in ToSet(f)
    <3>1. PICK s \in K : p \in Under(b, s)
      BY <1>1, <2>2
    <3>2. x \in Kids(d, p) /\ y \in Kids(d, p)
      BY <1>3, <1>4
    <3>3. x \in ToSet(b[s]) /\ y \in ToSet(b[s])
      BY <1>1, <3>1, <3>2
    <3>4. Before(b[s], x, y)
      <4>1. AsListed(d, b[s], s)
        BY <1>1, <1>2
      <4>2. p \in {s} \cup ToSet(b[s])
        BY <3>1 DEF Under
      <4>3. QED
        BY <1>4, <3>3, <4>1, <4>2 DEF AsListed
    <3>5. QED
      BY <1>1, <3>4
  <2>3. QED
    BY <2>1, <2>2
<1>5. QED
  BY <1>4 DEF AsListed, f

(* If nothing of its level is between a group and its subgroup below, nor is    *)
(* there from here.                                                             *)
LEMMA NoneBetweenStep ==
    ASSUME NEW d, NEW level, Forest(d, level), NEW n \in 1..N, NEW g \in Groups,
           \A s \in Groups : NoneBetween(d, level, GroupsBelow(d)[n - 1][s])
    PROVE  NoneBetween(d, level, GroupsBelow(d)[n][g])
<1> DEFINE b == GroupsBelow(d)[n - 1]
           f == GroupsBelow(d)[n][g]
           K == Kids(d, g)
           sub == d.group[g].subGroups
<1>1. /\ K \subseteq Groups
      /\ \A s \in K : level[s] \in Int
      /\ \A s, t \in K : level[s] = level[t]
      /\ \A s, t \in K : Before(sub, s, t) => s # t /\ ~Before(sub, t, s)
      /\ \A s \in K : \A x \in ToSet(b[s]) : level[x] \in Int /\ level[s] < level[x]
      /\ \A x : x \in ToSet(f) <=> \E s \in K : x \in Under(b, s)
      /\ \A x, y : Before(f, x, y) <=>
            \/ \E s \in K : (x = s /\ y \in ToSet(b[s])) \/ Before(b[s], x, y)
            \/ \E s, t \in K : /\ Before(sub, s, t)
                               /\ x \in Under(b, s) /\ y \in Under(b, t)
      /\ \A s, t \in K : \A x \in Under(b, s) : x \in Under(b, t) => s = t
      /\ \A s, t \in K : \A p \in Under(b, s) : \A x \in Kids(d, p) :
            x \in Under(b, t) => s = t /\ x \in ToSet(b[s])
  BY WalkStep
<1>2. \A s \in Groups : NoneBetween(d, level, b[s])
  OBVIOUS
<1> HIDE DEF b, f, K, sub
<1>3. \A s, x, y : Before(b[s], x, y) => x \in ToSet(b[s]) /\ y \in ToSet(b[s])
  BY BeforeMembers
<1>4. ASSUME NEW p \in ToSet(f), NEW z \in ToSet(f), p # z, level[p] = level[z],
             Before(f, p, z), NEW x \in Kids(d, p), Before(f, z, x)
      PROVE  FALSE
  <2>1. PICK s \in K : p \in Under(b, s)
    BY <1>1
  <2>2. \A u \in K : p \in Under(b, u) => u = s
    BY <1>1, <2>1
  <2>3. \A u \in K : x \in Under(b, u) => u = s
    BY <1>1, <2>1
  <2>4. \A u \in K : ~(p = u /\ z \in ToSet(b[u]))
    BY <1>1, <1>4
  <2>5. \A u \in K : ~(z = u /\ x \in ToSet(b[u]))
    <3> SUFFICES ASSUME z \in K, x \in ToSet(b[z]) PROVE FALSE
      OBVIOUS
    <3>1. z = s
      BY <2>3 DEF Under
    <3>2. p \in ToSet(b[z])
      BY <1>4, <2>1, <3>1 DEF Under
    <3>3. QED
      BY <1>1, <1>4, <3>2
  <2>6. (\E u \in K : Before(b[u], p, z)) \/
        (\E u, v \in K : Before(sub, u, v) /\ p \in Under(b, u) /\ z \in Under(b, v))
    BY <1>1, <1>4, <2>4
  <2>7. (\E u \in K : Before(b[u], z, x)) \/
        (\E u, v \in K : Before(sub, u, v) /\ z \in Under(b, u) /\ x \in Under(b, v))
    BY <1>1, <1>4, <2>5
  <2>8. Before(b[s], p, z) \/ \E v \in K : Before(sub, s, v) /\ z \in Under(b, v)
    BY <1>3, <2>2, <2>6 DEF Under
  <2>9. Before(b[s], z, x) \/ \E u \in K : Before(sub, u, s) /\ z \in Under(b, u)
    BY <1>3, <2>3, <2>7 DEF Under
  <2>10. CASE Before(b[s], p, z)
    <3>1. p \in ToSet(b[s]) /\ z \in ToSet(b[s])
      BY <1>3, <2>10
    <3>2. ~Before(b[s], z, x)
      BY <1>1, <1>2, <1>4, <2>10, <3>1 DEF NoneBetween
    <3>3. PICK u \in K : Before(sub, u, s) /\ z \in Under(b, u)
      BY <2>9, <3>2
    <3>4. u = s
      BY <1>1, <3>1, <3>3 DEF Under
    <3>5. QED
      BY <1>1, <3>3, <3>4
  <2>11. ASSUME NEW v \in K, Before(sub, s, v), z \in Under(b, v)
         PROVE  FALSE
    <3>1. CASE Before(b[s], z, x)
      <4>1. v = s
        BY <1>1, <1>3, <2>11, <3>1 DEF Under
      <4>2. QED
        BY <1>1, <2>11, <4>1
    <3>2. ASSUME NEW u \in K, Before(sub, u, s), z \in Under(b, u)
          PROVE  FALSE
      <4>1. u = v
        BY <1>1, <2>11, <3>2
      <4>2. QED
        BY <1>1, <2>11, <3>2, <4>1
    <3>3. QED
      BY <2>9, <3>1, <3>2
  <2>12. QED
    BY <2>8, <2>10, <2>11
<1>5. QED
  BY <1>4 DEF NoneBetween, f

(* So it is in all walks, by induction on their levels.                         *)
LEMMA WalkOrder ==
    ASSUME NEW d, NEW level, Forest(d, level), NEW n \in 0..N, NEW g \in Groups
    PROVE  /\ ParentFirst(d, GroupsBelow(d)[n][g])
           /\ AsListed(d, GroupsBelow(d)[n][g], g)
           /\ NoneBetween(d, level, GroupsBelow(d)[n][g])
<1> DEFINE B == GroupsBelow(d)
           Done(m) == \A h \in Groups : /\ ParentFirst(d, B[m][h])
                                        /\ AsListed(d, B[m][h], h)
                                        /\ NoneBetween(d, level, B[m][h])
           T == {m \in Nat : m > N \/ Done(m)}
<1>1. 0 \in T
  <2>1. \A h \in Groups : B[0][h] = <<>>
    BY GroupsWalk
  <2>2. ToSet(<<>>) = {}
    BY DEF ToSet
  <2> HIDE DEF B
  <2>3. Done(0)
    BY <2>1, <2>2 DEF ParentFirst, AsListed, NoneBetween
  <2> HIDE DEF Done
  <2>4. QED
    BY <2>3
<1>2. ASSUME NEW k \in 1..N, Done(k - 1) PROVE Done(k)
  BY <1>2, ParentFirstStep, AsListedStep, NoneBetweenStep
<1>3. ASSUME NEW m \in Nat, m \in T PROVE m + 1 \in T
  <2> SUFFICES ASSUME m + 1 <= N PROVE Done(m + 1)
    <3> HIDE DEF Done
    <3>1. QED
      BY Bound
  <2> DEFINE k == m + 1
  <2>1. k \in 1..N /\ k - 1 = m
    BY Bound
  <2>2. Done(m)
    <3> HIDE DEF Done
    <3>1. QED
      BY <1>3, Bound
  <2> HIDE DEF T, k
  <2>3. Done(k - 1)
    BY <2>1, <2>2
  <2> HIDE DEF Done
  <2>4. Done(k)
    BY <1>2, <2>1, <2>3
  <2>5. QED
    BY <2>4 DEF k
<1>4. Nat \subseteq T
  <2> HIDE DEF T
  <2>1. QED
    BY <1>1, <1>3, Walking!NatSetInduction
<1>5. Done(n)
  <2> HIDE DEF Done
  <2>1. QED
    BY <1>4, Bound
<1>6. QED
  BY <1>5

----------------------------------------------------------------------------------
(* The entries that a walk finds                                                *)

(* The groups whose entries a walk over n levels gathers.                         *)
Reached(d, n, g) == IF n = 0 THEN {} ELSE Under(GroupsBelow(d)[n - 1], g)

EntryLists(d) ==
    /\ \A p \in Groups : d.group[p].entries \in Seq(Entries) /\ IsInjective(d.group[p].entries)
    /\ \A p, q \in Groups : \A e \in ToSet(d.group[p].entries) :
          e \in ToSet(d.group[q].entries) => p = q

(* A walk reaches the group itself and, apart from each other, what walks from  *)
(* its subgroups do.                                                            *)
LEMMA ReachedStep ==
    ASSUME NEW d, NEW level, Forest(d, level), NEW n \in 1..N, NEW g \in Groups
    PROVE  /\ \A p : p \in Reached(d, n, g) <=>
                        p = g \/ \E s \in Kids(d, g) : p \in Reached(d, n - 1, s)
           /\ Reached(d, n, g) \subseteq Groups
           /\ \A s \in Kids(d, g) : g \notin Reached(d, n - 1, s)
           /\ \A s, t \in Kids(d, g) : s # t =>
                 \A p \in Reached(d, n - 1, s) : p \notin Reached(d, n - 1, t)
<1> DEFINE B == GroupsBelow(d)
           K == Kids(d, g)
<1>1. n - 1 \in 0..N /\ n # 0 /\ N \in Nat
  BY Bound
<1>2. K \subseteq Groups /\ \A s \in K : level[s] = level[g] + 1
  BY KidsAreGroups DEF Forest
<1>3. level[g] \in Int
  BY DEF Forest
<1>4. Reached(d, n, g) = Under(B[n - 1], g)
  BY <1>1 DEF Reached
<1>5. Reached(d, n, g) \subseteq Groups
  BY <1>1, <1>4, WalkLevels DEF Under
<1> HIDE DEF B, K
<1>6. CASE n - 1 = 0
  <2>1. B[n - 1][g] = <<>>
    BY <1>6, GroupsWalk DEF B
  <2>2. ToSet(<<>>) = {}
    BY DEF ToSet
  <2>3. \A s : Reached(d, n - 1, s) = {}
    BY <1>6 DEF Reached
  <2>4. QED
    BY <1>4, <1>5, <2>1, <2>2, <2>3 DEF Under, K
<1>7. CASE n - 1 # 0
  <2> DEFINE m == n - 1
             k == m - 1
  <2>1. m \in 0..N /\ m > 0 /\ k \in 0..N
    BY <1>1, <1>7
  <2>2. \A s : Reached(d, m, s) = Under(B[k], s)
    BY <1>7 DEF Reached, B
  <2> HIDE DEF m
  <2>3. \A x : x \in ToSet(B[m][g]) <=> \E s \in K : x \in Under(B[k], s)
    BY <2>1, WalkOn DEF B, K
  <2> HIDE DEF k
  <2>4. \A s \in K : g \notin Under(B[k], s)
    <3> SUFFICES ASSUME NEW s \in K, g \in Under(B[k], s) PROVE FALSE
      OBVIOUS
    <3>1. s \in Groups /\ level[s] = level[g] + 1
      BY <1>2
    <3>2. level[s] <= level[g]
      BY <2>1, <3>1, WalkFillsLevels DEF B
    <3>3. QED
      BY <1>3, <3>1, <3>2
  <2>5. \A s, t \in K : s # t => \A p \in Under(B[k], s) : p \notin Under(B[k], t)
    BY <1>2, <2>1, WalksApart DEF B
  <2>6. Reached(d, n, g) = {g} \cup ToSet(B[m][g])
    BY <1>4 DEF Under, m
  <2>7. QED
    BY <1>5, <2>2, <2>3, <2>4, <2>5, <2>6 DEF K, m
<1>8. QED
  BY <1>6, <1>7

(* The entries that are found, each of them once, and in the order of the lists.  *)
LEMMA EntriesFound ==
    ASSUME NEW d, NEW level, Forest(d, level), EntryLists(d), NEW g \in Groups
    PROVE  LET w == AllEntriesBelow(d, g)
           IN  /\ w \in Seq(Entries) /\ IsInjective(w)
               /\ \A x : x \in ToSet(w) <=> \E p \in Below(d, g) : x \in ToSet(d.group[p].entries)
               /\ \A p \in Below(d, g) : \A x, y :
                     Before(d.group[p].entries, x, y) => Before(w, x, y)
<1> DEFINE E == EntriesBelow(d)
           R(m, h) == Reached(d, m, h)
           own(p) == d.group[p].entries
           Typed(m) == \A h \in Groups : E[m][h] \in Seq(Entries)
           Same(m) == \A h \in Groups : \A x : x \in ToSet(E[m][h]) <=>
                                                  \E p \in R(m, h) : x \in ToSet(own(p))
           Once(m) == \A h \in Groups : IsInjective(E[m][h])
           Kept(m) == \A h \in Groups : \A p \in R(m, h) : \A x, y :
                         Before(own(p), x, y) => Before(E[m][h], x, y)
           Done(m) == Typed(m) /\ Same(m) /\ Once(m) /\ Kept(m)
           T == {m \in Nat : m > N \/ Done(m)}
<1>1. /\ \A h \in Groups : E[0][h] = <<>>
      /\ \A m \in 1..N, h \in Groups : E[m][h] = EntriesStep(d, E[m - 1], h)
      /\ AllEntriesBelow(d, g) = E[N][g]
  BY EntriesWalk
<1>2. \A h : R(0, h) = {}
  BY DEF Reached
<1>3. \A p \in Groups : own(p) \in Seq(Entries) /\ IsInjective(own(p))
  BY DEF EntryLists
<1>4. \A p, q \in Groups : \A e \in ToSet(own(p)) : e \in ToSet(own(q)) => p = q
  BY DEF EntryLists
<1> HIDE DEF E, R, own
<1>5. 0 \in T
  <2>1. ToSet(<<>>) = {} /\ IsInjective(<<>>) /\ <<>> \in Seq(Entries)
    BY DEF ToSet, IsInjective
  <2>2. Done(0)
    BY <1>1, <1>2, <2>1
  <2> HIDE DEF Done
  <2>3. QED
    BY <2>2
<1>6. ASSUME NEW m \in 1..N, Done(m - 1) PROVE Done(m)
  <2> SUFFICES ASSUME NEW h \in Groups
               PROVE  /\ E[m][h] \in Seq(Entries) /\ IsInjective(E[m][h])
                      /\ \A x : x \in ToSet(E[m][h]) <=> \E p \in R(m, h) : x \in ToSet(own(p))
                      /\ \A p \in R(m, h) : \A x, y :
                            Before(own(p), x, y) => Before(E[m][h], x, y)
    OBVIOUS
  <2> DEFINE b == E[m - 1]
             K == Kids(d, h)
             sub == d.group[h].subGroups
             S(s) == R(m - 1, s)
  <2>1. /\ \A p : p \in R(m, h) <=> p = h \/ \E s \in K : p \in S(s)
        /\ R(m, h) \subseteq Groups
        /\ \A s \in K : h \notin S(s)
        /\ \A s, t \in K : s # t => \A p \in S(s) : p \notin S(t)
    BY ReachedStep DEF R
  <2>2. sub \in Seq(Groups) /\ IsInjective(sub) /\ K = ToSet(sub) /\ K \subseteq Groups
    BY KidsAreGroups DEF Forest, Kids
  <2>3. \A s, t : Before(sub, s, t) => s # t
    BY <2>2, BeforeOnce
  <2>4. E[m][h] = EntriesStep(d, b, h)
    BY <1>1
  <2>5. /\ \A s \in Groups : b[s] \in Seq(Entries) /\ IsInjective(b[s])
        /\ \A s \in Groups : \A x : x \in ToSet(b[s]) <=> \E p \in S(s) : x \in ToSet(own(p))
        /\ \A s \in Groups : \A p \in S(s) : \A x, y :
              Before(own(p), x, y) => Before(b[s], x, y)
    BY <1>6
  <2>6. sub = d.group[h].subGroups /\ own(h) = d.group[h].entries /\ own(h) \in Seq(Entries)
        /\ IsInjective(own(h))
    BY <1>3 DEF own
  <2> HIDE DEF b, K, sub, S
  <2> DEFINE f == EntriesStep(d, b, h)
             ents == own(h)
  <2>7. Gathers(f, sub, ents, b)
    <3>1. \A s \in Groups : b[s] \in Seq(Entries)
      BY <2>5
    <3>2. sub \in Seq(Groups) /\ sub = d.group[h].subGroups
      BY <2>2, <2>6
    <3>3. ents \in Seq(Entries) /\ ents = d.group[h].entries
      BY <2>6
    <3> HIDE DEF ents
    <3>4. QED
      BY ONLY <3>1, <3>2, <3>3, h \in Groups, EntriesStepOrder
  <2> HIDE DEF f, ents
  <2>8. ASSUME NEW s \in K, NEW x \in ToSet(b[s])
        PROVE  x \notin ToSet(ents)
    <3>1. PICK p \in S(s) : x \in ToSet(own(p))
      BY <2>2, <2>5
    <3>2. p \in Groups /\ p # h
      BY <2>1, <3>1
    <3>3. QED
      BY <1>4, <3>1, <3>2 DEF ents
  <2>9. ASSUME NEW s \in K, NEW t \in K, s # t, NEW x \in ToSet(b[s])
        PROVE  x \notin ToSet(b[t])
    <3> SUFFICES ASSUME x \in ToSet(b[t]) PROVE FALSE
      OBVIOUS
    <3>1. PICK p \in S(s) : x \in ToSet(own(p))
      BY <2>2, <2>5
    <3>2. PICK q \in S(t) : x \in ToSet(own(q))
      BY <2>2, <2>5
    <3>3. p \in Groups /\ q \in Groups
      BY <2>1
    <3>4. p = q
      BY <1>4, <3>1, <3>2, <3>3
    <3>5. QED
      BY <2>1, <2>9, <3>1, <3>2, <3>4
  <2>10. IsInjective(f)
    <3>1. \A s \in ToSet(sub) : IsInjective(b[s])
      BY <2>2, <2>5
    <3>2. \A s \in ToSet(sub) : \A x \in ToSet(b[s]) : x \notin ToSet(ents)
      BY <2>2, <2>8
    <3>3. \A s, t \in ToSet(sub) :
             Before(sub, s, t) => \A x \in ToSet(b[s]) : x \notin ToSet(b[t])
      BY <2>2, <2>3, <2>9
    <3>4. IsInjective(ents)
      BY <2>6 DEF ents
    <3>5. QED
      BY ONLY <2>7, <3>1, <3>2, <3>3, <3>4 DEF Gathers
  <2>11. ASSUME NEW x
         PROVE  x \in ToSet(f) <=> \E p \in R(m, h) : x \in ToSet(own(p))
    <3>1. x \in ToSet(f) <=> (\E s \in K : x \in ToSet(b[s])) \/ x \in ToSet(own(h))
      BY <2>2, <2>7 DEF ents, Gathers
    <3>2. \A s \in K : x \in ToSet(b[s]) <=> \E p \in S(s) : x \in ToSet(own(p))
      BY <2>2, <2>5
    <3>3. QED
      BY ONLY <2>1, <3>1, <3>2
  <2>12. ASSUME NEW p \in R(m, h), NEW x, NEW y, Before(own(p), x, y)
         PROVE  Before(f, x, y)
    <3>1. CASE p = h
      BY <2>7, <2>12, <3>1 DEF ents, Gathers
    <3>2. ASSUME NEW s \in K, p \in S(s) PROVE Before(f, x, y)
      <4>1. Before(b[s], x, y)
        BY <2>2, <2>5, <2>12, <3>2
      <4>2. QED
        BY <2>2, <2>7, <4>1 DEF Gathers
    <3>3. QED
      BY <2>1, <3>1, <3>2
  <2>13. E[m][h] = f
    BY <2>4 DEF f
  <2>14. QED
    BY ONLY <2>7, <2>10, <2>11, <2>12, <2>13 DEF Gathers
<1>7. ASSUME NEW m \in Nat, m \in T PROVE m + 1 \in T
  <2> SUFFICES ASSUME m + 1 <= N PROVE Done(m + 1)
    <3> HIDE DEF Done
    <3>1. QED
      BY Bound
  <2> DEFINE k == m + 1
  <2>1. k \in 1..N /\ k - 1 = m
    BY Bound
  <2>2. Done(m)
    <3> HIDE DEF Done
    <3>1. QED
      BY <1>7, Bound
  <2> HIDE DEF T, k
  <2>3. Done(k - 1)
    BY <2>1, <2>2
  <2> HIDE DEF Done
  <2>4. Done(k)
    BY <1>6, <2>1, <2>3
  <2>5. QED
    BY <2>4 DEF k
<1>8. Nat \subseteq T
  <2> HIDE DEF T
  <2>1. QED
    BY <1>5, <1>7, Walking!NatSetInduction
<1>9. Done(N)
  <2> HIDE DEF Done
  <2>1. QED
    BY <1>8, Bound
<1>10. R(N, g) = Below(d, g)
  BY Bound, BelowClosed DEF R, Reached
<1>11. QED
  BY <1>1, <1>9, <1>10 DEF own

----------------------------------------------------------------------------------
(* Trees: what their lists and fields say                                       *)

(* Append and RemoveFirst on lists without repetition.                          *)
LEMMA AddedLast ==
    ASSUME NEW S, NEW s \in Seq(S), IsInjective(s), NEW x \in S, x \notin ToSet(s)
    PROVE  /\ Append(s, x) \in Seq(S)
           /\ IsInjective(Append(s, x))
           /\ ToSet(Append(s, x)) = ToSet(s) \cup {x}
BY Walking!AddedLast DEF ToSet, Walking!ToSet, IsInjective, Walking!IsInjective

(* ... and the first of its members taken out.                                  *)
LEMMA FirstRemoved ==
    ASSUME NEW S, NEW s \in Seq(S), IsInjective(s), NEW x \in ToSet(s)
    PROVE  /\ RemoveFirst(s, x) \in Seq(S)
           /\ IsInjective(RemoveFirst(s, x))
           /\ ToSet(RemoveFirst(s, x)) = ToSet(s) \ {x}
<1>1. DOMAIN s = 1..Len(s) /\ Len(s) \in Nat
  OBVIOUS
<1>2. PICK i \in 1..Len(s) : s[i] = x
  BY <1>1 DEF ToSet
<1>3. {j \in 1..Len(s) : s[j] = x} = {i}
  BY <1>1, <1>2 DEF IsInjective
<1>4. SelectInSeq(s, LAMBDA v : v = x) = i
  <2>1. Min({i}) = i
    BY <1>1, <1>2 DEF Min
  <2>2. QED
    BY <1>3, <2>1 DEF SelectInSeq
<1>5. RemoveFirst(s, x) = RemoveAt(s, i)
  BY <1>2, <1>4 DEF RemoveFirst
<1>6. /\ RemoveAt(s, i) \in Seq(S)
      /\ IsInjective(RemoveAt(s, i))
      /\ ToSet(RemoveAt(s, i)) = ToSet(s) \ {s[i]}
  BY <1>1, Walking!OneRemoved
     DEF RemoveAt, Walking!RemoveAt, ToSet, Walking!ToSet, IsInjective, Walking!IsInjective
<1>7. QED
  BY <1>2, <1>5, <1>6

----------------------------------------------------------------------------------
(* Trees                                                                          *)

Level(d) == [g \in Groups |-> d.group[g].level]

(* The fields, and their types.                                                 *)
LEMMA TreeFields ==
    ASSUME NEW d \in Trees
    PROVE  /\ \A g \in Groups :
                 /\ d.group[g] \in GroupStates
                 /\ d.group[g].subGroups \in Seq(Groups)
                 /\ d.group[g].entries \in Seq(Entries)
                 /\ d.group[g].parent \in Groups \cup {None}
                 /\ d.group[g].level \in Int /\ -1 <= d.group[g].level /\ d.group[g].level <= N
                 /\ d.group[g].id \in Ids \cup {None}
                 /\ d.group[g].reserved \in BOOLEAN
                 /\ d.group[g].deleted \in BOOLEAN
           /\ \A e \in Entries :
                 /\ d.entry[e] \in EntryStates
                 /\ d.entry[e].group \in Groups \cup {None}
                 /\ d.entry[e].groupId \in Ids \cup {None}
                 /\ d.entry[e].title \in Titles \cup {None}
                 /\ d.entry[e].deleted \in BOOLEAN
           /\ d.backupGroup \in (Groups \ {Root}) \cup {None}
<1>1. \A g \in Groups : d.group[g] \in GroupStates
  BY DEF Trees
<1>2. \A e \in Entries : d.entry[e] \in EntryStates
  BY DEF Trees
<1>3. d.backupGroup \in (Groups \ {Root}) \cup {None}
  BY DEF Trees
<1>4. \A r \in GroupStates :
         /\ r.subGroups \in Seq(Groups)
         /\ r.entries \in Seq(Entries)
         /\ r.parent \in Groups \cup {None}
         /\ r.level \in Int /\ -1 <= r.level /\ r.level <= N
         /\ r.id \in Ids \cup {None}
         /\ r.reserved \in BOOLEAN
         /\ r.deleted \in BOOLEAN
  BY Bound DEF GroupStates, N
<1>5. \A r \in EntryStates :
         /\ r.group \in Groups \cup {None}
         /\ r.groupId \in Ids \cup {None}
         /\ r.title \in Titles \cup {None}
         /\ r.deleted \in BOOLEAN
  BY DEF EntryStates
<1>6. QED
  BY <1>1, <1>2, <1>3, <1>4, <1>5

(* The fields of a group that is in no tree.                                    *)
LEMMA NewGroupFields ==
    /\ NewGroup \in GroupStates
    /\ NewGroup.subGroups = <<>> /\ NewGroup.entries = <<>> /\ NewGroup.parent = None
    /\ NewGroup.level = -1 /\ NewGroup.id = None
    /\ NewGroup.reserved = FALSE /\ NewGroup.deleted = FALSE
<1>1. Cardinality(Groups) \in Nat
  BY Bound DEF N
<1>2. <<>> \in Seq(Groups) /\ <<>> \in Seq(Entries) /\ -1 \in -1..Cardinality(Groups)
  BY <1>1
<1>3. QED
  BY <1>2 DEF NewGroup, GroupStates

(* The root, and who is the parent of whom.                                       *)
LEMMA TreeLinks ==
    ASSUME NEW d \in Trees, GroupsAgree(d)
    PROVE  /\ d.group[Root].parent = None /\ d.group[Root].level = -1
           /\ d.group[Root].entries = <<>> /\ d.group[Root].id = None
           /\ d.group[Root].reserved = FALSE /\ d.group[Root].deleted = FALSE
           /\ Root \in InTree(d) /\ InTree(d) \subseteq Groups
           /\ \A p \in Groups : \A x : x \in Kids(d, p) <=> x \in Groups /\ d.group[x].parent = p
           /\ \A x \in InTree(d) \ {Root} : /\ d.group[x].parent \in InTree(d)
                                            /\ x \in Kids(d, d.group[x].parent)
                                            /\ d.group[x].level =
                                                  d.group[d.group[x].parent].level + 1
           /\ \A p \in Groups : \A x \in Kids(d, p) :
                 /\ p \in InTree(d) /\ x \in InTree(d) \ {Root} /\ d.group[x].parent = p
                 /\ d.group[x].level = d.group[p].level + 1
           /\ \A g \in Groups \ InTree(d) : d.group[g] = NewGroup
<1>1. /\ d.group[Root].parent = None /\ d.group[Root].level = -1
      /\ d.group[Root].entries = <<>> /\ d.group[Root].id = None
      /\ d.group[Root].reserved = FALSE /\ d.group[Root].deleted = FALSE
  <2>1. d.group[Root] = [NewGroup EXCEPT !.subGroups = d.group[Root].subGroups]
    BY DEF GroupsAgree
  <2>2. QED
    BY <2>1 DEF NewGroup
<1>2. Root \in InTree(d) /\ InTree(d) \subseteq Groups
  BY Bound DEF InTree
<1>3. \A p \in Groups : \A x : x \in Kids(d, p) <=> x \in Groups /\ d.group[x].parent = p
  BY DEF GroupsAgree, Kids
<1>4. \A g \in Groups \ InTree(d) : d.group[g] = NewGroup
  BY DEF GroupsAgree
<1>5. \A g \in Groups \ InTree(d) : Kids(d, g) = {}
  BY <1>4, NewGroupFields DEF Kids, ToSet
<1>6. ASSUME NEW x \in InTree(d) \ {Root}
      PROVE  /\ d.group[x].parent \in InTree(d)
             /\ x \in Kids(d, d.group[x].parent)
             /\ d.group[x].level = d.group[d.group[x].parent].level + 1
  <2>1. x \in Groups /\ d.group[x].parent \in Groups
    BY <1>2, TreeFields DEF InTree
  <2>2. x \in Kids(d, d.group[x].parent)
    BY <1>3, <2>1
  <2>3. QED
    BY <1>5, <2>1, <2>2 DEF GroupsAgree
<1>7. ASSUME NEW p \in Groups, NEW x \in Kids(d, p)
      PROVE  /\ p \in InTree(d) /\ x \in InTree(d) \ {Root} /\ d.group[x].parent = p
             /\ d.group[x].level = d.group[p].level + 1
  <2>1. x \in Groups /\ d.group[x].parent = p /\ p # None
    BY <1>3, Bound
  <2>2. x \in InTree(d) /\ x # Root
    BY <1>1, <2>1 DEF InTree
  <2>3. QED
    BY <1>6, <2>1, <2>2
<1>8. QED
  BY <1>1, <1>2, <1>3, <1>4, <1>6, <1>7

(* The levels make sure that no group is below itself.                          *)
LEMMA TreeForest ==
    ASSUME NEW d \in Trees, GroupsAgree(d)
    PROVE  Forest(d, Level(d))
<1>1. Level(d) \in [Groups -> Int] /\ \A g \in Groups : Level(d)[g] = d.group[g].level
  BY TreeFields DEF Level
<1>2. \A p \in Groups : /\ d.group[p].subGroups \in Seq(Groups)
                        /\ IsInjective(d.group[p].subGroups)
  BY TreeFields DEF GroupsAgree
<1>3. \A p \in Groups : \A g \in Kids(d, p) : Level(d)[g] = Level(d)[p] + 1
  <2>1. \A p \in Groups : \A x \in Kids(d, p) :
           /\ p \in InTree(d) /\ x \in InTree(d) \ {Root} /\ d.group[x].parent = p
           /\ d.group[x].level = d.group[p].level + 1
    BY TreeLinks
  <2>2. InTree(d) \subseteq Groups
    BY TreeLinks
  <2>3. QED
    BY <1>1, <2>1, <2>2
<1>4. \A p, q \in Groups : p # q => Kids(d, p) \cap Kids(d, q) = {}
  <2>1. \A p \in Groups : \A x : x \in Kids(d, p) <=> x \in Groups /\ d.group[x].parent = p
    BY TreeLinks
  <2>2. QED
    BY <2>1
<1>5. QED
  BY <1>1, <1>2, <1>3, <1>4 DEF Forest

(* The lists of entries are typed, and no entry is in two of them.              *)
LEMMA TreeEntryLists ==
    ASSUME NEW d \in Trees, EntriesAgree(d)
    PROVE  EntryLists(d)
<1>1. \A p \in Groups : d.group[p].entries \in Seq(Entries) /\ IsInjective(d.group[p].entries)
  BY TreeFields DEF EntriesAgree
<1>2. \A p \in Groups : \A e \in ToSet(d.group[p].entries) : d.entry[e].group = p
  BY DEF EntriesAgree
<1>3. QED
  BY <1>1, <1>2 DEF EntryLists

(* The groups with a parent are those below the root: the level of a group's      *)
(* parent is lower, and none is lower than the root's.                            *)
LEMMA TreeIsBelowRoot ==
    ASSUME NEW d \in Trees, GroupsAgree(d)
    PROVE  Below(d, Root) = InTree(d)
<1>1. /\ Root \in Below(d, Root)
      /\ \A p \in Below(d, Root) : Kids(d, p) \subseteq Below(d, Root)
      /\ Root \in InTree(d) /\ (\A p \in InTree(d) : Kids(d, p) \subseteq InTree(d))
            => Below(d, Root) \subseteq InTree(d)
  BY TreeForest, BelowClosed, Bound
<1>2. Root \in InTree(d) /\ InTree(d) \subseteq Groups
  BY TreeLinks
<1>3. \A p \in InTree(d) : Kids(d, p) \subseteq InTree(d)
  BY TreeLinks
<1> DEFINE T == {k \in Nat : \A x \in InTree(d) : d.group[x].level = k - 1 => x \in Below(d, Root)}
<1>4. \A x \in InTree(d) : /\ d.group[x].level \in Int /\ -1 <= d.group[x].level
                           /\ x # Root => /\ d.group[x].parent \in InTree(d)
                                          /\ x \in Kids(d, d.group[x].parent)
                                          /\ d.group[x].level = d.group[d.group[x].parent].level + 1
  BY <1>2, TreeFields, TreeLinks
<1>5. 0 \in T
  <2>1. ASSUME NEW x \in InTree(d), d.group[x].level = 0 - 1
        PROVE  x \in Below(d, Root)
    <3>1. CASE x = Root
      BY <1>1, <3>1
    <3>2. CASE x # Root
      <4>1. d.group[x].parent \in InTree(d) /\ d.group[x].level = d.group[d.group[x].parent].level + 1
        BY <1>4, <3>2
      <4>2. QED
        BY <1>4, <2>1, <4>1
    <3>3. QED
      BY <3>1, <3>2
  <2>2. QED
    BY <2>1
<1>6. ASSUME NEW k \in Nat, k \in T PROVE k + 1 \in T
  <2> SUFFICES ASSUME NEW x \in InTree(d), d.group[x].level = k + 1 - 1
               PROVE  x \in Below(d, Root)
    OBVIOUS
  <2>1. CASE x = Root
    BY <1>1, <2>1
  <2>2. CASE x # Root
    <3> DEFINE p == d.group[x].parent
    <3>1. p \in InTree(d) /\ x \in Kids(d, p) /\ d.group[x].level = d.group[p].level + 1
          /\ d.group[p].level \in Int
      BY <1>4, <2>2
    <3>2. d.group[p].level = k - 1
      BY <3>1
    <3>3. p \in Below(d, Root)
      BY <1>6, <3>1, <3>2
    <3>4. QED
      BY <1>1, <3>1, <3>3
  <2>3. QED
    BY <2>1, <2>2
<1>7. Nat \subseteq T
  <2> HIDE DEF T
  <2>1. QED
    BY <1>5, <1>6, Walking!NatSetInduction
<1>8. \A x \in InTree(d) : x \in Below(d, Root)
  <2> TAKE x \in InTree(d)
  <2>1. d.group[x].level + 1 \in Nat /\ d.group[x].level = (d.group[x].level + 1) - 1
    BY <1>4
  <2>2. QED
    BY <1>7, <2>1
<1>9. QED
  BY <1>1, <1>2, <1>3, <1>8

(* All that is in a tree is found, and found once.                                *)
LEMMA TreeGroups ==
    ASSUME NEW d \in Trees, GroupsAgree(d)
    PROVE  /\ AllGroups(d) \in Seq(Groups) /\ IsInjective(AllGroups(d))
           /\ ToSet(AllGroups(d)) = InTree(d) \ {Root}
           /\ LiveGroups(d) = InTree(d)
<1>1. AllGroups(d) = GroupsBelow(d)[N][Root] /\ N \in 0..N /\ Root \in Groups
  BY GroupsWalk, Bound
<1>2. AllGroups(d) \in Seq(Groups) /\ IsInjective(AllGroups(d))
  BY <1>1, TreeForest, WalkOn, WalkOnce
<1>3. Below(d, Root) = {Root} \cup ToSet(AllGroups(d))
  BY <1>1 DEF Below, Under
<1>4. Root \notin ToSet(AllGroups(d))
  <2> SUFFICES ASSUME Root \in ToSet(AllGroups(d)) PROVE FALSE
    OBVIOUS
  <2>1. Level(d)[Root] < Level(d)[Root]
    BY <1>1, TreeForest, WalkLevels
  <2>2. Level(d)[Root] \in Int
    BY <1>1, TreeForest DEF Forest
  <2>3. QED
    BY <2>1, <2>2
<1>5. QED
  BY <1>2, <1>3, <1>4, TreeIsBelowRoot DEF LiveGroups

(* All entries are found once, and those of a group in their order.             *)
LEMMA TreeEntries ==
    ASSUME NEW d \in Trees, GroupsAgree(d), EntriesAgree(d)
    PROVE  /\ AllEntries(d) \in Seq(Entries) /\ IsInjective(AllEntries(d))
           /\ ToSet(AllEntries(d)) = Home(d)
           /\ Home(d) \subseteq Entries
           /\ \A e \in Home(d) : d.entry[e].group \in InTree(d) \ {Root}
           /\ \A p \in Groups : \A x, y :
                 Before(d.group[p].entries, x, y) => Before(AllEntries(d), x, y)
<1>1. Forest(d, Level(d)) /\ EntryLists(d) /\ Root \in Groups
  BY TreeForest, TreeEntryLists, Bound
<1>2. /\ AllEntries(d) \in Seq(Entries) /\ IsInjective(AllEntries(d))
      /\ \A x : x \in ToSet(AllEntries(d)) <=>
                   \E p \in InTree(d) : x \in ToSet(d.group[p].entries)
      /\ \A p \in InTree(d) : \A x, y :
            Before(d.group[p].entries, x, y) => Before(AllEntries(d), x, y)
  BY <1>1, EntriesFound, TreeIsBelowRoot DEF AllEntries
<1>3. \A p \in Groups : ToSet(d.group[p].entries) = {e \in Entries : d.entry[e].group = p}
  BY DEF EntriesAgree
<1>4. \A p \in Groups \ (InTree(d) \ {Root}) : d.group[p].entries = <<>>
  BY TreeLinks, NewGroupFields
<1>5. ToSet(<<>>) = {} /\ \A x, y : ~Before(<<>>, x, y)
  BY DEF ToSet, Before
<1>6. \A e \in Home(d) : e \in Entries /\ d.entry[e].group \in Groups
  BY TreeFields DEF Home
<1>7. \A e \in Home(d) : d.entry[e].group \in InTree(d) \ {Root}
  BY <1>3, <1>4, <1>5, <1>6
<1>8. ToSet(AllEntries(d)) = Home(d)
  <2>1. \A e \in Home(d) : e \in ToSet(AllEntries(d))
    BY <1>2, <1>3, <1>6, <1>7
  <2>2. ASSUME NEW e \in ToSet(AllEntries(d)) PROVE e \in Home(d)
    <3>1. PICK p \in InTree(d) : e \in ToSet(d.group[p].entries)
      BY <1>2
    <3>2. p \in Groups /\ p # None
      <4>1. InTree(d) \subseteq Groups
        BY TreeLinks
      <4>2. QED
        BY <4>1, Bound
    <3>3. e \in Entries /\ d.entry[e].group = p
      BY <1>3, <3>1, <3>2
    <3>4. QED
      BY <3>2, <3>3 DEF Home
  <2>3. QED
    BY <2>1, <2>2
<1>9. \A p \in Groups : \A x, y :
         Before(d.group[p].entries, x, y) => Before(AllEntries(d), x, y)
  BY <1>2, <1>4, <1>5
<1>10. QED
  BY <1>2, <1>6, <1>7, <1>8, <1>9

(* A group of the tree leaves room for one level below it.                        *)
LEMMA TreeDepth ==
    ASSUME NEW d \in Trees, GroupsAgree(d), NEW g \in InTree(d)
    PROVE  d.group[g].level + 1 \in 0..(N - 1)
<1>1. Forest(d, Level(d)) /\ N \in 0..N /\ Root \in Groups /\ N \in Nat
  BY TreeForest, Bound
<1>2. g \in Under(GroupsBelow(d)[N], Root)
  BY TreeIsBelowRoot DEF Below
<1>3. /\ g \in Groups /\ Level(d)[g] \in Int /\ Level(d)[Root] \in Int
      /\ Level(d)[Root] <= Level(d)[g]
      /\ \A j \in Level(d)[Root]..Level(d)[g] : \E h \in Groups : Level(d)[h] = j
  BY <1>1, <1>2, WalkFillsLevels
<1>4. Level(d) \in [Groups -> Int]
  BY <1>1 DEF Forest
<1>5. Level(d)[g] - Level(d)[Root] < N
  BY <1>3, <1>4, FilledLevels
<1>6. Level(d)[Root] = -1 /\ Level(d)[g] = d.group[g].level
  BY <1>1, <1>3, TreeLinks DEF Level
<1>7. QED
  BY <1>1, <1>3, <1>5, <1>6

----------------------------------------------------------------------------------
(* A group more                                                                 *)

(* Groups, entries and trees are the same if all their fields are.              *)
LEMMA SameGroup ==
    ASSUME NEW r \in GroupStates, NEW s \in GroupStates,
           r.subGroups = s.subGroups, r.entries = s.entries, r.parent = s.parent,
           r.level = s.level, r.id = s.id, r.reserved = s.reserved, r.deleted = s.deleted
    PROVE  r = s
BY DEF GroupStates

(* ... entries ...                                                              *)
LEMMA SameEntry ==
    ASSUME NEW r \in EntryStates, NEW s \in EntryStates,
           r.group = s.group, r.groupId = s.groupId, r.title = s.title, r.deleted = s.deleted
    PROVE  r = s
BY DEF EntryStates

(* The root has nothing but subgroups.                                          *)
LEMMA RootIsPlain ==
    ASSUME NEW r \in GroupStates, r.entries = <<>>, r.parent = None, r.level = -1,
           r.id = None, r.reserved = FALSE, r.deleted = FALSE
    PROVE  r = [NewGroup EXCEPT !.subGroups = r.subGroups]
<1> DEFINE s == [NewGroup EXCEPT !.subGroups = r.subGroups]
<1>1. r.subGroups \in Seq(Groups)
  BY DEF GroupStates
<1>2. /\ s \in GroupStates /\ s.subGroups = r.subGroups /\ s.entries = NewGroup.entries
      /\ s.parent = NewGroup.parent /\ s.level = NewGroup.level /\ s.id = NewGroup.id
      /\ s.reserved = NewGroup.reserved /\ s.deleted = NewGroup.deleted
  BY <1>1, NewGroupFields DEF GroupStates
<1> HIDE DEF s
<1>3. r = s
  BY <1>2, NewGroupFields, SameGroup
<1>4. QED
  BY <1>3 DEF s

(* ... and trees.                                                               *)
LEMMA SameTree ==
    ASSUME NEW d \in Trees, NEW d2 \in Trees,
           \A g \in Groups : d.group[g] = d2.group[g],
           \A e \in Entries : d.entry[e] = d2.entry[e],
           d.backupGroup = d2.backupGroup
    PROVE  d = d2
BY DEF Trees

(* d2 is the tree d with one more group.                                          *)
IsWithGroup(d, d2, p, g, id, flag) ==
    /\ d2 \in Trees
    /\ \A h \in Groups :
          /\ d2.group[h].subGroups = IF h = p THEN Append(d.group[p].subGroups, g)
                                              ELSE d.group[h].subGroups
          /\ d2.group[h].entries  = d.group[h].entries
          /\ d2.group[h].parent   = IF h = g THEN p ELSE d.group[h].parent
          /\ d2.group[h].level    = IF h = g THEN d.group[p].level + 1 ELSE d.group[h].level
          /\ d2.group[h].id       = IF h = g THEN id ELSE d.group[h].id
          /\ d2.group[h].reserved = IF h = g THEN flag ELSE d.group[h].reserved
          /\ d2.group[h].deleted  = IF h = g THEN flag ELSE d.group[h].deleted
    /\ d2.entry = d.entry
    /\ d2.backupGroup = IF flag THEN g ELSE d.backupGroup

(* createGroup(), and the Backup group, make such a tree.                       *)
LEMMA GroupCreated ==
    ASSUME NEW d, IsTree(d), NEW p \in InTree(d), ~d.group[p].deleted,
           NEW g \in Groups \ InTree(d), NEW id \in Ids
    PROVE  /\ IsWithGroup(d, CreateGroupIn(d, p, g, id), p, g, id, FALSE)
           /\ p = Root => IsWithGroup(d, CreateBackupGroup(d, g, id), p, g, id, TRUE)
<1>1. d \in Trees /\ GroupsAgree(d)
  BY DEF IsTree
<1>2. p \in Groups /\ p # g /\ g \in Groups /\ g # Root
  <2>1. InTree(d) \subseteq Groups /\ Root \in InTree(d)
    BY <1>1, TreeLinks
  <2>2. QED
    BY <2>1
<1>3. d.group[g] = NewGroup
  BY <1>1 DEF GroupsAgree
<1>4. /\ d.group \in [Groups -> GroupStates] /\ d.entry \in [Entries -> EntryStates]
      /\ d = [group |-> d.group, entry |-> d.entry, backupGroup |-> d.backupGroup]
      /\ d.backupGroup \in (Groups \ {Root}) \cup {None}
  BY <1>1 DEF Trees
<1> DEFINE lev == d.group[p].level + 1
           sub == Append(d.group[p].subGroups, g)
           to(r, b) == [group |-> [h \in Groups |->
                                     IF h = g THEN r
                                     ELSE IF h = p THEN [d.group[p] EXCEPT !.subGroups = sub]
                                     ELSE d.group[h]],
                        entry |-> d.entry, backupGroup |-> b]
           a == [NewGroup EXCEPT !.id = id, !.deleted = d.group[p].deleted]
           a2 == [[a EXCEPT !.parent = p] EXCEPT !.level = lev]
           a3 == [[a2 EXCEPT !.reserved = TRUE] EXCEPT !.deleted = TRUE]
           New(r, flag) == /\ r \in GroupStates /\ r.subGroups = <<>> /\ r.entries = <<>>
                           /\ r.parent = p /\ r.level = lev /\ r.id = id
                           /\ r.reserved = flag /\ r.deleted = flag
<1>5. lev \in -1..Cardinality(Groups) /\ sub \in Seq(Groups)
  <2>1. lev \in 0..(N - 1)
    BY <1>1, TreeDepth
  <2>2. d.group[p].subGroups \in Seq(Groups)
    BY <1>1, <1>2, TreeFields
  <2> HIDE DEF lev
  <2>3. QED
    BY <1>2, <2>1, <2>2, Bound DEF N
<1>6. d.group[p].deleted = FALSE
  BY <1>1, <1>2, TreeFields
<1>7. New(a2, FALSE) /\ New(a3, TRUE)
  <2> HIDE DEF lev
  <2>1. /\ a \in GroupStates /\ a.subGroups = <<>> /\ a.entries = <<>> /\ a.id = id
        /\ a.reserved = FALSE /\ a.deleted = FALSE
    BY <1>6, NewGroupFields DEF GroupStates
  <2> HIDE DEF a
  <2>2. New(a2, FALSE)
    BY <1>2, <1>5, <2>1 DEF GroupStates
  <2> HIDE DEF a2
  <2>3. New(a3, TRUE)
    BY <2>2 DEF GroupStates
  <2>4. QED
    BY <2>2, <2>3
<1>8. CreateGroupIn(d, p, g, id) = to(a2, d.backupGroup)
  <2> DEFINE d1 == [d EXCEPT !.group[g] = a]
             gr == [d.group EXCEPT ![g] = a]
             g2 == [gr EXCEPT ![p] = [gr[p] EXCEPT !.subGroups = sub]]
             g3 == [g2 EXCEPT ![g] = [g2[g] EXCEPT !.parent = p]]
             g4 == [g3 EXCEPT ![g] = [g3[g] EXCEPT !.level = lev]]
  <2>1. CreateGroupIn(d, p, g, id) = AddSubGroup(d1, p, g)
    BY DEF CreateGroupIn
  <2>2. AddSubGroup(d1, p, g) =
            [d1 EXCEPT !.group[p].subGroups = Append(d1.group[p].subGroups, g),
                       !.group[g].parent    = p,
                       !.group[g].level     = d1.group[p].level + 1]
    BY DEF AddSubGroup
  <2> HIDE DEF a
  <2>3. d1 = [group |-> gr, entry |-> d.entry, backupGroup |-> d.backupGroup]
    BY <1>4
  <2>4. gr[p] = d.group[p] /\ gr[g] = a /\ DOMAIN gr = Groups
    BY <1>2, <1>4
  <2>5. Append(d1.group[p].subGroups, g) = sub /\ d1.group[p].level + 1 = lev
    BY <2>3, <2>4
  <2> HIDE DEF sub, lev
  <2>6. AddSubGroup(d1, p, g) = [group |-> g4, entry |-> d.entry, backupGroup |-> d.backupGroup]
    BY <2>2, <2>3, <2>5
  <2>7. ASSUME NEW h \in Groups
        PROVE  g4[h] = IF h = g THEN a2
                       ELSE IF h = p THEN [d.group[p] EXCEPT !.subGroups = sub]
                       ELSE d.group[h]
    BY <1>2, <1>4, <2>4
  <2>8. g4 = [h \in Groups |-> g4[h]]
    BY <1>4
  <2> HIDE DEF g4, a2
  <2>9. QED
    BY <2>1, <2>6, <2>7, <2>8
<1>9. [to(a2, d.backupGroup) EXCEPT !.backupGroup = g, !.group[g].reserved = TRUE,
                                    !.group[g].deleted = TRUE] = to(a3, g)
  <2> DEFINE yes == TRUE
             gr == to(a2, d.backupGroup).group
             g2 == [gr EXCEPT ![g] = [gr[g] EXCEPT !.reserved = yes]]
             g3 == [g2 EXCEPT ![g] = [g2[g] EXCEPT !.deleted = yes]]
  <2> HIDE DEF a2, lev, sub
  <2>1. [to(a2, d.backupGroup) EXCEPT !.backupGroup = g, !.group[g].reserved = TRUE,
                                      !.group[g].deleted = TRUE]
            = [group |-> g3, entry |-> d.entry, backupGroup |-> g]
    <3> DEFINE e == d.entry
               b == d.backupGroup
               t == to(a2, b)
    <3>1. t = [group |-> gr, entry |-> e, backupGroup |-> b]
      OBVIOUS
    <3> DEFINE t1 == [t EXCEPT !.backupGroup = g]
               t2 == [t1 EXCEPT !.group = [t1.group EXCEPT ![g] = [t1.group[g] EXCEPT !.reserved = yes]]]
               t3 == [t2 EXCEPT !.group = [t2.group EXCEPT ![g] = [t2.group[g] EXCEPT !.deleted = yes]]]
    <3> HIDE DEF t, gr, e, b, yes
    <3>2. t1 = [group |-> gr, entry |-> e, backupGroup |-> g]
      BY ONLY <3>1
    <3> HIDE DEF t1
    <3>3. t2 = [group |-> g2, entry |-> e, backupGroup |-> g]
      BY ONLY <3>2
    <3> HIDE DEF t2, g2
    <3>4. t3 = [group |-> g3, entry |-> e, backupGroup |-> g]
      BY ONLY <3>3
    <3> HIDE DEF t3, g3
    <3>5. QED
      BY ONLY <3>4 DEF t, t1, t2, t3, e, b, yes
  <2>2. \A h \in Groups : g3[h] = IF h = g THEN a3 ELSE gr[h]
    BY <1>2
  <2>3. \A h \in Groups : to(a3, g).group[h] = IF h = g THEN a3 ELSE gr[h]
    BY <1>2
  <2>4. g3 = [h \in Groups |-> g3[h]] /\ to(a3, g).group = [h \in Groups |-> to(a3, g).group[h]]
    OBVIOUS
  <2>5. to(a3, g) = [group |-> to(a3, g).group, entry |-> d.entry, backupGroup |-> g]
    OBVIOUS
  <2> HIDE DEF g3, to, gr
  <2>6. g3 = to(a3, g).group
    BY <2>2, <2>3, <2>4
  <2>7. QED
    BY <2>1, <2>5, <2>6
<1>10. ASSUME NEW r, NEW flag \in BOOLEAN, New(r, flag), NEW b, b = IF flag THEN g ELSE d.backupGroup
      PROVE  IsWithGroup(d, to(r, b), p, g, id, flag)
  <2> DEFINE d2 == to(r, b)
  <2>1. [d.group[p] EXCEPT !.subGroups = sub] \in GroupStates
    BY <1>2, <1>4, <1>5 DEF GroupStates
  <2>2. d2 \in Trees
    <3> HIDE DEF sub
    <3>1. QED
      BY <1>2, <1>4, <1>10, <2>1 DEF Trees
  <2>3. ASSUME NEW h \in Groups
        PROVE  /\ d2.group[h].subGroups = IF h = p THEN sub ELSE d.group[h].subGroups
               /\ d2.group[h].entries  = d.group[h].entries
               /\ d2.group[h].parent   = IF h = g THEN p ELSE d.group[h].parent
               /\ d2.group[h].level    = IF h = g THEN lev ELSE d.group[h].level
               /\ d2.group[h].id       = IF h = g THEN id ELSE d.group[h].id
               /\ d2.group[h].reserved = IF h = g THEN flag ELSE d.group[h].reserved
               /\ d2.group[h].deleted  = IF h = g THEN flag ELSE d.group[h].deleted
    <3>1. d2.group[h] = IF h = g THEN r
                        ELSE IF h = p THEN [d.group[p] EXCEPT !.subGroups = sub]
                        ELSE d.group[h]
      OBVIOUS
    <3> HIDE DEF d2, lev, sub
    <3>2. CASE h = g
      BY <1>2, <1>3, <1>10, <3>1, <3>2, NewGroupFields
    <3>3. CASE h = p
      <4>1. d.group[p] \in GroupStates
        BY <1>2, <1>4
      <4>2. QED
        BY <1>2, <3>1, <3>3, <4>1 DEF GroupStates
    <3>4. CASE h # g /\ h # p
      BY <3>1, <3>4
    <3>5. QED
      BY <3>2, <3>3, <3>4
  <2>4. d2.entry = d.entry /\ d2.backupGroup = b
    OBVIOUS
  <2> HIDE DEF d2
  <2>5. IsWithGroup(d, d2, p, g, id, flag)
    BY <1>10, <2>2, <2>3, <2>4 DEF IsWithGroup
  <2>6. QED
    BY <2>5 DEF d2
<1> HIDE DEF to, a2, a3, New
<1>11. /\ IsWithGroup(d, to(a2, d.backupGroup), p, g, id, FALSE)
       /\ IsWithGroup(d, to(a3, g), p, g, id, TRUE)
  BY <1>7, <1>10
<1>12. QED
  BY <1>8, <1>9, <1>11 DEF CreateBackupGroup

(* If it is flagged only as the first Backup group, all agrees again.             *)
LEMMA GroupAdded ==
    ASSUME NEW d, IsTree(d), NEW p \in InTree(d), NEW g \in Groups \ InTree(d), NEW id \in Ids,
           NEW flag \in BOOLEAN, flag => p = Root /\ d.backupGroup = None,
           NEW d2, IsWithGroup(d, d2, p, g, id, flag)
    PROVE  /\ IsTree(d2)
           /\ InTree(d2) = InTree(d) \cup {g}
           /\ Home(d2) = Home(d) /\ d2.entry = d.entry
<1>1. d \in Trees /\ GroupsAgree(d) /\ EntriesAgree(d) /\ BackupAgrees(d)
  BY DEF IsTree
<1>2. /\ d2 \in Trees /\ d2.entry = d.entry
      /\ d2.backupGroup = IF flag THEN g ELSE d.backupGroup
  BY DEF IsWithGroup
<1>3. \A h \in Groups :
         /\ d2.group[h].subGroups = IF h = p THEN Append(d.group[p].subGroups, g)
                                             ELSE d.group[h].subGroups
         /\ d2.group[h].parent = IF h = g THEN p ELSE d.group[h].parent
         /\ d2.group[h].level  = IF h = g THEN d.group[p].level + 1 ELSE d.group[h].level
  BY DEF IsWithGroup
<1>4. \A h \in Groups :
         /\ d2.group[h].entries = d.group[h].entries
         /\ d2.group[h].id = IF h = g THEN id ELSE d.group[h].id
         /\ d2.group[h].reserved = IF h = g THEN flag ELSE d.group[h].reserved
         /\ d2.group[h].deleted = IF h = g THEN flag ELSE d.group[h].deleted
  BY DEF IsWithGroup
<1>5. Root \in InTree(d) /\ InTree(d) \subseteq Groups
  BY <1>1, TreeLinks
<1>6. p \in Groups /\ g \in Groups /\ p # g /\ g # Root /\ p # None /\ g # None
  BY <1>5, Bound
<1>7. \A h \in Groups \ InTree(d) : d.group[h] = NewGroup
  BY <1>1, TreeLinks
<1>8. d.group[g].parent = None
  BY <1>6, <1>7, NewGroupFields
<1>9. InTree(d2) = InTree(d) \cup {g}
  BY <1>3, <1>5, <1>6 DEF InTree
<1>10. Home(d2) = Home(d)
  BY <1>2 DEF Home
<1>11. GroupsAgree(d2)
  <2>1. ASSUME NEW q \in Groups
        PROVE  /\ IsInjective(d2.group[q].subGroups)
               /\ ToSet(d2.group[q].subGroups) = {x \in Groups : d2.group[x].parent = q}
    <3>1. /\ d.group[q].subGroups \in Seq(Groups) /\ IsInjective(d.group[q].subGroups)
          /\ ToSet(d.group[q].subGroups) = {x \in Groups : d.group[x].parent = q}
      BY <1>1, TreeFields DEF GroupsAgree
    <3>2. CASE q # p
      <4>1. \A x \in Groups : d2.group[x].parent = q <=> d.group[x].parent = q
        BY <1>3, <1>6, <1>8, <3>2, Bound
      <4>2. d2.group[q].subGroups = d.group[q].subGroups
        BY <1>3, <3>2
      <4>3. QED
        BY <3>1, <4>1, <4>2
    <3>3. CASE q = p
      <4>1. g \notin ToSet(d.group[p].subGroups)
        BY <1>6, <1>8, <3>1, <3>3
      <4>2. /\ IsInjective(Append(d.group[p].subGroups, g))
            /\ ToSet(Append(d.group[p].subGroups, g)) = ToSet(d.group[p].subGroups) \cup {g}
        BY <1>6, <3>1, <3>3, <4>1, AddedLast
      <4>3. \A x \in Groups : d2.group[x].parent = q <=> d.group[x].parent = q \/ x = g
        BY <1>3, <3>3
      <4>4. d2.group[q].subGroups = Append(d.group[p].subGroups, g)
        BY <1>3, <3>3
      <4>5. QED
        BY <1>6, <3>1, <3>3, <4>2, <4>3, <4>4
    <3>4. QED
      BY <3>2, <3>3
  <2>2. ASSUME NEW x \in InTree(d2) \ {Root}
        PROVE  d2.group[x].level = d2.group[d2.group[x].parent].level + 1
    <3>1. CASE x = g
      BY <1>3, <1>6, <3>1
    <3>2. CASE x # g
      <4>1. x \in InTree(d) \ {Root} /\ x \in Groups
        BY <1>5, <1>9, <3>2
      <4>2. \A y \in InTree(d) \ {Root} : /\ d.group[y].parent \in InTree(d)
                                          /\ y \in Kids(d, d.group[y].parent)
                                          /\ d.group[y].level =
                                                d.group[d.group[y].parent].level + 1
        BY <1>1, TreeLinks
      <4>3. d.group[x].parent \in Groups /\ d.group[x].parent # g
        BY <1>5, <4>1, <4>2
      <4>4. QED
        BY <1>3, <3>2, <4>1, <4>2, <4>3
    <3>3. QED
      BY <3>1, <3>2
  <2>3. ASSUME NEW x \in Groups \ InTree(d2)
        PROVE  d2.group[x] = NewGroup
    <3>1. x \in Groups \ InTree(d) /\ x # g /\ x # p
      BY <1>9
    <3>2. d2.group[x] \in GroupStates /\ d.group[x] \in GroupStates
      BY <1>1, <1>2, TreeFields
    <3>3. d2.group[x] = d.group[x]
      BY <1>3, <1>4, <3>1, <3>2, SameGroup
    <3>4. QED
      BY <1>7, <3>1, <3>3
  <2>4. d2.group[Root] = [NewGroup EXCEPT !.subGroups = d2.group[Root].subGroups]
    <3>1. /\ d.group[Root].parent = None /\ d.group[Root].level = -1
          /\ d.group[Root].entries = <<>> /\ d.group[Root].id = None
          /\ d.group[Root].reserved = FALSE /\ d.group[Root].deleted = FALSE
      BY <1>1, TreeLinks
    <3>2. d2.group[Root] \in GroupStates /\ Root \in Groups
      BY <1>2, TreeFields, Bound
    <3>3. /\ d2.group[Root].parent = None /\ d2.group[Root].level = -1
          /\ d2.group[Root].entries = <<>> /\ d2.group[Root].id = None
          /\ d2.group[Root].reserved = FALSE /\ d2.group[Root].deleted = FALSE
      BY <1>3, <1>4, <1>6, <3>1, <3>2
    <3>4. QED
      BY <3>2, <3>3, RootIsPlain
  <2>5. QED
    BY <2>1, <2>2, <2>3, <2>4 DEF GroupsAgree
<1>12. EntriesAgree(d2)
  <2>1. \A h \in Groups : IsInjective(d2.group[h].entries) /\
                          ToSet(d2.group[h].entries) = {e \in Entries : d2.entry[e].group = h}
    BY <1>1, <1>2, <1>4 DEF EntriesAgree
  <2>2. \A e \in Home(d2) : d2.entry[e].groupId = d2.group[d2.entry[e].group].id
    <3>1. \A e \in Home(d) : d.entry[e].groupId = d.group[d.entry[e].group].id
      BY <1>1 DEF EntriesAgree
    <3>2. \A e \in Home(d) : d.entry[e].group \in InTree(d) \ {Root}
      BY <1>1, TreeEntries
    <3>3. QED
      BY <1>2, <1>4, <1>5, <1>10, <3>1, <3>2
  <2>3. \A e \in Entries \ Home(d2) : d2.entry[e] = NoEntry
    BY <1>1, <1>2, <1>10 DEF EntriesAgree
  <2>4. QED
    BY <2>1, <2>2, <2>3 DEF EntriesAgree
<1>14. BackupAgrees(d2)
  <2>1. /\ d.backupGroup # None => d.group[d.backupGroup].parent = Root
        /\ \A h \in InTree(d) : /\ d.group[h].reserved <=> h = d.backupGroup
                                /\ d.group[h].deleted <=> h = d.backupGroup
        /\ \A e \in Home(d) : d.entry[e].deleted <=> d.entry[e].group = d.backupGroup
    BY <1>1 DEF BackupAgrees
  <2>2. d.backupGroup \in Groups \cup {None} /\ d.backupGroup # g
    <3>1. d.backupGroup \in Groups \cup {None}
      BY <1>1, TreeFields
    <3>2. QED
      BY <1>6, <1>8, <2>1, <3>1, Bound
  <2>3. d2.backupGroup # None => d2.group[d2.backupGroup].parent = Root
    BY <1>2, <1>3, <1>6, <2>1, <2>2
  <2>4. \A e \in Home(d) : d.entry[e].group \in InTree(d) \ {Root}
    BY <1>1, TreeEntries
  <2>5. \A e \in Home(d2) : d2.entry[e].deleted <=> d2.entry[e].group = d2.backupGroup
    BY <1>2, <1>5, <1>6, <1>10, <2>1, <2>4, Bound
  <2>6. ASSUME NEW h \in InTree(d2)
        PROVE  /\ d2.group[h].reserved <=> h = d2.backupGroup
               /\ d2.group[h].deleted <=> h = d2.backupGroup
    <3>1. CASE h = g
      BY <1>2, <1>4, <1>6, <2>2, <3>1
    <3>2. CASE h # g
      <4>1. h \in InTree(d) /\ h \in Groups /\ h # None
        BY <1>5, <1>9, <3>2, Bound
      <4>2. d2.group[h].reserved = d.group[h].reserved /\ d2.group[h].deleted = d.group[h].deleted
        BY <1>4, <3>2, <4>1
      <4>3. h = d2.backupGroup <=> h = d.backupGroup
        BY <1>2, <3>2, <4>1
      <4>4. QED
        BY <2>1, <4>1, <4>2, <4>3
    <3>3. QED
      BY <3>1, <3>2
  <2>7. QED
    BY <2>3, <2>5, <2>6 DEF BackupAgrees
<1>15. QED
  BY <1>2, <1>9, <1>10, <1>11, <1>12, <1>14 DEF IsTree

----------------------------------------------------------------------------------
(* An entry more                                                                *)

(* A list without members is empty.                                             *)
LEMMA NoMembers ==
    ASSUME NEW S, NEW s \in Seq(S), ToSet(s) = {}
    PROVE  s = <<>>
<1>1. s # <<>> => s[1] \in ToSet(s)
  BY DEF ToSet
<1>2. QED
  BY <1>1

(* If only entries change, and their lists agree and the flags are right, it is *)
(* a tree.                                                                      *)
LEMMA EntriesChanged ==
    ASSUME NEW d, IsTree(d), NEW d2 \in Trees, SameLinks(d, d2), EntriesAgree(d2),
           \A e \in Home(d2) : /\ d2.entry[e].group \in InTree(d) \ {Root}
                               /\ d2.entry[e].deleted <=> d2.entry[e].group = d.backupGroup
    PROVE  IsTree(d2) /\ InTree(d2) = InTree(d)
<1>1. d \in Trees /\ GroupsAgree(d) /\ EntriesAgree(d) /\ BackupAgrees(d)
  BY DEF IsTree
<1>2. /\ \A h \in Groups : d2.group[h].subGroups = d.group[h].subGroups
      /\ \A h \in Groups : d2.group[h].parent = d.group[h].parent
      /\ \A h \in Groups : d2.group[h].level = d.group[h].level
      /\ \A h \in Groups : d2.group[h].id = d.group[h].id
      /\ \A h \in Groups : d2.group[h].reserved = d.group[h].reserved
      /\ \A h \in Groups : d2.group[h].deleted = d.group[h].deleted
      /\ d2.backupGroup = d.backupGroup
  BY DEF SameLinks
<1>3. InTree(d2) = InTree(d)
  BY <1>2 DEF InTree
<1>4. Root \in InTree(d) /\ InTree(d) \subseteq Groups
  BY <1>1, TreeLinks
<1>5. \A h \in Groups \ (InTree(d) \ {Root}) : d2.group[h].entries = <<>>
  <2> SUFFICES ASSUME NEW h \in Groups \ (InTree(d) \ {Root}) PROVE d2.group[h].entries = <<>>
    OBVIOUS
  <2>1. d2.group[h].entries \in Seq(Entries)
    BY TreeFields
  <2>2. ToSet(d2.group[h].entries) = {e \in Entries : d2.entry[e].group = h}
    BY DEF EntriesAgree
  <2>3. \A e \in Entries : d2.entry[e].group # h
    BY Bound DEF Home
  <2>4. ToSet(d2.group[h].entries) = {}
    BY <2>2, <2>3
  <2> DEFINE s == d2.group[h].entries
  <2>5. s \in Seq(Entries) /\ ToSet(s) = {}
    BY <2>1, <2>4
  <2> HIDE DEF s
  <2>6. s = <<>>
    BY ONLY <2>5, NoMembers
  <2>7. QED
    BY <2>6 DEF s
<1>6. GroupsAgree(d2)
  <2>1. \A p \in Groups : IsInjective(d2.group[p].subGroups)
    BY <1>1, <1>2 DEF GroupsAgree
  <2>2. ASSUME NEW p \in Groups
        PROVE  ToSet(d2.group[p].subGroups) = {g \in Groups : d2.group[g].parent = p}
    <3>1. ToSet(d.group[p].subGroups) = {g \in Groups : d.group[g].parent = p}
      BY <1>1 DEF GroupsAgree
    <3>2. {g \in Groups : d2.group[g].parent = p} = {g \in Groups : d.group[g].parent = p}
      BY <1>2
    <3>3. QED
      BY <1>2, <3>1, <3>2
  <2>3. ASSUME NEW g \in InTree(d2) \ {Root}
        PROVE  d2.group[g].level = d2.group[d2.group[g].parent].level + 1
    <3>1. \A x \in InTree(d) \ {Root} : /\ d.group[x].parent \in InTree(d)
                                            /\ x \in Kids(d, d.group[x].parent)
                                            /\ d.group[x].level =
                                                  d.group[d.group[x].parent].level + 1
      BY ONLY <1>1, TreeLinks
    <3>2. g \in InTree(d) \ {Root} /\ g \in Groups /\ d.group[g].parent \in Groups
      BY <1>3, <1>4, <3>1
    <3>3. d2.group[g].parent = d.group[g].parent
      BY <1>2, <3>2
    <3>4. d2.group[d.group[g].parent].level = d.group[d.group[g].parent].level
      BY <1>2, <3>2
    <3>5. d2.group[g].level = d.group[g].level
      BY <1>2, <3>2
    <3>6. d.group[g].level = d.group[d.group[g].parent].level + 1
      BY <3>1, <3>2
    <3>7. QED
      BY <3>3, <3>4, <3>5, <3>6
  <2>4. ASSUME NEW g \in Groups \ InTree(d2)
        PROVE  d2.group[g] = NewGroup
    <3>1. d.group[g] = NewGroup
      BY <1>1, <1>3 DEF GroupsAgree
    <3>2. d2.group[g] \in GroupStates /\ d2.group[g].entries = <<>>
      BY <1>3, <1>5, TreeFields
    <3>3. NewGroup \in GroupStates /\ NewGroup.entries = <<>>
      BY NewGroupFields
    <3>4. /\ d2.group[g].subGroups = d.group[g].subGroups /\ d2.group[g].parent = d.group[g].parent
          /\ d2.group[g].level = d.group[g].level /\ d2.group[g].id = d.group[g].id
          /\ d2.group[g].reserved = d.group[g].reserved /\ d2.group[g].deleted = d.group[g].deleted
      BY <1>2
    <3> DEFINE r == d2.group[g]
    <3>5. /\ r.subGroups = NewGroup.subGroups /\ r.entries = NewGroup.entries
          /\ r.parent = NewGroup.parent /\ r.level = NewGroup.level /\ r.id = NewGroup.id
          /\ r.reserved = NewGroup.reserved /\ r.deleted = NewGroup.deleted
      BY <3>1, <3>2, <3>3, <3>4
    <3>6. r \in GroupStates
      BY <3>2
    <3> HIDE DEF r
    <3>7. r = NewGroup
      BY ONLY <3>3, <3>5, <3>6, SameGroup
    <3>8. QED
      BY <3>7 DEF r
  <2>5. d2.group[Root] = [NewGroup EXCEPT !.subGroups = d2.group[Root].subGroups]
    <3>1. /\ d.group[Root].parent = None /\ d.group[Root].level = -1
          /\ d.group[Root].entries = <<>> /\ d.group[Root].id = None
          /\ d.group[Root].reserved = FALSE /\ d.group[Root].deleted = FALSE
      BY <1>1, TreeLinks
    <3>2. d2.group[Root] \in GroupStates /\ Root \in Groups /\ d2.group[Root].entries = <<>>
      BY <1>4, <1>5, TreeFields
    <3>3. /\ d2.group[Root].parent = None /\ d2.group[Root].level = -1
          /\ d2.group[Root].id = None
          /\ d2.group[Root].reserved = FALSE /\ d2.group[Root].deleted = FALSE
      BY <1>2, <3>1, <3>2
    <3>4. QED
      BY <3>2, <3>3, RootIsPlain
  <2>6. QED
    BY <2>1, <2>2, <2>3, <2>4, <2>5 DEF GroupsAgree
<1>8. BackupAgrees(d2)
  <2>1. d2.backupGroup # None => d2.group[d2.backupGroup].parent = Root
    <3>1. d.backupGroup # None => d.backupGroup \in Groups
      BY <1>1, TreeFields
    <3>2. QED
      BY <1>1, <1>2, <3>1 DEF BackupAgrees
  <2>2. \A g \in InTree(d2) : /\ d2.group[g].reserved <=> g = d2.backupGroup
                              /\ d2.group[g].deleted <=> g = d2.backupGroup
    BY <1>1, <1>2, <1>3, <1>4 DEF BackupAgrees
  <2>3. QED
    BY <1>2, <2>1, <2>2 DEF BackupAgrees
<1>9. QED
  BY <1>3, <1>6, <1>8 DEF IsTree

(* An entry is appended to the list of a group.                                   *)
LEMMA EntryAdded ==
    ASSUME NEW d \in Trees, NEW g \in Groups, NEW e \in Entries, NEW r \in EntryStates
    PROVE  LET d2 == AddEntry([d EXCEPT !.entry[e] = r], g, e)
           IN  /\ d2 \in Trees /\ SameLinks(d, d2)
               /\ \A h \in Groups : d2.group[h].entries =
                                       IF h = g THEN Append(d.group[g].entries, e)
                                                ELSE d.group[h].entries
               /\ d2.entry[e].group = g /\ d2.entry[e].groupId = d.group[g].id
               /\ d2.entry[e].title = r.title /\ d2.entry[e].deleted = r.deleted
               /\ \A x \in Entries \ {e} : d2.entry[x] = d.entry[x]
<1> DEFINE d1 == [d EXCEPT !.entry[e] = r]
           d2 == AddEntry(d1, g, e)
           i  == d.group[g].id
           es == Append(d.group[g].entries, e)
           r2 == [[r EXCEPT !.group = g] EXCEPT !.groupId = i]
           gr == [d.group EXCEPT ![g] = [d.group[g] EXCEPT !.entries = es]]
           en == [d.entry EXCEPT ![e] = r]
           e2 == [en EXCEPT ![e] = [en[e] EXCEPT !.group = g]]
           e3 == [e2 EXCEPT ![e] = [e2[e] EXCEPT !.groupId = i]]
<1>1. /\ d.group \in [Groups -> GroupStates] /\ d.entry \in [Entries -> EntryStates]
      /\ d = [group |-> d.group, entry |-> d.entry, backupGroup |-> d.backupGroup]
      /\ d.backupGroup \in (Groups \ {Root}) \cup {None}
  BY DEF Trees
<1>2. d1 = [group |-> d.group, entry |-> en, backupGroup |-> d.backupGroup]
  BY <1>1
<1>3. d2 = [group |-> gr, entry |-> e3, backupGroup |-> d.backupGroup]
  <2>1. d2 = [d1 EXCEPT !.group[g].entries = Append(d1.group[g].entries, e),
                        !.entry[e].group = g,
                        !.entry[e].groupId = d1.group[g].id]
    BY DEF AddEntry
  <2> DEFINE G == d.group
             B == d.backupGroup
             t1 == [d1 EXCEPT !.group = [d1.group EXCEPT ![g] = [d1.group[g] EXCEPT !.entries = es]]]
             t2 == [t1 EXCEPT !.entry = [t1.entry EXCEPT ![e] = [t1.entry[e] EXCEPT !.group = g]]]
             t3 == [t2 EXCEPT !.entry = [t2.entry EXCEPT ![e] = [t2.entry[e] EXCEPT !.groupId = i]]]
  <2>2. Append(d1.group[g].entries, e) = es /\ d1.group[g].id = i
    BY <1>2
  <2> HIDE DEF d1, d2, es, i
  <2>3. d2 = t3
    BY ONLY <2>1, <2>2
  <2> HIDE DEF en
  <2>4. t1 = [group |-> gr, entry |-> en, backupGroup |-> B]
    BY ONLY <1>2
  <2> HIDE DEF t1, gr, B
  <2>5. t2 = [group |-> gr, entry |-> e2, backupGroup |-> B]
    BY ONLY <2>4
  <2> HIDE DEF t2, e2
  <2>6. t3 = [group |-> gr, entry |-> e3, backupGroup |-> B]
    BY ONLY <2>5
  <2> HIDE DEF t3, e3
  <2>7. QED
    BY ONLY <2>3, <2>6 DEF B
<1>4. i \in Ids \cup {None} /\ d.group[g].entries \in Seq(Entries) /\ d.group[g] \in GroupStates
  BY TreeFields
<1>5. es \in Seq(Entries)
  BY <1>4
<1>6. \A h \in Groups : gr[h] = IF h = g THEN [d.group[g] EXCEPT !.entries = es] ELSE d.group[h]
  BY <1>1
<1>7. \A x \in Entries : e3[x] = IF x = e THEN r2 ELSE d.entry[x]
  BY <1>1
<1> HIDE DEF es, i
<1>8. /\ r2 \in EntryStates /\ r2.group = g /\ r2.groupId = i /\ r2.title = r.title
      /\ r2.deleted = r.deleted
  BY <1>4 DEF EntryStates
<1> HIDE DEF r2
<1>9. gr \in [Groups -> GroupStates] /\ e3 \in [Entries -> EntryStates]
  <2>1. [d.group[g] EXCEPT !.entries = es] \in GroupStates
    BY <1>4, <1>5 DEF GroupStates
  <2>2. \A h \in Groups : gr[h] \in GroupStates
    BY <1>1, <1>6, <2>1
  <2>3. \A x \in Entries : e3[x] \in EntryStates
    BY <1>1, <1>7, <1>8
  <2>4. gr = [h \in Groups |-> gr[h]] /\ e3 = [x \in Entries |-> e3[x]]
    BY <1>1
  <2> HIDE DEF gr, e3
  <2>5. QED
    BY <2>2, <2>3, <2>4
<1> HIDE DEF gr, e3, d1
<1>10. d2 \in Trees
  BY <1>1, <1>3, <1>9 DEF Trees
<1>11. d2.group = gr /\ d2.entry = e3 /\ d2.backupGroup = d.backupGroup
  BY <1>3
<1> HIDE DEF d2
<1>12. SameLinks(d, d2)
  <2>1. ASSUME NEW h \in Groups
        PROVE  /\ gr[h].subGroups = d.group[h].subGroups /\ gr[h].parent = d.group[h].parent
               /\ gr[h].level = d.group[h].level /\ gr[h].id = d.group[h].id
               /\ gr[h].reserved = d.group[h].reserved /\ gr[h].deleted = d.group[h].deleted
    <3>1. CASE h = g
      <4> DEFINE s == d.group[g]
                 t == [s EXCEPT !.entries = es]
      <4>1. /\ t.subGroups = s.subGroups /\ t.parent = s.parent /\ t.level = s.level
            /\ t.id = s.id /\ t.reserved = s.reserved /\ t.deleted = s.deleted
        BY <1>4 DEF GroupStates
      <4>2. gr[h] = t
        BY <1>6, <3>1
      <4>3. QED
        BY <3>1, <4>1, <4>2
    <3>2. CASE h # g
      BY <1>6, <3>2
    <3>3. QED
      BY <3>1, <3>2
  <2>2. QED
    BY <1>11, <2>1 DEF SameLinks
<1>13. \A h \in Groups : d2.group[h].entries = IF h = g THEN es ELSE d.group[h].entries
  <2>1. [d.group[g] EXCEPT !.entries = es].entries = es
    BY <1>4 DEF GroupStates
  <2>2. QED
    BY <1>6, <1>11, <2>1
<1>14. \A x \in Entries : d2.entry[x] = IF x = e THEN r2 ELSE d.entry[x]
  BY <1>7, <1>11
<1>15. QED
  BY <1>8, <1>10, <1>12, <1>13, <1>14 DEF d2, d1, es, i

(* A new entry in a group.                                                        *)
LEMMA EntryPut ==
    ASSUME NEW d \in Trees, EntriesAgree(d), NEW g \in Groups,
           NEW e \in Entries \ Home(d), NEW r \in EntryStates
    PROVE  LET d2 == AddEntry([d EXCEPT !.entry[e] = r], g, e)
           IN  /\ d2 \in Trees /\ SameLinks(d, d2) /\ EntriesAgree(d2)
               /\ Home(d2) = Home(d) \cup {e}
               /\ d2.entry[e].group = g /\ d2.entry[e].groupId = d.group[g].id
               /\ d2.entry[e].title = r.title /\ d2.entry[e].deleted = r.deleted
               /\ \A x \in Entries \ {e} : d2.entry[x] = d.entry[x]
               /\ \A h \in Groups : d2.group[h].entries =
                                       IF h = g THEN Append(d.group[g].entries, e)
                                                ELSE d.group[h].entries
<1> DEFINE d2 == AddEntry([d EXCEPT !.entry[e] = r], g, e)
           es == Append(d.group[g].entries, e)
<1>1. /\ d2 \in Trees /\ SameLinks(d, d2)
      /\ \A h \in Groups : d2.group[h].entries = IF h = g THEN es ELSE d.group[h].entries
      /\ d2.entry[e].group = g /\ d2.entry[e].groupId = d.group[g].id
      /\ d2.entry[e].title = r.title /\ d2.entry[e].deleted = r.deleted
      /\ \A x \in Entries \ {e} : d2.entry[x] = d.entry[x]
  BY EntryAdded
<1>2. d.group[g].entries \in Seq(Entries)
  BY TreeFields
<1> HIDE DEF d2, es
<1>3. Home(d2) = Home(d) \cup {e}
  BY <1>1, Bound DEF Home
<1>4. EntriesAgree(d2)
  <2>1. /\ \A h \in Groups : IsInjective(d.group[h].entries)
        /\ \A h \in Groups : ToSet(d.group[h].entries) = {x \in Entries : d.entry[x].group = h}
        /\ \A x \in Home(d) : d.entry[x].groupId = d.group[d.entry[x].group].id
        /\ \A x \in Entries \ Home(d) : d.entry[x] = NoEntry
    BY DEF EntriesAgree
  <2>2. d.entry[e].group = None
    BY DEF Home
  <2>3. IsInjective(es) /\ ToSet(es) = ToSet(d.group[g].entries) \cup {e}
    <3>1. e \notin ToSet(d.group[g].entries)
      BY <2>1, <2>2, Bound
    <3>2. QED
      BY <1>2, <2>1, <3>1, AddedLast DEF es
  <2>4. ASSUME NEW h \in Groups
        PROVE  /\ IsInjective(d2.group[h].entries)
               /\ ToSet(d2.group[h].entries) = {x \in Entries : d2.entry[x].group = h}
    <3>1. CASE h = g
      <4>1. \A x \in Entries : d2.entry[x].group = g <=> x = e \/ d.entry[x].group = g
        BY <1>1
      <4>2. d2.group[h].entries = es
        BY <1>1, <3>1
      <4>3. QED
        BY <2>1, <2>3, <3>1, <4>1, <4>2
    <3>2. CASE h # g
      <4>1. \A x \in Entries : d2.entry[x].group = h <=> d.entry[x].group = h
        BY <1>1, <2>2, <3>2, Bound
      <4>2. d2.group[h].entries = d.group[h].entries
        BY <1>1, <3>2
      <4>3. QED
        BY <2>1, <4>1, <4>2
    <3>3. QED
      BY <3>1, <3>2
  <2>5. ASSUME NEW x \in Home(d2)
        PROVE  d2.entry[x].groupId = d2.group[d2.entry[x].group].id
    <3>1. \A h \in Groups : d2.group[h].id = d.group[h].id
      BY <1>1 DEF SameLinks
    <3>2. CASE x = e
      BY <1>1, <3>1, <3>2
    <3>3. CASE x # e
      <4>1. x \in Home(d) /\ x \in Entries
        BY <1>3, <3>3 DEF Home
      <4>2. d.entry[x].group \in Groups
        BY <4>1, TreeFields DEF Home
      <4>3. QED
        BY <1>1, <2>1, <3>1, <3>3, <4>1, <4>2
    <3>4. QED
      BY <3>2, <3>3
  <2>6. \A x \in Entries \ Home(d2) : d2.entry[x] = NoEntry
    BY <1>1, <1>3, <2>1
  <2>7. QED
    BY <2>4, <2>5, <2>6 DEF EntriesAgree
<1>5. QED
  BY <1>1, <1>3, <1>4 DEF d2, es

----------------------------------------------------------------------------------
(* An entry in the Backup group                                                 *)

(* d2 is d with the entries of M moved to the Backup group.                       *)
IsMoved(d, d2, M) ==
    /\ d2 \in Trees /\ SameLinks(d, d2) /\ EntriesAgree(d2) /\ Home(d2) = Home(d)
    /\ \A x \in Entries :
          /\ d2.entry[x].group = IF x \in M THEN d.backupGroup ELSE d.entry[x].group
          /\ d2.entry[x].title = d.entry[x].title
          /\ d2.entry[x].deleted <=> x \in M \/ d.entry[x].deleted

(* EntryToBackup() moves an entry of another group.                               *)
LEMMA EntryMoved ==
    ASSUME NEW d \in Trees, EntriesAgree(d), d.backupGroup # None,
           NEW e \in Home(d), d.entry[e].group # d.backupGroup
    PROVE  IsMoved(d, EntryToBackup(d, e), {e})
<1> DEFINE d2 == EntryToBackup(d, e)
           G  == d.group
           b  == d.backupGroup
           a  == d.entry[e].group
           i  == d.group[b].id
           es == Append(d.group[b].entries, e)
           rs == RemoveFirst(d.group[a].entries, e)
           yes == TRUE
           gr == [G EXCEPT ![b] = [G[b] EXCEPT !.entries = es]]
           g2 == [gr EXCEPT ![a] = [gr[a] EXCEPT !.entries = rs]]
           en == [d.entry EXCEPT ![e] = [d.entry[e] EXCEPT !.group = b]]
           e2 == [en EXCEPT ![e] = [en[e] EXCEPT !.groupId = i]]
           e3 == [e2 EXCEPT ![e] = [e2[e] EXCEPT !.deleted = yes]]
           r2 == [[[d.entry[e] EXCEPT !.group = b] EXCEPT !.groupId = i] EXCEPT !.deleted = yes]
<1>1. /\ d.group \in [Groups -> GroupStates] /\ d.entry \in [Entries -> EntryStates]
      /\ d = [group |-> d.group, entry |-> d.entry, backupGroup |-> d.backupGroup]
      /\ b \in Groups \ {Root}
  BY DEF Trees
<1>2. e \in Entries /\ a \in Groups /\ a # b
  <2>1. e \in Entries /\ d.entry[e].group # None
    BY DEF Home
  <2>2. QED
    BY <2>1, TreeFields
<1>3. d2 = [group |-> g2, entry |-> e3, backupGroup |-> b]
  <2>1. d2 = [MoveEntry(d, b, e) EXCEPT !.entry[e].deleted = TRUE]
    BY DEF EntryToBackup
  <2>2. MoveEntry(d, b, e) =
            [d EXCEPT !.group[b].entries = Append(d.group[b].entries, e),
                      !.group[a].entries = RemoveFirst(gr[a].entries, e),
                      !.entry[e].group = b,
                      !.entry[e].groupId = d.group[b].id]
    BY <1>1, <1>2 DEF MoveEntry
  <2>3. gr[a].entries = d.group[a].entries
    BY <1>1, <1>2
  <2> DEFINE E == d.entry
             t1 == [d EXCEPT !.group = [d.group EXCEPT ![b] = [d.group[b] EXCEPT !.entries = es]]]
             t2 == [t1 EXCEPT !.group = [t1.group EXCEPT ![a] = [t1.group[a] EXCEPT !.entries = rs]]]
             t3 == [t2 EXCEPT !.entry = [t2.entry EXCEPT ![e] = [t2.entry[e] EXCEPT !.group = b]]]
             t4 == [t3 EXCEPT !.entry = [t3.entry EXCEPT ![e] = [t3.entry[e] EXCEPT !.groupId = i]]]
             t5 == [t4 EXCEPT !.entry = [t4.entry EXCEPT ![e] = [t4.entry[e] EXCEPT !.deleted = yes]]]
  <2> HIDE DEF d2
  <2>4. d2 = t5
    BY ONLY <2>1, <2>2, <2>3
  <2>5. d = [group |-> G, entry |-> E, backupGroup |-> b]
    BY <1>1
  <2> HIDE DEF es, i, rs, a, b, yes, G, E
  <2>6. t1 = [group |-> gr, entry |-> E, backupGroup |-> b]
    BY ONLY <2>5
  <2> HIDE DEF t1, gr
  <2>7. t2 = [group |-> g2, entry |-> E, backupGroup |-> b]
    BY ONLY <2>6
  <2> HIDE DEF t2, g2
  <2>8. en = [E EXCEPT ![e] = [E[e] EXCEPT !.group = b]]
    BY DEF E
  <2> HIDE DEF en
  <2>9. t3 = [group |-> g2, entry |-> en, backupGroup |-> b]
    BY ONLY <2>7, <2>8
  <2> HIDE DEF t3
  <2>10. t4 = [group |-> g2, entry |-> e2, backupGroup |-> b]
    BY ONLY <2>9
  <2> HIDE DEF t4, e2
  <2>11. t5 = [group |-> g2, entry |-> e3, backupGroup |-> b]
    BY ONLY <2>10
  <2>12. QED
    BY <2>4, <2>11
<1>4. /\ i \in Ids \cup {None} /\ d.group[b].entries \in Seq(Entries)
      /\ d.group[a].entries \in Seq(Entries)
  BY <1>1, <1>2, TreeFields
<1>5. /\ \A h \in Groups : IsInjective(d.group[h].entries)
      /\ \A h \in Groups : ToSet(d.group[h].entries) = {x \in Entries : d.entry[x].group = h}
      /\ \A x \in Home(d) : d.entry[x].groupId = d.group[d.entry[x].group].id
      /\ \A x \in Entries \ Home(d) : d.entry[x] = NoEntry
  BY DEF EntriesAgree
<1>6. /\ es \in Seq(Entries) /\ IsInjective(es) /\ ToSet(es) = ToSet(d.group[b].entries) \cup {e}
      /\ rs \in Seq(Entries) /\ IsInjective(rs) /\ ToSet(rs) = ToSet(d.group[a].entries) \ {e}
  <2>1. e \notin ToSet(d.group[b].entries) /\ e \in ToSet(d.group[a].entries)
    BY <1>1, <1>2, <1>5
  <2>2. IsInjective(d.group[b].entries) /\ IsInjective(d.group[a].entries)
    BY <1>1, <1>2, <1>5
  <2>3. es \in Seq(Entries) /\ IsInjective(es) /\ ToSet(es) = ToSet(d.group[b].entries) \cup {e}
    BY <1>2, <1>4, <2>1, <2>2, AddedLast
  <2>4. rs \in Seq(Entries) /\ IsInjective(rs) /\ ToSet(rs) = ToSet(d.group[a].entries) \ {e}
    BY <1>4, <2>1, <2>2, FirstRemoved
  <2>5. QED
    BY <2>3, <2>4
<1> HIDE DEF es, rs
<1>7. \A h \in Groups : g2[h] = IF h = a THEN [d.group[a] EXCEPT !.entries = rs]
                                ELSE IF h = b THEN [d.group[b] EXCEPT !.entries = es]
                                ELSE d.group[h]
  BY <1>1, <1>2
<1>8. \A x \in Entries : e3[x] = IF x = e THEN r2 ELSE d.entry[x]
  BY <1>1, <1>2
<1> HIDE DEF i
<1>9. /\ r2 \in EntryStates /\ r2.group = b /\ r2.groupId = i /\ r2.title = d.entry[e].title
      /\ r2.deleted = yes
  BY <1>1, <1>2, <1>4 DEF EntryStates
<1> HIDE DEF r2
<1>10. g2 \in [Groups -> GroupStates] /\ e3 \in [Entries -> EntryStates]
  <2>1. /\ [d.group[b] EXCEPT !.entries = es] \in GroupStates
        /\ [d.group[a] EXCEPT !.entries = rs] \in GroupStates
    <3>1. ASSUME NEW s \in GroupStates, NEW l \in Seq(Entries)
          PROVE  [s EXCEPT !.entries = l] \in GroupStates
      BY DEF GroupStates
    <3>2. d.group[b] \in GroupStates /\ d.group[a] \in GroupStates
      BY <1>1, <1>2
    <3>3. QED
      BY <1>6, <3>1, <3>2
  <2>2. \A h \in Groups : g2[h] \in GroupStates
    BY <1>1, <1>7, <2>1
  <2>3. \A x \in Entries : e3[x] \in EntryStates
    BY <1>1, <1>8, <1>9
  <2>4. g2 = [h \in Groups |-> g2[h]] /\ e3 = [x \in Entries |-> e3[x]]
    BY <1>1
  <2> HIDE DEF g2, e3
  <2>5. QED
    BY <2>2, <2>3, <2>4
<1> HIDE DEF g2, e3
<1>11. d2 \in Trees
  BY <1>1, <1>3, <1>10 DEF Trees
<1>12. d2.group = g2 /\ d2.entry = e3 /\ d2.backupGroup = d.backupGroup
  BY <1>3
<1> HIDE DEF d2, yes
<1>13. ASSUME NEW h \in Groups
       PROVE  /\ g2[h].subGroups = d.group[h].subGroups /\ g2[h].parent = d.group[h].parent
              /\ g2[h].level = d.group[h].level /\ g2[h].id = d.group[h].id
              /\ g2[h].reserved = d.group[h].reserved /\ g2[h].deleted = d.group[h].deleted
              /\ g2[h].entries = IF h = a THEN rs ELSE IF h = b THEN es ELSE d.group[h].entries
  <2> DEFINE s == d.group[h]
             to(l) == [s EXCEPT !.entries = l]
  <2>1. s \in GroupStates
    BY <1>1
  <2>2. ASSUME NEW l
        PROVE  /\ to(l).subGroups = s.subGroups /\ to(l).parent = s.parent
               /\ to(l).level = s.level /\ to(l).id = s.id /\ to(l).reserved = s.reserved
               /\ to(l).deleted = s.deleted /\ to(l).entries = l
    BY <2>1 DEF GroupStates
  <2>3. g2[h] = IF h = a THEN to(rs) ELSE IF h = b THEN to(es) ELSE s
    BY <1>7
  <2> HIDE DEF to, s
  <2>4. /\ g2[h].subGroups = s.subGroups /\ g2[h].parent = s.parent
        /\ g2[h].level = s.level /\ g2[h].id = s.id
        /\ g2[h].reserved = s.reserved /\ g2[h].deleted = s.deleted
        /\ g2[h].entries = IF h = a THEN rs ELSE IF h = b THEN es ELSE s.entries
    BY ONLY <2>2, <2>3
  <2>5. QED
    BY <2>4 DEF s
<1>14. SameLinks(d, d2)
  BY <1>12, <1>13 DEF SameLinks
<1>15. /\ \A x \in Entries : d2.entry[x] = IF x = e THEN r2 ELSE d.entry[x]
       /\ \A h \in Groups : d2.group[h].entries = IF h = a THEN rs
                                                  ELSE IF h = b THEN es ELSE d.group[h].entries
  BY <1>8, <1>12, <1>13
<1>16. Home(d2) = Home(d)
  BY <1>1, <1>9, <1>15, Bound DEF Home
<1>17. EntriesAgree(d2)
  <2>1. ASSUME NEW h \in Groups
        PROVE  /\ IsInjective(d2.group[h].entries)
               /\ ToSet(d2.group[h].entries) = {x \in Entries : d2.entry[x].group = h}
    <3>1. CASE h = b
      <4>1. \A x \in Entries : d2.entry[x].group = b <=> x = e \/ d.entry[x].group = b
        BY <1>9, <1>15
      <4>2. d2.group[h].entries = es
        BY <1>2, <1>15, <3>1
      <4>3. QED
        BY <1>1, <1>2, <1>5, <1>6, <3>1, <4>1, <4>2
    <3>2. CASE h = a
      <4>1. \A x \in Entries : d2.entry[x].group = a <=> x # e /\ d.entry[x].group = a
        BY <1>2, <1>9, <1>15
      <4>2. d2.group[h].entries = rs
        BY <1>2, <1>15, <3>2
      <4>3. QED
        BY <1>1, <1>2, <1>5, <1>6, <3>2, <4>1, <4>2
    <3>3. CASE h # a /\ h # b
      <4>1. \A x \in Entries : d2.entry[x].group = h <=> d.entry[x].group = h
        BY <1>9, <1>15, <3>3
      <4>2. d2.group[h].entries = d.group[h].entries
        BY <1>15, <3>3
      <4>3. QED
        BY <1>5, <4>1, <4>2
    <3>4. QED
      BY <3>1, <3>2, <3>3
  <2>2. ASSUME NEW x \in Home(d2)
        PROVE  d2.entry[x].groupId = d2.group[d2.entry[x].group].id
    <3>1. \A h \in Groups : d2.group[h].id = d.group[h].id
      BY <1>14 DEF SameLinks
    <3>2. CASE x = e
      BY <1>1, <1>2, <1>9, <1>15, <3>1, <3>2 DEF i
    <3>3. CASE x # e
      <4>1. x \in Home(d) /\ x \in Entries
        BY <1>16 DEF Home
      <4>2. d.entry[x].group \in Groups
        BY <4>1, TreeFields DEF Home
      <4>3. QED
        BY <1>5, <1>15, <3>1, <3>3, <4>1, <4>2
    <3>4. QED
      BY <3>2, <3>3
  <2>3. \A x \in Entries \ Home(d2) : d2.entry[x] = NoEntry
    BY <1>5, <1>15, <1>16
  <2>4. QED
    BY <2>1, <2>2, <2>3 DEF EntriesAgree
<1>18. \A x \in Entries :
          /\ d2.entry[x].group = IF x \in {e} THEN b ELSE d.entry[x].group
          /\ d2.entry[x].title = d.entry[x].title
          /\ d2.entry[x].deleted <=> x \in {e} \/ d.entry[x].deleted
  BY <1>9, <1>15 DEF yes
<1>19. QED
  BY <1>11, <1>14, <1>16, <1>17, <1>18 DEF IsMoved, d2

(* Entry after entry.                                                             *)
LEMMA MovedAgain ==
    ASSUME NEW d, NEW d1, NEW d2, NEW M, NEW e, IsMoved(d, d1, M), IsMoved(d1, d2, {e})
    PROVE  IsMoved(d, d2, M \cup {e})
<1>1. d2 \in Trees /\ EntriesAgree(d2) /\ Home(d2) = Home(d)
  BY DEF IsMoved
<1>2. SameLinks(d, d2)
  BY DEF IsMoved, SameLinks
<1>3. d1.backupGroup = d.backupGroup
  BY DEF IsMoved, SameLinks
<1>4. ASSUME NEW x \in Entries
      PROVE  /\ d2.entry[x].group = IF x \in M \cup {e} THEN d.backupGroup ELSE d.entry[x].group
             /\ d2.entry[x].title = d.entry[x].title
             /\ d2.entry[x].deleted <=> x \in M \cup {e} \/ d.entry[x].deleted
  <2>1. /\ d1.entry[x].group = IF x \in M THEN d.backupGroup ELSE d.entry[x].group
        /\ d1.entry[x].title = d.entry[x].title
        /\ d1.entry[x].deleted <=> x \in M \/ d.entry[x].deleted
    BY DEF IsMoved
  <2>2. /\ d2.entry[x].group = IF x \in {e} THEN d1.backupGroup ELSE d1.entry[x].group
        /\ d2.entry[x].title = d1.entry[x].title
        /\ d2.entry[x].deleted <=> x \in {e} \/ d1.entry[x].deleted
    BY DEF IsMoved
  <2>3. QED
    BY <1>3, <2>1, <2>2
<1>5. QED
  BY <1>1, <1>2, <1>4 DEF IsMoved

Moving == INSTANCE FoldLemmas WITH op <- LAMBDA none, d, e : EntryToBackup(d, e)

(* The entries of a list, one after the other.                                    *)
LEMMA AllMoved ==
    ASSUME NEW d \in Trees, EntriesAgree(d), d.backupGroup # None,
           NEW w \in Seq(Entries), IsInjective(w), ToSet(w) \subseteq Home(d),
           \A e \in ToSet(w) : d.entry[e].group # d.backupGroup
    PROVE  IsMoved(d, FoldLeft(EntryToBackup, d, w), ToSet(w))
<1> DEFINE n == Len(w)
           r == Moving!Steps({}, d, w, n)
           Got(k) == {x \in ToSet(w) : \E j \in 1..k : w[j] = x}
           Done(k) == IsMoved(d, r[k], Got(k))
           T == {k \in Nat : k > n \/ Done(k)}
<1>1. n \in Nat /\ DOMAIN w = 1..n
  OBVIOUS
<1>2. FoldLeft(EntryToBackup, d, w) = Moving!Folded({}, d, w)
  BY DEF Moving!Folded, FoldLeft, MapThenFoldSet, Moving!MapThenFoldSet,
         Max, Moving!Max
<1> HIDE DEF n
<1>3. /\ r[0] = d
      /\ \A k \in 1..n : r[k] = EntryToBackup(r[k - 1], w[k])
      /\ r[n] = Moving!Folded({}, d, w)
  BY <1>1, Moving!FoldLeftSteps
<1> HIDE DEF r
<1>4. 0 \in T
  <2>1. Got(0) = {}
    OBVIOUS
  <2>2. \A h \in Groups : /\ d.group[h].subGroups = d.group[h].subGroups
    OBVIOUS
  <2>3. SameLinks(d, d)
    BY DEF SameLinks
  <2> HIDE DEF Got
  <2>4. Done(0)
    BY <1>3, <2>1, <2>3 DEF IsMoved
  <2>5. QED
    BY <2>4
<1>5. ASSUME NEW k \in Nat, k \in T PROVE k + 1 \in T
  <2>1. CASE k + 1 > n
    BY <2>1
  <2>2. CASE k + 1 <= n
    <3> DEFINE d1 == r[k]
               e == w[k + 1]
    <3>1. k + 1 \in 1..n /\ (k + 1) - 1 = k /\ ~(k > n)
      BY <1>1, <2>2
    <3>2. IsMoved(d, d1, Got(k))
      BY <1>5, <3>1
    <3>3. r[k + 1] = EntryToBackup(d1, e)
      BY <1>3, <3>1
    <3>4. e \in ToSet(w)
      BY <1>1, <3>1 DEF ToSet
    <3>5. e \notin Got(k)
      BY <1>1, <3>1 DEF IsInjective
    <3>6. Got(k + 1) = Got(k) \cup {e}
      <4>1. 1..(k + 1) = (1..k) \cup {k + 1}
        OBVIOUS
      <4>2. QED
        BY <3>4, <4>1
    <3> HIDE DEF d1, e, Got
    <3>7. /\ d1 \in Trees /\ EntriesAgree(d1) /\ Home(d1) = Home(d)
          /\ d1.backupGroup = d.backupGroup
          /\ \A x \in Entries : d1.entry[x].group = IF x \in Got(k) THEN d.backupGroup
                                                                   ELSE d.entry[x].group
      BY <3>2 DEF IsMoved, SameLinks
    <3>8. e \in Entries /\ e \in Home(d) /\ d.entry[e].group # d.backupGroup
      BY <3>4 DEF Home
    <3>9. d1.entry[e].group # d1.backupGroup /\ d1.backupGroup # None /\ e \in Home(d1)
      BY <3>5, <3>7, <3>8
    <3>10. IsMoved(d1, EntryToBackup(d1, e), {e})
      BY <3>7, <3>9, EntryMoved
    <3>11. IsMoved(d, EntryToBackup(d1, e), Got(k) \cup {e})
      BY <3>2, <3>10, MovedAgain
    <3>12. IsMoved(d, r[k + 1], Got(k + 1))
      BY <3>3, <3>6, <3>11
    <3>13. QED
      BY <3>12
  <2>3. n \in Nat /\ k \in Nat
    BY <1>1, <1>5
  <2> HIDE DEF T
  <2>4. QED
    BY <2>1, <2>2, <2>3
<1>6. n \in T
  <2> HIDE DEF T
  <2>1. QED
    BY <1>1, <1>4, <1>5, Walking!NatSetInduction
<1>7. Done(n)
  BY <1>1, <1>6
<1>8. Got(n) = ToSet(w)
  BY <1>1, MembersOfSeq
<1> HIDE DEF Got
<1>9. QED
  BY <1>2, <1>3, <1>7, <1>8

(* The group g leaves its parent.                                                 *)
LEMMA GroupTaken ==
    ASSUME NEW d, d \in Trees, GroupsAgree(d), EntriesAgree(d), NEW g \in InTree(d) \ {Root}
    PROVE  LET p  == d.group[g].parent
               d0 == RemoveSubGroup(d, p, g)
           IN  /\ d0 \in Trees /\ d0.entry = d.entry /\ d0.backupGroup = d.backupGroup
               /\ \A h \in Groups :
                     /\ d0.group[h].subGroups = IF h = p THEN RemoveFirst(d.group[p].subGroups, g)
                                                         ELSE d.group[h].subGroups
                     /\ d0.group[h].entries  = d.group[h].entries
                     /\ h # g => d0.group[h].parent = d.group[h].parent
                     /\ h # g => d0.group[h].level  = d.group[h].level
                     /\ d0.group[h].id       = d.group[h].id
                     /\ d0.group[h].reserved = d.group[h].reserved
                     /\ d0.group[h].deleted  = d.group[h].deleted
<1> DEFINE G  == d.group
           p  == d.group[g].parent
           d0 == RemoveSubGroup(d, p, g)
           rs == RemoveFirst(d.group[p].subGroups, g)
           g1 == [G EXCEPT ![p] = [G[p] EXCEPT !.subGroups = rs]]
           g2 == [g1 EXCEPT ![g] = [g1[g] EXCEPT !.parent = None]]
           g3 == [g2 EXCEPT ![g] = [g2[g] EXCEPT !.level = 0]]
<1>1. /\ d.group \in [Groups -> GroupStates] /\ d.entry \in [Entries -> EntryStates]
      /\ d = [group |-> d.group, entry |-> d.entry, backupGroup |-> d.backupGroup]
      /\ d.backupGroup \in (Groups \ {Root}) \cup {None}
  BY DEF Trees
<1>2. /\ \A x \in InTree(d) \ {Root} : /\ d.group[x].parent \in InTree(d)
                                       /\ x \in Kids(d, d.group[x].parent)
                                       /\ d.group[x].level = d.group[d.group[x].parent].level + 1
      /\ InTree(d) \subseteq Groups
  BY TreeLinks
<1>3. p \in Groups /\ g \in Groups /\ g \in ToSet(d.group[p].subGroups)
  BY <1>2 DEF Kids
<1>4. p # g
  <2>1. d.group[g].level = d.group[p].level + 1 /\ d.group[g].level \in Int
    BY <1>1, <1>2, <1>3, TreeFields
  <2>2. QED
    BY <2>1
<1>5. rs \in Seq(Groups)
  <2>1. d.group[p].subGroups \in Seq(Groups) /\ IsInjective(d.group[p].subGroups)
    BY <1>3, TreeFields DEF GroupsAgree
  <2>2. QED
    BY <1>3, <2>1, FirstRemoved
<1>6. d0 = [group |-> g3, entry |-> d.entry, backupGroup |-> d.backupGroup]
  <2>1. d0 = [d EXCEPT !.group[p].subGroups = RemoveFirst(d.group[p].subGroups, g),
                       !.group[g].parent    = None,
                       !.group[g].level     = 0]
    BY DEF RemoveSubGroup
  <2> DEFINE E == d.entry
             b == d.backupGroup
             t1 == [d EXCEPT !.group = [d.group EXCEPT ![p] = [d.group[p] EXCEPT !.subGroups = rs]]]
             t2 == [t1 EXCEPT !.group = [t1.group EXCEPT ![g] = [t1.group[g] EXCEPT !.parent = None]]]
             t3 == [t2 EXCEPT !.group = [t2.group EXCEPT ![g] = [t2.group[g] EXCEPT !.level = 0]]]
  <2> HIDE DEF d0
  <2>2. d0 = t3
    BY ONLY <2>1
  <2>3. d = [group |-> G, entry |-> E, backupGroup |-> b]
    BY <1>1
  <2> HIDE DEF G, E, b, p, rs
  <2>4. t1 = [group |-> g1, entry |-> E, backupGroup |-> b]
    BY ONLY <2>3
  <2> HIDE DEF t1, g1
  <2>5. t2 = [group |-> g2, entry |-> E, backupGroup |-> b]
    BY ONLY <2>4
  <2> HIDE DEF t2, g2
  <2>6. t3 = [group |-> g3, entry |-> E, backupGroup |-> b]
    BY ONLY <2>5
  <2>7. QED
    BY <2>2, <2>6 DEF E, b
<1> HIDE DEF rs, d0
<1>7. \A h \in Groups : g3[h] = IF h = g THEN [[d.group[g] EXCEPT !.parent = None] EXCEPT !.level = 0]
                                ELSE IF h = p THEN [d.group[p] EXCEPT !.subGroups = rs]
                                ELSE d.group[h]
  BY <1>1, <1>3, <1>4
<1>8. g3 = [h \in Groups |-> g3[h]]
  BY <1>1
<1> HIDE DEF g3
<1>9. ASSUME NEW h \in Groups
      PROVE  /\ g3[h] \in GroupStates
             /\ g3[h].subGroups = IF h = p THEN rs ELSE d.group[h].subGroups
             /\ g3[h].entries  = d.group[h].entries
             /\ h # g => g3[h].parent = d.group[h].parent
             /\ h # g => g3[h].level  = d.group[h].level
             /\ g3[h].id       = d.group[h].id
             /\ g3[h].reserved = d.group[h].reserved
             /\ g3[h].deleted  = d.group[h].deleted
  <2> DEFINE s == d.group[h]
             a == [[s EXCEPT !.parent = None] EXCEPT !.level = 0]
             c == [s EXCEPT !.subGroups = rs]
  <2>1. s \in GroupStates
    BY <1>1
  <2>2. 0 \in -1..Cardinality(Groups)
    BY Bound DEF N
  <2>3. /\ a \in GroupStates /\ a.subGroups = s.subGroups /\ a.entries = s.entries /\ a.id = s.id
        /\ a.reserved = s.reserved /\ a.deleted = s.deleted
    BY <2>1, <2>2 DEF GroupStates
  <2>4. /\ c \in GroupStates /\ c.subGroups = rs /\ c.entries = s.entries /\ c.id = s.id
        /\ c.parent = s.parent /\ c.level = s.level
        /\ c.reserved = s.reserved /\ c.deleted = s.deleted
    BY <1>5, <2>1 DEF GroupStates
  <2>5. g3[h] = IF h = g THEN a ELSE IF h = p THEN c ELSE s
    BY <1>7
  <2> HIDE DEF s, a, c, p
  <2>6. /\ g3[h] \in GroupStates
        /\ g3[h].subGroups = IF h = p THEN rs ELSE s.subGroups
        /\ g3[h].entries  = s.entries
        /\ h # g => g3[h].parent = s.parent
        /\ h # g => g3[h].level  = s.level
        /\ g3[h].id       = s.id
        /\ g3[h].reserved = s.reserved
        /\ g3[h].deleted  = s.deleted
    BY <1>4, <2>1, <2>3, <2>4, <2>5
  <2>7. QED
    BY <2>6 DEF s, p
<1>10. d0 \in Trees
  <2>1. g3 \in [Groups -> GroupStates]
    BY <1>8, <1>9
  <2>2. QED
    BY <1>1, <1>6, <2>1 DEF Trees
<1>11. d0.group = g3 /\ d0.entry = d.entry /\ d0.backupGroup = d.backupGroup
  BY <1>6
<1>12. QED
  BY <1>9, <1>10, <1>11 DEF d0, rs

----------------------------------------------------------------------------------
(* A group less                                                                 *)

(* What is below the group g of a tree: the root is not.                          *)
LEMMA BelowGroup ==
    ASSUME NEW d \in Trees, GroupsAgree(d), NEW g \in InTree(d) \ {Root}
    PROVE  /\ Below(d, g) \subseteq InTree(d) /\ Root \notin Below(d, g) /\ g \in Below(d, g)
           /\ \A x \in InTree(d) \ {Root} :
                 x \in Below(d, g) <=> x = g \/ d.group[x].parent \in Below(d, g)
           /\ \A p \in Groups : Kids(d, p) \subseteq InTree(d) \ {Root}
<1>1. /\ Root \in InTree(d) /\ InTree(d) \subseteq Groups
      /\ \A p \in Groups : \A x : x \in Kids(d, p) <=> x \in Groups /\ d.group[x].parent = p
      /\ \A x \in InTree(d) \ {Root} : /\ d.group[x].parent \in InTree(d)
                                       /\ x \in Kids(d, d.group[x].parent)
                                       /\ d.group[x].level = d.group[d.group[x].parent].level + 1
  BY TreeLinks
<1>2. Forest(d, Level(d)) /\ g \in Groups /\ g # Root
  BY <1>1, TreeForest
<1>3. d.group[Root].parent = None
  BY TreeLinks
<1>4. /\ g \in Below(d, g) /\ Below(d, g) \subseteq Groups
      /\ \A p \in Below(d, g) : Kids(d, p) \subseteq Below(d, g)
      /\ \A x \in Below(d, g) : x = g \/ \E p \in Below(d, g) : x \in Kids(d, p)
      /\ \A X : g \in X /\ (\A p \in X : Kids(d, p) \subseteq X) => Below(d, g) \subseteq X
  BY <1>2, BelowClosed
<1>5. \A x \in InTree(d) : \A p \in Groups : x \in Kids(d, p) => x # Root
  BY <1>1, <1>3, Bound
<1>6. Root \notin Below(d, g)
  <2>1. Root # g
    BY <1>2
  <2>2. \A p \in Below(d, g) : Root \notin Kids(d, p)
    BY <1>1, <1>4, <1>5
  <2>3. QED
    BY <1>4, <2>1, <2>2
<1>7. \A p \in Groups : Kids(d, p) \subseteq InTree(d) \ {Root}
  BY <1>1, <1>3, Bound DEF InTree
<1>8. Below(d, g) \subseteq InTree(d)
  <2>1. \A p \in InTree(d) : Kids(d, p) \subseteq InTree(d)
    BY <1>1, <1>7
  <2>2. QED
    BY <1>4, <2>1
<1>9. \A x \in InTree(d) \ {Root} :
         x \in Below(d, g) <=> x = g \/ d.group[x].parent \in Below(d, g)
  <2>1. ASSUME NEW x \in InTree(d) \ {Root}, x \in Below(d, g), x # g
        PROVE  d.group[x].parent \in Below(d, g)
    <3>1. PICK p \in Below(d, g) : x \in Kids(d, p)
      BY <1>4, <2>1
    <3>2. d.group[x].parent = p
      BY <1>1, <1>4, <3>1
    <3>3. QED
      BY <3>2
  <2>2. ASSUME NEW x \in InTree(d) \ {Root}, d.group[x].parent \in Below(d, g)
        PROVE  x \in Below(d, g)
    <3>1. x \in Kids(d, d.group[x].parent)
      BY <1>1
    <3>2. QED
      BY <1>4, <2>2, <3>1
  <2>3. QED
    BY <1>4, <2>1, <2>2
<1>10. QED
  BY <1>4, <1>6, <1>7, <1>8, <1>9

(* d1 has the lists of subgroups of the tree d, but for g, which is in none.      *)
IsCut(d, d1, g) ==
    \A p \in Groups : /\ d1.group[p].subGroups \in Seq(Groups)
                      /\ IsInjective(d1.group[p].subGroups)
                      /\ Kids(d1, p) = Kids(d, p) \ {g}

(* What a walk reaches then is what is not below g.                               *)
LEMMA CutTree ==
    ASSUME NEW d \in Trees, GroupsAgree(d), NEW g \in InTree(d) \ {Root},
           NEW d1, IsCut(d, d1, g)
    PROVE  /\ Forest(d1, Level(d))
           /\ Below(d1, Root) = InTree(d) \ Below(d, g)
<1>1. /\ Root \in InTree(d) /\ InTree(d) \subseteq Groups
      /\ \A p \in Groups : \A x : x \in Kids(d, p) <=> x \in Groups /\ d.group[x].parent = p
      /\ \A x \in InTree(d) \ {Root} : /\ d.group[x].parent \in InTree(d)
                                       /\ x \in Kids(d, d.group[x].parent)
                                       /\ d.group[x].level = d.group[d.group[x].parent].level + 1
  BY TreeLinks
<1>2. Forest(d, Level(d)) /\ g \in Groups /\ g # Root
  BY <1>1, TreeForest
<1>3. /\ g \in Below(d, g)
      /\ \A p \in Below(d, g) : Kids(d, p) \subseteq Below(d, g)
  BY <1>2, BelowClosed
<1>4. Root \notin Below(d, g)
  BY BelowGroup
<1>5. \A p \in Groups : Kids(d, p) \subseteq InTree(d) \ {Root}
  BY BelowGroup
<1>6. \A x \in InTree(d) \ {Root} :
         x \in Below(d, g) <=> x = g \/ d.group[x].parent \in Below(d, g)
  BY BelowGroup
<1>7. Forest(d1, Level(d))
  <2>1. /\ Level(d) \in [Groups -> Int]
        /\ \A p \in Groups : \A x \in Kids(d, p) : Level(d)[x] = Level(d)[p] + 1
        /\ \A p, q \in Groups : p # q => Kids(d, p) \cap Kids(d, q) = {}
    BY <1>2 DEF Forest
  <2>2. \A p \in Groups : Kids(d1, p) \subseteq Kids(d, p)
    BY DEF IsCut
  <2>3. /\ \A p \in Groups : d1.group[p].subGroups \in Seq(Groups)
        /\ \A p \in Groups : IsInjective(d1.group[p].subGroups)
    BY DEF IsCut
  <2> HIDE DEF Kids
  <2>4. \A p \in Groups : \A x \in Kids(d1, p) : Level(d)[x] = Level(d)[p] + 1
    BY <2>1, <2>2
  <2>5. \A p, q \in Groups : p # q => Kids(d1, p) \cap Kids(d1, q) = {}
    BY <2>1, <2>2
  <2>6. QED
    BY <2>1, <2>3, <2>4, <2>5 DEF Forest
<1>8. /\ Root \in Below(d1, Root) /\ Below(d1, Root) \subseteq Groups
      /\ \A p \in Below(d1, Root) : Kids(d1, p) \subseteq Below(d1, Root)
      /\ \A X : Root \in X /\ (\A p \in X : Kids(d1, p) \subseteq X) => Below(d1, Root) \subseteq X
  BY <1>7, BelowClosed, Bound
<1>9. Below(d1, Root) \subseteq InTree(d) \ Below(d, g)
  <2> DEFINE X == InTree(d) \ Below(d, g)
  <2>1. ASSUME NEW p \in X, NEW x \in Kids(d1, p) PROVE x \in X
    <3>1. p \in Groups /\ p \notin Below(d, g)
      BY <1>1
    <3>2. x \in Kids(d, p) /\ x # g
      BY <3>1 DEF IsCut
    <3>3. x \in InTree(d) \ {Root} /\ d.group[x].parent = p
      BY <1>1, <1>5, <3>1, <3>2
    <3>4. QED
      BY <1>6, <3>1, <3>2, <3>3
  <2>2. Root \in X
    BY <1>1, <1>4
  <2> HIDE DEF X
  <2>3. Below(d1, Root) \subseteq X
    BY <1>8, <2>1, <2>2
  <2>4. QED
    BY <2>3 DEF X
<1>10. InTree(d) \subseteq Below(d1, Root) \cup Below(d, g)
  <2> DEFINE X == Below(d1, Root) \cup Below(d, g)
  <2>1. ASSUME NEW p \in X, NEW x \in Kids(d, p) PROVE x \in X
    <3>1. CASE p \in Below(d, g)
      BY <1>3, <3>1
    <3>2. CASE p \in Below(d1, Root)
      <4>1. p \in Groups
        BY <1>8, <3>2
      <4>2. x = g \/ x \in Kids(d1, p)
        BY <4>1 DEF IsCut
      <4>3. QED
        BY <1>3, <1>8, <3>2, <4>2
    <3>3. QED
      BY <3>1, <3>2
  <2>2. Root \in X
    BY <1>8
  <2> HIDE DEF X
  <2>3. \A Y : Root \in Y /\ (\A p \in Y : Kids(d, p) \subseteq Y) => Below(d, Root) \subseteq Y
    BY <1>2, BelowClosed, Bound
  <2>4. Below(d, Root) \subseteq X
    BY <2>1, <2>2, <2>3
  <2>5. Below(d, Root) = InTree(d)
    BY TreeIsBelowRoot
  <2>6. QED
    BY <2>4, <2>5 DEF X
<1>11. QED
  BY <1>7, <1>9, <1>10

(* d1 is the tree d with the entries of the group g and of all groups below it    *)
(* moved to the Backup group, and the group taken out.                            *)
IsEmptied(d, d1, g) ==
    /\ d1 \in Trees /\ EntriesAgree(d1) /\ Home(d1) = Home(d) /\ d1.backupGroup = d.backupGroup
    /\ IsCut(d, d1, g)
    /\ \A h \in Groups :
          /\ h # g => d1.group[h].parent = d.group[h].parent
          /\ h # g => d1.group[h].level  = d.group[h].level
          /\ d1.group[h].id       = d.group[h].id
          /\ d1.group[h].reserved = d.group[h].reserved
          /\ d1.group[h].deleted  = d.group[h].deleted
    /\ \A e \in Entries : d1.entry[e].title = d.entry[e].title
    /\ \A e \in Home(d) :
          LET moved == d.entry[e].group \in Below(d, g)
          IN  /\ d1.entry[e].group = IF moved THEN d.backupGroup ELSE d.entry[e].group
              /\ d1.entry[e].deleted <=> moved \/ d.entry[e].deleted

(* The Backup group is at the top, so it is below no other group.                 *)
LEMMA BackupIsNotBelow ==
    ASSUME NEW d, IsTree(d), d.backupGroup # None,
           NEW g \in InTree(d) \ {Root}, g # d.backupGroup
    PROVE  d.backupGroup \in InTree(d) \ {Root} /\ d.backupGroup \notin Below(d, g)
<1> DEFINE b == d.backupGroup
<1>1. d \in Trees /\ GroupsAgree(d) /\ BackupAgrees(d)
  BY DEF IsTree
<1>2. b \in Groups \ {Root} /\ d.group[b].parent = Root
  BY <1>1, TreeFields DEF BackupAgrees
<1>3. b \in InTree(d) \ {Root}
  BY <1>2, Bound DEF InTree
<1>4. /\ Root \notin Below(d, g)
      /\ \A x \in InTree(d) \ {Root} :
            x \in Below(d, g) <=> x = g \/ d.group[x].parent \in Below(d, g)
  BY <1>1, BelowGroup
<1>5. QED
  BY <1>2, <1>3, <1>4

(* moveToBackup() of a group does so.                                           *)
LEMMA GroupEmptied ==
    ASSUME NEW d, IsTree(d), d.backupGroup # None,
           NEW g \in InTree(d) \ {Root}, g # d.backupGroup
    PROVE  IsEmptied(d, GroupToBackup(d, g), g)
<1> DEFINE p  == d.group[g].parent
           b  == d.backupGroup
           d0 == RemoveSubGroup(d, p, g)
           w  == AllEntriesBelow(d, g)
           d1 == FoldLeft(EntryToBackup, d0, w)
<1>1. GroupToBackup(d, g) = d1
  BY DEF GroupToBackup
<1>2. d \in Trees /\ GroupsAgree(d) /\ EntriesAgree(d) /\ BackupAgrees(d)
  BY DEF IsTree
<1>3. /\ d0 \in Trees /\ d0.entry = d.entry /\ d0.backupGroup = d.backupGroup
      /\ \A h \in Groups :
            /\ d0.group[h].subGroups = IF h = p THEN RemoveFirst(d.group[p].subGroups, g)
                                                ELSE d.group[h].subGroups
            /\ d0.group[h].entries  = d.group[h].entries
            /\ h # g => d0.group[h].parent = d.group[h].parent
            /\ h # g => d0.group[h].level  = d.group[h].level
            /\ d0.group[h].id       = d.group[h].id
            /\ d0.group[h].reserved = d.group[h].reserved
            /\ d0.group[h].deleted  = d.group[h].deleted
  BY <1>2, GroupTaken
<1>4. /\ InTree(d) \subseteq Groups
      /\ \A q \in Groups : \A x : x \in Kids(d, q) <=> x \in Groups /\ d.group[x].parent = q
      /\ \A x \in InTree(d) \ {Root} : d.group[x].parent \in InTree(d)
  BY <1>2, TreeLinks
<1>5. b \in InTree(d) \ {Root} /\ b \notin Below(d, g)
  BY BackupIsNotBelow
<1>6. Below(d, g) \subseteq InTree(d)
  BY <1>2, BelowGroup
<1>7. IsCut(d, d0, g)
  <2> SUFFICES ASSUME NEW q \in Groups
               PROVE  /\ d0.group[q].subGroups \in Seq(Groups)
                      /\ IsInjective(d0.group[q].subGroups)
                      /\ Kids(d0, q) = Kids(d, q) \ {g}
    BY DEF IsCut
  <2>1. d.group[q].subGroups \in Seq(Groups) /\ IsInjective(d.group[q].subGroups)
    BY <1>2, TreeFields DEF GroupsAgree
  <2>2. g \in Kids(d, q) <=> q = p
    BY <1>4
  <2>3. CASE q = p
    <3>1. d0.group[q].subGroups = RemoveFirst(d.group[q].subGroups, g)
      BY <1>3, <2>3
    <3>2. g \in ToSet(d.group[q].subGroups)
      BY <2>2, <2>3 DEF Kids
    <3>3. /\ RemoveFirst(d.group[q].subGroups, g) \in Seq(Groups)
          /\ IsInjective(RemoveFirst(d.group[q].subGroups, g))
          /\ ToSet(RemoveFirst(d.group[q].subGroups, g)) = ToSet(d.group[q].subGroups) \ {g}
      BY <2>1, <3>2, FirstRemoved
    <3>4. QED
      BY <3>1, <3>3 DEF Kids
  <2>4. CASE q # p
    <3>1. d0.group[q].subGroups = d.group[q].subGroups
      BY <1>3, <2>4
    <3>2. QED
      BY <2>1, <2>2, <2>4, <3>1 DEF Kids
  <2>5. QED
    BY <2>3, <2>4
<1>8. EntriesAgree(d0) /\ Home(d0) = Home(d)
  <2>1. /\ \A h \in Groups : IsInjective(d.group[h].entries)
        /\ \A h \in Groups : ToSet(d.group[h].entries) = {x \in Entries : d.entry[x].group = h}
        /\ \A x \in Home(d) : d.entry[x].groupId = d.group[d.entry[x].group].id
        /\ \A x \in Entries \ Home(d) : d.entry[x] = NoEntry
    BY <1>2 DEF EntriesAgree
  <2>2. Home(d0) = Home(d)
    BY <1>3 DEF Home
  <2>3. \A h \in Groups : d0.group[h].entries = d.group[h].entries /\ d0.group[h].id = d.group[h].id
    BY <1>3
  <2>4. \A x \in Home(d) : d.entry[x].group \in Groups
    BY <1>2, TreeFields DEF Home
  <2>5. d0.entry = d.entry
    BY <1>3
  <2>6. QED
    BY <2>1, <2>2, <2>3, <2>4, <2>5 DEF EntriesAgree
<1>9. /\ w \in Seq(Entries) /\ IsInjective(w)
      /\ \A x : x \in ToSet(w) <=> x \in Home(d) /\ d.entry[x].group \in Below(d, g)
  <2>1. Forest(d, Level(d)) /\ EntryLists(d)
    BY <1>2, TreeForest, TreeEntryLists
  <2>2. /\ w \in Seq(Entries) /\ IsInjective(w)
        /\ \A x : x \in ToSet(w) <=> \E q \in Below(d, g) : x \in ToSet(d.group[q].entries)
    BY <1>4, <2>1, EntriesFound
  <2>3. \A q \in Groups : \A x : x \in ToSet(d.group[q].entries) <=>
                                    x \in Entries /\ d.entry[x].group = q
    BY <1>2 DEF EntriesAgree
  <2> HIDE DEF w
  <2>4. QED
    BY <1>4, <1>6, <2>2, <2>3, Bound DEF Home
<1> HIDE DEF w, d0
<1>10. IsMoved(d0, d1, ToSet(w))
  <2>1. d0.backupGroup # None
    BY <1>3
  <2>2. \A e \in ToSet(w) : d0.entry[e].group # d0.backupGroup
    BY <1>3, <1>5, <1>9
  <2>3. ToSet(w) \subseteq Home(d0)
    BY <1>8, <1>9
  <2>4. QED
    BY <1>3, <1>8, <1>9, <2>1, <2>2, <2>3, AllMoved
<1> HIDE DEF d1
<1>11. /\ d1 \in Trees /\ EntriesAgree(d1) /\ Home(d1) = Home(d) /\ d1.backupGroup = b
       /\ \A h \in Groups :
             /\ d1.group[h].subGroups = d0.group[h].subGroups
             /\ d1.group[h].parent    = d0.group[h].parent
             /\ d1.group[h].level     = d0.group[h].level
             /\ d1.group[h].id        = d0.group[h].id
             /\ d1.group[h].reserved  = d0.group[h].reserved
             /\ d1.group[h].deleted   = d0.group[h].deleted
  BY <1>3, <1>8, <1>10 DEF IsMoved, SameLinks
<1>12. \A x \in Entries :
          /\ d1.entry[x].group = IF x \in ToSet(w) THEN b ELSE d.entry[x].group
          /\ d1.entry[x].title = d.entry[x].title
          /\ d1.entry[x].deleted <=> x \in ToSet(w) \/ d.entry[x].deleted
  <2>1. \A x \in Entries :
          /\ d1.entry[x].group = IF x \in ToSet(w) THEN d0.backupGroup ELSE d0.entry[x].group
          /\ d1.entry[x].title = d0.entry[x].title
          /\ d1.entry[x].deleted <=> x \in ToSet(w) \/ d0.entry[x].deleted
    BY <1>10 DEF IsMoved
  <2>2. d0.entry = d.entry /\ d0.backupGroup = b
    BY <1>3
  <2>3. QED
    BY <2>1, <2>2
<1>13. IsCut(d, d1, g)
  BY <1>7, <1>11 DEF IsCut, Kids
<1>14. \A h \in Groups :
          /\ h # g => d1.group[h].parent = d.group[h].parent
          /\ h # g => d1.group[h].level  = d.group[h].level
          /\ d1.group[h].id       = d.group[h].id
          /\ d1.group[h].reserved = d.group[h].reserved
          /\ d1.group[h].deleted  = d.group[h].deleted
  BY <1>3, <1>11
<1>15. \A e \in Home(d) :
          LET moved == d.entry[e].group \in Below(d, g)
          IN  /\ d1.entry[e].group = IF moved THEN d.backupGroup ELSE d.entry[e].group
              /\ d1.entry[e].deleted <=> moved \/ d.entry[e].deleted
  BY <1>9, <1>12 DEF Home
<1>16. QED
  BY <1>1, <1>11, <1>12, <1>13, <1>14, <1>15 DEF IsEmptied

(* What is reached then is a tree with all of the entries.                        *)
LEMMA GroupDeleted ==
    ASSUME NEW d, IsTree(d), d.backupGroup # None,
           NEW g \in InTree(d) \ {Root}, g # d.backupGroup
    PROVE  LET d2 == Live(GroupToBackup(d, g))
           IN  /\ IsTree(d2) /\ Home(d2) = Home(d)
               /\ \A e \in Entries : d2.entry[e].title = d.entry[e].title
<1> DEFINE d1 == GroupToBackup(d, g)
           d2 == Live(d1)
           b  == d.backupGroup
           X  == InTree(d) \ Below(d, g)
<1>1. d \in Trees /\ GroupsAgree(d) /\ EntriesAgree(d) /\ BackupAgrees(d)
  BY DEF IsTree
<1>2. IsEmptied(d, d1, g)
  BY GroupEmptied
<1> HIDE DEF d1
<1>3. /\ d1 \in Trees /\ EntriesAgree(d1) /\ Home(d1) = Home(d) /\ d1.backupGroup = b
      /\ IsCut(d, d1, g)
  BY <1>2 DEF IsEmptied
<1>4. \A h \in Groups :
          /\ h # g => d1.group[h].parent = d.group[h].parent
          /\ h # g => d1.group[h].level  = d.group[h].level
          /\ d1.group[h].id       = d.group[h].id
          /\ d1.group[h].reserved = d.group[h].reserved
          /\ d1.group[h].deleted  = d.group[h].deleted
  BY <1>2 DEF IsEmptied
<1>5. \A e \in Home(d) :
          LET moved == d.entry[e].group \in Below(d, g)
          IN  /\ d1.entry[e].group = IF moved THEN d.backupGroup ELSE d.entry[e].group
              /\ d1.entry[e].deleted <=> moved \/ d.entry[e].deleted
  BY <1>2 DEF IsEmptied
<1>6. /\ Forest(d1, Level(d)) /\ Below(d1, Root) = X
  BY <1>1, <1>3, CutTree
<1>7. /\ Below(d, g) \subseteq InTree(d) /\ Root \notin Below(d, g) /\ g \in Below(d, g)
      /\ \A x \in InTree(d) \ {Root} :
            x \in Below(d, g) <=> x = g \/ d.group[x].parent \in Below(d, g)
      /\ \A p \in Groups : Kids(d, p) \subseteq InTree(d) \ {Root}
  BY <1>1, BelowGroup
<1>8. /\ d.group[Root].parent = None /\ d.group[Root].level = -1
      /\ d.group[Root].entries = <<>> /\ d.group[Root].id = None
      /\ d.group[Root].reserved = FALSE /\ d.group[Root].deleted = FALSE
      /\ Root \in InTree(d) /\ InTree(d) \subseteq Groups
      /\ \A p \in Groups : \A x : x \in Kids(d, p) <=> x \in Groups /\ d.group[x].parent = p
      /\ \A x \in InTree(d) \ {Root} : /\ d.group[x].parent \in InTree(d)
                                       /\ d.group[x].level = d.group[d.group[x].parent].level + 1
  BY <1>1, TreeLinks
<1>9. b \in X \ {Root}
  BY BackupIsNotBelow
<1>10. \A e \in Home(d) : d.entry[e].group \in InTree(d) \ {Root}
  BY <1>1, TreeEntries
<1>11. \A e \in Home(d) : d1.entry[e].group \in X \ {Root}
  BY <1>5, <1>9, <1>10
<1>12. LiveGroups(d1) = X
  <2>1. AllGroups(d1) = GroupsBelow(d1)[N][Root]
    BY GroupsWalk
  <2>2. QED
    BY <1>6, <2>1 DEF LiveGroups, Below, Under
<1>13. ToSet(AllEntries(d1)) = Home(d)
  <2>1. EntryLists(d1)
    BY <1>3, TreeEntryLists
  <2>2. \A x : x \in ToSet(AllEntriesBelow(d1, Root)) <=>
                  \E q \in Below(d1, Root) : x \in ToSet(d1.group[q].entries)
    BY <1>6, <2>1, EntriesFound, Bound
  <2>3. \A q \in Groups : \A x : x \in ToSet(d1.group[q].entries) <=>
                                    x \in Entries /\ d1.entry[x].group = q
    BY <1>3 DEF EntriesAgree
  <2>4. X \subseteq Groups /\ None \notin X
    BY <1>8, Bound
  <2>5. \A x \in Home(d) : x \in Entries /\ d1.entry[x].group \in X
    BY <1>11 DEF Home
  <2>6. \A x \in Entries : d1.entry[x].group # None => x \in Home(d)
    BY <1>3 DEF Home
  <2> HIDE DEF X
  <2>7. \A x : x \in ToSet(AllEntries(d1)) <=> x \in Entries /\ d1.entry[x].group \in X
    BY <1>6, <2>2, <2>3, <2>4 DEF AllEntries
  <2>8. \A x : x \in ToSet(AllEntries(d1)) <=> x \in Home(d)
    BY <2>4, <2>5, <2>6, <2>7
  <2>9. QED
    BY <2>8
<1> HIDE DEF X
<1> DEFINE G == [h \in Groups |-> IF h \in X THEN d1.group[h] ELSE NewGroup]
           E == [e \in Entries |-> IF e \in Home(d) THEN d1.entry[e] ELSE NoEntry]
<1>14. d2 = [group |-> G, entry |-> E, backupGroup |-> b]
  <2>1. d2 = [d1 EXCEPT !.group = G, !.entry = E]
    BY <1>12, <1>13 DEF Live
  <2> DEFINE dg == d1.group
             de == d1.entry
  <2>2. d1 = [group |-> dg, entry |-> de, backupGroup |-> b]
    BY <1>3 DEF Trees
  <2> HIDE DEF G, E, d2, dg, de, b
  <2>3. QED
    BY ONLY <2>1, <2>2
<1>15. /\ \A h \in Groups : d2.group[h] = IF h \in X THEN d1.group[h] ELSE NewGroup
       /\ d2.backupGroup = b
  BY <1>14
<1>16. \A e \in Entries : d2.entry[e] = d1.entry[e]
  <2>1. \A e \in Entries \ Home(d) : d1.entry[e] = NoEntry
    BY <1>3 DEF EntriesAgree
  <2>2. QED
    BY <1>14, <2>1
<1>17. d2 \in Trees
  <2>1. G \in [Groups -> GroupStates]
    <3>1. \A h \in Groups : d1.group[h] \in GroupStates
      BY <1>3, TreeFields
    <3>2. NewGroup \in GroupStates
      BY NewGroupFields
    <3>3. QED
      BY <3>1, <3>2
  <2>2. d1.entry \in [Entries -> EntryStates] /\ b \in (Groups \ {Root}) \cup {None}
    BY <1>3 DEF Trees
  <2>3. \A e \in Entries \ Home(d) : d1.entry[e] = NoEntry
    BY <1>3 DEF EntriesAgree
  <2>4. E \in [Entries -> EntryStates]
    <3>1. \A e \in Entries : E[e] = d1.entry[e]
      BY <2>3
    <3>2. \A e \in Entries : E[e] \in EntryStates
      BY <2>2, <3>1
    <3>3. E = [e \in Entries |-> E[e]]
      OBVIOUS
    <3> HIDE DEF E
    <3>4. QED
      BY <3>2, <3>3
  <2> HIDE DEF G, E
  <2>5. QED
    BY <1>14, <2>1, <2>2, <2>4 DEF Trees
<1> HIDE DEF d2
<1>18. /\ X \subseteq InTree(d) /\ X \subseteq Groups /\ Root \in X /\ g \notin X
       /\ \A x \in InTree(d) \ {Root} : x \in X <=> x # g /\ d.group[x].parent \in X
  BY <1>7, <1>8 DEF X
<1>19. InTree(d2) = X
  <2>1. \A h \in X \ {Root} : d2.group[h].parent = d.group[h].parent /\ d.group[h].parent # None
    <3>1. \A h \in InTree(d) \ {Root} : d.group[h].parent # None
      BY DEF InTree
    <3>2. QED
      BY <1>4, <1>15, <1>18, <3>1
  <2>2. \A h \in Groups \ X : d2.group[h].parent = None
    BY <1>15, NewGroupFields
  <2>3. QED
    BY <1>18, <2>1, <2>2 DEF InTree
<1>20. GroupsAgree(d2)
  <2>1. ASSUME NEW p \in Groups
        PROVE  /\ IsInjective(d2.group[p].subGroups)
               /\ ToSet(d2.group[p].subGroups) = {x \in Groups : d2.group[x].parent = p}
    <3>1. \A x \in Groups : d2.group[x].parent = p <=> x \in X \ {Root} /\ d.group[x].parent = p
      <4>1. \A x \in X : d2.group[x].parent = d.group[x].parent
        BY <1>4, <1>15, <1>18
      <4>2. \A x \in Groups \ X : d2.group[x].parent = None
        BY <1>15, NewGroupFields
      <4>3. QED
        BY <1>8, <1>18, <4>1, <4>2, Bound
    <3>2. CASE p \in X
      <4>1. /\ IsInjective(d1.group[p].subGroups)
            /\ ToSet(d1.group[p].subGroups) = Kids(d, p) \ {g}
        BY <1>3 DEF IsCut, Kids
      <4>2. \A x : x \in Kids(d, p) \ {g} <=> x \in X \ {Root} /\ d.group[x].parent = p
        BY <1>7, <1>8, <1>18, <3>2
      <4>3. d2.group[p].subGroups = d1.group[p].subGroups
        BY <1>15, <3>2
      <4>4. QED
        BY <1>18, <3>1, <4>1, <4>2, <4>3
    <3>3. CASE p \notin X
      <4>1. d2.group[p].subGroups = <<>>
        BY <1>15, <3>3, NewGroupFields
      <4>2. IsInjective(<<>>) /\ ToSet(<<>>) = {}
        BY DEF IsInjective, ToSet
      <4>3. \A x \in X \ {Root} : d.group[x].parent # p
        BY <1>18, <3>3
      <4>4. QED
        BY <3>1, <4>1, <4>2, <4>3
    <3>4. QED
      BY <3>2, <3>3
  <2>2. ASSUME NEW x \in InTree(d2) \ {Root}
        PROVE  d2.group[x].level = d2.group[d2.group[x].parent].level + 1
    <3>1. x \in X \ {Root} /\ x \in Groups /\ x # g /\ x \in InTree(d) \ {Root}
      BY <1>18, <1>19
    <3>2. d.group[x].parent \in X /\ d.group[x].parent \in Groups /\ d.group[x].parent # g
      BY <1>18, <3>1
    <3>3. d2.group[x] = d1.group[x] /\ d2.group[d.group[x].parent] = d1.group[d.group[x].parent]
      BY <1>15, <3>1, <3>2
    <3>4. /\ d1.group[x].parent = d.group[x].parent /\ d1.group[x].level = d.group[x].level
          /\ d1.group[d.group[x].parent].level = d.group[d.group[x].parent].level
      BY <1>4, <3>1, <3>2
    <3>5. d.group[x].level = d.group[d.group[x].parent].level + 1
      BY <1>8, <3>1
    <3>6. QED
      BY <3>3, <3>4, <3>5
  <2>3. \A x \in Groups \ InTree(d2) : d2.group[x] = NewGroup
    BY <1>15, <1>19
  <2>4. d2.group[Root] = [NewGroup EXCEPT !.subGroups = d2.group[Root].subGroups]
    <3>1. d2.group[Root] = d1.group[Root] /\ Root \in Groups /\ Root # g
      BY <1>15, <1>18
    <3>2. d2.group[Root] \in GroupStates
      BY <1>17, <3>1, TreeFields
    <3>3. /\ d2.group[Root].parent = None /\ d2.group[Root].level = -1
          /\ d2.group[Root].id = None
          /\ d2.group[Root].reserved = FALSE /\ d2.group[Root].deleted = FALSE
      BY <1>3, <1>4, <1>8, <3>1, TreeFields
    <3>4. d2.group[Root].entries = <<>>
      <4>1. d1.group[Root].entries \in Seq(Entries)
        BY <1>3, <3>1, TreeFields
      <4>2. ToSet(d1.group[Root].entries) = {e \in Entries : d1.entry[e].group = Root}
        BY <1>3, <3>1 DEF EntriesAgree
      <4>3. \A e \in Entries : d1.entry[e].group # Root
        BY <1>3, <1>11, <3>1, Bound DEF Home
      <4> DEFINE s == d1.group[Root].entries
      <4>4. s \in Seq(Entries) /\ ToSet(s) = {}
        BY <4>1, <4>2, <4>3
      <4> HIDE DEF s
      <4>5. s = <<>>
        BY <4>4, NoMembers
      <4>6. QED
        BY <3>1, <4>5 DEF s
    <3>5. QED
      BY <3>2, <3>3, <3>4, RootIsPlain
  <2>5. QED
    BY <2>1, <2>2, <2>3, <2>4 DEF GroupsAgree
<1>21. Home(d2) = Home(d)
  BY <1>3, <1>16 DEF Home
<1>22. EntriesAgree(d2)
  <2>1. /\ \A h \in Groups : IsInjective(d1.group[h].entries)
        /\ \A h \in Groups : ToSet(d1.group[h].entries) = {e \in Entries : d1.entry[e].group = h}
        /\ \A e \in Home(d) : d1.entry[e].groupId = d1.group[d1.entry[e].group].id
        /\ \A e \in Entries \ Home(d) : d1.entry[e] = NoEntry
    BY <1>3 DEF EntriesAgree
  <2>2. ASSUME NEW h \in Groups
        PROVE  /\ IsInjective(d2.group[h].entries)
               /\ ToSet(d2.group[h].entries) = {e \in Entries : d2.entry[e].group = h}
    <3>1. CASE h \in X
      BY <1>15, <1>16, <2>1, <3>1
    <3>2. CASE h \notin X
      <4>1. d2.group[h].entries = <<>>
        BY <1>15, <3>2, NewGroupFields
      <4>2. IsInjective(<<>>) /\ ToSet(<<>>) = {}
        BY DEF IsInjective, ToSet
      <4>3. \A e \in Entries : d2.entry[e].group # h
        BY <1>3, <1>11, <1>16, <3>2, Bound DEF Home
      <4>4. QED
        BY <4>1, <4>2, <4>3
    <3>3. QED
      BY <3>1, <3>2
  <2>3. \A e \in Home(d2) : d2.entry[e].groupId = d2.group[d2.entry[e].group].id
    BY <1>11, <1>15, <1>16, <1>18, <1>21, <2>1 DEF Home
  <2>4. \A e \in Entries \ Home(d2) : d2.entry[e] = NoEntry
    BY <1>16, <1>21, <2>1
  <2>5. QED
    BY <2>2, <2>3, <2>4 DEF EntriesAgree
<1>24. BackupAgrees(d2)
  <2>1. /\ d.group[b].parent = Root
        /\ \A h \in InTree(d) : d.group[h].reserved <=> h = b
        /\ \A h \in InTree(d) : d.group[h].deleted <=> h = b
        /\ \A e \in Home(d) : d.entry[e].deleted <=> d.entry[e].group = b
    BY <1>1 DEF BackupAgrees
  <2>2. d2.group[b].parent = Root
    BY <1>4, <1>9, <1>15, <1>18, <2>1
  <2>3. \A h \in InTree(d2) : /\ d2.group[h].reserved <=> h = b
                              /\ d2.group[h].deleted <=> h = b
    BY <1>4, <1>15, <1>18, <1>19, <2>1
  <2>4. \A e \in Home(d2) : d2.entry[e].deleted <=> d2.entry[e].group = b
    <3>1. b \notin Below(d, g)
      BY <1>9 DEF X
    <3>2. QED
      BY <1>5, <1>16, <1>21, <2>1, <3>1 DEF Home
  <2>5. QED
    BY <1>15, <2>2, <2>3, <2>4 DEF BackupAgrees
<1>25. \A e \in Entries : d2.entry[e].title = d.entry[e].title
  BY <1>2, <1>16 DEF IsEmptied
<1>26. IsTree(d2)
  BY <1>17, <1>20, <1>22, <1>24 DEF IsTree
<1>27. QED
  BY <1>21, <1>25, <1>26 DEF d2, d1

----------------------------------------------------------------------------------
(* Reading a file: lists that are being filled again                            *)

(* t is how far the list s has been filled again once the members of S are there. *)
IsUpto(t, s, S) ==
    /\ DOMAIN t = 1..Len(t) /\ Len(t) \in Nat /\ Len(t) <= Len(s)
    /\ \A j \in 1..Len(t) : t[j] = s[j]
    /\ \A j \in 1..Len(s) : s[j] \in S <=> j <= Len(t)

(* Nothing is there yet, ...                                                    *)
LEMMA UptoNone ==
    ASSUME NEW X, NEW s \in Seq(X)
    PROVE  IsUpto(<<>>, s, {})
BY DEF IsUpto

(* ... all is, ...                                                              *)
LEMMA UptoAll ==
    ASSUME NEW X, NEW s \in Seq(X), NEW t \in Seq(X), NEW S, IsUpto(t, s, S), ToSet(s) \subseteq S
    PROVE  t = s
<1>1. Len(s) \in Nat /\ Len(t) \in Nat
  OBVIOUS
<1>2. \A j \in 1..Len(s) : s[j] \in S
  BY MembersOfSeq
<1>3. Len(t) = Len(s)
  <2>1. Len(s) = 0 \/ Len(s) \in 1..Len(s)
    BY <1>1
  <2>2. QED
    BY <1>1, <1>2, <2>1 DEF IsUpto
<1>4. \A j \in 1..Len(s) : t[j] = s[j]
  BY <1>3 DEF IsUpto
<1>5. QED
  BY <1>3, <1>4

(* ... the next one comes, ...                                                  *)
LEMMA UptoStep ==
    ASSUME NEW X, NEW s \in Seq(X), IsInjective(s), NEW t \in Seq(X), NEW S, IsUpto(t, s, S),
           NEW x \in ToSet(s), x \notin S, \A y : Before(s, y, x) => y \in S
    PROVE  IsUpto(Append(t, x), s, S \cup {x})
<1> DEFINE n == Len(t)
           u == Append(t, x)
<1>1. n \in Nat /\ Len(s) \in Nat /\ DOMAIN s = 1..Len(s)
  OBVIOUS
<1>2. PICK m \in 1..Len(s) : s[m] = x
  BY MembersOfSeq
<1>3. m > n
  BY <1>1, <1>2 DEF IsUpto
<1>4. m = n + 1
  <2> SUFFICES ASSUME m # n + 1 PROVE FALSE
    OBVIOUS
  <2>1. n + 1 \in 1..Len(s) /\ n + 1 < m
    BY <1>1, <1>2, <1>3
  <2>2. Before(s, s[n + 1], x)
    BY <1>1, <1>2, <2>1 DEF Before
  <2>3. s[n + 1] \in S
    BY <2>2
  <2>4. QED
    BY <1>1, <2>1, <2>3 DEF IsUpto
<1>5. /\ Len(u) = n + 1 /\ DOMAIN u = 1..(n + 1) /\ u[n + 1] = x
      /\ \A j \in 1..n : u[j] = t[j]
  BY MembersOfSeq
<1>6. \A j \in 1..Len(u) : u[j] = s[j]
  BY <1>1, <1>2, <1>4, <1>5 DEF IsUpto
<1>7. \A j \in 1..Len(s) : s[j] \in S \cup {x} <=> j <= Len(u)
  <2>1. \A j \in 1..Len(s) : s[j] = x => j = m
    BY <1>1, <1>2 DEF IsInjective
  <2>2. \A j \in 1..Len(s) : s[j] \in S <=> j <= n
    BY DEF IsUpto
  <2> HIDE DEF u, n
  <2>3. QED
    BY <1>1, <1>2, <1>4, <1>5, <2>1, <2>2
<1> HIDE DEF u
<1>8. QED
  BY <1>1, <1>2, <1>4, <1>5, <1>6, <1>7 DEF IsUpto, u

(* ... or one of another list.                                                  *)
LEMMA UptoOther ==
    ASSUME NEW s, NEW t, NEW S, IsUpto(t, s, S), NEW x, x \notin ToSet(s), DOMAIN s = 1..Len(s)
    PROVE  IsUpto(t, s, S \cup {x})
<1>1. \A j \in 1..Len(s) : s[j] # x
  BY DEF ToSet
<1>2. QED
  BY <1>1 DEF IsUpto

----------------------------------------------------------------------------------
(* The list of the groups                                                         *)

(* A group comes after its parent, no other of the level of the parent is       *)
(* between, and after those before it in its list.                              *)
LEMMA TreeOrder ==
    ASSUME NEW d \in Trees, GroupsAgree(d), NEW x \in InTree(d) \ {Root}
    PROVE  LET w == AllGroups(d)
               q == d.group[x].parent
           IN  /\ q # Root => /\ q \in ToSet(w) /\ Before(w, q, x)
                              /\ \A z \in ToSet(w) : z # q /\ Before(w, q, z) /\ Before(w, z, x)
                                    => d.group[z].level # d.group[q].level
               /\ \A y : Before(d.group[q].subGroups, y, x) => Before(w, y, x)
<1> DEFINE w == AllGroups(d)
           q == d.group[x].parent
<1>1. w = GroupsBelow(d)[N][Root] /\ N \in 0..N /\ Root \in Groups
  BY GroupsWalk, Bound
<1>2. ParentFirst(d, w) /\ AsListed(d, w, Root) /\ NoneBetween(d, Level(d), w)
  BY <1>1, TreeForest, WalkOrder
<1>3. /\ InTree(d) \subseteq Groups
      /\ \A p \in Groups : \A y : y \in Kids(d, p) <=> y \in Groups /\ d.group[y].parent = p
      /\ \A y \in InTree(d) \ {Root} : /\ d.group[y].parent \in InTree(d)
                                       /\ y \in Kids(d, d.group[y].parent)
  BY TreeLinks
<1>4. ToSet(w) = InTree(d) \ {Root}
  BY TreeGroups
<1>5. q \in InTree(d) /\ q \in Groups /\ x \in Kids(d, q) /\ x \in ToSet(w)
  BY <1>3, <1>4
<1> HIDE DEF w, q
<1>6. ASSUME q # Root
      PROVE  /\ q \in ToSet(w) /\ Before(w, q, x)
             /\ \A z \in ToSet(w) : z # q /\ Before(w, q, z) /\ Before(w, z, x)
                   => d.group[z].level # d.group[q].level
  <2>1. q \in ToSet(w)
    BY <1>4, <1>5, <1>6
  <2>2. Before(w, q, x)
    BY <1>2, <1>5, <2>1 DEF ParentFirst
  <2>3. \A z \in ToSet(w) : Level(d)[z] = d.group[z].level
    BY <1>3, <1>4 DEF Level
  <2>4. QED
    BY <1>2, <1>5, <2>1, <2>2, <2>3 DEF NoneBetween
<1>7. ASSUME NEW y, Before(d.group[q].subGroups, y, x) PROVE Before(w, y, x)
  <2>1. y \in ToSet(d.group[q].subGroups)
    BY <1>7, BeforeMembers
  <2>2. y \in Groups /\ d.group[y].parent = q
    BY <1>3, <1>5, <2>1 DEF Kids
  <2>3. y \in InTree(d)
    BY <1>5, <2>2, Bound DEF InTree
  <2>4. y # Root
    <3>1. d.group[Root].parent = None
      BY TreeLinks
    <3>2. QED
      BY <1>5, <2>2, <3>1, Bound
  <2>5. y \in ToSet(w) /\ q \in {Root} \cup ToSet(w)
    BY <1>4, <1>5, <2>3, <2>4
  <2>6. QED
    BY <1>2, <1>5, <1>7, <2>5 DEF AsListed
<1>8. QED
  BY <1>6, <1>7 DEF w, q

----------------------------------------------------------------------------------
(* The groups that have been read                                               *)

(* The groups of P have been read, but for the hierarchy.                         *)
IsHeaded(d, t, P) ==
    /\ t \in Trees
    /\ t.backupGroup = IF d.backupGroup \in P THEN d.backupGroup ELSE None
    /\ \A e \in Entries : t.entry[e] = NoEntry
    /\ \A h \in Groups :
          LET s == IF h \in P THEN d.group[h] ELSE NewGroup
          IN  /\ t.group[h].subGroups = <<>> /\ t.group[h].entries = <<>>
              /\ t.group[h].parent   = None
              /\ t.group[h].level    = s.level
              /\ t.group[h].id       = s.id
              /\ t.group[h].reserved = s.reserved
              /\ t.group[h].deleted  = s.deleted

(* Before the first record, ...                                                 *)
LEMMA NothingRead == \A d : IsHeaded(d, NoTree, {})
<1>1. NoTree \in Trees
  <2>1. NewGroup \in GroupStates /\ NoEntry \in EntryStates
    BY NewGroupFields DEF EntryStates, NoEntry
  <2>2. /\ [g \in Groups |-> NewGroup] \in [Groups -> GroupStates]
        /\ [e \in Entries |-> NoEntry] \in [Entries -> EntryStates]
    BY <2>1
  <2>3. QED
    BY <2>2 DEF NoTree, Trees
<1>2. /\ \A h \in Groups : NoTree.group[h] = NewGroup
      /\ \A e \in Entries : NoTree.entry[e] = NoEntry
      /\ NoTree.backupGroup = None
  BY DEF NoTree
<1>3. QED
  BY <1>1, <1>2, NewGroupFields DEF IsHeaded

(* A record tells the Backup group by its level and its name.                     *)
LEMMA BackupRecord ==
    ASSUME NEW d, IsTree(d), NEW x \in InTree(d) \ {Root}
    PROVE  /\ IsBackup(GroupRecord(d, x)) <=> x = d.backupGroup
           /\ IsBackup(GroupRecord(d, x)) = d.group[x].deleted
<1>1. d \in Trees /\ GroupsAgree(d) /\ BackupAgrees(d)
  BY DEF IsTree
<1>2. x \in Groups /\ x # None
  <2>1. InTree(d) \subseteq Groups
    BY <1>1, TreeLinks
  <2>2. QED
    BY <2>1, Bound
<1>3. IsBackup(GroupRecord(d, x)) <=> d.group[x].level = 0 /\ d.group[x].reserved
  BY DEF IsBackup, GroupRecord
<1>4. IsBackup(GroupRecord(d, x)) \in BOOLEAN /\ d.group[x].deleted \in BOOLEAN
  <2>1. d.group[x] \in GroupStates
    BY <1>1, <1>2, TreeFields
  <2>2. d.group[x].deleted \in BOOLEAN
    BY <2>1 DEF GroupStates
  <2>3. IsBackup(GroupRecord(d, x)) \in BOOLEAN
    BY Zenon DEF IsBackup
  <2>4. QED
    BY <2>2, <2>3
<1>5. /\ d.group[x].reserved <=> x = d.backupGroup
      /\ d.group[x].deleted <=> x = d.backupGroup
      /\ x = d.backupGroup => d.group[x].parent = Root
  BY <1>1, <1>2 DEF BackupAgrees
<1>6. d.group[x].parent = Root => d.group[x].level = 0
  <2>1. d.group[x].level = d.group[d.group[x].parent].level + 1 /\ d.group[Root].level = -1
    BY <1>1, TreeLinks
  <2>2. QED
    BY <2>1
<1>7. QED
  BY <1>3, <1>4, <1>5, <1>6

(* ... and after one more.                                                      *)
LEMMA HeadRead ==
    ASSUME NEW d, IsTree(d), NEW x \in InTree(d) \ {Root}, NEW t, NEW P, IsHeaded(d, t, P)
    PROVE  IsHeaded(d, ReadGroup(t, GroupRecord(d, x)), P \cup {x})
<1> DEFINE r  == GroupRecord(d, x)
           t2 == ReadGroup(t, r)
           i  == d.group[x].id
           l  == d.group[x].level
           v  == d.group[x].reserved
           c  == d.group[x].deleted
           a  == [[[[NewGroup EXCEPT !.id = i] EXCEPT !.level = l] EXCEPT !.reserved = v]
                     EXCEPT !.deleted = c]
           b  == IF IsBackup(r) THEN x ELSE t.backupGroup
<1>1. d \in Trees /\ GroupsAgree(d)
  BY DEF IsTree
<1>2. x \in Groups /\ x # None /\ x # Root
  <2>1. InTree(d) \subseteq Groups
    BY <1>1, TreeLinks
  <2>2. QED
    BY <2>1, Bound
<1>3. (IsBackup(r) <=> x = d.backupGroup) /\ IsBackup(r) = c
  BY BackupRecord
<1>4. r.node = x /\ r.id = i /\ r.level = l /\ r.reserved = v
  BY DEF GroupRecord
<1>5. /\ a \in GroupStates /\ a.subGroups = <<>> /\ a.entries = <<>> /\ a.parent = None
      /\ a.level = l /\ a.id = i /\ a.reserved = v /\ a.deleted = c
  <2>1. d.group[x] \in GroupStates
    BY <1>1, <1>2, TreeFields
  <2>2. i \in Ids \cup {None} /\ l \in -1..Cardinality(Groups) /\ v \in BOOLEAN /\ c \in BOOLEAN
    BY <2>1 DEF GroupStates
  <2> HIDE DEF i, l, v, c
  <2>3. QED
    BY <2>2, NewGroupFields DEF GroupStates
<1>6. t \in Trees /\ t.backupGroup = IF d.backupGroup \in P THEN d.backupGroup ELSE None
  BY DEF IsHeaded
<1>7. t.group \in [Groups -> GroupStates] /\ t.entry \in [Entries -> EntryStates]
  BY <1>6 DEF Trees
<1> DEFINE G == t.group
           E == t.entry
           g2 == [G EXCEPT ![x] = a]
<1>8. t2 = [group |-> g2, entry |-> E, backupGroup |-> b]
  <2>1. t2 = [t EXCEPT !.group[x] = [NewGroup EXCEPT !.id = r.id, !.level = r.level,
                                                     !.reserved = r.reserved,
                                                     !.deleted = IsBackup(r)],
                       !.backupGroup = IF IsBackup(r) THEN r.node ELSE t.backupGroup]
    BY <1>4 DEF ReadGroup
  <2>2. [NewGroup EXCEPT !.id = r.id, !.level = r.level, !.reserved = r.reserved,
                         !.deleted = IsBackup(r)] = a
    <3>1. [NewGroup EXCEPT !.id = i, !.level = l, !.reserved = v, !.deleted = c] = a
      <4> HIDE DEF i, l, v, c
      <4>1. QED
        BY DEF NewGroup
    <3> HIDE DEF r, i, l, v, c
    <3>2. QED
      BY <1>3, <1>4, <3>1
  <2> HIDE DEF a
  <2>3. t2 = [t EXCEPT !.group[x] = a, !.backupGroup = b]
    BY <1>4, <2>1, <2>2
  <2> DEFINE B == t.backupGroup
  <2>4. t = [group |-> G, entry |-> E, backupGroup |-> B]
    BY <1>6 DEF Trees
  <2> HIDE DEF t2, G, E, B, b
  <2>5. QED
    BY ONLY <2>3, <2>4
<1> HIDE DEF a
<1>9. \A h \in Groups : g2[h] = IF h = x THEN a ELSE t.group[h]
  BY <1>2, <1>7
<1>10. b = IF d.backupGroup \in P \cup {x} THEN d.backupGroup ELSE None
  BY <1>2, <1>3, <1>6
<1>11. b \in (Groups \ {Root}) \cup {None}
  <2>1. d.backupGroup \in (Groups \ {Root}) \cup {None}
    BY <1>1 DEF Trees
  <2>2. QED
    BY <1>10, <2>1
<1>12. t2 \in Trees
  <2>1. g2 \in [Groups -> GroupStates]
    BY <1>2, <1>5, <1>7
  <2> HIDE DEF g2, b
  <2>2. QED
    BY <1>7, <1>8, <1>11, <2>1 DEF Trees
<1>13. t2.group = g2 /\ t2.entry = t.entry /\ t2.backupGroup = b
  BY <1>8
<1> HIDE DEF t2, b, g2
<1>14. \A e \in Entries : t2.entry[e] = NoEntry
  BY <1>13 DEF IsHeaded
<1>15. ASSUME NEW h \in Groups
       PROVE  LET s == IF h \in P \cup {x} THEN d.group[h] ELSE NewGroup
              IN  /\ t2.group[h].subGroups = <<>> /\ t2.group[h].entries = <<>>
                  /\ t2.group[h].parent   = None
                  /\ t2.group[h].level    = s.level
                  /\ t2.group[h].id       = s.id
                  /\ t2.group[h].reserved = s.reserved
                  /\ t2.group[h].deleted  = s.deleted
  <2>1. CASE h = x
    BY <1>5, <1>9, <1>13, <2>1
  <2>2. CASE h # x
    <3>1. t2.group[h] = t.group[h]
      BY <1>9, <1>13, <2>2
    <3>2. h \in P \cup {x} <=> h \in P
      BY <2>2
    <3>3. QED
      BY <3>1, <3>2 DEF IsHeaded
  <2>3. QED
    BY <2>1, <2>2
<1>16. IsHeaded(d, t2, P \cup {x})
  BY <1>10, <1>12, <1>13, <1>14, <1>15 DEF IsHeaded
<1>17. QED
  BY <1>16 DEF t2

(* All groups of d have been read, and those of S are below their parents again.  *)
IsRestored(d, t, S) ==
    /\ t \in Trees
    /\ t.backupGroup = d.backupGroup
    /\ \A h \in Groups :
          /\ t.group[h].parent   = IF h \in S THEN d.group[h].parent ELSE None
          /\ t.group[h].level    = d.group[h].level
          /\ t.group[h].id       = d.group[h].id
          /\ t.group[h].reserved = d.group[h].reserved
          /\ t.group[h].deleted  = d.group[h].deleted
          /\ t.group[h].entries  = <<>>
          /\ IsUpto(t.group[h].subGroups, d.group[h].subGroups, S)
    /\ \A e \in Entries : t.entry[e] = NoEntry

(* Then the hierarchy is to be restored, ...                                    *)
LEMMA HeadsRead ==
    ASSUME NEW d, IsTree(d), NEW t, IsHeaded(d, t, InTree(d) \ {Root})
    PROVE  IsRestored(d, t, {})
<1> DEFINE P == InTree(d) \ {Root}
<1>1. d \in Trees /\ GroupsAgree(d) /\ BackupAgrees(d)
  BY DEF IsTree
<1>2. /\ d.group[Root].level = -1 /\ d.group[Root].id = None
      /\ d.group[Root].reserved = FALSE /\ d.group[Root].deleted = FALSE
      /\ InTree(d) \subseteq Groups
      /\ \A h \in Groups \ InTree(d) : d.group[h] = NewGroup
  BY <1>1, TreeLinks
<1>3. d.backupGroup = IF d.backupGroup \in P THEN d.backupGroup ELSE None
  <2>1. d.backupGroup \in (Groups \ {Root}) \cup {None}
    BY <1>1 DEF Trees
  <2>2. d.backupGroup # None => d.group[d.backupGroup].parent = Root
    BY <1>1 DEF BackupAgrees
  <2>3. QED
    BY <2>1, <2>2, Bound DEF InTree
<1>4. /\ t \in Trees
      /\ t.backupGroup = IF d.backupGroup \in P THEN d.backupGroup ELSE None
      /\ \A e \in Entries : t.entry[e] = NoEntry
  BY DEF IsHeaded
<1>5. ASSUME NEW h \in Groups
      PROVE  /\ t.group[h].subGroups = <<>> /\ t.group[h].entries = <<>>
             /\ t.group[h].parent   = None
             /\ t.group[h].level    = d.group[h].level
             /\ t.group[h].id       = d.group[h].id
             /\ t.group[h].reserved = d.group[h].reserved
             /\ t.group[h].deleted  = d.group[h].deleted
  <2> DEFINE s == IF h \in P THEN d.group[h] ELSE NewGroup
  <2>1. /\ t.group[h].subGroups = <<>> /\ t.group[h].entries = <<>>
        /\ t.group[h].parent   = None
        /\ t.group[h].level    = s.level
        /\ t.group[h].id       = s.id
        /\ t.group[h].reserved = s.reserved
        /\ t.group[h].deleted  = s.deleted
    BY DEF IsHeaded
  <2>2. /\ s.level = d.group[h].level /\ s.id = d.group[h].id
        /\ s.reserved = d.group[h].reserved /\ s.deleted = d.group[h].deleted
    <3>1. CASE h \in P
      BY <3>1
    <3>2. CASE h = Root
      BY <1>2, <3>2, NewGroupFields
    <3>3. CASE h \notin InTree(d)
      BY <1>2, <3>3
    <3>4. QED
      BY <3>1, <3>2, <3>3
  <2> HIDE DEF s
  <2>3. QED
    BY <2>1, <2>2
<1>6. \A h \in Groups : IsUpto(t.group[h].subGroups, d.group[h].subGroups, {})
  <2>1. \A h \in Groups : d.group[h].subGroups \in Seq(Groups)
    BY <1>1, TreeFields
  <2>2. \A h \in Groups : IsUpto(<<>>, d.group[h].subGroups, {})
    BY <2>1, UptoNone
  <2>3. QED
    BY <1>5, <2>2
<1>7. QED
  BY <1>3, <1>4, <1>5, <1>6 DEF IsRestored

(* A group is appended to the list of another.                                    *)
LEMMA SubGroupAdded ==
    ASSUME NEW d \in Trees, NEW p \in Groups, NEW g \in Groups, p # g,
           d.group[p].level + 1 \in -1..Cardinality(Groups)
    PROVE  LET d2 == AddSubGroup(d, p, g)
           IN  /\ d2 \in Trees /\ d2.entry = d.entry /\ d2.backupGroup = d.backupGroup
               /\ \A h \in Groups :
                     /\ d2.group[h].subGroups = IF h = p THEN Append(d.group[p].subGroups, g)
                                                         ELSE d.group[h].subGroups
                     /\ d2.group[h].entries  = d.group[h].entries
                     /\ d2.group[h].parent   = IF h = g THEN p ELSE d.group[h].parent
                     /\ d2.group[h].level    = IF h = g THEN d.group[p].level + 1
                                                        ELSE d.group[h].level
                     /\ d2.group[h].id       = d.group[h].id
                     /\ d2.group[h].reserved = d.group[h].reserved
                     /\ d2.group[h].deleted  = d.group[h].deleted
<1> DEFINE G  == d.group
           d2 == AddSubGroup(d, p, g)
           rs == Append(d.group[p].subGroups, g)
           l  == d.group[p].level + 1
           g1 == [G EXCEPT ![p] = [G[p] EXCEPT !.subGroups = rs]]
           g2 == [g1 EXCEPT ![g] = [g1[g] EXCEPT !.parent = p]]
           g3 == [g2 EXCEPT ![g] = [g2[g] EXCEPT !.level = l]]
<1>1. /\ d.group \in [Groups -> GroupStates] /\ d.entry \in [Entries -> EntryStates]
      /\ d = [group |-> d.group, entry |-> d.entry, backupGroup |-> d.backupGroup]
      /\ d.backupGroup \in (Groups \ {Root}) \cup {None}
  BY DEF Trees
<1>2. rs \in Seq(Groups)
  <2>1. d.group[p].subGroups \in Seq(Groups)
    BY TreeFields
  <2>2. QED
    BY <2>1
<1>3. d2 = [group |-> g3, entry |-> d.entry, backupGroup |-> d.backupGroup]
  <2>1. d2 = [d EXCEPT !.group[p].subGroups = Append(d.group[p].subGroups, g),
                       !.group[g].parent    = p,
                       !.group[g].level     = d.group[p].level + 1]
    BY DEF AddSubGroup
  <2> DEFINE E == d.entry
             b == d.backupGroup
             t1 == [d EXCEPT !.group = [d.group EXCEPT ![p] = [d.group[p] EXCEPT !.subGroups = rs]]]
             t2 == [t1 EXCEPT !.group = [t1.group EXCEPT ![g] = [t1.group[g] EXCEPT !.parent = p]]]
             t3 == [t2 EXCEPT !.group = [t2.group EXCEPT ![g] = [t2.group[g] EXCEPT !.level = l]]]
  <2> HIDE DEF d2
  <2>2. d2 = t3
    BY ONLY <2>1
  <2>3. d = [group |-> G, entry |-> E, backupGroup |-> b]
    BY <1>1
  <2> HIDE DEF G, E, b, l, rs
  <2>4. t1 = [group |-> g1, entry |-> E, backupGroup |-> b]
    BY ONLY <2>3
  <2> HIDE DEF t1, g1
  <2>5. t2 = [group |-> g2, entry |-> E, backupGroup |-> b]
    BY ONLY <2>4
  <2> HIDE DEF t2, g2
  <2>6. t3 = [group |-> g3, entry |-> E, backupGroup |-> b]
    BY ONLY <2>5
  <2>7. QED
    BY <2>2, <2>6 DEF E, b
<1>4. l \in -1..Cardinality(Groups)
  OBVIOUS
<1> HIDE DEF rs, d2, l
<1>5. \A h \in Groups : g3[h] = IF h = g THEN [[d.group[g] EXCEPT !.parent = p] EXCEPT !.level = l]
                                ELSE IF h = p THEN [d.group[p] EXCEPT !.subGroups = rs]
                                ELSE d.group[h]
  BY <1>1
<1>6. g3 = [h \in Groups |-> g3[h]]
  BY <1>1
<1> HIDE DEF g3
<1>7. ASSUME NEW h \in Groups
      PROVE  /\ g3[h] \in GroupStates
             /\ g3[h].subGroups = IF h = p THEN rs ELSE d.group[h].subGroups
             /\ g3[h].entries  = d.group[h].entries
             /\ g3[h].parent   = IF h = g THEN p ELSE d.group[h].parent
             /\ g3[h].level    = IF h = g THEN l ELSE d.group[h].level
             /\ g3[h].id       = d.group[h].id
             /\ g3[h].reserved = d.group[h].reserved
             /\ g3[h].deleted  = d.group[h].deleted
  <2> DEFINE s == d.group[h]
             a == [[s EXCEPT !.parent = p] EXCEPT !.level = l]
             c == [s EXCEPT !.subGroups = rs]
  <2>1. s \in GroupStates
    BY <1>1
  <2>2. /\ a \in GroupStates /\ a.subGroups = s.subGroups /\ a.entries = s.entries /\ a.id = s.id
        /\ a.reserved = s.reserved /\ a.deleted = s.deleted /\ a.parent = p /\ a.level = l
    BY <1>4, <2>1 DEF GroupStates
  <2>3. /\ c \in GroupStates /\ c.subGroups = rs /\ c.entries = s.entries /\ c.id = s.id
        /\ c.parent = s.parent /\ c.level = s.level
        /\ c.reserved = s.reserved /\ c.deleted = s.deleted
    BY <1>2, <2>1 DEF GroupStates
  <2>4. g3[h] = IF h = g THEN a ELSE IF h = p THEN c ELSE s
    BY <1>5
  <2> HIDE DEF s, a, c
  <2>5. /\ g3[h] \in GroupStates
        /\ g3[h].subGroups = IF h = p THEN rs ELSE s.subGroups
        /\ g3[h].entries  = s.entries
        /\ g3[h].parent   = IF h = g THEN p ELSE s.parent
        /\ g3[h].level    = IF h = g THEN l ELSE s.level
        /\ g3[h].id       = s.id
        /\ g3[h].reserved = s.reserved
        /\ g3[h].deleted  = s.deleted
    BY <2>1, <2>2, <2>3, <2>4
  <2>6. QED
    BY <2>5 DEF s
<1>8. d2 \in Trees
  <2>1. g3 \in [Groups -> GroupStates]
    BY <1>6, <1>7
  <2>2. QED
    BY <1>1, <1>3, <2>1 DEF Trees
<1>9. d2.group = g3 /\ d2.entry = d.entry /\ d2.backupGroup = d.backupGroup
  BY <1>3
<1>10. QED
  BY <1>7, <1>8, <1>9 DEF d2, rs, l

(* One more group goes below its parent.                                          *)
LEMMA GroupPlaced ==
    ASSUME NEW d, IsTree(d), NEW t, NEW S, IsRestored(d, t, S),
           NEW x \in InTree(d) \ {Root}, x \notin S,
           \A y : Before(d.group[d.group[x].parent].subGroups, y, x) => y \in S
    PROVE  IsRestored(d, AddSubGroup(t, d.group[x].parent, x), S \cup {x})
<1> DEFINE q  == d.group[x].parent
           t2 == AddSubGroup(t, q, x)
<1>1. d \in Trees /\ GroupsAgree(d)
  BY DEF IsTree
<1>2. /\ InTree(d) \subseteq Groups
      /\ \A p \in Groups : \A y : y \in Kids(d, p) <=> y \in Groups /\ d.group[y].parent = p
      /\ \A y \in InTree(d) \ {Root} : /\ d.group[y].parent \in InTree(d)
                                       /\ d.group[y].level = d.group[d.group[y].parent].level + 1
  BY <1>1, TreeLinks
<1>3. x \in Groups /\ q \in Groups /\ d.group[x].level = d.group[q].level + 1
  BY <1>2
<1>4. d.group[x].level \in -1..Cardinality(Groups) /\ d.group[q].level \in Int /\ q # x
  <2>1. /\ d.group[x].level \in Int /\ -1 <= d.group[x].level /\ d.group[x].level <= N
        /\ d.group[q].level \in Int
    BY <1>1, <1>3, TreeFields
  <2>2. QED
    BY <1>3, <2>1, Bound DEF N
<1> HIDE DEF q
<1>5. t \in Trees /\ t.backupGroup = d.backupGroup
  BY DEF IsRestored
<1>6. \A e \in Entries : t.entry[e] = NoEntry
  BY DEF IsRestored
<1>7. \A h \in Groups :
         /\ t.group[h].parent   = IF h \in S THEN d.group[h].parent ELSE None
         /\ t.group[h].level    = d.group[h].level
         /\ t.group[h].id       = d.group[h].id
         /\ t.group[h].reserved = d.group[h].reserved
         /\ t.group[h].deleted  = d.group[h].deleted
         /\ t.group[h].entries  = <<>>
         /\ IsUpto(t.group[h].subGroups, d.group[h].subGroups, S)
  BY DEF IsRestored
<1>8. t.group[q].level + 1 \in -1..Cardinality(Groups)
  BY <1>3, <1>4, <1>7
<1>9. /\ t2 \in Trees /\ t2.entry = t.entry /\ t2.backupGroup = t.backupGroup
      /\ \A h \in Groups :
            /\ t2.group[h].subGroups = IF h = q THEN Append(t.group[q].subGroups, x)
                                                ELSE t.group[h].subGroups
            /\ t2.group[h].entries  = t.group[h].entries
            /\ t2.group[h].parent   = IF h = x THEN q ELSE t.group[h].parent
            /\ t2.group[h].level    = IF h = x THEN t.group[q].level + 1 ELSE t.group[h].level
            /\ t2.group[h].id       = t.group[h].id
            /\ t2.group[h].reserved = t.group[h].reserved
            /\ t2.group[h].deleted  = t.group[h].deleted
  BY <1>3, <1>4, <1>5, <1>8, SubGroupAdded
<1> HIDE DEF t2
<1>10. ASSUME NEW h \in Groups
       PROVE  IsUpto(t2.group[h].subGroups, d.group[h].subGroups, S \cup {x})
  <2> DEFINE s == d.group[h].subGroups
             u == t.group[h].subGroups
  <2>1. s \in Seq(Groups) /\ IsInjective(s) /\ u \in Seq(Groups) /\ IsUpto(u, s, S)
    BY <1>1, <1>5, <1>7, TreeFields DEF GroupsAgree
  <2>2. x \in ToSet(s) <=> h = q
    BY <1>2, <1>3 DEF Kids, q
  <2>3. CASE h = q
    <3>1. \A y : Before(s, y, x) => y \in S
      BY <2>3 DEF q
    <3>2. t2.group[h].subGroups = Append(u, x)
      BY <1>9, <2>3
    <3> HIDE DEF s, u
    <3>3. IsUpto(Append(u, x), s, S \cup {x})
      BY <2>1, <2>2, <2>3, <3>1, UptoStep
    <3>4. QED
      BY <3>2, <3>3 DEF s
  <2>4. CASE h # q
    <3>1. t2.group[h].subGroups = u
      BY <1>9, <2>4
    <3>2. DOMAIN s = 1..Len(s)
      BY <2>1
    <3> HIDE DEF s, u
    <3>3. IsUpto(u, s, S \cup {x})
      BY <2>1, <2>2, <2>4, <3>2, UptoOther
    <3>4. QED
      BY <3>1, <3>3 DEF s
  <2>5. QED
    BY <2>3, <2>4
<1>11. ASSUME NEW h \in Groups
       PROVE  /\ t2.group[h].parent   = IF h \in S \cup {x} THEN d.group[h].parent ELSE None
              /\ t2.group[h].level    = d.group[h].level
              /\ t2.group[h].id       = d.group[h].id
              /\ t2.group[h].reserved = d.group[h].reserved
              /\ t2.group[h].deleted  = d.group[h].deleted
              /\ t2.group[h].entries  = <<>>
  <2>1. CASE h = x
    BY <1>3, <1>7, <1>9, <2>1 DEF q
  <2>2. CASE h # x
    BY <1>7, <1>9, <2>2
  <2>3. QED
    BY <2>1, <2>2
<1>12. IsRestored(d, t2, S \cup {x})
  BY <1>5, <1>6, <1>9, <1>10, <1>11 DEF IsRestored
<1>13. QED
  BY <1>12 DEF t2, q

----------------------------------------------------------------------------------
(* Files: what is written and read again                                        *)

GroupRecords(d) == [i \in DOMAIN AllGroups(d) |-> GroupRecord(d, AllGroups(d)[i])]
EntryRecords(d) == [i \in DOMAIN AllEntries(d) |-> EntryRecord(d, AllEntries(d)[i])]

(* The first part of a sequence that has been put together.                     *)
LEMMA FirstPart ==
    ASSUME NEW S, NEW s \in Seq(S), NEW t \in Seq(S)
    PROVE  SubSeq(s \o t, 1, Len(s)) = s /\ SubSeq(s, 1, Len(s)) = s
OBVIOUS

(* A list with something else for each of the members of another.                 *)
LEMMA SeqOver ==
    ASSUME NEW S, NEW s \in Seq(S), NEW f, DOMAIN f = DOMAIN s, NEW T,
           \A i \in DOMAIN s : f[i] \in T, f = [i \in DOMAIN s |-> f[i]]
    PROVE  f \in Seq(T) /\ Len(f) = Len(s)
OBVIOUS

(* The records are typed, and as many as groups and entries.                    *)
LEMMA RecordsTyped ==
    ASSUME NEW d \in Trees, GroupsAgree(d), EntriesAgree(d)
    PROVE  /\ GroupRecords(d) \in Seq([node : Groups, id : Ids \cup {None},
                                       level : -1..Cardinality(Groups), reserved : BOOLEAN])
           /\ EntryRecords(d) \in Seq([node : Entries \cup MetaStreams, groupId : Ids \cup {None},
                                       title : Titles \cup {None}])
           /\ Len(GroupRecords(d)) = Len(AllGroups(d)) /\ Len(EntryRecords(d)) = Len(AllEntries(d))
<1> DEFINE GR == [node : Groups, id : Ids \cup {None},
                  level : -1..Cardinality(Groups), reserved : BOOLEAN]
           ER == [node : Entries \cup MetaStreams, groupId : Ids \cup {None},
                  title : Titles \cup {None}]
           gs == GroupRecords(d)
           es == EntryRecords(d)
<1>1. AllGroups(d) \in Seq(Groups) /\ AllEntries(d) \in Seq(Entries)
  <2>1. AllGroups(d) \in Seq(Groups)
    BY TreeGroups
  <2>2. AllEntries(d) \in Seq(Entries)
    BY TreeEntries
  <2>3. QED
    BY <2>1, <2>2
<1>2. ASSUME NEW g \in Groups PROVE GroupRecord(d, g) \in GR
  <2>1. d.group[g] \in GroupStates
    BY TreeFields
  <2>2. QED
    BY <2>1 DEF GroupRecord, GroupStates
<1>3. ASSUME NEW e \in Entries PROVE EntryRecord(d, e) \in ER
  <2>1. d.entry[e] \in EntryStates
    BY DEF Trees
  <2>2. QED
    BY <2>1 DEF EntryRecord, EntryStates
<1> HIDE DEF GR, ER
<1>4. gs \in Seq(GR) /\ Len(gs) = Len(AllGroups(d))
  <2>1. \A i \in DOMAIN AllGroups(d) : gs[i] \in GR
    BY <1>1, <1>2 DEF GroupRecords
  <2>2. gs = [i \in DOMAIN AllGroups(d) |-> gs[i]] /\ DOMAIN gs = DOMAIN AllGroups(d)
    BY DEF GroupRecords
  <2> HIDE DEF gs
  <2>3. QED
    BY <1>1, <2>1, <2>2, SeqOver
<1>5. es \in Seq(ER) /\ Len(es) = Len(AllEntries(d))
  <2>1. \A i \in DOMAIN AllEntries(d) : es[i] \in ER
    BY <1>1, <1>3 DEF EntryRecords
  <2>2. es = [i \in DOMAIN AllEntries(d) |-> es[i]] /\ DOMAIN es = DOMAIN AllEntries(d)
    BY DEF EntryRecords
  <2> HIDE DEF es
  <2>3. QED
    BY <1>1, <2>1, <2>2, SeqOver
<1>6. QED
  BY <1>4, <1>5 DEF GR, ER

(* What is written is typed, and what is read of it are the records of the groups *)
(* and of the entries: the meta streams come after these.                         *)
LEMMA WrittenLists ==
    ASSUME NEW d \in Trees, GroupsAgree(d), EntriesAgree(d), NEW metas \in Seq(MetaStreams)
    PROVE  LET f == Written(d, metas)
           IN  /\ f \in Files /\ f.groupCount <= Len(f.groups) /\ f.entryCount <= Len(f.entries)
               /\ ReadGroups(f) = GroupRecords(d) /\ ReadEntries(f) = EntryRecords(d)
<1> DEFINE GR == [node : Groups, id : Ids \cup {None},
                  level : -1..Cardinality(Groups), reserved : BOOLEAN]
           ER == [node : Entries \cup MetaStreams, groupId : Ids \cup {None},
                  title : Titles \cup {None}]
           gs == GroupRecords(d)
           es == EntryRecords(d)
           ms == [i \in DOMAIN metas |-> MetaRecord(metas[i])]
           f  == Written(d, metas)
<1>1. gs \in Seq(GR) /\ es \in Seq(ER) /\ Len(gs) = Len(AllGroups(d)) /\ Len(es) = Len(AllEntries(d))
  BY RecordsTyped
<1>2. ms \in Seq(ER)
  <2>1. \A i \in DOMAIN metas : ms[i] \in ER
    BY DEF MetaRecord
  <2>2. ms = [i \in DOMAIN metas |-> ms[i]] /\ DOMAIN ms = DOMAIN metas
    OBVIOUS
  <2> HIDE DEF ms, ER
  <2>3. QED
    BY <2>1, <2>2, SeqOver
<1>3. f = [groups |-> gs, entries |-> es \o ms, groupCount |-> Len(gs), entryCount |-> Len(es)]
  BY <1>1 DEF Written, Counted, Content, GroupRecords, EntryRecords
<1> HIDE DEF GR, ER, gs, es, ms, f
<1>4. es \o ms \in Seq(ER) /\ Len(es) <= Len(es \o ms) /\ Len(gs) \in Nat /\ Len(es) \in Nat
  BY <1>1, <1>2
<1>5. SubSeq(gs, 1, Len(gs)) = gs /\ SubSeq(es \o ms, 1, Len(es)) = es
  BY <1>1, <1>2, FirstPart
<1>6. f \in Files
  BY <1>1, <1>3, <1>4 DEF Files, GR, ER
<1>7. QED
  BY <1>3, <1>4, <1>5, <1>6 DEF f, gs, es, ReadGroups, ReadEntries

Reading == INSTANCE FoldLemmas WITH op <- LAMBDA none, d, r : ReadGroup(d, r)

(* The first walk over the list of groups.                                        *)
LEMMA HeadsFold ==
    ASSUME NEW d, IsTree(d)
    PROVE  IsRestored(d, FoldLeft(ReadGroup, NoTree, GroupRecords(d)), {})
<1> DEFINE w  == AllGroups(d)
           gs == GroupRecords(d)
           n  == Len(w)
           t  == FoldLeft(ReadGroup, NoTree, gs)
           r  == Reading!Steps({}, NoTree, gs, n)
           Got(k) == {x \in ToSet(w) : \E j \in 1..k : w[j] = x}
           Done(k) == IsHeaded(d, r[k], Got(k))
           T == {k \in Nat : k > n \/ Done(k)}
<1>1. d \in Trees /\ GroupsAgree(d)
  BY DEF IsTree
<1>2. w \in Seq(Groups) /\ ToSet(w) = InTree(d) \ {Root}
  BY <1>1, TreeGroups
<1>3. n \in Nat /\ DOMAIN w = 1..n
  BY <1>2
<1>4. DOMAIN gs = 1..n /\ \A k \in 1..n : gs[k] = GroupRecord(d, w[k])
  BY <1>3 DEF GroupRecords
<1>5. t = Reading!Folded({}, NoTree, gs)
  BY DEF Reading!Folded, FoldLeft, MapThenFoldSet, Reading!MapThenFoldSet,
         Max, Reading!Max
<1> HIDE DEF n, gs, t, w
<1>6. /\ r[0] = NoTree
      /\ \A k \in 1..n : r[k] = ReadGroup(r[k - 1], gs[k])
      /\ r[n] = Reading!Folded({}, NoTree, gs)
  BY <1>3, <1>4, Reading!FoldLeftSteps
<1> HIDE DEF r
<1>7. 0 \in T
  <2>1. Got(0) = {}
    OBVIOUS
  <2> HIDE DEF Got
  <2>2. QED
    BY <1>6, <2>1, NothingRead
<1>8. ASSUME NEW k \in Nat, k \in T PROVE k + 1 \in T
  <2>1. CASE k + 1 > n
    BY <2>1
  <2>2. CASE k + 1 <= n
    <3> DEFINE x == w[k + 1]
    <3>1. k + 1 \in 1..n /\ (k + 1) - 1 = k /\ ~(k > n)
      BY <1>3, <2>2
    <3>2. IsHeaded(d, r[k], Got(k))
      BY <1>8, <3>1
    <3>3. r[k + 1] = ReadGroup(r[k], GroupRecord(d, x))
      BY <1>4, <1>6, <3>1
    <3>4. x \in ToSet(w)
      BY <1>3, <3>1 DEF ToSet
    <3>5. Got(k + 1) = Got(k) \cup {x}
      <4>1. 1..(k + 1) = (1..k) \cup {k + 1}
        OBVIOUS
      <4>2. QED
        BY <3>4, <4>1
    <3> HIDE DEF x, Got
    <3>6. IsHeaded(d, ReadGroup(r[k], GroupRecord(d, x)), Got(k) \cup {x})
      BY <1>2, <3>2, <3>4, HeadRead
    <3>7. IsHeaded(d, r[k + 1], Got(k + 1))
      BY <3>3, <3>5, <3>6
    <3>8. QED
      BY <3>7
  <2>3. n \in Nat /\ k \in Nat
    BY <1>3, <1>8
  <2> HIDE DEF T
  <2>4. QED
    BY <2>1, <2>2, <2>3
<1>9. n \in T
  <2> HIDE DEF T
  <2>1. QED
    BY <1>3, <1>7, <1>8, Walking!NatSetInduction
<1>10. IsHeaded(d, r[n], Got(n))
  BY <1>3, <1>9
<1>11. Got(n) = ToSet(w)
  BY <1>2, <1>3, MembersOfSeq DEF n
<1> HIDE DEF Got
<1>12. IsHeaded(d, t, InTree(d) \ {Root})
  BY <1>2, <1>5, <1>6, <1>10, <1>11
<1>13. QED
  BY <1>12, HeadsRead DEF t, gs

----------------------------------------------------------------------------------
(* The hierarchy, level by level                                                *)

(* The groups above a level, and of those on it the first k in the list.          *)
Above(d, level, k) ==
    {x \in InTree(d) \ {Root} :
        \/ d.group[x].level < level
        \/ d.group[x].level = level /\ \E j \in 1..k : AllGroups(d)[j] = x}

(* acc.at is the last of the first k groups that are one level higher.            *)
IsAt(d, level, k, acc) ==
    /\ acc = [d |-> acc.d, at |-> acc.at]
    /\ level = 0 => acc.at = Root
    /\ level > 0 =>
          \A j \in 1..k : (/\ d.group[AllGroups(d)[j]].level = level - 1
                           /\ \A i \in (j + 1)..k : d.group[AllGroups(d)[i]].level # level - 1)
                          => acc.at = AllGroups(d)[j]

(* One more record on the way to the groups of a level: if its group is on the    *)
(* level, the last group of the level above is its parent.                        *)
LEMMA RecordPlaced ==
    ASSUME NEW d, IsTree(d), NEW L \in 0..(N - 1), NEW k \in Nat, k + 1 \in 1..Len(AllGroups(d)),
           NEW acc, IsAt(d, L, k, acc), IsRestored(d, acc.d, Above(d, L, k))
    PROVE  LET a2 == PlaceAt(L, acc, GroupRecord(d, AllGroups(d)[k + 1]))
           IN  IsAt(d, L, k + 1, a2) /\ IsRestored(d, a2.d, Above(d, L, k + 1))
<1> DEFINE w   == AllGroups(d)
           x   == w[k + 1]
           q   == d.group[x].parent
           lev(g) == d.group[g].level
           a2  == PlaceAt(L, acc, GroupRecord(d, x))
<1>1. d \in Trees /\ GroupsAgree(d)
  BY DEF IsTree
<1>2. w \in Seq(Groups) /\ IsInjective(w) /\ ToSet(w) = InTree(d) \ {Root}
  BY <1>1, TreeGroups
<1>3. /\ \A i \in 1..Len(w) : w[i] \in InTree(d) \ {Root}
      /\ DOMAIN w = 1..Len(w) /\ Len(w) \in Nat
      /\ \A i, j \in 1..Len(w) : w[i] = w[j] => i = j
  <2>1. DOMAIN w = 1..Len(w) /\ Len(w) \in Nat
    BY <1>2
  <2>2. \A i, j \in 1..Len(w) : w[i] = w[j] => i = j
    BY <1>2, <2>1 DEF IsInjective
  <2>3. \A i \in 1..Len(w) : w[i] \in ToSet(w)
    BY <2>1 DEF ToSet
  <2> HIDE DEF w
  <2>4. QED
    BY <1>2, <2>1, <2>2, <2>3
<1>4. x \in InTree(d) \ {Root}
  BY <1>3
<1>5. /\ InTree(d) \subseteq Groups /\ lev(Root) = -1
      /\ \A p \in Groups : \A y : y \in Kids(d, p) <=> y \in Groups /\ d.group[y].parent = p
      /\ \A y \in InTree(d) \ {Root} : /\ d.group[y].parent \in InTree(d)
                                       /\ lev(y) = lev(d.group[y].parent) + 1
  BY <1>1, TreeLinks
<1>6. \A g \in InTree(d) : lev(g) + 1 \in 0..(N - 1)
  BY <1>1, TreeDepth
<1>7. /\ \A g \in Groups : lev(g) \in Int
      /\ \A g \in InTree(d) \ {Root} : lev(g) >= 0
  <2>1. \A g \in Groups : lev(g) \in Int
    BY <1>1, TreeFields
  <2>2. \A g \in InTree(d) : lev(g) + 1 >= 0
    BY <1>6
  <2> HIDE DEF lev
  <2>3. QED
    BY <1>5, <2>1, <2>2
<1>8. /\ q \in InTree(d) /\ q \in Groups /\ x \in Groups /\ lev(x) = lev(q) + 1
      /\ lev(x) \in Int /\ lev(q) \in Int /\ lev(x) >= 0 /\ (q # Root => lev(q) >= 0)
  BY <1>4, <1>5, <1>7
<1>9. /\ q # Root => /\ q \in ToSet(w) /\ Before(w, q, x)
                     /\ \A z \in ToSet(w) : z # q /\ Before(w, q, z) /\ Before(w, z, x)
                           => lev(z) # lev(q)
      /\ \A y : Before(d.group[q].subGroups, y, x) => Before(w, y, x)
  BY <1>1, <1>4, TreeOrder
<1>10. L \in Nat /\ k \in Nat /\ k + 1 \in 1..Len(w) /\ L - 1 \in Int
  BY Bound
<1>11. /\ acc = [d |-> acc.d, at |-> acc.at]
       /\ L = 0 => acc.at = Root
       /\ L > 0 => \A j \in 1..k : (/\ lev(w[j]) = L - 1
                                    /\ \A i \in (j + 1)..k : lev(w[i]) # L - 1)
                                   => acc.at = w[j]
  BY DEF IsAt
<1>12. a2 = IF lev(x) = L          THEN [acc EXCEPT !.d = AddSubGroup(acc.d, acc.at, x)]
            ELSE IF lev(x) = L - 1 THEN [acc EXCEPT !.at = x]
                                   ELSE acc
  BY DEF PlaceAt, GroupRecord
<1>13. \A g \in InTree(d) \ {Root} : g # x \/ lev(x) # L =>
          (g \in Above(d, L, k + 1) <=> g \in Above(d, L, k))
  <2>1. \A i \in 1..(k + 1) : i \in 1..k \/ i = k + 1
    BY <1>10
  <2>2. \A i \in 1..k : i \in 1..(k + 1)
    BY <1>10
  <2>3. QED
    BY <2>1, <2>2 DEF Above
<1>14. lev(x) # L => Above(d, L, k + 1) = Above(d, L, k)
  BY <1>13 DEF Above
<1>15. lev(x) = L => /\ x \notin Above(d, L, k) /\ x \in Above(d, L, k + 1)
                     /\ Above(d, L, k + 1) = Above(d, L, k) \cup {x}
  <2> SUFFICES ASSUME lev(x) = L
               PROVE  /\ x \notin Above(d, L, k) /\ x \in Above(d, L, k + 1)
                      /\ Above(d, L, k + 1) = Above(d, L, k) \cup {x}
    OBVIOUS
  <2>1. \A j \in 1..k : w[j] # x
    <3>1. \A j \in 1..k : j \in 1..Len(w) /\ j # k + 1
      BY <1>10, <1>3
    <3>2. QED
      BY <1>3, <1>10, <3>1
  <2>2. x \notin Above(d, L, k)
    <3>1. \A g : g \in Above(d, L, k) => lev(g) < L \/ \E j \in 1..k : w[j] = g
      BY DEF Above
    <3> HIDE DEF w, x
    <3>2. QED
      BY <1>10, <2>1, <3>1
  <2>3. k + 1 \in 1..(k + 1)
    BY <1>10
  <2>4. x \in Above(d, L, k + 1)
    BY <1>4, <2>3 DEF Above
  <2>5. Above(d, L, k + 1) = Above(d, L, k) \cup {x}
    BY <1>4, <1>13, <2>4 DEF Above
  <2>6. QED
    BY <2>2, <2>4, <2>5
<1>16. CASE lev(x) = L
  <2> HIDE DEF w, q, lev
  <2>1. acc.at = q
    <3>1. CASE L = 0
      <4>1. q = Root
        BY <1>8, <1>16, <3>1
      <4>2. QED
        BY <1>11, <3>1, <4>1
    <3>2. CASE L > 0
      <4>1. q # Root
        BY <1>5, <1>8, <1>16, <3>2
      <4>2. lev(q) = L - 1
        BY <1>8, <1>10, <1>16
      <4>3. PICK i, j \in DOMAIN w : i < j /\ w[i] = q /\ w[j] = x
        BY <1>9, <4>1 DEF Before
      <4>4. j = k + 1 /\ i \in 1..k /\ i \in 1..Len(w) /\ j \in 1..Len(w)
        <5>1. i \in 1..Len(w) /\ j \in 1..Len(w)
          BY <1>3
        <5>2. j = k + 1
          BY <1>3, <1>10, <4>3, <5>1
        <5>3. QED
          BY <1>10, <4>3, <5>1, <5>2
      <4>5. ASSUME NEW m \in (i + 1)..k PROVE lev(w[m]) # L - 1
        <5>1. m \in 1..Len(w) /\ i < m /\ m < k + 1 /\ m # i
          BY <1>3, <1>10, <4>4
        <5>2. Before(w, q, w[m]) /\ Before(w, w[m], x)
          BY <1>3, <1>10, <4>3, <4>4, <5>1 DEF Before
        <5>3. w[m] # q /\ w[m] \in ToSet(w)
          BY <1>2, <1>3, <4>3, <4>4, <5>1
        <5>4. QED
          BY <1>9, <4>1, <4>2, <5>2, <5>3
      <4>6. lev(w[i]) = L - 1
        BY <4>2, <4>3
      <4>7. acc.at = w[i]
        BY <1>11, <3>2, <4>4, <4>5, <4>6
      <4>8. QED
        BY <4>3, <4>7
    <3>3. QED
      BY <1>10, <3>1, <3>2
  <2>2. \A y : Before(d.group[q].subGroups, y, x) => y \in Above(d, L, k)
    <3> SUFFICES ASSUME NEW y, Before(d.group[q].subGroups, y, x) PROVE y \in Above(d, L, k)
      OBVIOUS
    <3>1. Before(w, y, x)
      BY <1>9
    <3>2. PICK i, j \in DOMAIN w : i < j /\ w[i] = y /\ w[j] = x
      BY <3>1 DEF Before
    <3>3. j = k + 1 /\ i \in 1..k
      BY <1>3, <1>10, <3>2
    <3>4. y \in InTree(d) \ {Root}
      BY <1>3, <3>2
    <3>5. y \in Kids(d, q)
      BY BeforeMembers DEF Kids
    <3>6. d.group[y].parent = q
      BY <1>5, <1>8, <3>5
    <3>7. lev(y) = L
      BY <1>5, <1>8, <1>16, <3>4, <3>6
    <3>8. QED
      BY <3>2, <3>3, <3>4, <3>7 DEF Above, lev, w
  <2>3. IsRestored(d, AddSubGroup(acc.d, q, x), Above(d, L, k) \cup {x})
    BY <1>4, <1>15, <1>16, <2>2, GroupPlaced DEF q
  <2> DEFINE ad == acc.d
             aa == acc.at
             dd == AddSubGroup(ad, q, x)
  <2>4. a2 = [d |-> dd, at |-> aa]
    <3>1. a2 = [acc EXCEPT !.d = dd]
      BY <1>12, <1>16, <2>1
    <3>2. acc = [d |-> ad, at |-> aa]
      BY <1>11
    <3> HIDE DEF ad, aa, dd, a2
    <3>3. QED
      BY ONLY <3>1, <3>2
  <2> HIDE DEF a2
  <2>5. a2 = [d |-> a2.d, at |-> a2.at] /\ a2.d = dd /\ a2.at = acc.at
    BY <2>4
  <2>6. ASSUME L > 0, NEW j \in 1..(k + 1), lev(w[j]) = L - 1,
               \A i \in (j + 1)..(k + 1) : lev(w[i]) # L - 1
        PROVE  acc.at = w[j]
    <3>1. j # k + 1
      BY <1>10, <1>16, <2>6
    <3>2. j \in 1..k
      BY <1>10, <3>1
    <3>3. \A i \in (j + 1)..k : i \in (j + 1)..(k + 1)
      BY <1>10
    <3>4. QED
      BY <1>11, <2>6, <3>2, <3>3
  <2>7. L > 0 => \A j \in 1..(k + 1) : (/\ lev(w[j]) = L - 1
                                        /\ \A i \in (j + 1)..(k + 1) : lev(w[i]) # L - 1)
                                       => a2.at = w[j]
    BY <2>5, <2>6
  <2>8. a2 = [d |-> a2.d, at |-> a2.at] /\ (L = 0 => a2.at = Root)
    BY <1>11, <2>5
  <2>9. IsAt(d, L, k + 1, a2)
    BY ONLY <2>7, <2>8 DEF IsAt, lev, w
  <2>10. QED
    BY <1>15, <1>16, <2>3, <2>5, <2>9 DEF a2, w
<1>17. CASE lev(x) = L - 1
  <2> HIDE DEF w, q, lev
  <2>1. L > 0 /\ lev(x) # L
    BY <1>8, <1>10, <1>17
  <2> DEFINE ad == acc.d
             aa == acc.at
  <2>2. a2 = [d |-> ad, at |-> x]
    <3>1. a2 = [acc EXCEPT !.at = x]
      BY <1>12, <1>17, <2>1
    <3>2. acc = [d |-> ad, at |-> aa]
      BY <1>11
    <3> HIDE DEF ad, aa, a2
    <3>3. QED
      BY ONLY <3>1, <3>2
  <2> HIDE DEF a2
  <2>3. a2 = [d |-> a2.d, at |-> a2.at] /\ a2.d = acc.d /\ a2.at = x
    BY <2>2
  <2>4. ASSUME NEW j \in 1..(k + 1), \A i \in (j + 1)..(k + 1) : lev(w[i]) # L - 1
        PROVE  j = k + 1
    <3>1. j # k + 1 => k + 1 \in (j + 1)..(k + 1)
      BY <1>10
    <3>2. QED
      BY <1>17, <2>4, <3>1
  <2>5. L > 0 => \A j \in 1..(k + 1) : (/\ lev(w[j]) = L - 1
                                        /\ \A i \in (j + 1)..(k + 1) : lev(w[i]) # L - 1)
                                       => a2.at = w[j]
    BY <2>3, <2>4 DEF x
  <2>6. a2 = [d |-> a2.d, at |-> a2.at] /\ (L = 0 => a2.at = Root)
    BY <1>10, <2>1, <2>3
  <2>7. IsAt(d, L, k + 1, a2)
    BY ONLY <2>5, <2>6 DEF IsAt, lev, w
  <2>8. IsRestored(d, a2.d, Above(d, L, k + 1))
    BY <1>14, <2>1, <2>3
  <2>9. QED
    BY <2>7, <2>8 DEF a2, w
<1>18. CASE lev(x) # L /\ lev(x) # L - 1
  <2> HIDE DEF w, q, lev
  <2>1. a2 = acc
    BY <1>12, <1>18
  <2>2. IsRestored(d, acc.d, Above(d, L, k + 1))
    BY <1>14, <1>18
  <2>3. ASSUME L > 0, NEW j \in 1..(k + 1), lev(w[j]) = L - 1,
               \A i \in (j + 1)..(k + 1) : lev(w[i]) # L - 1
        PROVE  acc.at = w[j]
    <3>1. j # k + 1
      BY <1>10, <1>18, <2>3
    <3>2. j \in 1..k
      BY <1>10, <3>1
    <3>3. \A i \in (j + 1)..k : i \in (j + 1)..(k + 1)
      BY <1>10
    <3>4. QED
      BY <1>11, <2>3, <3>2, <3>3
  <2>4. L > 0 => \A j \in 1..(k + 1) : (/\ lev(w[j]) = L - 1
                                        /\ \A i \in (j + 1)..(k + 1) : lev(w[i]) # L - 1)
                                       => acc.at = w[j]
    BY <2>3
  <2>5. acc = [d |-> acc.d, at |-> acc.at] /\ (L = 0 => acc.at = Root)
    BY <1>11
  <2>6. IsAt(d, L, k + 1, acc)
    BY ONLY <2>4, <2>5 DEF IsAt, lev, w
  <2>7. QED
    BY <2>1, <2>2, <2>6 DEF w
<1>19. QED
  BY <1>16, <1>17, <1>18

Placing == INSTANCE FoldLemmas WITH op <- LAMBDA level, acc, r : PlaceAt(level, acc, r)

(* All groups of a level go below their parents.                                  *)
LEMMA LevelPlaced ==
    ASSUME NEW d, IsTree(d), NEW L \in 0..(N - 1),
           NEW acc, IsAt(d, L, 0, acc), IsRestored(d, acc.d, Above(d, L, 0))
    PROVE  LET a2 == PlaceLevel(GroupRecords(d), acc, L)
           IN  a2 = [d |-> a2.d, at |-> a2.at] /\ IsRestored(d, a2.d, Above(d, L + 1, 0))
<1> DEFINE w  == AllGroups(d)
           gs == GroupRecords(d)
           n  == Len(w)
           a2 == PlaceLevel(gs, acc, L)
           r  == Placing!Steps(L, acc, gs, n)
           Done(k) == IsAt(d, L, k, r[k]) /\ IsRestored(d, r[k].d, Above(d, L, k))
           T == {k \in Nat : k > n \/ Done(k)}
<1>1. d \in Trees /\ GroupsAgree(d)
  BY DEF IsTree
<1>2. w \in Seq(Groups) /\ ToSet(w) = InTree(d) \ {Root}
  BY <1>1, TreeGroups
<1>3. n \in Nat /\ DOMAIN w = 1..n
  BY <1>2
<1>4. DOMAIN gs = 1..n /\ \A k \in 1..n : gs[k] = GroupRecord(d, w[k])
  BY <1>3 DEF GroupRecords
<1>5. a2 = Placing!Folded(L, acc, gs)
  BY DEF PlaceLevel, Placing!Folded, FoldLeft, MapThenFoldSet,
         Placing!MapThenFoldSet, Max, Placing!Max
<1> HIDE DEF n, gs, a2
<1>6. /\ r[0] = acc
      /\ \A k \in 1..n : r[k] = PlaceAt(L, r[k - 1], gs[k])
      /\ r[n] = Placing!Folded(L, acc, gs)
  BY <1>3, <1>4, Placing!FoldLeftSteps
<1> HIDE DEF r
<1>7. 0 \in T
  BY <1>6
<1>8. ASSUME NEW k \in Nat, k \in T PROVE k + 1 \in T
  <2>1. CASE k + 1 > n
    BY <2>1
  <2>2. CASE k + 1 <= n
    <3>1. k + 1 \in 1..n /\ (k + 1) - 1 = k /\ ~(k > n)
      BY <1>3, <2>2
    <3>2. Done(k)
      BY <1>8, <3>1
    <3>3. r[k + 1] = PlaceAt(L, r[k], GroupRecord(d, w[k + 1]))
      BY <1>4, <1>6, <3>1
    <3>4. k + 1 \in 1..Len(AllGroups(d))
      BY <3>1 DEF n
    <3> DEFINE b2 == PlaceAt(L, r[k], GroupRecord(d, AllGroups(d)[k + 1]))
    <3>5. IsAt(d, L, k + 1, b2) /\ IsRestored(d, b2.d, Above(d, L, k + 1))
      BY <3>2, <3>4, RecordPlaced
    <3>6. b2 = r[k + 1]
      BY <3>3
    <3> HIDE DEF b2
    <3>7. Done(k + 1)
      BY <3>5, <3>6
    <3> HIDE DEF Done
    <3>8. QED
      BY <3>7
  <2>3. n \in Nat /\ k \in Nat
    BY <1>3, <1>8
  <2> HIDE DEF T
  <2>4. QED
    BY <2>1, <2>2, <2>3
<1>9. n \in T
  <2> HIDE DEF T
  <2>1. QED
    BY <1>3, <1>7, <1>8, Walking!NatSetInduction
<1>10. IsAt(d, L, n, a2) /\ IsRestored(d, a2.d, Above(d, L, n))
  BY <1>3, <1>5, <1>6, <1>9
<1>11. Above(d, L, n) = Above(d, L + 1, 0)
  <2>1. \A x \in InTree(d) \ {Root} : \E j \in 1..n : AllGroups(d)[j] = x
    BY <1>2, <1>3, MembersOfSeq DEF n
  <2>2. InTree(d) \subseteq Groups
    BY <1>1, TreeLinks
  <2>3. \A g \in Groups : d.group[g].level \in Int
    BY <1>1, TreeFields
  <2>4. ~\E j \in 1..0 : AllGroups(d)[j] = AllGroups(d)[j]
    OBVIOUS
  <2>5. L \in Int
    BY Bound
  <2>6. \A x \in InTree(d) \ {Root} : x \in Above(d, L, n) <=> d.group[x].level <= L
    BY <2>1, <2>2, <2>3, <2>5 DEF Above
  <2>7. \A x \in InTree(d) \ {Root} : x \in Above(d, L + 1, 0) <=> d.group[x].level <= L
    BY <2>2, <2>3, <2>5 DEF Above
  <2>8. QED
    BY <2>6, <2>7 DEF Above
<1>12. a2 = [d |-> a2.d, at |-> a2.at]
  BY <1>10 DEF IsAt
<1>13. IsRestored(d, a2.d, Above(d, L + 1, 0))
  BY <1>10, <1>11
<1>14. QED
  BY <1>12, <1>13 DEF a2, gs

Levelling == INSTANCE FoldLemmas
             WITH op <- LAMBDA gs, acc, level : PlaceLevel(gs, acc, level - 1)

(* Level after level.                                                             *)
LEMMA HierarchyFold ==
    ASSUME NEW d, IsTree(d), NEW t, IsRestored(d, t, {})
    PROVE  IsRestored(d, Hierarchy(t, GroupRecords(d)), InTree(d) \ {Root})
<1> DEFINE gs  == GroupRecords(d)
           seq == [level \in 1..N |-> level]
           acc == [d |-> t, at |-> Root]
           r   == Levelling!Steps(gs, acc, seq, N)
           Done(m) == /\ r[m] = [d |-> r[m].d, at |-> r[m].at] /\ (m = 0 => r[m].at = Root)
                      /\ IsRestored(d, r[m].d, Above(d, m, 0))
           T == {m \in Nat : m > N \/ Done(m)}
<1>1. d \in Trees /\ GroupsAgree(d)
  BY DEF IsTree
<1>2. N \in Nat /\ DOMAIN seq = 1..N /\ \A m \in 1..N : seq[m] = m
  BY Bound
<1>3. Hierarchy(t, gs) = Levelling!Folded(gs, acc, seq).d
  BY DEF Hierarchy, N, Levelling!Folded, FoldLeft, MapThenFoldSet,
         Levelling!MapThenFoldSet, Max, Levelling!Max
<1> HIDE DEF seq, gs
<1>4. /\ r[0] = acc
      /\ \A m \in 1..N : r[m] = PlaceLevel(gs, r[m - 1], seq[m] - 1)
      /\ r[N] = Levelling!Folded(gs, acc, seq)
  BY <1>2, Levelling!FoldLeftSteps
<1> HIDE DEF r
<1>5. /\ InTree(d) \subseteq Groups
      /\ \A x \in InTree(d) \ {Root} : d.group[x].level >= 0 /\ d.group[x].level < N
      /\ \A x \in InTree(d) : d.group[x].level \in Int
  <2>1. /\ InTree(d) \subseteq Groups
        /\ \A y \in InTree(d) \ {Root} :
              /\ d.group[y].parent \in InTree(d)
              /\ d.group[y].level = d.group[d.group[y].parent].level + 1
    BY <1>1, TreeLinks
  <2>2. \A g \in InTree(d) : d.group[g].level + 1 \in 0..(N - 1)
    BY <1>1, TreeDepth
  <2>3. \A g \in InTree(d) : d.group[g].level \in Int
    BY <1>1, <2>1, TreeFields
  <2>4. \A y \in InTree(d) \ {Root} : d.group[y].level \in 0..(N - 1)
    BY <2>1, <2>2
  <2>5. QED
    BY <1>2, <2>1, <2>3, <2>4
<1>6. 0 \in T
  <2>1. Above(d, 0, 0) = {}
    BY <1>5 DEF Above
  <2>2. acc.d = t /\ acc.at = Root /\ acc = [d |-> acc.d, at |-> acc.at]
    OBVIOUS
  <2> HIDE DEF acc
  <2>3. Done(0)
    BY <1>4, <2>1, <2>2
  <2> HIDE DEF Done
  <2>4. QED
    BY <2>3
<1> HIDE DEF acc
<1>7. ASSUME NEW m \in Nat, m \in T PROVE m + 1 \in T
  <2>1. CASE m + 1 > N
    BY <2>1
  <2>2. CASE m + 1 <= N
    <3>1. m + 1 \in 1..N /\ (m + 1) - 1 = m /\ ~(m > N) /\ m \in 0..(N - 1)
      BY <1>2, <2>2
    <3>2. Done(m)
      BY <1>7, <3>1
    <3>3. r[m + 1] = PlaceLevel(gs, r[m], m)
      <4>1. r[m + 1] = PlaceLevel(gs, r[(m + 1) - 1], seq[m + 1] - 1)
        BY <1>4, <3>1
      <4>2. seq[m + 1] - 1 = m
        BY <1>2, <3>1
      <4>3. QED
        BY <3>1, <4>1, <4>2
    <3>4. IsAt(d, m, 0, r[m])
      BY <3>2 DEF IsAt
    <3> DEFINE a2 == PlaceLevel(GroupRecords(d), r[m], m)
    <3>5. a2 = [d |-> a2.d, at |-> a2.at] /\ IsRestored(d, a2.d, Above(d, m + 1, 0))
      BY <3>1, <3>2, <3>4, LevelPlaced
    <3>6. a2 = r[m + 1]
      BY <3>3 DEF gs
    <3> HIDE DEF a2
    <3>7. Done(m + 1)
      BY <3>5, <3>6
    <3> HIDE DEF Done
    <3>8. QED
      BY <3>7
  <2>3. N \in Nat /\ m \in Nat
    BY <1>2, <1>7
  <2> HIDE DEF T
  <2>4. QED
    BY <2>1, <2>2, <2>3
<1>8. N \in T
  <2> HIDE DEF T
  <2>1. QED
    BY <1>2, <1>6, <1>7, Walking!NatSetInduction
<1>9. IsRestored(d, r[N].d, Above(d, N, 0))
  BY <1>2, <1>8
<1>10. Above(d, N, 0) = InTree(d) \ {Root}
  BY <1>2, <1>5 DEF Above
<1>11. QED
  BY <1>3, <1>4, <1>9, <1>10 DEF gs

----------------------------------------------------------------------------------
(* The entries                                                                  *)

(* t is d with the entries of E only: each of them is in a group that has its     *)
(* group id, and a list is filled in its order if no other group has the id.      *)
IsRefilled(d, t, E) ==
    /\ IsTree(t) /\ SameLinks(d, t) /\ Home(t) = E
    /\ \A e \in E : /\ t.entry[e].title   = d.entry[e].title
                    /\ t.entry[e].groupId = d.entry[e].groupId
    /\ \A g \in InTree(d) : HasOwnId(d, g) => IsUpto(t.group[g].entries, d.group[g].entries, E)

(* When the hierarchy has been restored, there is a tree without entries, ...     *)
LEMMA NoEntryEntered ==
    ASSUME NEW d, IsTree(d), NEW t, IsRestored(d, t, InTree(d) \ {Root})
    PROVE  IsRefilled(d, t, {})
<1> DEFINE P == InTree(d) \ {Root}
<1>1. d \in Trees /\ GroupsAgree(d) /\ d.group[Root].parent = None
  <2>1. d \in Trees /\ GroupsAgree(d)
    BY DEF IsTree
  <2>2. QED
    BY <2>1, TreeLinks
<1>2. /\ t \in Trees /\ t.backupGroup = d.backupGroup
      /\ \A h \in Groups :
            /\ t.group[h].parent   = IF h \in P THEN d.group[h].parent ELSE None
            /\ t.group[h].level    = d.group[h].level
            /\ t.group[h].id       = d.group[h].id
            /\ t.group[h].reserved = d.group[h].reserved
            /\ t.group[h].deleted  = d.group[h].deleted
            /\ t.group[h].entries  = <<>>
            /\ IsUpto(t.group[h].subGroups, d.group[h].subGroups, P)
      /\ \A e \in Entries : t.entry[e] = NoEntry
  BY DEF IsRestored
<1>3. \A h \in Groups : h \notin P => d.group[h].parent = None
  BY <1>1 DEF InTree
<1>4. ASSUME NEW h \in Groups PROVE t.group[h].subGroups = d.group[h].subGroups
  <2> DEFINE r == t.group[h].subGroups
             s == d.group[h].subGroups
  <2>1. r \in Seq(Groups) /\ s \in Seq(Groups) /\ IsUpto(r, s, P)
    BY <1>1, <1>2, TreeFields
  <2>2. ToSet(s) \subseteq P
    <3>1. ToSet(s) = {g \in Groups : d.group[g].parent = h}
      BY <1>1 DEF GroupsAgree
    <3>2. QED
      BY <1>1, <3>1, Bound DEF InTree
  <2> HIDE DEF r, s, P
  <2>3. r = s
    BY <2>1, <2>2, UptoAll
  <2>4. QED
    BY <2>3 DEF r, s
<1>5. SameLinks(d, t)
  BY <1>2, <1>3, <1>4 DEF SameLinks
<1>6. Home(t) = {}
  BY <1>2 DEF Home, NoEntry
<1>7. EntriesAgree(t)
  <2>1. IsInjective(<<>>) /\ ToSet(<<>>) = {}
    BY DEF IsInjective, ToSet
  <2>2. \A g \in Groups : {e \in Entries : t.entry[e].group = g} = {}
    BY <1>2, Bound DEF NoEntry
  <2>3. \A g \in Groups : /\ IsInjective(t.group[g].entries)
                          /\ ToSet(t.group[g].entries) = {e \in Entries : t.entry[e].group = g}
    BY <1>2, <2>1, <2>2
  <2>4. QED
    BY <1>2, <1>6, <2>3 DEF EntriesAgree
<1>8. IsTree(t)
  BY <1>2, <1>5, <1>6, <1>7, EntriesChanged
<1>9. ASSUME NEW g \in InTree(d) PROVE IsUpto(t.group[g].entries, d.group[g].entries, {})
  <2>1. g \in Groups
    BY <1>1, TreeLinks
  <2>2. t.group[g].entries = <<>> /\ d.group[g].entries \in Seq(Entries)
    BY <1>1, <1>2, <2>1, TreeFields
  <2>3. QED
    BY <2>2, UptoNone
<1>10. QED
  BY <1>5, <1>6, <1>8, <1>9 DEF IsRefilled

(* ... and when all entries are there, the tree has been read back.               *)
LEMMA AllEntered ==
    ASSUME NEW d, IsTree(d), NEW t, IsRefilled(d, t, Home(d))
    PROVE  IsReadBack(d, t)
<1>1. d \in Trees /\ EntriesAgree(d) /\ t \in Trees /\ GroupsAgree(d)
  BY DEF IsTree, IsRefilled
<1>2. InTree(d) \subseteq Groups
  BY <1>1, TreeLinks
<1>3. ASSUME NEW g \in InTree(d), HasOwnId(d, g) PROVE t.group[g].entries = d.group[g].entries
  <2> DEFINE r == t.group[g].entries
             s == d.group[g].entries
  <2>1. r \in Seq(Entries) /\ s \in Seq(Entries)
    BY <1>1, <1>2, TreeFields
  <2>2. ToSet(s) \subseteq Home(d)
    <3>1. ToSet(s) = {e \in Entries : d.entry[e].group = g}
      BY <1>1, <1>2 DEF EntriesAgree
    <3>2. QED
      BY <1>2, <3>1, Bound DEF Home
  <2>3. IsUpto(r, s, Home(d))
    BY <1>3 DEF IsRefilled
  <2> HIDE DEF r, s
  <2>4. r = s
    BY <2>1, <2>2, <2>3, UptoAll
  <2>5. QED
    BY <2>4 DEF r, s
<1>4. QED
  BY <1>3 DEF IsRefilled, IsReadBack

(* The group that is found by an id has it; if it is its own, it is the only one. *)
LEMMA GroupFound ==
    ASSUME NEW d, IsTree(d), NEW g \in InTree(d) \ {Root}
    PROVE  LET id == d.group[g].id
               h  == GroupById(GroupRecords(d), id)
           IN  /\ h \in InTree(d) \ {Root} /\ d.group[h].id = id
               /\ \E i \in DOMAIN GroupRecords(d) : GroupRecords(d)[i].id = id
<1> DEFINE w  == AllGroups(d)
           gs == GroupRecords(d)
           id == d.group[g].id
           n  == Len(w)
           P(i) == gs[i].id = id /\ \A j \in DOMAIN gs : j > i => gs[j].id # id
           c  == CHOOSE i \in DOMAIN gs : P(i)
           S  == {i \in 1..n : gs[i].id = id}
           m  == Walking!Max(S)
<1>1. d \in Trees /\ GroupsAgree(d)
  BY DEF IsTree
<1>2. w \in Seq(Groups) /\ ToSet(w) = InTree(d) \ {Root}
  BY <1>1, TreeGroups
<1>3. /\ DOMAIN gs = DOMAIN w
      /\ \A i \in DOMAIN gs : gs[i].node = w[i] /\ gs[i].id = d.group[w[i]].id
  BY DEF GroupRecords, GroupRecord
<1>4. DOMAIN w = 1..n /\ n \in Nat
  BY <1>2
<1>5. \A i \in DOMAIN w : w[i] \in InTree(d) \ {Root}
  BY <1>2 DEF ToSet
<1>6. PICK k \in DOMAIN w : w[k] = g
  BY <1>2 DEF ToSet
<1> HIDE DEF w, gs, n
<1>7. k \in DOMAIN gs /\ gs[k].id = id /\ k \in S
  BY <1>3, <1>4, <1>6
<1>8. m \in S /\ \A i \in S : i <= m
  <2>1. S \in SUBSET (1..n) /\ S # {}
    BY <1>7
  <2> HIDE DEF S
  <2>2. QED
    BY <1>4, <2>1, Walking!MaxOfPositions
<1> HIDE DEF m
<1>9. m \in DOMAIN gs /\ P(m)
  <2>1. m \in DOMAIN gs /\ gs[m].id = id /\ m \in Nat
    BY <1>3, <1>4, <1>8
  <2>2. ASSUME NEW j \in DOMAIN gs, j > m PROVE gs[j].id # id
    <3>1. gs[j].id = id => j \in S
      BY <1>3, <1>4
    <3>2. j \in Nat
      BY <1>3, <1>4
    <3>3. QED
      BY <1>8, <2>1, <2>2, <3>1, <3>2
  <2>3. QED
    BY <2>1, <2>2
<1>10. c \in DOMAIN gs /\ P(c)
  <2> HIDE DEF P
  <2>1. QED
    BY <1>9
<1>11. GroupById(gs, id) = gs[c].node
  BY DEF GroupById
<1> HIDE DEF c
<1>12. gs[c].node = w[c] /\ w[c] \in InTree(d) \ {Root} /\ d.group[w[c]].id = id
  BY <1>3, <1>5, <1>10
<1>13. QED
  BY <1>7, <1>11, <1>12 DEF gs

(* One more entry goes into the group h, which has its group id.                  *)
LEMMA EntryEntered ==
    ASSUME NEW d, IsTree(d), NEW t, NEW E, IsRefilled(d, t, E),
           NEW e \in Home(d), e \notin E, \A y : Before(AllEntries(d), y, e) => y \in E,
           NEW h \in InTree(d) \ {Root}, d.group[h].id = d.entry[e].groupId,
           NEW r \in EntryStates, r.title = d.entry[e].title, r.deleted = t.group[h].deleted
    PROVE  IsRefilled(d, AddEntry([t EXCEPT !.entry[e] = r], h, e), E \cup {e})
<1> DEFINE t2 == AddEntry([t EXCEPT !.entry[e] = r], h, e)
<1>1. d \in Trees /\ GroupsAgree(d) /\ EntriesAgree(d)
  BY DEF IsTree
<1>2. /\ IsTree(t) /\ SameLinks(d, t) /\ Home(t) = E
      /\ t \in Trees /\ EntriesAgree(t) /\ GroupsAgree(t) /\ BackupAgrees(t)
  BY DEF IsRefilled, IsTree
<1>3. /\ e \in Entries \ Home(t) /\ d.entry[e].group \in InTree(d) \ {Root}
      /\ d.entry[e].groupId = d.group[d.entry[e].group].id
      /\ InTree(d) \subseteq Groups
  <2>1. d.entry[e].group \in InTree(d) \ {Root}
    BY <1>1, TreeEntries
  <2>2. InTree(d) \subseteq Groups
    BY <1>1, TreeLinks
  <2>3. QED
    BY <1>1, <1>2, <2>1, <2>2 DEF Home, EntriesAgree
<1>4. InTree(t) = InTree(d) /\ h \in Groups
  BY <1>2, <1>3 DEF SameLinks, InTree
<1>5. /\ t2 \in Trees /\ SameLinks(t, t2) /\ EntriesAgree(t2)
      /\ Home(t2) = E \cup {e}
      /\ t2.entry[e].group = h /\ t2.entry[e].groupId = t.group[h].id
      /\ t2.entry[e].title = r.title /\ t2.entry[e].deleted = r.deleted
      /\ \A x \in Entries \ {e} : t2.entry[x] = t.entry[x]
      /\ \A g \in Groups : t2.group[g].entries =
                              IF g = h THEN Append(t.group[h].entries, e)
                                       ELSE t.group[g].entries
  BY <1>2, <1>3, <1>4, EntryPut
<1> HIDE DEF t2
<1>6. ASSUME NEW x \in Home(t2)
      PROVE  /\ t2.entry[x].group \in InTree(t) \ {Root}
             /\ t2.entry[x].deleted <=> t2.entry[x].group = t.backupGroup
  <2>1. CASE x = e
    <3>1. t.group[h].deleted <=> h = t.backupGroup
      BY <1>2, <1>4 DEF BackupAgrees
    <3>2. QED
      BY <1>4, <1>5, <2>1, <3>1
  <2>2. CASE x # e
    <3>1. x \in Home(t) /\ t2.entry[x] = t.entry[x]
      BY <1>2, <1>5, <2>2 DEF Home
    <3>2. t.entry[x].group \in InTree(t) \ {Root}
      BY <1>2, <3>1, TreeEntries
    <3>3. QED
      BY <1>2, <3>1, <3>2 DEF BackupAgrees
  <2>3. QED
    BY <2>1, <2>2
<1>7. IsTree(t2)
  BY <1>2, <1>5, <1>6, EntriesChanged
<1>8. SameLinks(d, t2)
  BY <1>2, <1>5 DEF SameLinks
<1>9. ASSUME NEW x \in E \cup {e}
      PROVE  /\ t2.entry[x].title   = d.entry[x].title
             /\ t2.entry[x].groupId = d.entry[x].groupId
  <2>1. CASE x = e
    <3>1. t.group[h].id = d.group[h].id
      BY <1>2, <1>4 DEF SameLinks
    <3>2. QED
      BY <1>5, <2>1, <3>1
  <2>2. CASE x # e
    <3>1. x \in E /\ x \in Entries \ {e}
      BY <1>2, <2>2 DEF Home
    <3>2. QED
      BY <1>5, <3>1 DEF IsRefilled
  <2>3. QED
    BY <2>1, <2>2
<1>10. ASSUME NEW g \in InTree(d), HasOwnId(d, g)
       PROVE  IsUpto(t2.group[g].entries, d.group[g].entries, E \cup {e})
  <2> DEFINE s == d.group[g].entries
             u == t.group[g].entries
  <2>1. g \in Groups /\ s \in Seq(Entries) /\ u \in Seq(Entries) /\ IsUpto(u, s, E)
    BY <1>1, <1>2, <1>3, <1>10, TreeFields DEF IsRefilled
  <2>2. IsInjective(s) /\ (e \in ToSet(s) <=> d.entry[e].group = g)
    BY <1>1, <1>3, <2>1 DEF EntriesAgree
  <2>3. d.entry[e].group = g <=> h = g
    BY <1>3, <1>10 DEF HasOwnId
  <2>4. CASE h = g
    <3>1. \A y : Before(s, y, e) => y \in E
      <4>1. \A p \in Groups : \A x, y :
               Before(d.group[p].entries, x, y) => Before(AllEntries(d), x, y)
        BY <1>1, TreeEntries
      <4>2. QED
        BY <2>1, <4>1
    <3>2. t2.group[g].entries = Append(u, e)
      BY <1>5, <2>1, <2>4
    <3> HIDE DEF s, u
    <3>3. IsUpto(Append(u, e), s, E \cup {e})
      BY <2>1, <2>2, <2>3, <2>4, <3>1, UptoStep
    <3>4. QED
      BY <3>2, <3>3 DEF s
  <2>5. CASE h # g
    <3>1. t2.group[g].entries = u
      BY <1>5, <2>1, <2>5
    <3>2. DOMAIN s = 1..Len(s)
      BY <2>1
    <3> HIDE DEF s, u
    <3>3. IsUpto(u, s, E \cup {e})
      BY <2>1, <2>2, <2>3, <2>5, <3>2, UptoOther
    <3>4. QED
      BY <3>1, <3>3 DEF s
  <2>6. QED
    BY <2>4, <2>5
<1>11. IsRefilled(d, t2, E \cup {e})
  BY <1>5, <1>7, <1>8, <1>9, <1>10 DEF IsRefilled
<1>12. QED
  BY <1>11 DEF t2

(* One more record is entered into the group that its id stands for, with the flag*)
(* of that group.                                                                 *)
LEMMA RecordEntered ==
    ASSUME NEW d, IsTree(d), NEW t, NEW E, IsRefilled(d, t, E),
           NEW e \in Home(d), e \notin E, \A y : Before(AllEntries(d), y, e) => y \in E
    PROVE  IsRefilled(d, PlaceEntry(GroupRecords(d), t, EntryRecord(d, e)), E \cup {e})
<1> DEFINE c  == d.entry[e]
           gs == GroupRecords(d)
           h  == GroupById(gs, c.groupId)
           title == c.title
           flag  == t.group[h].deleted
           r  == [NoEntry EXCEPT !.title = title, !.deleted = flag]
<1>1. d \in Trees /\ GroupsAgree(d) /\ EntriesAgree(d) /\ t \in Trees
  BY DEF IsTree, IsRefilled
<1>2. /\ e \in Entries /\ c.group \in InTree(d) \ {Root} /\ c.groupId = d.group[c.group].id
      /\ InTree(d) \subseteq Groups
  <2>1. c.group \in InTree(d) \ {Root}
    BY <1>1, TreeEntries
  <2>2. InTree(d) \subseteq Groups
    BY <1>1, TreeLinks
  <2>3. QED
    BY <1>1, <2>1, <2>2 DEF Home, EntriesAgree
<1>3. h \in InTree(d) \ {Root} /\ d.group[h].id = c.groupId
  BY <1>2, GroupFound
<1>4. e \notin MetaStreams
  BY <1>2, MetaAssumption
<1>5. PlaceEntry(gs, t, EntryRecord(d, e)) = AddEntry([t EXCEPT !.entry[e] = r], h, e)
  BY <1>4 DEF PlaceEntry, IsMetaStream, EntryRecord
<1> HIDE DEF h
<1>6. title \in Titles \cup {None} /\ flag \in BOOLEAN
  <2>1. h \in Groups
    BY <1>2, <1>3
  <2>2. QED
    BY <1>1, <1>2, <2>1, TreeFields
<1> HIDE DEF title, flag
<1>7. r \in EntryStates /\ r.title = title /\ r.deleted = flag
  BY <1>6 DEF EntryStates, NoEntry
<1> HIDE DEF r
<1>8. r.title = d.entry[e].title /\ r.deleted = t.group[h].deleted
  BY <1>7 DEF title, flag
<1>9. IsRefilled(d, AddEntry([t EXCEPT !.entry[e] = r], h, e), E \cup {e})
  BY <1>3, <1>7, <1>8, EntryEntered
<1>10. QED
  BY <1>5, <1>9 DEF gs

Entering == INSTANCE FoldLemmas WITH op <- LAMBDA gs, d, r : PlaceEntry(gs, d, r)

(* The walk over the list of entries puts all of them back.                       *)
LEMMA EntriesFold ==
    ASSUME NEW d, IsTree(d), NEW t, IsRestored(d, t, InTree(d) \ {Root})
    PROVE  IsReadBack(d, FoldLeft(LAMBDA acc, x : PlaceEntry(GroupRecords(d), acc, x),
                                  t, EntryRecords(d)))
<1> DEFINE v  == AllEntries(d)
           gs == GroupRecords(d)
           es == EntryRecords(d)
           n  == Len(v)
           t2 == FoldLeft(LAMBDA acc, x : PlaceEntry(gs, acc, x), t, es)
           r  == Entering!Steps(gs, t, es, n)
           Got(k) == {x \in ToSet(v) : \E j \in 1..k : v[j] = x}
           Done(k) == IsRefilled(d, r[k], Got(k))
           T == {k \in Nat : k > n \/ Done(k)}
<1>1. d \in Trees /\ GroupsAgree(d) /\ EntriesAgree(d)
  BY DEF IsTree
<1>2. v \in Seq(Entries) /\ ToSet(v) = Home(d) /\ IsInjective(v)
  BY <1>1, TreeEntries
<1>3. n \in Nat /\ DOMAIN v = 1..n
  BY <1>2
<1>4. DOMAIN es = 1..n /\ \A k \in 1..n : es[k] = EntryRecord(d, v[k])
  BY <1>3 DEF EntryRecords
<1>5. t2 = Entering!Folded(gs, t, es)
  BY DEF Entering!Folded, FoldLeft, MapThenFoldSet, Entering!MapThenFoldSet,
         Max, Entering!Max
<1> HIDE DEF n, gs, es, t2, v
<1>6. /\ r[0] = t
      /\ \A k \in 1..n : r[k] = PlaceEntry(gs, r[k - 1], es[k])
      /\ r[n] = Entering!Folded(gs, t, es)
  BY <1>3, <1>4, Entering!FoldLeftSteps
<1> HIDE DEF r
<1>7. 0 \in T
  <2>1. Got(0) = {}
    OBVIOUS
  <2>2. IsRefilled(d, t, {})
    BY NoEntryEntered
  <2> HIDE DEF Got
  <2>3. QED
    BY <1>6, <2>1, <2>2
<1>8. ASSUME NEW k \in Nat, k \in T PROVE k + 1 \in T
  <2>1. CASE k + 1 > n
    BY <2>1
  <2>2. CASE k + 1 <= n
    <3> DEFINE x == v[k + 1]
    <3>1. k + 1 \in 1..n /\ (k + 1) - 1 = k /\ ~(k > n)
      BY <1>3, <2>2
    <3>2. Done(k)
      BY <1>8, <3>1
    <3>3. r[k + 1] = PlaceEntry(gs, r[k], EntryRecord(d, x))
      BY <1>4, <1>6, <3>1
    <3>4. x \in ToSet(v)
      BY <1>3, <3>1 DEF ToSet
    <3>5. Got(k + 1) = Got(k) \cup {x}
      <4>1. 1..(k + 1) = (1..k) \cup {k + 1}
        OBVIOUS
      <4>2. QED
        BY <3>4, <4>1
    <3>6. x \notin Got(k)
      <4>1. \A j \in 1..k : j \in 1..n /\ j # k + 1
        BY <1>3, <3>1
      <4>2. QED
        BY <1>2, <1>3, <3>1, <4>1 DEF IsInjective
    <3>7. ASSUME NEW y, Before(v, y, x) PROVE y \in Got(k)
      <4>1. PICK i, j \in DOMAIN v : i < j /\ v[i] = y /\ v[j] = x
        BY <3>7 DEF Before
      <4>2. j = k + 1
        BY <1>2, <1>3, <3>1, <4>1 DEF IsInjective
      <4>3. i \in 1..k /\ y \in ToSet(v)
        BY <1>3, <4>1, <4>2 DEF ToSet
      <4>4. QED
        BY <4>1, <4>3
    <3> HIDE DEF x, Got
    <3>8. IsRefilled(d, PlaceEntry(gs, r[k], EntryRecord(d, x)), Got(k) \cup {x})
      BY <1>2, <3>2, <3>4, <3>6, <3>7, RecordEntered DEF gs, v
    <3>9. Done(k + 1)
      BY <3>3, <3>5, <3>8
    <3> HIDE DEF Done
    <3>10. QED
      BY <3>9
  <2>3. n \in Nat /\ k \in Nat
    BY <1>3, <1>8
  <2> HIDE DEF T
  <2>4. QED
    BY <2>1, <2>2, <2>3
<1>9. n \in T
  <2> HIDE DEF T
  <2>1. QED
    BY <1>3, <1>7, <1>8, Walking!NatSetInduction
<1>10. Done(n)
  BY <1>3, <1>9
<1>11. Got(n) = Home(d)
  <2>1. Got(n) = ToSet(v)
    BY <1>2, <1>3, MembersOfSeq DEF n
  <2>2. QED
    BY <1>2, <2>1
<1> HIDE DEF Got
<1>12. IsRefilled(d, t2, Home(d))
  BY <1>5, <1>6, <1>10, <1>11
<1>13. IsReadBack(d, t2)
  BY <1>12, AllEntered
<1>14. QED
  BY <1>13 DEF t2, gs, es

(* A tree that is written is read back.                                           *)
LEMMA WrittenIsReadBack ==
    ASSUME NEW d, IsTree(d), NEW metas \in Seq(MetaStreams)
    PROVE  IsReadBack(d, ReadTree(Written(d, metas)))
<1> DEFINE f  == Written(d, metas)
           gs == GroupRecords(d)
           t0 == FoldLeft(ReadGroup, NoTree, gs)
           t1 == Hierarchy(t0, gs)
<1>1. d \in Trees /\ GroupsAgree(d) /\ EntriesAgree(d)
  BY DEF IsTree
<1>2. ReadGroups(f) = gs /\ ReadEntries(f) = EntryRecords(d)
  BY <1>1, WrittenLists
<1>3. IsRestored(d, t0, {})
  BY HeadsFold
<1> HIDE DEF t0, f
<1>4. IsRestored(d, t1, InTree(d) \ {Root})
  BY <1>3, HierarchyFold
<1> HIDE DEF t1
<1>5. IsReadBack(d, FoldLeft(LAMBDA acc, x : PlaceEntry(gs, acc, x), t1, EntryRecords(d)))
  BY <1>4, EntriesFold
<1> HIDE DEF gs
<1>6. ReadTree(f) = FoldLeft(LAMBDA acc, x : PlaceEntry(gs, acc, x), t1, EntryRecords(d))
  BY <1>2 DEF ReadTree, t0, t1
<1>7. QED
  BY <1>5, <1>6 DEF f

SettingApart == INSTANCE FoldLemmas
                WITH op <- LAMBDA none, ms, r : IF IsMetaStream(r) THEN Append(ms, r.node) ELSE ms

(* What is set apart while a file is read are meta streams.                       *)
LEMMA MetasTyped ==
    ASSUME NEW f \in Files, f.entryCount <= Len(f.entries)
    PROVE  ReadMetaStreams(f) \in Seq(MetaStreams)
<1> DEFINE ER == [node : Entries \cup MetaStreams, groupId : Ids \cup {None},
                  title : Titles \cup {None}]
           es == ReadEntries(f)
           n  == Len(es)
           ms == ReadMetaStreams(f)
           r  == SettingApart!Steps({}, <<>>, es, n)
           T  == {k \in Nat : k > n \/ r[k] \in Seq(MetaStreams)}
<1>1. es \in Seq(ER)
  <2>1. f.entries \in Seq(ER) /\ f.entryCount \in Nat
    BY DEF Files
  <2> HIDE DEF ER
  <2>2. SubSeq(f.entries, 1, f.entryCount) \in Seq(ER)
    BY <2>1
  <2>3. QED
    BY <2>2 DEF ReadEntries
<1>2. n \in Nat /\ DOMAIN es = 1..n
  <2> HIDE DEF es, ER
  <2>1. QED
    BY <1>1
<1>3. ms = SettingApart!Folded({}, <<>>, es)
  BY DEF ReadMetaStreams, SettingApart!Folded, FoldLeft, MapThenFoldSet,
         SettingApart!MapThenFoldSet, Max, SettingApart!Max
<1> HIDE DEF n, es, ms, ER
<1>4. /\ r[0] = <<>>
      /\ \A k \in 1..n : r[k] = IF IsMetaStream(es[k]) THEN Append(r[k - 1], es[k].node)
                                                       ELSE r[k - 1]
      /\ r[n] = SettingApart!Folded({}, <<>>, es)
  BY <1>2, SettingApart!FoldLeftSteps
<1> HIDE DEF r
<1>5. 0 \in T
  <2>1. <<>> \in Seq(MetaStreams)
    OBVIOUS
  <2>2. r[0] \in Seq(MetaStreams)
    BY <1>4, <2>1
  <2>3. QED
    BY <2>2
<1>6. ASSUME NEW k \in Nat, k \in T PROVE k + 1 \in T
  <2>1. CASE k + 1 > n
    BY <2>1
  <2>2. CASE k + 1 <= n
    <3>1. k + 1 \in 1..n /\ (k + 1) - 1 = k /\ ~(k > n)
      BY <1>2, <2>2
    <3>2. r[k] \in Seq(MetaStreams)
      BY <1>6, <3>1
    <3>3. r[k + 1] = IF IsMetaStream(es[k + 1]) THEN Append(r[k], es[k + 1].node) ELSE r[k]
      BY <1>4, <3>1
    <3>4. r[k + 1] \in Seq(MetaStreams)
      <4> DEFINE ms1 == r[k]
                 m   == es[k + 1].node
      <4>1. m \in MetaStreams => Append(ms1, m) \in Seq(MetaStreams)
        <5>1. ms1 \in Seq(MetaStreams)
          BY <3>2
        <5> HIDE DEF ms1, m
        <5>2. QED
          BY ONLY <5>1
      <4>2. QED
        BY <3>2, <3>3, <4>1 DEF IsMetaStream
    <3>5. QED
      BY <3>4
  <2>3. n \in Nat /\ k \in Nat
    BY <1>2, <1>6
  <2> HIDE DEF T
  <2>4. QED
    BY <2>1, <2>2, <2>3
<1>7. n \in T
  <2> HIDE DEF T
  <2>1. QED
    BY <1>2, <1>5, <1>6, Walking!NatSetInduction
<1>8. QED
  BY <1>2, <1>3, <1>4, <1>7 DEF ms

(* A file that has been written can be loaded, and has the entries of the tree.   *)
LEMMA WrittenIsWellFormed ==
    ASSUME NEW d, IsTree(d), NEW metas \in Seq(MetaStreams)
    PROVE  /\ WellFormed(Written(d, metas)) /\ Loads(Written(d, metas))
           /\ EntriesOf(Written(d, metas)) = Home(d)
<1> DEFINE f  == Written(d, metas)
           gs == GroupRecords(d)
           es == EntryRecords(d)
           v  == AllEntries(d)
<1>1. d \in Trees /\ GroupsAgree(d) /\ EntriesAgree(d)
  BY DEF IsTree
<1>2. /\ f \in Files /\ f.groupCount <= Len(f.groups) /\ f.entryCount <= Len(f.entries)
      /\ ReadGroups(f) = gs /\ ReadEntries(f) = es
  BY <1>1, WrittenLists
<1>3. IsTree(ReadTree(f)) /\ Home(ReadTree(f)) = Home(d)
  BY WrittenIsReadBack DEF IsReadBack
<1>4. v \in Seq(Entries) /\ ToSet(v) = Home(d) /\ Home(d) \subseteq Entries
  <2>1. v \in Seq(Entries)
    BY <1>1, TreeEntries
  <2>2. ToSet(v) = Home(d)
    BY <1>1, TreeEntries
  <2>3. Home(d) \subseteq Entries
    BY DEF Home
  <2>4. QED
    BY <2>1, <2>2, <2>3
<1>5. /\ DOMAIN es = DOMAIN v
      /\ \A i \in DOMAIN es : es[i].node = v[i] /\ es[i].groupId = d.entry[v[i]].groupId
  BY DEF EntryRecords, EntryRecord
<1> HIDE DEF f, gs, es, v
<1>6. \A x : x \in ToSet(es) <=> \E i \in DOMAIN es : es[i] = x
  BY DEF ToSet
<1>7. \A x : x \in Home(d) <=> \E i \in DOMAIN es : v[i] = x
  BY <1>4, <1>5 DEF ToSet
<1>8. EntriesOf(f) = Home(d)
  <2>1. {x.node : x \in ToSet(es)} = Home(d)
    <3>1. ASSUME NEW x \in ToSet(es) PROVE x.node \in Home(d)
      BY <1>5, <1>6, <1>7
    <3>2. ASSUME NEW e \in Home(d) PROVE \E x \in ToSet(es) : e = x.node
      BY <1>5, <1>6, <1>7
    <3>3. QED
      BY <3>1, <3>2
  <2>2. \A e \in Home(d) : e \notin MetaStreams
    BY <1>4, MetaAssumption
  <2>3. QED
    BY <1>2, <2>1, <2>2 DEF EntriesOf
<1>9. Loads(f)
  <2>1. ASSUME NEW x \in ToSet(es)
        PROVE  \E y \in ToSet(gs) : x.groupId = y.id
    <3>1. PICK i \in DOMAIN es : es[i] = x
      BY <1>6
    <3> DEFINE e == v[i]
               g == d.entry[e].group
    <3>2. e \in Home(d) /\ x.groupId = d.entry[e].groupId
      BY <1>5, <1>7, <3>1
    <3> HIDE DEF e
    <3>3. x.groupId = d.group[g].id
      BY <1>1, <3>2 DEF EntriesAgree
    <3>4. g \in InTree(d) \ {Root}
      BY <1>1, <3>2, TreeEntries
    <3>5. PICK j \in DOMAIN gs : gs[j].id = d.group[g].id
      BY <3>4, GroupFound DEF gs
    <3>6. gs[j] \in ToSet(gs)
      BY MemberAt
    <3>7. QED
      BY <3>3, <3>5, <3>6
  <2>2. QED
    BY <1>2, <2>1 DEF Loads
<1>10. WellFormed(f)
  BY <1>2, <1>3, <1>8, <1>9 DEF WellFormed
<1>11. QED
  BY <1>8, <1>9, <1>10 DEF f

----------------------------------------------------------------------------------
(* What the operations do                                                       *)

(* What an operation makes of a tree: another one, which has all its entries; a   *)
(* title that is different has left a copy of the entry in the Backup group.      *)
IsChanged(d, d2) ==
    /\ IsTree(d2) /\ Home(d) \subseteq Home(d2)
    /\ \A e \in Home(d) : d2.entry[e].title # d.entry[e].title =>
          /\ d2.entry[e].group = d.entry[e].group
          /\ \E copy \in Home(d2) \ Home(d) : /\ d2.entry[copy].group = d2.backupGroup
                                              /\ d2.entry[copy].title = d.entry[e].title

(* New UUIDs are not in the tree.                                                 *)
LEMMA FreshNames ==
    ASSUME NEW d, IsTree(d)
    PROVE  /\ \A g \in FreshGroups(d) : g \in Groups \ InTree(d)
           /\ \A e \in FreshEntries(d) : e \in Entries \ Home(d)
<1>1. d \in Trees /\ GroupsAgree(d) /\ EntriesAgree(d)
  BY DEF IsTree
<1>2. LiveGroups(d) = InTree(d)
  BY <1>1, TreeGroups
<1>3. ToSet(AllEntries(d)) = Home(d)
  BY <1>1, TreeEntries
<1>4. \A g \in FreshGroups(d) : g \in Groups \ InTree(d)
  BY <1>2 DEF FreshGroups
<1>5. \A e \in FreshEntries(d) : e \in Entries \ Home(d)
  BY <1>3 DEF FreshEntries
<1>6. QED
  BY <1>4, <1>5

(* The Backup group, if there is one, is in the root, and nothing but it is       *)
(* flagged.                                                                       *)
LEMMA BackupPlace ==
    ASSUME NEW d, IsTree(d), d.backupGroup # None
    PROVE  /\ d.backupGroup \in InTree(d) \ {Root} /\ d.backupGroup \in Groups
           /\ d.group[d.backupGroup].parent = Root
<1>1. d.backupGroup \in Groups \ {Root}
  BY DEF IsTree, Trees
<1>2. d.group[d.backupGroup].parent = Root
  BY DEF IsTree, BackupAgrees
<1>3. QED
  BY <1>1, <1>2, GroupsAssumption DEF InTree

(* getBackupGroup(true) adds nothing but the group.                               *)
LEMMA BackupProvided ==
    ASSUME NEW d, IsTree(d), NEW d2 \in WithBackupGroup(d)
    PROVE  /\ IsTree(d2) /\ d2.backupGroup # None
           /\ Home(d2) = Home(d) /\ d2.entry = d.entry
           /\ InTree(d) \subseteq InTree(d2)
           /\ \A g \in InTree(d) : ~d.group[g].deleted => g # d2.backupGroup
<1>1. CASE d.backupGroup # None
  <2>1. d2 = d
    BY <1>1 DEF WithBackupGroup
  <2>2. \A g \in InTree(d) : ~d.group[g].deleted => g # d.backupGroup
    BY DEF IsTree, BackupAgrees
  <2>3. QED
    BY <1>1, <2>1, <2>2
<1>2. CASE d.backupGroup = None
  <2>1. PICK g \in FreshGroups(d), id \in Ids : d2 = CreateBackupGroup(d, g, id)
    BY <1>2 DEF WithBackupGroup
  <2>2. g \in Groups \ InTree(d)
    BY FreshNames
  <2>3. d \in Trees /\ GroupsAgree(d)
    BY DEF IsTree
  <2>4. Root \in InTree(d) /\ ~d.group[Root].deleted
    BY <2>3, TreeLinks
  <2>5. IsWithGroup(d, d2, Root, g, id, TRUE)
    <3>1. IsWithGroup(d, CreateBackupGroup(d, g, id), Root, g, id, TRUE)
      BY <2>2, <2>4, GroupCreated
    <3>2. QED
      BY <2>1, <3>1
  <2> DEFINE yes == TRUE
  <2>6. yes \in BOOLEAN /\ IsWithGroup(d, d2, Root, g, id, yes)
    BY <2>5
  <2> HIDE DEF yes
  <2>7. /\ IsTree(d2)
        /\ InTree(d2) = InTree(d) \cup {g}
        /\ Home(d2) = Home(d) /\ d2.entry = d.entry
    BY <1>2, <2>2, <2>4, <2>6, GroupAdded
  <2>8. d2.backupGroup = g /\ g # None
    BY <2>2, <2>5, GroupsAssumption DEF IsWithGroup
  <2>9. QED
    BY <2>2, <2>7, <2>8
<1>3. QED
  BY <1>1, <1>2

(* createGroup().                                                                 *)
LEMMA CreateGroupChanges ==
    ASSUME IsTree(db), NEW p \in LiveGroups(db), NEW g, NEW id \in Ids, CreateGroup(p, g, id)
    PROVE  IsChanged(db, db')
<1>1. db \in Trees /\ GroupsAgree(db)
  BY DEF IsTree
<1>2. LiveGroups(db) = InTree(db)
  BY <1>1, TreeGroups
<1>3. /\ p \in InTree(db) /\ ~db.group[p].deleted
      /\ g \in Groups \ InTree(db)
  BY <1>2, FreshNames DEF CreateGroup
<1>4. db' = CreateGroupIn(db, p, g, id)
  BY DEF CreateGroup
<1>5. IsWithGroup(db, db', p, g, id, FALSE)
  BY <1>3, <1>4, GroupCreated
<1> DEFINE no == FALSE
<1>6. no \in BOOLEAN /\ ~no /\ IsWithGroup(db, db', p, g, id, no)
  BY <1>5
<1> HIDE DEF no
<1>7. IsTree(db') /\ Home(db') = Home(db) /\ db'.entry = db.entry
  BY <1>3, <1>6, GroupAdded
<1>8. QED
  BY <1>7 DEF IsChanged

(* createEntry().                                                                 *)
LEMMA CreateEntryChanges ==
    ASSUME IsTree(db), NEW g \in LiveGroups(db), NEW e, NEW title \in Titles,
           CreateEntry(g, e, title)
    PROVE  IsChanged(db, db')
<1> DEFINE r == [NoEntry EXCEPT !.title = title]
<1>1. db \in Trees /\ GroupsAgree(db) /\ EntriesAgree(db) /\ BackupAgrees(db)
  BY DEF IsTree
<1>2. LiveGroups(db) = InTree(db)
  BY <1>1, TreeGroups
<1>3. InTree(db) \subseteq Groups
  BY <1>1, TreeLinks
<1>4. /\ g \in InTree(db) \ {Root} /\ g \in Groups /\ ~db.group[g].deleted
      /\ e \in Entries \ Home(db)
  BY <1>2, <1>3, FreshNames DEF CreateEntry
<1>5. db' = AddEntry([db EXCEPT !.entry[e] = r], g, e)
  BY DEF CreateEntry
<1>6. r \in EntryStates /\ r.deleted = FALSE
  BY DEF EntryStates, NoEntry
<1> HIDE DEF r
<1>7. /\ db' \in Trees /\ SameLinks(db, db') /\ EntriesAgree(db')
      /\ Home(db') = Home(db) \cup {e}
      /\ db'.entry[e].group = g /\ db'.entry[e].deleted = r.deleted
      /\ \A x \in Entries \ {e} : db'.entry[x] = db.entry[x]
  <2> DEFINE d2 == AddEntry([db EXCEPT !.entry[e] = r], g, e)
  <2>1. /\ d2 \in Trees /\ SameLinks(db, d2) /\ EntriesAgree(d2)
        /\ Home(d2) = Home(db) \cup {e}
        /\ d2.entry[e].group = g /\ d2.entry[e].deleted = r.deleted
        /\ \A x \in Entries \ {e} : d2.entry[x] = db.entry[x]
    BY <1>1, <1>4, <1>6, EntryPut
  <2> HIDE DEF d2
  <2>2. QED
    BY <1>5, <2>1 DEF d2
<1>8. g # db.backupGroup
  BY <1>1, <1>4 DEF BackupAgrees
<1>9. ASSUME NEW x \in Home(db)
      PROVE  x \in Entries /\ x # e /\ db'.entry[x] = db.entry[x]
  BY <1>4, <1>7, <1>9 DEF Home
<1>10. ASSUME NEW x \in Home(db')
       PROVE  /\ db'.entry[x].group \in InTree(db) \ {Root}
              /\ db'.entry[x].deleted <=> db'.entry[x].group = db.backupGroup
  <2>1. CASE x = e
    BY <1>4, <1>6, <1>7, <1>8, <2>1
  <2>2. CASE x # e
    <3>1. x \in Home(db) /\ db'.entry[x] = db.entry[x]
      BY <1>7, <1>9, <2>2
    <3>2. db.entry[x].group \in InTree(db) \ {Root}
      BY <1>1, <3>1, TreeEntries
    <3>3. QED
      BY <1>1, <3>1, <3>2 DEF BackupAgrees
  <2>3. QED
    BY <2>1, <2>2
<1>11. IsTree(db')
  BY <1>7, <1>10, EntriesChanged
<1>12. QED
  BY <1>7, <1>9, <1>11 DEF IsChanged

(* A tree stays one when an entry moves to the Backup group.                      *)
LEMMA MovedTree ==
    ASSUME NEW d, IsTree(d), d.backupGroup # None, NEW M \in SUBSET Home(d), NEW d2, IsMoved(d, d2, M)
    PROVE  IsTree(d2)
<1>1. d \in Trees /\ GroupsAgree(d) /\ EntriesAgree(d) /\ BackupAgrees(d)
  BY DEF IsTree
<1>2. /\ d2 \in Trees /\ SameLinks(d, d2) /\ EntriesAgree(d2) /\ Home(d2) = Home(d)
      /\ \A x \in Entries :
            /\ d2.entry[x].group = IF x \in M THEN d.backupGroup ELSE d.entry[x].group
            /\ d2.entry[x].deleted <=> x \in M \/ d.entry[x].deleted
  BY DEF IsMoved
<1>3. ASSUME NEW x \in Home(d2)
      PROVE  /\ d2.entry[x].group \in InTree(d) \ {Root}
             /\ d2.entry[x].deleted <=> d2.entry[x].group = d.backupGroup
  <2>1. x \in Home(d) /\ x \in Entries
    BY <1>2, <1>3 DEF Home
  <2>2. d.entry[x].group \in InTree(d) \ {Root}
    BY <1>1, <2>1, TreeEntries
  <2>3. d.entry[x].deleted <=> d.entry[x].group = d.backupGroup
    BY <1>1, <2>1 DEF BackupAgrees
  <2>4. d.backupGroup \in InTree(d) \ {Root}
    BY BackupPlace
  <2>5. QED
    BY <1>2, <2>1, <2>2, <2>3, <2>4
<1>4. QED
  BY <1>2, <1>3, EntriesChanged

(* A new title changes nothing else.                                              *)
LEMMA TitleChanged ==
    ASSUME NEW d \in Trees, EntriesAgree(d), NEW e \in Home(d), NEW title \in Titles
    PROVE  LET d2 == [d EXCEPT !.entry[e].title = title]
           IN  /\ d2 \in Trees /\ SameLinks(d, d2) /\ EntriesAgree(d2) /\ Home(d2) = Home(d)
               /\ \A x \in Entries : /\ d2.entry[x].group = d.entry[x].group
                                     /\ d2.entry[x].deleted = d.entry[x].deleted
               /\ \A x \in Entries \ {e} : d2.entry[x] = d.entry[x]
<1> DEFINE en == d.entry
           r  == [en[e] EXCEPT !.title = title]
           e2 == [en EXCEPT ![e] = r]
           d2 == [d EXCEPT !.entry[e].title = title]
<1>1. e \in Entries /\ en \in [Entries -> EntryStates]
  BY DEF Home, Trees
<1>2. d = [group |-> d.group, entry |-> en, backupGroup |-> d.backupGroup]
  BY DEF Trees
<1>3. d2 = [group |-> d.group, entry |-> e2, backupGroup |-> d.backupGroup]
  <2> DEFINE gr == d.group
             b  == d.backupGroup
             t  == [group |-> gr, entry |-> en, backupGroup |-> b]
  <2>1. d = t
    BY <1>2
  <2>2. d2 = [t EXCEPT !.entry = [en EXCEPT ![e] = [en[e] EXCEPT !.title = title]]]
    BY <2>1
  <2> HIDE DEF gr, b, en, d2
  <2>3. QED
    BY <2>2 DEF gr, b
<1>4. /\ r \in EntryStates /\ r.group = en[e].group /\ r.groupId = en[e].groupId
      /\ r.deleted = en[e].deleted
  <2> DEFINE c == en[e]
  <2>1. c \in EntryStates
    BY <1>1
  <2> HIDE DEF c
  <2>2. QED
    BY <2>1 DEF EntryStates, c
<1> HIDE DEF r, en, d2
<1>5. /\ e2 \in [Entries -> EntryStates] /\ e2[e] = r
      /\ \A x \in Entries \ {e} : e2[x] = en[x]
  BY <1>1, <1>4
<1> HIDE DEF e2
<1>6. d2.group = d.group /\ d2.entry = e2 /\ d2.backupGroup = d.backupGroup
  BY <1>3
<1>7. d2 \in Trees
  BY <1>3, <1>5 DEF Trees
<1>8. SameLinks(d, d2)
  BY <1>6 DEF SameLinks
<1>9. \A x \in Entries : /\ d2.entry[x].group = d.entry[x].group
                         /\ d2.entry[x].groupId = d.entry[x].groupId
                         /\ d2.entry[x].deleted = d.entry[x].deleted
  BY <1>4, <1>5, <1>6 DEF en
<1>10. \A x \in Entries \ {e} : d2.entry[x] = d.entry[x]
  BY <1>5, <1>6 DEF en
<1>11. Home(d2) = Home(d)
  BY <1>9 DEF Home
<1>12. EntriesAgree(d2)
  <2>1. \A g \in Groups : /\ IsInjective(d2.group[g].entries)
                          /\ ToSet(d2.group[g].entries) = {x \in Entries : d2.entry[x].group = g}
    <3>1. \A g \in Groups : {x \in Entries : d2.entry[x].group = g}
                                = {x \in Entries : d.entry[x].group = g}
      BY <1>9
    <3>2. QED
      BY <1>6, <3>1 DEF EntriesAgree
  <2>2. \A x \in Home(d2) : d2.entry[x].groupId = d2.group[d2.entry[x].group].id
    <3>1. \A x \in Home(d) : x \in Entries
      BY DEF Home
    <3>2. QED
      BY <1>6, <1>9, <1>11, <3>1 DEF EntriesAgree
  <2>3. \A x \in Entries \ Home(d2) : d2.entry[x] = NoEntry
    BY <1>10, <1>11 DEF EntriesAgree
  <2>4. QED
    BY <2>1, <2>2, <2>3 DEF EntriesAgree
<1>13. QED
  BY <1>7, <1>8, <1>9, <1>10, <1>11, <1>12 DEF d2

(* PwEntryV3::moveToBackup().                                                     *)
LEMMA DeleteEntryChanges ==
    ASSUME IsTree(db), NEW e \in ToSet(AllEntries(db)), DeleteEntry(e)
    PROVE  IsChanged(db, db')
<1>1. db \in Trees /\ GroupsAgree(db) /\ EntriesAgree(db)
  BY DEF IsTree
<1>2. e \in Home(db) /\ ~db.entry[e].deleted
  <2>1. ToSet(AllEntries(db)) = Home(db)
    BY <1>1, TreeEntries
  <2>2. QED
    BY <2>1 DEF DeleteEntry
<1>3. PICK d \in WithBackupGroup(db) : db' = EntryToBackup(d, e)
  BY DEF DeleteEntry
<1>4. IsTree(d) /\ d.backupGroup # None /\ Home(d) = Home(db) /\ d.entry = db.entry
  BY BackupProvided
<1>5. d \in Trees /\ EntriesAgree(d) /\ d.entry[e].group # d.backupGroup
  BY <1>2, <1>4 DEF IsTree, BackupAgrees
<1>6. IsMoved(d, EntryToBackup(d, e), {e})
  BY <1>2, <1>4, <1>5, EntryMoved
<1>7. IsMoved(d, db', {e})
  BY <1>3, <1>6
<1>8. IsTree(db')
  BY <1>2, <1>4, <1>7, MovedTree
<1>9. Home(db') = Home(d) /\ \A x \in Entries : db'.entry[x].title = d.entry[x].title
  BY <1>7 DEF IsMoved
<1>10. Home(db) \subseteq Entries
  BY DEF Home
<1>11. QED
  BY <1>4, <1>8, <1>9, <1>10 DEF IsChanged

(* PwGroupV3::moveToBackup().                                                     *)
LEMMA DeleteGroupChanges ==
    ASSUME IsTree(db), NEW g \in LiveGroups(db), DeleteGroup(g)
    PROVE  IsChanged(db, db')
<1>1. db \in Trees /\ GroupsAgree(db)
  BY DEF IsTree
<1>2. LiveGroups(db) = InTree(db)
  BY <1>1, TreeGroups
<1>3. g \in InTree(db) \ {Root} /\ ~db.group[g].deleted
  BY <1>2 DEF DeleteGroup
<1>4. PICK d \in WithBackupGroup(db) : db' = Live(GroupToBackup(d, g))
  BY DEF DeleteGroup
<1>5. /\ IsTree(d) /\ d.backupGroup # None /\ Home(d) = Home(db) /\ d.entry = db.entry
      /\ g \in InTree(d) \ {Root} /\ g # d.backupGroup
  BY <1>3, BackupProvided
<1> DEFINE d2 == Live(GroupToBackup(d, g))
<1>6. IsTree(d2) /\ Home(d2) = Home(d) /\ \A e \in Entries : d2.entry[e].title = d.entry[e].title
  BY <1>5, GroupDeleted
<1> HIDE DEF d2
<1>7. db' = d2
  BY <1>4 DEF d2
<1>8. Home(db) \subseteq Entries
  BY DEF Home
<1>9. QED
  BY <1>5, <1>6, <1>7, <1>8 DEF IsChanged

(* backupState() and a new title: the entry stays where it is, and its copy in the*)
(* Backup group has the title it had.                                             *)
LEMMA EntryEdited ==
    ASSUME NEW d, IsTree(d), d.backupGroup # None, NEW e \in Home(d), ~d.entry[e].deleted,
           NEW copy \in Entries \ Home(d), NEW title \in Titles
    PROVE  IsChanged(d, [BackupState(d, e, copy) EXCEPT !.entry[e].title = title])
<1> DEFINE g  == d.entry[e].group
           c  == d.entry[e]
           d1 == AddEntry([d EXCEPT !.entry[copy] = c], g, copy)
           d2 == EntryToBackup(d1, copy)
           d3 == [d2 EXCEPT !.entry[e].title = title]
<1>1. d \in Trees /\ GroupsAgree(d) /\ EntriesAgree(d) /\ BackupAgrees(d)
  BY DEF IsTree
<1>2. /\ e \in Entries /\ copy \in Entries /\ e # copy /\ c \in EntryStates
      /\ Home(d) \subseteq Entries
  BY <1>1 DEF Home, Trees
<1>3. g \in InTree(d) \ {Root} /\ g # d.backupGroup
  BY <1>1, TreeEntries DEF BackupAgrees
<1>4. g \in Groups
  <2>1. InTree(d) \subseteq Groups
    BY <1>1, TreeLinks
  <2>2. QED
    BY <1>3, <2>1
<1>5. /\ d1 \in Trees /\ SameLinks(d, d1) /\ EntriesAgree(d1)
      /\ Home(d1) = Home(d) \cup {copy}
      /\ d1.entry[copy].group = g /\ d1.entry[copy].title = c.title
      /\ \A x \in Entries \ {copy} : d1.entry[x] = d.entry[x]
  BY <1>1, <1>2, <1>4, EntryPut
<1> HIDE DEF d1
<1>6. d1.backupGroup = d.backupGroup
  BY <1>5 DEF SameLinks
<1>7. IsMoved(d1, d2, {copy})
  BY <1>3, <1>5, <1>6, EntryMoved
<1> HIDE DEF d2
<1>8. /\ d2 \in Trees /\ SameLinks(d1, d2) /\ EntriesAgree(d2) /\ Home(d2) = Home(d1)
      /\ \A x \in Entries :
            /\ d2.entry[x].group = IF x = copy THEN d.backupGroup ELSE d1.entry[x].group
            /\ d2.entry[x].title = d1.entry[x].title
            /\ d2.entry[x].deleted <=> x = copy \/ d1.entry[x].deleted
  BY <1>6, <1>7 DEF IsMoved
<1>9. /\ d3 \in Trees /\ SameLinks(d2, d3) /\ EntriesAgree(d3) /\ Home(d3) = Home(d2)
      /\ \A x \in Entries : /\ d3.entry[x].group = d2.entry[x].group
                            /\ d3.entry[x].deleted = d2.entry[x].deleted
      /\ \A x \in Entries \ {e} : d3.entry[x] = d2.entry[x]
  <2>1. e \in Home(d2)
    BY <1>5, <1>8
  <2>2. QED
    BY <1>8, <2>1, TitleChanged
<1> HIDE DEF d3
<1>10. SameLinks(d, d3)
  <2>1. \A h \in Groups :
           /\ d3.group[h].subGroups = d.group[h].subGroups
           /\ d3.group[h].parent    = d.group[h].parent
           /\ d3.group[h].level     = d.group[h].level
           /\ d3.group[h].id        = d.group[h].id
           /\ d3.group[h].reserved  = d.group[h].reserved
           /\ d3.group[h].deleted   = d.group[h].deleted
    BY <1>5, <1>8, <1>9 DEF SameLinks
  <2>2. d3.backupGroup = d.backupGroup
    BY <1>5, <1>8, <1>9 DEF SameLinks
  <2>3. QED
    BY <2>1, <2>2 DEF SameLinks
<1>11. ASSUME NEW x \in Home(d)
       PROVE  /\ x \in Entries /\ x # copy
              /\ d3.entry[x].group = d.entry[x].group
              /\ d3.entry[x].deleted <=> d.entry[x].deleted
              /\ x # e => d3.entry[x].title = d.entry[x].title
  <2>1. x \in Entries \ {copy}
    BY <1>2
  <2>2. d1.entry[x] = d.entry[x]
    BY <1>5, <2>1
  <2>3. d2.entry[x].title = d.entry[x].title
    BY <1>8, <2>1, <2>2
  <2>4. QED
    BY <1>8, <1>9, <2>1, <2>2, <2>3
<1>12. /\ d3.entry[copy].group = d.backupGroup /\ d3.entry[copy].deleted
       /\ d3.entry[copy].title = c.title
  BY <1>2, <1>5, <1>8, <1>9
<1>13. ASSUME NEW x \in Home(d3)
       PROVE  /\ d3.entry[x].group \in InTree(d) \ {Root}
              /\ d3.entry[x].deleted <=> d3.entry[x].group = d.backupGroup
  <2>1. CASE x = copy
    <3>1. d.backupGroup \in InTree(d) \ {Root}
      BY BackupPlace
    <3>2. QED
      BY <1>12, <2>1, <3>1
  <2>2. CASE x # copy
    <3>1. x \in Home(d)
      BY <1>5, <1>8, <1>9, <2>2
    <3>2. d.entry[x].group \in InTree(d) \ {Root}
      BY <1>1, <3>1, TreeEntries
    <3>3. QED
      BY <1>1, <1>11, <3>1, <3>2 DEF BackupAgrees
  <2>3. QED
    BY <2>1, <2>2
<1>14. IsTree(d3)
  BY <1>9, <1>10, <1>13, EntriesChanged
<1>15. Home(d3) = Home(d) \cup {copy} /\ d3.backupGroup = d.backupGroup
  BY <1>5, <1>8, <1>9, <1>10 DEF SameLinks
<1>16. ASSUME NEW x \in Home(d), d3.entry[x].title # d.entry[x].title
       PROVE  /\ d3.entry[x].group = d.entry[x].group
              /\ \E y \in Home(d3) \ Home(d) : /\ d3.entry[y].group = d3.backupGroup
                                               /\ d3.entry[y].title = d.entry[x].title
  <2>1. x = e
    BY <1>11, <1>16
  <2>2. copy \in Home(d3) \ Home(d)
    BY <1>15
  <2>3. QED
    BY <1>11, <1>12, <1>15, <2>1, <2>2
<1>17. IsChanged(d, d3)
  BY <1>14, <1>15, <1>16 DEF IsChanged
<1>18. QED
  BY <1>17 DEF d1, d2, d3, BackupState

(* backupState() and the changes to the entry that follow it.                     *)
LEMMA EditEntryChanges ==
    ASSUME IsTree(db), NEW e \in ToSet(AllEntries(db)), NEW copy,
           NEW title \in Titles, EditEntry(e, copy, title)
    PROVE  IsChanged(db, db')
<1>1. db \in Trees /\ GroupsAgree(db) /\ EntriesAgree(db)
  BY DEF IsTree
<1>2. e \in Home(db) /\ ~db.entry[e].deleted /\ copy \in Entries \ Home(db)
  <2>1. ToSet(AllEntries(db)) = Home(db)
    BY <1>1, TreeEntries
  <2>2. copy \in Entries \ Home(db)
    BY FreshNames DEF EditEntry
  <2>3. QED
    BY <2>1, <2>2 DEF EditEntry
<1>3. PICK d \in WithBackupGroup(db) :
         db' = [BackupState(d, e, copy) EXCEPT !.entry[e].title = title]
  BY DEF EditEntry
<1>4. IsTree(d) /\ d.backupGroup # None /\ Home(d) = Home(db) /\ d.entry = db.entry
  BY BackupProvided
<1> DEFINE d3 == [BackupState(d, e, copy) EXCEPT !.entry[e].title = title]
<1>5. IsChanged(d, d3)
  BY <1>2, <1>4, EntryEdited
<1> HIDE DEF d3
<1>6. IsChanged(d, db')
  BY <1>3, <1>5 DEF d3
<1>7. QED
  BY <1>4, <1>6 DEF IsChanged

----------------------------------------------------------------------------------
(* The theorems                                                                 *)

(* Each step is the change of a tree that is then saved or not, or a Reopen.      *)
LEMMA TreeSteps ==
    ASSUME TreeV3Inv, Next
    PROVE  (IsChanged(db, db') /\ UNCHANGED metaStreams /\ Saved) \/ Reopen
<1>1. IsTree(db)
  BY DEF TreeV3Inv
<1>2. ASSUME NEW p \in LiveGroups(db), NEW g \in Groups, NEW id \in Ids, CreateGroup(p, g, id)
      PROVE  IsChanged(db, db') /\ UNCHANGED metaStreams /\ Saved
  <2>1. UNCHANGED metaStreams /\ Saved
    BY <1>2 DEF CreateGroup
  <2>2. QED
    BY <1>1, <1>2, <2>1, CreateGroupChanges
<1>3. ASSUME NEW g \in LiveGroups(db), NEW e \in Entries, NEW t \in Titles, CreateEntry(g, e, t)
      PROVE  IsChanged(db, db') /\ UNCHANGED metaStreams /\ Saved
  <2>1. UNCHANGED metaStreams /\ Saved
    BY <1>3 DEF CreateEntry
  <2>2. QED
    BY <1>1, <1>3, <2>1, CreateEntryChanges
<1>4. ASSUME NEW e \in ToSet(AllEntries(db)), NEW copy \in Entries, NEW t \in Titles,
             EditEntry(e, copy, t)
      PROVE  IsChanged(db, db') /\ UNCHANGED metaStreams /\ Saved
  <2>1. UNCHANGED metaStreams /\ Saved
    BY <1>4 DEF EditEntry
  <2>2. QED
    BY <1>1, <1>4, <2>1, EditEntryChanges
<1>5. ASSUME NEW e \in ToSet(AllEntries(db)), DeleteEntry(e)
      PROVE  IsChanged(db, db') /\ UNCHANGED metaStreams /\ Saved
  <2>1. UNCHANGED metaStreams /\ Saved
    BY <1>5 DEF DeleteEntry
  <2>2. QED
    BY <1>1, <1>5, <2>1, DeleteEntryChanges
<1>6. ASSUME NEW g \in LiveGroups(db), DeleteGroup(g)
      PROVE  IsChanged(db, db') /\ UNCHANGED metaStreams /\ Saved
  <2>1. UNCHANGED metaStreams /\ Saved
    BY <1>6 DEF DeleteGroup
  <2>2. QED
    BY <1>1, <1>6, <2>1, DeleteGroupChanges
<1>7. QED
  BY <1>2, <1>3, <1>4, <1>5, <1>6 DEF Next

(* A changed tree is again in memory, and in the file if it has been saved.       *)
LEMMA ChangeSaved ==
    ASSUME TreeV3Inv, IsChanged(db, db'), UNCHANGED metaStreams, Saved
    PROVE  /\ TreeV3Inv'
           /\ file' # file => Loads(file') /\ IsReadBack(db', ReadTree(file'))
           /\ EntriesOf(file) \subseteq EntriesOf(file')
<1>1. /\ metaStreams' \in Seq(MetaStreams) /\ EntriesOf(file) \subseteq Home(db)
      /\ WellFormed(file)
  BY DEF TreeV3Inv, TreeV3TypeOK
<1>2. IsTree(db') /\ Home(db) \subseteq Home(db') /\ db' \in Trees
  BY DEF IsChanged, IsTree
<1>3. CASE file' = file
  <2>1. WellFormed(file') /\ EntriesOf(file') \subseteq Home(db')
    BY <1>1, <1>2, <1>3
  <2>2. TreeV3Inv'
    BY <1>1, <1>2, <2>1 DEF TreeV3Inv, TreeV3TypeOK, WellFormed
  <2>3. QED
    BY <1>3, <2>2
<1>4. CASE file' = Written(db', metaStreams')
  <2> DEFINE d == db'
             m == metaStreams'
             f == Written(d, m)
  <2>1. IsTree(d) /\ m \in Seq(MetaStreams)
    BY <1>1, <1>2
  <2> HIDE DEF d, m
  <2>2. WellFormed(f) /\ Loads(f) /\ EntriesOf(f) = Home(d)
    BY <2>1, WrittenIsWellFormed
  <2>3. IsReadBack(d, ReadTree(f))
    BY <2>1, WrittenIsReadBack
  <2>4. file' = f
    BY <1>4 DEF d, m
  <2> HIDE DEF f
  <2>5. /\ WellFormed(file') /\ Loads(file') /\ EntriesOf(file') = Home(db')
        /\ IsReadBack(db', ReadTree(file'))
    BY <2>2, <2>3, <2>4 DEF d
  <2>6. TreeV3Inv'
    BY <1>1, <1>2, <2>5 DEF TreeV3Inv, TreeV3TypeOK, WellFormed
  <2>7. QED
    BY <1>1, <1>2, <2>5, <2>6
<1>5. QED
  BY <1>3, <1>4 DEF Saved

(* What a well-formed file is read as.                                            *)
LEMMA FileRead ==
    ASSUME NEW f, WellFormed(f)
    PROVE  /\ IsTree(ReadTree(f)) /\ ReadTree(f) \in Trees
           /\ ReadMetaStreams(f) \in Seq(MetaStreams)
           /\ EntriesOf(f) \subseteq Home(ReadTree(f))
<1>1. f \in Files /\ f.entryCount <= Len(f.entries) /\ IsTree(ReadTree(f))
  BY DEF WellFormed
<1>2. ReadMetaStreams(f) \in Seq(MetaStreams)
  BY <1>1, MetasTyped
<1>3. QED
  BY <1>1, <1>2 DEF WellFormed, IsTree

(* What other programs leave is a tree.                                         *)
LEMMA TreeInit == Init => TreeV3Inv
<1> SUFFICES ASSUME Init PROVE TreeV3Inv
  OBVIOUS
<1>1. WellFormed(file) /\ db = ReadTree(file) /\ metaStreams = ReadMetaStreams(file)
  BY OldFilesAssumption DEF Init
<1>2. /\ IsTree(db) /\ db \in Trees /\ metaStreams \in Seq(MetaStreams)
      /\ EntriesOf(file) \subseteq Home(db)
  BY <1>1, FileRead
<1>3. QED
  BY <1>1, <1>2 DEF TreeV3Inv, TreeV3TypeOK, WellFormed

(* Unlocking reads the tree of the file.                                          *)
LEMMA ReopenKeepsInv ==
    ASSUME TreeV3Inv, Reopen
    PROVE  TreeV3Inv'
<1>1. /\ WellFormed(file) /\ db' = ReadTree(file) /\ metaStreams' = ReadMetaStreams(file)
      /\ file' = file
  BY DEF TreeV3Inv, Reopen
<1>2. /\ IsTree(db') /\ db' \in Trees /\ metaStreams' \in Seq(MetaStreams)
      /\ EntriesOf(file') \subseteq Home(db')
  BY <1>1, FileRead
<1>3. QED
  BY <1>1, <1>2 DEF TreeV3Inv, TreeV3TypeOK, WellFormed

(* Every step makes a tree of a tree, and a file of a file.                     *)
LEMMA TreeNext ==
    TreeV3Inv /\ [Next]_vars => TreeV3Inv'
<1> SUFFICES ASSUME TreeV3Inv, [Next]_vars PROVE TreeV3Inv'
  OBVIOUS
<1>1. CASE Next
  BY <1>1, TreeSteps, ChangeSaved, ReopenKeepsInv
<1>2. CASE UNCHANGED vars
  BY <1>2 DEF vars, TreeV3Inv, TreeV3TypeOK
<1>3. QED
  BY <1>1, <1>2

(* Whatever ids createNewGroupId() draws, there is a tree in memory, and another   *)
(* one, with no other entries, in the file.                                       *)
THEOREM TreeInvariance ==
    Spec => []TreeV3Inv
<1>1. Init => TreeV3Inv
  BY TreeInit
<1>2. TreeV3Inv /\ [Next]_vars => TreeV3Inv'
  BY TreeNext
<1>3. QED
  BY <1>1, <1>2, PTL DEF Spec

(* In such a tree all that is kept twice agrees.                                  *)
LEMMA TreeAgrees ==
    ASSUME IsTree(db)
    PROVE  LevelsAndIdsAgree
<1> DEFINE lists == [g \in LiveGroups(db) |-> ToSet(db.group[g].subGroups)]
<1>1. db \in Trees /\ GroupsAgree(db) /\ EntriesAgree(db)
  BY DEF IsTree
<1>2. LiveGroups(db) = InTree(db) /\ IsInjective(AllGroups(db))
  BY <1>1, TreeGroups
<1>3. IsInjective(AllEntries(db))
  BY <1>1, TreeEntries
<1>4. InTree(db) \subseteq Groups
  BY <1>1, TreeLinks
<1>5. ASSUME NEW p \in LiveGroups(db), NEW g \in lists[p]
      PROVE  db.group[g].parent = p /\ db.group[g].level = db.group[p].level + 1
  <2>1. p \in Groups /\ g \in Kids(db, p)
    BY <1>2, <1>4, <1>5 DEF Kids
  <2>2. \A q \in Groups : \A x \in Kids(db, q) :
           /\ q \in InTree(db) /\ x \in InTree(db) \ {Root} /\ db.group[x].parent = q
           /\ db.group[x].level = db.group[q].level + 1
    BY <1>1, TreeLinks
  <2>3. QED
    BY <2>1, <2>2
<1>6. ASSUME NEW p \in LiveGroups(db), NEW e \in ToSet(db.group[p].entries)
      PROVE  db.entry[e].group = p /\ db.entry[e].groupId = db.group[p].id
  <2>1. p \in Groups
    BY <1>2, <1>4
  <2>2. e \in Entries /\ db.entry[e].group = p
    BY <1>1, <1>6, <2>1 DEF EntriesAgree
  <2>3. e \in Home(db)
    BY <2>1, <2>2, GroupsAssumption DEF Home
  <2>4. QED
    BY <1>1, <2>2, <2>3 DEF EntriesAgree
<1>7. QED
  BY <1>2, <1>3, <1>5, <1>6 DEF LevelsAndIdsAgree

(* ... and there is one Backup group at most, which is the one that is known.     *)
LEMMA TreeKnowsBackup ==
    ASSUME IsTree(db)
    PROVE  BackupGroupIsKnown
<1> DEFINE backups == {g \in LiveGroups(db) : db.group[g].reserved}
<1>1. db \in Trees /\ GroupsAgree(db) /\ EntriesAgree(db) /\ BackupAgrees(db)
  BY DEF IsTree
<1>2. LiveGroups(db) = InTree(db)
  BY <1>1, TreeGroups
<1>3. ToSet(AllEntries(db)) = Home(db)
  BY <1>1, TreeEntries
<1>4. db.backupGroup # None => /\ db.backupGroup \in InTree(db)
                               /\ db.backupGroup \in Groups
                               /\ db.group[db.backupGroup].parent = Root
  BY BackupPlace
<1>5. \A g \in InTree(db) : g # None
  <2>1. InTree(db) \subseteq Groups
    BY <1>1, TreeLinks
  <2>2. QED
    BY <2>1, GroupsAssumption
<1>6. backups = {db.backupGroup} \ {None}
  BY <1>1, <1>2, <1>4, <1>5 DEF BackupAgrees
<1>7. ASSUME NEW g \in backups
      PROVE  g \in ToSet(db.group[Root].subGroups) /\ db.group[g].deleted
  <2>1. g = db.backupGroup /\ g # None /\ g \in InTree(db)
    BY <1>2, <1>6, <1>7
  <2>2. db.group[g].deleted
    BY <1>1, <2>1 DEF BackupAgrees
  <2>3. g \in Groups /\ db.group[g].parent = Root
    BY <1>4, <2>1
  <2>4. g \in ToSet(db.group[Root].subGroups)
    BY <1>1, <2>3, GroupsAssumption DEF GroupsAgree
  <2>5. QED
    BY <2>2, <2>4
<1>8. ASSUME NEW e \in ToSet(AllEntries(db))
      PROVE  db.entry[e].deleted <=> db.entry[e].group \in backups
  <2>1. e \in Home(db) /\ db.entry[e].group # None
    BY <1>3, <1>8 DEF Home
  <2>2. db.entry[e].deleted <=> db.entry[e].group = db.backupGroup
    BY <1>1, <2>1 DEF BackupAgrees
  <2>3. QED
    BY <1>6, <2>1, <2>2
<1>9. QED
  BY <1>6, <1>7, <1>8 DEF BackupGroupIsKnown

(* A group and its parent, and an entry and its group, always agree on each other,*)
(* on the level and on the group id, whatever is created, edited, deleted, saved  *)
(* and read again.                                                                *)
THEOREM LevelsAndIdsAlwaysAgree ==
    Spec => []LevelsAndIdsAgree
<1>1. TreeV3Inv => LevelsAndIdsAgree
  BY TreeAgrees DEF TreeV3Inv
<1>2. Spec => []TreeV3Inv
  BY TreeInvariance
<1>3. QED
  BY <1>1, <1>2, PTL

(* The Backup group stays the only one, and nothing else is ever flagged.         *)
THEOREM BackupGroupIsAlwaysKnown ==
    Spec => []BackupGroupIsKnown
<1>1. TreeV3Inv => BackupGroupIsKnown
  BY TreeKnowsBackup DEF TreeV3Inv
<1>2. Spec => []TreeV3Inv
  BY TreeInvariance
<1>3. QED
  BY <1>1, <1>2, PTL

(* Every file that is saved is read back as the tree in memory: no order, level,  *)
(* id, flag or title is lost in the flat lists, but that entries of groups with   *)
(* the same id may all be in one of them.                                         *)
THEOREM SavesAreReadBack ==
    Spec => ReadsBackTheTree
<1>1. TreeV3Inv /\ [Next]_vars =>
          [file' # file => /\ Loads(file')
                           /\ \E t \in {ReadTree(file')} : IsReadBack(db', t)]_vars
  <2> SUFFICES ASSUME TreeV3Inv, Next, file' # file
               PROVE  Loads(file') /\ IsReadBack(db', ReadTree(file'))
    OBVIOUS
  <2>1. ~Reopen
    BY DEF Reopen
  <2>2. QED
    BY <2>1, TreeSteps, ChangeSaved
<1>2. Spec => []TreeV3Inv
  BY TreeInvariance
<1>3. QED
  BY <1>1, <1>2, PTL DEF Spec, ReadsBackTheTree

(* No entry ever leaves the file, though deleting a group removes all the groups  *)
(* below it.                                                                      *)
THEOREM EntriesAlwaysStay ==
    Spec => EntriesStay
<1>1. TreeV3Inv /\ [Next]_vars => [EntriesOf(file) \subseteq EntriesOf(file')]_vars
  <2> SUFFICES ASSUME TreeV3Inv, Next
               PROVE  EntriesOf(file) \subseteq EntriesOf(file')
    OBVIOUS
  <2>1. CASE Reopen
    BY <2>1 DEF Reopen
  <2>2. CASE IsChanged(db, db') /\ UNCHANGED metaStreams /\ Saved
    BY <2>2, ChangeSaved
  <2>3. QED
    BY <2>1, <2>2, TreeSteps
<1>2. Spec => []TreeV3Inv
  BY TreeInvariance
<1>3. QED
  BY <1>1, <1>2, PTL DEF Spec, EntriesStay

(* Unless the database is read anew, no title changes but by an edit, which leaves*)
(* the entry in its group and a copy of it in the Backup group.                   *)
THEOREM EditsAlwaysLeaveACopy ==
    Spec => EditsLeaveACopy
<1> DEFINE A == db' # ReadTree(file) => \A e \in Edited :
          /\ db'.entry[e].group = db.entry[e].group
          /\ \E copy \in ToSet(db'.group[db'.backupGroup].entries)
                           \ ToSet(AllEntries(db)) :
                db'.entry[copy].title = db.entry[e].title
<1>1. TreeV3Inv /\ [Next]_vars => [A]_vars
  <2> SUFFICES ASSUME TreeV3Inv, Next, db' # ReadTree(file), NEW e \in Edited
               PROVE  /\ db'.entry[e].group = db.entry[e].group
                      /\ \E copy \in ToSet(db'.group[db'.backupGroup].entries)
                                       \ ToSet(AllEntries(db)) :
                            db'.entry[copy].title = db.entry[e].title
    OBVIOUS
  <2>1. IsChanged(db, db')
    BY TreeSteps DEF Reopen
  <2>2. IsTree(db) /\ IsTree(db')
    BY <2>1 DEF TreeV3Inv, IsChanged
  <2>3. ToSet(AllEntries(db)) = Home(db)
    BY <2>2, TreeEntries DEF IsTree
  <2>4. e \in Home(db) /\ db'.entry[e].title # db.entry[e].title
    BY <2>3 DEF Edited
  <2>5. /\ db'.entry[e].group = db.entry[e].group
        /\ \E copy \in Home(db') \ Home(db) : /\ db'.entry[copy].group = db'.backupGroup
                                              /\ db'.entry[copy].title = db.entry[e].title
    BY <2>1, <2>4 DEF IsChanged
  <2>6. PICK copy \in Home(db') \ Home(db) : /\ db'.entry[copy].group = db'.backupGroup
                                             /\ db'.entry[copy].title = db.entry[e].title
    BY <2>5
  <2>7. copy \in ToSet(db'.group[db'.backupGroup].entries)
    <3> DEFINE d == db'
    <3>1. d \in Trees /\ EntriesAgree(d) /\ copy \in Home(d) /\ d.entry[copy].group = d.backupGroup
      BY <2>2, <2>6 DEF IsTree
    <3> HIDE DEF d
    <3>2. copy \in Entries /\ d.backupGroup # None
      BY <3>1 DEF Home
    <3>3. d.backupGroup \in Groups
      BY <3>1, <3>2, TreeFields
    <3>4. copy \in ToSet(d.group[d.backupGroup].entries)
      BY <3>1, <3>2, <3>3 DEF EntriesAgree
    <3>5. QED
      BY <3>4 DEF d
  <2>8. QED
    BY <2>3, <2>5, <2>6, <2>7
<1>2. Spec => []TreeV3Inv
  BY TreeInvariance
<1>3. QED
  BY <1>1, <1>2, PTL DEF Spec, EditsLeaveACopy
==================================================================================

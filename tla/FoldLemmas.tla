-------------------------------- MODULE FoldLemmas --------------------------------
(***************************************************************************)
(* What FoldLeft of the community modules computes, one step after the     *)
(* other, for any operator.  The operator is a constant of the module: a   *)
(* proof about a fold instantiates the module with the operator it folds.  *)
(* Its first argument is the same in all the steps of one fold.            *)
(* All that the module extends is there again in each instance, and slows  *)
(* its proofs: the few operators of SequencesExt, FiniteSetsExt and        *)
(* Functions that the lemmas name are defined here, as they are there.     *)
(***************************************************************************)
EXTENDS Integers, Sequences, Folds, WellFoundedInduction, TLAPS

CONSTANT op(_, _, _)

ToSet(s)       == {s[i] : i \in DOMAIN s}
IsInjective(f) == \A a, b \in DOMAIN f : f[a] = f[b] => a = b
RemoveAt(s, i) == SubSeq(s, 1, i - 1) \o SubSeq(s, i + 1, Len(s))
Max(S)         == CHOOSE x \in S : \A y \in S : x >= y

----------------------------------------------------------------------------------
(* Induction                                                                      *)

(* A set of natural numbers that has 0 and with each number the next has all.     *)
LEMMA NatSetInduction ==
    ASSUME NEW S, 0 \in S, \A n \in Nat : n \in S => n + 1 \in S
    PROVE  Nat \subseteq S
<1> SUFFICES ASSUME Nat \ S # {} PROVE FALSE
  OBVIOUS
<1> DEFINE T == Nat \ S
           R == OpToRel(<, Nat)
<1>1. PICK m \in T : \A y \in T : ~ (<<y, m>> \in R)
  <2> HIDE DEF R, T
  <2>1. IsWellFoundedOn(R, Nat)
    BY NatLessThanWellFounded DEF R
  <2>2. T \subseteq Nat /\ T # {}
    BY DEF T
  <2>3. QED
    BY <2>1, <2>2, WFMin
<1>2. \A y \in T : ~ (y < m)
  BY <1>1 DEF OpToRel
<1>3. m # 0 /\ m - 1 \in Nat /\ m - 1 < m
  OBVIOUS
<1>4. m - 1 \in S
  BY <1>2, <1>3
<1>5. QED
  BY <1>3, <1>4

----------------------------------------------------------------------------------
(* Sequences                                                                      *)

(* The members of a sequence of members of S.                                     *)
LEMMA MembersOfSeq ==
    ASSUME NEW S, NEW s \in Seq(S)
    PROVE  /\ Len(s) \in Nat /\ DOMAIN s = 1..Len(s)
           /\ \A i \in DOMAIN s : s[i] \in S
           /\ ToSet(s) \subseteq S
           /\ \A x : x \in ToSet(s) <=> \E i \in 1..Len(s) : s[i] = x
BY DEF ToSet

(* Concatenation.                                                                 *)
LEMMA ConcatMembers ==
    ASSUME NEW S, NEW s \in Seq(S), NEW t \in Seq(S)
    PROVE  /\ s \o t \in Seq(S)
           /\ Len(s \o t) = Len(s) + Len(t)
           /\ ToSet(s \o t) = ToSet(s) \cup ToSet(t)
<1>1. /\ s \o t \in Seq(S) /\ Len(s \o t) = Len(s) + Len(t)
      /\ \A i \in 1..Len(s) : (s \o t)[i] = s[i]
      /\ \A i \in 1..Len(t) : (s \o t)[Len(s) + i] = t[i]
  OBVIOUS
<1>2. ASSUME NEW i \in 1..Len(s \o t)
      PROVE  (s \o t)[i] \in ToSet(s) \cup ToSet(t)
  <2>1. CASE i <= Len(s)
    BY <1>1, <2>1, MembersOfSeq
  <2>2. CASE i > Len(s)
    <3>1. i - Len(s) \in 1..Len(t) /\ i = Len(s) + (i - Len(s))
      BY <1>1, <2>2
    <3>2. QED
      BY <1>1, <3>1, MembersOfSeq
  <2>3. QED
    BY <2>1, <2>2
<1>3. ToSet(s \o t) \subseteq ToSet(s) \cup ToSet(t)
  <2>1. DOMAIN (s \o t) = 1..Len(s \o t)
    BY <1>1
  <2>2. ToSet(s \o t) = {(s \o t)[i] : i \in 1..Len(s \o t)}
    BY <2>1 DEF ToSet
  <2>3. QED
    BY <1>2, <2>2
<1>4. ASSUME NEW i \in 1..Len(s)
      PROVE  s[i] \in ToSet(s \o t)
  <2>1. i \in DOMAIN (s \o t) /\ (s \o t)[i] = s[i]
    BY <1>1
  <2>2. QED
    BY <2>1 DEF ToSet
<1>5. ASSUME NEW i \in 1..Len(t)
      PROVE  t[i] \in ToSet(s \o t)
  <2>1. Len(s) + i \in DOMAIN (s \o t) /\ (s \o t)[Len(s) + i] = t[i]
    BY <1>1
  <2>2. QED
    BY <2>1 DEF ToSet
<1>6. QED
  BY <1>1, <1>3, <1>4, <1>5, MembersOfSeq

(* Taking out the element at a position.                                          *)
LEMMA RemovedAt ==
    ASSUME NEW S, NEW s \in Seq(S), NEW i \in DOMAIN s
    PROVE  /\ RemoveAt(s, i) \in Seq(S)
           /\ Len(RemoveAt(s, i)) = Len(s) - 1
           /\ \A j \in 1..(Len(s) - 1) : RemoveAt(s, i)[j] = s[IF j < i THEN j ELSE j + 1]
<1> DEFINE before == SubSeq(s, 1, i - 1)
           after  == SubSeq(s, i + 1, Len(s))
<1>1. i \in 1..Len(s) /\ Len(s) \in Nat
  OBVIOUS
<1>2. /\ before \in Seq(S) /\ Len(before) = i - 1
      /\ \A j \in 1..(i - 1) : before[j] = s[j]
  BY <1>1
<1>3. /\ after \in Seq(S) /\ Len(after) = Len(s) - i
      /\ \A j \in 1..(Len(s) - i) : after[j] = s[i + j]
  BY <1>1
<1>4. RemoveAt(s, i) = before \o after
  BY DEF RemoveAt
<1> HIDE DEF before, after
<1>5. RemoveAt(s, i) \in Seq(S) /\ Len(RemoveAt(s, i)) = Len(s) - 1
  BY <1>1, <1>2, <1>3, <1>4
<1>6. ASSUME NEW j \in 1..(Len(s) - 1)
      PROVE  RemoveAt(s, i)[j] = s[IF j < i THEN j ELSE j + 1]
  <2>1. CASE j < i
    BY <1>1, <1>2, <1>3, <1>4, <2>1
  <2>2. CASE ~(j < i)
    <3>1. j - (i - 1) \in 1..(Len(s) - i)
      BY <1>1, <2>2
    <3>2. (before \o after)[j] = after[j - (i - 1)]
      <4>1. \A k \in 1..Len(after) : (before \o after)[Len(before) + k] = after[k]
        <5>1. ASSUME NEW a \in Seq(S), NEW b \in Seq(S)
              PROVE  \A k \in 1..Len(b) : (a \o b)[Len(a) + k] = b[k]
          OBVIOUS
        <5>2. QED
          BY <1>2, <1>3, <5>1
      <4>2. j = Len(before) + (j - (i - 1))
        BY <1>1, <1>2
      <4>3. QED
        BY <1>3, <3>1, <4>1, <4>2
    <3>3. after[j - (i - 1)] = s[j + 1]
      BY <1>1, <1>3, <3>1
    <3>4. QED
      BY <1>4, <2>2, <3>2, <3>3
  <2>3. QED
    BY <2>1, <2>2
<1>7. QED
  BY <1>5, <1>6

LEMMA RemovedAtMembers ==
    ASSUME NEW S, NEW s \in Seq(S), NEW i \in DOMAIN s
    PROVE  /\ \A x : x \in ToSet(RemoveAt(s, i)) <=> \E j \in DOMAIN s : j # i /\ s[j] = x
           /\ IsInjective(s) => IsInjective(RemoveAt(s, i))
<1> DEFINE r == RemoveAt(s, i)
<1> HIDE DEF r
<1>1. /\ r \in Seq(S) /\ Len(r) = Len(s) - 1 /\ Len(s) \in Nat
      /\ DOMAIN r = 1..(Len(s) - 1) /\ DOMAIN s = 1..Len(s)
      /\ \A j \in 1..(Len(s) - 1) : r[j] = s[IF j < i THEN j ELSE j + 1]
  BY RemovedAt DEF r
<1>2. ASSUME NEW j \in DOMAIN r
      PROVE  \E k \in DOMAIN s : k # i /\ s[k] = r[j]
  <2>1. CASE j < i
    BY <1>1, <2>1
  <2>2. CASE ~(j < i)
    <3>1. j + 1 \in DOMAIN s /\ j + 1 # i /\ s[j + 1] = r[j]
      BY <1>1, <2>2
    <3>2. QED
      BY <3>1
  <2>3. QED
    BY <2>1, <2>2
<1>3. ASSUME NEW k \in DOMAIN s, k # i
      PROVE  \E j \in DOMAIN r : s[k] = r[j]
  <2>1. CASE k < i
    BY <1>1, <2>1
  <2>2. CASE k > i
    <3>1. k - 1 \in DOMAIN r /\ r[k - 1] = s[k]
      BY <1>1, <2>2
    <3>2. QED
      BY <3>1
  <2>3. QED
    BY <1>1, <1>3, <2>1, <2>2
<1>4. \A x : x \in ToSet(r) <=> \E j \in DOMAIN s : j # i /\ s[j] = x
  BY <1>2, <1>3 DEF ToSet
<1>5. ASSUME IsInjective(s), NEW j \in DOMAIN r, NEW k \in DOMAIN r, r[j] = r[k]
      PROVE  j = k
  <2> DEFINE at(m) == IF m < i THEN m ELSE m + 1
  <2>1. at(j) \in DOMAIN s /\ at(k) \in DOMAIN s /\ r[j] = s[at(j)] /\ r[k] = s[at(k)]
    BY <1>1
  <2>2. at(j) = at(k)
    BY <1>5, <2>1 DEF IsInjective
  <2>3. QED
    BY <1>1, <2>2
<1>6. QED
  BY <1>4, <1>5 DEF r, IsInjective

(* The entry at the end of the list.                                              *)
LEMMA AddedLast ==
    ASSUME NEW S, NEW s \in Seq(S), IsInjective(s), NEW x \in S, x \notin ToSet(s)
    PROVE  /\ Append(s, x) \in Seq(S)
           /\ IsInjective(Append(s, x))
           /\ ToSet(Append(s, x)) = ToSet(s) \cup {x}
<1> DEFINE t == Append(s, x)
<1>1. /\ t \in Seq(S) /\ Len(s) \in Nat /\ DOMAIN s = 1..Len(s)
      /\ DOMAIN t = 1..(Len(s) + 1)
      /\ t[Len(s) + 1] = x /\ \A i \in 1..Len(s) : t[i] = s[i]
  OBVIOUS
<1> HIDE DEF t
<1>2. \A i \in 1..(Len(s) + 1) : i \in 1..Len(s) \/ i = Len(s) + 1
  BY <1>1
<1>3. \A i \in 1..Len(s) : s[i] # x /\ i \in DOMAIN t
  BY <1>1 DEF ToSet
<1>4. IsInjective(t)
  BY <1>1, <1>2, <1>3 DEF IsInjective
<1>5. Len(s) + 1 \in DOMAIN t
  BY <1>1
<1>6. ToSet(t) = ToSet(s) \cup {x}
  BY <1>1, <1>2, <1>3, <1>5 DEF ToSet
<1>7. QED
  BY <1>1, <1>4, <1>6 DEF t

(* Taking out one of the members of a sequence that holds each once.              *)
LEMMA OneRemoved ==
    ASSUME NEW S, NEW s \in Seq(S), IsInjective(s), NEW i \in DOMAIN s
    PROVE  /\ RemoveAt(s, i) \in Seq(S)
           /\ IsInjective(RemoveAt(s, i))
           /\ ToSet(RemoveAt(s, i)) = ToSet(s) \ {s[i]}
<1>1. RemoveAt(s, i) \in Seq(S)
  BY RemovedAt
<1>2. /\ IsInjective(RemoveAt(s, i))
      /\ \A y : y \in ToSet(RemoveAt(s, i)) <=> \E j \in DOMAIN s : j # i /\ s[j] = y
  BY RemovedAtMembers
<1>3. \A y : (\E j \in DOMAIN s : j # i /\ s[j] = y) <=> y \in ToSet(s) /\ y # s[i]
  BY DEF ToSet, IsInjective
<1>4. QED
  BY <1>1, <1>2, <1>3

----------------------------------------------------------------------------------
(* Flattening                                                                     *)

IsFlatten(f, seqs, n) ==
    f = [i \in 1..n |-> IF i = 1 THEN seqs[i] ELSE f[i - 1] \o seqs[i]]

(* The function by which FlattenSeq is defined exists: for one more sequence it   *)
(* is the former one, and this sequence put to the end.                           *)
LEMMA FlattenExists ==
    ASSUME NEW seqs, NEW n \in Nat
    PROVE  \E f : IsFlatten(f, seqs, n)
<1> DEFINE S == {m \in Nat : \E f : IsFlatten(f, seqs, m)}
<1>1. 0 \in S
  <2>1. IsFlatten([i \in 1..0 |-> seqs[i]], seqs, 0)
    <3>1. 1..0 = {}
      OBVIOUS
    <3>2. QED
      BY ONLY <3>1 DEF IsFlatten
  <2>2. QED
    BY <2>1
<1>2. ASSUME NEW m \in Nat, m \in S
      PROVE  m + 1 \in S
  <2> PICK f : IsFlatten(f, seqs, m)
    BY <1>2
  <2> DEFINE g == [i \in 1..(m + 1) |->
                     IF i = m + 1 THEN (IF m = 0 THEN seqs[1] ELSE f[m] \o seqs[m + 1])
                                  ELSE f[i]]
  <2>1. ASSUME NEW i \in 1..(m + 1)
        PROVE  g[i] = IF i = 1 THEN seqs[i] ELSE g[i - 1] \o seqs[i]
    <3>1. CASE i = m + 1 /\ m = 0
      BY <3>1
    <3>2. CASE i = m + 1 /\ m # 0
      <4>1. i # 1 /\ m \in 1..(m + 1) /\ m # m + 1 /\ i - 1 = m
        BY ONLY <3>2, m \in Nat
      <4>2. g[m] = f[m] /\ g[i] = f[m] \o seqs[m + 1]
        BY <3>2, <4>1
      <4>3. QED
        BY <3>2, <4>1, <4>2
    <3>3. CASE i # m + 1
      <4>1. i \in 1..m
        BY ONLY <3>3, m \in Nat, i \in 1..(m + 1)
      <4>2. f[i] = IF i = 1 THEN seqs[i] ELSE f[i - 1] \o seqs[i]
        BY <4>1 DEF IsFlatten
      <4>3. g[i] = f[i]
        BY <3>3
      <4>4. i # 1 => g[i - 1] = f[i - 1]
        <5>1. i # 1 => i - 1 \in 1..(m + 1) /\ i - 1 # m + 1
          BY ONLY <4>1, m \in Nat
        <5>2. QED
          BY <5>1
      <4>5. QED
        BY <4>2, <4>3, <4>4
    <3>4. QED
      BY <3>1, <3>2, <3>3
  <2>2. IsFlatten(g, seqs, m + 1)
    <3>1. g = [i \in 1..(m + 1) |-> g[i]]
      OBVIOUS
    <3> HIDE DEF g
    <3>2. QED
      BY <2>1, <3>1 DEF IsFlatten
  <2>3. QED
    BY <2>2
<1>3. n \in S
  <2> HIDE DEF S
  <2>1. QED
    BY <1>1, <1>2, NatSetInduction
<1>4. QED
  BY <1>3

----------------------------------------------------------------------------------
(* The fold                                                                       *)

(* FoldLeft(LAMBDA acc, x : op(par, acc, x), base, seq) of SequencesExt.          *)
Folded(par, base, seq) ==
    MapThenFoldSet(LAMBDA x, acc : op(par, acc, x), base,
                   LAMBDA i : seq[i], LAMBDA S : Max(S), DOMAIN seq)

(* The fold over a set of positions, from the largest to the smallest.            *)
IsIter(par, f, base, seq, n) ==
    f = [s \in SUBSET (1..n) |->
            IF s = {} THEN base
                      ELSE LET i == Max(s) IN op(par, f[s \ {i}], seq[i])]

(* Folded is the value of such a function, chosen among all of them.              *)
LEMMA FoldIsIter ==
    ASSUME NEW par, NEW base, NEW seq, NEW n, DOMAIN seq = 1..n
    PROVE  Folded(par, base, seq) = (CHOOSE f : IsIter(par, f, base, seq, n))[1..n]
BY DEF Folded, MapThenFoldSet, IsIter

(* Some positions of a sequence have a largest one.                               *)
LEMMA MaxOfPositions ==
    ASSUME NEW n \in Nat, NEW s \in SUBSET (1..n), s # {}
    PROVE  Max(s) \in s /\ \A i \in s : i <= Max(s)
<1> DEFINE S == {m \in Nat : \A t \in SUBSET (1..m) :
                                t # {} => \E x \in t : \A y \in t : x >= y}
<1>1. 0 \in S
  <2>1. \A t \in SUBSET (1..0) : t = {}
    <3>1. 1..0 = {}
      OBVIOUS
    <3>2. QED
      BY ONLY <3>1
  <2>2. QED
    BY ONLY <2>1
<1>2. ASSUME NEW m \in Nat, m \in S
      PROVE  m + 1 \in S
  <2>1. ASSUME NEW t \in SUBSET (1..(m + 1)), t # {}
        PROVE  \E x \in t : \A y \in t : x >= y
    <3>1. CASE m + 1 \in t
      BY <3>1
    <3>2. CASE m + 1 \notin t
      <4>1. t \in SUBSET (1..m)
        BY <3>2
      <4>2. QED
        BY <1>2, <2>1, <4>1
    <3>3. QED
      BY <3>1, <3>2
  <2>2. QED
    BY <2>1
<1>3. n \in S
  <2> HIDE DEF S
  <2>1. QED
    BY <1>1, <1>2, NatSetInduction
<1>4. \E x \in s : \A y \in s : x >= y
  BY <1>3
<1>5. Max(s) \in s /\ \A y \in s : Max(s) >= y
  BY <1>4 DEF Max
<1>6. QED
  BY <1>5

(* There is such a function: for one more position it is the former one, and a    *)
(* step with the new position for the sets that have it.                          *)
LEMMA IterExists ==
    ASSUME NEW par, NEW base, NEW seq, NEW n \in Nat
    PROVE  \E f : IsIter(par, f, base, seq, n)
<1> DEFINE S == {m \in Nat : \E f : IsIter(par, f, base, seq, m)}
<1>1. 0 \in S
  <2>1. 1..0 = {} /\ SUBSET {} = {{}}
    OBVIOUS
  <2>2. IsIter(par, [s \in SUBSET (1..0) |-> base], base, seq, 0)
    BY ONLY <2>1 DEF IsIter
  <2>3. QED
    BY ONLY <2>2
<1>2. ASSUME NEW m \in Nat, m \in S
      PROVE  m + 1 \in S
  <2> PICK f : IsIter(par, f, base, seq, m)
    BY <1>2
  <2> DEFINE g == [s \in SUBSET (1..(m + 1)) |->
                     IF m + 1 \in s THEN op(par, f[s \ {m + 1}], seq[m + 1]) ELSE f[s]]
  <2>1. ASSUME NEW s \in SUBSET (1..(m + 1))
        PROVE  g[s] = IF s = {} THEN base
                                ELSE LET i == Max(s) IN op(par, g[s \ {i}], seq[i])
    <3>1. CASE s = {}
      BY <3>1 DEF IsIter
    <3>2. CASE m + 1 \in s
      <4>1. Max(s) = m + 1
        <5>1. m + 1 \in Nat /\ s # {}
          BY <3>2
        <5>2. Max(s) \in s /\ m + 1 <= Max(s)
          BY <3>2, <5>1, MaxOfPositions
        <5>3. Max(s) \in 1..(m + 1)
          BY <5>2
        <5>4. QED
          BY ONLY <5>2, <5>3, m \in Nat
      <4>2. g[s \ {m + 1}] = f[s \ {m + 1}]
        OBVIOUS
      <4>3. QED
        BY <3>2, <4>1, <4>2
    <3>3. CASE s # {} /\ m + 1 \notin s
      <4>1. s \in SUBSET (1..m) /\ Max(s) \in s
        <5>1. s \in SUBSET (1..m)
          <6>1. \A x \in s : x \in 1..(m + 1) /\ x # m + 1
            BY <3>3
          <6>2. \A x \in s : x \in 1..m
            BY ONLY <6>1, m \in Nat
          <6>3. QED
            BY ONLY <6>2
        <5>2. QED
          BY <3>3, <5>1, MaxOfPositions
      <4>2. g[s] = f[s] /\ g[s \ {Max(s)}] = f[s \ {Max(s)}]
        BY <3>3
      <4>3. f[s] = op(par, f[s \ {Max(s)}], seq[Max(s)])
        BY <3>3, <4>1 DEF IsIter
      <4>4. QED
        BY <3>3, <4>2, <4>3
    <3>4. QED
      BY <3>1, <3>2, <3>3
  <2>2. IsIter(par, g, base, seq, m + 1)
    BY <2>1 DEF IsIter
  <2>3. QED
    BY <2>2
<1>3. n \in S
  <2> HIDE DEF S
  <2>1. QED
    BY <1>1, <1>2, NatSetInduction
<1>4. QED
  BY <1>3

(* The intermediate results of a fold, from the base on.                          *)
AreSteps(par, base, seq, n, r) == /\ r[0] = base
                                  /\ \A k \in 1..n : r[k] = op(par, r[k - 1], seq[k])
                                  /\ r[n] = Folded(par, base, seq)

Steps(par, base, seq, n) == CHOOSE r : AreSteps(par, base, seq, n, r)

LEMMA FoldLeftSteps ==
    ASSUME NEW par, NEW base, NEW seq, NEW n \in Nat, DOMAIN seq = 1..n
    PROVE  LET r == Steps(par, base, seq, n)
           IN  /\ r[0] = base
               /\ \A k \in 1..n : r[k] = op(par, r[k - 1], seq[k])
               /\ r[n] = Folded(par, base, seq)
<1> DEFINE f == CHOOSE h : IsIter(par, h, base, seq, n)
           r == [k \in 0..n |-> f[1..k]]
<1>1. IsIter(par, f, base, seq, n)
  BY IterExists
<1>2. Folded(par, base, seq) = f[1..n]
  BY FoldIsIter
<1> HIDE DEF f
<1>3. r[0] = base
  <2>1. 1..0 = {}
    OBVIOUS
  <2>2. QED
    BY <1>1, <2>1 DEF IsIter
<1>4. ASSUME NEW k \in 1..n
      PROVE  r[k] = op(par, r[k - 1], seq[k])
  <2>1. 1..k \in SUBSET (1..k) /\ k \in 1..k /\ k \in Nat
    OBVIOUS
  <2>2. Max(1..k) = k
    <3>1. Max(1..k) \in 1..k /\ k <= Max(1..k)
      BY <2>1, MaxOfPositions
    <3>2. QED
      BY ONLY <3>1, k \in 1..n, n \in Nat
  <2>3. (1..k) \ {k} = 1..(k - 1)
    OBVIOUS
  <2>4. f[1..k] = op(par, f[1..(k - 1)], seq[k])
    <3>1. 1..k \in SUBSET (1..n) /\ 1..k # {}
      BY <2>1
    <3>2. f[1..k] = LET i == Max(1..k) IN op(par, f[(1..k) \ {i}], seq[i])
      BY <1>1, <3>1 DEF IsIter
    <3>3. QED
      BY <2>2, <2>3, <3>2
  <2>5. QED
    BY <2>4
<1>5. r[n] = Folded(par, base, seq)
  BY <1>2
<1> HIDE DEF r
<1>6. \E h : AreSteps(par, base, seq, n, h)
  BY <1>3, <1>4, <1>5 DEF AreSteps
<1>7. QED
  BY <1>6 DEF Steps, AreSteps
==================================================================================

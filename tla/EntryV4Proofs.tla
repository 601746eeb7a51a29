------------------------------- MODULE EntryV4Proofs -------------------------------
(***************************************************************************)
(* Theorems about EntryV4, for any entries, fields, attachments and limit  *)
(* of the history, and their proofs.  The loops of the code are folds; what*)
(* they compute is shown by induction on their intermediate results, which *)
(* FoldLemmas gives.                                                       *)
(***************************************************************************)
EXTENDS EntryV4, FiniteSetTheorems, TLAPS

Adding   == INSTANCE FoldLemmas WITH op <- LAMBDA none, pool, b : AddBinary(pool, b)
Removing == INSTANCE FoldLemmas WITH op <- LAMBDA none, kept, i : RemoveOldest(kept)
Reading  == INSTANCE FoldLemmas WITH op <- LAMBDA none, read, v : WithHistoryEntry(read, v)

----------------------------------------------------------------------------------
(* Sequences                                                                      *)

(* The members of a sequence of members of S.                                     *)
LEMMA MembersOfSeq ==
    ASSUME NEW S, NEW s \in Seq(S)
    PROVE  /\ Len(s) \in Nat /\ DOMAIN s = 1..Len(s)
           /\ \A i \in DOMAIN s : s[i] \in S
           /\ ToSet(s) \subseteq S
           /\ \A x : x \in ToSet(s) <=> \E i \in 1..Len(s) : s[i] = x
BY DEF ToSet

(* What FoldLemmas shows of sequences.                                            *)
LEMMA ConcatMembers ==
    ASSUME NEW S, NEW s \in Seq(S), NEW t \in Seq(S)
    PROVE  /\ s \o t \in Seq(S)
           /\ Len(s \o t) = Len(s) + Len(t)
           /\ ToSet(s \o t) = ToSet(s) \cup ToSet(t)
<1>1. /\ s \o t \in Seq(S) /\ Len(s \o t) = Len(s) + Len(t)
      /\ Adding!ToSet(s \o t) = Adding!ToSet(s) \cup Adding!ToSet(t)
  BY Adding!ConcatMembers
<1>2. QED
  BY <1>1 DEF ToSet, Adding!ToSet

LEMMA RemovedAt ==
    ASSUME NEW S, NEW s \in Seq(S), NEW i \in DOMAIN s
    PROVE  /\ RemoveAt(s, i) \in Seq(S)
           /\ Len(RemoveAt(s, i)) = Len(s) - 1
           /\ \A j \in 1..(Len(s) - 1) : RemoveAt(s, i)[j] = s[IF j < i THEN j ELSE j + 1]
BY Adding!RemovedAt DEF RemoveAt, Adding!RemoveAt

LEMMA RemovedAtMembers ==
    ASSUME NEW S, NEW s \in Seq(S), NEW i \in DOMAIN s
    PROVE  /\ \A x : x \in ToSet(RemoveAt(s, i)) <=> \E j \in DOMAIN s : j # i /\ s[j] = x
           /\ IsInjective(s) => IsInjective(RemoveAt(s, i))
BY Adding!RemovedAtMembers
   DEF RemoveAt, Adding!RemoveAt, ToSet, Adding!ToSet, IsInjective, Adding!IsInjective

----------------------------------------------------------------------------------
(* Flattening                                                                     *)

(* The members of a flattened sequence are those of its sequences.                *)
LEMMA FlattenMembers ==
    ASSUME NEW S, NEW seqs \in Seq(Seq(S))
    PROVE  /\ FlattenSeq(seqs) \in Seq(S)
           /\ \A x : x \in ToSet(FlattenSeq(seqs)) <=> \E i \in DOMAIN seqs : x \in ToSet(seqs[i])
<1>1. CASE Len(seqs) = 0
  <2>1. FlattenSeq(seqs) = seqs /\ seqs = <<>>
    BY <1>1 DEF FlattenSeq
  <2>2. QED
    BY <2>1 DEF ToSet
<1>2. CASE Len(seqs) # 0
  <2> DEFINE n == Len(seqs)
             r == CHOOSE f : Adding!IsFlatten(f, seqs, n)
  <2>1. n \in Nat /\ n # 0 /\ DOMAIN seqs = 1..n /\ \A i \in 1..n : seqs[i] \in Seq(S)
    BY <1>2
  <2>2. FlattenSeq(seqs) = r[n]
    BY <2>1 DEF FlattenSeq, Adding!IsFlatten
  <2>3. Adding!IsFlatten(r, seqs, n)
    BY <2>1, Adding!FlattenExists
  <2> HIDE DEF r, n
  <2>4. \A k \in 1..n : r[k] = IF k = 1 THEN seqs[k] ELSE r[k - 1] \o seqs[k]
    BY <2>3 DEF Adding!IsFlatten
  <2> DEFINE Done(k) == /\ r[k] \in Seq(S)
                        /\ \A x : x \in ToSet(r[k]) <=> \E i \in 1..k : x \in ToSet(seqs[i])
             T == {k \in Nat : k = 0 \/ k > n \/ Done(k)}
  <2>5. ASSUME NEW k \in Nat, k \in T
        PROVE  k + 1 \in T
    <3>1. CASE k + 1 > n
      BY <3>1
    <3>2. CASE k + 1 <= n /\ k = 0
      <4>1. r[1] = seqs[1] /\ 1..1 = {1} /\ 1 \in 1..n
        BY <2>1, <2>4, <3>2
      <4>2. Done(1)
        BY <2>1, <4>1
      <4>3. QED
        BY <3>2, <4>2
    <3>3. CASE k + 1 <= n /\ k # 0
      <4>1. k + 1 \in 1..n /\ k + 1 # 1 /\ k + 1 - 1 = k /\ k \in Nat /\ ~(k > n)
        BY ONLY <2>1, <3>3, k \in Nat
      <4>2. r[k + 1] = r[k] \o seqs[k + 1] /\ seqs[k + 1] \in Seq(S)
        <5> DEFINE j == k + 1
        <5>1. j \in 1..n /\ j # 1 /\ j - 1 = k
          BY ONLY <4>1
        <5> HIDE DEF j
        <5>2. r[j] = IF j = 1 THEN seqs[j] ELSE r[j - 1] \o seqs[j]
          BY ONLY <2>4, <5>1
        <5>3. r[j] = r[k] \o seqs[j]
          BY ONLY <5>1, <5>2
        <5>4. seqs[j] \in Seq(S)
          BY ONLY <2>1, <5>1
        <5>5. QED
          BY ONLY <5>3, <5>4 DEF j
      <4>3. Done(k)
        BY <2>5, <3>3, <4>1
      <4>4. /\ r[k + 1] \in Seq(S)
            /\ ToSet(r[k + 1]) = ToSet(r[k]) \cup ToSet(seqs[k + 1])
        BY <4>2, <4>3, ConcatMembers
      <4>5. 1..(k + 1) = (1..k) \cup {k + 1}
        OBVIOUS
      <4>6. Done(k + 1)
        BY <4>3, <4>4, <4>5
      <4>7. QED
        BY <4>6
    <3>4. QED
      BY <2>1, <3>1, <3>2, <3>3
  <2>6. 0 \in T
    OBVIOUS
  <2>7. n \in T
    <3> HIDE DEF T
    <3>1. QED
      BY <2>1, <2>5, <2>6, Adding!NatSetInduction
  <2>8. Done(n)
    BY ONLY <2>1, <2>7
  <2>9. QED
    BY ONLY <2>1, <2>2, <2>8, Zenon
<1>3. QED
  BY <1>1, <1>2

----------------------------------------------------------------------------------
(* History                                                                        *)

(* The fields of a version.                                                       *)
LEMMA VersionFields ==
    ASSUME NEW A, NEW v \in Versions(A)
    PROVE  /\ v.title \in Values /\ v.extra \in [Names -> Values \cup {None}]
           /\ v.atts \in Seq(A) /\ v.modified \in Int
           /\ v = [title |-> v.title, extra |-> v.extra, atts |-> v.atts,
                   modified |-> v.modified]
BY DEF Versions

(* A list of times has a first among its smallest.                                *)
LEMMA FirstSmallest ==
    ASSUME NEW n \in Nat, n # 0, NEW t \in [1..n -> Int]
    PROVE  \E i \in 1..n : \A j \in 1..n : IF j < i THEN t[i] < t[j] ELSE t[i] <= t[j]
<1> DEFINE Found(i, k) == \A j \in 1..k : IF j < i THEN t[i] < t[j] ELSE t[i] <= t[j]
           T == {k \in Nat : k = 0 \/ k > n \/ \E i \in 1..k : Found(i, k)}
<1>1. ASSUME NEW k \in Nat, k \in T
      PROVE  k + 1 \in T
  <2>1. CASE k + 1 > n
    BY <2>1
  <2>2. CASE k = 0 /\ k + 1 <= n
    <3>1. 1..1 = {1} /\ 1 \in 1..n
      BY ONLY <2>2, n \in Nat
    <3>2. t[1] \in Int
      BY ONLY <3>1, t \in [1..n -> Int]
    <3>3. Found(1, 1)
      BY ONLY <3>1, <3>2
    <3>4. \E i \in 1..(k + 1) : Found(i, k + 1)
      BY <2>2, <3>1, <3>3
    <3>5. QED
      BY <3>4
  <2>3. CASE k # 0 /\ k + 1 <= n
    <3>1. PICK i \in 1..k : Found(i, k)
      BY <1>1, <2>3
    <3>2. \A j \in 1..(k + 1) : t[j] \in Int
      BY <2>3
    <3>3. CASE t[k + 1] < t[i]
      <4>1. Found(k + 1, k + 1)
        BY <3>1, <3>2, <3>3
      <4>2. k + 1 \in 1..(k + 1)
        OBVIOUS
      <4>3. QED
        BY <4>1, <4>2
    <3>4. CASE ~(t[k + 1] < t[i])
      <4>1. Found(i, k + 1)
        BY <3>1, <3>2, <3>4
      <4>2. i \in 1..(k + 1)
        OBVIOUS
      <4>3. QED
        BY <4>1, <4>2
    <3>5. QED
      BY <3>3, <3>4
  <2>4. QED
    BY <2>1, <2>2, <2>3
<1>2. 0 \in T
  OBVIOUS
<1>3. n \in T
  <2> HIDE DEF T
  <2>1. QED
    BY <1>1, <1>2, Adding!NatSetInduction
<1>4. QED
  BY <1>3

(* removeOldestHistoryItem() finds an item of the smallest time.                  *)
LEMMA OldestIsThere ==
    ASSUME NEW A, NEW h \in Seq(Versions(A)), Len(h) # 0
    PROVE  /\ OldestIndex(h) \in DOMAIN h
           /\ \A j \in DOMAIN h : h[OldestIndex(h)].modified <= h[j].modified
<1> DEFINE n == Len(h)
           t == [j \in 1..n |-> h[j].modified]
<1>1. n \in Nat /\ n # 0 /\ DOMAIN h = 1..n
  OBVIOUS
<1>2. \A j \in 1..n : h[j].modified \in Int
  <2>1. \A j \in 1..n : h[j] \in Versions(A)
    BY <1>1
  <2>2. QED
    BY <2>1, VersionFields
<1>3. t \in [1..n -> Int]
  BY <1>2
<1>4. PICK i \in 1..n : \A j \in 1..n : IF j < i THEN t[i] < t[j] ELSE t[i] <= t[j]
  <2> HIDE DEF n, t
  <2>1. QED
    BY <1>1, <1>3, FirstSmallest
<1>5. \A j \in DOMAIN h : IF j < i THEN h[i].modified < h[j].modified
                                   ELSE h[i].modified <= h[j].modified
  BY <1>1, <1>4
<1>6. i \in DOMAIN h
  BY <1>1
<1> HIDE DEF n, t
<1>7. /\ OldestIndex(h) \in DOMAIN h
      /\ \A j \in DOMAIN h : IF j < OldestIndex(h)
                             THEN h[OldestIndex(h)].modified < h[j].modified
                             ELSE h[OldestIndex(h)].modified <= h[j].modified
  BY ONLY <1>5, <1>6 DEF OldestIndex
<1>8. QED
  BY ONLY <1>1, <1>2, <1>7

(* What is kept of a history h when the oldest item has been taken out k times.   *)
KeptAfter(A, h, kept, k) ==
    /\ kept \in Seq(Versions(A))
    /\ Len(kept) = Len(h) - k
    /\ ToSet(kept) \subseteq ToSet(h)
    /\ \A x \in ToSet(h) \ ToSet(kept) : \A y \in ToSet(kept) : x.modified <= y.modified

LEMMA OldestRemoved ==
    ASSUME NEW A, NEW h \in Seq(Versions(A)), NEW k \in Nat, k < Len(h),
           NEW kept, KeptAfter(A, h, kept, k)
    PROVE  KeptAfter(A, h, RemoveOldest(kept), k + 1)
<1> DEFINE i == OldestIndex(kept)
           r == RemoveAt(kept, i)
<1>1. kept \in Seq(Versions(A)) /\ Len(kept) = Len(h) - k /\ Len(kept) # 0
  BY DEF KeptAfter
<1>2. i \in DOMAIN kept /\ \A j \in DOMAIN kept : kept[i].modified <= kept[j].modified
  BY <1>1, OldestIsThere
<1> HIDE DEF i
<1>3. r \in Seq(Versions(A)) /\ Len(r) = Len(h) - (k + 1)
  <2>1. r \in Seq(Versions(A)) /\ Len(r) = Len(kept) - 1
    BY <1>1, <1>2, RemovedAt
  <2>2. Len(h) \in Nat
    OBVIOUS
  <2>3. QED
    BY ONLY <1>1, <2>1, <2>2, k \in Nat
<1>4. \A x : x \in ToSet(r) <=> \E j \in DOMAIN kept : j # i /\ kept[j] = x
  BY <1>1, <1>2, RemovedAtMembers
<1> HIDE DEF r
<1>5. ToSet(r) \subseteq ToSet(kept) /\ ToSet(kept) \subseteq ToSet(r) \cup {kept[i]}
  BY <1>4 DEF ToSet
<1>6. \A y \in ToSet(r) : kept[i].modified <= y.modified
  BY <1>2, <1>4
<1>7. ToSet(r) \subseteq ToSet(h)
  BY <1>5 DEF KeptAfter
<1>8. \A x \in ToSet(h) \ ToSet(r) : \A y \in ToSet(r) : x.modified <= y.modified
  BY <1>5, <1>6 DEF KeptAfter
<1>9. QED
  BY <1>3, <1>7, <1>8 DEF KeptAfter, r, i, RemoveOldest

(* maintainHistorySize(): what it takes out is as old as anything it keeps, and   *)
(* it takes nothing out unless the history is longer than the limit.              *)
LEMMA MaintainedHistory ==
    ASSUME NEW A, NEW h \in Seq(Versions(A))
    PROVE  /\ Maintained(h) \in Seq(Versions(A))
           /\ ToSet(Maintained(h)) \subseteq ToSet(h)
           /\ \A x \in ToSet(h) \ ToSet(Maintained(h)) :
                 /\ 0 <= HistoryMaxItems /\ Len(Maintained(h)) = HistoryMaxItems
                 /\ \A y \in ToSet(Maintained(h)) : x.modified <= y.modified
<1> DEFINE n == Len(h) - HistoryMaxItems
           turns == [i \in 1..n |-> i]
<1>1. CASE HistoryMaxItems < 0 \/ Len(h) <= HistoryMaxItems
  BY <1>1 DEF Maintained
<1>2. CASE ~(HistoryMaxItems < 0 \/ Len(h) <= HistoryMaxItems)
  <2>1. n \in Nat /\ n <= Len(h) /\ Len(h) \in Nat /\ 0 <= HistoryMaxItems
    BY <1>2, LimitAssumption
  <2>2. Maintained(h) = Removing!Folded({}, h, turns)
    BY <1>2 DEF Maintained, Removing!Folded, FoldLeft,
                MapThenFoldSet, Removing!MapThenFoldSet, Max, Removing!Max
  <2>3. DOMAIN turns = 1..n
    OBVIOUS
  <2> HIDE DEF turns, n
  <2> DEFINE r == Removing!Steps({}, h, turns, n)
  <2>4. /\ r[0] = h
        /\ \A k \in 1..n : r[k] = RemoveOldest(r[k - 1])
        /\ r[n] = Removing!Folded({}, h, turns)
    BY <2>1, <2>3, Removing!FoldLeftSteps
  <2> HIDE DEF r
  <2> DEFINE T == {k \in Nat : k > n \/ KeptAfter(A, h, r[k], k)}
  <2>5. 0 \in T
    BY <2>1, <2>4 DEF KeptAfter
  <2>6. ASSUME NEW k \in Nat, k \in T
        PROVE  k + 1 \in T
    <3>1. CASE k + 1 > n
      BY <3>1
    <3>2. CASE k + 1 <= n
      <4> DEFINE j == k + 1
      <4>1. j \in 1..n /\ j - 1 = k /\ k < Len(h) /\ ~(k > n)
        BY ONLY <2>1, <3>2, k \in Nat
      <4>2. KeptAfter(A, h, r[k], k)
        BY <2>6, <4>1
      <4>3. KeptAfter(A, h, RemoveOldest(r[k]), k + 1)
        BY ONLY <4>1, <4>2, OldestRemoved, k \in Nat, h \in Seq(Versions(A))
      <4> HIDE DEF j
      <4>4. r[j] = RemoveOldest(r[k])
        BY ONLY <2>4, <4>1
      <4>5. QED
        BY <4>3, <4>4 DEF j
    <3>3. QED
      BY <2>1, <3>1, <3>2
  <2>7. n \in T
    <3> HIDE DEF T
    <3>1. QED
      BY <2>1, <2>5, <2>6, Adding!NatSetInduction
  <2>8. KeptAfter(A, h, Maintained(h), n)
    BY ONLY <2>1, <2>2, <2>4, <2>7
  <2>9. Len(h) - n = HistoryMaxItems
    BY <2>1, LimitAssumption DEF n
  <2>10. QED
    BY ONLY <2>1, <2>8, <2>9 DEF KeptAfter
<1>3. QED
  BY <1>1, <1>2

(* backupState() puts the backup on top of the history, and maintains its size.   *)
LEMMA BackupIsAdded ==
    ASSUME NEW A, NEW h \in Seq(Versions(A)), NEW v \in Versions(A)
    PROVE  /\ WithHistoryEntry(h, v) \in Seq(Versions(A))
           /\ Len(WithHistoryEntry(h, v)) = Len(h) + 1
           /\ ToSet(WithHistoryEntry(h, v)) = ToSet(h) \cup {v}
           /\ BackupState(h, v) \in Seq(Versions(A))
<1>1. /\ <<v>> \in Seq(Versions(A)) /\ Len(<<v>>) = 1
      /\ ToSet(<<v>>) = {v}
  BY DEF ToSet
<1>2. /\ WithHistoryEntry(h, v) \in Seq(Versions(A))
      /\ Len(WithHistoryEntry(h, v)) = Len(h) + 1
      /\ ToSet(WithHistoryEntry(h, v)) = ToSet(h) \cup {v}
  <2> DEFINE top == <<v>>
  <2>1. top \in Seq(Versions(A)) /\ Len(top) = 1 /\ ToSet(top) = {v}
    BY <1>1
  <2>2. WithHistoryEntry(h, v) = top \o h
    BY DEF WithHistoryEntry
  <2> HIDE DEF top
  <2>3. /\ top \o h \in Seq(Versions(A))
        /\ Len(top \o h) = Len(top) + Len(h)
        /\ ToSet(top \o h) = ToSet(top) \cup ToSet(h)
    <3> DEFINE S == Versions(A)
    <3>1. top \in Seq(S) /\ h \in Seq(S)
      BY <2>1
    <3> HIDE DEF S
    <3>2. top \o h \in Seq(S)
      BY ONLY <3>1, ConcatMembers
    <3>3. Len(top \o h) = Len(top) + Len(h)
      BY ONLY <3>1, ConcatMembers
    <3>4. ToSet(top \o h) = ToSet(top) \cup ToSet(h)
      BY ONLY <3>1, ConcatMembers
    <3>5. QED
      BY <3>2, <3>3, <3>4 DEF S
  <2>4. QED
    BY <2>1, <2>2, <2>3
<1>3. QED
  BY <1>2, MaintainedHistory DEF BackupState

(* readHistory() turns the history upside down.                                   *)
LEMMA ReadUpsideDown ==
    ASSUME NEW S, NEW s \in Seq(S)
    PROVE  Reading!Folded({}, <<>>, s) = Reverse(s)
<1> DEFINE n == Len(s)
           Turned(k) == [i \in 1..k |-> s[k - i + 1]]
<1>1. n \in Nat /\ DOMAIN s = 1..n /\ \A i \in 1..n : s[i] \in S
  OBVIOUS
<1> HIDE DEF n
<1> DEFINE r == Reading!Steps({}, <<>>, s, n)
<1>2. /\ r[0] = <<>>
      /\ \A k \in 1..n : r[k] = WithHistoryEntry(r[k - 1], s[k])
      /\ r[n] = Reading!Folded({}, <<>>, s)
  BY <1>1, Reading!FoldLeftSteps
<1> HIDE DEF r
<1> DEFINE T == {k \in Nat : k > n \/ r[k] = Turned(k)}
<1>3. 0 \in T
  <2>1. 1..0 = {}
    OBVIOUS
  <2>2. Turned(0) = <<>>
    BY <2>1
  <2>3. QED
    BY <1>2, <2>2
<1>4. ASSUME NEW k \in Nat, k \in T
      PROVE  k + 1 \in T
  <2>1. CASE k + 1 > n
    BY <2>1
  <2>2. CASE k + 1 <= n
    <3> DEFINE j == k + 1
    <3>1. j \in 1..n /\ j - 1 = k /\ ~(k > n) /\ 1..k \subseteq 1..n
      BY ONLY <1>1, <2>2, k \in Nat
    <3>2. r[k] = Turned(k)
      BY <1>4, <3>1
    <3>3. s[j] \in S /\ \A i \in 1..k : s[k - i + 1] \in S
      <4>1. \A i \in 1..k : k - i + 1 \in 1..n
        BY ONLY <3>1, k \in Nat, <1>1
      <4>2. QED
        BY ONLY <1>1, <3>1, <4>1
    <3>4. <<s[j]>> \o Turned(k) = Turned(j)
      <4>1. Turned(k) \in Seq(S) /\ Len(Turned(k)) = k
        BY ONLY <3>3, k \in Nat
      <4>2. <<s[j]>> \in Seq(S) /\ Len(<<s[j]>>) = 1 /\ <<s[j]>>[1] = s[j]
        BY ONLY <3>3
      <4>3. /\ <<s[j]>> \o Turned(k) \in Seq(S)
            /\ Len(<<s[j]>> \o Turned(k)) = k + 1
            /\ (<<s[j]>> \o Turned(k))[1] = s[j]
            /\ \A i \in 1..k : (<<s[j]>> \o Turned(k))[i + 1] = Turned(k)[i]
        BY ONLY <4>1, <4>2, k \in Nat
      <4>4. ASSUME NEW i \in 1..j
            PROVE  (<<s[j]>> \o Turned(k))[i] = s[j - i + 1]
        <5>1. CASE i = 1
          <6>1. j - i + 1 = j
            BY ONLY <5>1, k \in Nat
          <6>2. QED
            BY ONLY <4>3, <5>1, <6>1
        <5>2. CASE i # 1
          <6>1. i - 1 \in 1..k /\ (i - 1) + 1 = i /\ k - (i - 1) + 1 = j - i + 1
            BY ONLY <5>2, k \in Nat, i \in 1..j
          <6>2. Turned(k)[i - 1] = s[k - (i - 1) + 1]
            BY ONLY <6>1
          <6>3. QED
            BY ONLY <4>3, <6>1, <6>2
        <5>3. QED
          BY <5>1, <5>2
      <4>5. QED
        BY ONLY <4>3, <4>4, k \in Nat
    <3>5. r[j] = <<s[j]>> \o r[k]
      <4> HIDE DEF j
      <4>1. r[j] = WithHistoryEntry(r[j - 1], s[j])
        BY ONLY <1>2, <3>1
      <4>2. QED
        BY ONLY <3>1, <4>1 DEF WithHistoryEntry
    <3> HIDE DEF Turned
    <3>6. r[j] = Turned(j)
      BY ONLY <3>2, <3>4, <3>5
    <3>7. QED
      BY <3>6
  <2>3. QED
    BY <1>1, <2>1, <2>2
<1> HIDE DEF Turned
<1>5. n \in T
  <2> HIDE DEF T
  <2>1. QED
    BY <1>1, <1>3, <1>4, Adding!NatSetInduction
<1>6. r[n] = Turned(n)
  BY ONLY <1>1, <1>5
<1>7. QED
  BY ONLY <1>2, <1>6 DEF Reverse, Turned, n

----------------------------------------------------------------------------------
(* The pool of binaries                                                           *)

(* The binaries are numbered from 0 on, each of them once.                        *)
IsPoolOf(pool, data) ==
    \E m \in Nat : /\ DOMAIN pool = 0..(m - 1)
                   /\ Range(pool) = data
                   /\ IsInjective(pool)

LEMMA BinaryAdded ==
    ASSUME NEW pool, NEW data, IsPoolOf(pool, data), NEW d
    PROVE  IsPoolOf(AddBinary(pool, d), data \cup {d})
<1>1. PICK m \in Nat : /\ DOMAIN pool = 0..(m - 1)
                       /\ Range(pool) = data
                       /\ IsInjective(pool)
  BY DEF IsPoolOf
<1>2. CASE d \in data
  <2>1. AddBinary(pool, d) = pool /\ data \cup {d} = data
    BY <1>1, <1>2 DEF AddBinary
  <2>2. QED
    BY <2>1
<1>3. CASE d \notin data
  <2>1. Cardinality(0..(m - 1)) = m
    BY FS_Interval
  <2>2. AddBinary(pool, d) = [y \in (0..(m - 1)) \cup {m} |-> IF y = m THEN d ELSE pool[y]]
    BY <1>1, <1>3, <2>1 DEF AddBinary, With
  <2> DEFINE p == AddBinary(pool, d)
  <2>3. (0..(m - 1)) \cup {m} = 0..m /\ m + 1 - 1 = m /\ m + 1 \in Nat
    OBVIOUS
  <2>4. /\ DOMAIN p = 0..(m + 1 - 1) /\ p[m] = d /\ m \in DOMAIN p
        /\ \A y \in 0..(m - 1) : y # m /\ y \in DOMAIN p /\ p[y] = pool[y]
        /\ \A y \in DOMAIN p : y = m \/ y \in 0..(m - 1)
    BY <2>2, <2>3
  <2> HIDE DEF p
  <2>5. Range(p) = data \cup {d}
    BY <1>1, <2>4 DEF Range
  <2>6. \A y \in 0..(m - 1) : pool[y] # d
    BY <1>1, <1>3 DEF Range
  <2>7. IsInjective(p)
    BY <1>1, <2>4, <2>6 DEF IsInjective
  <2>8. QED
    BY <2>3, <2>4, <2>5, <2>7 DEF IsPoolOf, p
<1>4. QED
  BY <1>2, <1>3

(* updateBinaries() gives every data that it meets a number, and no other.        *)
LEMMA PoolOfSeq ==
    ASSUME NEW seq \in Seq(Data)
    PROVE  IsPoolOf(Adding!Folded({}, <<>>, seq), ToSet(seq))
<1> DEFINE n == Len(seq)
           Met(k) == {seq[i] : i \in 1..k}
<1>1. n \in Nat /\ DOMAIN seq = 1..n
  OBVIOUS
<1> HIDE DEF n
<1> DEFINE r == Adding!Steps({}, <<>>, seq, n)
<1>2. /\ r[0] = <<>>
      /\ \A k \in 1..n : r[k] = AddBinary(r[k - 1], seq[k])
      /\ r[n] = Adding!Folded({}, <<>>, seq)
  BY <1>1, Adding!FoldLeftSteps
<1> HIDE DEF r
<1> DEFINE T == {k \in Nat : k > n \/ IsPoolOf(r[k], Met(k))}
<1>3. 0 \in T
  <2>1. 1..0 = {} /\ 0..(0 - 1) = {}
    OBVIOUS
  <2>2. DOMAIN r[0] = {} /\ Range(r[0]) = {} /\ IsInjective(r[0])
    BY <1>2 DEF Range, IsInjective
  <2>3. Met(0) = {}
    BY <2>1
  <2>4. IsPoolOf(r[0], {})
    BY <2>1, <2>2 DEF IsPoolOf
  <2>5. QED
    BY <2>3, <2>4
<1>4. ASSUME NEW k \in Nat, k \in T
      PROVE  k + 1 \in T
  <2>1. CASE k + 1 > n
    BY <2>1
  <2>2. CASE k + 1 <= n
    <3> DEFINE j == k + 1
    <3>1. j \in 1..n /\ j - 1 = k /\ ~(k > n)
      BY ONLY <1>1, <2>2, k \in Nat
    <3>2. IsPoolOf(r[k], Met(k))
      BY <1>4, <3>1
    <3>3. Met(j) = Met(k) \cup {seq[j]}
      <4>1. 1..j = (1..k) \cup {j}
        BY ONLY k \in Nat
      <4> HIDE DEF j
      <4>2. QED
        BY ONLY <4>1
    <3> HIDE DEF j, Met
    <3>4. r[j] = AddBinary(r[k], seq[j])
      BY ONLY <1>2, <3>1
    <3>5. IsPoolOf(r[j], Met(j))
      BY ONLY <3>2, <3>3, <3>4, BinaryAdded
    <3>6. QED
      BY ONLY <3>5, k \in Nat DEF j
  <2>3. QED
    BY <1>1, <2>1, <2>2
<1> HIDE DEF Met
<1>5. n \in T
  <2> HIDE DEF T
  <2>1. QED
    BY <1>1, <1>3, <1>4, Adding!NatSetInduction
<1>6. IsPoolOf(r[n], Met(n))
  BY ONLY <1>1, <1>5
<1>7. Met(n) = ToSet(seq)
  BY <1>1 DEF Met, ToSet
<1>8. QED
  BY ONLY <1>2, <1>6, <1>7

(* The data of a version.                                                         *)
LEMMA DataOfVersion ==
    ASSUME NEW v \in Versions(Attachments)
    PROVE  /\ v.atts \in Seq(Attachments)
           /\ DataOf(v) \in Seq(Data)
           /\ \A i \in DOMAIN v.atts : v.atts[i].data \in ToSet(DataOf(v))
           /\ \A d \in ToSet(DataOf(v)) : \E i \in DOMAIN v.atts : v.atts[i].data = d
<1>1. v.atts \in Seq(Attachments)
  BY VersionFields
<1> DEFINE s == v.atts
<1>2. \A i \in 1..Len(s) : s[i].data \in Data
  <2>1. \A i \in 1..Len(s) : s[i] \in Attachments
    BY <1>1
  <2>2. QED
    BY <2>1 DEF Attachments
<1>3. DataOf(v) = [i \in 1..Len(s) |-> s[i].data] /\ DOMAIN s = 1..Len(s) /\ Len(s) \in Nat
  BY <1>1 DEF DataOf
<1>4. DataOf(v) \in Seq(Data)
  BY <1>2, <1>3
<1>5. QED
  BY <1>1, <1>3, <1>4 DEF ToSet

(* updateBinaries() meets the data of every version of every entry, and no other. *)
LEMMA VisitsAll ==
    ASSUME NEW ord, NEW ents, NEW hists, MemoryOK(ord, ents, hists)
    PROVE  /\ Visited(ord, ents, hists) \in Seq(Data)
           /\ \A d : d \in ToSet(Visited(ord, ents, hists)) <=>
                 \E e \in ToSet(ord) :
                    \/ d \in ToSet(DataOf(ents[e]))
                    \/ \E j \in DOMAIN hists[e] : d \in ToSet(DataOf(hists[e][j]))
<1> DEFINE past(e) == [j \in DOMAIN hists[e] |-> DataOf(hists[e][j])]
           ofEntry(e) == FlattenSeq(past(e)) \o DataOf(ents[e])
           all == [i \in DOMAIN ord |-> ofEntry(ord[i])]
<1>1. /\ ord \in Seq(Entries)
      /\ \A e \in ToSet(ord) : /\ ents[e] \in Versions(Attachments)
                               /\ hists[e] \in Seq(Versions(Attachments))
  BY DEF MemoryOK
<1>2. Visited(ord, ents, hists) = FlattenSeq(all)
  BY DEF Visited
<1>3. ASSUME NEW e \in ToSet(ord)
      PROVE  /\ ofEntry(e) \in Seq(Data)
             /\ \A d : d \in ToSet(ofEntry(e)) <=>
                    \/ d \in ToSet(DataOf(ents[e]))
                    \/ \E j \in DOMAIN hists[e] : d \in ToSet(DataOf(hists[e][j]))
  <2> DEFINE h == hists[e]
  <2>1. h \in Seq(Versions(Attachments)) /\ DOMAIN h = 1..Len(h) /\ Len(h) \in Nat
    BY <1>1
  <2>2. \A j \in 1..Len(h) : DataOf(h[j]) \in Seq(Data)
    <3>1. \A j \in 1..Len(h) : h[j] \in Versions(Attachments)
      BY <2>1
    <3>2. QED
      BY <3>1, DataOfVersion
  <2>3. past(e) \in Seq(Seq(Data)) /\ DOMAIN past(e) = DOMAIN h
    <3>1. past(e) = [j \in 1..Len(h) |-> DataOf(h[j])]
      BY <2>1
    <3> HIDE DEF h
    <3>2. [j \in 1..Len(h) |-> DataOf(h[j])] \in Seq(Seq(Data))
      BY ONLY <2>1, <2>2
    <3>3. QED
      BY <2>1, <3>1, <3>2
  <2>4. \A j \in DOMAIN h : past(e)[j] = DataOf(h[j])
    OBVIOUS
  <2> DEFINE flat == FlattenSeq(past(e))
             own == DataOf(ents[e])
  <2> HIDE DEF past
  <2>5. /\ flat \in Seq(Data)
        /\ \A d : d \in ToSet(flat) <=> \E j \in DOMAIN past(e) : d \in ToSet(past(e)[j])
    BY ONLY <2>3, FlattenMembers
  <2>6. own \in Seq(Data)
    BY <1>1, DataOfVersion
  <2>7. ofEntry(e) = flat \o own
    OBVIOUS
  <2> HIDE DEF flat, ofEntry
  <2>8. ofEntry(e) \in Seq(Data)
    BY ONLY <2>5, <2>6, <2>7, ConcatMembers
  <2>9. ToSet(ofEntry(e)) = ToSet(flat) \cup ToSet(own)
    BY ONLY <2>5, <2>6, <2>7, ConcatMembers
  <2>10. QED
    BY <2>3, <2>4, <2>5, <2>8, <2>9
<1>4. all \in Seq(Seq(Data)) /\ DOMAIN all = DOMAIN ord
  <2>1. DOMAIN ord = 1..Len(ord) /\ Len(ord) \in Nat /\ \A i \in 1..Len(ord) : ord[i] \in ToSet(ord)
    BY <1>1 DEF ToSet
  <2>2. \A i \in 1..Len(ord) : ofEntry(ord[i]) \in Seq(Data)
    BY <1>3, <2>1
  <2> HIDE DEF ofEntry
  <2>3. all = [i \in 1..Len(ord) |-> ofEntry(ord[i])]
    BY <2>1
  <2>4. [i \in 1..Len(ord) |-> ofEntry(ord[i])] \in Seq(Seq(Data))
    BY ONLY <2>1, <2>2
  <2>5. QED
    BY ONLY <2>1, <2>3, <2>4
<1>5. \A i \in DOMAIN ord : all[i] = ofEntry(ord[i])
  OBVIOUS
<1> HIDE DEF all, ofEntry
<1>6. /\ FlattenSeq(all) \in Seq(Data)
      /\ \A d : d \in ToSet(FlattenSeq(all)) <=> \E i \in DOMAIN all : d \in ToSet(all[i])
  BY ONLY <1>4, FlattenMembers
<1>7. \A d : d \in ToSet(FlattenSeq(all)) <=> \E e \in ToSet(ord) : d \in ToSet(ofEntry(e))
  <2>1. \A e : e \in ToSet(ord) <=> \E i \in DOMAIN ord : ord[i] = e
    BY DEF ToSet
  <2>2. QED
    BY ONLY <1>4, <1>5, <1>6, <2>1
<1>8. QED
  BY ONLY <1>2, <1>3, <1>6, <1>7

(* The pool that updateBinaries() makes of the memory.                            *)
LEMMA PoolOfMemory ==
    ASSUME NEW ord, NEW ents, NEW hists, MemoryOK(ord, ents, hists)
    PROVE  LET pool == Pool(ord, ents, hists) IN
           /\ PoolOK(pool) /\ IsInjective(pool)
           /\ \A d : d \in Range(pool) <=>
                 \E e \in ToSet(ord) :
                    \/ d \in ToSet(DataOf(ents[e]))
                    \/ \E j \in DOMAIN hists[e] : d \in ToSet(DataOf(hists[e][j]))
<1> DEFINE pool == Pool(ord, ents, hists)
           seq == Visited(ord, ents, hists)
<1>1. pool = Adding!Folded({}, <<>>, seq)
  BY DEF Pool, Adding!Folded, FoldLeft,
         MapThenFoldSet, Adding!MapThenFoldSet, Max, Adding!Max
<1>2. seq \in Seq(Data)
  BY VisitsAll
<1> HIDE DEF pool, seq
<1>3. IsPoolOf(pool, ToSet(seq))
  BY ONLY <1>1, <1>2, PoolOfSeq
<1>4. ToSet(seq) \subseteq Data
  BY ONLY <1>2, MembersOfSeq
<1>5. DOMAIN pool \subseteq Nat /\ Range(pool) = ToSet(seq) /\ IsInjective(pool)
  BY ONLY <1>3 DEF IsPoolOf
<1>6. PoolOK(pool)
  BY ONLY <1>4, <1>5 DEF PoolOK
<1>7. \A d : d \in ToSet(seq) <=>
                 \E e \in ToSet(ord) :
                    \/ d \in ToSet(DataOf(ents[e]))
                    \/ \E j \in DOMAIN hists[e] : d \in ToSet(DataOf(hists[e][j]))
  BY VisitsAll DEF seq
<1>8. QED
  BY ONLY <1>5, <1>6, <1>7 DEF pool

----------------------------------------------------------------------------------
(* Files                                                                          *)

(* The number that a version's data has in a pool that holds it.                  *)
LEMMA IdIsFound ==
    ASSUME NEW pool, NEW d, d \in Range(pool)
    PROVE  IdOf(pool, d) \in DOMAIN pool /\ pool[IdOf(pool, d)] = d
BY DEF IdOf, Range

(* Replacing the attachments of a version.                                        *)
LEMMA AttsReplaced ==
    ASSUME NEW A, NEW B, NEW v \in Versions(A), NEW atts \in Seq(B)
    PROVE  LET w == WithAtts(v, atts) IN
           /\ w \in Versions(B)
           /\ w.atts = atts /\ w.title = v.title /\ w.extra = v.extra
           /\ w.modified = v.modified
           /\ \A other : WithAtts(w, other) = WithAtts(v, other)
           /\ WithAtts(w, atts) = w
<1> DEFINE w == [title |-> v.title, extra |-> v.extra, atts |-> atts, modified |-> v.modified]
<1>1. /\ v.title \in Values /\ v.extra \in [Names -> Values \cup {None}]
      /\ v.modified \in Int
      /\ v = [title |-> v.title, extra |-> v.extra, atts |-> v.atts, modified |-> v.modified]
  BY VersionFields
<1>2. \A x : WithAtts(v, x) =
                [title |-> v.title, extra |-> v.extra, atts |-> x, modified |-> v.modified]
  BY <1>1 DEF WithAtts
<1>3. w \in Versions(B)
  BY <1>1 DEF Versions
<1>4. \A x : WithAtts(w, x) =
                [title |-> v.title, extra |-> v.extra, atts |-> x, modified |-> v.modified]
  BY DEF WithAtts
<1>5. /\ w.atts = atts /\ w.title = v.title /\ w.extra = v.extra
      /\ w.modified = v.modified
  OBVIOUS
<1>6. WithAtts(v, atts) = w
  BY <1>2
<1> HIDE DEF w
<1>7. \A x : WithAtts(w, x) = WithAtts(v, x)
  BY ONLY <1>2, <1>4
<1>8. QED
  BY <1>3, <1>5, <1>6, <1>7

(* Reading what a save has written of a version gives that version, its numbers   *)
(* included, and renumbering changes nothing but the numbers.                     *)
LEMMA RenumberedVersion ==
    ASSUME NEW pool, PoolOK(pool), NEW v \in Versions(Attachments),
           ToSet(DataOf(v)) \subseteq Range(pool)
    PROVE  LET w == Renumbered(pool, v) IN
           /\ w \in Versions(Attachments)
           /\ Contents(w) = Contents(v) /\ w.modified = v.modified
           /\ Refs(w) \in Versions(Int)
           /\ Resolved(pool, Refs(w)) = w
           /\ Range(Refs(w).atts) \subseteq DOMAIN pool
           /\ \A d \in ToSet(DataOf(v)) : IdOf(pool, d) \in Range(Refs(w).atts)
<1> DEFINE s == v.atts
           n == Len(s)
           atts == [i \in DOMAIN s |-> [data |-> s[i].data, id |-> IdOf(pool, s[i].data)]]
           w == Renumbered(pool, v)
           ids == [i \in DOMAIN atts |-> atts[i].id]
<1>1. s \in Seq(Attachments) /\ n \in Nat /\ DOMAIN s = 1..n
  BY DataOfVersion
<1>2. \A i \in 1..n : s[i] \in Attachments /\ s[i].data \in Range(pool)
  BY <1>1, DataOfVersion
<1>3. \A i \in 1..n : /\ IdOf(pool, s[i].data) \in DOMAIN pool
                      /\ IdOf(pool, s[i].data) \in Int
                      /\ pool[IdOf(pool, s[i].data)] = s[i].data
                      /\ s[i].data \in Data
  BY <1>2, IdIsFound DEF PoolOK
<1>4. w = WithAtts(v, atts)
  BY DEF Renumbered
<1> HIDE DEF s, n
<1>5. /\ DOMAIN atts = 1..n
      /\ \A i \in 1..n : /\ atts[i] \in Attachments
                         /\ atts[i].data = s[i].data
                         /\ atts[i].id = IdOf(pool, s[i].data)
                         /\ atts[i] = [data |-> atts[i].data, id |-> atts[i].id]
  BY <1>1, <1>3 DEF Attachments
<1>6. atts \in Seq(Attachments)
  <2>1. atts = [i \in 1..n |-> atts[i]]
    BY <1>5
  <2> HIDE DEF atts
  <2>2. QED
    BY ONLY <1>1, <1>5, <2>1
<1>7. /\ ids \in Seq(Int) /\ DOMAIN ids = 1..n
      /\ \A i \in 1..n : ids[i] = atts[i].id
  <2>1. ids = [i \in 1..n |-> atts[i].id]
    BY <1>5
  <2>2. \A i \in 1..n : atts[i].id \in Int
    BY ONLY <1>3, <1>5
  <2> HIDE DEF ids, atts
  <2>3. QED
    BY ONLY <1>1, <2>1, <2>2
<1> HIDE DEF w
<1>8. /\ w \in Versions(Attachments)
      /\ w.atts = atts /\ w.title = v.title /\ w.extra = v.extra
      /\ w.modified = v.modified
      /\ WithAtts(w, atts) = w
  BY ONLY <1>4, <1>6, v \in Versions(Attachments), AttsReplaced
<1>9. Contents(w) = Contents(v)
  <2>1. DataOf(w) = [i \in 1..n |-> s[i].data]
    BY ONLY <1>5, <1>8 DEF DataOf
  <2>2. DataOf(v) = [i \in 1..n |-> s[i].data]
    BY ONLY <1>1 DEF DataOf, s
  <2>3. QED
    BY ONLY <1>8, <2>1, <2>2 DEF Contents
<1>10. Refs(w) = WithAtts(w, ids)
  BY ONLY <1>8 DEF Refs, ids
<1> HIDE DEF ids, atts
<1>11. /\ Refs(w) \in Versions(Int) /\ Refs(w).atts = ids
       /\ \A other : WithAtts(Refs(w), other) = WithAtts(w, other)
  BY ONLY <1>7, <1>8, <1>10, AttsReplaced
<1>12. Resolved(pool, Refs(w)) = w
  <2>1. Resolved(pool, Refs(w)) =
           WithAtts(Refs(w), [i \in 1..n |-> [data |-> pool[ids[i]], id |-> ids[i]]])
    BY ONLY <1>7, <1>11 DEF Resolved
  <2>2. [i \in 1..n |-> [data |-> pool[ids[i]], id |-> ids[i]]] = atts
    <3>1. \A i \in 1..n : [data |-> pool[ids[i]], id |-> ids[i]] = atts[i]
      BY ONLY <1>3, <1>5, <1>7
    <3>2. atts = [i \in 1..n |-> atts[i]]
      BY ONLY <1>1, <1>5, <1>6
    <3>3. QED
      BY ONLY <3>1, <3>2
  <2>3. WithAtts(Refs(w), atts) = WithAtts(w, atts)
    BY ONLY <1>6, <1>11
  <2>4. QED
    BY ONLY <1>8, <2>1, <2>2, <2>3
<1>13. Range(Refs(w).atts) \subseteq DOMAIN pool
  BY ONLY <1>3, <1>5, <1>7, <1>11 DEF Range
<1>14. \A d \in ToSet(DataOf(v)) : IdOf(pool, d) \in Range(Refs(w).atts)
  <2>1. \A d \in ToSet(DataOf(v)) : \E i \in 1..n : s[i].data = d
    BY DataOfVersion, <1>1 DEF s
  <2>2. QED
    BY ONLY <1>5, <1>7, <1>11, <2>1 DEF Range
<1>15. QED
  BY ONLY <1>8, <1>9, <1>11, <1>12, <1>13, <1>14 DEF w

(* Reading any version whose attachments are found.                               *)
LEMMA ResolvedVersion ==
    ASSUME NEW pool, PoolOK(pool), NEW v \in Versions(Int),
           Range(v.atts) \subseteq DOMAIN pool
    PROVE  Resolved(pool, v) \in Versions(Attachments)
<1> DEFINE s == v.atts
           atts == [i \in DOMAIN s |-> [data |-> pool[s[i]], id |-> s[i]]]
<1>1. s \in Seq(Int) /\ DOMAIN s = 1..Len(s) /\ Len(s) \in Nat /\ \A i \in 1..Len(s) : s[i] \in Int
  BY VersionFields
<1>2. \A i \in 1..Len(s) : s[i] \in DOMAIN pool
  BY <1>1 DEF Range
<1>3. \A i \in 1..Len(s) : pool[s[i]] \in Data
  BY <1>2 DEF PoolOK, Range
<1>4. \A i \in 1..Len(s) : [data |-> pool[s[i]], id |-> s[i]] \in Attachments
  BY <1>1, <1>3 DEF Attachments
<1>5. Resolved(pool, v) = WithAtts(v, atts)
  BY DEF Resolved
<1>6. atts \in Seq(Attachments)
  <2> HIDE DEF s
  <2>1. atts = [i \in 1..Len(s) |-> [data |-> pool[s[i]], id |-> s[i]]]
    BY ONLY <1>1
  <2>2. QED
    BY ONLY <1>1, <1>4, <2>1
<1> HIDE DEF atts
<1>7. QED
  BY ONLY <1>5, <1>6, v \in Versions(Int), AttsReplaced

(* Mapping over a history.                                                        *)
LEMMA MappedHistory ==
    ASSUME NEW S, NEW n \in Nat, NEW f, f = [j \in 1..n |-> f[j]], \A j \in 1..n : f[j] \in S
    PROVE  f \in Seq(S) /\ Len(f) = n /\ DOMAIN f = 1..n
<1>1. DOMAIN f = 1..n
  OBVIOUS
<1>2. [j \in 1..n |-> f[j]] \in Seq(S) /\ Len([j \in 1..n |-> f[j]]) = n
  OBVIOUS
<1>3. QED
  BY ONLY <1>1, <1>2, f = [j \in 1..n |-> f[j]]

LEMMA ReversedSeq ==
    ASSUME NEW S, NEW s \in Seq(S)
    PROVE  Reverse(s) \in Seq(S) /\ Len(Reverse(s)) = Len(s)
<1>1. Len(s) \in Nat /\ \A i \in 1..Len(s) : s[(Len(s) - i) + 1] \in S
  <2>1. Len(s) \in Nat /\ \A i \in 1..Len(s) : (Len(s) - i) + 1 \in 1..Len(s)
    OBVIOUS
  <2>2. QED
    BY <2>1
<1>2. QED
  BY <1>1 DEF Reverse

(* readFromStream(): what the numbers in the file stand for.                      *)
LEMMA ReadIsTurned ==
    ASSUME NEW f, FileOK(f), Loads(f)
    PROVE  /\ \A e \in ToSet(f.order) : /\ f.entry[e] \in Versions(Int)
                                        /\ f.history[e] \in Seq(Versions(Int))
           /\ \A e \in ToSet(f.order) : Range(f.entry[e].atts) \subseteq DOMAIN f.binaries
           /\ \A e \in ToSet(f.order) : \A j \in DOMAIN f.history[e] :
                 Range(f.history[e][j].atts) \subseteq DOMAIN f.binaries
           /\ ReadEntries(f) = [e \in ToSet(f.order) |-> Resolved(f.binaries, f.entry[e])]
           /\ DOMAIN ReadHistory(f) = ToSet(f.order)
           /\ \A e \in ToSet(f.order) :
                 LET h == [j \in DOMAIN f.history[e] |->
                              Resolved(f.binaries, f.history[e][j])] IN
                 /\ h \in Seq(Versions(Attachments))
                 /\ ReadHistory(f)[e] = Reverse(h)
<1>1. /\ f.entry \in [ToSet(f.order) -> Versions(Int)]
      /\ f.history \in [ToSet(f.order) -> Seq(Versions(Int))]
      /\ PoolOK(f.binaries)
  BY DEF FileOK
<1>2. \A e \in ToSet(f.order) : /\ f.entry[e] \in Versions(Int)
                                /\ f.history[e] \in Seq(Versions(Int))
  BY ONLY <1>1
<1>3. /\ \A e \in ToSet(f.order) : f.entry[e] \in VersionsIn(f)
      /\ \A e \in ToSet(f.order) : \A j \in DOMAIN f.history[e] : f.history[e][j] \in VersionsIn(f)
  BY ONLY <1>1 DEF VersionsIn, Range
<1>4. \A v \in VersionsIn(f) : Range(v.atts) \subseteq DOMAIN f.binaries
  BY DEF Loads, RefsIn
<1>5. ReadEntries(f) = [e \in ToSet(f.order) |-> Resolved(f.binaries, f.entry[e])]
  BY <1>1 DEF ReadEntries, EachEntry
<1>6. ReadHistory(f) =
         [e \in DOMAIN f.history |->
             Reading!Folded({}, <<>>, [j \in DOMAIN f.history[e] |->
                                      Resolved(f.binaries, f.history[e][j])])]
  BY DEF ReadHistory, Reading!Folded, FoldLeft,
         MapThenFoldSet, Reading!MapThenFoldSet, Max, Reading!Max
<1>7. DOMAIN f.history = ToSet(f.order)
  BY <1>1
<1>8. ASSUME NEW e \in ToSet(f.order)
      PROVE  LET h == [j \in DOMAIN f.history[e] |->
                          Resolved(f.binaries, f.history[e][j])] IN
             /\ h \in Seq(Versions(Attachments))
             /\ ReadHistory(f)[e] = Reverse(h)
  <2> DEFINE old == f.history[e]
             h == [j \in DOMAIN old |-> Resolved(f.binaries, old[j])]
  <2>1. /\ DOMAIN old = 1..Len(old) /\ Len(old) \in Nat
        /\ \A j \in 1..Len(old) : /\ old[j] \in Versions(Int)
                                  /\ Range(old[j].atts) \subseteq DOMAIN f.binaries
    <3>1. old \in Seq(Versions(Int))
      BY <1>2
    <3>2. DOMAIN old = 1..Len(old) /\ Len(old) \in Nat /\ \A j \in 1..Len(old) : old[j] \in Versions(Int)
      BY <3>1
    <3>3. QED
      BY <1>3, <1>4, <3>2
  <2>2. ReadHistory(f)[e] = Reading!Folded({}, <<>>, h)
    BY <1>6, <1>7
  <2> HIDE DEF old
  <2>3. \A j \in 1..Len(old) : Resolved(f.binaries, old[j]) \in Versions(Attachments)
    BY <1>1, <2>1, ResolvedVersion
  <2>4. h = [j \in 1..Len(old) |-> h[j]] /\ \A j \in 1..Len(old) : h[j] \in Versions(Attachments)
    BY <2>1, <2>3
  <2> HIDE DEF h
  <2>5. h \in Seq(Versions(Attachments))
    BY ONLY <2>1, <2>4, MappedHistory
  <2>6. Reading!Folded({}, <<>>, h) = Reverse(h)
    BY ONLY <2>5, ReadUpsideDown
  <2>7. QED
    BY ONLY <2>2, <2>5, <2>6 DEF h, old
<1>9. QED
  BY <1>2, <1>3, <1>4, <1>5, <1>6, <1>7, <1>8

LEMMA FileIsRead ==
    ASSUME NEW f, FileOK(f), Loads(f)
    PROVE  MemoryOK(f.order, ReadEntries(f), ReadHistory(f))
<1>1. \A e \in ToSet(f.order) : Resolved(f.binaries, f.entry[e]) \in Versions(Attachments)
  BY ReadIsTurned, ResolvedVersion DEF FileOK
<1>2. ReadEntries(f) \in [ToSet(f.order) -> Versions(Attachments)]
  BY <1>1, ReadIsTurned
<1>3. \A e \in ToSet(f.order) : ReadHistory(f)[e] \in Seq(Versions(Attachments))
  <2> SUFFICES ASSUME NEW e \in ToSet(f.order)
               PROVE  ReadHistory(f)[e] \in Seq(Versions(Attachments))
    OBVIOUS
  <2> DEFINE h == [j \in DOMAIN f.history[e] |-> Resolved(f.binaries, f.history[e][j])]
  <2>1. h \in Seq(Versions(Attachments)) /\ ReadHistory(f)[e] = Reverse(h)
    BY ReadIsTurned
  <2> HIDE DEF h
  <2>2. QED
    BY ONLY <2>1, ReversedSeq
<1>4. ReadHistory(f) = [e \in ToSet(f.order) |-> ReadHistory(f)[e]]
  <2>1. DOMAIN ReadHistory(f) = ToSet(f.order)
    BY ReadIsTurned
  <2>2. ReadHistory(f) = [e \in DOMAIN ReadHistory(f) |-> ReadHistory(f)[e]]
    BY DEF ReadHistory
  <2>3. QED
    BY ONLY <2>1, <2>2
<1>5. ReadHistory(f) \in [ToSet(f.order) -> Seq(Versions(Attachments))]
  BY ONLY <1>3, <1>4
<1>6. QED
  BY <1>2, <1>5 DEF MemoryOK, FileOK

----------------------------------------------------------------------------------
(* Saves                                                                          *)

(* What a save makes of the memory: every version has the numbers of the new pool.*)
RenumberedAll(pool, ents, hists, ents2, hists2) ==
    /\ ents2 = [e \in DOMAIN ents |-> Renumbered(pool, ents[e])]
    /\ hists2 = [e \in DOMAIN hists |->
                    [i \in DOMAIN hists[e] |-> Renumbered(pool, hists[e][i])]]

(* Every version of every entry has its attachments in the pool, so that          *)
(* RenumberedVersion is about it.                                                 *)
LEMMA PoolHasAll ==
    ASSUME NEW ord, NEW ents, NEW hists, MemoryOK(ord, ents, hists),
           NEW pool, pool = Pool(ord, ents, hists)
    PROVE  /\ PoolOK(pool) /\ IsInjective(pool)
           /\ \A e \in ToSet(ord) : /\ ents[e] \in Versions(Attachments)
                                    /\ ToSet(DataOf(ents[e])) \subseteq Range(pool)
                                    /\ hists[e] \in Seq(Versions(Attachments))
           /\ \A e \in ToSet(ord) : \A j \in DOMAIN hists[e] :
                 /\ hists[e][j] \in Versions(Attachments)
                 /\ ToSet(DataOf(hists[e][j])) \subseteq Range(pool)
           /\ \A d \in Range(pool) : \E e \in ToSet(ord) :
                 \/ d \in ToSet(DataOf(ents[e]))
                 \/ \E j \in DOMAIN hists[e] : d \in ToSet(DataOf(hists[e][j]))
<1>1. /\ PoolOK(pool) /\ IsInjective(pool)
      /\ \A d : d \in Range(pool) <=>
            \E e \in ToSet(ord) :
               \/ d \in ToSet(DataOf(ents[e]))
               \/ \E j \in DOMAIN hists[e] : d \in ToSet(DataOf(hists[e][j]))
  BY PoolOfMemory
<1>2. \A e \in ToSet(ord) : /\ ents[e] \in Versions(Attachments)
                            /\ hists[e] \in Seq(Versions(Attachments))
  BY DEF MemoryOK
<1>3. \A e \in ToSet(ord) : \A j \in DOMAIN hists[e] : hists[e][j] \in Versions(Attachments)
  <2> SUFFICES ASSUME NEW e \in ToSet(ord), NEW j \in DOMAIN hists[e]
               PROVE  hists[e][j] \in Versions(Attachments)
    OBVIOUS
  <2> DEFINE h == hists[e]
  <2>1. h \in Seq(Versions(Attachments)) /\ j \in DOMAIN h
    BY <1>2
  <2> HIDE DEF h
  <2>2. h[j] \in Versions(Attachments)
    BY ONLY <2>1, MembersOfSeq
  <2>3. QED
    BY <2>2 DEF h
<1>4. QED
  BY ONLY <1>1, <1>2, <1>3

LEMMA RenumberedMemory ==
    ASSUME NEW ord, NEW ents, NEW hists, MemoryOK(ord, ents, hists),
           NEW pool, pool = Pool(ord, ents, hists),
           NEW ents2, NEW hists2, RenumberedAll(pool, ents, hists, ents2, hists2)
    PROVE  /\ MemoryOK(ord, ents2, hists2)
           /\ \A e \in ToSet(ord) :
                 /\ Contents(ents2[e]) = Contents(ents[e])
                 /\ ents2[e].modified = ents[e].modified
                 /\ DOMAIN hists2[e] = DOMAIN hists[e] /\ Len(hists2[e]) = Len(hists[e])
           /\ \A e \in ToSet(ord) : \A j \in DOMAIN hists[e] :
                 /\ Contents(hists2[e][j]) = Contents(hists[e][j])
                 /\ hists2[e][j].modified = hists[e][j].modified
<1>1. /\ DOMAIN ents = ToSet(ord) /\ DOMAIN hists = ToSet(ord)
      /\ ord \in Seq(Entries) /\ IsInjective(ord)
  BY DEF MemoryOK
<1>2. /\ ents2 = [e \in ToSet(ord) |-> Renumbered(pool, ents[e])]
      /\ hists2 = [e \in ToSet(ord) |->
                     [i \in DOMAIN hists[e] |-> Renumbered(pool, hists[e][i])]]
  BY <1>1 DEF RenumberedAll
<1>3. \A e \in ToSet(ord) :
         /\ ents2[e] = Renumbered(pool, ents[e])
         /\ ents2[e] \in Versions(Attachments)
         /\ Contents(ents2[e]) = Contents(ents[e])
         /\ ents2[e].modified = ents[e].modified
  <2> SUFFICES ASSUME NEW e \in ToSet(ord)
               PROVE  /\ ents2[e] = Renumbered(pool, ents[e])
                      /\ ents2[e] \in Versions(Attachments)
                      /\ Contents(ents2[e]) = Contents(ents[e])
                      /\ ents2[e].modified = ents[e].modified
    OBVIOUS
  <2> DEFINE v == ents[e]
  <2>1. /\ PoolOK(pool) /\ v \in Versions(Attachments)
        /\ ToSet(DataOf(v)) \subseteq Range(pool)
    BY PoolHasAll
  <2>2. ents2[e] = Renumbered(pool, v)
    BY <1>2
  <2> HIDE DEF v
  <2>3. /\ Renumbered(pool, v) \in Versions(Attachments)
        /\ Contents(Renumbered(pool, v)) = Contents(v)
        /\ Renumbered(pool, v).modified = v.modified
    BY ONLY <2>1, RenumberedVersion
  <2>4. QED
    BY ONLY <2>2, <2>3 DEF v
<1>4. \A e \in ToSet(ord) :
         /\ hists2[e] \in Seq(Versions(Attachments))
         /\ DOMAIN hists2[e] = DOMAIN hists[e] /\ Len(hists2[e]) = Len(hists[e])
         /\ \A j \in DOMAIN hists[e] :
               /\ Contents(hists2[e][j]) = Contents(hists[e][j])
               /\ hists2[e][j].modified = hists[e][j].modified
  <2> SUFFICES ASSUME NEW e \in ToSet(ord)
               PROVE  /\ hists2[e] \in Seq(Versions(Attachments))
                      /\ DOMAIN hists2[e] = DOMAIN hists[e]
                      /\ Len(hists2[e]) = Len(hists[e])
                      /\ \A j \in DOMAIN hists[e] :
                            /\ Contents(hists2[e][j]) = Contents(hists[e][j])
                            /\ hists2[e][j].modified = hists[e][j].modified
    OBVIOUS
  <2> DEFINE h == hists[e]
             h2 == [i \in DOMAIN h |-> Renumbered(pool, h[i])]
  <2>1. h \in Seq(Versions(Attachments)) /\ PoolOK(pool)
    BY PoolHasAll
  <2>2. \A j \in DOMAIN h : /\ h[j] \in Versions(Attachments)
                            /\ ToSet(DataOf(h[j])) \subseteq Range(pool)
    BY PoolHasAll
  <2>3. hists2[e] = h2
    BY <1>2
  <2> HIDE DEF h
  <2>4. DOMAIN h = 1..Len(h) /\ Len(h) \in Nat
    BY ONLY <2>1
  <2>5. \A j \in DOMAIN h : /\ h2[j] = Renumbered(pool, h[j])
                            /\ h2[j] \in Versions(Attachments)
                            /\ Contents(h2[j]) = Contents(h[j])
                            /\ h2[j].modified = h[j].modified
    <3> SUFFICES ASSUME NEW j \in DOMAIN h
                 PROVE  /\ h2[j] = Renumbered(pool, h[j])
                        /\ h2[j] \in Versions(Attachments)
                        /\ Contents(h2[j]) = Contents(h[j])
                        /\ h2[j].modified = h[j].modified
      OBVIOUS
    <3> DEFINE v == h[j]
    <3>1. v \in Versions(Attachments) /\ ToSet(DataOf(v)) \subseteq Range(pool)
      BY ONLY <2>2, j \in DOMAIN h
    <3>2. h2[j] = Renumbered(pool, v)
      OBVIOUS
    <3> HIDE DEF v, h2
    <3>3. /\ Renumbered(pool, v) \in Versions(Attachments)
          /\ Contents(Renumbered(pool, v)) = Contents(v)
          /\ Renumbered(pool, v).modified = v.modified
      BY ONLY <2>1, <3>1, RenumberedVersion
    <3>4. QED
      BY ONLY <3>2, <3>3 DEF v
  <2>6. h2 = [j \in 1..Len(h) |-> h2[j]] /\ \A j \in 1..Len(h) : h2[j] \in Versions(Attachments)
    BY <2>4, <2>5
  <2> HIDE DEF h2
  <2>7. h2 \in Seq(Versions(Attachments)) /\ Len(h2) = Len(h) /\ DOMAIN h2 = 1..Len(h)
    BY ONLY <2>4, <2>6, MappedHistory
  <2>8. QED
    BY ONLY <2>3, <2>4, <2>5, <2>7 DEF h
<1>5. ents2 \in [ToSet(ord) -> Versions(Attachments)]
  <2>1. ents2 = [e \in ToSet(ord) |-> ents2[e]]
    BY ONLY <1>2
  <2>2. QED
    BY ONLY <1>3, <2>1
<1>6. hists2 \in [ToSet(ord) -> Seq(Versions(Attachments))]
  <2>1. hists2 = [e \in ToSet(ord) |-> hists2[e]]
    BY ONLY <1>2
  <2>2. QED
    BY ONLY <1>4, <2>1
<1>7. MemoryOK(ord, ents2, hists2)
  BY ONLY <1>1, <1>5, <1>6 DEF MemoryOK
<1>8. QED
  BY ONLY <1>3, <1>4, <1>7

(* The version w in memory is v with the numbers of the pool, and what a save     *)
(* writes of it can be read again.                                                *)
IsSaved(pool, v, w) ==
    /\ Refs(w) \in Versions(Int)
    /\ Resolved(pool, Refs(w)) = w
    /\ Range(Refs(w).atts) \subseteq DOMAIN pool
    /\ \A d \in ToSet(DataOf(v)) : IdOf(pool, d) \in Range(Refs(w).atts)

LEMMA RenumberedIsSaved ==
    ASSUME NEW pool, PoolOK(pool), NEW v \in Versions(Attachments),
           ToSet(DataOf(v)) \subseteq Range(pool)
    PROVE  IsSaved(pool, v, Renumbered(pool, v))
BY RenumberedVersion DEF IsSaved

(* Every version in memory is saved.                                              *)
LEMMA EachIsSaved ==
    ASSUME NEW ord, NEW ents, NEW hists, MemoryOK(ord, ents, hists),
           NEW pool, pool = Pool(ord, ents, hists),
           NEW ents2, NEW hists2, RenumberedAll(pool, ents, hists, ents2, hists2)
    PROVE  /\ \A e \in ToSet(ord) : IsSaved(pool, ents[e], ents2[e])
           /\ \A e \in ToSet(ord) : \A j \in DOMAIN hists[e] :
                 IsSaved(pool, hists[e][j], hists2[e][j])
<1>1. DOMAIN ents = ToSet(ord) /\ DOMAIN hists = ToSet(ord)
  BY DEF MemoryOK
<1>2. /\ ents2 = [e \in ToSet(ord) |-> Renumbered(pool, ents[e])]
      /\ hists2 = [e \in ToSet(ord) |->
                     [i \in DOMAIN hists[e] |-> Renumbered(pool, hists[e][i])]]
  BY <1>1 DEF RenumberedAll
<1>3. \A e \in ToSet(ord) : IsSaved(pool, ents[e], ents2[e])
  <2> SUFFICES ASSUME NEW e \in ToSet(ord)
               PROVE  IsSaved(pool, ents[e], ents2[e])
    OBVIOUS
  <2> DEFINE v == ents[e]
  <2>1. /\ PoolOK(pool) /\ v \in Versions(Attachments)
        /\ ToSet(DataOf(v)) \subseteq Range(pool)
    BY PoolHasAll
  <2>2. ents2[e] = Renumbered(pool, v)
    BY ONLY <1>2, e \in ToSet(ord)
  <2> HIDE DEF v
  <2>3. IsSaved(pool, v, Renumbered(pool, v))
    BY ONLY <2>1, RenumberedIsSaved
  <2>4. QED
    BY ONLY <2>2, <2>3 DEF v
<1>4. \A e \in ToSet(ord) : \A j \in DOMAIN hists[e] :
         IsSaved(pool, hists[e][j], hists2[e][j])
  <2> SUFFICES ASSUME NEW e \in ToSet(ord), NEW j \in DOMAIN hists[e]
               PROVE  IsSaved(pool, hists[e][j], hists2[e][j])
    OBVIOUS
  <2> DEFINE v == hists[e][j]
  <2>1. /\ PoolOK(pool) /\ v \in Versions(Attachments)
        /\ ToSet(DataOf(v)) \subseteq Range(pool)
    BY PoolHasAll
  <2>2. hists2[e][j] = Renumbered(pool, v)
    BY ONLY <1>2, e \in ToSet(ord), j \in DOMAIN hists[e]
  <2> HIDE DEF v
  <2>3. IsSaved(pool, v, Renumbered(pool, v))
    BY ONLY <2>1, RenumberedIsSaved
  <2>4. QED
    BY ONLY <2>2, <2>3 DEF v
<1>5. QED
  BY ONLY <1>3, <1>4

(* Everything that is in memory goes into the file.                               *)
LEMMA EachIsWritten ==
    ASSUME NEW ord, NEW ents, NEW hists, MemoryOK(ord, ents, hists),
           NEW pool, pool = Pool(ord, ents, hists),
           NEW ents2, NEW hists2, RenumberedAll(pool, ents, hists, ents2, hists2),
           NEW f, f = Written(ord, ents2, hists2, pool)
    PROVE  /\ f.order = ord /\ f.binaries = pool
           /\ f.entry = [e \in ToSet(ord) |-> Refs(ents2[e])]
           /\ f.history = [e \in ToSet(ord) |-> [j \in DOMAIN hists[e] |-> Refs(hists2[e][j])]]
<1>1. DOMAIN ents = ToSet(ord) /\ DOMAIN hists = ToSet(ord)
  BY DEF MemoryOK
<1>2. /\ ents2 = [e \in ToSet(ord) |-> Renumbered(pool, ents[e])]
      /\ hists2 = [e \in ToSet(ord) |->
                     [i \in DOMAIN hists[e] |-> Renumbered(pool, hists[e][i])]]
  BY <1>1 DEF RenumberedAll
<1>3. /\ f.order = ord /\ f.binaries = pool
      /\ f.entry = EachEntry(ents2, Refs) /\ f.history = EachPast(hists2, Refs)
  BY DEF Written
<1>4. f.entry = [e \in ToSet(ord) |-> Refs(ents2[e])]
  BY ONLY <1>2, <1>3 DEF EachEntry
<1>5. f.history = [e \in ToSet(ord) |-> [j \in DOMAIN hists[e] |-> Refs(hists2[e][j])]]
  <2>1. /\ DOMAIN hists2 = ToSet(ord)
        /\ \A e \in ToSet(ord) : DOMAIN hists2[e] = DOMAIN hists[e]
    BY ONLY <1>2
  <2>2. f.history = [e \in DOMAIN hists2 |-> [j \in DOMAIN hists2[e] |-> Refs(hists2[e][j])]]
    BY ONLY <1>3 DEF EachPast
  <2>3. QED
    BY ONLY <2>1, <2>2
<1>6. QED
  BY ONLY <1>3, <1>4, <1>5

(* The file that a save writes: its references are found, and there is nothing    *)
(* else among its binaries.                                                       *)
LEMMA WrittenFile ==
    ASSUME NEW ord, NEW ents, NEW hists, MemoryOK(ord, ents, hists),
           NEW pool, pool = Pool(ord, ents, hists),
           NEW ents2, NEW hists2, RenumberedAll(pool, ents, hists, ents2, hists2),
           NEW f, f = Written(ord, ents2, hists2, pool)
    PROVE  FileOK(f) /\ Loads(f) /\ DOMAIN f.binaries = RefsIn(f)
<1>1. /\ f.order = ord /\ f.binaries = pool
      /\ f.entry = [e \in ToSet(ord) |-> Refs(ents2[e])]
      /\ f.history = [e \in ToSet(ord) |-> [j \in DOMAIN hists[e] |-> Refs(hists2[e][j])]]
  BY EachIsWritten
<1>2. /\ \A e \in ToSet(ord) : IsSaved(pool, ents[e], ents2[e])
      /\ \A e \in ToSet(ord) : \A j \in DOMAIN hists[e] :
            IsSaved(pool, hists[e][j], hists2[e][j])
  BY EachIsSaved
<1>3. /\ PoolOK(pool) /\ IsInjective(pool)
      /\ \A e \in ToSet(ord) : hists[e] \in Seq(Versions(Attachments))
      /\ \A d \in Range(pool) : \E e \in ToSet(ord) :
            \/ d \in ToSet(DataOf(ents[e]))
            \/ \E j \in DOMAIN hists[e] : d \in ToSet(DataOf(hists[e][j]))
  BY PoolHasAll
<1>4. f.entry \in [ToSet(ord) -> Versions(Int)]
  BY ONLY <1>1, <1>2 DEF IsSaved
<1>5. \A e \in ToSet(ord) : f.history[e] \in Seq(Versions(Int))
  <2> SUFFICES ASSUME NEW e \in ToSet(ord)
               PROVE  f.history[e] \in Seq(Versions(Int))
    OBVIOUS
  <2> DEFINE h == hists[e]
             g == [j \in DOMAIN h |-> Refs(hists2[e][j])]
  <2>1. f.history[e] = g
    BY <1>1
  <2>2. h \in Seq(Versions(Attachments)) /\ \A j \in DOMAIN h : Refs(hists2[e][j]) \in Versions(Int)
    BY ONLY <1>2, <1>3, e \in ToSet(ord) DEF IsSaved
  <2> HIDE DEF h
  <2>3. DOMAIN h = 1..Len(h) /\ Len(h) \in Nat
    BY ONLY <2>2
  <2>4. g = [j \in 1..Len(h) |-> g[j]] /\ \A j \in 1..Len(h) : g[j] \in Versions(Int)
    BY ONLY <2>2, <2>3
  <2> HIDE DEF g
  <2>5. g \in Seq(Versions(Int))
    BY ONLY <2>3, <2>4, MappedHistory
  <2>6. QED
    BY ONLY <2>1, <2>5
<1>6. f.history \in [ToSet(ord) -> Seq(Versions(Int))]
  <2>1. f.history = [e \in ToSet(ord) |-> f.history[e]]
    BY ONLY <1>1
  <2>2. QED
    BY ONLY <1>5, <2>1
<1>7. FileOK(f)
  BY <1>1, <1>3, <1>4, <1>6 DEF FileOK, MemoryOK
<1>8. \A v : v \in VersionsIn(f) <=>
         \E e \in ToSet(ord) : \/ v = Refs(ents2[e])
                               \/ \E j \in DOMAIN hists[e] : v = Refs(hists2[e][j])
  <2>1. \A v : v \in Range(f.entry) <=> \E e \in ToSet(ord) : v = Refs(ents2[e])
    BY ONLY <1>1 DEF Range
  <2>2. \A h : h \in Range(f.history) <=>
           \E e \in ToSet(ord) : h = [j \in DOMAIN hists[e] |-> Refs(hists2[e][j])]
    BY ONLY <1>1 DEF Range
  <2>3. \A e \in ToSet(ord) : \A v :
           v \in Range([j \in DOMAIN hists[e] |-> Refs(hists2[e][j])])
              <=> \E j \in DOMAIN hists[e] : v = Refs(hists2[e][j])
    BY DEF Range
  <2>4. \A v : v \in UNION {Range(h) : h \in Range(f.history)} <=>
           \E e \in ToSet(ord) : \E j \in DOMAIN hists[e] : v = Refs(hists2[e][j])
    <3> DEFINE g(e) == [j \in DOMAIN hists[e] |-> Refs(hists2[e][j])]
    <3>1. \A h : h \in Range(f.history) <=> \E e \in ToSet(ord) : h = g(e)
      BY ONLY <2>2
    <3>2. \A e \in ToSet(ord) : \A v :
             v \in Range(g(e)) <=> \E j \in DOMAIN hists[e] : v = Refs(hists2[e][j])
      BY ONLY <2>3
    <3> HIDE DEF g
    <3>3. \A v : v \in UNION {Range(h) : h \in Range(f.history)} <=>
             \E e \in ToSet(ord) : v \in Range(g(e))
      BY ONLY <3>1
    <3>4. QED
      BY ONLY <3>2, <3>3
  <2>5. QED
    BY ONLY <2>1, <2>4 DEF VersionsIn
<1>9. RefsIn(f) \subseteq DOMAIN pool
  BY ONLY <1>2, <1>8 DEF RefsIn, IsSaved
<1>10. ASSUME NEW id \in DOMAIN pool
       PROVE  id \in RefsIn(f)
  <2> DEFINE d == pool[id]
  <2>1. d \in Range(pool)
    BY DEF Range
  <2>2. IdOf(pool, d) = id
    <3>1. IdOf(pool, d) \in DOMAIN pool /\ pool[IdOf(pool, d)] = d
      BY <2>1, IdIsFound
    <3>2. QED
      BY ONLY <1>3, <3>1, id \in DOMAIN pool DEF IsInjective
  <2> HIDE DEF d
  <2>3. PICK e \in ToSet(ord) : \/ d \in ToSet(DataOf(ents[e]))
                                \/ \E j \in DOMAIN hists[e] : d \in ToSet(DataOf(hists[e][j]))
    BY ONLY <1>3, <2>1
  <2>4. \E v \in VersionsIn(f) : id \in Range(v.atts)
    BY ONLY <1>2, <1>8, <2>2, <2>3 DEF IsSaved
  <2>5. QED
    BY ONLY <2>4 DEF RefsIn
<1>11. QED
  BY ONLY <1>1, <1>7, <1>9, <1>10 DEF Loads

(* Reading it gives the memory, with every history upside down.                   *)
LEMMA WrittenIsRead ==
    ASSUME NEW ord, NEW ents, NEW hists, MemoryOK(ord, ents, hists),
           NEW pool, pool = Pool(ord, ents, hists),
           NEW ents2, NEW hists2, RenumberedAll(pool, ents, hists, ents2, hists2),
           NEW f, f = Written(ord, ents2, hists2, pool)
    PROVE  /\ ReadEntries(f) = ents2
           /\ \A e \in ToSet(ord) : ReadHistory(f)[e] = Reverse(hists2[e])
<1>1. /\ f.order = ord /\ f.binaries = pool
      /\ f.entry = [e \in ToSet(ord) |-> Refs(ents2[e])]
      /\ f.history = [e \in ToSet(ord) |-> [j \in DOMAIN hists[e] |-> Refs(hists2[e][j])]]
  BY EachIsWritten
<1>2. /\ \A e \in ToSet(ord) : IsSaved(pool, ents[e], ents2[e])
      /\ \A e \in ToSet(ord) : \A j \in DOMAIN hists[e] :
            IsSaved(pool, hists[e][j], hists2[e][j])
  BY EachIsSaved
<1>3. FileOK(f) /\ Loads(f)
  BY WrittenFile
<1>4. /\ ents2 \in [ToSet(ord) -> Versions(Attachments)]
      /\ hists2 \in [ToSet(ord) -> Seq(Versions(Attachments))]
      /\ \A e \in ToSet(ord) : DOMAIN hists2[e] = DOMAIN hists[e]
  BY RenumberedMemory DEF MemoryOK
<1>5. ReadEntries(f) = ents2
  <2>1. ReadEntries(f) = [e \in ToSet(ord) |-> Resolved(pool, f.entry[e])]
    BY <1>1, <1>3, ReadIsTurned
  <2>2. \A e \in ToSet(ord) : Resolved(pool, f.entry[e]) = ents2[e]
    BY ONLY <1>1, <1>2 DEF IsSaved
  <2>3. QED
    BY ONLY <1>4, <2>1, <2>2
<1>6. ASSUME NEW e \in ToSet(ord)
      PROVE  ReadHistory(f)[e] = Reverse(hists2[e])
  <2> DEFINE h == [j \in DOMAIN f.history[e] |-> Resolved(f.binaries, f.history[e][j])]
             g == hists2[e]
  <2>1. e \in ToSet(f.order)
    BY <1>1
  <2>2. ReadHistory(f)[e] = Reverse(h)
    BY <1>3, <2>1, ReadIsTurned
  <2>3. /\ DOMAIN f.history[e] = DOMAIN g
        /\ \A j \in DOMAIN g : Resolved(f.binaries, f.history[e][j]) = g[j]
    BY <1>1, <1>2, <1>4 DEF IsSaved
  <2>4. g \in Seq(Versions(Attachments))
    BY <1>4
  <2>5. h = [j \in DOMAIN g |-> g[j]]
    BY <2>3
  <2> HIDE DEF h, g
  <2>6. h = g
    BY ONLY <2>4, <2>5
  <2>7. QED
    BY ONLY <2>2, <2>6 DEF g
<1>7. QED
  BY <1>5, <1>6

(* The same versions but for the numbers of their attachments.                    *)
SameVersions(ord, ents, hists, ents2, hists2) ==
    \A e \in ToSet(ord) :
       /\ Contents(ents2[e]) = Contents(ents[e]) /\ ents2[e].modified = ents[e].modified
       /\ DOMAIN hists2[e] = DOMAIN hists[e]
       /\ \A j \in DOMAIN hists[e] :
             /\ Contents(hists2[e][j]) = Contents(hists[e][j])
             /\ hists2[e][j].modified = hists[e][j].modified

(* All that holds of the memory and the file at any time.                         *)
StateOK ==
    /\ MemoryOK(order, entry, history)
    /\ PoolOK(binaries)
    /\ FileOK(file) /\ Loads(file)

(* A save, through or not, of memory as it should be.                             *)
LEMMA SavedMemory ==
    ASSUME NEW ord, NEW ents, NEW hists, MemoryOK(ord, ents, hists), StateOK,
           Saving(ord, ents, hists)
    PROVE  /\ StateOK'
           /\ order' = ord /\ SameVersions(ord, ents, hists, entry', history')
           /\ file' # file =>
                /\ file'.order = order'
                /\ ReadEntries(file') = entry'
                /\ \A e \in ToSet(order') : ReadHistory(file')[e] = Reverse(history'[e])
                /\ DOMAIN file'.binaries = RefsIn(file')
<1>1. order' = ord
  BY DEF Saving
<1>2. CASE entry' = ents /\ history' = hists /\ UNCHANGED <<binaries, file>>
  <2>1. StateOK'
    BY <1>1, <1>2 DEF StateOK
  <2>2. SameVersions(ord, ents, hists, entry', history')
    BY <1>2 DEF SameVersions
  <2>3. QED
    BY <1>1, <1>2, <2>1, <2>2
<1>3. CASE /\ binaries' = Pool(ord, ents, hists)
           /\ entry'   = EachEntry(ents, LAMBDA v : Renumbered(binaries', v))
           /\ history' = EachPast(hists, LAMBDA v : Renumbered(binaries', v))
           /\ file' = Written(ord, entry', history', binaries') \/ UNCHANGED file
  <2>1. RenumberedAll(binaries', ents, hists, entry', history')
    BY <1>3 DEF RenumberedAll, EachEntry, EachPast
  <2>2. binaries' = Pool(ord, ents, hists)
    BY <1>3
  <2>3. PoolOK(binaries')
    BY ONLY <2>2, MemoryOK(ord, ents, hists), PoolHasAll
  <2>4. MemoryOK(ord, entry', history')
    BY ONLY <2>1, <2>2, MemoryOK(ord, ents, hists), RenumberedMemory
  <2>5. SameVersions(ord, ents, hists, entry', history')
    BY ONLY <2>1, <2>2, MemoryOK(ord, ents, hists), RenumberedMemory DEF SameVersions
  <2>6. CASE UNCHANGED file
    <3>1. StateOK'
      BY <1>1, <2>3, <2>4, <2>6 DEF StateOK
    <3>2. QED
      BY <1>1, <2>5, <2>6, <3>1
  <2>7. CASE file' = Written(ord, entry', history', binaries')
    <3>1. FileOK(file') /\ Loads(file') /\ DOMAIN file'.binaries = RefsIn(file')
      BY ONLY <2>1, <2>2, <2>7, MemoryOK(ord, ents, hists), WrittenFile
    <3>2. /\ ReadEntries(file') = entry'
          /\ \A e \in ToSet(ord) : ReadHistory(file')[e] = Reverse(history'[e])
      BY ONLY <2>1, <2>2, <2>7, MemoryOK(ord, ents, hists), WrittenIsRead
    <3>3. file'.order = ord
      BY <2>7 DEF Written
    <3>4. StateOK'
      BY <1>1, <2>3, <2>4, <3>1 DEF StateOK
    <3>5. QED
      BY ONLY <1>1, <2>5, <3>1, <3>2, <3>3, <3>4
  <2>8. QED
    BY <1>3, <2>6, <2>7
<1>4. QED
  BY <1>2, <1>3 DEF Saving

----------------------------------------------------------------------------------
(* Edits                                                                          *)

LoadableInv == StateOK /\ now \in 0..MaxTime

LEMMA RegisteredVersion ==
    ASSUME NEW A, NEW v \in Versions(A), NEW t \in Int
    PROVE  /\ Registered(v, t) \in Versions(A)
           /\ Contents(Registered(v, t)) = Contents(v)
           /\ Registered(v, t).modified = t
<1>1. /\ v.title \in Values /\ v.extra \in [Names -> Values \cup {None}]
      /\ v.atts \in Seq(A)
      /\ v = [title |-> v.title, extra |-> v.extra, atts |-> v.atts, modified |-> v.modified]
  BY VersionFields
<1>2. Registered(v, t) =
         [title |-> v.title, extra |-> v.extra, atts |-> v.atts, modified |-> t]
  BY <1>1 DEF Registered
<1>3. QED
  BY <1>1, <1>2 DEF Versions, Contents, DataOf

(* What the pages change of a version.                                            *)
LEMMA ChangedVersion ==
    ASSUME NEW A, NEW v \in Versions(A)
    PROVE  /\ \A x \in Values : [v EXCEPT !.title = x] \in Versions(A)
           /\ \A x \in [Names -> Values \cup {None}] : [v EXCEPT !.extra = x] \in Versions(A)
           /\ \A n \in Names : [v EXCEPT !.extra[n] = None] \in Versions(A)
<1>1. /\ v.title \in Values /\ v.extra \in [Names -> Values \cup {None}]
      /\ v.atts \in Seq(A) /\ v.modified \in Int
      /\ v = [title |-> v.title, extra |-> v.extra, atts |-> v.atts, modified |-> v.modified]
  BY VersionFields
<1>2. ASSUME NEW x \in Values
      PROVE  [v EXCEPT !.title = x] \in Versions(A)
  <2>1. [v EXCEPT !.title = x] =
           [title |-> x, extra |-> v.extra, atts |-> v.atts, modified |-> v.modified]
    BY <1>1
  <2>2. QED
    BY <1>1, <2>1 DEF Versions
<1>3. ASSUME NEW x \in [Names -> Values \cup {None}]
      PROVE  [v EXCEPT !.extra = x] \in Versions(A)
  <2>1. [v EXCEPT !.extra = x] =
           [title |-> v.title, extra |-> x, atts |-> v.atts, modified |-> v.modified]
    BY <1>1
  <2>2. QED
    BY <1>1, <2>1 DEF Versions
<1>4. ASSUME NEW n \in Names
      PROVE  [v EXCEPT !.extra[n] = None] \in Versions(A)
  <2>1. [v.extra EXCEPT ![n] = None] \in [Names -> Values \cup {None}]
    BY <1>1
  <2>2. [v EXCEPT !.extra[n] = None] = [v EXCEPT !.extra = [v.extra EXCEPT ![n] = None]]
    OBVIOUS
  <2>3. QED
    BY <1>3, <2>1, <2>2
<1>5. QED
  BY <1>2, <1>3, <1>4

(* Memory in which an entry has another version, and a backup in its history.     *)
LEMMA EditedMemory ==
    ASSUME NEW ord, NEW ents, NEW hists, MemoryOK(ord, ents, hists), NEW e \in ToSet(ord),
           NEW w \in Versions(Attachments), NEW b \in Versions(Attachments)
    PROVE  MemoryOK(ord, [ents EXCEPT ![e] = w], [hists EXCEPT ![e] = BackupState(@, b)])
<1>1. /\ ents \in [ToSet(ord) -> Versions(Attachments)]
      /\ hists \in [ToSet(ord) -> Seq(Versions(Attachments))]
  BY DEF MemoryOK
<1>2. BackupState(hists[e], b) \in Seq(Versions(Attachments))
  <2> DEFINE h == hists[e]
  <2>1. h \in Seq(Versions(Attachments))
    BY <1>1
  <2> HIDE DEF h
  <2>2. BackupState(h, b) \in Seq(Versions(Attachments))
    BY ONLY <2>1, b \in Versions(Attachments), BackupIsAdded
  <2>3. QED
    BY <2>2 DEF h
<1>3. [ents EXCEPT ![e] = w] \in [ToSet(ord) -> Versions(Attachments)]
  BY <1>1
<1>4. [hists EXCEPT ![e] = BackupState(@, b)] \in [ToSet(ord) -> Seq(Versions(Attachments))]
  BY <1>1, <1>2
<1>5. QED
  BY <1>3, <1>4 DEF MemoryOK

(* The edits of an existing entry.                                                *)
Edit(e) ==
    \/ \E v \in Values : EditEntry(e, v)
    \/ \E old \in Names \cup {None}, n \in Names, v \in Values : EditField(e, old, n, v)
    \/ \E n \in Names : RemoveField(e, n)
    \/ \E d \in Data : AttachFile(e, d)
    \/ \E i \in DOMAIN entry[e].atts : RemoveAttachmentAt(e, i)

(* Each of them saves the entry in another version of the present time, with a    *)
(* backup of what it contained, of this time or of its former one.                *)
IsEdit(e, w, b) ==
    /\ w \in Versions(Attachments) /\ b \in Versions(Attachments)
    /\ Contents(b) = Contents(entry[e])
    /\ w.modified = now' /\ b.modified \in {now', entry[e].modified}
    /\ Saving(order, [entry EXCEPT ![e] = w], [history EXCEPT ![e] = BackupState(@, b)])
    /\ now' \in 0..MaxTime /\ now' = now + 1

LEMMA RegisterThenBackupIsEdit ==
    ASSUME LoadableInv, NEW e \in ToSet(order), Tick,
           NEW changed \in Versions(Attachments), RegisterThenBackup(e, changed)
    PROVE  \E w, b : IsEdit(e, w, b)
<1>1. entry[e] \in Versions(Attachments)
  BY DEF LoadableInv, StateOK, MemoryOK
<1>2. now' \in 0..MaxTime /\ now' \in Int /\ now' = now + 1
  BY BoundsAssumption DEF LoadableInv, Tick
<1> DEFINE w == Registered(changed, now')
           b == Registered(entry[e], now')
<1>3. w \in Versions(Attachments) /\ w.modified = now'
  BY <1>2, RegisteredVersion
<1>4. b \in Versions(Attachments) /\ Contents(b) = Contents(entry[e]) /\ b.modified = now'
  BY <1>1, <1>2, RegisteredVersion
<1>5. Saving(order, [entry EXCEPT ![e] = w], [history EXCEPT ![e] = BackupState(@, b)])
  BY DEF RegisterThenBackup
<1> HIDE DEF w, b
<1>6. IsEdit(e, w, b)
  BY <1>2, <1>3, <1>4, <1>5 DEF IsEdit
<1>7. QED
  BY <1>6

LEMMA EditIsSaved ==
    ASSUME LoadableInv, NEW e \in ToSet(order), Edit(e)
    PROVE  \E w, b : IsEdit(e, w, b)
<1>1. entry[e] \in Versions(Attachments)
  BY DEF LoadableInv, StateOK, MemoryOK
<1>2. ASSUME NEW v \in Values, EditEntry(e, v)
      PROVE  \E w, b : IsEdit(e, w, b)
  <2>1. [entry[e] EXCEPT !.title = v] \in Versions(Attachments)
    BY <1>1, ChangedVersion
  <2>2. Tick /\ RegisterThenBackup(e, [entry[e] EXCEPT !.title = v])
    BY <1>2 DEF EditEntry
  <2>3. QED
    BY <2>1, <2>2, RegisterThenBackupIsEdit
<1>3. ASSUME NEW old \in Names \cup {None}, NEW n \in Names, NEW v \in Values,
             EditField(e, old, n, v)
      PROVE  \E w, b : IsEdit(e, w, b)
  <2> DEFINE extra == [m \in Names |-> IF m = n THEN v
                                       ELSE IF m = old THEN None ELSE entry[e].extra[m]]
             changed == [entry[e] EXCEPT !.extra = extra]
             w == Registered(changed, now')
             b == entry[e]
  <2>1. entry[e].extra \in [Names -> Values \cup {None}]
    BY <1>1, VersionFields
  <2>2. extra \in [Names -> Values \cup {None}]
    BY <2>1
  <2>3. Tick /\ Saving(order, [entry EXCEPT ![e] = w], [history EXCEPT ![e] = BackupState(@, b)])
    BY <1>3 DEF EditField
  <2> HIDE DEF extra
  <2>4. changed \in Versions(Attachments)
    BY <1>1, <2>2, ChangedVersion
  <2>5. now' \in 0..MaxTime /\ now' \in Int /\ now' = now + 1
    BY <2>3, BoundsAssumption DEF LoadableInv, Tick
  <2>6. w \in Versions(Attachments) /\ w.modified = now'
    BY <2>4, <2>5, RegisteredVersion
  <2>7. IsEdit(e, w, b)
    BY <1>1, <2>3, <2>5, <2>6 DEF IsEdit
  <2>8. QED
    BY <2>7
<1>4. ASSUME NEW n \in Names, RemoveField(e, n)
      PROVE  \E w, b : IsEdit(e, w, b)
  <2>1. [entry[e] EXCEPT !.extra[n] = None] \in Versions(Attachments)
    BY <1>1, ChangedVersion
  <2>2. Tick /\ RegisterThenBackup(e, [entry[e] EXCEPT !.extra[n] = None])
    BY <1>4 DEF RemoveField
  <2>3. QED
    BY <2>1, <2>2, RegisterThenBackupIsEdit
<1>5. ASSUME NEW d \in Data, AttachFile(e, d)
      PROVE  \E w, b : IsEdit(e, w, b)
  <2> DEFINE new == [data |-> d, id |-> -1]
             atts == Append(entry[e].atts, new)
  <2>1. new \in Attachments
    BY DEF Attachments
  <2>2. entry[e].atts \in Seq(Attachments)
    BY <1>1, VersionFields
  <2>3. atts \in Seq(Attachments)
    <3> HIDE DEF new
    <3>1. QED
      BY <2>1, <2>2
  <2>4. Tick /\ RegisterThenBackup(e, WithAtts(entry[e], atts))
    BY <1>5 DEF AttachFile
  <2> HIDE DEF atts
  <2>5. WithAtts(entry[e], atts) \in Versions(Attachments)
    BY <1>1, <2>3, AttsReplaced
  <2>6. QED
    BY <2>4, <2>5, RegisterThenBackupIsEdit
<1>6. ASSUME NEW i \in DOMAIN entry[e].atts, RemoveAttachmentAt(e, i)
      PROVE  \E w, b : IsEdit(e, w, b)
  <2> DEFINE atts == RemoveAt(entry[e].atts, i)
  <2>1. entry[e].atts \in Seq(Attachments)
    BY <1>1, VersionFields
  <2>2. atts \in Seq(Attachments)
    BY <2>1, RemovedAt
  <2>3. Tick /\ RegisterThenBackup(e, WithAtts(entry[e], atts))
    BY <1>6 DEF RemoveAttachmentAt
  <2> HIDE DEF atts
  <2>4. WithAtts(entry[e], atts) \in Versions(Attachments)
    BY <1>1, <2>2, AttsReplaced
  <2>5. QED
    BY <2>3, <2>4, RegisterThenBackupIsEdit
<1>7. QED
  BY <1>2, <1>3, <1>4, <1>5, <1>6 DEF Edit

----------------------------------------------------------------------------------
(* New and deleted entries                                                        *)

(* The entry at the end of the list.                                              *)
LEMMA AddedLast ==
    ASSUME NEW S, NEW s \in Seq(S), IsInjective(s), NEW x \in S, x \notin ToSet(s)
    PROVE  /\ Append(s, x) \in Seq(S)
           /\ IsInjective(Append(s, x))
           /\ ToSet(Append(s, x)) = ToSet(s) \cup {x}
BY Adding!AddedLast DEF ToSet, Adding!ToSet, IsInjective, Adding!IsInjective

(* Taking an entry out of the list, which holds it once.                          *)
LEMMA FirstRemoved ==
    ASSUME NEW S, NEW s \in Seq(S), IsInjective(s), NEW x \in ToSet(s)
    PROVE  /\ RemoveFirst(s, x) \in Seq(S)
           /\ IsInjective(RemoveFirst(s, x))
           /\ ToSet(RemoveFirst(s, x)) = ToSet(s) \ {x}
<1>1. DOMAIN s = 1..Len(s) /\ Len(s) \in Nat
  OBVIOUS
<1>2. PICK i \in 1..Len(s) : s[i] = x
  BY <1>1 DEF ToSet
<1>3. {j \in 1..Len(s) : s[j] = x} = {i}
  BY <1>1, <1>2 DEF IsInjective
<1>4. SelectInSeq(s, LAMBDA v : v = x) = i
  <2>1. Min({i}) = i
    BY <1>1, <1>2 DEF Min
  <2>2. QED
    BY <1>3, <2>1 DEF SelectInSeq
<1>5. RemoveFirst(s, x) = RemoveAt(s, i)
  BY <1>2, <1>4 DEF RemoveFirst
<1>6. /\ RemoveAt(s, i) \in Seq(S)
      /\ IsInjective(RemoveAt(s, i))
      /\ ToSet(RemoveAt(s, i)) = ToSet(s) \ {s[i]}
  BY <1>1, Adding!OneRemoved
     DEF RemoveAt, Adding!RemoveAt, ToSet, Adding!ToSet, IsInjective, Adding!IsInjective
<1>7. QED
  BY <1>2, <1>5, <1>6

LEMMA CreatedMemory ==
    ASSUME NEW ord, NEW ents, NEW hists, MemoryOK(ord, ents, hists),
           NEW e \in Entries, e \notin ToSet(ord), NEW w \in Versions(Attachments)
    PROVE  MemoryOK(Append(ord, e), With(ents, e, w), With(hists, e, <<>>))
<1>1. /\ ord \in Seq(Entries) /\ IsInjective(ord)
      /\ ents \in [ToSet(ord) -> Versions(Attachments)]
      /\ hists \in [ToSet(ord) -> Seq(Versions(Attachments))]
  BY DEF MemoryOK
<1>2. /\ Append(ord, e) \in Seq(Entries) /\ IsInjective(Append(ord, e))
      /\ ToSet(Append(ord, e)) = ToSet(ord) \cup {e}
  BY <1>1, AddedLast
<1>3. With(ents, e, w) \in [ToSet(ord) \cup {e} -> Versions(Attachments)]
  BY <1>1 DEF With
<1>4. With(hists, e, <<>>) \in [ToSet(ord) \cup {e} -> Seq(Versions(Attachments))]
  <2>1. <<>> \in Seq(Versions(Attachments))
    OBVIOUS
  <2>2. QED
    BY <1>1, <2>1 DEF With
<1>5. QED
  BY <1>2, <1>3, <1>4 DEF MemoryOK

LEMMA DeletedMemory ==
    ASSUME NEW ord, NEW ents, NEW hists, MemoryOK(ord, ents, hists), NEW e \in ToSet(ord)
    PROVE  MemoryOK(RemoveFirst(ord, e), Restrict(ents, DOMAIN ents \ {e}),
                    Restrict(hists, DOMAIN hists \ {e}))
<1>1. /\ ord \in Seq(Entries) /\ IsInjective(ord)
      /\ ents \in [ToSet(ord) -> Versions(Attachments)]
      /\ hists \in [ToSet(ord) -> Seq(Versions(Attachments))]
  BY DEF MemoryOK
<1>2. /\ RemoveFirst(ord, e) \in Seq(Entries) /\ IsInjective(RemoveFirst(ord, e))
      /\ ToSet(RemoveFirst(ord, e)) = ToSet(ord) \ {e}
  BY <1>1, FirstRemoved
<1>3. /\ Restrict(ents, DOMAIN ents \ {e}) \in [ToSet(ord) \ {e} -> Versions(Attachments)]
      /\ Restrict(hists, DOMAIN hists \ {e})
            \in [ToSet(ord) \ {e} -> Seq(Versions(Attachments))]
  BY <1>1 DEF Restrict
<1>4. QED
  BY <1>2, <1>3 DEF MemoryOK

(* The new entry, as the page makes it.                                           *)
LEMMA NewVersion ==
    ASSUME NEW v \in Values, NEW t \in Int
    PROVE  [title |-> v, extra |-> [n \in Names |-> None], atts |-> <<>>, modified |-> t]
              \in Versions(Attachments)
<1>1. <<>> \in Seq(Attachments) /\ [n \in Names |-> None] \in [Names -> Values \cup {None}]
  OBVIOUS
<1>2. QED
  BY <1>1 DEF Versions

----------------------------------------------------------------------------------
(* Every step                                                                     *)

(* A save of memory as it should be.                                              *)
IsSave(ord, ents, hists) ==
    MemoryOK(ord, ents, hists) /\ Saving(ord, ents, hists) /\ now' \in 0..MaxTime

LEMMA EditIsSave ==
    ASSUME LoadableInv, NEW e \in ToSet(order), Edit(e)
    PROVE  \E w, b : /\ IsEdit(e, w, b)
                     /\ IsSave(order, [entry EXCEPT ![e] = w],
                               [history EXCEPT ![e] = BackupState(@, b)])
<1>1. PICK w, b : IsEdit(e, w, b)
  BY EditIsSaved
<1>2. MemoryOK(order, entry, history)
  BY DEF LoadableInv, StateOK
<1>3. w \in Versions(Attachments) /\ b \in Versions(Attachments)
  BY <1>1 DEF IsEdit
<1>4. MemoryOK(order, [entry EXCEPT ![e] = w], [history EXCEPT ![e] = BackupState(@, b)])
  BY ONLY <1>2, <1>3, e \in ToSet(order), EditedMemory
<1>5. QED
  BY <1>1, <1>4 DEF IsSave, IsEdit

LEMMA NextIsSaveOrReopen ==
    ASSUME LoadableInv, Next
    PROVE  Reopen \/ \E ord, ents, hists : IsSave(ord, ents, hists)
<1>1. MemoryOK(order, entry, history) /\ now \in 0..MaxTime
  BY DEF LoadableInv, StateOK
<1>2. ASSUME NEW e \in Entries, NEW v \in Values, CreateEntry(e, v)
      PROVE  \E ord, ents, hists : IsSave(ord, ents, hists)
  <2> DEFINE w == [title |-> v, extra |-> [n \in Names |-> None], atts |-> <<>>,
                   modified |-> now']
  <2>1. /\ e \notin ToSet(order) /\ Tick
        /\ Saving(Append(order, e), With(entry, e, w), With(history, e, <<>>))
    BY <1>2 DEF CreateEntry
  <2>2. now' \in 0..MaxTime /\ now' \in Int
    BY <1>1, <2>1, BoundsAssumption DEF Tick
  <2>3. w \in Versions(Attachments)
    BY <2>2, NewVersion
  <2> HIDE DEF w
  <2>4. MemoryOK(Append(order, e), With(entry, e, w), With(history, e, <<>>))
    BY <1>1, <2>1, <2>3, CreatedMemory
  <2>5. IsSave(Append(order, e), With(entry, e, w), With(history, e, <<>>))
    BY <2>1, <2>2, <2>4 DEF IsSave
  <2>6. QED
    BY <2>5
<1>3. ASSUME NEW e \in ToSet(order), Edit(e)
      PROVE  \E ord, ents, hists : IsSave(ord, ents, hists)
  BY <1>3, EditIsSave
<1>4. ASSUME NEW e \in ToSet(order), DeleteEntry(e)
      PROVE  \E ord, ents, hists : IsSave(ord, ents, hists)
  <2>1. MemoryOK(RemoveFirst(order, e), Restrict(entry, DOMAIN entry \ {e}),
                 Restrict(history, DOMAIN history \ {e}))
    BY <1>1, DeletedMemory
  <2>2. IsSave(RemoveFirst(order, e), Restrict(entry, DOMAIN entry \ {e}),
               Restrict(history, DOMAIN history \ {e}))
    BY <1>1, <1>4, <2>1 DEF IsSave, DeleteEntry
  <2>3. QED
    BY <2>2
<1>5. ASSUME Save
      PROVE  \E ord, ents, hists : IsSave(ord, ents, hists)
  <2>1. IsSave(order, entry, history)
    BY <1>1, <1>5 DEF IsSave, Save
  <2>2. QED
    BY <2>1
<1>6. QED
  <2>1. \/ \E e \in Entries, v \in Values : CreateEntry(e, v)
        \/ \E e \in ToSet(order) : Edit(e) \/ DeleteEntry(e)
        \/ Save
        \/ Reopen
    BY Zenon DEF Next, Edit
  <2>2. QED
    BY <1>2, <1>3, <1>4, <1>5, <2>1

LEMMA ReopenedMemory ==
    ASSUME LoadableInv, Reopen
    PROVE  LoadableInv' /\ UNCHANGED <<file, now>>
<1>1. FileOK(file) /\ Loads(file)
  BY DEF LoadableInv, StateOK
<1>2. MemoryOK(file.order, ReadEntries(file), ReadHistory(file))
  BY <1>1, FileIsRead
<1>3. /\ order' = file.order /\ entry' = ReadEntries(file) /\ history' = ReadHistory(file)
      /\ binaries' = file.binaries /\ UNCHANGED <<file, now>>
  BY DEF Reopen
<1>4. PoolOK(file.binaries)
  BY <1>1 DEF FileOK
<1>5. QED
  BY <1>1, <1>2, <1>3, <1>4 DEF LoadableInv, StateOK

LEMMA FirstMemory == Init => LoadableInv
<1> SUFFICES ASSUME Init PROVE LoadableInv
  OBVIOUS
<1>1. FileOK(file) /\ Loads(file)
  BY OldFilesAssumption DEF Init
<1>2. MemoryOK(file.order, ReadEntries(file), ReadHistory(file))
  BY <1>1, FileIsRead
<1>3. PoolOK(file.binaries)
  BY <1>1 DEF FileOK
<1>4. now \in 0..MaxTime
  BY BoundsAssumption DEF Init
<1>5. QED
  BY <1>1, <1>2, <1>3, <1>4 DEF LoadableInv, StateOK, Init

(* Every step keeps the memory and the file as they should be, and a file that is *)
(* written is the memory, with no binary too many.                                *)
LEMMA EveryStep ==
    ASSUME LoadableInv, [Next]_vars
    PROVE  /\ LoadableInv'
           /\ file' # file =>
                /\ file'.order = order'
                /\ ReadEntries(file') = entry'
                /\ \A e \in ToSet(order') : ReadHistory(file')[e] = Reverse(history'[e])
                /\ DOMAIN file'.binaries = RefsIn(file')
<1>1. CASE Reopen
  BY <1>1, ReopenedMemory
<1>2. ASSUME NEW ord, NEW ents, NEW hists, IsSave(ord, ents, hists)
      PROVE  /\ LoadableInv'
             /\ file' # file =>
                  /\ file'.order = order'
                  /\ ReadEntries(file') = entry'
                  /\ \A e \in ToSet(order') : ReadHistory(file')[e] = Reverse(history'[e])
                  /\ DOMAIN file'.binaries = RefsIn(file')
  BY <1>2, SavedMemory DEF IsSave, LoadableInv
<1>3. CASE UNCHANGED vars
  BY <1>3 DEF vars, LoadableInv, StateOK
<1>4. QED
  BY <1>1, <1>2, <1>3, NextIsSaveOrReopen

----------------------------------------------------------------------------------
(* Theorems                                                                       *)

(* What is in memory and in the file is well formed at any time, and every        *)
(* reference of the file is found in it.                                          *)
THEOREM EntryInvariance == Spec => []LoadableInv
<1>1. Init => LoadableInv
  BY FirstMemory
<1>2. LoadableInv /\ [Next]_vars => LoadableInv'
  BY EveryStep
<1>3. QED
  BY <1>1, <1>2, PTL DEF Spec

(* No entry is in the list twice, every entry of it has a version and a history,  *)
(* and all of them are what the pages and the file format know.                   *)
THEOREM EntryTypeCorrect == Spec => []EntryTypeOK
<1>1. LoadableInv => EntryTypeOK
  BY DEF LoadableInv, StateOK, EntryTypeOK
<1>2. QED
  BY <1>1, EntryInvariance, PTL

(* Whatever is edited, deleted, saved or not saved, and read again, every         *)
(* attachment of every version in the file is found among its binaries            *)
(* (PwEntryV4::readAttachment(), PwMetaV4::updateBinaries()).                     *)
THEOREM ReferencesAlwaysResolve == Spec => []ReferencesResolve
<1>1. LoadableInv => ReferencesResolve
  BY DEF LoadableInv, StateOK, ReferencesResolve
<1>2. QED
  BY <1>1, EntryInvariance, PTL

(* A sequence upside down has the same items in it.                               *)
LEMMA ReversedItems ==
    ASSUME NEW S, NEW h \in Seq(S)
    PROVE  SameItems(Reverse(h), h)
<1> DEFINE n    == Len(h)
           f    == [i \in 1..n |-> n - i + 1]
<1>1. n \in Nat /\ DOMAIN h = 1..n
  OBVIOUS
<1>2. DOMAIN Reverse(h) = 1..n /\ \A i \in 1..n : Reverse(h)[i] = h[n - i + 1]
  BY <1>1 DEF Reverse
<1>3. f \in [1..n -> 1..n] /\ \A i \in 1..n : f[i] = n - i + 1
  BY ONLY <1>1
<1>4. \A i \in 1..n : f[f[i]] = i
  BY ONLY <1>1, <1>3
<1> HIDE DEF f
<1>5. f \in Bijection(1..n, 1..n)
  <2>1. \A i, j \in 1..n : f[i] = f[j] => i = j
    BY ONLY <1>3, <1>4
  <2>2. \A j \in 1..n : f[j] \in 1..n /\ f[f[j]] = j
    BY ONLY <1>3, <1>4
  <2>3. f \in Injection(1..n, 1..n)
    BY ONLY <1>3, <2>1 DEF Injection, IsInjective
  <2>4. f \in Surjection(1..n, 1..n)
    BY ONLY <1>3, <2>2 DEF Surjection
  <2> QED BY ONLY <2>3, <2>4 DEF Bijection
<1>6. \A i \in 1..n : Reverse(h)[f[i]] = h[i]
  <2> SUFFICES ASSUME NEW i \in 1..n PROVE Reverse(h)[f[i]] = h[i]
    OBVIOUS
  <2>1. f[i] \in 1..n
    BY ONLY <1>3
  <2>2. Reverse(h)[f[i]] = h[n - f[i] + 1]
    BY ONLY <1>2, <2>1
  <2>3. n - f[i] + 1 = i
    BY ONLY <1>1, <1>3
  <2> QED BY ONLY <2>2, <2>3
<1> QED BY <1>1, <1>2, <1>5, <1>6 DEF SameItems

(* What a save writes is, when it is read, what was in memory: the same entries,  *)
(* and of each history the same versions, in an order that is not claimed         *)
(* (PwEntryV4::readFromStream(), writeToStream(), readHistory()).                 *)
THEOREM SavesKeepEverything == Spec => SaveKeepsEverything
<1>1. LoadableInv /\ LoadableInv' /\ [Next]_vars =>
        [file' # file =>
            /\ file'.order = order'
            /\ ReadEntries(file') = entry'
            /\ \A e \in ToSet(order') :
                  SameItems(ReadHistory(file')[e], history'[e])]_vars
  <2> SUFFICES ASSUME LoadableInv, LoadableInv', [Next]_vars, file' # file
               PROVE  /\ file'.order = order'
                      /\ ReadEntries(file') = entry'
                      /\ \A e \in ToSet(order') :
                            SameItems(ReadHistory(file')[e], history'[e])
    OBVIOUS
  <2>1. /\ file'.order = order'
        /\ ReadEntries(file') = entry'
        /\ \A e \in ToSet(order') : ReadHistory(file')[e] = Reverse(history'[e])
    BY EveryStep
  <2>2. history' \in [ToSet(order') -> Seq(Versions(Attachments))]
    BY DEF LoadableInv, StateOK, MemoryOK
  <2>3. ASSUME NEW e \in ToSet(order')
        PROVE  SameItems(Reverse(history'[e]), history'[e])
    <3>1. history'[e] \in Seq(Versions(Attachments))
      BY <2>2
    <3> QED BY <3>1, ReversedItems
  <2> QED BY <2>1, <2>3
<1>2. QED
  BY <1>1, EntryInvariance, PTL DEF Spec, SaveKeepsEverything

(* A save leaves no binary in the file that no version refers to                  *)
(* (PwMetaV4::updateBinaries()).                                                  *)
THEOREM DeletedDataIsAlwaysGone == Spec => DeletedDataIsGone
<1>1. LoadableInv /\ [Next]_vars => [file' # file => DOMAIN file'.binaries = RefsIn(file')]_vars
  BY EveryStep
<1>2. QED
  BY <1>1, EntryInvariance, PTL DEF Spec, DeletedDataIsGone

(* What an edit takes out of the history is no newer than anything it leaves, and *)
(* the history is as long as it may be (PwEntryV4::backupState(),                 *)
(* maintainHistorySize(), removeOldestHistoryItem()).                             *)
LEMMA OldestGone ==
    ASSUME NEW h \in Seq(Versions(Attachments)), NEW b \in Versions(Attachments),
           NEW h2 \in Seq(Versions(Attachments)),
           DOMAIN h2 = DOMAIN BackupState(h, b),
           \A j \in DOMAIN BackupState(h, b) :
              /\ Contents(h2[j]) = Contents(BackupState(h, b)[j])
              /\ h2[j].modified = BackupState(h, b)[j].modified,
           NEW g \in ToSet(h),
           \A k \in ToSet(h2) : <<k.modified, Contents(k)>> # <<g.modified, Contents(g)>>
    PROVE  /\ \A k \in ToSet(h2) : g.modified <= k.modified
           /\ 0 <= HistoryMaxItems /\ Len(h2) >= HistoryMaxItems
<1> DEFINE h1 == WithHistoryEntry(h, b)
           kept == BackupState(h, b)
<1>1. h1 \in Seq(Versions(Attachments)) /\ g \in ToSet(h1) /\ kept \in Seq(Versions(Attachments))
  BY BackupIsAdded
<1>2. kept = Maintained(h1)
  BY DEF BackupState
<1> HIDE DEF h1
<1>3. g \notin ToSet(kept)
  <2> SUFFICES ASSUME g \in ToSet(kept) PROVE FALSE
    OBVIOUS
  <2>1. PICK j \in DOMAIN kept : kept[j] = g
    BY DEF ToSet
  <2>2. h2[j] \in ToSet(h2)
    BY <2>1 DEF ToSet
  <2>3. Contents(h2[j]) = Contents(g) /\ h2[j].modified = g.modified
    BY <2>1
  <2>4. QED
    BY <2>2, <2>3
<1>4. /\ 0 <= HistoryMaxItems /\ Len(kept) = HistoryMaxItems
      /\ \A y \in ToSet(kept) : g.modified <= y.modified
  BY <1>1, <1>2, <1>3, MaintainedHistory
<1>5. Len(h2) = Len(kept)
  <2> DEFINE m == Len(h2)
             n == Len(kept)
  <2> HIDE DEF kept
  <2>1. DOMAIN h2 = 1..m /\ DOMAIN kept = 1..n /\ m \in Nat /\ n \in Nat
    BY <1>1
  <2>2. 1..m = 1..n
    BY <2>1 DEF kept
  <2> HIDE DEF m, n
  <2>3. m \in 1..n \/ m = 0
    BY ONLY <2>1, <2>2
  <2>4. n \in 1..m \/ n = 0
    BY ONLY <2>1, <2>2
  <2>5. m = n
    BY ONLY <2>1, <2>3, <2>4
  <2>6. QED
    BY <2>5 DEF m, n
<1>6. ASSUME NEW k \in ToSet(h2)
      PROVE  g.modified <= k.modified
  <2>1. PICK j \in DOMAIN h2 : h2[j] = k
    BY DEF ToSet
  <2>2. kept[j] \in ToSet(kept) /\ k.modified = kept[j].modified
    BY <2>1 DEF ToSet
  <2>3. QED
    BY <1>4, <2>2
<1>7. QED
  BY <1>4, <1>5, <1>6, LimitAssumption

(* Whatever an edit changes the contents of, is the entry that is edited.         *)
LEMMA OnlyTheEditedChanges ==
    ASSUME LoadableInv, [Next]_vars, NEW e \in ToSet(order), e \in ToSet(order'), now' # now,
           Contents(entry'[e]) # Contents(entry[e])
    PROVE  Edit(e)
<1>1. MemoryOK(order, entry, history)
  BY DEF LoadableInv, StateOK
<1>2. ASSUME NEW n \in Entries, NEW v \in Values, CreateEntry(n, v)
      PROVE  FALSE
  <2> DEFINE w == [title |-> v, extra |-> [m \in Names |-> None], atts |-> <<>>,
                   modified |-> now']
  <2>1. /\ n \notin ToSet(order) /\ Tick
        /\ Saving(Append(order, n), With(entry, n, w), With(history, n, <<>>))
    BY <1>2 DEF CreateEntry
  <2>2. now' \in Int
    BY <2>1 DEF Tick, LoadableInv
  <2>3. w \in Versions(Attachments)
    BY <2>2, NewVersion
  <2> HIDE DEF w
  <2>4. MemoryOK(Append(order, n), With(entry, n, w), With(history, n, <<>>))
    BY <1>1, <2>1, <2>3, CreatedMemory
  <2>5. /\ order' = Append(order, n)
        /\ SameVersions(Append(order, n), With(entry, n, w), With(history, n, <<>>),
                        entry', history')
    BY <2>1, <2>4, SavedMemory DEF LoadableInv
  <2>6. Contents(entry'[e]) = Contents(With(entry, n, w)[e])
    BY <2>5 DEF SameVersions
  <2>7. With(entry, n, w)[e] = entry[e]
    BY <1>1, <2>1 DEF With, MemoryOK
  <2>8. QED
    BY <2>6, <2>7
<1>3. ASSUME NEW x \in ToSet(order), Edit(x), x # e
      PROVE  FALSE
  <2>1. PICK w, b : /\ IsEdit(x, w, b)
                    /\ IsSave(order, [entry EXCEPT ![x] = w],
                              [history EXCEPT ![x] = BackupState(@, b)])
    BY <1>3, EditIsSave
  <2>2. SameVersions(order, [entry EXCEPT ![x] = w],
                     [history EXCEPT ![x] = BackupState(@, b)], entry', history')
    BY <2>1, SavedMemory DEF IsSave, LoadableInv
  <2>3. Contents(entry'[e]) = Contents([entry EXCEPT ![x] = w][e])
    BY <2>2 DEF SameVersions
  <2>4. [entry EXCEPT ![x] = w][e] = entry[e]
    BY <1>1, <1>3 DEF MemoryOK
  <2>5. QED
    BY <2>3, <2>4
<1>4. ~Save /\ ~Reopen /\ \A x \in ToSet(order) : ~DeleteEntry(x)
  BY DEF Save, Reopen, DeleteEntry
<1>5. ~UNCHANGED vars
  BY DEF vars
<1>6. QED
  <2>1. \/ \E x \in Entries, v \in Values : CreateEntry(x, v)
        \/ \E x \in ToSet(order) : Edit(x) \/ DeleteEntry(x)
        \/ Save
        \/ Reopen
    BY <1>5, Zenon DEF Next, Edit
  <2>2. QED
    BY <1>2, <1>3, <1>4, <2>1

LEMMA EditTakesTheOldest ==
    ASSUME LoadableInv, [Next]_vars, NEW e, e \in EditedEntries, NEW g, g \in Gone(e)
    PROVE  /\ \A k \in ToSet(history'[e]) : g.modified <= k.modified
           /\ 0 <= HistoryMaxItems /\ Len(history'[e]) >= HistoryMaxItems
<1>1. /\ e \in ToSet(order) /\ e \in ToSet(order') /\ now' # now
      /\ Contents(entry'[e]) # Contents(entry[e])
  BY DEF EditedEntries
<1>2. Edit(e)
  BY <1>1, OnlyTheEditedChanges
<1>3. PICK w, b : /\ IsEdit(e, w, b)
                  /\ IsSave(order, [entry EXCEPT ![e] = w],
                            [history EXCEPT ![e] = BackupState(@, b)])
  BY <1>1, <1>2, EditIsSave
<1>4. /\ StateOK' /\ order' = order
      /\ SameVersions(order, [entry EXCEPT ![e] = w],
                      [history EXCEPT ![e] = BackupState(@, b)], entry', history')
  BY <1>3, SavedMemory DEF IsSave, LoadableInv
<1> DEFINE h == history[e]
           h2 == history'[e]
<1>5. h \in Seq(Versions(Attachments)) /\ h2 \in Seq(Versions(Attachments))
  BY <1>1, <1>4 DEF StateOK, LoadableInv, MemoryOK
<1>6. [history EXCEPT ![e] = BackupState(@, b)][e] = BackupState(h, b)
  BY <1>1 DEF StateOK, LoadableInv, MemoryOK
<1>7. /\ DOMAIN h2 = DOMAIN BackupState(h, b)
      /\ \A j \in DOMAIN BackupState(h, b) :
            /\ Contents(h2[j]) = Contents(BackupState(h, b)[j])
            /\ h2[j].modified = BackupState(h, b)[j].modified
  BY <1>1, <1>4, <1>6 DEF SameVersions
<1>8. /\ g \in ToSet(h)
      /\ \A k \in ToSet(h2) : <<k.modified, Contents(k)>> # <<g.modified, Contents(g)>>
  BY DEF Gone
<1>9. b \in Versions(Attachments)
  BY <1>3 DEF IsEdit
<1> HIDE DEF h, h2
<1>10. /\ \A k \in ToSet(h2) : g.modified <= k.modified
       /\ 0 <= HistoryMaxItems /\ Len(h2) >= HistoryMaxItems
  BY ONLY <1>5, <1>7, <1>8, <1>9, OldestGone
<1>11. QED
  BY <1>10 DEF h2

(* An edit takes a version out of the history only if the history is full, and    *)
(* never while an older one stays, in whatever order the file had them            *)
(* (PwEntryV4::maintainHistorySize()).                                            *)
THEOREM OldestAlwaysGoesFirst == Spec => OldestGoesFirst
<1>1. LoadableInv /\ [Next]_vars =>
        [\A e \in EditedEntries : \A g \in Gone(e) :
            /\ \A k \in ToSet(history'[e]) : g.modified <= k.modified
            /\ 0 <= HistoryMaxItems /\ Len(history'[e]) >= HistoryMaxItems]_vars
  BY EditTakesTheOldest
<1>2. QED
  BY <1>1, EntryInvariance, PTL DEF Spec, OldestGoesFirst

----------------------------------------------------------------------------------
(* Times                                                                          *)

LEMMA OlderRemoved ==
    ASSUME NEW A, NEW h \in Seq(Versions(A)), NEW v, OlderThan(h, v), NEW i \in DOMAIN h
    PROVE  OlderThan(RemoveAt(h, i), v)
<1> DEFINE r == RemoveAt(h, i)
           at(j) == IF j < i THEN j ELSE j + 1
<1>1. /\ DOMAIN r = 1..(Len(h) - 1) /\ DOMAIN h = 1..Len(h) /\ Len(h) \in Nat
      /\ \A j \in 1..(Len(h) - 1) : r[j] = h[at(j)]
  <2>1. /\ r \in Seq(Versions(A)) /\ Len(r) = Len(h) - 1
        /\ \A j \in 1..(Len(h) - 1) : r[j] = h[at(j)]
    BY RemovedAt
  <2> HIDE DEF r, at
  <2>2. DOMAIN r = 1..Len(r) /\ DOMAIN h = 1..Len(h) /\ Len(h) \in Nat
    BY ONLY <2>1, h \in Seq(Versions(A))
  <2>3. QED
    BY ONLY <2>1, <2>2
<1>2. /\ \A j \in DOMAIN r : at(j) \in DOMAIN h
      /\ \A j, k \in DOMAIN r : at(j) = at(k) => j = k
  BY <1>1
<1> HIDE DEF r, at
<1>3. QED
  BY <1>1, <1>2 DEF OlderThan, r

(* Maintaining the size of a history changes nothing about it, and the item at    *)
(* the top stays if it is no older than the others and at most one of these is as *)
(* new: with two items left there is always an older one to take.                 *)
IsTop(h, v) ==
    /\ 1 \in DOMAIN h /\ h[1] = v
    /\ \A i \in DOMAIN h : h[i].modified <= v.modified
    /\ \A i, j \in DOMAIN h \ {1} :
          h[i].modified = v.modified /\ h[j].modified = v.modified => i = j

LEMMA TopStays ==
    ASSUME NEW A, NEW h \in Seq(Versions(A)), NEW v, IsTop(h, v), Len(h) > 2
    PROVE  IsTop(RemoveOldest(h), v)
<1> DEFINE i == OldestIndex(h)
           r == RemoveAt(h, i)
           at(j) == IF j < i THEN j ELSE j + 1
<1>1. Len(h) \in Nat /\ DOMAIN h = 1..Len(h)
  OBVIOUS
<1>2. i \in DOMAIN h /\ \A j \in DOMAIN h : h[i].modified <= h[j].modified
  BY OldestIsThere, <1>1
<1>3. \A j \in DOMAIN h : h[j].modified \in Int
  <2>1. \A j \in DOMAIN h : h[j] \in Versions(A)
    BY <1>1
  <2>2. QED
    BY <2>1, VersionFields
<1> HIDE DEF i
<1>4. i # 1
  <2> SUFFICES ASSUME i = 1 PROVE FALSE
    OBVIOUS
  <2>1. 2 \in DOMAIN h \ {1} /\ 3 \in DOMAIN h \ {1}
    BY <1>1
  <2>2. h[2].modified = v.modified /\ h[3].modified = v.modified
    BY <1>2, <1>3, <2>1 DEF IsTop
  <2>3. 2 = 3
    BY ONLY <2>1, <2>2, IsTop(h, v) DEF IsTop
  <2>4. QED
    BY <2>3
<1>5. /\ DOMAIN r = 1..(Len(h) - 1)
      /\ \A j \in 1..(Len(h) - 1) : r[j] = h[at(j)]
  <2>1. /\ r \in Seq(Versions(A)) /\ Len(r) = Len(h) - 1
        /\ \A j \in 1..(Len(h) - 1) : r[j] = h[at(j)]
    BY <1>2, RemovedAt
  <2> HIDE DEF r, at
  <2>2. DOMAIN r = 1..Len(r)
    BY ONLY <2>1
  <2>3. QED
    BY ONLY <2>1, <2>2
<1>6. /\ \A j \in DOMAIN r : at(j) \in DOMAIN h
      /\ \A j \in DOMAIN r : j # 1 => at(j) # 1
      /\ \A j, k \in DOMAIN r : at(j) = at(k) => j = k
      /\ 1 \in DOMAIN r /\ at(1) = 1
  BY <1>1, <1>2, <1>4, <1>5
<1> HIDE DEF r, at
<1>7. IsTop(r, v)
  <2>1. \A j \in DOMAIN r : r[j] = h[at(j)]
    BY ONLY <1>5
  <2>2. 1 \in DOMAIN r /\ r[1] = v
    BY ONLY <1>6, <2>1, IsTop(h, v) DEF IsTop
  <2>3. \A j \in DOMAIN r : r[j].modified <= v.modified
    BY ONLY <1>6, <2>1, IsTop(h, v) DEF IsTop
  <2>4. ASSUME NEW j \in DOMAIN r \ {1}, NEW k \in DOMAIN r \ {1},
               r[j].modified = v.modified, r[k].modified = v.modified
        PROVE  j = k
    <3>1. at(j) \in DOMAIN h \ {1} /\ at(k) \in DOMAIN h \ {1}
      BY ONLY <1>6, <2>4
    <3>2. h[at(j)].modified = v.modified /\ h[at(k)].modified = v.modified
      BY ONLY <2>1, <2>4
    <3>3. at(j) = at(k)
      BY ONLY <3>1, <3>2, IsTop(h, v) DEF IsTop
    <3>4. QED
      BY ONLY <1>6, <2>4, <3>3
  <2>5. QED
    BY ONLY <2>2, <2>3, <2>4 DEF IsTop
<1>8. QED
  BY <1>7 DEF r, i, RemoveOldest

LEMMA MaintainedTimes ==
    ASSUME NEW A, NEW h \in Seq(Versions(A)), NEW v
    PROVE  /\ OlderThan(h, v) => OlderThan(Maintained(h), v)
           /\ IsTop(h, v) /\ HistoryMaxItems \notin 0..1 => IsTop(Maintained(h), v)
<1> DEFINE n == Len(h) - HistoryMaxItems
           turns == [i \in 1..n |-> i]
<1>1. CASE HistoryMaxItems < 0 \/ Len(h) <= HistoryMaxItems
  BY <1>1 DEF Maintained
<1>2. CASE ~(HistoryMaxItems < 0 \/ Len(h) <= HistoryMaxItems)
  <2>1. n \in Nat /\ n <= Len(h) /\ Len(h) \in Nat /\ 0 <= HistoryMaxItems
    BY <1>2, LimitAssumption
  <2>2. Maintained(h) = Removing!Folded({}, h, turns)
    BY <1>2 DEF Maintained, Removing!Folded, FoldLeft,
                MapThenFoldSet, Removing!MapThenFoldSet, Max, Removing!Max
  <2>3. DOMAIN turns = 1..n
    OBVIOUS
  <2>4. Len(h) - n = HistoryMaxItems
    BY LimitAssumption
  <2> HIDE DEF turns, n
  <2> DEFINE r == Removing!Steps({}, h, turns, n)
  <2>5. /\ r[0] = h
        /\ \A k \in 1..n : r[k] = RemoveOldest(r[k - 1])
        /\ r[n] = Removing!Folded({}, h, turns)
    BY <2>1, <2>3, Removing!FoldLeftSteps
  <2> HIDE DEF r
  <2> DEFINE Done(k) == /\ r[k] \in Seq(Versions(A)) /\ Len(r[k]) = Len(h) - k
                        /\ OlderThan(h, v) => OlderThan(r[k], v)
                        /\ IsTop(h, v) /\ HistoryMaxItems \notin 0..1 => IsTop(r[k], v)
             T == {k \in Nat : k > n \/ Done(k)}
  <2>6. 0 \in T
    BY <2>1, <2>5
  <2>7. ASSUME NEW k \in Nat, k \in T
        PROVE  k + 1 \in T
    <3>1. CASE k + 1 > n
      BY <3>1
    <3>2. CASE k + 1 <= n
      <4> DEFINE j == k + 1
                 g == r[k]
      <4>1. j \in 1..n /\ j - 1 = k /\ k < Len(h) /\ ~(k > n)
        BY ONLY <2>1, <3>2, k \in Nat
      <4>2. Done(k)
        BY <2>7, <4>1
      <4>3. g \in Seq(Versions(A)) /\ Len(g) = Len(h) - k /\ Len(g) # 0
        BY <2>1, <4>1, <4>2
      <4>4. r[j] = RemoveOldest(g)
        <5> HIDE DEF j
        <5>1. r[j] = RemoveOldest(r[j - 1])
          BY ONLY <2>5, <4>1
        <5>2. QED
          BY ONLY <4>1, <5>1 DEF g
      <4>5. (OlderThan(h, v) => OlderThan(g, v))
            /\ (IsTop(h, v) /\ HistoryMaxItems \notin 0..1 => IsTop(g, v))
        BY <4>2
      <4>6. HistoryMaxItems \notin 0..1 => Len(g) > 2
        BY <2>1, <2>4, <3>2, <4>3, LimitAssumption
      <4> HIDE DEF j, g, Done
      <4>7. OldestIndex(g) \in DOMAIN g
        BY ONLY <4>3, OldestIsThere
      <4>8. RemoveOldest(g) \in Seq(Versions(A)) /\ Len(RemoveOldest(g)) = Len(g) - 1
        BY ONLY <4>3, <4>7, RemovedAt DEF RemoveOldest
      <4>9. OlderThan(h, v) => OlderThan(RemoveOldest(g), v)
        BY ONLY <4>3, <4>5, <4>7, OlderRemoved DEF RemoveOldest
      <4>10. IsTop(h, v) /\ HistoryMaxItems \notin 0..1 => IsTop(RemoveOldest(g), v)
        BY ONLY <4>3, <4>5, <4>6, TopStays
      <4>11. Len(h) - (k + 1) = Len(g) - 1
        BY ONLY <2>1, <4>3, k \in Nat
      <4>12. Done(j)
        BY ONLY <4>4, <4>8, <4>9, <4>10, <4>11 DEF Done, j
      <4>13. QED
        BY <4>12 DEF j
    <3>3. QED
      BY <2>1, <3>1, <3>2
  <2>8. n \in T
    <3> HIDE DEF T
    <3>1. QED
      BY <2>1, <2>6, <2>7, Adding!NatSetInduction
  <2>9. Done(n)
    <3> HIDE DEF Done
    <3>1. QED
      BY ONLY <2>1, <2>8
  <2>10. QED
    BY ONLY <2>2, <2>5, <2>9
<1>3. QED
  BY <1>1, <1>2

(* A backup is put on top of older items, and it stays there.                     *)
LEMMA BackupTimes ==
    ASSUME NEW A, NEW h \in Seq(Versions(A)), NEW b \in Versions(A)
    PROVE  /\ OlderThan(h, b) /\ HistoryMaxItems \notin 0..1 => IsTop(BackupState(h, b), b)
           /\ \A t \in Int : \A w :
                 /\ w.modified = t /\ b.modified <= t
                 /\ \A i \in DOMAIN h : h[i].modified < t
                 => OlderThan(BackupState(h, b), w)
<1> DEFINE g == WithHistoryEntry(h, b)
<1>1. /\ g \in Seq(Versions(A)) /\ Len(g) = Len(h) + 1
      /\ DOMAIN h = 1..Len(h) /\ Len(h) \in Nat
  BY BackupIsAdded
<1>2. /\ 1 \in DOMAIN g /\ g[1] = b
      /\ \A i \in DOMAIN g : i # 1 => i - 1 \in DOMAIN h /\ g[i] = h[i - 1]
  <2>1. g = <<b>> \o h
    BY DEF WithHistoryEntry
  <2> DEFINE top == <<b>>
  <2>2. top \in Seq(Versions(A)) /\ Len(top) = 1 /\ top[1] = b
    OBVIOUS
  <2>3. g = top \o h
    BY <2>1
  <2>4. DOMAIN g = 1..(Len(h) + 1)
    <3> HIDE DEF g
    <3>1. QED
      BY ONLY <1>1
  <2> HIDE DEF top, g
  <2>5. /\ g[1] = b
        /\ \A i \in 1..Len(h) : g[1 + i] = h[i]
    BY ONLY <1>1, <2>2, <2>3, h \in Seq(Versions(A))
  <2>6. \A i \in DOMAIN g : i # 1 => i - 1 \in 1..Len(h) /\ 1 + (i - 1) = i
    BY ONLY <1>1, <2>4
  <2>7. QED
    BY ONLY <1>1, <2>4, <2>5, <2>6
<1>3. b.modified \in Int /\ \A i \in DOMAIN h : h[i].modified \in Int
  <2>1. \A i \in DOMAIN h : h[i] \in Versions(A)
    BY <1>1
  <2>2. QED
    BY <2>1, VersionFields
<1>4. DOMAIN g = 1..(Len(h) + 1)
  <2> HIDE DEF g
  <2>1. QED
    BY ONLY <1>1
<1> HIDE DEF g
<1>5. OlderThan(h, b) => IsTop(g, b)
  <2> SUFFICES ASSUME OlderThan(h, b) PROVE IsTop(g, b)
    OBVIOUS
  <2>1. \A i \in DOMAIN g : g[i].modified <= b.modified
    BY ONLY <1>2, <1>3, OlderThan(h, b) DEF OlderThan
  <2>2. ASSUME NEW i \in DOMAIN g \ {1}, NEW j \in DOMAIN g \ {1},
               g[i].modified = b.modified, g[j].modified = b.modified
        PROVE  i = j
    <3>1. i - 1 = j - 1
      BY ONLY <1>2, <2>2, OlderThan(h, b) DEF OlderThan
    <3>2. QED
      BY ONLY <1>1, <1>4, <3>1, i \in DOMAIN g, j \in DOMAIN g
  <2>3. QED
    BY ONLY <1>2, <2>1, <2>2 DEF IsTop
<1>6. ASSUME NEW t \in Int, NEW w, w.modified = t, b.modified <= t,
             \A i \in DOMAIN h : h[i].modified < t
      PROVE  OlderThan(g, w)
  <2>1. \A i \in DOMAIN g : g[i].modified <= t /\ (i # 1 => g[i].modified < t)
    BY ONLY <1>2, <1>3, <1>6
  <2>2. \A i \in DOMAIN g : i # 1 => g[i].modified # t
    BY ONLY <1>2, <1>3, <1>6
  <2>3. QED
    BY ONLY <1>6, <2>1, <2>2 DEF OlderThan
<1>7. BackupState(h, b) = Maintained(g)
  BY DEF BackupState, g
<1>8. QED
  BY <1>1, <1>5, <1>6, <1>7, MaintainedTimes

(* The order of the items does not matter.                                        *)
LEMMA OlderReversed ==
    ASSUME NEW A, NEW h \in Seq(Versions(A)), NEW v, OlderThan(h, v)
    PROVE  OlderThan(Reverse(h), v)
<1> DEFINE g == Reverse(h)
<1>1. Len(h) \in Nat /\ DOMAIN h = 1..Len(h)
  OBVIOUS
<1>2. DOMAIN g = 1..Len(h) /\ \A i \in 1..Len(h) : g[i] = h[(Len(h) - i) + 1]
  BY DEF Reverse
<1>3. \A i \in 1..Len(h) : (Len(h) - i) + 1 \in DOMAIN h
  BY <1>1
<1> HIDE DEF g
<1>4. \A i \in DOMAIN g : g[i].modified <= v.modified
  BY <1>2, <1>3 DEF OlderThan
<1>5. ASSUME NEW i \in DOMAIN g, NEW j \in DOMAIN g,
             g[i].modified = v.modified, g[j].modified = v.modified
      PROVE  i = j
  <2>1. (Len(h) - i) + 1 = (Len(h) - j) + 1
    BY <1>2, <1>3, <1>5 DEF OlderThan
  <2>2. QED
    BY ONLY <1>1, <1>2, <2>1, i \in DOMAIN g, j \in DOMAIN g
<1>6. QED
  BY <1>4, <1>5 DEF OlderThan, g

(* The same times.                                                                *)
LEMMA OlderCopied ==
    ASSUME NEW h, NEW v, OlderThan(h, v), NEW g, NEW w, w.modified = v.modified,
           DOMAIN g = DOMAIN h, \A j \in DOMAIN h : g[j].modified = h[j].modified
    PROVE  OlderThan(g, w)
BY DEF OlderThan

LEMMA TimesCopied ==
    ASSUME NEW ord, NEW ents, NEW hists, NEW t, TimesOK(ord, ents, hists, t),
           NEW ents2, NEW hists2,
           \A e \in ToSet(ord) : /\ ents2[e].modified = ents[e].modified
                                 /\ DOMAIN hists2[e] = DOMAIN hists[e]
                                 /\ \A j \in DOMAIN hists[e] :
                                       hists2[e][j].modified = hists[e][j].modified
    PROVE  TimesOK(ord, ents2, hists2, t)
<1> SUFFICES ASSUME NEW e \in ToSet(ord)
             PROVE  OlderThan(hists2[e], ents2[e]) /\ ents2[e].modified <= t
  BY DEF TimesOK
<1>1. OlderThan(hists[e], ents[e]) /\ ents[e].modified <= t
  BY DEF TimesOK
<1>2. QED
  BY <1>1, OlderCopied

(* What is written of a version has its time, and so has what is read of it.      *)
LEMMA FileTimes ==
    /\ \A v \in Versions(Attachments) : Refs(v).modified = v.modified
    /\ \A pool : \A v \in Versions(Int) : Resolved(pool, v).modified = v.modified
<1>1. ASSUME NEW A, NEW v \in Versions(A), NEW atts
      PROVE  WithAtts(v, atts).modified = v.modified
  <2>1. v = [title |-> v.title, extra |-> v.extra, atts |-> v.atts, modified |-> v.modified]
    BY VersionFields
  <2>2. WithAtts(v, atts) =
           [title |-> v.title, extra |-> v.extra, atts |-> atts, modified |-> v.modified]
    BY <2>1 DEF WithAtts
  <2>3. QED
    BY <2>2
<1>2. QED
  BY <1>1 DEF Refs, Resolved

LEMMA TimesLater ==
    ASSUME NEW A, NEW ord, NEW ents \in [ToSet(ord) -> Versions(A)], NEW hists,
           NEW t \in Int, NEW u \in Int, t <= u, TimesOK(ord, ents, hists, t)
    PROVE  TimesOK(ord, ents, hists, u)
<1> SUFFICES ASSUME NEW e \in ToSet(ord)
             PROVE  OlderThan(hists[e], ents[e]) /\ ents[e].modified <= u
  BY DEF TimesOK
<1>1. ents[e] \in Versions(A)
  OBVIOUS
<1>2. ents[e].modified \in Int
  BY <1>1, VersionFields
<1>3. QED
  BY <1>2 DEF TimesOK

LEMMA SavedTimes ==
    ASSUME NEW ord, NEW ents, NEW hists, MemoryOK(ord, ents, hists), StateOK,
           Saving(ord, ents, hists), TimesOK(ord, ents, hists, now'),
           TimesOK(file.order, file.entry, file.history, now')
    PROVE  TimesInv'
<1>1. order' = ord /\ SameVersions(ord, ents, hists, entry', history')
  BY SavedMemory
<1>2. TimesOK(ord, entry', history', now')
  <2>1. \A e \in ToSet(ord) :
           /\ entry'[e].modified = ents[e].modified
           /\ DOMAIN history'[e] = DOMAIN hists[e]
           /\ \A j \in DOMAIN hists[e] : history'[e][j].modified = hists[e][j].modified
    BY <1>1 DEF SameVersions
  <2>2. QED
    BY ONLY <2>1, TimesOK(ord, ents, hists, now'), TimesCopied
<1>3. CASE UNCHANGED file
  BY <1>1, <1>2, <1>3 DEF TimesInv
<1>4. CASE ~UNCHANGED file
  <2>1. /\ binaries' = Pool(ord, ents, hists)
        /\ entry'   = EachEntry(ents, LAMBDA v : Renumbered(binaries', v))
        /\ history' = EachPast(hists, LAMBDA v : Renumbered(binaries', v))
        /\ file' = Written(ord, entry', history', binaries')
    BY <1>4 DEF Saving
  <2>2. RenumberedAll(binaries', ents, hists, entry', history')
    BY <2>1 DEF RenumberedAll, EachEntry, EachPast
  <2>3. binaries' = Pool(ord, ents, hists) /\ file' = Written(ord, entry', history', binaries')
    BY <2>1
  <2>4. /\ file'.order = ord
        /\ file'.entry = [e \in ToSet(ord) |-> Refs(entry'[e])]
        /\ file'.history =
              [e \in ToSet(ord) |-> [j \in DOMAIN hists[e] |-> Refs(history'[e][j])]]
    BY ONLY <2>2, <2>3, MemoryOK(ord, ents, hists), EachIsWritten
  <2>5. /\ MemoryOK(ord, entry', history')
        /\ \A e \in ToSet(ord) : DOMAIN history'[e] = DOMAIN hists[e]
    BY ONLY <2>2, <2>3, MemoryOK(ord, ents, hists), RenumberedMemory
  <2>6. \A e \in ToSet(ord) :
           /\ file'.entry[e].modified = entry'[e].modified
           /\ DOMAIN file'.history[e] = DOMAIN history'[e]
           /\ \A j \in DOMAIN history'[e] :
                 file'.history[e][j].modified = history'[e][j].modified
    <3> SUFFICES ASSUME NEW e \in ToSet(ord)
                 PROVE  /\ file'.entry[e].modified = entry'[e].modified
                        /\ DOMAIN file'.history[e] = DOMAIN history'[e]
                        /\ \A j \in DOMAIN history'[e] :
                              file'.history[e][j].modified = history'[e][j].modified
      OBVIOUS
    <3>1. entry'[e] \in Versions(Attachments) /\ history'[e] \in Seq(Versions(Attachments))
      BY <2>5 DEF MemoryOK
    <3>2. \A j \in DOMAIN history'[e] : history'[e][j] \in Versions(Attachments)
      BY ONLY <3>1, MembersOfSeq
    <3>3. /\ file'.entry[e] = Refs(entry'[e])
          /\ DOMAIN file'.history[e] = DOMAIN history'[e]
          /\ \A j \in DOMAIN history'[e] : file'.history[e][j] = Refs(history'[e][j])
      BY ONLY <2>4, <2>5, e \in ToSet(ord)
    <3>4. QED
      BY ONLY <3>1, <3>2, <3>3, FileTimes
  <2>7. TimesOK(ord, file'.entry, file'.history, now')
    BY ONLY <1>2, <2>6, TimesCopied
  <2>8. QED
    BY <1>1, <1>2, <2>4, <2>7 DEF TimesInv
<1>5. QED
  BY <1>3, <1>4

(* What is read of a file.                                                        *)
LEMMA ReadTimes ==
    ASSUME NEW f, FileOK(f), Loads(f), NEW t, TimesOK(f.order, f.entry, f.history, t)
    PROVE  TimesOK(f.order, ReadEntries(f), ReadHistory(f), t)
<1> SUFFICES ASSUME NEW e \in ToSet(f.order)
             PROVE  /\ OlderThan(ReadHistory(f)[e], ReadEntries(f)[e])
                    /\ ReadEntries(f)[e].modified <= t
  BY DEF TimesOK
<1> DEFINE old == f.history[e]
           h == [j \in DOMAIN old |-> Resolved(f.binaries, old[j])]
           v == ReadEntries(f)[e]
<1>1. /\ f.entry[e] \in Versions(Int) /\ old \in Seq(Versions(Int))
      /\ v = Resolved(f.binaries, f.entry[e])
      /\ h \in Seq(Versions(Attachments)) /\ ReadHistory(f)[e] = Reverse(h)
  BY ReadIsTurned
<1>2. OlderThan(old, f.entry[e]) /\ f.entry[e].modified <= t
  BY DEF TimesOK
<1>3. DOMAIN h = DOMAIN old /\ \A j \in DOMAIN old : h[j] = Resolved(f.binaries, old[j])
  OBVIOUS
<1> HIDE DEF old, h, v
<1>4. \A j \in DOMAIN old : old[j] \in Versions(Int)
  BY ONLY <1>1, MembersOfSeq
<1>5. v.modified = f.entry[e].modified /\ \A j \in DOMAIN old : h[j].modified = old[j].modified
  BY ONLY <1>1, <1>3, <1>4, FileTimes
<1>6. OlderThan(h, v)
  BY ONLY <1>2, <1>3, <1>5, OlderCopied
<1>7. OlderThan(Reverse(h), v)
  BY ONLY <1>1, <1>6, OlderReversed
<1>8. QED
  BY <1>1, <1>2, <1>5, <1>7 DEF v

(* An edit.                                                                       *)
LEMMA EditTimes ==
    ASSUME LoadableInv, TimesInv, NEW e \in ToSet(order), NEW w, NEW b, IsEdit(e, w, b)
    PROVE  /\ TimesOK(order, [entry EXCEPT ![e] = w],
                      [history EXCEPT ![e] = BackupState(@, b)], now')
           /\ OlderThan(history[e], b)
<1> DEFINE v == entry[e]
           h == history[e]
           ents == [entry EXCEPT ![e] = w]
           hists == [history EXCEPT ![e] = BackupState(@, b)]
<1>1. /\ entry \in [ToSet(order) -> Versions(Attachments)]
      /\ history \in [ToSet(order) -> Seq(Versions(Attachments))]
      /\ v \in Versions(Attachments) /\ h \in Seq(Versions(Attachments))
      /\ now \in Int
  BY DEF LoadableInv, StateOK, MemoryOK
<1>2. /\ w \in Versions(Attachments) /\ b \in Versions(Attachments)
      /\ w.modified = now' /\ b.modified \in {now', v.modified} /\ now' = now + 1
  BY DEF IsEdit
<1>3. OlderThan(h, v) /\ v.modified <= now
  BY DEF TimesInv, TimesOK
<1>4. \A x \in ToSet(order) \ {e} : ents[x] = entry[x] /\ hists[x] = history[x]
  BY <1>1
<1>5. ents[e] = w /\ hists[e] = BackupState(h, b)
  BY <1>1
<1> HIDE DEF v, h, ents, hists
<1>6. v.modified \in Int /\ \A i \in DOMAIN h : h[i].modified \in Int
  <2>1. \A i \in DOMAIN h : h[i] \in Versions(Attachments)
    BY ONLY <1>1, MembersOfSeq
  <2>2. QED
    BY ONLY <1>1, <2>1, VersionFields
<1>7. \A i \in DOMAIN h : h[i].modified < now'
  BY ONLY <1>1, <1>2, <1>3, <1>6 DEF OlderThan
<1>8. now' \in Int /\ b.modified <= now'
  BY ONLY <1>1, <1>2, <1>3, <1>6
<1>9. OlderThan(BackupState(h, b), w)
  BY ONLY <1>1, <1>2, <1>7, <1>8, BackupTimes
<1>10. OlderThan(h, b)
  <2>1. CASE b.modified = now'
    <3>1. \A i \in DOMAIN h : h[i].modified <= b.modified /\ h[i].modified # b.modified
      BY ONLY <1>6, <1>7, <1>8, <2>1
    <3>2. QED
      BY ONLY <3>1 DEF OlderThan
  <2>2. CASE b.modified = v.modified
    BY ONLY <1>3, <2>2 DEF OlderThan
  <2>3. QED
    BY ONLY <1>2, <2>1, <2>2
<1>11. TimesOK(order, entry, history, now')
  <2>1. now <= now' /\ TimesOK(order, entry, history, now)
    BY <1>1, <1>2 DEF TimesInv
  <2>2. QED
    BY ONLY <1>1, <1>8, <2>1, TimesLater
<1>12. ASSUME NEW x \in ToSet(order)
       PROVE  OlderThan(hists[x], ents[x]) /\ ents[x].modified <= now'
  <2>1. CASE x = e
    BY ONLY <1>2, <1>5, <1>8, <1>9, <2>1
  <2>2. CASE x # e
    BY ONLY <1>4, <1>11, <2>2, x \in ToSet(order) DEF TimesOK
  <2>3. QED
    BY <2>1, <2>2
<1>13. QED
  BY <1>10, <1>12 DEF TimesOK, ents, hists, h

LEMMA TimesAfterSave ==
    ASSUME LoadableInv, TimesInv, NEW ord, NEW ents, NEW hists, MemoryOK(ord, ents, hists),
           Saving(ord, ents, hists), TimesOK(ord, ents, hists, now'),
           now' \in Int, now <= now'
    PROVE  TimesInv'
<1>1. /\ StateOK /\ now \in Int /\ file.entry \in [ToSet(file.order) -> Versions(Int)]
      /\ TimesOK(file.order, file.entry, file.history, now)
  BY DEF LoadableInv, StateOK, FileOK, TimesInv
<1>2. TimesOK(file.order, file.entry, file.history, now')
  BY ONLY <1>1, now' \in Int, now <= now', TimesLater
<1>3. QED
  BY <1>1, <1>2, SavedTimes

LEMMA TimesStep == LoadableInv /\ TimesInv /\ [Next]_vars => TimesInv'
<1> SUFFICES ASSUME LoadableInv, TimesInv, [Next]_vars PROVE TimesInv'
  OBVIOUS
<1>1. /\ MemoryOK(order, entry, history) /\ now \in 0..MaxTime /\ now \in Int
      /\ entry \in [ToSet(order) -> Versions(Attachments)]
      /\ history \in [ToSet(order) -> Seq(Versions(Attachments))]
      /\ TimesOK(order, entry, history, now)
  BY DEF LoadableInv, StateOK, MemoryOK, TimesInv
<1>2. ASSUME NEW n \in Entries, NEW v \in Values, CreateEntry(n, v)
      PROVE  TimesInv'
  <2> DEFINE w == [title |-> v, extra |-> [m \in Names |-> None], atts |-> <<>>,
                   modified |-> now']
             ents == With(entry, n, w)
             hists == With(history, n, <<>>)
  <2>1. n \notin ToSet(order) /\ Tick /\ Saving(Append(order, n), ents, hists)
    BY <1>2 DEF CreateEntry
  <2>2. now' \in Int /\ now <= now'
    BY <1>1, <2>1 DEF Tick
  <2>3. w \in Versions(Attachments) /\ w.modified = now'
    BY <2>2, NewVersion
  <2> HIDE DEF w
  <2>4. MemoryOK(Append(order, n), ents, hists)
    BY <1>1, <2>1, <2>3, CreatedMemory
  <2>5. /\ \A e \in ToSet(order) : ents[e] = entry[e] /\ hists[e] = history[e]
        /\ ents[n] = w /\ hists[n] = <<>>
    BY <1>1, <2>1 DEF With
  <2>6. ToSet(Append(order, n)) = ToSet(order) \cup {n}
    BY <1>1, <2>1, AddedLast DEF MemoryOK
  <2> HIDE DEF ents, hists
  <2>7. TimesOK(order, entry, history, now')
    BY ONLY <1>1, <2>2, TimesLater
  <2>8. OlderThan(<<>>, w)
    BY DEF OlderThan
  <2>9. TimesOK(Append(order, n), ents, hists, now')
    BY ONLY <2>2, <2>3, <2>5, <2>6, <2>7, <2>8 DEF TimesOK
  <2>10. QED
    BY <2>1, <2>2, <2>4, <2>9, TimesAfterSave
<1>3. ASSUME NEW e \in ToSet(order), Edit(e)
      PROVE  TimesInv'
  <2>1. PICK w, b : /\ IsEdit(e, w, b)
                    /\ IsSave(order, [entry EXCEPT ![e] = w],
                              [history EXCEPT ![e] = BackupState(@, b)])
    BY <1>3, EditIsSave
  <2>2. TimesOK(order, [entry EXCEPT ![e] = w],
                [history EXCEPT ![e] = BackupState(@, b)], now')
    BY <2>1, EditTimes
  <2>3. now' \in Int /\ now <= now'
    BY <1>1, <2>1 DEF IsEdit
  <2>4. QED
    BY <2>1, <2>2, <2>3, TimesAfterSave DEF IsSave
<1>4. ASSUME NEW e \in ToSet(order), DeleteEntry(e)
      PROVE  TimesInv'
  <2> DEFINE ents == Restrict(entry, DOMAIN entry \ {e})
             hists == Restrict(history, DOMAIN history \ {e})
  <2>1. MemoryOK(RemoveFirst(order, e), ents, hists)
    BY <1>1, DeletedMemory
  <2>2. ToSet(RemoveFirst(order, e)) = ToSet(order) \ {e}
    BY <1>1, FirstRemoved DEF MemoryOK
  <2>3. \A x \in ToSet(order) \ {e} : ents[x] = entry[x] /\ hists[x] = history[x]
    BY <1>1 DEF Restrict
  <2>4. Saving(RemoveFirst(order, e), ents, hists) /\ now' = now
    BY <1>4 DEF DeleteEntry
  <2> HIDE DEF ents, hists
  <2>5. TimesOK(RemoveFirst(order, e), ents, hists, now')
    BY ONLY <1>1, <2>2, <2>3, <2>4 DEF TimesOK
  <2>6. now' \in Int /\ now <= now'
    BY ONLY <1>1, <2>4
  <2>7. QED
    BY <2>1, <2>4, <2>5, <2>6, TimesAfterSave
<1>5. CASE Save
  <2>1. Saving(order, entry, history) /\ now' = now
    BY <1>5 DEF Save
  <2>2. now' \in Int /\ now <= now' /\ TimesOK(order, entry, history, now')
    BY <1>1, <2>1
  <2>3. QED
    BY <1>1, <2>1, <2>2, TimesAfterSave
<1>6. CASE Reopen
  <2>1. /\ order' = file.order /\ entry' = ReadEntries(file) /\ history' = ReadHistory(file)
        /\ file' = file /\ now' = now
    BY <1>6 DEF Reopen
  <2>2. FileOK(file) /\ Loads(file) /\ TimesOK(file.order, file.entry, file.history, now)
    BY DEF LoadableInv, StateOK, TimesInv
  <2>3. TimesOK(file.order, ReadEntries(file), ReadHistory(file), now)
    BY <2>2, ReadTimes
  <2>4. QED
    BY <2>1, <2>2, <2>3 DEF TimesInv
<1>7. CASE UNCHANGED vars
  BY <1>7 DEF vars, TimesInv
<1>8. QED
  <2>1. \/ \E x \in Entries, v \in Values : CreateEntry(x, v)
        \/ \E x \in ToSet(order) : Edit(x) \/ DeleteEntry(x)
        \/ Save
        \/ Reopen
        \/ UNCHANGED vars
    BY Zenon DEF Next, Edit
  <2>2. QED
    BY <1>2, <1>3, <1>4, <1>5, <1>6, <1>7, <2>1

(* What other programs may have left: times that are past, and a history older    *)
(* than the entry.                                                                *)
OldTimes == \A f \in OldFiles : TimesOK(f.order, f.entry, f.history, 0)

LEMMA FirstTimes ==
    ASSUME OldTimes, Init
    PROVE  TimesInv
<1>1. /\ FileOK(file) /\ Loads(file) /\ now = 0
      /\ TimesOK(file.order, file.entry, file.history, now)
  BY OldFilesAssumption DEF Init, OldTimes
<1>2. TimesOK(file.order, ReadEntries(file), ReadHistory(file), now)
  BY <1>1, ReadTimes
<1>3. QED
  BY <1>1, <1>2 DEF Init, TimesInv

LEMMA EditKeepsBackup ==
    ASSUME LoadableInv, TimesInv, [Next]_vars, HistoryMaxItems \notin 0..1,
           NEW e, e \in EditedEntries
    PROVE  \E i \in DOMAIN history'[e] : Contents(history'[e][i]) = Contents(entry[e])
<1>1. /\ e \in ToSet(order) /\ e \in ToSet(order') /\ now' # now
      /\ Contents(entry'[e]) # Contents(entry[e])
  BY DEF EditedEntries
<1>2. Edit(e)
  BY <1>1, OnlyTheEditedChanges
<1>3. PICK w, b : /\ IsEdit(e, w, b)
                  /\ IsSave(order, [entry EXCEPT ![e] = w],
                            [history EXCEPT ![e] = BackupState(@, b)])
  BY <1>1, <1>2, EditIsSave
<1>4. SameVersions(order, [entry EXCEPT ![e] = w],
                   [history EXCEPT ![e] = BackupState(@, b)], entry', history')
  BY <1>3, SavedMemory DEF IsSave, LoadableInv
<1>5. OlderThan(history[e], b)
  BY <1>1, <1>3, EditTimes
<1>6. /\ b \in Versions(Attachments) /\ Contents(b) = Contents(entry[e])
      /\ history[e] \in Seq(Versions(Attachments))
      /\ [history EXCEPT ![e] = BackupState(@, b)][e] = BackupState(history[e], b)
  BY <1>1, <1>3 DEF IsEdit, LoadableInv, StateOK, MemoryOK
<1>7. IsTop(BackupState(history[e], b), b)
  <2> DEFINE h == history[e]
  <2>1. h \in Seq(Versions(Attachments)) /\ OlderThan(h, b)
    BY <1>5, <1>6
  <2> HIDE DEF h
  <2>2. IsTop(BackupState(h, b), b)
    BY ONLY <1>6, <2>1, HistoryMaxItems \notin 0..1, BackupTimes
  <2>3. QED
    BY <2>2 DEF h
<1>8. 1 \in DOMAIN history'[e] /\ Contents(history'[e][1]) = Contents(b)
  BY <1>1, <1>4, <1>6, <1>7 DEF SameVersions, IsTop
<1>9. QED
  BY <1>6, <1>8

(* The items of the history of an entry are older than it, but for the backup made*)
(* with its last modification, in memory and in the file, which is why that backup*)
(* is never the oldest item when the history is maintained.                       *)
THEOREM HistoriesAreOlder ==
    ASSUME OldTimes
    PROVE  Spec => []EntryInv
<1>1. Init => TimesInv
  BY FirstTimes
<1>2. LoadableInv /\ TimesInv /\ [Next]_vars => TimesInv'
  BY TimesStep
<1>3. TimesInv /\ EntryTypeOK => EntryInv
  BY DEF EntryInv
<1>4. QED
  BY <1>1, <1>2, <1>3, EntryInvariance, EntryTypeCorrect, PTL DEF Spec

(* What an entry contained before an edit is found in its history after it, if the*)
(* history is not limited, or to two items at least                               *)
(* (PwEntryV4::backupState(), ViewEntryExtrasTab.qml).                            *)
THEOREM EditsAlwaysLeaveABackup ==
    ASSUME OldTimes, HistoryMaxItems \notin 0..1
    PROVE  Spec => EditsLeaveABackup
<1>1. LoadableInv /\ TimesInv /\ [Next]_vars =>
        [\A e \in EditedEntries :
            \E i \in DOMAIN history'[e] : Contents(history'[e][i]) = Contents(entry[e])]_vars
  BY EditKeepsBackup
<1>2. EntryInv => TimesInv
  BY DEF EntryInv
<1>3. QED
  BY <1>1, <1>2, EntryInvariance, HistoriesAreOlder, PTL DEF Spec, EditsLeaveABackup
==================================================================================

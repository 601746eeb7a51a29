------------------------- MODULE PwDatabaseFacadeProofs -------------------------
(***************************************************************************)
(* Proofs about PwDatabaseFacade, for every set of paths and keys and every*)
(* bound on edits and time.                                                *)
(***************************************************************************)
EXTENDS PwDatabaseFacade, FiniteSetTheorems, TLAPS

(* A file written by save() holds a whole database, and the sentinels are not    *)
(* databases.                                                                    *)
LEMMA SessionContents ==
    ASSUME TypeOK, db # NoDb
    PROVE  db \in Sessions /\ db.path \in Paths /\ Whole(db.content)
BY SentinelsAssumption DEF TypeOK, Sessions, Whole

LEMMA SentinelsNotWhole == ~Whole(Torn) /\ ~Whole(Absent)
BY SentinelsAssumption DEF Whole

(* The newest of the backups exists, Max of a non-empty set of times: among the  *)
(* sets of the times after each of its members, one is minimal.                  *)
LEMMA MaxOfTimes ==
    ASSUME NEW S \in SUBSET Times, S # {}
    PROVE  Max(S) \in S /\ \A t \in S : Max(S) >= t
<1> DEFINE After(x) == {t \in S : t > x}
           Afters   == {After(x) : x \in S}
<1>1. Afters # {} /\ Afters \subseteq FiniteSubsetsOf(S)
  <2>1. IsFiniteSet(Times)
    BY FS_Interval, BoundsAssumption DEF Times
  <2>2. IsFiniteSet(S)
    BY <2>1, FS_Subset
  <2>3. ASSUME NEW x \in S PROVE After(x) \in FiniteSubsetsOf(S)
    <3>1. After(x) \in SUBSET S
      OBVIOUS
    <3> QED
      BY <2>2, <3>1, FS_FiniteSubsetsOfFinite
  <2> QED
    BY <2>3
<1>2. PICK A \in Afters : \A B \in Afters : <<B, A>> \notin StrictSubsetOrdering(S)
  <2> HIDE DEF Afters
  <2> QED
    BY <1>1, FS_StrictSubsetOrderingWellFounded, WFMin
<1>3. PICK x \in S : A = After(x)
  OBVIOUS
<1>4. \A t \in S : x >= t
  <2>1. SUFFICES ASSUME NEW y \in S, ~(x >= y) PROVE FALSE
    OBVIOUS
  <2>2. x \in Int /\ y \in Int /\ \A t \in S : t \in Int
    BY BoundsAssumption DEF Times
  <2>3. After(y) \subseteq After(x) /\ After(y) # After(x)
    <3>1. \A t \in S : t > y => t > x
      BY <2>1, <2>2
    <3>2. y > x /\ ~(y > y)
      BY <2>1, <2>2
    <3>3. y \in After(x) /\ y \notin After(y)
      BY <3>2
    <3> QED
      BY <3>1, <3>3
  <2>4. <<After(y), After(x)>> \in StrictSubsetOrdering(S)
    BY <2>3 DEF StrictSubsetOrdering
  <2> QED
    BY <1>2, <1>3, <2>4
<1> QED
  BY <1>4 DEF Max

(* Recovery looks at nothing but a path's file and its whole backups.            *)
LEMMA NewestUnchanged ==
    ASSUME NEW p \in Paths,
           files'[p] = files[p] \/ (~Whole(files'[p]) /\ ~Whole(files[p])),
           \A t \in Times : backups'[p][t] = backups[p][t]
                            \/ (~Whole(backups'[p][t]) /\ ~Whole(backups[p][t]))
    PROVE  Newest(p)' = Newest(p)
<1>1. WholeBackups(p)' = WholeBackups(p)
  BY DEF WholeBackups, Whole
<1>2. CASE Whole(files[p])
  BY <1>2 DEF Newest, Whole
<1>3. CASE ~Whole(files[p]) /\ WholeBackups(p) = {}
  BY <1>1, <1>3 DEF Newest, Whole
<1>4. CASE ~Whole(files[p]) /\ WholeBackups(p) # {}
  <2> DEFINE m == Max(WholeBackups(p))
  <2>1. m \in WholeBackups(p)
    BY <1>4, MaxOfTimes DEF WholeBackups
  <2>2. m \in Times /\ Whole(backups[p][m])
    BY <2>1 DEF WholeBackups
  <2>3. Newest(p) = backups[p][m]
    BY <1>4 DEF Newest
  <2>4. Newest(p)' = backups'[p][m]
    BY <1>1, <1>4 DEF Newest, Whole
  <2> QED
    BY <2>2, <2>3, <2>4
<1> QED
  BY <1>2, <1>3, <1>4

(* Writing one backup file changes that file only.                               *)
LEMMA OneBackupWritten ==
    ASSUME TypeOK, db.path \in Paths
    PROVE  \A file \in Contents \cup {Absent, Torn} : BackupBecomes(file) =>
              /\ backups' \in [Paths -> [Times -> Contents \cup {Absent, Torn}]]
              /\ backups'[db.path][bakTime] = file
              /\ \A p \in Paths, t \in Times :
                    p # db.path \/ t # bakTime => backups'[p][t] = backups[p][t]
<1> DEFINE q == db.path
           Files == Contents \cup {Absent, Torn}
<1>1. TAKE file \in Files
<1>2. HAVE BackupBecomes(file)
<1>3. backups \in [Paths -> [Times -> Files]] /\ bakTime \in Times
  BY DEF TypeOK
<1>4. [backups[q] EXCEPT ![bakTime] = file] \in [Times -> Files]
  BY <1>3
<1>5. backups' = [backups EXCEPT ![q] = [backups[q] EXCEPT ![bakTime] = file]]
  BY <1>2 DEF BackupBecomes
<1>6. /\ backups' \in [Paths -> [Times -> Files]]
      /\ backups'[q] = [backups[q] EXCEPT ![bakTime] = file]
      /\ \A p \in Paths : p # q => backups'[p] = backups[p]
  BY <1>3, <1>4, <1>5
<1>7. /\ backups'[q][bakTime] = file
      /\ \A t \in Times : t # bakTime => backups'[q][t] = backups[q][t]
  BY <1>3, <1>6
<1> QED
  BY <1>6, <1>7

---------------------------------------------------------------------------------
(* Type correctness                                                              *)

LEMMA InitInvariant == Init => IInv
<1> SUFFICES ASSUME Init PROVE IInv
  OBVIOUS
<1>1. TypeOK
  <2>1. 0 \in Versions /\ 0 \in Times
    BY BoundsAssumption DEF Versions, Times
  <2>2. files \in [Paths -> {Absent} \cup Contents]
    <3>1. [ver : {0}, key : Keys] \subseteq Contents
      BY <2>1 DEF Contents
    <3> QED
      BY <3>1 DEF Init
  <2>3. backups \in [Paths -> [Times -> Contents \cup {Absent, Torn}]]
    BY DEF Init
  <2> QED
    BY <2>1, <2>2, <2>3 DEF Init, TypeOK
<1>2. SessionConsistent /\ BackupsInThePast /\ SaveProgress
  BY DEF Init, SessionConsistent, BackupsInThePast, SaveProgress
<1>3. Recoverable
  <2>1. SUFFICES ASSUME NEW p \in Paths PROVE Newest(p) = files[p]
    BY DEF Init, Recoverable
  <2>2. WholeBackups(p) = {}
    BY SentinelsNotWhole DEF Init, WholeBackups
  <2>3. files[p] = Absent \/ Whole(files[p])
    BY BoundsAssumption DEF Init, Whole, Contents, Versions
  <2> QED
    BY <2>2, <2>3 DEF Newest
<1> QED
  BY <1>1, <1>2, <1>3 DEF IInv

(* Every step keeps the types.  That the time stamp of a save is a time, and     *)
(* that a save has a session to write, are the parts of the invariant it needs.  *)
LEMMA NextTypeOK ==
    ASSUME TypeOK, SessionConsistent, SaveProgress, [Next]_vars
    PROVE  TypeOK'
<1> USE DEF TypeOK, diskVars, memVars, saveVars
<1>1. CASE LockDatabase \/ UnlockFails
  BY <1>1 DEF LockDatabase, UnlockFails, Released
<1>2. ASSUME NEW p \in Paths, UnlockAborts(p) PROVE TypeOK'
  <2>1. db' \in Sessions
    BY <1>2, BoundsAssumption DEF UnlockAborts, Sessions, Contents, Versions
  <2>2. locked' \in BOOLEAN
    BY <1>2 DEF UnlockAborts
  <2> QED
    BY <1>2, <2>1, <2>2 DEF UnlockAborts
<1>3. ASSUME NEW p \in Paths, CreateDatabaseV4(p) PROVE TypeOK'
  <2>1. lastVer' \in Versions
    BY <1>3, BoundsAssumption DEF CreateDatabaseV4, Versions
  <2>2. db' \in Sessions
    BY <1>3, <2>1 DEF CreateDatabaseV4, Sessions, Contents
  <2> QED
    BY <1>3, <2>1, <2>2 DEF CreateDatabaseV4
<1>4. ASSUME NEW p \in Paths, NEW k \in Keys, UnlockSucceeds(p, k) PROVE TypeOK'
  BY <1>4 DEF UnlockSucceeds, Sessions, Whole
<1>5. CASE Search
  BY <1>5 DEF Search
<1>6. CASE Edit
  <2>1. lastVer' \in Versions
    BY <1>6, BoundsAssumption DEF Edit, Versions
  <2>2. db \in Sessions
    BY <1>6 DEF Edit, SessionConsistent
  <2>3. db' \in Sessions
    BY <1>6, <2>1, <2>2 DEF Edit, Sessions, Contents
  <2> QED
    BY <1>6, <2>1, <2>3 DEF Edit
<1>7. CASE Save
  BY <1>7 DEF Save, SaveStarted, SaveSteps
<1>8. ASSUME NEW k \in Keys, ChangeMasterKey(k) PROVE TypeOK'
  <2>1. db \in Sessions
    BY <1>8 DEF ChangeMasterKey, SessionConsistent
  <2>2. db' \in Sessions
    BY <1>8, <2>1 DEF ChangeMasterKey, Sessions, Contents
  <2> QED
    BY <1>8, <2>2 DEF ChangeMasterKey, SaveStarted, SaveSteps
<1>9. CASE SaveStep
  <2>1. pc # "idle"
    BY <1>9 DEF SaveStep, SaveFails, CopyToBackup, OpenForWriting, Write, Flush, Cleanup
  <2>2. db.path \in Paths /\ db.content \in Contents
    BY <2>1, SessionContents DEF SaveProgress, SessionConsistent, Whole
  <2>3. CASE SaveFails
    BY <2>3 DEF SaveFails
  <2>4. CASE CopyToBackup
    <3>1. backups' \in [Paths -> [Times -> Contents \cup {Absent, Torn}]]
      BY <2>2, <2>4, OneBackupWritten DEF CopyToBackup
    <3> QED
      BY <2>4, <3>1 DEF CopyToBackup, SaveSteps
  <2>5. CASE OpenForWriting
    BY <2>2, <2>5 DEF OpenForWriting, SaveSteps
  <2>6. CASE Write
    BY <2>2, <2>6 DEF Write, FileWritten, SaveSteps
  <2>7. CASE Flush
    BY <2>2, <2>7 DEF Flush, FileWritten, SaveSteps
  <2>8. CASE Cleanup
    <3>1. backups' \in [Paths -> [Times -> Contents \cup {Absent, Torn}]]
      BY <2>2, <2>8, OneBackupWritten DEF Cleanup
    <3> QED
      BY <2>8, <3>1 DEF Cleanup
  <2> QED
    BY <1>9, <2>3, <2>4, <2>5, <2>6, <2>7, <2>8 DEF SaveStep
<1>10. CASE Crash
  BY <1>10 DEF Crash
<1>11. CASE Tick
  BY <1>11, BoundsAssumption DEF Tick, Times
<1>12. CASE SetBackupDatabaseOnSave
  BY <1>12 DEF SetBackupDatabaseOnSave
<1>13. CASE UNCHANGED vars
  BY <1>13 DEF vars
<1> QED
  BY <1>1, <1>2, <1>3, <1>4, <1>5, <1>6, <1>7, <1>8, <1>9, <1>10, <1>11, <1>12, <1>13
     DEF Next

---------------------------------------------------------------------------------
(* The steps that leave the disk alone                                           *)

(* Calls that touch memory only, and those that do no more than start a save.    *)
MemoryStep ==
    \/ LockDatabase
    \/ UnlockFails
    \/ \E p \in Paths : UnlockAborts(p) \/ CreateDatabaseV4(p)
    \/ \E p \in Paths, k \in Keys : UnlockSucceeds(p, k)
    \/ Search
    \/ Edit
    \/ Save
    \/ \E k \in Keys : ChangeMasterKey(k)
    \/ SetBackupDatabaseOnSave

LEMMA MemoryStepInvariant ==
    ASSUME IInv, MemoryStep
    PROVE  SessionConsistent' /\ BackupsInThePast' /\ SaveProgress' /\ Recoverable'
<1> USE DEF diskVars, memVars, saveVars
<1>1. pc = "idle" /\ UNCHANGED <<files, backups, committed, clock>>
  BY DEF MemoryStep, LockDatabase, UnlockFails, UnlockAborts, CreateDatabaseV4,
         UnlockSucceeds, Search, Edit, Save, ChangeMasterKey, SetBackupDatabaseOnSave
<1>2. \/ pc' = "idle"
      \/ /\ pc' = "copy" /\ bakTime' = clock
         /\ ~locked' /\ db # NoDb /\ db'.path = db.path
  <2>1. CASE Save
    BY <2>1 DEF Save, SaveStarted
  <2>2. ASSUME NEW k \in Keys, ChangeMasterKey(k)
        PROVE  \/ pc' = "idle"
               \/ /\ pc' = "copy" /\ bakTime' = clock
                  /\ ~locked' /\ db # NoDb /\ db'.path = db.path
    <3>1. db \in Sessions /\ db # NoDb
      BY <2>2, SessionContents DEF ChangeMasterKey, IInv, SessionConsistent
    <3>2. db'.path = db.path
      BY <2>2, <3>1 DEF ChangeMasterKey, Sessions
    <3> QED
      BY <1>1, <2>2, <3>1, <3>2 DEF ChangeMasterKey, SaveStarted
  <2>3. CASE ~Save /\ ~(\E k \in Keys : ChangeMasterKey(k))
    BY <1>1, <2>3 DEF MemoryStep, LockDatabase, UnlockFails, UnlockAborts,
       CreateDatabaseV4, UnlockSucceeds, Search, Edit, SetBackupDatabaseOnSave
  <2> QED
    BY <2>1, <2>2, <2>3
<1>3. SessionConsistent'
  <2>1. CASE LockDatabase \/ UnlockFails
    BY <2>1 DEF LockDatabase, UnlockFails, Released, IInv, SessionConsistent
  <2>2. ASSUME NEW p \in Paths, UnlockAborts(p) PROVE SessionConsistent'
    BY <2>2 DEF UnlockAborts, IInv, SessionConsistent
  <2>3. ASSUME NEW p \in Paths, CreateDatabaseV4(p) PROVE SessionConsistent'
    <3>1. TypeOK'
      BY <2>3, NextTypeOK DEF IInv, Next
    <3>2. [ver |-> lastVer', key |-> UninitKey] \in Contents
      BY <3>1 DEF TypeOK, Contents
    <3>3. db' \in Sessions /\ db'.loaded
      BY <2>3, <3>2 DEF CreateDatabaseV4, Sessions
    <3>4. ~locked'
      BY <2>3 DEF CreateDatabaseV4
    <3> QED
      BY <3>3, <3>4, SentinelsAssumption DEF SessionConsistent
  <2>4. ASSUME NEW p \in Paths, NEW k \in Keys, UnlockSucceeds(p, k)
        PROVE  SessionConsistent'
    <3>1. db' \in Sessions /\ db'.loaded
      BY <2>4 DEF UnlockSucceeds, Sessions, Whole
    <3>2. ~locked'
      BY <2>4 DEF UnlockSucceeds
    <3> QED
      BY <3>1, <3>2, SentinelsAssumption DEF SessionConsistent
  <2>5. CASE Search
    BY <2>5 DEF Search, IInv, SessionConsistent
  <2>6. ASSUME Edit \/ \E k \in Keys : ChangeMasterKey(k)
        PROVE  SessionConsistent'
    <3>1. db \in Sessions /\ db.loaded /\ ~locked
      BY <2>6 DEF Edit, ChangeMasterKey, IInv, SessionConsistent, TypeOK
    <3>2. TypeOK'
      BY <2>6, NextTypeOK DEF IInv, Next
    <3>3. db'.loaded /\ UNCHANGED <<locked, searchResult>>
      BY <2>6, <3>1 DEF Edit, ChangeMasterKey, Sessions
    <3>4. db' \in Sessions
      <4>1. \E c \in Contents : db' = [db EXCEPT !.content = c]
        BY <2>6, <3>1, <3>2 DEF Edit, ChangeMasterKey, Sessions, Contents, TypeOK
      <4> QED
        BY <3>1, <4>1 DEF Sessions
    <3> QED
      BY <3>1, <3>3, <3>4, SentinelsAssumption DEF SessionConsistent
  <2>7. CASE Save \/ SetBackupDatabaseOnSave
    BY <2>7 DEF Save, SetBackupDatabaseOnSave, IInv, SessionConsistent
  <2> QED
    BY <2>1, <2>2, <2>3, <2>4, <2>5, <2>6, <2>7 DEF MemoryStep
<1>4. BackupsInThePast'
  <2>1. pc' # "idle" => db'.path \in Paths
    BY <1>2, SessionContents DEF IInv
  <2> QED
    BY <1>1, <1>2, <2>1, BoundsAssumption
       DEF IInv, BackupsInThePast, TypeOK, Times
<1>5. SaveProgress'
  BY <1>2 DEF SaveProgress
<1>6. Recoverable'
  BY <1>1 DEF IInv, Recoverable, Newest, WholeBackups, Whole
<1> QED
  BY <1>3, <1>4, <1>5, <1>6

---------------------------------------------------------------------------------
(* The file operations of a save                                                 *)

LEMMA SaveStepSession ==
    ASSUME IInv, SaveStep
    PROVE  /\ pc # "idle" /\ ~locked /\ UNCHANGED memVars
           /\ db \in Sessions /\ db.path \in Paths /\ Whole(db.content)
<1>1. pc # "idle" /\ UNCHANGED memVars
  BY DEF SaveStep, SaveFails, CopyToBackup, OpenForWriting, Write, Flush, Cleanup, memVars
<1> QED
  BY <1>1, SessionContents DEF IInv, SaveProgress, SessionConsistent

(* Before the file is truncated, the copy that was made of it is the newest      *)
(* backup: this is where a save would lose data if it were ordered differently.  *)
LEMMA OpenForWritingRecoverable ==
    ASSUME IInv, OpenForWriting
    PROVE  Recoverable'
<1> DEFINE q == db.path
<1>1. q \in Paths /\ TypeOK
  BY SaveStepSession DEF SaveStep, IInv
<1>2. /\ files'[q] = Torn
      /\ \A p \in Paths : p # q => files'[p] = files[p]
      /\ UNCHANGED <<backups, committed>>
  BY <1>1 DEF OpenForWriting, TypeOK
<1>3. SUFFICES ASSUME NEW p \in Paths PROVE Newest(p)' = Newest(p)
  BY <1>2 DEF IInv, Recoverable
<1>4. CASE p # q \/ ~Whole(files[p])
  BY <1>2, <1>4, NewestUnchanged, SentinelsNotWhole
<1>5. CASE p = q /\ Whole(files[p])
  <2>1. bakTime \in WholeBackups(q) /\ backups[q][bakTime] = files[q]
    BY <1>5 DEF OpenForWriting, IInv, SaveProgress, WholeBackups, TypeOK
  <2>2. \A t \in WholeBackups(q) : t <= bakTime
    BY SentinelsNotWhole DEF OpenForWriting, IInv, BackupsInThePast, WholeBackups
  <2>3. Max(WholeBackups(q)) = bakTime
    <3>1. WholeBackups(q) \subseteq Times
      BY DEF WholeBackups
    <3>2. Max(WholeBackups(q)) \in WholeBackups(q) /\ Max(WholeBackups(q)) >= bakTime
      BY <2>1, <3>1, MaxOfTimes
    <3> QED
      BY <2>1, <2>2, <3>1, <3>2, BoundsAssumption DEF Times
  <2>4. WholeBackups(q)' = WholeBackups(q)
    BY <1>2 DEF WholeBackups, Whole, OpenForWriting, memVars
  <2>5. Newest(p)' = backups[q][bakTime]
    BY <1>2, <1>5, <2>1, <2>3, <2>4, SentinelsNotWhole
       DEF Newest, Whole, OpenForWriting, memVars
  <2> QED
    BY <1>5, <2>1, <2>5 DEF Newest
<1> QED
  BY <1>4, <1>5

LEMMA FileWrittenRecoverable ==
    ASSUME IInv, Write \/ Flush, FileWritten
    PROVE  Recoverable'
<1>1. db.path \in Paths /\ Whole(db.content) /\ TypeOK
  BY SaveStepSession DEF SaveStep, IInv
<1>2. SUFFICES ASSUME NEW p \in Paths PROVE Newest(p)' = committed'[p]
  BY DEF Recoverable
<1>3. CASE p = db.path
  BY <1>1, <1>3 DEF FileWritten, Newest, Whole, TypeOK
<1>4. CASE p # db.path
  <2>1. files'[p] = files[p] /\ committed'[p] = committed[p] /\ backups' = backups
    BY <1>1, <1>4 DEF FileWritten, TypeOK, Write, Flush
  <2> QED
    BY <2>1, NewestUnchanged DEF IInv, Recoverable
<1> QED
  BY <1>3, <1>4

(* A backup is only touched while the file it was copied from is whole, or is    *)
(* no database either.                                                           *)
LEMMA BackupStepRecoverable ==
    ASSUME IInv, CopyToBackup \/ Cleanup
    PROVE  Recoverable'
<1> DEFINE q == db.path
<1>1. q \in Paths /\ Whole(db.content) /\ TypeOK
  BY SaveStepSession DEF SaveStep, IInv
<1>2. UNCHANGED <<files, committed>>
  BY DEF CopyToBackup, Cleanup
<1>3. SUFFICES ASSUME NEW p \in Paths PROVE Newest(p)' = Newest(p)
  BY <1>2 DEF IInv, Recoverable
<1>4. CASE Whole(files[p])
  BY <1>2, <1>4 DEF Newest, Whole
<1>5. CASE ~Whole(files[p])
  <2>1. CASE Cleanup
    <3>1. p # q
      BY <1>1, <1>5, <2>1 DEF Cleanup, IInv, SaveProgress
    <3>2. \A t \in Times : backups'[p][t] = backups[p][t]
      BY <1>1, <2>1, <3>1, OneBackupWritten DEF Cleanup, TypeOK
    <3> QED
      BY <1>2, <3>2, NewestUnchanged
  <2>2. CASE CopyToBackup
    <3>1. \A t \in Times : backups'[p][t] = backups[p][t]
                            \/ (~Whole(backups'[p][t]) /\ ~Whole(backups[p][t]))
      <4>1. CASE backups' = backups
        BY <4>1
      <4>2. CASE backups' # backups
        <5>1. /\ backups[q][bakTime] = Absent
              /\ BackupBecomes(files[q])
              /\ bakTime \in Times /\ files[q] \in Contents \cup {Absent, Torn}
          BY <1>1, <2>2, <4>2 DEF CopyToBackup, TypeOK
        <5>2. /\ backups'[q][bakTime] = files[q]
              /\ \A r \in Paths, t \in Times :
                    r # q \/ t # bakTime => backups'[r][t] = backups[r][t]
          BY <1>1, <5>1, OneBackupWritten
        <5> QED
          BY <1>5, <5>1, <5>2, SentinelsNotWhole
      <4> QED
        BY <4>1, <4>2
    <3> QED
      BY <1>2, <3>1, NewestUnchanged
  <2> QED
    BY <2>1, <2>2
<1> QED
  BY <1>4, <1>5

LEMMA SaveStepInvariant ==
    ASSUME IInv, SaveStep
    PROVE  SessionConsistent' /\ BackupsInThePast' /\ SaveProgress' /\ Recoverable'
<1> DEFINE q == db.path
<1>1. /\ pc # "idle" /\ ~locked /\ UNCHANGED memVars /\ UNCHANGED <<clock, bakTime>>
      /\ q \in Paths /\ Whole(db.content) /\ TypeOK /\ bakTime \in Times
  BY SaveStepSession DEF SaveStep, SaveFails, CopyToBackup, OpenForWriting,
     Write, Flush, Cleanup, IInv, TypeOK
<1>2. SessionConsistent'
  BY <1>1 DEF IInv, SessionConsistent, memVars
<1>3. BackupsInThePast'
  <2>1. \A p \in Paths, t \in Times :
           backups'[p][t] # Absent => backups[p][t] # Absent \/ (p = q /\ t = bakTime)
    <3>1. files[q] \in Contents \cup {Absent, Torn}
      BY <1>1 DEF TypeOK
    <3>2. backups' = backups \/ BackupBecomes(files[q]) \/ BackupBecomes(Absent)
      BY DEF SaveStep, SaveFails, CopyToBackup, OpenForWriting, Write, Flush, Cleanup,
             diskVars
    <3> QED
      BY <1>1, <3>1, <3>2, OneBackupWritten
  <2>2. bakTime <= clock
    BY <1>1 DEF IInv, BackupsInThePast
  <2>3. UNCHANGED <<db, clock, bakTime>> /\ bakTime <= bakTime
    BY <1>1, BoundsAssumption DEF memVars, Times
  <2> QED
    BY <1>1, <2>1, <2>2, <2>3 DEF IInv, BackupsInThePast
<1>4. SaveProgress'
  <2>1. ~locked' /\ db' = db /\ bakTime' = bakTime
    BY <1>1 DEF memVars
  <2>2. CASE SaveFails
    BY <2>1, <2>2 DEF SaveFails, SaveProgress
  <2>3. CASE CopyToBackup
    <3>1. Whole(files[q]) => backups'[q][bakTime] = files[q]
      BY <1>1, <2>3, OneBackupWritten, SentinelsNotWhole DEF CopyToBackup, TypeOK
    <3> QED
      BY <2>1, <2>3, <3>1 DEF CopyToBackup, SaveProgress, Whole
  <2>4. CASE OpenForWriting
    BY <2>1, <2>4 DEF OpenForWriting, SaveProgress
  <2>5. CASE Write
    BY <2>1, <2>5 DEF Write, SaveProgress
  <2>6. CASE Flush
    BY <1>1, <2>1, <2>6 DEF Flush, FileWritten, SaveProgress, TypeOK
  <2>7. CASE Cleanup
    BY <2>1, <2>7 DEF Cleanup, SaveProgress
  <2> QED
    BY <2>2, <2>3, <2>4, <2>5, <2>6, <2>7 DEF SaveStep
<1>5. Recoverable'
  <2>1. CASE OpenForWriting
    BY <2>1, OpenForWritingRecoverable
  <2>2. CASE (Write \/ Flush) /\ FileWritten
    BY <2>2, FileWrittenRecoverable
  <2>3. CASE CopyToBackup \/ Cleanup
    BY <2>3, BackupStepRecoverable
  <2>4. CASE UNCHANGED diskVars
    BY <2>4 DEF diskVars, IInv, Recoverable, Newest, WholeBackups, Whole
  <2> QED
    BY <2>1, <2>2, <2>3, <2>4 DEF SaveStep, SaveFails, Write, Flush, diskVars
<1> QED
  BY <1>2, <1>3, <1>4, <1>5

---------------------------------------------------------------------------------
(* The theorems                                                                  *)

LEMMA NextInvariant == IInv /\ [Next]_vars => IInv'
<1> SUFFICES ASSUME IInv, [Next]_vars PROVE IInv'
  OBVIOUS
<1>1. TypeOK'
  BY NextTypeOK DEF IInv
<1>2. CASE MemoryStep
  BY <1>1, <1>2, MemoryStepInvariant DEF IInv
<1>3. CASE SaveStep
  BY <1>1, <1>3, SaveStepInvariant DEF IInv
<1>4. CASE UNCHANGED diskVars /\ (Crash \/ Tick \/ UNCHANGED vars)
  <2>1. Recoverable'
    BY <1>4 DEF diskVars, IInv, Recoverable, Newest, WholeBackups, Whole
  <2>2. CASE Crash
    BY <1>1, <2>1, <2>2 DEF Crash, diskVars, IInv, SessionConsistent, BackupsInThePast,
       SaveProgress
  <2>3. CASE Tick
    <3>1. clock <= clock' /\ clock \in Int /\ clock' \in Int
      BY <2>3, BoundsAssumption DEF Tick, IInv, TypeOK, Times
    <3>2. BackupsInThePast'
      <4>1. \A t \in Times : t <= clock => t <= clock'
        BY <3>1, BoundsAssumption DEF Times
      <4>2. bakTime \in Times
        BY DEF IInv, TypeOK
      <4> QED
        BY <2>3, <4>1, <4>2 DEF Tick, diskVars, memVars, saveVars, IInv, BackupsInThePast
    <3> QED
      BY <1>1, <2>1, <2>3, <3>2
         DEF Tick, diskVars, memVars, saveVars, IInv, SessionConsistent, SaveProgress
  <2>4. CASE UNCHANGED vars
    BY <1>1, <2>1, <2>4 DEF vars, diskVars, memVars, saveVars, IInv, SessionConsistent,
       BackupsInThePast, SaveProgress
  <2> QED
    BY <1>4, <2>2, <2>3, <2>4
<1> QED
  BY <1>2, <1>3, <1>4 DEF Next, MemoryStep, Crash, Tick, vars, diskVars

(* The conjunction of the types, of what a session and a save in progress        *)
(* guarantee and of recovery holds in every reachable state.                     *)
THEOREM Invariance == Spec => []IInv
  BY InitInvariant, NextInvariant, PTL DEF Spec

(* Every variable keeps its type: no call leaves the facade half open.           *)
THEOREM TypeCorrect == Spec => []TypeOK
<1>1. IInv => TypeOK
  BY DEF IInv
<1> QED
  BY <1>1, Invariance, PTL

(* Whatever fails and whenever the process dies, the last content that was       *)
(* wholly written to a path is what is recovered from it.                        *)
THEOREM AlwaysRecoverable == Spec => []Recoverable
<1>1. IInv => Recoverable
  BY DEF IInv
<1> QED
  BY <1>1, Invariance, PTL

(* No call of the facade dereferences a database that is not there or was not    *)
(* read, and no search result outlives the database it points into.              *)
THEOREM SessionsAreConsistent == Spec => []SessionConsistent
<1>1. IInv => SessionConsistent
  BY DEF IInv
<1> QED
  BY <1>1, Invariance, PTL

(* A whole backup is removed only by a save that has succeeded.                  *)
THEOREM FailedSavesKeepBackups == Spec => BackupsOutliveFailedSaves
<1> DEFINE Kept == \A p \in Paths, t \in Times :
                      Whole(backups[p][t]) /\ backups'[p][t] # backups[p][t]
                         => /\ ~backupOnSave
                            /\ pc = "cleanup"
                            /\ files'[p] = db.content
<1>1. ASSUME IInv, [Next]_vars PROVE Kept
  <2>1. CASE UNCHANGED backups
    BY <2>1
  <2>2. CASE CopyToBackup \/ Cleanup
    <3>1. SaveStep
      BY <2>2 DEF SaveStep
    <3>2. db.path \in Paths /\ TypeOK
      BY <1>1, <3>1, SaveStepSession DEF IInv
    <3>3. files[db.path] \in Contents \cup {Absent, Torn}
      BY <3>2 DEF TypeOK
    <3>4. CASE CopyToBackup
      <4>1. CASE UNCHANGED backups
        BY <4>1
      <4>2. CASE backups[db.path][bakTime] = Absent /\ BackupBecomes(files[db.path])
        BY <3>2, <3>3, <4>2, OneBackupWritten, SentinelsNotWhole
      <4> QED
        BY <3>4, <4>1, <4>2 DEF CopyToBackup
    <3>5. CASE Cleanup
      <4>1. CASE UNCHANGED backups
        BY <4>1
      <4>2. CASE ~backupOnSave /\ BackupBecomes(Absent)
        <5>1. pc = "cleanup" /\ files'[db.path] = db.content
          BY <1>1, <3>5 DEF Cleanup, IInv, SaveProgress
        <5> QED
          BY <3>2, <4>2, <5>1, OneBackupWritten
      <4> QED
        BY <3>5, <4>1, <4>2 DEF Cleanup
    <3> QED
      BY <2>2, <3>4, <3>5
  <2> QED
    BY <1>1, <2>1, <2>2 DEF Next, LockDatabase, UnlockFails, UnlockAborts,
       CreateDatabaseV4, UnlockSucceeds, Search, Edit, Save, ChangeMasterKey, SaveStep,
       SaveFails, OpenForWriting, Write, Flush, Crash, Tick, SetBackupDatabaseOnSave,
       vars, diskVars
<1>2. IInv /\ [Next]_vars => [Kept]_vars
  BY <1>1
<1> QED
  BY <1>2, Invariance, PTL DEF Spec, BackupsOutliveFailedSaves

----------------------------------------------------------------------------------
(* Refinement: the facade, with its save of several file operations, implements   *)
(* the store of DurableStore, where storing is a single step.                     *)

(* Because of Recoverable, what is recovered changes exactly with the history    *)
(* variable committed.                                                           *)
LEMMA RecoveredIsCommitted ==
    ASSUME Recoverable, TypeOK
    PROVE  Recovered = committed
BY DEF Recoverable, TypeOK, Recovered

LEMMA StoreStep ==
    ASSUME IInv, Write \/ Flush, FileWritten
    PROVE  Durable!Store
<1>1. /\ db \in Sessions /\ db.path \in Paths /\ Whole(db.content) /\ ~locked
      /\ UNCHANGED memVars
  BY SaveStepSession DEF SaveStep
<1>2. Recovered = committed
  BY RecoveredIsCommitted DEF IInv
<1>3. Recovered' = committed'
  BY FileWrittenRecoverable, NextTypeOK
     DEF IInv, Next, SaveStep, Recoverable, Recovered, TypeOK
<1>4. Session = [path |-> db.path, content |-> db.content] /\ Session' = Session
  BY <1>1 DEF Session, memVars
<1>5. Session \in Durable!Sessions
  BY <1>1, <1>4 DEF Durable!Sessions, Whole
<1>6. committed' = [committed EXCEPT ![Session.path] = Session.content]
  BY <1>4 DEF FileWritten
<1> QED
  BY <1>2, <1>3, <1>4, <1>5, <1>6 DEF Durable!Store

LEMMA RefinedInit == Init => Durable!Init
<1> SUFFICES ASSUME Init PROVE Durable!Init
  OBVIOUS
<1>1. Recovered = committed
  BY InitInvariant, RecoveredIsCommitted DEF IInv
<1>2. Session = NoDb
  BY DEF Init, Session
<1>3. committed \in [Paths -> Contents \cup {Absent}]
  BY InitInvariant DEF IInv, TypeOK
<1> QED
  BY <1>1, <1>2, <1>3 DEF Durable!Init

LEMMA RefinedNext == IInv /\ [Next]_vars => [Durable!Next]_(Durable!vars)
<1> SUFFICES ASSUME IInv, [Next]_vars PROVE Durable!Next \/ UNCHANGED <<Recovered, Session>>
  BY DEF Durable!vars
<1>1. IInv'
  BY NextInvariant
<1>2. Recovered = committed /\ Recovered' = committed'
  BY <1>1 DEF IInv, Recoverable, TypeOK, Recovered
<1>3. ASSUME UNCHANGED committed, Session' = NoDb PROVE Durable!Next
  <2>1. Durable!Close
    BY <1>2, <1>3 DEF Durable!Close
  <2> QED
    BY <2>1 DEF Durable!Next
<1>4. ASSUME UNCHANGED committed, UNCHANGED <<locked, db>>
      PROVE  UNCHANGED <<Recovered, Session>>
  BY <1>2, <1>4 DEF Session
<1>5. CASE LockDatabase \/ UnlockFails \/ \E p \in Paths : UnlockAborts(p)
  <2>1. UNCHANGED committed
    BY <1>5 DEF LockDatabase, UnlockFails, UnlockAborts, diskVars
  <2>2. locked \/ db # NoDb
    BY DEF IInv, SessionConsistent
  <2>3. locked' = (locked \/ db # NoDb)
    BY <1>5 DEF LockDatabase, UnlockFails, UnlockAborts, Released
  <2>4. locked'
    BY <2>2, <2>3
  <2> QED
    BY <1>3, <2>1, <2>4 DEF Session
<1>6. ASSUME NEW p \in Paths, CreateDatabaseV4(p) PROVE Durable!Next
  <2>1. db' \in Sessions /\ db'.path = p /\ ~locked'
    BY <1>1, <1>6 DEF CreateDatabaseV4, IInv, SessionConsistent, TypeOK
  <2>2. Session = NoDb /\ Session' = [path |-> p, content |-> db'.content]
    BY <1>6, <2>1 DEF CreateDatabaseV4, Session
  <2>3. db'.content \in Contents /\ UNCHANGED committed
    BY <1>6, <2>1 DEF Sessions, CreateDatabaseV4, diskVars
  <2>4. Durable!Create(p)
    BY <1>2, <2>2, <2>3 DEF Durable!Create
  <2> QED
    BY <2>4 DEF Durable!Next
<1>7. ASSUME NEW p \in Paths, NEW k \in Keys, UnlockSucceeds(p, k) PROVE Durable!Next
  <2>1. Recovered[p] = files[p] /\ files[p] \in Contents
    BY <1>7 DEF UnlockSucceeds, Recovered, Newest, Whole
  <2>2. Session' = [path |-> p, content |-> files[p]] /\ UNCHANGED committed
    BY <1>7 DEF UnlockSucceeds, Session, diskVars
  <2>3. Durable!Open(p)
    BY <1>2, <2>1, <2>2 DEF Durable!Open
  <2> QED
    BY <2>3 DEF Durable!Next
<1>8. CASE Search \/ Save \/ Tick \/ SetBackupDatabaseOnSave \/ UNCHANGED vars
  BY <1>4, <1>8 DEF Search, Save, Tick, SetBackupDatabaseOnSave, vars, diskVars, memVars
<1>9. CASE Edit \/ \E k \in Keys : ChangeMasterKey(k)
  <2>1. ~locked /\ ~locked' /\ UNCHANGED committed
    BY <1>9 DEF Edit, ChangeMasterKey, diskVars
  <2>2. db \in Sessions /\ db' \in Sessions
    BY <1>1, <2>1 DEF IInv, SessionConsistent, TypeOK
  <2>3. db'.path = db.path
    BY <1>9, <2>2 DEF Edit, ChangeMasterKey, Sessions
  <2>4. /\ Session = [path |-> db.path, content |-> db.content]
        /\ Session' = [path |-> db.path, content |-> db'.content]
    BY <2>1, <2>3 DEF Session
  <2>5. Session \in Durable!Sessions /\ db'.content \in Contents
    BY <2>2, <2>4 DEF Durable!Sessions, Sessions
  <2>6. Durable!Change
    BY <1>2, <2>1, <2>4, <2>5 DEF Durable!Change
  <2> QED
    BY <2>6 DEF Durable!Next
<1>10. CASE SaveStep
  <2>1. CASE (Write \/ Flush) /\ FileWritten
    BY <2>1, StoreStep DEF Durable!Next
  <2>2. CASE UNCHANGED committed
    BY <1>4, <1>10, <2>2, SaveStepSession DEF memVars
  <2> QED
    BY <1>10, <2>1, <2>2 DEF SaveStep, SaveFails, CopyToBackup, OpenForWriting, Write,
       Flush, Cleanup, diskVars
<1>11. CASE Crash
  BY <1>3, <1>11 DEF Crash, Session, diskVars
<1> QED
  BY <1>5, <1>6, <1>7, <1>8, <1>9, <1>10, <1>11 DEF Next

(* Every behaviour of the facade, failures and crashes included, is a behaviour  *)
(* of a store whose content changes only all at once, and only to the content of *)
(* the open session.                                                             *)
THEOREM SaveImplementsDurableStore == Spec => SaveIsAllOrNothing
  BY RefinedInit, RefinedNext, Invariance, PTL
     DEF Spec, SaveIsAllOrNothing, Durable!Spec
==================================================================================

---------------------------- MODULE PwDatabaseFacade ----------------------------
(***************************************************************************)
(* PwDatabaseFacade (db/PwDatabase.cpp): the single entry point of the UI  *)
(* to the open database, and the protocol by which save() replaces the     *)
(* database file.  The calls are synchronous on the UI thread, so no other *)
(* operation runs while a save is in progress; what does happen between    *)
(* its file operations is that one fails, that the clock advances, or that *)
(* the process dies.                                                       *)
(*                                                                         *)
(* The content of a database is abstracted to a version number, fresh for  *)
(* every edit, and the composite key it is encrypted with.                 *)
(***************************************************************************)
EXTENDS Integers, FiniteSetsExt

CONSTANTS
    Paths,       \* database files the user may choose
    Keys,        \* composite keys the user may supply (password, key file)
    UninitKey,   \* the 32 zero bytes of a newly constructed PwDatabaseV4
    Absent,      \* there is no such file
    Torn,        \* the file is empty or holds a part of a database
    NoDb,        \* the facade's db pointer is NULL
    MaxVersion,  \* bound on the number of edits
    MaxTime      \* bound on the clock, in seconds

Versions == 0..MaxVersion
Times    == 0..MaxTime
Contents == [ver : Versions, key : Keys \cup {UninitKey}]
Sessions == [path : Paths, content : Contents, loaded : BOOLEAN]

ASSUME BoundsAssumption == MaxVersion \in Nat /\ MaxTime \in Nat
ASSUME KeysAssumption == UninitKey \notin Keys
ASSUME SentinelsAssumption ==
    /\ Absent \notin Contents
    /\ Torn \notin Contents
    /\ Absent # Torn
    /\ NoDb \notin Sessions

VARIABLES
    files,         \* the database file of each path
    backups,       \* its backup copies, named by the second they were made in
    clock,         \* current time in seconds, as makeBackupFilePath() reads it
    backupOnSave,  \* Settings::isBackupDatabaseOnSave()
    locked,        \* PwDatabaseFacade::_locked
    db,            \* PwDatabaseFacade::db
    searchResult,  \* does _searchResultDataModel hold entries of db?
    pc,            \* the next file operation of the save() in progress
    bakTime,       \* the timestamp in bakFileName of that save()
    lastVer,       \* the last version number given to an edit
    committed      \* history: the last content that was wholly written to each file

diskVars == <<files, backups, committed>>
memVars  == <<locked, db, searchResult>>
saveVars == <<pc, bakTime>>
vars     == <<diskVars, memVars, saveVars, clock, backupOnSave, lastVer>>

SaveSteps == {"copy", "open", "write", "flush", "cleanup"}

Whole(file) == file \in Contents

---------------------------------------------------------------------------------
(* Recovery: what a user who looks for the database finds.                       *)

WholeBackups(p) == {t \in Times : Whole(backups[p][t])}

(* The database file when it is whole, else its newest whole backup.             *)
Newest(p) ==
    IF Whole(files[p]) THEN files[p]
    ELSE IF WholeBackups(p) # {} THEN backups[p][Max(WholeBackups(p))]
    ELSE Absent

---------------------------------------------------------------------------------
TypeOK ==
    /\ files \in [Paths -> Contents \cup {Absent, Torn}]
    /\ backups \in [Paths -> [Times -> Contents \cup {Absent, Torn}]]
    /\ clock \in Times
    /\ backupOnSave \in BOOLEAN
    /\ locked \in BOOLEAN
    /\ db \in Sessions \cup {NoDb}
    /\ searchResult \in BOOLEAN
    /\ pc \in SaveSteps \cup {"idle"}
    /\ bakTime \in Times
    /\ lastVer \in Versions
    /\ committed \in [Paths -> Contents \cup {Absent}]

Init ==
    /\ files \in [Paths -> {Absent} \cup [ver : {0}, key : Keys]]
    /\ backups = [p \in Paths |-> [t \in Times |-> Absent]]
    /\ clock = 0
    /\ backupOnSave \in BOOLEAN
    /\ locked = TRUE
    /\ db = NoDb
    /\ searchResult = FALSE
    /\ pc = "idle"
    /\ bakTime = 0
    /\ lastVer = 0
    /\ committed = files

---------------------------------------------------------------------------------
(* Opening and closing                                                           *)

(* clear() and releaseDatabase(): whatever was open is locked and deleted.  The  *)
(* lock emits dbLocked, whose handler onDbLocked() sets _locked and deletes db.  *)
Released ==
    /\ db' = NoDb
    /\ locked' = (locked \/ db # NoDb)
    /\ searchResult' = FALSE

LockDatabase ==
    /\ pc = "idle"
    /\ Released
    /\ UNCHANGED <<diskVars, saveVars, clock, backupOnSave, lastVer>>

(* unlock() begins with clear(), whatever becomes of the new file.               *)
UnlockSucceeds(p, k) ==
    /\ pc = "idle"
    /\ Whole(files[p])
    /\ files[p].key = k
    /\ db' = [path |-> p, content |-> files[p], loaded |-> TRUE]
    /\ locked' = FALSE
    /\ searchResult' = FALSE
    /\ UNCHANGED <<diskVars, saveVars, clock, backupOnSave, lastVer>>

(* The file or the key file cannot be read, the file is empty or of an unknown   *)
(* format, or readDatabase() rejects it, after which load() emits dbLocked.      *)
UnlockFails ==
    /\ pc = "idle"
    /\ Released
    /\ UNCHANGED <<diskVars, saveVars, clock, backupOnSave, lastVer>>

(* Mutant: the previous database is released without being locked.               *)
UnlockAbortsUnlocked(p) ==
    /\ pc = "idle"
    /\ files[p] # Absent
    /\ db' = [path |-> p, content |-> [ver |-> 0, key |-> UninitKey],
              loaded |-> FALSE]
    /\ searchResult' = FALSE
    /\ UNCHANGED <<diskVars, saveVars, locked, clock, backupOnSave, lastVer>>

(* load() returns at once when the composite key cannot be built: no dbLocked is *)
(* emitted, and the facade is left with an instance that was never read.         *)
UnlockAborts(p) ==
    /\ pc = "idle"
    /\ files[p] # Absent
    /\ db' = [path |-> p, content |-> [ver |-> 0, key |-> UninitKey],
              loaded |-> FALSE]
    /\ locked' = (locked \/ db # NoDb)
    /\ searchResult' = FALSE
    /\ UNCHANGED <<diskVars, saveVars, clock, backupOnSave, lastVer>>

CreateDatabaseV4(p) ==
    /\ pc = "idle"
    /\ db = NoDb
    /\ locked
    /\ lastVer < MaxVersion
    /\ lastVer' = lastVer + 1
    /\ db' = [path |-> p, content |-> [ver |-> lastVer', key |-> UninitKey],
              loaded |-> TRUE]
    /\ locked' = FALSE
    /\ UNCHANGED <<diskVars, saveVars, searchResult, clock, backupOnSave>>

Search ==
    /\ pc = "idle"
    /\ ~locked
    /\ searchResult' \in BOOLEAN
    /\ UNCHANGED <<diskVars, saveVars, locked, db, clock, backupOnSave, lastVer>>

(* Any change of a group or an entry of the open database.                       *)
Edit ==
    /\ pc = "idle"
    /\ ~locked
    /\ lastVer < MaxVersion
    /\ lastVer' = lastVer + 1
    /\ db' = [db EXCEPT !.content.ver = lastVer']
    /\ UNCHANGED <<diskVars, saveVars, locked, searchResult, clock, backupOnSave>>

---------------------------------------------------------------------------------
(* Saving                                                                        *)

(* The file bakFileName of this save.                                            *)
BackupBecomes(file) == backups' = [backups EXCEPT ![db.path][bakTime] = file]

(* Mutant: the clock is read again, a second later.                              *)
SaveStartedLate ==
    /\ pc' = "copy"
    /\ bakTime' = clock + 1

(* save() up to the first file operation: the guards, db->save() and the name of *)
(* the backup file.                                                              *)
SaveStarted ==
    /\ pc' = "copy"
    /\ bakTime' = clock

Save ==
    /\ pc = "idle"
    /\ db # NoDb
    /\ ~locked
    /\ SaveStarted
    /\ UNCHANGED <<diskVars, memVars, clock, backupOnSave, lastVer>>

(* Mutant: a failed save tidies up its backup.                                   *)
SaveFailsTidily ==
    /\ pc \in {"copy", "open", "write", "flush"}
    /\ pc' = "idle"
    /\ BackupBecomes(Absent)
    /\ UNCHANGED <<files, committed, memVars, bakTime, clock, backupOnSave, lastVer>>

(* The new key is set in memory before save() is called, and stays set when      *)
(* save() fails.                                                                 *)
ChangeMasterKey(k) ==
    /\ pc = "idle"
    /\ ~locked
    /\ db' = [db EXCEPT !.content.key = k]
    /\ \/ SaveStarted
       \/ UNCHANGED saveVars          \* db->save() failed
    /\ UNCHANGED <<diskVars, locked, searchResult, clock, backupOnSave, lastVer>>

SaveFails ==
    /\ pc \in {"copy", "open", "write", "flush"}
    /\ pc' = "idle"
    /\ UNCHANGED <<diskVars, memVars, bakTime, clock, backupOnSave, lastVer>>

(* Mutant: the result of copy() is ignored.                                      *)
CopyToBackupUnchecked ==
    /\ pc = "copy"
    /\ pc' = "open"
    /\ \/ UNCHANGED backups
       \/ /\ files[db.path] # Absent
          /\ backups[db.path][bakTime] = Absent
          /\ BackupBecomes(files[db.path])
    /\ UNCHANGED <<files, committed, memVars, bakTime, clock, backupOnSave, lastVer>>

(* QFile::copy() never overwrites: it fails when the target exists.              *)
CopyToBackup ==
    /\ pc = "copy"
    /\ pc' = "open"
    /\ \/ files[db.path] = Absent /\ UNCHANGED backups
       \/ /\ files[db.path] # Absent
          /\ backups[db.path][bakTime] = Absent
          /\ BackupBecomes(files[db.path])
    /\ UNCHANGED <<files, committed, memVars, bakTime, clock, backupOnSave, lastVer>>

(* QIODevice::WriteOnly truncates the file.                                      *)
OpenForWriting ==
    /\ pc = "open"
    /\ pc' = "write"
    /\ files' = [files EXCEPT ![db.path] = Torn]
    /\ UNCHANGED <<backups, committed, memVars, bakTime, clock, backupOnSave, lastVer>>

FileWritten ==
    /\ files' = [files EXCEPT ![db.path] = db.content]
    /\ committed' = [committed EXCEPT ![db.path] = db.content]

(* A successful write() leaves any part of the data in QFile's buffer.           *)
Write ==
    /\ pc = "write"
    /\ pc' = "flush"
    /\ FileWritten \/ UNCHANGED <<files, committed>>
    /\ UNCHANGED <<backups, memVars, bakTime, clock, backupOnSave, lastVer>>

Flush ==
    /\ pc = "flush"
    /\ pc' = "cleanup"
    /\ FileWritten
    /\ UNCHANGED <<backups, memVars, bakTime, clock, backupOnSave, lastVer>>

(* Removes the backup when backups are switched off; a failed removal is ignored.*)
Cleanup ==
    /\ pc = "cleanup"
    /\ pc' = "idle"
    /\ \/ UNCHANGED backups
       \/ /\ ~backupOnSave
          /\ BackupBecomes(Absent)
    /\ UNCHANGED <<files, committed, memVars, bakTime, clock, backupOnSave, lastVer>>

---------------------------------------------------------------------------------
(* The environment                                                               *)

(* The process is killed: memory is lost, the files stay as they are.            *)
Crash ==
    /\ db' = NoDb
    /\ locked' = TRUE
    /\ searchResult' = FALSE
    /\ pc' = "idle"
    /\ UNCHANGED <<diskVars, bakTime, clock, backupOnSave, lastVer>>

Tick ==
    /\ clock < MaxTime
    /\ clock' = clock + 1
    /\ UNCHANGED <<diskVars, memVars, saveVars, backupOnSave, lastVer>>

SetBackupDatabaseOnSave ==
    /\ pc = "idle"
    /\ backupOnSave' = ~backupOnSave
    /\ UNCHANGED <<diskVars, memVars, saveVars, clock, lastVer>>

SaveStep ==
    \/ SaveFails
    \/ CopyToBackup
    \/ OpenForWriting
    \/ Write
    \/ Flush
    \/ Cleanup

Next ==
    \/ LockDatabase
    \/ UnlockFails
    \/ \E p \in Paths : UnlockAborts(p) \/ CreateDatabaseV4(p)
    \/ \E p \in Paths, k \in Keys : UnlockSucceeds(p, k)
    \/ Search
    \/ Edit
    \/ Save
    \/ \E k \in Keys : ChangeMasterKey(k)
    \/ SaveStep
    \/ Crash
    \/ Tick
    \/ SetBackupDatabaseOnSave

Spec == Init /\ [][Next]_vars
---------------------------------------------------------------------------------
(* Properties                                                                    *)

(* At every moment, also between the file operations of a save and after a crash *)
(* or a failure in any of them, the last content that was wholly written to the  *)
(* database file is what its user recovers: save() makes a backup copy before it *)
(* truncates the file, and cancels when it cannot.                               *)
Recoverable == \A p \in Paths : Newest(p) = committed[p]

(* An unlocked facade has an instance that was read, so that search(), save()    *)
(* and changeMasterKey() may dereference db; and the search results, which hold  *)
(* pointers to entries, never outlive the database the entries belong to.        *)
SessionConsistent ==
    /\ ~locked => db # NoDb /\ db.loaded
    /\ searchResult => ~locked

(* What the names of the backups say of their age.                               *)
BackupsInThePast ==
    /\ \A p \in Paths, t \in Times : backups[p][t] # Absent => t <= clock
    /\ pc # "idle" => /\ bakTime <= clock
                      /\ \A t \in Times :
                            backups[db.path][t] # Absent => t <= bakTime

(* What a save in progress has already achieved.                                 *)
SaveProgress ==
    /\ pc # "idle" => ~locked
    /\ pc = "open" /\ Whole(files[db.path])
          => backups[db.path][bakTime] = files[db.path]
    /\ pc = "cleanup" => files[db.path] = db.content

(* The inductive invariant: Recoverable alone is not inductive, since that the   *)
(* copy made by this save is the newest backup follows from the clock, and that  *)
(* it equals the file about to be truncated from the step before.                *)
IInv ==
    /\ TypeOK
    /\ SessionConsistent
    /\ BackupsInThePast
    /\ SaveProgress
    /\ Recoverable

(* A backup that holds a whole database is never overwritten, and it is removed  *)
(* only by a save that has wholly written the file, with backups switched off.   *)
BackupsOutliveFailedSaves ==
    [][\A p \in Paths, t \in Times :
          Whole(backups[p][t]) /\ backups'[p][t] # backups[p][t]
             => /\ ~backupOnSave
                /\ pc = "cleanup"
                /\ files'[p] = db.content]_vars

(* Refinement: the multi-step save is all or nothing.                            *)
Recovered == [p \in Paths |-> Newest(p)]
Session == IF locked THEN NoDb ELSE [path |-> db.path, content |-> db.content]

Durable == INSTANCE DurableStore WITH
              Nothing   <- Absent,
              NoSession <- NoDb,
              stored    <- Recovered,
              session   <- Session

(* Opening, editing, saving, failing and crashing as the facade does, only ever  *)
(* changes what is recovered for a path from one whole content to another one,   *)
(* and only to the content of the open session.                                  *)
SaveIsAllOrNothing == Durable!Spec
=================================================================================

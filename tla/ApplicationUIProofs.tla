--------------------------- MODULE ApplicationUIProofs ---------------------------
(***************************************************************************)
(* The user interface drives the facade only through its operations, so    *)
(* that what is proved of the facade holds of the application; and no page *)
(* of a session survives its database.                                     *)
(***************************************************************************)
EXTENDS ApplicationUI, PwDatabaseFacadeProofs

(* What app.lock() does to the facade: nothing, or lock the database.             *)
LEMMA AppLockFacade ==
    ASSUME NEW openSheet, AppLock(openSheet)
    PROVE  LockDatabase \/ UNCHANGED vars
BY DEF AppLock, DatabaseLock

(* Every step of the application is a step of the facade, or leaves it alone.     *)
LEMMA AppStepIsFacadeStep == [AppNext]_appVars => [Next]_vars
<1> SUFFICES ASSUME [AppNext]_appVars PROVE Next \/ UNCHANGED vars
  OBVIOUS
<1>1. ASSUME NEW p \in Paths, NEW k \in Keys, OpenDb(p, k)
      PROVE  Next
  BY <1>1 DEF OpenDb, Next
<1>2. ASSUME NEW p \in Paths, CreateDb(p)
      PROVE  Next
  BY <1>2 DEF CreateDb, Next
<1>3. CASE EditEntry
  BY <1>3 DEF EditEntry, Next
<1>4. CASE BackToFirstPage
  BY <1>4 DEF BackToFirstPage, DatabaseLock, Next
<1>5. CASE LockAction
  BY <1>5, AppLockFacade DEF LockAction, Next
<1>6. CASE SetBackup
  BY <1>6 DEF SetBackup, Next
<1>7. ASSUME NEW k \in Keys, ApplyChanges(k)
      PROVE  Next
  BY <1>7 DEF ApplyChanges, Next
<1>8. CASE CancelKeySheet
  BY <1>8, AppLockFacade DEF CancelKeySheet, Next
<1>9. CASE SaveProceeds
  BY <1>9 DEF SaveProceeds, Next
<1>10. CASE WatchdogTimeout
  BY <1>10, AppLockFacade DEF WatchdogTimeout, Next
<1>11. CASE Minimise
  BY <1>11, AppLockFacade DEF Minimise, Next
<1>12. ASSUME NEW code \in Codes, TryQuickUnlock(code)
       PROVE  Next \/ UNCHANGED vars
  BY <1>12 DEF TryQuickUnlock, DatabaseLock, Next
<1>13. CASE CancelQuickUnlock
  BY <1>13 DEF CancelQuickUnlock, DatabaseLock, Next
<1>14. CASE Restart
  BY <1>14 DEF Restart, Next
<1>15. CASE Tick
  BY <1>15 DEF Next
<1>16. CASE SetQuickUnlockEnabled \/ Touch \/ OpenSettings \/ CloseSettings
              \/ OpenKeySheet \/ Restore
  BY <1>16
     DEF SetQuickUnlockEnabled, Touch, OpenSettings, CloseSettings, OpenKeySheet, Restore
<1>17. ASSUME NEW timeout \in Timeouts, SetAutoLockTimeout(timeout)
       PROVE  UNCHANGED vars
  BY <1>17 DEF SetAutoLockTimeout
<1>18. ASSUME NEW type \in QuickUnlockTypes, SetQuickUnlockType(type)
       PROVE  UNCHANGED vars
  BY <1>18 DEF SetQuickUnlockType
<1>19. CASE UNCHANGED appVars
  BY <1>19 DEF appVars
<1> QED
  BY <1>1, <1>2, <1>3, <1>4, <1>5, <1>6, <1>7, <1>8, <1>9, <1>10, <1>11, <1>12, <1>13,
     <1>14, <1>15, <1>16, <1>17, <1>18, <1>19
     DEF AppNext

(* AppSpec => Spec: composed with the user interface, which opens, edits, locks   *)
(* and re-keys it in its own order, the facade behaves as specified.              *)
THEOREM ApplicationUsesFacade == AppSpec => Spec
<1>1. AppInit => Init
  BY DEF AppInit
<1> QED BY <1>1, AppStepIsFacadeStep, PTL DEF AppSpec, Spec

(* AppSpec => []Recoverable /\ []SessionConsistent: what was proved of the facade *)
(* holds of the application.                                                      *)
THEOREM ApplicationIsSafe == AppSpec => [](Recoverable /\ SessionConsistent)
BY ApplicationUsesFacade, AlwaysRecoverable, SessionsAreConsistent, PTL

----------------------------------------------------------------------------------
(* Pages and sessions                                                             *)

LEMMA DatabaseLockClosesPages ==
    ASSUME DatabaseLock
    PROVE  PagesDieWithTheSession'
BY DEF DatabaseLock, OnDbLocked, PagesDieWithTheSession

LEMMA AppLockKeepsPages ==
    ASSUME NEW openSheet, AppLock(openSheet)
    PROVE  PagesDieWithTheSession'
<1>1. CASE UNCHANGED vars
  <2>1. ~locked'
    BY <1>1 DEF AppLock, vars, memVars
  <2> QED BY <2>1 DEF PagesDieWithTheSession
<1>2. CASE DatabaseLock
  BY <1>2, DatabaseLockClosesPages
<1> QED BY <1>1, <1>2 DEF AppLock

(* Steps of the facade that do not end a session.                                 *)
LEMMA SessionGoesOn ==
    ASSUME UNCHANGED locked, UNCHANGED pages, PagesDieWithTheSession
    PROVE  PagesDieWithTheSession'
BY DEF pages, PagesDieWithTheSession

LEMMA PagesStep ==
    ASSUME PagesDieWithTheSession, [AppNext]_appVars
    PROVE  PagesDieWithTheSession'
<1>1. ASSUME NEW p \in Paths, NEW k \in Keys, OpenDb(p, k)
      PROVE  PagesDieWithTheSession'
  <2>1. sheet' = "none" /\ quickPage' = FALSE /\ top = "first"
    BY <1>1 DEF OpenDb, OnFirstPage, NoSheet
  <2>2. CASE UnlockSucceeds(p, k)
    BY <2>2 DEF UnlockSucceeds, PagesDieWithTheSession
  <2>3. CASE UNCHANGED top
    BY <2>1, <2>3 DEF PagesDieWithTheSession
  <2> QED BY <1>1, <2>2, <2>3 DEF OpenDb
<1>2. ASSUME NEW p \in Paths, CreateDb(p)
      PROVE  PagesDieWithTheSession'
  BY <1>2 DEF CreateDb, CreateDatabaseV4, PagesDieWithTheSession
<1>3. CASE EditEntry
  BY <1>3, SessionGoesOn DEF EditEntry, Edit, Search, Save, memVars, uiVars
<1>4. CASE BackToFirstPage \/ CancelQuickUnlock
  BY <1>4, DatabaseLockClosesPages DEF BackToFirstPage, CancelQuickUnlock
<1>5. CASE LockAction
  BY <1>5, AppLockKeepsPages DEF LockAction
<1>6. CASE SetBackup
  BY <1>6, SessionGoesOn DEF SetBackup, SetBackupDatabaseOnSave, memVars, uiVars
<1>7. ASSUME NEW k \in Keys, ApplyChanges(k)
      PROVE  PagesDieWithTheSession'
  BY <1>7, SessionGoesOn DEF ApplyChanges, ChangeMasterKey, uiVars
<1>8. CASE CancelKeySheet
  <2>1. CASE AppLock("none")
    BY <2>1, AppLockKeepsPages
  <2>2. CASE sheet' = "none" /\ UNCHANGED <<vars, top, quickPage>>
    BY <2>2 DEF vars, memVars, PagesDieWithTheSession
  <2> QED BY <1>8, <2>1, <2>2 DEF CancelKeySheet
<1>9. CASE SaveProceeds
  <2>1. UNCHANGED locked
    BY <1>9
       DEF SaveProceeds, SaveStep, SaveFails, CopyToBackup, OpenForWriting, Write, Flush,
           Cleanup, memVars
  <2>2. CASE UNCHANGED uiVars
    BY <2>1, <2>2, SessionGoesOn DEF uiVars
  <2>3. CASE KeyAccepted
    BY <2>1, <2>3 DEF KeyAccepted, PagesDieWithTheSession
  <2> QED BY <1>9, <2>2, <2>3 DEF SaveProceeds
<1>10. CASE WatchdogTimeout
  <2>1. CASE AppLock(sheet)
    BY <2>1, AppLockKeepsPages
  <2>2. CASE UNCHANGED <<vars, pages>>
    BY <2>2, SessionGoesOn DEF vars, memVars
  <2> QED BY <1>10, <2>1, <2>2 DEF WatchdogTimeout
<1>11. CASE Minimise
  <2>1. CASE AppLock(sheet)
    BY <2>1, AppLockKeepsPages
  <2>2. CASE UNCHANGED <<vars, pages>>
    BY <2>2, SessionGoesOn DEF vars, memVars
  <2> QED BY <1>11, <2>1, <2>2 DEF Minimise
<1>12. ASSUME NEW code \in Codes, TryQuickUnlock(code)
       PROVE  PagesDieWithTheSession'
  <2>1. CASE DatabaseLock
    BY <2>1, DatabaseLockClosesPages
  <2>2. CASE quickPage' = FALSE /\ UNCHANGED <<vars, top, sheet>>
    BY <2>2 DEF vars, memVars, PagesDieWithTheSession
  <2> QED BY <1>12, <2>1, <2>2 DEF TryQuickUnlock
<1>13. CASE Restart
  BY <1>13 DEF Restart, OnDbLocked, PagesDieWithTheSession
<1>14. CASE Tick /\ UNCHANGED uiVars
  BY <1>14, SessionGoesOn DEF Tick, memVars, uiVars
<1>15. CASE SetQuickUnlockEnabled \/ Touch \/ Restore
  BY <1>15, SessionGoesOn DEF SetQuickUnlockEnabled, Touch, Restore, vars, memVars
<1>16. CASE OpenSettings
  BY <1>16 DEF OpenSettings, vars, memVars, PagesDieWithTheSession
<1>17. CASE CloseSettings
  BY <1>17 DEF CloseSettings, vars, memVars, PagesDieWithTheSession
<1>18. CASE OpenKeySheet
  BY <1>18 DEF OpenKeySheet, vars, memVars, PagesDieWithTheSession
<1>19. ASSUME NEW timeout \in Timeouts, SetAutoLockTimeout(timeout)
       PROVE  PagesDieWithTheSession'
  BY <1>19, SessionGoesOn DEF SetAutoLockTimeout, vars, memVars
<1>20. ASSUME NEW type \in QuickUnlockTypes, SetQuickUnlockType(type)
       PROVE  PagesDieWithTheSession'
  BY <1>20, SessionGoesOn DEF SetQuickUnlockType, vars, memVars
<1>21. CASE UNCHANGED appVars
  BY <1>21, SessionGoesOn DEF appVars, uiVars, vars, memVars
<1> QED
  BY <1>1, <1>2, <1>3, <1>4, <1>5, <1>6, <1>7, <1>8, <1>9, <1>10, <1>11, <1>12, <1>13,
     <1>14, <1>15, <1>16, <1>17, <1>18, <1>19, <1>20, <1>21
     DEF AppNext

(* AppSpec => []PagesDieWithTheSession: whichever handler locks the database, no  *)
(* page of its session is left.                                                   *)
THEOREM PagesNeverOutliveSessions == AppSpec => []PagesDieWithTheSession
<1>1. AppInit => PagesDieWithTheSession
  BY DEF AppInit, PagesDieWithTheSession
<1> QED BY <1>1, PagesStep, PTL DEF AppSpec
----------------------------------------------------------------------------------
(* The invariant of the application                                               *)

LEMMA FacadeKept ==
    ASSUME UNCHANGED vars
    PROVE  UNCHANGED <<files, locked, db, pc>>
BY DEF vars, diskVars, memVars, saveVars

(* Only the steps of a save write a file.                                         *)
LEMMA FilesKept ==
    ASSUME NoKeylessFile, UNCHANGED files
    PROVE  NoKeylessFile'
BY DEF NoKeylessFile, Whole

LEMMA InitAppInv == AppInit => AppInv
<1> SUFFICES ASSUME AppInit PROVE AppInv
  OBVIOUS
<1>1. NoKeylessFile
  <2> SUFFICES ASSUME NEW p \in Paths, Whole(files[p])
               PROVE  files[p].key \in Keys
    BY DEF NoKeylessFile
  <2>1. files[p] # Absent
    BY SentinelsNotWhole
  <2>2. files[p] \in [ver : {0}, key : Keys]
    BY <2>1 DEF AppInit, Init
  <2> QED BY <2>2
<1>2. locked = TRUE /\ pc = "idle"
  BY DEF AppInit, Init
<1>3. AppTypeOK
  BY DEF AppInit, AppTypeOK
<1> QED
  BY <1>1, <1>2, <1>3
     DEF AppInit, AppInv, PagesDieWithTheSession, SaveIsAlone, SessionKeys,
         SessionIsGuarded

(* Steps of the user interface alone.                                             *)
LEMMA UiStepInv ==
    ASSUME AppInv,
           \/ SetQuickUnlockEnabled \/ Touch \/ OpenSettings \/ CloseSettings
           \/ OpenKeySheet \/ Restore
           \/ \E timeout \in Timeouts : SetAutoLockTimeout(timeout)
           \/ \E type \in QuickUnlockTypes : SetQuickUnlockType(type)
    PROVE  AppInv'
<1> USE DEF AppInv, AppTypeOK, PagesDieWithTheSession, SaveIsAlone, SessionKeys,
            SessionIsGuarded, CodeMatchesSession, settings, pages
<1>1. UNCHANGED vars
  BY DEF SetQuickUnlockEnabled, Touch, OpenSettings, CloseSettings, OpenKeySheet, Restore,
         SetAutoLockTimeout, SetQuickUnlockType
<1>2. UNCHANGED <<files, locked, db, pc>>
  BY <1>1, FacadeKept
<1>3. NoKeylessFile'
  BY <1>2, FilesKept
<1>4. CASE SetQuickUnlockEnabled
  BY <1>2, <1>3, <1>4 DEF SetQuickUnlockEnabled, OnFirstPage, NoSheet, Active
<1>5. CASE Touch
  BY <1>2, <1>3, <1>5 DEF Touch, RestartWatchdog
<1>6. CASE OpenSettings
  BY <1>2, <1>3, <1>6 DEF OpenSettings, OnFirstPage, OnGroupPage, NoSheet, Active,
                          RestartWatchdog
<1>7. CASE CloseSettings
  BY <1>2, <1>3, <1>7 DEF CloseSettings, OnSettings, NoSheet, Active, RestartWatchdog
<1>8. CASE OpenKeySheet
  BY <1>2, <1>3, <1>8 DEF OpenKeySheet, NoSheet, Active, RestartWatchdog
<1>9. CASE Restore
  BY <1>2, <1>3, <1>9 DEF Restore
<1>10. ASSUME NEW timeout \in Timeouts, SetAutoLockTimeout(timeout)
       PROVE  AppInv'
  BY <1>2, <1>3, <1>10 DEF SetAutoLockTimeout, OnSettings, NoSheet, Active, Timeouts
<1>11. ASSUME NEW type \in QuickUnlockTypes, SetQuickUnlockType(type)
       PROVE  AppInv'
  BY <1>2, <1>3, <1>11 DEF SetQuickUnlockType, OnSettings, NoSheet, Active
<1> QED BY <1>4, <1>5, <1>6, <1>7, <1>8, <1>9, <1>10, <1>11

(* Whoever locks the database leaves the first page, with nothing open.           *)
LEMMA DatabaseLockInv ==
    ASSUME AppInv, IInv, DatabaseLock, quickHash' \in Codes \cup {NoHash},
           quickLocked' \in BOOLEAN, isMinimized' \in BOOLEAN,
           UNCHANGED <<settings, acceptedKey>>
    PROVE  AppInv'
<1>1. locked' = TRUE
  BY DEF DatabaseLock, LockDatabase, Released, IInv, SessionConsistent, TypeOK
<1>2. pc' = "idle" /\ UNCHANGED files
  BY DEF DatabaseLock, LockDatabase, diskVars, saveVars
<1>3. NoKeylessFile'
  BY <1>2, FilesKept DEF AppInv
<1> QED
  BY <1>1, <1>2, <1>3
     DEF DatabaseLock, OnDbLocked, settings, AppInv, AppTypeOK, PagesDieWithTheSession,
         SaveIsAlone, SessionKeys, SessionIsGuarded

(* app.lock(): the database is locked when there is no code to open the Quick     *)
(* Unlock page with.                                                              *)
LEMMA AppLockInv ==
    ASSUME AppInv, IInv, NEW openSheet \in {"none", sheet}, AppLock(openSheet),
           pc = "idle", isMinimized' \in BOOLEAN
    PROVE  AppInv'
<1>1. UNCHANGED <<settings, acceptedKey>>
  BY DEF AppLock
<1>2. CASE quickHash' = NoHash /\ quickLocked' = FALSE /\ DatabaseLock
  BY <1>1, <1>2, DatabaseLockInv
<1>3. CASE /\ quickUnlockEnabled
           /\ quickLocked' = TRUE
           /\ watchdog' = FALSE
           /\ quickPage' = TRUE
           /\ sheet' = openSheet
           /\ UNCHANGED <<vars, quickHash, top>>
  <2>1. UNCHANGED <<files, locked, db, pc>>
    BY <1>3, FacadeKept
  <2>2. NoKeylessFile'
    BY <2>1, FilesKept DEF AppInv
  <2>3. ~locked
    BY DEF AppLock
  <2> QED
    BY <1>1, <1>3, <2>1, <2>2, <2>3
       DEF settings, AppInv, AppTypeOK, PagesDieWithTheSession, SaveIsAlone, SessionKeys,
           SessionIsGuarded, CodeMatchesSession
<1> QED BY <1>2, <1>3 DEF AppLock

(* What prepareQuickUnlock() leaves: if Quick Unlock stays enabled, the code is   *)
(* one of the given key.                                                          *)
LEMMA QuickUnlockPrepared ==
    ASSUME AppTypeOK, NEW k \in Keys, PrepareQuickUnlock(k)
    PROVE  /\ quickUnlockEnabled' \in BOOLEAN /\ quickHash' \in Codes \cup {NoHash}
           /\ UNCHANGED <<quickUnlockType, autoLockTimeout>>
           /\ quickUnlockEnabled' => /\ quickUnlockEnabled
                                     /\ quickHash' \in Codes
                                     /\ quickHash'.password = PasswordOf[k]
<1>1. quickUnlockEnabled' = (quickUnlockEnabled /\ PasswordOf[k] # NoPassword)
  BY DEF PrepareQuickUnlock
<1>2. quickUnlockEnabled' => PasswordOf[k] \in Passwords
  BY <1>1, PasswordsAssumption
<1> QED
  BY <1>1, <1>2 DEF PrepareQuickUnlock, AppTypeOK, Codes

(* A session is opened with the key that prepareQuickUnlock() has seen; a failure *)
(* leaves the first page, and no session.                                         *)
LEMMA OpenDbInv ==
    ASSUME AppInv, IInv, NEW p \in Paths, NEW k \in Keys, OpenDb(p, k)
    PROVE  AppInv'
<1>1. /\ quickUnlockEnabled' \in BOOLEAN /\ quickHash' \in Codes \cup {NoHash}
      /\ UNCHANGED <<quickUnlockType, autoLockTimeout>>
      /\ quickUnlockEnabled' => /\ quickHash' \in Codes
                                /\ quickHash'.password = PasswordOf[k]
  BY QuickUnlockPrepared DEF OpenDb, AppInv
<1>2. /\ top = "first" /\ sheet = "none" /\ ~quickPage /\ ~isMinimized /\ locked
      /\ UNCHANGED <<quickLocked, isMinimized, sheet, quickPage>>
  BY DEF OpenDb, OnFirstPage, NoSheet, Active, AppInv, SessionKeys
<1>3. pc' = "idle" /\ UNCHANGED files
  BY DEF OpenDb, UnlockSucceeds, UnlockFails, UnlockAborts, OnFirstPage, Active, diskVars,
         saveVars
<1>4. NoKeylessFile'
  BY <1>3, FilesKept DEF AppInv
<1>5. CASE /\ UnlockSucceeds(p, k)
           /\ watchdog' = (autoLockTimeout = "delay")
           /\ top' = "group"
           /\ acceptedKey' = k
  <2>1. ~locked' /\ db'.content.key = k
    BY <1>5 DEF UnlockSucceeds
  <2> QED
    BY <1>1, <1>2, <1>3, <1>4, <1>5, <2>1
       DEF AppInv, AppTypeOK, PagesDieWithTheSession, SaveIsAlone, SessionKeys,
           SessionIsGuarded, CodeMatchesSession
<1>6. CASE /\ UnlockFails \/ UnlockAborts(p)
           /\ watchdog' \in {FALSE, watchdog /\ db = NoDb}
           /\ UNCHANGED <<top, acceptedKey>>
  <2>1. locked'
    BY <1>2, <1>6 DEF UnlockFails, UnlockAborts, Released
  <2>2. watchdog' \in BOOLEAN
    BY <1>6 DEF AppInv, AppTypeOK
  <2> QED
    BY <1>1, <1>2, <1>3, <1>4, <1>6, <2>1, <2>2
       DEF AppInv, AppTypeOK, PagesDieWithTheSession, SaveIsAlone, SessionKeys,
           SessionIsGuarded
<1> QED BY <1>5, <1>6 DEF OpenDb

(* A new database has no key, and Quick Unlock is switched off.                   *)
LEMMA CreateDbInv ==
    ASSUME AppInv, NEW p \in Paths, CreateDb(p)
    PROVE  AppInv'
<1>1. pc' = "idle" /\ UNCHANGED files /\ ~locked'
  BY DEF CreateDb, CreateDatabaseV4, diskVars, saveVars
<1>2. NoKeylessFile'
  BY <1>1, FilesKept DEF AppInv
<1> QED
  BY <1>1, <1>2
     DEF CreateDb, OnFirstPage, NoSheet, Active, RestartWatchdog, AppInv, AppTypeOK,
         PagesDieWithTheSession, SaveIsAlone, SessionKeys, SessionIsGuarded

(* Steps of the facade that change nothing of the user interface.                 *)
LEMMA QuietStepInv ==
    ASSUME AppInv, UNCHANGED <<uiVars, locked, files>>,
           ~locked => db'.content.key \in Keys \/ db'.content.key = db.content.key,
           SaveIsAlone'
    PROVE  AppInv'
<1>1. NoKeylessFile'
  BY FilesKept DEF AppInv
<1> QED
  BY <1>1
     DEF uiVars, settings, pages, AppInv, AppTypeOK, PagesDieWithTheSession, SessionKeys,
         SessionIsGuarded, CodeMatchesSession

(* Edits, searches and saves of a session with a key, on its pages only.          *)
LEMMA EditEntryInv ==
    ASSUME AppInv, IInv, EditEntry
    PROVE  AppInv'
<1>1. UNCHANGED <<uiVars, locked, files>> /\ ~locked
  BY DEF EditEntry, Edit, Search, Save, diskVars, memVars
<1>2. db'.content.key = db.content.key
  <2>1. db \in Sessions
    BY <1>1, SessionContents DEF IInv, SessionConsistent
  <2> QED
    BY <2>1 DEF EditEntry, Edit, Search, Save, memVars, Sessions, Contents
<1>3. db.content.key \in Keys /\ ~quickPage /\ ~isMinimized
  BY <1>1 DEF EditEntry, OnGroupPage, NoSheet, Active, AppInv, SessionKeys
<1>4. SaveIsAlone'
  BY <1>1, <1>2, <1>3 DEF SaveIsAlone, uiVars, pages
<1> QED BY <1>1, <1>2, <1>4, QuietStepInv

(* The sheet's new key, before the save that writes it.                           *)
LEMMA ApplyChangesInv ==
    ASSUME AppInv, IInv, NEW k \in Keys, ApplyChanges(k)
    PROVE  AppInv'
<1>1. UNCHANGED <<uiVars, locked, files>> /\ ~locked
  BY DEF ApplyChanges, ChangeMasterKey, diskVars
<1>2. db'.content.key = k
  <2>1. db \in Sessions
    BY <1>1, SessionContents DEF IInv, SessionConsistent
  <2> QED
    BY <2>1 DEF ApplyChanges, ChangeMasterKey, Sessions, Contents
<1>3. SaveIsAlone'
  BY <1>1, <1>2 DEF SaveIsAlone, ApplyChanges, OnKeySheet, Active, uiVars, pages
<1> QED BY <1>1, <1>2, <1>3, QuietStepInv

(* A file gets the content of the session whose save is going on, or is torn.     *)
LEMMA SaveStepFiles ==
    ASSUME AppInv, IInv, SaveStep
    PROVE  NoKeylessFile'
<1>1. pc # "idle"
  BY DEF SaveStep, SaveFails, CopyToBackup, OpenForWriting, Write, Flush, Cleanup
<1>2. db.content.key \in Keys /\ ~locked
  BY <1>1 DEF AppInv, SaveIsAlone, IInv, SaveProgress
<1>3. files \in [Paths -> Contents \cup {Absent, Torn}]
  BY DEF IInv, TypeOK
<1>4. CASE UNCHANGED files
  BY <1>4, FilesKept DEF AppInv
<1>5. ASSUME NEW new \in {Torn, db.content},
             files' = [files EXCEPT ![db.path] = new]
      PROVE  NoKeylessFile'
  <2> SUFFICES ASSUME NEW q \in Paths, Whole(files'[q])
               PROVE  files'[q].key \in Keys
    BY DEF NoKeylessFile, Whole
  <2>1. files'[q] \in {files[q], new}
    BY <1>3, <1>5
  <2>2. CASE files'[q] = files[q]
    BY <2>2 DEF AppInv, NoKeylessFile, Whole
  <2>3. CASE files'[q] = new
    BY <1>2, <2>3, SentinelsNotWhole
  <2> QED BY <2>1, <2>2, <2>3
<1>6. CASE OpenForWriting
  BY <1>5, <1>6 DEF OpenForWriting
<1>7. CASE FileWritten
  BY <1>5, <1>7 DEF FileWritten
<1> QED
  BY <1>4, <1>6, <1>7 DEF SaveStep, SaveFails, CopyToBackup, Write, Flush, Cleanup, diskVars

(* When the save that the sheet has started is through, its key is accepted.      *)
LEMMA SaveProceedsInv ==
    ASSUME AppInv, IInv, SaveProceeds
    PROVE  AppInv'
<1>1. SaveStep
  BY DEF SaveProceeds
<1>2. pc # "idle" /\ UNCHANGED memVars
  BY <1>1 DEF SaveStep, SaveFails, CopyToBackup, OpenForWriting, Write, Flush, Cleanup
<1>3. UNCHANGED <<locked, db>>
  BY <1>2 DEF memVars
<1>4. NoKeylessFile'
  BY <1>1, SaveStepFiles
<1>5. ~quickPage /\ ~isMinimized /\ db.content.key \in Keys
  BY <1>2 DEF AppInv, SaveIsAlone
<1>6. CASE UNCHANGED uiVars
  BY <1>3, <1>4, <1>5, <1>6
     DEF uiVars, settings, pages, AppInv, AppTypeOK, PagesDieWithTheSession, SaveIsAlone,
         SessionKeys, SessionIsGuarded, CodeMatchesSession
<1>7. CASE KeyAccepted
  <2>1. acceptedKey' = db.content.key /\ PrepareQuickUnlock(db.content.key)
    BY <1>7 DEF KeyAccepted
  <2>2. /\ quickUnlockEnabled' \in BOOLEAN /\ quickHash' \in Codes \cup {NoHash}
        /\ UNCHANGED <<quickUnlockType, autoLockTimeout>>
        /\ quickUnlockEnabled' => /\ quickHash' \in Codes
                                  /\ quickHash'.password = PasswordOf[db.content.key]
    BY <1>5, <2>1, QuickUnlockPrepared DEF AppInv
  <2> QED
    BY <1>3, <1>4, <1>5, <1>7, <2>1, <2>2
       DEF KeyAccepted, AppInv, AppTypeOK, PagesDieWithTheSession, SaveIsAlone,
           SessionKeys, SessionIsGuarded, CodeMatchesSession
<1> QED BY <1>6, <1>7 DEF SaveProceeds

LEMMA TryQuickUnlockInv ==
    ASSUME AppInv, IInv, NEW code \in Codes, TryQuickUnlock(code)
    PROVE  AppInv'
<1>1. /\ quickLocked' = FALSE
      /\ UNCHANGED <<quickHash, settings, isMinimized, acceptedKey>>
      /\ ~isMinimized /\ pc = "idle" /\ quickPage
  BY DEF TryQuickUnlock, Active
<1>2. CASE DatabaseLock
  BY <1>1, <1>2, DatabaseLockInv DEF AppInv, AppTypeOK
<1>3. CASE quickPage' = FALSE /\ RestartWatchdog /\ UNCHANGED <<vars, top, sheet>>
  <2>1. UNCHANGED <<files, locked, db, pc>>
    BY <1>3, FacadeKept
  <2>2. NoKeylessFile'
    BY <2>1, FilesKept DEF AppInv
  <2> QED
    BY <1>1, <1>3, <2>1, <2>2
       DEF RestartWatchdog, settings, AppInv, AppTypeOK, PagesDieWithTheSession,
           SaveIsAlone, SessionKeys, SessionIsGuarded, CodeMatchesSession
<1> QED BY <1>1, <1>2, <1>3 DEF TryQuickUnlock

(* Handlers that lock the database or the screen, or find nothing to lock.        *)
LEMMA LockingInv ==
    ASSUME AppInv, IInv,
           \/ BackToFirstPage \/ LockAction \/ CancelKeySheet \/ WatchdogTimeout
           \/ Minimise \/ CancelQuickUnlock
    PROVE  AppInv'
<1> USE DEF AppInv, AppTypeOK, PagesDieWithTheSession, SaveIsAlone, SessionKeys,
            SessionIsGuarded, CodeMatchesSession, settings, pages
<1>1. CASE BackToFirstPage \/ CancelQuickUnlock
  BY <1>1, DatabaseLockInv DEF BackToFirstPage, CancelQuickUnlock
<1>2. CASE LockAction
  BY <1>2, AppLockInv DEF LockAction, Active
<1>3. CASE CancelKeySheet
  <2>1. pc = "idle" /\ ~quickPage /\ UNCHANGED isMinimized
    BY <1>3 DEF CancelKeySheet, OnKeySheet, Active
  <2>2. CASE AppLock("none")
    BY <2>1, <2>2, AppLockInv
  <2>3. CASE /\ sheet = "rekey" /\ sheet' = "none"
             /\ UNCHANGED <<vars, quickLocked, quickHash, settings, watchdog, top,
                            quickPage, acceptedKey>>
    BY <2>1, <2>3, FacadeKept, FilesKept
  <2> QED BY <1>3, <2>2, <2>3 DEF CancelKeySheet
<1>4. CASE WatchdogTimeout
  <2>1. CASE AppLock(sheet)
    BY <1>4, <2>1, AppLockInv DEF WatchdogTimeout
  <2>2. CASE /\ locked /\ watchdog' = FALSE
             /\ UNCHANGED <<vars, quickLocked, quickHash, settings, pages, acceptedKey>>
    BY <1>4, <2>2, FacadeKept, FilesKept DEF WatchdogTimeout
  <2> QED BY <1>4, <2>1, <2>2 DEF WatchdogTimeout
<1>5. CASE Minimise
  <2>1. CASE AppLock(sheet)
    BY <1>5, <2>1, AppLockInv DEF Minimise, Active
  <2>2. CASE /\ locked \/ autoLockTimeout # "onMinimise"
             /\ UNCHANGED <<vars, quickLocked, quickHash, settings, watchdog, pages,
                            acceptedKey>>
    BY <1>5, <2>2, FacadeKept, FilesKept DEF Minimise, Active
  <2> QED BY <1>5, <2>1, <2>2 DEF Minimise
<1> QED BY <1>1, <1>2, <1>3, <1>4, <1>5

(* The restart, the clock and the settings of the backup.                         *)
LEMMA OtherStepInv ==
    ASSUME AppInv, Restart \/ SetBackup \/ (Tick /\ UNCHANGED uiVars)
    PROVE  AppInv'
<1>1. CASE Restart
  <2>1. UNCHANGED files /\ locked' /\ pc' = "idle"
    BY <1>1 DEF Restart, Crash, diskVars
  <2>2. NoKeylessFile'
    BY <2>1, FilesKept DEF AppInv
  <2> QED
    BY <1>1, <2>1, <2>2
       DEF Restart, OnDbLocked, settings, AppInv, AppTypeOK, PagesDieWithTheSession,
           SaveIsAlone, SessionKeys, SessionIsGuarded
<1>2. CASE UNCHANGED uiVars /\ (SetBackupDatabaseOnSave \/ Tick)
  <2>1. UNCHANGED <<files, locked, db, pc>>
    BY <1>2 DEF SetBackupDatabaseOnSave, Tick, diskVars, memVars, saveVars
  <2>2. SaveIsAlone'
    BY <1>2, <2>1 DEF AppInv, SaveIsAlone, uiVars, pages
  <2> QED BY <1>2, <2>1, <2>2, QuietStepInv
<1> QED BY <1>1, <1>2 DEF SetBackup

LEMMA NextAppInv == AppInv /\ IInv /\ [AppNext]_appVars => AppInv'
<1> SUFFICES ASSUME AppInv, IInv, [AppNext]_appVars PROVE AppInv'
  OBVIOUS
<1>1. CASE UNCHANGED appVars
  <2>1. UNCHANGED <<uiVars, vars>>
    BY <1>1 DEF appVars
  <2>2. UNCHANGED <<files, locked, db, pc>>
    BY <2>1, FacadeKept
  <2>3. SaveIsAlone'
    BY <2>1, <2>2 DEF AppInv, SaveIsAlone, uiVars, pages
  <2> QED BY <2>1, <2>2, <2>3, QuietStepInv
<1> QED
  BY <1>1, UiStepInv, OpenDbInv, CreateDbInv, EditEntryInv, ApplyChangesInv,
     SaveProceedsInv, TryQuickUnlockInv, LockingInv, OtherStepInv
     DEF AppNext

(* AppSpec => []AppInv: in every order of user, timers, background and restarts.  *)
THEOREM ApplicationInvariance == AppSpec => []AppInv
<1>1. AppInit => AppInv
  BY InitAppInv
<1>2. AppSpec => []IInv
  BY ApplicationUsesFacade, Invariance, PTL
<1>3. AppInv /\ IInv /\ [AppNext]_appVars => AppInv'
  BY NextAppInv
<1> QED BY <1>1, <1>2, <1>3, PTL DEF AppSpec

(* AppSpec => []NoKeylessFile: nothing the user does, and nothing that interrupts *)
(* him, saves a database before it has a key of his.                              *)
THEOREM FilesHaveKeys == AppSpec => []NoKeylessFile
<1>1. AppInv => NoKeylessFile
  BY DEF AppInv
<1> QED BY <1>1, ApplicationInvariance, PTL

(* AppSpec => []QuickCodeMatchesSession: the code asked for is one of the session *)
(* it opens, and of the key that the session has now.                             *)
THEOREM QuickCodesAreNeverStale == AppSpec => []QuickCodeMatchesSession
<1>1. AppInv => QuickCodeMatchesSession
  BY DEF AppInv, PagesDieWithTheSession, SessionKeys, CodeMatchesSession,
         QuickCodeMatchesSession
<1> QED BY <1>1, ApplicationInvariance, PTL

(* AppSpec => []SessionIsGuarded: no order of page changes, settings, timers and  *)
(* minimising leaves an open session without the guard the settings ask for.      *)
THEOREM SessionsAreGuarded == AppSpec => []SessionIsGuarded
<1>1. AppInv => SessionIsGuarded
  BY DEF AppInv
<1> QED BY <1>1, ApplicationInvariance, PTL
==================================================================================

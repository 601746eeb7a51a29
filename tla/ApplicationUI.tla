------------------------------ MODULE ApplicationUI ------------------------------
(***************************************************************************)
(* ApplicationUI (applicationui.cpp) and the pages that drive it (main.qml,*)
(* UnlockDbPage, QuickUnlockPage, ChangeMasterKeyPage, AppSettings),       *)
(* composed with the facade: how a session is opened, quick-locked, locked *)
(* by inactivity or by minimisation, and how its master key is changed.    *)
(*                                                                         *)
(* UI handlers run on one thread, which save() blocks: a handler starts    *)
(* only when no save is in progress (pc = "idle").  Sheets are modal.      *)
(***************************************************************************)
EXTENDS PwDatabaseFacade

CONSTANTS
    Passwords,        \* master passwords
    NoPassword,       \* the empty password of a key that is a key file only
    PasswordOf,       \* the password part of each composite key
    QuickUnlockTypes, \* Settings::QuickUnlockType: which symbols of the password
    NoHash            \* quickPassHash is empty

ASSUME PasswordsAssumption ==
    /\ NoPassword \notin Passwords
    /\ PasswordOf \in [Keys -> Passwords \cup {NoPassword}]

VARIABLES
    quickLocked,         \* ApplicationUI::quickLocked, shown on the cover
    quickHash,           \* quickPassHash: what was hashed, and as which type
    quickUnlockEnabled,  \* settings
    quickUnlockType,
    autoLockTimeout,
    watchdog,            \* is the inactivity timer active?
    isMinimized,
    top,                 \* the page on top of naviPane
    sheet,               \* the master key sheet, if open
    quickPage,           \* is the Quick Unlock sheet open?
    acceptedKey          \* history: the key the session was opened or re-keyed with

settings == <<quickUnlockEnabled, quickUnlockType, autoLockTimeout>>
pages    == <<top, sheet, quickPage>>
uiVars   == <<quickLocked, quickHash, settings, watchdog, isMinimized, pages, acceptedKey>>
appVars  == <<vars, uiVars>>

\* Negative: never; zero: when minimized; positive: after that time.
Timeouts == {"never", "onMinimise", "delay"}
Codes    == [password : Passwords, type : QuickUnlockTypes]

AppTypeOK ==
    /\ quickLocked \in BOOLEAN
    /\ quickHash \in Codes \cup {NoHash}
    /\ quickUnlockEnabled \in BOOLEAN
    /\ quickUnlockType \in QuickUnlockTypes
    /\ autoLockTimeout \in Timeouts
    /\ watchdog \in BOOLEAN
    /\ isMinimized \in BOOLEAN
    /\ top \in {"first", "group", "settings"}
    /\ sheet \in {"none", "creation", "rekey"}
    /\ quickPage \in BOOLEAN
    /\ acceptedKey \in Keys \cup {UninitKey}

AppInit ==
    /\ Init
    /\ quickLocked = FALSE
    /\ quickHash = NoHash
    /\ quickUnlockEnabled \in BOOLEAN
    /\ quickUnlockType \in QuickUnlockTypes
    /\ autoLockTimeout \in Timeouts
    /\ watchdog = FALSE
    /\ isMinimized = FALSE
    /\ top = "first"
    /\ sheet = "none"
    /\ quickPage = FALSE
    /\ acceptedKey = UninitKey

----------------------------------------------------------------------------------
(* What the user can reach                                                        *)

Active       == pc = "idle" /\ ~isMinimized
NoSheet      == sheet = "none" /\ ~quickPage
OnFirstPage  == Active /\ NoSheet /\ top = "first"
OnGroupPage  == Active /\ NoSheet /\ top = "group"
OnSettings   == Active /\ NoSheet /\ top = "settings"
OnKeySheet   == Active /\ ~quickPage /\ sheet # "none"

(* Handlers shared by several actions                                             *)

RestartWatchdog == watchdog' = (watchdog \/ autoLockTimeout = "delay")

(* Mutant: the master key sheet does not listen to dbLocked.                      *)
OnDbLockedWithSheet ==
    /\ watchdog' = FALSE
    /\ top' = "first"
    /\ quickPage' = FALSE
    /\ sheet' = sheet

(* main.qml and the sheets, when the facade emits dbLocked.                       *)
OnDbLocked ==
    /\ watchdog' = FALSE
    /\ top' = "first"
    /\ quickPage' = FALSE
    /\ sheet' = "none"

(* database.lock() called while a session is open.                                *)
DatabaseLock ==
    /\ LockDatabase
    /\ OnDbLocked

(* Mutant: a key without a password does not switch Quick Unlock off.             *)
PrepareQuickUnlockAlways(k) ==
    /\ quickHash' = IF quickUnlockEnabled
                    THEN [password |-> PasswordOf[k], type |-> quickUnlockType]
                    ELSE quickHash
    /\ UNCHANGED settings

(* A key file alone switches Quick Unlock off; with a password, prepareQuickUnlock*)
(* remembers the hash of a part of it.                                            *)
PrepareQuickUnlock(k) ==
    /\ quickUnlockEnabled' = (quickUnlockEnabled /\ PasswordOf[k] # NoPassword)
    /\ quickHash' = IF quickUnlockEnabled'
                    THEN [password |-> PasswordOf[k], type |-> quickUnlockType]
                    ELSE quickHash
    /\ UNCHANGED <<quickUnlockType, autoLockTimeout>>

(* app.lock() while a session is open; openSheet stays behind the Quick Unlock    *)
(* page.                                                                          *)
AppLock(openSheet) ==
    /\ ~locked
    /\ \/ /\ quickUnlockEnabled
          /\ quickLocked' = TRUE
          /\ watchdog' = FALSE
          /\ quickPage' = TRUE
          /\ sheet' = openSheet
          /\ UNCHANGED <<vars, quickHash, top>>
       \/ /\ ~quickUnlockEnabled
          /\ quickHash' = NoHash
          /\ DatabaseLock
          /\ quickLocked' = FALSE
    /\ UNCHANGED <<settings, acceptedKey>>

----------------------------------------------------------------------------------
(* UnlockDbPage                                                                   *)

(* prepareQuickUnlock() runs before unlock() knows whether the key is right.      *)
(* clear() emits dbLocked when an instance is left over, and so does load() when  *)
(* it fails.                                                                      *)
OpenDb(p, k) ==
    /\ OnFirstPage
    /\ PrepareQuickUnlock(k)
    /\ \/ /\ UnlockSucceeds(p, k)
          /\ watchdog' = (autoLockTimeout = "delay")
          /\ top' = "group"
          /\ acceptedKey' = k
       \/ /\ UnlockFails
          /\ watchdog' \in {FALSE, watchdog /\ db = NoDb}
          /\ UNCHANGED <<top, acceptedKey>>
       \/ /\ UnlockAborts(p)
          /\ watchdog' = (watchdog /\ db = NoDb)
          /\ UNCHANGED <<top, acceptedKey>>
    /\ UNCHANGED <<quickLocked, isMinimized, sheet, quickPage>>

(* Mutant: Quick Unlock stays enabled while a database is created.                *)
CreateDbQuickly(p) ==
    /\ OnFirstPage
    /\ CreateDatabaseV4(p)
    /\ RestartWatchdog
    /\ top' = "group"
    /\ sheet' = "creation"
    /\ acceptedKey' = UninitKey
    /\ UNCHANGED <<quickLocked, quickHash, settings, isMinimized, quickPage>>

(* The new database is in memory only; the sheet that opens lets the user set its *)
(* key, and switches Quick Unlock off.                                            *)
CreateDb(p) ==
    /\ OnFirstPage
    /\ CreateDatabaseV4(p)
    /\ RestartWatchdog
    /\ top' = "group"
    /\ sheet' = "creation"
    /\ quickUnlockEnabled' = FALSE
    /\ acceptedKey' = UninitKey
    /\ UNCHANGED <<quickLocked, quickHash, quickUnlockType, autoLockTimeout,
                   isMinimized, quickPage>>

SetQuickUnlockEnabled ==
    /\ OnFirstPage
    /\ quickUnlockEnabled' = ~quickUnlockEnabled
    /\ UNCHANGED <<vars, quickLocked, quickHash, quickUnlockType, autoLockTimeout,
                   watchdog, isMinimized, pages, acceptedKey>>

----------------------------------------------------------------------------------
(* Pages of an open session, and settings                                         *)

EditEntry ==
    /\ OnGroupPage
    /\ Edit \/ Search \/ Save
    /\ UNCHANGED uiVars

(* Touches and page changes, on every page but the first one.                     *)
Touch ==
    /\ Active
    /\ ~quickPage
    /\ top # "first"
    /\ RestartWatchdog
    /\ UNCHANGED <<vars, quickLocked, quickHash, settings, isMinimized, pages,
                   acceptedKey>>

(* Popping the last page of the session locks the database.                       *)
BackToFirstPage ==
    /\ OnGroupPage
    /\ DatabaseLock
    /\ UNCHANGED <<quickLocked, quickHash, settings, isMinimized, acceptedKey>>

LockAction ==
    /\ Active
    /\ NoSheet
    /\ AppLock("none")
    /\ UNCHANGED isMinimized

OpenSettings ==
    /\ OnFirstPage \/ OnGroupPage
    /\ top' = "settings"
    /\ RestartWatchdog
    /\ UNCHANGED <<vars, quickLocked, quickHash, settings, isMinimized, sheet,
                   quickPage, acceptedKey>>

CloseSettings ==
    /\ OnSettings
    /\ \/ locked /\ top' = "first" /\ UNCHANGED watchdog
       \/ ~locked /\ top' = "group" /\ RestartWatchdog
    /\ UNCHANGED <<vars, quickLocked, quickHash, settings, isMinimized, sheet,
                   quickPage, acceptedKey>>

(* onWatchdogTimeoutChanged() stops the timer or sets its interval.               *)
SetAutoLockTimeout(timeout) ==
    /\ OnSettings
    /\ timeout # autoLockTimeout
    /\ autoLockTimeout' = timeout
    /\ watchdog' = (watchdog /\ timeout = "delay")
    /\ UNCHANGED <<vars, quickLocked, quickHash, quickUnlockEnabled, quickUnlockType,
                   isMinimized, pages, acceptedKey>>

SetQuickUnlockType(type) ==
    /\ OnSettings
    /\ type # quickUnlockType
    /\ quickUnlockType' = type
    /\ UNCHANGED <<vars, quickLocked, quickHash, quickUnlockEnabled, autoLockTimeout,
                   watchdog, isMinimized, pages, acceptedKey>>

SetBackup ==
    /\ OnSettings
    /\ SetBackupDatabaseOnSave
    /\ UNCHANGED uiVars

----------------------------------------------------------------------------------
(* ChangeMasterKeyPage                                                            *)

OpenKeySheet ==
    /\ Active
    /\ NoSheet
    /\ ~locked
    /\ sheet' = "rekey"
    /\ RestartWatchdog
    /\ UNCHANGED <<vars, quickLocked, quickHash, settings, isMinimized, top, quickPage,
                   acceptedKey>>

ApplyChanges(k) ==
    /\ OnKeySheet
    /\ ChangeMasterKey(k)
    /\ UNCHANGED uiVars

CancelKeySheet ==
    /\ OnKeySheet
    /\ \/ /\ sheet = "rekey"
          /\ sheet' = "none"
          /\ UNCHANGED <<vars, quickLocked, quickHash, settings, watchdog, top,
                         quickPage, acceptedKey>>
       \/ sheet = "creation" /\ AppLock("none")
    /\ UNCHANGED isMinimized

(* Mutant: the quick password is not updated.                                     *)
KeyAcceptedOnly ==
    /\ acceptedKey' = db.content.key
    /\ sheet' = "none"
    /\ UNCHANGED <<quickLocked, quickHash, settings, watchdog, isMinimized, top,
                   quickPage>>

(* save() has returned true to changeMasterKey() of the sheet.                    *)
KeyAccepted ==
    /\ acceptedKey' = db.content.key
    /\ PrepareQuickUnlock(acceptedKey')
    /\ sheet' = "none"
    /\ UNCHANGED <<quickLocked, watchdog, isMinimized, top, quickPage>>

(* Only the sheet looks at the result of save(), and it stays open when that is   *)
(* false.                                                                         *)
SaveProceeds ==
    /\ SaveStep
    /\ IF Cleanup /\ sheet # "none" THEN KeyAccepted ELSE UNCHANGED uiVars

----------------------------------------------------------------------------------
(* Locking without the user                                                       *)

WatchdogTimeout ==
    /\ pc = "idle"
    /\ watchdog
    /\ \/ AppLock(sheet)
       \/ /\ locked
          /\ watchdog' = FALSE
          /\ UNCHANGED <<vars, quickLocked, quickHash, settings, pages, acceptedKey>>
    /\ UNCHANGED isMinimized

Minimise ==
    /\ Active
    /\ isMinimized' = TRUE
    /\ \/ ~locked /\ autoLockTimeout = "onMinimise" /\ AppLock(sheet)
       \/ /\ locked \/ autoLockTimeout # "onMinimise"
          /\ UNCHANGED <<vars, quickLocked, quickHash, settings, watchdog, pages,
                         acceptedKey>>

Restore ==
    /\ pc = "idle"
    /\ isMinimized
    /\ isMinimized' = FALSE
    /\ UNCHANGED <<vars, quickLocked, quickHash, settings, watchdog, pages, acceptedKey>>

----------------------------------------------------------------------------------
(* QuickUnlockPage                                                                *)

(* Mutant: the timer that app.lock() stopped is not started again.                *)
TryQuickUnlockUnguarded(code) ==
    /\ Active
    /\ quickPage
    /\ quickLocked' = FALSE
    /\ \/ /\ code = quickHash
          /\ quickPage' = FALSE
          /\ UNCHANGED <<vars, watchdog, top, sheet>>
       \/ code # quickHash /\ DatabaseLock
    /\ UNCHANGED <<quickHash, settings, isMinimized, acceptedKey>>

TryQuickUnlock(code) ==
    /\ Active
    /\ quickPage
    /\ quickLocked' = FALSE
    /\ \/ /\ code = quickHash
          /\ quickPage' = FALSE
          /\ RestartWatchdog
          /\ UNCHANGED <<vars, top, sheet>>
       \/ code # quickHash /\ DatabaseLock
    /\ UNCHANGED <<quickHash, settings, isMinimized, acceptedKey>>

CancelQuickUnlock ==
    /\ Active
    /\ quickPage
    /\ DatabaseLock
    /\ UNCHANGED <<quickLocked, quickHash, settings, isMinimized, acceptedKey>>

----------------------------------------------------------------------------------
(* The process dies, or the user exits it, and it is started again: the settings  *)
(* are kept.                                                                      *)
Restart ==
    /\ Crash
    /\ OnDbLocked
    /\ quickLocked' = FALSE
    /\ quickHash' = NoHash
    /\ isMinimized' = FALSE
    /\ acceptedKey' = UninitKey
    /\ UNCHANGED settings

AppNext ==
    \/ \E p \in Paths, k \in Keys : OpenDb(p, k)
    \/ \E p \in Paths : CreateDb(p)
    \/ SetQuickUnlockEnabled
    \/ EditEntry
    \/ Touch
    \/ BackToFirstPage
    \/ LockAction
    \/ OpenSettings
    \/ CloseSettings
    \/ \E timeout \in Timeouts : SetAutoLockTimeout(timeout)
    \/ \E type \in QuickUnlockTypes : SetQuickUnlockType(type)
    \/ SetBackup
    \/ OpenKeySheet
    \/ \E k \in Keys : ApplyChanges(k)
    \/ CancelKeySheet
    \/ SaveProceeds
    \/ WatchdogTimeout
    \/ Minimise
    \/ Restore
    \/ \E code \in Codes : TryQuickUnlock(code)
    \/ CancelQuickUnlock
    \/ Restart
    \/ Tick /\ UNCHANGED uiVars

AppSpec == AppInit /\ [][AppNext]_appVars
----------------------------------------------------------------------------------
(* Properties                                                                     *)

(* The pages of a session hold pointers to its groups and entries: whoever locks  *)
(* the database, and from whichever page, none of them stays.                     *)
PagesDieWithTheSession == top = "group" \/ sheet # "none" \/ quickPage => ~locked

(* createDatabaseV4() leaves the zero bytes of a new instance as the master key;  *)
(* there is no way, through Quick Unlock in particular, to save the database      *)
(* before the sheet has set a key.                                                *)
NoKeylessFile == \A p \in Paths : Whole(files[p]) => files[p].key \in Keys

(* What opens the Quick Unlock page is a part of the password the session was     *)
(* opened with, or last re-keyed to: never one left from a previous session.      *)
QuickCodeMatchesSession ==
    quickPage => /\ quickHash \in Codes
                 /\ \E k \in Keys : /\ k = acceptedKey
                                    /\ quickHash.password = PasswordOf[k]

(* With a time out, an accessible session has its timer running, unless the user  *)
(* is just setting it; with lock on minimise, a minimised session is not          *)
(* accessible.                                                                    *)
SessionIsGuarded ==
    ~locked /\ ~quickPage =>
       /\ autoLockTimeout = "delay" => watchdog \/ top = "settings"
       /\ autoLockTimeout = "onMinimise" => ~isMinimized

(* The code that opens the Quick Unlock page is a part of the password of the     *)
(* session.                                                                       *)
CodeMatchesSession ==
    /\ acceptedKey \in Keys
    /\ quickHash \in Codes
    /\ quickHash.password = PasswordOf[acceptedKey]

(* A save blocks the thread of the user interface: it neither starts under the    *)
(* Quick Unlock page or in the background, nor is it overtaken by them, and the   *)
(* key it writes is one the user has given.                                       *)
SaveIsAlone ==
    pc # "idle" => /\ ~quickPage
                   /\ ~isMinimized
                   /\ db.content.key \in Keys

(* Which sessions have no key, and which may be locked by the Quick Unlock page.  *)
SessionKeys ==
    /\ top = "first" => locked
    /\ sheet = "creation" => ~quickUnlockEnabled
    /\ quickPage => quickUnlockEnabled
    /\ ~locked /\ sheet # "creation" => db.content.key \in Keys
    /\ ~locked /\ quickUnlockEnabled => CodeMatchesSession

(* The inductive invariant.  That no file is keyless, and no code stale, rests on *)
(* the settings: Quick Unlock is switched off while a database has no key, and    *)
(* only the first page, on which no session is open, can switch it on.            *)
AppInv ==
    /\ AppTypeOK
    /\ PagesDieWithTheSession
    /\ NoKeylessFile
    /\ SaveIsAlone
    /\ SessionKeys
    /\ SessionIsGuarded

(* changeMasterKey() changes the key of the file, "returns true if successful",   *)
(* otherwise false: no other save changes the key of a file.                      *)
KeyChangesOnlyOnRequest ==
    [][\A p \in Paths : Whole(committed[p]) /\ committed'[p].key # committed[p].key
          => sheet # "none"]_appVars
==================================================================================

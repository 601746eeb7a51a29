-------------------------------- MODULE MultiCopy --------------------------------
(***************************************************************************)
(* The multi-copy of ApplicationUI (applicationui.cpp), composed with the  *)
(* timed clipboard: the user copies a pair, user name and password, leaves *)
(* the app in the background, pastes the first text and waves a hand over  *)
(* the proximity sensor to have it replaced by the second one.             *)
(***************************************************************************)
EXTENDS TimedClipboard

VARIABLES
    dbLocked,        \* database->isLocked()
    isMinimized,
    sensorOn,        \* has the proximity sensor been started?
    sensorWasClose,
    quitting         \* has the app left its event loop?

sensorVars == <<sensorOn, sensorWasClose>>
appVars    == <<dbLocked, isMinimized, sensorVars, quitting>>
mcVars     == <<clipboardVars, appVars>>

MultiCopyTypeOK ==
    /\ ClipboardTypeOK
    /\ dbLocked \in BOOLEAN
    /\ isMinimized \in BOOLEAN
    /\ sensorOn \in BOOLEAN
    /\ sensorWasClose \in BOOLEAN
    /\ quitting \in BOOLEAN

MultiCopyInit ==
    /\ ClipboardInit
    /\ dbLocked = TRUE
    /\ isMinimized = FALSE
    /\ sensorOn = FALSE
    /\ sensorWasClose \in BOOLEAN     \* not initialised
    /\ quitting = FALSE

----------------------------------------------------------------------------------
(* The UI thread is in its event loop: it is neither in clear(), which runs to its *)
(* end, nor has the app quit.                                                     *)
Idle == clearing = "no" /\ ~quitting

CanCopy == Idle /\ ~dbLocked /\ ~isMinimized

CopyWithTimeout(text, expires) ==
    /\ CanCopy
    /\ InsertWithTimeout(text, expires)
    /\ UNCHANGED appVars

PrepareMultiCopy(userName, password, expires) ==
    /\ CanCopy
    /\ InsertPair(userName, password, expires)
    /\ UNCHANGED appVars

(* The database is opened by the user, and locked by the user or by the watchdog, *)
(* which also fires in the background.                                            *)
UnlockDb ==
    /\ Idle
    /\ dbLocked
    /\ ~isMinimized
    /\ dbLocked' = FALSE
    /\ UNCHANGED <<clipboardVars, isMinimized, sensorVars, quitting>>

LockDb ==
    /\ Idle
    /\ ~dbLocked
    /\ dbLocked' = TRUE
    /\ UNCHANGED <<clipboardVars, isMinimized, sensorVars, quitting>>

(* With a zero auto-lock time out, minimising also locks the database, after the  *)
(* sensor was started.                                                            *)
OnThumbnail ==
    /\ Idle
    /\ ~isMinimized
    /\ isMinimized' = TRUE
    /\ \/ /\ ~dbLocked
          /\ IsPairActive
          /\ sensorOn' = TRUE
          /\ sensorWasClose' \in BOOLEAN
       \/ (dbLocked \/ ~IsPairActive) /\ UNCHANGED sensorVars
    /\ dbLocked' \in {dbLocked, TRUE}
    /\ UNCHANGED <<clipboardVars, quitting>>

OnFullscreen ==
    /\ Idle
    /\ isMinimized
    /\ isMinimized' = FALSE
    /\ sensorOn' = FALSE
    /\ UNCHANGED <<clipboardVars, dbLocked, sensorWasClose, quitting>>

(* A hand comes close, or goes away: the first one to come swaps the texts.       *)
OnSensorReadingChanged(isClose) ==
    /\ Idle
    /\ sensorOn
    /\ isMinimized
    /\ isClose # sensorWasClose
    /\ sensorWasClose' = isClose
    /\ \/ isClose /\ ActivateAlternative /\ sensorOn' = FALSE
       \/ ~isClose /\ UNCHANGED <<clipboardVars, sensorOn>>
    /\ UNCHANGED <<dbLocked, isMinimized, quitting>>

OnTimeout ==
    /\ Idle
    /\ Timeout
    /\ UNCHANGED appVars

(* clear() goes on, as a part of the handler that has called it.                  *)
OnClear ==
    /\ Replaced \/ ClearEnds
    /\ UNCHANGED appVars

OtherAppWrites ==
    /\ OtherAppCopies
    /\ UNCHANGED appVars

OnAboutToQuit ==
    /\ Idle
    /\ quitting' = TRUE
    /\ Clear
    /\ UNCHANGED <<system, ours, stuck, modified, timer, expiring, copies>>
    /\ UNCHANGED <<dbLocked, isMinimized, sensorVars>>

(* The next process starts afresh.                                                *)
NewProcess ==
    /\ dbLocked' = TRUE
    /\ isMinimized' = FALSE
    /\ sensorOn' = FALSE
    /\ sensorWasClose' \in BOOLEAN
    /\ quitting' = FALSE

ProcessEnds == quitting /\ ClipboardExit /\ NewProcess
Killed      == ClipboardKilled /\ NewProcess

MultiCopyNext ==
    \/ \E text \in Texts \cup {Empty}, expires \in BOOLEAN :
          CopyWithTimeout(text, expires)
    \/ \E userName, password \in Texts \cup {Empty}, expires \in BOOLEAN :
          PrepareMultiCopy(userName, password, expires)
    \/ UnlockDb
    \/ LockDb
    \/ OnThumbnail
    \/ OnFullscreen
    \/ \E isClose \in BOOLEAN : OnSensorReadingChanged(isClose)
    \/ OnTimeout
    \/ OnClear
    \/ OtherAppWrites
    \/ OnAboutToQuit
    \/ ProcessEnds
    \/ Killed

(* A running timer fires: Qt's event loop keeps running, in the background too    *)
(* (bar-descriptor.xml asks for run_when_backgrounded).  A handler that calls     *)
(* clear() goes on to its end, and an app that quits ends.                        *)
MultiCopySpec ==
    /\ MultiCopyInit
    /\ [][MultiCopyNext]_mcVars
    /\ WF_mcVars(OnTimeout)
    /\ WF_mcVars(OnClear)
    /\ WF_mcVars(ProcessEnds)
----------------------------------------------------------------------------------
(* Properties                                                                     *)

(* As long as the clipboard holds a text that the app has put there, clear() is at*)
(* work on it, or recognises it as its own, whatever was copied, replaced or      *)
(* swapped since, and whichever of the inserts failed; and when the user asked for*)
(* a time out, the timer that will call clear() is running.  So a process that    *)
(* exits leaves nothing.  The exception is a text that a failed call of the       *)
(* system's clear() has left behind: the code has no second try.                  *)
OwnContentTracked ==
    ours /\ ~stuck /\ clearing = "no"
        => /\ modified
           /\ ContainsOurContent
           /\ expiring => timer

(* What holds of the texts that clear() has to recognise, whichever calls of the  *)
(* system fail: a selected one was inserted; and once the time out of the last    *)
(* copy has passed, while clear() is at work and when the app quits, none is.     *)
ExpiryInv ==
    /\ MultiCopyTypeOK
    /\ selected # "none" => modified
    /\ expiring /\ ~timer => selected = "none"
    /\ ~Idle => selected = "none"

(* The inductive invariant: an insert that fails has replaced one of the texts to *)
(* be recognised, which does no harm only if the clipboard was cleared, that is,  *)
(* if a text of ours is never the empty one.                                      *)
MultiCopyInv ==
    /\ ExpiryInv
    /\ OwnContentTracked
    /\ ours => system \in Texts

(* TimedClipboard.h:51-52: clear() "Removes the previously inserted content from  *)
(* the clipboard, leaving any other content intact."  It looks at the content     *)
(* once, before it replaces and clears it.                                        *)
OtherContentIntact ==
    [][clearing # "no" /\ system \in Foreign => system' \in Foreign]_mcVars

(* What clear() does keep to: it never takes the content of another application   *)
(* for its own.  Such content goes only when the user copies, or swaps the texts  *)
(* of a pair, or when it came while clear() was between its calls.                *)
OtherContentRecognised ==
    [][\/ system \notin Foreign
       \/ system' \in Foreign /\ clearing' = "no"
       \/ copies' > copies
       \/ isMinimized /\ sensorOn /\ ~sensorOn'
       \/ clearing # "no"
      ]_mcVars

(* Once the time out has passed, no wave of the hand brings an expired text back: *)
(* only a new copy puts a text into the clipboard.                                *)
NothingComesBack ==
    [][expiring /\ ~timer /\ system' # system /\ system' \in Texts
          => copies' > copies]_mcVars

(* applicationui.hpp: copyWithTimeout() copies the text and clears it after some  *)
(* time; so does the multi-copy, unless the system fails to clear it.  The user   *)
(* stops copying (MaxCopies).                                                     *)
ExpiringContentRemoved == ours /\ expiring ~> ~(ours /\ expiring) \/ stuck
==================================================================================

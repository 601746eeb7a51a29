----------------------------- MODULE MultiCopyProofs -----------------------------
(***************************************************************************)
(* The invariants of the timed clipboard and the multi-copy, for any set of*)
(* texts and any number of copies.                                         *)
(***************************************************************************)
EXTENDS MultiCopy, TLAPS

(* Clearing the system's clipboard leaves it as it was or empty.                  *)
LEMMA SystemClearedType ==
    ASSUME SystemCleared, MultiCopyTypeOK
    PROVE  /\ system' \in {system, Empty}
           /\ ours' \in BOOLEAN
           /\ stuck' \in BOOLEAN
BY DEF SystemCleared, MultiCopyTypeOK, ClipboardTypeOK

(* An insert, successful or not, leaves a well-typed clipboard, selects only what *)
(* it has inserted, and never puts there anything but its text.                   *)
LEMMA InsertType ==
    ASSUME NEW slot \in Slots, NEW text \in Texts \cup {Empty},
           MultiCopyTypeOK, selected # "none" => modified,
           Inserted(slot, text) \/ NotInserted
    PROVE  /\ system' \in {system, text, Empty}
           /\ ours' \in BOOLEAN
           /\ stuck' \in BOOLEAN
           /\ modified' \in BOOLEAN
           /\ selected' \in {selected, slot}
           /\ selected' # "none" => modified'
<1>1. CASE Inserted(slot, text)
  <2>1. CASE text # Empty
    BY <1>1, <2>1 DEF Inserted, Slots
  <2>2. CASE text = Empty
    BY <1>1, <2>2, SystemClearedType DEF Inserted, Slots
  <2> QED BY <2>1, <2>2
<1>2. CASE NotInserted
  BY <1>2, SystemClearedType DEF NotInserted, MultiCopyTypeOK, ClipboardTypeOK
<1> QED BY <1>1, <1>2

(* clear() forgets its texts.                                                     *)
LEMMA ClearForgets ==
    ASSUME ExpiryInv, Clear
    PROVE  /\ content' \in [Slots -> Texts \cup {Empty}]
           /\ selected' = "none"
           /\ clearing' \in {"no", "compared", "replaced"}
<1>1. CASE modified
  BY <1>1 DEF Clear, NoContent
<1>2. CASE ~modified
  BY <1>2 DEF Clear, ExpiryInv, MultiCopyTypeOK, ClipboardTypeOK
<1> QED BY <1>1, <1>2

----------------------------------------------------------------------------------
(* A step that only changes the sensor, the app and the lock.                     *)
LEMMA SameVars ==
    ASSUME ExpiryInv, UNCHANGED clipboardVars,
           dbLocked' \in BOOLEAN, isMinimized' \in BOOLEAN,
           sensorOn' \in BOOLEAN, sensorWasClose' \in BOOLEAN, quitting' = quitting
    PROVE  ExpiryInv'
<1>1. ClipboardTypeOK'
  BY DEF clipboardVars, ExpiryInv, MultiCopyTypeOK, ClipboardTypeOK
<1>2. MultiCopyTypeOK'
  BY <1>1 DEF MultiCopyTypeOK, ExpiryInv
<1>3. /\ selected' = selected
      /\ modified' = modified
      /\ expiring' = expiring
      /\ timer' = timer
      /\ clearing' = clearing
  BY DEF clipboardVars
<1>4. (selected # "none" => modified)'
  BY <1>3 DEF ExpiryInv
<1>5. (expiring /\ ~timer => selected = "none")'
  BY <1>3 DEF ExpiryInv
<1>6. (~Idle => selected = "none")'
  BY <1>3 DEF ExpiryInv, Idle
<1> QED BY <1>2, <1>4, <1>5, <1>6 DEF ExpiryInv

LEMMA ExpiryInit == MultiCopyInit => ExpiryInv
<1> SUFFICES ASSUME MultiCopyInit PROVE ExpiryInv
  OBVIOUS
<1>1. content \in [Slots -> Texts \cup {Empty}]
  BY DEF MultiCopyInit, ClipboardInit, NoContent
<1>2. copies \in 0..MaxCopies
  BY MaxCopiesAssumption DEF MultiCopyInit, ClipboardInit
<1>3. ClipboardTypeOK
  BY <1>1, <1>2 DEF MultiCopyInit, ClipboardInit, ClipboardTypeOK
<1> QED BY <1>3 DEF MultiCopyInit, ClipboardInit, ExpiryInv, MultiCopyTypeOK, Idle

LEMMA InsertWithTimeoutExpiry ==
    ASSUME ExpiryInv, NEW text \in Texts \cup {Empty}, NEW expires \in BOOLEAN,
           CopyWithTimeout(text, expires)
    PROVE  ExpiryInv'
<1>1. "simple" \in Slots
  BY DEF Slots
<1>2. InsertWithTimeout(text, expires)
  BY DEF CopyWithTimeout
<1>3. Inserted("simple", text) \/ NotInserted
  BY <1>2 DEF InsertWithTimeout
<1>4. /\ system' \in {system, text, Empty}
      /\ ours' \in BOOLEAN
      /\ stuck' \in BOOLEAN
      /\ modified' \in BOOLEAN
      /\ selected' \in {selected, "simple"}
      /\ selected' # "none" => modified'
  BY <1>1, <1>3, InsertType DEF ExpiryInv
<1>5. MultiCopyTypeOK'
  <2>1. content' \in [Slots -> Texts \cup {Empty}]
    BY <1>2 DEF InsertWithTimeout, ExpiryInv, MultiCopyTypeOK, ClipboardTypeOK
  <2>2. copies' \in 0..MaxCopies
    BY <1>2, MaxCopiesAssumption
       DEF InsertWithTimeout, ExpiryInv, MultiCopyTypeOK, ClipboardTypeOK
  <2>3. timer' \in BOOLEAN /\ expiring' \in BOOLEAN
    BY <1>2 DEF InsertWithTimeout, ExpiryInv, MultiCopyTypeOK, ClipboardTypeOK
  <2>4. UNCHANGED <<dbLocked, isMinimized, sensorOn, sensorWasClose, quitting>>
    BY DEF CopyWithTimeout, appVars, sensorVars
  <2>5. dbLocked' \in BOOLEAN /\ isMinimized' \in BOOLEAN /\ quitting' \in BOOLEAN
    BY <2>4 DEF ExpiryInv, MultiCopyTypeOK
  <2>6. sensorOn' \in BOOLEAN /\ sensorWasClose' \in BOOLEAN
    BY <2>4 DEF ExpiryInv, MultiCopyTypeOK
  <2>8. clearing' \in {"no", "compared", "replaced"}
    BY <1>2 DEF InsertWithTimeout, ExpiryInv, MultiCopyTypeOK, ClipboardTypeOK
  <2>7. /\ system' \in Texts \cup Foreign \cup {Empty, Zero}
        /\ selected' \in Slots \cup {"none"}
    BY <1>1, <1>4 DEF ExpiryInv, MultiCopyTypeOK, ClipboardTypeOK
  <2> QED
    BY <1>4, <2>1, <2>2, <2>3, <2>5, <2>6, <2>7, <2>8 DEF MultiCopyTypeOK, ClipboardTypeOK
<1>6. expiring' /\ ~timer' => selected' = "none"
  <2>1. CASE timer' = expires /\ expiring' = expires
    BY <2>1
  <2>2. CASE NotInserted /\ UNCHANGED <<timer, expiring>>
    <3>1. selected' = selected
      BY <2>2 DEF NotInserted
    <3>2. expiring /\ ~timer => selected = "none"
      BY DEF ExpiryInv
    <3> QED BY <2>2, <3>1, <3>2
  <2> QED BY <1>2, <2>1, <2>2 DEF InsertWithTimeout
<1>7. Idle'
  BY <1>2 DEF CopyWithTimeout, CanCopy, Idle, InsertWithTimeout, appVars
<1> QED BY <1>4, <1>5, <1>6, <1>7 DEF ExpiryInv

LEMMA InsertPairExpiry ==
    ASSUME ExpiryInv, NEW first \in Texts \cup {Empty},
           NEW second \in Texts \cup {Empty}, NEW expires \in BOOLEAN,
           PrepareMultiCopy(first, second, expires)
    PROVE  ExpiryInv'
<1>1. "first" \in Slots /\ "second" \in Slots
  BY DEF Slots
<1>2. InsertPair(first, second, expires)
  BY DEF PrepareMultiCopy
<1>3. Inserted("first", first) \/ NotInserted
  BY <1>2 DEF InsertPair
<1>4. /\ system' \in {system, first, Empty}
      /\ ours' \in BOOLEAN
      /\ stuck' \in BOOLEAN
      /\ modified' \in BOOLEAN
      /\ selected' \in {selected, "first"}
      /\ selected' # "none" => modified'
  BY <1>1, <1>3, InsertType DEF ExpiryInv
<1>5. MultiCopyTypeOK'
  <2>1. content' \in [Slots -> Texts \cup {Empty}]
    BY <1>2 DEF InsertPair, ExpiryInv, MultiCopyTypeOK, ClipboardTypeOK
  <2>2. copies' \in 0..MaxCopies
    BY <1>2, MaxCopiesAssumption
       DEF InsertPair, ExpiryInv, MultiCopyTypeOK, ClipboardTypeOK
  <2>3. timer' \in BOOLEAN /\ expiring' \in BOOLEAN
    BY <1>2 DEF InsertPair
  <2>4. UNCHANGED <<dbLocked, isMinimized, sensorOn, sensorWasClose, quitting>>
    BY DEF PrepareMultiCopy, appVars, sensorVars
  <2>5. dbLocked' \in BOOLEAN /\ isMinimized' \in BOOLEAN /\ quitting' \in BOOLEAN
    BY <2>4 DEF ExpiryInv, MultiCopyTypeOK
  <2>6. sensorOn' \in BOOLEAN /\ sensorWasClose' \in BOOLEAN
    BY <2>4 DEF ExpiryInv, MultiCopyTypeOK
  <2>8. clearing' \in {"no", "compared", "replaced"}
    BY <1>2 DEF InsertPair, ExpiryInv, MultiCopyTypeOK, ClipboardTypeOK
  <2>7. /\ system' \in Texts \cup Foreign \cup {Empty, Zero}
        /\ selected' \in Slots \cup {"none"}
    BY <1>1, <1>4 DEF ExpiryInv, MultiCopyTypeOK, ClipboardTypeOK
  <2> QED
    BY <1>4, <2>1, <2>2, <2>3, <2>5, <2>6, <2>7, <2>8 DEF MultiCopyTypeOK, ClipboardTypeOK
<1>6. ~(expiring' /\ ~timer')
  BY <1>2 DEF InsertPair
<1>7. Idle'
  BY <1>2 DEF PrepareMultiCopy, CanCopy, Idle, InsertPair, appVars
<1> QED BY <1>4, <1>5, <1>6, <1>7 DEF ExpiryInv

(* A wave of the hand swaps the two texts of a pair, and nothing else.            *)
LEMMA SwapExpiry ==
    ASSUME ExpiryInv, NEW isClose \in BOOLEAN, OnSensorReadingChanged(isClose)
    PROVE  ExpiryInv'
<1>1. CASE ~isClose
  <2>1. UNCHANGED <<clipboardVars, sensorOn, dbLocked, isMinimized, quitting>>
    BY <1>1 DEF OnSensorReadingChanged
  <2>2. sensorWasClose' \in BOOLEAN
    BY DEF OnSensorReadingChanged
  <2>3. /\ sensorOn' \in BOOLEAN
        /\ dbLocked' \in BOOLEAN
        /\ isMinimized' \in BOOLEAN
    BY <2>1 DEF ExpiryInv, MultiCopyTypeOK
  <2> QED BY <2>1, <2>2, <2>3, SameVars
<1>2. CASE isClose
  <2>1. ActivateAlternative
    BY <1>2 DEF OnSensorReadingChanged
  <2>2. UNCHANGED <<content, timer, clearing, expiring, copies>>
    BY <2>1 DEF ActivateAlternative
  <2>3. "first" \in Slots /\ "second" \in Slots
    BY DEF Slots
  <2>4. /\ content["first"] \in Texts \cup {Empty}
        /\ content["second"] \in Texts \cup {Empty}
    BY <2>3 DEF ExpiryInv, MultiCopyTypeOK, ClipboardTypeOK
  <2>5. /\ system' \in Texts \cup Foreign \cup {Empty, Zero}
        /\ ours' \in BOOLEAN
        /\ stuck' \in BOOLEAN
        /\ modified' \in BOOLEAN
        /\ selected' \in Slots \cup {"none"}
        /\ selected' # "none" => modified'
        /\ selected = "none" => selected' = "none"
    <3>1. CASE selected = "first"
      <4>1. Inserted("second", content["second"]) \/ NotInserted
        BY <2>1, <3>1 DEF ActivateAlternative, IsPairActive
      <4> QED
        BY <2>3, <2>4, <3>1, <4>1, InsertType
           DEF ExpiryInv, MultiCopyTypeOK, ClipboardTypeOK
    <3>2. CASE selected = "second"
      <4>1. Inserted("first", content["first"]) \/ NotInserted
        BY <2>1, <3>2 DEF ActivateAlternative, IsPairActive
      <4> QED
        BY <2>3, <2>4, <3>2, <4>1, InsertType
           DEF ExpiryInv, MultiCopyTypeOK, ClipboardTypeOK
    <3>3. CASE ~IsPairActive
      BY <2>1, <3>3
         DEF ActivateAlternative, IsPairActive, ExpiryInv, MultiCopyTypeOK, ClipboardTypeOK
    <3> QED BY <3>1, <3>2, <3>3 DEF IsPairActive
  <2>6. sensorOn' \in BOOLEAN /\ sensorWasClose' \in BOOLEAN
    BY <1>2 DEF OnSensorReadingChanged
  <2>7. UNCHANGED <<dbLocked, isMinimized, quitting>> /\ Idle
    BY DEF OnSensorReadingChanged
  <2>8. Idle'
    BY <2>2, <2>7 DEF Idle
  <2> QED
    BY <2>2, <2>5, <2>6, <2>7, <2>8 DEF ExpiryInv, MultiCopyTypeOK, ClipboardTypeOK
<1> QED BY <1>1, <1>2

(* The time out, and quitting: clear() begins, and forgets its texts.             *)
LEMMA ClearExpiry ==
    ASSUME ExpiryInv, OnTimeout \/ OnAboutToQuit
    PROVE  ExpiryInv'
<1>1. /\ Clear
      /\ UNCHANGED <<system, ours, stuck, modified, expiring, copies>>
      /\ timer' \in {timer, FALSE}
  BY DEF OnTimeout, Timeout, OnAboutToQuit
<1>2. /\ UNCHANGED <<dbLocked, isMinimized, sensorOn, sensorWasClose>>
      /\ quitting' \in {quitting, TRUE}
  BY DEF OnTimeout, OnAboutToQuit, appVars, sensorVars
<1>3. /\ content' \in [Slots -> Texts \cup {Empty}]
      /\ selected' = "none"
      /\ clearing' \in {"no", "compared", "replaced"}
  BY <1>1, ClearForgets
<1>4. ClipboardTypeOK'
  BY <1>1, <1>3 DEF ExpiryInv, MultiCopyTypeOK, ClipboardTypeOK
<1>5. MultiCopyTypeOK'
  BY <1>2, <1>4 DEF ExpiryInv, MultiCopyTypeOK
<1> QED BY <1>3, <1>5 DEF ExpiryInv

(* clear() goes on, with nothing selected.                                        *)
LEMMA OnClearExpiry ==
    ASSUME ExpiryInv, OnClear
    PROVE  ExpiryInv'
<1>1. /\ UNCHANGED <<content, selected, modified, timer, expiring, copies>>
      /\ clearing # "no"
      /\ clearing' \in {"no", "replaced"}
  BY DEF OnClear, Replaced, ClearEnds
<1>2. selected' = "none"
  BY <1>1 DEF ExpiryInv, Idle
<1>3. /\ system' \in Texts \cup Foreign \cup {Empty, Zero}
      /\ ours' \in BOOLEAN
      /\ stuck' \in BOOLEAN
  <2>1. CASE Replaced
    BY <2>1 DEF Replaced, ExpiryInv, MultiCopyTypeOK, ClipboardTypeOK
  <2>2. CASE ClearEnds
    BY <2>2, SystemClearedType DEF ClearEnds, ExpiryInv, MultiCopyTypeOK, ClipboardTypeOK
  <2> QED BY <2>1, <2>2 DEF OnClear
<1>4. ClipboardTypeOK'
  BY <1>1, <1>3 DEF ExpiryInv, MultiCopyTypeOK, ClipboardTypeOK
<1>5. UNCHANGED <<dbLocked, isMinimized, sensorOn, sensorWasClose, quitting>>
  BY DEF OnClear, appVars, sensorVars
<1>6. MultiCopyTypeOK'
  BY <1>4, <1>5 DEF ExpiryInv, MultiCopyTypeOK
<1> QED BY <1>2, <1>6 DEF ExpiryInv

LEMMA NewProcessExpiry ==
    ASSUME ExpiryInv, ProcessEnds \/ Killed
    PROVE  ExpiryInv'
<1>1. ClipboardGone /\ NewProcess
  BY DEF ProcessEnds, Killed, ClipboardExit, ClipboardKilled
<1>2. content' \in [Slots -> Texts \cup {Empty}]
  BY <1>1 DEF ClipboardGone, NoContent
<1>3. ours' \in BOOLEAN /\ stuck' \in BOOLEAN
  BY DEF ProcessEnds, Killed, ClipboardExit, ClipboardKilled, ExpiryInv, MultiCopyTypeOK,
         ClipboardTypeOK
<1>4. system' \in Texts \cup Foreign \cup {Empty, Zero} /\ copies' \in 0..MaxCopies
  BY <1>1 DEF ClipboardGone, ExpiryInv, MultiCopyTypeOK, ClipboardTypeOK
<1>5. ClipboardTypeOK'
  BY <1>1, <1>2, <1>3, <1>4 DEF ClipboardGone, ClipboardTypeOK
<1>6. MultiCopyTypeOK'
  BY <1>1, <1>5 DEF NewProcess, MultiCopyTypeOK
<1> QED BY <1>1, <1>6 DEF ClipboardGone, ExpiryInv

LEMMA NextExpiry == ExpiryInv /\ [MultiCopyNext]_mcVars => ExpiryInv'
<1> SUFFICES ASSUME ExpiryInv, [MultiCopyNext]_mcVars PROVE ExpiryInv'
  OBVIOUS
<1>t. /\ dbLocked \in BOOLEAN
      /\ isMinimized \in BOOLEAN
      /\ sensorOn \in BOOLEAN
      /\ sensorWasClose \in BOOLEAN
      /\ quitting \in BOOLEAN
  BY DEF ExpiryInv, MultiCopyTypeOK
<1>1. ASSUME NEW text \in Texts \cup {Empty}, NEW expires \in BOOLEAN,
             CopyWithTimeout(text, expires)
      PROVE  ExpiryInv'
  BY <1>1, InsertWithTimeoutExpiry
<1>2. ASSUME NEW userName \in Texts \cup {Empty}, NEW password \in Texts \cup {Empty},
             NEW expires \in BOOLEAN, PrepareMultiCopy(userName, password, expires)
      PROVE  ExpiryInv'
  BY <1>2, InsertPairExpiry
<1>3. CASE UnlockDb \/ LockDb
  <2>1. UNCHANGED <<clipboardVars, isMinimized, sensorVars, quitting>> /\ dbLocked' \in BOOLEAN
    BY <1>3 DEF UnlockDb, LockDb
  <2>2. /\ isMinimized' \in BOOLEAN
        /\ sensorOn' \in BOOLEAN
        /\ sensorWasClose' \in BOOLEAN
    BY <1>t, <2>1 DEF sensorVars
  <2> QED BY <2>1, <2>2, SameVars
<1>4. CASE OnThumbnail
  <2>1. sensorOn' \in BOOLEAN /\ sensorWasClose' \in BOOLEAN
    BY <1>4, <1>t DEF OnThumbnail, sensorVars
  <2>2. /\ dbLocked' \in BOOLEAN
        /\ isMinimized' \in BOOLEAN
        /\ UNCHANGED <<clipboardVars, quitting>>
    BY <1>4, <1>t DEF OnThumbnail
  <2> QED BY <2>1, <2>2, SameVars
<1>5. CASE OnFullscreen
  BY <1>5, <1>t, SameVars DEF OnFullscreen
<1>6. ASSUME NEW isClose \in BOOLEAN, OnSensorReadingChanged(isClose)
      PROVE  ExpiryInv'
  BY <1>6, SwapExpiry
<1>7. CASE OnTimeout \/ OnAboutToQuit
  BY <1>7, ClearExpiry
<1>8. CASE OnClear
  BY <1>8, OnClearExpiry
<1>9. CASE OtherAppWrites
  <2>1. /\ system' \in Foreign
        /\ ours' = FALSE
        /\ stuck' = FALSE
        /\ UNCHANGED <<content, selected, modified, timer, clearing, expiring, copies>>
    BY <1>9 DEF OtherAppWrites, OtherAppCopies
  <2>2. UNCHANGED <<dbLocked, isMinimized, sensorOn, sensorWasClose, quitting>>
    BY <1>9 DEF OtherAppWrites, appVars, sensorVars
  <2>3. ClipboardTypeOK'
    BY <2>1 DEF ExpiryInv, MultiCopyTypeOK, ClipboardTypeOK
  <2>4. MultiCopyTypeOK'
    BY <1>t, <2>2, <2>3 DEF MultiCopyTypeOK
  <2>5. (selected # "none" => modified)'
    BY <2>1 DEF ExpiryInv
  <2>6. (expiring /\ ~timer => selected = "none")'
    BY <2>1 DEF ExpiryInv
  <2>7. (~Idle => selected = "none")'
    BY <2>1, <2>2 DEF ExpiryInv, Idle
  <2> QED BY <2>4, <2>5, <2>6, <2>7 DEF ExpiryInv
<1>10. CASE ProcessEnds \/ Killed
  BY <1>10, NewProcessExpiry
<1>11. CASE UNCHANGED mcVars
  BY <1>11, <1>t, SameVars DEF mcVars, appVars, sensorVars
<1> QED
  BY <1>1, <1>2, <1>3, <1>4, <1>5, <1>6, <1>7, <1>8, <1>9, <1>10, <1>11 DEF MultiCopyNext

(* MultiCopySpec => []ExpiryInv, whichever calls of the system fail: a text is    *)
(* selected only if it was inserted, and none is once its time out has passed.    *)
THEOREM ExpiryInvariance == MultiCopySpec => []ExpiryInv
<1>1. MultiCopyInit => ExpiryInv
  BY ExpiryInit
<1>2. ExpiryInv /\ [MultiCopyNext]_mcVars => ExpiryInv'
  BY NextExpiry
<1> QED BY <1>1, <1>2, PTL DEF MultiCopySpec

----------------------------------------------------------------------------------
(* The content of other applications                                              *)

(* A foreign text is none that clear() would recognise.                           *)
LEMMA ForeignIsNotOurs ==
    ASSUME ExpiryInv, system \in Foreign
    PROVE  ~ContainsOurContent
BY TextsAssumption DEF ContainsOurContent, ExpiryInv, MultiCopyTypeOK, ClipboardTypeOK

(* So a clear() that begins has nothing to do.                                    *)
LEMMA ForeignIsNotCleared ==
    ASSUME ExpiryInv, Clear, Idle, system \in Foreign, system' = system
    PROVE  system' \in Foreign /\ clearing' = "no"
BY ForeignIsNotOurs DEF Clear, Idle

LEMMA OtherContentStep ==
    ASSUME ExpiryInv, MultiCopyNext, system \in Foreign
    PROVE  \/ system' \in Foreign /\ clearing' = "no"
           \/ copies' > copies
           \/ isMinimized /\ sensorOn /\ ~sensorOn'
           \/ clearing # "no"
<1>c. copies \in Nat
  BY MaxCopiesAssumption DEF ExpiryInv, MultiCopyTypeOK, ClipboardTypeOK
<1>1. ASSUME NEW text \in Texts \cup {Empty}, NEW expires \in BOOLEAN,
             CopyWithTimeout(text, expires)
      PROVE  copies' > copies
  BY <1>1, <1>c DEF CopyWithTimeout, InsertWithTimeout
<1>2. ASSUME NEW userName \in Texts \cup {Empty}, NEW password \in Texts \cup {Empty},
             NEW expires \in BOOLEAN, PrepareMultiCopy(userName, password, expires)
      PROVE  copies' > copies
  BY <1>2, <1>c DEF PrepareMultiCopy, InsertPair
<1>3. CASE UNCHANGED clipboardVars
  BY <1>3 DEF clipboardVars
<1>4. ASSUME NEW isClose \in BOOLEAN, OnSensorReadingChanged(isClose)
      PROVE  (isMinimized /\ sensorOn /\ ~sensorOn') \/ UNCHANGED clipboardVars
  BY <1>4 DEF OnSensorReadingChanged
<1>5. CASE UnlockDb \/ LockDb \/ OnThumbnail \/ OnFullscreen
  BY <1>3, <1>5 DEF UnlockDb, LockDb, OnThumbnail, OnFullscreen
<1>6. CASE OnTimeout \/ OnAboutToQuit
  BY <1>6, ForeignIsNotCleared DEF OnTimeout, Timeout, OnAboutToQuit
<1>7. CASE OnClear
  BY <1>7 DEF OnClear, Replaced, ClearEnds
<1>8. CASE OtherAppWrites
  BY <1>8 DEF OtherAppWrites, OtherAppCopies
<1>9. CASE ProcessEnds \/ Killed
  BY <1>9 DEF ProcessEnds, Killed, ClipboardExit, ClipboardKilled, ClipboardGone
<1> QED
  BY <1>1, <1>2, <1>3, <1>4, <1>5, <1>6, <1>7, <1>8, <1>9 DEF MultiCopyNext

(* MultiCopySpec => OtherContentRecognised: what another application has copied   *)
(* before clear() looks at the clipboard stays there, whichever calls of the      *)
(* system fail; what it copies between that look and the end of clear() does not. *)
THEOREM ForeignIsRecognised == MultiCopySpec => OtherContentRecognised
<1>1. ExpiryInv /\ [MultiCopyNext]_mcVars
         => [\/ system \notin Foreign
             \/ system' \in Foreign /\ clearing' = "no"
             \/ copies' > copies
             \/ isMinimized /\ sensorOn /\ ~sensorOn'
             \/ clearing # "no"
            ]_mcVars
  BY OtherContentStep
<1> QED BY <1>1, ExpiryInvariance, PTL DEF MultiCopySpec, OtherContentRecognised

LEMMA ComesBackStep ==
    ASSUME ExpiryInv, MultiCopyNext,
           expiring, ~timer, system' # system, system' \in Texts
    PROVE  copies' > copies
<1>s. selected = "none"
  BY DEF ExpiryInv
<1>c. copies \in Nat
  BY MaxCopiesAssumption DEF ExpiryInv, MultiCopyTypeOK, ClipboardTypeOK
<1>1. ASSUME NEW text \in Texts \cup {Empty}, NEW expires \in BOOLEAN,
             CopyWithTimeout(text, expires)
      PROVE  copies' > copies
  BY <1>1, <1>c DEF CopyWithTimeout, InsertWithTimeout
<1>2. ASSUME NEW userName \in Texts \cup {Empty}, NEW password \in Texts \cup {Empty},
             NEW expires \in BOOLEAN, PrepareMultiCopy(userName, password, expires)
      PROVE  copies' > copies
  BY <1>2, <1>c DEF PrepareMultiCopy, InsertPair
<1>3. ASSUME NEW isClose \in BOOLEAN, OnSensorReadingChanged(isClose)
      PROVE  FALSE
  <2>1. CASE ActivateAlternative
    BY <1>s, <2>1 DEF ActivateAlternative
  <2>2. CASE UNCHANGED clipboardVars
    BY <2>2 DEF clipboardVars
  <2> QED BY <1>3, <2>1, <2>2 DEF OnSensorReadingChanged
<1>4. CASE UnlockDb \/ LockDb \/ OnThumbnail \/ OnFullscreen
  BY <1>4 DEF UnlockDb, LockDb, OnThumbnail, OnFullscreen, clipboardVars
<1>5. CASE OtherAppWrites
  BY <1>5, TextsAssumption DEF OtherAppWrites, OtherAppCopies
<1>6. CASE OnTimeout \/ OnAboutToQuit
  BY <1>6 DEF OnTimeout, Timeout, OnAboutToQuit
<1>7. CASE OnClear
  BY <1>7, TextsAssumption DEF OnClear, Replaced, ClearEnds, SystemCleared
<1>8. CASE ProcessEnds \/ Killed
  BY <1>8 DEF ProcessEnds, Killed, ClipboardExit, ClipboardKilled, ClipboardGone
<1> QED
  BY <1>1, <1>2, <1>3, <1>4, <1>5, <1>6, <1>7, <1>8 DEF MultiCopyNext

(* MultiCopySpec => NothingComesBack: the sensor may go on running after the time *)
(* out, but has nothing left to put into the clipboard.                           *)
THEOREM ExpiredTextsStayAway == MultiCopySpec => NothingComesBack
<1>1. ExpiryInv /\ [MultiCopyNext]_mcVars
         => [expiring /\ ~timer /\ system' # system /\ system' \in Texts
                => copies' > copies]_mcVars
  BY ComesBackStep
<1> QED BY <1>1, ExpiryInvariance, PTL DEF MultiCopySpec, NothingComesBack

----------------------------------------------------------------------------------
(* What is ours is tracked, unless a failed Clipboard::clear() has left it        *)

(* What was not cleared stays, and is stuck if it is ours.                        *)
LEMMA ClearedOrStuck ==
    ASSUME MultiCopyInv, SystemCleared, ours'
    PROVE  stuck' /\ system' \in Texts
<1>1. system' = system /\ ours' = ours /\ stuck' = ours
  BY DEF SystemCleared
<1>2. ours = TRUE
  BY <1>1 DEF MultiCopyInv, ExpiryInv, MultiCopyTypeOK, ClipboardTypeOK
<1> QED BY <1>1, <1>2 DEF MultiCopyInv

LEMMA InsertTracked ==
    ASSUME MultiCopyInv, NEW slot \in Slots, NEW text \in Texts \cup {Empty},
           Inserted(slot, text) \/ NotInserted, ours'
    PROVE  /\ system' \in Texts
           /\ ~stuck' => Inserted(slot, text) /\ text \in Texts /\ system' = text
BY ClearedOrStuck DEF Inserted, NotInserted

(* A text of ours that is not stuck is one that clear() removes.                  *)
LEMMA ClearTracked ==
    ASSUME MultiCopyInv, Idle, Clear, ours, ~stuck
    PROVE  clearing' = "compared"
BY DEF MultiCopyInv, OwnContentTracked, Idle, Clear

LEMMA TrackedStep ==
    ASSUME MultiCopyInv, MultiCopyNext, ours'
    PROVE  /\ system' \in Texts
           /\ ~stuck' /\ clearing' = "no"
                 => modified' /\ ContainsOurContent' /\ (expiring => timer)'
<1> DEFINE Tracked == modified' /\ ContainsOurContent' /\ (expiring => timer)'
<1> SUFFICES system' \in Texts /\ (~stuck' /\ clearing' = "no" => Tracked)
  OBVIOUS
<1>s. "simple" \in Slots /\ "first" \in Slots /\ "second" \in Slots /\ "none" \notin Slots
  BY DEF Slots
<1>c. content \in [Slots -> Texts \cup {Empty}]
  BY DEF MultiCopyInv, ExpiryInv, MultiCopyTypeOK, ClipboardTypeOK
<1>1. ASSUME NEW text \in Texts \cup {Empty}, NEW expires \in BOOLEAN,
             CopyWithTimeout(text, expires)
      PROVE  system' \in Texts /\ (~stuck' => Tracked)
  <2>1. Inserted("simple", text) \/ NotInserted
    BY <1>1 DEF CopyWithTimeout, InsertWithTimeout
  <2>2. /\ system' \in Texts
        /\ ~stuck' => Inserted("simple", text) /\ text \in Texts /\ system' = text
    BY <1>s, <2>1, InsertTracked
  <2>3. content'["simple"] = text
    BY <1>1, <1>s, <1>c DEF CopyWithTimeout, InsertWithTimeout
  <2>4. ASSUME ~stuck' PROVE expiring' => timer'
    <3>1. CASE timer' = expires /\ expiring' = expires
      BY <3>1
    <3>2. CASE NotInserted
      BY <2>4, <3>2, ClearedOrStuck DEF NotInserted
    <3> QED BY <1>1, <3>1, <3>2 DEF CopyWithTimeout, InsertWithTimeout
  <2>5. ~stuck' => modified' /\ selected' = "simple"
    BY <2>2 DEF Inserted
  <2> QED BY <2>2, <2>3, <2>4, <2>5 DEF ContainsOurContent
<1>2. ASSUME NEW userName \in Texts \cup {Empty}, NEW password \in Texts \cup {Empty},
             NEW expires \in BOOLEAN, PrepareMultiCopy(userName, password, expires)
      PROVE  system' \in Texts /\ (~stuck' => Tracked)
  <2>1. Inserted("first", userName) \/ NotInserted
    BY <1>2 DEF PrepareMultiCopy, InsertPair
  <2>2. /\ system' \in Texts
        /\ ~stuck' => Inserted("first", userName) /\ userName \in Texts /\ system' = userName
    BY <1>s, <2>1, InsertTracked
  <2>3. content'["first"] = userName
    BY <1>2, <1>s, <1>c DEF PrepareMultiCopy, InsertPair
  <2>4. expiring' => timer'
    BY <1>2 DEF PrepareMultiCopy, InsertPair
  <2>5. ~stuck' => modified' /\ selected' = "first"
    BY <2>2 DEF Inserted
  <2> QED BY <2>2, <2>3, <2>4, <2>5 DEF ContainsOurContent
<1>3. CASE UNCHANGED <<system, content, selected, modified, timer, clearing, ours, stuck, expiring>>
  <2>1. /\ system \in Texts
        /\ ~stuck /\ clearing = "no" => modified /\ ContainsOurContent /\ (expiring => timer)
    BY <1>3 DEF MultiCopyInv, OwnContentTracked
  <2> QED BY <1>3, <2>1 DEF ContainsOurContent
<1>4. CASE ActivateAlternative
  <2>1. UNCHANGED <<content, timer, clearing, expiring>>
    BY <1>4 DEF ActivateAlternative
  <2>2. ASSUME NEW slot \in {"first", "second"}, selected # "none",
               Inserted(slot, content[slot]) \/ NotInserted
        PROVE  system' \in Texts /\ (~stuck' => Tracked)
    <3>1. slot \in Slots /\ content[slot] \in Texts \cup {Empty}
      BY <1>s, <1>c
    <3>2. /\ system' \in Texts
          /\ ~stuck' => /\ Inserted(slot, content[slot])
                       /\ content[slot] \in Texts
                       /\ system' = content[slot]
      BY <2>2, <3>1, InsertTracked
    <3>3. ~stuck' => modified' /\ selected' = slot
      BY <3>2 DEF Inserted
    <3>4. expiring => timer
      <4>1. expiring /\ ~timer => selected = "none"
        BY DEF MultiCopyInv, ExpiryInv
      <4> QED BY <2>2, <4>1
    <3>5. (expiring => timer)'
      BY <2>1, <3>4
    <3>6. ~stuck' => ContainsOurContent'
      BY <1>s, <2>1, <3>1, <3>2, <3>3 DEF ContainsOurContent
    <3> QED BY <3>2, <3>3, <3>5, <3>6
  <2>3. CASE ~IsPairActive
    BY <1>3, <1>4, <2>1, <2>3 DEF ActivateAlternative, IsPairActive
  <2> QED BY <1>4, <2>2, <2>3 DEF ActivateAlternative, IsPairActive
<1>5. ASSUME NEW isClose \in BOOLEAN, OnSensorReadingChanged(isClose)
      PROVE  system' \in Texts /\ (~stuck' /\ clearing' = "no" => Tracked)
  BY <1>3, <1>4, <1>5 DEF OnSensorReadingChanged, clipboardVars
<1>6. CASE UnlockDb \/ LockDb \/ OnThumbnail \/ OnFullscreen
  BY <1>3, <1>6 DEF UnlockDb, LockDb, OnThumbnail, OnFullscreen, clipboardVars
<1>7. CASE OnTimeout \/ OnAboutToQuit
  <2>1. Clear /\ Idle /\ UNCHANGED <<system, ours, stuck>>
    BY <1>7 DEF OnTimeout, Timeout, OnAboutToQuit
  <2>2. ~stuck' => clearing' = "compared"
    BY <2>1, ClearTracked
  <2>3. system' \in Texts
    BY <2>1 DEF MultiCopyInv
  <2> QED BY <2>2, <2>3
<1>8. CASE OnClear
  <2>1. CASE Replaced
    BY <2>1 DEF Replaced, MultiCopyInv
  <2>2. CASE ClearEnds
    BY <2>2, ClearedOrStuck DEF ClearEnds
  <2> QED BY <1>8, <2>1, <2>2 DEF OnClear
<1>9. CASE ProcessEnds
  <2>1. /\ quitting
        /\ clearing = "no"
        /\ UNCHANGED <<system, ours, stuck>>
    BY <1>9 DEF ProcessEnds, ClipboardExit, ClipboardGone
  <2>2. selected = "none"
    BY <2>1 DEF Idle, MultiCopyInv, ExpiryInv
  <2>3. stuck
    BY <2>1, <2>2 DEF MultiCopyInv, OwnContentTracked, ContainsOurContent
  <2> QED BY <2>1, <2>3 DEF MultiCopyInv
<1>10. CASE OtherAppWrites \/ Killed
  BY <1>10 DEF OtherAppWrites, OtherAppCopies, Killed, ClipboardKilled
<1> QED
  BY <1>1, <1>2, <1>5, <1>6, <1>7, <1>8, <1>9, <1>10 DEF MultiCopyNext

LEMMA MultiCopyInvNext ==
    ASSUME MultiCopyInv, [MultiCopyNext]_mcVars
    PROVE  MultiCopyInv'
<1>1. ExpiryInv'
  BY NextExpiry DEF MultiCopyInv
<1>2. CASE MultiCopyNext
  BY <1>1, <1>2, TrackedStep DEF MultiCopyInv, OwnContentTracked
<1>3. CASE UNCHANGED mcVars
  BY <1>1, <1>3
     DEF mcVars, clipboardVars, MultiCopyInv, OwnContentTracked, ContainsOurContent
<1> QED BY <1>2, <1>3

(* The inductive invariant, whichever calls of the system fail, and wherever other*)
(* applications interrupt clear().                                                *)
THEOREM TrackingInvariance == MultiCopySpec => []MultiCopyInv
<1>1. MultiCopyInit => MultiCopyInv
  BY ExpiryInit DEF MultiCopyInit, ClipboardInit, MultiCopyInv, OwnContentTracked
<1>2. MultiCopyInv /\ [MultiCopyNext]_mcVars => MultiCopyInv'
  BY MultiCopyInvNext
<1> QED BY <1>1, <1>2, PTL DEF MultiCopySpec

(* MultiCopySpec => []OwnContentTracked: clear() recognises what is ours, and the *)
(* timer that will call it is running, unless the system has failed to clear it.  *)
THEOREM OwnContentIsTracked == MultiCopySpec => []OwnContentTracked
<1>1. MultiCopyInv => OwnContentTracked
  BY DEF MultiCopyInv
<1> QED BY <1>1, TrackingInvariance, PTL
==================================================================================

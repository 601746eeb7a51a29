------------------------------ MODULE TimedClipboard -----------------------------
(***************************************************************************)
(* TimedClipboard (util/TimedClipboard.cpp): what the app puts into the    *)
(* system's clipboard, and its removal after a time out.  The operations   *)
(* run on the UI thread.  The clipboard itself belongs to the system: its  *)
(* calls may fail, and other applications write to it at any time, also    *)
(* between two calls of clear().                                           *)
(***************************************************************************)
EXTENDS Integers

CONSTANTS
    Texts,         \* fields of entries: user names, passwords...
    Foreign,       \* what other applications put into the clipboard
    Empty,         \* the empty text, and an empty clipboard
    Zero,          \* the "0" that clear() inserts
    MaxCopies      \* bound on the number of copies

ASSUME TextsAssumption ==
    /\ Empty \notin Texts
    /\ Zero \notin Texts
    /\ Foreign \cap (Texts \cup {Empty, Zero}) = {}
ASSUME MaxCopiesAssumption == MaxCopies \in Nat

VARIABLES
    system,    \* the text/plain content of the system's clipboard
    content,   \* simpleContent, firstContent and secondContent
    selected,  \* selectedContentType
    modified,
    timer,     \* is the timer active?
    clearing,  \* how far clear() has got
    ours,      \* history: the app has put there the text that the clipboard holds
    stuck,     \* history: and Clipboard::clear() has failed to take it out
    expiring,  \* history: the last copy asked for a time out
    copies     \* history: the number of copies

clipboardVars ==
    <<system, content, selected, modified, timer, clearing, ours, stuck, expiring, copies>>

Slots == {"simple", "first", "second"}

ClipboardTypeOK ==
    /\ system \in Texts \cup Foreign \cup {Empty, Zero}
    /\ content \in [Slots -> Texts \cup {Empty}]
    /\ selected \in Slots \cup {"none"}
    /\ modified \in BOOLEAN
    /\ timer \in BOOLEAN
    /\ clearing \in {"no", "compared", "replaced"}
    /\ ours \in BOOLEAN
    /\ stuck \in BOOLEAN
    /\ expiring \in BOOLEAN
    /\ copies \in 0..MaxCopies

NoContent == [slot \in Slots |-> Empty]

ClipboardInit ==
    /\ system \in Foreign \cup {Empty}
    /\ content = NoContent
    /\ selected = "none"
    /\ modified = FALSE
    /\ timer = FALSE
    /\ clearing = "no"
    /\ ours = FALSE
    /\ stuck = FALSE
    /\ expiring = FALSE
    /\ copies = 0

----------------------------------------------------------------------------------
(* The system's clipboard                                                         *)

(* bb::system::Clipboard::clear(), which may fail.                                *)
SystemCleared ==
    \/ system' = Empty /\ ours' = FALSE /\ stuck' = FALSE
    \/ system' = system /\ ours' = ours /\ stuck' = ours

(* Clipboard::clear(), then a successful insert().  Inserting an empty text has no*)
(* effect.  What other applications write in between is replaced as well, or else *)
(* it is as if they had written it afterwards.                                    *)
Inserted(slot, text) ==
    /\ \/ text # Empty /\ system' = text /\ ours' = TRUE /\ stuck' = FALSE
       \/ text = Empty /\ SystemCleared
    /\ modified' = TRUE
    /\ selected' = slot

(* Clipboard::clear(), then a failed insert().                                    *)
NotInserted == SystemCleared /\ UNCHANGED <<modified, selected>>

OtherAppCopies ==
    /\ system' \in Foreign
    /\ ours' = FALSE
    /\ stuck' = FALSE
    /\ UNCHANGED <<content, selected, modified, timer, clearing, expiring, copies>>

----------------------------------------------------------------------------------
(* Operations                                                                     *)

InsertWithTimeout(text, expires) ==
    /\ copies < MaxCopies
    /\ copies' = copies + 1
    /\ content' = [content EXCEPT !["simple"] = text]
    /\ \/ Inserted("simple", text) /\ timer' = expires /\ expiring' = expires
       \/ NotInserted /\ UNCHANGED <<timer, expiring>>
    /\ UNCHANGED clearing

(* Mutant: the timer is stopped after it was started.                             *)
InsertPairTimerStopped(first, second, expires) ==
    /\ copies < MaxCopies
    /\ copies' = copies + 1
    /\ content' = [content EXCEPT !["first"] = first, !["second"] = second]
    /\ Inserted("first", first) \/ NotInserted
    /\ timer' = FALSE
    /\ expiring' = expires
    /\ UNCHANGED clearing

(* The timer is started whether or not the first text was inserted.               *)
InsertPair(first, second, expires) ==
    /\ copies < MaxCopies
    /\ copies' = copies + 1
    /\ content' = [content EXCEPT !["first"] = first, !["second"] = second]
    /\ Inserted("first", first) \/ NotInserted
    /\ timer' = expires
    /\ expiring' = expires
    /\ UNCHANGED clearing

IsPairActive == selected \in {"first", "second"}

(* Mutant: the selection is not updated.                                          *)
ActivateAlternativeSilently ==
    /\ \/ selected = "first" /\ (Inserted("first", content["second"]) \/ NotInserted)
       \/ selected = "second" /\ (Inserted("second", content["first"]) \/ NotInserted)
       \/ ~IsPairActive /\ UNCHANGED <<system, ours, stuck, modified, selected>>
    /\ UNCHANGED <<content, timer, clearing, expiring, copies>>

ActivateAlternative ==
    /\ \/ selected = "first" /\ (Inserted("second", content["second"]) \/ NotInserted)
       \/ selected = "second" /\ (Inserted("first", content["first"]) \/ NotInserted)
       \/ ~IsPairActive /\ UNCHANGED <<system, ours, stuck, modified, selected>>
    /\ UNCHANGED <<content, timer, clearing, expiring, copies>>

(* Mutant: the clipboard is cleared whatever it holds.                            *)
ContainsAnything == selected # "none"

ContainsOurContent == selected # "none" /\ content[selected] = system

(* Mutant: clear() returns at once when the clipboard holds something else.       *)
ClearKeepingTexts ==
    IF modified /\ ContainsOurContent
    THEN content' = NoContent /\ selected' = "none" /\ clearing' = "compared"
    ELSE UNCHANGED <<content, selected, clearing>>

(* clear(), up to where it has compared the clipboard with the selected text: it  *)
(* forgets its texts whatever comes of that, and so has no second try.            *)
Clear ==
    IF modified
    THEN /\ content' = NoContent
         /\ selected' = "none"
         /\ clearing' = IF ContainsOurContent THEN "compared" ELSE "no"
    ELSE UNCHANGED <<content, selected, clearing>>

(* Mutant: clear() returns after the "0".                                         *)
ReplacedOnly ==
    /\ clearing = "compared"
    /\ clearing' = "no"
    /\ \/ system' = Zero /\ ours' = FALSE /\ stuck' = FALSE
       \/ UNCHANGED <<system, ours, stuck>>
    /\ UNCHANGED <<content, selected, modified, timer, expiring, copies>>

(* The "0" replaces whatever the clipboard holds by now; if it can be inserted,   *)
(* which clear() does not look at.                                                *)
Replaced ==
    /\ clearing = "compared"
    /\ clearing' = "replaced"
    /\ \/ system' = Zero /\ ours' = FALSE /\ stuck' = FALSE
       \/ UNCHANGED <<system, ours, stuck>>
    /\ UNCHANGED <<content, selected, modified, timer, expiring, copies>>

ClearEnds ==
    /\ clearing = "replaced"
    /\ clearing' = "no"
    /\ SystemCleared
    /\ UNCHANGED <<content, selected, modified, timer, expiring, copies>>

Timeout ==
    /\ timer
    /\ timer' = FALSE
    /\ Clear
    /\ UNCHANGED <<system, ours, stuck, modified, expiring, copies>>

(* A process that has ended leaves nothing of its clipboard management.           *)
ClipboardGone ==
    /\ content' = NoContent
    /\ selected' = "none"
    /\ modified' = FALSE
    /\ timer' = FALSE
    /\ clearing' = "no"
    /\ expiring' = FALSE
    /\ UNCHANGED <<system, copies>>

(* Its destructor finds no selected text any more when it calls clear() again.    *)
ClipboardExit ==
    /\ clearing = "no"
    /\ ClipboardGone
    /\ UNCHANGED <<ours, stuck>>

(* The process is killed, between two calls of clear() for instance.              *)
ClipboardKilled == ClipboardGone /\ ours' = FALSE /\ stuck' = FALSE
==================================================================================

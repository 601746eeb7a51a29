---------------------------------- MODULE EntryV4 ----------------------------------
(***************************************************************************)
(* The entries of a KeePass 2 database: their history, the size of which is*)
(* bounded, and their attachments, which a file refers to by number in the *)
(* pool of binaries it holds (db/v4/PwEntryV4.cpp, PwMetaV4.cpp, and the   *)
(* pages that edit an entry, assets/EditEntryPage.qml, EditFieldPage.qml,  *)
(* ViewEntryExtrasTab.qml).  All of it runs on the UI thread.  Every edit  *)
(* ends in a save, which may fail before or after the pool is rebuilt.     *)
(*                                                                         *)
(* Of the standard fields the title stands for all.  The entries are in one*)
(* group, in the order in which getAllChildren() finds them; the tree is   *)
(* the subject of GroupTreeV4.                                             *)
(***************************************************************************)
EXTENDS Integers, Sequences, FiniteSets, SequencesExt, Functions

CONSTANTS
    Entries,          \* UUIDs of entries
    Names,            \* names of extra fields
    Values,           \* values of fields, and titles
    Data,             \* contents of attachments, with their compression flag
    None,             \* no such field
    HistoryMaxItems,  \* meta.historyMaxItems: no limit if it is negative
    OldFiles,         \* what other programs may have left in the file
    MaxTime,          \* bound on the clock, hence on the number of edits
    MaxAtts           \* bound on the attachments of an entry

ASSUME LimitAssumption == HistoryMaxItems \in Int
ASSUME BoundsAssumption == MaxTime \in Nat /\ MaxAtts \in Nat
ASSUME NoneAssumption == None \notin Values

Attachments == [data : Data, id : Int]
Versions(Atts) ==
    [title : Values, extra : [Names -> Values \cup {None}], atts : Seq(Atts),
     modified : Int]

PoolOK(pool) == DOMAIN pool \subseteq Nat /\ Range(pool) \subseteq Data

(* What is in a file: no entry twice, and every attachment is the number of a     *)
(* binary.                                                                        *)
FileOK(f) ==
    /\ f.order \in Seq(Entries) /\ IsInjective(f.order)
    /\ f.entry \in [ToSet(f.order) -> Versions(Int)]
    /\ f.history \in [ToSet(f.order) -> Seq(Versions(Int))]
    /\ PoolOK(f.binaries)

ASSUME OldFilesAssumption == \A f \in OldFiles : FileOK(f)

VARIABLES
    order,     \* the entries, in the order of getAllChildren()
    entry,     \* the current version of every one of them
    history,   \* _historyDataModel: their earlier versions, index 1 at the top
    binaries,  \* PwMetaV4::binaries
    file,      \* what the file holds
    now        \* the clock, in seconds, which are all that a file keeps of a time

vars == <<order, entry, history, binaries, file, now>>

MemoryOK(ord, ents, hists) ==
    /\ ord \in Seq(Entries) /\ IsInjective(ord)
    /\ ents \in [ToSet(ord) -> Versions(Attachments)]
    /\ hists \in [ToSet(ord) -> Seq(Versions(Attachments))]

EntryTypeOK ==
    /\ MemoryOK(order, entry, history)
    /\ PoolOK(binaries)
    /\ FileOK(file)
    /\ now \in 0..MaxTime

(* The function f, with the value v for x as well.                                *)
With(f, x, v) == [y \in DOMAIN f \cup {x} |-> IF y = x THEN v ELSE f[y]]

WithAtts(v, atts) == [v EXCEPT !.atts = atts]
DataOf(v)         == [i \in DOMAIN v.atts |-> v.atts[i].data]

(* What the user sees of a version.                                               *)
Contents(v) == [title |-> v.title, extra |-> v.extra, data |-> DataOf(v)]

(* Mapping over every version of every entry of the given memory or file.         *)
EachEntry(ents, Op(_))  == [e \in DOMAIN ents |-> Op(ents[e])]
EachPast(hists, Op(_))  ==
    [e \in DOMAIN hists |-> [i \in DOMAIN hists[e] |-> Op(hists[e][i])]]

----------------------------------------------------------------------------------
(* History                                                                        *)

(* Mutant: the item at the bottom, which is the oldest one until the file is read *)
(* back.                                                                          *)
RemoveLast(h) == Front(h)

(* Mutant: the one at the top goes, which has just been added.                     *)
RemoveTop(h) == Tail(h)

(* removeOldestHistoryItem(): the first of those with the smallest time.          *)
OldestIndex(h) ==
    CHOOSE i \in DOMAIN h :
        \A j \in DOMAIN h : IF j < i THEN h[i].modified < h[j].modified
                                     ELSE h[i].modified <= h[j].modified

RemoveOldest(h) == RemoveAt(h, OldestIndex(h))

(* maintainHistorySize().                                                         *)
Maintained(h) ==
    IF HistoryMaxItems < 0 \/ Len(h) <= HistoryMaxItems
    THEN h
    ELSE FoldLeft(LAMBDA kept, i : RemoveOldest(kept),
                  h, [i \in 1..(Len(h) - HistoryMaxItems) |-> i])

(* addHistoryEntry().                                                             *)
WithHistoryEntry(h, v) == <<v>> \o h

(* backupState(): the copy has no history of its own.                             *)
BackupState(h, v) == Maintained(WithHistoryEntry(h, v))

(* registerModificationEvent().                                                   *)
Registered(v, t) == [v EXCEPT !.modified = t]

----------------------------------------------------------------------------------
(* The pool of binaries                                                           *)

(* Mutant: the history is not looked into.                                        *)
VisitedNow(ord, ents, hists) ==
    FlattenSeq([i \in DOMAIN ord |-> DataOf(ents[ord[i]])])

(* The data of the attachments in the order in which updateBinaries() meets them: *)
(* those of the earlier versions of an entry come before its own.                 *)
Visited(ord, ents, hists) ==
    FlattenSeq([i \in DOMAIN ord |->
        FlattenSeq([j \in DOMAIN hists[ord[i]] |-> DataOf(hists[ord[i]][j])])
            \o DataOf(ents[ord[i]])])

(* findBinary(), and a new item under the next number if there is none.           *)
AddBinary(pool, data) ==
    IF data \in Range(pool) THEN pool ELSE With(pool, Cardinality(DOMAIN pool), data)

(* Mutant: the binaries of the last save or load are not cleared.                 *)
PoolKept(ord, ents, hists) == FoldLeft(AddBinary, binaries, Visited(ord, ents, hists))

(* updateBinaries().                                                              *)
Pool(ord, ents, hists) == FoldLeft(AddBinary, <<>>, Visited(ord, ents, hists))

IdOf(pool, data) ==
    IF data \in Range(pool) THEN CHOOSE id \in DOMAIN pool : pool[id] = data ELSE -1

Renumbered(pool, v) ==
    WithAtts(v, [i \in DOMAIN v.atts |->
        [data |-> v.atts[i].data, id |-> IdOf(pool, v.atts[i].data)]])

----------------------------------------------------------------------------------
(* Files                                                                          *)

(* writeToStream(), writeAttachments(): of an attachment its number is written,   *)
(* and the history is written from the top.                                       *)
Refs(v) == WithAtts(v, [i \in DOMAIN v.atts |-> v.atts[i].id])

(* Mutant: the loop over the history ends one item early.                         *)
WrittenTooEarly(ord, ents, hists, pool) ==
    [order    |-> ord,
     entry    |-> EachEntry(ents, Refs),
     history  |-> [e \in DOMAIN hists |->
                      [i \in 1..(Len(hists[e]) - 1) |-> Refs(hists[e][i])]],
     binaries |-> pool]

Written(ord, ents, hists, pool) ==
    [order    |-> ord,
     entry    |-> EachEntry(ents, Refs),
     history  |-> EachPast(hists, Refs),
     binaries |-> pool]

(* readAttachment(): fails if the pool has no such number.                        *)
Resolved(pool, v) ==
    WithAtts(v, [i \in DOMAIN v.atts |-> [data |-> pool[v.atts[i]], id |-> v.atts[i]]])

VersionsIn(f) == Range(f.entry) \cup UNION {Range(h) : h \in Range(f.history)}
RefsIn(f)     == UNION {Range(v.atts) : v \in VersionsIn(f)}
Loads(f)      == RefsIn(f) \subseteq DOMAIN f.binaries

(* readFromStream().                                                              *)
ReadEntries(f) == EachEntry(f.entry, LAMBDA v : Resolved(f.binaries, v))

(* readHistory(): every version is put at the top, above those read before it,    *)
(* while writeToStream() has written the top first.                               *)
ReadHistory(f) ==
    [e \in DOMAIN f.history |->
        FoldLeft(WithHistoryEntry, <<>>,
                 [i \in DOMAIN f.history[e] |-> Resolved(f.binaries, f.history[e][i])])]

(* PwDatabaseV4::save() of the given memory: it fails before updateBinaries(), or *)
(* later on, or it is through and the file is written.                            *)
Saving(ord, ents, hists) ==
    /\ order' = ord
    /\ \/ /\ entry' = ents
          /\ history' = hists
          /\ UNCHANGED <<binaries, file>>
       \/ /\ binaries' = Pool(ord, ents, hists)
          /\ entry'   = EachEntry(ents, LAMBDA v : Renumbered(binaries', v))
          /\ history' = EachPast(hists, LAMBDA v : Renumbered(binaries', v))
          /\ \/ file' = Written(ord, entry', history', binaries')
             \/ UNCHANGED file

----------------------------------------------------------------------------------
(* Operations                                                                     *)

(* Every edit happens in a second of its own.                                     *)
Tick == now < MaxTime /\ now' = now + 1

(* The edits of an entry that register the modification before they make the      *)
(* backup.                                                                        *)
RegisterThenBackup(e, changed) ==
    Saving(order, [entry EXCEPT ![e] = Registered(changed, now')],
           [history EXCEPT ![e] = BackupState(@, Registered(entry[e], now'))])

(* The confirmed EditEntryPage of a new entry, for which no backup is made.       *)
CreateEntry(e, title) ==
    /\ e \notin ToSet(order)
    /\ Tick
    /\ Saving(Append(order, e),
              With(entry, e, [title |-> title, extra |-> [n \in Names |-> None],
                              atts |-> <<>>, modified |-> now']),
              With(history, e, <<>>))

(* saveChanges() of EditEntryPage.                                                *)
EditEntry(e, title) ==
    /\ title # entry[e].title
    /\ Tick
    /\ RegisterThenBackup(e, [entry[e] EXCEPT !.title = title])

FieldNames(e) == {n \in Names : entry[e].extra[n] # None}

(* saveChanges() of EditFieldPage: the backup comes first.  The old field, if     *)
(* any, is deleted and the new one is added, under a name not used yet.           *)
EditField(e, old, name, value) ==
    /\ old \in FieldNames(e) \cup {None}
    /\ name \in {old} \cup (Names \ FieldNames(e))
    /\ Tick
    /\ LET extra == [n \in Names |-> IF n = name THEN value
                                     ELSE IF n = old THEN None ELSE entry[e].extra[n]]
       IN Saving(order,
                 [entry EXCEPT ![e] =
                     Registered([entry[e] EXCEPT !.extra = extra], now')],
                 [history EXCEPT ![e] = BackupState(@, entry[e])])

(* removeField().                                                                 *)
RemoveField(e, name) ==
    /\ name \in FieldNames(e)
    /\ Tick
    /\ RegisterThenBackup(e, [entry[e] EXCEPT !.extra[name] = None])

(* attachFile(); the attachment has no number until the pool is rebuilt.          *)
AttachFile(e, data) ==
    /\ Len(entry[e].atts) < MaxAtts
    /\ Tick
    /\ RegisterThenBackup(e,
           WithAtts(entry[e], Append(entry[e].atts, [data |-> data, id |-> -1])))

(* removeAttachmentAt().                                                          *)
RemoveAttachmentAt(e, i) ==
    /\ Tick
    /\ RegisterThenBackup(e, WithAtts(entry[e], RemoveAt(entry[e].atts, i)))

(* Mutant: the entry leaves the list of its group, but is still written.          *)
DeleteFromListOnly(e) ==
    /\ Saving(RemoveFirst(order, e), entry, history)
    /\ UNCHANGED now

(* deleteWithoutBackup(), then a save.                                            *)
DeleteEntry(e) ==
    /\ Saving(RemoveFirst(order, e),
              Restrict(entry, DOMAIN entry \ {e}), Restrict(history, DOMAIN history \ {e}))
    /\ UNCHANGED now

(* A save for another reason: the settings of the database, a group.              *)
Save == Saving(order, entry, history) /\ UNCHANGED now

(* Locking and unlocking again.  A reference that is not found would end it in    *)
(* INVALID_ATTACHMENT_REFERENCE_1.                                                *)
Reopen ==
    /\ Loads(file)
    /\ order' = file.order
    /\ entry' = ReadEntries(file)
    /\ history' = ReadHistory(file)
    /\ binaries' = file.binaries
    /\ UNCHANGED <<file, now>>

Init ==
    /\ file \in OldFiles
    /\ Loads(file)
    /\ now = 0
    /\ order = file.order
    /\ entry = ReadEntries(file)
    /\ history = ReadHistory(file)
    /\ binaries = file.binaries

Next ==
    \/ \E e \in Entries, v \in Values : CreateEntry(e, v)
    \/ \E e \in ToSet(order) :
          \/ \E v \in Values : EditEntry(e, v)
          \/ \E old \in Names \cup {None}, n \in Names, v \in Values :
                EditField(e, old, n, v)
          \/ \E n \in Names : RemoveField(e, n)
          \/ \E d \in Data : AttachFile(e, d)
          \/ \E i \in DOMAIN entry[e].atts : RemoveAttachmentAt(e, i)
          \/ DeleteEntry(e)
    \/ Save
    \/ Reopen

Spec == Init /\ [][Next]_vars

----------------------------------------------------------------------------------
(* Properties                                                                     *)

(* The items of the history of a version v are no newer than v, and at most one   *)
(* of them is as new: the backup made with the modification that v registers.     *)
OlderThan(h, v) ==
    /\ \A i \in DOMAIN h : h[i].modified <= v.modified
    /\ \A i, j \in DOMAIN h :
          h[i].modified = v.modified /\ h[j].modified = v.modified => i = j

TimesOK(ord, ents, hists, t) ==
    \A e \in ToSet(ord) : OlderThan(hists[e], ents[e]) /\ ents[e].modified <= t

TimesInv ==
    /\ TimesOK(order, entry, history, now)
    /\ TimesOK(file.order, file.entry, file.history, now)

(* The entries are well formed, and every history is older than its entry, in     *)
(* memory and in the file, whatever is edited, saved and read again: the backup of*)
(* an edit is therefore never the oldest item (PwEntryV4.cpp:423).                *)
EntryInv == EntryTypeOK /\ TimesInv

(* Every attachment in the file, those of earlier versions included, refers to a  *)
(* binary that the file holds: what has been saved can be opened again            *)
(* (PwEntryV4.cpp:798).                                                           *)
ReferencesResolve == Loads(file)

(* The same versions, each as often, in any order.                                *)
SameItems(g, h) ==
    \E f \in Bijection(DOMAIN h, DOMAIN g) : \A i \in DOMAIN h : g[f[i]] = h[i]

(* Reading the file a save has just written gives every entry in memory, with its *)
(* fields, times and the data of its attachments, and every version of its history*)
(* with them, although the numbers are given anew each time and equal data share  *)
(* one (PwEntryV4.cpp:806).  The order of a history is another matter:            *)
(* MostRecentOnTop.                                                               *)
SaveKeepsEverything ==
    [][file' # file =>
          /\ file'.order = order'
          /\ ReadEntries(file') = entry'
          /\ \A e \in ToSet(order') : SameItems(ReadHistory(file')[e], history'[e])]_vars

(* PwEntryV4.cpp:389, addHistoryEntry(): "most recent entries should be at the    *)
(* top".  They are, of a file that has the oldest one first, until it is saved.   *)
MostRecentOnTop ==
    \A e \in ToSet(order) : \A i, j \in DOMAIN history[e] :
        i < j => history[e][i].modified >= history[e][j].modified

(* A save leaves no data in the file that no version of any entry refers to: what *)
(* the user has deleted with its last version is gone (PwMetaV4.cpp:506).         *)
DeletedDataIsGone == [][file' # file => DOMAIN file'.binaries = RefsIn(file')]_vars

EditedEntries == {e \in ToSet(order) \cap ToSet(order') :
                     now' # now /\ Contents(entry'[e]) # Contents(entry[e])}

(* What an entry contained before an edit is found in its history after it        *)
(* (ViewEntryExtrasTab.qml:130, "the field will remain in the entry history").    *)
EditsLeaveABackup ==
    [][\A e \in EditedEntries :
          \E i \in DOMAIN history'[e] : Contents(history'[e][i]) = Contents(entry[e])]_vars

(* No edit takes a version out of the history while an older one stays in it,     *)
(* whatever the order the file had them in, and none goes while there is room for *)
(* it and for the backup (PwEntryV4.cpp:418).                                     *)
Gone(e) == {h \in ToSet(history[e]) :
               \A k \in ToSet(history'[e]) : <<k.modified, Contents(k)>> # <<h.modified, Contents(h)>>}

OldestGoesFirst ==
    [][\A e \in EditedEntries : \A g \in Gone(e) :
          /\ \A k \in ToSet(history'[e]) : g.modified <= k.modified
          /\ 0 <= HistoryMaxItems /\ Len(history'[e]) >= HistoryMaxItems]_vars
====================================================================================

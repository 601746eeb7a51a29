------------------------------- MODULE GroupTreeV4 -------------------------------
(***************************************************************************)
(* The groups and entries of an open KeePass 2 database (db/PwGroup.cpp,   *)
(* db/v4/PwGroupV4.cpp, PwEntryV4.cpp, PwDatabaseV4.cpp): creating them in *)
(* an edit sheet, deleting them to the Recycle Bin or for good, saving, and*)
(* reading the saved file back.  All of it runs on the UI thread; every    *)
(* delete and every closed sheet ends in a save, which may fail.           *)
(*                                                                         *)
(* A group or an entry is its UUID.  The two child lists of a group,       *)
(* _subGroups and _entries, are one set: no property is about the order.   *)
(***************************************************************************)
EXTENDS FiniteSets

CONSTANTS
    Groups,          \* UUIDs of groups
    Entries,         \* UUIDs of entries
    Root,            \* the root group
    None,            \* NULL, or an empty UUID
    BinMayBeNested   \* may a file hold its Recycle Bin inside another group?

Nodes == Groups \cup Entries

ASSUME NodesAssumption ==
    /\ Root \in Groups
    /\ Groups \cap Entries = {}
    /\ None \notin Nodes
ASSUME BinMayBeNestedAssumption == BinMayBeNested \in BOOLEAN

VARIABLES
    children,        \* _subGroups and _entries of every group in memory
    parent,          \* _parentGroup
    deleted,         \* _deleted
    deletedObjects,  \* PwDatabaseV4::deletedObjects
    binEnabled,      \* meta.recycleBinEnabled
    binUuid,         \* meta.recycleBinGroupUuid
    file,            \* what the last successful save has written
    sheet,           \* the group or entry whose creation is to be confirmed
    used             \* history: the UUIDs in use, which PwUuid::create() avoids

treeVars == <<children, parent, deleted, deletedObjects, binUuid>>
vars     == <<treeVars, binEnabled, file, sheet, used>>

Files == [children : [Groups -> SUBSET Nodes], binUuid : Groups \cup {None},
          deletedObjects : SUBSET Nodes]

TreeTypeOK ==
    /\ children \in [Groups -> SUBSET Nodes]
    /\ parent \in [Nodes -> Groups \cup {None}]
    /\ deleted \in [Nodes -> BOOLEAN]
    /\ deletedObjects \in SUBSET Nodes
    /\ binEnabled \in BOOLEAN
    /\ binUuid \in Groups \cup {None}
    /\ file \in Files
    /\ sheet \in Nodes \cup {None}
    /\ used \in SUBSET Nodes

----------------------------------------------------------------------------------
(* Walking the tree                                                               *)

(* The groups that are reached from those of start by going down the child lists: *)
(* they are in every set that has start and is closed under going down.           *)
Closed(S, lists) == \A g \in S : lists[g] \cap Groups \subseteq S

ReachedFrom(start, lists) ==
    {g \in Groups : \A S \in SUBSET Groups :
                       start \subseteq S /\ Closed(S, lists) => g \in S}

Tree(lists)    == ReachedFrom({Root}, lists)
Members(lists) == {Root} \cup UNION {lists[g] : g \in Tree(lists)}

(* getAllChildren(): the groups and entries of the branch below n.                *)
AllChildren(n) ==
    IF n \in Groups
    THEN children[n] \cup UNION {children[g] :
                                    g \in ReachedFrom(children[n] \cap Groups, children)}
    ELSE {}

(* findGroupByUuid() from the root.                                               *)
BinFound == binEnabled /\ binUuid \in Tree(children)

(* filterEntries() with a query that every entry matches: it does not go into     *)
(* groups that are flagged deleted, unless these are included.                    *)
Searched(includeDeleted) ==
    [g \in Groups |->
        {n \in children[g] : n \in Groups => includeDeleted \/ ~deleted[n]}]

FilterEntries(includeDeleted) ==
    UNION {children[g] \cap Entries : g \in Tree(Searched(includeDeleted))}

----------------------------------------------------------------------------------
(* Files                                                                          *)

(* writeToStream() goes down from the root.                                       *)
WrittenLists(lists) == [g \in Groups |-> IF g \in Tree(lists) THEN lists[g] ELSE {}]

Written ==
    [children       |-> WrittenLists(children),
     binUuid        |-> binUuid,
     deletedObjects |-> deletedObjects]

Saved == file' = Written' \/ UNCHANGED file

ParentIn(lists, n) ==
    IF \E g \in Groups : n \in lists[g] THEN CHOOSE g \in Groups : n \in lists[g]
                                        ELSE None

(* Mutant: the flag is set although the Recycle Bin is disabled.                  *)
FlaggedAnyway(uuid, g) == g = uuid

(* Mutant: the test of meta.isRecycleBinEnabled() is inverted.                    *)
FlaggedIfDisabled(uuid, g) == ~binEnabled /\ g = uuid

(* readFromStream() of a group sets the flag of the enabled Recycle Bin only: the *)
(* flag its parent has set before is cleared by the clear() it begins with.       *)
Flagged(uuid, g) == binEnabled /\ g = uuid

(* readFromStream() of an entry, which gets the flag of its group.                *)
ReadDeleted(lists, uuid) ==
    [n \in Nodes |-> IF n \in Groups THEN Flagged(uuid, n)
                                     ELSE Flagged(uuid, ParentIn(lists, n))]

(* parseXml(): the deleted objects of the file are parsed, but not added to those *)
(* of the database.                                                               *)
ReadFile(contents) ==
    /\ children' = contents.children
    /\ parent' = [n \in Nodes |-> ParentIn(contents.children, n)]
    /\ deleted' = ReadDeleted(contents.children, contents.binUuid)
    /\ deletedObjects' = {}
    /\ binUuid' = contents.binUuid

(* A file with the given groups around its groups and entries.                    *)
IsTree(around, lists) ==
    /\ around[Root] = None
    /\ \A n \in Nodes : around[n] # None => n \in Members(lists)

Init ==
    \E around \in [Nodes -> Groups \cup {None}] :
       LET lists == [g \in Groups |-> {n \in Nodes : around[n] = g}] IN
       /\ IsTree(around, lists)
       /\ binEnabled \in BOOLEAN
       /\ binUuid \in (Groups \ {Root}) \cup {None}
       /\ binUuid # None /\ ~BinMayBeNested => around[binUuid] \in {Root, None}
       /\ file = [children |-> lists, binUuid |-> binUuid, deletedObjects |-> {}]
       /\ children = lists
       /\ parent = around
       /\ deleted = ReadDeleted(lists, binUuid)
       /\ deletedObjects = {}
       /\ sheet = None
       /\ used = Members(lists) \cup ({binUuid} \ {None})

----------------------------------------------------------------------------------
(* Creating, and closing the edit sheet                                           *)

(* ViewGroupPage creates the group or the entry before its edit sheet is open.    *)
Create(g, n) ==
    /\ sheet = None
    /\ g \in Tree(children)
    /\ ~deleted[g]
    /\ n \notin used
    /\ used' = used \cup {n}
    /\ children' = [children EXCEPT ![g] = @ \cup {n}]
    /\ parent' = [parent EXCEPT ![n] = g]
    /\ deleted' = [deleted EXCEPT ![n] = deleted[g]]
    /\ sheet' = n
    /\ UNCHANGED <<deletedObjects, binEnabled, binUuid, file>>

(* The sheet of a new, or (sheet = None) of an edited group or entry.             *)
SaveChanges ==
    /\ sheet' = None
    /\ UNCHANGED <<treeVars, binEnabled, used>>
    /\ Saved

(* Mutant: removeSubGroup() does not reset the pointer to the parent.             *)
DetachedKeepingParent(n) ==
    /\ children' = [children EXCEPT ![parent[n]] = @ \ {n}]
    /\ UNCHANGED parent

(* deleteWithoutBackup()                                                          *)
Detached(n) ==
    /\ children' = [children EXCEPT ![parent[n]] = @ \ {n}]
    /\ parent' = [parent EXCEPT ![n] = None]

Dismiss ==
    /\ sheet # None
    /\ Detached(sheet)
    /\ sheet' = None
    /\ UNCHANGED <<deleted, deletedObjects, binEnabled, binUuid, file, used>>

----------------------------------------------------------------------------------
(* Deleting                                                                       *)

(* getBackupGroup(true): the group found, or a new one in the root group.         *)
BackupGroups == IF BinFound THEN {binUuid} ELSE Groups \ used

WithBackupGroup(bin) ==
    IF BinFound THEN children ELSE [children EXCEPT ![Root] = @ \cup {bin}]

(* moveToBackup() with a Recycle Bin: the branch goes there, and all of it is     *)
(* flagged.                                                                       *)
MoveToBackup(n, bin) ==
    /\ children' = [WithBackupGroup(bin) EXCEPT ![parent[n]] = @ \ {n},
                                                ![bin] = @ \cup {n}]
    /\ parent' = [parent EXCEPT ![bin] = IF BinFound THEN @ ELSE Root, ![n] = bin]
    /\ deleted' = [m \in Nodes |-> \/ deleted[m]
                                   \/ m \in {n} \cup AllChildren(n)
                                   \/ m = bin /\ ~BinFound]
    /\ binUuid' = bin
    /\ used' = used \cup {bin}
    /\ UNCHANGED deletedObjects

(* Mutant: what is below the group is not mentioned.                              *)
DeletePermanentlyShallow(n) ==
    /\ deletedObjects' = deletedObjects \cup {n}
    /\ Detached(n)
    /\ UNCHANGED <<deleted, binUuid, used>>

(* moveToBackup() without one.                                                    *)
DeletePermanently(n) ==
    /\ deletedObjects' = deletedObjects \cup {n} \cup AllChildren(n)
    /\ Detached(n)
    /\ UNCHANGED <<deleted, binUuid, used>>

(* deleteEntry() and deleteGroup(), for items that are not flagged deleted.       *)
Delete(n) ==
    /\ sheet = None
    /\ n \in Members(children) \ {Root}
    /\ ~deleted[n]
    /\ \/ binEnabled /\ \E bin \in BackupGroups : MoveToBackup(n, bin)
       \/ ~binEnabled /\ DeletePermanently(n)
    /\ Saved
    /\ UNCHANGED <<binEnabled, sheet>>

(* The database is locked, or the process dies, and the file is opened again.     *)
Reopen ==
    /\ ReadFile(file)
    /\ sheet' = None
    /\ UNCHANGED <<binEnabled, file, used>>

Next ==
    \/ \E g \in Groups, n \in Nodes : Create(g, n)
    \/ SaveChanges
    \/ Dismiss
    \/ \E n \in Nodes : Delete(n)
    \/ Reopen

Spec == Init /\ [][Next]_vars
----------------------------------------------------------------------------------
(* Properties                                                                     *)

(* Child lists and parent pointers, which are updated apart, always agree.        *)
ListsAgree ==
    \A g \in Groups, n \in Nodes : n \in children[g] <=> parent[n] = g

(* The tree in memory: every child is known, a UUID that is not known has no      *)
(* child, and the enabled Recycle Bin is flagged and, unless a file has put it    *)
(* elsewhere, in the root group.                                                  *)
MemoryOK ==
    /\ ListsAgree
    /\ parent[Root] = None
    /\ Root \in used /\ binUuid \in used \cup {None}
    /\ \A g \in Groups : children[g] \subseteq used
    /\ \A g \in Groups \ used : children[g] = {}
    /\ binEnabled /\ binUuid # None => deleted[binUuid]
    /\ BinMayBeNested \/ \A g \in Groups : binUuid \in children[g] => g = Root

(* The same of the file, in which every node has one place.                       *)
FileOK ==
    /\ file.binUuid \in used \cup {None}
    /\ \A g \in Groups : file.children[g] \subseteq used \ {Root}
    /\ \A g \in Groups \ used : file.children[g] = {}
    /\ \A g, h \in Groups : file.children[g] \cap file.children[h] # {} => g = h
    /\ BinMayBeNested \/ \A g \in Groups : file.binUuid \in file.children[g] => g = Root

(* What an edit sheet is creating has a place, has nothing below it, and has not  *)
(* been saved.                                                                    *)
SheetOK ==
    sheet # None =>
       /\ sheet \in used
       /\ parent[sheet] # None
       /\ sheet \in Groups => children[sheet] = {}
       /\ \A g \in Groups : sheet \notin file.children[g]

(* The three together are inductive: no delete, dismissed sheet, failed save or   *)
(* reopened file leaves a node in two places, or one that is not known.           *)
TreeInv == TreeTypeOK /\ MemoryOK /\ FileOK /\ SheetOK

(* The Recycle Bin: its branch, when it is enabled and there is one.              *)
InBin(n) == BinFound /\ n \in {binUuid} \cup AllChildren(binUuid)

(* Whatever was created, deleted, saved or not since: what the file holds is in   *)
(* the open tree, or among the deleted objects that the next save will mention.   *)
NothingLost == Members(file.children) \subseteq Members(children) \cup deletedObjects

(* A save takes a group or an entry out of the file only by mentioning it.        *)
DeletionIsMentioned ==
    [][\A n \in Members(file.children) \ Members(file'.children) :
          n \in file'.deletedObjects]_vars

(* Only what is in the Recycle Bin is flagged, and so withdrawn from editing: in  *)
(* particular nothing is after a failed or a permanent deletion.                  *)
OnlyRecycledIsFlagged ==
    \A n \in Members(children) : deleted[n] => InBin(n)

(* With it is inductive that the Recycle Bin is never the root group, in which it *)
(* would be entered, and that what an edit sheet creates is not in it.            *)
RecycleInv ==
    /\ OnlyRecycledIsFlagged
    /\ binUuid # Root /\ file.binUuid # Root
    /\ sheet # None => ~deleted[sheet]

(* A search that leaves out deleted entries finds exactly those that are not in   *)
(* the Recycle Bin, although after reading a file the groups below it are not     *)
(* flagged; one that includes them finds every entry.                             *)
SearchSkipsRecycled ==
    /\ FilterEntries(FALSE) = {n \in Members(children) \cap Entries : ~InBin(n)}
    /\ FilterEntries(TRUE) = Members(children) \cap Entries

(* PwGroupV4.cpp: "Moves the group's whole branch to Backup group".  A group that *)
(* was in the tree and has got another parent is in the tree.                     *)
BranchMovesToBackup ==
    [][\A g \in Tree(children) :
          parent'[g] \notin {parent[g], None} => g \in Tree(children')]_vars
==================================================================================

---------------------------------- MODULE TreeV3 ----------------------------------
(***************************************************************************)
(* The groups and entries of a KeePass 1 database (db/v3/PwDatabaseV3.cpp, *)
(* PwGroupV3.cpp, PwEntryV3.cpp, and db/PwGroup.cpp below them).  A file   *)
(* holds no tree: it lists the groups with their levels and the entries    *)
(* with the id of their group, and every change in memory has to keep the  *)
(* levels, ids and lists in agreement for the tree to be found again.      *)
(* Deleted entries, and the earlier versions of edited ones, are in a group*)
(* of the root that is named "Backup".                                     *)
(*                                                                         *)
(* A group or an entry is its UUID.  Of an entry's fields the title stands *)
(* for all.  All of it runs on the UI thread.  Objects that are no longer  *)
(* reached from the root are left out.                                     *)
(***************************************************************************)
EXTENDS Integers, Sequences, FiniteSets, SequencesExt

CONSTANTS
    Groups,       \* UUIDs of groups
    Entries,      \* UUIDs of entries
    MetaStreams,  \* UUIDs of entries with the data of other programs, not shown
    Root,         \* the root group, which is in no file
    None,         \* NULL, and the -1 or 0 that no group has as its id
    Ids,          \* what qrand() may return, ids that are in use among them
    Titles,
    OldFiles      \* what other programs may have left in the file

ASSUME GroupsAssumption == IsFiniteSet(Groups) /\ Root \in Groups /\ None \notin Groups
ASSUME IdsAssumption == None \notin Ids
ASSUME MetaAssumption == MetaStreams \cap Entries = {}

VARIABLES
    db,           \* the groups and entries in memory, and backupGroup
    metaStreams,  \* metaStreamEntries
    file          \* what the file holds

vars == <<db, metaStreams, file>>

NewGroup == [subGroups |-> <<>>, entries |-> <<>>, parent |-> None, level |-> -1,
             id |-> None, reserved |-> FALSE, deleted |-> FALSE]
NoEntry  == [group |-> None, groupId |-> None, title |-> None, deleted |-> FALSE]

NoTree == [group |-> [g \in Groups |-> NewGroup], entry |-> [e \in Entries |-> NoEntry],
           backupGroup |-> None]

GroupStates == [subGroups : Seq(Groups), entries : Seq(Entries),
                parent : Groups \cup {None}, level : -1..Cardinality(Groups),
                id : Ids \cup {None}, reserved : BOOLEAN, deleted : BOOLEAN]
EntryStates == [group : Groups \cup {None}, groupId : Ids \cup {None},
                title : Titles \cup {None}, deleted : BOOLEAN]

Trees == [group : [Groups -> GroupStates], entry : [Entries -> EntryStates],
          backupGroup : (Groups \ {Root}) \cup {None}]

Files == [groups  : Seq([node : Groups, id : Ids \cup {None},
                         level : -1..Cardinality(Groups), reserved : BOOLEAN]),
          entries : Seq([node : Entries \cup MetaStreams, groupId : Ids \cup {None},
                         title : Titles \cup {None}]),
          groupCount : Nat, entryCount : Nat]

TreeV3TypeOK ==
    /\ db \in Trees
    /\ metaStreams \in Seq(MetaStreams)
    /\ file \in Files
    /\ file.groupCount <= Len(file.groups) /\ file.entryCount <= Len(file.entries)

----------------------------------------------------------------------------------
(* Walking the tree                                                               *)

Concat(seq, Op(_)) == FlattenSeq([i \in DOMAIN seq |-> Op(seq[i])])

Depth == 0..Cardinality(Groups)

(* Mutant: all subgroups of a group come before the groups below them.            *)
SiblingsFirst(d) ==
    LET below[n \in Depth] ==
            [g \in Groups |->
                IF n = 0 THEN <<>>
                ELSE d.group[g].subGroups
                         \o Concat(d.group[g].subGroups, LAMBDA s : below[n - 1][s])]
    IN  below[Cardinality(Groups)][Root]

(* getAllChildren(): a group comes before its subgroups, ...                      *)
AllGroups(d) ==
    LET below[n \in Depth] ==
            [g \in Groups |->
                IF n = 0 THEN <<>>
                ELSE Concat(d.group[g].subGroups, LAMBDA s : <<s>> \o below[n - 1][s])]
    IN  below[Cardinality(Groups)][Root]

(* ... and the entries of its subgroups before its own.                           *)
AllEntriesBelow(d, group) ==
    LET below[n \in Depth] ==
            [g \in Groups |->
                IF n = 0 THEN <<>>
                ELSE Concat(d.group[g].subGroups, LAMBDA s : below[n - 1][s])
                         \o d.group[g].entries]
    IN  below[Cardinality(Groups)][group]

AllEntries(d) == AllEntriesBelow(d, Root)
LiveGroups(d) == {Root} \cup ToSet(AllGroups(d))

(* What is reached from the root.                                                 *)
Live(d) ==
    [d EXCEPT !.group = [g \in Groups |->
                            IF g \in LiveGroups(d) THEN d.group[g] ELSE NewGroup],
              !.entry = [e \in Entries |->
                            IF e \in ToSet(AllEntries(d)) THEN d.entry[e] ELSE NoEntry]]

----------------------------------------------------------------------------------
(* Changing the tree                                                              *)

(* Mutant: PwGroup::addSubGroup(), which knows of no levels.                      *)
AddSubGroupNoLevel(d, p, g) ==
    [d EXCEPT !.group[p].subGroups = Append(@, g), !.group[g].parent = p]

AddSubGroup(d, p, g) ==
    [d EXCEPT !.group[p].subGroups = Append(@, g),
              !.group[g].parent    = p,
              !.group[g].level     = d.group[p].level + 1]

(* The group leaves with everything below it.                                     *)
RemoveSubGroup(d, p, g) ==
    [d EXCEPT !.group[p].subGroups = RemoveFirst(@, g),
              !.group[g].parent    = None,
              !.group[g].level     = 0]

AddEntry(d, g, e) ==
    [d EXCEPT !.group[g].entries = Append(@, e),
              !.entry[e].group   = g,
              !.entry[e].groupId = d.group[g].id]

MoveEntry(d, g, e) ==
    [d EXCEPT !.group[g].entries              = Append(@, e),
              !.group[d.entry[e].group].entries = RemoveFirst(@, e),
              !.entry[e].group                = g,
              !.entry[e].groupId              = d.group[g].id]

(* UUIDs are unique among all those in memory and in the file.                    *)
FreshGroups(d) ==
    Groups \ (LiveGroups(d) \cup {file.groups[i].node : i \in DOMAIN file.groups})
FreshEntries(d) ==
    Entries \ (ToSet(AllEntries(d)) \cup {file.entries[i].node : i \in DOMAIN file.entries})

(* createGroup() of the group p.  The loop of createNewGroupId() that compares the *)
(* number drawn with the ids in use only ever goes on to the next group: it takes *)
(* any number.                                                                    *)
CreateGroupIn(d, p, g, id) ==
    AddSubGroup([d EXCEPT !.group[g] =
                    [NewGroup EXCEPT !.id = id, !.deleted = d.group[p].deleted]], p, g)

(* Mutant: the group does not get its name.                                       *)
WithNewBackupGroup(d) ==
    IF d.backupGroup # None
    THEN {d}
    ELSE {[CreateGroupIn(d, Root, g, id) EXCEPT !.backupGroup = g,
                                                !.group[g].deleted = TRUE] :
              g \in FreshGroups(d), id \in Ids}

(* getBackupGroup(true): what may come of it.                                     *)
CreateBackupGroup(d, g, id) ==
    [CreateGroupIn(d, Root, g, id) EXCEPT !.backupGroup       = g,
                                          !.group[g].reserved = TRUE,
                                          !.group[g].deleted  = TRUE]

WithBackupGroup(d) ==
    IF d.backupGroup # None
    THEN {d}
    ELSE {CreateBackupGroup(d, g, id) : g \in FreshGroups(d), id \in Ids}

(* PwEntryV3::moveToBackup(), once there is a Backup group.                       *)
EntryToBackup(d, e) ==
    [MoveEntry(d, d.backupGroup, e) EXCEPT !.entry[e].deleted = TRUE]

(* Mutant: the copy is made, but stays where the original is.                     *)
CopyInPlace(d, e, copy) ==
    AddEntry([d EXCEPT !.entry[copy] = d.entry[e]], d.entry[e].group, copy)

(* backupState(): the copy is put into the group of the entry by clone(), gets a  *)
(* UUID of its own and goes to the Backup group.                                  *)
BackupState(d, e, copy) ==
    EntryToBackup(AddEntry([d EXCEPT !.entry[copy] = d.entry[e]], d.entry[e].group, copy),
                  copy)

(* Mutant: only the entries of the group itself are moved.                        *)
OwnEntriesToBackup(d, g) ==
    FoldLeft(EntryToBackup, RemoveSubGroup(d, d.group[g].parent, g), d.group[g].entries)

(* PwGroupV3::moveToBackup(), likewise.                                           *)
GroupToBackup(d, g) ==
    FoldLeft(EntryToBackup, RemoveSubGroup(d, d.group[g].parent, g),
             AllEntriesBelow(d, g))

----------------------------------------------------------------------------------
(* Files                                                                          *)

(* writeToStream() of the groups, the entries and the meta streams; which group a  *)
(* meta stream names is of no interest.                                           *)
GroupRecord(d, g) == [node |-> g, id |-> d.group[g].id, level |-> d.group[g].level,
                      reserved |-> d.group[g].reserved]
EntryRecord(d, e) == [node |-> e, groupId |-> d.entry[e].groupId,
                      title |-> d.entry[e].title]
MetaRecord(m)     == [node |-> m, groupId |-> None, title |-> None]

Content(d, metas) ==
    [groups  |-> [i \in DOMAIN AllGroups(d) |-> GroupRecord(d, AllGroups(d)[i])],
     entries |-> [i \in DOMAIN AllEntries(d) |-> EntryRecord(d, AllEntries(d)[i])]
                     \o [i \in DOMAIN metas |-> MetaRecord(metas[i])]]

Counted(content, groupCount, entryCount) ==
    [groups |-> content.groups, entries |-> content.entries,
     groupCount |-> groupCount, entryCount |-> entryCount]

(* Mutant: the two counts are passed in the wrong order.                          *)
WrittenCountsSwapped(d, metas) ==
    Counted(Content(d, metas), Len(AllEntries(d)), Len(AllGroups(d)))

(* writeContent() and the two counts of the header.  The meta streams are written *)
(* but not counted.                                                               *)
Written(d, metas) ==
    Counted(Content(d, metas), Len(AllGroups(d)), Len(AllEntries(d)))

(* readAllGroups(): a group "Backup" at the top is flagged.                       *)
ReadGroups(f) == SubSeq(f.groups, 1, f.groupCount)
IsBackup(r)   == r.level = 0 /\ r.reserved

ReadGroup(d, r) ==
    [d EXCEPT !.group[r.node] = [NewGroup EXCEPT !.id = r.id, !.level = r.level,
                                                 !.reserved = r.reserved,
                                                 !.deleted = IsBackup(r)],
              !.backupGroup = IF IsBackup(r) THEN r.node ELSE @]

(* The hierarchy is restored level by level: a group belongs to the last one of   *)
(* the level above that comes before it in the list.  Going on beyond the highest *)
(* level changes nothing.                                                         *)
PlaceAt(level, acc, r) ==
    IF r.level = level          THEN [acc EXCEPT !.d = AddSubGroup(acc.d, acc.at, r.node)]
    ELSE IF r.level = level - 1 THEN [acc EXCEPT !.at = r.node]
                                ELSE acc

PlaceLevel(gs, acc, level) == FoldLeft(LAMBDA a, r : PlaceAt(level, a, r), acc, gs)

Hierarchy(d, gs) ==
    FoldLeft(LAMBDA acc, level : PlaceLevel(gs, acc, level - 1),
             [d |-> d, at |-> Root], [level \in 1..Cardinality(Groups) |-> level]).d

(* Entries go to the group that has been read last with their group id, and get   *)
(* its flag; the meta streams are set apart.                                      *)
IsMetaStream(r) == r.node \in MetaStreams

GroupById(gs, id) == gs[CHOOSE i \in DOMAIN gs :
                           gs[i].id = id /\ \A j \in DOMAIN gs : j > i => gs[j].id # id].node

PlaceEntry(gs, d, r) ==
    LET g == GroupById(gs, r.groupId)
    IN  IF IsMetaStream(r) THEN d
        ELSE AddEntry([d EXCEPT !.entry[r.node] =
                          [NoEntry EXCEPT !.title = r.title, !.deleted = d.group[g].deleted]],
                      g, r.node)

(* readContent(), which fails with ORPHANED_ENTRY_ERROR if Loads(f) does not hold.*)
ReadEntries(f) == SubSeq(f.entries, 1, f.entryCount)
ReadMetaStreams(f) ==
    FoldLeft(LAMBDA ms, r : IF IsMetaStream(r) THEN Append(ms, r.node) ELSE ms,
             <<>>, ReadEntries(f))

Loads(f) == {r.groupId : r \in {x \in ToSet(ReadEntries(f)) : ~IsMetaStream(x)}} \subseteq
                {r.id : r \in ToSet(ReadGroups(f))}

ReadTree(f) ==
    LET gs == ReadGroups(f)
    IN  FoldLeft(LAMBDA d, r : PlaceEntry(gs, d, r),
                 Hierarchy(FoldLeft(ReadGroup, NoTree, gs), gs), ReadEntries(f))

(* PwDatabaseV3::save(), which may fail.                                          *)
Saved == file' = Written(db', metaStreams') \/ UNCHANGED file

----------------------------------------------------------------------------------
(* Operations.  Only what is not deleted can be edited, deleted or added to, and  *)
(* no entry is created in the root.                                               *)

CreateGroup(p, g, id) ==
    /\ ~db.group[p].deleted
    /\ g \in FreshGroups(db)
    /\ db' = CreateGroupIn(db, p, g, id)
    /\ UNCHANGED metaStreams
    /\ Saved

CreateEntry(g, e, title) ==
    /\ g # Root
    /\ ~db.group[g].deleted
    /\ e \in FreshEntries(db)
    /\ db' = AddEntry([db EXCEPT !.entry[e] = [NoEntry EXCEPT !.title = title]], g, e)
    /\ UNCHANGED metaStreams
    /\ Saved

EditEntry(e, copy, title) ==
    /\ ~db.entry[e].deleted
    /\ title # db.entry[e].title
    /\ copy \in FreshEntries(db)
    /\ \E d \in WithBackupGroup(db) :
          db' = [BackupState(d, e, copy) EXCEPT !.entry[e].title = title]
    /\ UNCHANGED metaStreams
    /\ Saved

DeleteEntry(e) ==
    /\ ~db.entry[e].deleted
    /\ \E d \in WithBackupGroup(db) : db' = EntryToBackup(d, e)
    /\ UNCHANGED metaStreams
    /\ Saved

DeleteGroup(g) ==
    /\ g # Root
    /\ ~db.group[g].deleted
    /\ \E d \in WithBackupGroup(db) : db' = Live(GroupToBackup(d, g))
    /\ UNCHANGED metaStreams
    /\ Saved

(* Locking and unlocking again.                                                   *)
Reopen ==
    /\ Loads(file)
    /\ db' = ReadTree(file)
    /\ metaStreams' = ReadMetaStreams(file)
    /\ UNCHANGED file

Init ==
    /\ file \in OldFiles
    /\ db = ReadTree(file)
    /\ metaStreams = ReadMetaStreams(file)

Next ==
    \/ \E p \in LiveGroups(db), g \in Groups, id \in Ids : CreateGroup(p, g, id)
    \/ \E g \in LiveGroups(db), e \in Entries, t \in Titles : CreateEntry(g, e, t)
    \/ \E e \in ToSet(AllEntries(db)) :
          \/ \E copy \in Entries, t \in Titles : EditEntry(e, copy, t)
          \/ DeleteEntry(e)
    \/ \E g \in LiveGroups(db) : DeleteGroup(g)
    \/ Reopen

Spec == Init /\ [][Next]_vars

----------------------------------------------------------------------------------
(* Properties                                                                     *)

(* What makes a tree of the lists and fields.  A group is in it if it has a parent.*)
InTree(d)   == {Root} \cup {g \in Groups : d.group[g].parent # None}
Home(d)     == {e \in Entries : d.entry[e].group # None}

GroupsAgree(d) ==
    /\ \A p \in Groups : /\ IsInjective(d.group[p].subGroups)
                         /\ ToSet(d.group[p].subGroups) =
                                {g \in Groups : d.group[g].parent = p}
    /\ \A g \in InTree(d) \ {Root} :
          d.group[g].level = d.group[d.group[g].parent].level + 1
    /\ \A g \in Groups \ InTree(d) : d.group[g] = NewGroup
    /\ d.group[Root] = [NewGroup EXCEPT !.subGroups = d.group[Root].subGroups]

EntriesAgree(d) ==
    /\ \A g \in Groups : /\ IsInjective(d.group[g].entries)
                         /\ ToSet(d.group[g].entries) =
                                {e \in Entries : d.entry[e].group = g}
    /\ \A e \in Home(d) : d.entry[e].groupId = d.group[d.entry[e].group].id
    /\ \A e \in Entries \ Home(d) : d.entry[e] = NoEntry

BackupAgrees(d) ==
    /\ d.backupGroup # None => d.group[d.backupGroup].parent = Root
    /\ \A g \in InTree(d) : /\ d.group[g].reserved <=> g = d.backupGroup
                            /\ d.group[g].deleted <=> g = d.backupGroup
    /\ \A e \in Home(d) : d.entry[e].deleted <=> d.entry[e].group = d.backupGroup

IsTree(d) == d \in Trees /\ GroupsAgree(d) /\ EntriesAgree(d) /\ BackupAgrees(d)

EntriesOf(f) == {r.node : r \in ToSet(ReadEntries(f))} \ MetaStreams

(* The files of other programs are well-formed: the groups in them are a tree with*)
(* one group "Backup" at most, and the entries are in it.                         *)
WellFormed(f) ==
    /\ f \in Files /\ f.groupCount <= Len(f.groups) /\ f.entryCount <= Len(f.entries)
    /\ Loads(f)
    /\ IsTree(ReadTree(f))
    /\ EntriesOf(f) \subseteq Home(ReadTree(f))

ASSUME OldFilesAssumption == \A f \in OldFiles : WellFormed(f)

(* There is a tree in memory, and another one, with no other entries, in the file.*)
TreeV3Inv ==
    /\ TreeV3TypeOK
    /\ IsTree(db)
    /\ WellFormed(file)
    /\ EntriesOf(file) \subseteq Home(db)

(* What is kept twice agrees, in all of the tree: a group and its parent on each  *)
(* other and on the level, an entry and its group on each other and on the group  *)
(* id, and nothing is in two places (PwGroupV3.cpp:35-53).                        *)
LevelsAndIdsAgree ==
    LET lists == [g \in LiveGroups(db) |-> ToSet(db.group[g].subGroups)]
    IN  /\ IsInjective(AllGroups(db)) /\ IsInjective(AllEntries(db))
        /\ \A p \in LiveGroups(db) :
              /\ \A g \in lists[p] : /\ db.group[g].parent = p
                                      /\ db.group[g].level = db.group[p].level + 1
              /\ \A e \in ToSet(db.group[p].entries) :
                    /\ db.entry[e].group = p
                    /\ db.entry[e].groupId = db.group[p].id

(* All but the entries is as it was.                                              *)
SameLinks(d, d2) ==
    /\ \A h \in Groups :
          /\ d2.group[h].subGroups = d.group[h].subGroups
          /\ d2.group[h].parent    = d.group[h].parent
          /\ d2.group[h].level     = d.group[h].level
          /\ d2.group[h].id        = d.group[h].id
          /\ d2.group[h].reserved  = d.group[h].reserved
          /\ d2.group[h].deleted   = d.group[h].deleted
    /\ d2.backupGroup = d.backupGroup

HasOwnId(d, g) == \A h \in InTree(d) \ {g} : d.group[h].id # d.group[g].id

(* t is the tree d but for the entries of groups that have an id in common, which *)
(* are in one of these.                                                           *)
IsReadBack(d, t) ==
    /\ IsTree(t) /\ SameLinks(d, t) /\ Home(t) = Home(d)
    /\ \A e \in Home(d) : /\ t.entry[e].title   = d.entry[e].title
                          /\ t.entry[e].groupId = d.entry[e].groupId
    /\ \A g \in InTree(d) : HasOwnId(d, g) => t.group[g].entries = d.group[g].entries

(* The flat lists a save has just written are read back as the tree in memory,    *)
(* with every order, flag and title (PwDatabaseV3.cpp:402); where the ids of      *)
(* groups are equal, still with every entry, in a group that has its id.          *)
ReadsBackTheTree ==
    [][file' # file => /\ Loads(file')
                       /\ \E t \in {ReadTree(file')} : IsReadBack(db', t)]_vars

(* The Backup group, once there is one, stays the only one, in the root, flagged, *)
(* and known: nothing is deleted into a group that is not shown as the Backup     *)
(* group, or in which it could be edited (PwDatabaseV3.cpp:593).                  *)
BackupGroupIsKnown ==
    LET backups == {g \in LiveGroups(db) : db.group[g].reserved}
    IN  /\ backups = {db.backupGroup} \ {None}
        /\ \A g \in backups : g \in ToSet(db.group[Root].subGroups) /\ db.group[g].deleted
        /\ \A e \in ToSet(AllEntries(db)) :
              db.entry[e].deleted <=> db.entry[e].group \in backups

(* No entry ever leaves the file: deleting one, or the group above it, moves it.  *)
EntriesStay  == [][EntriesOf(file) \subseteq EntriesOf(file')]_vars

(* An edit leaves the entry in its place in the list, and a new entry in the      *)
(* Backup group that keeps the title it had.                                      *)
Edited == {e \in ToSet(AllEntries(db)) \cap ToSet(AllEntries(db')) :
              ~db.entry[e].deleted /\ db'.entry[e].title # db.entry[e].title}

EditsLeaveACopy ==
    [][db' # ReadTree(file) => \A e \in Edited :
          /\ db'.entry[e].group = db.entry[e].group
          /\ \E copy \in ToSet(db'.group[db'.backupGroup].entries)
                           \ ToSet(AllEntries(db)) :
                db'.entry[copy].title = db.entry[e].title]_vars

(* PwDatabaseV3.cpp:549, "also write the meta-stream entries": those in memory are*)
(* found again in a file just written.                                            *)
MetaStreamsKept == [][file' # file => ReadMetaStreams(file') = metaStreams']_vars
====================================================================================

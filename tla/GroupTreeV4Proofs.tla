---------------------------- MODULE GroupTreeV4Proofs ----------------------------
(***************************************************************************)
(* Theorems about GroupTreeV4, for any groups and entries, and their       *)
(* proofs.  The groups below a group are a closure, the intersection of    *)
(* all closed sets: what a change of the child lists does to the tree is   *)
(* shown by giving one closed set, and no induction is needed.             *)
(***************************************************************************)
EXTENDS GroupTreeV4, TLAPS

ChildLists == [Groups -> SUBSET Nodes]

----------------------------------------------------------------------------------
(* The closure                                                                    *)

(* What starts the walk is reached.                                               *)
LEMMA StartReached ==
    ASSUME NEW start \in SUBSET Groups, NEW lists \in ChildLists
    PROVE  start \subseteq ReachedFrom(start, lists)
BY DEF ReachedFrom

(* What is reached is closed under going down.                                    *)
LEMMA ReachedClosed ==
    ASSUME NEW start \in SUBSET Groups, NEW lists \in ChildLists
    PROVE  Closed(ReachedFrom(start, lists), lists)
BY DEF ReachedFrom, Closed

(* It is in every other closed set that has the start.                            *)
LEMMA ReachedLeast ==
    ASSUME NEW start \in SUBSET Groups, NEW lists \in ChildLists,
           NEW S \in SUBSET Groups, start \subseteq S, Closed(S, lists)
    PROVE  ReachedFrom(start, lists) \subseteq S
BY DEF ReachedFrom

(* The groups of the tree are its members that are groups.                        *)
LEMMA TreeIsGroupMembers ==
    ASSUME NEW lists \in ChildLists
    PROVE  /\ Tree(lists) = Members(lists) \cap Groups
           /\ Root \in Tree(lists)
           /\ \A g \in Tree(lists) : lists[g] \subseteq Members(lists)
<1>1. {Root} \in SUBSET Groups
  BY NodesAssumption
<1>2. Root \in Tree(lists) /\ Tree(lists) \subseteq Groups
  BY <1>1, StartReached DEF Tree, ReachedFrom
<1>3. Closed(Tree(lists), lists)
  BY <1>1, ReachedClosed DEF Tree
<1>4. \A g \in Tree(lists) : lists[g] \subseteq Members(lists)
  BY DEF Members
<1>5. Members(lists) \cap Groups \subseteq Tree(lists)
  BY <1>2, <1>3 DEF Members, Closed
<1>6. Tree(lists) \subseteq Members(lists)
  <2> DEFINE S == Tree(lists) \cap Members(lists)
  <2>1. S \in SUBSET Groups /\ {Root} \subseteq S
    BY <1>2 DEF Members
  <2>2. Closed(S, lists)
    BY <1>2, <1>3, <1>4 DEF Closed
  <2>3. Tree(lists) \subseteq S
    BY <1>1, <2>1, <2>2, ReachedLeast DEF Tree
  <2>4. QED
    BY <2>3
<1>7. QED
  BY <1>2, <1>4, <1>5, <1>6

(* A change of the child lists from before to after loses at most the nodes of    *)
(* lost, when what it takes out of a list is still in the tree or is lost.        *)
LEMMA MembersKept ==
    ASSUME NEW before \in ChildLists, NEW after \in ChildLists,
           NEW lost \in SUBSET Nodes,
           \A g \in Groups : g \in Tree(after) \/ g \in lost
               => before[g] \subseteq Members(after) \cup lost
    PROVE  Members(before) \subseteq Members(after) \cup lost
<1> DEFINE S == (Members(after) \cup lost) \cap Groups
<1>1. {Root} \in SUBSET Groups /\ {Root} \subseteq S
  BY NodesAssumption DEF Members
<1>2. \A g \in S : before[g] \subseteq Members(after) \cup lost
  BY TreeIsGroupMembers
<1>3. Closed(S, before)
  BY <1>2 DEF Closed
<1>4. Tree(before) \subseteq S
  BY <1>1, <1>3, ReachedLeast DEF Tree
<1>5. QED
  BY <1>2, <1>4 DEF Members

(* Growing child lists lose nothing.                                              *)
LEMMA MembersGrow ==
    ASSUME NEW before \in ChildLists, NEW after \in ChildLists,
           \A g \in Groups : before[g] \subseteq after[g]
    PROVE  Members(before) \subseteq Members(after)
<1>1. \A g \in Groups : g \in Tree(after) \/ g \in {}
                           => before[g] \subseteq Members(after) \cup {}
  BY TreeIsGroupMembers
<1>2. {} \in SUBSET Nodes
  OBVIOUS
<1>3. Members(before) \subseteq Members(after) \cup {}
  BY ONLY <1>1, <1>2, MembersKept, before \in ChildLists, after \in ChildLists
<1>4. QED
  BY <1>3

(* What writeToStream() leaves out is not in the tree.                            *)
LEMMA WrittenIsTheTree ==
    ASSUME NEW lists \in ChildLists
    PROVE  /\ WrittenLists(lists) \in ChildLists
           /\ Members(WrittenLists(lists)) = Members(lists)
<1> DEFINE written == WrittenLists(lists)
<1> HIDE DEF written
<1>1. written \in ChildLists
  BY DEF ChildLists, WrittenLists, written
<1>2. Members(written) \subseteq Members(lists)
  BY <1>1, MembersGrow DEF ChildLists, WrittenLists, written
<1>3. Members(lists) \subseteq Members(written)
  <2>1. Closed(Tree(written) \cap Tree(lists), lists)
    <3>1. Closed(Tree(written), written) /\ Closed(Tree(lists), lists)
      BY <1>1, ReachedClosed, NodesAssumption DEF Tree
    <3>2. Tree(lists) \subseteq Groups
      BY TreeIsGroupMembers
    <3>3. QED
      BY <3>1, <3>2 DEF Closed
  <2>2. Tree(lists) \subseteq Tree(written) \cap Tree(lists)
    <3>1. /\ {Root} \subseteq Tree(written) \cap Tree(lists)
          /\ Tree(written) \cap Tree(lists) \in SUBSET Groups
          /\ {Root} \in SUBSET Groups
      BY <1>1, TreeIsGroupMembers, NodesAssumption
    <3>2. QED
      BY <2>1, <3>1, ReachedLeast DEF Tree
  <2>3. \A g \in Tree(lists) : lists[g] = written[g]
    BY TreeIsGroupMembers DEF WrittenLists, written
  <2>4. QED
    BY <2>2, <2>3 DEF Members
<1>4. QED
  BY <1>1, <1>2, <1>3 DEF written
----------------------------------------------------------------------------------
(* The invariant                                                                  *)

(* Every group of a tree whose lists have known nodes only is known.              *)
LEMMA TreeIsKnown ==
    ASSUME NEW lists \in ChildLists, NEW known \in SUBSET Nodes, Root \in known,
           \A g \in Groups : lists[g] \subseteq known
    PROVE  Members(lists) \subseteq known
<1>1. Tree(lists) \subseteq Groups
  BY TreeIsGroupMembers
<1>2. QED
  BY <1>1 DEF Members

(* Saving, after a step that has kept the invariant of the memory.                *)
LEMMA SavedFileOK ==
    ASSUME TreeTypeOK, FileOK, Saved, MemoryOK', used \subseteq used',
           children' \in ChildLists, parent' \in [Nodes -> Groups \cup {None}],
           deletedObjects' \in SUBSET Nodes, binUuid' \in Groups \cup {None}
    PROVE  FileOK' /\ file' \in Files
<1>1. CASE UNCHANGED file
  BY <1>1 DEF TreeTypeOK, FileOK
<1>2. CASE file' = Written'
  <2>1. \A g \in Groups : file'.children[g] \in {children'[g], {}}
    BY <1>2 DEF Written, WrittenLists
  <2>2. file' \in Files
    BY <1>2 DEF Written, WrittenLists, Files, ChildLists
  <2>3. file'.binUuid = binUuid'
    BY <1>2 DEF Written
  <2>4. \A g \in Groups : Root \notin children'[g]
    BY NodesAssumption DEF MemoryOK, ListsAgree, ChildLists, Nodes
  <2>5. \A g, h \in Groups : children'[g] \cap children'[h] # {} => g = h
    BY DEF MemoryOK, ListsAgree, ChildLists
  <2>6. FileOK'
    BY <2>1, <2>3, <2>4, <2>5 DEF MemoryOK, FileOK
  <2>7. QED
    BY <2>2, <2>6
<1>3. QED
  BY <1>1, <1>2 DEF Saved

(* A file that was just read is well formed.                                      *)
LEMMA InitTreeInv == Init => TreeInv
<1> SUFFICES ASSUME Init PROVE TreeInv
  OBVIOUS
<1> PICK around \in [Nodes -> Groups \cup {None}] :
      LET lists == [g \in Groups |-> {n \in Nodes : around[n] = g}] IN
       /\ IsTree(around, lists)
       /\ binEnabled \in BOOLEAN
       /\ binUuid \in (Groups \ {Root}) \cup {None}
       /\ binUuid # None /\ ~BinMayBeNested => around[binUuid] \in {Root, None}
       /\ file = [children |-> lists, binUuid |-> binUuid, deletedObjects |-> {}]
       /\ children = lists
       /\ parent = around
       /\ deleted = ReadDeleted(lists, binUuid)
       /\ deletedObjects = {}
       /\ sheet = None
       /\ used = Members(lists) \cup ({binUuid} \ {None})
  BY DEF Init
<1> DEFINE lists == [g \in Groups |-> {n \in Nodes : around[n] = g}]
<1>0. /\ around[Root] = None
      /\ \A n \in Nodes : around[n] # None => n \in Members(lists)
      /\ \A g \in Groups : g # None /\ lists[g] = {n \in Nodes : around[n] = g}
  BY NodesAssumption DEF IsTree, Nodes
<1>1. lists \in ChildLists /\ children = lists /\ parent = around
  BY DEF ChildLists
<1>2. Members(lists) \subseteq Nodes /\ Root \in Members(lists)
  BY <1>1, TreeIsGroupMembers, NodesAssumption DEF Members, Nodes, ChildLists
<1>3. used = Members(lists) \cup ({binUuid} \ {None})
  OBVIOUS
<1>4. ListsAgree
  BY <1>1 DEF ListsAgree
<1>5. \A g \in Groups : lists[g] \subseteq Members(lists)
  BY ONLY <1>0
<1>6. \A g \in Groups : lists[g] # {} => g \in Members(lists)
  <2> SUFFICES ASSUME NEW g \in Groups, NEW n \in lists[g]
               PROVE  g \in Members(lists)
    OBVIOUS
  <2>1. n \in Members(lists) /\ n # Root /\ around[n] = g
    BY ONLY <1>0, g \in Groups, n \in lists[g]
  <2>2. PICK h \in Tree(lists) : n \in lists[h]
    BY <2>1 DEF Members
  <2>3. h \in Members(lists) \cap Groups
    BY <1>1, <2>2, TreeIsGroupMembers
  <2>4. h = g
    BY <2>1, <2>2, <2>3
  <2>5. QED
    BY <2>3, <2>4
<1>7. \A g \in Groups : Root \notin lists[g]
  BY ONLY <1>0
<1>8. file.children = lists /\ file.binUuid = binUuid /\ file.deletedObjects = {}
  BY <1>1
<1>9. BinMayBeNested \/ \A g \in Groups : binUuid \in lists[g] => g = Root
  BY NodesAssumption, BinMayBeNestedAssumption DEF Nodes
<1>10. deleted \in [Nodes -> BOOLEAN]
  BY DEF ReadDeleted, Flagged
<1>11. binEnabled /\ binUuid # None => deleted[binUuid]
  BY NodesAssumption DEF ReadDeleted, Flagged, Nodes
<1>12. file \in Files
  BY <1>1 DEF Files, ChildLists
<1>13. TreeTypeOK
  BY <1>1, <1>2, <1>3, <1>10, <1>12 DEF TreeTypeOK, ChildLists, Nodes
<1>14. MemoryOK
  BY <1>1, <1>2, <1>3, <1>4, <1>5, <1>6, <1>9, <1>11 DEF MemoryOK, IsTree
<1>15. FileOK
  BY <1>1, <1>2, <1>3, <1>5, <1>6, <1>7, <1>8, <1>9 DEF FileOK
<1>16. QED
  BY <1>13, <1>14, <1>15 DEF TreeInv, SheetOK

(* ViewGroupPage's createEntry() and createGroup().                               *)
LEMMA CreateTreeInv ==
    ASSUME TreeInv, NEW g \in Groups, NEW n \in Nodes, Create(g, n)
    PROVE  TreeInv'
<1> USE NodesAssumption DEF TreeInv, Nodes
<1>1. children \in ChildLists /\ g \in used
  <2>1. children \in ChildLists
    BY DEF TreeTypeOK, ChildLists
  <2>2. Members(children) \subseteq used
    BY <2>1, TreeIsKnown DEF TreeTypeOK, MemoryOK
  <2>3. QED
    BY <2>1, <2>2, TreeIsGroupMembers DEF Create
<1>2. /\ n \notin used /\ n # Root /\ n # None /\ n # binUuid /\ n # sheet
      /\ parent[n] = None
      /\ n \in Groups => children[n] = {}
      /\ \A h \in Groups : n \notin children[h] /\ n \notin file.children[h]
  BY DEF Create, MemoryOK, FileOK, ListsAgree, TreeTypeOK
<1>3. /\ \A h \in Groups : children'[h] = IF h = g THEN children[h] \cup {n} ELSE children[h]
      /\ \A m \in Nodes : parent'[m] = IF m = n THEN g ELSE parent[m]
      /\ \A m \in Nodes : m # n => deleted'[m] = deleted[m]
      /\ used' = used \cup {n} /\ sheet' = n
      /\ UNCHANGED <<deletedObjects, binEnabled, binUuid, file>>
  BY DEF Create, TreeTypeOK
<1>4. TreeTypeOK'
  BY DEF Create, TreeTypeOK
<1>5. ListsAgree'
  <2>1. ASSUME NEW h \in Groups, NEW m \in Nodes
        PROVE  m \in children'[h] <=> parent'[m] = h
    <3>1. m \in children[h] <=> parent[m] = h
      BY DEF MemoryOK, ListsAgree
    <3>2. children'[h] = IF h = g THEN children[h] \cup {n} ELSE children[h]
      BY <1>3
    <3>3. parent'[m] = IF m = n THEN g ELSE parent[m]
      BY <1>3
    <3>4. n \notin children[h]
      BY <1>2
    <3>5. QED
      BY ONLY <3>1, <3>2, <3>3, <3>4
  <2>2. QED
    BY <2>1 DEF ListsAgree
<1>6. (binEnabled /\ binUuid # None => deleted[binUuid])'
  BY <1>2, <1>3 DEF MemoryOK, TreeTypeOK
<1>7. (BinMayBeNested \/ \A h \in Groups : binUuid \in children[h] => h = Root)'
  <2>1. \A h \in Groups : binUuid' \in children'[h] => binUuid \in children[h]
    BY <1>2, <1>3
  <2>2. BinMayBeNested \/ \A h \in Groups : binUuid \in children[h] => h = Root
    BY DEF MemoryOK
  <2>3. QED
    BY <2>1, <2>2
<1>8. MemoryOK'
  BY <1>1, <1>2, <1>3, <1>5, <1>6, <1>7 DEF MemoryOK
<1>9. FileOK'
  BY <1>2, <1>3 DEF FileOK
<1>10. SheetOK'
  BY <1>1, <1>2, <1>3 DEF SheetOK
<1>11. QED
  BY <1>4, <1>8, <1>9, <1>10

(* Saving what was edited.                                                        *)
LEMMA SaveChangesTreeInv ==
    ASSUME TreeInv, SaveChanges
    PROVE  TreeInv'
<1>1. MemoryOK'
  BY DEF TreeInv, SaveChanges, treeVars, MemoryOK, ListsAgree
<1>2. FileOK' /\ file' \in Files
  BY <1>1, SavedFileOK DEF TreeInv, TreeTypeOK, ChildLists, SaveChanges, treeVars
<1>3. TreeTypeOK'
  BY <1>2 DEF TreeInv, TreeTypeOK, SaveChanges, treeVars
<1>4. QED
  BY <1>1, <1>2, <1>3 DEF TreeInv, SheetOK, SaveChanges

(* Taking an unflagged node out of the tree, which Dismiss and a permanent        *)
(* deletion do.                                                                   *)
LEMMA DetachedMemoryOK ==
    ASSUME TreeInv, NEW n \in Nodes, parent[n] # None, Detached(n),
           UNCHANGED <<deleted, binEnabled, binUuid, used>>
    PROVE  /\ MemoryOK'
           /\ children' \in ChildLists
           /\ parent' \in [Nodes -> Groups \cup {None}]
<1> USE NodesAssumption DEF TreeInv
<1>1. parent[n] \in Groups
  BY DEF TreeTypeOK
<1>2. /\ \A h \in Groups : children'[h] = IF h = parent[n] THEN children[h] \ {n} ELSE children[h]
      /\ \A m \in Nodes : parent'[m] = IF m = n THEN None ELSE parent[m]
  BY DEF Detached, TreeTypeOK
<1>3. ListsAgree'
  <2>1. ASSUME NEW h \in Groups, NEW m \in Nodes
        PROVE  m \in children'[h] <=> parent'[m] = h
    <3>1. m \in children[h] <=> parent[m] = h
      BY DEF MemoryOK, ListsAgree
    <3>2. children'[h] = IF h = parent[n] THEN children[h] \ {n} ELSE children[h]
      BY <1>2
    <3>3. parent'[m] = IF m = n THEN None ELSE parent[m]
      BY <1>2
    <3>4. h # None
      BY DEF Nodes
    <3>5. QED
      BY ONLY <3>1, <3>2, <3>3, <3>4
  <2>2. QED
    BY <2>1 DEF ListsAgree
<1>4. children' \in ChildLists /\ parent' \in [Nodes -> Groups \cup {None}]
  BY DEF Detached, TreeTypeOK, ChildLists
<1>5. \A h \in Groups : children'[h] \subseteq children[h]
  BY <1>2
<1>6. parent'[Root] = None
  BY <1>2 DEF MemoryOK, Nodes
<1>7. MemoryOK'
  BY <1>3, <1>5, <1>6 DEF MemoryOK
<1>8. QED
  BY <1>4, <1>7

(* The dismissed sheet takes out what it was creating.                            *)
LEMMA DismissTreeInv ==
    ASSUME TreeInv, Dismiss
    PROVE  TreeInv'
<1>1. sheet \in Nodes /\ parent[sheet] # None
  BY DEF TreeInv, TreeTypeOK, SheetOK, Dismiss
<1>2. /\ MemoryOK'
      /\ children' \in ChildLists
      /\ parent' \in [Nodes -> Groups \cup {None}]
  BY <1>1, DetachedMemoryOK DEF Dismiss
<1>3. TreeTypeOK'
  BY <1>2 DEF TreeInv, TreeTypeOK, ChildLists, Dismiss
<1>4. FileOK'
  BY DEF TreeInv, FileOK, Dismiss
<1>5. QED
  BY <1>2, <1>3, <1>4 DEF TreeInv, SheetOK, Dismiss

----------------------------------------------------------------------------------
(* Deleting                                                                       *)

(* What is deleted has a parent, and the enabled Recycle Bin is not deleted.      *)
LEMMA DeletedNodeIsChild ==
    ASSUME TreeInv, NEW n \in Nodes, Delete(n)
    PROVE  /\ n # Root /\ n \in used
           /\ parent[n] \in Groups
           /\ binEnabled => n # binUuid
<1> USE NodesAssumption DEF TreeInv
<1>1. children \in ChildLists
  BY DEF TreeTypeOK, ChildLists
<1>2. PICK g \in Tree(children) : n \in children[g]
  BY DEF Delete, Members
<1>3. g \in Groups
  BY <1>1, <1>2, TreeIsGroupMembers
<1>4. parent[n] = g /\ n \in used
  BY <1>2, <1>3 DEF MemoryOK, ListsAgree
<1>5. ~deleted[n] /\ n # Root
  BY DEF Delete
<1>6. binEnabled => n # binUuid
  BY <1>5 DEF MemoryOK, Nodes
<1>7. QED
  BY <1>3, <1>4, <1>5, <1>6

(* The Recycle Bin that getBackupGroup() returns is not what is deleted, and a    *)
(* new one has no place, no child, and is not known.                              *)
LEMMA BackupGroupIsAnother ==
    ASSUME TreeInv, NEW n \in Nodes, Delete(n), binEnabled, NEW bin \in BackupGroups
    PROVE  /\ bin \in Groups /\ bin # n /\ bin # None
           /\ BinFound => bin = binUuid
           /\ ~BinFound => /\ bin \notin used /\ bin # Root
                           /\ children[bin] = {} /\ parent[bin] = None
<1> USE NodesAssumption DEF TreeInv
<1>1. n \in used /\ n # binUuid
  BY DeletedNodeIsChild
<1>2. CASE BinFound
  <2>1. bin = binUuid /\ bin \in Groups
    BY <1>2, TreeIsGroupMembers DEF BackupGroups, BinFound, Tree, ReachedFrom
  <2>2. QED
    BY <1>1, <1>2, <2>1 DEF Nodes
<1>3. CASE ~BinFound
  <2>1. bin \in Groups \ used
    BY <1>3 DEF BackupGroups
  <2>2. parent[bin] = None
    BY <2>1 DEF MemoryOK, ListsAgree, TreeTypeOK, Nodes
  <2>3. QED
    BY <1>1, <1>3, <2>1, <2>2 DEF MemoryOK, Nodes
<1>4. QED
  BY <1>2, <1>3

(* The lists and the parents after a deletion to the Recycle Bin, node by node.   *)
LEMMA MovedToBackup ==
    ASSUME TreeInv, NEW n \in Nodes, Delete(n), binEnabled,
           NEW bin \in BackupGroups, MoveToBackup(n, bin)
    PROVE  /\ children' \in ChildLists
           /\ parent' \in [Nodes -> Groups \cup {None}]
           /\ \A g \in Groups, m \in Nodes :
                 m \in children'[g] <=>
                    \/ m = n /\ g = bin
                    \/ m # n /\ m \in children[g]
                    \/ ~BinFound /\ m = bin /\ g = Root
           /\ \A m \in Nodes :
                 parent'[m] = IF m = n THEN bin
                              ELSE IF m = bin /\ ~BinFound THEN Root ELSE parent[m]
<1> USE NodesAssumption DEF TreeInv
<1>1. parent[n] \in Groups /\ n # Root
  BY DeletedNodeIsChild
<1>2. bin \in Groups /\ bin # n
  BY BackupGroupIsAnother
<1>3. bin \in Nodes /\ Root \in Groups
  BY <1>2 DEF Nodes
<1> DEFINE W == WithBackupGroup(bin)
<1>4. W \in ChildLists /\ \A g \in Groups : W[g] = IF g = Root /\ ~BinFound THEN children[g] \cup {bin} ELSE children[g]
  BY <1>3 DEF WithBackupGroup, TreeTypeOK, ChildLists
<1>5. children' = [W EXCEPT ![parent[n]] = @ \ {n}, ![bin] = @ \cup {n}]
  BY DEF MoveToBackup
<1> HIDE DEF W
<1>6. children' \in ChildLists
  BY <1>1, <1>2, <1>4, <1>5 DEF ChildLists
<1>7. \A g \in Groups : children'[g] = (IF g = parent[n] THEN W[g] \ {n} ELSE W[g])
                                         \cup (IF g = bin THEN {n} ELSE {})
  BY <1>1, <1>2, <1>4, <1>5 DEF ChildLists
<1>8. \A g \in Groups : n \in children[g] <=> g = parent[n]
  BY DEF MemoryOK, ListsAgree
<1>9. \A g \in Groups, m \in Nodes :
         m \in children'[g] <=> \/ m = n /\ g = bin
                                \/ m # n /\ m \in children[g]
                                \/ ~BinFound /\ m = bin /\ g = Root
  <2> TAKE g \in Groups, m \in Nodes
  <2>1. W[g] = IF g = Root /\ ~BinFound THEN children[g] \cup {bin} ELSE children[g]
    BY <1>4
  <2>2. children'[g] = (IF g = parent[n] THEN W[g] \ {n} ELSE W[g])
                          \cup (IF g = bin THEN {n} ELSE {})
    BY <1>7
  <2>3. n \in children[g] <=> g = parent[n]
    BY <1>8
  <2>4. QED
    BY ONLY <1>2, <2>1, <2>2, <2>3
<1>10. /\ parent' \in [Nodes -> Groups \cup {None}]
       /\ \A m \in Nodes :
             parent'[m] = IF m = n THEN bin
                          ELSE IF m = bin /\ ~BinFound THEN Root ELSE parent[m]
  BY <1>2, <1>3 DEF MoveToBackup, TreeTypeOK
<1>11. QED
  BY <1>6, <1>9, <1>10

(* The tree after a deletion to the Recycle Bin.                                  *)
LEMMA MoveToBackupMemoryOK ==
    ASSUME TreeInv, NEW n \in Nodes, Delete(n), binEnabled,
           NEW bin \in BackupGroups, MoveToBackup(n, bin)
    PROVE  MemoryOK'
<1> USE NodesAssumption DEF TreeInv
<1>1. n # Root /\ n \in used /\ parent[n] \in Groups
  BY DeletedNodeIsChild
<1>2. /\ bin \in Groups /\ bin # n /\ bin # None
      /\ BinFound => bin = binUuid
      /\ ~BinFound => /\ bin \notin used /\ bin # Root
                      /\ children[bin] = {} /\ parent[bin] = None
  BY BackupGroupIsAnother
<1>3. /\ \A g \in Groups, m \in Nodes :
            m \in children'[g] <=> \/ m = n /\ g = bin
                                   \/ m # n /\ m \in children[g]
                                   \/ ~BinFound /\ m = bin /\ g = Root
      /\ \A m \in Nodes :
            parent'[m] = IF m = n THEN bin
                         ELSE IF m = bin /\ ~BinFound THEN Root ELSE parent[m]
      /\ children' \in ChildLists
  BY MovedToBackup
<1>4. /\ binUuid' = bin /\ used' = used \cup {bin} /\ binEnabled' = binEnabled
      /\ \A m \in Nodes : deleted[m] \/ (m = bin /\ ~BinFound) => deleted'[m]
  BY DEF MoveToBackup, Delete
<1>5. ListsAgree'
  BY <1>2, <1>3 DEF MemoryOK, ListsAgree, Nodes
<1>6. parent'[Root] = None
  BY <1>1, <1>2, <1>3 DEF MemoryOK, Nodes
<1>7. \A g \in Groups : children'[g] \subseteq used'
  BY <1>1, <1>3, <1>4 DEF MemoryOK, ChildLists
<1>8. \A g \in Groups \ used' : children'[g] = {}
  BY <1>3, <1>4 DEF MemoryOK, ChildLists
<1>9. deleted'[bin]
  BY <1>2, <1>4 DEF MemoryOK, Nodes
<1>10. BinMayBeNested \/ \A g \in Groups : bin \in children'[g] => g = Root
  BY <1>2, <1>3 DEF MemoryOK, ListsAgree, Nodes
<1>11. QED
  BY <1>4, <1>5, <1>6, <1>7, <1>8, <1>9, <1>10 DEF MemoryOK

(* Both kinds of deletion, and the save that follows them.                        *)
LEMMA DeleteTreeInv ==
    ASSUME TreeInv, NEW n \in Nodes, Delete(n)
    PROVE  TreeInv'
<1> USE NodesAssumption DEF TreeInv
<1>1. CASE binEnabled /\ \E bin \in BackupGroups : MoveToBackup(n, bin)
  <2>1. PICK bin \in BackupGroups : MoveToBackup(n, bin)
    BY <1>1
  <2>2. MemoryOK'
    BY <1>1, <2>1, MoveToBackupMemoryOK
  <2>3. /\ children' \in ChildLists
        /\ parent' \in [Nodes -> Groups \cup {None}]
    BY <1>1, <2>1, MovedToBackup
  <2>4. bin \in Groups
    BY <1>1, BackupGroupIsAnother
  <2>5. /\ binUuid' = bin /\ used' = used \cup {bin}
        /\ deletedObjects' = deletedObjects
        /\ deleted' \in [Nodes -> BOOLEAN]
    BY <2>1 DEF MoveToBackup, TreeTypeOK
  <2>6. FileOK' /\ file' \in Files
    BY <2>2, <2>3, <2>4, <2>5, SavedFileOK DEF Delete, TreeTypeOK
  <2>7. TreeTypeOK'
    BY <2>3, <2>4, <2>5, <2>6 DEF TreeTypeOK, ChildLists, Delete, Nodes
  <2>8. QED
    BY <2>2, <2>6, <2>7 DEF SheetOK, Delete
<1>2. CASE ~binEnabled /\ DeletePermanently(n)
  <2>1. parent[n] # None
    BY DeletedNodeIsChild DEF Nodes
  <2>2. /\ MemoryOK'
        /\ children' \in ChildLists
        /\ parent' \in [Nodes -> Groups \cup {None}]
    BY <1>2, <2>1, DetachedMemoryOK DEF DeletePermanently, Delete
  <2>3. AllChildren(n) \subseteq Nodes
    BY DEF AllChildren, ReachedFrom, TreeTypeOK
  <2>4. FileOK' /\ file' \in Files /\ deletedObjects' \in SUBSET Nodes
    BY <1>2, <2>2, <2>3, SavedFileOK DEF Delete, DeletePermanently, TreeTypeOK
  <2>5. TreeTypeOK'
    BY <1>2, <2>2, <2>4 DEF TreeTypeOK, ChildLists, Delete, DeletePermanently
  <2>6. QED
    BY <2>2, <2>4, <2>5 DEF SheetOK, Delete
<1>3. QED
  BY <1>1, <1>2 DEF Delete

----------------------------------------------------------------------------------
(* Reading the file                                                               *)

(* The file has one place for every node, which becomes its parent.               *)
LEMMA ReopenTreeInv ==
    ASSUME TreeInv, Reopen
    PROVE  TreeInv'
<1> USE NodesAssumption DEF TreeInv
<1>1. /\ children' = file.children /\ binUuid' = file.binUuid
      /\ deletedObjects' = {} /\ sheet' = None
      /\ UNCHANGED <<binEnabled, file, used>>
      /\ parent' = [n \in Nodes |-> ParentIn(file.children, n)]
      /\ deleted' = ReadDeleted(file.children, file.binUuid)
  BY DEF Reopen, ReadFile
<1>2. file.children \in ChildLists /\ file.binUuid \in Groups \cup {None}
  BY DEF TreeTypeOK, Files, ChildLists
<1>3. ASSUME NEW n \in Nodes
      PROVE  /\ ParentIn(file.children, n) \in Groups \cup {None}
             /\ \A g \in Groups : n \in file.children[g] <=> ParentIn(file.children, n) = g
  <2>1. CASE \E g \in Groups : n \in file.children[g]
    <3>1. ParentIn(file.children, n) \in Groups /\ n \in file.children[ParentIn(file.children, n)]
      BY <2>1 DEF ParentIn
    <3>2. QED
      BY <3>1 DEF FileOK
  <2>2. CASE ~\E g \in Groups : n \in file.children[g]
    <3>1. ParentIn(file.children, n) = None
      BY <2>2 DEF ParentIn
    <3>2. QED
      BY <2>2, <3>1 DEF Nodes
  <2>3. QED
    BY <2>1, <2>2
<1>4. ListsAgree'
  BY <1>1, <1>3 DEF ListsAgree
<1>5. parent' \in [Nodes -> Groups \cup {None}]
  BY <1>1, <1>3
<1>6. deleted' \in [Nodes -> BOOLEAN]
  BY <1>1 DEF ReadDeleted, Flagged, TreeTypeOK
<1>7. parent'[Root] = None
  <2>1. \A g \in Groups : Root \notin file.children[g]
    BY DEF FileOK
  <2>2. QED
    BY <1>1, <1>3, <2>1 DEF Nodes
<1>8. binEnabled /\ file.binUuid # None => deleted'[file.binUuid]
  BY <1>1, <1>2 DEF ReadDeleted, Flagged, Nodes
<1>9. TreeTypeOK'
  BY <1>1, <1>2, <1>5, <1>6 DEF TreeTypeOK, ChildLists
<1>10. MemoryOK'
  BY <1>1, <1>4, <1>7, <1>8 DEF MemoryOK, FileOK
<1>11. FileOK'
  BY <1>1 DEF FileOK
<1>12. QED
  BY <1>1, <1>9, <1>10, <1>11 DEF SheetOK

(* The invariant is inductive.                                                    *)
LEMMA NextTreeInv == TreeInv /\ [Next]_vars => TreeInv'
<1> SUFFICES ASSUME TreeInv, [Next]_vars PROVE TreeInv'
  OBVIOUS
<1>1. ASSUME NEW g \in Groups, NEW n \in Nodes, Create(g, n) PROVE TreeInv'
  BY <1>1, CreateTreeInv
<1>2. CASE SaveChanges
  BY <1>2, SaveChangesTreeInv
<1>3. CASE Dismiss
  BY <1>3, DismissTreeInv
<1>4. ASSUME NEW n \in Nodes, Delete(n) PROVE TreeInv'
  BY <1>4, DeleteTreeInv
<1>5. CASE Reopen
  BY <1>5, ReopenTreeInv
<1>6. CASE UNCHANGED vars
  BY <1>6 DEF vars, treeVars, TreeInv, TreeTypeOK, MemoryOK, ListsAgree, FileOK, SheetOK
<1>7. QED
  BY <1>1, <1>2, <1>3, <1>4, <1>5, <1>6 DEF Next
----------------------------------------------------------------------------------
(* What a step takes out of the tree                                              *)

(* The Recycle Bin, when there is one, is in the root group.                      *)
TopBinInv == TreeInv /\ ~BinMayBeNested

(* A branch that is moved to the Recycle Bin stays in the tree.                   *)
LEMMA MovedBranchKept ==
    ASSUME TopBinInv, NEW n \in Nodes, Delete(n), binEnabled,
           NEW bin \in BackupGroups, MoveToBackup(n, bin)
    PROVE  Members(children) \subseteq Members(children')
<1> USE NodesAssumption DEF TreeInv, TopBinInv
<1>1. children \in ChildLists
  BY DEF TreeTypeOK, ChildLists
<1>2. /\ bin \in Groups /\ bin # n
      /\ BinFound => bin = binUuid
  BY BackupGroupIsAnother
<1>3. /\ children' \in ChildLists
      /\ \A g \in Groups, m \in Nodes :
            m \in children'[g] <=> \/ m = n /\ g = bin
                                   \/ m # n /\ m \in children[g]
                                   \/ ~BinFound /\ m = bin /\ g = Root
  BY MovedToBackup
<1>4. bin = Root \/ bin \in children'[Root]
  <2>1. CASE ~BinFound
    BY <1>2, <1>3, <2>1 DEF Nodes
  <2>2. CASE BinFound /\ bin # Root
    <3>1. bin \in Tree(children)
      BY <1>2, <2>2 DEF BinFound
    <3>2. PICK g \in Tree(children) : bin \in children[g]
      BY <1>1, <2>2, <3>1, TreeIsGroupMembers DEF Members
    <3>3. g \in Groups
      BY <1>1, <3>2, TreeIsGroupMembers
    <3>4. g = Root
      BY <1>2, <2>2, <3>2, <3>3 DEF MemoryOK
    <3>5. QED
      BY <1>2, <1>3, <3>2, <3>4 DEF Nodes
  <2>3. QED
    BY <2>1, <2>2
<1>5. bin \in Tree(children')
  BY <1>2, <1>3, <1>4, TreeIsGroupMembers
<1>6. n \in Members(children')
  <2>1. n \in children'[bin]
    BY <1>2, <1>3
  <2>2. QED
    BY <1>5, <2>1 DEF Members
<1>7. \A g \in Groups : g \in Tree(children') \/ g \in {}
         => children[g] \subseteq Members(children') \cup {}
  <2> SUFFICES ASSUME NEW g \in Groups, g \in Tree(children'), NEW m \in children[g]
               PROVE  m \in Members(children')
    OBVIOUS
  <2>1. CASE m = n
    BY <1>6, <2>1
  <2>2. CASE m # n
    <3>1. m \in children'[g]
      BY <1>1, <1>3, <2>2 DEF ChildLists
    <3>2. QED
      BY <3>1 DEF Members
  <2>3. QED
    BY <2>1, <2>2
<1>8. {} \in SUBSET Nodes
  OBVIOUS
<1>9. Members(children) \subseteq Members(children') \cup {}
  BY ONLY <1>1, <1>3, <1>7, <1>8, MembersKept
<1>10. QED
  BY <1>9

(* A permanent deletion takes out nothing but the branch that it mentions.        *)
LEMMA PermanentlyDeletedMentioned ==
    ASSUME TreeInv, NEW n \in Nodes, parent[n] # None, DeletePermanently(n)
    PROVE  Members(children) \subseteq Members(children') \cup {n} \cup AllChildren(n)
<1> USE NodesAssumption DEF TreeInv
<1>1. children \in ChildLists /\ parent[n] \in Groups
  BY DEF TreeTypeOK, ChildLists
<1>2. children' \in ChildLists
  BY DEF DeletePermanently, Detached, TreeTypeOK, ChildLists
<1>3. \A g \in Groups : children[g] \subseteq children'[g] \cup {n}
  BY <1>1 DEF DeletePermanently, Detached, ChildLists
<1> DEFINE lost == {n} \cup AllChildren(n)
           start == children[n] \cap Groups
<1>4. lost \in SUBSET Nodes
  BY <1>1 DEF AllChildren, ReachedFrom, ChildLists
<1>5. ASSUME NEW g \in Groups, g \in lost
      PROVE  children[g] \subseteq lost
  <2>1. CASE g = n
    BY <2>1 DEF AllChildren
  <2>2. CASE n \in Groups /\ g \in AllChildren(n)
    <3>1. start \in SUBSET Groups
      OBVIOUS
    <3>2. /\ start \subseteq ReachedFrom(start, children)
          /\ Closed(ReachedFrom(start, children), children)
      BY <1>1, <3>1, StartReached, ReachedClosed
    <3>3. g \in start \/ \E h \in ReachedFrom(start, children) : g \in children[h]
      BY <2>2 DEF AllChildren
    <3>4. g \in ReachedFrom(start, children)
      BY <3>2, <3>3 DEF Closed
    <3>5. children[g] \subseteq AllChildren(n)
      BY <2>2, <3>4 DEF AllChildren
    <3>6. QED
      BY <3>5
  <2>3. QED
    BY <1>5, <2>1, <2>2 DEF AllChildren
<1>6. \A g \in Groups : g \in Tree(children') \/ g \in lost
         => children[g] \subseteq Members(children') \cup lost
  <2>1. \A g \in Tree(children') : children'[g] \subseteq Members(children')
    BY <1>2, TreeIsGroupMembers
  <2>2. QED
    BY <1>3, <1>5, <2>1
<1>7. Members(children) \subseteq Members(children') \cup lost
  BY ONLY <1>1, <1>2, <1>4, <1>6, MembersKept
<1>8. QED
  BY <1>7

(* A dismissed sheet takes out nothing but what it was creating.                  *)
LEMMA DismissedMembers ==
    ASSUME TreeInv, Dismiss
    PROVE  /\ sheet \in Nodes /\ sheet # Root
           /\ Members(children) \subseteq Members(children') \cup {sheet}
           /\ children' \in ChildLists
           /\ \A g \in Groups : /\ children'[g] \subseteq children[g]
                                /\ children[g] \subseteq children'[g] \cup {sheet}
<1> USE DEF TreeInv
<1>1. children \in ChildLists
  BY DEF TreeTypeOK, ChildLists
<1>2. /\ sheet \in Nodes /\ parent[sheet] \in Groups
      /\ sheet \in Groups => children[sheet] = {}
      /\ sheet # Root
  BY DEF Dismiss, SheetOK, TreeTypeOK, MemoryOK
<1>3. /\ children' \in ChildLists
      /\ \A g \in Groups : /\ children'[g] \subseteq children[g]
                           /\ children[g] \subseteq children'[g] \cup {sheet}
  BY <1>1, <1>2 DEF Dismiss, Detached, ChildLists
<1>4. \A g \in Groups : g \in Tree(children') \/ g \in {sheet}
         => children[g] \subseteq Members(children') \cup {sheet}
  <2>1. \A g \in Tree(children') : children'[g] \subseteq Members(children')
    BY <1>3, TreeIsGroupMembers
  <2>2. QED
    BY <1>2, <1>3, <2>1
<1>5. {sheet} \in SUBSET Nodes
  BY <1>2
<1>6. Members(children) \subseteq Members(children') \cup {sheet}
  BY ONLY <1>1, <1>3, <1>4, <1>5, MembersKept
<1>7. QED
  BY <1>2, <1>3, <1>6

(* Every step keeps what the file holds, or mentions it.                          *)
LEMMA FileContentsKept ==
    ASSUME TopBinInv, NothingLost, [Next]_vars
    PROVE  Members(file.children) \subseteq Members(children') \cup deletedObjects'
<1> USE DEF TreeInv, TopBinInv
<1>1. children \in ChildLists
  BY DEF TreeTypeOK, ChildLists
<1>2. ASSUME Members(children) \subseteq Members(children'), deletedObjects \subseteq deletedObjects'
      PROVE  Members(file.children) \subseteq Members(children') \cup deletedObjects'
  BY <1>2 DEF NothingLost
<1>3. ASSUME NEW g \in Groups, NEW n \in Nodes, Create(g, n)
      PROVE  Members(file.children) \subseteq Members(children') \cup deletedObjects'
  <2>1. children' \in ChildLists /\ \A h \in Groups : children[h] \subseteq children'[h]
    BY <1>1, <1>3 DEF Create, ChildLists
  <2>2. Members(children) \subseteq Members(children')
    BY <1>1, <2>1, MembersGrow
  <2>3. QED
    BY <1>2, <1>3, <2>2 DEF Create
<1>4. CASE SaveChanges \/ UNCHANGED vars
  BY <1>4 DEF SaveChanges, vars, treeVars, NothingLost
<1>5. CASE Dismiss
  <2>1. \A g \in Groups : sheet \notin file.children[g]
    BY <1>5 DEF Dismiss, SheetOK
  <2>2. Members(children) \subseteq Members(children') \cup {sheet}
    BY <1>5, DismissedMembers
  <2>3. sheet \notin Members(file.children)
    <3>1. file.children \in ChildLists
      BY DEF TreeTypeOK, Files, ChildLists
    <3>2. Tree(file.children) \subseteq Groups
      BY <3>1, TreeIsGroupMembers
    <3>3. sheet # Root
      BY <1>5, DismissedMembers
    <3>4. QED
      BY <2>1, <3>2, <3>3 DEF Members
  <2>4. QED
    BY <1>5, <2>2, <2>3 DEF NothingLost, Dismiss
<1>6. ASSUME NEW n \in Nodes, Delete(n)
      PROVE  Members(file.children) \subseteq Members(children') \cup deletedObjects'
  <2>1. CASE binEnabled /\ \E bin \in BackupGroups : MoveToBackup(n, bin)
    <3>1. PICK bin \in BackupGroups : MoveToBackup(n, bin)
      BY <2>1
    <3>2. Members(children) \subseteq Members(children')
      BY <1>6, <2>1, <3>1, MovedBranchKept
    <3>3. QED
      BY <1>2, <3>1, <3>2 DEF MoveToBackup
  <2>2. CASE ~binEnabled /\ DeletePermanently(n)
    <3>1. parent[n] # None
      BY <1>6, DeletedNodeIsChild, NodesAssumption DEF Nodes
    <3>2. Members(children) \subseteq Members(children') \cup {n} \cup AllChildren(n)
      BY <2>2, <3>1, PermanentlyDeletedMentioned
    <3>3. QED
      BY <2>2, <3>2 DEF DeletePermanently, NothingLost
  <2>3. QED
    BY <1>6, <2>1, <2>2 DEF Delete
<1>7. CASE Reopen
  BY <1>7 DEF Reopen, ReadFile
<1>8. QED
  BY <1>3, <1>4, <1>5, <1>6, <1>7 DEF Next

(* A step writes the open tree and the deleted objects, or nothing.               *)
LEMMA FileWritten ==
    ASSUME TreeInv, TreeInv', [Next]_vars, file' # file
    PROVE  /\ Members(file'.children) = Members(children')
           /\ file'.deletedObjects = deletedObjects'
<1>1. file' = Written'
  BY DEF Next, Create, SaveChanges, Dismiss, Delete, Reopen, vars, Saved
<1>2. children' \in ChildLists
  BY DEF TreeInv, TreeTypeOK, ChildLists
<1>3. Members(WrittenLists(children')) = Members(children')
  BY <1>2, WrittenIsTheTree
<1>4. QED
  BY <1>1, <1>3 DEF Written

(* The file and the tree that was read from it are the same.                      *)
LEMMA NothingLostInit == Init => NothingLost
BY DEF Init, NothingLost

(* After a save the file is the tree; otherwise its contents are kept.            *)
LEMMA NothingLostNext ==
    ASSUME TopBinInv, TopBinInv', NothingLost, [Next]_vars
    PROVE  NothingLost'
<1>1. CASE file' = file
  BY <1>1, FileContentsKept DEF NothingLost
<1>2. CASE file' # file
  BY <1>2, FileWritten DEF NothingLost, TopBinInv
<1>3. QED
  BY <1>1, <1>2

(* What a save takes out of the file, the tree had lost by mentioning it.         *)
LEMMA DeletionIsMentionedNext ==
    ASSUME TopBinInv, TopBinInv', NothingLost, [Next]_vars
    PROVE  \A n \in Members(file.children) \ Members(file'.children) :
              n \in file'.deletedObjects
<1>1. CASE file' = file
  BY <1>1
<1>2. CASE file' # file
  BY <1>2, FileContentsKept, FileWritten DEF TopBinInv
<1>3. QED
  BY <1>1, <1>2

----------------------------------------------------------------------------------
(* The Recycle Bin                                                                *)

(* A group and all that is below it.                                              *)
BranchGroups(lists, b) == ReachedFrom({b}, lists)
Branch(lists, b)       == {b} \cup UNION {lists[g] : g \in BranchGroups(lists, b)}

(* The groups of a branch are those that are reached from its top.                *)
LEMMA BranchIsClosed ==
    ASSUME NEW lists \in ChildLists, NEW b \in Groups
    PROVE  /\ b \in BranchGroups(lists, b)
           /\ BranchGroups(lists, b) \subseteq Groups
           /\ Branch(lists, b) \subseteq Nodes
           /\ Closed(BranchGroups(lists, b), lists)
           /\ \A g \in BranchGroups(lists, b) : lists[g] \subseteq Branch(lists, b)
           /\ Branch(lists, b) \cap Groups = BranchGroups(lists, b)
<1>1. {b} \in SUBSET Groups
  OBVIOUS
<1>2. b \in BranchGroups(lists, b) /\ BranchGroups(lists, b) \subseteq Groups
  BY <1>1, StartReached DEF BranchGroups, ReachedFrom
<1>3. Closed(BranchGroups(lists, b), lists)
  BY <1>1, ReachedClosed DEF BranchGroups
<1>4. Branch(lists, b) \subseteq Nodes
  BY <1>2 DEF Branch, ChildLists, Nodes
<1>5. \A g \in BranchGroups(lists, b) : lists[g] \subseteq Branch(lists, b)
  BY DEF Branch
<1>6. Branch(lists, b) \cap Groups \subseteq BranchGroups(lists, b)
  BY <1>2, <1>3 DEF Branch, Closed
<1>7. BranchGroups(lists, b) \subseteq Branch(lists, b)
  <2> DEFINE S == BranchGroups(lists, b) \cap Branch(lists, b)
  <2>1. S \in SUBSET Groups /\ {b} \subseteq S
    BY <1>2 DEF Branch
  <2>2. Closed(S, lists)
    BY <1>2, <1>3, <1>5 DEF Closed
  <2>3. BranchGroups(lists, b) \subseteq S
    BY <1>1, <2>1, <2>2, ReachedLeast DEF BranchGroups
  <2>4. QED
    BY <2>3
<1>8. QED
  BY <1>2, <1>3, <1>4, <1>5, <1>6, <1>7

(* getAllChildren() of a group gives its branch.                                  *)
LEMMA BranchIsBelow ==
    ASSUME NEW lists \in ChildLists, NEW b \in Groups
    PROVE  Branch(lists, b) =
              {b} \cup lists[b] \cup
                  UNION {lists[g] : g \in ReachedFrom(lists[b] \cap Groups, lists)}
<1> DEFINE start == lists[b] \cap Groups
           below == ReachedFrom(start, lists)
<1>1. start \in SUBSET Groups /\ below \subseteq Groups
  BY DEF ReachedFrom
<1>2. start \subseteq below /\ Closed(below, lists)
  BY <1>1, StartReached, ReachedClosed
<1>3. BranchGroups(lists, b) \subseteq {b} \cup below
  <2>1. Closed({b} \cup below, lists)
    BY <1>2 DEF Closed
  <2>2. QED
    BY <1>1, <2>1, ReachedLeast DEF BranchGroups
<1>4. below \subseteq BranchGroups(lists, b)
  <2>1. start \subseteq BranchGroups(lists, b)
    BY BranchIsClosed DEF Closed
  <2>2. QED
    BY <1>1, <2>1, BranchIsClosed, ReachedLeast
<1>5. b \in BranchGroups(lists, b)
  BY BranchIsClosed
<1> HIDE DEF start, below
<1>6. Branch(lists, b) = {b} \cup lists[b] \cup UNION {lists[g] : g \in below}
  BY <1>3, <1>4, <1>5 DEF Branch
<1>7. QED
  BY <1>6 DEF below, start

(* Every node has one place, and the root has none.                               *)
OnePlace(lists) ==
    /\ \A g \in Groups : Root \notin lists[g]
    /\ \A g, h \in Groups : lists[g] \cap lists[h] # {} => g = h

(* A node of a branch, unless it is its top, is in a group of the branch.         *)
LEMMA BranchIsEnteredAtTop ==
    ASSUME NEW lists \in ChildLists, OnePlace(lists), NEW b \in Groups,
           NEW g \in Groups, NEW n \in lists[g], n \in Branch(lists, b), n # b
    PROVE  g \in BranchGroups(lists, b)
<1>1. PICK h \in BranchGroups(lists, b) : n \in lists[h]
  BY DEF Branch
<1>2. h \in Groups
  BY BranchIsClosed
<1>3. QED
  BY <1>1, <1>2 DEF OnePlace

(* A walk from the root that reaches a node of a branch has come by its top.      *)
LEMMA BranchIsReachedByTop ==
    ASSUME NEW lists \in ChildLists, OnePlace(lists), NEW b \in Groups, b # Root,
           NEW n \in Members(lists), n \in Branch(lists, b)
    PROVE  b \in Tree(lists)
<1> SUFFICES ASSUME b \notin Tree(lists) PROVE FALSE
  OBVIOUS
<1> DEFINE S == Tree(lists) \ BranchGroups(lists, b)
<1>1. Root \in Groups /\ {Root} \in SUBSET Groups /\ Tree(lists) \subseteq Groups
  BY NodesAssumption, TreeIsGroupMembers
<1>2. Root \notin Branch(lists, b)
  BY BranchIsClosed DEF Branch, OnePlace
<1>3. ASSUME NEW g \in S, NEW m \in lists[g]
      PROVE  m \notin Branch(lists, b)
  <2>1. m \in Members(lists) /\ g \in Groups /\ g \notin BranchGroups(lists, b)
    BY <1>1, TreeIsGroupMembers
  <2>2. m # b
    BY <2>1, TreeIsGroupMembers
  <2>3. QED
    BY <2>1, <2>2, BranchIsEnteredAtTop
<1>4. Root \in S
  BY <1>1, <1>2, TreeIsGroupMembers, BranchIsClosed DEF Branch
<1>5. Closed(S, lists)
  <2>1. ASSUME NEW g \in S, NEW m \in lists[g] \cap Groups
        PROVE  m \in S
    <3>1. m \in Tree(lists)
      BY <1>1, TreeIsGroupMembers
    <3>2. m \notin BranchGroups(lists, b)
      BY <1>3, BranchIsClosed
    <3>3. QED
      BY <3>1, <3>2
  <2>2. QED
    BY <2>1 DEF Closed
<1>6. Tree(lists) \subseteq S
  BY <1>1, <1>4, <1>5, ReachedLeast DEF Tree
<1>7. \A g \in Tree(lists) : n \notin lists[g]
  BY <1>3, <1>6
<1>8. QED
  BY <1>2, <1>7 DEF Members

(* A change of the child lists that leaves what is listed in a branch in another  *)
(* one, or loses it, keeps the branch there.                                      *)
LEMMA BranchKept ==
    ASSUME NEW before \in ChildLists, NEW after \in ChildLists,
           NEW b \in Groups, NEW c \in Groups, NEW lost \in SUBSET Nodes,
           b \in Branch(after, c),
           \A g \in Groups : g \in BranchGroups(after, c) \/ g \in lost
               => before[g] \subseteq Branch(after, c) \cup lost
    PROVE  Branch(before, b) \subseteq Branch(after, c) \cup lost
<1> DEFINE S == (Branch(after, c) \cup lost) \cap Groups
<1>1. {b} \in SUBSET Groups /\ {b} \subseteq S
  OBVIOUS
<1>2. \A g \in S : before[g] \subseteq Branch(after, c) \cup lost
  BY BranchIsClosed
<1>3. Closed(S, before)
  BY <1>2 DEF Closed
<1>4. BranchGroups(before, b) \subseteq S
  BY <1>1, <1>3, ReachedLeast DEF BranchGroups
<1>5. QED
  BY <1>2, <1>4 DEF Branch

(* The tree in memory and the one in the file have one place for every node.      *)
LEMMA OnePlaceInTree ==
    ASSUME TreeInv
    PROVE  /\ children \in ChildLists /\ OnePlace(children)
           /\ file.children \in ChildLists /\ OnePlace(file.children)
<1> USE NodesAssumption DEF TreeInv
<1>1. children \in ChildLists /\ file.children \in ChildLists
  BY DEF TreeTypeOK, Files, ChildLists
<1>2. OnePlace(children)
  BY <1>1 DEF MemoryOK, ListsAgree, OnePlace, ChildLists, Nodes
<1>3. OnePlace(file.children)
  BY DEF FileOK, OnePlace
<1>4. QED
  BY <1>1, <1>2, <1>3

LEMMA InBinIsBranch ==
    ASSUME TreeInv, NEW n
    PROVE  InBin(n) <=> BinFound /\ n \in Branch(children, binUuid)
<1>1. BinFound => binUuid \in Groups
  BY DEF BinFound, Tree, ReachedFrom
<1>2. QED
  BY <1>1, OnePlaceInTree, BranchIsBelow DEF InBin, AllChildren

LEMMA InBinIsBranchNext ==
    ASSUME children' \in ChildLists, NEW n
    PROVE  InBin(n)' <=> BinFound' /\ n \in Branch(children', binUuid')
<1>1. BinFound' => binUuid' \in Groups
  BY DEF BinFound, Tree, ReachedFrom
<1>2. InBin(n)' <=> BinFound' /\ n \in {binUuid'} \cup AllChildren(binUuid)'
  BY DEF InBin
<1>3. BinFound' => AllChildren(binUuid)' =
          children'[binUuid'] \cup
              UNION {children'[g] : g \in ReachedFrom(children'[binUuid'] \cap Groups, children')}
  BY <1>1 DEF AllChildren
<1>4. QED
  BY <1>1, <1>2, <1>3, BranchIsBelow

(* What readFromStream() flags in the tree it reads is the Recycle Bin, and the   *)
(* entries in it.                                                                 *)
LEMMA ReadIsRecycled ==
    ASSUME NEW lists \in ChildLists, OnePlace(lists), NEW uuid,
           NEW n \in Members(lists), ReadDeleted(lists, uuid)[n]
    PROVE  binEnabled /\ uuid \in Tree(lists) /\ n \in Branch(lists, uuid)
<1> USE NodesAssumption
<1>1. n \in Nodes /\ Tree(lists) \subseteq Groups
  BY TreeIsGroupMembers DEF Members, ChildLists, Nodes
<1>2. CASE n \in Groups
  <2>1. binEnabled /\ n = uuid
    BY <1>1, <1>2 DEF ReadDeleted, Flagged
  <2>2. QED
    BY <1>2, <2>1, TreeIsGroupMembers DEF Branch
<1>3. CASE n \notin Groups
  <2>1. PICK g \in Tree(lists) : n \in lists[g]
    BY <1>3 DEF Members
  <2>2. g \in Groups
    BY <1>1, <2>1
  <2>3. ParentIn(lists, n) \in Groups /\ n \in lists[ParentIn(lists, n)]
    BY <2>1, <2>2 DEF ParentIn
  <2>4. ParentIn(lists, n) = g
    BY <2>1, <2>2, <2>3 DEF OnePlace
  <2>5. binEnabled /\ g = uuid
    BY <1>1, <1>3, <2>4 DEF ReadDeleted, Flagged
  <2>6. n \in Branch(lists, uuid)
    BY <2>1, <2>2, <2>5, BranchIsClosed
  <2>7. QED
    BY <2>1, <2>5, <2>6
<1>4. QED
  BY <1>2, <1>3

LEMMA InitRecycleInv == Init => RecycleInv
<1> SUFFICES ASSUME Init PROVE RecycleInv
  OBVIOUS
<1>1. TreeInv
  BY InitTreeInv
<1>2. /\ deleted = ReadDeleted(children, binUuid)
      /\ binUuid # Root /\ file.binUuid = binUuid /\ sheet = None
  BY NodesAssumption DEF Init, Nodes
<1>3. OnlyRecycledIsFlagged
  BY <1>1, <1>2, OnePlaceInTree, ReadIsRecycled, InBinIsBranch
     DEF OnlyRecycledIsFlagged, BinFound
<1>4. QED
  BY <1>2, <1>3 DEF RecycleInv

LEMMA CreateRecycleInv ==
    ASSUME TreeInv, TreeInv', RecycleInv, NEW g \in Groups, NEW n \in Nodes, Create(g, n)
    PROVE  RecycleInv'
<1> USE NodesAssumption
<1>1. children \in ChildLists /\ children' \in ChildLists
  BY OnePlaceInTree DEF TreeInv, TreeTypeOK, ChildLists
<1>2. /\ g \in Tree(children) /\ n \notin used
      /\ \A h \in Groups : children'[h] = IF h = g THEN children[h] \cup {n} ELSE children[h]
      /\ sheet' = n
      /\ UNCHANGED <<binEnabled, binUuid, file>>
  BY <1>1 DEF Create, ChildLists
<1>2d. \A m \in Nodes : deleted'[m] <=> m # n /\ deleted[m]
  <2>1. deleted \in [Nodes -> BOOLEAN] /\ ~deleted[g]
    BY DEF Create, TreeInv, TreeTypeOK
  <2>2. deleted' = [deleted EXCEPT ![n] = deleted[g]]
    BY DEF Create
  <2>3. QED
    BY <2>1, <2>2
<1>3. Members(children) \subseteq used /\ used \in SUBSET Nodes
  BY <1>1, TreeIsKnown DEF TreeInv, TreeTypeOK, MemoryOK
<1>4. n \in Groups => n # g /\ children'[n] = {}
  BY <1>1, <1>2, <1>3, TreeIsGroupMembers DEF TreeInv, MemoryOK
<1>5. Members(children') \subseteq Members(children) \cup {n}
  <2>1. \A h \in Groups : h \in Tree(children) \/ h \in {n}
           => children'[h] \subseteq Members(children) \cup {n}
    BY <1>1, <1>2, <1>4, TreeIsGroupMembers
  <2>2. {n} \in SUBSET Nodes
    OBVIOUS
  <2>3. QED
    BY ONLY <1>1, <2>1, <2>2, MembersKept
<1>6. Members(children) \subseteq Members(children')
  BY <1>1, <1>2, MembersGrow
<1>7. ASSUME NEW m \in Members(children'), deleted'[m]
      PROVE  InBin(m)'
  <2>1. m \in Members(children) /\ m \in Nodes /\ deleted[m]
    BY <1>2d, <1>3, <1>5, <1>7
  <2>2. BinFound /\ m \in Branch(children, binUuid)
    BY <2>1, InBinIsBranch DEF RecycleInv, OnlyRecycledIsFlagged
  <2>3. binUuid \in Groups /\ binUuid \in Tree(children')
    BY <1>1, <1>6, <2>2, TreeIsGroupMembers DEF BinFound
  <2>4. Branch(children, binUuid) \subseteq Branch(children', binUuid) \cup {}
    <3>1. \A h \in Groups : h \in BranchGroups(children', binUuid) \/ h \in {}
             => children[h] \subseteq Branch(children', binUuid) \cup {}
      BY <1>1, <1>2, <2>3, BranchIsClosed
    <3>2. {} \in SUBSET Nodes /\ binUuid \in Branch(children', binUuid)
      BY DEF Branch
    <3>3. QED
      BY ONLY <1>1, <2>3, <3>1, <3>2, BranchKept
  <2>5. QED
    BY <1>1, <1>2, <2>2, <2>3, <2>4, InBinIsBranchNext DEF BinFound
<1>8. QED
  BY <1>2, <1>2d, <1>7 DEF RecycleInv, OnlyRecycledIsFlagged

(* A dismissed sheet was not in the Recycle Bin, and had nothing below it.        *)
LEMMA DismissRecycleInv ==
    ASSUME TreeInv, RecycleInv, Dismiss
    PROVE  RecycleInv'
<1>1. /\ sheet \in Nodes /\ ~deleted[sheet] /\ sheet' = None
      /\ UNCHANGED <<deleted, binEnabled, binUuid, file>>
  BY DismissedMembers DEF Dismiss, RecycleInv
<1>2. /\ children \in ChildLists /\ children' \in ChildLists
      /\ Members(children) \subseteq Members(children') \cup {sheet}
      /\ \A g \in Groups : /\ children'[g] \subseteq children[g]
                           /\ children[g] \subseteq children'[g] \cup {sheet}
  BY OnePlaceInTree, DismissedMembers
<1>3. Members(children') \subseteq Members(children)
  BY <1>2, MembersGrow
<1>4. sheet \in Groups => children[sheet] = {}
  BY DEF TreeInv, SheetOK, Dismiss
<1>5. ASSUME NEW n \in Members(children'), deleted'[n]
      PROVE  InBin(n)'
  <2>1. n \in Members(children) /\ deleted[n] /\ n # sheet
    BY <1>1, <1>3, <1>5
  <2>2. BinFound /\ n \in Branch(children, binUuid)
    BY <2>1, InBinIsBranch DEF RecycleInv, OnlyRecycledIsFlagged
  <2>3. binUuid \in Groups /\ binUuid # sheet /\ binUuid \in Members(children)
    <3>1. binUuid \in Groups /\ binUuid \in Members(children)
      BY <1>2, <2>2, TreeIsGroupMembers DEF BinFound
    <3>2. deleted[binUuid]
      BY <2>2, <3>1, NodesAssumption DEF TreeInv, MemoryOK, BinFound, Nodes
    <3>3. QED
      BY <1>1, <3>1, <3>2
  <2>4. binUuid \in Tree(children')
    BY <1>2, <2>3, TreeIsGroupMembers
  <2>5. Branch(children, binUuid) \subseteq Branch(children', binUuid) \cup {sheet}
    <3>1. \A g \in Groups : g \in BranchGroups(children', binUuid) \/ g \in {sheet}
             => children[g] \subseteq Branch(children', binUuid) \cup {sheet}
      BY <1>2, <1>4, <2>3, BranchIsClosed
    <3>2. {sheet} \in SUBSET Nodes /\ binUuid \in Branch(children', binUuid)
      BY <1>1 DEF Branch
    <3>3. QED
      BY ONLY <1>2, <2>3, <3>1, <3>2, BranchKept
  <2>6. QED
    BY <1>1, <1>2, <2>1, <2>2, <2>4, <2>5, InBinIsBranchNext DEF BinFound
<1>6. QED
  BY <1>1, <1>5 DEF RecycleInv, OnlyRecycledIsFlagged

(* Moving a branch to the Recycle Bin flags what is then in it.                   *)
LEMMA MoveRecycleInv ==
    ASSUME TreeInv, TreeInv', RecycleInv, NEW n \in Nodes, Delete(n), binEnabled,
           NEW bin \in BackupGroups, MoveToBackup(n, bin)
    PROVE  OnlyRecycledIsFlagged' /\ bin # Root
<1> USE NodesAssumption
<1>1. children \in ChildLists
  BY OnePlaceInTree
<1>2. /\ bin \in Groups /\ bin # n /\ bin # Root
      /\ BinFound => bin = binUuid
      /\ ~BinFound => children[bin] = {}
  BY BackupGroupIsAnother DEF RecycleInv
<1>3. /\ children' \in ChildLists
      /\ \A g \in Groups, m \in Nodes :
            m \in children'[g] <=> \/ m = n /\ g = bin
                                   \/ m # n /\ m \in children[g]
                                   \/ ~BinFound /\ m = bin /\ g = Root
  BY MovedToBackup
<1>4. /\ binUuid' = bin /\ binEnabled'
      /\ \A m \in Nodes : deleted'[m] <=> \/ deleted[m]
                                          \/ m \in {n} \cup AllChildren(n)
                                          \/ m = bin /\ ~BinFound
  BY DEF MoveToBackup, Delete
<1>5. OnePlace(children')
  BY <1>3 DEF TreeInv, MemoryOK, ListsAgree, OnePlace, ChildLists, Nodes
<1>6. /\ bin \in Branch(children', bin) /\ n \in Branch(children', bin)
      /\ \A g \in BranchGroups(children', bin) : children[g] \subseteq Branch(children', bin)
  <2>1. bin \in Branch(children', bin)
    BY DEF Branch
  <2>2. n \in Branch(children', bin)
    BY <1>2, <1>3, BranchIsClosed
  <2>3. ASSUME NEW g \in BranchGroups(children', bin), NEW m \in children[g]
        PROVE  m \in Branch(children', bin)
    <3>1. g \in Groups /\ children'[g] \subseteq Branch(children', bin)
      BY <1>2, <1>3, BranchIsClosed
    <3>2. m = n \/ m \in children'[g]
      BY <1>1, <1>3, <3>1 DEF ChildLists
    <3>3. QED
      BY <2>2, <3>1, <3>2
  <2>4. QED
    BY <2>1, <2>2, <2>3
<1>7. ASSUME NEW b \in Groups, b \in Branch(children', bin)
      PROVE  Branch(children, b) \subseteq Branch(children', bin)
  <2>1. \A g \in Groups : g \in BranchGroups(children', bin) \/ g \in {}
           => children[g] \subseteq Branch(children', bin) \cup {}
    BY <1>6
  <2>2. {} \in SUBSET Nodes
    OBVIOUS
  <2>3. Branch(children, b) \subseteq Branch(children', bin) \cup {}
    BY ONLY <1>1, <1>2, <1>3, <1>7, <2>1, <2>2, BranchKept
  <2>4. QED
    BY <2>3
<1>8. Members(children') \subseteq Members(children) \cup {bin}
  <2>1. n \in Members(children)
    BY DEF Delete
  <2>2. BinFound => bin \in Tree(children)
    BY <1>2 DEF BinFound
  <2>3. ASSUME NEW g \in Groups, g \in Tree(children) \/ g \in {bin},
               NEW m \in children'[g]
        PROVE  m \in Members(children) \cup {bin}
    <3>1. m = n \/ m = bin \/ m \in children[g]
      BY <1>3 DEF ChildLists
    <3>2. m \in children[g] => m \in Members(children)
      BY <1>1, <1>2, <2>2, <2>3, TreeIsGroupMembers
    <3>3. QED
      BY <2>1, <3>1, <3>2
  <2>4. {bin} \in SUBSET Nodes
    BY <1>2 DEF Nodes
  <2>5. \A g \in Groups : g \in Tree(children) \/ g \in {bin}
           => children'[g] \subseteq Members(children) \cup {bin}
    BY <2>3
  <2>6. QED
    BY ONLY <1>1, <1>3, <2>4, <2>5, MembersKept
<1>9. ASSUME NEW m \in Members(children'), deleted'[m]
      PROVE  m \in Branch(children', bin)
  <2>1. m \in Nodes
    <3>1. Tree(children') \subseteq Groups
      BY <1>3, TreeIsGroupMembers
    <3>2. QED
      BY <1>3, <3>1 DEF Members, ChildLists, Nodes
  <2>2. CASE m = bin
    BY <1>6, <2>2
  <2>3. CASE m \in Members(children) /\ deleted[m]
    <3>1. BinFound /\ m \in Branch(children, bin)
      BY <1>2, <2>3, InBinIsBranch DEF RecycleInv, OnlyRecycledIsFlagged
    <3>2. QED
      BY <1>2, <1>6, <1>7, <3>1
  <2>4. CASE m \in {n} \cup AllChildren(n)
    <3>1. CASE n \in Groups
      <4>1. m \in Branch(children, n)
        BY <1>1, <2>4, <3>1, BranchIsBelow DEF AllChildren
      <4>2. QED
        BY <1>6, <1>7, <3>1, <4>1
    <3>2. CASE n \notin Groups
      BY <1>6, <2>4, <3>2 DEF AllChildren
    <3>3. QED
      BY <3>1, <3>2
  <2>5. QED
    BY <1>4, <1>8, <1>9, <2>1, <2>2, <2>3, <2>4
<1>10. ASSUME NEW m \in Members(children'), deleted'[m]
       PROVE  InBin(m)'
  <2>1. m \in Branch(children', bin)
    BY <1>9, <1>10
  <2>2. bin \in Tree(children')
    BY <1>2, <1>3, <1>5, <2>1, BranchIsReachedByTop
  <2>3. QED
    BY <1>3, <1>4, <2>1, <2>2, InBinIsBranchNext DEF BinFound
<1>11. QED
  BY <1>2, <1>10 DEF OnlyRecycledIsFlagged

LEMMA DeleteRecycleInv ==
    ASSUME TreeInv, TreeInv', RecycleInv, NEW n \in Nodes, Delete(n)
    PROVE  RecycleInv'
<1>1. sheet' = None
  BY DEF Delete
<1>2. OnlyRecycledIsFlagged' /\ binUuid' # Root
  <2>1. CASE binEnabled /\ \E bin \in BackupGroups : MoveToBackup(n, bin)
    BY <2>1, MoveRecycleInv DEF MoveToBackup
  <2>2. CASE ~binEnabled /\ DeletePermanently(n)
    <3>1. children \in ChildLists /\ children' \in ChildLists
      BY OnePlaceInTree DEF TreeInv, TreeTypeOK, ChildLists
    <3>2. \A g \in Groups : children'[g] \subseteq children[g]
      <4>1. parent[n] \in Groups
        BY DeletedNodeIsChild
      <4>2. QED
        BY <2>2, <3>1, <4>1 DEF DeletePermanently, Detached, ChildLists
    <3>3. Members(children') \subseteq Members(children)
      BY <3>1, <3>2, MembersGrow
    <3>4. \A m \in Members(children) : ~deleted[m]
      BY <2>2 DEF RecycleInv, OnlyRecycledIsFlagged, InBin, BinFound
    <3>5. QED
      BY <2>2, <3>3, <3>4 DEF DeletePermanently, RecycleInv, OnlyRecycledIsFlagged
  <2>3. QED
    BY <2>1, <2>2 DEF Delete
<1>3. file'.binUuid # Root
  BY <1>2 DEF Delete, Saved, Written, RecycleInv
<1>4. QED
  BY <1>1, <1>2, <1>3 DEF RecycleInv

(* Reading the file flags nothing but the Recycle Bin, saving flags nothing.      *)
LEMMA FileRecycleInv ==
    ASSUME TreeInv, RecycleInv, Reopen \/ SaveChanges \/ UNCHANGED vars
    PROVE  RecycleInv'
<1>1. CASE Reopen
  <2>1. /\ children' = file.children /\ binUuid' = file.binUuid /\ sheet' = None
        /\ deleted' = ReadDeleted(file.children, file.binUuid)
        /\ UNCHANGED <<binEnabled, file>>
    BY <1>1 DEF Reopen, ReadFile
  <2>2. OnlyRecycledIsFlagged'
    BY <2>1, OnePlaceInTree, ReadIsRecycled, InBinIsBranchNext
       DEF OnlyRecycledIsFlagged, BinFound
  <2>3. QED
    BY <2>1, <2>2 DEF RecycleInv
<1>2. CASE SaveChanges \/ UNCHANGED vars
  <2>1. /\ UNCHANGED <<treeVars, binEnabled>>
        /\ sheet' = None \/ UNCHANGED sheet
        /\ file' = Written' \/ UNCHANGED file
    BY <1>2 DEF SaveChanges, Saved, vars
  <2>2. OnlyRecycledIsFlagged'
    BY <2>1 DEF treeVars, RecycleInv, OnlyRecycledIsFlagged, InBin, BinFound, AllChildren
  <2>3. QED
    BY <2>1, <2>2 DEF treeVars, Written, RecycleInv
<1>3. QED
  BY <1>1, <1>2

LEMMA NextRecycleInv ==
    ASSUME TreeInv, TreeInv', RecycleInv, [Next]_vars
    PROVE  RecycleInv'
BY CreateRecycleInv, DismissRecycleInv, DeleteRecycleInv, FileRecycleInv DEF Next

(* The groups that a search enters are those of the tree that are not in the      *)
(* Recycle Bin.                                                                   *)
LEMMA SearchedIsOutside ==
    ASSUME TreeInv, RecycleInv
    PROVE  Tree(Searched(FALSE)) = {g \in Tree(children) : ~InBin(g)}
<1> USE NodesAssumption
<1> DEFINE searched == Searched(FALSE)
           recycled == {g \in Groups : InBin(g)}
<1>1. /\ children \in ChildLists /\ OnePlace(children)
      /\ {Root} \in SUBSET Groups
      /\ Tree(children) \subseteq Groups
  BY OnePlaceInTree, TreeIsGroupMembers
<1>2. /\ searched \in ChildLists
      /\ \A g \in Groups : searched[g] \subseteq children[g]
      /\ \A g, m \in Groups : m \in searched[g] <=> m \in children[g] /\ ~deleted[m]
  BY <1>1 DEF Searched, ChildLists
<1> HIDE DEF searched
<1>3. Tree(searched) \subseteq Tree(children) /\ Tree(searched) \subseteq Groups
  BY <1>1, <1>2, MembersGrow, TreeIsGroupMembers
<1>4. Root \notin recycled
  <2>1. BinFound => binUuid \in Groups /\ binUuid # Root
    BY <1>1 DEF BinFound, RecycleInv
  <2>2. BinFound => Root \notin Branch(children, binUuid)
    BY <1>1, <2>1, BranchIsClosed DEF Branch, OnePlace
  <2>3. QED
    BY <2>2, InBinIsBranch
<1>5. Tree(searched) \subseteq Tree(searched) \ recycled
  <2>1. ASSUME NEW g \in Tree(searched) \ recycled, NEW m \in searched[g] \cap Groups
        PROVE  m \in Tree(searched) \ recycled
    <3>1. g \in Groups /\ m \in children[g] /\ ~deleted[m]
      BY <1>2, <1>3
    <3>2. m \in Tree(searched)
      BY <1>2, TreeIsGroupMembers
    <3>3. ASSUME InBin(m) PROVE FALSE
      <4>1. BinFound /\ binUuid \in Groups /\ m \in Branch(children, binUuid)
        BY <1>1, <3>3, InBinIsBranch DEF BinFound
      <4>2. m # binUuid
        BY <3>1, <4>1 DEF TreeInv, MemoryOK, BinFound, Nodes
      <4>3. g \in Branch(children, binUuid)
        BY <1>1, <3>1, <4>1, <4>2, BranchIsEnteredAtTop, BranchIsClosed
      <4>4. QED
        BY <2>1, <3>1, <4>1, <4>3, InBinIsBranch
    <3>4. QED
      BY <3>2, <3>3
  <2>2. Closed(Tree(searched) \ recycled, searched)
    BY <2>1 DEF Closed
  <2>3. {Root} \subseteq Tree(searched) \ recycled
    BY <1>2, <1>4, TreeIsGroupMembers
  <2>4. Tree(searched) \ recycled \in SUBSET Groups
    BY <1>3
  <2>5. QED
    BY ONLY <1>1, <1>2, <2>2, <2>3, <2>4, ReachedLeast DEF Tree
<1>6. Tree(children) \subseteq Tree(searched) \cup recycled
  <2>1. ASSUME NEW g \in Tree(searched), NEW m \in children[g] \cap Groups
        PROVE  m \in Tree(searched) \cup recycled
    <3>1. CASE deleted[m]
      <4>1. m \in Members(children)
        BY <1>1, <1>3, TreeIsGroupMembers
      <4>2. QED
        BY <3>1, <4>1 DEF RecycleInv, OnlyRecycledIsFlagged
    <3>2. CASE ~deleted[m]
      BY <1>2, <1>3, <3>2, TreeIsGroupMembers
    <3>3. QED
      BY <3>1, <3>2
  <2>2. ASSUME NEW g \in recycled, NEW m \in children[g] \cap Groups
        PROVE  m \in recycled
    <3>1. BinFound /\ binUuid \in Groups /\ g \in Branch(children, binUuid)
      BY <1>1, InBinIsBranch DEF BinFound
    <3>2. m \in Branch(children, binUuid)
      BY <1>1, <3>1, BranchIsClosed
    <3>3. QED
      BY <3>1, <3>2, InBinIsBranch
  <2>3. Closed(Tree(searched) \cup recycled, children)
    BY <2>1, <2>2 DEF Closed
  <2>4. {Root} \subseteq Tree(searched) \cup recycled
    BY <1>2, TreeIsGroupMembers
  <2>5. Tree(searched) \cup recycled \in SUBSET Groups
    BY <1>3
  <2>6. QED
    BY ONLY <1>1, <2>3, <2>4, <2>5, ReachedLeast DEF Tree
<1>7. QED
  BY <1>1, <1>3, <1>5, <1>6 DEF searched

(* An entry is in the Recycle Bin when its group is.                              *)
LEMMA SearchFindsTheRest ==
    ASSUME TreeInv, RecycleInv
    PROVE  SearchSkipsRecycled
<1> USE NodesAssumption
<1>1. /\ children \in ChildLists /\ OnePlace(children)
      /\ Tree(children) \subseteq Groups
  BY OnePlaceInTree, TreeIsGroupMembers
<1>2. ASSUME NEW g \in Tree(children), NEW n \in children[g] \cap Entries
      PROVE  InBin(n) <=> InBin(g)
  <2>1. g \in Groups /\ n \notin Groups
    BY <1>1
  <2>2. BinFound => binUuid \in Groups /\ n # binUuid
    BY <1>1, <2>1 DEF BinFound
  <2>3. BinFound => (n \in Branch(children, binUuid) <=> g \in Branch(children, binUuid))
    BY <1>1, <2>1, <2>2, BranchIsEnteredAtTop, BranchIsClosed
  <2>4. QED
    BY <2>3, InBinIsBranch
<1>3. ASSUME NEW n
      PROVE  /\ n \in Members(children) \cap Entries
                   <=> \E g \in Tree(children) : n \in children[g] \cap Entries
             /\ n \in FilterEntries(FALSE)
                   <=> \E g \in Tree(children) : ~InBin(g) /\ n \in children[g] \cap Entries
             /\ n \in FilterEntries(TRUE)
                   <=> \E g \in Tree(children) : n \in children[g] \cap Entries
  <2>1. Root \notin Entries
    OBVIOUS
  <2>2. Searched(TRUE) = children
    BY <1>1 DEF Searched, ChildLists
  <2>3. n \in Members(children) \cap Entries
           <=> \E g \in Tree(children) : n \in children[g] \cap Entries
    BY ONLY <2>1 DEF Members
  <2>4. n \in FilterEntries(FALSE)
           <=> \E g \in {h \in Tree(children) : ~InBin(h)} : n \in children[g] \cap Entries
    BY SearchedIsOutside DEF FilterEntries
  <2>5. n \in FilterEntries(TRUE)
           <=> \E g \in Tree(children) : n \in children[g] \cap Entries
    BY ONLY <2>2 DEF FilterEntries
  <2>6. QED
    BY ONLY <2>3, <2>4, <2>5
<1>4. ASSUME NEW n
      PROVE  n \in FilterEntries(FALSE) <=> n \in Members(children) \cap Entries /\ ~InBin(n)
  BY ONLY <1>2, <1>3
<1>5. QED
  BY ONLY <1>3, <1>4 DEF SearchSkipsRecycled

----------------------------------------------------------------------------------
(* Theorems                                                                       *)

(* The child lists, the parent pointers, the flag of the Recycle Bin and the file *)
(* stay well formed, wherever a file has put its Recycle Bin.                     *)
THEOREM TreeInvariance == Spec => []TreeInv
<1>1. Init => TreeInv
  BY InitTreeInv
<1>2. TreeInv /\ [Next]_vars => TreeInv'
  BY NextTreeInv
<1>3. QED
  BY <1>1, <1>2, PTL DEF Spec

(* PwGroup's child lists and parent pointers agree after every operation.         *)
THEOREM ListsAlwaysAgree == Spec => []ListsAgree
<1>1. TreeInv => ListsAgree
  BY DEF TreeInv, MemoryOK
<1>2. QED
  BY <1>1, TreeInvariance, PTL

(* Nothing of the saved file is lost from the open database, unless it is         *)
(* mentioned among the deleted objects: when the Recycle Bin is in the root group,*)
(* where getBackupGroup() creates it.                                             *)
THEOREM NothingIsLost ==
    ASSUME BinMayBeNested = FALSE
    PROVE  Spec => []NothingLost
<1>1. Init => NothingLost
  BY NothingLostInit
<1>2. TreeInv /\ TreeInv' /\ NothingLost /\ [Next]_vars => NothingLost'
  BY NothingLostNext DEF TopBinInv
<1>3. QED
  BY <1>1, <1>2, TreeInvariance, PTL DEF Spec

(* No save drops a group or an entry from the file without mentioning it.         *)
THEOREM DeletionsAreMentioned ==
    ASSUME BinMayBeNested = FALSE
    PROVE  Spec => DeletionIsMentioned
<1>1. TreeInv /\ TreeInv' /\ NothingLost /\ [Next]_vars
         => [\A n \in Members(file.children) \ Members(file'.children) :
                n \in file'.deletedObjects]_vars
  BY DeletionIsMentionedNext DEF TopBinInv
<1>2. QED
  BY <1>1, TreeInvariance, NothingIsLost, PTL DEF Spec, DeletionIsMentioned

(* The flag that withdraws groups and entries from editing, the Recycle Bin it    *)
(* stands for and the edit sheet agree after every operation of PwGroupV4,        *)
(* PwEntryV4 and PwDatabaseV4, wherever a file has put its Recycle Bin.           *)
THEOREM RecycleInvariance == Spec => []RecycleInv
<1>1. Init => RecycleInv
  BY InitRecycleInv
<1>2. TreeInv /\ TreeInv' /\ RecycleInv /\ [Next]_vars => RecycleInv'
  BY NextRecycleInv
<1>3. QED
  BY <1>1, <1>2, TreeInvariance, PTL DEF Spec

(* No group or entry that is in the tree is withdrawn from editing unless it is   *)
(* in the Recycle Bin: moveToBackup() flags nothing else, and no failed save and  *)
(* no reopened file leaves a flag behind.                                         *)
THEOREM OnlyRecycledIsAlwaysFlagged == Spec => []OnlyRecycledIsFlagged
<1>1. RecycleInv => OnlyRecycledIsFlagged
  BY DEF RecycleInv
<1>2. QED
  BY <1>1, RecycleInvariance, PTL

(* filterEntries(), which enters no flagged group, finds what is outside of the   *)
(* Recycle Bin and nothing in it, although readFromStream() flags no group below. *)
THEOREM SearchesSkipTheBin == Spec => []SearchSkipsRecycled
<1>1. TreeInv /\ RecycleInv => SearchSkipsRecycled
  BY SearchFindsTheRest
<1>2. QED
  BY <1>1, TreeInvariance, RecycleInvariance, PTL
==================================================================================

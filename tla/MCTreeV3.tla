--------------------------------- MODULE MCTreeV3 ---------------------------------
(* Model checking of TreeV3: a root and three other groups, three entries, a meta *)
(* stream.                                                                        *)
EXTENDS TreeV3, TLC

CONSTANTS root, g1, g2, g3, e1, e2, e3, m1, t1, t2, i1, i2, i3, none

MCGroups  == {root, g1, g2, g3}
MCEntries == {e1, e2, e3}
MCMeta    == {m1}
MCTitles  == {t1, t2}
MCIds     == {i1, i2, i3}
MCNone    == none
MCRoot    == root

Group(g, id, level, reserved) ==
    [node |-> g, id |-> id, level |-> level, reserved |-> reserved]
Entry(e, id, t) == [node |-> e, groupId |-> id, title |-> t]

(* A file of a KeePass that has counted the meta stream.                          *)
FileOf(gs, es) == [groups |-> gs, entries |-> es,
                   groupCount |-> Len(gs), entryCount |-> Len(es)]

MCOldFiles ==
    {FileOf(<<Group(g1, i2, 0, FALSE), Group(g2, i1, 1, FALSE)>>,
            <<Entry(e1, i1, t1), Entry(e2, i2, t2), Entry(m1, i2, none)>>),
     FileOf(<<Group(g2, i2, 0, TRUE), Group(g1, i1, 0, FALSE)>>,
            <<Entry(e1, i2, t1)>>)}
(* No action and no property tells these apart; which of them the first files use *)
(* makes no difference.                                                           *)
Symmetry == Permutations({g1, g2, g3}) \cup Permutations(MCEntries)
                \cup Permutations(MCTitles) \cup Permutations(MCIds)
==================================================================================

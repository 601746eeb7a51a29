-------------------------------- MODULE MCEntryV4 --------------------------------
(* Model checking of EntryV4: two entries, one of which is there already.  The    *)
(* file comes from a program that writes the oldest version first.                *)
EXTENDS EntryV4, TLC

CONSTANTS e1, e2, n1, n2, v1, v2, d1, d2, none

MCEntries == {e1, e2}
MCNames   == {n1, n2}
MCValues  == {v1, v2}
MCData    == {d1, d2}
MCNone    == none

Version(title, atts, t) ==
    [title |-> title, extra |-> [n \in Names |-> None], atts |-> atts, modified |-> t]

(* A history longer than the limit allows, and a pool whose numbers have gaps.    *)
LongHistory ==
    [order    |-> <<e1>>,
     entry    |-> e1 :> Version(v1, <<7>>, 0),
     history  |-> e1 :> <<Version(v1, <<>>, -3), Version(v2, <<3>>, -2),
                          Version(v2, <<7, 3>>, -1)>>,
     binaries |-> 7 :> d1 @@ 3 :> d2]

(* A database without an entry, as it may be left by a deletion.                  *)
Empty == [order |-> <<>>, entry |-> <<>>, history |-> <<>>, binaries |-> <<>>]

MCOldFiles == {LongHistory, Empty}

==================================================================================

------------------------------ MODULE DurableStore ------------------------------
(***************************************************************************)
(* What saving a password database promises, seen from outside: for every  *)
(* path there is one stored content, a session works on a copy of it, and  *)
(* storing replaces the stored content by the session's in a single step,  *)
(* however many file operations and crashes hide behind that step.         *)
(***************************************************************************)
CONSTANTS
    Paths,      \* where databases can be stored
    Contents,   \* what a stored database can contain
    Nothing,    \* no database has been stored at a path
    NoSession   \* no database is open

VARIABLES
    stored,     \* the content a user would recover for each path
    session     \* the open database: its path and its working content

vars == <<stored, session>>

Sessions == [path : Paths, content : Contents]

Init ==
    /\ stored \in [Paths -> Contents \cup {Nothing}]
    /\ session = NoSession

(* A session starts from exactly the content that is stored.               *)
Open(p) ==
    /\ stored[p] \in Contents
    /\ session' = [path |-> p, content |-> stored[p]]
    /\ UNCHANGED stored

(* A new database starts in memory only.                                   *)
Create(p) ==
    /\ session = NoSession
    /\ \E c \in Contents : session' = [path |-> p, content |-> c]
    /\ UNCHANGED stored

(* The working content changes, the stored one does not.                   *)
Change ==
    /\ session \in Sessions
    /\ \E c \in Contents : session' = [path |-> session.path, content |-> c]
    /\ UNCHANGED stored

(* All or nothing: the only way a stored content ever changes.             *)
Store ==
    /\ session \in Sessions
    /\ stored' = [stored EXCEPT ![session.path] = session.content]
    /\ UNCHANGED session

Close ==
    /\ session' = NoSession
    /\ UNCHANGED stored

Next ==
    \/ \E p \in Paths : Open(p) \/ Create(p)
    \/ Change
    \/ Store
    \/ Close

Spec == Init /\ [][Next]_vars
=================================================================================

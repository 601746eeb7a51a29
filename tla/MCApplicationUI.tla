----------------------------- MODULE MCApplicationUI -----------------------------
(* Model checking of ApplicationUI: two keys with a password, and one that is a   *)
(* key file only.                                                                 *)
EXTENDS ApplicationUI, TLC

CONSTANTS pw1, pw2, k1, k2, keyFile

MCKeys == {k1, k2, keyFile}
MCPasswords == {pw1, pw2}
MCPasswordOf == k1 :> pw1 @@ k2 :> pw2 @@ keyFile :> NoPassword

(* Swapping the two passwords together with their keys, and permuting the types,  *)
(* changes no behaviour.                                                          *)
Swap == k1 :> k2 @@ k2 :> k1 @@ pw1 :> pw2 @@ pw2 :> pw1
MCSymmetry ==
    {Swap} \cup Permutations(QuickUnlockTypes)
           \cup {Swap @@ q : q \in Permutations(QuickUnlockTypes)}

(* Bound: the clock advances before the first session only; what it means to a    *)
(* save in progress, and to later ones, is checked for the facade alone.          *)
ClockWaits == clock' # clock => locked /\ lastVer = 0 /\ acceptedKey = UninitKey
                                       /\ \A p \in Paths : backups[p][0] = Absent
==================================================================================

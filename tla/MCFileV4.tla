--------------------------------- MODULE MCFileV4 ---------------------------------
(* Model checking of FileV4: two keys, one protected value that may be there twice,*)
(* and a document in two blocks.                                                   *)
EXTENDS FileV4

CONSTANTS k1, k2, v1, none, garbage

MCKeys    == {k1, k2}
MCValues  == {v1}
MCRounds  == {1, 2}
MCNone    == none
MCGarbage == garbage
==================================================================================

--------------------------- MODULE MCPwDatabaseFacade ---------------------------
(* Model checking of PwDatabaseFacade on small sets of paths and keys.           *)
EXTENDS PwDatabaseFacade, TLC

(* The keys are interchangeable.                                                 *)
KeySymmetry == Permutations(Keys)
=================================================================================

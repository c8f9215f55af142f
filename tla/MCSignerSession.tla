-------------------------- MODULE MCSignerSession --------------------------
(***************************************************************************)
(* Instances of SignerSession for TLC; the .cfg files give the constants   *)
(* their values.                                                           *)
(***************************************************************************)
EXTENDS SignerSession, TLC

(* Runs of init() are interchangeable, and so are accounts: no definition  *)
(* names one.  Used for safety properties only.                            *)
Interchangeable == Permutations(Inits) \cup Permutations(Accounts)
=============================================================================

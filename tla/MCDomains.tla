----------------------------- MODULE MCDomains -----------------------------
(***************************************************************************)
(* Instances of Domains for TLC; the .cfg files give the constants their   *)
(* values.                                                                 *)
(***************************************************************************)
EXTENDS Domains

LegacyRole == {<<"r">> \o RolesOf(<<"o">> \o Root)}
=============================================================================

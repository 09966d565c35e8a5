------------------------------ MODULE MCOidMap ------------------------------
(***************************************************************************)
(* Three keys, so that an array that starts with one place grows twice,    *)
(* two values, and a place to spare for the entry that is freed again.     *)
(***************************************************************************)
EXTENDS OidMap
=============================================================================

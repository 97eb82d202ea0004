------------------------- MODULE MCIdentityKeyStore -------------------------
(***************************************************************************)
(* Model-checking instance of IdentityKeyStore: two addresses, three       *)
(* identity keys, so that a saved key can be replaced twice in a row       *)
(* for one address while the other address is untouched.                   *)
(***************************************************************************)
EXTENDS IdentityKeyStore
=============================================================================

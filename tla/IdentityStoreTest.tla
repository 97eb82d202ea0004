-------------------------- MODULE IdentityStoreTest -------------------------
(***************************************************************************)
(* One test function run against a fresh InMemIdentityKeyStore: two        *)
(* identity keys generated from OsRng, then a list of statements, each a   *)
(* store call followed by the assertion on its unwrapped result.  pc is    *)
(* the index of the next statement; a failed assertion ends the test.      *)
(***************************************************************************)
EXTENDS Naturals, Sequences

CONSTANTS
    Addresses, IdentityKeys, LocalKeyPair, RegistrationId, NONE,
    Script            \* the test's statements, a sequence of records
                      \* [call, address, key, expect]; key 1 or 2 names
                      \* key1 or key2, 0 none

VARIABLES known_keys, ret, lastSaved, key, pc

vars == <<known_keys, ret, lastSaved, key, pc>>

Store == INSTANCE IdentityKeyStore

Failed == 0

Stmt(call, address, k, expect) ==
    [call |-> call, address |-> address, key |-> k, expect |-> expect]

\* assert_eq!(None, result), assert_eq!(Some(key1), retrieved),
\* assert!(trusted), assert_eq!(IdentityChange::..., change).
Holds(st, val) ==
    CASE st.expect = "None" -> val = NONE
      [] st.expect = "Some" -> val = key[st.key]
      [] st.expect = "true" -> val = TRUE
      [] OTHER              -> val = st.expect

\* InMemIdentityKeyStore::new(identity_pair, 12345), and key1 and key2 from
\* two IdentityKeyPair::generate(&mut OsRng) calls: distinct fresh keys.
Init ==
    /\ Store!Init
    /\ key \in {k \in [1 .. 2 -> IdentityKeys] : k[1] # k[2]}
    /\ pc = 1

Step ==
    /\ pc \in 1 .. Len(Script)
    /\ LET st == Script[pc]
       IN  /\ \/ st.call = "get_identity" /\ Store!get_identity(st.address)
              \/ /\ st.call = "is_trusted_identity"
                 /\ Store!is_trusted_identity(st.address, key[st.key])
              \/ /\ st.call = "save_identity"
                 /\ Store!save_identity(st.address, key[st.key])
           /\ pc' = IF Holds(st, ret'.val) THEN pc + 1 ELSE Failed
           /\ UNCHANGED key

Finished == pc \in {Failed, Len(Script) + 1}
=============================================================================

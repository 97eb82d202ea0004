--------------------------- MODULE ValidationTests --------------------------
(***************************************************************************)
(* The store validation tests of rust/protocol/src/storage.rs and the unit *)
(* tests of rust/protocol/src/storage/inmem.rs (both kept in comments in   *)
(* the source), run against the in-memory stores.  Each #[tokio::test]     *)
(* builds its own store, and `cargo test` runs the tests on parallel       *)
(* threads, so a behaviour interleaves the statements of the four tests;   *)
(* they share no state.                                                    *)
(***************************************************************************)
EXTENDS Naturals, Sequences

CONSTANTS
    Alice, Bob,       \* ProtocolAddress "alice" and "bob", device 1
    IdentityKeys, LocalKeyPair, RegistrationId, Sessions, NONE

Addresses == {Alice, Bob}

VARIABLES
    sp_sessions, sp_ret, sp_pc,           \* session store validation
    ip_keys, ip_ret, ip_saved, ip_key, ip_pc,      \* identity store validation
    lc_sessions, lc_ret, lc_pc,           \* load consistency
    cd_keys, cd_ret, cd_saved, cd_key, cd_pc       \* identity change detection

sp_vars == <<sp_sessions, sp_ret, sp_pc>>
ip_vars == <<ip_keys, ip_ret, ip_saved, ip_key, ip_pc>>
lc_vars == <<lc_sessions, lc_ret, lc_pc>>
cd_vars == <<cd_keys, cd_ret, cd_saved, cd_key, cd_pc>>
vars == <<sp_vars, ip_vars, lc_vars, cd_vars>>

S(call, address, expect) ==
    [call |-> call, address |-> address, expect |-> expect]
I(call, address, k, expect) ==
    [call |-> call, address |-> address, key |-> k, expect |-> expect]

\* test_session_store_properties: tests 1 to 4.
SessionPropertiesScript ==
    << S("load_session", Alice, "None"),
       S("store_session", Alice, "Ok"),
       S("load_session", Alice, "Some"),
       S("load_session", Bob, "None"),
       S("store_session", Alice, "Ok"),
       S("load_session", Alice, "Some") >>

\* test_identity_store_properties: tests 1 to 6.
IdentityPropertiesScript ==
    << I("get_identity", Alice, 0, "None"),
       I("is_trusted_identity", Alice, 1, "true"),
       I("save_identity", Alice, 1, "NewOrUnchanged"),
       I("get_identity", Alice, 1, "Some"),
       I("save_identity", Alice, 1, "NewOrUnchanged"),
       I("save_identity", Alice, 2, "ReplacedExisting") >>

\* test_session_store_load_consistency.
LoadConsistencyScript ==
    << S("load_session", Alice, "None"),
       S("store_session", Alice, "Ok"),
       S("load_session", Alice, "Some") >>

\* test_identity_change_detection.
ChangeDetectionScript ==
    << I("save_identity", Bob, 1, "NewOrUnchanged"),
       I("save_identity", Bob, 1, "NewOrUnchanged"),
       I("save_identity", Bob, 2, "ReplacedExisting") >>

SP == INSTANCE SessionStoreTest
        WITH sessions <- sp_sessions, ret <- sp_ret,
             pc <- sp_pc, Script <- SessionPropertiesScript
IP == INSTANCE IdentityStoreTest
        WITH known_keys <- ip_keys, ret <- ip_ret, lastSaved <- ip_saved,
             key <- ip_key, pc <- ip_pc, Script <- IdentityPropertiesScript
LC == INSTANCE SessionStoreTest
        WITH sessions <- lc_sessions, ret <- lc_ret,
             pc <- lc_pc, Script <- LoadConsistencyScript
CD == INSTANCE IdentityStoreTest
        WITH known_keys <- cd_keys, ret <- cd_ret, lastSaved <- cd_saved,
             key <- cd_key, pc <- cd_pc, Script <- ChangeDetectionScript

Init == SP!Init /\ IP!Init /\ LC!Init /\ CD!Init

\* One statement of one test; the other tests do nothing meanwhile.
test_session_store_properties ==
    SP!Step /\ UNCHANGED <<ip_vars, lc_vars, cd_vars>>
test_identity_store_properties ==
    IP!Step /\ UNCHANGED <<sp_vars, lc_vars, cd_vars>>
test_session_store_load_consistency ==
    LC!Step /\ UNCHANGED <<sp_vars, ip_vars, cd_vars>>
test_identity_change_detection ==
    CD!Step /\ UNCHANGED <<sp_vars, ip_vars, lc_vars>>

Next ==
    \/ test_session_store_properties
    \/ test_identity_store_properties
    \/ test_session_store_load_consistency
    \/ test_identity_change_detection

Spec == Init /\ [][Next]_vars

-----------------------------------------------------------------------------
(***************************************************************************)
(* The in-memory stores pass the validation suites: for every pair of     *)
(* generated keys and fresh session records, no assert! or assert_eq! of  *)
(* a test fails.  The tests share no state, so the interleaving of their   *)
(* threads cannot change an outcome; what is checked is each script over   *)
(* every choice of its inputs.  Test 2 of the identity suite (trust on    *)
(* first use) and test 6 (a replaced key is reported) each take several   *)
(* store calls to reach.                                                   *)
(***************************************************************************)
TestsPass ==
    \A p \in {sp_pc, ip_pc, lc_pc, cd_pc} : p # SP!Failed
=============================================================================

------------------------- MODULE SignalProtocolStore ------------------------
(***************************************************************************)
(* InMemSignalProtocolStore of rust/protocol/src/storage/inmem.rs: one     *)
(* store of each kind as a pub field, and the ProtocolStore traits         *)
(* implemented by forwarding every call to one field.  The fields are the  *)
(* store models, instantiated on disjoint variables; `ret` is the last     *)
(* call made through the protocol store and its result.                    *)
(***************************************************************************)
EXTENDS Naturals

CONSTANTS
    Addresses, IdentityKeys, LocalKeyPair, RegistrationId,
    PreKeyIds, Records, Sessions, DistributionIds, SenderKeyRecords, NONE

VARIABLES
    known_keys, lastSaved,                      \* identity_store
    maps,                                       \* the three pre-key stores
    sessions,                                   \* session_store
    sender_keys,                                \* sender_key_store
    ret

identity_vars == <<known_keys, lastSaved>>
pre_key_vars == <<maps>>
session_vars == <<sessions>>
sender_key_vars == <<sender_keys>>
vars == <<identity_vars, pre_key_vars, session_vars, sender_key_vars, ret>>

IdentityStore == INSTANCE IdentityKeyStore
PreKeys == INSTANCE PreKeyStores
SessionFields == INSTANCE SessionStore WITH MaxBatch <- 0
SenderKeys == INSTANCE SenderKeyStore WITH keys <- sender_keys

\* InMemSignalProtocolStore::new(key_pair, registration_id): every field is
\* its store's new().
Init ==
    /\ known_keys = [a \in Addresses |-> NONE]
    /\ lastSaved = [a \in Addresses |-> NONE]
    /\ maps = [s \in PreKeys!StoreNames |-> PreKeys!EmptyMap]
    /\ sessions = [a \in Addresses |-> NONE]
    /\ sender_keys = [s \in SenderKeys!Slots |-> NONE]
    /\ ret = [op |-> "new"]

\* impl IdentityKeyStore: each method forwards to identity_store.  reset is
\* not a trait method and is not forwarded.
identity_methods ==
    /\ \/ IdentityStore!get_identity_key_pair
       \/ IdentityStore!get_local_registration_id
       \/ \E a \in Addresses, k \in IdentityKeys :
             IdentityStore!save_identity(a, k)
             \/ IdentityStore!is_trusted_identity(a, k)
       \/ \E a \in Addresses : IdentityStore!get_identity(a)
    /\ UNCHANGED <<pre_key_vars, session_vars, sender_key_vars>>

\* The inherent all_pre_key_ids, all_signed_pre_key_ids and
\* all_kyber_pre_key_ids: the keys of the field's map.
pre_key_listings ==
    /\ \/ PreKeys!all_pre_key_ids
       \/ PreKeys!all_signed_pre_key_ids
       \/ PreKeys!all_kyber_pre_key_ids
    /\ UNCHANGED <<identity_vars, session_vars, sender_key_vars>>

\* impl PreKeyStore, SignedPreKeyStore and KyberPreKeyStore: each method
\* forwards to pre_key_store, signed_pre_key_store or kyber_pre_key_store.
pre_key_methods ==
    /\ \E id \in PreKeyIds :
          \/ PreKeys!get_pre_key(id) \/ PreKeys!remove_pre_key(id)
          \/ PreKeys!get_signed_pre_key(id) \/ PreKeys!get_kyber_pre_key(id)
          \/ PreKeys!mark_kyber_pre_key_used(id)
          \/ \E r \in Records :
                \/ PreKeys!save_pre_key(id, r)
                \/ PreKeys!save_signed_pre_key(id, r)
                \/ PreKeys!save_kyber_pre_key(id, r)
    /\ UNCHANGED <<identity_vars, session_vars, sender_key_vars>>

\* impl SessionStore: load_session and store_session forward to
\* session_store (load_existing_sessions is only reachable on the field).
session_methods ==
    /\ \E a \in Addresses :
          SessionFields!load_session(a)
          \/ \E r \in Sessions : SessionFields!store_session(a, r)
    /\ UNCHANGED <<identity_vars, pre_key_vars, sender_key_vars>>

\* impl SenderKeyStore: both methods forward to sender_key_store.
sender_key_methods ==
    /\ SenderKeys!Next
    /\ UNCHANGED <<identity_vars, pre_key_vars, session_vars>>

Next ==
    \/ identity_methods
    \/ pre_key_listings
    \/ pre_key_methods
    \/ session_methods
    \/ sender_key_methods

Spec == Init /\ [][Next]_vars

=============================================================================

---------------------------- MODULE PreKeyStores ----------------------------
(***************************************************************************)
(* InMemPreKeyStore, InMemSignedPreKeyStore and InMemKyberPreKeyStore of   *)
(* rust/protocol/src/storage/inmem.rs: three HashMaps from a key id to a   *)
(* record, held as one function from the store's name to its map.  Each   *)
(* method is one atomic step; `ret` records the call and its result.  Ids  *)
(* and records are model values.                                           *)
(***************************************************************************)
EXTENDS Naturals

CONSTANTS
    PreKeyIds,        \* PreKeyId, SignedPreKeyId and KyberPreKeyId values
    Records,          \* PreKeyRecord, SignedPreKeyRecord, KyberPreKeyRecord
    NONE              \* an id absent from a map

ASSUME NONE \notin Records

VARIABLES
    maps,             \* maps["pre"]: pre_keys, maps["signed"]:
                      \* signed_pre_keys, maps["kyber"]: kyber_pre_keys
    ret               \* the method last called, its id argument, its result

vars == <<maps, ret>>

StoreNames == {"pre", "signed", "kyber"}

\* The error a get returns for an absent id, per store.
Invalid == [pre |-> "InvalidPreKeyId", signed |-> "InvalidSignedPreKeyId",
            kyber |-> "InvalidKyberPreKeyId"]

Call(op, id, val) == [op |-> op, id |-> id, val |-> val]

EmptyMap == [i \in PreKeyIds |-> NONE]

\* The keys of a map: HashMap::keys.
Keys(m) == {i \in PreKeyIds : m[i] # NONE}

\* HashMap::get(..).ok_or(err)?.clone(): the record or the error.
GetOr(m, id, err) == IF m[id] = NONE THEN err ELSE m[id]

\* new() of each store: an empty map.
Init ==
    /\ maps = [s \in StoreNames |-> EmptyMap]
    /\ ret = Call("new", NONE, NONE)

\* insert (v a record) or remove (v = NONE) in store st, returning Ok(()).
Write(op, st, id, v) ==
    /\ maps' = [maps EXCEPT ![st][id] = v]
    /\ ret' = Call(op, id, NONE)

ReadOnly(op, id, val) == ret' = Call(op, id, val) /\ UNCHANGED maps

Get(op, st, id) == ReadOnly(op, id, GetOr(maps[st], id, Invalid[st]))

get_pre_key(id) == Get("get_pre_key", "pre", id)

\* save_pre_key: insert, overwriting an existing record of the same id.
save_pre_key(id, record) == Write("save_pre_key", "pre", id, record)

\* remove_pre_key: remove; an absent id is silently ignored.
remove_pre_key(id) == Write("remove_pre_key", "pre", id, NONE)

all_pre_key_ids == ReadOnly("all_pre_key_ids", NONE, Keys(maps["pre"]))

get_signed_pre_key(id) == Get("get_signed_pre_key", "signed", id)

save_signed_pre_key(id, record) ==
    Write("save_signed_pre_key", "signed", id, record)

all_signed_pre_key_ids ==
    ReadOnly("all_signed_pre_key_ids", NONE, Keys(maps["signed"]))

get_kyber_pre_key(id) == Get("get_kyber_pre_key", "kyber", id)

save_kyber_pre_key(id, record) ==
    Write("save_kyber_pre_key", "kyber", id, record)

\* mark_kyber_pre_key_used: returns Ok(()) and changes nothing.
mark_kyber_pre_key_used(id) == ReadOnly("mark_kyber_pre_key_used", id, NONE)

all_kyber_pre_key_ids ==
    ReadOnly("all_kyber_pre_key_ids", NONE, Keys(maps["kyber"]))

Next ==
    \/ all_pre_key_ids \/ all_signed_pre_key_ids \/ all_kyber_pre_key_ids
    \/ \E id \in PreKeyIds :
          \/ get_pre_key(id) \/ remove_pre_key(id)
          \/ get_signed_pre_key(id) \/ get_kyber_pre_key(id)
          \/ mark_kyber_pre_key_used(id)
          \/ \E r \in Records :
                save_pre_key(id, r) \/ save_signed_pre_key(id, r)
                \/ save_kyber_pre_key(id, r)

Spec == Init /\ [][Next]_vars

=============================================================================

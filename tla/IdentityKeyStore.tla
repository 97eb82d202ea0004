-------------------------- MODULE IdentityKeyStore --------------------------
(***************************************************************************)
(* InMemIdentityKeyStore of rust/protocol/src/storage/inmem.rs: the local  *)
(* identity key pair and registration id, and a map from protocol address  *)
(* to the identity key trusted for it on first use (TOFU).  Every method   *)
(* takes &self or &mut self and completes without awaiting anything, so    *)
(* each call is one atomic step; `ret` holds the value the last call       *)
(* returned.  Key material is abstracted to model values.                  *)
(***************************************************************************)
EXTENDS Naturals

CONSTANTS
    Addresses,        \* ProtocolAddress values the caller uses
    IdentityKeys,     \* IdentityKey values
    LocalKeyPair,     \* the IdentityKeyPair given to new()
    RegistrationId,   \* the u32 registration id given to new()
    NONE              \* absence of a key (HashMap::get returns None)

ASSUME NONE \notin IdentityKeys

VARIABLES
    known_keys,       \* HashMap<ProtocolAddress, IdentityKey>
    ret,              \* the method last called, its address and identity
                      \* arguments (NONE if it has none) and its result
    lastSaved         \* history: identity of the last save_identity per
                      \* address since the last reset, NONE if none

vars == <<known_keys, ret, lastSaved>>

\* The record of a call of method op returning val.
Call(op, address, identity, val) ==
    [op |-> op, address |-> address, identity |-> identity, val |-> val]

\* new(key_pair, registration_id): known_keys is empty.
Init ==
    /\ known_keys = [a \in Addresses |-> NONE]
    /\ ret = Call("new", NONE, NONE, NONE)
    /\ lastSaved = [a \in Addresses |-> NONE]

\* reset(): known_keys.clear().
reset ==
    /\ known_keys' = [a \in Addresses |-> NONE]
    /\ ret' = Call("reset", NONE, NONE, NONE)
    /\ lastSaved' = [a \in Addresses |-> NONE]

get_identity_key_pair ==
    /\ ret' = Call("get_identity_key_pair", NONE, NONE, LocalKeyPair)
    /\ UNCHANGED <<known_keys, lastSaved>>

get_local_registration_id ==
    /\ ret' = Call("get_local_registration_id", NONE, NONE, RegistrationId)
    /\ UNCHANGED <<known_keys, lastSaved>>

(***************************************************************************)
(* save_identity: an unknown address stores the key (NewOrUnchanged); the  *)
(* same key leaves the map alone (NewOrUnchanged); a different key         *)
(* overwrites the stored one and reports ReplacedExisting.                 *)
(***************************************************************************)
\* Mutant of save_identity: a different key is reported but not stored.
save_identity_forgets_insert(address, identity) ==
    /\ known_keys' = IF known_keys[address] = NONE
                     THEN [known_keys EXCEPT ![address] = identity] ELSE known_keys
    /\ ret' = Call("save_identity", address, identity,
                   IF known_keys[address] \in {NONE, identity}
                   THEN "NewOrUnchanged" ELSE "ReplacedExisting")
    /\ lastSaved' = [lastSaved EXCEPT ![address] = identity]

\* Mutant of save_identity: any known address reports NewOrUnchanged.
save_identity_unreported(address, identity) ==
    /\ known_keys' = [known_keys EXCEPT ![address] = identity]
    /\ ret' = Call("save_identity", address, identity, "NewOrUnchanged")
    /\ lastSaved' = [lastSaved EXCEPT ![address] = identity]

save_identity(address, identity) ==
    /\ \/ /\ known_keys[address] = NONE
          /\ known_keys' = [known_keys EXCEPT ![address] = identity]
          /\ ret' = Call("save_identity", address, identity, "NewOrUnchanged")
       \/ /\ known_keys[address] = identity
          /\ ret' = Call("save_identity", address, identity, "NewOrUnchanged")
          /\ UNCHANGED known_keys
       \/ /\ known_keys[address] \notin {NONE, identity}
          /\ known_keys' = [known_keys EXCEPT ![address] = identity]
          /\ ret' = Call("save_identity", address, identity, "ReplacedExisting")
    /\ lastSaved' = [lastSaved EXCEPT ![address] = identity]

\* Mutant of is_trusted_identity: no trust on first use, an unknown address
\* is not trusted.
is_trusted_identity_no_tofu(address, identity) ==
    /\ ret' = Call("is_trusted_identity", address, identity,
                   known_keys[address] = identity)
    /\ UNCHANGED <<known_keys, lastSaved>>

\* is_trusted_identity: true on first use, else whether the key is the
\* stored one.  The direction argument is ignored by the code.
is_trusted_identity(address, identity) ==
    /\ ret' = Call("is_trusted_identity", address, identity,
                   known_keys[address] \in {NONE, identity})
    /\ UNCHANGED <<known_keys, lastSaved>>

get_identity(address) ==
    /\ ret' = Call("get_identity", address, NONE, known_keys[address])
    /\ UNCHANGED <<known_keys, lastSaved>>

Next ==
    \/ reset
    \/ get_identity_key_pair
    \/ get_local_registration_id
    \/ \E a \in Addresses, k \in IdentityKeys :
          save_identity(a, k) \/ is_trusted_identity(a, k)
    \/ \E a \in Addresses : get_identity(a)

Spec == Init /\ [][Next]_vars

-----------------------------------------------------------------------------
(***************************************************************************)
(* Trust follows the saves: whatever sequence of save_identity and reset   *)
(* calls was made, get_identity returns the key of the last save since the *)
(* last reset, and is_trusted_identity accepts exactly that key (or any    *)
(* key when there was none).  This is what the validation tests of         *)
(* storage.rs expect after each save ("Saved identity should be            *)
(* retrievable").                                                          *)
(***************************************************************************)
TrustFollowsSaves ==
    /\ ret.op = "get_identity" => ret.val = lastSaved[ret.address]
    /\ ret.op = "is_trusted_identity" =>
          ret.val = (lastSaved[ret.address] \in {NONE, ret.identity})

(***************************************************************************)
(* A change of trusted key is always reported: in any step, the key stored *)
(* for an address changes from one key to a different key only in a        *)
(* save_identity call that returns ReplacedExisting (storage.rs test 6,    *)
(* "Different identity should be detected").  A caller that ignores no     *)
(* result therefore never misses a key change.                             *)
(***************************************************************************)
ChangesAreReported ==
    [][\A a \in Addresses :
          known_keys[a] # NONE /\ known_keys'[a] \notin {NONE, known_keys[a]}
             => ret' = Call("save_identity", a, known_keys'[a], "ReplacedExisting")]_vars
=============================================================================

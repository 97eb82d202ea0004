--------------------------- MODULE SenderKeyStore ---------------------------
(***************************************************************************)
(* InMemSenderKeyStore of rust/protocol/src/storage/inmem.rs: a HashMap    *)
(* keyed by (sender address, distribution id) holding the sender key      *)
(* record of each group distribution.  The Cow in the key only lets the    *)
(* lookup borrow the address; it hashes and compares as the address, so    *)
(* the key is modelled as the pair.                                        *)
(***************************************************************************)
EXTENDS Naturals

CONSTANTS
    Addresses,        \* sender ProtocolAddress values
    DistributionIds,  \* Uuid distribution ids
    SenderKeyRecords, \* SenderKeyRecord values
    NONE              \* no record for a key

ASSUME NONE \notin SenderKeyRecords

VARIABLES
    keys,             \* HashMap<(Cow<ProtocolAddress>, Uuid), SenderKeyRecord>
    ret               \* the method last called, its arguments, its result

vars == <<keys, ret>>

Slots == Addresses \X DistributionIds

Call(op, sender, distribution_id, val) ==
    [op |-> op, sender |-> sender, dist |-> distribution_id, val |-> val]

Init ==
    /\ keys = [s \in Slots |-> NONE]
    /\ ret = Call("new", NONE, NONE, NONE)

store_sender_key(sender, distribution_id, record) ==
    /\ keys' = [keys EXCEPT ![<<sender, distribution_id>>] = record]
    /\ ret' = Call("store_sender_key", sender, distribution_id, NONE)

load_sender_key(sender, distribution_id) ==
    /\ ret' = Call("load_sender_key", sender, distribution_id,
                   keys[<<sender, distribution_id>>])
    /\ UNCHANGED keys

Next ==
    \E a \in Addresses, d \in DistributionIds :
        \/ load_sender_key(a, d)
        \/ \E r \in SenderKeyRecords : store_sender_key(a, d, r)

Spec == Init /\ [][Next]_vars

=============================================================================

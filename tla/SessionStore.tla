---------------------------- MODULE SessionStore ----------------------------
(***************************************************************************)
(* InMemSessionStore of rust/protocol/src/storage/inmem.rs: a HashMap from *)
(* protocol address to session record, with the bulk lookup                *)
(* load_existing_sessions used by sealed-sender multi-recipient            *)
(* encryption.  Each method is one atomic step; `ret` records the call and *)
(* its result.                                                             *)
(***************************************************************************)
EXTENDS Naturals, SequencesExt

CONSTANTS
    Addresses,        \* ProtocolAddress values
    Sessions,         \* SessionRecord values
    MaxBatch,         \* longest address list passed to load_existing_sessions
    NONE              \* an address with no session

ASSUME NONE \notin Sessions /\ MaxBatch \in Nat

VARIABLES
    sessions,         \* HashMap<ProtocolAddress, SessionRecord>
    ret               \* the method last called, its argument, its result

vars == <<sessions, ret>>

\* Address lists &[&ProtocolAddress] of length at most MaxBatch; an address
\* may occur more than once.
Batches == UNION {[1 .. n -> Addresses] : n \in 0 .. MaxBatch}

Call(op, arg, val) == [op |-> op, arg |-> arg, val |-> val]

\* Ok(v) and Err(e) of a Result.
Ok(v) == [ok |-> TRUE, val |-> v]
Err(e) == [ok |-> FALSE, val |-> e]

Init ==
    /\ sessions = [a \in Addresses |-> NONE]
    /\ ret = Call("new", NONE, NONE)

load_session(address) ==
    /\ ret' = Call("load_session", address, sessions[address])
    /\ UNCHANGED sessions

store_session(address, record) ==
    /\ sessions' = [sessions EXCEPT ![address] = record]
    /\ ret' = Call("store_session", address, NONE)

(***************************************************************************)
(* load_existing_sessions: map each address to its record or to            *)
(* SessionNotFound(address), and collect into Result<Vec<_>>, which stops  *)
(* at the first error: the whole call fails with the first address in list *)
(* order that has no session.                                              *)
(***************************************************************************)
load_existing_sessions(addresses) ==
    LET missing == {i \in DOMAIN addresses : sessions[addresses[i]] = NONE}
        result  == IF missing = {}
                   THEN Ok([i \in DOMAIN addresses |-> sessions[addresses[i]]])
                   ELSE Err(addresses[Min(missing)])
    IN  /\ ret' = Call("load_existing_sessions", addresses, result)
        /\ UNCHANGED sessions

Next ==
    \/ \E a \in Addresses :
          load_session(a) \/ \E r \in Sessions : store_session(a, r)
    \/ \E b \in Batches : load_existing_sessions(b)

Spec == Init /\ [][Next]_vars

=============================================================================

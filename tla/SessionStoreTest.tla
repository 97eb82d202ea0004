--------------------------- MODULE SessionStoreTest -------------------------
(***************************************************************************)
(* One test function run against a fresh InMemSessionStore: the test is a  *)
(* list of statements, each a store call followed by the assertion on its  *)
(* unwrapped result.  pc is the index of the next statement; a failed      *)
(* assertion panics and ends the test.                                     *)
(***************************************************************************)
EXTENDS Naturals, Sequences

CONSTANTS
    Addresses,        \* ProtocolAddress values
    Sessions,         \* SessionRecord values (SessionRecord::new_fresh())
    NONE,             \* no session (None)
    Script            \* the test's statements, a sequence of records
                      \* [call, address, expect]

VARIABLES sessions, ret, pc

vars == <<sessions, ret, pc>>

Store == INSTANCE SessionStore WITH MaxBatch <- 0

\* pc of a test whose assertion panicked.
Failed == 0

\* A statement of a test: the call on address and what its result must be.
Stmt(call, address, expect) ==
    [call |-> call, address |-> address, expect |-> expect]

\* assert_eq!(None, result), assert!(loaded.is_some()), or a bare .unwrap().
Holds(expect, val) ==
    CASE expect = "None" -> val = NONE
      [] expect = "Some" -> val # NONE
      [] expect = "Ok"   -> TRUE

\* let mut store = InMemSessionStore::new();
Init == Store!Init /\ pc = 1

Step ==
    /\ pc \in 1 .. Len(Script)
    /\ LET st == Script[pc]
       IN  /\ \/ st.call = "load_session" /\ Store!load_session(st.address)
              \/ /\ st.call = "store_session"
                 /\ \E r \in Sessions : Store!store_session(st.address, r)
           /\ pc' = IF Holds(st.expect, ret'.val) THEN pc + 1 ELSE Failed

Finished == pc \in {Failed, Len(Script) + 1}
=============================================================================

CONSTANTS
    Alice = Alice
    Bob = Bob
    IdentityKeys = {k1, k2, k3}
    LocalKeyPair = localPair
    RegistrationId = 12345
    Sessions = {s1, s2}
    NONE = NONE
SPECIFICATION Spec
INVARIANTS
    TestsPass
\* Every test returns after its last statement.
CHECK_DEADLOCK FALSE

CONSTANTS
    Addresses = {alice, bob}
    IdentityKeys = {k1, k2, k3}
    LocalKeyPair = localPair
    RegistrationId = regId
    NONE = NONE
SPECIFICATION Spec
INVARIANTS
    TrustFollowsSaves
PROPERTIES
    ChangesAreReported

\* One client and one server, a forged or genuine version negotiation, a
\* retry, hellos sent whole or damaged, three pre-shared keys and a 16-bit
\* gmt_unix_time (bytes of 4 bits).
CONSTANTS
    UsesTls <- TlsVersions
    UsesInitialObfuscators <- ObfuscatedVersions
    ByteBits = 4
    ClientVersionLists <- ClientLists
    ServerVersions <- ServerList
    VersionLists <- NegotiationLists
    ConnectionIds = {cid1, cid2}
    PreSharedKeys <- Keys
    Orbits <- OrbitStrings
    RandomBytes = {r1}
    Times <- Instants
    Null = Null
SPECIFICATION Spec
\* A handshake ends, established or failed, and nothing follows it.
CHECK_DEADLOCK FALSE
INVARIANTS
    NoDowngrade
    KeysMirror
    PskSeparatesKeys
    NonceOrderedByTime

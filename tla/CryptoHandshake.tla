--------------------------- MODULE CryptoHandshake ---------------------------
(***************************************************************************)
(* A QUIC crypto handshake that calls the functions of crypto_utils.cc in  *)
(* the order their comments describe.  A client with an order of           *)
(* preference connects; a version negotiation packet, which nothing        *)
(* authenticates and anyone on the path can forge, may make it change      *)
(* version; a retry packet may make it change connection id; the server    *)
(* validates the client hello and the client the server hello, and each    *)
(* side derives its keys.  The endpoints are not in the repository: their  *)
(* steps are the callers that the comments of ValidateClientHello(),       *)
(* ValidateServerHelloVersions() and DeriveKeys() speak of.                *)
(***************************************************************************)
EXTENDS CryptoUtils

CONSTANTS
    ClientVersionLists,     \* the orders of preference a client may have
    ServerVersions,         \* supported_versions of the server
    VersionLists,           \* what a version negotiation packet may carry
    ConnectionIds,
    PreSharedKeys,          \* byte strings; <<>> is no pre-shared key
    Orbits,                 \* byte strings; the orbit of a server has 8 bytes
    RandomBytes,            \* what the random generator may fill with
    Times                   \* instants of the wall clock, in seconds

VARIABLES
    now,                    \* the wall clock
    client,
    server

vars == <<now, client, server>>

Diversifications == {"NEVER", "PENDING", "NOW"}
premaster_secret == <<"premaster">>
Idle == [state |-> "idle"]

Init ==
    /\ now \in Times
    /\ client = Idle
    /\ server = Idle

Tick(t) ==
    /\ t > now
    /\ now' = t
    /\ UNCHANGED <<client, server>>

ClientConnect(versions, connection_id, pre_shared_key, orbit, random) ==
    /\ client.state = "idle"
    /\ client' = [state |-> "initial", versions |-> versions,
                  version |-> Head(versions), negotiated |-> <<>>,
                  connection_id |-> connection_id, retried |-> FALSE,
                  pre_shared_key |-> pre_shared_key, time |-> now,
                  nonce |-> GenerateNonce(now, random, orbit),
                  initial |-> CreateInitialObfuscators(
                                  "IS_CLIENT", Head(versions), connection_id),
                  error |-> "QUIC_NO_ERROR"]
    /\ UNCHANGED <<now, server>>

\* The versions of the list that the client speaks, the preferred one first.
Mutual(list) == SelectSeq(client.versions, LAMBDA v : v \in ToSet(list))

\* The first version negotiation packet: the client goes on with the
\* version it likes best in the list and remembers the list.
ReceiveVersionNegotiation(list) ==
    /\ client.state = "initial" /\ server.state = "idle"
    /\ client.negotiated = <<>> /\ Mutual(list) # <<>>
    /\ client' = [client EXCEPT
                     !.version = Head(Mutual(list)), !.negotiated = list,
                     !.initial = CreateInitialObfuscators(
                                     "IS_CLIENT", Head(Mutual(list)),
                                     client.connection_id)]
    /\ UNCHANGED <<now, server>>

\* A list without a version of the client ends the connection.
ReceiveVersionNegotiationNoMatch(list) ==
    /\ client.state = "initial" /\ server.state = "idle"
    /\ client.negotiated = <<>> /\ Mutual(list) = <<>>
    /\ client' = [client EXCEPT !.state = "failed",
                                !.error = "QUIC_INVALID_VERSION"]
    /\ UNCHANGED <<now, server>>

\* The retry packets that reach a client: the server's for the connection
\* of original_connection_id, whole or cut short.
RetryTag(original_connection_id, new_connection_id, whole) ==
    IF whole THEN RetryIntegrityTag(client.version, original_connection_id,
                                    new_connection_id)
    ELSE [length |-> 0, value |-> <<>>]

\* A retry packet whose tag is valid moves the client to a new connection
\* id; any other is dropped.
ReceiveRetry(original_connection_id, new_connection_id, whole) ==
    /\ client.state = "initial" /\ server.state = "idle" /\ ~client.retried
    /\ ValidateRetryIntegrityTag(
           client.version, client.connection_id, new_connection_id,
           RetryTag(original_connection_id, new_connection_id, whole))
    /\ client' = [client EXCEPT
                     !.connection_id = new_connection_id, !.retried = TRUE,
                     !.initial = CreateInitialObfuscators(
                                     "IS_CLIENT", client.version,
                                     new_connection_id)]
    /\ UNCHANGED <<now, server>>

\* A hello as its sender builds it, with a wrong tag, or without kVER.
HelloVariants == {"sent", "wrong tag", "no kVER"}
Variant(hello, variant) ==
    CASE variant = "sent" -> hello
      [] variant = "wrong tag" -> [hello EXCEPT !.tag = "REJ"]
      [] variant = "no kVER" -> [hello EXCEPT !.VER = Null]

ClientHello ==
    [tag |-> "CHLO", VER |-> CreateQuicVersionLabel(Head(client.versions)),
     nonce |-> client.nonce]

ServerHello ==
    [tag |-> "SHLO", VER |-> Labels(ServerVersions), nonce |-> server.nonce]

hkdf_input(client_hello) ==
    <<client.connection_id, HashHandshakeMessage(client_hello)>>

\* The server speaks the version of the packet; it validates the client
\* hello and derives its keys.
ServerReceiveClientHello(variant, pre_shared_key, mode, orbit, random) ==
    LET client_hello == Variant(ClientHello, variant)
        error == ValidateClientHello(client_hello, client.version,
                                     ServerVersions)
        nonce == GenerateNonce(now, random, orbit)
        keys == DeriveKeys(client.version, premaster_secret, "AESG",
                           client_hello.nonce, nonce, pre_shared_key,
                           hkdf_input(client_hello), "IS_SERVER",
                           [mode |-> mode, nonce |-> <<"diversification">>],
                           TRUE)
    IN  /\ client.state = "initial" /\ server.state = "idle"
        /\ client.version \in ToSet(ServerVersions)
        /\ server' =
              IF error # "QUIC_NO_ERROR"
              THEN [state |-> "failed", error |-> error]
              ELSE [state |-> IF keys.ok THEN "accepted" ELSE "failed",
                    error |-> "QUIC_NO_ERROR", mode |-> mode,
                    pre_shared_key |-> pre_shared_key, time |-> now,
                    nonce |-> nonce, keys |-> keys,
                    initial |-> CreateInitialObfuscators(
                                    "IS_SERVER", client.version,
                                    client.connection_id)]
        /\ UNCHANGED <<now, client>>

\* The client validates the server hello against the list it remembers and
\* derives its keys.
ClientReceiveServerHello(variant, mode) ==
    LET server_hello == Variant(ServerHello, variant)
        error == ValidateServerHello(server_hello, client.negotiated)
        keys == DeriveKeys(client.version, premaster_secret, "AESG",
                           client.nonce, server_hello.nonce,
                           client.pre_shared_key, hkdf_input(ClientHello),
                           "IS_CLIENT", [mode |-> mode, nonce |-> Null], TRUE)
    IN  /\ client.state = "initial" /\ server.state = "accepted"
        /\ client' =
              IF error # "QUIC_NO_ERROR"
              THEN [client EXCEPT !.state = "failed", !.error = error]
              ELSE [state |-> IF keys.ok THEN "established" ELSE "failed",
                    mode |-> mode, keys |-> keys] @@ client
        /\ UNCHANGED <<now, server>>

Next ==
    \/ \E t \in Times : Tick(t)
    \/ \E versions \in ClientVersionLists, c \in ConnectionIds,
          k \in PreSharedKeys, o \in Orbits, r \in RandomBytes :
          ClientConnect(versions, c, k, o, r)
    \/ \E list \in VersionLists : ReceiveVersionNegotiation(list)
    \/ \E list \in VersionLists : ReceiveVersionNegotiationNoMatch(list)
    \/ \E c, d \in ConnectionIds, whole \in BOOLEAN : ReceiveRetry(c, d, whole)
    \/ \E variant \in HelloVariants, k \in PreSharedKeys,
          m \in Diversifications, o \in Orbits, r \in RandomBytes :
          ServerReceiveClientHello(variant, k, m, o, r)
    \/ \E variant \in HelloVariants, m \in Diversifications :
          ClientReceiveServerHello(variant, m)

Spec == Init /\ [][Next]_vars

-----------------------------------------------------------------------------
States == {"idle", "initial", "accepted", "established", "failed"}
TimePrefix(nonce) == SubSeq(nonce, 1, 4)
Epoch(t) == t \div (kMaxUint32 + 1)
LexLeq(a, b) ==
    \/ a = b
    \/ \E i \in DOMAIN a : a[i] < b[i] /\ \A j \in 1..(i - 1) : a[j] = b[j]

\* What an endpoint can decrypt: the keys of the two crypters are the same;
\* a null decrypter reads the null encrypter of the other perspective; a
\* preliminary key is diversified with the nonce of the server first.
Reads(decrypter, encrypter) ==
    LET d == DiversifyPreliminaryKey(decrypter.key, decrypter.iv,
                                     <<"diversification">>)
    IN  /\ decrypter.alg = encrypter.alg /\ decrypter.hp = encrypter.hp
        /\ CASE decrypter.alg = "Null" -> decrypter.key # encrypter.key
             [] decrypter.preliminary ->
                  encrypter.key = d.key /\ encrypter.iv = d.nonce_prefix
             [] OTHER ->
                  decrypter.key = encrypter.key /\ decrypter.iv = encrypter.iv
Connected(a, b) ==
    Reads(a.decrypter, b.encrypter) /\ Reads(b.decrypter, a.encrypter)
Exported(keys) == ExportKeyingMaterial(keys.subkey_secret, <<1>>, <<2>>, 32)
Established == client.state = "established"

\* A forged version negotiation packet cannot move an established
\* connection to a weaker version: ValidateClientHelloVersion() on the
\* server and ValidateServerHelloVersions() on the client between them let a
\* handshake end only on the version the client likes best among those the
\* server supports.
NoDowngrade ==
    Established =>
        client.version =
            Head(SelectSeq(client.versions,
                           LAMBDA v : v \in ToSet(ServerVersions)))

\* What one end encrypts the other decrypts: the initial obfuscators that
\* CreateInitialObfuscators() gives the two perspectives for the version
\* and connection id in use, after a version negotiation and a retry too,
\* and the crypters and the exported keying material of DeriveKeys() when
\* both ends hold the same pre-shared key and the server diversifies
\* exactly when the client expects it.
KeysMirror ==
    /\ server.state = "accepted" => Connected(client.initial, server.initial)
    /\ /\ Established /\ client.pre_shared_key = server.pre_shared_key
       /\ <<client.mode, server.mode>> \in {<<"NEVER", "NEVER">>,
                                             <<"PENDING", "NOW">>}
       => /\ Connected(client.keys, server.keys)
          /\ Exported(client.keys) = Exported(server.keys)

\* An end without the pre-shared key of the other derives other keys in
\* both directions, whatever the lengths of key and secret: DeriveKeys()
\* mixes the key and its length into the premaster secret.
PskSeparatesKeys ==
    Established /\ client.pre_shared_key # server.pre_shared_key =>
        /\ ~Reads(client.keys.decrypter, server.keys.encrypter)
        /\ ~Reads(server.keys.decrypter, client.keys.encrypter)
        /\ Exported(client.keys) # Exported(server.keys)

\* "The strike-register depends on the nonces being ordered by time": the
\* first four bytes of the nonces GenerateNonce() makes compare as the
\* times they were made at, as long as both fall between two wraps of the
\* 32-bit gmt_unix_time.
NonceOrderedByTime ==
    server.state = "accepted" /\ Epoch(client.time) = Epoch(server.time) =>
        /\ LexLeq(TimePrefix(client.nonce), TimePrefix(server.nonce))
        /\ client.time < server.time =>
              TimePrefix(client.nonce) # TimePrefix(server.nonce)
=============================================================================

----------------------------- MODULE CryptoUtils -----------------------------
(***************************************************************************)
(* The functions of crypto_utils.cc as operators.  HKDF, AEAD and SHA-256  *)
(* are symbolic: an output is the tuple of its inputs, so two outputs are  *)
(* equal exactly when their inputs are.  Byte strings are sequences; a     *)
(* function that returns false or fills nothing returns Null.              *)
(***************************************************************************)
EXTENDS Integers, FiniteSets, SequencesExt

CONSTANTS
    UsesTls,                \* the versions whose handshake is TLS
    UsesInitialObfuscators, \* the versions that obfuscate initial packets
    ByteBits,               \* bits of a byte: gmt_unix_time has 4 bytes
    Null

kNonceSize == 32
kKeySize == 16
kIVSize == 12
kNoncePrefixSize == 4
kHashSize == 32
kMaxHkdfOutput == 255 * kHashSize
kMaxUint32 == 2^(4 * ByteBits) - 1
kRetryIntegrityTagLength == 16

\* quic_versions.cc: a label names one version.
CreateQuicVersionLabel(version) == <<"label", version>>
Labels(versions) ==
    [i \in DOMAIN versions |-> CreateQuicVersionLabel(versions[i])]

\* The vector is empty when HKDF_expand() refuses the length.
HkdfExpandLabel(secret, label, out_len) ==
    IF out_len > kMaxHkdfOutput THEN <<>>
    ELSE <<"HKDF-Expand-Label", secret, <<"tls13 ", label>>, out_len>>

GenerateHeaderProtectionKey(pp_secret, out_len) ==
    HkdfExpandLabel(pp_secret, "quic hp", out_len)

\* The next secret is as long as the current one, which is the length an
\* expansion was asked for, or nothing.
GenerateNextKeyPhaseSecret(current_secret) ==
    HkdfExpandLabel(current_secret, "quic ku",
                    IF current_secret = <<>> THEN 0 ELSE current_secret[4])

\* crypter->GetKeySize(), crypter->GetIVSize()
GetKeySize(crypter) == IF crypter.alg = "CC20" THEN 2 * kKeySize ELSE kKeySize
GetIVSize(crypter) == kIVSize

SetKeyAndIV(pp_secret, crypter) ==
    [crypter EXCEPT
        !.key = HkdfExpandLabel(pp_secret, "quic key", GetKeySize(crypter)),
        !.iv = HkdfExpandLabel(pp_secret, "quic iv", GetIVSize(crypter))]

InitializeCrypterSecrets(pp_secret, crypter) ==
    [SetKeyAndIV(pp_secret, crypter)
        EXCEPT !.hp = GenerateHeaderProtectionKey(pp_secret,
                                                  GetKeySize(crypter))]

\* A version without a salt of its own gets the reserved one (QUIC_BUG).
InitialSaltForVersion(version) ==
    CASE version = "Draft29" -> "kDraft29InitialSalt"
      [] version = "T051" -> "kT051Salt"
      [] version = "Q050" -> "kQ050Salt"
      [] OTHER -> "kReservedForNegotiationSalt"

\* Null stands for the return value false.
RetryIntegrityKeysForVersion(version) ==
    IF version \notin UsesTls
          \/ version \notin {"Draft29", "T051", "ReservedForNegotiation"}
    THEN Null
    ELSE [key |-> <<"RetryIntegrityKey", version>>,
          nonce |-> <<"RetryIntegrityNonce", version>>]

Crypter(alg) == [alg |-> alg, key |-> <<>>, iv |-> <<>>, hp |-> <<>>,
                 preliminary |-> FALSE]
NullCrypter(perspective) == [Crypter("Null") EXCEPT !.key = <<perspective>>]

\* Fault: the labels are not exchanged for the server.
CreateInitialObfuscatorsAsClient(perspective, version, connection_id) ==
    LET handshake_secret == <<"HKDF-Extract", connection_id,
                              InitialSaltForVersion(version)>>
        Secret(label) == HkdfExpandLabel(handshake_secret, label, kHashSize)
    IN  [encrypter |-> InitializeCrypterSecrets(Secret("client in"),
                                                Crypter("Aes128Gcm")),
         decrypter |-> InitializeCrypterSecrets(Secret("server in"),
                                                Crypter("Aes128Gcm"))]

CreateInitialObfuscators(perspective, version, connection_id) ==
    IF version \notin UsesInitialObfuscators
    THEN [encrypter |-> NullCrypter(perspective),
          decrypter |-> NullCrypter(perspective)]
    ELSE LET handshake_secret == <<"HKDF-Extract", connection_id,
                                   InitialSaltForVersion(version)>>
             labels == IF perspective = "IS_CLIENT"
                       THEN <<"client in", "server in">>
                       ELSE <<"server in", "client in">>
             Secret(i) == HkdfExpandLabel(handshake_secret, labels[i], kHashSize)
         IN  [encrypter |-> InitializeCrypterSecrets(Secret(1), Crypter("Aes128Gcm")),
              decrypter |-> InitializeCrypterSecrets(Secret(2), Crypter("Aes128Gcm"))]

\* The tag an honest server computes, and the check of the client: false for
\* a tag of the wrong length, a version without keys, or another tag.
RetryIntegrityTag(version, original_connection_id, retry_without_tag) ==
    [length |-> kRetryIntegrityTagLength,
     value |-> <<"Aes128Gcm", RetryIntegrityKeysForVersion(version),
                 original_connection_id, retry_without_tag>>]

ValidateRetryIntegrityTag(version, original_connection_id, retry_without_tag, integrity_tag) ==
    /\ integrity_tag.length = kRetryIntegrityTagLength
    /\ RetryIntegrityKeysForVersion(version) # Null
    /\ integrity_tag = RetryIntegrityTag(version, original_connection_id,
                                         retry_without_tag)

Byte(x) == x % 2^ByteBits

\* Fault: the time is written with its low byte first.
TimeBytesLittleEndian(gmt_unix_time) ==
    [i \in 1..4 |-> Byte(gmt_unix_time \div 2^((i - 1) * ByteBits))]

\* static_cast<uint32_t>(now.ToUNIXSeconds()), big-endian.
TimeBytes(gmt_unix_time) ==
    [i \in 1..4 |-> Byte(gmt_unix_time \div 2^((4 - i) * ByteBits))]

\* 4 bytes of time, the orbit if it has 8 bytes, random bytes to the end.
GenerateNonce(wall_time, random, orbit) ==
    LET head == TimeBytes(wall_time % (kMaxUint32 + 1))
                \o (IF Len(orbit) = 8 THEN orbit ELSE <<>>)
    IN  head \o [i \in 1..(kNonceSize - Len(head)) |-> random]

QuicHKDF(secret, salt, info, key_bytes, nonce_prefix_bytes, subkey_bytes) ==
    [secret |-> secret, salt |-> salt, info |-> info, key_bytes |-> key_bytes,
     nonce_prefix_bytes |-> nonce_prefix_bytes, subkey_bytes |-> subkey_bytes]
Out(hkdf, name) == <<name, hkdf>>
DiversifyPreliminaryKey(key, nonce_prefix, nonce) ==
    [key |-> <<"diversified key", key, nonce_prefix, nonce>>,
     nonce_prefix |-> <<"diversified prefix", key, nonce_prefix, nonce>>]

\* Fault: the pre-shared key is left out of the secret.
PskPremasterSecretPlain(pre_shared_key, premaster_secret) == premaster_secret

\* "QUIC PSK", 0, the key and its length, the secret and its length.
PskPremasterSecret(pre_shared_key, premaster_secret) ==
    IF pre_shared_key = <<>> THEN premaster_secret
    ELSE <<"QUIC PSK", 0>> \o pre_shared_key \o <<Len(pre_shared_key)>>
         \o premaster_secret \o <<Len(premaster_secret)>>

\* The key, nonce prefix (or IV) and header protection key of one direction.
Keyed(crypter, hkdf, side, preliminary) ==
    [crypter EXCEPT !.key = Out(hkdf, side \o "_write_key"),
                    !.iv = Out(hkdf, side \o "_write_iv"),
                    !.hp = Out(hkdf, side \o "_hp_key"),
                    !.preliminary = preliminary]

\* ok is the return value; the crypters have their keys when it is true.
DeriveKeys(version, premaster_secret, aead, client_nonce, server_nonce, pre_shared_key, hkdf_input, perspective, diversification, want_subkey) ==
    LET secret == PskPremasterSecret(pre_shared_key, premaster_secret)
        nonce == IF server_nonce # <<>> THEN client_nonce \o server_nonce
                 ELSE client_nonce
        hkdf == QuicHKDF(secret, nonce, hkdf_input,
                         GetKeySize(Crypter(aead)),
                         IF version \in UsesInitialObfuscators
                         THEN GetIVSize(Crypter(aead)) ELSE kNoncePrefixSize,
                         IF want_subkey THEN Len(secret) ELSE 0)
        own == IF perspective = "IS_SERVER" THEN "server" ELSE "client"
        peer == IF perspective = "IS_SERVER" THEN "client" ELSE "server"
        diversified == DiversifyPreliminaryKey(Out(hkdf, "server_write_key"),
                                               Out(hkdf, "server_write_iv"),
                                               diversification.nonce)
        wrong_side == \/ /\ diversification.mode = "PENDING"
                         /\ perspective = "IS_SERVER"
                      \/ /\ diversification.mode = "NOW"
                         /\ perspective = "IS_CLIENT"
    IN  IF wrong_side
        THEN [ok |-> FALSE, encrypter |-> Crypter(aead),
              decrypter |-> Crypter(aead), subkey_secret |-> Null]
        ELSE [ok |-> TRUE,
              encrypter |->
                 IF diversification.mode = "NOW"
                 THEN [Keyed(Crypter(aead), hkdf, own, FALSE)
                          EXCEPT !.key = diversified.key,
                                 !.iv = diversified.nonce_prefix]
                 ELSE Keyed(Crypter(aead), hkdf, own, FALSE),
              decrypter |-> Keyed(Crypter(aead), hkdf, peer,
                                  diversification.mode = "PENDING"),
              subkey_secret |-> IF want_subkey THEN Out(hkdf, "subkey_secret")
                                ELSE Null]

\* Null stands for the return value false.
ExportKeyingMaterial(subkey_secret, label, context, result_len) ==
    IF 0 \in ToSet(label) \/ Len(context) >= kMaxUint32 THEN Null
    ELSE Out(QuicHKDF(subkey_secret, <<>>,
                      label \o <<0, Len(context)>> \o context,
                      result_len, 0, 0), "client_write_key")

HashHandshakeMessage(message) == <<"SHA256", message>>

\* Fault: only the lengths of the two lists are compared.
ValidateServerHelloVersionsBySize(server_versions, negotiated_versions) ==
    IF negotiated_versions # <<>>
          /\ Len(server_versions) # Len(negotiated_versions)
    THEN "QUIC_VERSION_NEGOTIATION_MISMATCH" ELSE "QUIC_NO_ERROR"

ValidateServerHelloVersions(server_versions, negotiated_versions) ==
    LET mismatch ==
            \/ Len(server_versions) # Len(negotiated_versions)
            \/ \E i \in DOMAIN server_versions :
                  server_versions[i] # CreateQuicVersionLabel(negotiated_versions[i])
    IN  IF negotiated_versions # <<>> /\ mismatch
        THEN "QUIC_VERSION_NEGOTIATION_MISMATCH" ELSE "QUIC_NO_ERROR"

ValidateServerHello(server_hello, negotiated_versions) ==
    IF server_hello.tag # "SHLO" THEN "QUIC_INVALID_CRYPTO_MESSAGE_TYPE"
    ELSE IF server_hello.VER = Null THEN "QUIC_INVALID_CRYPTO_MESSAGE_PARAMETER"
    ELSE ValidateServerHelloVersions(server_hello.VER, negotiated_versions)

ValidateClientHelloVersion(client_version, connection_version, supported_versions) ==
    IF /\ client_version # CreateQuicVersionLabel(connection_version)
       /\ \E i \in DOMAIN supported_versions :
             client_version = CreateQuicVersionLabel(supported_versions[i])
    THEN "QUIC_VERSION_NEGOTIATION_MISMATCH" ELSE "QUIC_NO_ERROR"

ValidateClientHello(client_hello, version, supported_versions) ==
    IF client_hello.tag # "CHLO" THEN "QUIC_INVALID_CRYPTO_MESSAGE_TYPE"
    ELSE IF client_hello.VER = Null THEN "QUIC_INVALID_CRYPTO_MESSAGE_PARAMETER"
    ELSE ValidateClientHelloVersion(client_hello.VER, version,
                                    supported_versions)
=============================================================================

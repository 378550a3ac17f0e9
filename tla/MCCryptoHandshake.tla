-------------------------- MODULE MCCryptoHandshake --------------------------
(***************************************************************************)
(* CryptoHandshake for model checking: the versions of quic_versions.h,    *)
(* the lists a version negotiation packet carries, and the byte strings.   *)
(***************************************************************************)
EXTENDS CryptoHandshake

\* ParsedQuicVersion::UsesTls() and UsesInitialObfuscators().
TlsVersions == {"Draft29", "T051", "ReservedForNegotiation"}
ObfuscatedVersions == TlsVersions \cup {"Q050"}

\* A client that prefers a version the server has not, and one that does not.
ClientLists == {<<"T051", "Q050", "Q046">>, <<"Draft29", "Q046">>,
                <<"Q050", "Q046">>}
ServerList == <<"Draft29", "Q050", "Q046">>

\* The list of the server, and lists forged on the path: reordered, cut,
\* of the same length with another version, and of no use to the client.
NegotiationLists == {ServerList, <<"Q050", "Draft29", "Q046">>, <<"Q046">>,
                     <<"Q043", "Q046", "Draft29">>, <<"Q043">>}

Keys == {<<>>, <<"p">>, <<"p", "premaster">>}
OrbitStrings == {<<>>, [i \in 1..8 |-> "orbit"]}

\* Around the carries between the four bytes and around the wrap.
Instants == {15, 16, 4096, 65535, 65536}
=============================================================================

------------------------------ MODULE Accounts ------------------------------
(***************************************************************************)
(* Accounts of keetanetwork-account and the constructors that              *)
(* keetanetwork-bindings offers the hosts: an account is made from key     *)
(* material, printed as a keeta_ address or as typed hex, parsed again,    *)
(* reduced to its public half or rebuilt from its private key, signs, and  *)
(* derives identifiers.                                                    *)
(*                                                                         *)
(* Key bytes are a length and a content.  The content stands for the       *)
(* curve point or the identifier, and modulo 4 for the two leading bits    *)
(* that the second character of an address shares with the type byte.      *)
(* Left out: the arithmetic of the curves and of base32, hexadecimal, the  *)
(* generation of seeds and passphrases, and encryption, which needs the    *)
(* same keys as signing.                                                   *)
(***************************************************************************)
EXTENDS Naturals

CONSTANTS
  Contents,  \* contents of key bytes given from outside
  Points     \* those that are points of the curves

VARIABLES
  account,   \* the account at hand
  origin,    \* the account it was first made as
  signed,    \* the signers of the signatures made since
  failed     \* whether a conversion since then returned an error

vars == <<account, origin, signed, failed>>

-----------------------------------------------------------------------------
\* KeyPairType, by its byte.
NETWORK == 2
TOKEN == 3
STORAGE == 4
MULTISIG == 7
CryptoTypes == {0, 1, 6}     \* ECDSASECP256K1, ED25519, ECDSASECP256R1
IdentifierTypes == {NETWORK, TOKEN, STORAGE, MULTISIG}
KeyPairTypes == CryptoTypes \cup IdentifierTypes
TypeBytes == 0..7

Bytes(len, content) == [len |-> len, content |-> content]
Material == {Bytes(len, c) : len \in {31, 32, 33, 65}, c \in Contents}

\* hash_array: 32 bytes, different for different input.
Hash(m) == Bytes(32, 1000 * m.len + m.content + 1)

None == [type |-> 8]   \* no account yet
NewAccount(type, key, private) == [type |-> type, key |-> key, private |-> private]

\* A public key object keeps the compressed form, whichever form it is given.
KeyLength(type) == IF type = 1 THEN {32} ELSE {33, 65}
Compressed(type) == IF type = 1 THEN 32 ELSE 33
PublicKey(type, m) ==
  IF m.len \in KeyLength(type) /\ m.content \in Points
    THEN {Bytes(Compressed(type), m.content)} ELSE {}

\* IdentifierKey::try_from.
IdentifierKey(m) == IF m.len = 32 THEN {m} ELSE {}

-----------------------------------------------------------------------------
(* Addresses.                                                              *)

\* The first ten bits of an address: the type byte and two bits of the key.
Letter(text) == (4 * text.type) + (text.key.content % 4)

\* The letters after keeta_a that each identifier type accepts: i to l, m to p,
\* q to t, 4 to 7.
PrefixesMissing(type) ==
  CASE type = NETWORK -> {8, 9, 10, 11} [] type = TOKEN -> {12, 13, 14}
    [] type = STORAGE -> {16, 17, 18, 19} [] type = MULTISIG -> {28, 29, 30, 31}
Prefixes(type) ==
  CASE type = NETWORK -> {8, 9, 10, 11} [] type = TOKEN -> {13, 12, 14, 15}
    [] type = STORAGE -> {16, 17, 18, 19} [] type = MULTISIG -> {28, 29, 30, 31}

\* format_public_key_string: an identifier that is not 32 bytes long is hashed.
FormatPublicKeyString(m, type) ==
  [type |-> type, sum |-> TRUE,
   key |-> IF type \in IdentifierTypes /\ m.len # 32 THEN Hash(m) ELSE m]

\* decode_public_key_string, parse_public_key: the checksum, and a known type.
Decodes(text) == text.sum
Parses(text) == Decodes(text) /\ text.type \in KeyPairTypes

\* TryFrom<Keyable>: what an account of a type is made from.
OfSeed(type, c) ==
  IF type \in CryptoTypes
    THEN {NewAccount(type, Bytes(Compressed(type), c), TRUE)}
    ELSE {NewAccount(type, Hash(Bytes(36, c)), FALSE)}
OfPassphrase(type, c) == IF type \in CryptoTypes THEN OfSeed(type, c) ELSE {}
OfIdentifier(type, c) ==
  IF type \in CryptoTypes THEN {} ELSE {NewAccount(type, Hash(Bytes(0, c)), FALSE)}
OfPrivateKey(type, m) ==
  IF type \in CryptoTypes /\ m.len = 32 /\ m.content \in Points
    THEN {NewAccount(type, Bytes(Compressed(type), m.content), TRUE)} ELSE {}
OfPublicKey(type, m) ==
  IF type \in CryptoTypes
    THEN {NewAccount(type, k, FALSE) : k \in PublicKey(type, m)} ELSE {}
OfPublicKeyString(type, text) ==
  IF type \in CryptoTypes
    THEN IF Parses(text) /\ text.type = type
           THEN {NewAccount(type, k, FALSE) : k \in PublicKey(type, text.key)} ELSE {}
    ELSE IF Letter(text) \in Prefixes(type) /\ Parses(text)
           THEN {NewAccount(type, k, FALSE) : k \in IdentifierKey(text.key)} ELSE {}

\* FromHex and FromStr of GenericAccount; the typed ones also want their type.
FromHex(type, m) ==
  IF type \in CryptoTypes THEN OfPublicKey(type, m)
  ELSE IF type \in IdentifierTypes
    THEN OfPublicKeyString(type, FormatPublicKeyString(m, type)) ELSE {}
FromStr(text) == IF Decodes(text) THEN FromHex(text.type, text.key) ELSE {}

ToPublicKeyString(a) == FormatPublicKeyString(a.key, a.type)
\* encode_hex takes the key from the printed address.
ToHex(a) == ToPublicKeyString(a).key
CompareAccount(a, b) == ToPublicKeyString(a) = ToPublicKeyString(b)

-----------------------------------------------------------------------------
\* An account is made from outside material.
Made(as) ==
  /\ account = None
  /\ \E a \in as : account' = a /\ origin' = a
  /\ UNCHANGED <<signed, failed>>

FromKeyable(type) ==
  \/ \E c \in Points : Made(OfSeed(type, c) \cup OfPassphrase(type, c))
  \/ \E c \in Contents : Made(OfIdentifier(type, c))
  \/ \E m \in Material : Made(OfPrivateKey(type, m) \cup OfPublicKey(type, m))

Parse(type) ==
  \E m \in Material, sum \in BOOLEAN :
    \/ Made(FromHex(type, m))
    \/ Made(FromStr([type |-> type, key |-> m, sum |-> sum]))
    \/ type \in KeyPairTypes /\ Made(OfPublicKeyString(type, [type |-> type, key |-> m, sum |-> sum]))

\* A conversion of the account to another account.
Converted(as) ==
  /\ account # None
  /\ failed' = (failed \/ as = {})
  /\ IF as = {} THEN UNCHANGED account ELSE \E a \in as : account' = a
  /\ UNCHANGED <<origin, signed>>

ToPublicAccount ==
  account # None /\ Converted(OfPublicKeyString(account.type, ToPublicKeyString(account)))
ThroughString == account # None /\ Converted(FromStr(ToPublicKeyString(account)))
ThroughHex == account # None /\ Converted(FromHex(account.type, ToHex(account)))
ThroughKeyAndType == account # None /\ Converted(FromHex(account.type, account.key))
ThroughPrivateKey ==
  /\ account # None /\ account.private
  /\ Converted(OfPrivateKey(account.type, Bytes(32, account.key.content)))
ThroughPublicKey ==
  /\ account # None /\ account.type \in CryptoTypes
  /\ Converted(OfPublicKey(account.type, account.key))

\* generate_identifier: the derived account is another account; an identifier
\* derives only the token of a network.
GenerateIdentifier(type) ==
  /\ account # None /\ account.key.content \in Contents
  /\ account.type \in IdentifierTypes => account.type = NETWORK /\ type = TOKEN
  /\ \E a \in OfSeed(type, Hash(account.key).content) : account' = a /\ origin' = a
  /\ signed' = {} /\ failed' = FALSE

\* sign and verify: an account without a private key does not sign, and an
\* identifier does neither.
Sign ==
  /\ account # None /\ account.private
  /\ signed' = signed \cup {[type |-> account.type, key |-> account.key]}
  /\ UNCHANGED <<account, origin, failed>>
Verifies(a, signer) == a.type \in CryptoTypes /\ signer = [type |-> a.type, key |-> a.key]

Init == account = None /\ origin = None /\ signed = {} /\ failed = FALSE
Next ==
  \/ \E type \in KeyPairTypes : FromKeyable(type)
  \/ \E type \in TypeBytes : Parse(type)
  \/ ToPublicAccount \/ ThroughString \/ ThroughHex \/ ThroughKeyAndType
  \/ ThroughPrivateKey \/ ThroughPublicKey \/ Sign
  \/ \E type \in IdentifierTypes : GenerateIdentifier(type)
Spec == Init /\ [][Next]_vars

-----------------------------------------------------------------------------
\* Whatever it was made from, an account keeps its identity: no sequence of
\* printing, parsing and rebuilding (to_public_account, FromStr, FromHex,
\* encode_hex, take_private_key) fails, changes its type or key, gains a
\* private key or leaves a signature it made unverifiable.
IdentityKept ==
  account # None =>
    /\ ~failed
    /\ account.type = origin.type /\ account.key = origin.key
    /\ CompareAccount(account, origin)
    /\ account.private => origin.private
    /\ \A signer \in signed : Verifies(account, signer)
=============================================================================

---------------------------- MODULE WireMessages ----------------------------
(***************************************************************************)
(* The bytes that are signed or authenticated on the network: the request  *)
(* and the response of auth.rs, and the associated data of the encrypted   *)
(* credential in pairing.rs.  HMAC, SHA-256 and the AEAD are external; a   *)
(* fixed-width integer or a digest stands for its bytes.                   *)
(***************************************************************************)
EXTENDS Integers, Sequences

Byte == 0..255

Bytes(n) == {b \in Seq(Byte) : Len(b) = n}

NONCE_LENGTH == 16

\* "deckymyrig-auth-v1\0"
AUTH_DOMAIN ==
    <<100, 101, 99, 107, 121, 109, 121, 114, 105, 103, 45, 97, 117, 116, 104,
      45, 118, 49, 0>>

\* "deckymyrig-response-v1\0"
RESPONSE_DOMAIN ==
    <<100, 101, 99, 107, 121, 109, 121, 114, 105, 103, 45, 114, 101, 115, 112,
      111, 110, 115, 101, 45, 118, 49, 0>>

\* What the fields of a message hold.
RequestFields ==
    [timestamp : Bytes(8), nonce : Seq(Byte), method : Seq(Byte),
     path : Seq(Byte), digest : Bytes(32)]

ResponseFields ==
    [nonce : Seq(Byte), path : Seq(Byte), status : Bytes(2), digest : Bytes(32)]

CredentialContext ==
    [host_message : Seq(Byte), session_id : Seq(Byte), hostname : Seq(Byte),
     host_version : Seq(Byte), host_id : Seq(Byte), protocol_version : Bytes(4)]
-----------------------------------------------------------------------------
is_ascii(text) == \A i \in 1..Len(text) : text[i] < 128

to_ascii_uppercase(text) ==
    [i \in 1..Len(text) |-> IF text[i] \in 97..122 THEN text[i] - 32 ELSE text[i]]

\* A field has a length of 16 bits, or there is no message.
FieldLimit == 65536

Fits(field) == Len(field) < FieldLimit

\* The bytes of a length, the high one first.
High(n) == n \div 256

Low(n) == n % 256

Field(field) == <<High(Len(field)), Low(Len(field))>> \o field

\* Not Malformed.
RequestFits(r) ==
    /\ Len(r.nonce) = NONCE_LENGTH
    /\ is_ascii(r.method) /\ is_ascii(r.path)
    /\ Fits(r.method) /\ Fits(r.path)

canonical_message(r) ==
    AUTH_DOMAIN \o (r.timestamp \o (Field(r.nonce)
        \o (Field(to_ascii_uppercase(r.method))
        \o (Field(r.path) \o r.digest))))

ResponseFits(r) ==
    /\ Len(r.nonce) = NONCE_LENGTH
    /\ is_ascii(r.path)
    /\ Fits(r.path)

response_message(r) ==
    RESPONSE_DOMAIN \o (Field(r.nonce) \o (Field(r.path)
        \o (r.status \o r.digest)))

ContextFits(c) ==
    /\ Fits(c.host_message) /\ Fits(c.session_id) /\ Fits(c.hostname)
    /\ Fits(c.host_version) /\ Fits(c.host_id)

\* What follows the constant CREDENTIAL_AAD_DOMAIN.
credential_aad(c) ==
    Field(c.host_message) \o (Field(c.session_id) \o (Field(c.hostname)
        \o (Field(c.host_version) \o (Field(c.host_id)
        \o c.protocol_version))))
=============================================================================

------------------------- MODULE RequestAuthProofs -------------------------
(***************************************************************************)
(* Signed requests: what a signature covers, how the two ends compare the  *)
(* versions that signed messages carry, and what authentication guarantees *)
(* about accepted shutdowns, for any number of requests, handlers and      *)
(* credentials and any window.                                             *)
(***************************************************************************)
EXTENDS RequestAuth, WireMessages, Versioning, SequenceTheorems, TLAPS

-----------------------------------------------------------------------------
(* Lemmas about sequences of bytes *)

\* Two concatenations with first parts of the same length are equal only part
\* by part.
LEMMA SplitEqual ==
    ASSUME NEW a \in Seq(Byte), NEW b \in Seq(Byte), NEW x \in Seq(Byte),
           NEW y \in Seq(Byte), Len(a) = Len(b), a \o x = b \o y
    PROVE  a = b /\ x = y
<1>1. /\ Len(a) \in Nat /\ Len(x) \in Nat /\ Len(y) \in Nat
      /\ Len(a \o x) = Len(a) + Len(x) /\ Len(b \o y) = Len(b) + Len(y)
  BY ConcatProperties, LenProperties
<1>2. Len(x) = Len(y)
  BY <1>1
<1>3. ASSUME NEW i \in 1..(Len(a) + Len(x))
      PROVE  /\ (a \o x)[i] = IF i <= Len(a) THEN a[i] ELSE x[i - Len(a)]
             /\ (b \o y)[i] = IF i <= Len(a) THEN b[i] ELSE y[i - Len(a)]
  BY <1>2, ConcatProperties
<1>4. ASSUME NEW i \in 1..Len(a)
      PROVE  a[i] = b[i]
  <2>1. i \in 1..(Len(a) + Len(x)) /\ i <= Len(a)
    BY <1>1
  <2> QED
    BY <1>3, <2>1
<1>5. ASSUME NEW i \in 1..Len(x)
      PROVE  x[i] = y[i]
  <2>1. /\ Len(a) + i \in 1..(Len(a) + Len(x)) /\ ~(Len(a) + i <= Len(a))
        /\ (Len(a) + i) - Len(a) = i
    BY <1>1
  <2> QED
    BY <1>3, <2>1
<1>6. a = b
  BY <1>4, SeqEqual
<1>7. x = y
  BY <1>2, <1>5, SeqEqual
<1> QED
  BY <1>6, <1>7

\* A concatenation begins with its first part.
LEMMA FirstPart ==
    ASSUME NEW a \in Seq(Byte), NEW x \in Seq(Byte), NEW i \in 1..Len(a)
    PROVE  (a \o x)[i] = a[i]
<1>1. Len(a) \in Nat /\ Len(x) \in Nat
  BY LenProperties
<1>2. i \in 1..(Len(a) + Len(x)) /\ i <= Len(a)
  BY <1>1
<1>3. (a \o x)[i] = IF i <= Len(a) THEN a[i] ELSE x[i - Len(a)]
  BY <1>2, ConcatProperties, SMT
<1> QED
  BY <1>2, <1>3

\* Two concatenations differ when their first parts do at one place.
LEMMA FirstPartsDiffer ==
    ASSUME NEW a \in Seq(Byte), NEW b \in Seq(Byte), NEW x \in Seq(Byte),
           NEW y \in Seq(Byte), NEW i \in 1..Len(a), i \in 1..Len(b),
           a[i] # b[i]
    PROVE  a \o x # b \o y
<1>1. (a \o x)[i] = a[i] /\ (b \o y)[i] = b[i]
  BY FirstPart, Zenon
<1> QED
  BY <1>1, Zenon

\* A length below 2^16 is given by its two bytes.
LEMMA TwoBytes ==
    ASSUME NEW m \in Nat, NEW n \in Nat, m < FieldLimit, n < FieldLimit
    PROVE  /\ High(m) \in Byte /\ Low(m) \in Byte
           /\ High(m) = High(n) /\ Low(m) = Low(n) => m = n
<1>1. High(m) \in Byte
  BY SMT DEF High, Byte, FieldLimit
<1>2. Low(m) \in Byte
  BY SMT DEF Low, Byte
<1>3. m = 256 * High(m) + Low(m) /\ n = 256 * High(n) + Low(n)
  BY SMT DEF High, Low
<1> QED
  BY <1>1, <1>2, <1>3, Zenon

\* The two bytes that append_field puts before a field.
LengthBytes(field) == <<High(Len(field)), Low(Len(field))>>

LEMMA LengthBytesType ==
    ASSUME NEW f \in Seq(Byte), Fits(f)
    PROVE  LengthBytes(f) \in Seq(Byte) /\ Len(LengthBytes(f)) = 2
<1>1. Len(f) \in Nat /\ Len(f) < FieldLimit
  BY LenProperties DEF Fits
<1>2. High(Len(f)) \in Byte /\ Low(Len(f)) \in Byte
  BY <1>1, TwoBytes, Zenon
<1> QED
  BY <1>2 DEF LengthBytes

LEMMA LengthBytesEqual ==
    ASSUME NEW f \in Seq(Byte), NEW g \in Seq(Byte), Fits(f), Fits(g),
           LengthBytes(f) = LengthBytes(g)
    PROVE  Len(f) = Len(g)
<1>1. High(Len(f)) = High(Len(g)) /\ Low(Len(f)) = Low(Len(g))
  BY Zenon DEF LengthBytes
<1>2. /\ Len(f) \in Nat /\ Len(f) < FieldLimit
      /\ Len(g) \in Nat /\ Len(g) < FieldLimit
  BY LenProperties DEF Fits
<1> QED
  BY <1>1, <1>2, TwoBytes, Zenon

\* A field is a sequence of bytes.
LEMMA FieldType ==
    ASSUME NEW f \in Seq(Byte), Fits(f)
    PROVE  Field(f) = LengthBytes(f) \o f /\ Field(f) \in Seq(Byte)
<1>1. Field(f) = LengthBytes(f) \o f
  BY Zenon DEF Field, LengthBytes
<1> QED
  BY <1>1, LengthBytesType, ConcatProperties

LEMMA Associative ==
    ASSUME NEW a \in Seq(Byte), NEW b \in Seq(Byte), NEW c \in Seq(Byte)
    PROVE  (a \o b) \o c = a \o (b \o c)
BY ConcatAssociative, SMT

\* A field with its length ends where it says.
LEMMA FieldEqual ==
    ASSUME NEW f \in Seq(Byte), NEW g \in Seq(Byte), NEW x \in Seq(Byte),
           NEW y \in Seq(Byte), Fits(f), Fits(g), Field(f) \o x = Field(g) \o y
    PROVE  f = g /\ x = y
<1>1. ASSUME NEW h \in Seq(Byte), Fits(h), NEW z \in Seq(Byte)
      PROVE  Field(h) \o z = LengthBytes(h) \o (h \o z)
  <2>1. Field(h) = LengthBytes(h) \o h /\ LengthBytes(h) \in Seq(Byte)
    BY <1>1, FieldType, LengthBytesType, Zenon
  <2>2. (LengthBytes(h) \o h) \o z = LengthBytes(h) \o (h \o z)
    BY <2>1, Associative, ZenonT(40)
  <2> QED
    BY <2>1, <2>2, Zenon
<1>2. LengthBytes(f) \o (f \o x) = LengthBytes(g) \o (g \o y)
  BY <1>1, Zenon
<1>3. f \o x \in Seq(Byte) /\ g \o y \in Seq(Byte)
  BY ConcatProperties
<1>4. /\ LengthBytes(f) \in Seq(Byte) /\ LengthBytes(g) \in Seq(Byte)
      /\ Len(LengthBytes(f)) = Len(LengthBytes(g))
  BY LengthBytesType
<1>5. LengthBytes(f) = LengthBytes(g) /\ f \o x = g \o y
  BY <1>2, <1>3, <1>4, SplitEqual, ZenonT(40)
<1>6. Len(f) = Len(g)
  BY <1>5, LengthBytesEqual
<1> QED
  BY <1>5, <1>6, SplitEqual, Zenon

\* A field followed by bytes is bytes.
LEMMA FieldThenBytes ==
    ASSUME NEW f \in Seq(Byte), NEW x \in Seq(Byte), Fits(f)
    PROVE  Field(f) \o x \in Seq(Byte)
BY FieldType, ConcatProperties, Zenon

\* to_ascii_uppercase keeps the length of an ASCII text.
LEMMA UppercaseType ==
    ASSUME NEW m \in Seq(Byte), Fits(m)
    PROVE  to_ascii_uppercase(m) \in Seq(Byte) /\ Fits(to_ascii_uppercase(m))
<1>1. Len(m) \in Nat /\ m \in [1..Len(m) -> Byte]
  BY LenProperties
<1>2. \A i \in 1..Len(m) :
          (IF m[i] \in 97..122 THEN m[i] - 32 ELSE m[i]) \in Byte
  BY <1>1 DEF Byte
<1>3. to_ascii_uppercase(m) \in [1..Len(m) -> Byte]
  BY <1>2 DEF to_ascii_uppercase
<1>4. to_ascii_uppercase(m) \in Seq(Byte)
  BY <1>1, <1>3, SeqDef
<1>5. Len(to_ascii_uppercase(m)) = Len(m)
  BY <1>1, <1>3, <1>4, LenProperties
<1> QED
  BY <1>4, <1>5 DEF Fits
-----------------------------------------------------------------------------
(* What a signature covers *)

\* Two requests have the same canonical_message only if they have the same
\* timestamp, nonce, method up to case, path and digest of the body: a
\* signature made for one request is a signature of no other.
THEOREM SignedRequestsDiffer ==
    ASSUME NEW r \in RequestFields, NEW s \in RequestFields,
           RequestFits(r), RequestFits(s),
           canonical_message(r) = canonical_message(s)
    PROVE  /\ r.timestamp = s.timestamp /\ r.nonce = s.nonce
           /\ to_ascii_uppercase(r.method) = to_ascii_uppercase(s.method)
           /\ r.path = s.path /\ r.digest = s.digest
<1> DEFINE Body(q) == Field(q.path) \o q.digest
           Rest(q) == Field(to_ascii_uppercase(q.method)) \o Body(q)
           Tail4(q) == Field(q.nonce) \o Rest(q)
<1>1. ASSUME NEW q \in RequestFields, RequestFits(q)
      PROVE  /\ q.timestamp \in Seq(Byte) /\ Len(q.timestamp) = 8
             /\ q.nonce \in Seq(Byte) /\ Fits(q.nonce)
             /\ q.method \in Seq(Byte) /\ Fits(q.method)
             /\ q.path \in Seq(Byte) /\ Fits(q.path)
             /\ q.digest \in Seq(Byte)
  BY <1>1 DEF RequestFields, RequestFits, Bytes, Fits, NONCE_LENGTH, FieldLimit
<1>2. ASSUME NEW q \in RequestFields, RequestFits(q)
      PROVE  /\ to_ascii_uppercase(q.method) \in Seq(Byte)
             /\ Fits(to_ascii_uppercase(q.method))
             /\ Body(q) \in Seq(Byte)
  BY <1>1, <1>2, UppercaseType, FieldThenBytes, Zenon
<1> HIDE DEF Body
<1>3. ASSUME NEW q \in RequestFields, RequestFits(q)
      PROVE  Rest(q) \in Seq(Byte)
  BY <1>2, <1>3, FieldThenBytes, Zenon
<1> HIDE DEF Rest
<1>4. ASSUME NEW q \in RequestFields, RequestFits(q)
      PROVE  Tail4(q) \in Seq(Byte)
  BY <1>1, <1>3, <1>4, FieldThenBytes, Zenon
<1> HIDE DEF Tail4
<1>5. ASSUME NEW q \in RequestFields, RequestFits(q)
      PROVE  q.timestamp \o Tail4(q) \in Seq(Byte)
  BY <1>1, <1>4, <1>5, ConcatProperties, Zenon
<1>6. AUTH_DOMAIN \in Seq(Byte)
  BY DEF AUTH_DOMAIN, Byte
<1>7. ASSUME NEW q \in RequestFields
      PROVE  canonical_message(q) = AUTH_DOMAIN \o (q.timestamp \o Tail4(q))
  BY Zenon DEF canonical_message, Tail4, Rest, Body
<1>8. r.timestamp \o Tail4(r) = s.timestamp \o Tail4(s)
  <2>1. /\ AUTH_DOMAIN \o (r.timestamp \o Tail4(r))
            = AUTH_DOMAIN \o (s.timestamp \o Tail4(s))
        /\ r.timestamp \o Tail4(r) \in Seq(Byte)
        /\ s.timestamp \o Tail4(s) \in Seq(Byte)
    BY <1>5, <1>7, Zenon
  <2> QED
    BY <1>6, <2>1, SplitEqual, Zenon
<1>9. r.timestamp = s.timestamp /\ Tail4(r) = Tail4(s)
  <2>1. Len(r.timestamp) = Len(s.timestamp)
    BY <1>1
  <2> QED
    BY <1>1, <1>4, <1>8, <2>1, SplitEqual, Zenon
<1>10. r.nonce = s.nonce /\ Rest(r) = Rest(s)
  <2>1. Field(r.nonce) \o Rest(r) = Field(s.nonce) \o Rest(s)
    BY <1>9, Zenon DEF Tail4
  <2>2. /\ r.nonce \in Seq(Byte) /\ Fits(r.nonce)
        /\ s.nonce \in Seq(Byte) /\ Fits(s.nonce)
        /\ Rest(r) \in Seq(Byte) /\ Rest(s) \in Seq(Byte)
    BY <1>1, <1>3, Zenon
  <2> QED
    BY <2>1, <2>2, FieldEqual, Zenon
<1>11. /\ to_ascii_uppercase(r.method) = to_ascii_uppercase(s.method)
       /\ Body(r) = Body(s)
  BY <1>2, <1>10, FieldEqual, Zenon DEF Rest
<1>12. r.path = s.path /\ r.digest = s.digest
  <2>1. Field(r.path) \o r.digest = Field(s.path) \o s.digest
    BY <1>11, Zenon DEF Body
  <2>2. /\ r.path \in Seq(Byte) /\ Fits(r.path)
        /\ s.path \in Seq(Byte) /\ Fits(s.path)
        /\ r.digest \in Seq(Byte) /\ s.digest \in Seq(Byte)
    BY <1>1, Zenon
  <2> QED
    BY <2>1, <2>2, FieldEqual, Zenon
<1> QED
  BY <1>9, <1>10, <1>11, <1>12

\* Two responses have the same response_message only if they have the same
\* nonce, path, status and digest of the body: a signed answer is the answer
\* of one request only.
THEOREM SignedResponsesDiffer ==
    ASSUME NEW r \in ResponseFields, NEW s \in ResponseFields,
           ResponseFits(r), ResponseFits(s),
           response_message(r) = response_message(s)
    PROVE  r = s
<1> DEFINE Outcome(q) == q.status \o q.digest
           Rest(q) == Field(q.path) \o Outcome(q)
           Fields(q) == Field(q.nonce) \o Rest(q)
<1>1. ASSUME NEW q \in ResponseFields, ResponseFits(q)
      PROVE  /\ q.nonce \in Seq(Byte) /\ Fits(q.nonce)
             /\ q.path \in Seq(Byte) /\ Fits(q.path)
             /\ q.status \in Seq(Byte) /\ Len(q.status) = 2
             /\ q.digest \in Seq(Byte)
  BY <1>1 DEF ResponseFields, ResponseFits, Bytes, Fits, NONCE_LENGTH, FieldLimit
<1>2. ASSUME NEW q \in ResponseFields, ResponseFits(q)
      PROVE  Outcome(q) \in Seq(Byte)
  BY <1>1, <1>2, ConcatProperties, Zenon
<1> HIDE DEF Outcome
<1>3. ASSUME NEW q \in ResponseFields, ResponseFits(q)
      PROVE  Rest(q) \in Seq(Byte)
  BY <1>1, <1>2, <1>3, FieldThenBytes, Zenon
<1> HIDE DEF Rest
<1>4. ASSUME NEW q \in ResponseFields, ResponseFits(q)
      PROVE  Fields(q) \in Seq(Byte)
  BY <1>1, <1>3, <1>4, FieldThenBytes, Zenon
<1> HIDE DEF Fields
<1>5. RESPONSE_DOMAIN \in Seq(Byte)
  BY DEF RESPONSE_DOMAIN, Byte
<1>6. Fields(r) = Fields(s)
  <2>1. RESPONSE_DOMAIN \o Fields(r) = RESPONSE_DOMAIN \o Fields(s)
    BY Zenon DEF response_message, Fields, Rest, Outcome
  <2>2. Fields(r) \in Seq(Byte) /\ Fields(s) \in Seq(Byte)
    BY <1>4, Zenon
  <2> QED
    BY <1>5, <2>1, <2>2, SplitEqual, Zenon
<1>7. r.nonce = s.nonce /\ Rest(r) = Rest(s)
  <2>1. Field(r.nonce) \o Rest(r) = Field(s.nonce) \o Rest(s)
    BY <1>6, Zenon DEF Fields
  <2>2. /\ r.nonce \in Seq(Byte) /\ Fits(r.nonce)
        /\ s.nonce \in Seq(Byte) /\ Fits(s.nonce)
        /\ Rest(r) \in Seq(Byte) /\ Rest(s) \in Seq(Byte)
    BY <1>1, <1>3, Zenon
  <2> QED
    BY <2>1, <2>2, FieldEqual, Zenon
<1>8. r.path = s.path /\ Outcome(r) = Outcome(s)
  <2>1. Field(r.path) \o Outcome(r) = Field(s.path) \o Outcome(s)
    BY <1>7, Zenon DEF Rest
  <2>2. /\ r.path \in Seq(Byte) /\ Fits(r.path)
        /\ s.path \in Seq(Byte) /\ Fits(s.path)
        /\ Outcome(r) \in Seq(Byte) /\ Outcome(s) \in Seq(Byte)
    BY <1>1, <1>2, Zenon
  <2> QED
    BY <2>1, <2>2, FieldEqual, Zenon
<1>9. r.status = s.status /\ r.digest = s.digest
  <2>1. r.status \o r.digest = s.status \o s.digest
    BY <1>8, Zenon DEF Outcome
  <2>2. /\ r.status \in Seq(Byte) /\ s.status \in Seq(Byte)
        /\ r.digest \in Seq(Byte) /\ s.digest \in Seq(Byte)
        /\ Len(r.status) = Len(s.status)
    BY <1>1
  <2> QED
    BY <2>1, <2>2, SplitEqual, Zenon
<1> QED
  BY <1>7, <1>8, <1>9 DEF ResponseFields

\* No request is signed with the bytes of a response: the two domains of
\* auth.rs differ in a byte that both messages have.
THEOREM RequestIsNoResponse ==
    ASSUME NEW r \in RequestFields, NEW s \in ResponseFields,
           RequestFits(r), ResponseFits(s)
    PROVE  canonical_message(r) # response_message(s)
<1>1. /\ AUTH_DOMAIN \in Seq(Byte) /\ RESPONSE_DOMAIN \in Seq(Byte)
      /\ \E i \in 1..Len(AUTH_DOMAIN) :
             /\ i \in 1..Len(RESPONSE_DOMAIN)
             /\ AUTH_DOMAIN[i] # RESPONSE_DOMAIN[i]
  <2>1. /\ AUTH_DOMAIN \in Seq(Byte) /\ Len(AUTH_DOMAIN) = 19
        /\ AUTH_DOMAIN[12] = 97
    BY DEF AUTH_DOMAIN, Byte
  <2>2. /\ RESPONSE_DOMAIN \in Seq(Byte) /\ Len(RESPONSE_DOMAIN) = 23
        /\ RESPONSE_DOMAIN[12] = 114
    BY DEF RESPONSE_DOMAIN, Byte
  <2>3. /\ 12 \in 1..Len(AUTH_DOMAIN) /\ 12 \in 1..Len(RESPONSE_DOMAIN)
        /\ AUTH_DOMAIN[12] # RESPONSE_DOMAIN[12]
    BY <2>1, <2>2
  <2> QED
    BY <2>1, <2>2, <2>3
<1>2. PICK x \in Seq(Byte) : canonical_message(r) = AUTH_DOMAIN \o x
  <2>1. /\ r.timestamp \in Seq(Byte) /\ r.nonce \in Seq(Byte) /\ Fits(r.nonce)
        /\ r.method \in Seq(Byte) /\ Fits(r.method)
        /\ r.path \in Seq(Byte) /\ Fits(r.path) /\ r.digest \in Seq(Byte)
    BY DEF RequestFields, RequestFits, Bytes, Fits, NONCE_LENGTH, FieldLimit
  <2> DEFINE u == to_ascii_uppercase(r.method)
             p == Field(r.path) \o r.digest
             m == Field(u) \o p
             n == Field(r.nonce) \o m
  <2>2. u \in Seq(Byte) /\ Fits(u)
    BY <2>1, UppercaseType, Zenon
  <2>3. p \in Seq(Byte)
    BY <2>1, FieldThenBytes, Zenon
  <2> HIDE DEF u, p
  <2>4. m \in Seq(Byte)
    BY <2>2, <2>3, FieldThenBytes, Zenon
  <2> HIDE DEF m
  <2>5. n \in Seq(Byte)
    BY <2>1, <2>4, FieldThenBytes, Zenon
  <2> HIDE DEF n
  <2>6. r.timestamp \o n \in Seq(Byte)
    BY <2>1, <2>5, ConcatProperties, Zenon
  <2>7. canonical_message(r) = AUTH_DOMAIN \o (r.timestamp \o n)
    BY Zenon DEF canonical_message, n, m, p, u
  <2> QED
    BY <2>6, <2>7, Zenon
<1>3. PICK y \in Seq(Byte) : response_message(s) = RESPONSE_DOMAIN \o y
  <2>1. /\ s.nonce \in Seq(Byte) /\ Fits(s.nonce)
        /\ s.path \in Seq(Byte) /\ Fits(s.path)
        /\ s.status \in Seq(Byte) /\ s.digest \in Seq(Byte)
    BY DEF ResponseFields, ResponseFits, Bytes, Fits, NONCE_LENGTH, FieldLimit
  <2> DEFINE o == s.status \o s.digest
             p == Field(s.path) \o o
             n == Field(s.nonce) \o p
  <2>2. o \in Seq(Byte)
    BY <2>1, ConcatProperties, Zenon
  <2> HIDE DEF o
  <2>3. p \in Seq(Byte)
    BY <2>1, <2>2, FieldThenBytes, Zenon
  <2> HIDE DEF p
  <2>4. n \in Seq(Byte)
    BY <2>1, <2>3, FieldThenBytes, Zenon
  <2> HIDE DEF n
  <2>5. response_message(s) = RESPONSE_DOMAIN \o n
    BY Zenon DEF response_message, n, p, o
  <2> QED
    BY <2>4, <2>5, Zenon
<1> QED
  BY <1>1, <1>2, <1>3, FirstPartsDiffer, Zenon

\* A credential is encrypted for one session, host message, hostname, version,
\* id and protocol version: two contexts have the same credential_aad only if
\* they are equal.
THEOREM CredentialContextsDiffer ==
    ASSUME NEW c \in CredentialContext, NEW d \in CredentialContext,
           ContextFits(c), ContextFits(d),
           credential_aad(c) = credential_aad(d)
    PROVE  c = d
<1> DEFINE Host(q) == Field(q.host_id) \o q.protocol_version
           Release(q) == Field(q.host_version) \o Host(q)
           Name(q) == Field(q.hostname) \o Release(q)
           Session(q) == Field(q.session_id) \o Name(q)
<1>1. ASSUME NEW q \in CredentialContext, ContextFits(q)
      PROVE  /\ q.host_message \in Seq(Byte) /\ Fits(q.host_message)
             /\ q.session_id \in Seq(Byte) /\ Fits(q.session_id)
             /\ q.hostname \in Seq(Byte) /\ Fits(q.hostname)
             /\ q.host_version \in Seq(Byte) /\ Fits(q.host_version)
             /\ q.host_id \in Seq(Byte) /\ Fits(q.host_id)
             /\ q.protocol_version \in Seq(Byte)
  BY <1>1 DEF CredentialContext, ContextFits, Bytes
<1>2. ASSUME NEW q \in CredentialContext, ContextFits(q)
      PROVE  Host(q) \in Seq(Byte)
  BY <1>1, <1>2, FieldThenBytes, Zenon
<1> HIDE DEF Host
<1>3. ASSUME NEW q \in CredentialContext, ContextFits(q)
      PROVE  Release(q) \in Seq(Byte)
  BY <1>1, <1>2, <1>3, FieldThenBytes, Zenon
<1> HIDE DEF Release
<1>4. ASSUME NEW q \in CredentialContext, ContextFits(q)
      PROVE  Name(q) \in Seq(Byte)
  BY <1>1, <1>3, <1>4, FieldThenBytes, Zenon
<1> HIDE DEF Name
<1>5. ASSUME NEW q \in CredentialContext, ContextFits(q)
      PROVE  Session(q) \in Seq(Byte)
  BY <1>1, <1>4, <1>5, FieldThenBytes, Zenon
<1> HIDE DEF Session
<1>6. c.host_message = d.host_message /\ Session(c) = Session(d)
  <2>1. Field(c.host_message) \o Session(c)
            = Field(d.host_message) \o Session(d)
    BY Zenon DEF credential_aad, Session, Name, Release, Host
  <2>2. /\ c.host_message \in Seq(Byte) /\ Fits(c.host_message)
        /\ d.host_message \in Seq(Byte) /\ Fits(d.host_message)
        /\ Session(c) \in Seq(Byte) /\ Session(d) \in Seq(Byte)
    BY <1>1, <1>5, Zenon
  <2> QED
    BY <2>1, <2>2, FieldEqual, Zenon
<1>7. c.session_id = d.session_id /\ Name(c) = Name(d)
  <2>1. Field(c.session_id) \o Name(c) = Field(d.session_id) \o Name(d)
    BY <1>6, Zenon DEF Session
  <2>2. /\ c.session_id \in Seq(Byte) /\ Fits(c.session_id)
        /\ d.session_id \in Seq(Byte) /\ Fits(d.session_id)
        /\ Name(c) \in Seq(Byte) /\ Name(d) \in Seq(Byte)
    BY <1>1, <1>4, Zenon
  <2> QED
    BY <2>1, <2>2, FieldEqual, Zenon
<1>8. c.hostname = d.hostname /\ Release(c) = Release(d)
  <2>1. Field(c.hostname) \o Release(c) = Field(d.hostname) \o Release(d)
    BY <1>7, Zenon DEF Name
  <2>2. /\ c.hostname \in Seq(Byte) /\ Fits(c.hostname)
        /\ d.hostname \in Seq(Byte) /\ Fits(d.hostname)
        /\ Release(c) \in Seq(Byte) /\ Release(d) \in Seq(Byte)
    BY <1>1, <1>3, Zenon
  <2> QED
    BY <2>1, <2>2, FieldEqual, Zenon
<1>9. c.host_version = d.host_version /\ Host(c) = Host(d)
  <2>1. Field(c.host_version) \o Host(c) = Field(d.host_version) \o Host(d)
    BY <1>8, Zenon DEF Release
  <2>2. /\ c.host_version \in Seq(Byte) /\ Fits(c.host_version)
        /\ d.host_version \in Seq(Byte) /\ Fits(d.host_version)
        /\ Host(c) \in Seq(Byte) /\ Host(d) \in Seq(Byte)
    BY <1>1, <1>2, Zenon
  <2> QED
    BY <2>1, <2>2, FieldEqual, Zenon
<1>10. c.host_id = d.host_id /\ c.protocol_version = d.protocol_version
  <2>1. Field(c.host_id) \o c.protocol_version
            = Field(d.host_id) \o d.protocol_version
    BY <1>9, Zenon DEF Host
  <2>2. /\ c.host_id \in Seq(Byte) /\ Fits(c.host_id)
        /\ d.host_id \in Seq(Byte) /\ Fits(d.host_id)
        /\ c.protocol_version \in Seq(Byte) /\ d.protocol_version \in Seq(Byte)
    BY <1>1, Zenon
  <2> QED
    BY <2>1, <2>2, FieldEqual, Zenon
<1>11. /\ c.host_message = d.host_message /\ c.session_id = d.session_id
       /\ c.hostname = d.hostname /\ c.host_version = d.host_version
       /\ c.host_id = d.host_id /\ c.protocol_version = d.protocol_version
  BY <1>6, <1>7, <1>8, <1>9, <1>10, Zenon
<1>12. ASSUME NEW q \in CredentialContext
       PROVE  q = [host_message |-> q.host_message, session_id |-> q.session_id,
                   hostname |-> q.hostname, host_version |-> q.host_version,
                   host_id |-> q.host_id,
                   protocol_version |-> q.protocol_version]
  BY DEF CredentialContext
<1> QED
  BY <1>11, <1>12
-----------------------------------------------------------------------------
(* What the two ends say of their versions *)

\* Where the host can tell how two versions relate, compare_versions of the
\* Deck says the same.
THEOREM VersionsComparedAlike ==
    ASSUME NEW plugin \in Version, NEW host \in Version,
           compare(plugin, host) # "unknown"
    PROVE  compare_versions(plugin, host) = compare(plugin, host)
<1>1. Parses(plugin) /\ Parses(host)
  BY Zenon DEF compare
<1>2. Matches(plugin) /\ Matches(host)
  BY <1>1 DEF Parses, Matches
<1> QED
  BY <1>1, <1>2, Zenon DEF compare, compare_versions

\* The advice is one-sided: a plugin tells its PC to be updated exactly where
\* the two, exchanged, would tell the plugin to be, and two versions that are
\* compatible are so either way.
THEOREM OneSideIsBehind ==
    ASSUME NEW plugin \in Version, NEW host \in Version
    PROVE  /\ compare(plugin, host) = "update_host"
                  <=> compare(host, plugin) = "update_plugin"
           /\ compare(plugin, host) = "compatible"
                  <=> compare(host, plugin) = "compatible"
<1>1. CASE ~ (Parses(plugin) /\ Parses(host))
  BY <1>1 DEF compare
<1>2. CASE Parses(plugin) /\ Parses(host)
  <2>1. ASSUME NEW v \in Version, Parses(v)
        PROVE  v[1].value \in Nat /\ v[2].value \in Nat
    <3>1. Len(v) = 3
      BY <2>1 DEF Parses
    <3>2. v \in [1..Len(v) -> Part]
      BY LenProperties DEF Version
    <3>3. v[1] \in Part /\ v[2] \in Part
      BY <3>1, <3>2
    <3> QED
      BY <3>3 DEF Part
  <2>2. /\ plugin[1].value \in Nat /\ plugin[2].value \in Nat
        /\ host[1].value \in Nat /\ host[2].value \in Nat
    BY <1>2, <2>1
  <2> QED
    BY <1>2, <2>2 DEF compare, Relation
<1> QED
  BY <1>1, <1>2
-----------------------------------------------------------------------------
(* The types of authentication *)

\* A handler that moves on keeps its request.
LEMMA HandlerFacts ==
    ASSUME TypeOK, NEW h \in Handlers, handler[h] # Idle
    PROVE  /\ handler[h] \in Serving
           /\ Nonce(h) \in DOMAIN signed
           /\ Nonce(h) \in Nonces
           /\ handler[h].at \in Times
BY DEF TypeOK, Serving, Nonce

\* A handler goes on without its first reading of the clock.
Forgets(h, pc) == handler' = [handler EXCEPT ![h].at = 0, ![h].pc = pc]

\* What the nonces in memory decide: the handler ends or goes on.
LEMMA NonceStep ==
    ASSUME NEW h \in Handlers, verify_nonce(h)
    PROVE  /\ handler[h] # Idle
           /\ \/ Ends(h)
              \/ Forgets(h, IF signed[Nonce(h)].path = "/v1/shutdown"
                              THEN "record" ELSE "version")
           /\ UNCHANGED <<clock, credential, signed, failures, recorded, stored,
                          accepted, executed>>
<1>1. At(h, "nonces")
  BY Zenon DEF verify_nonce
<1>2. handler[h] # Idle
  BY <1>1 DEF At, Idle
<1> QED
  BY <1>2, Zenon DEF verify_nonce, Forgets

\* A handler that ends or moves on is well typed.
LEMMA HandlerType ==
    ASSUME TypeOK, NEW h \in Handlers,
           \/ Ends(h)
           \/ /\ handler[h] # Idle
              /\ \E pc \in {"record", "version", "execute"} :
                   Moves(h, pc) \/ Forgets(h, pc),
           UNCHANGED signed
    PROVE  /\ DOMAIN handler' = Handlers
           /\ \A x \in Handlers :
                handler'[x] = Idle \/ (handler'[x] \in Serving
                                         /\ handler'[x].nonce \in DOMAIN signed')
<1>1. CASE Ends(h)
  BY <1>1 DEF Ends, TypeOK
<1>2. ASSUME handler[h] # Idle, NEW pc \in {"record", "version", "execute"},
             Moves(h, pc) \/ Forgets(h, pc)
      PROVE  /\ DOMAIN handler' = Handlers
             /\ \A x \in Handlers :
                  handler'[x] = Idle \/ (handler'[x] \in Serving
                                           /\ handler'[x].nonce \in DOMAIN signed')
  <2>1. handler[h] \in Serving /\ handler[h].nonce \in DOMAIN signed
    BY <1>2 DEF TypeOK
  <2>2. /\ DOMAIN handler' = Handlers
        /\ \/ handler'[h] = [handler[h] EXCEPT !.pc = pc]
           \/ handler'[h] = [handler[h] EXCEPT !.at = 0, !.pc = pc]
        /\ \A x \in Handlers \ {h} : handler'[x] = handler[x]
    BY <1>2 DEF Moves, Forgets, TypeOK
  <2>3. handler'[h] \in Serving /\ handler'[h].nonce \in DOMAIN signed
    <3>1. 0 \in Times
      BY AuthAssumption DEF Times
    <3>2. /\ [handler[h] EXCEPT !.pc = pc] \in Serving
          /\ [handler[h] EXCEPT !.pc = pc].nonce = handler[h].nonce
      BY <2>1 DEF Serving
    <3>3. /\ [handler[h] EXCEPT !.at = 0, !.pc = pc] \in Serving
          /\ [handler[h] EXCEPT !.at = 0, !.pc = pc].nonce = handler[h].nonce
      BY <2>1, <3>1, Zenon DEF Serving
    <3> QED
      BY <2>1, <2>2, <3>2, <3>3
  <2> QED
    BY <2>2, <2>3, Zenon DEF TypeOK
<1> QED
  BY <1>1, <1>2

\* Draining and pushing keep the queue of failures within its limit.
LEMMA FailuresType ==
    ASSUME TypeOK, NEW h \in Handlers, failed(h)
    PROVE  failures' \in Seq(Times) /\ Len(failures') <= FAILURE_LIMIT
<1>1. handler[h].at \in Times
  BY HandlerFacts DEF failed, At, Idle
<1>2. failures \in Seq(Times) /\ Len(failures) <= FAILURE_LIMIT
  BY DEF TypeOK
<1>3. PICK k \in 1..(Len(failures) + 1) :
        failures' = IF Len(SubSeq(failures, k, Len(failures))) >= FAILURE_LIMIT
                    THEN SubSeq(failures, k, Len(failures))
                    ELSE Append(SubSeq(failures, k, Len(failures)), handler[h].at)
  BY DEF failed
<1> DEFINE queue == SubSeq(failures, k, Len(failures))
<1>4. queue \in Seq(Times) /\ Len(queue) <= FAILURE_LIMIT /\ Len(queue) \in Nat
  <2>1. Len(failures) \in Nat
    BY <1>2, LenProperties
  <2>2. queue \in Seq(Times)
        /\ Len(queue) = IF k <= Len(failures) THEN Len(failures) - k + 1 ELSE 0
    BY <1>2, <2>1, SubSeqProperties
  <2> QED
    BY <1>2, <2>1, <2>2, AuthAssumption
<1> HIDE DEF queue
<1>5. failures' = IF Len(queue) >= FAILURE_LIMIT THEN queue
                  ELSE Append(queue, handler[h].at)
  BY <1>3 DEF queue
<1>6. /\ Append(queue, handler[h].at) \in Seq(Times)
      /\ Len(Append(queue, handler[h].at)) = Len(queue) + 1
  BY <1>1, <1>4, AppendProperties
<1> QED
  BY <1>4, <1>5, <1>6, AuthAssumption

\* The types of the authentication state.
THEOREM AuthTypeCorrect == Spec => []TypeOK
<1>1. Init => TypeOK
  BY AuthAssumption DEF Init, TypeOK, Times
<1>2. TypeOK /\ [Next]_authVars => TypeOK'
  <2> SUFFICES ASSUME TypeOK, [Next]_authVars PROVE TypeOK'
    OBVIOUS
  <2>1. ASSUME NEW n \in Nonces, NEW path \in Paths, NEW t \in Times,
               sign(n, path, t)
        PROVE  TypeOK'
    <3>1. [path |-> path, timestamp |-> t, key |-> credential] \in Request
      BY DEF Request, TypeOK
    <3>2. /\ DOMAIN signed' = DOMAIN signed \cup {n}
          /\ \A m \in DOMAIN signed' : signed'[m] \in Request
      BY <2>1, <3>1 DEF sign, TypeOK
    <3> QED
      BY <2>1, <3>2, Zenon DEF sign, clock, TypeOK
  <2>2. ASSUME NEW h \in Handlers, NEW n \in Nonces, arrive(h, n) PROVE TypeOK'
    <3>1. [pc |-> "credential", nonce |-> n, at |-> 0] \in Serving
      BY AuthAssumption DEF Serving, Times
    <3> QED
      BY <2>2, <3>1 DEF arrive, clock, TypeOK
  <2>3. ASSUME NEW h \in Handlers, verify_checks(h) PROVE TypeOK'
    <3>1. handler[h] \in Serving /\ handler[h].nonce \in DOMAIN signed
      BY <2>3 DEF verify_checks, At, Idle, TypeOK
    <3>2. PICK pc \in {"nonces", "failed"} :
            handler' = [handler EXCEPT ![h] = [@ EXCEPT !.at = now, !.pc = pc]]
      BY <2>3, Zenon DEF verify_checks, TypeOK
    <3>3. [handler[h] EXCEPT !.at = now, !.pc = pc] \in Serving
          /\ [handler[h] EXCEPT !.at = now, !.pc = pc].nonce = handler[h].nonce
      BY <3>1, Zenon DEF Serving, TypeOK
    <3> QED
      BY <2>3, <3>1, <3>2, <3>3, Zenon DEF verify_checks, clock, TypeOK
  <2>4. ASSUME NEW h \in Handlers, failed(h) PROVE TypeOK'
    BY <2>4, FailuresType, HandlerType DEF failed, clock, TypeOK
  <2>5. ASSUME NEW h \in Handlers, verify_nonce(h) PROVE TypeOK'
    <3>1. handler[h] # Idle /\ Nonce(h) \in Nonces /\ handler[h].at \in Times
      BY <2>5, NonceStep, HandlerFacts
    <3>2. Ends(h) \/ \E pc \in {"record", "version", "execute"} : Forgets(h, pc)
      BY <2>5, NonceStep
    <3>3. /\ DOMAIN seen' \subseteq Nonces
          /\ \A n \in DOMAIN seen' : seen'[n] \in Times
      <4> DEFINE old == Recent(seen, handler[h].at)
      <4>1. DOMAIN old \subseteq Nonces /\ \A n \in DOMAIN old : old[n] \in Times
        BY DEF Recent, TypeOK
      <4>2. seen' = [m \in DOMAIN old \cup {Nonce(h)} |->
                       IF m = Nonce(h) THEN handler[h].at ELSE old[m]]
        BY <2>5 DEF verify_nonce
      <4> HIDE DEF old
      <4> QED
        BY <3>1, <4>1, <4>2
    <3>4. UNCHANGED <<clock, credential, signed, failures, recorded, stored,
                      accepted, executed>>
      BY <2>5, NonceStep, Zenon
    <3> QED
      BY <3>1, <3>2, <3>3, <3>4, HandlerType DEF clock, TypeOK
  <2>6. ASSUME NEW h \in Handlers,
               record_replay(h) \/ record_saved(h) \/ record_failed(h)
        PROVE  TypeOK'
    <3>1. handler[h] # Idle /\ Nonce(h) \in DOMAIN signed
      <4>1. At(h, "record")
        BY <2>6, Zenon DEF record_replay, record_saved, record_failed
      <4>2. handler[h] # Idle
        BY <4>1 DEF At, Idle
      <4> QED
        BY <4>2, HandlerFacts, Zenon
    <3>2. Unexpired(recorded) \subseteq DOMAIN signed
      BY DEF Unexpired, TypeOK
    <3>3. /\ recorded' \subseteq DOMAIN signed'
          /\ stored' \subseteq DOMAIN signed'
          /\ accepted' \subseteq DOMAIN signed'
      BY <2>6, <3>1, <3>2 DEF record_replay, record_saved, record_failed, TypeOK
    <3>4. Ends(h) \/ \E pc \in {"record", "version", "execute"} : Moves(h, pc)
      BY <2>6 DEF record_replay, record_saved, record_failed
    <3>5. UNCHANGED <<clock, credential, signed, seen, failures, executed>>
      BY <2>6 DEF record_replay, record_saved, record_failed
    <3> QED
      BY <3>1, <3>3, <3>4, <3>5, HandlerType DEF clock, TypeOK
  <2>7. ASSUME NEW h \in Handlers, refused(h) \/ dropped(h) PROVE TypeOK'
    BY <2>7, HandlerType DEF refused, dropped, clock, TypeOK
  <2>8. ASSUME NEW h \in Handlers, status(h) \/ shutdown_checked(h) PROVE TypeOK'
    <3>1. handler[h] # Idle
      BY <2>8 DEF status, shutdown_checked, record_client_version, At, Idle
    <3>2. Ends(h) \/ \E pc \in {"record", "version", "execute"} : Moves(h, pc)
      BY <2>8 DEF status, shutdown_checked, record_client_version
    <3>3. /\ stored' \subseteq DOMAIN signed
          /\ UNCHANGED <<clock, credential, signed, seen, failures, recorded,
                         accepted, executed>>
      BY <2>8 DEF status, shutdown_checked, record_client_version, TypeOK
    <3> QED
      BY <3>1, <3>2, <3>3, HandlerType DEF clock, TypeOK
  <2>9. ASSUME NEW h \in Handlers, shutdown(h) PROVE TypeOK'
    <3>1. Nonce(h) \in Nonces
      BY <2>9, HandlerFacts DEF shutdown, At, Idle
    <3>2. executed' \in [Nonces -> 0..2]
      BY <2>9, <3>1 DEF shutdown, TypeOK
    <3> QED
      BY <2>9, <3>2, HandlerType DEF shutdown, clock, TypeOK
  <2>10. ASSUME NEW k \in Credentials, pair(k) PROVE TypeOK'
    BY <2>10 DEF pair, clock, TypeOK
  <2>11. CASE restart
    <3>1. <<>> \in Seq(Times) /\ Len(<<>>) = 0
      OBVIOUS
    <3> QED
      BY <2>11, <3>1, AuthAssumption DEF restart, clock, TypeOK
  <2>12. CASE second
    BY <2>12, AuthAssumption DEF second, TypeOK, Times
  <2>13. ASSUME NEW t \in Times, clock_set_back(t) PROVE TypeOK'
    <3>1. t <= latest
      BY <2>13, AuthAssumption DEF clock_set_back, TypeOK, Times
    <3> QED
      BY <2>13, <3>1, Zenon DEF clock_set_back, TypeOK
  <2>14. CASE UNCHANGED authVars
    BY <2>14 DEF authVars, TypeOK
  <2> QED
    BY <2>1, <2>2, <2>3, <2>4, <2>5, <2>6, <2>7, <2>8, <2>9, <2>10, <2>11,
       <2>12, <2>13, <2>14
    DEF Next
<1> QED
  BY <1>1, <1>2, PTL DEF Spec
-----------------------------------------------------------------------------
(* Accepted shutdowns *)

\* A failed save, a pruning or a restart never leaves a nonce in memory that
\* is not in the stored list (authenticate).
THEOREM RecordsAreDurable == Spec => []RecordedIsDurable
<1>1. Init => RecordedIsDurable
  BY DEF Init, RecordedIsDurable
<1>2. TypeOK /\ RecordedIsDurable /\ [Next]_authVars => RecordedIsDurable'
  <2> SUFFICES ASSUME TypeOK, RecordedIsDurable, [Next]_authVars
               PROVE  RecordedIsDurable'
    OBVIOUS
  <2>1. ASSUME NEW h \in Handlers,
               record_replay(h) \/ record_saved(h) \/ record_failed(h)
        PROVE  RecordedIsDurable'
    BY <2>1
    DEF record_replay, record_saved, record_failed, Unexpired, RecordedIsDurable
  <2>2. ASSUME NEW h \in Handlers, status(h) \/ shutdown_checked(h)
        PROVE  RecordedIsDurable'
    BY <2>2 DEF status, shutdown_checked, record_client_version, RecordedIsDurable
  <2>3. CASE restart \/ \E k \in Credentials : pair(k)
    BY <2>3 DEF restart, pair, RecordedIsDurable
  <2>4. CASE UNCHANGED <<recorded, stored>>
    BY <2>4 DEF RecordedIsDurable
  <2> QED
    BY <2>1, <2>2, <2>3, <2>4, Zenon
    DEF Next, authVars, sign, arrive, verify_checks, failed, verify_nonce,
        refused, shutdown, dropped, second, clock_set_back
<1> QED
  BY <1>1, <1>2, AuthTypeCorrect, PTL DEF Spec

\* One step keeps the nonces of accepted shutdowns recorded.
LEMMA RecordedStep ==
    ASSUME TypeOK, AcceptedStaysRecorded, [Next]_authVars
    PROVE  AcceptedStaysRecorded'
<1>0. /\ now \in Int /\ latest \in Int /\ now <= latest /\ CLOCK_WINDOW \in Int
      /\ \A n \in DOMAIN signed : signed[n].timestamp \in Int
      /\ accepted \subseteq DOMAIN signed
  BY AuthAssumption DEF TypeOK, Times, Request
<1>1. CASE UNCHANGED <<latest, credential, signed, recorded, stored, accepted>>
  BY <1>1 DEF AcceptedStaysRecorded
<1>2. ASSUME NEW n \in Nonces, NEW path \in Paths, NEW t \in Times,
             sign(n, path, t)
      PROVE  AcceptedStaysRecorded'
  <2>1. \A m \in accepted : signed'[m] = signed[m]
    BY <1>0, <1>2 DEF sign
  <2> QED
    BY <1>2, <2>1, Zenon DEF sign, clock, AcceptedStaysRecorded
<1>3. ASSUME NEW h \in Handlers, record_replay(h) \/ record_failed(h)
      PROVE  AcceptedStaysRecorded'
  BY <1>0, <1>3 DEF record_replay, record_failed, Unexpired, clock,
                    AcceptedStaysRecorded
<1>4. ASSUME NEW h \in Handlers, record_saved(h) PROVE AcceptedStaysRecorded'
  BY <1>0, <1>4 DEF record_saved, Unexpired, clock, AcceptedStaysRecorded
<1>5. ASSUME NEW h \in Handlers, status(h) \/ shutdown_checked(h)
      PROVE  AcceptedStaysRecorded'
  BY <1>5 DEF status, shutdown_checked, record_client_version, clock,
              AcceptedStaysRecorded
<1>6. ASSUME NEW k \in Credentials, pair(k) PROVE AcceptedStaysRecorded'
  BY <1>0, <1>6 DEF pair, AcceptedStaysRecorded
<1>7. CASE restart
  BY <1>7 DEF restart, clock, AcceptedStaysRecorded
<1>8. CASE second
  BY <1>0, <1>8 DEF second, AcceptedStaysRecorded
<1> QED
  BY <1>1, <1>2, <1>3, <1>4, <1>5, <1>6, <1>7, <1>8, Zenon
  DEF Next, authVars, arrive, verify_checks, failed, verify_nonce, refused,
      shutdown, dropped, clock, clock_set_back

\* An accepted shutdown stays recorded, in memory and on disk, as long as no
\* reading of the clock was past its window and its credential is the current
\* one, also when the clock is set back
\* (authenticate, record_client_version, pair and the start of the service).
THEOREM AcceptedShutdownsRecorded == Spec => []AcceptedStaysRecorded
<1>1. Init => AcceptedStaysRecorded
  BY DEF Init, AcceptedStaysRecorded
<1>2. TypeOK /\ AcceptedStaysRecorded /\ [Next]_authVars
        => AcceptedStaysRecorded'
  BY RecordedStep
<1> QED
  BY <1>1, <1>2, AuthTypeCorrect, PTL DEF Spec

\* No duplicate of an accepted shutdown is accepted unless the clock had
\* passed its window, by the second reading of authenticate or before the
\* clock was set back, or the pairing was replaced.
THEOREM AcceptedAgainLate == Spec => AcceptedAgainOnlyLate
<1> DEFINE Late == \A h \in Handlers :
                     (record_saved(h) /\ Nonce(h) \in accepted) =>
                        \/ latest > signed[Nonce(h)].timestamp + CLOCK_WINDOW
                        \/ signed[Nonce(h)].key # credential
<1>1. TypeOK /\ AcceptedStaysRecorded /\ [Next]_authVars => [Late]_authVars
  <2> SUFFICES ASSUME TypeOK, AcceptedStaysRecorded,
                      NEW h \in Handlers, record_saved(h),
                      Nonce(h) \in accepted,
                      signed[Nonce(h)].key = credential
               PROVE  latest > signed[Nonce(h)].timestamp + CLOCK_WINDOW
    OBVIOUS
  <2>1. /\ now \in Int /\ latest \in Int /\ now <= latest
        /\ CLOCK_WINDOW \in Int
        /\ signed[Nonce(h)].timestamp \in Int
    BY AuthAssumption DEF TypeOK, Times, Request
  <2>2. Nonce(h) \notin Unexpired(recorded)
    BY DEF record_saved
  <2>3. ~(latest - signed[Nonce(h)].timestamp <= CLOCK_WINDOW)
    BY <2>1, <2>2 DEF AcceptedStaysRecorded, Unexpired
  <2> QED
    BY <2>1, <2>3
<1> QED
  BY <1>1, AuthTypeCorrect, AcceptedShutdownsRecorded, PTL
  DEF Spec, AcceptedAgainOnlyLate
-----------------------------------------------------------------------------
(* A shutdown runs at most once *)

\* The request of a handler is an accepted shutdown that was not executed yet.
Holds(h) ==
    \/ At(h, "execute")
    \/ At(h, "version") /\ signed[Nonce(h)].path = "/v1/shutdown"

\* A shutdown that was executed, or is about to be, was accepted; it is not
\* both, and no two handlers are about to execute it.
OnceInvariant ==
    /\ \A n \in Nonces : executed[n] <= 1 /\ (executed[n] = 1 => n \in accepted)
    /\ \A h \in Handlers :
        Holds(h) => Nonce(h) \in accepted /\ executed[Nonce(h)] = 0
    /\ \A g, h \in Handlers :
        Holds(g) /\ Holds(h) /\ Nonce(g) = Nonce(h) => g = h

\* A step that executes nothing and brings no handler closer to it.
LEMMA OnceKept ==
    ASSUME OnceInvariant, executed' = executed, accepted \subseteq accepted',
           \A h \in Handlers : Holds(h)' => Holds(h) /\ Nonce(h)' = Nonce(h)
    PROVE  OnceInvariant'
<1>1. \A n \in Nonces : executed'[n] <= 1 /\ (executed'[n] = 1 => n \in accepted')
  BY DEF OnceInvariant
<1>2. \A h \in Handlers :
        Holds(h)' => Nonce(h)' \in accepted' /\ executed'[Nonce(h)'] = 0
  BY DEF OnceInvariant
<1>3. \A g, h \in Handlers :
        Holds(g)' /\ Holds(h)' /\ Nonce(g)' = Nonce(h)' => g = h
  BY DEF OnceInvariant
<1> QED
  BY <1>1, <1>2, <1>3 DEF OnceInvariant

\* A handler that changes alone, and how the others are.
LEMMA OneHandler ==
    ASSUME TypeOK, NEW h \in Handlers, NEW x,
           handler' = [handler EXCEPT ![h] = x]
    PROVE  /\ handler'[h] = x
           /\ \A g \in Handlers \ {h} : handler'[g] = handler[g]
BY DEF TypeOK

\* A handler that ends, or is still before the version check, holds nothing.
LEMMA OtherHolds ==
    ASSUME TypeOK, NEW h \in Handlers, NEW x,
           handler' = [handler EXCEPT ![h] = x], signed' = signed,
           x.pc \notin {"version", "execute"}
    PROVE  \A g \in Handlers : Holds(g)' => Holds(g) /\ Nonce(g)' = Nonce(g)
<1>1. /\ handler'[h] = x
      /\ \A g \in Handlers \ {h} : handler'[g] = handler[g]
  BY OneHandler, Zenon
<1> QED
  BY <1>1 DEF Holds, At, Nonce

\* The pieces of a handler that moves on.
LEMMA MoveFacts ==
    ASSUME TypeOK, NEW h \in Handlers, handler[h] # Idle, NEW pc,
           Moves(h, pc) \/ Forgets(h, pc)
    PROVE  /\ handler'[h].pc = pc
           /\ handler'[h].nonce = handler[h].nonce
           /\ \A g \in Handlers \ {h} : handler'[g] = handler[g]
<1>1. handler[h] \in Serving
  BY HandlerFacts
<1>2. /\ \/ handler'[h] = [handler[h] EXCEPT !.pc = pc]
         \/ handler'[h] = [handler[h] EXCEPT !.at = 0, !.pc = pc]
      /\ \A g \in Handlers \ {h} : handler'[g] = handler[g]
  BY DEF Moves, Forgets, TypeOK
<1> QED
  BY <1>1, <1>2 DEF Serving

\* A shutdown recorded in time was never accepted before.
LEMMA RecordedOnce ==
    ASSUME TypeOK, AcceptedStaysRecorded, RecordedInTime,
           NEW h \in Handlers, record_saved(h)
    PROVE  Nonce(h) \notin accepted
<1>1. /\ latest <= signed[Nonce(h)].timestamp + CLOCK_WINDOW
      /\ signed[Nonce(h)].key = credential
  BY DEF RecordedInTime
<1>2. Nonce(h) \in DOMAIN signed
  BY HandlerFacts DEF record_saved, At, Idle
<1>3. /\ now \in Int /\ latest \in Int /\ now <= latest
      /\ CLOCK_WINDOW \in Int /\ signed[Nonce(h)].timestamp \in Int
  BY <1>2, AuthAssumption DEF TypeOK, Times, Request
<1>4. /\ latest - signed[Nonce(h)].timestamp <= CLOCK_WINDOW
      /\ now - signed[Nonce(h)].timestamp <= CLOCK_WINDOW
  BY <1>1, <1>3
<1>5. Nonce(h) \notin recorded
  BY <1>4 DEF record_saved, Unexpired
<1> QED
  BY <1>1, <1>4, <1>5 DEF AcceptedStaysRecorded

\* The step that accepts a shutdown.
LEMMA SavedOnce ==
    ASSUME TypeOK, OnceInvariant, NEW h \in Handlers, record_saved(h),
           Nonce(h) \notin accepted
    PROVE  OnceInvariant'
<1> DEFINE n == Nonce(h)
<1>1. handler[h] # Idle /\ n \in Nonces
  BY HandlerFacts DEF record_saved, At, Idle
<1>2. executed[n] \in 0..2
  BY <1>1 DEF TypeOK
<1>3. executed[n] = 0
  BY <1>1, <1>2 DEF OnceInvariant
<1>4. \A g \in Handlers : Holds(g) => Nonce(g) # n
  BY DEF OnceInvariant
<1>5. /\ executed' = executed /\ accepted' = accepted \cup {n}
      /\ signed' = signed
  BY DEF record_saved
<1>6. /\ Nonce(h)' = n
      /\ \A g \in Handlers \ {h} : (Holds(g)' <=> Holds(g)) /\ Nonce(g)' = Nonce(g)
  BY <1>1, <1>5, MoveFacts DEF record_saved, Holds, At, Nonce
<1> HIDE DEF n
<1>7. \A m \in Nonces : executed'[m] <= 1 /\ (executed'[m] = 1 => m \in accepted')
  BY <1>5 DEF OnceInvariant
<1>8. ASSUME NEW g \in Handlers, Holds(g)'
      PROVE  Nonce(g)' \in accepted' /\ executed'[Nonce(g)'] = 0
  <2>1. CASE g = h
    BY <1>3, <1>5, <1>6, <2>1
  <2>2. CASE g # h
    BY <1>5, <1>6, <1>8, <2>2 DEF OnceInvariant
  <2> QED
    BY <2>1, <2>2
<1>9. ASSUME NEW f \in Handlers, NEW g \in Handlers,
             Holds(f)', Holds(g)', Nonce(f)' = Nonce(g)'
      PROVE  f = g
  <2>1. CASE f # h /\ g # h
    BY <1>6, <1>9, <2>1 DEF OnceInvariant
  <2>2. CASE f = h \/ g = h
    BY <1>4, <1>6, <1>9, <2>2
  <2> QED
    BY <2>1, <2>2
<1> QED
  BY <1>7, <1>8, <1>9 DEF OnceInvariant

\* The step that executes it.
LEMMA ExecutedOnce ==
    ASSUME TypeOK, OnceInvariant, NEW h \in Handlers, shutdown(h)
    PROVE  OnceInvariant'
<1> DEFINE n == Nonce(h)
<1>1. Holds(h) /\ n \in Nonces
  BY HandlerFacts DEF shutdown, At, Idle, Holds
<1>2. n \in accepted /\ executed[n] = 0
  BY <1>1 DEF OnceInvariant
<1>3. \A g \in Handlers \ {h} : Holds(g) => Nonce(g) # n
  BY <1>1 DEF OnceInvariant
<1>4. /\ accepted' = accepted /\ signed' = signed
      /\ \A m \in Nonces : executed'[m] = IF m = n THEN 1 ELSE executed[m]
  <2>1. /\ accepted' = accepted /\ signed' = signed
        /\ executed' = [executed EXCEPT ![n] = IF @ < 2 THEN @ + 1 ELSE @]
    BY Zenon DEF shutdown, n
  <2>2. DOMAIN executed = Nonces
    BY DEF TypeOK
  <2> HIDE DEF n
  <2> QED
    BY <1>1, <1>2, <2>1, <2>2
<1>5. \A g \in Handlers : Holds(g)' => /\ g # h
                                      /\ Holds(g) /\ Nonce(g)' = Nonce(g)
  <2>1. /\ handler'[h].pc = "idle"
        /\ \A g \in Handlers \ {h} : handler'[g] = handler[g]
    BY DEF shutdown, Ends, Idle, TypeOK
  <2> QED
    BY <1>4, <2>1 DEF Holds, At, Nonce
<1> HIDE DEF n
<1>6. \A m \in Nonces : executed'[m] <= 1 /\ (executed'[m] = 1 => m \in accepted')
  BY <1>2, <1>4 DEF OnceInvariant
<1>7. ASSUME NEW g \in Handlers, Holds(g)'
      PROVE  Nonce(g)' \in accepted' /\ executed'[Nonce(g)'] = 0
  <2>1. /\ Nonce(g)' = Nonce(g) /\ Nonce(g) # n
        /\ Nonce(g) \in accepted /\ executed[Nonce(g)] = 0
    BY <1>3, <1>5, <1>7 DEF OnceInvariant
  <2>2. Nonce(g) \in Nonces
    BY <2>1 DEF TypeOK
  <2> QED
    BY <1>4, <2>1, <2>2
<1>8. \A f, g \in Handlers :
        Holds(f)' /\ Holds(g)' /\ Nonce(f)' = Nonce(g)' => f = g
  BY <1>5 DEF OnceInvariant
<1> QED
  BY <1>6, <1>7, <1>8 DEF OnceInvariant

\* Every step that records in time keeps the invariant.
LEMMA OnceStep ==
    ASSUME TypeOK, AcceptedStaysRecorded, OnceInvariant, [Next]_authVars,
           [RecordedInTime]_authVars
    PROVE  OnceInvariant'
<1>1. CASE UNCHANGED authVars
  BY <1>1, OnceKept DEF authVars, Holds, At, Nonce
<1>2. ASSUME NEW n \in Nonces, NEW path \in Paths, NEW t \in Times,
             sign(n, path, t)
      PROVE  OnceInvariant'
  <2>1. /\ UNCHANGED <<handler, accepted, executed>>
        /\ \A m \in DOMAIN signed : signed'[m] = signed[m]
    BY <1>2 DEF sign
  <2>2. \A h \in Handlers : handler[h] # Idle => Nonce(h) \in DOMAIN signed
    BY HandlerFacts
  <2>3. \A h \in Handlers : Holds(h)' => Holds(h) /\ Nonce(h)' = Nonce(h)
    BY <2>1, <2>2 DEF Holds, At, Nonce, Idle
  <2> QED
    BY <2>1, <2>3, OnceKept
<1>3. ASSUME NEW h \in Handlers, NEW n \in Nonces, arrive(h, n)
      PROVE  OnceInvariant'
  <2>1. [pc |-> "credential", nonce |-> n, at |-> 0].pc
          \notin {"version", "execute"}
    OBVIOUS
  <2> QED
    BY <1>3, <2>1, OtherHolds, OnceKept, Zenon DEF arrive
<1>4. ASSUME NEW h \in Handlers, verify_checks(h) PROVE OnceInvariant'
  <2>1. handler[h] \in Serving
    BY <1>4, HandlerFacts DEF verify_checks, At, Idle
  <2>2. PICK pc \in {"nonces", "failed"} :
          handler' = [handler EXCEPT ![h] = [handler[h] EXCEPT !.at = now, !.pc = pc]]
    BY <1>4, Zenon DEF verify_checks, TypeOK
  <2>3. [handler[h] EXCEPT !.at = now, !.pc = pc].pc \notin {"version", "execute"}
    BY <2>1 DEF Serving
  <2> QED
    BY <1>4, <2>2, <2>3, OtherHolds, OnceKept, Zenon DEF verify_checks
<1>5. ASSUME NEW h \in Handlers, Ends(h),
             UNCHANGED <<signed, accepted, executed>>
      PROVE  OnceInvariant'
  BY <1>5, OtherHolds, OnceKept, Zenon DEF Ends, Idle
<1>6. ASSUME NEW h \in Handlers, verify_nonce(h) PROVE OnceInvariant'
  <2>0. UNCHANGED <<signed, accepted, executed>> /\ handler[h] # Idle
    BY <1>6, NonceStep, Zenon
  <2>1. CASE Ends(h)
    BY <1>5, <2>0, <2>1
  <2>2. CASE Forgets(h, IF signed[Nonce(h)].path = "/v1/shutdown"
                        THEN "record" ELSE "version")
    <3>1. \A g \in Handlers : Holds(g)' => Holds(g) /\ Nonce(g)' = Nonce(g)
      BY <2>0, <2>2, MoveFacts DEF Holds, At, Nonce
    <3> QED
      BY <2>0, <3>1, OnceKept
  <2> QED
    BY <1>6, <2>1, <2>2, NonceStep, Zenon
<1>7. ASSUME NEW h \in Handlers, record_saved(h) PROVE OnceInvariant'
  <2>1. CASE RecordedInTime
    BY <1>7, <2>1, RecordedOnce, SavedOnce
  <2> QED
    BY <1>1, <2>1
<1>8. ASSUME NEW h \in Handlers, shutdown_checked(h) PROVE OnceInvariant'
  <2>1. /\ UNCHANGED <<signed, accepted, executed>> /\ handler[h] # Idle
        /\ Holds(h) /\ Moves(h, "execute")
    BY <1>8 DEF shutdown_checked, At, Idle, Holds
  <2>2. \A g \in Handlers : Holds(g)' => Holds(g) /\ Nonce(g)' = Nonce(g)
    BY <2>1, MoveFacts DEF Holds, At, Nonce
  <2> QED
    BY <2>1, <2>2, OnceKept
<1>9. ASSUME NEW h \in Handlers, shutdown(h) PROVE OnceInvariant'
  BY <1>9, ExecutedOnce
<1>10. CASE restart
  <2>1. \A h \in Handlers : ~Holds(h)'
    BY <1>10 DEF restart, Holds, At, Idle
  <2> QED
    BY <1>10, <2>1, OnceKept DEF restart
<1>11. CASE \/ second
            \/ \E t \in Times : clock_set_back(t)
            \/ \E k \in Credentials : pair(k)
  <2>1. UNCHANGED <<handler, signed, accepted, executed>>
    BY <1>11 DEF second, clock_set_back, pair
  <2> QED
    BY <2>1, OnceKept DEF Holds, At, Nonce
<1> QED
  BY <1>1, <1>2, <1>3, <1>4, <1>5, <1>6, <1>7, <1>8, <1>9, <1>10, <1>11, Zenon
  DEF Next, failed, record_replay, record_failed, refused, status, dropped

\* A shutdown is executed at most once, through duplicates, overlapping
\* handlers, crashes and restarts, as long as every shutdown is recorded
\* before any reading of the clock has passed its window and under the
\* credential that signed it (authenticate and shutdown).  RequestReplay
\* shows what happens otherwise.
THEOREM ShutdownsRunOnce ==
    Spec /\ [][RecordedInTime]_authVars => []ShutdownAtMostOnce
<1>1. Init => OnceInvariant
  BY DEF Init, OnceInvariant, Holds, At, Idle
<1>2. TypeOK /\ AcceptedStaysRecorded /\ OnceInvariant /\ [Next]_authVars
        /\ [RecordedInTime]_authVars => OnceInvariant'
  BY OnceStep
<1>3. OnceInvariant => ShutdownAtMostOnce
  BY DEF OnceInvariant, ShutdownAtMostOnce
<1> QED
  BY <1>1, <1>2, <1>3, AuthTypeCorrect, AcceptedShutdownsRecorded, PTL DEF Spec
=============================================================================

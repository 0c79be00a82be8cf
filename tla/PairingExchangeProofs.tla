------------------------ MODULE PairingExchangeProofs ------------------------
(***************************************************************************)
(* Proofs for PairingExchange: what a client keeps, what a host stores and *)
(* which PC stops, for any number of hosts, clients and exchanges.         *)
(***************************************************************************)
EXTENDS PairingExchange, TLAPS

-----------------------------------------------------------------------------
(* The inductive invariant *)

Maps(T) == UNION {[X -> T] : X \in SUBSET Exchanges}

Results ==
    [kind : {"paired"}, host : Hosts, session : Exchanges, key : Credentials,
     code : Codes]

HostStates ==
    [credential : Credentials \cup {NoCredential}, code : Codes \cup {NoCode},
     pending : Maps(Codes),
     completed : SUBSET Results,
     spent : Codes \cup {NoCode}, late : SUBSET Exchanges]

ClientStates ==
    [pc : {"idle"}] \cup [pc : {"start"}, exchange : Exchanges]
        \cup [pc : {"finish"}, exchange : Exchanges, session : Exchanges,
              try : {1, 2}]
        \cup [pc : {"save"}, host : Hosts, key : Credentials]
        \cup [pc : {"signed"}, nonce : Nonces, path : Paths, key : Credentials,
              host : Hosts]

RequestType ==
    [kind : {"start"}, exchange : Exchanges]
        \cup [kind : {"final"}, exchange : Exchanges, session : Exchanges,
              try : {1, 2}]
        \cup [kind : Paths, nonce : Nonces, key : Credentials, meant : Hosts]

Answers ==
    [kind : {"answer"}, host : Hosts, key : Credentials, nonce : Nonces,
     path : Paths]

ReplyType == [kind : {"started"}, session : Exchanges] \cup Results \cup Answers

Typed ==
    /\ host \in [Hosts -> HostStates]
    /\ client \in [Clients -> ClientStates]
    /\ saved \in [Clients -> SUBSET [host : Hosts, key : Credentials]]
    /\ opened \in Maps([client : Clients, code : Codes])
    /\ requests \subseteq RequestType
    /\ replies \subseteq ReplyType
    /\ issued \subseteq Results

\* The key k was stored by the host h.
IssuedAt(k, h) == \E i \in issued : i.key = k /\ i.host = h

\* ... in an exchange that the client c has opened.
IssuedTo(k, h, c) ==
    \E i \in issued : i.key = k /\ i.host = h /\ opened[i.session].client = c

\* An exchange is requested, pending at one host, or spent, and in this order.
ExchangesOnce ==
    /\ \A q \in requests : q.kind = "start" =>
        /\ q.exchange \in DOMAIN opened
        /\ \A h \in Hosts : q.exchange \notin DOMAIN host[h].pending
        /\ \A i \in issued : i.session # q.exchange
    /\ \A h \in Hosts : \A x \in DOMAIN host[h].pending :
        /\ x \in DOMAIN opened
        /\ \A g \in Hosts : x \in DOMAIN host[g].pending => g = h
        /\ \A i \in issued : i.session # x

\* A stored credential belongs to one exchange of a client with the right code.
CredentialsOnce ==
    /\ OneCredentialPerExchange
    /\ \A i, j \in issued : i.key = j.key => i = j
    /\ \A i \in issued : i.session \in DOMAIN opened
    /\ IssuedIsReadable

\* Whatever carries a credential carries one that a host has stored.
KeysAreIssued ==
    /\ \A h \in Hosts : host[h].completed \subseteq issued
    /\ \A h \in Hosts : host[h].credential # NoCredential
                            => IssuedAt(host[h].credential, h)
    /\ \A r \in replies : r.kind = "paired" => r \in issued
    /\ \A r \in replies : r.kind = "answer" =>
        /\ IssuedAt(r.key, r.host)
        /\ r.path = "/v1/shutdown" => <<r.host, r.host>> \in executed
    /\ \A q \in requests : q.kind \in Paths => IssuedAt(q.key, q.meant)

\* What a client holds while it pairs or waits for an answer, and in its file.
ClientKnows(c) ==
    /\ client[c].pc \in {"start", "finish"} =>
        /\ client[c].exchange \in DOMAIN opened
        /\ opened[client[c].exchange].client = c
    /\ client[c].pc = "save" => IssuedTo(client[c].key, client[c].host, c)
    /\ client[c].pc = "signed" => IssuedAt(client[c].key, client[c].host)
    /\ \A s \in saved[c] : IssuedTo(s.key, s.host, c)

ClientsKnow == \A c \in Clients : ClientKnows(c)

ExchangeInvariant ==
    /\ Typed
    /\ ExchangesOnce
    /\ CredentialsOnce
    /\ KeysAreIssued
    /\ ClientsKnow
    /\ AnswersAreOwn
    /\ OnlyTheMeantPCStops

\* The invariant holds when nothing has been sent.
LEMMA ExchangeInit == Init => ExchangeInvariant
<1> SUFFICES ASSUME Init PROVE ExchangeInvariant
  OBVIOUS
<1>1. NoExchanges \in [{} -> Codes]
      /\ NoExchanges \in [{} -> [client : Clients, code : Codes]]
  BY DEF NoExchanges
<1>2. PICK code \in [Hosts -> Codes] :
        host = [h \in Hosts |->
                  [credential |-> NoCredential, code |-> code[h],
                   pending |-> NoExchanges, completed |-> {},
                   spent |-> NoCode, late |-> {}]]
  BY Zenon DEF Init
<1>3. Typed
  <2>1. host \in [Hosts -> HostStates]
    BY <1>1, <1>2, Zenon DEF HostStates, Maps
  <2>2. client \in [Clients -> ClientStates]
    BY DEF Init, Idle, ClientStates
  <2> QED
    BY <1>1, <2>1, <2>2, Zenon DEF Init, Typed, Maps
<1> QED
  BY <1>1, <1>2, <1>3
  DEF Init, ExchangeInvariant, ExchangesOnce, CredentialsOnce, KeysAreIssued,
      ClientsKnow, ClientKnows, AnswersAreOwn, OnlyTheMeantPCStops, Idle,
      OneCredentialPerExchange, IssuedIsReadable
-----------------------------------------------------------------------------
(* Lemmas about the helpers *)

\* Inserting into and removing from a map.
LEMMA MapFacts ==
    ASSUME NEW T, NEW map \in Maps(T),
           NEW x \in Exchanges, NEW entry \in T
    PROVE  /\ Opened(map, x, entry) \in Maps(T)
           /\ DOMAIN Opened(map, x, entry) = DOMAIN map \cup {x}
           /\ Opened(map, x, entry)[x] = entry
           /\ \A y \in DOMAIN map : y # x => Opened(map, x, entry)[y] = map[y]
           /\ Closed(map, x) \in Maps(T)
           /\ DOMAIN Closed(map, x) = DOMAIN map \ {x}
           /\ \A y \in DOMAIN map : y # x => Closed(map, x)[y] = map[y]
<1>1. PICK X \in SUBSET Exchanges : map \in [X -> T]
  BY DEF Maps
<1>2. /\ Opened(map, x, entry) \in [X \cup {x} -> T]
      /\ Closed(map, x) \in [X \ {x} -> T]
  BY <1>1 DEF Opened, Closed
<1>3. X \cup {x} \in SUBSET Exchanges /\ X \ {x} \in SUBSET Exchanges
  OBVIOUS
<1> QED
  BY <1>1, <1>2, <1>3, Zenon DEF Opened, Closed, Maps

\* What a host may be told apart by, given its type.
LEMMA HostFacts ==
    ASSUME Typed, NEW h \in Hosts
    PROVE  /\ host[h].credential \in Credentials \cup {NoCredential}
           /\ host[h].code \in Codes \cup {NoCode}
           /\ host[h].pending \in Maps(Codes)
           /\ DOMAIN host[h].pending \subseteq Exchanges
           /\ \A x \in DOMAIN host[h].pending : host[h].pending[x] \in Codes
           /\ host[h].completed \subseteq Results
           /\ host[h].spent \in Codes \cup {NoCode}
           /\ host[h].late \subseteq Exchanges
<1>1. host[h] \in HostStates
  BY DEF Typed
<1>2. host[h].pending \in Maps(Codes)
  BY <1>1 DEF HostStates
<1> QED
  BY <1>1, <1>2 DEF HostStates, Maps

\* Opening and closing an exchange at a host.
LEMMA PendingFacts ==
    ASSUME Typed, NEW h \in Hosts, NEW x \in Exchanges, NEW code \in Codes
    PROVE  /\ Opened(host[h].pending, x, code) \in Maps(Codes)
           /\ DOMAIN Opened(host[h].pending, x, code)
                = DOMAIN host[h].pending \cup {x}
           /\ Closed(host[h].pending, x) \in Maps(Codes)
           /\ DOMAIN Closed(host[h].pending, x)
                = DOMAIN host[h].pending \ {x}
<1>1. host[h].pending \in Maps(Codes)
  BY HostFacts
<1>2. /\ Opened(host[h].pending, x, code) \in Maps(Codes)
      /\ Closed(host[h].pending, x) \in Maps(Codes)
  BY <1>1, MapFacts, Zenon
<1>3. /\ DOMAIN Opened(host[h].pending, x, code) = DOMAIN host[h].pending \cup {x}
      /\ DOMAIN Closed(host[h].pending, x) = DOMAIN host[h].pending \ {x}
  BY DEF Opened, Closed
<1> QED
  BY <1>2, <1>3

\* No exchange is pending in an empty map.
LEMMA NoExchangesFacts ==
    /\ DOMAIN NoExchanges = {}
    /\ NoExchanges \in Maps(Codes)
<1>1. NoExchanges \in [{} -> Codes]
  BY DEF NoExchanges
<1> QED
  BY <1>1 DEF Maps

\* What was issued to a client was issued.
LEMMA IssuedToIsIssued ==
    ASSUME NEW k, NEW h, NEW c, IssuedTo(k, h, c)
    PROVE  IssuedAt(k, h)
  BY DEF IssuedTo, IssuedAt

\* What was issued stays so while credentials and exchanges are only added.
LEMMA IssuedKept ==
    ASSUME CredentialsOnce, issued \subseteq issued',
           \A y \in DOMAIN opened : opened'[y] = opened[y]
    PROVE  /\ \A k, h : IssuedAt(k, h) => IssuedAt(k, h)'
           /\ \A k, h, c : IssuedTo(k, h, c) => IssuedTo(k, h, c)'
<1>1. ASSUME NEW k, NEW h, IssuedAt(k, h) PROVE IssuedAt(k, h)'
  BY <1>1 DEF IssuedAt
<1>2. ASSUME NEW k, NEW h, NEW c, IssuedTo(k, h, c) PROVE IssuedTo(k, h, c)'
  BY <1>2 DEF IssuedTo, CredentialsOnce
<1> QED
  BY <1>1, <1>2

\* So does what a client knows that takes no part in the step.
LEMMA ClientKept ==
    ASSUME CredentialsOnce, issued \subseteq issued',
           \A y \in DOMAIN opened : y \in DOMAIN opened' /\ opened'[y] = opened[y],
           NEW c, ClientKnows(c), client'[c] = client[c], saved'[c] = saved[c]
    PROVE  ClientKnows(c)'
<1>1. /\ \A k, h : IssuedAt(k, h) => IssuedAt(k, h)'
      /\ \A k, h : IssuedTo(k, h, c) => IssuedTo(k, h, c)'
  BY IssuedKept
<1> QED
  BY <1>1 DEF ClientKnows

\* What a client has to know when it waits for nothing, saves or waits for an
\* answer.
LEMMA IdleKnows ==
    ASSUME NEW c, client'[c] = Idle,
           \A s \in saved'[c] : IssuedTo(s.key, s.host, c)'
    PROVE  ClientKnows(c)'
  BY DEF ClientKnows, Idle

LEMMA SaveKnows ==
    ASSUME NEW c, NEW k, NEW h,
           client'[c] = [pc |-> "save", host |-> h, key |-> k],
           IssuedTo(k, h, c)',
           \A s \in saved'[c] : IssuedTo(s.key, s.host, c)'
    PROVE  ClientKnows(c)'
<1>1. client'[c].pc = "save" /\ client'[c].key = k /\ client'[c].host = h
  OBVIOUS
<1> QED
  BY <1>1 DEF ClientKnows

LEMMA SignedKnows ==
    ASSUME NEW c, NEW k, NEW h, NEW n, NEW path,
           client'[c] = [pc |-> "signed", nonce |-> n, path |-> path,
                         key |-> k, host |-> h],
           IssuedAt(k, h)',
           \A s \in saved'[c] : IssuedTo(s.key, s.host, c)'
    PROVE  ClientKnows(c)'
<1>1. client'[c].pc = "signed" /\ client'[c].key = k /\ client'[c].host = h
  OBVIOUS
<1> QED
  BY <1>1 DEF ClientKnows

\* The entry that mark_paired writes is as good as what it was made from.
LEMMA EntryKnows ==
    ASSUME NEW c, NEW k, NEW h, IssuedTo(k, h, c)',
           \A s \in saved[c] : IssuedTo(s.key, s.host, c)',
           \A s \in saved'[c] : s \in saved[c] \/ s = [host |-> h, key |-> k]
    PROVE  \A s \in saved'[c] : IssuedTo(s.key, s.host, c)'
<1>1. ASSUME NEW s, s = [host |-> h, key |-> k]
      PROVE  IssuedTo(s.key, s.host, c)'
  <2>1. s.key = k /\ s.host = h
    BY <1>1
  <2> QED
    BY <2>1
<1> QED
  BY <1>1

\* The final request of pair and its retry.
LEMMA FinalFacts ==
    ASSUME NEW x, NEW s, NEW try
    PROVE  FinalRequest(x, s, try).kind = "final"
  BY DEF FinalRequest

\* A step that no client takes part in leaves all that clients know.
LEMMA ClientsKept ==
    ASSUME CredentialsOnce, ClientsKnow, issued \subseteq issued',
           opened' = opened, client' = client, saved' = saved
    PROVE  ClientsKnow'
  BY ClientKept DEF ClientsKnow

\* Credentials stay unique where none is issued.
LEMMA CredentialsKept ==
    ASSUME CredentialsOnce, issued' = issued, opened' = opened
    PROVE  CredentialsOnce'
  BY DEF CredentialsOnce, OneCredentialPerExchange, IssuedIsReadable

\* An accepted answer stays accounted for.
LEMMA AnswersKept ==
    ASSUME AnswersAreOwn, outcome' = outcome, executed \subseteq executed'
    PROVE  AnswersAreOwn'
  BY Zenon DEF AnswersAreOwn
-----------------------------------------------------------------------------
(* Every step keeps the types *)

\* The steps of a client.
LEMMA ClientTypes ==
    ASSUME Typed, NEW c \in Clients,
           \/ \E x \in Exchanges, code \in Codes : pair(c, x, code)
           \/ \E r \in replies : \/ pair_started(c, r)
                                 \/ pair_completed(c, r)
                                 \/ post_answered(c, r)
           \/ pair_retried(c) \/ pair_failed(c) \/ pair_saved(c)
           \/ \E n \in Nonces, path \in Paths : sign(c, n, path)
           \/ post_failed(c)
    PROVE  Typed'
<1>0. client[c] \in ClientStates
  BY DEF Typed
<1>1. ASSUME NEW x \in Exchanges, NEW code \in Codes, pair(c, x, code)
      PROVE  Typed'
  <2>1. opened' \in Maps([client : Clients, code : Codes])
    BY <1>1, MapFacts, Zenon DEF Typed, pair
  <2>2. /\ [pc |-> "start", exchange |-> x] \in ClientStates
        /\ [kind |-> "start", exchange |-> x] \in RequestType
    BY DEF ClientStates, RequestType
  <2> QED
    BY <1>1, <2>1, <2>2 DEF Typed, pair, Send
<1>2. ASSUME NEW r \in replies, pair_started(c, r) PROVE Typed'
  <2>1. r.session \in Exchanges
    BY <1>2 DEF pair_started, Typed, ReplyType, Results, Answers
  <2>2. client[c].exchange \in Exchanges
    BY <1>0, <1>2 DEF pair_started, ClientStates
  <2>3. /\ [pc |-> "finish", exchange |-> client[c].exchange,
            session |-> r.session, try |-> 1] \in ClientStates
        /\ FinalRequest(client[c].exchange, r.session, 1) \in RequestType
    BY <2>1, <2>2 DEF ClientStates, RequestType, FinalRequest
  <2> QED
    BY <1>2, <2>3 DEF Typed, pair_started, Send
<1>3. ASSUME NEW r \in replies, pair_completed(c, r) PROVE Typed'
  <2>1. r \in Results
    BY <1>3 DEF pair_completed, Typed, ReplyType, Answers
  <2>2. [pc |-> "save", host |-> r.host, key |-> r.key] \in ClientStates
    BY <2>1 DEF Results, ClientStates
  <2> QED
    BY <1>3, <2>2 DEF Typed, pair_completed
<1>4. Idle \in ClientStates
  BY DEF Idle, ClientStates
<1>5. ASSUME NEW r \in replies, post_answered(c, r) PROVE Typed'
  BY <1>4, <1>5 DEF Typed, post_answered, Ends
<1>6. CASE pair_retried(c)
  <2>1. client[c] \in [pc : {"finish"}, exchange : Exchanges,
                       session : Exchanges, try : {1, 2}]
    BY <1>0, <1>6 DEF pair_retried, ClientStates
  <2>2. /\ [client[c] EXCEPT !.try = 2] \in ClientStates
        /\ FinalRequest(client[c].exchange, client[c].session, 2) \in RequestType
    BY <2>1 DEF ClientStates, RequestType, FinalRequest
  <2> QED
    BY <1>6, <2>2 DEF Typed, pair_retried, Send
<1>7. CASE pair_failed(c) \/ post_failed(c)
  BY <1>4, <1>7 DEF Typed, pair_failed, post_failed, Ends
<1>8. CASE pair_saved(c)
  <2>1. client[c].host \in Hosts /\ client[c].key \in Credentials
    BY <1>0, <1>8 DEF pair_saved, ClientStates
  <2>2. saved' \in [Clients -> SUBSET [host : Hosts, key : Credentials]]
    BY <1>8, <2>1 DEF pair_saved, Typed
  <2> QED
    BY <1>4, <1>8, <2>2, Zenon DEF Typed, pair_saved, Ends
<1>9. ASSUME NEW n \in Nonces, NEW path \in Paths, sign(c, n, path)
      PROVE  Typed'
  <2>1. PICK s \in saved[c] :
          /\ client' = [client EXCEPT
                        ![c] = [pc |-> "signed", nonce |-> n, path |-> path,
                                key |-> s.key, host |-> s.host]]
          /\ Send([kind |-> path, nonce |-> n, key |-> s.key, meant |-> s.host])
    BY <1>9, Zenon DEF sign
  <2>2. s \in [host : Hosts, key : Credentials]
    BY DEF Typed
  <2>3. /\ [pc |-> "signed", nonce |-> n, path |-> path, key |-> s.key,
            host |-> s.host] \in ClientStates
        /\ [kind |-> path, nonce |-> n, key |-> s.key, meant |-> s.host]
              \in RequestType
    BY <2>2 DEF ClientStates, RequestType
  <2> QED
    BY <1>9, <2>1, <2>3 DEF Typed, sign, Send
<1> QED
  BY <1>1, <1>2, <1>3, <1>5, <1>6, <1>7, <1>8, <1>9

\* A prepared credential, and the host that has committed it.
LEMMA ResultFacts ==
    ASSUME Typed, NEW h \in Hosts, NEW q \in requests, NEW k \in Credentials,
           Confirmed(h, q)
    PROVE  /\ q.session \in Exchanges
           /\ q.session \in DOMAIN host[h].pending
           /\ PairingResult(h, q, k) \in Results
           /\ PairingResult(h, q, k).session = q.session
           /\ PairingResult(h, q, k).key = k
           /\ PairingResult(h, q, k).host = h
           /\ PairingResult(h, q, k).code = opened[q.session].code
           /\ PairingResult(h, q, k).kind = "paired"
           /\ \A done \in SUBSET Results, spent \in Codes \cup {NoCode},
                late \in SUBSET Exchanges :
                    Paired(k, done, spent, late) \in HostStates
<1>1. q.session \in Exchanges /\ host[h].pending[q.session] \in Codes
  BY HostFacts DEF Confirmed
<1> QED
  BY <1>1, NoExchangesFacts
  DEF Confirmed, Confirms, PairingResult, Results, Paired, HostStates

\* The three ways of storing a credential: answered, cut short by a crash, and
\* cut short by a panic.
LEMMA StoredFacts ==
    ASSUME Typed, NEW h \in Hosts, NEW q \in requests, NEW k \in Credentials,
           \/ pair_succeeded(h, q, k) \/ pair_crashed(h, q, k)
           \/ pair_panicked(h, q, k)
    PROVE  /\ Confirmed(h, q) /\ Fresh(k)
           /\ requests' = requests \ {q}
           /\ issued' = issued \cup {PairingResult(h, q, k)}
           /\ UNCHANGED <<client, saved, opened, executed, outcome>>
           /\ replies \subseteq replies'
           /\ \A r \in replies' : r \in replies \/ r = PairingResult(h, q, k)
           /\ \E done \in SUBSET {PairingResult(h, q, k)},
                 spent \in Codes \cup {NoCode}, late \in SUBSET Exchanges :
                    host' = [host EXCEPT ![h] = Paired(k, done, spent, late)]
<1> DEFINE r == PairingResult(h, q, k)
<1>0. r.key = k
  BY DEF PairingResult
<1>1. CASE pair_succeeded(h, q, k)
  <2>1. host' = [host EXCEPT ![h] = Paired(k, {r}, NoCode, {})]
    BY <1>0, <1>1, Zenon DEF pair_succeeded, Committed
  <2> QED
    BY <1>1, <2>1, Zenon DEF pair_succeeded, Serve
<1>2. CASE pair_crashed(h, q, k)
  <2>1. {} \in SUBSET {r}
    OBVIOUS
  <2> QED
    BY <1>2, <2>1, Zenon DEF pair_crashed
<1>3. CASE pair_panicked(h, q, k)
  <2>1. Usable(host[h]) \in Codes \cup {NoCode}
    BY HostFacts DEF Usable
  <2>2. (IF host[h].code # NoCode THEN Starting ELSE host[h].late)
            \in SUBSET Exchanges
    <3>1. ASSUME NEW p \in requests, p.kind = "start"
          PROVE  p.exchange \in Exchanges
      BY <3>1 DEF Typed, RequestType, Paths
    <3>2. Starting \subseteq Exchanges
      BY <3>1 DEF Starting
    <3> QED
      BY <3>2, HostFacts
  <2> QED
    BY <1>3, <2>1, <2>2, Zenon DEF pair_panicked
<1> QED
  BY <1>1, <1>2, <1>3, Zenon

\* The steps of a host.
LEMMA HostTypes ==
    ASSUME Typed, NEW h \in Hosts,
           \/ \E q \in requests :
                \/ start_for_source(h, q)
                \/ \E k \in Credentials : \/ pair_succeeded(h, q, k)
                                          \/ pair_crashed(h, q, k)
                                          \/ pair_panicked(h, q, k)
                \/ pair_repeated(h, q) \/ finish_failed(h, q)
                \/ pair_refused(h, q) \/ request_accepted(h, q)
                \/ request_failed(h, q) \/ unauthorized(h, q)
           \/ \E code \in Codes : generate_pairing_code(h, code)
           \/ restarted(h)
    PROVE  Typed'
<1>0. host[h] \in HostStates
  BY DEF Typed
<1>1. ASSUME NEW q \in requests, start_for_source(h, q) PROVE Typed'
  <2>1. q.exchange \in Exchanges
    BY <1>1 DEF Typed, RequestType, Paths, start_for_source
  <2>2. Opened(host[h].pending, q.exchange, Usable(host[h])) \in Maps(Codes)
    <3>1. Usable(host[h]) \in Codes
      BY <1>1, HostFacts DEF start_for_source, Usable
    <3> QED
      BY <2>1, <3>1, PendingFacts, Zenon
  <2>3. [host[h] EXCEPT !.pending = Opened(@, q.exchange, Usable(host[h]))]
            \in HostStates
    BY <1>0, <2>2 DEF HostStates
  <2>4. [kind |-> "started", session |-> q.exchange] \in ReplyType
    BY <2>1 DEF ReplyType
  <2> QED
    BY <1>1, <2>3, <2>4 DEF Typed, start_for_source, Serve
<1>2. ASSUME NEW q \in requests, NEW k \in Credentials,
             \/ pair_succeeded(h, q, k) \/ pair_crashed(h, q, k)
             \/ pair_panicked(h, q, k)
      PROVE  Typed'
  <2>1. PairingResult(h, q, k) \in Results
    BY <1>2, StoredFacts, ResultFacts
  <2>2. PICK done \in SUBSET {PairingResult(h, q, k)},
             spent \in Codes \cup {NoCode}, late \in SUBSET Exchanges :
          host' = [host EXCEPT ![h] = Paired(k, done, spent, late)]
    BY <1>2, StoredFacts, Zenon
  <2>3. Paired(k, done, spent, late) \in HostStates
    <3>1. done \in SUBSET Results
      BY <2>1
    <3> QED
      BY <1>2, <3>1, StoredFacts, ResultFacts, Zenon
  <2>4. host' \in [Hosts -> HostStates]
    BY <2>2, <2>3 DEF Typed
  <2>5. /\ requests' \subseteq RequestType
        /\ issued' \subseteq Results
        /\ replies' \subseteq ReplyType
    BY <1>2, <2>1, StoredFacts DEF Typed, ReplyType
  <2> QED
    BY <1>2, <2>4, <2>5, StoredFacts, Zenon DEF Typed
<1>3. ASSUME NEW q \in requests, pair_repeated(h, q) PROVE Typed'
  <2>1. PICK r \in host[h].completed : Serve(q, r)
    BY <1>3 DEF pair_repeated
  <2>2. r \in ReplyType
    BY HostFacts DEF ReplyType
  <2> QED
    BY <1>3, <2>1, <2>2, Zenon DEF Typed, pair_repeated, Serve
<1>4. ASSUME NEW q \in requests, finish_failed(h, q) PROVE Typed'
  <2>1. q.session \in Exchanges /\ host[h].pending[q.session] \in Codes
    BY <1>4, HostFacts DEF finish_failed
  <2>2. Closed(host[h].pending, q.session) \in Maps(Codes)
    BY <2>1, PendingFacts, Zenon
  <2>3. [host[h] EXCEPT !.pending = Closed(@, q.session)] \in HostStates
    BY <1>0, <2>2 DEF HostStates
  <2> QED
    BY <1>4, <2>3 DEF Typed, finish_failed, Refuse
<1>5. ASSUME NEW q \in requests,
             pair_refused(h, q) \/ request_failed(h, q) \/ unauthorized(h, q)
      PROVE  Typed'
  BY <1>5, Zenon DEF Typed, pair_refused, request_failed, unauthorized, Refuse
<1>6. ASSUME NEW q \in requests, request_accepted(h, q) PROVE Typed'
  <2>1. q \in [kind : Paths, nonce : Nonces, key : Credentials, meant : Hosts]
    BY <1>6 DEF Typed, RequestType, Paths, request_accepted, authenticate
  <2>2. Answer(h, q) \in ReplyType
    BY <2>1 DEF Answer, Answers, ReplyType
  <2> QED
    BY <1>6, <2>2 DEF Typed, request_accepted, Serve
<1>7. ASSUME NEW code \in Codes, generate_pairing_code(h, code) PROVE Typed'
  <2>1. [host[h] EXCEPT !.code = code, !.pending = NoExchanges,
                        !.completed = {}, !.spent = NoCode, !.late = {}]
            \in HostStates
    BY <1>0, NoExchangesFacts, Zenon DEF HostStates
  <2> QED
    BY <1>7, <2>1, Zenon DEF Typed, generate_pairing_code
<1>8. CASE restarted(h)
  <2>1. [host[h] EXCEPT !.pending = NoExchanges, !.completed = {},
                        !.spent = NoCode, !.late = {}]
            \in HostStates
    BY <1>0, NoExchangesFacts, Zenon DEF HostStates
  <2> QED
    BY <1>8, <2>1 DEF Typed, restarted
<1> QED
  BY <1>1, <1>2, <1>3, <1>4, <1>5, <1>6, <1>7, <1>8
-----------------------------------------------------------------------------
(* Every step keeps the invariant *)

\* A new exchange is known to nobody; what is known of the others stays.
LEMMA PairStep ==
    ASSUME ExchangeInvariant, NEW c \in Clients, NEW x \in Exchanges,
           NEW code \in Codes, pair(c, x, code)
    PROVE  ExchangeInvariant'
<1> USE DEF ExchangeInvariant
<1>1. Typed'
  BY ClientTypes
<1>2. /\ DOMAIN opened' = DOMAIN opened \cup {x}
      /\ opened'[x].client = c
      /\ \A y \in DOMAIN opened : opened'[y] = opened[y]
  BY DEF pair, Opened
<1>3. /\ host' = host /\ saved' = saved /\ issued' = issued
      /\ replies' = replies /\ executed' = executed /\ outcome' = outcome
      /\ requests' = requests \cup {[kind |-> "start", exchange |-> x]}
      /\ x \notin DOMAIN opened
  BY DEF pair, Send
<1>4. ExchangesOnce'
  <2> HIDE DEF ExchangeInvariant
  <2>1. ExchangesOnce /\ \A i \in issued : i.session \in DOMAIN opened
    BY DEF ExchangeInvariant, CredentialsOnce
  <2>2. \A h \in Hosts : x \notin DOMAIN host[h].pending
    BY <1>3, <2>1 DEF ExchangesOnce
  <2>3. ASSUME NEW q \in requests', q.kind = "start"
        PROVE  /\ q.exchange \in DOMAIN opened'
               /\ \A h \in Hosts : q.exchange \notin DOMAIN host[h].pending
               /\ \A i \in issued : i.session # q.exchange
    <3>1. CASE q \in requests
      BY <1>2, <2>1, <2>3, <3>1 DEF ExchangesOnce
    <3>2. CASE q.exchange = x
      BY <1>2, <1>3, <2>1, <2>2, <3>2
    <3>3. q \in requests \/ q = [kind |-> "start", exchange |-> x]
      BY <1>3, <2>3
    <3>4. q \in requests \/ q.exchange = x
      BY <3>3
    <3> QED
      BY <3>1, <3>2, <3>4
  <2>4. \A h \in Hosts : \A y \in DOMAIN host[h].pending :
            y \in DOMAIN opened'
    BY <1>2, <2>1 DEF ExchangesOnce
  <2> QED
    BY <1>3, <2>1, <2>3, <2>4 DEF ExchangesOnce
<1>5. CredentialsOnce'
  BY <1>2, <1>3
  DEF CredentialsOnce, OneCredentialPerExchange, IssuedIsReadable
<1>6. KeysAreIssued'
  <2> HIDE DEF ExchangeInvariant
  <2>1. KeysAreIssued
    BY DEF ExchangeInvariant
  <2>2. \A q \in requests' : q.kind \in Paths => q \in requests
    BY <1>3 DEF Paths
  <2>3. \A k, h : IssuedAt(k, h)' <=> IssuedAt(k, h)
    BY <1>3 DEF IssuedAt
  <2> QED
    BY <1>3, <2>1, <2>2, <2>3 DEF KeysAreIssued
<1>7. ClientsKnow'
  <2>1. client' = [client EXCEPT ![c] = [pc |-> "start", exchange |-> x]]
    BY DEF pair
  <2>2. ASSUME NEW d \in Clients, d # c PROVE ClientKnows(d)'
    <3>1. client'[d] = client[d]
      BY <2>1, <2>2 DEF Typed
    <3>2. ClientKnows(d)
      BY DEF ClientsKnow
    <3> QED
      BY <1>2, <1>3, <3>1, <3>2, ClientKept
  <2>3. client'[c].pc = "start" /\ client'[c].exchange = x
    BY <2>1 DEF Typed
  <2>4. \A s \in saved[c] : IssuedTo(s.key, s.host, c)'
    <3>1. \A s \in saved[c] : IssuedTo(s.key, s.host, c)
      BY DEF ClientsKnow, ClientKnows
    <3> QED
      BY <1>2, <1>3, <3>1, IssuedKept
  <2>5. ClientKnows(c)'
    BY <1>2, <1>3, <2>3, <2>4 DEF ClientKnows
  <2> QED
    BY <2>2, <2>5 DEF ClientsKnow
<1>8. AnswersAreOwn'
  BY <1>3, AnswersKept
<1> QED
  BY <1>1, <1>3, <1>4, <1>5, <1>6, <1>7, <1>8 DEF OnlyTheMeantPCStops

\* An accepted answer that repeats the request and comes from its host.
LEMMA AnswerAccepted ==
    ASSUME NEW c, NEW r, outcome' = {[request |-> client[c], reply |-> r]},
           executed' = executed,
           r.nonce = client[c].nonce, r.path = client[c].path,
           r.host = client[c].host,
           r.path = "/v1/shutdown" => <<r.host, r.host>> \in executed
    PROVE  AnswersAreOwn'
<1>1. ASSUME NEW o \in outcome' PROVE o.request = client[c] /\ o.reply = r
  BY <1>1
<1> QED
  BY <1>1 DEF AnswersAreOwn

\* A step of a client in which no host takes part.
LEMMA ClientStep ==
    ASSUME ExchangeInvariant, NEW c \in Clients,
           \/ \E r \in replies : \/ pair_started(c, r)
                                 \/ pair_completed(c, r)
                                 \/ post_answered(c, r)
           \/ pair_retried(c) \/ pair_failed(c) \/ pair_saved(c)
           \/ \E n \in Nonces, path \in Paths : sign(c, n, path)
           \/ post_failed(c)
    PROVE  ExchangeInvariant'
<1> USE DEF ExchangeInvariant
<1>1. Typed'
  BY ClientTypes
<1>2. /\ UNCHANGED <<host, opened, issued, replies, executed>>
      /\ \A d \in Clients : d # c => client'[d] = client[d] /\ saved'[d] = saved[d]
  BY Zenon
  DEF pair_started, pair_completed, post_answered, pair_retried, pair_failed,
      pair_saved, sign, post_failed, Ends, Typed
<1>3. client[c] \in ClientStates
  BY DEF Typed
<1>4. ASSUME NEW q \in requests', q \notin requests
      PROVE  \/ q.kind = "final"
             \/ q.kind \in Paths /\ IssuedAt(q.key, q.meant)
  <2>1. ASSUME NEW n \in Nonces, NEW path \in Paths, sign(c, n, path)
        PROVE  q.kind \in Paths /\ IssuedAt(q.key, q.meant)
    <3>1. PICK s \in saved[c] :
            q = [kind |-> path, nonce |-> n, key |-> s.key, meant |-> s.host]
      BY <1>4, <2>1, Zenon DEF sign, Send
    <3>2. IssuedTo(s.key, s.host, c)
      BY DEF ClientsKnow, ClientKnows
    <3>3. IssuedAt(s.key, s.host)
      BY <3>2, IssuedToIsIssued
    <3> QED
      BY <3>1, <3>3, Zenon
  <2>2. ASSUME NEW r \in replies, pair_started(c, r) PROVE q.kind = "final"
    <3>1. q = FinalRequest(client[c].exchange, r.session, 1)
      BY <1>4, <2>2 DEF pair_started, Send
    <3> QED
      BY <3>1, FinalFacts
  <2>3. ASSUME pair_retried(c) PROVE q.kind = "final"
    <3>1. q = FinalRequest(client[c].exchange, client[c].session, 2)
      BY <1>4, <2>3 DEF pair_retried, Send
    <3> QED
      BY <3>1, FinalFacts
  <2> QED
    BY <1>4, <2>1, <2>2, <2>3, Zenon
    DEF pair_completed, post_answered, pair_failed, pair_saved, post_failed
<1>5. ExchangesOnce'
  BY <1>2, <1>4, Zenon DEF ExchangesOnce, Paths
<1>6. CredentialsOnce'
  BY <1>2, CredentialsKept
<1>7. KeysAreIssued'
  <2>1. \A k, h : IssuedAt(k, h) => IssuedAt(k, h)'
    BY <1>2, IssuedKept
  <2>2. \A q \in requests' : q.kind \in Paths => IssuedAt(q.key, q.meant)'
    BY <1>4, <2>1 DEF KeysAreIssued, Paths
  <2> QED
    BY <1>2, <2>1, <2>2 DEF KeysAreIssued
<1>8. ClientsKnow'
  <2>1. ClientKnows(c)
    BY DEF ClientsKnow
  <2>2. ASSUME NEW d \in Clients, d # c PROVE ClientKnows(d)'
    <3>1. client'[d] = client[d] /\ saved'[d] = saved[d] /\ ClientKnows(d)
      BY <1>2, <2>2, Zenon DEF ClientsKnow
    <3> QED
      BY <1>2, <3>1, ClientKept, Zenon
  <2> SUFFICES ClientKnows(c)'
    BY <2>2 DEF ClientsKnow
  <2>3. /\ \A k, h : IssuedAt(k, h) => IssuedAt(k, h)'
        /\ \A k, h : IssuedTo(k, h, c) => IssuedTo(k, h, c)'
    BY <1>2, IssuedKept, Zenon
  <2>4. \A s \in saved[c] : IssuedTo(s.key, s.host, c)'
    BY <2>1, <2>3, Zenon DEF ClientKnows
  <2>5. ASSUME client'[c] = Idle, saved'[c] = saved[c] PROVE ClientKnows(c)'
    BY <2>4, <2>5, IdleKnows, Zenon
  <2>6. ASSUME client'[c].pc = "finish", client'[c].exchange = client[c].exchange,
               client[c].pc \in {"start", "finish"}, saved' = saved
        PROVE  ClientKnows(c)'
    <3>1. /\ client[c].exchange \in DOMAIN opened
          /\ opened[client[c].exchange].client = c
      BY <2>1, <2>6, Zenon DEF ClientKnows
    <3> QED
      BY <1>2, <2>4, <2>6, <3>1, Zenon DEF ClientKnows
  <2>7. ASSUME NEW r \in replies, pair_started(c, r) PROVE ClientKnows(c)'
    <3>1. /\ client'[c].pc = "finish" /\ client'[c].exchange = client[c].exchange
          /\ client[c].pc = "start" /\ saved' = saved
      BY <2>7 DEF pair_started, Typed
    <3> QED
      BY <2>6, <3>1, Zenon
  <2>8. CASE pair_retried(c)
    <3>1. /\ client'[c].pc = "finish" /\ client'[c].exchange = client[c].exchange
          /\ client[c].pc = "finish" /\ saved' = saved
      BY <1>3, <2>8 DEF pair_retried, Typed, ClientStates
    <3> QED
      BY <2>6, <3>1, Zenon
  <2>9. ASSUME NEW r \in replies, pair_completed(c, r) PROVE ClientKnows(c)'
    <3>1. /\ client'[c] = [pc |-> "save", host |-> r.host, key |-> r.key]
          /\ client[c].pc = "finish" /\ saved' = saved
      BY <2>9 DEF pair_completed, Typed
    <3>2. r \in issued /\ r.session = client[c].exchange
      BY <2>9, Zenon DEF pair_completed, KeysAreIssued, Decrypts
    <3>3. opened[r.session].client = c
      BY <2>1, <3>1, <3>2 DEF ClientKnows
    <3>4. IssuedTo(r.key, r.host, c)
      BY <3>2, <3>3 DEF IssuedTo
    <3> QED
      BY <2>3, <2>4, <3>1, <3>4, SaveKnows
  <2>10. CASE pair_saved(c)
    <3>1. /\ client'[c] = Idle /\ client[c].pc = "save"
          /\ \A s \in saved'[c] :
                s \in saved[c] \/ s = [host |-> client[c].host,
                                       key |-> client[c].key]
      BY <2>10, Zenon DEF pair_saved, Ends, Typed
    <3>2. IssuedTo(client[c].key, client[c].host, c)
      BY <2>1, <3>1, Zenon DEF ClientKnows
    <3>3. \A s \in saved'[c] : IssuedTo(s.key, s.host, c)'
      BY <2>3, <2>4, <3>1, <3>2, EntryKnows, Zenon
    <3> QED
      BY <3>1, <3>3, IdleKnows, Zenon
  <2>11. ASSUME NEW n \in Nonces, NEW path \in Paths, sign(c, n, path)
         PROVE  ClientKnows(c)'
    <3>1. PICK s \in saved[c] :
            client'[c] = [pc |-> "signed", nonce |-> n, path |-> path,
                          key |-> s.key, host |-> s.host]
      BY <2>11 DEF sign, Typed
    <3>2. saved' = saved
      BY <2>11, Zenon DEF sign
    <3>3. IssuedTo(s.key, s.host, c)
      BY <2>1, Zenon DEF ClientKnows
    <3>4. IssuedAt(s.key, s.host)'
      BY <2>3, <3>3, IssuedToIsIssued, Zenon
    <3> QED
      BY <2>4, <3>1, <3>2, <3>4, SignedKnows
  <2>12. ASSUME \/ pair_failed(c) \/ post_failed(c)
                \/ \E r \in replies : post_answered(c, r)
         PROVE  ClientKnows(c)'
    <3>1. client'[c] = Idle /\ saved' = saved
      BY <2>12, Zenon DEF pair_failed, post_failed, post_answered, Ends, Typed
    <3> QED
      BY <2>5, <3>1, Zenon
  <2> QED
    BY <2>7, <2>8, <2>9, <2>10, <2>11, <2>12
<1>9. AnswersAreOwn'
  <2>1. ASSUME NEW r \in replies, post_answered(c, r) PROVE AnswersAreOwn'
    <3>1. /\ outcome' = {[request |-> client[c], reply |-> r]}
          /\ r.kind = "answer" /\ r.key = client[c].key
          /\ r.nonce = client[c].nonce /\ r.path = client[c].path
          /\ client[c].pc = "signed"
      BY <2>1 DEF post_answered, verify_response
    <3>2. /\ IssuedAt(r.key, r.host) /\ IssuedAt(r.key, client[c].host)
          /\ r.path = "/v1/shutdown" => <<r.host, r.host>> \in executed
      BY <3>1, Zenon DEF KeysAreIssued, ClientsKnow, ClientKnows
    <3>3. r.host = client[c].host
      BY <3>2, Zenon DEF IssuedAt, CredentialsOnce
    <3> QED
      BY <1>2, <3>1, <3>2, <3>3, AnswerAccepted, Zenon
  <2>2. CASE outcome' = outcome
    BY <1>2, <2>2, AnswersKept, Zenon
  <2> QED
    BY <2>1, <2>2 DEF pair_started, pair_completed, pair_retried, pair_failed,
        pair_saved, sign, post_failed
<1> QED
  BY <1>1, <1>2, <1>5, <1>6, <1>7, <1>8, <1>9 DEF OnlyTheMeantPCStops

\* An exchange that a host has opened is pending at this host alone.
LEMMA StartStep ==
    ASSUME ExchangeInvariant, NEW h \in Hosts, NEW q \in requests,
           start_for_source(h, q)
    PROVE  ExchangeInvariant'
<1> USE DEF ExchangeInvariant
<1>1. Typed'
  BY HostTypes
<1>2. q \in [kind : {"start"}, exchange : Exchanges]
  BY DEF start_for_source, Typed, RequestType, Paths
<1>3. /\ UNCHANGED <<client, saved, opened, issued, executed, outcome>>
      /\ requests' = requests \ {q}
      /\ replies' = replies \cup {[kind |-> "started", session |-> q.exchange]}
  BY DEF start_for_source, Serve
<1>4. /\ \A g \in Hosts : g # h => host'[g] = host[g]
      /\ host'[h].credential = host[h].credential
      /\ host'[h].completed = host[h].completed
      /\ host'[h].pending =
            Opened(host[h].pending, q.exchange, Usable(host[h]))
  <2>1. host[h] \in HostStates
    BY DEF Typed
  <2> QED
    BY <2>1 DEF start_for_source, Typed, HostStates
<1>5. DOMAIN host'[h].pending = DOMAIN host[h].pending \cup {q.exchange}
  BY <1>4 DEF Opened
<1>6. \A p \in requests' : p.kind = "start" => p.exchange # q.exchange
  <2> SUFFICES ASSUME NEW p \in requests', p.kind = "start"
               PROVE  p.exchange # q.exchange
    OBVIOUS
  <2>1. p \in [kind : {"start"}, exchange : Exchanges] /\ p # q
    BY <1>3 DEF Typed, RequestType, Paths
  <2> QED
    BY <1>2, <2>1
<1>7. ExchangesOnce'
  <2>1. /\ q.exchange \in DOMAIN opened
        /\ \A g \in Hosts : q.exchange \notin DOMAIN host[g].pending
        /\ \A i \in issued : i.session # q.exchange
    BY <1>2 DEF ExchangesOnce
  <2>2. ASSUME NEW g \in Hosts
        PROVE  DOMAIN host'[g].pending \subseteq
                 IF g = h THEN DOMAIN host[g].pending \cup {q.exchange}
                          ELSE DOMAIN host[g].pending
    BY <1>4, <1>5
  <2>3. \A p \in requests' : p.kind = "start" =>
        /\ p.exchange \in DOMAIN opened
        /\ \A g \in Hosts : p.exchange \notin DOMAIN host'[g].pending
        /\ \A i \in issued : i.session # p.exchange
    <3> SUFFICES ASSUME NEW p \in requests', p.kind = "start"
                 PROVE  /\ p.exchange \in DOMAIN opened
                        /\ \A g \in Hosts :
                                p.exchange \notin DOMAIN host'[g].pending
                        /\ \A i \in issued : i.session # p.exchange
      OBVIOUS
    <3>1. p \in requests /\ p.exchange # q.exchange
      BY <1>3, <1>6
    <3>2. /\ p.exchange \in DOMAIN opened
          /\ \A g \in Hosts : p.exchange \notin DOMAIN host[g].pending
          /\ \A i \in issued : i.session # p.exchange
      BY <3>1 DEF ExchangesOnce
    <3> QED
      BY <2>2, <3>1, <3>2
  <2>4. ASSUME NEW g \in Hosts, NEW x \in DOMAIN host'[g].pending
        PROVE  /\ x \in DOMAIN opened
               /\ \A f \in Hosts : x \in DOMAIN host'[f].pending => f = g
               /\ \A i \in issued : i.session # x
    <3>1. CASE x = q.exchange
      BY <2>1, <2>2, <3>1
    <3>2. CASE x # q.exchange
      BY <2>2, <3>2 DEF ExchangesOnce
    <3> QED
      BY <3>1, <3>2
  <2> QED
    BY <1>3, <2>3, <2>4 DEF ExchangesOnce
<1>8. KeysAreIssued'
  <2>1. \A k, g : IssuedAt(k, g) => IssuedAt(k, g)'
    BY <1>3, IssuedKept
  <2>2. \A g \in Hosts : /\ host'[g].completed = host[g].completed
                         /\ host'[g].credential = host[g].credential
    BY <1>4
  <2>3. ASSUME NEW g \in Hosts
        PROVE  /\ host'[g].completed \subseteq issued'
               /\ host'[g].credential # NoCredential
                        => IssuedAt(host[g].credential, g)'
    BY <1>3, <2>1, <2>2, Zenon DEF KeysAreIssued
  <2>4. ASSUME NEW r \in replies'
        PROVE  /\ r.kind = "paired" => r \in issued'
               /\ r.kind = "answer" =>
                    /\ IssuedAt(r.key, r.host)'
                    /\ r.path = "/v1/shutdown"
                            => <<r.host, r.host>> \in executed'
    <3>1. CASE r \in replies
      BY <1>3, <2>1, <3>1 DEF KeysAreIssued
    <3>2. CASE r = [kind |-> "started", session |-> q.exchange]
      BY <3>2
    <3> QED
      BY <1>3, <3>1, <3>2
  <2>5. ASSUME NEW p \in requests', p.kind \in Paths
        PROVE  IssuedAt(p.key, p.meant)'
    BY <1>3, <2>1, <2>5 DEF KeysAreIssued
  <2> QED
    BY <2>3, <2>4, <2>5, Zenon DEF KeysAreIssued
<1>9. CredentialsOnce' /\ ClientsKnow' /\ AnswersAreOwn'
  BY <1>3, CredentialsKept, ClientsKept, AnswersKept
<1> QED
  BY <1>1, <1>3, <1>7, <1>8, <1>9 DEF OnlyTheMeantPCStops

\* A stored credential ends the exchanges of its host.
LEMMA CommitStep ==
    ASSUME ExchangeInvariant, NEW h \in Hosts, NEW q \in requests,
           NEW k \in Credentials,
           \/ pair_succeeded(h, q, k) \/ pair_crashed(h, q, k)
           \/ pair_panicked(h, q, k)
    PROVE  ExchangeInvariant'
<1> USE DEF ExchangeInvariant
<1> DEFINE res == PairingResult(h, q, k)
<1>1. Typed'
  BY HostTypes
<1>2. Confirmed(h, q) /\ Fresh(k)
  BY StoredFacts
<1>3. /\ q.session \in DOMAIN host[h].pending
      /\ res.session = q.session /\ res.key = k /\ res.host = h
      /\ res.code = opened[q.session].code /\ res.kind = "paired"
  <2>1. /\ q.session \in DOMAIN host[h].pending
        /\ host[h].pending[q.session] = opened[q.session].code
    BY <1>2 DEF Confirmed, Confirms
  <2> QED
    BY <2>1 DEF PairingResult
<1> HIDE DEF res
<1>4. /\ UNCHANGED <<client, saved, opened, executed, outcome>>
      /\ requests' = requests \ {q}
      /\ issued' = issued \cup {res}
      /\ \A r \in replies' : r \in replies \/ r = res
      /\ replies \subseteq replies'
  BY StoredFacts, Zenon DEF res
<1>5. /\ \A g \in Hosts : g # h => host'[g] = host[g]
      /\ host'[h].credential = k
      /\ host'[h].completed \subseteq {res}
      /\ host'[h].pending = NoExchanges
  <2>1. PICK done \in SUBSET {res}, spent \in Codes \cup {NoCode},
             late \in SUBSET Exchanges :
          host' = [host EXCEPT ![h] = Paired(k, done, spent, late)]
    BY StoredFacts, Zenon DEF res
  <2>2. /\ host'[h] = Paired(k, done, spent, late)
        /\ \A g \in Hosts : g # h => host'[g] = host[g]
    BY <2>1 DEF Typed
  <2>3. /\ Paired(k, done, spent, late).credential = k
        /\ Paired(k, done, spent, late).completed = done
        /\ Paired(k, done, spent, late).pending = NoExchanges
    BY DEF Paired
  <2>4. done \subseteq {res}
    BY <2>1
  <2> QED
    BY <2>2, <2>3, <2>4, Zenon
<1>6. DOMAIN host'[h].pending = {}
  BY <1>5, NoExchangesFacts
<1>7. /\ q.session \in DOMAIN opened
      /\ \A g \in Hosts : q.session \in DOMAIN host[g].pending => g = h
      /\ \A i \in issued : i.session # q.session
      /\ \A p \in requests : p.kind = "start" => p.exchange # q.session
  BY <1>3 DEF ExchangesOnce
<1>8. ExchangesOnce'
  <2>1. \A i \in issued' : i \in issued \/ i.session = q.session
    BY <1>3, <1>4
  <2>2. \A g \in Hosts : \A x \in DOMAIN host'[g].pending :
            g # h /\ x \in DOMAIN host[g].pending
    BY <1>5, <1>6
  <2>3. \A p \in requests' : p.kind = "start" =>
        /\ p.exchange \in DOMAIN opened
        /\ \A g \in Hosts : p.exchange \notin DOMAIN host'[g].pending
        /\ \A i \in issued' : i.session # p.exchange
    BY <1>4, <1>7, <2>1, <2>2 DEF ExchangesOnce
  <2>4. ASSUME NEW g \in Hosts, NEW x \in DOMAIN host'[g].pending
        PROVE  /\ x \in DOMAIN opened
               /\ \A f \in Hosts : x \in DOMAIN host'[f].pending => f = g
               /\ \A i \in issued' : i.session # x
    <3>1. x \in DOMAIN host[g].pending /\ g # h
      BY <2>2
    <3>2. x # q.session
      BY <1>7, <3>1
    <3> QED
      BY <2>1, <2>2, <3>1, <3>2 DEF ExchangesOnce
  <2> QED
    BY <1>4, <2>3, <2>4 DEF ExchangesOnce
<1>9. CredentialsOnce'
  <2>1. OneCredentialPerExchange'
    BY <1>3, <1>4, <1>7 DEF OneCredentialPerExchange, CredentialsOnce
  <2>2. \A i, j \in issued' : i.key = j.key => i = j
    BY <1>2, <1>3, <1>4 DEF Fresh, CredentialsOnce
  <2>3. /\ \A i \in issued' : i.session \in DOMAIN opened'
        /\ IssuedIsReadable'
    BY <1>3, <1>4, <1>7 DEF CredentialsOnce, IssuedIsReadable
  <2> QED
    BY <2>1, <2>2, <2>3 DEF CredentialsOnce
<1>10. ASSUME NEW key, NEW g, IssuedAt(key, g) PROVE IssuedAt(key, g)'
  BY <1>4, <1>10, IssuedKept
<1>11. KeysAreIssued'
  <2>1. IssuedAt(k, h)'
    BY <1>3, <1>4, Zenon DEF IssuedAt
  <2>2. \A g \in Hosts : host'[g].completed \subseteq issued'
    BY <1>4, <1>5, Zenon DEF KeysAreIssued
  <2>3. ASSUME NEW g \in Hosts, host'[g].credential # NoCredential
        PROVE  IssuedAt(host[g].credential, g)'
    BY <1>5, <1>10, <2>1, <2>3 DEF KeysAreIssued
  <2>4. \A r \in replies' : r.kind = "paired" => r \in issued'
    BY <1>4 DEF KeysAreIssued
  <2>5. ASSUME NEW r \in replies', r.kind = "answer"
        PROVE  /\ IssuedAt(r.key, r.host)'
               /\ r.path = "/v1/shutdown" => <<r.host, r.host>> \in executed'
    <3>1. r \in replies
      BY <1>3, <1>4, <2>5
    <3> QED
      BY <1>4, <1>10, <2>5, <3>1, Zenon DEF KeysAreIssued
  <2>6. ASSUME NEW p \in requests', p.kind \in Paths
        PROVE  IssuedAt(p.key, p.meant)'
    BY <1>4, <1>10, <2>6, Zenon DEF KeysAreIssued
  <2> QED
    BY <2>2, <2>3, <2>4, <2>5, <2>6 DEF KeysAreIssued
<1>12. ClientsKnow' /\ AnswersAreOwn'
  BY <1>4, ClientsKept, AnswersKept
<1> QED
  BY <1>1, <1>4, <1>8, <1>9, <1>11, <1>12 DEF OnlyTheMeantPCStops

\* A step of a host that stores no credential and opens no exchange.
LEMMA OtherHostStep ==
    ASSUME ExchangeInvariant, NEW h \in Hosts,
           \/ \E q \in requests :
                \/ pair_repeated(h, q) \/ finish_failed(h, q)
                \/ pair_refused(h, q) \/ request_accepted(h, q)
                \/ request_failed(h, q) \/ unauthorized(h, q)
           \/ \E code \in Codes : generate_pairing_code(h, code)
           \/ restarted(h)
    PROVE  ExchangeInvariant'
<1> USE DEF ExchangeInvariant
<1>1. Typed'
  BY HostTypes
<1>2. /\ UNCHANGED <<client, saved, opened, issued, outcome>>
      /\ requests' \subseteq requests
  BY Zenon DEF pair_repeated, finish_failed, pair_refused, request_accepted,
         request_failed, unauthorized, generate_pairing_code, restarted,
         Serve, Refuse
<1>3. ASSUME NEW g \in Hosts
      PROVE  /\ DOMAIN host'[g].pending \subseteq DOMAIN host[g].pending
             /\ host'[g].credential = host[g].credential
             /\ host'[g].completed \subseteq host[g].completed
  <2>0. host[g] \in HostStates
    BY DEF Typed
  <2>1. ASSUME NEW q \in requests, finish_failed(g, q), g = h
        PROVE  /\ DOMAIN host'[g].pending \subseteq DOMAIN host[g].pending
               /\ host'[g].credential = host[g].credential
               /\ host'[g].completed \subseteq host[g].completed
    <3>1. host'[g] = [host[g] EXCEPT
                        !.pending = Closed(host[g].pending, q.session)]
      BY <2>1 DEF finish_failed, Typed
    <3>2. DOMAIN Closed(host[g].pending, q.session)
            \subseteq DOMAIN host[g].pending
      BY Zenon DEF Closed
    <3> QED
      BY <2>0, <3>1, <3>2 DEF HostStates
  <2>2. ASSUME \/ \E code \in Codes : generate_pairing_code(h, code)
               \/ restarted(h),
               g = h
        PROVE  /\ host'[g].pending = NoExchanges
               /\ host'[g].credential = host[g].credential
               /\ host'[g].completed = {}
    <3>1. CASE restarted(h)
      <4>1. host'[g] = [[[[host[g] EXCEPT !.pending = NoExchanges]
                             EXCEPT !.completed = {}]
                             EXCEPT !.spent = NoCode]
                             EXCEPT !.late = {}]
        BY <2>2, <3>1, Zenon DEF restarted, Typed
      <4> QED
        BY <2>0, <4>1 DEF HostStates
    <3>2. ASSUME NEW code \in Codes, generate_pairing_code(h, code)
          PROVE  /\ host'[g].pending = NoExchanges
                 /\ host'[g].credential = host[g].credential
                 /\ host'[g].completed = {}
      <4>1. host'[g] = [[[[[host[g] EXCEPT !.code = code]
                             EXCEPT !.pending = NoExchanges]
                             EXCEPT !.completed = {}]
                             EXCEPT !.spent = NoCode]
                             EXCEPT !.late = {}]
        BY <2>2, <3>2, Zenon DEF generate_pairing_code, Typed
      <4> QED
        BY <2>0, <4>1 DEF HostStates
    <3> QED
      BY <2>2, <3>1, <3>2
  <2>3. CASE host'[g] = host[g]
    BY <2>3
  <2>4. ASSUME g # h PROVE host'[g] = host[g]
    BY <2>4, Zenon
    DEF pair_repeated, pair_refused, request_accepted, request_failed,
        unauthorized, finish_failed, generate_pairing_code, restarted, Typed
  <2> QED
    BY <2>1, <2>2, <2>3, <2>4, NoExchangesFacts, Zenon
    DEF pair_repeated, pair_refused, request_accepted, request_failed,
        unauthorized
<1>4. ExchangesOnce'
  BY <1>2, <1>3, Zenon DEF ExchangesOnce
<1>5. ASSUME NEW q \in requests, request_accepted(h, q)
      PROVE  /\ IssuedAt(q.key, h) /\ q.meant = h
             /\ executed' = IF q.kind = "/v1/shutdown"
                              THEN executed \cup {<<h, h>>} ELSE executed
             /\ replies' = replies \cup {Answer(h, q)}
  <2>1. q.kind \in Paths /\ host[h].credential = q.key
    BY <1>5, Zenon DEF request_accepted, authenticate
  <2>2. q.key \in Credentials
    BY <2>1, Zenon DEF Typed, RequestType, Paths
  <2>3. IssuedAt(q.key, h) /\ IssuedAt(q.key, q.meant)
    BY <2>1, <2>2, NoneAssumption, Zenon DEF KeysAreIssued
  <2>4. q.meant = h
    BY <2>3, Zenon DEF IssuedAt, CredentialsOnce
  <2> QED
    BY <1>5, <2>3, <2>4 DEF request_accepted, Serve
<1>6. /\ executed \subseteq executed'
      /\ \A e \in executed' : e \in executed \/ e = <<h, h>>
  BY <1>5, Zenon DEF pair_repeated, finish_failed, pair_refused, request_failed,
              unauthorized, generate_pairing_code, restarted
<1>7. ASSUME NEW r \in replies', r \notin replies
      PROVE  \/ r.kind = "paired" /\ r \in issued
             \/ /\ r.kind = "answer" /\ IssuedAt(r.key, r.host)
                /\ r.path = "/v1/shutdown" => <<r.host, r.host>> \in executed'
  <2>1. ASSUME NEW q \in requests, pair_repeated(h, q)
        PROVE  r.kind = "paired" /\ r \in issued
    <3>1. r \in host[h].completed
      BY <1>7, <2>1 DEF pair_repeated, Serve
    <3> QED
      BY <3>1, HostFacts, Zenon DEF KeysAreIssued, Results
  <2>2. ASSUME NEW q \in requests, request_accepted(h, q)
        PROVE  /\ r.kind = "answer" /\ IssuedAt(r.key, r.host)
               /\ r.path = "/v1/shutdown" => <<r.host, r.host>> \in executed'
    <3>1. r = Answer(h, q)
      BY <1>5, <1>7, <2>2
    <3>2. r.kind = "answer" /\ r.key = q.key /\ r.host = h /\ r.path = q.kind
      BY <3>1 DEF Answer
    <3> QED
      BY <1>5, <2>2, <3>2, Zenon
  <2> QED
    BY <1>7, <2>1, <2>2, Zenon
    DEF finish_failed, pair_refused, request_failed, unauthorized,
        generate_pairing_code, restarted, Refuse
<1>8. KeysAreIssued'
  <2>1. \A k, g : IssuedAt(k, g) => IssuedAt(k, g)'
    BY <1>2, IssuedKept
  <2>2. \A g \in Hosts : host'[g].completed \subseteq issued'
    BY <1>2, <1>3, Zenon DEF KeysAreIssued
  <2>3. ASSUME NEW g \in Hosts, host'[g].credential # NoCredential
        PROVE  IssuedAt(host[g].credential, g)'
    BY <1>3, <2>1, <2>3 DEF KeysAreIssued
  <2>4. ASSUME NEW r \in replies'
        PROVE  /\ r.kind = "paired" => r \in issued'
               /\ r.kind = "answer" =>
                    /\ IssuedAt(r.key, r.host)'
                    /\ r.path = "/v1/shutdown"
                            => <<r.host, r.host>> \in executed'
    BY <1>2, <1>6, <1>7, <2>1, Zenon DEF KeysAreIssued
  <2>5. ASSUME NEW q \in requests', q.kind \in Paths
        PROVE  IssuedAt(q.key, q.meant)'
    BY <1>2, <2>1, <2>5, Zenon DEF KeysAreIssued
  <2> QED
    BY <2>2, <2>3, <2>4, <2>5, Zenon DEF KeysAreIssued
<1>9. CredentialsOnce' /\ ClientsKnow' /\ AnswersAreOwn'
  BY <1>2, <1>6, CredentialsKept, ClientsKept, AnswersKept
<1>10. OnlyTheMeantPCStops'
  BY <1>6 DEF OnlyTheMeantPCStops
<1> QED
  BY <1>1, <1>4, <1>8, <1>9, <1>10

\* Every step keeps the invariant.
LEMMA ExchangeStep ==
    ASSUME ExchangeInvariant, [Next]_vars
    PROVE  ExchangeInvariant'
<1>1. CASE UNCHANGED vars
  <2> USE <1>1 DEF vars, ExchangeInvariant
  <2>1. Typed' /\ ExchangesOnce'
    BY Zenon DEF Typed, ExchangesOnce
  <2>2. KeysAreIssued'
    BY DEF KeysAreIssued, IssuedAt
  <2>3. CredentialsOnce' /\ ClientsKnow' /\ AnswersAreOwn'
    BY CredentialsKept, ClientsKept, AnswersKept
  <2>4. OnlyTheMeantPCStops'
    BY DEF OnlyTheMeantPCStops
  <2> QED
    BY <2>1, <2>2, <2>3, <2>4
<1> QED
  BY <1>1, PairStep, ClientStep, StartStep, CommitStep, OtherHostStep DEF Next

\* The invariant holds in every reachable state.
LEMMA ExchangeInvariance == Spec => []ExchangeInvariant
  BY ExchangeInit, ExchangeStep, PTL DEF Spec
-----------------------------------------------------------------------------
(* The theorems *)

\* Whatever is lost, late, retried or answered by another PC, what a client
\* keeps was stored by the host it names, for this client (pair).
THEOREM SavedAlwaysIssued == Spec => []SavedWasIssued
<1>1. ExchangeInvariant => SavedWasIssued
  BY DEF ExchangeInvariant, ClientsKnow, ClientKnows, IssuedTo, SavedWasIssued
<1> QED
  BY <1>1, ExchangeInvariance, PTL

\* A retried exchange replaces the credential of a host once (finish, commit).
THEOREM OneCredentialAlways == Spec => []OneCredentialPerExchange
<1>1. ExchangeInvariant => OneCredentialPerExchange
  BY DEF ExchangeInvariant, CredentialsOnce
<1> QED
  BY <1>1, ExchangeInvariance, PTL

\* A host never ends up paired to a credential that its client cannot decrypt
\* (finish).
THEOREM IssuedAlwaysReadable == Spec => []IssuedIsReadable
<1>1. ExchangeInvariant => IssuedIsReadable
  BY DEF ExchangeInvariant, CredentialsOnce
<1> QED
  BY <1>1, ExchangeInvariance, PTL

\* An accepted answer was made for its request by the PC that was meant, and a
\* confirmed shutdown has been executed (verify_response, shutdown).
THEOREM AnswersAlwaysOwn == Spec => []AnswersAreOwn
<1>1. ExchangeInvariant => AnswersAreOwn
  BY DEF ExchangeInvariant
<1> QED
  BY <1>1, ExchangeInvariance, PTL

\* No PC stops for a request that was meant for another (authenticate).
THEOREM OnlyTheMeantPCEverStops == Spec => []OnlyTheMeantPCStops
<1>1. ExchangeInvariant => OnlyTheMeantPCStops
  BY DEF ExchangeInvariant
<1> QED
  BY <1>1, ExchangeInvariance, PTL

\* A credential is known to one host and one client: a PC is never stopped, and
\* a Deck never paired, through what another one holds (finish, pair).
THEOREM CredentialsNeverShared == Spec => []CredentialsNotShared
<1>1. ExchangeInvariant => CredentialsNotShared
  <2> SUFFICES ASSUME ExchangeInvariant PROVE CredentialsNotShared
    OBVIOUS
  <2>0. \A i, j \in issued : i.key = j.key => i = j
    BY DEF ExchangeInvariant, CredentialsOnce
  <2>1. ASSUME NEW g \in Hosts, NEW h \in Hosts,
               host[g].credential = host[h].credential,
               host[g].credential # NoCredential
        PROVE  g = h
    <3>1. /\ IssuedAt(host[g].credential, g)
          /\ IssuedAt(host[g].credential, h)
      BY <2>1 DEF ExchangeInvariant, KeysAreIssued
    <3> QED
      BY <2>0, <3>1 DEF IssuedAt
  <2>2. ASSUME NEW c \in Clients, NEW d \in Clients,
               NEW s \in saved[c], NEW t \in saved[d], s.key = t.key
        PROVE  c = d /\ s.host = t.host
    <3>1. IssuedTo(s.key, s.host, c) /\ IssuedTo(s.key, t.host, d)
      BY <2>2 DEF ExchangeInvariant, ClientsKnow, ClientKnows
    <3> QED
      BY <2>0, <3>1 DEF IssuedTo
  <2> QED
    BY <2>1, <2>2 DEF CredentialsNotShared
<1> QED
  BY <1>1, ExchangeInvariance, PTL
-----------------------------------------------------------------------------
(* The code of a host and its exchanges *)

\* A host state whose exchanges were opened with the code in memory, and whose
\* answer for a retry carries the stored credential.
Coherent(h, s) ==
    /\ \A x \in DOMAIN s.pending : s.pending[x] = Usable(s) /\ Usable(s) # NoCode
    /\ \A r \in s.completed : r.host = h /\ r.key = s.credential

HostsCoherent == \A h \in Hosts : Coherent(h, host[h])

Replaces == \A h \in Hosts :
              host'[h].credential # host[h].credential => UsesCode(h)

\* A step of one host that keeps its credential.
LEMMA OneHost ==
    ASSUME Typed, HostsCoherent, NEW h \in Hosts, NEW s,
           host' = [host EXCEPT ![h] = s], Coherent(h, s),
           s.credential = host[h].credential
    PROVE  HostsCoherent' /\ Replaces
<1>1. \A g \in Hosts : host'[g] = IF g = h THEN s ELSE host[g]
  BY DEF Typed
<1>2. \A g \in Hosts : Coherent(g, host'[g])
  BY <1>1 DEF HostsCoherent
<1>3. \A g \in Hosts : host'[g].credential = host[g].credential
  BY <1>1
<1> QED
  BY <1>2, <1>3 DEF HostsCoherent, Coherent, Replaces

\* A step that stores the credential of a confirmed exchange.
LEMMA OnePairing ==
    ASSUME Typed, HostsCoherent, NEW h \in Hosts, NEW q \in requests,
           NEW k \in Credentials, NEW s, Confirmed(h, q),
           issued' = issued \cup {PairingResult(h, q, k)},
           host' = [host EXCEPT ![h] = s],
           s.credential = k, s.code = NoCode, s.pending = NoExchanges,
           s.completed \subseteq {PairingResult(h, q, k)}
    PROVE  HostsCoherent' /\ Replaces
<1> DEFINE r == PairingResult(h, q, k)
<1>1. r.session = q.session /\ r.key = k /\ r.host = h
  BY DEF PairingResult
<1> HIDE DEF r
<1>2. r \in issued' /\ s.completed \subseteq {r}
  BY DEF r
<1>3. opened[q.session].code = Usable(host[h]) /\ Usable(host[h]) # NoCode
  <2>1. /\ q.session \in DOMAIN host[h].pending
        /\ opened[q.session].code = host[h].pending[q.session]
    BY DEF Confirmed, Confirms
  <2> QED
    BY <2>1 DEF HostsCoherent, Coherent
<1>4. host'[h] = s /\ \A g \in Hosts \ {h} : host'[g] = host[g]
  BY DEF Typed
<1>5. UsesCode(h)
  BY <1>1, <1>2, <1>3, <1>4 DEF UsesCode
<1>6. Coherent(h, s)
  BY <1>1, <1>2, NoExchangesFacts DEF Coherent
<1>7. \A g \in Hosts : Coherent(g, host'[g])
  BY <1>4, <1>6 DEF HostsCoherent
<1>8. Replaces
  BY <1>4, <1>5 DEF Replaces
<1> QED
  BY <1>7, <1>8 DEF HostsCoherent, Coherent

\* A host without exchanges and answers is coherent.
LEMMA EmptyCoherent ==
    ASSUME NEW h, NEW s, s.pending = NoExchanges, s.completed = {}
    PROVE  Coherent(h, s)
BY NoExchangesFacts DEF Coherent

\* Opening an exchange with the code in memory.
LEMMA OpenedCoherent ==
    ASSUME NEW map, NEW x, NEW code, \A y \in DOMAIN map : map[y] = code
    PROVE  \A y \in DOMAIN Opened(map, x, code) : Opened(map, x, code)[y] = code
BY DEF Opened

\* Every step keeps hosts coherent and replaces a credential by a code only.
LEMMA CoherentStep ==
    ASSUME Typed, HostsCoherent, [Next]_vars
    PROVE  HostsCoherent' /\ [Replaces]_vars
<1>1. CASE host' = host
  BY <1>1 DEF HostsCoherent, Coherent, Replaces
<1>2. ASSUME NEW h \in Hosts
      PROVE  host[h] \in HostStates /\ Coherent(h, host[h])
  BY DEF Typed, HostsCoherent
<1>3. ASSUME NEW h \in Hosts, NEW q \in requests, start_for_source(h, q)
      PROVE  HostsCoherent' /\ Replaces
  <2> DEFINE c == Usable(host[h])
             s == [host[h] EXCEPT !.pending = Opened(@, q.exchange, c)]
  <2>1. /\ s.pending = Opened(host[h].pending, q.exchange, c)
        /\ Usable(s) = c /\ s.completed = host[h].completed
        /\ s.credential = host[h].credential
    BY <1>2 DEF HostStates, Usable
  <2>2. host' = [host EXCEPT ![h] = s] /\ c # NoCode
    BY <1>3 DEF start_for_source, Usable
  <2>0. \A x \in DOMAIN host[h].pending : host[h].pending[x] = c
    BY <1>2 DEF Coherent
  <2> HIDE DEF s, c
  <2>3. \A x \in DOMAIN s.pending : s.pending[x] = c
    <3>1. \A x \in DOMAIN host[h].pending : host[h].pending[x] = c
      BY <2>0
    <3> DEFINE map == Opened(host[h].pending, q.exchange, c)
    <3>2. \A x \in DOMAIN map : map[x] = c
      BY <3>1, OpenedCoherent, Zenon
    <3> HIDE DEF map
    <3>3. s.pending = map
      BY <2>1 DEF map
    <3> QED
      BY <3>2, <3>3
  <2>4. Coherent(h, s)
    BY <1>2, <2>1, <2>2, <2>3 DEF Coherent
  <2> QED
    BY <2>1, <2>2, <2>4, OneHost, Zenon
<1>4. ASSUME NEW h \in Hosts, NEW q \in requests, NEW k \in Credentials,
             \/ pair_succeeded(h, q, k) \/ pair_crashed(h, q, k)
             \/ pair_panicked(h, q, k)
      PROVE  HostsCoherent' /\ Replaces
  <2> DEFINE r == PairingResult(h, q, k)
  <2>1. Confirmed(h, q) /\ issued' = issued \cup {r}
    BY <1>4, StoredFacts
  <2>2. PICK done \in SUBSET {r}, spent \in Codes \cup {NoCode},
             late \in SUBSET Exchanges :
          host' = [host EXCEPT ![h] = Paired(k, done, spent, late)]
    BY <1>4, StoredFacts, Zenon
  <2> DEFINE s == Paired(k, done, spent, late)
  <2>3. /\ s.credential = k /\ s.code = NoCode
        /\ s.pending = NoExchanges /\ s.completed \subseteq {r}
    <3>1. done \subseteq {r}
      BY <2>2
    <3> QED
      BY <3>1 DEF Paired
  <2>4. host' = [host EXCEPT ![h] = s]
    BY <2>2
  <2> HIDE DEF s
  <2> QED
    BY <2>1, <2>3, <2>4, OnePairing, Zenon
<1>6. ASSUME NEW h \in Hosts, NEW q \in requests, finish_failed(h, q)
      PROVE  HostsCoherent' /\ Replaces
  <2> DEFINE s == [host[h] EXCEPT !.pending = Closed(@, q.session)]
  <2>1. /\ s.pending = Closed(host[h].pending, q.session)
        /\ Usable(s) = Usable(host[h]) /\ s.completed = host[h].completed
        /\ s.credential = host[h].credential
    BY <1>2 DEF HostStates, Usable
  <2>2. host' = [host EXCEPT ![h] = s]
    BY <1>6 DEF finish_failed
  <2> HIDE DEF s
  <2>3. \A x \in DOMAIN s.pending : /\ x \in DOMAIN host[h].pending
                                    /\ s.pending[x] = host[h].pending[x]
    BY <2>1 DEF Closed
  <2>4. Coherent(h, s)
    BY <1>2, <2>1, <2>3, Zenon DEF Coherent
  <2> QED
    BY <2>1, <2>2, <2>4, OneHost, Zenon
<1>7. ASSUME NEW h \in Hosts, restarted(h) PROVE HostsCoherent' /\ Replaces
  <2> DEFINE s == [host[h] EXCEPT !.pending = NoExchanges, !.completed = {},
                                  !.spent = NoCode, !.late = {}]
  <2>1. /\ s.pending = NoExchanges /\ s.completed = {}
        /\ s.credential = host[h].credential
    BY <1>2 DEF HostStates
  <2>2. host' = [host EXCEPT ![h] = s]
    BY <1>7, Zenon DEF restarted, Typed
  <2> HIDE DEF s
  <2> QED
    BY <2>1, <2>2, EmptyCoherent, OneHost, Zenon
<1>8. ASSUME NEW h \in Hosts, NEW code \in Codes, generate_pairing_code(h, code)
       PROVE  HostsCoherent' /\ Replaces
  <2> DEFINE s == [host[h] EXCEPT !.code = code, !.pending = NoExchanges,
                                  !.completed = {}, !.spent = NoCode,
                                  !.late = {}]
  <2>1. /\ s.pending = NoExchanges /\ s.completed = {}
        /\ s.credential = host[h].credential
    BY <1>2 DEF HostStates
  <2>2. host' = [host EXCEPT ![h] = s]
    BY <1>8, Zenon DEF generate_pairing_code, Typed
  <2> HIDE DEF s
  <2> QED
    BY <2>1, <2>2, EmptyCoherent, OneHost, Zenon
<1>9. ASSUME NEW c \in Clients,
             \/ \E x \in Exchanges, code \in Codes : pair(c, x, code)
             \/ \E r \in replies : \/ pair_started(c, r) \/ pair_completed(c, r)
                                   \/ post_answered(c, r)
             \/ pair_retried(c) \/ pair_failed(c) \/ pair_saved(c)
             \/ \E n \in Nonces, path \in Paths : sign(c, n, path)
             \/ post_failed(c)
      PROVE  host' = host
  BY <1>9, Zenon
  DEF pair, pair_started, pair_completed, post_answered, pair_retried,
      pair_failed, pair_saved, sign, post_failed
<1>10. ASSUME NEW h \in Hosts, NEW q \in requests,
             \/ pair_repeated(h, q) \/ pair_refused(h, q)
             \/ request_accepted(h, q) \/ request_failed(h, q)
             \/ unauthorized(h, q)
      PROVE  host' = host
  BY <1>10
  DEF pair_repeated, pair_refused, request_accepted, request_failed,
      unauthorized
<1>11. CASE UNCHANGED vars
  BY <1>1, <1>11 DEF vars
<1> QED
  BY <1>1, <1>3, <1>4, <1>6, <1>7, <1>8, <1>9, <1>10, <1>11 DEF Next

LEMMA Coherence == Spec => []HostsCoherent /\ [][Replaces]_vars
<1>1. Init => HostsCoherent
  <2> SUFFICES ASSUME Init, NEW h \in Hosts PROVE Coherent(h, host[h])
    BY DEF HostsCoherent
  <2>1. PICK code \in [Hosts -> Codes] :
          host = [g \in Hosts |->
                    [credential |-> NoCredential, code |-> code[g],
                     pending |-> NoExchanges, completed |-> {},
                     spent |-> NoCode, late |-> {}]]
    BY Zenon DEF Init
  <2>2. host[h].pending = NoExchanges /\ host[h].completed = {}
    BY <2>1
  <2> QED
    BY <2>2, EmptyCoherent
<1>2. ExchangeInvariant => Typed
  BY DEF ExchangeInvariant
<1>3. Typed /\ HostsCoherent /\ [Next]_vars => HostsCoherent' /\ [Replaces]_vars
  BY CoherentStep
<1> QED
  BY <1>1, <1>2, <1>3, ExchangeInvariance, PTL DEF Spec

\* A retry is answered the credential that the host has stored, after any
\* sequence of pairings, new codes and restarts (commit, pair).
THEOREM RetriesAlwaysStored == Spec => []RetriesAnswerStored
<1>1. HostsCoherent => RetriesAnswerStored
  BY DEF HostsCoherent, Coherent, RetriesAnswerStored
<1> QED
  BY <1>1, Coherence, PTL

\* Only a client that has typed the code in memory replaces the credential:
\* the one on display, which is used up with it, or the used one that a panic
\* of commit has left usable.  No exchange survives its code
\* (start_for_source, finish, commit, generate_pairing_code).
THEOREM PairingUsesCurrentCode == Spec => PairedWithCurrentCode
  BY Coherence, PTL DEF PairedWithCurrentCode, Replaces
=============================================================================

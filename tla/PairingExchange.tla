-------------------------- MODULE PairingExchange --------------------------
(***************************************************************************)
(* Clients and hosts over the network: pair, status and shutdown of the    *)
(* Deck (client.py) and of the test client (tools/decky-my-rig-test), and  *)
(* the answers of server.rs, while requests and replies are lost, late or  *)
(* delivered to the wrong request, hosts restart and fail to save, codes   *)
(* are replaced, and the address of a PC comes to belong to another one.   *)
(*                                                                         *)
(* Cryptography is symbolic.  An exchange is the client's SPAKE2 message;  *)
(* it is also the session that a host opens for it.  Both ends derive the  *)
(* same key if they used the same two messages and the same code.  What    *)
(* HMAC and the AEAD cover is compared field by field, as WireMessages     *)
(* shows that the signed bytes do.                                         *)
(*                                                                         *)
(* A request goes to whatever PC has the address by then, and is served at *)
(* any later time, or never.  A reply stays on the network and may be      *)
(* taken for any reply that is waited for.  A host serves a request in one *)
(* step: its locks, clocks and limits are in HostPairing and RequestAuth,  *)
(* and here it may refuse any request.  Its uptime is not modelled: any    *)
(* commit may be one that panics because the PC was booted too recently.   *)
(***************************************************************************)
EXTENDS FiniteSets

CONSTANTS
    Hosts,
    Decks,          \* clients that retry the final request (client.py)
    Tools,          \* clients that do not (decky-my-rig-test)
    Codes,
    Exchanges,      \* client messages of SPAKE2
    Credentials,
    Nonces,         \* of signed requests
    NoCode,
    NoCredential

ASSUME NoneAssumption ==
    NoCode \notin Codes /\ NoCredential \notin Credentials

Clients == Decks \cup Tools

VARIABLES
    host,           \* host -> credential, outstanding code, exchanges, and
                    \* the used code with the starts that may still use it
    client,         \* client -> how far its operation is
    saved,          \* client -> the host and key in its file, if it can be read
    opened,         \* exchange -> the client that opened it, and its code
    used,           \* nonces of signed requests so far
    requests,       \* requests on the way
    replies,        \* every reply so far
    issued,         \* every credential that a host has stored
    executed,       \* <<host, host that its sender has paired with>>
    outcome         \* the last answer that a client accepted, and its request

vars == <<host, client, saved, opened, used, requests, replies,
          issued, executed, outcome>>

Paths == {"/v1/status", "/v1/shutdown"}

Idle == [pc |-> "idle"]
-----------------------------------------------------------------------------
(* Helpers *)

NoExchanges == [x \in {} |-> NoCode]

Send(q) == requests' = requests \cup {q}

\* A request is served once; its reply is on the way from then on.
Serve(q, r) ==
    /\ q \in requests
    /\ requests' = requests \ {q}
    /\ replies' = replies \cup {r}

\* An error response carries nothing.  Whoever gets it, on time or late, fails,
\* which it may also do without a reply; and a request that was refused is as
\* one that has not been served.
Refuse(q) == q \in requests /\ UNCHANGED <<requests, replies>>

\* 32 random bytes.
Fresh(k) == \A i \in issued : i.key # k

Ends(c) == client' = [client EXCEPT ![c] = Idle]

\* HashMap::insert and remove.
Opened(map, x, entry) ==
    [y \in DOMAIN map \cup {x} |-> IF y = x THEN entry ELSE map[y]]

Closed(map, x) == [y \in DOMAIN map \ {x} |-> map[y]]

\* The confirmation covers both SPAKE2 messages and the session under the
\* shared key, so it verifies if the client answered the session that was
\* opened for its own message, with the same code.
Confirms(q, pending) ==
    /\ q.exchange = q.session
    /\ opened[q.exchange].code = pending[q.session]

\* The code in memory, as long as it starts exchanges: the one on display, or
\* the used one that a panic of commit did not backdate.
Usable(s) == IF s.code # NoCode THEN s.code ELSE s.spent

\* The exchanges of the starts that are on the way.
Starting == {q.exchange : q \in {p \in requests : p.kind = "start"}}

\* A final request that finish prepares a credential for.
Confirmed(h, q) ==
    /\ q.kind = "final"
    /\ q.session \in DOMAIN host[h].pending
    /\ Confirms(q, host[h].pending)

\* The credential k, encrypted for the exchange and the code of the host, and
\* the reply of pairing_response that carries it.
PairingResult(h, q, k) ==
    [kind |-> "paired", host |-> h, session |-> q.session, key |-> k,
     code |-> host[h].pending[q.session]]

\* Faulty variant: the key does not depend on the messages of the exchange.
Decrypts_any_exchange(c, r) == r.code = opened[client[c].exchange].code

\* ChaCha20Poly1305.decrypt with credential_aad: the reply was encrypted for
\* the exchange and the code that this client has used.
Decrypts(c, r) ==
    /\ client[c].exchange = client[c].session
    /\ r.session = client[c].session
    /\ r.code = opened[client[c].exchange].code

\* Faulty variant: the nonce of the request is not covered.
verify_response_any_nonce(c, r) ==
    /\ r.kind = "answer"
    /\ r.key = client[c].key
    /\ r.path = client[c].path

verify_response(c, r) ==
    /\ r.kind = "answer"
    /\ r.key = client[c].key
    /\ r.nonce = client[c].nonce
    /\ r.path = client[c].path
-----------------------------------------------------------------------------
(* pair of a client *)

\* The user types a code: the one on display, an old one, or another PC's.
pair(c, x, code) ==
    /\ client[c].pc = "idle"
    /\ x \notin DOMAIN opened
    /\ opened' = Opened(opened, x, [client |-> c, code |-> code])
    /\ client' = [client EXCEPT ![c] = [pc |-> "start", exchange |-> x]]
    /\ Send([kind |-> "start", exchange |-> x])
    /\ UNCHANGED <<host, saved, used, replies, issued, executed, outcome>>

\* The final request; the retry of it is the same but for the connection.
FinalRequest(x, s, try) ==
    [kind |-> "final", exchange |-> x, session |-> s, try |-> try]

pair_started(c, r) ==
    /\ client[c].pc = "start"
    /\ r \in replies /\ r.kind = "started"
    /\ client' = [client EXCEPT
                    ![c] = [pc |-> "finish", exchange |-> @.exchange,
                            session |-> r.session, try |-> 1]]
    /\ Send(FinalRequest(client[c].exchange, r.session, 1))
    /\ UNCHANGED <<host, saved, opened, used, replies, issued, executed,
                   outcome>>

\* _complete_pairing: no reply in time, and the same body is sent once more.
pair_retried(c) ==
    /\ c \in Decks
    /\ client[c].pc = "finish" /\ client[c].try = 1
    /\ client' = [client EXCEPT ![c].try = 2]
    /\ Send(FinalRequest(client[c].exchange, client[c].session, 2))
    /\ UNCHANGED <<host, saved, opened, used, replies, issued, executed,
                   outcome>>

\* A reply to the final request that the client can decrypt.
pair_completed(c, r) ==
    /\ client[c].pc = "finish"
    /\ r \in replies /\ r.kind = "paired"
    /\ Decrypts(c, r)
    /\ client' = [client EXCEPT ![c] = [pc |-> "save", host |-> r.host,
                                        key |-> r.key]]
    /\ UNCHANGED <<host, saved, opened, used, requests, replies, issued,
                   executed, outcome>>

\* No reply and no retry left, an error response, or a reply that cannot be
\* decrypted.
pair_failed(c) ==
    /\ client[c].pc \in {"start", "finish"}
    /\ Ends(c)
    /\ UNCHANGED <<host, saved, opened, used, requests, replies, issued,
                   executed, outcome>>

\* mark_paired replaces the entry or leaves it (DeckStore);
\* write_credential_file truncates the file before it writes.
pair_saved(c) ==
    /\ client[c].pc = "save"
    /\ \/ saved' = [saved EXCEPT ![c] = {[host |-> client[c].host,
                                          key |-> client[c].key]}]
       \/ UNCHANGED saved
       \/ c \in Tools /\ saved' = [saved EXCEPT ![c] = {}]
    /\ Ends(c)
    /\ UNCHANGED <<host, opened, used, requests, replies, issued, executed,
                   outcome>>
-----------------------------------------------------------------------------
(* status and shutdown of a client *)

\* A request is signed with the saved credential and a random nonce.
sign(c, n, path) ==
    /\ client[c].pc = "idle"
    /\ n \notin used
    /\ used' = used \cup {n}
    /\ \E s \in saved[c] :
        /\ client' = [client EXCEPT
                        ![c] = [pc |-> "signed", nonce |-> n, path |-> path,
                                key |-> s.key, host |-> s.host]]
        /\ Send([kind |-> path, nonce |-> n, key |-> s.key, meant |-> s.host])
    /\ UNCHANGED <<host, saved, opened, replies, issued, executed, outcome>>

\* _verify_reply, then the status; status compares the host_id as well.
post_answered(c, r) ==
    /\ client[c].pc = "signed"
    /\ r \in replies
    /\ verify_response(c, r)
    /\ client[c].path = "/v1/status" => r.host = client[c].host
    /\ outcome' = {[request |-> client[c], reply |-> r]}
    /\ Ends(c)
    /\ UNCHANGED <<host, saved, opened, used, requests, replies, issued,
                   executed>>

\* integrity, identity or unavailable.
post_failed(c) ==
    /\ client[c].pc = "signed"
    /\ Ends(c)
    /\ UNCHANGED <<host, saved, opened, used, requests, replies, issued,
                   executed, outcome>>
-----------------------------------------------------------------------------
(* The host: POST /v1/pair *)

\* A start is served with the code on display, or with the used one that a
\* panic has left usable, if it passed the AlreadyPaired test before that.
start_for_source(h, q) ==
    /\ q.kind = "start"
    /\ \/ host[h].code # NoCode
       \/ host[h].spent # NoCode /\ q.exchange \in host[h].late
    /\ Serve(q, [kind |-> "started", session |-> q.exchange])
    /\ host' = [host EXCEPT
                  ![h].pending = Opened(@, q.exchange, Usable(host[h]))]
    /\ UNCHANGED <<client, saved, opened, used, issued, executed, outcome>>

\* Faulty variant: the exchange stays pending and is not kept for retries.
Committed_forgotten(h, r) ==
    [host[h] EXCEPT !.credential = r.key, !.code = NoCode]

\* A host that has stored a new credential, with the results kept for retries
\* and what is left of the used code.
Paired(k, done, spent, late) ==
    [credential |-> k, code |-> NoCode, pending |-> NoExchanges,
     completed |-> done, spent |-> spent, late |-> late]

\* The saved identity and the pairing code after commit.
Committed(h, r) == Paired(r.key, {r}, NoCode, {})

\* finish with the right confirmation: the new credential is saved, the
\* exchange committed and the result answered.
pair_succeeded(h, q, k) ==
    /\ Confirmed(h, q) /\ Fresh(k)
    /\ Serve(q, PairingResult(h, q, k))
    /\ issued' = issued \cup {PairingResult(h, q, k)}
    /\ host' = [host EXCEPT ![h] = Committed(h, PairingResult(h, q, k))]
    /\ UNCHANGED <<client, saved, opened, used, executed, outcome>>

\* The process dies after the save: no answer, and nothing kept for a retry.
pair_crashed(h, q, k) ==
    /\ Confirmed(h, q) /\ Fresh(k)
    /\ requests' = requests \ {q}
    /\ issued' = issued \cup {PairingResult(h, q, k)}
    /\ host' = [host EXCEPT ![h] = Paired(k, {}, NoCode, {})]
    /\ UNCHANGED <<client, saved, opened, used, replies, executed, outcome>>

\* commit panics after all but the backdating of the code: no answer, and
\* the starts on the way may have passed the AlreadyPaired test.
pair_panicked(h, q, k) ==
    /\ Confirmed(h, q) /\ Fresh(k)
    /\ requests' = requests \ {q}
    /\ issued' = issued \cup {PairingResult(h, q, k)}
    /\ host' = [host EXCEPT
                  ![h] = Paired(k, {PairingResult(h, q, k)}, Usable(host[h]),
                                IF host[h].code # NoCode
                                  THEN Starting ELSE host[h].late)]
    /\ UNCHANGED <<client, saved, opened, used, replies, executed, outcome>>

\* was_completed: the same confirmation gets the same answer.
pair_repeated(h, q) ==
    /\ q.kind = "final"
    /\ \E r \in host[h].completed :
        /\ r.session = q.session /\ q.exchange = q.session
        /\ Serve(q, r)
    /\ UNCHANGED <<host, client, saved, opened, used, issued, executed,
                   outcome>>

\* A wrong confirmation uses the exchange up.
finish_failed(h, q) ==
    /\ q.kind = "final"
    /\ q.session \in DOMAIN host[h].pending
    /\ ~Confirms(q, host[h].pending)
    /\ Refuse(q)
    /\ host' = [host EXCEPT ![h].pending = Closed(@, q.session)]
    /\ UNCHANGED <<client, saved, opened, used, issued, executed, outcome>>

\* AlreadyPaired, Expired or RateLimited; a session that is not known or was
\* completed with another confirmation; a credential that cannot be saved.
pair_refused(h, q) ==
    /\ q.kind \in {"start", "final"}
    /\ (q.kind = "final" /\ q.session \in DOMAIN host[h].pending)
            => Confirms(q, host[h].pending)
    /\ Refuse(q)
    /\ UNCHANGED <<host, client, saved, opened, used, issued, executed,
                   outcome>>
-----------------------------------------------------------------------------
(* The host: POST /v1/status and /v1/shutdown *)

\* Faulty variant: the signature is not compared.
authenticate_any(h, q) == q.kind \in Paths /\ host[h].credential # NoCredential

\* The request is signed with the credential that the host has stored.
authenticate(h, q) == q.kind \in Paths /\ host[h].credential = q.key

\* authenticated_protobuf: signed with the credential of the request, over its
\* nonce and path and a status of success.
Answer(h, q) ==
    [kind |-> "answer", host |-> h, key |-> q.key, nonce |-> q.nonce,
     path |-> q.kind]

\* status, or shutdown with the power controller's success.
request_accepted(h, q) ==
    /\ authenticate(h, q)
    /\ Serve(q, Answer(h, q))
    /\ executed' = IF q.kind = "/v1/shutdown"
                     THEN executed \cup {<<h, q.meant>>} ELSE executed
    /\ UNCHANGED <<host, client, saved, opened, used, issued, outcome>>

\* authenticated_error: another protocol version, or Windows rejects the
\* shutdown.  The status is signed, so the client knows it for a failure.
request_failed(h, q) ==
    /\ authenticate(h, q)
    /\ Refuse(q)
    /\ UNCHANGED <<host, client, saved, opened, used, issued, executed,
                   outcome>>

\* Signed with another credential, stale, rate limited or not recorded.
unauthorized(h, q) ==
    /\ q.kind \in Paths
    /\ Refuse(q)
    /\ UNCHANGED <<host, client, saved, opened, used, issued, executed,
                   outcome>>
-----------------------------------------------------------------------------
(* The host's operator and process *)

\* Faulty variant: the exchanges of the old code stay pending.
generate_pairing_code_keeping(h, code) ==
    /\ host' = [host EXCEPT ![h].code = code, ![h].completed = {},
                            ![h].spent = NoCode, ![h].late = {}]
    /\ UNCHANGED <<client, saved, opened, used, requests, replies, issued,
                   executed, outcome>>

generate_pairing_code(h, code) ==
    /\ host' = [host EXCEPT ![h].code = code, ![h].pending = NoExchanges,
                            ![h].completed = {},
                            ![h].spent = NoCode, ![h].late = {}]
    /\ UNCHANGED <<client, saved, opened, used, requests, replies, issued,
                   executed, outcome>>

\* The service starts again from the stored identity, or the exchanges pass
\* their lifetime and are pruned.
restarted(h) ==
    /\ host' = [host EXCEPT ![h].pending = NoExchanges, ![h].completed = {},
                            ![h].spent = NoCode, ![h].late = {}]
    /\ UNCHANGED <<client, saved, opened, used, requests, replies, issued,
                   executed, outcome>>
-----------------------------------------------------------------------------
Init ==
    /\ \E code \in [Hosts -> Codes] :
        host = [h \in Hosts |->
                  [credential |-> NoCredential, code |-> code[h],
                   pending |-> NoExchanges, completed |-> {},
                   spent |-> NoCode, late |-> {}]]
    /\ client = [c \in Clients |-> Idle]
    /\ saved = [c \in Clients |-> {}]
    /\ opened = NoExchanges
    /\ used = {}
    /\ requests = {}
    /\ replies = {}
    /\ issued = {}
    /\ executed = {}
    /\ outcome = {}

Next ==
    \/ \E c \in Clients :
        \/ \E x \in Exchanges, code \in Codes : pair(c, x, code)
        \/ \E r \in replies : \/ pair_started(c, r)
                              \/ pair_completed(c, r)
                              \/ post_answered(c, r)
        \/ pair_retried(c)
        \/ pair_failed(c)
        \/ pair_saved(c)
        \/ \E n \in Nonces, path \in Paths : sign(c, n, path)
        \/ post_failed(c)
    \/ \E h \in Hosts, q \in requests :
        \/ start_for_source(h, q)
        \/ \E k \in Credentials : \/ pair_succeeded(h, q, k)
                                  \/ pair_crashed(h, q, k)
                                  \/ pair_panicked(h, q, k)
        \/ pair_repeated(h, q)
        \/ finish_failed(h, q)
        \/ pair_refused(h, q)
        \/ request_accepted(h, q)
        \/ request_failed(h, q)
        \/ unauthorized(h, q)
    \/ \E h \in Hosts : \/ \E code \in Codes : generate_pairing_code(h, code)
                        \/ restarted(h)

Spec == Init /\ [][Next]_vars
-----------------------------------------------------------------------------
(* Properties *)

\* What a client keeps was stored by the host it names, in an exchange that
\* this client has opened: a lost, late or foreign reply never makes it keep a
\* credential that no host has, or somebody else's (pair of both clients, pair
\* of server.rs).
SavedWasIssued ==
    \A c \in Clients : \A s \in saved[c] :
        \E i \in issued : /\ i.key = s.key
                          /\ i.host = s.host
                          /\ opened[i.session].client = c

\* However often the final request is sent, served or retried, an exchange
\* replaces the credential of a host at most once (finish, commit,
\* _complete_pairing).
OneCredentialPerExchange ==
    \A i, j \in issued : i.session = j.session => i = j

\* A host replaces its credential only for a client that has typed the code of
\* the exchange and can decrypt the new one (finish).
IssuedIsReadable ==
    \A i \in issued : opened[i.session].code = i.code

\* An answer that a client accepts was made by the PC that it paired with, for
\* this very request; if it says that the PC shuts down, it does
\* (verify_response, authenticated_protobuf, shutdown).
AnswersAreOwn ==
    \A o \in outcome :
        /\ o.reply.nonce = o.request.nonce
        /\ o.reply.path = o.request.path
        /\ o.reply.host = o.request.host
        /\ o.request.path = "/v1/shutdown" =>
              <<o.request.host, o.request.host>> \in executed

\* A shutdown stops no PC but the one its sender has paired with, wherever the
\* address leads by then (authenticate).
OnlyTheMeantPCStops ==
    \A e \in executed : e[1] = e[2]

\* Two hosts never have the same credential, and two clients never keep the
\* same one or the same for two hosts (finish, pair of both clients).
CredentialsNotShared ==
    /\ \A g, h \in Hosts :
        host[g].credential = host[h].credential
            => g = h \/ host[g].credential = NoCredential
    /\ \A c, d \in Clients : \A s \in saved[c], t \in saved[d] :
        s.key = t.key => c = d /\ s.host = t.host

\* The answer that a host keeps for a retry carries the credential that it has
\* stored (commit, generate_pairing_code).
RetriesAnswerStored ==
    \A h \in Hosts : \A r \in host[h].completed :
        r.host = h /\ r.key = host[h].credential

\* The step uses the code in memory, for a client that has typed it.
UsesCode(h) ==
    /\ Usable(host[h]) # NoCode /\ host'[h].code = NoCode
    /\ \E i \in issued' : /\ i.host = h
                          /\ i.key = host'[h].credential
                          /\ opened[i.session].code = Usable(host[h])

\* A host replaces its credential only by using up the code on display, or by
\* using again the one that a panic of commit has left usable, and only for a
\* client that has typed that very code: an exchange does not outlive the code
\* it was opened with (start_for_source, finish, commit,
\* generate_pairing_code).
PairedWithCurrentCode ==
    [][\A h \in Hosts :
        host'[h].credential # host[h].credential => UsesCode(h)]_vars
=============================================================================

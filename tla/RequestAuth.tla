---------------------------- MODULE RequestAuth ----------------------------
(***************************************************************************)
(* Authentication of /v1/status and /v1/shutdown on the host: verify and   *)
(* failed of auth.rs, authenticate, record_client_version and shutdown of  *)
(* server.rs, with several requests in flight, duplicated and delayed      *)
(* requests, dropped handlers, failing saves, crashes and re-pairing.      *)
(*                                                                         *)
(* A signed request is its nonce: the signature covers the timestamp, the  *)
(* path and the body, so those are functions of the nonce.  The signature  *)
(* verifies exactly under the credential that made it.                     *)
(*                                                                         *)
(* A handler takes one step per mutex it waits for: a request reads the    *)
(* clock once before it waits for accepted_nonces (or failures) and again  *)
(* after it waited for identity.  The clock is SystemTime: besides running *)
(* on, it may be set back at any time, and what was pruned before is gone. *)
(***************************************************************************)
EXTENDS Integers, FiniteSets, Sequences

CONSTANTS
    Nonces,         \* one for each request a Deck may sign
    Credentials,
    Handlers,       \* requests the host serves at the same time
    CLOCK_WINDOW,   \* seconds
    FAILURE_LIMIT,  \* failures within a window before RateLimited
    MaxTime         \* the last second of the model

ASSUME AuthAssumption ==
    /\ CLOCK_WINDOW \in Nat
    /\ FAILURE_LIMIT \in Nat
    /\ MaxTime \in Nat

VARIABLES
    now,            \* now_unix()
    latest,         \* the latest that it has been, for the properties
    credential,     \* identity.credential of a paired host
    signed,         \* nonce -> path, timestamp and key of the signed request
    handler,        \* handler -> what it serves and how far it is
    seen,           \* Authenticator.accepted_nonces: nonce -> time
    failures,       \* Authenticator.failures
    recorded,       \* identity.accepted_shutdown_nonces
    stored,         \* the same list in the stored identity
    accepted,       \* nonces whose shutdown passed authenticate
    executed        \* nonce -> calls of power.shutdown, counted up to two

authVars == <<now, latest, credential, signed, handler, seen, failures,
              recorded, stored, accepted, executed>>

clock == <<now, latest>>

Times == 0..MaxTime

Paths == {"/v1/status", "/v1/shutdown"}

Request == [path : Paths, timestamp : Times, key : Credentials]

\* at is the clock reading that verify works with, 0 before and after it.
Idle == [pc |-> "idle"]

Serving ==
    [pc : {"credential", "failed", "nonces", "record", "version", "execute"},
     nonce : Nonces, at : Times]

TypeOK ==
    /\ now \in Times /\ latest \in Times /\ now <= latest
    /\ credential \in Credentials
    /\ DOMAIN signed \subseteq Nonces
    /\ \A n \in DOMAIN signed : signed[n] \in Request
    /\ DOMAIN handler = Handlers
    /\ \A h \in Handlers :
        handler[h] = Idle \/ (handler[h] \in Serving
                                /\ handler[h].nonce \in DOMAIN signed)
    /\ DOMAIN seen \subseteq Nonces
    /\ \A n \in DOMAIN seen : seen[n] \in Times
    /\ failures \in Seq(Times) /\ Len(failures) <= FAILURE_LIMIT
    /\ recorded \subseteq DOMAIN signed
    /\ stored \subseteq DOMAIN signed
    /\ accepted \subseteq DOMAIN signed
    /\ executed \in [Nonces -> 0..2]
-----------------------------------------------------------------------------
(* Helpers *)

\* abs_diff
WithinWindow(t, at) ==
    at - t <= CLOCK_WINDOW /\ t - at <= CLOCK_WINDOW

\* retain of accepted_nonces; saturating_sub keeps a time in the future.
Recent(nonces, at) ==
    [n \in {x \in DOMAIN nonces : at - nonces[x] <= CLOCK_WINDOW} |-> nonces[n]]

\* Faulty variant: a nonce is dropped in the last second of its window.
Unexpired_off_by_one(nonces) ==
    {n \in nonces : now - signed[n].timestamp < CLOCK_WINDOW}

\* retain of accepted_shutdown_nonces, at the time of the call.
Unexpired(nonces) ==
    {n \in nonces : now - signed[n].timestamp <= CLOCK_WINDOW}

\* pop_front while the oldest failure is outside the window: the queue is
\* left from its k-th element on.
DrainedTo(k, at) ==
    /\ \A i \in 1..(k - 1) : at - failures[i] > CLOCK_WINDOW
    /\ k <= Len(failures) => at - failures[k] <= CLOCK_WINDOW

At(h, pc) == handler[h].pc = pc

Moves(h, pc) == handler' = [handler EXCEPT ![h].pc = pc]

Ends(h) == handler' = [handler EXCEPT ![h] = Idle]

Nonce(h) == handler[h].nonce
-----------------------------------------------------------------------------
(* The Deck and the network *)

\* The Deck signs a request with the credential it was given; its clock may
\* be off.  The nonce is random: never used before.
sign(n, path, timestamp) ==
    /\ n \notin DOMAIN signed
    /\ signed' = [m \in DOMAIN signed \cup {n} |->
                    IF m = n THEN [path |-> path, timestamp |-> timestamp,
                                   key |-> credential]
                    ELSE signed[m]]
    /\ UNCHANGED <<clock, credential, handler, seen, failures, recorded, stored,
                   accepted, executed>>

\* A request arrives, perhaps late and perhaps again.
arrive(h, n) ==
    /\ At(h, "idle")
    /\ n \in DOMAIN signed
    /\ handler' = [handler EXCEPT
                     ![h] = [pc |-> "credential", nonce |-> n, at |-> 0]]
    /\ UNCHANGED <<clock, credential, signed, seen, failures, recorded, stored,
                   accepted, executed>>
-----------------------------------------------------------------------------
(* authenticate *)

\* The credential is copied, the clock is read, and the timestamp and the
\* signature are checked without waiting.
verify_checks(h) ==
    /\ At(h, "credential")
    /\ LET r == signed[Nonce(h)]
           ok == WithinWindow(r.timestamp, now) /\ r.key = credential
       IN  handler' = [handler EXCEPT
                         ![h].at = now,
                         ![h].pc = IF ok THEN "nonces" ELSE "failed"]
    /\ UNCHANGED <<clock, credential, signed, seen, failures, recorded, stored,
                   accepted, executed>>

\* Faulty variant: the queue of failures has no limit.
failed_unlimited(h) ==
    /\ At(h, "failed")
    /\ \E k \in 1..(Len(failures) + 1) :
        /\ DrainedTo(k, handler[h].at)
        /\ failures' = Append(SubSeq(failures, k, Len(failures)), handler[h].at)
    /\ Ends(h)
    /\ UNCHANGED <<clock, credential, signed, seen, recorded, stored, accepted,
                   executed>>

\* Stale and Invalid are counted, and are RateLimited when there are too many.
failed(h) ==
    /\ At(h, "failed")
    /\ \E k \in 1..(Len(failures) + 1) :
        LET queue == SubSeq(failures, k, Len(failures))
        IN  /\ DrainedTo(k, handler[h].at)
            /\ failures' = IF Len(queue) >= FAILURE_LIMIT THEN queue
                           ELSE Append(queue, handler[h].at)
    /\ Ends(h)
    /\ UNCHANGED <<clock, credential, signed, seen, recorded, stored, accepted,
                   executed>>

\* accepted_nonces is pruned and the nonce inserted; one that was there
\* already is a Replay, and its time is renewed.
verify_nonce(h) ==
    /\ At(h, "nonces")
    /\ LET n == Nonce(h)
           old == Recent(seen, handler[h].at)
       IN  /\ seen' = [m \in DOMAIN old \cup {n} |->
                         IF m = n THEN handler[h].at ELSE old[m]]
           /\ \/ n \in DOMAIN old /\ Ends(h)
              \/ /\ n \notin DOMAIN old
                 /\ handler' = [handler EXCEPT
                        ![h].at = 0,
                        ![h].pc = IF signed[n].path = "/v1/shutdown"
                                    THEN "record" ELSE "version"]
    /\ UNCHANGED <<clock, credential, signed, failures, recorded, stored,
                   accepted, executed>>

\* A nonce that is in the pruned list is a Replay; the pruning is not saved.
record_replay(h) ==
    /\ At(h, "record")
    /\ Nonce(h) \in Unexpired(recorded)
    /\ recorded' = Unexpired(recorded)
    /\ Ends(h)
    /\ UNCHANGED <<clock, credential, signed, seen, failures, stored, accepted,
                   executed>>

\* The nonce is pushed and the identity saved.
record_saved(h) ==
    /\ At(h, "record")
    /\ Nonce(h) \notin Unexpired(recorded)
    /\ recorded' = Unexpired(recorded) \cup {Nonce(h)}
    /\ stored' = recorded'
    /\ accepted' = accepted \cup {Nonce(h)}
    /\ Moves(h, "version")
    /\ UNCHANGED <<clock, credential, signed, seen, failures, executed>>

\* Faulty variant: the nonce is not popped.
record_failed_kept(h) ==
    /\ At(h, "record")
    /\ Nonce(h) \notin Unexpired(recorded)
    /\ recorded' = Unexpired(recorded) \cup {Nonce(h)}
    /\ Ends(h)
    /\ UNCHANGED <<clock, credential, signed, seen, failures, stored, accepted,
                   executed>>

\* The save fails: the nonce is popped and the request refused.
record_failed(h) ==
    /\ At(h, "record")
    /\ Nonce(h) \notin Unexpired(recorded)
    /\ recorded' = Unexpired(recorded)
    /\ Ends(h)
    /\ UNCHANGED <<clock, credential, signed, seen, failures, stored, accepted,
                   executed>>
-----------------------------------------------------------------------------
(* status and shutdown, after authenticate *)

\* Another media type, a malformed body or another protocol version.
refused(h) ==
    /\ At(h, "version")
    /\ Ends(h)
    /\ UNCHANGED <<clock, credential, signed, seen, failures, recorded, stored,
                   accepted, executed>>

\* A new client version saves the identity, with the list as it is in memory;
\* a known or unreadable one, or a failing save, leaves the stored list alone.
record_client_version == stored' \in {stored, recorded}

status(h) ==
    /\ At(h, "version") /\ signed[Nonce(h)].path = "/v1/status"
    /\ record_client_version
    /\ Ends(h)
    /\ UNCHANGED <<clock, credential, signed, seen, failures, recorded, accepted,
                   executed>>

\* shutdown up to the call of the power API.
shutdown_checked(h) ==
    /\ At(h, "version") /\ signed[Nonce(h)].path = "/v1/shutdown"
    /\ record_client_version
    /\ Moves(h, "execute")
    /\ UNCHANGED <<clock, credential, signed, seen, failures, recorded, accepted,
                   executed>>

\* power.shutdown
shutdown(h) ==
    /\ At(h, "execute")
    /\ executed' = [executed EXCEPT ![Nonce(h)] = IF @ < 2 THEN @ + 1 ELSE @]
    /\ Ends(h)
    /\ UNCHANGED <<clock, credential, signed, seen, failures, recorded, stored,
                   accepted>>
-----------------------------------------------------------------------------
(* Everything else *)

\* The connection closes, and axum drops the handler where it waits.
dropped(h) ==
    /\ handler[h].pc \in {"credential", "failed", "nonces", "record", "version"}
    /\ Ends(h)
    /\ UNCHANGED <<clock, credential, signed, seen, failures, recorded, stored,
                   accepted, executed>>

\* The final phase of pair: a new credential and an empty list are saved.
pair(k) ==
    /\ k # credential
    /\ \A n \in DOMAIN signed : signed[n].key # k
    /\ credential' = k
    /\ recorded' = {}
    /\ stored' = {}
    /\ UNCHANGED <<clock, signed, handler, seen, failures, accepted, executed>>

\* Faulty variant: the service starts with an empty list.
restart_forgetting ==
    /\ handler' = [h \in Handlers |-> Idle]
    /\ seen' = [n \in {} |-> 0]
    /\ failures' = <<>>
    /\ recorded' = {}
    /\ UNCHANGED <<clock, credential, signed, stored, accepted, executed>>

\* The process dies, or the machine goes down, and the service starts again.
restart ==
    /\ handler' = [h \in Handlers |-> Idle]
    /\ seen' = [n \in {} |-> 0]
    /\ failures' = <<>>
    /\ recorded' = stored
    /\ UNCHANGED <<clock, credential, signed, stored, accepted, executed>>

second ==
    /\ now < MaxTime
    /\ now' = now + 1
    /\ latest' = IF now < latest THEN latest ELSE now + 1
    /\ UNCHANGED <<credential, signed, handler, seen, failures, recorded,
                   stored, accepted, executed>>

\* The wall clock is set back.
clock_set_back(t) ==
    /\ t < now
    /\ now' = t
    /\ UNCHANGED <<latest, credential, signed, handler, seen, failures,
                   recorded, stored, accepted, executed>>
-----------------------------------------------------------------------------
Init ==
    /\ now = 0 /\ latest = 0
    /\ credential \in Credentials
    /\ signed = [n \in {} |-> 0]
    /\ handler = [h \in Handlers |-> Idle]
    /\ seen = [n \in {} |-> 0]
    /\ failures = <<>>
    /\ recorded = {}
    /\ stored = {}
    /\ accepted = {}
    /\ executed = [n \in Nonces |-> 0]

Next ==
    \/ \E n \in Nonces, path \in Paths, t \in Times : sign(n, path, t)
    \/ \E h \in Handlers, n \in Nonces : arrive(h, n)
    \/ \E h \in Handlers :
        \/ verify_checks(h) \/ failed(h) \/ verify_nonce(h)
        \/ record_replay(h) \/ record_saved(h) \/ record_failed(h)
        \/ refused(h) \/ status(h) \/ shutdown_checked(h) \/ shutdown(h)
        \/ dropped(h)
    \/ \E k \in Credentials : pair(k)
    \/ restart
    \/ second
    \/ \E t \in Times : clock_set_back(t)

Spec == Init /\ [][Next]_authVars
-----------------------------------------------------------------------------
(* Properties *)

\* A shutdown that was accepted is refused again as long as the clock has not
\* passed the window of its timestamp: until then its nonce stays in the list
\* in memory and in the stored one, over crashes, failing saves, prunings and
\* restarts, unless the credential is replaced (authenticate,
\* record_client_version, pair).  A clock that was past the window and is set
\* back into it finds the nonce pruned, so the latest reading counts.
AcceptedStaysRecorded ==
    \A n \in accepted :
        (/\ signed[n].key = credential
         /\ latest - signed[n].timestamp <= CLOCK_WINDOW)
            => n \in recorded \cap stored

\* A nonce that memory refuses is on disk as well: a failed save leaves
\* nothing behind (authenticate).
RecordedIsDurable == recorded \subseteq stored

\* A shutdown that was accepted before is accepted again only after the clock
\* has passed the window of its timestamp, while its handler waited for the
\* identity or before the clock was set back, or if the credential was replaced
\* meanwhile (the two clock readings and the retain of authenticate).
AcceptedAgainOnlyLate ==
    [][\A h \in Handlers :
        (record_saved(h) /\ Nonce(h) \in accepted) =>
            \/ latest > signed[Nonce(h)].timestamp + CLOCK_WINDOW
            \/ signed[Nonce(h)].key # credential]_authVars

\* No handler records a shutdown after the clock has passed the window of its
\* timestamp or the credential was replaced (the two clock readings of
\* authenticate).  Nothing in the code limits how long a handler waits for the
\* identity, or keeps the clock from being set back into the window.
RecordedInTime ==
    \A h \in Handlers :
        record_saved(h) =>
            /\ latest <= signed[Nonce(h)].timestamp + CLOCK_WINDOW
            /\ signed[Nonce(h)].key = credential

\* What the documentation promises: an accepted shutdown is never valid again,
\* restarts included.
ShutdownAtMostOnce == \A n \in Nonces : executed[n] <= 1
=============================================================================

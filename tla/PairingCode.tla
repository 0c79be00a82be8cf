---------------------------- MODULE PairingCode ----------------------------
(***************************************************************************)
(* The one-time pairing code of the host (host/src/pairing.rs): its age,   *)
(* the failed key confirmations counted per source, the exchanges that     *)
(* were started and not confirmed (pending), and the confirmed exchange    *)
(* kept for retries (completed).                                           *)
(*                                                                         *)
(* The cryptography is abstracted to what the code decides on: whether the *)
(* client's SPAKE2 message is well formed, and whether the confirmation    *)
(* MAC verifies.  Instants are kept as ages (Instant::elapsed), because    *)
(* the code only ever compares an age with PAIRING_LIFETIME; ages stop     *)
(* growing at Horizon, beyond every comparison.  An Instant of the Windows *)
(* build counts from boot, so an age larger than the uptime does not exist *)
(* and the subtraction that would produce it panics.  The uptime stops one *)
(* short of Horizon: an age at Horizon, of a code older than the boot, is  *)
(* more than any uptime.                                                   *)
(*                                                                         *)
(* Every operation takes &mut self, and the server calls it with the       *)
(* pairing mutex held, from finish to commit included.  An operation is    *)
(* therefore one step here.                                                *)
(***************************************************************************)
EXTENDS Integers, FiniteSets

CONSTANTS
    Sources,        \* peer addresses, Some(ip)
    NoSource,       \* None: a start without a peer address
    Sessions,       \* session ids
    Codes,          \* six-digit codes
    Credentials,    \* 32-byte credentials
    PAIRING_LIFETIME,
    MAX_CONFIRMATION_FAILURES,
    MAX_PENDING_SESSIONS,
    MAX_PENDING_SESSIONS_PER_SOURCE,
    MAX_FAILURE_SOURCES,
    MinUptime,      \* the least uptime at which the host process runs
    Horizon         \* the age at which the model stops counting

ASSUME LimitsAssumption ==
    /\ PAIRING_LIFETIME \in Nat \ {0}
    /\ MAX_CONFIRMATION_FAILURES \in Nat \ {0}
    /\ MAX_PENDING_SESSIONS \in Nat
    /\ MAX_PENDING_SESSIONS_PER_SOURCE \in Nat
    /\ MAX_FAILURE_SOURCES \in Nat \ {0}

Uptimes == 0..(Horizon - 1)

ASSUME HorizonAssumption ==
    /\ Horizon \in Nat
    /\ Horizon > 2 * PAIRING_LIFETIME
    /\ MinUptime \in Uptimes

ASSUME SourcesAssumption == IsFiniteSet(Sources) /\ NoSource \notin Sources

ASSUME SessionsAssumption == IsFiniteSet(Sessions)

VARIABLES
    uptime,         \* Instant::now(), counted from boot
    code,           \* PairingCode.code
    elapsed,        \* PairingCode.created.elapsed()
    failures,       \* confirmation_failures; 0 stands for an absent key
    pending,        \* session id -> source and age of an unconfirmed exchange
    completed,      \* session id -> credential and age of the confirmed one
    panicked        \* the last commit panicked and did not spend the code,
                    \* for the properties

pairingVars == <<uptime, code, elapsed, failures, pending, completed, panicked>>

Origins == Sources \cup {NoSource}

Ages == 0..Horizon

PendingPairing == [source : Origins, elapsed : Ages]

CompletedPairing == [credential : Credentials, elapsed : Ages]

NoSessions == [s \in {} |-> 0]

TypeOK ==
    /\ uptime \in MinUptime..(Horizon - 1)
    /\ code \in Codes
    /\ elapsed \in Ages
    /\ failures \in [Origins -> 0..255]
    /\ DOMAIN pending \subseteq Sessions
    /\ \A s \in DOMAIN pending : pending[s] \in PendingPairing
    /\ DOMAIN completed \subseteq Sessions
    /\ \A s \in DOMAIN completed : completed[s] \in CompletedPairing
    /\ panicked \in BOOLEAN
-----------------------------------------------------------------------------
(* Helpers *)

Expired == elapsed > PAIRING_LIFETIME

\* HashMap::retain with the age test of prune_sessions.
Live(sessions) ==
    [s \in {x \in DOMAIN sessions : sessions[x].elapsed <= PAIRING_LIFETIME}
        |-> sessions[s]]

\* HashMap::insert
Insert(sessions, s, entry) ==
    [x \in DOMAIN sessions \cup {s} |-> IF x = s THEN entry ELSE sessions[x]]

\* HashMap::remove
Remove(sessions, s) == [x \in DOMAIN sessions \ {s} |-> sessions[x]]

prune_sessions ==
    /\ pending' = Live(pending)
    /\ completed' = Live(completed)

\* The exchanges of one source in a map of exchanges.
Of(sessions, source) ==
    {s \in DOMAIN sessions : sessions[s].source = source}

FailureSources == {o \in Origins : failures[o] > 0}

\* Faulty variant: any number of sources may fail.
RateLimited_any_source(source) ==
    \/ failures[source] >= MAX_CONFIRMATION_FAILURES
    \/ Cardinality(DOMAIN Live(pending)) >= MAX_PENDING_SESSIONS
    \/ source # NoSource
        /\ Cardinality(Of(Live(pending), source))
            >= MAX_PENDING_SESSIONS_PER_SOURCE

RateLimited(source) ==
    \/ failures[source] >= MAX_CONFIRMATION_FAILURES
    \/ /\ source \notin FailureSources
       /\ Cardinality(FailureSources) >= MAX_FAILURE_SOURCES
    \/ Cardinality(DOMAIN Live(pending)) >= MAX_PENDING_SESSIONS
    \/ /\ source # NoSource
       /\ Cardinality(Of(Live(pending), source))
            >= MAX_PENDING_SESSIONS_PER_SOURCE

saturating_add(n) == IF n < 255 THEN n + 1 ELSE 255

Older(age) == IF age < Horizon THEN age + 1 ELSE age

Aged(sessions) ==
    [s \in DOMAIN sessions |->
        [sessions[s] EXCEPT !.elapsed = Older(sessions[s].elapsed)]]
-----------------------------------------------------------------------------
(* Operations *)

\* A code of the given age with nothing counted against it: generate
\* (age 0) and from_code_with_age.
NewCode(c, age) ==
    /\ code' = c
    /\ elapsed' = age
    /\ failures' = [o \in Origins |-> 0]
    /\ pending' = NoSessions
    /\ completed' = NoSessions
    /\ panicked' = FALSE

\* Faulty variant: the new code keeps the confirmed exchange of the old one.
generate_keeping_completed(c) ==
    /\ code' = c
    /\ elapsed' = 0
    /\ failures' = [o \in Origins |-> 0]
    /\ pending' = NoSessions
    /\ panicked' = FALSE
    /\ UNCHANGED <<uptime, completed>>

generate(c) == NewCode(c, 0) /\ UNCHANGED uptime

\* Faulty variant: the age is subtracted as it is.
CappedAge_uncapped(age) == age

\* The age is capped one second past the lifetime before it is subtracted.
CappedAge(age) ==
    IF age <= PAIRING_LIFETIME + 1 THEN age ELSE PAIRING_LIFETIME + 1

\* A stored code that is not six digits, in an edited file, is an Err and
\* ends the start: the codes that the host stores all are.
from_code_with_age(c, age) ==
    /\ CappedAge(age) <= uptime
    /\ NewCode(c, CappedAge(age))
    /\ UNCHANGED uptime

\* regenerate draws again until the code differs from the previous one.
regenerate(c) == c # code /\ generate(c)

\* Err(Expired) comes before any pruning.
start_expired ==
    /\ Expired
    /\ UNCHANGED pairingVars

\* Err(RateLimited), and Err(Invalid) for a malformed SPAKE2 message.
start_refused(source, wellFormed) ==
    /\ ~Expired
    /\ RateLimited(source) \/ ~wellFormed
    /\ prune_sessions
    /\ UNCHANGED <<uptime, code, elapsed, failures, panicked>>

\* Faulty variant: the age of the code is not tested.
start_for_source_any_age(source, s) ==
    /\ ~RateLimited(source)
    /\ s \notin DOMAIN pending \cup DOMAIN completed
    /\ pending' = Insert(Live(pending), s, [source |-> source, elapsed |-> 0])
    /\ completed' = Live(completed)
    /\ UNCHANGED <<uptime, code, elapsed, failures, panicked>>

\* The 128-bit random id is one that no live exchange has.
start_for_source(source, s) ==
    /\ ~Expired
    /\ ~RateLimited(source)
    /\ s \notin DOMAIN pending \cup DOMAIN completed
    /\ pending' = Insert(Live(pending), s, [source |-> source, elapsed |-> 0])
    /\ completed' = Live(completed)
    /\ UNCHANGED <<uptime, code, elapsed, failures, panicked>>

\* A confirmed exchange: the same confirmation gets the stored result, any
\* other gets Err(Invalid).  Neither changes more than the pruning does.
finish_completed(s) ==
    /\ s \in DOMAIN Live(completed)
    /\ prune_sessions
    /\ UNCHANGED <<uptime, code, elapsed, failures, panicked>>

\* Err(Invalid) for an id that names no live exchange.
finish_unknown(s) ==
    /\ s \notin DOMAIN Live(completed) \cup DOMAIN Live(pending)
    /\ prune_sessions
    /\ UNCHANGED <<uptime, code, elapsed, failures, panicked>>

\* The MAC does not verify: the exchange is used up and counted.
finish_failed(s) ==
    /\ s \notin DOMAIN Live(completed)
    /\ s \in DOMAIN Live(pending)
    /\ failures' = [failures EXCEPT
                      ![pending[s].source] = saturating_add(@)]
    /\ pending' = Remove(Live(pending), s)
    /\ completed' = Live(completed)
    /\ UNCHANGED <<uptime, code, elapsed, panicked>>

\* The MAC verifies: a fresh credential is returned and the exchange stays
\* pending until the caller commits, which it need not do.
finish_prepared(s) ==
    /\ s \notin DOMAIN Live(completed)
    /\ s \in DOMAIN Live(pending)
    /\ prune_sessions
    /\ UNCHANGED <<uptime, code, elapsed, failures, panicked>>

\* Faulty variant: the other exchanges stay pending.
Commit_keeping_pending(s, credential) ==
    /\ s \notin DOMAIN Live(completed)
    /\ s \in DOMAIN Live(pending)
    /\ pending' = Remove(Live(pending), s)
    /\ completed' = [x \in {s} |-> [credential |-> credential, elapsed |-> 0]]
    /\ UNCHANGED <<uptime, code, failures>>

\* finish, then commit under the same lock: every other exchange is dropped
\* and the exchange is kept for retries ...
Commit(s, credential) ==
    /\ s \notin DOMAIN Live(completed)
    /\ s \in DOMAIN Live(pending)
    /\ pending' = NoSessions
    /\ completed' = [x \in {s} |-> [credential |-> credential, elapsed |-> 0]]
    /\ UNCHANGED <<uptime, code, failures>>

\* Faulty variant: the code keeps its age.
finish_committed_reusable(s, credential) ==
    /\ uptime > PAIRING_LIFETIME
    /\ Commit(s, credential)
    /\ panicked' = FALSE
    /\ UNCHANGED elapsed

\* ... and last, the code is backdated past its lifetime.
finish_committed(s, credential) ==
    /\ uptime > PAIRING_LIFETIME
    /\ Commit(s, credential)
    /\ elapsed' = PAIRING_LIFETIME + 1
    /\ panicked' = FALSE

\* The machine booted less than a lifetime ago: the subtraction panics and
\* unwinds out of the request, and the code keeps its age.
commit_panicked(s, credential) ==
    /\ uptime <= PAIRING_LIFETIME
    /\ Commit(s, credential)
    /\ panicked' = TRUE
    /\ UNCHANGED elapsed

\* One second passes.
Tick ==
    /\ uptime' = IF uptime < Horizon - 1 THEN uptime + 1 ELSE uptime
    /\ elapsed' = Older(elapsed)
    /\ pending' = Aged(pending)
    /\ completed' = Aged(completed)
    /\ UNCHANGED <<code, failures, panicked>>
-----------------------------------------------------------------------------
Init ==
    \E c \in Codes, age \in 0..(PAIRING_LIFETIME + 1) :
        /\ uptime \in MinUptime..(Horizon - 1)
        /\ age <= uptime
        /\ code = c
        /\ elapsed = age
        /\ failures = [o \in Origins |-> 0]
        /\ pending = NoSessions
        /\ completed = NoSessions
        /\ panicked = FALSE

Next ==
    \/ \E c \in Codes : generate(c) \/ regenerate(c)
    \/ \E c \in Codes, age \in Ages : from_code_with_age(c, age)
    \/ start_expired
    \/ \E o \in Origins, wf \in BOOLEAN : start_refused(o, wf)
    \/ \E o \in Origins, s \in Sessions : start_for_source(o, s)
    \/ \E s \in Sessions : \/ finish_completed(s)
                           \/ finish_unknown(s)
                           \/ finish_failed(s)
                           \/ finish_prepared(s)
    \/ \E s \in Sessions, k \in Credentials : \/ finish_committed(s, k)
                                             \/ commit_panicked(s, k)
    \/ Tick

Spec == Init /\ [][Next]_pairingVars
-----------------------------------------------------------------------------
(* Properties *)

PendingOf(source) == Of(pending, source)

\* The exchanges a source may hold: the limit per source is not applied to a
\* start without a peer address.
SessionLimit(source) ==
    IF source = NoSource THEN MAX_PENDING_SESSIONS
                         ELSE MAX_PENDING_SESSIONS_PER_SOURCE

\* What the documentation promises: a code takes at most five failed key
\* confirmations per source (start_for_source and finish).
FailuresLimited ==
    \A o \in Origins : failures[o] <= MAX_CONFIRMATION_FAILURES

\* finish does not look at the failures already counted, so a source can go
\* on failing with the exchanges it holds.  What start_for_source guarantees
\* is a budget: failures counted and exchanges still pending together never
\* exceed one less than the failure limit plus the exchanges a source may
\* hold (pairing.rs start_for_source and finish).
FailureBudget ==
    \A o \in Origins :
        failures[o] + Cardinality(PendingOf(o))
            <= MAX_CONFIRMATION_FAILURES - 1 + SessionLimit(o)

\* The failure table is bounded, although finish adds a source to it without
\* a look at its size: the sources counted, with those that an exchange still
\* pending may add, stay below the two limits of start_for_source together.
TrackedSourcesBounded ==
    Cardinality(FailureSources \cup {pending[s].source : s \in DOMAIN pending})
        < MAX_FAILURE_SOURCES + MAX_PENDING_SESSIONS

\* An exchange that can still be confirmed was started while the code was
\* within its lifetime, so the code it confirms is at most two lifetimes old
\* (start_for_source tests the age of the code, finish only the age of the
\* exchange).
StartedWithinLifetime ==
    \A s \in DOMAIN Live(pending) :
        elapsed - pending[s].elapsed \in 0..PAIRING_LIFETIME

\* Once an exchange is committed its code is spent: as long as the commit is
\* remembered no other exchange is pending, and none can start (commit drops
\* the other exchanges and backdates the code, unless it panics before that).
SpentAfterCommit ==
    (DOMAIN completed # {} /\ ~panicked) => Expired /\ DOMAIN pending = {}
=============================================================================

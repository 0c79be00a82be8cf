---------------------------- MODULE HostPairing ----------------------------
(***************************************************************************)
(* Pairing on the host: the pair handler of server.rs, the management      *)
(* operations of management.rs, the stored identity of storage/, and the   *)
(* start, crash and reboot of the service (service/windows.rs), around the *)
(* pairing code of pairing.rs.                                             *)
(*                                                                         *)
(* The final phase of pair and generate_pairing_code hold the pairing and  *)
(* the identity mutex together, so each is one step for everybody else; a  *)
(* crash can still fall between their save and the rest.  The first phase  *)
(* of pair releases the identity mutex before it takes the pairing mutex:  *)
(* two steps.                                                              *)
(*                                                                         *)
(* pairing_created_at is kept as code_age, the wall clock minus the stored *)
(* time; it is negative after the clock was set back past that time.  The  *)
(* listener passes the peer address on, so no start is without a source.   *)
(***************************************************************************)
EXTENDS PairingCode

CONSTANTS
    NoCode,         \* pairing_code: None
    NoCredential,   \* credential: None
    ClockSteps      \* adjustments of the wall clock, in seconds

ASSUME ClockStepsAssumption == ClockSteps \subseteq Int

ASSUME NoneAssumption ==
    NoCode \notin Codes /\ NoCredential \notin Credentials

VARIABLES
    running,        \* the service process is up
    identity,       \* AppState.identity
    disk,           \* the stored identity
    admitted,       \* sources with a start past the AlreadyPaired test
    reply,          \* the credential in the last answer to a Deck
    codeAge         \* the real age of the stored code, for the properties

hostVars == <<pairingVars, running, identity, disk, admitted, reply, codeAge>>

WallAges == (-Horizon)..Horizon

HostIdentity ==
    [credential : Credentials \cup {NoCredential},
     pairing_code : Codes \cup {NoCode},
     code_age : WallAges]

HostTypeOK ==
    /\ TypeOK
    /\ running \in BOOLEAN
    /\ identity \in HostIdentity
    /\ disk \in HostIdentity
    /\ admitted \subseteq Sources
    /\ reply \in Credentials \cup {NoCredential}
    /\ codeAge \in Ages
-----------------------------------------------------------------------------
(* Helpers *)

AlreadyPaired ==
    identity.credential # NoCredential /\ identity.pairing_code = NoCode

\* The identity that the final phase of pair saves.
Paired(k) == [credential |-> k, pairing_code |-> NoCode, code_age |-> 0]

\* The identity that generate_pairing_code saves.
WithCode(c) == [identity EXCEPT !.pairing_code = c, !.code_age = 0]

\* Faulty variant: a stored code starts its lifetime again with the service.
persisted_code_age_restarted(age) == 0

\* Faulty variant: an age from the future is taken as it is.
persisted_code_age_unchecked(age) == age

\* An age from the future, like a missing one, counts as expired.
persisted_code_age(age) == IF age < 0 THEN PAIRING_LIFETIME + 1 ELSE age

\* 32 random bytes: no credential that is still held anywhere.
Fresh(k) ==
    /\ k \notin {identity.credential, disk.credential, reply}
    /\ \A s \in DOMAIN completed : completed[s].credential # k

\* The process is gone, with everything it held in memory.
Down ==
    /\ running' = FALSE
    /\ admitted' = {}
    /\ NewCode(code, elapsed)

Shifted(id, d) ==
    [id EXCEPT !.code_age =
        IF @ + d > Horizon THEN Horizon
        ELSE IF @ + d < -Horizon THEN -Horizon ELSE @ + d]
-----------------------------------------------------------------------------
(* POST /v1/pair, first phase *)

pair_already_paired ==
    /\ running
    /\ AlreadyPaired
    /\ UNCHANGED hostVars

pair_admitted(o) ==
    /\ running
    /\ ~AlreadyPaired
    /\ admitted' = admitted \cup {o}
    /\ UNCHANGED <<pairingVars, running, identity, disk, reply, codeAge>>

\* start_for_source, whatever has happened since the test.  A source may have
\* any number of requests in flight: others of its starts may still wait.
pair_start(o) ==
    /\ o \in admitted
    /\ admitted' \in {admitted, admitted \ {o}}
    /\ \/ start_expired
       \/ \E wf \in BOOLEAN : start_refused(o, wf)
       \/ \E s \in Sessions : start_for_source(o, s)
    /\ UNCHANGED <<running, identity, disk, reply, codeAge>>

\* The connections close and axum drops the handlers between the two locks.
pair_start_dropped(o) ==
    /\ o \in admitted
    /\ admitted' = admitted \ {o}
    /\ UNCHANGED <<pairingVars, running, identity, disk, reply, codeAge>>
-----------------------------------------------------------------------------
(* POST /v1/pair, final phase *)

\* Unknown session, wrong confirmation, or another confirmation for the
\* completed session.
pair_rejected(s) ==
    /\ running
    /\ finish_unknown(s) \/ finish_failed(s) \/ finish_completed(s)
    /\ UNCHANGED <<running, identity, disk, admitted, reply, codeAge>>

\* was_completed: the retry of a final request gets the stored answer.
pair_repeated(s) ==
    /\ running
    /\ finish_completed(s)
    /\ reply' = completed[s].credential
    /\ UNCHANGED <<running, identity, disk, admitted, codeAge>>

\* Faulty variant: the previous identity is not put back.
pair_not_saved_not_restored(s) ==
    /\ running
    /\ finish_prepared(s)
    /\ \E k \in Credentials : identity' = Paired(k)
    /\ UNCHANGED <<running, disk, admitted, reply, codeAge>>

\* The save fails and the previous identity is put back, or the handler is
\* dropped while it waits for the identity mutex.
pair_not_saved(s) ==
    /\ running
    /\ finish_prepared(s)
    /\ UNCHANGED <<running, identity, disk, admitted, reply, codeAge>>

pair_succeeded(s, k) ==
    /\ running
    /\ Fresh(k)
    /\ finish_committed(s, k)
    /\ identity' = Paired(k)
    /\ disk' = Paired(k)
    /\ reply' = k
    /\ UNCHANGED <<running, admitted, codeAge>>

\* commit panics after the save; the task unwinds and nothing is answered.
pair_panicked(s, k) ==
    /\ running
    /\ Fresh(k)
    /\ commit_panicked(s, k)
    /\ identity' = Paired(k)
    /\ disk' = Paired(k)
    /\ UNCHANGED <<running, admitted, reply, codeAge>>

\* The process dies between the save and the answer.
pair_crashed(s, k) ==
    /\ running
    /\ Fresh(k)
    /\ s \in DOMAIN Live(pending)
    /\ s \notin DOMAIN Live(completed)
    /\ disk' = Paired(k)
    /\ identity' = Paired(k)
    /\ Down
    /\ UNCHANGED <<uptime, reply, codeAge>>
-----------------------------------------------------------------------------
(* Management *)

\* What pairing_state shows to the control application.
pairing_state ==
    [paired |-> identity.credential # NoCredential,
     code |-> IF identity.pairing_code = NoCode THEN NoCode ELSE code,
     expires_in |-> IF elapsed > PAIRING_LIFETIME THEN 0
                                                  ELSE PAIRING_LIFETIME - elapsed]

\* A failed save returns before anything is changed: no step.
generate_pairing_code(c) ==
    /\ running
    /\ identity' = WithCode(c)
    /\ disk' = WithCode(c)
    /\ generate(c)
    /\ codeAge' = 0
    /\ UNCHANGED <<running, admitted, reply>>

generate_crashed(c) ==
    /\ running
    /\ identity' = WithCode(c)
    /\ disk' = WithCode(c)
    /\ codeAge' = 0
    /\ Down
    /\ UNCHANGED <<uptime, reply>>
-----------------------------------------------------------------------------
(* The process and the machine *)

crash ==
    /\ running
    /\ Down
    /\ identity' = disk
    /\ UNCHANGED <<uptime, disk, reply, codeAge>>

reboot ==
    /\ Down
    /\ identity' = disk
    /\ uptime' = MinUptime
    /\ UNCHANGED <<disk, reply, codeAge>>

\* Faulty variant: the service starts with a code of its own.
run_service_new_code ==
    /\ ~running
    /\ running' = TRUE
    /\ identity' = disk
    /\ \E c \in Codes : generate(c)
    /\ UNCHANGED <<disk, admitted, reply, codeAge>>

\* run_service up to Running.  from_code_with_age panics, and the process
\* dies, when the capped age is more than the uptime: no step then.
run_service ==
    /\ ~running
    /\ running' = TRUE
    /\ identity' = disk
    /\ \/ /\ disk.pairing_code # NoCode
          /\ from_code_with_age(disk.pairing_code,
                                persisted_code_age(disk.code_age))
       \/ /\ disk.pairing_code = NoCode
          /\ \E c \in Codes : generate(c)
    /\ UNCHANGED <<disk, admitted, reply, codeAge>>

\* One second passes on both clocks.
second ==
    /\ Tick
    /\ identity' = Shifted(identity, 1)
    /\ disk' = Shifted(disk, 1)
    /\ codeAge' = Older(codeAge)
    /\ UNCHANGED <<running, admitted, reply>>

\* The wall clock is adjusted.
clock_adjusted(d) ==
    /\ identity' = Shifted(identity, d)
    /\ disk' = Shifted(disk, d)
    /\ UNCHANGED <<pairingVars, running, admitted, reply, codeAge>>
-----------------------------------------------------------------------------
\* The first start: load_or_create has stored HostIdentity::default().
HostInit ==
    /\ running = TRUE
    /\ \E c \in Codes :
        /\ code = c
        /\ identity = [credential |-> NoCredential, pairing_code |-> c,
                       code_age |-> 0]
    /\ disk = identity
    /\ uptime \in MinUptime..(Horizon - 1)
    /\ elapsed = 0
    /\ failures = [o \in Origins |-> 0]
    /\ pending = NoSessions
    /\ completed = NoSessions
    /\ panicked = FALSE
    /\ admitted = {}
    /\ reply = NoCredential
    /\ codeAge = 0

HostNext ==
    \/ pair_already_paired
    \/ \E o \in Sources : \/ pair_admitted(o)
                          \/ pair_start(o)
                          \/ pair_start_dropped(o)
    \/ \E s \in Sessions : \/ pair_rejected(s)
                           \/ pair_repeated(s)
                           \/ pair_not_saved(s)
    \/ \E s \in Sessions, k \in Credentials : \/ pair_succeeded(s, k)
                                             \/ pair_panicked(s, k)
                                             \/ pair_crashed(s, k)
    \/ \E c \in Codes : generate_pairing_code(c) \/ generate_crashed(c)
    \/ crash
    \/ reboot
    \/ run_service
    \/ second
    \/ \E d \in ClockSteps : clock_adjusted(d)

HostSpec == HostInit /\ [][HostNext]_hostVars

\* Time passes, and the service control manager starts the service again
\* after a boot or a crash (the recovery actions of the installer).
HostFairSpec == HostSpec /\ WF_hostVars(second) /\ WF_hostVars(run_service)
-----------------------------------------------------------------------------
(* Properties *)

Contract == INSTANCE PairingContract
    WITH credential <- disk.credential,
         offered <- disk.pairing_code # NoCode

\* Pairing keeps its promise on disk: the credential changes only by using up
\* an outstanding code, once, or a code whose last use panicked, and a Deck is
\* answered the durable credential only (pair of server.rs with
\* start_for_source, finish and commit).
HostKeepsContract == Contract!Spec

\* The code on display is the stored one, so it is the code that works now
\* and after a restart (pairing_state, generate_pairing_code, run_service).
DisplayedCodeIsStored ==
    running => pairing_state.code = disk.pairing_code

\* A code past its lifetime starts no exchange, however often the service was
\* restarted since (persisted_code_age and from_code_with_age).
ExpiryIsFinal ==
    (running /\ disk.pairing_code # NoCode /\ codeAge > PAIRING_LIFETIME)
        => Expired

\* The answer kept for a retry holds the credential on disk, so a repeated
\* final request can never bring a replaced credential back (pair, commit,
\* generate_pairing_code).
RetryAnswersDurable ==
    \A s \in DOMAIN completed :
        completed[s].credential = disk.credential /\ disk.pairing_code = NoCode

\* After a crash or a boot the service comes back, although a stored code may
\* be older than the uptime (from_code_with_age caps the age it subtracts),
\* unless the machine is rebooted again and again.
ServiceComesBack ==
    []<><<reboot>>_hostVars \/ (~running ~> running)

\* What makes the above inductive: the identity in memory is the stored one,
\* and when no code is outstanding the host is paired, and unless the commit
\* panicked no exchange is pending and a start that passed the AlreadyPaired
\* test too early finds the code expired (pair, commit).
HostInvariant ==
    /\ identity = disk
    /\ DisplayedCodeIsStored
    /\ RetryAnswersDurable
    /\ running \/ (admitted = {} /\ DOMAIN pending = {})
    /\ disk.pairing_code = NoCode =>
        /\ disk.credential # NoCredential
        /\ panicked \/ (DOMAIN pending = {} /\ (Expired \/ admitted = {}))
    /\ panicked => running /\ disk.pairing_code = NoCode

\* What the documentation promises: a code is single-use.  The credential is
\* replaced only while a code is outstanding.
CodeIsSingleUse ==
    [][disk'.credential # disk.credential => disk.pairing_code # NoCode]_hostVars
=============================================================================

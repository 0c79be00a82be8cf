---------------------------- MODULE DevicePower ----------------------------
(***************************************************************************)
(* One PC as the Deck sees it: the view that polls and acts (useDevices.ts *)
(* and DeviceRow.tsx), the controller with its lock per device             *)
(* (controller.py), the client that turns answers into errors (client.py), *)
(* and the machine that is switched, woken and shut down.                  *)
(*                                                                         *)
(* A poll is one run of refresh: it copies the credential, waits for the   *)
(* host, changes the controller's state, and hands its result to the view  *)
(* that asked.  An action is one run of act.  Both go on in the backend    *)
(* when their view is unmounted.  The steps between two awaits are one     *)
(* step here.  The devices of the controller do not share state.           *)
(***************************************************************************)
EXTENDS Integers, Sequences

CONSTANTS
    Polls,              \* refreshes in flight, of all views so far
    Actions,            \* actions in flight, of all views so far
    Credentials,
    NoCredential,
    TRANSITION_TIMEOUT  \* transition_timeout, in seconds

ASSUME PowerAssumption ==
    /\ TRANSITION_TIMEOUT \in Nat \ {0}
    /\ NoCredential \notin Credentials
    /\ Polls \cap Actions = {}

VARIABLES
    power,          \* the machine; a host that is stopping still answers
    hostSecret,     \* the credential the host accepts
    secret,         \* the credential in the store of the Deck
    state,          \* Controller.states of the device
    timeLeft,       \* Controller.deadlines minus the monotonic clock
    lock,           \* Controller.locks: the holder and those who wait
    poll,
    action,
    received,       \* credentials of pair_device that are not stored yet
    mounted,        \* a view is mounted
    asked,          \* the polls and actions whose results it waits for
    shown           \* its statuses of the device

powerVars == <<power, hostSecret, secret, state, timeLeft, lock, poll, action,
               received, mounted, asked, shown>>

machineVars == <<power, hostSecret, secret, received>>

States == {"offline", "starting", "online", "stopping", "unknown"}

Transient == {"starting", "stopping"}

Pairing == {"unpaired", "paired", "pairing_failed"}

Status == [state : States, pairing : Pairing]

NoStatus == [state |-> "none", pairing |-> "unpaired"]

Secrets == Credentials \cup {NoCredential}

\* What a request of the client ends with: ok, or the kind of a HostError.
Kinds == {"ok", "authentication", "integrity", "protocol", "identity", "host",
          "unavailable"}

\* current: the view that asked is still the mounted one.
Poll ==
    [pc : {"idle"}, current : {FALSE}] \cup
    [pc : {"sent"}, current : BOOLEAN, secret : Secrets] \cup
    [pc : {"answered"}, current : BOOLEAN, secret : Secrets, kind : Kinds] \cup
    [pc : {"returns"}, current : BOOLEAN, result : Status]

Action ==
    [pc : {"idle"}, current : {FALSE}] \cup
    [pc : {"start", "stop"}, current : BOOLEAN, pairing : Pairing] \cup
    [pc : {"sent"}, current : BOOLEAN, pairing : Pairing, secret : Secrets] \cup
    [pc : {"answered"}, current : BOOLEAN, pairing : Pairing, kind : Kinds] \cup
    [pc : {"returns"}, current : BOOLEAN, result : Status]

PowerTypeOK ==
    /\ power \in {"off", "on", "stopping"}
    /\ hostSecret \in Secrets
    /\ secret \in Secrets
    /\ state \in States \cup {"none"}
    /\ timeLeft \in 0..TRANSITION_TIMEOUT
    /\ lock \in Seq(Actions)
    /\ poll \in [Polls -> Poll]
    /\ action \in [Actions -> Action]
    /\ received \subseteq Credentials
    /\ mounted \in BOOLEAN
    /\ asked \subseteq Polls \cup Actions
    /\ shown \in Status \cup {NoStatus}
-----------------------------------------------------------------------------
(* Helpers *)

Idle == [pc |-> "idle", current |-> FALSE]

\* _post with _verify_reply and _decode_error: how a request can end.  The
\* refusals of authenticate are not signed, so a client that has a credential
\* takes them for forged; some of them (clock, rate limit, failed save) meet a
\* valid credential as well.  Without a credential, another server at the
\* address may give any answer.
Answers(key) ==
    {"unavailable"} \cup
    (IF power = "off" THEN {}
     ELSE IF key = NoCredential THEN {"authentication", "protocol", "host"}
     ELSE IF key # hostSecret THEN {"integrity"}
     ELSE {"ok", "protocol", "integrity"})

\* Faulty variant: the deadline is not looked at.
Pending_for_ever(states) == IF state \in states THEN state ELSE "offline"

\* A transition that is not over yet stands against an unreachable host.
Pending(states) == IF state \in states /\ timeLeft > 0 THEN state ELSE "offline"

\* Faulty variant: the first poll of an unpaired device ends its start.
Probed_impatient(kind) ==
    [state |-> CASE kind = "authentication" -> "online"
                 [] kind = "protocol" -> "unknown"
                 [] OTHER -> "offline",
     pairing |-> "unpaired"]

\* _status after the await without a credential.
Probed(kind) ==
    [state |-> CASE kind = "authentication" -> "online"
                 [] kind = "protocol" -> "unknown"
                 [] OTHER -> Pending({"starting"}),
     pairing |-> "unpaired"]

\* _status after the await with a credential.
Checked(kind) ==
    [state |-> CASE kind \in {"ok", "authentication"} -> "online"
                 [] kind \in {"integrity", "protocol", "identity"} -> "unknown"
                 [] OTHER -> Pending(Transient),
     pairing |-> IF kind \in {"authentication", "identity"} THEN "pairing_failed"
                                                            ELSE "paired"]

_status(key, kind) == IF key = NoCredential THEN Probed(kind) ELSE Checked(kind)

\* asyncio.Lock hands itself to those who wait in their order.
Holds(a) == lock # <<>> /\ Head(lock) = a

\* Who holds the lock or waits for it.
InLine(a) == \E i \in 1..Len(lock) : lock[i] = a

Returns(a, result) ==
    action' = [action EXCEPT ![a] = [pc |-> "returns", current |-> @.current,
                                     result |-> result]]

\* Faulty variant: a state that the view does not know.
Failed_untyped(a) == [state |-> "failed", pairing |-> action[a].pairing]

Failed(a) == [state |-> "unknown", pairing |-> action[a].pairing]

\* The requests of an unmounted view go on without it.
Orphaned(f) ==
    [x \in DOMAIN f |-> [f[x] EXCEPT !.current = FALSE]]
-----------------------------------------------------------------------------
(* Polling *)

\* refresh and statuses up to the await; one refresh of a view at a time.
refresh(p) ==
    /\ mounted
    /\ \A q \in Polls : ~poll[q].current
    /\ poll[p] = Idle
    /\ poll' = [poll EXCEPT ![p] = [pc |-> "sent", current |-> TRUE,
                                    secret |-> secret]]
    /\ asked' = asked \cup {p}
    /\ UNCHANGED <<machineVars, state, timeLeft, lock, action, mounted, shown>>

status_answered(p) ==
    /\ poll[p].pc = "sent"
    /\ \E kind \in Answers(poll[p].secret) :
        poll' = [poll EXCEPT ![p] = [pc |-> "answered", current |-> @.current,
                                     secret |-> @.secret, kind |-> kind]]
    /\ UNCHANGED <<machineVars, state, timeLeft, lock, action, mounted, asked,
                   shown>>

\* _status goes on and ends in _result.
status_result(p) ==
    /\ poll[p].pc = "answered"
    /\ LET result == _status(poll[p].secret, poll[p].kind)
       IN  /\ state' = result.state
           /\ poll' = [poll EXCEPT ![p] = [pc |-> "returns",
                                           current |-> @.current,
                                           result |-> result]]
    /\ UNCHANGED <<machineVars, timeLeft, lock, action, mounted, asked, shown>>

\* An exception that is no HostError, as for an answer that breaks off:
\* statuses reports it and the controller's state stays.
status_raised(p) ==
    /\ poll[p].pc = "sent"
    /\ power # "off"
    /\ poll' = [poll EXCEPT
                   ![p] = [pc |-> "returns", current |-> @.current,
                           result |-> [state |-> "unknown",
                                       pairing |-> IF @.secret = NoCredential
                                                   THEN "unpaired" ELSE "paired"]]]
    /\ UNCHANGED <<machineVars, state, timeLeft, lock, action, mounted, asked,
                   shown>>

\* The store cannot be read, or getDevices fails beside getStatuses, which the
\* backend then finishes for nobody: the view keeps what it shows.
refresh_failed(p) ==
    /\ \/ poll[p].pc = "sent" /\ poll' = [poll EXCEPT ![p] = Idle]
       \/ poll[p].current /\ poll' = [poll EXCEPT ![p].current = FALSE]
    /\ asked' = asked \ {p}
    /\ UNCHANGED <<machineVars, state, timeLeft, lock, action, mounted, shown>>

\* Faulty variant: a request in progress is never overwritten by a poll.
refreshed_keeping(p) ==
    /\ poll[p].pc = "returns"
    /\ shown' = IF poll[p].current /\ shown.state \notin Transient
                THEN poll[p].result ELSE shown
    /\ poll' = [poll EXCEPT ![p] = Idle]
    /\ asked' = asked \ {p}
    /\ UNCHANGED <<machineVars, state, timeLeft, lock, action, mounted>>

\* refresh goes on: setStatuses, unless the view is gone.
refreshed(p) ==
    /\ poll[p].pc = "returns"
    /\ shown' = IF poll[p].current THEN poll[p].result ELSE shown
    /\ poll' = [poll EXCEPT ![p] = Idle]
    /\ asked' = asked \ {p}
    /\ UNCHANGED <<machineVars, state, timeLeft, lock, action, mounted>>
-----------------------------------------------------------------------------
(* Acting *)

\* The button of DeviceRow starts or stops; otherwise it is disabled, or it
\* opens the pairing form.
Actionable ==
    shown.state = "offline" \/ shown = [state |-> "online", pairing |-> "paired"]

\* act up to the await.
act(a) ==
    /\ mounted
    /\ action[a] = Idle
    /\ Actionable
    /\ LET stopping == shown.state = "online"
       IN  /\ shown' = [shown EXCEPT !.state = IF stopping THEN "stopping"
                                                           ELSE "starting"]
           /\ action' = [action EXCEPT
                           ![a] = [pc |-> IF stopping THEN "stop" ELSE "start",
                                   current |-> TRUE, pairing |-> shown.pairing]]
    /\ lock' = Append(lock, a)
    /\ asked' = asked \cup {a}
    /\ UNCHANGED <<machineVars, state, timeLeft, poll, mounted>>

start(a) ==
    /\ Holds(a) /\ action[a].pc = "start"
    /\ state' = "starting"
    /\ timeLeft' = TRANSITION_TIMEOUT
    /\ Returns(a, [state |-> "starting",
                   pairing |-> IF secret = NoCredential THEN "unpaired"
                                                        ELSE "paired"])
    /\ lock' = Tail(lock)
    /\ UNCHANGED <<machineVars, poll, mounted, asked, shown>>

\* The packet cannot be sent, or it was sent and the credentials cannot be
\* read for the answer.
start_failed(a) ==
    /\ Holds(a) /\ action[a].pc = "start"
    /\ \/ UNCHANGED <<state, timeLeft>>
       \/ state' = "starting" /\ timeLeft' = TRANSITION_TIMEOUT
    /\ Returns(a, Failed(a))
    /\ lock' = Tail(lock)
    /\ UNCHANGED <<machineVars, poll, mounted, asked, shown>>

\* stop up to the await of the shutdown request, with the lock held.
stop(a) ==
    /\ Holds(a) /\ action[a].pc = "stop" /\ secret # NoCredential
    /\ action' = [action EXCEPT ![a] = [pc |-> "sent", current |-> @.current,
                                        pairing |-> @.pairing,
                                        secret |-> secret]]
    /\ UNCHANGED <<machineVars, state, timeLeft, lock, poll, mounted, asked,
                   shown>>

\* There is no credential, or the store cannot be read: StoreError.
stop_unpaired(a) ==
    /\ Holds(a) /\ action[a].pc = "stop"
    /\ Returns(a, Failed(a))
    /\ lock' = Tail(lock)
    /\ UNCHANGED <<machineVars, state, timeLeft, poll, mounted, asked, shown>>

Answered(a, kind) ==
    action' = [action EXCEPT ![a] = [pc |-> "answered", current |-> @.current,
                                     pairing |-> @.pairing, kind |-> kind]]

\* The host shuts down; its answer may be lost.
shutdown_accepted(a) ==
    /\ action[a].pc = "sent"
    /\ "ok" \in Answers(action[a].secret)
    /\ power' = "stopping"
    /\ \E kind \in {"ok", "unavailable"} : Answered(a, kind)
    /\ UNCHANGED <<hostSecret, secret, state, timeLeft, lock, poll, received,
                   mounted, asked, shown>>

\* The host refuses, or its shutdown API does, or the request is lost.
shutdown_refused(a) ==
    /\ action[a].pc = "sent"
    /\ \E kind \in Answers(action[a].secret) \cup {"host"} :
        /\ kind # "ok"
        /\ kind = "host" => "ok" \in Answers(action[a].secret)
        /\ Answered(a, kind)
    /\ UNCHANGED <<machineVars, state, timeLeft, lock, poll, mounted, asked,
                   shown>>

stopped(a) ==
    /\ action[a].pc = "answered" /\ action[a].kind = "ok"
    /\ state' = "stopping"
    /\ timeLeft' = TRANSITION_TIMEOUT
    /\ Returns(a, [state |-> "stopping", pairing |-> "paired"])
    /\ lock' = Tail(lock)
    /\ UNCHANGED <<machineVars, poll, mounted, asked, shown>>

\* Faulty variant: an error leaves the lock behind.
stop_failed_locked(a) ==
    /\ action[a].pc = "answered" /\ action[a].kind # "ok"
    /\ Returns(a, Failed(a))
    /\ UNCHANGED <<machineVars, state, timeLeft, lock, poll, mounted, asked,
                   shown>>

stop_failed(a) ==
    /\ action[a].pc = "answered" /\ action[a].kind # "ok"
    /\ Returns(a, Failed(a))
    /\ lock' = Tail(lock)
    /\ UNCHANGED <<machineVars, state, timeLeft, poll, mounted, asked, shown>>

\* act goes on: setStatuses, unless the view is gone.
acted(a) ==
    /\ action[a].pc = "returns"
    /\ shown' = IF action[a].current THEN action[a].result ELSE shown
    /\ action' = [action EXCEPT ![a] = Idle]
    /\ asked' = asked \ {a}
    /\ UNCHANGED <<machineVars, state, timeLeft, lock, poll, mounted>>
-----------------------------------------------------------------------------
(* The view, the store, the machine and the clock *)

mount ==
    /\ ~mounted
    /\ mounted' = TRUE
    /\ UNCHANGED <<machineVars, state, timeLeft, lock, poll, action, asked,
                   shown>>

\* Faulty variant: the requests of the old view are taken for its successor's.
unmount_keeping ==
    /\ mounted
    /\ mounted' = FALSE
    /\ shown' = NoStatus
    /\ asked' = {}
    /\ UNCHANGED <<machineVars, state, timeLeft, lock, poll, action>>

unmount ==
    /\ mounted
    /\ mounted' = FALSE
    /\ shown' = NoStatus
    /\ poll' = Orphaned(poll)
    /\ action' = Orphaned(action)
    /\ asked' = {}
    /\ UNCHANGED <<machineVars, state, timeLeft, lock>>

\* pair_device up to the end of its await: the host has a new credential, and
\* the Deck has received it.
pair_device(k) ==
    /\ power # "off" /\ k # hostSecret
    /\ hostSecret' = k
    /\ received' = received \cup {k}
    /\ UNCHANGED <<power, secret, state, timeLeft, lock, poll, action, mounted,
                   asked, shown>>

\* pair_device goes on: mark_paired stores the credential, or fails.
mark_paired(k) ==
    /\ k \in received
    /\ received' = received \ {k}
    /\ secret' \in {k, secret}
    /\ UNCHANGED <<power, hostSecret, state, timeLeft, lock, poll, action,
                   mounted, asked, shown>>

\* The host is paired with another Deck, or its answer to pair_device is lost.
paired_elsewhere(k) ==
    /\ power # "off" /\ k # hostSecret
    /\ hostSecret' = k
    /\ UNCHANGED <<power, secret, state, timeLeft, lock, poll, action,
                   received, mounted, asked, shown>>

switched_on ==
    /\ power = "off"
    /\ power' = "on"
    /\ UNCHANGED <<hostSecret, secret, state, timeLeft, lock, poll, action,
                   received, mounted, asked, shown>>

switched_off ==
    /\ power # "off"
    /\ power' = "off"
    /\ UNCHANGED <<hostSecret, secret, state, timeLeft, lock, poll, action,
                   received, mounted, asked, shown>>

second ==
    /\ timeLeft > 0
    /\ timeLeft' = timeLeft - 1
    /\ UNCHANGED <<machineVars, state, lock, poll, action, mounted, asked,
                   shown>>
-----------------------------------------------------------------------------
Init ==
    /\ power \in {"off", "on"}
    /\ hostSecret \in Secrets
    /\ secret \in Secrets
    /\ state = "none"
    /\ timeLeft = 0
    /\ lock = <<>>
    /\ poll = [p \in Polls |-> Idle]
    /\ action = [a \in Actions |-> Idle]
    /\ received = {}
    /\ mounted = FALSE
    /\ asked = {}
    /\ shown = NoStatus

PollNext(p) ==
    \/ refresh(p) \/ refresh_failed(p)
    \/ status_answered(p) \/ status_raised(p) \/ status_result(p)
    \/ refreshed(p)

\* What an action does by itself, once the button is pressed.
ActionNext(a) ==
    \/ start(a) \/ start_failed(a)
    \/ stop(a) \/ stop_unpaired(a)
    \/ shutdown_accepted(a) \/ shutdown_refused(a)
    \/ stopped(a) \/ stop_failed(a)
    \/ acted(a)

Next ==
    \/ \E p \in Polls : PollNext(p)
    \/ \E a \in Actions : act(a) \/ ActionNext(a)
    \/ \E k \in Credentials : pair_device(k) \/ mark_paired(k)
                              \/ paired_elsewhere(k)
    \/ mount \/ unmount
    \/ switched_on \/ switched_off
    \/ second

Spec == Init /\ [][Next]_powerVars

\* The interval of useDevices polls as long as a view is mounted, a request
\* ends with its timeout of four seconds, the event loop runs what is ready,
\* and time passes.
FairSpec ==
    /\ Spec
    /\ WF_powerVars(second)
    /\ \A p \in Polls : WF_powerVars(PollNext(p))
    /\ \A a \in Actions : WF_powerVars(ActionNext(a))
-----------------------------------------------------------------------------
(* Properties *)

\* The controller never gives up a wake before its time: until the deadline
\* only an answer of the machine ends the starting state, whichever polls were
\* in flight when the packet was sent (start and _status of controller.py).
WakeNotCutShort ==
    [][(state = "starting" /\ timeLeft > 0) => state' # "offline"]_powerVars

\* Whoever waits for a shutdown to be answered has the lock of the device, so
\* two of them never run at once (stop of controller.py).
OneStopAtATime ==
    \A a \in Actions : action[a].pc \in {"sent", "answered"} => Holds(a)

\* A view shows the result of a request only if it has made the request itself:
\* what the backend answers to an earlier view is shown neither when no view is
\* mounted nor in the next one (the mounted flag and the generation of
\* useDevices).
ShownIsOwn ==
    [][shown' # shown => \/ mounted /\ ~mounted'
                         \/ \E a \in Actions : act(a)
                         \/ \E x \in asked : x \notin asked']_powerVars

\* A button press never blocks the device for good: every action comes to its
\* end and leaves the lock of the device, whatever the host or the store answer
\* and whoever waits before it, so that the lock goes on to the next one (start
\* and stop of controller.py, act of useDevices).
ActionsEnd ==
    \A a \in Actions : action[a] # Idle ~> (action[a] = Idle /\ ~InLine(a))

\* Starting and stopping are left again, by an answer or at the deadline, as
\* long as the store can be read (_status of controller.py and the interval of
\* useDevices).
TransientEnds ==
    \/ []<><<\E p \in Polls : refresh_failed(p)>>_powerVars
    \/ shown.state \in Transient ~> shown.state \notin Transient

\* Once the machine stays off and nobody acts, the mounted view comes to show
\* it as offline and stays there, whatever was shown, answered late or left
\* over before.
OffIsShown ==
    (/\ <>[](power = "off" /\ mounted /\ \A a \in Actions : action[a] = Idle)
     /\ ~[]<><<\E p \in Polls : refresh_failed(p)>>_powerVars)
        => <>[](shown.state = "offline")
=============================================================================

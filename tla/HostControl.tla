---------------------------- MODULE HostControl ----------------------------
(***************************************************************************)
(* The control application of the host (HostControlViewModel.cs and        *)
(* MainWindow.xaml.cs), its requests over the management pipe              *)
(* (ManagementClient.cs), and the service at the other end: the accept     *)
(* loop and the handlers of management_ipc.rs, and the end of the service  *)
(* in service/windows.rs.                                                  *)
(*                                                                         *)
(* The window starts a refresh whenever it is activated, and from its      *)
(* timer while the service is unavailable; none of them waits for another. *)
(* What the view model does between two awaits is one step on the UI       *)
(* thread.  The host is reduced to the code it displays and the time this  *)
(* has left; HostPairing models it in full.                                *)
(***************************************************************************)
EXTENDS Integers

CONSTANTS
    Requests,           \* requests of the window in flight
    MayHang,            \* those that may stay unanswered once connected
    Codes,
    NoCode,
    PAIRING_LIFETIME,
    MAX_PIPE_FAILURES   \* consecutive failures that end serve

ASSUME ControlAssumption ==
    /\ MayHang \subseteq Requests
    /\ PAIRING_LIFETIME \in Nat \ {0}
    /\ MAX_PIPE_FAILURES \in Nat \ {0}
    /\ NoCode \notin Codes

VARIABLES
    service,        \* stopped: it ended with exit code 0; crashed: it did not
    pipe,           \* where serve is; listening: an instance waits for a client
    failures,       \* consecutive_failures
    code,           \* the code that pairing_state shows
    left,           \* its expires_in
    request,
    view,           \* what the view model shows
    expiresAt       \* HostControlViewModel.expiresAt minus the clock

controlVars == <<service, pipe, failures, code, left, request, view, expiresAt>>

Shown == Codes \cup {NoCode}

Seconds == 0..PAIRING_LIFETIME

NoTime == -1

ManagementState == [ok : BOOLEAN, code : Shown, left : Seconds]

Operations == {"get_service_info", "generate_pairing_code"}

Idle == [pc |-> "idle"]

Request ==
    {Idle} \cup [pc : {"connecting", "sent"}, operation : Operations]
        \cup [pc : {"answered"}, response : ManagementState]
        \cup [pc : {"failed"}]

View ==
    [status : {"Checking", "Running", "Unavailable"}, code : Shown,
     expiration : {"none", "counting", "Expired"}, error : BOOLEAN,
     busy : BOOLEAN]

ControlTypeOK ==
    /\ service \in {"running", "stopped", "crashed"}
    /\ pipe \in {"create", "listening", "retry"}
    /\ failures \in 0..(MAX_PIPE_FAILURES - 1)
    /\ code \in Shown
    /\ left \in Seconds
    /\ request \in [Requests -> Request]
    /\ view \in View
    /\ expiresAt \in Seconds \cup {NoTime}

hostState == <<code, left>>

pipeVars == <<service, pipe, failures>>
-----------------------------------------------------------------------------
(* The view model and its window *)

\* What Tick makes of an expiresAt.
Expiration(t) ==
    IF t = NoTime THEN "none" ELSE IF t = 0 THEN "Expired" ELSE "counting"

\* ExecuteAsync up to the await.
ExecuteAsync(r, operation) ==
    /\ request[r] = Idle
    /\ request' = [request EXCEPT ![r] = [pc |-> "connecting",
                                          operation |-> operation]]
    /\ view' = [view EXCEPT !.busy = TRUE, !.error = FALSE]
    /\ UNCHANGED <<pipeVars, hostState, expiresAt>>

\* The window is activated, however often.
activated(r) == ExecuteAsync(r, "get_service_info")

\* The button is enabled by CanGenerate.
GeneratePairingCode_Click(r) ==
    /\ ~view.busy
    /\ ExecuteAsync(r, "generate_pairing_code")

\* The timer: Tick, and no refresh this second.
timer_tick ==
    /\ view' = [view EXCEPT !.expiration = Expiration(expiresAt)]
    /\ UNCHANGED <<pipeVars, hostState, request, expiresAt>>

\* Faulty variant: the timer does not refresh a busy view.
timer_refresh_at_rest(r) ==
    /\ view.status = "Unavailable" /\ ~view.busy
    /\ request[r] = Idle
    /\ request' = [request EXCEPT ![r] = [pc |-> "connecting",
                                          operation |-> "get_service_info"]]
    /\ view' = [view EXCEPT !.expiration = Expiration(expiresAt),
                            !.busy = TRUE, !.error = FALSE]
    /\ UNCHANGED <<pipeVars, hostState, expiresAt>>

\* The timer: Tick, and a refresh, every fifth second while unavailable.
timer_refresh(r) ==
    /\ view.status = "Unavailable"
    /\ request[r] = Idle
    /\ request' = [request EXCEPT ![r] = [pc |-> "connecting",
                                          operation |-> "get_service_info"]]
    /\ view' = [view EXCEPT !.expiration = Expiration(expiresAt),
                            !.busy = TRUE, !.error = FALSE]
    /\ UNCHANGED <<pipeVars, hostState, expiresAt>>

\* Faulty variant: the answer to a failed operation leaves IsBusy set.
Apply_busy(r) ==
    /\ request[r].pc = "answered"
    /\ LET reply == request[r].response
           t == IF reply.code = NoCode THEN NoTime ELSE reply.left
       IN  \/ /\ reply.ok
              /\ expiresAt' = t
              /\ view' = [status |-> "Running", code |-> reply.code,
                          expiration |-> Expiration(t), error |-> view.error,
                          busy |-> FALSE]
           \/ /\ ~reply.ok
              /\ view' = [view EXCEPT !.status = "Running", !.error = TRUE]
              /\ UNCHANGED expiresAt
    /\ request' = [request EXCEPT ![r] = Idle]
    /\ UNCHANGED <<pipeVars, hostState>>

\* Apply, then the end of ExecuteAsync.  The answer to a failed operation
\* leaves the code as it is.
Apply(r) ==
    /\ request[r].pc = "answered"
    /\ LET reply == request[r].response
           t == IF reply.code = NoCode THEN NoTime ELSE reply.left
       IN  \/ /\ reply.ok
              /\ expiresAt' = t
              /\ view' = [status |-> "Running", code |-> reply.code,
                          expiration |-> Expiration(t), error |-> view.error,
                          busy |-> FALSE]
           \/ /\ ~reply.ok
              /\ view' = [view EXCEPT !.status = "Running", !.error = TRUE,
                                      !.busy = FALSE]
              /\ UNCHANGED expiresAt
    /\ request' = [request EXCEPT ![r] = Idle]
    /\ UNCHANGED <<pipeVars, hostState>>

\* Faulty variant: the code of the service that is gone stays.
ExecuteAsync_failed_keeping(r) ==
    /\ request[r].pc = "failed"
    /\ view' = [view EXCEPT !.status = "Unavailable", !.error = TRUE,
                            !.busy = FALSE]
    /\ request' = [request EXCEPT ![r] = Idle]
    /\ UNCHANGED <<pipeVars, hostState, expiresAt>>

\* The handler of exceptions in ExecuteAsync; expiresAt stays.
ExecuteAsync_failed(r) ==
    /\ request[r].pc = "failed"
    /\ view' = [status |-> "Unavailable", code |-> NoCode, expiration |-> "none",
                error |-> TRUE, busy |-> FALSE]
    /\ request' = [request EXCEPT ![r] = Idle]
    /\ UNCHANGED <<pipeVars, hostState, expiresAt>>
-----------------------------------------------------------------------------
(* The pipe *)

Listening == service = "running" /\ pipe = "listening"

\* The handlers end with the process; an answer may be on its way already.
Abandoned ==
    [r \in Requests |-> IF request[r].pc = "sent" THEN [pc |-> "failed"]
                                                 ELSE request[r]]

\* Faulty variant: one failure more is allowed.
PipeFailure_off_by_one ==
    /\ service = "running"
    /\ \/ /\ failures + 1 <= MAX_PIPE_FAILURES
          /\ failures' = failures + 1
          /\ pipe' = "retry"
          /\ UNCHANGED <<service, request>>
       \/ /\ failures + 1 > MAX_PIPE_FAILURES
          /\ service' = "stopped"
          /\ pipe' = "create"
          /\ failures' = 0
          /\ request' = Abandoned
    /\ UNCHANGED <<hostState, view, expiresAt>>

\* A failure of create_pipe or of connect: the last of MAX_PIPE_FAILURES in a
\* row ends serve, and with it the service.
PipeFailure ==
    /\ service = "running"
    /\ \/ /\ failures + 1 < MAX_PIPE_FAILURES
          /\ failures' = failures + 1
          /\ pipe' = "retry"
          /\ UNCHANGED <<service, request>>
       \/ /\ failures + 1 >= MAX_PIPE_FAILURES
          /\ service' = "stopped"
          /\ pipe' = "create"
          /\ failures' = 0
          /\ request' = Abandoned
    /\ UNCHANGED <<hostState, view, expiresAt>>

\* Faulty variant: an instance that was created resets the count.
create_pipe_resetting ==
    /\ service = "running" /\ pipe = "create"
    /\ pipe' = "listening"
    /\ failures' = 0
    /\ UNCHANGED <<service, hostState, request, view, expiresAt>>

create_pipe ==
    /\ service = "running" /\ pipe = "create"
    /\ pipe' = "listening"
    /\ UNCHANGED <<service, failures, hostState, request, view, expiresAt>>

create_pipe_failed == pipe = "create" /\ PipeFailure

connect_failed == pipe = "listening" /\ PipeFailure

\* The sleep of retry_delay is over.
retry ==
    /\ service = "running" /\ pipe = "retry"
    /\ pipe' = "create"
    /\ UNCHANGED <<service, failures, hostState, request, view, expiresAt>>

\* A client connects: a handler is spawned for it and serve goes on with the
\* next instance.
connect(r) ==
    /\ Listening /\ request[r].pc = "connecting"
    /\ request' = [request EXCEPT ![r].pc = "sent"]
    /\ pipe' = "create"
    /\ failures' = 0
    /\ UNCHANGED <<service, hostState, view, expiresAt>>

\* ConnectAsync gives up after two seconds without an instance to connect to.
connect_timeout(r) ==
    /\ ~Listening /\ request[r].pc = "connecting"
    /\ request' = [request EXCEPT ![r] = [pc |-> "failed"]]
    /\ UNCHANGED <<pipeVars, hostState, view, expiresAt>>

Answers(r, reply) ==
    /\ service = "running" /\ request[r].pc = "sent"
    /\ request' = [request EXCEPT ![r] = [pc |-> "answered", response |-> reply]]
    /\ UNCHANGED <<pipeVars, view, expiresAt>>

handle_get(r) ==
    /\ request[r].pc = "sent" /\ request[r].operation = "get_service_info"
    /\ Answers(r, [ok |-> TRUE, code |-> code, left |-> left])
    /\ UNCHANGED hostState

handle_generate(r, c) ==
    /\ request[r].pc = "sent" /\ request[r].operation = "generate_pairing_code"
    /\ code' = c
    /\ left' = PAIRING_LIFETIME
    /\ Answers(r, [ok |-> TRUE, code |-> c, left |-> PAIRING_LIFETIME])

\* The new code cannot be saved.
handle_generate_failed(r) ==
    /\ request[r].pc = "sent" /\ request[r].operation = "generate_pairing_code"
    /\ Answers(r, [ok |-> FALSE, code |-> NoCode, left |-> 0])
    /\ UNCHANGED hostState

\* The pipe breaks, before or after the operation was carried out.
broken(r) ==
    /\ request[r].pc \in {"sent", "answered"}
    /\ request' = [request EXCEPT ![r] = [pc |-> "failed"]]
    /\ UNCHANGED <<pipeVars, hostState, view, expiresAt>>
-----------------------------------------------------------------------------
(* The service *)

\* The service is stopped, or its process dies.
service_ends(how) ==
    /\ service = "running"
    /\ service' = how
    /\ pipe' = "create"
    /\ failures' = 0
    /\ request' = Abandoned
    /\ UNCHANGED <<hostState, view, expiresAt>>

run_service ==
    /\ service # "running"
    /\ service' = "running"
    /\ UNCHANGED <<pipe, failures, hostState, request, view, expiresAt>>

\* A Deck pairs: the code is used up.
pair ==
    /\ service = "running" /\ code # NoCode
    /\ code' = NoCode
    /\ left' = 0
    /\ UNCHANGED <<pipeVars, request, view, expiresAt>>

second ==
    /\ left > 0 \/ expiresAt > 0
    /\ left' = IF left > 0 THEN left - 1 ELSE left
    /\ expiresAt' = IF expiresAt > 0 THEN expiresAt - 1 ELSE expiresAt
    /\ UNCHANGED <<pipeVars, code, request, view>>
-----------------------------------------------------------------------------
Init ==
    /\ service = "running"
    /\ pipe = "create"
    /\ failures = 0
    /\ code \in Codes
    /\ left = PAIRING_LIFETIME
    /\ request = [r \in Requests |-> Idle]
    /\ view = [status |-> "Checking", code |-> NoCode, expiration |-> "none",
               error |-> FALSE, busy |-> FALSE]
    /\ expiresAt = NoTime

\* What happens to a request once it was made.
RequestNext(r) ==
    \/ connect(r) \/ connect_timeout(r)
    \/ handle_get(r) \/ handle_generate_failed(r)
    \/ \E c \in Codes : handle_generate(r, c)
    \/ broken(r)
    \/ Apply(r) \/ ExecuteAsync_failed(r)

serve == create_pipe \/ create_pipe_failed \/ retry

Next ==
    \/ \E r \in Requests : \/ activated(r)
                           \/ GeneratePairingCode_Click(r)
                           \/ timer_refresh(r)
                           \/ RequestNext(r)
    \/ timer_tick
    \/ serve \/ connect_failed
    \/ \E how \in {"stopped", "crashed"} : service_ends(how)
    \/ run_service
    \/ pair
    \/ second

Spec == Init /\ [][Next]_controlVars

\* The timer of the window runs, a request connects or times out, an answer is
\* shown, the accept loop goes on, and the service control manager restarts a
\* service that crashed.  Nothing bounds the wait for an answer once a request
\* is connected (SendAsync): those in MayHang may wait for ever.
FairSpec ==
    /\ Spec
    /\ WF_controlVars(timer_tick)
    /\ WF_controlVars(\E r \in Requests : timer_refresh(r))
    /\ \A r \in Requests :
          WF_controlVars(request[r].pc # "sent" /\ RequestNext(r))
    /\ \A r \in Requests \ MayHang : WF_controlVars(RequestNext(r))
    /\ WF_controlVars(serve)
    /\ WF_controlVars(service = "crashed" /\ run_service)
-----------------------------------------------------------------------------
(* Properties *)

\* A window at rest that calls the service unavailable says why and shows no
\* code that the user could try, however its requests overlapped (ExecuteAsync
\* and Apply of HostControlViewModel).
UnavailableExplained ==
    view.status = "Unavailable" => /\ view.code = NoCode
                                   /\ view.busy \/ view.error

\* The window is busy on account of a request that has not ended: whichever of
\* the overlapping requests set or reset IsBusy last, no request is left to
\* clear it only if it is clear (ExecuteAsync).
BusyHasRequest ==
    view.busy => \E r \in Requests : request[r].pc # "idle"

\* A code on display always has its expiration beside it, and the time that
\* the next Tick computes it from: a failure in between takes back the code
\* and the text, and the answer to a failed operation neither (Apply, Tick and
\* ExecuteAsync of HostControlViewModel).
CodeHasExpiration ==
    view.code # NoCode => view.expiration # "none" /\ expiresAt # NoTime

\* A pipe that keeps failing ends the service, unless clients connect in
\* between: Running is never shown to the service control manager for good
\* without management access (serve and run_service).
PipeFailuresEndService ==
    []<><<PipeFailure>>_controlVars =>
        \/ []<>(service # "running")
        \/ []<><<\E r \in Requests : connect(r)>>_controlVars

\* The button comes back: IsBusy never stays set, unless a connected request
\* is never answered (ExecuteAsync).
BusyEnds ==
    \/ view.busy ~> ~view.busy
    \/ \E r \in Requests : <>[](request[r].pc = "sent")

\* A service that runs again and whose pipe works is shown as running without
\* the user doing anything: the timer refreshes an unavailable view even while
\* another request hangs for ever and keeps it busy (the timer of MainWindow,
\* ExecuteAsync and serve).
RecoveryIsShown ==
    (/\ <>[](service = "running")
     /\ ~[]<><<PipeFailure>>_controlVars
     /\ ~[]<><<\E r \in Requests : connect_timeout(r) \/ broken(r)>>_controlVars)
        => <>[](view.status # "Unavailable")
=============================================================================

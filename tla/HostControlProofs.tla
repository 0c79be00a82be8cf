------------------------- MODULE HostControlProofs -------------------------
(***************************************************************************)
(* What the window of Host Control shows, however many of its requests     *)
(* overlap and however the pipe and the service fail.                      *)
(***************************************************************************)
EXTENDS HostControl, TLAPS

-----------------------------------------------------------------------------
(* Lemmas about the helpers *)

\* The parts of a well-typed view.
LEMMA ViewFacts ==
    ASSUME view \in View
    PROVE  /\ view.status \in {"Checking", "Running", "Unavailable"}
           /\ view.code \in Shown
           /\ view.expiration \in {"none", "counting", "Expired"}
           /\ view.error \in BOOLEAN /\ view.busy \in BOOLEAN
BY DEF View

\* Tick shows one of the three texts.
LEMMA ExpirationType ==
    ASSUME NEW t
    PROVE  Expiration(t) \in {"none", "counting", "Expired"}
BY DEF Expiration

\* A request that gets another state leaves the others alone.
LEMMA RequestType ==
    ASSUME request \in [Requests -> Request], NEW r \in Requests,
           NEW q \in Request
    PROVE  [request EXCEPT ![r] = q] \in [Requests -> Request]
OBVIOUS

\* The states that a request goes through.
LEMMA RequestStates ==
    /\ Idle \in Request
    /\ [pc |-> "failed"] \in Request
    /\ \A operation \in Operations :
        /\ [pc |-> "connecting", operation |-> operation] \in Request
        /\ [pc |-> "sent", operation |-> operation] \in Request
    /\ \A reply \in ManagementState :
        [pc |-> "answered", response |-> reply] \in Request
BY DEF Request, Idle

\* What the end of the process makes of the requests.
LEMMA AbandonedType ==
    ASSUME request \in [Requests -> Request]
    PROVE  Abandoned \in [Requests -> Request]
BY RequestStates DEF Abandoned

\* A request that was answered carries an answer, and one that was sent or
\* waits for the pipe has its operation.
LEMMA RequestFacts ==
    ASSUME request \in [Requests -> Request], NEW r \in Requests
    PROVE  /\ request[r].pc = "answered" =>
                request[r].response \in ManagementState
           /\ request[r].pc = "connecting" =>
                request[r] = [pc |-> "connecting",
                              operation |-> request[r].operation]
                /\ request[r].operation \in Operations
<1>1. request[r] \in Request
  OBVIOUS
<1> QED
  BY <1>1 DEF Request, Idle

-----------------------------------------------------------------------------
(* Types *)

\* A request of the window.
LEMMA StartedType ==
    ASSUME ControlTypeOK, NEW r \in Requests, NEW operation \in Operations,
           request' = [request EXCEPT ![r] = [pc |-> "connecting",
                                              operation |-> operation]]
    PROVE  request' \in [Requests -> Request]
BY RequestStates, RequestType, Zenon DEF ControlTypeOK

\* Every step keeps the types.
LEMMA ControlTypeStep ==
    ASSUME ControlTypeOK, [Next]_controlVars
    PROVE  ControlTypeOK'
<1> USE DEF pipeVars, hostState
<1>0. /\ request \in [Requests -> Request] /\ view \in View
      /\ code \in Shown /\ left \in Seconds
      /\ expiresAt \in Seconds \cup {NoTime}
  BY DEF ControlTypeOK
<1>1. ASSUME NEW r \in Requests, activated(r) \/ GeneratePairingCode_Click(r)
      PROVE  ControlTypeOK'
  <2>1. request' \in [Requests -> Request]
    BY <1>1, StartedType
    DEF activated, GeneratePairingCode_Click, ExecuteAsync, Operations
  <2>2. view' \in View
    BY <1>0, <1>1, Zenon
    DEF activated, GeneratePairingCode_Click, ExecuteAsync, View
  <2> QED
    BY <1>1, <2>1, <2>2
    DEF activated, GeneratePairingCode_Click, ExecuteAsync, ControlTypeOK
<1>2. ASSUME NEW r \in Requests, timer_refresh(r) PROVE ControlTypeOK'
  <2>1. request' \in [Requests -> Request]
    BY <1>2, StartedType, Zenon DEF timer_refresh, Operations
  <2>2. view' \in View
    BY <1>0, <1>2, ExpirationType, Zenon DEF timer_refresh, View
  <2> QED
    BY <1>2, <2>1, <2>2 DEF timer_refresh, ControlTypeOK
<1>3. CASE timer_tick
  <2>1. view' \in View
    BY <1>0, <1>3, ExpirationType DEF timer_tick, View
  <2> QED
    BY <1>3, <2>1 DEF timer_tick, ControlTypeOK
<1>4. ASSUME NEW r \in Requests, Apply(r) PROVE ControlTypeOK'
  <2>1. request' \in [Requests -> Request]
    BY <1>0, <1>4, RequestStates, RequestType DEF Apply
  <2>2. request[r].response \in ManagementState
    BY <1>0, <1>4, RequestFacts DEF Apply
  <2>3. /\ request[r].response.code \in Shown
        /\ request[r].response.left \in Seconds
    BY <2>2 DEF ManagementState
  <2>4. view' \in View /\ expiresAt' \in Seconds \cup {NoTime}
    <3> DEFINE reply == request[r].response
               t == IF reply.code = NoCode THEN NoTime ELSE reply.left
    <3>1. CASE /\ expiresAt' = t
               /\ view' = [status |-> "Running", code |-> reply.code,
                           expiration |-> Expiration(t), error |-> view.error,
                           busy |-> FALSE]
      <4>1. view.error \in BOOLEAN
        BY <1>0, ViewFacts
      <4> QED
        BY <2>3, <3>1, <4>1, ExpirationType DEF View
    <3>2. CASE /\ view' = [view EXCEPT !.status = "Running", !.error = TRUE,
                                       !.busy = FALSE]
               /\ expiresAt' = expiresAt
      BY <1>0, <3>2, Zenon DEF View
    <3> QED
      BY <1>4, <3>1, <3>2 DEF Apply
  <2> QED
    BY <1>4, <2>1, <2>4 DEF Apply, ControlTypeOK
<1>5. ASSUME NEW r \in Requests, ExecuteAsync_failed(r) PROVE ControlTypeOK'
  <2>1. request' \in [Requests -> Request]
    BY <1>0, <1>5, RequestStates, RequestType DEF ExecuteAsync_failed
  <2>2. view' \in View
    BY <1>5 DEF ExecuteAsync_failed, View, Shown
  <2> QED
    BY <1>5, <2>1, <2>2 DEF ExecuteAsync_failed, ControlTypeOK
<1>6. ASSUME NEW r \in Requests, connect(r) PROVE ControlTypeOK'
  <2>1. /\ request[r] = [pc |-> "connecting",
                         operation |-> request[r].operation]
        /\ request[r].operation \in Operations
    BY <1>0, <1>6, RequestFacts DEF connect
  <2>2. [request[r] EXCEPT !.pc = "sent"]
            = [pc |-> "sent", operation |-> request[r].operation]
    BY <2>1
  <2>3. request' \in [Requests -> Request]
    BY <1>0, <1>6, <2>1, <2>2, RequestStates, RequestType DEF connect
  <2>4. 0 \in 0..(MAX_PIPE_FAILURES - 1)
    BY ControlAssumption
  <2> QED
    BY <1>6, <2>3, <2>4 DEF connect, ControlTypeOK
<1>7. ASSUME NEW r \in Requests, connect_timeout(r) \/ broken(r)
      PROVE  ControlTypeOK'
  <2>1. request' \in [Requests -> Request]
    BY <1>0, <1>7, RequestStates, RequestType DEF connect_timeout, broken
  <2> QED
    BY <1>7, <2>1 DEF connect_timeout, broken, ControlTypeOK
<1>8. ASSUME NEW r \in Requests, NEW reply \in ManagementState,
             Answers(r, reply)
      PROVE  request' \in [Requests -> Request]
  BY <1>0, <1>8, RequestStates, RequestType DEF Answers
<1>9. 0 \in Seconds /\ PAIRING_LIFETIME \in Seconds
  BY ControlAssumption DEF Seconds
<1>10. ASSUME NEW r \in Requests, handle_get(r) \/ handle_generate_failed(r)
       PROVE  ControlTypeOK'
  <2>1. /\ [ok |-> TRUE, code |-> code, left |-> left] \in ManagementState
        /\ [ok |-> FALSE, code |-> NoCode, left |-> 0] \in ManagementState
    BY <1>0, <1>9 DEF ManagementState, Shown
  <2>2. request' \in [Requests -> Request]
    BY <1>8, <1>10, <2>1 DEF handle_get, handle_generate_failed
  <2> QED
    BY <1>10, <2>2
    DEF handle_get, handle_generate_failed, Answers, ControlTypeOK
<1>11. ASSUME NEW r \in Requests, NEW c \in Codes, handle_generate(r, c)
       PROVE  ControlTypeOK'
  <2>1. [ok |-> TRUE, code |-> c, left |-> PAIRING_LIFETIME]
            \in ManagementState
    BY <1>9 DEF ManagementState, Shown
  <2>2. request' \in [Requests -> Request]
    BY <1>8, <1>11, <2>1 DEF handle_generate
  <2> QED
    BY <1>9, <1>11, <2>2 DEF handle_generate, Answers, ControlTypeOK, Shown
<1>12. ASSUME PipeFailure PROVE ControlTypeOK'
  <2>1. CASE /\ failures + 1 < MAX_PIPE_FAILURES
             /\ failures' = failures + 1 /\ pipe' = "retry"
             /\ UNCHANGED <<service, request>>
    BY <1>12, <2>1, ControlAssumption DEF PipeFailure, ControlTypeOK
  <2>2. CASE /\ service' = "stopped" /\ pipe' = "create" /\ failures' = 0
             /\ request' = Abandoned
    BY <1>12, <2>2, AbandonedType, ControlAssumption
    DEF PipeFailure, ControlTypeOK
  <2> QED
    BY <1>12, <2>1, <2>2 DEF PipeFailure
<1>13. CASE create_pipe \/ retry \/ run_service
  BY <1>13 DEF create_pipe, retry, run_service, ControlTypeOK
<1>14. ASSUME NEW how \in {"stopped", "crashed"}, service_ends(how)
       PROVE  ControlTypeOK'
  BY <1>14, AbandonedType, ControlAssumption DEF service_ends, ControlTypeOK
<1>15. CASE pair
  BY <1>9, <1>15 DEF pair, ControlTypeOK, Shown
<1>16. CASE second
  BY <1>16, ControlAssumption DEF second, ControlTypeOK, Seconds, NoTime
<1>17. CASE UNCHANGED controlVars
  BY <1>17 DEF controlVars, ControlTypeOK
<1> QED
  BY <1>1, <1>2, <1>3, <1>4, <1>5, <1>6, <1>7, <1>10, <1>11, <1>12, <1>13,
     <1>14, <1>15, <1>16, <1>17
  DEF Next, RequestNext, serve, create_pipe_failed, connect_failed

\* The types of the window, its requests and the pipe; the accept loop never
\* goes on with MAX_PIPE_FAILURES failures in a row (serve).
THEOREM ControlTypes == Spec => []ControlTypeOK
<1>1. Init => ControlTypeOK
  <2> SUFFICES ASSUME Init PROVE ControlTypeOK
    OBVIOUS
  <2>1. view \in View
    BY DEF Init, View, Shown
  <2>2. request \in [Requests -> Request]
    BY RequestStates DEF Init
  <2> QED
    BY <2>1, <2>2, ControlAssumption DEF Init, ControlTypeOK, Shown, Seconds
<1> QED
  BY <1>1, ControlTypeStep, PTL DEF Spec
-----------------------------------------------------------------------------
(* What the window shows *)

ViewInvariant ==
    /\ UnavailableExplained
    /\ BusyHasRequest
    /\ CodeHasExpiration

\* A step away from the window ends no request and moves no text.
LEMMA QuietStep ==
    ASSUME ViewInvariant, view' = view, expiresAt' = NoTime => expiresAt = NoTime,
           \A r \in Requests : request[r].pc # "idle" => request'[r].pc # "idle"
    PROVE  ViewInvariant'
BY DEF ViewInvariant, UnavailableExplained, BusyHasRequest, CodeHasExpiration

\* The end of the process ends no request of the window.
LEMMA AbandonedPending ==
    ASSUME NEW r \in Requests, request[r].pc # "idle"
    PROVE  Abandoned[r].pc # "idle"
<1>1. Abandoned[r] = IF request[r].pc = "sent" THEN [pc |-> "failed"]
                                               ELSE request[r]
  BY DEF Abandoned
<1> QED
  BY <1>1

\* A request that gets another state is the only one that changes.
LEMMA OthersKept ==
    ASSUME ControlTypeOK, NEW r \in Requests, NEW q,
           request' = [request EXCEPT ![r] = q], q.pc # "idle"
    PROVE  /\ request'[r].pc # "idle"
           /\ \A x \in Requests : request[x].pc # "idle" => request'[x].pc # "idle"
<1>1. \A x \in Requests : request'[x] = IF x = r THEN q ELSE request[x]
  BY DEF ControlTypeOK
<1> QED
  BY <1>1

\* ExecuteAsync up to the await: the view is busy and nothing is explained yet.
LEMMA BusyStep ==
    ASSUME ControlTypeOK, ViewInvariant, NEW r \in Requests, NEW text,
           NEW operation,
           request' = [request EXCEPT ![r] = [pc |-> "connecting",
                                              operation |-> operation]],
           view' = [view EXCEPT !.expiration = text, !.busy = TRUE,
                                !.error = FALSE],
           expiresAt' = expiresAt,
           view.code # NoCode => text # "none"
    PROVE  ViewInvariant'
<1>1. /\ view'.status = view.status /\ view'.code = view.code
      /\ view'.expiration = text /\ view'.busy = TRUE
  BY DEF ControlTypeOK, View
<1>2. [pc |-> "connecting", operation |-> operation].pc # "idle"
  OBVIOUS
<1>3. request'[r].pc # "idle"
  BY <1>2, OthersKept, Zenon
<1> QED
  BY <1>1, <1>3
  DEF ViewInvariant, UnavailableExplained, BusyHasRequest, CodeHasExpiration

\* Every step keeps it.
LEMMA ViewStep ==
    ASSUME ControlTypeOK, ViewInvariant, [Next]_controlVars
    PROVE  ViewInvariant'
<1> USE DEF pipeVars, hostState
<1>0. /\ request \in [Requests -> Request] /\ view \in View
      /\ expiresAt \in Seconds \cup {NoTime}
  BY DEF ControlTypeOK
<1>1. view.code # NoCode => Expiration(expiresAt) # "none"
  BY DEF ViewInvariant, CodeHasExpiration, Expiration
<1>2. ASSUME NEW r \in Requests, activated(r) \/ GeneratePairingCode_Click(r)
      PROVE  ViewInvariant'
  <2>1. PICK operation : ExecuteAsync(r, operation)
    BY <1>2 DEF activated, GeneratePairingCode_Click
  <2>2. view' = [view EXCEPT !.expiration = view.expiration, !.busy = TRUE,
                             !.error = FALSE]
    BY <1>0, <2>1, Zenon DEF ExecuteAsync, View
  <2>3. view.code # NoCode => view.expiration # "none"
    BY DEF ViewInvariant, CodeHasExpiration
  <2> QED
    BY <2>1, <2>2, <2>3, BusyStep, Zenon DEF ExecuteAsync
<1>3. ASSUME NEW r \in Requests, timer_refresh(r) PROVE ViewInvariant'
  BY <1>1, <1>3, BusyStep, Zenon DEF timer_refresh
<1>4. CASE timer_tick
  <2>1. /\ view'.status = view.status /\ view'.code = view.code
        /\ view'.expiration = Expiration(expiresAt)
        /\ view'.busy = view.busy /\ view'.error = view.error
    BY <1>0, <1>4 DEF timer_tick, View
  <2>2. expiresAt' = expiresAt /\ request' = request
    BY <1>4 DEF timer_tick
  <2> QED
    BY <1>1, <2>1, <2>2
    DEF ViewInvariant, UnavailableExplained, BusyHasRequest, CodeHasExpiration
<1>5. ASSUME NEW r \in Requests, Apply(r) PROVE ViewInvariant'
  <2> DEFINE reply == request[r].response
             t == IF reply.code = NoCode THEN NoTime ELSE reply.left
  <2>1. reply \in ManagementState
    BY <1>0, <1>5, RequestFacts DEF Apply
  <2>2. reply.code # NoCode => t # NoTime
    BY <2>1, ControlAssumption DEF ManagementState, Seconds, NoTime
  <2>3. CASE /\ expiresAt' = t
             /\ view' = [status |-> "Running", code |-> reply.code,
                         expiration |-> Expiration(t), error |-> view.error,
                         busy |-> FALSE]
    <3>1. reply.code # NoCode => Expiration(t) # "none"
      BY <2>2 DEF Expiration
    <3> HIDE DEF reply, t
    <3>2. /\ view'.status = "Running" /\ view'.code = reply.code
          /\ view'.expiration = Expiration(t) /\ view'.busy = FALSE
      BY <2>3
    <3> QED
      BY <2>2, <2>3, <3>1, <3>2
      DEF ViewInvariant, UnavailableExplained, BusyHasRequest,
          CodeHasExpiration
  <2>4. CASE /\ view' = [view EXCEPT !.status = "Running", !.error = TRUE,
                                     !.busy = FALSE]
             /\ expiresAt' = expiresAt
    <3>1. /\ view'.status = "Running" /\ view'.code = view.code
          /\ view'.expiration = view.expiration /\ view'.busy = FALSE
      BY <1>0, <2>4 DEF View
    <3> QED
      BY <2>4, <3>1
      DEF ViewInvariant, UnavailableExplained, BusyHasRequest,
          CodeHasExpiration
  <2> QED
    BY <1>5, <2>3, <2>4 DEF Apply
<1>6. ASSUME NEW r \in Requests, ExecuteAsync_failed(r) PROVE ViewInvariant'
  <2>1. /\ view'.code = NoCode /\ view'.error = TRUE /\ view'.busy = FALSE
    BY <1>6 DEF ExecuteAsync_failed
  <2> QED
    BY <2>1
    DEF ViewInvariant, UnavailableExplained, BusyHasRequest, CodeHasExpiration
<1>7. ASSUME NEW r \in Requests, connect(r) PROVE ViewInvariant'
  <2>1. /\ request[r] = [pc |-> "connecting",
                         operation |-> request[r].operation]
    BY <1>0, <1>7, RequestFacts DEF connect
  <2>2. request' = [request EXCEPT ![r] = [request[r] EXCEPT !.pc = "sent"]]
    BY <1>0, <1>7 DEF connect
  <2>3. [request[r] EXCEPT !.pc = "sent"].pc # "idle"
    BY <2>1
  <2> QED
    BY <1>7, <2>2, <2>3, OthersKept, QuietStep DEF connect
<1>8. ASSUME NEW r \in Requests, connect_timeout(r) \/ broken(r)
      PROVE  ViewInvariant'
  <2>1. [pc |-> "failed"].pc # "idle"
    OBVIOUS
  <2> QED
    BY <1>8, <2>1, OthersKept, QuietStep DEF connect_timeout, broken
<1>9. ASSUME NEW r \in Requests,
             \/ handle_get(r) \/ handle_generate_failed(r)
             \/ \E c \in Codes : handle_generate(r, c)
      PROVE  ViewInvariant'
  <2>1. PICK reply : Answers(r, reply)
    BY <1>9, Zenon DEF handle_get, handle_generate_failed, handle_generate
  <2>2. [pc |-> "answered", response |-> reply].pc # "idle"
    OBVIOUS
  <2> QED
    BY <2>1, <2>2, OthersKept, QuietStep DEF Answers
<1>10. ASSUME request' = request \/ request' = Abandoned,
              view' = view, expiresAt' = expiresAt
       PROVE  ViewInvariant'
  BY <1>10, AbandonedPending, QuietStep
<1>11. CASE second
  <2>1. expiresAt' = NoTime => expiresAt = NoTime
    BY <1>0, <1>11, ControlAssumption DEF second, Seconds, NoTime
  <2> QED
    BY <1>11, <2>1, QuietStep DEF second
<1>12. CASE \/ PipeFailure \/ create_pipe \/ retry \/ run_service \/ pair
            \/ UNCHANGED controlVars
            \/ \E how \in {"stopped", "crashed"} : service_ends(how)
  BY <1>10, <1>12
  DEF PipeFailure, create_pipe, retry, run_service, pair, controlVars,
      service_ends
<1> QED
  BY <1>2, <1>3, <1>4, <1>5, <1>6, <1>7, <1>8, <1>9, <1>11, <1>12
  DEF Next, RequestNext, serve, create_pipe_failed, connect_failed

LEMMA ViewInvariance == Spec => []ViewInvariant
<1>1. Init => ViewInvariant
  <2> SUFFICES ASSUME Init PROVE ViewInvariant
    OBVIOUS
  <2>1. view.status = "Checking" /\ view.code = NoCode /\ view.busy = FALSE
    BY DEF Init
  <2> QED
    BY <2>1
    DEF ViewInvariant, UnavailableExplained, BusyHasRequest, CodeHasExpiration
<1> QED
  BY <1>1, ViewStep, ControlTypes, PTL DEF Spec

\* Any number of requests may overlap: a window at rest that calls the service
\* unavailable says why, and shows no code (ExecuteAsync and Apply).
THEOREM AlwaysExplained == Spec => []UnavailableExplained
<1>1. ViewInvariant => UnavailableExplained
  BY DEF ViewInvariant
<1> QED
  BY <1>1, ViewInvariance, PTL

\* A window that is busy has a request whose end clears it (ExecuteAsync):
\* the safety half of BusyEnds.
THEOREM BusyAlwaysHasRequest == Spec => []BusyHasRequest
<1>1. ViewInvariant => BusyHasRequest
  BY DEF ViewInvariant
<1> QED
  BY <1>1, ViewInvariance, PTL

\* No code is ever on display without its expiration (Apply, Tick and the
\* handler of exceptions in ExecuteAsync).
THEOREM CodeAlwaysExpires == Spec => []CodeHasExpiration
<1>1. ViewInvariant => CodeHasExpiration
  BY DEF ViewInvariant
<1> QED
  BY <1>1, ViewInvariance, PTL
=============================================================================
